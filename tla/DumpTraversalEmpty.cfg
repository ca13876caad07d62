CONSTANTS
  Files <- MCEmptyFiles
  StreamArgs <- MCStreamArgs
  Garbage <- MCZero
  IndexBits <- MCIndexBits
SPECIFICATION Spec
INVARIANTS NoBadStripe
