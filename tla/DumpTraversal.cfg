CONSTANTS
  Files <- MCFiles
  StreamArgs <- MCStreamArgs
  Garbage <- MCGarbage
  IndexBits <- MCIndexBits
SPECIFICATION Spec
INVARIANTS VisitsAsRequested
