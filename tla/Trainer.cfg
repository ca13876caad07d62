CONSTANTS
  NoTask = NoTask
  Nodes <- MCNodes
  NodeStreams <- MCNodeStreams
  Order <- MCOrder
  Threads = 2
SPECIFICATION Spec
INVARIANTS TreeComplete
PROPERTIES TrainingEnds ImplementsAbstract
CHECK_DEADLOCK FALSE
