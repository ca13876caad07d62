CONSTANTS
  L1 = L1
  L2 = L2
  L3 = L3
  NoTree = NoTree
  Trees <- MCTrees
  Layouts <- MCLayouts
  LayoutBytes <- MCLayoutBytes
  BufferSizes <- MCBufferSizes
  Garbage <- MCGarbage
SPECIFICATION Spec
INVARIANTS NoOverread
