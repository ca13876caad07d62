CONSTANTS
  MinCapacity = 4
  RangeConfigs <- ValidRanges
  MaxSize = 20
SPECIFICATION Spec
INVARIANTS CapacityCoversRequests
PROPERTIES CapacityNeverShrinks CallsReturn
