CONSTANTS
  v1 = v1
  v2 = v2
  NoValue = NoValue
  Value <- NumericValues
  IsBool = FALSE
  MaxRows = 4
  Overrun = 1
SPECIFICATION Spec
INVARIANT NoReadPastEnd
