CONSTANTS
  v1 = v1
  v2 = v2
  NoValue = NoValue
  Value <- NumericValues
  IsBool = FALSE
  MaxRows = 4
  Overrun = 0
SPECIFICATION Spec
INVARIANTS TypeOK RoundTrip
PROPERTIES CallsReturn ImplementsCursor

