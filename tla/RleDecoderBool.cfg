CONSTANTS
  v1 = v1
  v2 = v2
  NoValue = NoValue
  Value = {TRUE, FALSE}
  IsBool = TRUE
  MaxRows = 4
  Overrun = 1
SPECIFICATION Spec
INVARIANTS TypeOK RoundTrip
PROPERTIES ImplementsCursor
