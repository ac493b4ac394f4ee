SPECIFICATION Spec
CONSTANTS
  Half = 2
  Null = Null
  NumGroups = 1
  MaxRows = 2
  OneSided = TRUE
INVARIANTS
  NoMatchSkipped
CHECK_DEADLOCK FALSE
