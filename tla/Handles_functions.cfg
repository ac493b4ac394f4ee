SPECIFICATION Spec
CONSTANTS
  Callers = {g1, g2}
  Names = {n1, n2}
  BadNames = {bad}
  DefaultName = n1
  MaxHandles = 3
PROPERTIES
  FunctionRegistrationSticks
CHECK_DEADLOCK FALSE
