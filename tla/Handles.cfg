SPECIFICATION Spec
CONSTANTS
  Callers = {g1, g2}
  Names = {n1, n2}
  BadNames = {bad}
  DefaultName = n1
  MaxHandles = 4
SYMMETRY CallerSymmetry
INVARIANTS
  HandlesInv
  NoCallbackAfterRelease
  FreedLeavesOnlyLeaks
PROPERTIES
  TableRegistrationSticks
CHECK_DEADLOCK FALSE
