SPECIFICATION FairSpec
CONSTANTS
  Callers = {g1, g2, g3}
  Closers = {k1, k2}
  NoCaller = NoCaller
INVARIANTS
  SessionInv
  NoUseAfterFree
  FreedAtMostOnce
  WinningCloseIsFinal
  NoLeakAfterClose
PROPERTIES
  CallsReturn
  ImplementsContract
CHECK_DEADLOCK FALSE
