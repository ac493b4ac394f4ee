SPECIFICATION Spec
CONSTANTS
  Keys = {k1}
  Writers = {w1, w2}
  Readers = {r}
  MaxChunks = 2
INVARIANTS
  ReaderSeesOneVersion
CHECK_DEADLOCK FALSE
