CONSTANTS
  Inputs = {i1, i2}
  TreeTxs = {t1, t2}
  Closed = closed
SPECIFICATION Spec
CHECK_DEADLOCK FALSE
INVARIANTS
  HonestFailure
