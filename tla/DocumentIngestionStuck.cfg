SPECIFICATION Spec
CONSTANTS
  d1 = d1
  t1 = t1
  t2 = t2
  Doc = {d1}
  Unknown = {}
  Malformed = {}
  Task = {t1, t2}
  MaxAttempts = 3
  Limit <- StuckLimit
CHECK_DEADLOCK FALSE
SYMMETRY TaskSymmetry
INVARIANT AcknowledgedRowIsFinal
