SPECIFICATION Spec
CONSTANTS
  k1 = k1
  malformed = malformed
  t1 = t1
  t2 = t2
  Ticket = {k1}
  Malformed = {malformed}
  Task = {t1, t2}
  MaxAttempts = 3
  Limit <- ExclusiveLimit
CHECK_DEADLOCK FALSE
INVARIANTS
  CommittedIsAnnounced
