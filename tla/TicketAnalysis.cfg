SPECIFICATION FairSpec
CONSTANTS
  k1 = k1
  malformed = malformed
  t1 = t1
  t2 = t2
  Ticket = {k1}
  Malformed = {}
  Task = {t1, t2}
  MaxAttempts = 2
  Limit <- OverlapLimit
CHECK_DEADLOCK FALSE
INVARIANTS
  EventsAreTrue
  OutIsHeld
  StableIdentity
PROPERTIES
  JobsSettle
  DeliveriesRunOut
  ImplementsAtLeastOnceJob
  AnalysisIsFinal
