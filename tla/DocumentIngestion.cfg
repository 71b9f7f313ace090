SPECIFICATION FairSpec
CONSTANTS
  d1 = d1
  t1 = t1
  t2 = t2
  Doc = {d1}
  Unknown = {}
  Malformed = {}
  Task = {t1, t2}
  MaxAttempts = 2
  Limit <- OverlapLimit
CHECK_DEADLOCK FALSE
INVARIANTS
  RetrievalAgrees
  JobsAreAccountedFor
  RowsAreTrue
PROPERTIES
  JobsSettle
  DeliveriesRunOut
  ImplementsAtLeastOnceJob
  CompletedIsFinal
