SPECIFICATION FairSpec
CONSTANTS
  Job = {"j1", "j2"}
  Worker = {"w1", "w2"}
  Task = {"c1", "c2"}
  NoJob = "none"
  NoWorker = "none"
  MaxDisconnects = 1
CHECK_DEADLOCK FALSE
INVARIANTS
  DrainsAreExact
  OneCallbackPerJob
  NoJobIsStranded
PROPERTIES
  StopsEnd
  DrainsGetOn
  JobsSettle
