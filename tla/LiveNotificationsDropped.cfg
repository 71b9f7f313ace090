SPECIFICATION FairSpec
CONSTANTS
  Ticket = {"t1"}
  Malformed = "malformed"
  Created = {}
  Completed = {"completed-0"}
  Group = {"ticket-notifications"}
  Notifier = "ticket-notifications"
  NoPartition = "none"
  MaxRecords = 1
  s1 = s1
  s2 = s2
  Socket = {s1, s2}
  Watched <- MCWatched
  Home <- MCHome
  Invalid = "invalid"
  MaxBuffer = 2
CHECK_DEADLOCK FALSE
PROPERTIES
  EachEventIsForwarded
