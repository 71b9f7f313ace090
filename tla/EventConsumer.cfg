SPECIFICATION FairEventSpec
CONSTANTS
  Ticket = {"t1"}
  Malformed = "malformed"
  Created = {"created-0"}
  Completed = {"completed-0"}
  Group = {"ticket-notifications"}
  Notifier = "ticket-notifications"
  NoPartition = "none"
  MaxRecords = 2
CHECK_DEADLOCK FALSE
INVARIANTS
  OffsetsAreTrue
PROPERTIES
  OffsetsAdvance
  EventsAreConsumed
