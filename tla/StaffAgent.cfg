SPECIFICATION AgentFairSpec
CONSTANTS
  u1 = u1
  u2 = u2
  u3 = u3
  t1 = t1
  t2 = t2
  r1 = r1
  r2 = r2
  a1 = a1
  Null = Null
  User = {u1, u2, u3}
  Ticket = {t1, t2}
  Value = {"a", "b", "c"}
  Request = {r1, r2}
  Ask = {a1}
  Pool = 2
  Operation <- Operations
  Start <- StartTables
  Order = {"o1", "o2"}
  Unsold = {"o3"}
  Buyer <- BuyerOf
  Allowed = {t1}
CHECK_DEADLOCK FALSE
INVARIANTS
  AgentTypeOK
  DirectoryIsSound
  PatchesSurvive
  ReadsAreConfined
  ConnectionsAreReturned
  RingsAreSwaps
  SomebodyCanGoOn
PROPERTIES
  RefusalsAreTrue
  EverythingIsAnswered
