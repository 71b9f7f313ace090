SPECIFICATION Spec
CONSTANTS
  r1 = r1
  r2 = r2
  r3 = r3
  r4 = r4
  Draft = {d1}
  Request = {r1, r2, r3, r4}
  StaffText = {"revised", "again"}
  Address = {"old@shop", "new@shop"}
  AiText = "ai"
  Nothing = Nothing
  d1 = d1
SYMMETRY RequestSymmetry
CHECK_DEADLOCK FALSE
INVARIANTS
  MailsAreRight
PROPERTIES
  ImplementsLifecycle
