SPECIFICATION ServiceSpec
CONSTANTS
  e1 = e1 e2 = e2 k1 = k1
  Events = {e1, e2}
  Issues = {k1}
  IssueOf <- MCIssueOf
  KindOf <- MCKindOf
  Slots = {s1}
  NoSlot = NoSlot
  MaxRetries = 1
  MaxStarts = 2
  MaxReplays = 0
  Happenings = {"outages", "interrupts"}
INVARIANTS ClosureTypeOK TickOwnsClaims
PROPERTIES   ClosuresSettle
CHECK_DEADLOCK FALSE
