SPECIFICATION QueueFairSpec
CONSTANTS
  e1 = e1 e2 = e2 e3 = e3 k1 = k1 k2 = k2
  Events = {e1, e2}
  Issues = {k1, k2}
  IssueOf <- MCIssueOf
  Slots = {s1}
  NoSlot = NoSlot
  MaxRetries = 1
  MaxStarts = 2
  MaxReplays = 1
INVARIANTS QueueTypeOK WorkspaceExclusive OneAgentPerIssue SlotsExclusive NoStaleCancel
PROPERTIES CancelFailsTheRow EveryEventSettles
CHECK_DEADLOCK FALSE
