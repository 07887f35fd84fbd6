SPECIFICATION DeliverySpec
CONSTANTS
  h1 = h1
  h2 = h2
  NoHome = NoHome
  Home = {h1, h2}
  Workflow = {1, 2}
  WorkflowOf <- MCWorkflowOf
  Sha <- MCSha
  Reason = {"refresh", "merge", "stale-target-sha"}
  Budget = {3}
  MaxBackoff = 1
  Offered = {}
  MaxClock = 0
  MaxFaults = 1
  MaxAttempt = 1
  MaxGeneration = 4
  RequiresChecks = FALSE
CHECK_DEADLOCK FALSE
INVARIANT DeliveryTypeOK
INVARIANT ValidatedShaIsInHead
INVARIANT RecordedMergeHappened
PROPERTY LaneKeepsBaseFresh
PROPERTY RecordedHeadIsMerged
INVARIANT LaneIsGivenBack
