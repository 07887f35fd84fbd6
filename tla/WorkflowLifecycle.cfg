\* Two homes that start workflows and may both work on them; two
\* workflows of two tickets, a crash and two faults.
SPECIFICATION LifecycleSpec
CONSTANTS
  Homes = {1, 2}
  Founders = {1, 2}
  Tickets = {1, 2}
  MaxWorkflows = 2
  MaxDrafts = 2
  MaxCrashes = 1
  MaxFaults = 2
  ReadsAreShort = TRUE
  Panels = {1}
  PollsBeside = FALSE
  LeasesOutlast = TRUE
CHECK_DEADLOCK FALSE
INVARIANT LifecycleTypeOK
INVARIANT OneWorkflowPerDraft
INVARIANT BreakdownIsComplete
 
PROPERTY NothingIsUndone
