SPECIFICATION EagerDeliverySpec
CONSTANTS
  h1 = h1
  h2 = h2
  NoHome = NoHome
  Home = {h1}
  Workflow = {1}
  WorkflowOf <- MCOneWorkflow
  Sha <- MCSha
  Reason = {"refresh", "merge", "stale-target-sha"}
  Budget = {3}
  MaxBackoff = 1
  Offered = {}
  MaxClock = 0
  MaxFaults = 1
  MaxAttempt = 1
  MaxGeneration = 4
  RequiresChecks = FALSE
CHECK_DEADLOCK FALSE
PROPERTY StaleTargetIsRefreshed
