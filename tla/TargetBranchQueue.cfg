\* One workflow whose home is given every command at any time.
CONSTANTS
  a1 = a1
  a2 = a2
  b1 = b1
  Home = {a1}
  NoHome = NoHome
  Workflow = {1}
  WorkflowOf <- OneHome
  Sha = {1, 2}
  Reason = {"push-failed"}
  Budget = {1, 2}
  Offered <- AllCommands
  MaxBackoff = 2
  MaxClock = 2
  MaxFaults = 2
  MaxAttempt = 3
  MaxGeneration = 2
SPECIFICATION Spec
INVARIANTS TypeOK LaneFollowsCandidate
PROPERTIES CandidateLifecycle RetryBudgetIsKept
