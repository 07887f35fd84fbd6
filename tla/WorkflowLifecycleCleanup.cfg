\* One workflow that either home may have to finish, with a crash and a fault.
SPECIFICATION LifecycleLiveSpec
CONSTANTS
  Homes = {1, 2}
  Founders = {1}
  Tickets = {1, 2}
  MaxWorkflows = 1
  MaxDrafts = 2
  MaxCrashes = 1
  MaxFaults = 1
  ReadsAreShort = TRUE
  Panels = {2}
  PollsBeside = FALSE
  LeasesOutlast = TRUE
CHECK_DEADLOCK FALSE
PROPERTY MergedIsCompleted
