\* A session may die holding the lease while the other one wants it; wall clocks
\* are not stepped.
CONSTANTS
  Home = {h1, h2}
  NoHome = NoHome
  Ttl = 1
  MaxSkew = 0
  ClockSteps = FALSE
  MaxClock = 1
  MaxOid = 3
SPECIFICATION LiveSpec
INVARIANT KeptLeaseIsCurrent
PROPERTIES ImplementsFencedLease OrphanedLeaseIsTaken
\* every session may have crashed
CHECK_DEADLOCK FALSE
