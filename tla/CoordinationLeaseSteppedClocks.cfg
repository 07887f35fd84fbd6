\* Two sessions whose wall clocks are stepped at any time.
CONSTANTS
  Home = {h1, h2}
  NoHome = NoHome
  Ttl = 1
  MaxSkew = 1
  ClockSteps = TRUE
  MaxClock = 1
  MaxOid = 3
SYMMETRY HomeSymmetry
SPECIFICATION Spec
INVARIANTS TypeOK FencingTokensAreUnique
PROPERTIES NoTakeoverOfLiveLease ReleaseIsFinal
\* every session may have crashed
CHECK_DEADLOCK FALSE
