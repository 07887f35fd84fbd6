\* Two sessions, of one machine or of two that share the checkout.
CONSTANTS
  s1 = s1
  s2 = s2
  s3 = s3
  Session = {s1, s2}
  Host = {"a", "b"}
  StaleAfter = 2
  Attempts = 3
  Faulty = {"read", "write"}
  MaxFaults = 1
  MaxClock = 3
  MaxToken = 3
SPECIFICATION LiveSpec
INVARIANTS TypeOK OneOwner NoForgottenLock
PROPERTY CheckoutIsTaken
\* every session may have crashed
CHECK_DEADLOCK FALSE
