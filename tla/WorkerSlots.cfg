\* Two homes, three tickets, a crash and a fault.
SPECIFICATION SlotsLiveSpec
CONSTANTS
  Homes = {1, 2}
  Tickets <- TwoAndOne
  Seed <- Different
  MaxSessions = 2
  LaunchIsPrompt = TRUE
  MaxToken = 8
  MaxFaults = 1
CHECK_DEADLOCK FALSE
INVARIANT SlotsTypeOK
INVARIANT NoTicketInTwoSlots
INVARIANT WithinCapacity
INVARIANT ProcessHasSlot
PROPERTY GrantsAreSerial
PROPERTY EveryTicketIsImplemented
