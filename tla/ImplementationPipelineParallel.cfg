\* Two tickets implemented in parallel; no stop comes.
SPECIFICATION PipelineLiveSpec
CONSTANTS
  Tickets = {1, 2}
  Blockers <- Independent
  Slots = 2
  MaxAttempt = 3
  Stops = {}
  MaxStops = 0
  DiscardWaits = TRUE
  EventsAreShort = FALSE
  MaxFaults = 2
CHECK_DEADLOCK FALSE
INVARIANT OneUnitInTheTree
PROPERTY IntegratedIsNeverLost
PROPERTY EveryTicketIsClosed
