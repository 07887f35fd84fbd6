\* A ticket and one blocked by it; one fault and one stop of any kind.
SPECIFICATION PipelineSpec
CONSTANTS
  Tickets = {1, 2}
  Blockers <- Chain
  Slots = 2
  MaxAttempt = 2
  Stops = {"pause", "terminate", "emergency", "quit"}
  MaxStops = 1
  DiscardWaits = TRUE
  EventsAreShort = FALSE
  MaxFaults = 1
CHECK_DEADLOCK FALSE
INVARIANT PipelineTypeOK
INVARIANT IntegratedIsPushed
INVARIANT OneUnitInTheTree
PROPERTY UnitsPushVerified
