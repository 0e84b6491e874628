SPECIFICATION Spec
CONSTANTS
  stop = stop  fwd = fwd  s1 = s1  s2 = s2
  Actions <- MCActions
  Stop <- stop
  Places <- MCPlaces
  NoPlace = NoPlace
  BrakeUnits = 2
  Depth = 1
  MaxSteps = 2
  Starts = {0}
  EarlyReply = FALSE
  Overlap = 2
  Faults = {"slow_topic", "refused"}
  Horizon = 7
  InboxCap = 2
INVARIANTS
  NeverStale
  WorldAwaitsCaller
PROPERTIES
  LooksSynchronous
