SPECIFICATION FairSpec
CONSTANTS
  stop = stop  fwd = fwd  s1 = s1  s2 = s2
  Actions = {stop}
  Stop <- stop
  Places <- MCStart
  NoPlace = NoPlace
  BrakeUnits = 2
  Depth = 1
  MaxSteps = 2
  Starts = {0, 3}
  EarlyReply = TRUE
  Overlap = 1
  Faults = {"refused", "late_reply"}
  Horizon = 8
  InboxCap = 1
INVARIANTS
  NeverWaitsInVain
  ReadingIsOnItsWay
PROPERTIES
  CallsReturn
  KeepsEpisodeContract
