SPECIFICATION FairSpec
CONSTANTS
  p1 = p1  p2 = p2  g1 = g1  g2 = g2  stop = stop  fwd = fwd
  Goals <- MCGoals
  NoGoal = NoGoal
  Poses <- MCPoses
  Within <- MCWithin
  Clearances <- MCClearances
  NoData = NoData
  SafetyStop = 1
  CollisionThreshold = 2
  Actions <- MCActions
  Stop <- stop
  MaxSteps = 3
  WatchdogTimeout = 2
  ControlPeriod = 1
  AgeCap = 4
INVARIANTS
  WheelsStopWhenBlind
  DriveIsJustified
  SafetyTripEndsEpisode
  PrevActionNeverInvented
PROPERTIES
  KeepsEpisodeContract
  EpisodeEnds
