SPECIFICATION FairSpec
CONSTANTS
  p1 = p1  p2 = p2  g1 = g1  g2 = g2  stop = stop  fwd = fwd
  Goals <- MCGoal
  NoGoal = NoGoal
  Poses <- MCPoses
  Within <- MCWithin
  Clearances <- MCClearances
  NoData = NoData
  SafetyStop = 1
  CollisionThreshold = 2
  Actions <- MCActions
  Stop <- stop
  MaxSteps = 1
  StepCap = 2
  Callers = {c1, c2}
  Hosts = {"policy_node", "deploy_eval"}
INVARIANTS
  GoalMeansEpisode
PROPERTIES
  GateHoldsUnderRaces
  WatchdogStopsWheels
