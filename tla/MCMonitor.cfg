SPECIFICATION FairSpec
CONSTANTS
  here = here  there = there  s1 = s1
  Goals <- MCGoals
  Foreign <- MCForeign
  NoGoal = NoGoal  NoStatus = NoStatus
  Streams <- MCStreams
INVARIANTS
  OneFrameAfterStop
PROPERTIES
  SettledGoalIsDrawn
  ClickIsPursued
  StopReturns
