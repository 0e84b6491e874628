SPECIFICATION FairSpec
CONSTANTS
  N = 2
  Faults = {"slow", "exits", "dies", "raise", "save"}
  None = None
INVARIANTS
  StoppedMeansGone
  OrderlyEndLeavesNothing
  ReadsOnlyWhatEnds
PROPERTIES
  MainEnds
