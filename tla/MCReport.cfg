SPECIFICATION Spec
CONSTANTS
  NumRuns = 2
  Algorithms = {"sac", "ppo"}
  Absent = Absent  Torn = Torn
INVARIANTS
  TablesAgree
PROPERTIES
  NoSeedIsDropped
