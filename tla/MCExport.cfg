SPECIFICATION Spec
CONSTANTS
  N = 2
  StartRadius = 2  MaxRadius = 5  Increment = 2
  Window = 3  Threshold = 2
  Episodes = 3
  EvalFreq = 2  SaveFreq = 2
  MaxCalls = 4
  MaxStarts = 2
  Settings = {FALSE, TRUE}
  Uncapped = Uncapped  Running = Running
  Absent = Absent  Torn = Torn  None = None
INVARIANTS
  ExportOK
  OldOutcomesAtMostWorkers
  CoversTheSetOnce
  EpisodesFollowTheRadius
  KillIsNotTotalLoss
  ExportIsThePolicy
PROPERTIES
  ExpansionIsEarned
