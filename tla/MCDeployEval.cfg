SPECIFICATION FairEvalSpec
CONSTANTS
  MaxSteps = 2
  Episodes = 2
  Deadline = 2
INVARIANTS
  RecordsAreConsistent
  RatesTrustedUnlessWarned
PROPERTIES
  EvaluationEnds
