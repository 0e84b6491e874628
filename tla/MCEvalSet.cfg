SPECIFICATION FairSpec
CONSTANTS
  Draws <- MCDraws
  HalfExtent = 5
  Margin = 1
  Boxes <- MCBoxes
  Cylinders <- MCCylinders
  MinSep = 2
  Reach = 4
  Attempts = 2
  Counts = {1, 2}
  Runs = 2
INVARIANTS
  EpisodesAreLegal
  PrefixStable
  DrawsAreBounded
PROPERTIES
  GenerationEnds
