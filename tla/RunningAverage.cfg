SPECIFICATION AverageSpec
CONSTANTS
  Modulus = 8
  Readings <- MCReadings
  Garbage = {5}
  InitialSize = 2
  Sizes = {0, 1, 2, 3}
INVARIANTS
  ExactWithinWidth
PROPERTIES
  SlidesAsAWindow
