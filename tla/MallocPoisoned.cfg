SPECIFICATION Spec
CONSTANTS
  Graphs <- MCGraphs
  OnChip <- MCOnChip
  Capacity <- MCCapacity
  INT64_MAX = 1000
  MaxCalls = 2
  Short = 1
  Long = 2
  ChipSize = 3
  HBMSize = 5
INVARIANT
  EarlierGraphsDoNotMatter
