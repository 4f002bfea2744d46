SPECIFICATION Spec
CONSTANTS
  Graphs <- MCGraphs
  OnChip <- MCOnChip
  Capacity <- MCCapacity
  INT64_MAX = 1000
  MaxCalls = 1
  Short = 1
  Long = 2
  ChipSize = 1
  HBMSize = 5
INVARIANT
  AllocatedTensorsFit
