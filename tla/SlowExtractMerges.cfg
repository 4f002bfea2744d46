SPECIFICATION Spec
CONSTANTS
  Graphs <- MCSlowGraphs
  OnChip <- MCOnChip
  Names <- MCNames
  MaxForms = 1
  Limit = 8
INVARIANTS
  EveryGraphReadsRight
