SPECIFICATION Spec
CONSTANTS
  Graphs <- MCGraphs
  OnChip <- MCOnChip
  Names <- MCNames
  MaxForms = 2
INVARIANTS
  OperandsInBuffer
