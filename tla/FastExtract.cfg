SPECIFICATION FairSpec
CONSTANTS
  Graphs <- MCGraphs
  OnChip <- MCOnChip
  Names <- MCNames
  MaxForms = 2
INVARIANTS
  TypeOK
  ConstantsExact
  NeverStuck
  LinesInOrder
  SelectionComputesRoot
  WellFormed
  FindsOneBufferExtractions
PROPERTIES
  ConstantsHaveForms
  Terminates
