SPECIFICATION FairSpec
CONSTANTS
  Graphs <- MCSlowGraphs
  OnChip <- MCOnChip
  Names <- MCNames
  MaxForms = 2
  Limit = 8
INVARIANTS
  TypeOK
  FindsEveryTree
  ChildrenAreOperands
  ParentsKnowTheirChildren
  SomeNodeIsReady
  GraphsComplete
  FirstGraphReadsRight
  OneBufferReadsRight
PROPERTIES
  Terminates
