SPECIFICATION Spec
CONSTANTS
  Graphs <- MCGraphs
  OnChip <- MCOnChip
  Capacity <- MCCapacity
  INT64_MAX = 1000
  MaxCalls = 1
  Short = 2
  Long = 3
  ChipSize = 3
  HBMSize = 5
PROPERTIES
  ImplementsCompiler
INVARIANTS
  TypeOK
  TopologicalOrder
  OrdersWhatRootNeeds
  KernelIntact
  KernelCorrect
  AbortOnlyOnUnusedConstant
