SPECIFICATION Spec
CONSTANTS
  Modules <- MCConvertedSum
  Side = 2
  IterationLimit = 8
  Orders <- MCOrders
  Rank <- MCRank
INVARIANTS
  ClassesHoldOneValue
