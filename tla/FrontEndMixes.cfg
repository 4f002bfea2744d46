SPECIFICATION Spec
CONSTANTS
  Modules <- MCConvertedTwice
  Side = 2
  IterationLimit = 8
  Orders <- MCOrders
  Rank <- MCRank
INVARIANTS
  ClassesHoldOneValue
