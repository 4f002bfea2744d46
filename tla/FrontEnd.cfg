SPECIFICATION Spec
CONSTANTS
  Modules <- MCModules
  Side = 2
  IterationLimit = 8
  Orders <- MCOrders
  Rank <- MCRank
INVARIANTS
  TypeOK
  ClassesHoldOneValue
  InfosAreTrue
  RootComputesModule
  InputsStandAlone
  HbmLaidOut
  SaturatedIsClosed
  NoMistake
  Saturates
