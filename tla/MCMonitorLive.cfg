SPECIFICATION FairSpec
CONSTANTS
  u1 = u1
  i1 = i1
  i2 = i2
  Users <- MCUsers
  Kinds <- MCKinds
  Instances <- MCOne
  Stamps <- MCUnstamped
  Earlier = 0
  MaxPolls = 1
  MaxRequests = 1
  MaxTopics = 1
  MaxMessages = 3
  Records <- MCGood
  MaxTime = 1
  MaxLag = 3
PROPERTIES
  PromptsTakenUp
CHECK_DEADLOCK FALSE
