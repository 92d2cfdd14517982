SPECIFICATION Spec
CONSTANTS
  u1 = u1
  i1 = i1
  i2 = i2
  Users <- MCUsers
  Kinds <- MCKinds
  Instances <- MCOne
  Stamps <- MCUnstamped
  Earlier = 1
  MaxPolls = 2
  MaxRequests = 0
  MaxTopics = 1
  MaxMessages = 3
  Records <- MCGood
  MaxTime = 1
  MaxLag = 3
PROPERTIES
  OnlyHigher
CHECK_DEADLOCK FALSE
