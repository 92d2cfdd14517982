SPECIFICATION Spec
CONSTANTS
  u1 = u1
  i1 = i1
  i2 = i2
  Users <- MCUsers
  Kinds <- MCKinds
  Instances <- MCOne
  Stamps <- MCStamps
  Earlier = 0
  MaxPolls = 2
  MaxRequests = 2
  MaxTopics = 2
  MaxMessages = 0
  Records <- MCRecords
  MaxTime = 2
  MaxLag = 3
INVARIANTS
  RequestsAccounted
  OneTopicPerRequest
CHECK_DEADLOCK FALSE
