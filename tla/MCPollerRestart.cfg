SPECIFICATION Spec
CONSTANTS
  p1 = p1
  p2 = p2
  Procs <- MCTwo
  Kinds <- MCClose
  MaxRequests = 2
  MaxTopics = 2
  MaxMessages = 1
  MaxSessions = 2
INVARIANTS
  TypeOK
  OneTopicPerRequest
SYMMETRY Symmetry
CHECK_DEADLOCK FALSE
