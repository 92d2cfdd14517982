SPECIFICATION ChatSpec
CONSTANTS
  p1 = p1
  c1 = c1
  c2 = c2
  KnowsAgent = TRUE
  Procs <- MCProcs
  Kinds <- MCKinds
  Calls <- MCCalls
  MaxRequests = 1
  MaxTopics = 1
  MaxMessages = 5
  MaxSessions = 1
PROPERTIES
  AnswersPrompts
  NoOldAnswer
SYMMETRY Symmetry
CHECK_DEADLOCK FALSE
