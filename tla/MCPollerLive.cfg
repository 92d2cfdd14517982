SPECIFICATION FairSpec
CONSTANTS
  p1 = p1
  p2 = p2
  Procs <- MCOne
  Kinds <- MCAll
  MaxRequests = 1
  MaxTopics = 1
  MaxMessages = 3
  MaxSessions = 3
PROPERTIES
  AnswersPrompts
  PromptsTakenUp
CHECK_DEADLOCK FALSE
