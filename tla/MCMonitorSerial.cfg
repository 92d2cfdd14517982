SPECIFICATION Spec
CONSTANTS
  u1 = u1
  i1 = i1
  i2 = i2
  Users <- MCUsers
  Kinds <- MCPrompt
  Instances <- MCTwo
  Stamps <- MCUnstamped
  Earlier = 1
  MaxPolls = 1
  MaxRequests = 0
  MaxTopics = 1
  MaxMessages = 2
  Records <- MCGood
  MaxTime = 1
  MaxLag = 0
INVARIANTS
  TypeOK
PROPERTIES
  AnswersPrompts
  OnlyHigher
SYMMETRY Symmetry
CHECK_DEADLOCK FALSE
