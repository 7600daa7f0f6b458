SPECIFICATION FairSpec
CONSTANTS
  c1 = c1
  c2 = c2
  c3 = c3
  a1 = a1
  a2 = a2
  a3 = a3
  a4 = a4
  a5 = a5
  None = None
  Commands <- MCCommands
  Answers <- MCAnswers
  CommandOf <- MCCommandOf
  Callback <- MCCallback
  Unreachable <- MCUnreachable
  Routed = TRUE
INVARIANT TypeOK
INVARIANT OwnAnswer
PROPERTY AnsweredReturns
PROPERTY OverIsOver
CHECK_DEADLOCK FALSE
