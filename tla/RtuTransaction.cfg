SPECIFICATION FairSpec
CONSTANTS
  Requests <- MCRequests
  TimeoutTicks = 1
  MaxBacklog = 0
INVARIANTS OkMeansWellFormed AnswerIsMine TransactionTime
PROPERTIES TransactionEnds
