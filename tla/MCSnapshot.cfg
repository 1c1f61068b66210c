SPECIFICATION Spec
CHECK_DEADLOCK FALSE
CONSTANTS
  LastPage = 2
  RootPage = 1
  Node <- MCNode
  MaxDepth = 2
  MaxTransactions = 2
  MaxRestarts = 1
  NoTransaction = NoTransaction
  Attempts = 2
  Unread = Unread
  None = None
INVARIANTS
  AcceptedIsOfOneMoment
  RefusalIsTrue
  RowsOfOneMoment
PROPERTY
  TakeEnds
