SPECIFICATION HandshakeSpec
CONSTANTS
  Scripts <- MCScripts
  MaxTokens = 2
  NoId = NoId
INVARIANTS
  CancelledIsFinal
  FileMeansFinished
  OnlyTheAcceptedSpeak
CHECK_DEADLOCK FALSE
