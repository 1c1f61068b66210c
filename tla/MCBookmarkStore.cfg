SPECIFICATION Spec
CONSTANTS
  MaxFolder = 2
  MaxBookmark = 1
  MaxRefused = 1
  MaxInBatch = 3
  Files <- MCFiles
  None = None
INVARIANTS
  AlwaysATree
  
  IndexIsTheStore
CHECK_DEADLOCK FALSE
