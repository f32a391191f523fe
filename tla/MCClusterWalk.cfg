SPECIFICATION Spec
CONSTANTS
  TotalClusters = 4
  BytesPerCluster = 2
  DataOffset = 3
  SlotsPerCluster = 3
  MaxChanges = 5
  Habits = {}
  kMaxDirectoryDepth = 2
  kMaxDirectorySlots = 6
INVARIANTS
  DirectoriesOpenedOnce
  LiveTreeIsReported
  DeletedIsWhereItWas
CHECK_DEADLOCK FALSE
