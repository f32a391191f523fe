SPECIFICATION Spec
CONSTANTS
  Digit = 8
  VolumeClusters = 17
  ClusterBytes = 2
  kMaxDataRuns = 3
  Records = 6
  kMftRecordNumber = 0
  kRootRecordNumber = 1
  kFirstUserRecord = 2
  MftLayouts <- MCMftLayouts
  Shapes <- MCShapes
  FirstShape <- MCFirstShape
  MaxChanges = 3
  kMaxPathDepth = 2
INVARIANTS
  LiveFilesAreReported
  PathIsItsOwn
  ValidIsWhole
CHECK_DEADLOCK FALSE
