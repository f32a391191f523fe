SPECIFICATION Spec
CONSTANTS
  TotalBlocks = 22
  FirstDataBlock = 1
  BlockBytes = 2
  TotalInodes = 6
  InodesPerGroup = 4
  InodesPerBlock = 2
  GroupBlock = 1
  InodeTables <- MCInodeTables
  kRootInode = 1
  kJournalInode = 2
  JournalBlocks <- MCJournalBlocks
  DirectoryBlocks <- MCDirectoryBlocks
  BlockCells = 6
  Shapes <- MCShapes
  FirstShapes <- MCFirstShapes
  MaxChanges = 3
  kMaxDirectoryDepth = 2
  kMaxDirectoryBytes = 4
  kMaxExtentDepth = 5
  kMaxExtentNodes = 3
  kMaxExtents = 4
  kMaxOrphans = 3
  kMaxJournalBlocks = 8
  kMaxJournalCopies = 4
INVARIANTS
  LiveTreeIsReported
  DeletedIsItsInodes
  OrphansComeBack
  DeletedNamesAreFound
CHECK_DEADLOCK FALSE
