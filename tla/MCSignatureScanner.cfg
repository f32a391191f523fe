SPECIFICATION Spec
CONSTANTS
  SectorSize = 2
  kLostSourceRunBytes = 4
  Contents <- MCContents
  Healths <- MCHealths
  Signatures <- MCSignatures
  Carve <- MCCarve
  WindowBytes = 4
  MaxCarveBytes = 5
  PrefilterBytes = 2
  Plans <- MCPlans
INVARIANTS
  BadMapIsTheInvented
  GoneIsNoticed
  ScanIsExact
PROPERTIES
  ScanEnds
CHECK_DEADLOCK FALSE
