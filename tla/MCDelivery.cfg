SPECIFICATION Spec
CONSTANTS
  kMax = 15
  Candidates <- MCCandidates
  DeviceSize <- MCDeviceSize
  kMaxAccountedRegions = 2
  MaxFound = 4
  ScopeSize <- MCDeviceSize
  StartBytes = 3
  Device <- MCDevice
  Unreadable = {3}
  PlainTags = {"jpg"}
  Safe <- MCSafe
  Full <- MCFull
  kMaxDisambiguationAttempts = 1
  MaxSinkFaults = 1
  MaxDeliveries = 2
  Refused = Refused
  Partial = Partial
  None = None
INVARIANTS
  GapsAreTheUnaccounted
  WinnersBeatWhatTheyOverlap
  WrittenIsThere
  EveryWinnerIsRecorded
  RerunLeavesOnlyItsFiles
  PreviewForetells
  InventedIsMarked
CHECK_DEADLOCK FALSE
