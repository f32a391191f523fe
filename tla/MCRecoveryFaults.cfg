SPECIFICATION FairSpec
CONSTANTS
  disk = disk
  raw = raw
  None = None
  Items <- MCItems
  Scopes <- MCScopes
  SizeOf <- MCSizeOf
  Entries <- MCEntries
  Claims <- MCClaims
  Mounts <- MCMounts
  Partitioned <- MCMounts
  Findings <- MCFindings
  Winners <- MCWinners
  Requests <- MCFaultyRequests
  CheckpointBytes = 2
  MaxIndexed = 5
  FaultKinds = {"append", "mount", "source", "directory", "checkpoint", "manifest", "interrupt", "kill"}
  MaxFaults = 2
PROPERTY
  EventuallyFinishes
