SPECIFICATION Spec
CONSTANTS
  disk = disk
  raw = raw
  None = None
  Items <- MCItems
  Scopes <- MCScopes
  SizeOf <- MCSizeOf
  Entries <- MCEntries
  Claims <- MCClaims
  Mounts <- MCMounts
  Partitioned = {}
  Findings <- MCFindings
  Winners <- MCWinners
  Requests <- MCRequests
  CheckpointBytes = 2
  MaxIndexed = 5
  FaultKinds = {"refuse", "session", "source", "checkpoint", "manifest", "extract", "interrupt", "kill"}
  MaxFaults = 3
INVARIANTS
  TypeOK
  CheckpointExact
  FinishedIsExact
PROPERTIES
  ManifestIsTrue
  SessionIsALog
