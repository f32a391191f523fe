SPECIFICATION Spec
CONSTANTS
  short = short
  long = long
  None = None
  Garbage = Garbage
  Candidates <- MCCandidates
  EntryBytes <- MCEntryBytes
  WithinCaps <- MCWithinCaps
  MaxIndexed = 2
  MaxRecords = 3
  MaxBlobBytes = 5
INVARIANTS
  TypeOK
  CheckpointIsHeld
  CleanRunReadsItsLog
  CrashLeavesReadablePrefix
PROPERTY
  ImplementsLog
