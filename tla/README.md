# revenant in TLA+

revenant recovers files from a disk or an image in two passes: it walks the
filesystems it can mount, and it carves what the filesystems do not account for.
Everything found goes into a durable index; arbitration picks the candidates
that are delivered; the sink writes them into a destination, and a manifest says
what happened. A run may be interrupted, killed or lose its source at any point
and is continued by giving the same command again. This directory holds the TLA+
specification of that system, the TLC models that check it on small instances
and the TLAPS proofs of the run, its session, the arbitration, the delivery, the
device and the scan for instances of any size.

All names in the modules are the names of the C++ functions they model wherever
TLA+ allows it; `PROJECT.json` maps every definition to its lines.

## The system

| Component | State | Operations | What is hard |
|---|---|---|---|
| Run and session (`cli/RecoveryRun`, `Session`, `RunDelivery`; `recovery/HybridRecovery`, `Checkpoint`, `ScanRegions`) | session directory: index and checkpoint; manifest; the running process | open or resume, walk, scan chunk by chunk, checkpoint, decide, deliver, record | kills and refused writes between any two steps, signals, resuming under the right command, exit 0 meaning "complete" |
| Candidate index (`recovery/CandidateIndex*`) | `candidates.idx`, `candidates.dat`, two output streams | create, reopen, append, read back | torn writes in two files that refer to each other, streams that stay failed, limits of the reader |
| Accounting and arbitration (`RegionSet`, `ByteAccounting`, `Arbitration`) | regions claimed so far | account, gaps, accept or suppress | saturation at 2^64, regions that touch, the region cap, ranking |
| Sink (`RecoverySink`, `ExtractFile`, `Disambiguate`, `OutputPath*`, `Damage`) | names used, digests seen, the destination, the artifacts | extract, preview, deduplicate, mark damage | name collisions, partial files, a re-run over an earlier run's files, a stop in mid-delivery |
| Retrying device (`core/io/RetryingDevice`) | bad-sector map, lost-run counter | readAt | bad, flaky and vanished devices, the same sector met at different offsets |
| Carve scan (`carve/SignatureScanner`, `WindowMatch`, `CarveMatches`, `SignatureTable`) | cursor, window, matches | scanRegion | signatures across window and region edges, resuming behind a candidate, progress on short windows |
| FAT32 and exFAT (`fs/ClusterChain`, `fs/ExtentSpan`, `fs/DirectoryTreeWalk`, `fs/fat/*`, `fs/exfat/*`) | worklist of directories, clusters visited, the entry set being put together, the allocation bitmap | mount, walk, report an entry with its extents and grade | slots and chains that outlive what they described, cycles, clusters and slots used again |
| NTFS (`fs/ntfs/*`) | the table's extents, the next record | open the table, read a record, climb its path, locate its data | slots used again, torn records, signed run offsets, damaged attributes |
| ext4 (`fs/ext4/*`) | the journal's copies, worklist of directories, inodes reported | sweep the journal, walk, search holes, read the orphan list | names and inodes that outlive their file, copies of different ages, one file found twice |
| Partition tables and mounting (`volume/*`, `recovery/RunScope`, `recovery/PartitionedWalk`, `fs/Mount` and the boot sectors) | partitions found, links seen, the scope | list, resolve, mount and walk each volume | loops and damaged links, two copies that disagree, what an earlier format left behind |
| Carve formats (`carve/formats/*`, `BuiltinCarvers`, `Plausibility`) | a cursor and a verdict | carve | lengths and offsets read from the disk, cut files, neighbours |
| Identity of source and destination, options, summary, logging | none | | queries of the operating system, text |

The pieces interact by calls in one thread. The frontend calls `runRecovery`,
which opens the session, lets `HybridRecovery` drive the walk and the scanner
with visitors that append to the index, and hands the result to `RunDelivery`,
which arbitrates the index and lets the sink write. The only concurrency is with
the outside: the signal handler that sets a flag, the operating system that
kills the process or refuses a call, and the device that stops answering. What
is shared between two runs is the session directory and the destination.

## The modules

| Module | Models | Kind |
|---|---|---|
| `CheckpointedLog` | what a session promises: an append-only log, a saved length, a restart that keeps exactly the saved prefix | abstract specification |
| `CandidateIndex` | the two-file index, at the grain of a single stream write; refines `CheckpointedLog` | component |
| `ScanRegions` | gaps, the resume cut and the chunks, as operators | pure |
| `RecoveryRun` | the run: session, passes, checkpoints, manifest, exit code; uses `ScanRegions`, refines `CheckpointedLog` | component |
| `RegionSet` | the set of fused, saturating regions | pure |
| `Arbitration` | accounting during the walk and the claim loop; compares its gaps with `ScanRegions` | component |
| `RecoverySink` | extraction and preview of the winners, one winner per step | component |
| `Delivery` | `Arbitration` followed by deliveries of `RecoverySink` | composition |
| `RetryingDevice` | the device every run reads through | component |
| `SignatureScanner` | the carve scan over `RetryingDevice` | composition |
| `ExtentSpan` | lists of extents, used by every file system | pure |
| `ClusterChain` | cluster chains and their extents | pure |
| `ClusterVolume` | what a host operating system writes to a volume; not this program's code | environment |
| `ClusterWalk` | the directory walks of FAT32 and exFAT over `ClusterVolume` | composition |
| `VolumeMount` | the boot sectors, the superblock and what each mounter answers | pure |
| `PartitionedDisk` | tables and volumes hosts write over each other, and accidents; not this program's code | environment |
| `PartitionTable` | the listing, the scope, and the volumes mounted one by one, over `PartitionedDisk` | composition |
| `Runlist` | decoding of run lists into extents | pure |
| `MftVolume` | a host writing an NTFS volume; not this program's code | environment |
| `MftWalk` | the NTFS reader over `MftVolume` | composition |
| `Ext4Volume` | a host writing an ext4 volume; not this program's code | environment |
| `Ext4Walk` | the ext4 reader over `Ext4Volume` | composition |
| `CarveFormats` | one step of each carver's walk, and its verdict | pure |
| `CarveWalk` | a scan carving a device with all carvers | component |
| `NatFacts` | least members, induction and recursion over sets of naturals, for the proofs | proofs |
| `CandidateIndexProofs`, `RecoveryRunProofs`, `DeliveryProofs`, `ScannerProofs`, `CarveWalkProofs`, `ClusterWalkProofs`, `MftWalkProofs` | theorems | proofs |
| `MC*` | constants for TLC | models |

How state and actions correspond to the code:

* `CandidateIndex`: `writeBlob` and `writeRecord` are the two writes of
  `writeEntry`; each may be torn, and a stream that failed does nothing any more.
  A blob byte is `<<candidate, position>>`, so that a record pointing at someone
  else's bytes is visible. `create`, `reopen` and their `Cut` forms are
  `freshSession` and `continuedSession` and what a kill inside them leaves.
  `readIndex` is the reader with its caps.
* `RecoveryRun`: `pc` is the place in `recoverInto` / `runRecovery`. Every call
  that writes to disk is one action; `killed` may come between any two. A walk
  reports `Entries[scope]`, a chunk `Findings(scope, formats, chunk)`: what the
  parsers find is a parameter, when and how often they are asked is not.
  `Fault(kind)` spends one of `MaxFaults` on something going wrong; `FaultKinds`
  says which things may.
* `Arbitration` and `RecoverySink`: the candidates found are any subset of
  `Candidates` up to `MaxFound`; offsets are `0..kMax` wide and saturate there as
  the code does at 2^64. A file is the bytes written to it; a digest is the
  content; `Safe` stands for the sanitiser and maps several names to one.
* `RetryingDevice` and `SignatureScanner`: a device is a sequence of bytes with
  a health per sector. The attempts of one read are folded into whether it
  fails. The prefilter keeps its nibble tables and the scalar rest of a window; the
  matches of a window are a set, looked at in the order `sortCanonically` gives them;
  `Carve` is what a carver and plausibility answer together.

* `ClusterWalk`: the host makes its changes, unmounts, and the walk starts; from
  then on the volume does not change. One action passes over one slot
  (`shortEntry`, `collectFragment` on FAT32; `startSet`, `absorb` on exFAT), and
  `walkOne`, `finishDirectory` are the two ends of a directory. `nodes` keeps what
  was really written, with the clusters in order, and is never read by the walk.
  A directory that does not read ends the walk (`kIoFailure`); what other errors
  do to a run is `RecoveryRun`'s. `Habits` names three things hosts do that the
  walk does not cope with.
* `PartitionTable`: hosts write tables and format volumes over each other's, one
  accident follows, and the reader starts. One step takes one slot of sector 0
  (`appendSlot`, `startChain`), one link of a chain (`chainStep`), one copy of a GPT or one volume.
  Sectors are records of their fields; a checksum is the value it was taken over.
  `mountVolume` asks the four mounters in the code's order; a volume that mounts
  reports one entry at the offset its geometry gives.
* `MftWalk`: the table is opened through its own record (`openTable`), then one
  record is one step. A record is two strides, each ending in the number of the
  write that put it there, and a host that is cut off leaves one of them. `objects`
  keeps what the host meant and is never read by the walk. Digits of a run's
  fields are to the base `Digit`.
* `Ext4Walk`: `start` sweeps the journal as mounting does, `walkOne` is one
  directory with the holes of its blocks, `takeOrphans` the orphan pass. A
  directory block is a row of cells, one for a header and one for each piece of a
  name, so that an older entry can be overwritten in part. `files` and `holder`
  keep what the host meant. Host changes reach the disk whole, and a piece of a
  name is never mistaken for a header; a block of zeros reads as the code reads it.
* `CarveWalk`: `applyMatch` starts a carver at the first signature the scan has not
  passed; one marker, chunk, box or table is one step; `buildCandidate` judges,
  applies the floor and says where the scan goes on. A cell is a keyword or a small
  number. A field that is one number in the format is one cell (a TIFF LONG two),
  and the checksum is a sum modulo five, which misses a change by a multiple of
  five; no property depends on more. Matches are taken over the whole device: the
  windows they are found through are `SignatureScanner`'s.

## What is checked

| Run | Bounds | Result |
|---|---|---|
| `candidate_index` | two candidates of one and two bytes, three records, five blob bytes | `CheckpointIsHeld`, `CleanRunReadsItsLog`, `CrashLeavesReadablePrefix` and the refinement `ImplementsLog` hold |
| `recovery_run` | two scopes, six commands, three faults | `CheckpointExact`, `FinishedIsExact`, `ManifestIsTrue` and the refinement `SessionIsALog` hold |
| `recovery_faults` | three commands, two faults, those that cost candidates included | `EventuallyFinishes` holds |
| `delivery` | every choice of up to four of twelve candidates, two deliveries, one fault, a kill | `GapsAreTheUnaccounted`, `WinnersBeatWhatTheyOverlap`, `WrittenIsThere`, `EveryWinnerIsRecorded`, `RerunLeavesOnlyItsFiles`, `PreviewForetells`, `InventedIsMarked` hold |
| `delivery_names` | two names with one safe form | `WrittenIsThere` is violated |
| `device_scan` | all 343 devices of three two-byte blocks, four healths, three region plans | `BadMapIsTheInvented`, `GoneIsNoticed`, `ScanIsExact`, `ScanEnds` hold |
| `volume_walk` | four clusters of three slots, every history of five host changes, both formats | `DirectoriesOpenedOnce`, `LiveTreeIsReported`, `DeletedIsWhereItWas` hold |
| `partition_table` | twenty sectors, three tables or formats, one accident, partitions asked for up to number 3 | `TableIsTheLayout`, `MountedIsTheLastFormat`, `EveryVolumeIsReported`, `ChainEnds` hold |
| `ntfs_walk` | six records, two places for the table, three changes or mishaps, both habits of counting sequence numbers | `LiveFilesAreReported`, `PathIsItsOwn`, `ValidIsWhole` hold |
| `ext4_walk` | 22 blocks, six inodes in two groups, a journal of six blocks, three changes, three ways of deleting | `LiveTreeIsReported`, `DeletedIsItsInodes`, `OrphansComeBack`, `DeletedNamesAreFound` hold |
| `carve_formats` | nine files of six formats, whole, cut at every cell or with one cell changed, two allowlists | `WholeFilesAreExact`, `CutIsNotWhole`, `CandidatesStayInside`, `CarveEnds` hold |
| `carve_neighbours` | the same devices | `EveryExtentIsExact` is violated |

Why the bounds are enough. In `candidate_index` a torn long entry can be as long
as the range a later short one claims, and the index can be cut, reopened and
filled past its cap. In `recovery_run` the disk has a file with a gap on either
side, chunks shorter than the gaps, and a carved file reaching over the next
signature, so that a chunk boundary in the wrong place changes what is found;
three faults allow an interrupted run, a failed resume and a third run. The
twelve candidates of `delivery` hold every pair that matters: equal names, names
that collide after numbering and after the fallback, equal content, overlap in
both directions, saturating and overlong extents, resident content, an unsafe
name, a tag that is not plain. In `device_scan` windows are four bytes over
three-byte signatures, so a signature meets every position relative to a window
and a region edge, and the sectors do not line up with the windows. The four
clusters of `volume_walk` allow a directory of two clusters, a fragmented file, a
subdirectory in a subdirectory, and a cluster or slot that is freed and used
again; the depth cap is within reach, and `InReach` says which files it hides.

In `partition_table` three writes allow a table over a table over a volume, and a
volume formatted over two older ones; chains of two and three links meet the cap
of two; the accidents are a lost or overwritten sector, a sector written in the
wrong place (a link that leads back), a shortened image and any one field changed,
with and without its checksum. In `ntfs_walk` the table itself is in two pieces, the
second before the first, and in one layout a record is split between them; files
have runs that step back, a hole or resident data; three changes are enough to
delete a directory, give its slot away and read a child that still names it. A
mishap or a torn write ends the host's work. `ext4_walk` has files with the map in
the inode and in two levels of nodes, a hole and an unwritten extent; its journal
wraps within three changes, and six cells hold a live entry with two deleted ones
in its record. In `carve_formats` every file has what its walk can trip over
(`MCCarveWalk` says what); a cut file ends with the device or in noise, a damaged one
stands one cell before the device's end or any other file, and two whole files stand
zero to two cells apart. `Damage`
holds zero, one, a small and a large number and two keywords.

Deadlock is not checked where the system stops by itself (`delivery`,
`device_scan`, the walks, `partition_table`, `carve_formats`); elsewhere the operator
may always give another command.

### Fairness

`RecoveryRun!FairSpec` assumes that a running process takes its next step (one
thread, blocking calls that return) and that the operator keeps giving commands, in
whatever choice (weak fairness of giving one at all): resuming is the operator's part
in the design. No particular command is forced, so that no other command can be relied
on to clear a session that is stuck. `EventuallyFinishes` is about an operator who from
some point on gives one command and no other (`<>[](req = r)`); it leaves out a session
that is and stays `Overfull`; below is how a run gets there.
Interrupts, kills and faults have no fairness and are bounded, since against an
unbounded number nothing finishes.
`SignatureScanner!Spec` assumes only that the scan's thread, or the read it waits
for, takes a step; a vanishing device is never forced. `PartitionTable!Spec` assumes
that the loop over the chain goes on by itself, and `CarveWalk!Spec` that the scan
does. `CarveWalk!Fairness` is weak fairness of `Next` with its ENABLED written out as
`CanStep`, since TLC evaluates ENABLED of the heavy walk steps too slowly.

### What the violations say

* `delivery_names`: names are made unique before they are made safe, so two names
  with one safe form overwrite each other.
* `carve_neighbours`: the end of a PDF or an archive is looked for from the back of
  the window, and a movie's boxes go on into a movie that follows directly; two
  such files are carved as one.

Both are quoted against the documentation under `findings` in `PROJECT.json`.

Other disagreements show up as soon as a constant allows them or the stronger formula
is asked for; the passing runs state the promise where the code keeps it, and these
settings show where it ends:

* `WithinCaps` without one candidate of `MCCandidateIndex`: the writer acknowledges
  a candidate the reader drops for its size (`CleanRunReadsItsLog`).
* `FaultKinds` with "append" in `MCRecoveryRun.cfg`: a checkpoint is written after a
  refused append, and the re-run resumes past the lost candidate and exits 0
  (`FinishedIsExact`).
* `FaultKinds` with "directory": a source lost below a mounted file system's
  directory is passed over, because only `kIoFailure` ends a walk and the retrying
  device never returns it (`FinishedIsExact`).
* `INVARIANT NamedNtfsIsNoOther` in `MCPartitionTable.cfg`: a volume that carries NTFS's
  OEM id, but whose boot sector leads to a place without a record, is taken for one
  that is not NTFS (`parseMftRecord` answers `kNotFound`, `MftRecord.cpp:96`; `mountNtfs`
  hands it on; `declined`, `Mount.cpp:37`, asks the next mounter), and the superblock of
  an older ext4 volume is mounted. `story-0301-filesystem-seam.md:68` says that a volume
  that carries the signature "belongs to that mounter, and its parse failure is returned
  unchanged rather than passed over". `MountedIsTheLastFormat` leaves out just this case
  (`LeadsToItsTable`). Format ext4, format NTFS, change the MFT's cluster number.
* `PROPERTY ExitThreeCarriesOn` with `MaxFaults = 3` in `MCRecoveryFaults.cfg`: after a
  walk that fell short (a partition skipped, `PartitionedWalk.cpp:72`, or one whose
  accounting is thrown away, `HybridRecovery.cpp:92`) the carve goes over bytes a whole
  walk accounts for. A run interrupted then exits 3, of which `RunOutcome.hpp:28` says
  "re-running the same command carries on"; the re-run takes the index past
  `kMaxIndexedCandidates` (`CandidateIndexRead.cpp:154`), and from then on every re-run
  resumes the session and is refused, though a fresh run would stay below the cap.
* Two scopes with equal `SizeOf`: the shape that decides whether a session may be
  resumed holds neither the partition nor the source (`FinishedIsExact`).
* `Habits` in `MCClusterWalk.cfg` (all break `LiveTreeIsReported`): "contiguous
  directories", since the exFAT walk reads every directory through the table, which
  holds nothing for one marked `NoFatChain`; "uneven sets", where the leftover stream
  slot of a longer deleted exFAT set replaces the stream of the shorter live set
  written over its head; "directory reuse", where a deleted directory's slot claims
  the cluster a live directory was given since, and its files come back orphaned.

### Known limits of the readers

The properties leave these cases out in their hypotheses, where a definition
names each:

* NTFS: a record that lies in two places is not read (`Straddles`,
  `ExtentLocate.cpp:21`); attributes moved out by an attribute list are not followed
  (`place = "base"`, `MftRecord.cpp:85`); a file of more than `kMaxDataRuns` runs or
  deeper than `kMaxPathDepth` is not given whole or not given its path (`Recoverable`).
* ext4: a directory record whose own inode number was cleared is not searched for
  older names, though the comment in `DirectoryWalk.cpp:121` says it is; the journal's
  copies come in the order of the blocks, which after a wrap is not the order of the
  transactions `Journal.hpp:40` speaks of ("newest transaction last"), so a deleted file's copy may be that of an earlier
  file of the same number (`DeletedIsItsInodes` promises no more, and says nothing once a
  node block of the deleted file's map was taken for a later file's, `NodesRewritten`:
  the map then leads to that file's blocks); a live name whose
  inode was freed by a change that was never replayed is outside the host's model.
  Files deleted while open come back under each name a hole still gives them, so a file
  renamed before it was deleted may come back twice (`OrphansComeBack`).
* Extended chains: the cap counts partitions found, not links read; links are
  remembered, so a chain still ends.
* Carving: the window is bounded (`MaxCarve`, 64 MiB), so a longer file ends there
  (`Carvable`); a TIFF's sub-directories are not followed; an archive's end record
  inside its own comment is taken for the end.
* exFAT: the 32-bit count of clusters wraps at `Word`.
* Session files are replaced without a sync; a failed removal of a checkpoint is
  ignored; a re-run that stops early replaces the manifest of a finished one.

## What is proved

For every value of the constants that satisfies the named assumptions:

* `CandidateIndexProofs`: `TypeCorrect`, `CheckpointAlwaysHeld`,
  `CleanRunReadsBack` (for candidates within the caps), `CrashLeavesReadable` and
  `IndexImplementsLog`. The argument is the inductive invariant `IndexInv` of
  `CandidateIndex`: every record that was acknowledged, and every record before
  a checkpoint, has its whole entry in the blob at the range it names, and
  neither a torn tail nor a cut disturbs an entry below it. `CleanRunReadsItsLog`
  alone is not inductive: it says nothing of a run whose stream has failed, which
  a later resume builds on.
* `RecoveryRunProofs`: `ResumeKeepsTheChunks`, about `ScanRegions` alone: resuming at
  the end of a chunk gives exactly the later chunks of a fresh run, for any claimed
  ranges, device size and chunk size. It rests on the gaps being separated and on
  chunks being multiples of the chunk size from the gap's start, which a cut at a
  chunk's end keeps. `TypeCorrect` under every fault; `CheckpointsAreExact` and
  `FinishedRunsAreExact` when shapes separate scopes, no append is refused, no
  mount or directory fails and, on a partitioned disk, the source is not lost.
  The settings listed above show that these hypotheses cannot go. The
  inductive invariant `RunInv` says at each `pc` what the index lists: during the
  walk the entries reported so far, during the scan the entries and the findings
  of the chunks done, of which what is left is always the tail.
  `ManifestsAreTrue` and `SessionImplementsLog` need none of these hypotheses. Their
  invariants say less of what the index holds and so survive every fault:
  `ManifestInv`, by which files are written only under a manifest that announces
  them and a scan that stopped has its cursor in the checkpoint, and `AdvanceInv`, by
  which the checkpoint a scan works under is its own command's and lies before all
  it has still to do. Both properties are about steps, and the second is the
  refinement of `CheckpointedLog`: each action is shown to be a step of the log or to
  leave it alone.
* `DeliveryProofs`, its first part: `GapsAreRight` and `WinnersAreRight`, for any device, any
  finite set of candidates and any cap. `RegionSet!add` is shown to fuse exactly what
  it touches and to keep regions separate, `complementOf` to be the complement that
  `ScanRegions` computes from the claimed bytes. `ArbitrationInv` carries the two
  loops: an extent of the candidate in hand counts as accounted or claimed before it
  is added, and nothing in the pool outranks a winner, which is why a candidate can
  lose only to one it does not outrank.
* `DeliveryProofs`, its second part: `RecordsAreRight`, `PreviewIsRight` and `MarksAreRight`, whatever
  is refused and wherever the process dies. `SinkInv` says that records and what is
  left to do are the write order cut in two, and that the names given are those the
  order alone determines; this is what makes a preview and a later extraction agree.
  `WrittenIsRight` and `RerunIsRight` have two hypotheses. `NothingFolded`: no two
  proposed names have one safe form; run `delivery_names` shows that it cannot go.
  `NamesAreNew`: the name a winner gets is not taken. Where `disambiguate` runs out of
  attempts (`kMaxDisambiguationAttempts`, 10000) it returns its last form unchecked, so
  this is not always so; `FewWinnersAreSafe` proves, by counting the names used, that
  it is so for any delivery of at most that many winners.
* `ScannerProofs`, for any device, sector size, bounds, signatures and carvers:
  `BadMapIsRight`, from the facts that a range inserted in order and folded into its
  neighbours keeps ranges apart and adds exactly its bytes. `GoneIsRight`: the
  scanned bytes behind the device's last answer number no more than the run of losses
  counted so far, or fewer than the bound; the second case is for a read that ends at
  the device's end. `ScanIsRight`: what was reported, together with what one pass over
  the whole device finds from where the scan stands (`Position`), is what one pass
  finds in the region; a window holds exactly the matches that end in it
  (`WindowFinds`), and one that does not end in it begins in what the next window
  reads again (`NothingBetween`). The hypothesis `MatchesEndInOrder`, that no match
  begins inside another and ends before it, is needed: at a window's edge the shorter
  match is whole and the longer not, so it is taken first, and where it reaches far the
  longer is stepped over. Of the built-in signatures only `ftyp`, which stands four
  bytes into its file, leaves room for another's magic before it, in the box's size.
* `CarveWalkProofs`: `CarvedIsInside`, for any device of numbers (`Files` is any set of
  sequences of them), any window length, floors and caps. `CandidatesStayInside` says
  nothing of a walk under way, so `CarveInv` adds what each walk has passed: the JPEG,
  PNG and MP4 walks stand inside the window once they have seen what a verdict needs
  (`JpegOk`, `PngOk`, `Mp4Ok`: before that they may stand behind its end, when the
  window is shorter than the signature), since each step checks the declared length
  against the window before it takes it; the TIFF walk may be sent anywhere, and only
  notes numbers (`RawOk`); it, ZIP and PDF are clipped by the verdict (`ClippedIs`).
* `ClusterWalkProofs`: `DirectoriesAreOpenedOnce` and `WalkIsBounded`, for a volume
  of any size with anything in its slots and its table: from `WorklistInv`, by
  which a waiting directory is marked visited, not yet opened, and waiting once.
  `DirectoriesOpenedOnce` alone does not say why the next one taken up is new.
  `GuessStaysInside`: the run `extentsAssumingContiguous` gives lies in the data
  region whatever size the slot claims.
  `ExtentsStayInData` says the same of every extent reported, on FAT32 and exFAT, and
  `DeletedIsWhereItWasOnFat` proves `DeletedIsWhereItWas` for FAT32, with any habits
  of the host. The invariant (`ReportInv`) is one of the volume and one of the walk:
  a slot not marked deleted belongs to a live node and lies in a cluster of that
  node's directory (`SlotOk`: otherwise removing a file could miss a slot of it, and a
  stale slot would pass for a live one), a FAT slot has its node's size and first
  cluster even when the node is gone (`Describes`), and every slot the walk has read
  is one of the volume's (`Shown`). `RunIsOne` and `GuessIsRight` then say that
  following a chain of neighbouring clusters and guessing a run are the same extent.
  `LiveTreeIsReportedOnFat` proves `LiveTreeIsReported` for FAT32, for a volume of any
  size and any history of the host in which no new directory takes a removed one's
  cluster (`NoReuse`; the setting "directory reuse" above shows that it cannot go).
  The invariant (`LiveInv`) adds what the volume is as a tree (`TreeInv`): a node lies in
  an older directory, which lives while it does; live nodes share no cluster, and no two
  directories ever do; the table links a live node's clusters in their order, so that
  following it gives them back (`LinkedIsFollowed`); a live directory's slots end
  together, name each file once and every live child (`ListOk`); `.` and `..` lead to the
  directory itself and its parent (`Dotted`). That slots end together is not obvious, as
  new slots go over removed ones in the first place they fit; a place behind an end mark
  is never the first. Of the walk, `WalkOk` says that a directory
  that was entered has an entered parent, so that the dots never lead anywhere new; that
  every live node in reach whose slot was passed has been entered or reported; and that a
  valid entry is the true one of a file whose slot was passed, so that a second one cannot
  come. When nothing waits, every directory in reach has been entered: of those that had
  not, the one made first would have been found in its parent (`AllDirectoriesEntered`).
  On exFAT the slots of a set may come from two files once sets of different lengths
  are overwritten, so there both properties need the habits `MCClusterWalk` excludes and
  stay with TLC.
* `MftWalkProofs`, for a table in any pieces, any history of the host, both habits of
  counting sequence numbers, and a write cut anywhere or a record spoiled:
  `RunlistIsExact`: the decoder finds exactly the clusters that were encoded, byte for
  byte up to the size, and nothing for a list with a hole or short of its size; by
  induction along the list, with the two's complement of each difference undone.
  `PathIsItsOwnHolds` and `ValidIsWholeHolds` follow from `WalkInv`. Its part `Exact`
  holds while the host runs: each user slot is blank, an extension, or exactly the record
  of its last holder; a reference never has a larger sequence number than its slot, and a
  smaller one as soon as the slot has another holder (`RefHolds`). After a mishap this is
  false of one slot, and what stays is `SoundInv`: a record that still parses, with a
  fixup that matches, is its holder's; a reference that `isLiveDirectory` accepts is to
  the directory it was made for; and a record that is not its holder's last write shows
  it, by an attribute that does not parse or data that is nowhere (`ShowsWhole`).
  `Tabled` says that record zero's extents are the layout, so that a record that does
  not straddle two of them is read from its own clusters and one that does is refused.
  `EntriesInv` adds, entry by entry, whose it is, and that the slots before `number`
  are done, so that no object is reported twice. The climb is followed rung by rung:
  the reference that was passed is the one the host's own path has there.
  `LiveFilesAreReportedHolds` is the converse, and needs more, in `LiveInv`. `SoundInv`
  only says that what parses is right, not that anything parses; `KeptVolume` says that
  the record of each live object that no mishap reached still is exactly what the host
  wrote, and that the references it holds are accepted. `TreeInv` says that live objects
  lie in directories and that no set of them lies in itself, so that a climb comes to the
  root, in as many rungs as the path has names (`AscentArrives`). `Seen` says that a walk
  that has not failed has read every record behind it that is in one place, and given
  every recoverable file behind it whose directories can be read; at the end those are all
  (`Reachable` follows from the directories having been read as records themselves). That
  clusters that follow each other are found in one extent (`RunsTogether`) is what makes
  a record that does not straddle readable from the decoded table.

The assumptions are on constants, and TLC evaluates them in the runs.
`NoneAssumption`, `RegionSetAssumption` and `DeviceAssumption` say what kind of values
there are; `ArbitrationAssumption` adds that the candidates are finitely many and that
a carved one has one extent, `DeliveryAssumption` that the file systems' names are
names. `ScanAssumption` has the shape of signatures and plans, that a window is no
shorter than the longest signature and no longer than what a carver is given (4 MiB
and 64 MiB in `ScanConfig`), and that a plan's ranges go forward. `CarveAssumption`
says that a carver claims no more than the bytes it was given, which
`VerdictsStayInside` of `CarveWalkProofs` proves of the six carvers.
`CarveWalkAssumption` and `FormatAssumption` say that cells, floors and caps are numbers.
For NTFS, `RunlistAssumption`, `MftAssumption` and `DepthAssumption` do the same;
`WidthAssumption` says that the widest field of a run holds any cluster number of the
volume, `LayoutAssumption` that a layout has a place of its own for every record and that
record zero, which the boot sector points to, is in one piece, `ShapeAssumption` that a
file ends in its last cluster.

The provers cannot instantiate the library's induction theorems, so `NatFacts` states
induction and recursion with sets: a set that holds zero and all successors is `Nat`
(`SetInduction`), a function defined from zero up exists (`RecursionExists`), and so
does what a chain of places passes (`ChainExists`). With them the recursive functions
`coalesce`, `passRegions`, `ofSource`, `WholeScan`, `encodeRunlist` and the climb of
`EntryPath` are reasoned about in full.

Only model-checked: the liveness properties (`EventuallyFinishes`, `ScanEnds`,
`ChainEnds`, `CarveEnds`), which are out of TLAPS's reach here, and what the readers of
volumes, tables and formats report, apart from the results of `ClusterWalkProofs`,
`MftWalkProofs` and `CarveWalkProofs`. `WholeFilesAreExact` and `CutIsNotWhole` are about particular files,
those of `MCCarveWalk`, and stay with TLC.

## What is not modelled, and the plan

Left out for good: the system calls under the device, the storage identity that
`SysfsWalk` and `MountTable` ask the operating system for, flag parsing, the text of
summary, JSON and log, the characters of names (FAT's long and short names are
opaque) and timestamps, and the digests' arithmetic. A power cut that undoes
accepted writes is outside the model of the session; only processes die.
`CachingDevice` is not used by any run. The tools that generate test images and the
tests themselves are not part of the program.

Abstracted within the modules, where no property tells the difference: since names are
opaque, a grade does not fall for a name that was not decoded exactly (`lossless`,
`nameIsExact`), and a nameless slot is not dropped; an extent node's entries always fit
its block; a journal tag is its block number, without its width, UUID or last flag;
`Runlist` leaves out the overflow of the total (`checkedTotal`), which no volume of
these widths reaches; a write the operating system refuses is noticed at the latest by
the flush (`flushFails`); a directory or record that cannot be read is one kind of
failure in the walks, and what a lost source does to a run is `RecoveryRun`'s; no TIFF
of `MCCarveWalk` has a big-endian inline SHORT as its count.

What is left to prove, in this order:

1. That a chain never visits a link twice, for any table (`PartitionTable`).
2. That what the walks of exFAT and ext4 volumes report as live is what is there, as
   `ClusterWalkProofs` has it for FAT32 and `MftWalkProofs` for NTFS: `WalkOk` carries
   over, and what is new is the volume's side, entry sets that stay whole and, on ext4,
   inodes that outlive their names.
