------------------------------- MODULE MftWalk --------------------------------
(***************************************************************************)
(* Reading an NTFS volume: the master file table opened from record zero,  *)
(* every user record parsed, its path climbed to the root and its data     *)
(* located (fs/ntfs).                                                      *)
(*                                                                         *)
(* A parse gives a record with an `error`, "none" when it succeeded.       *)
(***************************************************************************)
EXTENDS MftVolume

CONSTANT kMaxPathDepth

ASSUME DepthAssumption == kMaxPathDepth \in Nat \ {0}

VARIABLES
  phase,     \* "host", "walk", "done", "failed"
  table,     \* MftTable's Layout: extents and recordCount
  number,    \* enumerateEntries: the next record
  reported   \* what the visitor was given; `from` is the object in the record

vars == <<volumeVars, phase, table, number, reported>>

Failed(error) == [error |-> error]

(***************************************************************************)
(* One attribute (MftAttributes.cpp).  `flaw` says what is wrong with its  *)
(* bytes: its length, the offsets behind it, or the size of its content.   *)
(***************************************************************************)

attributeLengthValid(a) == a.flaw # "length"
readResidentTail(a) == a.flaw # "tail"       \* the content ends inside the attribute
readNonResidentTail(a) == a.flaw # "tail"    \* the run list starts inside it
nonResident(a) == a.type = "data" /\ ~a.resident

readAttributeView(a) ==
  /\ attributeLengthValid(a)
  /\ IF nonResident(a) THEN readNonResidentTail(a) ELSE readResidentTail(a)

parseStandardInformation(a) == a.flaw # "content"
parseFileName(a) == a.flaw # "content"

consumeAttribute(a) ==
  CASE a.type = "std" -> parseStandardInformation(a)
    [] a.type = "name" -> parseFileName(a)
    [] OTHER -> TRUE

(***************************************************************************)
(* One record (MftRecord.cpp, MftRecordFixup.cpp, MftRecordAttributes.cpp).*)
(***************************************************************************)

signatureIsFile(block) == block[1].kind = "mft" /\ block[1].head.flaw # "magic"
readRecordHeader(block) == block[1].head.flaw # "offset"   \* where the attributes start
readUsaHeader(block) == block[1].head.flaw # "usa"         \* one saved word for every stride

(* Mutant of applyUpdateSequenceFixup: the strides are not compared. *)
applyUpdateSequenceFixup_any(block) == \A i \in 1..Strides : block[i].kind = "mft"

(* The saved words go back only when every stride ends with the number the header
   announces. *)
applyUpdateSequenceFixup(block) ==
  \A i \in 1..Strides : block[i].kind = "mft" /\ block[i].usn = block[1].usn

recordShell(slot, head) ==
  [error |-> "none", number |-> slot, inUse |-> head.inUse, isDirectory |-> head.dir,
   sequence |-> head.sequence, names |-> <<>>, data |-> <<>>, grade |-> "uncertain"]

isUnnamedData(a) == a.type = "data" /\ a.stream = "unnamed"
isName(a) == a.type = "name"

(* What comes before the first attribute that does not parse is kept: the names, each
   at its attribute's place, and the first unnamed stream. *)
parseRecordAttributes(view, attrs) ==
  LET invalid == {i \in DOMAIN attrs : ~readAttributeView(attrs[i]) \/ ~consumeAttribute(attrs[i])}
      kept == 1..(IF invalid = {} THEN Len(attrs) ELSE Min(invalid) - 1)
      streams == {i \in kept : isUnnamedData(attrs[i])}
  IN [view EXCEPT !.names = [i \in {k \in kept : isName(attrs[k])} |-> attrs[i]],
                  !.data = IF streams = {} THEN <<>> ELSE <<attrs[Min(streams)]>>,
                  !.grade = IF invalid = {} THEN "valid" ELSE "uncertain"]

recordViewFromFixup(slot, block, applied) ==
  LET shell == recordShell(slot, block[1].head)
  IN IF block[1].head.base # 0 \/ ~applied THEN shell
     ELSE parseRecordAttributes(shell, block[1].attrs \o block[2].attrs)

parseMftRecord(block, slot) ==
  IF ~signatureIsFile(block) THEN Failed("notFound")
  ELSE IF ~readRecordHeader(block) \/ ~readUsaHeader(block) THEN Failed("invalidArgument")
  ELSE recordViewFromFixup(slot, block, applyUpdateSequenceFixup(block))

(***************************************************************************)
(* The table (MftTable.cpp).                                               *)
(***************************************************************************)

ClustersAt(offset) == [i \in 1..Strides |-> offset \div ClusterBytes + i - 1]

readBlock(offset, slot) ==
  LET at == ClustersAt(offset)
  IN IF Range(at) \cap unreadable # {} THEN Failed("ioFailure")
     ELSE IF ~(Range(at) \subseteq VolumeMap) THEN Failed("outOfRange")
     ELSE parseMftRecord([i \in 1..Strides |-> disk[at[i]]], slot)

readRecordZero == readBlock(layout[1] * ClusterBytes, kMftRecordNumber)

nonResidentData(view) == view.data # <<>> /\ ~view.data[1].resident

recordOffset(slot) ==
  IF slot >= table.recordCount THEN -1
  ELSE locateInExtents(table.extents, slot * RecordBytes, RecordBytes)

readRecord(slot) ==
  LET offset == recordOffset(slot)
  IN IF offset = -1 THEN Failed("invalidArgument") ELSE readBlock(offset, slot)

(***************************************************************************)
(* The path (EntryPath.cpp).                                               *)
(***************************************************************************)

hasName(view) == DOMAIN view.names # {}
isLong(name) == ~name.dos
preferredName(names) ==
  LET longs == {i \in DOMAIN names : isLong(names[i])}
  IN names[Min(IF longs # {} THEN longs ELSE DOMAIN names)]

(* Mutant of isLiveDirectory: the slot is all a link names. *)
isLiveDirectory_slot(parent, parentLink) == parent.isDirectory

isLiveDirectory(parent, parentLink) ==
  parent.isDirectory /\ parent.sequence = parentLink.sequence

(* One rung up; an ascent that cannot climb stays where it is. *)
climb(ascent) ==
  LET at == ascent.stoppedAt
      parent == IF at.record = kRootRecordNumber THEN Failed("root") ELSE readRecord(at.record)
  IN IF parent.error = "none" /\ isLiveDirectory(parent, at) /\ hasName(parent)
     THEN LET name == preferredName(parent.names)
          IN [directories |-> <<name.name>> \o ascent.directories, stoppedAt |-> name.parent]
     ELSE ascent

ascend(from) ==
  LET after[n \in 0..kMaxPathDepth] ==
        IF n = 0 THEN [directories |-> <<>>, stoppedAt |-> from]
        ELSE LET below == after[n - 1] IN climb(below)
  IN after[kMaxPathDepth]

resolveEntryPath(view) ==
  LET self == preferredName(view.names)
      ascent == ascend(self.parent)
  IN [path |-> Append(ascent.directories, self.name),
      reachedRoot |-> ascent.stoppedAt.record = kRootRecordNumber]

(***************************************************************************)
(* The entry (EntryFromRecord.cpp).                                        *)
(***************************************************************************)

contentOf(view) ==
  LET data == view.data[1]
      placed == runlistExtents(data.runs, data.size)
  IN IF data.resident THEN [located |-> TRUE, extents |-> <<>>, resident |-> data.content]
     ELSE [located |-> placed.located, extents |-> placed.extents, resident |-> Root]

stateOf(view, path) ==
  IF ~path.reachedRoot THEN "orphaned" ELSE IF view.inUse THEN "live" ELSE "deleted"

gradeOf(view, path, located) ==
  IF view.grade = "valid" /\ path.reachedRoot /\ located THEN "valid" ELSE "uncertain"

(* The object a record holds is the last one the host put there. *)
HolderOf(slot) == Max({n \in Ids : objects[n].slot = slot} \cup {Root})

entryFromRecord(view, path) ==
  LET content == contentOf(view)
  IN [path |-> path.path, size |-> view.data[1].size, extents |-> content.extents,
      resident |-> content.resident, state |-> stateOf(view, path),
      grade |-> gradeOf(view, path, content.located), from |-> HolderOf(view.number)]

(***************************************************************************)
(* The walk (EntryEnumeration.cpp, NtfsFileSystem.cpp).                    *)
(***************************************************************************)

isRecoverableFile(view) == ~view.isDirectory /\ view.data # <<>> /\ hasName(view)

reportRecord(view) ==
  IF isRecoverableFile(view)
  THEN Append(reported, entryFromRecord(view, resolveEntryPath(view)))
  ELSE reported

(* MftTable::open, and layoutFrom with it. *)
openTable ==
  LET zero == readRecordZero
      data == zero.data[1]
      placed == runlistExtents(data.runs, data.size)
      opens == zero.error = "none" /\ nonResidentData(zero) /\ placed.located
  IN /\ phase = "host"
     /\ phase' = IF opens THEN "walk" ELSE "failed"
     /\ table' = IF opens THEN [extents |-> placed.extents, recordCount |-> data.size \div RecordBytes]
                 ELSE table
     /\ UNCHANGED <<volumeVars, number, reported>>

(* enumerateEntries: one record.  Only a device that does not read ends the walk. *)
stepRecord ==
  /\ phase = "walk" /\ number < table.recordCount
  /\ LET view == readRecord(number) IN
     /\ phase' = IF view.error = "ioFailure" THEN "failed"
                 ELSE IF number + 1 >= table.recordCount THEN "done" ELSE "walk"
     /\ reported' = IF view.error = "none" THEN reportRecord(view) ELSE reported
     /\ number' = number + 1
  /\ UNCHANGED <<volumeVars, table>>

Host ==
  /\ phase = "host"
  /\ VolumeChanges
  /\ UNCHANGED <<phase, table, number, reported>>

Init ==
  /\ VolumeInit
  /\ phase = "host" /\ number = kFirstUserRecord /\ reported = <<>>
  /\ table = [extents |-> <<>>, recordCount |-> 0]

Next == Host \/ openTable \/ stepRecord

Spec == Init /\ [][Next]_vars

-----------------------------------------------------------------------------

(* A record in two places: MftTable does not read one. *)
Straddles(slot) == SlotClusters(slot)[2] # SlotClusters(slot)[1] + 1

(* Every place object n has. *)
PathsOf(n) == {PathsTo(n, k) : k \in DOMAIN objects[n].links}

Above(n) == Range(PathsTo(n, 1)) \ {n}

DeviceBytes(o) ==
  LET byte(i) == o.clusters[(i - 1) \div ClusterBytes + 1] * ClusterBytes + ((i - 1) % ClusterBytes)
  IN [i \in 1..o.size |-> byte(i)]

HoldsContent(e, n) ==
  IF objects[n].resident THEN e.resident = n /\ e.extents = <<>>
  ELSE BytesOf(e.extents) = DeviceBytes(objects[n])

Recoverable(n) ==
  LET o == objects[n] IN
  /\ o.live /\ ~o.dir /\ o.whole /\ o.place = "base" /\ Hole \notin Range(o.clusters)
  /\ Len(AllocatedRuns(o.clusters)) <= kMaxDataRuns
  /\ ~Straddles(o.slot)
  /\ Cardinality(Above(n)) <= kMaxPathDepth
  /\ \A d \in Above(n) : objects[d].whole /\ ~Straddles(objects[d].slot)

(* Every live file whose record and directories are intact, no deeper than
   kMaxPathDepth, whose data is described in its own record in at most kMaxDataRuns
   runs and backed by clusters, is reported exactly once: as live, at its first long
   name's place and with all of its bytes.  EntryEnumeration.cpp and
   EntryFromRecord.cpp. *)
LiveFilesAreReported ==
  phase = "done" =>
    \A n \in Ids : Recoverable(n) =>
      \E e \in Range(reported) :
        /\ Cardinality({i \in DOMAIN reported : reported[i].from = n}) = 1
        /\ e.from = n /\ e.state = "live" /\ e.grade = "valid"
        /\ e.path = PathsTo(n, 1) /\ HoldsContent(e, n)

(* An entry that is not called an orphan is given a place its file really had: every
   directory in its path is the one the host put it in, not a later user of the same
   slot.  EntryPath.cpp compares sequence numbers for this. *)
PathIsItsOwn ==
  \A i \in DOMAIN reported :
    LET e == reported[i]
        Spelled == [k \in DOMAIN e.path |-> IF e.path[k] < 0 THEN -e.path[k] ELSE e.path[k]]
    IN e.state # "orphaned" => Spelled \in PathsOf(e.from)

(* What is graded valid is a file whose record was written whole and whose bytes,
   where the entry says they are, are all of that file's, in order; and nothing is
   handed over for a file whose data the entry does not fully describe.
   EntryFromRecord.cpp, MftRecordFixup.cpp, RunlistExtents.cpp. *)
ValidIsWhole ==
  \A i \in DOMAIN reported :
    LET e == reported[i] IN
    /\ e.grade = "valid" => objects[e.from].whole /\ HoldsContent(e, e.from)
    /\ e.extents # <<>> => HoldsContent(e, e.from)
    /\ \A j \in DOMAIN reported : reported[j].from = e.from => i = j
===============================================================================
