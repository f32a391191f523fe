---------------------------- MODULE PartitionTable ----------------------------
(***************************************************************************)
(* What a run walks: the partition table of a disk, read from sector 0,    *)
(* from the chain below an extended partition or from either copy of a GPT *)
(* (volume/PartitionTable.cpp, MbrPartitions.cpp, ExtendedChain.cpp,       *)
(* GptPartitions.cpp), the scope an operator chose                         *)
(* (recovery/RunScope.cpp), and every volume of it mounted and reported in *)
(* the coordinates of the disk (recovery/PartitionedWalk.cpp,              *)
(* fs/Mount.cpp).                                                          *)
(*                                                                         *)
(* One step is one sector of the table, or one volume.  A mounted volume   *)
(* reports one entry, at the offset its geometry gives.                    *)
(***************************************************************************)
EXTENDS PartitionedDisk

CONSTANTS
  kMaxLogicalPartitions, \* how many logical partitions one chain may give
  kMaxEntryArrayBytes,   \* the largest entry array read
  MaxNumber              \* bound on the --partition an operator asks for

ASSUME PartitionAssumption == kMaxLogicalPartitions \in Nat \ {0} /\ Sectors \in Nat \ {0}

VARIABLES
  pc,       \* "host", "slots", "chain", "primary", "backup", "resolve", "walk", "done", "refused", "failed"
  slots,    \* the entries of sector 0 not yet taken
  found,    \* the partitions taken
  ebr,      \* ChainWalk::ebrLba_, the link to read next
  head,     \* ChainWalk::extendedStartLba_
  seen,     \* ChainWalk::seen_
  logicals, \* ChainWalk::found_
  fallback, \* the answer when neither copy of a GPT can be read
  table,    \* the partition table, or NoTable
  scope,    \* the window a run is confined to
  todo,     \* the volumes not yet walked
  emitted   \* what the visitor was given

readVars == <<pc, slots, found, ebr, head, seen, logicals, fallback, table, scope, todo, emitted>>
vars == <<diskVars, readVars>>

NoTable == [scheme |-> "error"]

Init ==
  /\ DiskInit
  /\ pc = "host"
  /\ slots = <<>> /\ found = <<>>
  /\ ebr = 0 /\ head = 0 /\ seen = {} /\ logicals = <<>>
  /\ fallback = NoTable /\ table = NoTable
  /\ scope = Window(0, Sectors) /\ todo = <<>> /\ emitted = <<>>

(* A whole sector of the device; NotRead where there is none or the read fails. *)
NotRead == [kind |-> "notRead"]
readTableSector(lba) == IF lba < size /\ disk[lba] # Bad THEN disk[lba] ELSE NotRead

(***************************************************************************)
(* MBR.  A boot sector whose table area is zero is a table without         *)
(* entries.                                                                *)
(***************************************************************************)

statusIsValid(e) == e.status
placedExtent(e) == e.type = "unused" \/ (e.start # 0 /\ e.count # 0)

InvalidTable == <<>>
EmptyTable == [i \in 1..4 |-> UnusedSlot]

parseMbrSector(s) ==
  CASE s.kind = "mbr" /\ (\A i \in 1..4 : statusIsValid(s.slots[i]) /\ placedExtent(s.slots[i])) ->
         s.slots
    [] s.kind = "boot" /\ s.signature /\ "code" \in DOMAIN s /\ ~s.code -> EmptyTable
    [] OTHER -> InvalidTable

defersToGpt(entries) == \E i \in DOMAIN entries : entries[i].type = "protective"

numbered(windows) == [i \in DOMAIN windows |-> [number |-> i] @@ windows[i]]

(* Sector 0 decides: a protective entry is a GPT's, a table that does not parse
   leaves only a GPT, and anything else is read as it stands. *)
readSectorZero ==
  /\ pc = "host"
  /\ LET entries == parseMbrSector(readTableSector(0))
     IN IF entries # InvalidTable /\ ~defersToGpt(entries)
        THEN pc' = "slots" /\ slots' = entries
        ELSE pc' = "primary" /\ slots' = <<>>
  /\ UNCHANGED <<diskVars, found, ebr, head, seen, logicals, fallback, table, scope, todo, emitted>>

(* The next entry of sector 0 that names a partition. *)
appendSlot ==
  /\ pc = "slots" /\ slots # <<>> /\ Head(slots).type # "extended"
  /\ slots' = Tail(slots)
  /\ found' = IF Head(slots).type = "unused" THEN found
              ELSE Append(found, Window(Head(slots).start, Head(slots).count))
  /\ UNCHANGED <<diskVars, pc, ebr, head, seen, logicals, fallback, table, scope, todo, emitted>>

startChain ==
  /\ pc = "slots" /\ slots # <<>> /\ Head(slots).type = "extended"
  /\ pc' = "chain"
  /\ slots' = Tail(slots)
  /\ head' = Head(slots).start
  /\ ebr' = Head(slots).start
  /\ seen' = {} /\ logicals' = <<>>
  /\ UNCHANGED <<diskVars, found, fallback, table, scope, todo, emitted>>

(* Mutant of canStep: a link may be read again. *)
canStep_again == ebr # 0 /\ Len(logicals) < kMaxLogicalPartitions

canStep == ebr # 0 /\ Len(logicals) < kMaxLogicalPartitions /\ ebr \notin seen

(* Mutant of logicalOf: a logical partition is placed from the chain's head. *)
logicalOf_fromHead(e) ==
  IF e.type \in {"unused", "extended"} THEN <<>> ELSE <<Window(head + e.start, e.count)>>

(* Placed from the link that describes it. *)
logicalOf(e) ==
  IF e.type \in {"unused", "extended"} THEN <<>> ELSE <<Window(ebr + e.start, e.count)>>

(* Placed from the extended partition's start. *)
nextLbaOf(e) == IF e.type = "extended" THEN head + e.start ELSE 0

(* One link; a link that does not parse ends the chain. *)
chainStep ==
  /\ pc = "chain" /\ canStep
  /\ seen' = seen \cup {ebr}
  /\ LET entries == parseMbrSector(readTableSector(ebr))
     IN IF entries = InvalidTable
        THEN ebr' = 0 /\ UNCHANGED logicals
        ELSE /\ logicals' = logicals \o logicalOf(entries[1])
             /\ ebr' = nextLbaOf(entries[2])
  /\ UNCHANGED <<diskVars, pc, slots, found, head, fallback, table, scope, todo, emitted>>

endChain ==
  /\ pc = "chain" /\ ~canStep
  /\ pc' = "slots"
  /\ found' = found \o logicals
  /\ UNCHANGED <<diskVars, slots, ebr, head, seen, logicals, fallback, table, scope, todo, emitted>>

(* A table with partitions is the answer; one without any may be all that is
   left of a GPT's. *)
mbrTable ==
  /\ pc = "slots" /\ slots = <<>>
  /\ LET read == [scheme |-> "mbr", partitions |-> numbered(found), fromBackup |-> FALSE]
     IN IF found = <<>>
        THEN pc' = "primary" /\ fallback' = read /\ UNCHANGED table
        ELSE pc' = "resolve" /\ table' = read /\ UNCHANGED fallback
  /\ UNCHANGED <<diskVars, slots, found, ebr, head, seen, logicals, scope, todo, emitted>>

(***************************************************************************)
(* GPT.                                                                    *)
(***************************************************************************)

headerBodyOf(f) ==
  /\ f.first <= f.last
  /\ f.entryBytes >= 128 /\ f.entryBytes % 8 = 0
  /\ f.entryCount * f.entryBytes <= kMaxEntryArrayBytes

verifiedHeader(s, atLba) == s.crc = s.fields /\ s.fields.my = atLba /\ headerBodyOf(s.fields)

parseGptHeader(s, atLba) == s.kind = "header" /\ verifiedHeader(s, atLba)

(* The checksum covers as many entries of that size as the header states. *)
arrayMatches(s, f) ==
  /\ s.kind = "array"
  /\ f.entryBytes = 128 /\ f.entryCount = Len(s.entries)
  /\ f.arrayCrc = s.entries

(* An entry that ends before it begins fails the whole copy, used or not. *)
parseGptEntry(e) == e.first <= e.last

partitionsIn(entries) ==
  LET used == SelectSeq(entries, LAMBDA e : e.used)
  IN [i \in DOMAIN used |-> Window(used[i].first, used[i].last - used[i].first + 1)]

tableAt(lba, fromBackup) ==
  LET h == readTableSector(lba)
  IN IF ~parseGptHeader(h, lba) THEN NoTable
     ELSE LET array == readTableSector(h.fields.array)
          IN IF /\ arrayMatches(array, h.fields)
                /\ \A i \in DOMAIN array.entries : parseGptEntry(array.entries[i])
             THEN [scheme |-> "gpt", partitions |-> numbered(partitionsIn(array.entries)),
                   fromBackup |-> fromBackup]
             ELSE NoTable

Answer(t) == pc' = "resolve" /\ table' = t

gptPrimary ==
  /\ pc = "primary"
  /\ LET t == tableAt(1, FALSE)
     IN IF t # NoTable THEN Answer(t) ELSE pc' = "backup" /\ UNCHANGED table
  /\ UNCHANGED <<diskVars, slots, found, ebr, head, seen, logicals, fallback, scope, todo, emitted>>

(* The backup is sought in the last sector the device has. *)
gptBackup ==
  /\ pc = "backup"
  /\ LET t == IF size = 0 THEN NoTable ELSE tableAt(size - 1, TRUE)
     IN Answer(IF t # NoTable THEN t ELSE fallback)
  /\ UNCHANGED <<diskVars, slots, found, ebr, head, seen, logicals, fallback, scope, todo, emitted>>

(***************************************************************************)
(* Scope.                                                                  *)
(***************************************************************************)

layoutOf == IF table = NoTable THEN <<>> ELSE table.partitions

(* A run over everything: each partition, or the one volume a device without any
   is. *)
resolveWhole ==
  /\ pc = "resolve"
  /\ pc' = "walk"
  /\ todo' = IF layoutOf = <<>> THEN <<[number |-> 0] @@ Window(0, size)>> ELSE layoutOf
  /\ scope' = Window(0, size)
  /\ UNCHANGED <<diskVars, slots, found, ebr, head, seen, logicals, fallback, table, emitted>>

(* A run over one partition, by its number in the listing. *)
resolvePartition ==
  /\ pc = "resolve"
  /\ \E n \in 1..MaxNumber :
       LET chosen == SelectSeq(layoutOf, LAMBDA p : p.number = n)
       IN IF chosen = <<>>
          THEN pc' = "refused" /\ UNCHANGED <<scope, todo>>
          ELSE /\ pc' = "walk"
               /\ scope' = Window(chosen[1].start, chosen[1].count)
               /\ todo' = <<[number |-> 0] @@ Window(0, chosen[1].count)>>
  /\ UNCHANGED <<diskVars, slots, found, ebr, head, seen, logicals, fallback, table, emitted>>

(***************************************************************************)
(* The walk.                                                               *)
(***************************************************************************)

clampLength(start, length, parentSize) ==
  IF start >= parentSize THEN 0
  ELSE IF length < parentSize - start THEN length ELSE parentSize - start

(* The window of a volume inside the scope, on the disk. *)
viewOf(p) ==
  LET start == scope.start + p.start
      scoped == clampLength(scope.start, scope.count, size)
  IN Window(start, clampLength(p.start, p.count, scoped))

(* What a read of `count` sectors from sector `at` of the view comes to. *)
readMountRegion(view, at, count) ==
  IF at + count > view.count THEN Declined
  ELSE IF \E i \in at..(at + count - 1) : disk[view.start + i] = Bad THEN Unreadable
  ELSE disk[view.start + at]

Recognized(region, kind, recognize(_)) ==
  IF region \in Failures THEN region
  ELSE IF region.kind = kind THEN recognize(region) ELSE Declined

(* The first record of the table.  A block that is cut short is kOutOfRange, one
   without the signature of a record kNotFound: the answer of a volume that is not
   NTFS.  (What a record says of its table is MftWalk's.) *)
openMftTable(view, g) ==
  LET block == readMountRegion(view, g.dataOffset \div 512, 1)
  IN CASE block = Declined -> Refused
       [] block = Unreadable -> Unreadable
       [] block.kind = "record" -> g
       [] OTHER -> Declined

(* A volume of NTFS also has to show the first record of its table. *)
mountNtfs(view) ==
  LET g == Recognized(readMountRegion(view, 0, 1), "boot", recognizeNtfs)
  IN IF g \in Failures THEN g ELSE openMftTable(view, g)

mountExfat(view) == Recognized(readMountRegion(view, 0, 1), "boot", recognizeExfat)
mountFat32(view) == Recognized(readMountRegion(view, 0, 1), "boot", recognizeFat32)
mountExt4(view) == Recognized(readMountRegion(view, 2, 2), "super", recognizeExt4)

(* Mutant of declined: any failure asks the next one. *)
declined_anyFailure(mounted) == mounted \in Failures

declined(mounted) == mounted = Declined

mountVolume(view) ==
  LET ntfs == mountNtfs(view)
      exfat == mountExfat(view)
      fat32 == mountFat32(view)
  IN IF ~declined(ntfs) THEN ntfs
     ELSE IF ~declined(exfat) THEN exfat
     ELSE IF ~declined(fat32) THEN fat32
     ELSE mountExt4(view)

(* An entry of the volume: its partition's number before its path, and its bytes
   where they are in the scope's device; `at` adds where that begins on the disk. *)
PartitionEntries(p, g) ==
  [number |-> p.number, fs |-> g.fs, at |-> scope.start * 512 + p.start * 512 + g.dataOffset]

(* Mutant of walkOne: the first volume that fails ends the walk. *)
walkOne_fatal ==
  /\ pc = "walk" /\ todo # <<>>
  /\ LET p == Head(todo)
         g == mountVolume(viewOf(p))
     IN IF g \in Failures
        THEN pc' = "failed" /\ UNCHANGED emitted
        ELSE emitted' = Append(emitted, PartitionEntries(p, g)) /\ UNCHANGED pc
  /\ todo' = Tail(todo)
  /\ UNCHANGED <<diskVars, slots, found, ebr, head, seen, logicals, fallback, table, scope>>

(* One volume.  One of several that fails is passed over, whatever its error; a run
   over a single volume fails with it. *)
walkOne ==
  /\ pc = "walk" /\ todo # <<>>
  /\ LET p == Head(todo)
         g == mountVolume(viewOf(p))
     IN IF g \in Failures
        THEN pc' = (IF p.number = 0 THEN "failed" ELSE pc) /\ UNCHANGED emitted
        ELSE emitted' = Append(emitted, PartitionEntries(p, g)) /\ UNCHANGED pc
  /\ todo' = Tail(todo)
  /\ UNCHANGED <<diskVars, slots, found, ebr, head, seen, logicals, fallback, table, scope>>

walkEnds ==
  /\ pc = "walk" /\ todo = <<>>
  /\ pc' = "done"
  /\ UNCHANGED <<diskVars, slots, found, ebr, head, seen, logicals, fallback, table, scope, todo, emitted>>

Reading ==
  \/ readSectorZero \/ appendSlot \/ startChain \/ chainStep \/ endChain \/ mbrTable
  \/ gptPrimary \/ gptBackup \/ resolveWhole \/ resolvePartition
  \/ walkOne \/ walkEnds

Next ==
  \/ pc = "host" /\ (Host \/ Accident) /\ UNCHANGED readVars
  \/ Reading

(* The loop of ChainWalk::collect goes on by itself. *)
Spec == Init /\ [][Next]_vars /\ WF_vars(chainStep \/ endChain)

-------------------------------------------------------------------------------

Intact(i) == i \notin touched \cup spoilt

Listed == [i \in DOMAIN layoutOf |-> Window(layoutOf[i].start, layoutOf[i].count)]

(* An accident left sector 0 naming partitions of its own. *)
FalseTable ==
  LET entries == parseMbrSector(readTableSector(0))
  IN \E i \in DOMAIN entries : entries[i].type \notin {"unused", "protective"}

(* The links of the written chain before the first one an accident reached. *)
Unbroken ==
  LET broken == {i \in DOMAIN layout.logicals : ~Intact(layout.logicals[i].ebr)}
  IN IF broken = {} THEN Len(layout.logicals) ELSE Min(broken) - 1

(* The slots of sector 0 around the extended one. *)
Around(after) ==
  LET at == CHOOSE i \in DOMAIN layout.slots : layout.slots[i].type = "extended"
      cut == IF after THEN SubSeq(layout.slots, at + 1, Len(layout.slots))
             ELSE SubSeq(layout.slots, 1, at - 1)
  IN [i \in DOMAIN cut |-> Window(cut[i].start, cut[i].count)]

MbrListed ==
  IF layout.logicals = <<>> THEN Listed = WindowsOf(layout)
  ELSE LET behind == LogicalsOf(layout, Unbroken)
           chain == SubSeq(behind, 1, Min({Len(behind), kMaxLogicalPartitions}))
           ended ==
             \/ Unbroken = Len(layout.logicals) \/ Len(chain) = kMaxLogicalPartitions
             \/ parseMbrSector(readTableSector(layout.logicals[Unbroken + 1].ebr)) = InvalidTable
       IN /\ IsPrefix(Around(FALSE) \o chain, Listed)
          /\ ended => Listed = Around(FALSE) \o chain \o Around(TRUE)

(* The listing is the last table written, whatever one accident did to it as long
   as something is left to read it from: a GPT from either copy of its header and
   array, and behind any sector 0 that does not name partitions itself; an MBR from
   sector 0, a lost link of the chain hiding the logical partitions behind it and
   neither those before nor the primary ones after; and a volume without a
   partition table is never given one. *)
TableIsTheLayout ==
  pc \in {"resolve", "walk", "done", "failed", "refused"} =>
    CASE layout.scheme = "gpt" ->
           \/ FalseTable
           \/ ~(Intact(1) /\ Intact(2)) /\ ~(Intact(Sectors - 1) /\ Intact(Sectors - 2))
           \/ Listed = WindowsOf(layout)
      [] layout.scheme = "mbr" -> Intact(0) => MbrListed
      [] OTHER -> FalseTable \/ Listed = <<>>

(* The sectors that say what the volume at `s` is. *)
Naming(s) ==
  CASE volumes[s].fs = "ext4" -> {s, s + 2, s + 3}
    [] volumes[s].fs = "ntfs" -> {s, s + 1}
    [] OTHER -> {s}

(* Numbers a reader may compute with: every cluster it will ask for is one. *)
Usable(g) ==
  /\ g.clusters > 0 /\ g.clusterBytes \in {2^k : k \in 9..25}
  /\ CASE g.fs = "ntfs" -> g.dataOffset < g.clusters * g.clusterBytes
       [] g.fs = "ext4" -> /\ g.groups * g.blocksPerGroup >= g.clusters - g.firstDataBlock
                           /\ (g.groups - 1) * g.blocksPerGroup < g.clusters - g.firstDataBlock
                           /\ g.inodeBytes <= g.clusterBytes
       [] OTHER -> g.root - 2 \in 0..(g.clusters - 1)

(* The boot sector leads to the table it was written with, or to none. *)
LeadsToItsTable(s) == recognizeNtfs(disk[s]) \in Failures \/ disk[s].bpb.mftCluster = 1

(* A volume is taken for what it was last formatted as, with the geometry it was
   given; one whose name still stands and whose fields do not is refused, and never
   taken for the older volume some of whose sectors are still there, unless it is an
   NTFS volume whose boot sector leads to a place without a record (see
   NamedNtfsIsNoOther); and whatever the fields say, an accepted geometry can be
   computed with.  fs/Mount.cpp, the boot sector parsers. *)
MountedIsTheLastFormat ==
  pc = "walk" /\ todo # <<>> =>
    LET view == viewOf(Head(todo))
        answer == mountVolume(view)
    IN /\ answer \notin Failures => Usable(answer)
       /\ view.start \in DOMAIN volumes /\ volumes[view.start].count = view.count =>
            LET v == volumes[view.start]
            IN /\ Naming(view.start) \cap (touched \cup spoilt) = {} =>
                    answer = GeometryOf(v.fs, v.count)
               /\ /\ Naming(view.start) \cap touched = {}
                  /\ v.fs = "exfat" => disk[view.start].bpb = ZeroBpb
                  /\ v.fs = "ntfs" => LeadsToItsTable(view.start)
                  => answer \in Failures \/ answer.fs = v.fs

(* What story-0301 asks of every mounter ("A volume that *does* carry it belongs to
   that mounter, and its parse failure is returned unchanged rather than passed
   over"), for NTFS: a volume whose boot sector carries the name of NTFS is mounted as
   NTFS or as nothing.  mountNtfs hands on the kNotFound of a first record without its
   signature, which Mount.cpp reads as a volume that is not NTFS: the code does not keep
   this. *)
NamedNtfsIsNoOther ==
  pc = "walk" /\ todo # <<>> =>
    LET view == viewOf(Head(todo))
        boot == readMountRegion(view, 0, 1)
        answer == mountVolume(view)
    IN boot \notin Failures /\ boot.kind = "boot" /\ boot.oem = "ntfs" =>
         answer \in Failures \/ answer.fs = "ntfs"

InScope(s) ==
  \/ scope = Window(s, volumes[s].count)
  \/ scope = Window(0, size) /\ Window(s, volumes[s].count) \in Range(Listed)

EntryOf(s) ==
  [number |-> IF scope = Window(s, volumes[s].count) THEN 0
              ELSE CHOOSE i \in DOMAIN Listed : Listed[i] = Window(s, volumes[s].count),
   fs |-> volumes[s].fs,
   at |-> s * 512 + GeometryOf(volumes[s].fs, volumes[s].count).dataOffset]

(* A volume no accident reached, in a partition the listing has, comes back once:
   under the number the listing gives it and at the offset of the disk where its
   bytes are, whether the run covers the disk or that partition, and whatever the
   other partitions turn out to hold. *)
EveryVolumeIsReported ==
  pc \in {"done", "failed"} =>
    \A s \in DOMAIN volumes :
      (Naming(s) \cap (touched \cup spoilt) = {} /\ s + volumes[s].count <= size /\ InScope(s)) =>
        /\ pc = "done"
        /\ Cardinality({i \in DOMAIN emitted : emitted[i] = EntryOf(s)}) = 1

(* The walk of a chain ends and gives its place back to the slots of sector 0, also
   where links lead back into themselves or to each other. *)
ChainEnds == pc = "chain" ~> pc = "slots"
===============================================================================
