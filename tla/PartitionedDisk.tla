--------------------------- MODULE PartitionedDisk ----------------------------
(***************************************************************************)
(* A disk as hosts and accidents leave it, sector by sector: partition     *)
(* tables written over earlier ones, volumes formatted over earlier ones,  *)
(* and then sectors lost, overwritten, misdirected or altered in one       *)
(* field.  None of this is code of the repository: it is what PartitionTable *)
(* has to read.  A checksum is the value it was taken over: no two contents *)
(* share one.                                                              *)
(***************************************************************************)
EXTENDS VolumeMount, FiniteSets, SequencesExt

CONSTANTS
  Sectors,      \* the size of the disk
  Layouts,      \* the partition tables a host may write
  FileSystems,  \* the file systems it may format with
  SpoiltValues, \* what an altered number may become
  MaxWrites,    \* bound on tables and volumes written
  MaxDamage     \* bound on accidents

VARIABLES
  disk,     \* the content of every sector
  size,     \* how many sectors the device, or the image of it, holds
  layout,   \* history: the last table written
  volumes,  \* history: by first sector, the last volume formatted there
  touched,  \* history: sectors lost, overwritten or misdirected
  spoilt,   \* history: sectors with one field altered
  writes

diskVars == <<disk, size, layout, volumes, touched, spoilt, writes>>

Window(start, count) == [start |-> start, count |-> count]
Zero == [kind |-> "zero"]
Junk == [kind |-> "junk"]
Bad == [kind |-> "bad"]        \* a read of it fails

Slot(type, start, count) == [status |-> TRUE, type |-> type, start |-> start, count |-> count]
UnusedSlot == Slot("unused", 0, 0)
Table(slots) == [kind |-> "mbr", slots |-> slots \o [i \in 1..(4 - Len(slots)) |-> UnusedSlot]]

(* An MBR layout: `slots` are sector 0's, `logicals` the chain below the extended one,
   each [ebr, start, count], with no sectors where a link describes no partition.  A GPT layout: `entries`, each [used, first, last]. *)
HeadOf(l) == l.logicals[1].ebr

LinkOf(l, i) ==
  LET here == l.logicals[i]
      next == IF i = Len(l.logicals) THEN UnusedSlot
              ELSE Slot("extended", l.logicals[i + 1].ebr - HeadOf(l), 1)
  IN Table(<<IF here.count = 0 THEN UnusedSlot
             ELSE Slot("data", here.start - here.ebr, here.count), next>>)

Header(my, array, entries) ==
  LET f == [my |-> my, first |-> 3, last |-> Sectors - 3, array |-> array,
            entryBytes |-> 128, entryCount |-> Len(entries), arrayCrc |-> entries]
  IN [kind |-> "header", fields |-> f, crc |-> f]

TableSectors(l) ==
  IF l.scheme = "mbr"
  THEN [i \in {0} \cup {x.ebr : x \in Range(l.logicals)} |->
          IF i = 0 THEN Table(l.slots)
          ELSE LinkOf(l, CHOOSE k \in DOMAIN l.logicals : l.logicals[k].ebr = i)]
  ELSE [i \in {0, 1, 2, Sectors - 2, Sectors - 1} |->
          CASE i = 0 -> Table(<<Slot("protective", 1, Sectors - 1)>>)
            [] i = 1 -> Header(1, 2, l.entries)
            [] i = Sectors - 1 -> Header(Sectors - 1, Sectors - 2, l.entries)
            [] OTHER -> [kind |-> "array", entries |-> l.entries]]

(* The partitions the first `n` links of the chain describe. *)
LogicalsOf(l, n) ==
  LET held == SelectSeq(SubSeq(l.logicals, 1, n), LAMBDA x : x.count # 0)
  IN [i \in DOMAIN held |-> Window(held[i].start, held[i].count)]

(* The partitions of a layout, in the order a listing numbers them. *)
Contribution(l, slot) ==
  CASE slot.type = "data" -> <<Window(slot.start, slot.count)>>
    [] slot.type = "extended" -> LogicalsOf(l, Len(l.logicals))
    [] OTHER -> <<>>

WindowsOf(l) ==
  CASE l.scheme = "mbr" -> FlattenSeq([i \in DOMAIN l.slots |-> Contribution(l, l.slots[i])])
    [] l.scheme = "gpt" ->
         LET used == SelectSeq(l.entries, LAMBDA e : e.used)
         IN [i \in DOMAIN used |-> Window(used[i].first, used[i].last - used[i].first + 1)]
    [] OTHER -> <<>>

(***************************************************************************)
(* Volumes.                                                                *)
(***************************************************************************)

ClusterSectors(count) == IF count >= 4 THEN 2 ELSE 1
DataClusters(count) == (count - 2) \div ClusterSectors(count)
NoX == [sectorShift |-> 0, clusterShift |-> 0, fatCount |-> 0, heapSector |-> 0,
        volumeSectors |-> 0, clusterCount |-> 0, rootCluster |-> 0]

BootOf(fs, count) ==
  [kind |-> "boot", signature |-> TRUE,
   oem |-> IF fs = "fat32" THEN "mkfs" ELSE fs,
   type |-> IF fs = "fat32" THEN "fat32" ELSE "",
   bpb |-> CASE fs = "ntfs" -> [ZeroBpb EXCEPT !.bytesPerSector = 512, !.sectorsPerCluster = 1,
                                               !.totalSectors = count, !.mftCluster = 1,
                                               !.recordSize = -9]
             [] fs = "fat32" -> [ZeroBpb EXCEPT !.bytesPerSector = 512,
                                                !.sectorsPerCluster = ClusterSectors(count),
                                                !.reservedSectors = 1, !.fatCount = 1,
                                                !.fatSectors = 1, !.totalSectors = count,
                                                !.rootCluster = DataClusters(count) + 1]
             [] OTHER -> ZeroBpb,
   x |-> IF fs = "exfat"
         THEN [sectorShift |-> 9, clusterShift |-> ClusterSectors(count) - 1, fatCount |-> 1,
               heapSector |-> 2, volumeSectors |-> count, clusterCount |-> DataClusters(count),
               rootCluster |-> DataClusters(count) + 1]
         ELSE NoX]

SuperOf(count) ==
  [kind |-> "super", magic |-> TRUE, blockShift |-> 0, wide |-> FALSE, descriptorSize |-> 0,
   firstDataBlock |-> 1, blocksPerGroup |-> 4, inodesPerGroup |-> 8, inodeSize |-> 128,
   inodes |-> 16, blocks |-> count \div 2]

(* What a reader has to understand of the volume, in the host's own terms. *)
GeometryOf(fs, count) ==
  CASE fs = "ntfs" -> [fs |-> fs, clusterBytes |-> 512, clusters |-> count, dataOffset |-> 512,
                       recordBytes |-> 512]
    [] fs = "ext4" -> [fs |-> fs, clusterBytes |-> 1024, clusters |-> count \div 2,
                       dataOffset |-> 2048, firstDataBlock |-> 1,
                       groups |-> Cardinality({(b - 1) \div 4 : b \in 1..((count \div 2) - 1)}),
                       blocksPerGroup |-> 4, inodesPerGroup |-> 8, inodeBytes |-> 128,
                       descriptorBytes |-> 32]
    [] OTHER -> [fs |-> fs, clusterBytes |-> 512 * ClusterSectors(count),
                 clusters |-> DataClusters(count), dataOffset |-> 1024,
                 root |-> DataClusters(count) + 1]

(* ext4 clears the boot sector; the others leave a superblock where it was. *)
VolumeSectors(fs, w, boot) ==
  IF fs = "ext4" THEN [i \in {w.start, w.start + 2} |->
                         IF i = w.start THEN Zero ELSE SuperOf(w.count)]
  ELSE [i \in {w.start, w.start + 1} |->
          IF i = w.start THEN boot ELSE [kind |-> IF fs = "ntfs" THEN "record" ELSE "junk"]]

(***************************************************************************)
(* Writing.                                                                *)
(***************************************************************************)

Overlaid(content) == [i \in DOMAIN disk |-> IF i \in DOMAIN content THEN content[i] ELSE disk[i]]

DiskInit ==
  /\ disk = [i \in 0..(Sectors - 1) |-> Zero]
  /\ size = Sectors
  /\ layout = [scheme |-> "none"]
  /\ volumes = <<>>
  /\ touched = {} /\ spoilt = {}
  /\ writes = 0

Writing == writes < MaxWrites /\ touched \cup spoilt = {}

partition ==
  /\ Writing
  /\ \E l \in Layouts :
       /\ disk' = Overlaid(TableSectors(l))
       /\ layout' = l
       /\ volumes' = <<>>
  /\ writes' = writes + 1
  /\ UNCHANGED <<size, touched, spoilt>>

formatPartition ==
  /\ Writing
  /\ \E i \in DOMAIN WindowsOf(layout), fs \in FileSystems :
       LET w == WindowsOf(layout)[i] IN
       /\ w.count >= IF fs = "ext4" THEN 4 ELSE 3
       /\ disk' = Overlaid(VolumeSectors(fs, w, BootOf(fs, w.count)))
       /\ volumes' = [s \in {w.start} \cup DOMAIN volumes |->
                        IF s = w.start THEN [fs |-> fs, count |-> w.count] ELSE volumes[s]]
  /\ writes' = writes + 1
  /\ UNCHANGED <<size, layout, touched, spoilt>>

(* A volume without a partition.  The old table's headers are wiped; the boot
   sector's code may fall where a table has its slots. *)
formatWhole ==
  /\ Writing
  /\ \E fs \in FileSystems, code \in BOOLEAN :
       LET w == Window(0, Sectors)
           boot == BootOf(fs, Sectors) @@ [code |-> code]
           wiped == Overlaid([i \in {1, Sectors - 1} |-> Zero])
           content == VolumeSectors(fs, w, boot)
       IN /\ disk' = [i \in DOMAIN disk |-> IF i \in DOMAIN content THEN content[i] ELSE wiped[i]]
          /\ volumes' = [s \in {0} |-> [fs |-> fs, count |-> Sectors]]
  /\ layout' = [scheme |-> "whole"]
  /\ writes' = writes + 1
  /\ UNCHANGED <<size, touched, spoilt>>

(***************************************************************************)
(* Accidents.                                                              *)
(***************************************************************************)

Structural == {i \in DOMAIN disk : disk[i].kind \in {"mbr", "header", "array", "boot", "super", "record"}}

Harming ==
  /\ Cardinality(touched) + Cardinality(spoilt) < MaxDamage
  /\ size = Sectors
  /\ UNCHANGED <<layout, volumes, writes>>

smash ==
  /\ Harming
  /\ \E i \in Structural, content \in {Zero, Junk, Bad} :
       disk' = [disk EXCEPT ![i] = content] /\ touched' = touched \cup {i}
  /\ UNCHANGED <<size, spoilt>>

(* A sector's content written over another's. *)
misplace ==
  /\ Harming
  /\ \E from, to \in Structural :
       /\ from # to
       /\ disk' = [disk EXCEPT ![to] = disk[from]]
       /\ touched' = touched \cup {to}
  /\ UNCHANGED <<size, spoilt>>

truncate ==
  /\ Harming
  /\ \E i \in Structural :
       size' = i /\ touched' = touched \cup i..(Sectors - 1)
  /\ UNCHANGED <<disk, spoilt>>

Resummed(h, f) == {[h EXCEPT !.fields = f], [h EXCEPT !.fields = f, !.crc = f]}

Spoilt(s) ==
  CASE s.kind = "mbr" ->
         UNION {{[s EXCEPT !.slots[i].status = FALSE], [s EXCEPT !.slots[i].start = 0],
                 [s EXCEPT !.slots[i].count = 0]} : i \in 1..2}
    [] s.kind = "header" ->
         UNION {Resummed(s, [s.fields EXCEPT ![field] = v]) :
                field \in {"my", "first", "array", "entryBytes", "entryCount"}, v \in SpoiltValues}
    [] s.kind = "boot" ->
         {[s EXCEPT !.bpb[field] = v] : field \in DOMAIN s.bpb, v \in SpoiltValues}
         \cup {[s EXCEPT !.x[field] = v] : field \in DOMAIN s.x, v \in SpoiltValues}
         \cup {[s EXCEPT !.signature = FALSE]}
    [] s.kind = "super" ->
         {[s EXCEPT ![field] = v] : field \in DOMAIN s \ {"kind", "magic", "wide"}, v \in SpoiltValues}
         \cup {[s EXCEPT !.wide = TRUE]}
    [] OTHER -> {}

spoil ==
  /\ Harming
  /\ \E i \in Structural : \E content \in Spoilt(disk[i]) :
       disk' = [disk EXCEPT ![i] = content] /\ spoilt' = spoilt \cup {i}
  /\ UNCHANGED <<size, touched>>

Host == partition \/ formatPartition \/ formatWhole
Accident == smash \/ misplace \/ truncate \/ spoil
===============================================================================
