------------------------------ MODULE MftVolume -------------------------------
(***************************************************************************)
(* An NTFS volume in use, before it is read: the master file table on disk *)
(* and the host that writes it (external).                                 *)
(*                                                                         *)
(* A record fills two strides, and each stride ends with the number of the *)
(* write that put it there, so a power cut between the two shows.  The     *)
(* first stride holds the header and the names, the second the data.       *)
(* `objects` is what the host meant: one entry for every file and          *)
(* directory it ever made, with where it last was.  The name of object n   *)
(* is n, and its short alias is -n.                                        *)
(***************************************************************************)
EXTENDS Runlist

CONSTANTS
  Records,            \* slots of the table
  kMftRecordNumber, kRootRecordNumber, kFirstUserRecord,
  MftLayouts,         \* the places the table may be in: clusters in table order
  Shapes,             \* the files a host makes: clusters in file order, bytes short of them, alias
  FirstShape,         \* the file that is there at the start
  MaxChanges          \* changes the host makes, and the mishap that ends its work

ASSUME MftAssumption ==
  /\ {Records, kMftRecordNumber, kRootRecordNumber, kFirstUserRecord} \subseteq Nat
  /\ kMftRecordNumber < kRootRecordNumber /\ kRootRecordNumber < kFirstUserRecord
  /\ MaxChanges \in Nat /\ FirstShape \in Shapes

VARIABLES
  layout,      \* the clusters of the table, in table order; record zero says them too
  disk,        \* what each cluster of the table holds
  objects,
  habit,       \* when the host counts a slot's sequence number up: "delete" or "reuse"
  unreadable,  \* clusters the device cannot read
  running,     \* the host is at work: it stops at the first mishap
  changes

volumeVars == <<layout, disk, objects, habit, unreadable, running, changes>>

Strides == 2
RecordBytes == Strides * ClusterBytes
VolumeMap == 0..(VolumeClusters - 1)
UserSlots == kFirstUserRecord..(Records - 1)
Root == 0

(* Record zero is in one place, as the boot sector says where; the table's clusters
   are its own; and the first three user records exist. *)
ASSUME LayoutAssumption ==
  /\ kMftRecordNumber = 0 /\ kFirstUserRecord + 2 < Records
  /\ \A l \in MftLayouts :
       /\ l \in Seq(VolumeMap) /\ Len(l) = Strides * Records /\ l[2] = l[1] + 1
       /\ \A i, j \in 1..Len(l) : l[i] = l[j] => i = j

(* A file ends in its last cluster. *)
ASSUME ShapeAssumption ==
  \A s \in Shapes : /\ s.clusters \in Seq(VolumeMap \cup {Hole})
                    /\ s.short \in 0..(ClusterBytes - 1)
                    /\ s.alias \in {"none", "first", "last"}

Blank == [kind |-> "blank"]

Std == [type |-> "std", flaw |-> "none"]
NameAttr(link, name, dos) ==
  [type |-> "name", flaw |-> "none", parent |-> link, name |-> name, dos |-> dos]
DataAttr(stream, resident, runs, size, content) ==
  [type |-> "data", flaw |-> "none", stream |-> stream, resident |-> resident, runs |-> runs,
   size |-> size, content |-> content]
ListAttr == [type |-> "list", flaw |-> "none"]
NoRuns == [runs |-> <<>>, ended |-> TRUE]

(***************************************************************************)
(* The table, which does not grow or move while the host runs.             *)
(***************************************************************************)

SlotClusters(slot) == [i \in 1..Strides |-> layout[Strides * slot + i]]

Header(slot) == disk[SlotClusters(slot)[1]]
Used(slot) == Header(slot).kind = "mft"
UsnOf(slot) == IF Used(slot) THEN Header(slot).usn ELSE 0
SequenceOf(slot) == IF Used(slot) THEN Header(slot).head.sequence ELSE 0

NoHead == [flaw |-> "magic"]   \* a stride that does not start a record

StridesOf(usn, head, first, second) ==
  <<[kind |-> "mft", usn |-> usn, head |-> head, attrs |-> first],
    [kind |-> "mft", usn |-> usn, head |-> NoHead, attrs |-> second]>>

(* Write the strides in `reached` of a record: all of them unless power fails. *)
Written(before, slot, head, first, second, reached) ==
  LET at == SlotClusters(slot)
      new == StridesOf(UsnOf(slot) + 1, head, first, second)
  IN [c \in VolumeMap |-> IF \E i \in reached : at[i] = c
                          THEN new[CHOOSE i \in reached : at[i] = c] ELSE before[c]]

(***************************************************************************)
(* Objects.                                                                *)
(***************************************************************************)

Ids == DOMAIN objects
LiveIds == {n \in Ids : objects[n].live}
SlotOf(n) == IF n = Root THEN kRootRecordNumber ELSE objects[n].slot
HeldSlots == UNION {{objects[n].slot, objects[n].ext} : n \in LiveIds}
TornSlots == {objects[n].slot : n \in {k \in Ids : ~objects[k].whole}}
FreeSlots == UserSlots \ (HeldSlots \cup TornSlots)
HeldClusters == UNION {Range(objects[n].clusters) : n \in LiveIds}
Directories == {Root} \cup {n \in LiveIds : objects[n].dir /\ objects[n].whole}
Children(n) == {k \in LiveIds : \E i \in DOMAIN objects[k].links : objects[k].links[i] = n}

(* Where object n is, as the host has it: the names from the root down to its k-th
   link. *)
PathsTo(n, k) ==
  LET up[i \in 0..Len(objects)] ==
        IF i = 0 THEN <<objects[n].links[k]>>
        ELSE LET above == up[i - 1] IN
             IF above[1] = Root THEN above ELSE <<objects[above[1]].links[1]>> \o above
  IN Append(Tail(up[Len(objects)]), n)

(* The reference a name keeps of the directory it is in. *)
LinkOf(n) == [record |-> SlotOf(n), sequence |-> SequenceOf(SlotOf(n))]

HeadOf(o, sequence) ==
  [sequence |-> sequence, inUse |-> o.live, dir |-> o.dir, base |-> 0, flaw |-> "none"]

(* The names of an object, as the three name spaces have them: one long name, or an
   alias before or after it. *)
NamesOf(o, n) ==
  LET up(i) == LinkOf(o.links[i])
      long(i) == NameAttr(up(i), n, FALSE)
      alias == NameAttr(up(1), -n, TRUE)
      longs == [i \in DOMAIN o.links |-> long(i)]
  IN CASE o.alias = "none" -> longs
       [] o.alias = "first" -> <<alias>> \o longs
       [] o.alias = "last" -> longs \o <<alias>>

FirstStride(o, n) ==
  <<Std>> \o (IF o.place # "base" THEN <<ListAttr>> ELSE <<>>) \o NamesOf(o, n)

(* The data of an object: all of it here, the start of it here and the rest in an
   extension record, or none of it here; a second stream comes after it. *)
SecondStride(o, n) ==
  LET own == DataAttr("unnamed", o.resident, IF o.resident THEN NoRuns ELSE encodeRunlist(o.clusters),
                      o.size, n)
      start == [own EXCEPT !.runs = encodeRunlist(SubSeq(o.clusters, 1, 1))]
      stream == DataAttr("stream", TRUE, NoRuns, 1, -n)
  IN CASE o.dir -> <<>>
       [] ~o.dir /\ o.place = "base" -> <<own, stream>>
       [] ~o.dir /\ o.place = "split" -> <<start, stream>>
       [] ~o.dir /\ o.place = "extension" -> <<stream>>

WriteObject(before, n, o, sequence, reached) ==
  Written(before, o.slot, HeadOf(o, sequence), FirstStride(o, n), SecondStride(o, n), reached)

(***************************************************************************)
(* The host.  Every change is a record written in full, or up to one       *)
(* stride when the power fails.                                            *)
(***************************************************************************)

Reaches == {1..Strides, {1}, {2}}
Whole(reached) == reached = 1..Strides
Spend(reached) ==
  /\ running' = Whole(reached)
  /\ UNCHANGED <<layout, habit, unreadable>>

NewFile(slot, parent, shape) ==
  [slot |-> slot, ext |-> 0, dir |-> FALSE, links |-> <<parent>>, alias |-> shape.alias,
   clusters |-> shape.clusters,
   size |-> IF shape.clusters = <<>> THEN 1 ELSE Len(shape.clusters) * ClusterBytes - shape.short,
   resident |-> shape.clusters = <<>>, place |-> "base", live |-> TRUE, whole |-> TRUE]
NewDirectory(slot, parent) ==
  [NewFile(slot, parent, [clusters |-> <<>>, short |-> 0, alias |-> "none"]) EXCEPT !.dir = TRUE]

SequenceForNew(slot) ==
  IF habit = "reuse" \/ ~Used(slot) THEN SequenceOf(slot) + 1 ELSE SequenceOf(slot)

Add(o, reached) ==
  /\ disk' = WriteObject(disk, Len(objects) + 1, o, SequenceForNew(o.slot), reached)
  /\ objects' = Append(objects, [o EXCEPT !.whole = Whole(reached)])
  /\ Spend(reached)

create(parent, shape, reached) ==
  \E slot \in FreeSlots :
    /\ (Range(shape.clusters) \ {Hole}) \cap HeldClusters = {}
    /\ Add(NewFile(slot, parent, shape), reached)

makeDirectory(parent, reached) == \E slot \in FreeSlots : Add(NewDirectory(slot, parent), reached)

Rewrite(n, o, sequence, reached) ==
  /\ disk' = WriteObject(disk, n, o, sequence, reached)
  /\ objects' = [objects EXCEPT ![n] = [o EXCEPT !.whole = Whole(reached)]]
  /\ Spend(reached)

move(n, parent, reached) ==
  /\ parent # Root => n \notin Range(PathsTo(parent, 1))
  /\ objects[n].links[1] # parent
  /\ Rewrite(n, [objects[n] EXCEPT !.links[1] = parent], SequenceOf(objects[n].slot), reached)

link(n, parent, reached) ==
  /\ ~objects[n].dir /\ Len(objects[n].links) = 1 /\ objects[n].links[1] # parent
  /\ Rewrite(n, [objects[n] EXCEPT !.links = Append(@, parent)],
             SequenceOf(objects[n].slot), reached)

SequenceForDeleted(slot) == IF habit = "delete" THEN SequenceOf(slot) + 1 ELSE SequenceOf(slot)

(* Only the header and its stride change meaning: the names and the data stay. *)
delete(n, reached) ==
  /\ Children(n) = {}
  /\ LET slot == objects[n].slot IN
     /\ disk' = Written(disk, slot, [Header(slot).head EXCEPT !.inUse = FALSE,
                                                              !.sequence = SequenceForDeleted(slot)],
                        Header(slot).attrs, disk[SlotClusters(slot)[2]].attrs, reached)
     /\ objects' = [objects EXCEPT ![n].live = FALSE, ![n].whole = Whole(reached)]
     /\ Spend(reached)

(* The attributes outgrow the record: an extension takes the data, or its tail. *)
spill(n, place) ==
  \E ext \in FreeSlots :
    LET o == [objects[n] EXCEPT !.place = place, !.ext = ext]
        extended == Written(disk, ext, [sequence |-> SequenceForNew(ext), inUse |-> TRUE,
                                        dir |-> FALSE, base |-> o.slot,
                                        flaw |-> "none"], <<>>,
                            <<DataAttr("unnamed", FALSE, encodeRunlist(o.clusters), o.size, n)>>,
                            1..Strides)
    IN /\ ~o.dir /\ ~o.resident /\ objects[n].place = "base"
       /\ Len(o.clusters) > 1
       /\ disk' = WriteObject(extended, n, o, SequenceOf(o.slot), 1..Strides)
       /\ objects' = [objects EXCEPT ![n] = o]
       /\ Spend(1..Strides)

HostChanges ==
  \E reached \in Reaches :
    \/ \E parent \in Directories, shape \in Shapes : create(parent, shape, reached)
    \/ \E parent \in Directories : makeDirectory(parent, reached)
    \/ \E n \in {k \in LiveIds : objects[k].whole} :
         \/ \E parent \in Directories : move(n, parent, reached) \/ link(n, parent, reached)
         \/ delete(n, reached)
         \/ Whole(reached) /\ \E place \in {"split", "extension"} : spill(n, place)

(***************************************************************************)
(* The medium: an attribute spoiled in place, a run list cut or zeroed, a  *)
(* cluster that cannot be read any more.                                   *)
(***************************************************************************)

Harm == running' = FALSE /\ UNCHANGED <<layout, habit>>

NotWhole(slot) ==
  [n \in Ids |-> IF objects[n].slot = slot THEN [objects[n] EXCEPT !.whole = FALSE] ELSE objects[n]]

spoilAttribute(slot, half, flaw) ==
  /\ Used(slot)
  /\ LET at == SlotClusters(slot)[half] IN
     /\ disk[at].kind = "mft"
     /\ \E i \in DOMAIN disk[at].attrs :
          /\ flaw = "content" => disk[at].attrs[i].type \in {"std", "name"}
          /\ flaw = "tail" => disk[at].attrs[i].type = "data"
          /\ disk' = [disk EXCEPT ![at].attrs[i].flaw = flaw]
  /\ objects' = NotWhole(slot)
  /\ Harm /\ UNCHANGED unreadable

spoilHeader(slot, flaw) ==
  /\ Used(slot)
  /\ disk' = [disk EXCEPT ![SlotClusters(slot)[1]].head.flaw = flaw]
  /\ objects' = NotWhole(slot)
  /\ Harm /\ UNCHANGED unreadable

spoilRuns(slot, how) ==
  /\ Used(slot)
  /\ LET at == SlotClusters(slot)[2] IN
     /\ disk[at].kind = "mft"
     /\ \E i \in DOMAIN disk[at].attrs :
          /\ disk[at].attrs[i].type = "data" /\ disk[at].attrs[i].runs.runs # <<>>
          /\ disk' = CASE how = "cut" -> [disk EXCEPT ![at].attrs[i].runs.ended = FALSE]
                       [] how = "empty" -> [disk EXCEPT ![at].attrs[i].runs.runs[1].length = 0]
                       [] how = "back" ->
                         [disk EXCEPT ![at].attrs[i].runs.runs[1].offset =
                            (Digit^(disk[at].attrs[i].runs.runs[1].offsetWidth)) - 1]
  /\ objects' = NotWhole(slot)
  /\ Harm /\ UNCHANGED unreadable

loseCluster(c) ==
  /\ unreadable' = unreadable \cup {c}
  /\ Harm /\ UNCHANGED <<disk, objects>>

Mishaps ==
  \/ \E slot \in UserSlots :
       \/ \E half \in 1..Strides, flaw \in {"length", "tail", "content"} :
            spoilAttribute(slot, half, flaw)
       \/ \E flaw \in {"magic", "offset", "usa"} : spoilHeader(slot, flaw)
       \/ \E how \in {"cut", "empty", "back"} : spoilRuns(slot, how)
  \/ \E c \in Range(layout) : loseCluster(c)

VolumeChanges ==
  /\ running /\ changes < MaxChanges /\ changes' = changes + 1
  /\ HostChanges \/ Mishaps

(***************************************************************************)
(* The volume starts with a directory, a directory in it, and a file in    *)
(* that.                                                                   *)
(***************************************************************************)

FirstObjects ==
  <<NewDirectory(kFirstUserRecord, Root), NewDirectory(kFirstUserRecord + 1, 1),
    NewFile(kFirstUserRecord + 2, 2, FirstShape)>>

FirstRecords(made) ==
  LET up(n) == [record |-> IF n = Root THEN kRootRecordNumber ELSE made[n].slot, sequence |-> 1]
      self(n) == <<Std, NameAttr(up(made[n].links[1]), n, FALSE)>>
      data == DataAttr("unnamed", FALSE, encodeRunlist(layout), Records * RecordBytes, Root)
      user(n) == StridesOf(1, HeadOf(made[n], 1), self(n), SecondStride(made[n], n))
      head == [sequence |-> 1, inUse |-> TRUE, dir |-> FALSE, base |-> 0, flaw |-> "none"]
      strides(slot) ==
        CASE slot = kMftRecordNumber -> StridesOf(1, head, <<Std>>, <<data>>)
          [] slot = kRootRecordNumber ->
               StridesOf(1, [head EXCEPT !.dir = TRUE],
                         <<Std, NameAttr(up(Root), Root, FALSE)>>, <<>>)
          [] slot \in {made[n].slot : n \in DOMAIN made} ->
               user(CHOOSE n \in DOMAIN made : made[n].slot = slot)
          [] OTHER -> <<Blank, Blank>>
      at(c) == CHOOSE i \in DOMAIN layout : layout[i] = c
  IN [c \in VolumeMap |->
        IF c \notin Range(layout) THEN Blank
        ELSE strides((at(c) - 1) \div Strides)[((at(c) - 1) % Strides) + 1]]

VolumeInit ==
  /\ layout \in MftLayouts
  /\ objects = FirstObjects
  /\ disk = FirstRecords(FirstObjects)
  /\ habit \in {"delete", "reuse"}
  /\ unreadable = {} /\ running = TRUE /\ changes = 0
===============================================================================
