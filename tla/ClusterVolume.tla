---------------------------- MODULE ClusterVolume -----------------------------
(***************************************************************************)
(* A FAT32 or exFAT volume as its host leaves it: what an operating system *)
(* writes when files and directories are made, grown and removed.  It is   *)
(* not this program's code; the walk only ever reads it.  It is here so    *)
(* that the volumes walked are ones a host can produce, and so that what   *)
(* the walk reports can be compared with what was written.                 *)
(*                                                                         *)
(* Deleting stamps the slots and frees the clusters and wipes neither      *)
(* (docs/architecture/filesystems.md:123): FAT clears the chain, exFAT     *)
(* clears the bits and may leave the chain.  Freed slots and clusters are  *)
(* handed out again.                                                       *)
(***************************************************************************)
EXTENDS ClusterChain

CONSTANTS
  SlotsPerCluster, \* directory slots in one cluster
  MaxChanges,      \* bound: changes the host makes before the walk
  Habits           \* what the host may do; see below

(* "contiguous directories": exFAT directories are written with NoFatChain.
   "uneven sets": exFAT entry sets are of different lengths.
   "directory reuse": a new directory may take a removed directory's cluster. *)
ASSUME VolumeAssumption ==
  /\ SlotsPerCluster \in Nat /\ SlotsPerCluster >= 3
  /\ MaxChanges \in Nat
  /\ Habits \subseteq {"contiguous directories", "uneven sets", "directory reuse"}

VARIABLES
  kind,     \* "fat" or "exfat"
  table,    \* the file allocation table
  held,     \* the clusters in use: what exFAT's bitmap says
  content,  \* the slots each cluster reads as when it is read as a directory
  nodes,    \* what was written: the files and directories ever made, root first
  changes   \* changes made so far

volumeVars == <<kind, table, held, content, nodes, changes>>

(* A slot of either format.  FAT keeps everything in the "file" slot, behind its
   long-name slots; exFAT in a "file", a "stream" and "name" slots. *)
Slot(k, id) ==
  [kind |-> k, id |-> id, dir |-> FALSE, cluster |-> 0, size |-> 0,
   noFatChain |-> FALSE, deleted |-> FALSE]

End == Slot("end", 0)
AllEnd == [i \in 1..SlotsPerCluster |-> End]

(* File bytes read as slots: FAT takes any byte for a file entry, exFAT knows a
   type byte or ignores the slot. *)
FileBytes(k) ==
  [i \in 1..SlotsPerCluster |->
     IF k = "exfat" THEN Slot("other", 0)
     ELSE [Slot("file", 0) EXCEPT !.cluster = kFirstCluster, !.size = 1]]

RootNode == [path |-> <<>>, dir |-> TRUE, clusters |-> <<kFirstCluster>>, size |-> 0,
             live |-> TRUE, noFatChain |-> FALSE]

(* A formatted volume: an empty root, which on exFAT names the bitmap. *)
VolumeInit ==
  /\ kind \in {"fat", "exfat"}
  /\ table = [c \in Clusters |-> IF c = kFirstCluster THEN kEndOfChain ELSE Free]
  /\ held = {kFirstCluster}
  /\ content = [c \in Clusters |->
       IF c = kFirstCluster /\ kind = "exfat" THEN [AllEnd EXCEPT ![1] = Slot("other", 0)]
       ELSE AllEnd]
  /\ nodes = <<RootNode>>
  /\ changes = 0

(* The slots of a directory's clusters, in order. *)
SlotsOf(clusters) ==
  [j \in 1..(Len(clusters) * SlotsPerCluster) |->
     content[clusters[(j - 1) \div SlotsPerCluster + 1]][((j - 1) % SlotsPerCluster) + 1]]

(* content with the slots new written from the first place in the directory they
   all fit, over slots that are free. *)
Fits(clusters, n, at) ==
  LET slots == SlotsOf(clusters)
  IN at + n - 1 <= Len(slots) /\ \A i \in at..(at + n - 1) : slots[i].kind = "end" \/ slots[i].deleted

Places(clusters, n) == {at \in 1..(Len(clusters) * SlotsPerCluster) : Fits(clusters, n, at)}

Written(clusters, new, at, over) ==
  [c \in Clusters |->
     IF \E k \in DOMAIN clusters : clusters[k] = c
     THEN LET k == CHOOSE k \in DOMAIN clusters : clusters[k] = c
          IN [i \in 1..SlotsPerCluster |->
                LET j == (k - 1) * SlotsPerCluster + i - at + 1
                IN IF j \in DOMAIN new THEN new[j] ELSE over[c][i]]
     ELSE over[c]]

(* The slots that describe a node: its name slots come first on FAT and last on
   exFAT. *)
SlotsFor(id, dir, first, size, noFatChain, names) ==
  LET name == [i \in 1..names |-> Slot("name", id)]
      file == [Slot("file", id) EXCEPT !.dir = dir, !.cluster = first, !.size = size]
      stream == [Slot("stream", id) EXCEPT !.cluster = first, !.size = size,
                                           !.noFatChain = noFatChain]
  IN IF kind = "fat" THEN Append(name, file)
     ELSE <<[Slot("file", id) EXCEPT !.dir = dir], stream>> \o name

(* A new directory: FAT's names itself and its parent, whose cluster is 0 when
   that is the root. *)
NewDirectory(parent, self) ==
  LET dot == [Slot("file", 0) EXCEPT !.dir = TRUE, !.cluster = self]
      dotdot == [dot EXCEPT !.cluster = IF parent = 1 THEN 0 ELSE nodes[parent].clusters[1]]
  IN IF kind = "fat" THEN [AllEnd EXCEPT ![1] = dot, ![2] = dotdot] ELSE AllEnd

Chained(clusters) ==
  [c \in Clusters |->
     IF \E i \in DOMAIN clusters : clusters[i] = c
     THEN LET i == CHOOSE i \in DOMAIN clusters : clusters[i] = c
          IN IF i = Len(clusters) THEN kEndOfChain ELSE clusters[i + 1]
     ELSE table[c]]

Consecutive(clusters) == \A i \in 1..(Len(clusters) - 1) : clusters[i + 1] = clusters[i] + 1

NameSlots == IF kind = "fat" \/ "uneven sets" \in Habits THEN {0, 1} ELSE {0}

LiveDirectories == {d \in DOMAIN nodes : nodes[d].dir /\ nodes[d].live}

(* A node under a live directory, on free clusters. *)
make(parent, dir, clusters, noFatChain, names) ==
  LET id == Len(nodes) + 1
      size == IF dir THEN 0 ELSE Max({0, Len(clusters) * BytesPerCluster - 1})
      first == IF clusters = <<>> THEN 0 ELSE clusters[1]
      new == SlotsFor(id, dir, first, size, noFatChain, names)
      places == Places(nodes[parent].clusters, Len(new))
      filled == [c \in Clusters |->
                   IF \A i \in DOMAIN clusters : clusters[i] # c THEN content[c]
                   ELSE IF dir THEN NewDirectory(parent, c) ELSE FileBytes(kind)]
  IN /\ changes < MaxChanges
     /\ places # {}
     /\ noFatChain => kind = "exfat" /\ clusters # <<>> /\ Consecutive(clusters)
     /\ content' = Written(nodes[parent].clusters, new, Min(places), filled)
     /\ table' = IF noFatChain THEN table ELSE Chained(clusters)
     /\ held' = held \cup Range(clusters)
     /\ nodes' = Append(nodes, [path |-> Append(nodes[parent].path, id), dir |-> dir,
                                clusters |-> clusters, size |-> size, live |-> TRUE,
                                noFatChain |-> noFatChain])
     /\ changes' = changes + 1
     /\ UNCHANGED kind

createFile ==
  \E parent \in LiveDirectories, noFatChain \in BOOLEAN, names \in NameSlots :
    \E clusters \in BoundedSeq(Clusters \ held, 2) :
      /\ Cardinality(Range(clusters)) = Len(clusters)
      /\ make(parent, FALSE, clusters, noFatChain, names)

createDirectory ==
  \E parent \in LiveDirectories, c \in Clusters \ held, noFatChain \in BOOLEAN, names \in NameSlots :
    /\ noFatChain => "contiguous directories" \in Habits
    /\ "directory reuse" \in Habits
       \/ \A n \in DOMAIN nodes : nodes[n].dir => c \notin Range(nodes[n].clusters)
    /\ make(parent, TRUE, <<c>>, noFatChain, names)

(* A full directory gets another cluster at the end of its chain. *)
growDirectory ==
  \E d \in LiveDirectories, c \in Clusters \ held :
    LET grown == Append(nodes[d].clusters, c)
    IN /\ changes < MaxChanges
       /\ ~nodes[d].noFatChain
       /\ Places(nodes[d].clusters, IF kind = "fat" THEN 1 ELSE 2) = {}
       /\ "directory reuse" \in Habits
          \/ \A n \in DOMAIN nodes : nodes[n].dir => c \notin Range(nodes[n].clusters)
       /\ nodes' = [nodes EXCEPT ![d].clusters = grown]
       /\ table' = Chained(grown)
       /\ held' = held \cup {c}
       /\ content' = [content EXCEPT ![c] = AllEnd]
       /\ changes' = changes + 1
       /\ UNCHANGED kind

(* A file, or a directory with nothing left in it. *)
remove ==
  \E n \in 2..Len(nodes), wipe \in BOOLEAN :
    LET gone == Range(nodes[n].clusters)
        parent == IF Len(nodes[n].path) = 1 THEN 1 ELSE nodes[n].path[Len(nodes[n].path) - 1]
    IN /\ changes < MaxChanges
       /\ nodes[n].live
       /\ \A m \in DOMAIN nodes : nodes[m].live /\ m # n => n \notin Range(nodes[m].path)
       /\ wipe = (kind = "fat") \/ (kind = "exfat" /\ ~nodes[n].noFatChain)
       /\ nodes' = [nodes EXCEPT ![n].live = FALSE]
       /\ table' = [c \in Clusters |-> IF wipe /\ c \in gone THEN Free ELSE table[c]]
       /\ held' = held \ gone
       /\ content' = [c \in Clusters |->
            IF c \notin Range(nodes[parent].clusters) THEN content[c]
            ELSE [i \in 1..SlotsPerCluster |->
                    IF content[c][i].kind # "end" /\ content[c][i].id = n
                    THEN [content[c][i] EXCEPT !.deleted = TRUE] ELSE content[c][i]]]
       /\ changes' = changes + 1
       /\ UNCHANGED kind

HostChanges == createFile \/ createDirectory \/ growDirectory \/ remove
===============================================================================
