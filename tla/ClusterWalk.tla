----------------------------- MODULE ClusterWalk ------------------------------
(***************************************************************************)
(* The directory walks of FAT32 and exFAT (fs/DirectoryTreeWalk.hpp,       *)
(* fs/fat/DirectoryWalk.cpp, fs/exfat/EntrySetWalk.cpp): a worklist of     *)
(* directories, each read whole and passed over slot by slot, every file   *)
(* reported with where its bytes are and how far that can be trusted.      *)
(*                                                                         *)
(* Names are the identities of nodes and a path is a sequence of them; how *)
(* a name is spelled and what decoding it loses is left out.               *)
(***************************************************************************)
EXTENDS ClusterVolume

CONSTANTS
  kMaxDirectoryDepth, \* the depth below which directories are not entered
  kMaxDirectorySlots  \* kMaxDirectoryBytes, in slots

ASSUME WalkAssumption == kMaxDirectoryDepth \in Nat /\ kMaxDirectorySlots \in Nat \ {0}

VARIABLES
  phase,     \* "written", "walking", "walked", or "failed" when the device would not read
  pending,   \* Walk::pending_, the worklist
  visited,   \* Walk::visited_
  cursor,    \* the directory being passed over, or NoCursor
  slots,     \* its slots not yet visited
  set,       \* exFAT's PendingSet
  bitmap,    \* exFAT's AllocationBitmap
  opened,    \* history: the first clusters of the directories taken up
  reported   \* what the visitor was given

walkVars == <<phase, pending, visited, cursor, slots, set, bitmap, opened, reported>>
vars == <<volumeVars, walkVars>>

NoCursor == [path |-> <<>>, cluster |-> 0, depth |-> 0, underDeleted |-> FALSE]
NoSet == [active |-> FALSE, file |-> End, stream |-> End]

Init ==
  /\ VolumeInit
  /\ phase = "written"
  /\ pending = <<>> /\ visited = {} /\ cursor = NoCursor /\ slots = <<>>
  /\ set = NoSet /\ bitmap = {} /\ opened = <<>> /\ reported = <<>>

(* The bitmap, or none if it does not read. *)
loadBitmap == IF kind = "exfat" THEN {held, {}} ELSE {{}}

(* The host unmounts and the walk begins. *)
start ==
  /\ phase = "written"
  /\ phase' = "walking"
  /\ visited' = {kFirstCluster}
  /\ pending' = <<[NoCursor EXCEPT !.cluster = kFirstCluster]>>
  /\ bitmap' \in loadBitmap
  /\ UNCHANGED <<volumeVars, cursor, slots, set, opened, reported>>

readDirectoryBytes(clusters) ==
  LET wanted == (kMaxDirectorySlots + SlotsPerCluster - 1) \div SlotsPerCluster
  IN SlotsOf(SubSeq(clusters, 1, Min({wanted, Len(clusters)})))

upToEndOfDirectory(bytes) ==
  LET ends == {i \in DOMAIN bytes : bytes[i].kind = "end"}
  IN IF ends = {} THEN bytes ELSE SubSeq(bytes, 1, Min(ends) - 1)

(* Mutant of readDirectory: a freed chain's first cluster is all that is read of
   a live directory too. *)
readDirectory_firstOnly(c) ==
  readDirectoryBytes(IF kind = "fat" THEN <<c.cluster>> ELSE chainFrom(table, c.cluster))

(* The directory's slots; a chain that cannot be followed leaves it with none. *)
readDirectory(c) ==
  readDirectoryBytes(IF c.underDeleted THEN <<c.cluster>> ELSE chainFrom(table, c.cluster))

walkOne ==
  /\ phase = "walking" /\ cursor = NoCursor /\ pending # <<>>
  /\ cursor' = Last(pending)
  /\ pending' = Front(pending)
  /\ slots' = upToEndOfDirectory(readDirectory(Last(pending)))
  /\ opened' = Append(opened, Last(pending).cluster)
  /\ set' = NoSet
  /\ UNCHANGED <<volumeVars, phase, visited, bitmap, reported>>

(* A device that will not read ends the walk: that is not a directory without
   files. *)
skipUnreadableDirectory ==
  /\ phase = "walking" /\ cursor = NoCursor /\ pending # <<>>
  /\ phase' = "failed"
  /\ pending' = Front(pending)
  /\ opened' = Append(opened, Last(pending).cluster)
  /\ UNCHANGED <<volumeVars, visited, cursor, slots, set, bitmap, reported>>

(* Mutant of walkable: nothing stops `.` and `..`. *)
walkable_revisits(c, first) == c.depth < kMaxDirectoryDepth /\ isDataCluster(first)

walkable(c, first) ==
  c.depth < kMaxDirectoryDepth /\ isDataCluster(first) /\ first \notin visited

enqueue(id, first, deleted) ==
  /\ UNCHANGED reported
  /\ IF walkable(cursor, first)
     THEN /\ visited' = visited \cup {first}
          /\ pending' = Append(pending, [path |-> Append(cursor.path, id), cluster |-> first,
                                         depth |-> cursor.depth + 1,
                                         underDeleted |-> cursor.underDeleted \/ deleted])
     ELSE UNCHANGED <<visited, pending>>

report(entry) ==
  /\ reported' = Append(reported, entry)
  /\ UNCHANGED <<visited, pending>>

located(extents, size) == extents # <<>> \/ size = 0

(***************************************************************************)
(* FAT32.                                                                  *)
(***************************************************************************)

locateShort(s) ==
  IF s.size = 0 \/ ~isDataCluster(s.cluster) THEN <<>>
  ELSE IF s.deleted THEN extentsAssumingContiguous(s.cluster, s.size)
  ELSE extentsFollowingChain(table, s.cluster, s.size)

entryFromSlot(s) ==
  LET extents == locateShort(s)
      guessed == s.deleted \/ cursor.underDeleted
  IN [path |-> Append(cursor.path, s.id), size |-> s.size, extents |-> extents,
      state |-> IF cursor.underDeleted THEN "orphaned" ELSE IF s.deleted THEN "deleted" ELSE "live",
      grade |-> IF ~guessed /\ located(extents, s.size) THEN "valid" ELSE "uncertain"]

Visiting(k) == phase = "walking" /\ kind = k /\ cursor # NoCursor /\ slots # <<>>

shortEntry ==
  /\ Visiting("fat") /\ Head(slots).kind = "file"
  /\ slots' = Tail(slots)
  /\ LET s == Head(slots)
     IN IF s.dir THEN enqueue(s.id, s.cluster, s.deleted) ELSE report(entryFromSlot(s))
  /\ UNCHANGED <<volumeVars, phase, cursor, set, bitmap, opened>>

(* Long-name slots only name the short entry behind them. *)
collectFragment ==
  /\ Visiting("fat") /\ Head(slots).kind = "name"
  /\ slots' = Tail(slots)
  /\ UNCHANGED <<volumeVars, phase, pending, visited, cursor, set, bitmap, opened, reported>>

(***************************************************************************)
(* exFAT.                                                                  *)
(***************************************************************************)

(* Mutant of overwritten: a deleted set's clusters are taken to be its own. *)
overwritten_never(file, stream) == FALSE

overwritten(file, stream) ==
  file.deleted /\ bitmap # {} /\ (stream.cluster \in bitmap \/ ~isDataCluster(stream.cluster))

locateSet(file, stream) ==
  IF stream.size = 0 \/ ~isDataCluster(stream.cluster) \/ overwritten(file, stream) THEN <<>>
  ELSE IF stream.noFatChain THEN extentsAssumingContiguous(stream.cluster, stream.size)
  ELSE extentsFollowingChain(table, stream.cluster, stream.size)

entryOf(file, stream) ==
  LET extents == locateSet(file, stream)
  IN [path |-> Append(cursor.path, file.id), size |-> stream.size, extents |-> extents,
      state |-> IF file.deleted THEN "deleted" ELSE "live",
      grade |-> IF ~file.deleted /\ located(extents, stream.size) THEN "valid" ELSE "uncertain"]

(* PendingSet::take and Walk::finish: a set without a stream holds nothing. *)
finish ==
  IF ~set.active \/ set.stream = End THEN UNCHANGED <<visited, pending, reported>>
  ELSE IF set.file.dir THEN enqueue(set.file.id, set.stream.cluster, FALSE)
  ELSE report(entryOf(set.file, set.stream))

startSet ==
  /\ Visiting("exfat") /\ Head(slots).kind = "file"
  /\ finish
  /\ set' = [active |-> TRUE, file |-> Head(slots), stream |-> End]
  /\ slots' = Tail(slots)
  /\ UNCHANGED <<volumeVars, phase, cursor, bitmap, opened>>

absorb ==
  /\ Visiting("exfat") /\ Head(slots).kind # "file"
  /\ set' = IF set.active /\ Head(slots).kind = "stream"
            THEN [set EXCEPT !.stream = Head(slots)] ELSE set
  /\ slots' = Tail(slots)
  /\ UNCHANGED <<volumeVars, phase, pending, visited, cursor, bitmap, opened, reported>>

(* The end of a directory is the end of its last set. *)
finishDirectory ==
  /\ phase = "walking" /\ cursor # NoCursor /\ slots = <<>>
  /\ finish
  /\ cursor' = NoCursor
  /\ set' = NoSet
  /\ UNCHANGED <<volumeVars, phase, slots, bitmap, opened>>

finishWalk ==
  /\ phase = "walking" /\ cursor = NoCursor /\ pending = <<>>
  /\ phase' = "walked"
  /\ UNCHANGED <<volumeVars, pending, visited, cursor, slots, set, bitmap, opened, reported>>

Walk ==
  \/ walkOne \/ skipUnreadableDirectory
  \/ shortEntry \/ collectFragment
  \/ startSet \/ absorb
  \/ finishDirectory \/ finishWalk

Next ==
  \/ phase = "written" /\ HostChanges /\ UNCHANGED walkVars
  \/ start
  \/ Walk

Spec == Init /\ [][Next]_vars

(***************************************************************************)
(* Properties.                                                             *)
(***************************************************************************)

TrueExtents(n) == chainExtents(nodes[n].clusters, nodes[n].size)

(* No directory is passed over twice, so `.`, `..` and slots that name the same
   cluster cannot make the walk go round (fs/fat/DirectoryWalk.cpp walkable). *)
DirectoriesOpenedOnce ==
  \A i, j \in DOMAIN opened : opened[i] = opened[j] => i = j

IsSequence(s) == s = [i \in 1..Len(s) |-> s[i]] /\ Len(s) \in Nat

(* Why DirectoriesOpenedOnce holds: a directory waiting has been marked as
   visited and not been opened, and no two waiting are the same. *)
WorklistInv ==
  /\ phase = "written" => pending = <<>> /\ opened = <<>>
  /\ visited \subseteq Clusters
  /\ IsSequence(pending)
  /\ opened \in Seq(visited)
  /\ \A i \in DOMAIN pending : /\ pending[i].cluster \in visited
                                /\ \A j \in DOMAIN opened : opened[j] # pending[i].cluster
  /\ \A i, j \in DOMAIN pending : pending[i].cluster = pending[j].cluster => i = j
  /\ DirectoriesOpenedOnce

(* The file a live node should come back as. *)
LiveEntry(n) ==
  [path |-> nodes[n].path, size |-> nodes[n].size, extents |-> TrueExtents(n),
   state |-> "live", grade |-> "valid"]

(* What the bounds leave in reach: no directory above it is too deep or too big. *)
InReach(n) ==
  /\ Len(nodes[n].path) <= kMaxDirectoryDepth + 1
  /\ \A d \in {1} \cup Range(Front(nodes[n].path)) :
       Len(nodes[d].clusters) * SlotsPerCluster <= kMaxDirectorySlots

(* A finished walk reports as valid the live files and nothing else, each once,
   at its path and with its own bytes: what was deleted, reused, fragmented or
   grown around them neither hides nor doubles nor displaces one
   (FileSystem::enumerate). *)
LiveTreeIsReported ==
  phase = "walked" =>
    LET valid == {i \in DOMAIN reported : reported[i].grade = "valid"}
        live == {n \in DOMAIN nodes : nodes[n].live /\ ~nodes[n].dir}
    IN /\ \A n \in live : InReach(n) => \E i \in valid : reported[i] = LiveEntry(n)
       /\ \A i \in valid : \E n \in live : reported[i] = LiveEntry(n)
       /\ \A i, j \in valid : reported[i] = reported[j] => i = j

(* Every extent given out lies in the volume's data region, whatever the slots say; and a
   deleted file that kept its slots and lay in one run comes back with the run
   it had; on exFAT, without one once the bitmap says its first cluster belongs to
   another file, as its bytes are then that file's (PendingSet.cpp overwritten). *)
DeletedIsWhereItWas ==
  \A i \in DOMAIN reported :
    LET n == Last(reported[i].path)
    IN /\ \A e \in Range(reported[i].extents) :
            e.len > 0 /\ e.at >= DataOffset /\ e.at + e.len <= clusterOffset(kFirstCluster + TotalClusters)
       /\ (reported[i].state # "live" /\ n # 0 /\ ~nodes[n].live /\ Consecutive(nodes[n].clusters)
           /\ (kind = "exfat" => nodes[n].noFatChain))
          => reported[i].extents =
               IF bitmap # {} /\ nodes[n].clusters[1] \in held THEN <<>> ELSE TrueExtents(n)
===============================================================================
