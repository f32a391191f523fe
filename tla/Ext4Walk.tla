------------------------------- MODULE Ext4Walk -------------------------------
(***************************************************************************)
(* Reading an ext4 volume: the journal indexed at mount, the tree walked   *)
(* from the root, deleted names looked for in the holes they leave, the    *)
(* orphan list read last, and every file located through its own extent    *)
(* tree or through an older copy of its inode (fs/ext4).                   *)
(***************************************************************************)
EXTENDS Ext4Volume

CONSTANTS kMaxDirectoryDepth, kMaxDirectoryBytes, kMaxExtentDepth, kMaxExtentNodes, kMaxExtents, kMaxOrphans,
          kMaxJournalBlocks, kMaxJournalCopies

ASSUME BoundsAssumption ==
  {kMaxDirectoryDepth, kMaxDirectoryBytes, kMaxExtentDepth, kMaxExtentNodes, kMaxExtents, kMaxOrphans,
   kMaxJournalBlocks, kMaxJournalCopies} \subseteq Nat

VARIABLES
  phase,     \* "host", "walk", "done"
  journal,   \* Ext4FileSystem's Journal: the copies, in the order of the sweep
  pending, visited,   \* Walk::pending_, Walk::visited_
  named,     \* Walk::reported_: the deleted inodes found under a name
  reported   \* what the visitor was given; `inode` is the number it came from

readerVars == <<phase, journal, pending, visited, named, reported>>
vars == <<volumeVars, readerVars>>

(***************************************************************************)
(* Blocks and inodes (BlockReader.cpp, GroupDescriptor.cpp, InodeTable.cpp *)
(* and Inode.cpp).  A block of zeros reads as unused inodes, and a group   *)
(* descriptor of zeros as a table in block zero.                           *)
(***************************************************************************)

isDataBlock(block) == block >= FirstDataBlock /\ block < TotalBlocks
blockOffset(block) == block * BlockBytes
BlockHolding(offset) == disk[offset \div BlockBytes]

parseGroupDescriptor(group) == IF disk[GroupBlock] = Blank THEN 0 ELSE disk[GroupBlock].tables[group]

placeOf(n) == [group |-> (n - 1) \div InodesPerGroup + 1, index |-> (n - 1) % InodesPerGroup]

(* Where inode n is, or -1. *)
offsetOf(n) ==
  LET table == parseGroupDescriptor(placeOf(n).group)
  IN IF n \notin Inodes \/ ~isDataBlock(table) THEN -1
     ELSE blockOffset(table + placeOf(n).index \div InodesPerBlock)

parseExt4Inode(block, n) ==
  IF block.kind \in {"inodes", "copy"} THEN block.slots[(placeOf(n).index % InodesPerBlock) + 1]
  ELSE UnusedInode

Readable(n) == offsetOf(n) # -1
readInode(n) == parseExt4Inode(BlockHolding(offsetOf(n)), n)
isUnused(inode) == inode.mode = "none"
isDeleted(inode) == inode.links = 0
isDirectory(inode) == inode.mode = "dir"

(***************************************************************************)
(* Extent trees (ExtentTree.cpp, ExtentWalk.cpp).                          *)
(***************************************************************************)

parseExtentHeader(node) == node.kind = "node" /\ node.depth <= kMaxExtentDepth

leafOf(entry) ==
  LET init == entry.length <= kMaxInitializedLength
  IN [file |-> entry.file, block |-> entry.block, init |-> init,
      count |-> IF init THEN entry.length ELSE entry.length - kMaxInitializedLength]

parseExtentLeaves(node) == [i \in DOMAIN node.entries |-> leafOf(node.entries[i])]

NoTree == [ok |-> FALSE, pending |-> <<>>, leaves |-> <<>>, visited |-> 0]

takeLeaves(walk, node) ==
  IF Len(walk.leaves) + Len(node.entries) > kMaxExtents THEN NoTree
  ELSE [walk EXCEPT !.leaves = @ \o parseExtentLeaves(node)]

(* The children are read as they are queued, and the ones queued count. *)
followIndices(walk, node) ==
  LET n == Len(node.entries)
  IN IF \/ walk.visited + Len(walk.pending) + n - 1 >= kMaxExtentNodes
        \/ \E i \in 1..n : ~isDataBlock(node.entries[i].block)
     THEN NoTree
     ELSE [walk EXCEPT !.pending = @ \o [i \in 1..n |-> disk[node.entries[i].block]]]

walkNode(walk) ==
  LET node == Last(walk.pending)
      taken == [walk EXCEPT !.pending = Front(@), !.visited = @ + 1]
  IN IF taken.visited > kMaxExtentNodes \/ ~parseExtentHeader(node) THEN NoTree
     ELSE IF node.depth = 0 THEN takeLeaves(taken, node) ELSE followIndices(taken, node)

treeLeaves(root) ==
  LET after[n \in 0..(kMaxExtentNodes + 1)] ==
        IF n = 0 THEN [ok |-> TRUE, pending |-> <<root>>, leaves |-> <<>>, visited |-> 0]
        ELSE LET walk == after[n - 1]
             IN IF walk.ok /\ walk.pending # <<>> THEN walkNode(walk) ELSE walk
  IN after[kMaxExtentNodes + 1]

usable(leaf) ==
  /\ leaf.init /\ leaf.count > 0
  /\ isDataBlock(leaf.block) /\ isDataBlock(leaf.block + leaf.count - 1)

deviceRun(leaf) == [at |-> blockOffset(leaf.block), len |-> leaf.count * BlockBytes]

(* Mutant of mapLeaves: the leaves are taken in the order the tree gave them. *)
mapLeaves_unsorted(leaves) ==
  LET wanted(i) == FoldLeft(LAMBDA sum, leaf : sum + leaf.count, 0, SubSeq(leaves, 1, i - 1))
  IN IF \E i \in DOMAIN leaves : leaves[i].file # wanted(i) \/ ~usable(leaves[i])
     THEN [ok |-> FALSE, extents |-> <<>>]
     ELSE [ok |-> TRUE, extents |-> FoldLeft(appendExtent, <<>>,
                                             [i \in DOMAIN leaves |-> deviceRun(leaves[i])])]

(* In file order, with no gap and nothing that was not written. *)
mapLeaves(leaves) ==
  LET sorted == SortSeq(leaves, LAMBDA a, b : a.file < b.file)
      wanted(i) == FoldLeft(LAMBDA sum, leaf : sum + leaf.count, 0, SubSeq(sorted, 1, i - 1))
  IN IF \E i \in DOMAIN sorted : sorted[i].file # wanted(i) \/ ~usable(sorted[i])
     THEN [ok |-> FALSE, extents |-> <<>>]
     ELSE [ok |-> TRUE, extents |-> FoldLeft(appendExtent, <<>>,
                                             [i \in DOMAIN sorted |-> deviceRun(sorted[i])])]

trimmed(mapped, size) == IF mapped.ok THEN trimToSize(mapped.extents, size) ELSE <<>>
mapTree(tree, size) == IF tree.ok THEN trimmed(mapLeaves(tree.leaves), size) ELSE <<>>

(* The extents of a tree; none when it does not map all of the size. *)
treeExtents(root, size) == IF size = 0 THEN <<>> ELSE mapTree(treeLeaves(root), size)

inodeExtents(inode) == IF inode.extents THEN treeExtents(inode.tree, inode.size) ELSE <<>>

(***************************************************************************)
(* The journal (Journal.cpp, JournalSuperblock.cpp, JournalTags.cpp).      *)
(***************************************************************************)

journalFileExtents ==
  IF Readable(kJournalInode) THEN inodeExtents(readInode(kJournalInode)) ELSE <<>>

(* The n-th block of the journal file, or -1. *)
JournalOffset(extents, n) == locateInExtents(extents, n * BlockBytes, BlockBytes)

parseJournalSuperblock(block) == block.kind = "journal"

describesVolume(head) == head.blockBytes = BlockBytes /\ head.first > 0

parseDescriptorTags(block) == IF block.kind = "descriptor" THEN block.tags ELSE <<>>

(* A copy that would lie past the end of the file is passed over. *)
collectCopies(extents, at, tags) ==
  LET found == {i \in DOMAIN tags : JournalOffset(extents, at + i) # -1}
      copy(i) == [block |-> tags[i], offset |-> JournalOffset(extents, at + i)]
  IN [k \in 1..Cardinality(found) |-> copy(SetToSortSeq(found, <)[k])]

takeBlock(extents, state) ==
  LET offset == JournalOffset(extents, state.at)
      tags == IF offset = -1 THEN <<>> ELSE parseDescriptorTags(BlockHolding(offset))
  IN [at |-> state.at + Len(tags) + 1,
      copies |-> state.copies \o collectCopies(extents, state.at, tags)]

sweep(extents, first) ==
  LET last == Min({extentBytes(extents) \div BlockBytes, kMaxJournalBlocks})
      after[n \in 0..last] ==
        IF n = 0 THEN [at |-> first, copies |-> <<>>]
        ELSE LET state == after[n - 1]
             IN IF state.at < last /\ Len(state.copies) < kMaxJournalCopies
                THEN takeBlock(extents, state) ELSE state
  IN after[last].copies

readJournal ==
  LET extents == journalFileExtents
      head == BlockHolding(JournalOffset(extents, 0))
  IN IF extents = <<>> THEN <<>>
     ELSE IF parseJournalSuperblock(head) /\ describesVolume(head)
          THEN sweep(extents, head.first) ELSE <<>>

copiesOf(block) == SelectSeq(journal, LAMBDA copy : copy.block = block)

(***************************************************************************)
(* The hint (JournalHint.cpp): the first copy whose tree maps the size.    *)
(***************************************************************************)

hintFrom(inode, size) == IF inode.extents THEN treeExtents(inode.tree, size) ELSE <<>>

journalExtents(n, size) ==
  LET copies == copiesOf(offsetOf(n) \div BlockBytes)
      hint(i) == hintFrom(parseExt4Inode(BlockHolding(copies[i].offset), n), size)
      useful == {i \in DOMAIN copies : hint(i) # <<>>}
  IN IF useful = {} THEN <<>> ELSE hint(Min(useful))

(***************************************************************************)
(* The entry (EntryFromInode.cpp).                                         *)
(***************************************************************************)

(* Mutant of reused: a name is believed. *)
reused_never(found, inode) == FALSE

reused(found, inode) == found.state # "live" /\ ~isDeleted(inode)

locate(found, inode) ==
  LET own == inodeExtents(inode)
  IN IF inode.size = 0 \/ reused(found, inode) THEN <<>>
     ELSE IF own # <<>> THEN own ELSE journalExtents(found.inode, inode.size)

gradeOf(found, inode, extents) ==
  IF found.state = "live" /\ (extents # <<>> \/ inode.size = 0) THEN "valid" ELSE "uncertain"

entryWith(found, inode, extents) ==
  [path |-> found.path, inode |-> found.inode, state |-> found.state, size |-> inode.size,
   extents |-> extents, grade |-> gradeOf(found, inode, extents)]
entryOf(found, inode) == entryWith(found, inode, locate(found, inode))

(***************************************************************************)
(* Directory blocks (DirectoryEntry.cpp, DirectoryHole.cpp).               *)
(***************************************************************************)

(* The entry at a cell, in a stretch that ends at `last`. *)
parseExt4DirEntry(cells, at, last) ==
  cells[at].rec \in 1..(last - at + 1) /\ EntryCells(cells[at].len) <= cells[at].rec

plausible(cell) == cell.inode \in Inodes /\ cell.len > 0

FoundAt(cell, state) == [name |-> cell.name, inode |-> cell.inode, state |-> state]

(* Mutant of deletedEntriesIn: a name found is passed by its record's length. *)
deletedEntriesIn_record(cells, first, last) ==
  LET after[at \in 1..(last + 1)] ==
        IF at < first \/ at > last THEN <<>>
        ELSE IF parseExt4DirEntry(cells, at, last) /\ plausible(cells[at])
             THEN <<FoundAt(cells[at], "deleted")>> \o after[at + cells[at].rec]
             ELSE after[at + 1]
  IN IF first > last THEN <<>> ELSE after[first]

(* Every entry that lies in the cells from `first` to `last` and is no live one. *)
deletedEntriesIn(cells, first, last) ==
  LET after[at \in 1..(last + 1)] ==   \* what is found from `at` on
        IF at < first \/ at > last THEN <<>>
        ELSE IF parseExt4DirEntry(cells, at, last) /\ plausible(cells[at])
             THEN <<FoundAt(cells[at], "deleted")>>
                    \o (IF at + EntryCells(cells[at].len) <= last
                        THEN after[at + EntryCells(cells[at].len)] ELSE <<>>)
             ELSE after[at + 1]
  IN IF first > last THEN <<>> ELSE after[first]

(* The entry of a record and what its record has swallowed: none when its own inode
   number was cleared. *)
visitRecord(cells, at) ==
  LET cell == cells[at]
      last == at + cell.rec - 1
  IN IF cell.inode = 0 THEN <<>>
     ELSE <<FoundAt(cell, "live")>> \o deletedEntriesIn(cells, at + EntryCells(cell.len), last)

(* A record that does not parse ends the block. *)
walkBlock(block) ==
  LET cells == block.cells
      from[at \in 1..(BlockCells + 1)] ==
        IF at > BlockCells \/ ~parseExt4DirEntry(cells, at, BlockCells) THEN <<>>
        ELSE visitRecord(cells, at) \o from[at + cells[at].rec]
  IN IF block.kind = "dir" THEN from[1] ELSE <<>>

(* The whole blocks of a directory, up to the cap; nothing when it does not read. *)
readDirectoryBytes(n) ==
  LET extents == IF Readable(n) THEN inodeExtents(readInode(n)) ELSE <<>>
      bytes == BytesOf(extents)
      whole == Min({Len(bytes), kMaxDirectoryBytes}) \div BlockBytes
  IN [i \in 1..whole |-> BlockHolding(bytes[(i - 1) * BlockBytes + 1])]

(***************************************************************************)
(* The walk (DirectoryWalk.cpp, OrphanPass.cpp, OrphanList.cpp).           *)
(***************************************************************************)

isSelfOrParent(name) == name \in {0, -1}

report(state, found, inode) ==
  [state EXCEPT !.reported = Append(@, entryOf(found, inode)),
                !.named = IF isDeleted(inode) THEN @ \cup {found.inode} ELSE @]

enqueue(state, found, inode, depth) ==
  IF depth < kMaxDirectoryDepth /\ ~isDeleted(inode) /\ found.inode \notin state.visited
  THEN [state EXCEPT !.visited = @ \cup {found.inode},
                     !.pending = Append(@, [path |-> found.path, inode |-> found.inode,
                                            depth |-> depth + 1])]
  ELSE state

take(state, found, inode, depth) ==
  IF isDirectory(inode) THEN enqueue(state, found, inode, depth) ELSE report(state, found, inode)

visitLive(state, found, depth) ==
  LET inode == readInode(found.inode)
  IN IF isSelfOrParent(Last(found.path)) \/ ~Readable(found.inode) THEN state
     ELSE IF isUnused(inode) THEN state ELSE take(state, found, inode, depth)

visitDeleted(state, found) ==
  LET inode == readInode(found.inode)
  IN IF ~Readable(found.inode) THEN state
     ELSE IF isUnused(inode) \/ isDirectory(inode) THEN state
     ELSE report(state, found, inode)

visit(state, cursor, entry) ==
  LET found == [path |-> Append(cursor.path, entry.name), inode |-> entry.inode,
                state |-> entry.state]
  IN IF entry.state = "live" THEN visitLive(state, found, cursor.depth)
     ELSE visitDeleted(state, found)

walkBlocks(state, cursor) ==
  LET blocks == readDirectoryBytes(cursor.inode)
      entries == FoldLeft(LAMBDA sofar, block : sofar \o walkBlock(block), <<>>, blocks)
      after[n \in 0..Len(entries)] ==
        IF n = 0 THEN state
        ELSE LET earlier == after[n - 1] IN visit(earlier, cursor, entries[n])
  IN after[Len(entries)]

nextOrphan(n) == LET inode == readInode(n) IN IF isUnused(inode) THEN 0 ELSE inode.dtime

(* The list, until it ends, leaves the volume, comes back or is too long. *)
orphanInodes ==
  LET after[n \in 0..kMaxOrphans] ==
        IF n = 0 THEN [found |-> <<>>, next |-> orphans]
        ELSE LET list == after[n - 1]
             IN IF list.next = 0 \/ list.next \in Range(list.found) \/ ~Readable(list.next)
                THEN list
                ELSE [found |-> Append(list.found, list.next), next |-> nextOrphan(list.next)]
  IN after[kMaxOrphans].found

(* Mutant of usableOrphan: what a name has already given is given again. *)
usableOrphan_again(n) == LET inode == readInode(n) IN ~isUnused(inode) /\ ~isDirectory(inode)

usableOrphan(n) ==
  LET inode == readInode(n) IN ~isUnused(inode) /\ ~isDirectory(inode) /\ n \notin named

OrphanFolder == -2   \* a path no name leads to
reportOne(n) == entryOf([path |-> <<OrphanFolder, n>>, inode |-> n, state |-> "orphaned"], readInode(n))

-----------------------------------------------------------------------------

Host ==
  /\ phase = "host"
  /\ VolumeChanges
  /\ UNCHANGED readerVars

(* The mount indexes the journal, and the walk starts at the root. *)
start ==
  /\ phase = "host" /\ phase' = "walk"
  /\ journal' = readJournal
  /\ visited' = {kRootInode}
  /\ pending' = <<[path |-> <<>>, inode |-> kRootInode, depth |-> 0]>>
  /\ UNCHANGED <<volumeVars, named, reported>>

walkOne ==
  /\ phase = "walk" /\ pending # <<>>
  /\ LET state == [pending |-> Front(pending), visited |-> visited, named |-> named,
                   reported |-> reported]
     IN \E after \in {walkBlocks(state, Last(pending))} :
          /\ pending' = after.pending /\ visited' = after.visited
          /\ named' = after.named /\ reported' = after.reported
  /\ UNCHANGED <<volumeVars, phase, journal>>

takeOrphans ==
  /\ phase = "walk" /\ pending = <<>> /\ phase' = "done"
  /\ LET chosen == SelectSeq(orphanInodes, usableOrphan)
     IN reported' = reported \o [i \in DOMAIN chosen |-> reportOne(chosen[i])]
  /\ UNCHANGED <<volumeVars, journal, pending, visited, named>>

Init ==
  /\ VolumeInit
  /\ phase = "host" /\ journal = <<>> /\ pending = <<>> /\ visited = {} /\ named = {}
  /\ reported = <<>>

Next == Host \/ start \/ walkOne \/ takeOrphans

Spec == Init /\ [][Next]_vars

-----------------------------------------------------------------------------

FileBytes(f) ==
  LET b == files[f].shape.blocks
      byte(i) == b[(i - 1) \div BlockBytes + 1] * BlockBytes + ((i - 1) % BlockBytes)
  IN [i \in 1..(Len(b) * BlockBytes - files[f].shape.short) |-> byte(i)]

PathTo(p) == IF p.dir = 1 THEN <<EntryAt(p).name>> ELSE <<1, EntryAt(p).name>>

Mapped(f) == files[f].shape.written /\ Gap \notin Range(files[f].shape.blocks)

(* The blocks that have to read for the name at p to lead to its bytes. *)
Needs(p) ==
  {GroupBlock, TableBlock(kRootInode), TableBlock(SubInode), TableBlock(EntryAt(p).inode)}
    \cup Range(DirectoryBlocks[1]) \cup Range(DirectoryBlocks[p.dir])
    \cup Range(files[holder[EntryAt(p).inode]].shape.nodes)

(* Every name of every file is reported exactly once, as live, valid and with all of
   the file's bytes, when nothing between the root and the file is lost and the file
   has no part that was never written; and nothing else is reported as live.
   DirectoryWalk.cpp, ExtentWalk.cpp. *)
LiveTreeIsReported ==
  phase = "done" =>
    /\ \A p \in Places :
         LET n == EntryAt(p).inode
             entries == {i \in DOMAIN reported : reported[i].path = PathTo(p)
                                                 /\ reported[i].state = "live"}
         IN lost \notin Needs(p) /\ Mapped(holder[n]) =>
              /\ Cardinality(entries) = 1
              /\ \A i \in entries : /\ reported[i].inode = n /\ reported[i].grade = "valid"
                                    /\ BytesOf(reported[i].extents) = FileBytes(holder[n])
    /\ \A i \in DOMAIN reported :
         reported[i].state = "live" =>
           \E p \in Places : PathTo(p) = reported[i].path /\ EntryAt(p).inode = reported[i].inode

(* Blocks that held a node of f's tree and hold a later file's. *)
NodesRewritten(f) ==
  \E g \in DOMAIN files : g > f /\ Range(files[f].shape.nodes) \cap Range(files[g].shape.nodes) # {}

(* What is handed over for a name or an orphan that is not live is the start of a file
   that had this inode number, and the number has not been given to a live file since:
   through the inode's own tree, or through whichever copy of it the journal still
   has.  This is said only where no node block of such a file's tree has become a node
   of a later file's: nothing in a node says whose it is, and an old inode then leads
   to the later file's blocks.  EntryFromInode.cpp, JournalHint.cpp. *)
DeletedIsItsInodes ==
  \A i \in DOMAIN reported :
    LET e == reported[i]
        past == {f \in DOMAIN files : files[f].inode = e.inode}
    IN e.state # "live" /\ e.extents # <<>> /\ (\A f \in past : ~NodesRewritten(f)) =>
         /\ e.grade = "uncertain"
         /\ \A f \in past : files[f].state # "live"
         /\ \E f \in past : IsPrefix(BytesOf(e.extents), FileBytes(f))

(* A file that was deleted while open comes back whenever the volume reads: by its
   number exactly when no hole gave its number a name, and otherwise under those names,
   each of them once (a file renamed before it was deleted may have several); always
   with its own bytes.  OrphanPass.cpp, visitDeleted of DirectoryWalk.cpp. *)
OrphansComeBack ==
  phase = "done" /\ lost = 0 =>
    \A f \in OpenFiles :
      LET n == files[f].inode
          byNumber == {i \in DOMAIN reported : reported[i].inode = n /\ reported[i].state = "orphaned"}
          byName == {i \in DOMAIN reported : reported[i].inode = n /\ reported[i].state # "orphaned"}
      IN /\ Cardinality(byNumber) = IF byName = {} THEN 1 ELSE 0
         /\ \A i, j \in byName : reported[i].path = reported[j].path => i = j
         /\ \A i \in byName : reported[i].state = "deleted"
         /\ \A i \in byNumber \cup byName :
              Mapped(f) => BytesOf(reported[i].extents) = FileBytes(f)

(* A deleted name that lies whole in the record of a live one is found, however many
   names that record has swallowed and in whichever order.  (A record whose own inode
   number was cleared is not searched.)  DirectoryHole.cpp. *)
DeletedNamesAreFound ==
  phase = "done" /\ lost = 0 =>
    \A d \in DOMAIN DirectoryBlocks, at \in 1..BlockCells :
      LET cells == CellsOf(d)
          cell == cells[at]
          around == Max({r \in RecordsOf(cells) : r <= at})
          complete == /\ cell.rec > 0 /\ cell.inode \in FreeForFiles
                      /\ at + cell.len <= BlockCells
                      /\ \A k \in 1..cell.len : cells[at + k] = Piece(cell.name)
      IN complete /\ around # at /\ cells[around].inode # 0 =>
           \E i \in DOMAIN reported : /\ Last(reported[i].path) = cell.name
                                      /\ reported[i].inode = cell.inode
                                      /\ reported[i].state = "deleted"
===============================================================================
