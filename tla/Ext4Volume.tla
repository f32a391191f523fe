------------------------------ MODULE Ext4Volume ------------------------------
(***************************************************************************)
(* An ext4 volume in use, before it is read: the host (external) creates,  *)
(* renames, links and deletes files in two directories, keeps a file that  *)
(* is deleted while open on the orphan list, and logs every inode table    *)
(* block it changes in a circular journal.                                 *)
(*                                                                         *)
(* A block holds a directory, a node of an extent tree, a part of the      *)
(* inode table, a block of the journal, or Blank.  A directory block is a  *)
(* row of cells: an entry's header takes one and each piece of its name    *)
(* one more.  Name n is the n-th name the host ever gave; `.` is 0 and     *)
(* `..` is -1.  `files` is what the host meant: every file it ever made.   *)
(***************************************************************************)
EXTENDS ExtentSpan

CONSTANTS
  TotalBlocks, FirstDataBlock, BlockBytes,
  TotalInodes, InodesPerGroup, InodesPerBlock,
  GroupBlock,         \* Ext4Geometry::groupDescriptorBlock
  InodeTables,        \* the first block of each group's table
  kRootInode, kJournalInode,
  JournalBlocks,      \* the blocks of the journal file, its superblock first
  DirectoryBlocks,    \* the blocks of the root and of the directory in it
  BlockCells,         \* cells of a directory block
  Shapes,             \* the files a host makes: blocks in file order (Gap for a hole), node
                      \* blocks, bytes short, and whether the blocks were written
  FirstShapes,        \* the two files that are there at the start
  MaxChanges

ASSUME Ext4Assumption ==
  /\ {TotalBlocks, TotalInodes, FirstDataBlock, MaxChanges} \subseteq Nat
  /\ {BlockBytes, InodesPerGroup, InodesPerBlock} \subseteq Nat \ {0}
  /\ BlockCells >= 5

VARIABLES
  disk,       \* what each block holds
  orphans,    \* the head of the orphan list, in the superblock
  habit,      \* what deleting does to an inode: "keeps" its tree, "wipes" it, "empties" it
  files, holder,  \* every file, and the file an inode number belongs to now
  logAt,      \* where in the journal the next transaction goes
  lost,       \* a block that reads as zeros now
  changes

volumeVars == <<disk, orphans, habit, files, holder, logAt, lost, changes>>

Gap == -1
Blank == [kind |-> "blank"]
Volume == 0..(TotalBlocks - 1)
Inodes == 1..TotalInodes
SubInode == kJournalInode + 1   \* the directory in the root
FreeForFiles == (SubInode + 1)..TotalInodes
NoFile == 0
Never == TotalInodes + 1        \* a deletion time, as a number no inode has

(***************************************************************************)
(* Inodes and their trees.                                                 *)
(***************************************************************************)

(* An extent that was never written is marked by what is added to its length. *)
kMaxInitializedLength == 32768
Leaf(file, block, count, init) ==
  [file |-> file, block |-> block,
   length |-> IF init THEN count ELSE count + kMaxInitializedLength]
Node(depth, entries) == [kind |-> "node", depth |-> depth, entries |-> entries]
EmptyTree == Node(0, <<>>)

(* One leaf for every run of blocks that follow each other. *)
LeavesOf(shape) ==
  LET b == shape.blocks
      starts == {i \in DOMAIN b : b[i] # Gap /\ (i = 1 \/ b[i - 1] = Gap \/ b[i] # b[i - 1] + 1)}
      after(i) == {j \in DOMAIN b : j > i /\ (j \in starts \/ b[j] = Gap)}
      ends(i) == Min(after(i) \cup {Len(b) + 1})
      leaf(i) == Leaf(i - 1, b[i], ends(i) - i, shape.written)
  IN [k \in 1..Cardinality(starts) |-> leaf(SetToSortSeq(starts, <)[k])]

(* A tree in the inode, or one whose every leaf has a node block of its own. *)
TreeOf(shape) ==
  IF shape.nodes = <<>> THEN Node(0, LeavesOf(shape))
  ELSE Node(1, [i \in DOMAIN shape.nodes |-> [block |-> shape.nodes[i]]])

FileInode(shape, links) ==
  [mode |-> "file", links |-> links, size |-> Len(shape.blocks) * BlockBytes - shape.short,
   dtime |-> 0, extents |-> TRUE, tree |-> TreeOf(shape)]
PlainInode(mode, blocks) ==
  [FileInode([blocks |-> blocks, nodes |-> <<>>, short |-> 0, written |-> TRUE], 1)
     EXCEPT !.mode = mode]
UnusedInode == [PlainInode("none", <<>>) EXCEPT !.links = 0, !.extents = FALSE]

TableBlock(n) ==
  InodeTables[(n - 1) \div InodesPerGroup + 1] + ((n - 1) % InodesPerGroup) \div InodesPerBlock
TableSlot(n) == (((n - 1) % InodesPerGroup) % InodesPerBlock) + 1
InodeAt(blocks, n) == blocks[TableBlock(n)].slots[TableSlot(n)]
WithInode(blocks, n, inode) == [blocks EXCEPT ![TableBlock(n)].slots[TableSlot(n)] = inode]

WithNodes(blocks, shape) ==
  [c \in Volume |-> IF c \in Range(shape.nodes)
                    THEN LET i == CHOOSE k \in DOMAIN shape.nodes : shape.nodes[k] = c
                         IN Node(0, <<LeavesOf(shape)[i]>>)
                    ELSE IF c \in Range(shape.blocks) THEN Blank ELSE blocks[c]]

(***************************************************************************)
(* Directory blocks.                                                       *)
(***************************************************************************)

Header(inode, rec, name, len) == [inode |-> inode, rec |-> rec, name |-> name, len |-> len]
Piece(name) == [inode |-> 0, rec |-> 0, name |-> name, len |-> 0]
EmptyCell == Piece(0)
Directory(cells) == [kind |-> "dir", cells |-> cells]
EntryCells(len) == 1 + len

DotBlock(self, parent) ==
  Directory([i \in 1..BlockCells |->
    CASE i = 1 -> Header(self, 2, 0, 1)
      [] i = 3 -> Header(parent, BlockCells - 2, -1, 1)
      [] OTHER -> EmptyCell])

Put(cells, at, inode, rec, name, len) ==
  [i \in 1..BlockCells |->
    IF i = at THEN Header(inode, rec, name, len)
    ELSE IF i \in (at + 1)..(at + len) THEN Piece(name) ELSE cells[i]]

(* The starts of the records of a block. *)
RecordsOf(cells) ==
  LET step[n \in 0..BlockCells] ==
        IF n = 0 THEN 1
        ELSE LET at == step[n - 1]
             IN IF at > BlockCells \/ cells[at].rec = 0 THEN BlockCells + 1 ELSE at + cells[at].rec
  IN {step[n] : n \in 0..BlockCells} \cap 1..BlockCells

SpareAfter(cells, at) ==
  IF cells[at].inode = 0 THEN cells[at].rec ELSE cells[at].rec - EntryCells(cells[at].len)

(* A name goes into the first record with room for it, which is split. *)
Inserted(cells, inode, name, len) ==
  LET at == Min({i \in RecordsOf(cells) : SpareAfter(cells, i) >= EntryCells(len)})
      used == IF cells[at].inode = 0 THEN 0 ELSE EntryCells(cells[at].len)
      shrunk == IF used = 0 THEN cells ELSE [cells EXCEPT ![at].rec = used]
  IN Put(shrunk, at + used, inode, cells[at].rec - used, name, len)
HasRoom(cells, len) == \E i \in RecordsOf(cells) : SpareAfter(cells, i) >= EntryCells(len)

(* A name is removed by the record before it taking its cells; the first of a block
   loses its inode number instead. *)
Removed(cells, at) ==
  LET before == {i \in RecordsOf(cells) : i < at}
  IN IF before = {} THEN [cells EXCEPT ![at].inode = 0]
     ELSE [cells EXCEPT ![Max(before)].rec = @ + cells[at].rec]

(* Names are kept in the second block of a directory; the first is `.` and `..`. *)
NamesBlock(dir) == DirectoryBlocks[dir][2]
CellsOf(dir) == disk[NamesBlock(dir)].cells
Places == {p \in [dir : DOMAIN DirectoryBlocks, at : 1..BlockCells] :
             /\ disk[NamesBlock(p.dir)] # Blank
             /\ p.at \in RecordsOf(CellsOf(p.dir))
             /\ CellsOf(p.dir)[p.at].inode \in FreeForFiles}
EntryAt(p) == CellsOf(p.dir)[p.at]
NewName == changes + 4   \* three names are there at the start

WithName(blocks, dir, inode, name, len) ==
  [blocks EXCEPT ![NamesBlock(dir)].cells = Inserted(@, inode, name, len)]
WithoutName(blocks, p) == [blocks EXCEPT ![NamesBlock(p.dir)].cells = Removed(@, p.at)]

(***************************************************************************)
(* The journal: every change is a transaction, a descriptor and the copy   *)
(* of the table block it names.  The log starts again at its first block.  *)
(***************************************************************************)

LogLength == Len(JournalBlocks) - 1
LogBlock(at) == JournalBlocks[2 + (at % LogLength)]

Logged(blocks, n) ==
  [blocks EXCEPT ![LogBlock(logAt)] = [kind |-> "descriptor", tags |-> <<TableBlock(n)>>],
                 ![LogBlock(logAt + 1)] = [kind |-> "copy",
                                            slots |-> blocks[TableBlock(n)].slots]]

(***************************************************************************)
(* The host.                                                               *)
(***************************************************************************)

Links(n) == InodeAt(disk, n).links
LiveFiles == {f \in DOMAIN files : files[f].state = "live"}
OpenFiles == {f \in DOMAIN files : files[f].state = "open"}   \* unlinked, not freed yet
HeldBlocks == UNION {Range(files[f].shape.blocks) \cup Range(files[f].shape.nodes) :
                       f \in LiveFiles \cup OpenFiles}
FreeInodes == {n \in FreeForFiles : holder[n] = NoFile}

Commit(blocks, n) ==
  /\ disk' = Logged(blocks, n)
  /\ logAt' = (logAt + 2) % LogLength
  /\ changes' = changes + 1
  /\ UNCHANGED <<habit, lost>>

create(dir, shape, len) ==
  /\ HasRoom(CellsOf(dir), len)
  /\ (Range(shape.blocks) \cup Range(shape.nodes)) \cap HeldBlocks = {}
  /\ \E n \in FreeInodes :
       /\ Commit(WithName(WithNodes(WithInode(disk, n, FileInode(shape, 1)), shape),
                          dir, n, NewName, len), n)
       /\ files' = Append(files, [inode |-> n, shape |-> shape, state |-> "live"])
       /\ holder' = [holder EXCEPT ![n] = Len(files) + 1]
  /\ UNCHANGED orphans

addLink(p, dir, len) ==
  LET n == EntryAt(p).inode
      counted == WithInode(disk, n, [InodeAt(disk, n) EXCEPT !.links = @ + 1])
  IN /\ HasRoom(CellsOf(dir), len)
     /\ Commit(WithName(counted, dir, n, NewName, len), n)
     /\ UNCHANGED <<files, holder, orphans>>

rename(p, dir, len) ==
  LET n == EntryAt(p).inode
      without == WithoutName(disk, p)
  IN /\ HasRoom(without[NamesBlock(dir)].cells, len)
     /\ Commit(WithName(without, dir, n, NewName, len), n)
     /\ UNCHANGED <<files, holder, orphans>>

(* What is left of an inode that is freed. *)
FreedInode(inode) ==
  [inode EXCEPT !.links = 0, !.dtime = Never,
                !.tree = IF habit = "keeps" THEN @ ELSE EmptyTree,
                !.size = IF habit = "empties" THEN 0 ELSE @]

unlink(p, stillOpen) ==
  LET n == EntryAt(p).inode
      inode == InodeAt(disk, n)
      left == CASE inode.links > 1 -> [inode EXCEPT !.links = @ - 1]
                [] inode.links = 1 /\ stillOpen -> [inode EXCEPT !.links = 0, !.dtime = orphans]
                [] OTHER -> FreedInode(inode)
  IN /\ stillOpen => inode.links = 1
     /\ Commit(WithInode(WithoutName(disk, p), n, left), n)
     /\ orphans' = IF stillOpen THEN n ELSE orphans
     /\ files' = IF inode.links > 1 THEN files
                 ELSE [files EXCEPT ![holder[n]].state = IF stillOpen THEN "open" ELSE "deleted"]
     /\ holder' = IF inode.links > 1 \/ stillOpen THEN holder ELSE [holder EXCEPT ![n] = NoFile]

(* The last user of the newest orphan closes it, and it is freed. *)
closeOrphan ==
  /\ orphans # 0
  /\ Commit(WithInode(disk, orphans, FreedInode(InodeAt(disk, orphans))), orphans)
  /\ files' = [files EXCEPT ![holder[orphans]].state = "deleted"]
  /\ holder' = [holder EXCEPT ![orphans] = NoFile]
  /\ orphans' = InodeAt(disk, orphans).dtime

loseBlock(c) ==
  /\ disk[c] # Blank
  /\ disk' = [disk EXCEPT ![c] = Blank]
  /\ lost' = c
  /\ changes' = changes + 1
  /\ UNCHANGED <<orphans, habit, files, holder, logAt>>

VolumeChanges ==
  /\ changes < MaxChanges /\ lost = 0
  /\ \/ \E dir \in DOMAIN DirectoryBlocks, shape \in Shapes, len \in 1..2 : create(dir, shape, len)
     \/ \E p \in Places :
          \/ \E dir \in DOMAIN DirectoryBlocks, len \in 1..2 : addLink(p, dir, len)
          \/ \E dir \in DOMAIN DirectoryBlocks, len \in 1..2 : rename(p, dir, len)
          \/ \E stillOpen \in BOOLEAN : unlink(p, stillOpen)
     \/ closeOrphan
     \/ \E c \in Volume \ {0} : loseBlock(c)

(***************************************************************************)
(* At the start the root holds a directory, which holds two files.         *)
(***************************************************************************)

FirstInode(k) == SubInode + k
FirstFiles == [k \in 1..2 |-> [inode |-> FirstInode(k), shape |-> FirstShapes[k], state |-> "live"]]

EmptyCells == [i \in 1..BlockCells |-> EmptyCell]
RootNames == Put(EmptyCells, 1, SubInode, BlockCells, 1, 1)
SubNames == Put(Put(EmptyCells, 1, FirstInode(1), 2, 2, 1), 3, FirstInode(2), BlockCells - 2, 3, 1)

FirstInodeOf(n) ==
  CASE n = kRootInode -> PlainInode("dir", DirectoryBlocks[1])
    [] n = kJournalInode -> PlainInode("file", JournalBlocks)
    [] n = SubInode -> PlainInode("dir", DirectoryBlocks[2])
    [] n \in {FirstInode(k) : k \in 1..2} -> FileInode(FirstShapes[n - SubInode], 1)
    [] OTHER -> UnusedInode

FirstBlock(c) ==
  CASE c = GroupBlock -> [kind |-> "groups", tables |-> InodeTables]
    [] c = JournalBlocks[1] -> [kind |-> "journal", blockBytes |-> BlockBytes, first |-> 1]
    [] c \in {TableBlock(n) : n \in Inodes} ->
         [kind |-> "inodes",
          slots |-> [s \in 1..InodesPerBlock |->
            LET here == {n \in Inodes : TableBlock(n) = c /\ TableSlot(n) = s}
            IN IF here = {} THEN UnusedInode ELSE FirstInodeOf(CHOOSE n \in here : TRUE)]]
    [] c = DirectoryBlocks[1][1] -> DotBlock(kRootInode, kRootInode)
    [] c = DirectoryBlocks[1][2] -> Directory(RootNames)
    [] c = DirectoryBlocks[2][1] -> DotBlock(SubInode, kRootInode)
    [] c = DirectoryBlocks[2][2] -> Directory(SubNames)
    [] OTHER -> Blank

VolumeInit ==
  /\ disk = WithNodes(WithNodes([c \in Volume |-> FirstBlock(c)], FirstShapes[1]), FirstShapes[2])
  /\ files = FirstFiles
  /\ holder = [n \in Inodes |-> IF n \in {FirstInode(1), FirstInode(2)} THEN n - SubInode ELSE NoFile]
  /\ habit \in {"keeps", "wipes", "empties"}
  /\ orphans = 0 /\ logAt = 0 /\ lost = 0 /\ changes = 0
===============================================================================
