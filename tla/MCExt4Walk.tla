------------------------------ MODULE MCExt4Walk ------------------------------
(***************************************************************************)
(* A volume of two groups and six inodes: the group block, three table     *)
(* blocks, a journal whose log of five blocks a transaction of two wraps   *)
(* in, two directories and seven blocks for files.                         *)
(***************************************************************************)
EXTENDS Ext4Walk

MCInodeTables == <<2, 4>>
MCJournalBlocks == <<5, 6, 7, 8, 9, 10>>
MCDirectoryBlocks == <<<<11, 12>>, <<13, 14>>>>

FileOf(blocks, nodes, short, written) ==
  [blocks |-> blocks, nodes |-> nodes, short |-> short, written |-> written]

MCFirstShapes == <<FileOf(<<15>>, <<>>, 0, TRUE), FileOf(<<17, 16>>, <<18, 19>>, 1, TRUE)>>
MCShapes ==
  {FileOf(<<15>>, <<>>, 1, TRUE),
   FileOf(<<20, 16>>, <<18, 19>>, 0, TRUE),
   FileOf(<<21, 20>>, <<>>, 0, TRUE),
   FileOf(<<20, Gap, 21>>, <<>>, 0, TRUE),
   FileOf(<<20>>, <<>>, 0, FALSE)}
===============================================================================
