------------------------------ MODULE ExtentSpan ------------------------------
(***************************************************************************)
(* Lists of extents (fs/ExtentSpan.cpp, fs/ExtentLocate.cpp), shared by    *)
(* every file system.  An extent is a record: `at` is its device offset    *)
(* and `len` its length in bytes.                                          *)
(***************************************************************************)
EXTENDS Integers, Sequences, FiniteSets, SequencesExt

appendExtent(extents, run) ==
  IF extents # <<>> /\ Last(extents).at + Last(extents).len = run.at
  THEN [extents EXCEPT ![Len(extents)].len = @ + run.len]
  ELSE Append(extents, run)

extentBytes(extents) ==
  LET upTo[n \in 0..Len(extents)] == IF n = 0 THEN 0 ELSE upTo[n - 1] + extents[n].len
  IN upTo[Len(extents)]

(* The extents cut to the size, or nothing when they do not reach it: what lies
   before an extent decides how much of it is kept. *)
trimToSize(extents, size) ==
  LET before(i) == extentBytes(SubSeq(extents, 1, i - 1))
      needed == {i \in DOMAIN extents : before(i) < size}
  IN IF extentBytes(extents) < size THEN <<>>
     ELSE [i \in 1..Cardinality(needed) |->
             [at |-> extents[i].at, len |-> Min({extents[i].len, size - before(i)})]]

(* Where a range of the file lies on the device, or -1: the range has to end inside
   the extent it starts in. *)
locateInExtents(extents, offset, length) ==
  LET before(i) == extentBytes(SubSeq(extents, 1, i - 1))
      holding == {i \in DOMAIN extents :
                    offset >= before(i) /\ offset - before(i) < extents[i].len}
      fits(i) == length <= extents[i].len - (offset - before(i))
  IN IF \E i \in holding : fits(i)
     THEN LET i == CHOOSE j \in holding : fits(j) IN extents[i].at + (offset - before(i))
     ELSE -1

(* The device bytes an extent list names, in order. *)
BytesOf(extents) ==
  LET upTo[n \in 0..Len(extents)] ==
        IF n = 0 THEN <<>>
        ELSE upTo[n - 1] \o [i \in 1..extents[n].len |-> extents[n].at + i - 1]
  IN upTo[Len(extents)]
===============================================================================
