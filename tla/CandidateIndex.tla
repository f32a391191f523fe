---------------------------- MODULE CandidateIndex ----------------------------
(***************************************************************************)
(* The durable record of what a run discovered: candidates.idx, a header   *)
(* and fixed-size records, and candidates.dat, the blob those records      *)
(* point into (recovery/CandidateIndex.cpp, CandidateIndexRead.cpp,        *)
(* CandidateRecord.cpp), with the session steps that create, continue and  *)
(* checkpoint it (cli/Session.cpp).                                        *)
(*                                                                         *)
(* A blob byte is the pair <<candidate, position>> it was written for, so  *)
(* reading somebody else's bytes is visible.  A write that fails, or that  *)
(* the process does not survive, leaves any prefix of its bytes on disk;   *)
(* a failed std::ofstream stays failed, and later writes to it do nothing. *)
(***************************************************************************)
EXTENDS Naturals, Sequences

CONSTANTS
  Candidates,     \* the candidates a run may append
  EntryBytes,     \* EntryBytes[c]: length of c's blob entry
  WithinCaps,     \* the candidates whose three lengths pass the read-back caps
  MaxIndexed,     \* kMaxIndexedCandidates
  MaxRecords,     \* bound of the model: the record file grows no further
  MaxBlobBytes,   \* bound of the model: the blob grows no further
  None,           \* "nothing"
  Garbage         \* a candidate decoded from bytes that are not its own

ASSUME CandidateIndexAssumption ==
  /\ EntryBytes \in [Candidates -> Nat]
  /\ WithinCaps \subseteq Candidates
  /\ MaxIndexed \in Nat
  /\ MaxRecords \in Nat
  /\ MaxBlobBytes \in Nat
  /\ None \notin Candidates \union Nat
  /\ Garbage \notin Candidates \union {None}

VARIABLES
  header,       \* candidates.idx begins with a whole header of ours
  records,      \* the whole records of candidates.idx
  tornTail,     \* candidates.idx ends in part of a record
  blob,         \* the bytes of candidates.dat
  checkpoint,   \* indexRecords of the checkpoint file, or None
  phase,        \* "closed", "idle", or "record": inside writeEntry, blob done
  pending,      \* the candidate writeEntry is writing
  blobGood,     \* blob_.good()
  recordsGood,  \* records_.good()
  blobBytes,    \* blobBytes_
  count         \* count_; keeps its last value when the process is gone

disk == <<header, records, tornTail, blob, checkpoint>>
streams == <<blobGood, recordsGood, blobBytes, count>>
vars == <<disk, phase, pending, streams>>

Cells == Candidates \X Nat
Records == [blobOffset : Nat, candidate : Candidates]

(* One candidate's variable-length parts, in the order of its lengths. *)
encodeBlobEntry(c) == [i \in 1..EntryBytes[c] |-> <<c, i>>]

recordFor(c, offset) == [blobOffset |-> offset, candidate |-> c]

(***************************************************************************)
(* Reading back.                                                           *)
(***************************************************************************)

lengthsAreSane(r) == r.candidate \in WithinCaps

blobRangeFits(r, b) == r.blobOffset + EntryBytes[r.candidate] <= Len(b)

(* The range of the blob that r points at holds r's own entry. *)
HoldsItsEntry(r, b) ==
  \A i \in 1..EntryBytes[r.candidate] : b[r.blobOffset + i] = <<r.candidate, i>>

(* The candidate a record decodes to; None when the record is dropped. *)
readCandidate(r, b) ==
  IF ~lengthsAreSane(r) \/ ~blobRangeFits(r, b) THEN None
  ELSE IF HoldsItsEntry(r, b) THEN r.candidate ELSE Garbage

(* What readAll yields: the decoded records, the dropped ones as None. *)
readAll == [i \in 1..Len(records) |-> readCandidate(records[i], blob)]

(* readIndex: None is the typed error, for a file that is not an index of ours
   and for one that states more records than may be materialized. *)
readIndex == IF ~header \/ Len(records) > MaxIndexed THEN None ELSE readAll

(***************************************************************************)
(* The session steps around the index.                                     *)
(***************************************************************************)

Init ==
  /\ header = FALSE
  /\ records = <<>>
  /\ tornTail = FALSE
  /\ blob = <<>>
  /\ checkpoint = None
  /\ phase = "closed"
  /\ pending = None
  /\ blobGood = TRUE
  /\ recordsGood = TRUE
  /\ blobBytes = 0
  /\ count = 0

(* freshSession's first half: no checkpoint, another run's, a refused one. *)
clearCheckpoint ==
  /\ phase = "closed"
  /\ checkpoint' = None
  /\ UNCHANGED <<header, records, tornTail, blob, phase, pending, streams>>

(* Mutant of create: freshSession did not clear the checkpoint first. *)
create_overCheckpoint ==
  /\ phase = "closed"
  /\ header' = TRUE
  /\ records' = <<>>
  /\ tornTail' = FALSE
  /\ blob' = <<>>
  /\ phase' = "idle"
  /\ blobGood' = TRUE
  /\ recordsGood' = TRUE
  /\ blobBytes' = 0
  /\ count' = 0
  /\ UNCHANGED <<checkpoint, pending>>

(* CandidateIndex::create, both files truncated and the header flushed. *)
create ==
  /\ phase = "closed"
  /\ checkpoint = None
  /\ header' = TRUE
  /\ records' = <<>>
  /\ tornTail' = FALSE
  /\ blob' = <<>>
  /\ phase' = "idle"
  /\ blobGood' = TRUE
  /\ recordsGood' = TRUE
  /\ blobBytes' = 0
  /\ count' = 0
  /\ UNCHANGED <<checkpoint, pending>>

(* create fails, or the process dies in it: the blob may still be the old one. *)
createCut ==
  /\ phase = "closed"
  /\ checkpoint = None
  /\ header' = FALSE
  /\ records' = <<>>
  /\ tornTail' = FALSE
  /\ blob' \in {blob, <<>>}
  /\ count' = 0
  /\ UNCHANGED <<checkpoint, phase, pending, blobGood, recordsGood, blobBytes>>

(* reopen's size check: the record file reaches the checkpoint's last record. *)
HoldsCheckpoint ==
  /\ checkpoint # None
  /\ header
  /\ checkpoint <= Len(records)

(* Mutant of resize_file: the record file is appended to as it stands. *)
resize_file_skipped ==
  /\ count' = checkpoint
  /\ UNCHANGED <<header, records, tornTail, blob, checkpoint>>

(* reopen: the record file is cut back to the checkpoint, the blob is not. *)
resize_file ==
  /\ records' = SubSeq(records, 1, checkpoint)
  /\ tornTail' = FALSE
  /\ count' = checkpoint
  /\ UNCHANGED <<header, blob, checkpoint>>

(* Mutant of reopen: the blob is taken to end where the last kept record does. *)
reopen_atLastRecord ==
  /\ phase = "closed"
  /\ HoldsCheckpoint
  /\ resize_file
  /\ phase' = "idle"
  /\ blobGood' = TRUE
  /\ recordsGood' = TRUE
  /\ blobBytes' = IF checkpoint = 0 THEN 0
                  ELSE records[checkpoint].blobOffset + EntryBytes[records[checkpoint].candidate]
  /\ UNCHANGED pending

reopen ==
  /\ phase = "closed"
  /\ HoldsCheckpoint
  /\ resize_file
  /\ phase' = "idle"
  /\ blobGood' = TRUE
  /\ recordsGood' = TRUE
  /\ blobBytes' = Len(blob)
  /\ UNCHANGED pending

(* reopen resizes, then cannot open a stream, or the process dies. *)
reopenCut ==
  /\ phase = "closed"
  /\ HoldsCheckpoint
  /\ resize_file
  /\ UNCHANGED <<phase, pending, blobGood, recordsGood, blobBytes>>

(***************************************************************************)
(* writeEntry: the blob first, flushed, then the record that points at it. *)
(***************************************************************************)

(* n bytes of the entry reach the disk; the stream stays good only with all. *)
writeBlob(c) ==
  /\ phase = "idle"
  /\ Len(blob) + EntryBytes[c] <= MaxBlobBytes
  /\ Len(records) < MaxRecords
  /\ \/ /\ blobGood
        /\ \E n \in 0..EntryBytes[c] :
             /\ blob' = blob \o SubSeq(encodeBlobEntry(c), 1, n)
             /\ blobGood' \in {FALSE, n = EntryBytes[c]}
     \/ /\ ~blobGood
        /\ UNCHANGED <<blob, blobGood>>
  /\ phase' = "record"
  /\ pending' = c
  /\ UNCHANGED <<header, records, tornTail, checkpoint, recordsGood, blobBytes, count>>

(* Mutant of writeRecord: only the record stream is asked how it went. *)
writeRecord_blobUnchecked ==
  /\ phase = "record"
  /\ recordsGood
  /\ records' = Append(records, recordFor(pending, blobBytes))
  /\ blobBytes' = blobBytes + EntryBytes[pending]
  /\ count' = count + 1
  /\ phase' = "idle"
  /\ pending' = None
  /\ UNCHANGED <<header, tornTail, blob, checkpoint, blobGood, recordsGood>>

(* Mutant of writeRecord: a refused entry takes its bytes back off the offset
   they were never added to. *)
writeRecord_rolledBack ==
  /\ phase = "record"
  /\ ~blobGood
  /\ blobBytes' = blobBytes - EntryBytes[pending]
  /\ phase' = "idle"
  /\ pending' = None
  /\ UNCHANGED <<disk, blobGood, recordsGood, count>>

(* The record is written whatever became of the blob; then both are checked. *)
writeRecord ==
  /\ phase = "record"
  /\ \/ /\ recordsGood
        /\ records' = Append(records, recordFor(pending, blobBytes))
        /\ recordsGood' \in BOOLEAN
        /\ UNCHANGED tornTail
     \/ /\ recordsGood
        /\ recordsGood' = FALSE
        /\ tornTail' \in BOOLEAN
        /\ UNCHANGED records
     \/ /\ ~recordsGood
        /\ UNCHANGED <<records, recordsGood, tornTail>>
  /\ IF blobGood /\ recordsGood'
     THEN /\ blobBytes' = blobBytes + EntryBytes[pending]
          /\ count' = count + 1
     ELSE UNCHANGED <<blobBytes, count>>
  /\ phase' = "idle"
  /\ pending' = None
  /\ UNCHANGED <<header, blob, checkpoint, blobGood>>

(* Checkpointer::onScanned: the checkpoint names the acknowledged count. *)
writeCheckpoint ==
  /\ phase = "idle"
  /\ checkpoint' = count
  /\ UNCHANGED <<header, records, tornTail, blob, phase, pending, streams>>

(* The run ends, or the process is killed between two writes. *)
close ==
  /\ phase # "closed"
  /\ phase' = "closed"
  /\ pending' = None
  /\ UNCHANGED <<disk, streams>>

(* The process is killed inside a write: part of it is on disk. *)
killedInBlob ==
  /\ phase = "idle"
  /\ blobGood
  /\ \E c \in Candidates : \E n \in 0..EntryBytes[c] :
       /\ Len(blob) + n <= MaxBlobBytes
       /\ blob' = blob \o SubSeq(encodeBlobEntry(c), 1, n)
  /\ phase' = "closed"
  /\ UNCHANGED <<header, records, tornTail, checkpoint, pending, streams>>

killedInRecord ==
  /\ phase = "record"
  /\ recordsGood
  /\ tornTail' = TRUE
  /\ phase' = "closed"
  /\ pending' = None
  /\ UNCHANGED <<header, records, blob, checkpoint, streams>>

Next ==
  \/ clearCheckpoint
  \/ create
  \/ createCut
  \/ reopen
  \/ reopenCut
  \/ \E c \in Candidates : writeBlob(c)
  \/ writeRecord
  \/ writeCheckpoint
  \/ close
  \/ killedInBlob
  \/ killedInRecord

Spec == Init /\ [][Next]_vars

(***************************************************************************)
(* Properties.                                                             *)
(***************************************************************************)

TypeOK ==
  /\ header \in BOOLEAN
  /\ records \in Seq(Records)
  /\ tornTail \in BOOLEAN
  /\ blob \in Seq(Cells)
  /\ checkpoint \in Nat \union {None}
  /\ phase \in {"closed", "idle", "record"}
  /\ pending \in Candidates \union {None}
  /\ phase = "record" <=> pending # None
  /\ blobGood \in BOOLEAN
  /\ recordsGood \in BOOLEAN
  /\ blobBytes \in Nat
  /\ count \in Nat

(* The session a checkpoint stands for: the acknowledged records, decoded
   from what the two files hold now. *)
Log == INSTANCE CheckpointedLog
         WITH log   <- [i \in 1..count |-> readCandidate(records[i], blob)],
              saved <- checkpoint,
              open  <- phase # "closed"

(* Through torn writes, failed streams, crashes and resumes, the index on disk
   implements the checkpointed log: an acknowledged candidate reads back as
   itself, in order, until a restart drops it as past the checkpoint. *)
ImplementsLog == Log!Spec

(* A checkpoint written by any earlier process can always be resumed: the
   record file holds every record it names, and the header is whole.  The
   refusal in reopen is for files something else has damaged. *)
CheckpointIsHeld == checkpoint # None => HoldsCheckpoint

(* A run whose every append succeeded (the only kind that goes on to
   arbitration) reads back exactly its log: no torn tail, no record past the
   acknowledged ones, none dropped, none made of foreign bytes.  An index past
   the cap is refused whole; it is never read back shortened. *)
CleanRunReadsItsLog ==
  phase = "idle" /\ blobGood /\ recordsGood =>
    /\ ~tornTail
    /\ readIndex = IF count > MaxIndexed
                   THEN None
                   ELSE [i \in 1..count |-> records[i].candidate]

(* A killed run leaves a readable prefix: while no write was refused, every
   whole record on disk reads back as its candidate, with bytes of a torn entry
   left in the blob by this or an earlier process (CandidateIndex.hpp:38-41). *)
CrashLeavesReadablePrefix ==
  blobGood /\ recordsGood =>
    \A i \in 1..Len(records) : readCandidate(records[i], blob) = records[i].candidate

(***************************************************************************)
(* The inductive invariant behind them.                                    *)
(***************************************************************************)

(* The record's whole entry is in the blob, byte for byte. *)
Intact(r, b) == blobRangeFits(r, b) /\ HoldsItsEntry(r, b)

(* What the files owe to the counters, whatever was refused or cut. *)
DiskInv ==
  /\ count <= Len(records)
  /\ checkpoint # None => header /\ checkpoint <= count
  /\ \A i \in 1..count : Intact(records[i], blob)
  /\ blobGood /\ recordsGood => Len(records) = count

(* What holds of an open index whose streams are both good. *)
StreamInv ==
  phase # "closed" =>
    /\ header
    /\ blobGood /\ recordsGood =>
         /\ ~tornTail
         /\ phase = "idle" => blobBytes = Len(blob)
         /\ phase = "record" =>
              /\ Intact(recordFor(pending, blobBytes), blob)
              /\ blobBytes + EntryBytes[pending] = Len(blob)

IndexInv == TypeOK /\ DiskInv /\ StreamInv

=============================================================================
