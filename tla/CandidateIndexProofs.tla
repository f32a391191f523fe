------------------------- MODULE CandidateIndexProofs -------------------------
(***************************************************************************)
(* Proofs about CandidateIndex, for every set of candidates, every entry   *)
(* length and every bound.                                                 *)
(***************************************************************************)
EXTENDS CandidateIndex, SequenceTheorems, TLAPS

(* A suffix is read where the concatenation put it. *)
LEMMA ConcatReads ==
  ASSUME NEW S, NEW s \in Seq(S), NEW t \in Seq(S)
  PROVE  /\ Len(s \o t) = Len(s) + Len(t)
         /\ Len(s) \in Nat
         /\ \A i \in 1..Len(s) : (s \o t)[i] = s[i]
         /\ \A i \in 1..Len(t) : (s \o t)[Len(s) + i] = t[i]
OBVIOUS

(* What a write that was cut after n bytes adds to the blob. *)
LEMMA EntryPrefix ==
  ASSUME NEW c \in Candidates, NEW n \in 0..EntryBytes[c]
  PROVE  /\ SubSeq(encodeBlobEntry(c), 1, n) \in Seq(Cells)
         /\ Len(SubSeq(encodeBlobEntry(c), 1, n)) = n
         /\ \A i \in 1..n : SubSeq(encodeBlobEntry(c), 1, n)[i] = <<c, i>>
<1>1. EntryBytes[c] \in Nat
  BY CandidateIndexAssumption
<1>2. /\ encodeBlobEntry(c) \in Seq(Cells)
      /\ Len(encodeBlobEntry(c)) = EntryBytes[c]
      /\ \A i \in 1..EntryBytes[c] : encodeBlobEntry(c)[i] = <<c, i>>
  BY <1>1 DEF encodeBlobEntry, Cells
<1> QED
  BY <1>1, <1>2

(* The blob is append-only, so an entry that is on disk stays readable. *)
LEMMA AppendKeepsIntact ==
  ASSUME NEW b \in Seq(Cells), NEW t \in Seq(Cells), NEW r \in Records, Intact(r, b)
  PROVE  Intact(r, b \o t)
<1>1. /\ Len(b \o t) = Len(b) + Len(t)
      /\ \A i \in 1..Len(b) : (b \o t)[i] = b[i]
      /\ Len(b) \in Nat /\ Len(t) \in Nat
  OBVIOUS
<1>2. r.blobOffset \in Nat /\ EntryBytes[r.candidate] \in Nat
  BY CandidateIndexAssumption DEF Records
<1> QED
  BY <1>1, <1>2, SMTT(60) DEF Intact, blobRangeFits, HoldsItsEntry

(* A whole entry appended at the end of the blob can be read from there. *)
LEMMA WholeEntryIsIntact ==
  ASSUME NEW b \in Seq(Cells), NEW c \in Candidates
  PROVE  LET w == b \o SubSeq(encodeBlobEntry(c), 1, EntryBytes[c])
         IN  Intact(recordFor(c, Len(b)), w) /\ Len(w) = Len(b) + EntryBytes[c]
<1> DEFINE t == SubSeq(encodeBlobEntry(c), 1, EntryBytes[c])
           w == b \o t
<1>1. EntryBytes[c] \in Nat /\ EntryBytes[c] \in 0..EntryBytes[c]
  BY CandidateIndexAssumption
<1>2. /\ t \in Seq(Cells)
      /\ Len(t) = EntryBytes[c]
      /\ \A i \in 1..EntryBytes[c] : t[i] = <<c, i>>
  BY <1>1, EntryPrefix
<1> HIDE DEF t
<1>3. /\ Len(w) = Len(b) + EntryBytes[c]
      /\ Len(b) \in Nat
      /\ \A i \in 1..Len(t) : w[Len(b) + i] = t[i]
  BY <1>2, ConcatReads
<1> HIDE DEF w
<1>4. \A i \in 1..EntryBytes[c] : w[Len(b) + i] = <<c, i>>
  BY <1>2, <1>3
<1>5. Intact(recordFor(c, Len(b)), w)
  BY <1>1, <1>3, <1>4 DEF Intact, blobRangeFits, HoldsItsEntry, recordFor
<1> QED
  BY <1>3, <1>5 DEF w, t

-----------------------------------------------------------------------------

(* Every step keeps the inductive invariant: one step of the proof per action. *)
LEMMA IndexInvStep == IndexInv /\ [Next]_vars => IndexInv'
<1> SUFFICES ASSUME IndexInv, [Next]_vars PROVE IndexInv'
  OBVIOUS
<1> USE DEF IndexInv
<1>0. None \notin Candidates /\ None \notin Nat
  BY CandidateIndexAssumption
<1>e. \A c \in Candidates : EntryBytes[c] \in Nat
  BY CandidateIndexAssumption
<1>l. Len(records) \in Nat /\ Len(blob) \in Nat /\ <<>> \in Seq(Records) /\ <<>> \in Seq(Cells)
      /\ Len(<<>>) = 0
  BY DEF TypeOK
<1>r. \A i \in 1..Len(records) : records[i] \in Records
  BY ElementOfSeq DEF TypeOK
<1>1. CASE clearCheckpoint
  BY <1>1 DEF clearCheckpoint, TypeOK, DiskInv, StreamInv, streams
<1>2. CASE create
  <2>1. records' = <<>> /\ Len(records') = 0 /\ count' = 0 /\ checkpoint' = None
    BY <1>2, <1>l DEF create
  <2>2. TypeOK'
    <3>1. records' \in Seq(Records) /\ blob' \in Seq(Cells) /\ count' \in Nat
      BY <1>2, <1>l DEF create, TypeOK
    <3>2. header' \in BOOLEAN /\ tornTail' \in BOOLEAN /\ blobGood' \in BOOLEAN
          /\ recordsGood' \in BOOLEAN
      BY <1>2 DEF create, TypeOK
    <3>3. blobBytes' \in Nat /\ checkpoint' \in Nat \union {None}
      BY <1>2 DEF create, TypeOK
    <3>4. phase' \in {"closed", "idle", "record"} /\ pending' \in Candidates \union {None}
          /\ (phase' = "record" <=> pending' # None)
      BY <1>2 DEF create, TypeOK
    <3> QED
      BY <3>1, <3>2, <3>3, <3>4 DEF TypeOK
  <2>3. DiskInv'
    BY <2>1 DEF DiskInv
  <2>4. StreamInv'
    BY <1>2, <1>l DEF create, StreamInv, TypeOK
  <2> QED
    BY <2>2, <2>3, <2>4
<1>3. CASE createCut
  <2>1. records' = <<>> /\ Len(records') = 0 /\ count' = 0 /\ checkpoint' = None
    BY <1>3, <1>l DEF createCut
  <2>2. TypeOK'
    <3>1. records' \in Seq(Records) /\ blob' \in Seq(Cells) /\ count' \in Nat
      BY <1>3, <1>l DEF createCut, TypeOK
    <3>2. header' \in BOOLEAN /\ tornTail' \in BOOLEAN /\ blobGood' \in BOOLEAN
          /\ recordsGood' \in BOOLEAN
      BY <1>3 DEF createCut, TypeOK
    <3>3. blobBytes' \in Nat /\ checkpoint' \in Nat \union {None}
      BY <1>3 DEF createCut, TypeOK
    <3>4. phase' \in {"closed", "idle", "record"} /\ pending' \in Candidates \union {None}
          /\ (phase' = "record" <=> pending' # None)
      BY <1>3 DEF createCut, TypeOK
    <3> QED
      BY <3>1, <3>2, <3>3, <3>4 DEF TypeOK
  <2>3. DiskInv'
    BY <2>1 DEF DiskInv
  <2>4. StreamInv'
    BY <1>3, <1>l DEF createCut, StreamInv, TypeOK
  <2> QED
    BY <2>2, <2>3, <2>4
<1>4. CASE reopen \/ reopenCut
  <2>1. checkpoint \in Nat /\ checkpoint <= Len(records) /\ checkpoint <= count
        /\ header /\ checkpoint # None
    BY <1>4, <1>0, <1>l DEF reopen, reopenCut, HoldsCheckpoint, TypeOK, DiskInv
  <2>2. records' = SubSeq(records, 1, checkpoint) /\ tornTail' = FALSE
        /\ count' = checkpoint /\ UNCHANGED <<header, blob, checkpoint, pending>>
    BY <1>4 DEF reopen, reopenCut, resize_file
  <2>5. records' \in Seq(Records) /\ Len(records') = checkpoint
        /\ \A i \in 1..checkpoint : records'[i] = records[i]
    BY <2>1, <2>2 DEF TypeOK
  <2>6. TypeOK'
    BY <1>4, <2>1, <2>2, <2>5, <1>l DEF reopen, reopenCut, TypeOK
  <2>7. \A i \in 1..count' : Intact(records'[i], blob')
    BY <2>1, <2>2, <2>5 DEF DiskInv, TypeOK
  <2>8. DiskInv'
    BY <2>1, <2>2, <2>5, <2>7 DEF DiskInv
  <2>9. StreamInv'
    BY <1>4, <2>1, <2>2 DEF reopen, reopenCut, StreamInv
  <2> QED
    BY <2>6, <2>8, <2>9
<1>5. ASSUME NEW c \in Candidates, writeBlob(c) PROVE IndexInv'
  <2>1. PICK n \in 0..EntryBytes[c] :
          /\ blob' = blob \o SubSeq(encodeBlobEntry(c), 1, n)
          /\ blobGood' => blobGood /\ n = EntryBytes[c]
    <3>1. CASE blobGood
      BY <1>5, <3>1 DEF writeBlob, TypeOK
    <3>2. CASE ~blobGood
      <4>1. blob' = blob /\ ~blobGood'
        <5>1. UNCHANGED <<blob, blobGood>>
          BY <1>5, <3>2, Zenon DEF writeBlob
        <5> QED
          BY <5>1, <3>2 DEF TypeOK
      <4>2. SubSeq(encodeBlobEntry(c), 1, 0) = <<>>
        BY SubSeqEmpty
      <4>3. blob \o <<>> = blob
        BY ConcatEmptySeq DEF TypeOK
      <4>4. 0 \in 0..EntryBytes[c]
        BY <1>e
      <4>5. blob' = blob \o SubSeq(encodeBlobEntry(c), 1, 0)
        BY <4>1, <4>2, <4>3, Zenon
      <4> QED
        BY <4>1, <4>4, <4>5, Zenon
    <3> QED
      BY <3>1, <3>2
  <2>2. SubSeq(encodeBlobEntry(c), 1, n) \in Seq(Cells)
    BY <2>1, EntryPrefix
  <2>3. blob' \in Seq(Cells)
    BY <2>1, <2>2, ConcatProperties DEF TypeOK
  <2>4. TypeOK'
    BY <1>5, <2>3, <1>0 DEF writeBlob, TypeOK
  <2>5. \A i \in 1..count : Intact(records[i], blob')
    <3>1. ASSUME NEW i \in 1..count PROVE Intact(records[i], blob')
      <4>1. records[i] \in Records /\ Intact(records[i], blob)
        BY <1>r, <1>l DEF DiskInv, TypeOK
      <4>2. blob \in Seq(Cells)
        BY DEF TypeOK
      <4> QED
        BY <2>1, <2>2, <4>1, <4>2, AppendKeepsIntact
    <3> QED
      BY <3>1
  <2>6. DiskInv'
    BY <1>5, <2>1, <2>5 DEF writeBlob, DiskInv
  <2>7. StreamInv'
    <3>1. phase' = "record" /\ pending' = c /\ header' = header /\ header
          /\ UNCHANGED <<blobBytes, tornTail, recordsGood>>
      BY <1>5 DEF writeBlob, StreamInv
    <3>2. ASSUME blobGood', recordsGood'
          PROVE  ~tornTail' /\ Intact(recordFor(pending', blobBytes'), blob')
                 /\ blobBytes' + EntryBytes[pending'] = Len(blob')
      <4>1. blobGood /\ recordsGood /\ n = EntryBytes[c] /\ phase = "idle"
        BY <1>5, <2>1, <3>1, <3>2 DEF writeBlob
      <4>2. ~tornTail /\ blobBytes = Len(blob)
        BY <4>1 DEF StreamInv
      <4>3. Intact(recordFor(c, Len(blob)), blob') /\ Len(blob') = Len(blob) + EntryBytes[c]
        BY <2>1, <4>1, WholeEntryIsIntact DEF TypeOK
      <4> QED
        BY <3>1, <4>2, <4>3
    <3> QED
      BY <3>1, <3>2 DEF StreamInv
  <2> QED
    BY <2>4, <2>6, <2>7
<1>6. CASE writeRecord
  <2>1. pending \in Candidates /\ phase = "record"
        /\ UNCHANGED <<header, blob, checkpoint, blobGood>>
        /\ phase' = "idle" /\ pending' = None
    BY <1>6 DEF writeRecord, TypeOK
  <2> DEFINE r == recordFor(pending, blobBytes)
  <2>2. r \in Records
    BY <2>1 DEF recordFor, Records, TypeOK
  <2>3. CASE recordsGood /\ records' = Append(records, r) /\ UNCHANGED tornTail
    <3>1. records' \in Seq(Records) /\ Len(records') = Len(records) + 1
          /\ records'[Len(records) + 1] = r
          /\ \A i \in 1..Len(records) : records'[i] = records[i]
      <4> HIDE DEF r
      <4> QED
        BY <2>2, <2>3 DEF TypeOK
    <3>2. CASE blobGood /\ recordsGood'
      <4>1. blobBytes' = blobBytes + EntryBytes[pending] /\ count' = count + 1
        BY <1>6, <3>2 DEF writeRecord
      <4>2. Len(records) = count /\ ~tornTail /\ header /\ Intact(r, blob)
            /\ blobBytes + EntryBytes[pending] = Len(blob)
        BY <2>1, <2>3, <3>2 DEF DiskInv, StreamInv
      <4>3. TypeOK'
        BY <2>1, <2>3, <3>1, <3>2, <4>1, <1>e, <1>0 DEF TypeOK
      <4>4. \A i \in 1..count' : Intact(records'[i], blob')
        <5> HIDE DEF r
        <5> QED
          BY <2>1, <3>1, <4>1, <4>2 DEF DiskInv, TypeOK
      <4>5. DiskInv'
        BY <2>1, <3>1, <4>1, <4>2, <4>4 DEF DiskInv, TypeOK
      <4>6. StreamInv'
        BY <2>1, <2>3, <4>1, <4>2 DEF StreamInv
      <4> QED
        BY <4>3, <4>5, <4>6
    <3>3. CASE ~(blobGood /\ recordsGood')
      <4>1. UNCHANGED <<blobBytes, count>> /\ recordsGood' \in BOOLEAN
        BY <1>6, <3>3 DEF writeRecord, TypeOK
      <4>2. TypeOK'
        BY <2>1, <2>3, <3>1, <4>1, <1>0 DEF TypeOK
      <4>3. DiskInv'
        BY <2>1, <3>1, <3>3, <4>1, <1>l, SMTT(60) DEF DiskInv, TypeOK
      <4>4. StreamInv'
        BY <2>1, <3>3 DEF StreamInv
      <4> QED
        BY <4>2, <4>3, <4>4
    <3> QED
      BY <3>2, <3>3
  <2>4. CASE UNCHANGED records /\ ~recordsGood' /\ recordsGood' \in BOOLEAN /\ tornTail' \in BOOLEAN
    <3>1. UNCHANGED <<blobBytes, count>>
      BY <1>6, <2>4 DEF writeRecord
    <3> QED
      BY <2>1, <2>4, <3>1, <1>0 DEF TypeOK, DiskInv, StreamInv
  <2>5. \/ recordsGood /\ records' = Append(records, r) /\ UNCHANGED tornTail
        \/ UNCHANGED records /\ ~recordsGood' /\ recordsGood' \in BOOLEAN /\ tornTail' \in BOOLEAN
    BY <1>6, Zenon DEF writeRecord, TypeOK
  <2> QED
    BY <2>3, <2>4, <2>5
<1>7. CASE writeCheckpoint
  BY <1>7, <1>0 DEF writeCheckpoint, TypeOK, DiskInv, StreamInv, streams
<1>8. CASE close
  BY <1>8, <1>0 DEF close, TypeOK, DiskInv, StreamInv, streams, disk
<1>9. CASE killedInBlob
  <2>0. PICK c \in Candidates : \E n \in 0..EntryBytes[c] :
          blob' = blob \o SubSeq(encodeBlobEntry(c), 1, n)
    BY <1>9 DEF killedInBlob
  <2>1. PICK n \in 0..EntryBytes[c] :
          blob' = blob \o SubSeq(encodeBlobEntry(c), 1, n)
    BY <2>0
  <2>2. SubSeq(encodeBlobEntry(c), 1, n) \in Seq(Cells)
    BY <2>1, EntryPrefix
  <2>3. blob \in Seq(Cells) /\ blob' \in Seq(Cells)
    BY <2>1, <2>2, ConcatProperties DEF TypeOK
  <2>4. \A i \in 1..count : Intact(records[i], blob')
    <3>1. ASSUME NEW i \in 1..count PROVE Intact(records[i], blob')
      <4>1. records[i] \in Records /\ Intact(records[i], blob)
        BY <1>r, <1>l DEF DiskInv, TypeOK
      <4> QED
        BY <2>1, <2>2, <2>3, <4>1, AppendKeepsIntact
    <3> QED
      BY <3>1
  <2>5. TypeOK' /\ StreamInv'
    BY <1>9, <2>3 DEF killedInBlob, streams, TypeOK, StreamInv
  <2>6. DiskInv'
    BY <1>9, <2>4 DEF killedInBlob, streams, DiskInv
  <2> QED
    BY <2>5, <2>6
<1>10. CASE killedInRecord
  BY <1>10, <1>0 DEF killedInRecord, TypeOK, DiskInv, StreamInv, streams
<1>11. CASE UNCHANGED vars
  BY <1>11 DEF vars, TypeOK, DiskInv, StreamInv, streams, disk
<1> QED
  BY <1>1, <1>2, <1>3, <1>4, <1>5, <1>6, <1>7, <1>8, <1>9, <1>10, <1>11 DEF Next

(* The invariant holds in every state of every session: what the files hold
   always covers what the counters and the checkpoint claim. *)
THEOREM IndexInvariant == Spec => []IndexInv
<1>1. Init => IndexInv
  <2> SUFFICES ASSUME Init PROVE IndexInv
    OBVIOUS
  <2>1. <<>> \in Seq(Records) /\ <<>> \in Seq(Cells) /\ Len(<<>>) = 0
    OBVIOUS
  <2>2. TypeOK
    BY <2>1 DEF Init, TypeOK
  <2>3. DiskInv /\ StreamInv
    BY <2>1 DEF Init, DiskInv, StreamInv
  <2> QED
    BY <2>2, <2>3 DEF IndexInv
<1> QED
  BY <1>1, IndexInvStep, PTL DEF Spec

(* Every variable stays of its type, the open writeEntry included. *)
THEOREM TypeCorrect == Spec => []TypeOK
<1>1. IndexInv => TypeOK
  BY DEF IndexInv
<1> QED
  BY <1>1, IndexInvariant, PTL

(* A checkpoint that some process wrote can always be continued: reopen never
   has to refuse what the program itself left behind. *)
THEOREM CheckpointAlwaysHeld == Spec => []CheckpointIsHeld
<1>1. IndexInv => CheckpointIsHeld
  <2> SUFFICES ASSUME IndexInv, checkpoint # None PROVE HoldsCheckpoint
    BY DEF CheckpointIsHeld
  <2>1. checkpoint \in Nat /\ count \in Nat /\ Len(records) \in Nat
    BY DEF IndexInv, TypeOK
  <2> QED
    BY <2>1 DEF IndexInv, DiskInv, HoldsCheckpoint
<1> QED
  BY <1>1, IndexInvariant, PTL

(* An acknowledged record decodes to its own candidate, provided its lengths
   pass the read-back caps. *)
LEMMA AcknowledgedReads ==
  ASSUME Candidates \subseteq WithinCaps, IndexInv, NEW i \in 1..count
  PROVE  /\ records[i] \in Records
         /\ readCandidate(records[i], blob) = records[i].candidate
<1>1. i \in 1..Len(records) /\ records \in Seq(Records)
  BY DEF IndexInv, TypeOK, DiskInv
<1>2. records[i] \in Records
  BY <1>1
<1>4. records[i].candidate \in Candidates
  BY <1>2 DEF Records
<1>3. Intact(records[i], blob)
  BY DEF IndexInv, DiskInv
<1> QED
  BY <1>2, <1>3, <1>4 DEF Intact, readCandidate, lengthsAreSane

(* A run that lost no append reads back exactly what it acknowledged, or is
   refused whole when there is too much of it. *)
THEOREM CleanRunReadsBack ==
  ASSUME Candidates \subseteq WithinCaps
  PROVE  Spec => []CleanRunReadsItsLog
<1>1. IndexInv => CleanRunReadsItsLog
  <2> SUFFICES ASSUME IndexInv, phase = "idle", blobGood, recordsGood
               PROVE  /\ ~tornTail
                      /\ readIndex = IF count > MaxIndexed THEN None
                                     ELSE [i \in 1..count |-> records[i].candidate]
    BY DEF CleanRunReadsItsLog
  <2>1. Len(records) = count /\ header /\ ~tornTail
    BY DEF IndexInv, DiskInv, StreamInv
  <2>2. \A i \in 1..count : readCandidate(records[i], blob) = records[i].candidate
    BY AcknowledgedReads
  <2>3. readAll = [i \in 1..count |-> records[i].candidate]
    BY <2>1, <2>2 DEF readAll
  <2> QED
    BY <2>1, <2>3 DEF readIndex
<1> QED
  BY <1>1, IndexInvariant, PTL

(* While no write was refused, a kill at any point leaves only records that
   read back as themselves. *)
THEOREM CrashLeavesReadable ==
  ASSUME Candidates \subseteq WithinCaps
  PROVE  Spec => []CrashLeavesReadablePrefix
<1>1. IndexInv => CrashLeavesReadablePrefix
  <2> SUFFICES ASSUME IndexInv, blobGood, recordsGood, NEW i \in 1..Len(records)
               PROVE  readCandidate(records[i], blob) = records[i].candidate
    BY DEF CrashLeavesReadablePrefix
  <2>1. i \in 1..count
    BY DEF IndexInv, DiskInv
  <2> QED
    BY <2>1, AcknowledgedReads
<1> QED
  BY <1>1, IndexInvariant, PTL

(***************************************************************************)
(* The index implements the checkpointed log.                              *)
(***************************************************************************)

(* The log the two files stand for, read without the blob. *)
LogNow == [i \in 1..count |-> records[i].candidate]

(* Decoding the acknowledged records gives that log, before and after a step. *)
LEMMA LogIsNow ==
  ASSUME Candidates \subseteq WithinCaps, IndexInv
  PROVE  [i \in 1..count |-> readCandidate(records[i], blob)] = LogNow
BY AcknowledgedReads DEF LogNow

LEMMA LogIsNext ==
  ASSUME Candidates \subseteq WithinCaps, IndexInv'
  PROVE  [i \in 1..count' |-> readCandidate(records'[i], blob')] = LogNow'
<1>1. ASSUME NEW i \in 1..count'
      PROVE  readCandidate(records'[i], blob') = records'[i].candidate
  <2>1. i \in 1..Len(records') /\ records' \in Seq(Records)
    BY DEF IndexInv, TypeOK, DiskInv
  <2>2. records'[i] \in Records
    BY <2>1
  <2>3. records'[i].candidate \in Candidates
    BY <2>2 DEF Records
  <2>4. Intact(records'[i], blob')
    BY DEF IndexInv, DiskInv
  <2> QED
    BY <2>2, <2>3, <2>4 DEF Intact, readCandidate, lengthsAreSane
<1> QED
  BY <1>1 DEF LogNow

(* Every step of the index is a step of the log, or leaves it alone. *)
LEMMA LogStep ==
  ASSUME Candidates \subseteq WithinCaps, IndexInv, IndexInv', [Next]_vars
  PROVE  [Log!Next]_(Log!vars)
<1> DEFINE L == [i \in 1..count |-> readCandidate(records[i], blob)]
           M == [i \in 1..count' |-> readCandidate(records'[i], blob')]
<1>a. L = LogNow /\ M = LogNow'
  BY LogIsNow, LogIsNext
<1> HIDE DEF L, M
<1>b. /\ records \in Seq(Records) /\ count \in Nat /\ count <= Len(records)
      /\ records' \in Seq(Records) /\ count' \in Nat /\ count' <= Len(records')
      /\ Len(LogNow) = count
  BY DEF IndexInv, TypeOK, DiskInv, LogNow
<1>c. count' = count /\ (\A i \in 1..count : records'[i] = records[i]) => M = L
  BY <1>a DEF LogNow
<1>1. CASE clearCheckpoint
  <2>1. M = L
    BY <1>1, <1>c DEF clearCheckpoint, streams
  <2>2. Log!Forget
    BY <1>1, <2>1 DEF clearCheckpoint, Log!Forget, L, M
  <2> QED
    BY <2>2 DEF Log!Next
<1>2. CASE create \/ createCut
  <2>1. M = <<>> /\ phase = "closed" /\ checkpoint = None /\ checkpoint' = None
    BY <1>2, <1>a DEF create, createCut, LogNow
  <2>2. Log!Start
    BY <2>1 DEF Log!Start, M
  <2> QED
    BY <2>2 DEF Log!Next
<1>3. CASE reopen \/ reopenCut
  <2>1. /\ phase = "closed" /\ checkpoint # None /\ checkpoint' = checkpoint
        /\ count' = checkpoint /\ records' = SubSeq(records, 1, checkpoint)
    BY <1>3 DEF reopen, reopenCut, HoldsCheckpoint, resize_file
  <2>2. checkpoint \in Nat /\ checkpoint <= count
    BY <2>1 DEF IndexInv, TypeOK, DiskInv
  <2>3. LogNow' = SubSeq(LogNow, 1, checkpoint)
    BY <2>1, <2>2, <1>b DEF LogNow
  <2>4. Log!Restart
    BY <2>1, <2>3, <1>a DEF Log!Restart, L, M
  <2> QED
    BY <2>4 DEF Log!Next
<1>4. CASE writeRecord
  <2>1. CASE count' = count
    <3>1. M = L
      BY <1>4, <2>1, <1>b, <1>c DEF writeRecord
    <3>2. phase = "record" /\ phase' = "idle" /\ checkpoint' = checkpoint
      BY <1>4 DEF writeRecord
    <3> QED
      BY <3>1, <3>2 DEF Log!vars, L, M
  <2>2. CASE count' # count
    <3>1. /\ blobGood /\ recordsGood /\ count' = count + 1
          /\ records' = Append(records, recordFor(pending, blobBytes))
          /\ phase = "record" /\ phase' = "idle" /\ checkpoint' = checkpoint
      BY <1>4, <2>2 DEF writeRecord
    <3>2. Len(records) = count /\ pending \in Candidates
      BY <3>1 DEF IndexInv, TypeOK, DiskInv
    <3>3. LogNow' = Append(LogNow, pending)
      BY <3>1, <3>2, <1>b DEF LogNow, recordFor
    <3>4. Log!Acknowledge
      BY <3>1, <3>2, <3>3, <1>a DEF Log!Acknowledge, L, M
    <3> QED
      BY <3>4 DEF Log!Next
  <2> QED
    BY <2>1, <2>2
<1>5. CASE writeCheckpoint
  <2>1. M = L
    BY <1>5, <1>c DEF writeCheckpoint, streams
  <2>2. Log!Save
    BY <1>5, <2>1, <1>a, <1>b DEF writeCheckpoint, Log!Save, L, M
  <2> QED
    BY <2>2 DEF Log!Next
<1>6. CASE close \/ killedInBlob \/ killedInRecord
  <2>1. M = L
    BY <1>6, <1>c DEF close, killedInBlob, killedInRecord, disk, streams
  <2>2. Log!Stop
    BY <1>6, <2>1 DEF close, killedInBlob, killedInRecord, disk, Log!Stop, L, M
  <2> QED
    BY <2>2 DEF Log!Next
<1>7. ASSUME NEW c \in Candidates, writeBlob(c)
      PROVE  UNCHANGED Log!vars
  <2>1. M = L
    BY <1>7, <1>c DEF writeBlob
  <2> QED
    BY <1>7, <2>1 DEF writeBlob, Log!vars, L, M
<1>8. CASE UNCHANGED vars
  <2>1. M = L
    BY <1>8, <1>c DEF vars, disk, streams
  <2> QED
    BY <1>8, <2>1 DEF vars, disk, Log!vars, L, M
<1> QED
  BY <1>1, <1>2, <1>3, <1>4, <1>5, <1>6, <1>7, <1>8 DEF Next

(* The two files, through torn writes, failed streams, kills and resumes,
   implement the log a session promises, when every candidate's lengths pass
   the caps of the reader. *)
THEOREM IndexImplementsLog ==
  ASSUME Candidates \subseteq WithinCaps
  PROVE  Spec => ImplementsLog
<1>1. Init => Log!Init
  BY DEF Init, Log!Init
<1>2. IndexInv /\ IndexInv' /\ [Next]_vars => [Log!Next]_(Log!vars)
  BY LogStep
<1> QED
  BY <1>1, <1>2, IndexInvariant, PTL DEF Spec, ImplementsLog, Log!Spec

=============================================================================
