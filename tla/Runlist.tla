------------------------------- MODULE Runlist --------------------------------
(***************************************************************************)
(* NTFS run lists: how a non-resident attribute says where its bytes are   *)
(* (fs/ntfs/Runlist.cpp, RunlistRun.cpp, RunlistExtents.cpp).              *)
(*                                                                         *)
(* A run on disk is a record: the two widths of its header byte and the    *)
(* two fields they announce, the length and the offset as unsigned digits. *)
(* A list is a sequence of runs and says whether its end marker is there.  *)
(* The offset is a two's complement difference to the previous run.        *)
(***************************************************************************)
EXTENDS ExtentSpan

CONSTANTS
  Digit,           \* the values of one byte of a field (256)
  VolumeClusters,  \* NtfsGeometry::totalClusters
  ClusterBytes,    \* NtfsGeometry::bytesPerCluster
  kMaxDataRuns

ASSUME RunlistAssumption ==
  /\ Digit \in Nat /\ Digit > 1 /\ Digit % 2 = 0
  /\ VolumeClusters \in Nat \ {0}
  /\ ClusterBytes \in Nat \ {0}
  /\ kMaxDataRuns \in Nat \ {0}

kMaxFieldWidth == 8
MaxLcn == (Digit^kMaxFieldWidth) \div 2 - 1   \* the largest 64-bit signed number

(* A field has two equal halves, and a volume's clusters have 64-bit numbers. *)
ASSUME WidthAssumption ==
  /\ \A w \in 1..kMaxFieldWidth : Digit^w \in Nat \ {0} /\ (Digit^w) % 2 = 0
  /\ VolumeClusters <= MaxLcn

Refusal == [ok |-> FALSE, runs |-> <<>>]

(* A raw run that readRawRun accepts. *)
readRunHeader(raw) == raw.lengthWidth \in 1..kMaxFieldWidth /\ raw.offsetWidth \in 0..kMaxFieldWidth
makeRawRun(raw) == raw.length # 0
readRawRun(raw) == readRunHeader(raw) /\ makeRawRun(raw)

(* Mutant of signedDelta: the offset is taken as it is written. *)
signedDelta_unsigned(raw) == raw.offset

signedDelta(raw) ==
  LET span == Digit^raw.offsetWidth
  IN IF raw.offset >= span \div 2 THEN raw.offset - span ELSE raw.offset

(* The cluster a run starts at, or -1 for one before the volume or past 64 bits. *)
nextLcn(previousLcn, raw) ==
  LET next == previousLcn + signedDelta(raw)
  IN IF next \in 0..MaxLcn THEN next ELSE -1

placeRun(raw, previousLcn) ==
  IF raw.offsetWidth = 0
  THEN [start |-> 0, len |-> raw.length, sparse |-> TRUE]
  ELSE [start |-> nextLcn(previousLcn, raw), len |-> raw.length, sparse |-> FALSE]

lcnAfter(run, previousLcn) == IF run.sparse THEN previousLcn ELSE run.start

storeRun(state, run) ==
  IF Len(state.runs) + 1 > kMaxDataRuns THEN [state EXCEPT !.ok = FALSE]
  ELSE [ok |-> TRUE, lcn |-> lcnAfter(run, state.lcn), runs |-> Append(state.runs, run)]

appendRun(state, raw) ==
  LET run == placeRun(raw, state.lcn)
  IN IF run.start = -1 THEN [state EXCEPT !.ok = FALSE] ELSE storeRun(state, run)

stepOneRun(state, raw) ==
  IF state.ok /\ readRawRun(raw) THEN appendRun(state, raw) ELSE [state EXCEPT !.ok = FALSE]

(* Running out of bytes before the end marker refuses the list. *)
decodeRunlist(list) ==
  LET after[n \in 0..Len(list.runs)] ==
        IF n = 0 THEN [ok |-> TRUE, lcn |-> 0, runs |-> <<>>]
        ELSE LET earlier == after[n - 1] IN stepOneRun(earlier, list.runs[n])
      decoded == after[Len(list.runs)]
  IN IF list.ended /\ decoded.ok THEN [ok |-> TRUE, runs |-> decoded.runs] ELSE Refusal

runFitsVolume(run) == run.start <= VolumeClusters /\ run.len <= VolumeClusters - run.start

allRunsMappable(runs) ==
  \A i \in DOMAIN runs : ~runs[i].sparse /\ runFitsVolume(runs[i])

runExtent(run) == [at |-> run.start * ClusterBytes, len |-> run.len * ClusterBytes]

mapRuns(runs) == [i \in DOMAIN runs |-> runExtent(runs[i])]

(* Located: the list decodes, maps and reaches the declared size. *)
runlistExtents(list, size) ==
  LET decoded == decodeRunlist(list)
      extents == mapRuns(decoded.runs)
  IN IF decoded.ok /\ allRunsMappable(decoded.runs) /\ extentBytes(extents) >= size
     THEN [located |-> TRUE, extents |-> trimToSize(extents, size)]
     ELSE [located |-> FALSE, extents |-> <<>>]

(***************************************************************************)
(* The host's side: clusters in file order as a run list, with the fewest  *)
(* digits each field needs.                                                *)
(***************************************************************************)

Hole == -1   \* a cluster the file does not keep on disk

SignedWidth(value) ==
  CHOOSE w \in 1..kMaxFieldWidth :
    /\ value < (Digit^w) \div 2 /\ value >= -((Digit^w) \div 2)
    /\ \A v \in 1..(w - 1) : value >= (Digit^v) \div 2 \/ value < -((Digit^v) \div 2)

(* Clusters that follow each other are one run. *)
AllocatedRuns(clusters) ==
  LET joins(runs, c) ==
        runs # <<>> /\ IF c = Hole THEN Last(runs).start = Hole
                       ELSE Last(runs).start # Hole /\ c = Last(runs).start + Last(runs).len
      upTo[n \in 0..Len(clusters)] ==
        IF n = 0 THEN <<>>
        ELSE LET runs == upTo[n - 1] IN
             IF joins(runs, clusters[n]) THEN [runs EXCEPT ![Len(runs)].len = @ + 1]
             ELSE Append(runs, [start |-> clusters[n], len |-> 1])
  IN upTo[Len(clusters)]

encodeRunlist(clusters) ==
  LET runs == AllocatedRuns(clusters)
      previous(i) ==
        LET earlier == {j \in 1..(i - 1) : runs[j].start # Hole}
        IN IF earlier = {} THEN 0 ELSE runs[Max(earlier)].start
      raw(i) ==
        LET delta == runs[i].start - previous(i)
            w == IF runs[i].start = Hole THEN 0 ELSE SignedWidth(delta)
        IN [lengthWidth |-> SignedWidth(runs[i].len), length |-> runs[i].len, offsetWidth |-> w,
            offset |-> IF w = 0 THEN 0 ELSE delta % (Digit^w)]
  IN [runs |-> [i \in DOMAIN runs |-> raw(i)], ended |-> TRUE]
===============================================================================
