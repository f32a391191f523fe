---------------------------- MODULE CarveWalkProofs ----------------------------
(***************************************************************************)
(* The carvers' walks over any device, whatever its cells say: no verdict  *)
(* reaches past the window the carver was given, so none past the device.  *)
(***************************************************************************)
EXTENDS CarveWalk, NatFacts

(***************************************************************************)
(* The inductive invariant.                                                *)
(***************************************************************************)

Windows == Seq(Nat)
Entries == [tag : Nat, type : Nat, count : Nat, valueOffset : Nat]
Verdicts == [length : Nat, confidence : {"valid", "uncertain", "rejected"},
             extension : UNION {kNames[f] : f \in DOMAIN kNames}]
WithinWindow(v, w) == v \in Verdicts /\ v.length <= Len(w)

JpegWalks == [pos : Nat, sawSos : BOOLEAN, step : {"continue", "broken", "eoi"}]
PngWalks == [pos : Nat, end : Nat, sawIhdr : BOOLEAN, step : {"continue", "stop", "notPng", "iend"}]
Mp4Walks == [pos : Nat, end : Nat, sawFtyp : BOOLEAN, sawMoov : BOOLEAN, sawMdat : BOOLEAN,
             step : {"continue", "stop", "notMp4"}]
RawWalks == [next : Nat \cup {-1}, seen : Nat, end : Nat, sawIfd : BOOLEAN, sawImageData : BOOLEAN,
             make : Entries]

(* What a walk has passed lies in the window, once it has passed anything a verdict
   could be made of; a walk over tables only notes where they point. *)
JpegOk(v, w) == v \in JpegWalks /\ (v.sawSos => v.pos <= Len(w))
PngOk(v, w) == v \in PngWalks /\ (v.sawIhdr => v.end <= Len(w))
Mp4Ok(v, w) == v \in Mp4Walks /\ (v.sawFtyp => v.end <= Len(w))
RawOk(v) == v \in RawWalks
WalkOk(f, v, w) ==
  /\ f = "jpeg" => JpegOk(v, w)
  /\ f = "png" => PngOk(v, w)
  /\ f = "mp4" => Mp4Ok(v, w)
  /\ f = "raw" => RawOk(v)

DeviceOk == device \in Windows /\ resume \in Nat /\ at \in Nat
MatchOk == phase = "walk" => /\ at < Len(device) /\ format \in DOMAIN kNames
                             /\ WalkOk(format, walk, readWindow(at))
CandidateSet == [offset : Nat, format : DOMAIN kNames, result : Verdicts]
StaysInside(c) ==
  Trusted(c) => /\ c.offset + c.result.length <= Len(device)
                /\ c.result.length <= MaxCarve
                /\ c.result.length >= plausibleMinimumBytes(c.result.extension)
ReportedOk == /\ reported \in Seq(CandidateSet)
              /\ \A i \in 1..Len(reported) : StaysInside(reported[i])
CarveInv == DeviceOk /\ MatchOk /\ ReportedOk

(***************************************************************************)
(* Windows and verdicts.                                                   *)
(***************************************************************************)

LEMMA FormatConstants ==
  /\ Base \in Nat \ {0} /\ kMaxIfds \in Nat \ {0} /\ kMaxStrips \in Nat \ {0}
  /\ kTrailerLookback \in Nat \ {0} /\ kNameSample \in Nat \ {0}
BY FormatAssumption

(* Every cell a carver may read is a number. *)
LEMMA CellIs ==
  ASSUME NEW w \in Windows, NEW pos \in Int, Has(w, pos, 1)
  PROVE  At(w, pos) \in Nat /\ pos \in Nat /\ pos + 1 <= Len(w)
<1>1. pos >= 0 /\ pos + 1 <= Len(w)
  BY DEF Has
<1>2. pos + 1 \in 1..Len(w)
  BY <1>1 DEF Windows
<1> QED
  BY <1>1, <1>2 DEF At, Windows

LEMMA Names ==
  /\ DOMAIN kNames = {"jpeg", "png", "mp4", "raw", "zip", "pdf"}
  /\ {"jpg", "png", "mp4", "mov", "cr2", "nef", "arw", "tif", "zip", "docx", "xlsx", "pptx", "pdf"}
       \subseteq UNION {kNames[f] : f \in DOMAIN kNames}
<1>1. DOMAIN kNames = {"jpeg", "png", "mp4", "raw", "zip", "pdf"}
  BY DEF kNames
<1>2. /\ kNames["jpeg"] = {"jpg"} /\ kNames["png"] = {"png"} /\ kNames["mp4"] = {"mp4", "mov"}
      /\ kNames["raw"] = {"cr2", "nef", "arw", "tif"}
      /\ kNames["zip"] = {"zip", "docx", "xlsx", "pptx"} /\ kNames["pdf"] = {"pdf"}
  BY DEF kNames
<1>3. \A f \in DOMAIN kNames : kNames[f] \subseteq UNION {kNames[g] : g \in DOMAIN kNames}
  OBVIOUS
<1> QED
  BY <1>1, <1>2, <1>3

LEMMA VerdictIs ==
  ASSUME NEW n \in Nat, NEW c \in {"valid", "uncertain", "rejected"},
         NEW e \in UNION {kNames[f] : f \in DOMAIN kNames}
  PROVE  Verdict(n, c, e) \in Verdicts /\ Verdict(n, c, e).length = n
         /\ Verdict(n, c, e).confidence = c /\ Verdict(n, c, e).extension = e
BY DEF Verdict, Verdicts

LEMMA RejectedIs ==
  ASSUME NEW w \in Windows, NEW e \in UNION {kNames[f] : f \in DOMAIN kNames}
  PROVE  WithinWindow(Rejected(e), w)
<1>1. Len(w) \in Nat /\ 0 <= Len(w)
  BY DEF Windows
<1> QED
  BY <1>1, VerdictIs DEF Rejected, WithinWindow

(***************************************************************************)
(* JPEG.                                                                   *)
(***************************************************************************)

LEMMA FillIs ==
  ASSUME NEW w \in Windows, NEW pos \in Nat, pos <= Len(w)
  PROVE  skipFillBytes(w, pos) \in pos..Len(w)
<1> DEFINE Stop(p) == ~Has(w, p + 1, 1) \/ At(w, p + 1) # kMarkerPrefix
           S == {p \in pos..Len(w) : Stop(p)}
<1>0. Len(w) \in Nat
  BY DEF Windows
<1>1. Len(w) \in S
  BY <1>0 DEF Has
<1>2. PICK p \in S : \A q \in S : p <= q
  <2>1. S \in SUBSET Nat /\ S # {}
    BY <1>0, <1>1
  <2> HIDE DEF S
  <2> QED
    BY <2>1, LeastMember
<1>3. \A q \in pos..(p - 1) : At(w, q + 1) = kMarkerPrefix
  <2>1. ASSUME NEW q \in pos..(p - 1) PROVE At(w, q + 1) = kMarkerPrefix
    <3>1. q \in pos..Len(w) /\ ~(p <= q)
      BY <1>0, <1>2
    <3> QED
      BY <1>2, <3>1
  <2> QED
    BY <2>1
<1>4. \E x \in pos..Len(w) : /\ \A q \in pos..(x - 1) : At(w, q + 1) = kMarkerPrefix
                             /\ ~Has(w, x + 1, 1) \/ At(w, x + 1) # kMarkerPrefix
  BY <1>2, <1>3
<1> QED
  BY <1>4 DEF skipFillBytes

LEMMA MarkerCodeIs ==
  ASSUME NEW w \in Windows, NEW pos \in Nat, readMarkerCode(w, pos) # -1
  PROVE  readMarkerCode(w, pos) \in Nat /\ readMarkerCode(w, pos) + 1 <= Len(w)
<1>0. Len(w) \in Nat
  BY DEF Windows
<1>1. Has(w, pos, 1) /\ Has(w, skipFillBytes(w, pos) + 1, 1)
      /\ readMarkerCode(w, pos) = skipFillBytes(w, pos) + 1
  BY DEF readMarkerCode
<1>2. pos <= Len(w)
  BY <1>0, <1>1 DEF Has
<1>3. skipFillBytes(w, pos) \in Nat
  BY <1>0, <1>2, FillIs
<1> QED
  BY <1>0, <1>1, <1>3 DEF Has

LEMMA SegmentEndIs ==
  ASSUME NEW w \in Windows, NEW pos \in Nat, validatedSegmentEnd(w, pos) # -1
  PROVE  validatedSegmentEnd(w, pos) \in Nat /\ validatedSegmentEnd(w, pos) <= Len(w)
<1>1. Has(w, pos, 1) /\ Has(w, pos, At(w, pos)) /\ validatedSegmentEnd(w, pos) = pos + At(w, pos)
  BY DEF validatedSegmentEnd
<1>2. At(w, pos) \in Nat
  BY <1>1, CellIs
<1> QED
  BY <1>1, <1>2 DEF Has

LEMMA EntropyIs ==
  ASSUME NEW w \in Windows, NEW pos \in Nat
  PROVE  scanEntropyData(w, pos).pos \in Nat /\ scanEntropyData(w, pos).pos <= Len(w)
<1>0. Len(w) \in Nat
  BY DEF Windows
<1> DEFINE ends == {p \in Offsets(w) : p >= pos /\ At(w, p) = kMarkerPrefix
                                  /\ (Has(w, p + 1, 1) => At(w, p + 1) \notin {0, kMarkerRst})}
           first == IF ends = {} THEN Len(w) ELSE Min(ends)
<1>1. scanEntropyData(w, pos).pos = first
  BY DEF scanEntropyData
<1>2. ends \in SUBSET Nat /\ \A p \in ends : p <= Len(w)
  BY <1>0 DEF Offsets
<1>3. ASSUME ends # {} PROVE Min(ends) \in ends
  <2> HIDE DEF ends
  <2> QED
    BY <1>2, <1>3, MinIs
<1>4. first \in Nat /\ first <= Len(w)
  <2> HIDE DEF ends
  <2>1. CASE ends = {}
    BY <1>0, <2>1
  <2>2. CASE ends # {}
    <3>1. Min(ends) \in ends
      BY <1>3, <2>2
    <3>2. Min(ends) \in Nat /\ Min(ends) <= Len(w)
      BY <1>2, <3>1
    <3> QED
      BY <2>2, <3>2
  <2> QED
    BY <2>1, <2>2
<1> QED
  BY <1>1, <1>4

LEMMA JpegSteps ==
  ASSUME NEW w \in Windows, NEW v, JpegOk(v, w)
  PROVE  JpegOk(advanceOneMarker(w, v), w)
<1>0. v \in JpegWalks /\ v.pos \in Nat /\ (v.sawSos => v.pos <= Len(w)) /\ Len(w) \in Nat
  BY DEF JpegOk, JpegWalks, Windows
<1> DEFINE code == readMarkerCode(w, v.pos)
           u == [v EXCEPT !.pos = code + 1]
           key == At(w, code)
<1>1. ASSUME NEW x, JpegOk(x, w) PROVE JpegOk(brokenAt(x), w)
  BY <1>1 DEF JpegOk, JpegWalks, brokenAt
<1>2. CASE code = -1
  <2>1. advanceOneMarker(w, v) = brokenAt(v)
    BY <1>2 DEF advanceOneMarker
  <2> QED
    BY <1>1, <2>1
<1>3. CASE code # -1
  <2>1. code \in Nat /\ code + 1 <= Len(w)
    BY <1>0, <1>3, MarkerCodeIs
  <2>2. advanceOneMarker(w, v) = applyMarker(w, u, key)
    BY <1>3 DEF advanceOneMarker
  <2> HIDE DEF code, key
  <2>3. u \in JpegWalks /\ u.pos = code + 1 /\ u.pos \in Nat
    BY <1>0, <2>1 DEF JpegWalks
  <2>4. JpegOk(u, w)
    BY <2>1, <2>3 DEF JpegOk
  <2> HIDE DEF u
  <2>5. JpegOk([u EXCEPT !.step = "eoi"], w)
    BY <2>4 DEF JpegOk, JpegWalks
  <2>6. JpegOk(applySegmentMarker(w, u, key), w)
    <3> DEFINE after == validatedSegmentEnd(w, u.pos)
               entropy == scanEntropyData(w, after)
               passed == [u EXCEPT !.pos = entropy.pos, !.sawSos = TRUE]
    <3>1. applySegmentMarker(w, u, key) =
            IF after = -1 THEN brokenAt(u)
            ELSE IF key # kMarkerSos THEN [u EXCEPT !.pos = after]
            ELSE IF entropy.foundTerminator THEN passed ELSE brokenAt(passed)
      BY DEF applySegmentMarker
    <3>2. JpegOk(brokenAt(u), w)
      BY <1>1, <2>4
    <3>3. ASSUME after # -1
          PROVE  JpegOk([u EXCEPT !.pos = after], w) /\ JpegOk(passed, w)
      <4>1. after \in Nat /\ after <= Len(w)
        BY <2>3, <3>3, SegmentEndIs
      <4> HIDE DEF after
      <4>2. entropy.pos \in Nat /\ entropy.pos <= Len(w)
        BY <4>1, EntropyIs
      <4> HIDE DEF entropy
      <4> QED
        BY <2>3, <4>1, <4>2 DEF JpegOk, JpegWalks
    <3>4. after # -1 => JpegOk(brokenAt(passed), w)
      <4> HIDE DEF after, passed
      <4> QED
        BY <1>1, <3>3
    <3> HIDE DEF after, entropy, passed
    <3> QED
      BY <3>1, <3>2, <3>3, <3>4
  <2> QED
    BY <2>2, <2>4, <2>5, <2>6 DEF applyMarker
<1> QED
  BY <1>2, <1>3

LEMMA JpegVerdictIs ==
  ASSUME NEW w \in Windows, NEW v, JpegOk(v, w)
  PROVE  WithinWindow(JpegVerdict(v), w)
<1>0. v.pos \in Nat /\ (v.sawSos => v.pos <= Len(w))
  BY DEF JpegOk, JpegWalks
<1>1. "jpg" \in UNION {kNames[f] : f \in DOMAIN kNames}
  BY Names
<1>2. CASE ~v.sawSos
  BY <1>1, <1>2, RejectedIs DEF JpegVerdict
<1>3. CASE v.sawSos
  <2> DEFINE c == IF v.step = "eoi" THEN "valid" ELSE "uncertain"
  <2>1. JpegVerdict(v) = Verdict(v.pos, c, "jpg") /\ c \in {"valid", "uncertain", "rejected"}
    BY <1>3 DEF JpegVerdict
  <2> HIDE DEF c
  <2> QED
    BY <1>0, <1>1, <1>3, <2>1, VerdictIs DEF WithinWindow
<1> QED
  BY <1>2, <1>3

(***************************************************************************)
(* PNG.                                                                    *)
(***************************************************************************)

LEMMA ChunkIs ==
  ASSUME NEW w \in Windows, NEW pos \in Nat, readChunk(w, pos).ok
  PROVE  readChunk(w, pos).next \in Nat /\ readChunk(w, pos).next <= Len(w)
<1> DEFINE length == At(w, pos)
           good == Has(w, pos, 1) /\ length <= kMaxChunkData /\ Has(w, pos, 3 + length)
<1>1. CASE ~good
  <2>1. readChunk(w, pos) = [ok |-> FALSE]
    BY <1>1 DEF readChunk
  <2> QED
    BY <2>1
<1>2. CASE good
  <2>1. readChunk(w, pos).next = pos + 3 + length
    BY <1>2 DEF readChunk
  <2>2. length \in Nat
    BY <1>2, CellIs
  <2>3. pos + (3 + length) <= Len(w) /\ Len(w) \in Nat
    BY <1>2 DEF Has, Windows
  <2> HIDE DEF length
  <2> QED
    BY <2>1, <2>2, <2>3
<1> QED
  BY <1>1, <1>2

LEMMA PngSteps ==
  ASSUME NEW w \in Windows, NEW v, PngOk(v, w)
  PROVE  PngOk(stepChunk(w, v), w)
<1>0. v \in PngWalks /\ v.pos \in Nat
  BY DEF PngOk, PngWalks
<1> DEFINE chunk == readChunk(w, v.pos)
           s == IF chunk.type = kIend THEN "iend" ELSE "continue"
           on == [pos |-> chunk.next, end |-> chunk.next, sawIhdr |-> TRUE, step |-> s]
<1>1. stepChunk(w, v) = IF ~chunk.ok THEN [v EXCEPT !.step = "stop"]
                        ELSE IF ~v.sawIhdr /\ chunk.type # kIhdr THEN [v EXCEPT !.step = "notPng"]
                        ELSE on
  BY DEF stepChunk
<1>2. PngOk([v EXCEPT !.step = "stop"], w) /\ PngOk([v EXCEPT !.step = "notPng"], w)
  BY DEF PngOk, PngWalks
<1>3. ASSUME chunk.ok PROVE PngOk(on, w)
  <2>1. chunk.next \in Nat /\ chunk.next <= Len(w)
    BY <1>0, <1>3, ChunkIs
  <2>2. s \in {"iend", "continue"}
    OBVIOUS
  <2> HIDE DEF chunk, s
  <2> QED
    BY <2>1, <2>2 DEF PngOk, PngWalks
<1> HIDE DEF chunk, on
<1> QED
  BY <1>1, <1>2, <1>3

LEMMA PngVerdictIs ==
  ASSUME NEW w \in Windows, NEW v, PngOk(v, w)
  PROVE  WithinWindow(PngVerdict(v), w)
<1>0. v.end \in Nat /\ (v.sawIhdr => v.end <= Len(w))
  BY DEF PngOk, PngWalks
<1>1. "png" \in UNION {kNames[f] : f \in DOMAIN kNames}
  BY Names
<1>2. CASE ~v.sawIhdr
  BY <1>1, <1>2, RejectedIs DEF PngVerdict
<1>3. CASE v.sawIhdr
  <2> DEFINE c == IF v.step = "iend" THEN "valid" ELSE "uncertain"
  <2>1. PngVerdict(v) = Verdict(v.end, c, "png") /\ c \in {"valid", "uncertain", "rejected"}
    BY <1>3 DEF PngVerdict
  <2> HIDE DEF c
  <2> QED
    BY <1>0, <1>1, <1>3, <2>1, VerdictIs DEF WithinWindow
<1> QED
  BY <1>2, <1>3

(***************************************************************************)
(* MP4 and MOV.                                                            *)
(***************************************************************************)

LEMMA BoxIs ==
  ASSUME NEW w \in Windows, NEW pos \in Nat, readBox(w, pos).ok
  PROVE  readBox(w, pos).next \in Nat /\ readBox(w, pos).next <= Len(w)
<1> DEFINE size == readBoxSize(w, pos)
<1>1. CASE size = -1 \/ ~Has(w, pos, size)
  <2>1. readBox(w, pos) = [ok |-> FALSE]
    BY <1>1 DEF readBox
  <2> QED
    BY <2>1
<1>2. CASE ~(size = -1 \/ ~Has(w, pos, size))
  <2>1. readBox(w, pos).next = pos + size
    BY <1>2 DEF readBox
  <2>2. size \in Nat
    <3>1. Has(w, pos, 1) /\ (size = At(w, pos) \/ (size = At(w, pos + 2) /\ Has(w, pos + 2, 1)))
      BY <1>2 DEF readBoxSize
    <3>2. At(w, pos) \in Nat
      BY <3>1, CellIs
    <3>3. Has(w, pos + 2, 1) => At(w, pos + 2) \in Nat
      <4>1. pos + 2 \in Int
        OBVIOUS
      <4> QED
        BY <4>1, CellIs
    <3> HIDE DEF size
    <3> QED
      BY <3>1, <3>2, <3>3
  <2> HIDE DEF size
  <2> QED
    BY <1>2, <2>1, <2>2 DEF Has
<1> QED
  BY <1>1, <1>2

LEMMA Mp4Steps ==
  ASSUME NEW w \in Windows, NEW v, Mp4Ok(v, w)
  PROVE  Mp4Ok(stepBox(w, v), w)
<1>0. v \in Mp4Walks /\ v.pos \in Nat
  BY DEF Mp4Ok, Mp4Walks
<1> DEFINE box == readBox(w, v.pos)
           on == [v EXCEPT !.pos = box.next, !.end = box.next, !.sawFtyp = TRUE,
                           !.sawMoov = @ \/ box.type = kMoov, !.sawMdat = @ \/ box.type = kMdat]
<1>1. stepBox(w, v) = IF ~box.ok THEN [v EXCEPT !.step = "stop"]
                      ELSE IF ~v.sawFtyp /\ box.type # kFtyp THEN [v EXCEPT !.step = "notMp4"]
                      ELSE on
  BY DEF stepBox
<1>2. Mp4Ok([v EXCEPT !.step = "stop"], w) /\ Mp4Ok([v EXCEPT !.step = "notMp4"], w)
  BY DEF Mp4Ok, Mp4Walks
<1>3. ASSUME box.ok PROVE Mp4Ok(on, w)
  <2>1. box.next \in Nat /\ box.next <= Len(w)
    BY <1>0, <1>3, BoxIs
  <2> HIDE DEF box
  <2>2. on.end = box.next
    BY <1>0 DEF Mp4Walks
  <2>3. (v.sawMoov \/ box.type = kMoov) \in BOOLEAN /\ (v.sawMdat \/ box.type = kMdat) \in BOOLEAN
    OBVIOUS
  <2>4. on \in Mp4Walks
    BY <1>0, <2>1, <2>3 DEF Mp4Walks
  <2> HIDE DEF on
  <2> QED
    BY <2>1, <2>2, <2>4 DEF Mp4Ok
<1> HIDE DEF box, on
<1> QED
  BY <1>1, <1>2, <1>3

LEMMA Mp4VerdictIs ==
  ASSUME NEW w \in Windows, NEW v, Mp4Ok(v, w)
  PROVE  WithinWindow(Mp4Verdict(w, v), w)
<1>0. v.end \in Nat /\ (v.sawFtyp => v.end <= Len(w))
  BY DEF Mp4Ok, Mp4Walks
<1> DEFINE e == Mp4Extension(w)
<1>1. e \in UNION {kNames[f] : f \in DOMAIN kNames}
  BY Names DEF Mp4Extension
<1>2. CASE ~v.sawFtyp
  BY <1>1, <1>2, RejectedIs DEF Mp4Verdict
<1>3. CASE v.sawFtyp
  <2> DEFINE c == IF v.sawMoov /\ v.sawMdat THEN "valid" ELSE "uncertain"
  <2>1. Mp4Verdict(w, v) = Verdict(v.end, c, e) /\ c \in {"valid", "uncertain", "rejected"}
    BY <1>3 DEF Mp4Verdict
  <2> HIDE DEF c, e
  <2> QED
    BY <1>0, <1>1, <1>3, <2>1, VerdictIs DEF WithinWindow
<1> QED
  BY <1>2, <1>3

(***************************************************************************)
(* ZIP and PDF.  What is found in a window is clipped to it.               *)
(***************************************************************************)

LEMMA ClippedIs ==
  ASSUME NEW w \in Windows, NEW n \in Nat, NEW c \in {"valid", "uncertain", "rejected"},
         NEW e \in UNION {kNames[f] : f \in DOMAIN kNames}
  PROVE  WithinWindow(Verdict(Min({n, Len(w)}), c, e), w)
<1>0. Len(w) \in Nat
  BY DEF Windows
<1> DEFINE m == Min({n, Len(w)})
<1>1. m = IF n <= Len(w) THEN n ELSE Len(w)
  BY <1>0, MinMaxOfTwo
<1>2. m \in Nat /\ m <= Len(w)
  BY <1>0, <1>1
<1> HIDE DEF m
<1> QED
  BY <1>2, VerdictIs DEF WithinWindow, m

LEMMA LastIs ==
  ASSUME NEW w \in Windows, NEW mark
  PROVE  lastOf(w, mark) = -1 \/ (lastOf(w, mark) \in Nat /\ lastOf(w, mark) < Len(w))
<1> DEFINE S == {p \in Offsets(w) : At(w, p) = mark}
<1>0. Len(w) \in Nat
  BY DEF Windows
<1>1. lastOf(w, mark) = Max(S \cup {-1})
  BY DEF lastOf
<1>2. S \in SUBSET (0..Len(w)) /\ \A p \in S : p < Len(w)
  BY <1>0 DEF Offsets
<1> HIDE DEF S
<1>3. CASE S = {}
  <2>1. S \cup {-1} = {-1}
    BY <1>3
  <2>2. Max({-1}) = -1
    BY DEF Max
  <2> QED
    BY <1>1, <2>1, <2>2
<1>4. CASE S # {}
  <2>1. PICK x \in S : \A y \in S : y <= x
    BY <1>0, <1>2, <1>4, MaxIs
  <2>2. x \in S \cup {-1} /\ \A y \in S \cup {-1} : x >= y
    BY <1>2, <2>1
  <2>3. Max(S \cup {-1}) \in S \cup {-1}
    BY <2>2 DEF Max
  <2>4. \A p \in S : p \in Nat /\ p < Len(w)
    BY <1>0, <1>2
  <2>5. lastOf(w, mark) \in S \/ lastOf(w, mark) = -1
    BY <1>1, <2>3
  <2> QED
    BY <2>4, <2>5
<1> QED
  BY <1>3, <1>4

LEMMA ZipVerdictIs ==
  ASSUME NEW w \in Windows
  PROVE  WithinWindow(ZipVerdict(w), w)
<1> DEFINE eocd == lastOf(w, kEndSignature)
           directory == At(w, eocd + 2)
           end == eocd + kEndRecord + At(w, eocd + 3)
           e == ZipExtension(w, directory)
           c == IF directoryChecksOut(w, eocd, directory) /\ end <= Len(w) THEN "valid" ELSE "uncertain"
<1>1. ZipVerdict(w) = IF eocd = -1 \/ ~Has(w, eocd, kEndRecord) THEN Rejected("zip")
                      ELSE Verdict(Min({end, Len(w)}), c, e)
  BY DEF ZipVerdict
<1>2. "zip" \in UNION {kNames[f] : f \in DOMAIN kNames} /\ e \in UNION {kNames[f] : f \in DOMAIN kNames}
  BY Names DEF ZipExtension
<1>3. c \in {"valid", "uncertain", "rejected"}
  OBVIOUS
<1>4. WithinWindow(Rejected("zip"), w)
  BY <1>2, RejectedIs
<1>5. eocd = -1 \/ eocd \in Nat
  BY LastIs
<1> HIDE DEF eocd
<1>6. ASSUME eocd # -1, Has(w, eocd, kEndRecord) PROVE end \in Nat
  <2>1. eocd \in Nat /\ Has(w, eocd + 3, 1) /\ eocd + 3 \in Int
    BY <1>5, <1>6 DEF Has, kEndRecord
  <2>2. At(w, eocd + 3) \in Nat
    BY <2>1, CellIs
  <2> QED
    BY <2>1, <2>2 DEF kEndRecord
<1> HIDE DEF end, e, c
<1>7. ASSUME eocd # -1, Has(w, eocd, kEndRecord)
      PROVE  WithinWindow(Verdict(Min({end, Len(w)}), c, e), w)
  BY <1>2, <1>3, <1>6, <1>7, ClippedIs
<1> QED
  BY <1>1, <1>4, <1>7

LEMMA PdfVerdictIs ==
  ASSUME NEW w \in Windows
  PROVE  WithinWindow(PdfVerdict(w), w)
<1> DEFINE marker == lastOf(w, kEofMarker)
           l == lineEndCells(w, marker + 1)
           end == marker + 1 + l
           c == IF resolvesAt(w, startxrefOffset(w, marker)) THEN "valid" ELSE "uncertain"
<1>1. PdfVerdict(w) = IF marker = -1 THEN Rejected("pdf") ELSE Verdict(Min({end, Len(w)}), c, "pdf")
  BY DEF PdfVerdict
<1>2. "pdf" \in UNION {kNames[f] : f \in DOMAIN kNames}
  BY Names
<1>3. c \in {"valid", "uncertain", "rejected"}
  OBVIOUS
<1>4. WithinWindow(Rejected("pdf"), w)
  BY <1>2, RejectedIs
<1>5. marker = -1 \/ marker \in Nat
  BY LastIs
<1>6. l \in {0, 1, 2}
  BY DEF lineEndCells
<1> HIDE DEF marker, l
<1>7. end \in Nat
  BY <1>5, <1>6
<1> HIDE DEF end, c
<1>8. WithinWindow(Verdict(Min({end, Len(w)}), c, "pdf"), w)
  BY <1>2, <1>3, <1>7, ClippedIs
<1> QED
  BY <1>1, <1>4, <1>8

(***************************************************************************)
(* TIFF and the RAW formats.  Tables may point anywhere: what they note is *)
(* a number, which the verdict clips.                                      *)
(***************************************************************************)

(* The values of a function on an initial segment have a bound. *)
LEMMA ImageIsBounded ==
  ASSUME NEW n \in Nat, NEW f \in [0..n -> Nat]
  PROVE  \E b \in Nat : \A i \in 0..n : f[i] <= b
<1> DEFINE S == {m \in Nat : m <= n => \E b \in Nat : \A i \in 0..m : f[i] <= b}
<1>1. 0 \in S
  <2>1. f[0] \in Nat /\ \A i \in 0..0 : f[i] <= f[0]
    OBVIOUS
  <2> QED
    BY <2>1
<1>2. ASSUME NEW m \in S PROVE m + 1 \in S
  <2>1. CASE m + 1 <= n
    <3>1. PICK b \in Nat : \A i \in 0..m : f[i] <= b
      BY <2>1
    <3>2. f[m + 1] \in Nat /\ b + f[m + 1] \in Nat
      BY <2>1
    <3>3. ASSUME NEW i \in 0..(m + 1) PROVE f[i] <= b + f[m + 1]
      <4>1. f[i] \in Nat
        BY <2>1
      <4>2. CASE i = m + 1
        BY <3>2, <4>1, <4>2
      <4>3. CASE i \in 0..m
        BY <3>1, <3>2, <4>1, <4>3
      <4> QED
        BY <4>2, <4>3
    <3> QED
      BY <3>2, <3>3
  <2> QED
    BY <2>1
<1>3. S = Nat
  <2> HIDE DEF S
  <2>1. S \in SUBSET Nat
    BY DEF S
  <2> QED
    BY <1>1, <1>2, <2>1, SetInduction
<1>4. n \in S
  BY <1>3
<1> QED
  BY <1>4

(* So a number and the values have a greatest among them. *)
LEMMA GreatestIs ==
  ASSUME NEW n \in Nat, NEW f \in [0..n -> Nat], NEW S, S # {},
         \A x \in S : \E i \in 0..n : x = f[i]
  PROVE  Max(S) \in Nat
<1>1. PICK b \in Nat : \A i \in 0..n : f[i] <= b
  BY ImageIsBounded
<1>2. S \in SUBSET (0..b) /\ S # {}
  BY <1>1
<1>3. Max(S) \in S
  BY <1>2, MaxIs
<1> QED
  BY <1>2, <1>3

LEMMA LongIs ==
  ASSUME NEW w \in Windows, NEW pos \in Int, Has(w, pos, 2)
  PROVE  readU32(w, pos) \in Nat
<1>1. Has(w, pos, 1) /\ Has(w, pos + 1, 1) /\ pos + 1 \in Int
  BY DEF Has, Windows
<1> DEFINE a == At(w, pos)
           b == At(w, pos + 1)
<1>2. a \in Nat /\ b \in Nat
  BY <1>1, CellIs
<1>3. Base \in Nat
  BY FormatConstants
<1>4. readU32(w, pos) \in {a * Base + b, b * Base + a}
  BY DEF readU32
<1> HIDE DEF a, b
<1>5. a * Base \in Nat /\ b * Base \in Nat
  BY <1>2, <1>3
<1> QED
  BY <1>2, <1>4, <1>5

LEMMA EntryIs ==
  ASSUME NEW w \in Windows, NEW pos \in Nat, pos + kEntryCells <= Len(w)
  PROVE  readEntry(w, pos) \in Entries
<1>1. /\ Has(w, pos, 1) /\ Has(w, pos + 1, 1) /\ Has(w, pos + 2, 1) /\ Has(w, pos + 3, 2)
      /\ pos + 1 \in Int /\ pos + 2 \in Int /\ pos + 3 \in Int
  BY DEF Has, Windows, kEntryCells
<1>2. At(w, pos) \in Nat /\ At(w, pos + 1) \in Nat /\ At(w, pos + 2) \in Nat
  BY <1>1, CellIs
<1>3. readU32(w, pos + 3) \in Nat
  BY <1>1, LongIs
<1> QED
  BY <1>2, <1>3 DEF readEntry, Entries

LEMMA ValuesAre ==
  ASSUME NEW entry \in Entries
  PROVE  valueCells(entry) \in Nat /\ valueEnd(entry) \in Nat
<1>0. entry.count \in Nat /\ entry.valueOffset \in Nat
  BY DEF Entries
<1>1. valueCells(entry) \in Nat
  <2>1. \A t \in DOMAIN kTypeCells : kTypeCells[t] = 1 \/ kTypeCells[t] = 2
    BY DEF kTypeCells
  <2>2. valueCells(entry) = 0 \/ valueCells(entry) = 1 * entry.count \/ valueCells(entry) = 2 * entry.count
    BY <2>1 DEF valueCells
  <2> QED
    BY <1>0, <2>2
<1> QED
  BY <1>0, <1>1 DEF valueEnd

LEMMA ElementIs ==
  ASSUME NEW w \in Windows, NEW entry \in Entries, NEW index \in Nat
  PROVE  arrayElement(w, entry, index) \in Nat \cup {-1}
<1>0. entry.count \in Nat /\ entry.valueOffset \in Nat
  BY DEF Entries
<1>1. CASE index >= entry.count \/ entry.type \notin {kShortType, kLongType}
  BY <1>1 DEF arrayElement
<1>2. CASE /\ ~(index >= entry.count \/ entry.type \notin {kShortType, kLongType})
           /\ valueCells(entry) <= kInlineCells
  BY <1>0, <1>2 DEF arrayElement
<1>3. CASE /\ ~(index >= entry.count \/ entry.type \notin {kShortType, kLongType})
           /\ ~(valueCells(entry) <= kInlineCells)
  <2> DEFINE p == entry.valueOffset + index * kTypeCells[entry.type]
  <2>1. arrayElement(w, entry, index) = readElementAt(entry.type, w, p)
    BY <1>3 DEF arrayElement
  <2>2. /\ entry.type = kShortType => kTypeCells[entry.type] = 1
        /\ entry.type = kLongType => kTypeCells[entry.type] = 2
    BY DEF kTypeCells, kShortType, kLongType, ASCII
  <2>3. entry.type = kShortType \/ (entry.type = kLongType /\ entry.type # kShortType)
    BY <1>3 DEF kShortType, kLongType
  <2>4. p \in Int
    BY <1>0, <2>2, <2>3
  <2> HIDE DEF p
  <2>5. CASE entry.type = kShortType
    <3>1. readElementAt(entry.type, w, p) = IF ~Has(w, p, 1) THEN -1 ELSE At(w, p)
      BY <2>2, <2>5 DEF readElementAt
    <3>2. Has(w, p, 1) => At(w, p) \in Nat
      BY <2>4, CellIs
    <3> QED
      BY <2>1, <3>1, <3>2
  <2>6. CASE entry.type = kLongType /\ entry.type # kShortType
    <3>1. readElementAt(entry.type, w, p) = IF ~Has(w, p, 2) THEN -1 ELSE readU32(w, p)
      BY <2>2, <2>6 DEF readElementAt
    <3>2. Has(w, p, 2) => readU32(w, p) \in Nat
      BY <2>4, LongIs
    <3> QED
      BY <2>1, <3>1, <3>2
  <2> QED
    BY <2>3, <2>5, <2>6
<1> QED
  BY <1>1, <1>2, <1>3

LEMMA TaggedIs ==
  ASSUME NEW n \in Nat, NEW entries \in [1..n -> Entries], NEW tag
  PROVE  Tagged(entries, tag) \in Entries
<1> DEFINE found == {i \in DOMAIN entries : entries[i].tag = tag}
<1>1. Tagged(entries, tag) = IF found = {} THEN NoEntry ELSE entries[Max(found)]
  BY DEF Tagged
<1>2. NoEntry \in Entries
  BY DEF NoEntry, Entries
<1>3. found \in SUBSET (0..n) /\ \A i \in found : i \in 1..n
  OBVIOUS
<1> HIDE DEF found
<1>4. ASSUME found # {} PROVE entries[Max(found)] \in Entries
  <2>1. Max(found) \in found
    BY <1>3, <1>4, MaxIs
  <2> QED
    BY <1>3, <2>1
<1> QED
  BY <1>1, <1>2, <1>4

LEMMA PieceEndIs ==
  ASSUME NEW w \in Windows, NEW offsets \in Entries, NEW counts \in Entries, NEW index \in Nat
  PROVE  pieceEnd(w, offsets, counts, index) \in Nat
<1> DEFINE start == arrayElement(w, offsets, index)
           length == arrayElement(w, counts, index)
<1>1. start \in Nat \cup {-1} /\ length \in Nat \cup {-1}
  BY ElementIs
<1>2. pieceEnd(w, offsets, counts, index) = IF start = -1 \/ length = -1 THEN 0 ELSE start + length
  BY DEF pieceEnd
<1> HIDE DEF start, length
<1> QED
  BY <1>1, <1>2

LEMMA ImageEndIs ==
  ASSUME NEW w \in Windows, NEW offsets \in Entries, NEW counts \in Entries
  PROVE  imageDataEnd(w, offsets, counts) \in Nat
<1> DEFINE n == offsets.count
           S == {0} \cup {pieceEnd(w, offsets, counts, i) : i \in 0..(n - 1)}
           f == [i \in 0..n |-> IF i = n THEN 0 ELSE pieceEnd(w, offsets, counts, i)]
<1>0. n \in Nat
  BY DEF Entries
<1>1. imageDataEnd(w, offsets, counts) \in {0, Max(S)}
  BY DEF imageDataEnd
<1> HIDE DEF n
<1>2. f \in [0..n -> Nat]
  <2>1. \A i \in 0..n : pieceEnd(w, offsets, counts, i) \in Nat
    BY <1>0, PieceEndIs
  <2> QED
    BY <2>1
<1>3. S # {} /\ \A x \in S : \E i \in 0..n : x = f[i]
  <2>1. f[n] = 0 /\ n \in 0..n
    BY <1>0
  <2>2. \A i \in 0..(n - 1) : f[i] = pieceEnd(w, offsets, counts, i) /\ i \in 0..n
    BY <1>0
  <2> HIDE DEF f
  <2> QED
    BY <2>1, <2>2
<1> HIDE DEF f, S
<1>4. Max(S) \in Nat
  BY <1>0, <1>2, <1>3, GreatestIs
<1> QED
  BY <1>1, <1>4

LEMMA IfdIs ==
  ASSUME NEW w \in Windows, NEW pos \in Int, scanIfd(w, pos).ok
  PROVE  /\ \E n \in Nat : scanIfd(w, pos).entries \in [1..n -> Entries]
         /\ scanIfd(w, pos).tableEnd \in Nat /\ scanIfd(w, pos).end \in Nat
<1> DEFINE count == At(w, pos)
           entries == [i \in 1..count |-> readEntry(w, pos + 1 + (i - 1) * kEntryCells)]
           tableEnd == pos + 1 + count * kEntryCells + 2
           S == {tableEnd} \cup {valueEnd(entries[i]) : i \in 1..count}
           f == [i \in 0..count |-> IF i = 0 THEN tableEnd ELSE valueEnd(entries[i])]
<1>1. Has(w, pos, 1) /\ Has(w, pos + 1, count * kEntryCells)
      /\ scanIfd(w, pos) = [ok |-> TRUE, entries |-> entries, tableEnd |-> tableEnd, end |-> Max(S)]
  <2>1. CASE ~Has(w, pos, 1)
    <3>1. scanIfd(w, pos) = [ok |-> FALSE]
      BY <2>1 DEF scanIfd
    <3> QED
      BY <3>1
  <2>2. CASE Has(w, pos, 1) /\ ~Has(w, pos + 1, count * kEntryCells)
    <3>1. scanIfd(w, pos) = [ok |-> FALSE]
      BY <2>2 DEF scanIfd
    <3> QED
      BY <3>1
  <2>3. CASE Has(w, pos, 1) /\ Has(w, pos + 1, count * kEntryCells)
    BY <2>3 DEF scanIfd
  <2> QED
    BY <2>1, <2>2, <2>3
<1>2. count \in Nat /\ pos \in Nat
  BY <1>1, CellIs
<1> HIDE DEF count
<1>3. pos + 1 + count * 5 <= Len(w) /\ Len(w) \in Nat
  BY <1>1, <1>2 DEF Has, kEntryCells, Windows
<1>4. tableEnd \in Nat
  BY <1>2 DEF kEntryCells
<1>5. ASSUME NEW i \in 1..count PROVE readEntry(w, pos + 1 + (i - 1) * kEntryCells) \in Entries
  <2> DEFINE p == pos + 1 + (i - 1) * kEntryCells
  <2>1. p \in Nat /\ p + kEntryCells <= Len(w)
    BY <1>2, <1>3 DEF kEntryCells
  <2> HIDE DEF p
  <2>2. readEntry(w, p) \in Entries
    BY <2>1, EntryIs
  <2> QED
    BY <2>2 DEF p
<1>6. entries \in [1..count -> Entries]
  BY <1>5
<1> HIDE DEF entries, tableEnd
<1>7. f \in [0..count -> Nat]
  <2>1. \A i \in 1..count : valueEnd(entries[i]) \in Nat
    BY <1>6, ValuesAre
  <2> QED
    BY <1>2, <1>4, <2>1
<1>8. S # {} /\ \A x \in S : \E i \in 0..count : x = f[i]
  <2>1. f[0] = tableEnd /\ 0 \in 0..count
    BY <1>2
  <2>2. \A i \in 1..count : f[i] = valueEnd(entries[i]) /\ i \in 0..count
    BY <1>2
  <2> HIDE DEF f
  <2> QED
    BY <2>1, <2>2
<1> HIDE DEF f, S
<1>9. Max(S) \in Nat
  BY <1>2, <1>7, <1>8, GreatestIs
<1> QED
  BY <1>1, <1>2, <1>4, <1>6, <1>9

LEMMA RawSteps ==
  ASSUME NEW w \in Windows, NEW v, RawOk(v)
  PROVE  RawOk(stepIfd(w, v))
<1>0. v \in RawWalks /\ v.next \in Int
  BY DEF RawOk, RawWalks
<1> DEFINE scan == scanIfd(w, v.next)
           counted == [v EXCEPT !.seen = @ + 1]
<1>1. stepIfd(w, v) = IF ~scan.ok THEN [counted EXCEPT !.next = -1]
                      ELSE [absorb(w, counted, scan) EXCEPT !.next = nextIfdOffset(w, scan)]
  BY DEF stepIfd
<1>2. counted \in RawWalks
  BY <1>0 DEF RawWalks
<1> HIDE DEF counted
<1>3. [counted EXCEPT !.next = -1] \in RawWalks
  BY <1>2 DEF RawWalks
<1>4. ASSUME scan.ok
      PROVE  [absorb(w, counted, scan) EXCEPT !.next = nextIfdOffset(w, scan)] \in RawWalks
  <2>1. /\ \E n \in Nat : scan.entries \in [1..n -> Entries]
        /\ scan.tableEnd \in Nat /\ scan.end \in Nat
    BY <1>0, <1>4, IfdIs
  <2> HIDE DEF scan
  <2>2. nextIfdOffset(w, scan) \in Nat
    <3>1. scan.tableEnd - 2 \in Int
      BY <2>1
    <3>2. Has(w, scan.tableEnd - 2, 2) => readU32(w, scan.tableEnd - 2) \in Nat
      BY <3>1, LongIs
    <3> QED
      BY <3>2 DEF nextIfdOffset
  <2>3. PICK n \in Nat : scan.entries \in [1..n -> Entries]
    BY <2>1
  <2> DEFINE tagged(tag) == Tagged(scan.entries, tag)
             a == imageDataEnd(w, tagged(kStripOffsetsTag), tagged(kStripByteCountsTag))
             b == imageDataEnd(w, tagged(kTileOffsetsTag), tagged(kTileByteCountsTag))
             dataEnd == Max({a, b})
             end == Max({counted.end, scan.end, dataEnd})
             make == IF counted.make.tag = 0 THEN tagged(kMakeTag) ELSE counted.make
             saw == counted.sawImageData \/ dataEnd > 0
  <2>4. \A tag : tagged(tag) \in Entries
    BY <2>3, TaggedIs
  <2>5. absorb(w, counted, scan) =
          [counted EXCEPT !.sawIfd = TRUE, !.sawImageData = @ \/ dataEnd > 0,
                          !.end = Max({@, scan.end, dataEnd}),
                          !.make = IF @.tag = 0 THEN tagged(kMakeTag) ELSE @]
    BY DEF absorb
  <2>6. absorb(w, counted, scan) =
          [counted EXCEPT !.sawIfd = TRUE, !.sawImageData = saw, !.end = end, !.make = make]
    BY <1>2, <2>5 DEF RawWalks
  <2> HIDE DEF tagged
  <2>7. a \in Nat /\ b \in Nat
    BY <2>4, ImageEndIs
  <2>8. make \in Entries /\ saw \in BOOLEAN /\ counted.end \in Nat
    BY <1>2, <2>4 DEF RawWalks
  <2> HIDE DEF a, b
  <2>9. dataEnd \in Nat
    <3>1. dataEnd = IF a >= b THEN a ELSE b
      BY <2>7, MinMaxOfTwo
    <3> QED
      BY <2>7, <3>1
  <2> HIDE DEF dataEnd, make, saw
  <2>10. end \in Nat
    <3> DEFINE S == {counted.end, scan.end, dataEnd}
               f == [i \in 0..2 |-> IF i = 0 THEN counted.end ELSE IF i = 1 THEN scan.end ELSE dataEnd]
    <3>1. f \in [0..2 -> Nat]
      BY <2>1, <2>8, <2>9
    <3>2. S # {} /\ \A x \in S : \E i \in 0..2 : x = f[i]
      OBVIOUS
    <3> HIDE DEF f, S
    <3>3. Max(S) \in Nat
      BY <3>1, <3>2, GreatestIs
    <3> QED
      BY <3>3 DEF S
  <2> HIDE DEF end
  <2>11. absorb(w, counted, scan) \in RawWalks
    BY <1>2, <2>6, <2>8, <2>10 DEF RawWalks
  <2> QED
    BY <2>2, <2>11 DEF RawWalks
<1> HIDE DEF scan
<1> QED
  BY <1>1, <1>3, <1>4 DEF RawOk

LEMMA RawVerdictIs ==
  ASSUME NEW w \in Windows, NEW v, RawOk(v)
  PROVE  WithinWindow(RawVerdict(w, v), w)
<1>0. v.end \in Nat
  BY DEF RawOk, RawWalks
<1> DEFINE e == RawExtension(w, v)
           c == IF v.sawImageData /\ v.end <= Len(w) /\ v.next = 0 THEN "valid" ELSE "uncertain"
<1>1. "tif" \in UNION {kNames[f] : f \in DOMAIN kNames} /\ e \in UNION {kNames[f] : f \in DOMAIN kNames}
  BY Names DEF RawExtension
<1>2. c \in {"valid", "uncertain", "rejected"}
  OBVIOUS
<1>3. RawVerdict(w, v) = IF ~v.sawIfd THEN Rejected("tif") ELSE Verdict(Min({v.end, Len(w)}), c, e)
  BY DEF RawVerdict
<1>4. WithinWindow(Rejected("tif"), w)
  BY <1>1, RejectedIs
<1> HIDE DEF e, c
<1>5. WithinWindow(Verdict(Min({v.end, Len(w)}), c, e), w)
  BY <1>0, <1>1, <1>2, ClippedIs
<1> QED
  BY <1>3, <1>4, <1>5

(***************************************************************************)
(* The scan.                                                               *)
(***************************************************************************)

LEMMA WindowIs ==
  ASSUME DeviceOk, NEW pos \in Nat, pos < Len(device)
  PROVE  /\ readWindow(pos) \in Windows /\ Len(readWindow(pos)) \in Nat
         /\ Len(readWindow(pos)) <= MaxCarve /\ pos + Len(readWindow(pos)) <= Len(device)
<1>0. device \in Seq(Nat) /\ Len(device) \in Nat /\ MaxCarve \in Nat
  BY CarveWalkAssumption DEF DeviceOk, Windows
<1> DEFINE m == Min({pos + MaxCarve, Len(device)})
<1>1. m = IF pos + MaxCarve <= Len(device) THEN pos + MaxCarve ELSE Len(device)
  BY <1>0, MinMaxOfTwo
<1>2. m \in Nat /\ m <= Len(device) /\ m <= pos + MaxCarve /\ m >= pos
  BY <1>0, <1>1
<1>3. readWindow(pos) = SubSeq(device, pos + 1, m)
  BY DEF readWindow
<1> HIDE DEF m
<1>4. \A i \in (pos + 1)..m : i \in 1..Len(device)
  BY <1>0, <1>2
<1>5. SubSeq(device, pos + 1, m) \in Seq(Nat) /\ Len(SubSeq(device, pos + 1, m)) = m - pos
  BY <1>0, <1>2, <1>4
<1> QED
  BY <1>0, <1>2, <1>3, <1>5 DEF Windows

LEMMA StartIs ==
  ASSUME NEW w \in Windows, NEW f \in DOMAIN kNames
  PROVE  WalkOk(f, startOf(f, w), w)
<1>1. CASE f = "jpeg"
  BY <1>1 DEF startOf, WalkOk, JpegOk, JpegWalks, JpegStart
<1>2. CASE f = "png"
  BY <1>2 DEF startOf, WalkOk, PngOk, PngWalks, PngStart
<1>3. CASE f = "mp4"
  BY <1>3 DEF startOf, WalkOk, Mp4Ok, Mp4Walks, Mp4Start
<1>4. CASE f = "raw"
  <2> DEFINE n == IF Has(w, 1, 2) THEN readU32(w, 1) ELSE -1
  <2>1. n \in Nat \cup {-1}
    BY LongIs
  <2>2. startOf(f, w) = [next |-> n, seen |-> 0, end |-> 0,
                         sawIfd |-> FALSE, sawImageData |-> FALSE, make |-> NoEntry]
    BY <1>4 DEF startOf, RawStart
  <2>3. NoEntry \in Entries
    BY DEF NoEntry, Entries
  <2> HIDE DEF n
  <2>4. startOf(f, w) \in RawWalks
    BY <2>1, <2>2, <2>3 DEF RawWalks
  <2> QED
    BY <1>4, <2>4 DEF WalkOk, RawOk
<1>5. CASE f = "zip" \/ f = "pdf"
  BY <1>5 DEF WalkOk
<1> QED
  BY <1>1, <1>2, <1>3, <1>4, <1>5, Names

LEMMA WalkedIs ==
  ASSUME DeviceOk, at < Len(device), NEW f \in {"jpeg", "png", "mp4", "raw"}, format = f,
         WalkOk(format, walk, readWindow(at))
  PROVE  WalkOk(format, walkedOn, readWindow(at))
<1> DEFINE w == readWindow(at)
<1>0. w \in Windows
  BY WindowIs DEF DeviceOk
<1>1. CASE f = "jpeg"
  <2>1. walkedOn = advanceOneMarker(w, walk) /\ JpegOk(walk, w)
    BY <1>1 DEF walkedOn, WalkOk
  <2> HIDE DEF w
  <2>2. JpegOk(walkedOn, w)
    BY <1>0, <2>1, JpegSteps
  <2> QED
    BY <1>1, <2>2 DEF WalkOk, w
<1>2. CASE f = "png"
  <2>1. walkedOn = stepChunk(w, walk) /\ PngOk(walk, w)
    BY <1>2 DEF walkedOn, WalkOk
  <2> HIDE DEF w
  <2>2. PngOk(walkedOn, w)
    BY <1>0, <2>1, PngSteps
  <2> QED
    BY <1>2, <2>2 DEF WalkOk, w
<1>3. CASE f = "mp4"
  <2>1. walkedOn = stepBox(w, walk) /\ Mp4Ok(walk, w)
    BY <1>3 DEF walkedOn, WalkOk
  <2> HIDE DEF w
  <2>2. Mp4Ok(walkedOn, w)
    BY <1>0, <2>1, Mp4Steps
  <2> QED
    BY <1>3, <2>2 DEF WalkOk, w
<1>4. CASE f = "raw"
  <2>1. walkedOn = stepIfd(w, walk) /\ RawOk(walk)
    BY <1>4 DEF walkedOn, WalkOk
  <2> HIDE DEF w
  <2>2. RawOk(walkedOn)
    BY <1>0, <2>1, RawSteps
  <2> QED
    BY <1>4, <2>2 DEF WalkOk
<1> QED
  BY <1>1, <1>2, <1>3, <1>4

(* Every carver's verdict, whatever it was given, lies in its window. *)
LEMMA VerdictsStayInside ==
  ASSUME NEW w \in Windows, format \in DOMAIN kNames, WalkOk(format, walk, w)
  PROVE  WithinWindow(verdictFor(w), w)
<1>1. CASE format = "jpeg"
  BY <1>1, JpegVerdictIs DEF WalkOk, verdictFor
<1>2. CASE format = "png"
  BY <1>2, PngVerdictIs DEF WalkOk, verdictFor
<1>3. CASE format = "mp4"
  BY <1>3, Mp4VerdictIs DEF WalkOk, verdictFor
<1>4. CASE format = "raw"
  BY <1>4, RawVerdictIs DEF WalkOk, verdictFor
<1>5. CASE format = "zip"
  BY <1>5, ZipVerdictIs DEF verdictFor
<1>6. CASE format = "pdf"
  BY <1>6, PdfVerdictIs DEF verdictFor
<1> QED
  BY <1>1, <1>2, <1>3, <1>4, <1>5, <1>6, Names

LEMMA FloorIs ==
  ASSUME NEW e
  PROVE  plausibleMinimumBytes(e) \in Nat
BY CarveWalkAssumption DEF plausibleMinimumBytes

LEMMA PlausibleIs ==
  ASSUME NEW w \in Windows, NEW v, WithinWindow(v, w)
  PROVE  /\ WithinWindow(applyPlausibility(v), w)
         /\ applyPlausibility(v).confidence # "rejected" =>
              applyPlausibility(v).length >= plausibleMinimumBytes(applyPlausibility(v).extension)
<1>0. v \in Verdicts /\ v.length \in Nat /\ v.extension \in UNION {kNames[f] : f \in DOMAIN kNames}
  BY DEF WithinWindow, Verdicts
<1>1. plausibleMinimumBytes(v.extension) \in Nat
  BY FloorIs
<1>2. CASE v.confidence # "rejected" /\ v.length < plausibleMinimumBytes(v.extension)
  <2>1. applyPlausibility(v) = Rejected(v.extension)
    BY <1>2 DEF applyPlausibility
  <2>2. WithinWindow(Rejected(v.extension), w)
    BY <1>0, RejectedIs
  <2>3. Rejected(v.extension).confidence = "rejected"
    BY DEF Rejected, Verdict
  <2> QED
    BY <2>1, <2>2, <2>3
<1>3. CASE ~(v.confidence # "rejected" /\ v.length < plausibleMinimumBytes(v.extension))
  <2>1. applyPlausibility(v) = v
    BY <1>3 DEF applyPlausibility
  <2> QED
    BY <1>0, <1>1, <1>3, <2>1
<1> QED
  BY <1>2, <1>3

LEMMA DeviceIs ==
  ASSUME NEW l \in Layouts
  PROVE  DeviceOf(l) \in Seq(Nat)
<1>1. Nothing.cells = <<>> /\ <<>> \in Seq(Nat)
  BY DEF Nothing
<1>2. \A s \in Seconds : s.cells \in Seq(Nat)
  BY <1>1, CarveWalkAssumption DEF Seconds
<1>3. /\ l.file \in Files /\ l.second \in Seconds /\ l.gap \in Nat
      /\ l.kept \in 0..Whole(l.file)
      /\ \/ l.damage = NoDamage
         \/ l.kept = Whole(l.file) /\ l.damage.at \in 1..Whole(l.file) /\ l.damage.cell \in Damage
  <2>0. \A f \in Files : Whole(f) \in Nat
    BY CarveWalkAssumption DEF Whole
  <2>1. CASE \E f \in Files : \E s \in Seconds, g \in 0..2 :
               l = [file |-> f, kept |-> Whole(f), damage |-> NoDamage, second |-> s, gap |-> g]
    BY <2>0, <2>1
  <2>2. CASE \E f \in Files : \E k \in 1..(Whole(f) - 1), g \in {0, 4} :
               l = [file |-> f, kept |-> k, damage |-> NoDamage, second |-> Nothing, gap |-> g]
    BY <2>0, <2>2 DEF Seconds
  <2>3. CASE \E f \in Files : \E i \in 1..Whole(f), c \in Damage, s \in Seconds :
               l = [file |-> f, kept |-> Whole(f), damage |-> [at |-> i, cell |-> c],
                    second |-> s, gap |-> 1]
    BY <2>0, <2>3
  <2>4. ASSUME NEW f \in Files,
               l \in {[file |-> f, kept |-> Whole(f), damage |-> NoDamage, second |-> s, gap |-> g] :
                       s \in Seconds, g \in 0..2}
        PROVE  \E s \in Seconds, g \in 0..2 :
                 l = [file |-> f, kept |-> Whole(f), damage |-> NoDamage, second |-> s, gap |-> g]
    BY <2>4
  <2>5. ASSUME NEW f \in Files,
               l \in {[file |-> f, kept |-> k, damage |-> NoDamage, second |-> Nothing, gap |-> g] :
                       k \in 1..(Whole(f) - 1), g \in {0, 4}}
        PROVE  \E k \in 1..(Whole(f) - 1), g \in {0, 4} :
                 l = [file |-> f, kept |-> k, damage |-> NoDamage, second |-> Nothing, gap |-> g]
    BY <2>5
  <2>6. ASSUME NEW f \in Files,
               l \in {[file |-> f, kept |-> Whole(f), damage |-> [at |-> i, cell |-> c],
                        second |-> s, gap |-> 1] : i \in 1..Whole(f), c \in Damage, s \in Seconds}
        PROVE  \E i \in 1..Whole(f), c \in Damage, s \in Seconds :
                 l = [file |-> f, kept |-> Whole(f), damage |-> [at |-> i, cell |-> c],
                      second |-> s, gap |-> 1]
    BY <2>6
  <2> DEFINE A(f) == {[file |-> f, kept |-> Whole(f), damage |-> NoDamage, second |-> s, gap |-> g] :
                       s \in Seconds, g \in 0..2}
             B(f) == {[file |-> f, kept |-> k, damage |-> NoDamage, second |-> Nothing, gap |-> g] :
                       k \in 1..(Whole(f) - 1), g \in {0, 4}}
             C(f) == {[file |-> f, kept |-> Whole(f), damage |-> [at |-> i, cell |-> c],
                       second |-> s, gap |-> 1] : i \in 1..Whole(f), c \in Damage, s \in Seconds}
  <2>7. Layouts = (UNION {A(f) : f \in Files}) \cup (UNION {B(f) : f \in Files})
                  \cup (UNION {C(f) : f \in Files})
    BY DEF Layouts
  <2>8. \E f \in Files : l \in A(f) \/ l \in B(f) \/ l \in C(f)
    <3> HIDE DEF A, B, C
    <3>1. l \in UNION {A(f) : f \in Files} \/ l \in UNION {B(f) : f \in Files}
          \/ l \in UNION {C(f) : f \in Files}
      BY <2>7
    <3>2. CASE l \in UNION {A(f) : f \in Files}
      BY <3>2
    <3>3. CASE l \in UNION {B(f) : f \in Files}
      BY <3>3
    <3>4. CASE l \in UNION {C(f) : f \in Files}
      BY <3>4
    <3> QED
      BY <3>1, <3>2, <3>3, <3>4
  <2> QED
    BY <2>1, <2>2, <2>3, <2>4, <2>5, <2>6, <2>8
<1> DEFINE cells == SubSeq(l.file.cells, 1, l.kept)
<1>4. l.file.cells \in Seq(Nat) /\ l.second.cells \in Seq(Nat)
  BY <1>2, <1>3, CarveWalkAssumption
<1>5. cells \in Seq(Nat) /\ Len(cells) = l.kept
  BY <1>3, <1>4 DEF Whole
<1>6. FirstPart(l) \in Seq(Nat)
  <2>1. FirstPart(l) = IF l.damage.at = 0 THEN cells ELSE [cells EXCEPT ![l.damage.at] = l.damage.cell]
    BY DEF FirstPart
  <2> HIDE DEF cells
  <2>2. CASE l.damage.at = 0
    BY <1>5, <2>1, <2>2
  <2>3. CASE l.damage.at # 0
    <3>1. l.damage.at \in 1..Len(cells) /\ l.damage.cell \in Nat
      <4>1. NoDamage.at = 0
        BY DEF NoDamage
      <4>2. l.damage # NoDamage
        BY <2>3, <4>1
      <4>3. l.damage.at \in 1..Whole(l.file) /\ Len(cells) = Whole(l.file) /\ l.damage.cell \in Damage
        BY <1>3, <1>5, <4>2
      <4> QED
        BY <4>3, CarveWalkAssumption
    <3> QED
      BY <1>5, <2>1, <2>3, <3>1
  <2> QED
    BY <2>2, <2>3
<1>7. [i \in 1..l.gap |-> Noise] \in Seq(Nat)
  BY <1>3, CarveWalkAssumption
<1> DEFINE noise == [i \in 1..l.gap |-> Noise]
<1>8. DeviceOf(l) = FirstPart(l) \o noise \o l.second.cells
  BY DEF DeviceOf
<1> HIDE DEF noise
<1>9. noise \in Seq(Nat)
  BY <1>7 DEF noise
<1>10. FirstPart(l) \o noise \in Seq(Nat)
  BY <1>6, <1>9
<1> QED
  BY <1>4, <1>8, <1>10

(* The cells are numbers, the walk under way has passed nothing outside its window, and
   every candidate the visitor was given lies in the device, in the window and above its
   format's floor.  The carvers of carve/formats, CarveMatches.cpp, Plausibility.cpp. *)
THEOREM CarveInvariant == Spec => []CarveInv
<1>1. Init => CarveInv
  <2> SUFFICES ASSUME Init PROVE CarveInv
    OBVIOUS
  <2>1. layout \in Layouts /\ device = DeviceOf(layout)
    BY DEF Init
  <2>2. device \in Seq(Nat)
    BY <2>1, DeviceIs
  <2>3. DeviceOk
    BY <2>2 DEF Init, DeviceOk, Windows
  <2>4. MatchOk
    BY DEF Init, MatchOk
  <2>5. ReportedOk
    <3>1. reported = <<>> /\ <<>> \in Seq(CandidateSet) /\ Len(<<>>) = 0
      BY DEF Init
    <3> QED
      BY <3>1 DEF ReportedOk
  <2> QED
    BY <2>3, <2>4, <2>5 DEF CarveInv
<1>2. CarveInv /\ [Next]_vars => CarveInv'
  <2> SUFFICES ASSUME CarveInv, [Next]_vars PROVE CarveInv'
    OBVIOUS
  <2>0. /\ DeviceOk /\ MatchOk /\ ReportedOk
        /\ device \in Windows /\ resume \in Nat /\ at \in Nat /\ Len(device) \in Nat
    BY DEF CarveInv, DeviceOk, Windows
  <2>k. ASSUME UNCHANGED <<device, reported>> PROVE ReportedOk'
    BY <2>0, <2>k DEF ReportedOk, StaysInside, Trusted, plausibleMinimumBytes
  <2>1. CASE applyMatch
    <3>1. PICK match \in Matches : at' = match[1] /\ format' = match[2]
                                   /\ walk' = startOf(format', readWindow(at'))
      BY <2>1 DEF applyMatch
    <3>2. /\ match[1] \in resume..(Len(device) - 1) /\ match[2] \in registered
      BY DEF Matches
    <3>3. format' \in DOMAIN kNames
      BY <3>1, <3>2 DEF registered
    <3>4. at' \in Nat /\ at' < Len(device)
      BY <2>0, <3>1, <3>2
    <3>5. readWindow(at') \in Windows
      BY <2>0, <3>4, WindowIs
    <3>6. WalkOk(format', walk', readWindow(at'))
      BY <3>1, <3>3, <3>5, StartIs
    <3>7. device' = device /\ resume' = resume /\ reported' = reported
      BY <2>1 DEF applyMatch
    <3>8. MatchOk'
      BY <3>3, <3>4, <3>6, <3>7 DEF MatchOk, readWindow
    <3>9. DeviceOk'
      BY <2>0, <3>4, <3>7 DEF DeviceOk
    <3> QED
      BY <2>k, <3>7, <3>8, <3>9 DEF CarveInv
  <2>2. ASSUME NEW f \in {"jpeg", "png", "mp4", "raw"}, WalkStep(f) PROVE CarveInv'
    <3>1. /\ phase = "walk" /\ format = f /\ walk' = walkedOn
          /\ UNCHANGED <<layout, device, allowlist, phase, resume, at, format, reported>>
      BY <2>2 DEF WalkStep
    <3>2. at < Len(device) /\ format \in DOMAIN kNames /\ WalkOk(format, walk, readWindow(at))
      BY <2>0, <3>1 DEF MatchOk
    <3>3. WalkOk(format, walkedOn, readWindow(at))
      BY <2>0, <3>1, <3>2, WalkedIs
    <3>4. MatchOk'
      BY <3>1, <3>2, <3>3 DEF MatchOk, readWindow
    <3>5. DeviceOk'
      BY <2>0, <3>1 DEF DeviceOk
    <3> QED
      BY <2>k, <3>1, <3>4, <3>5 DEF CarveInv
  <2>3. CASE buildCandidate
    <3> DEFINE w == readWindow(at)
               r == applyPlausibility(verdictFor(w))
               c == [offset |-> at, format |-> format, result |-> r]
    <3>1. /\ phase = "walk" /\ phase' = "scan" /\ reported' = Append(reported, c)
          /\ resume' = resumeOffset(r) /\ device' = device /\ at' = at
      BY <2>3 DEF buildCandidate
    <3>2. at < Len(device) /\ format \in DOMAIN kNames /\ WalkOk(format, walk, w)
      BY <2>0, <3>1 DEF MatchOk
    <3>3. w \in Windows /\ Len(w) \in Nat /\ Len(w) <= MaxCarve /\ at + Len(w) <= Len(device)
      BY <2>0, <3>2, WindowIs
    <3> HIDE DEF w
    <3>4. WithinWindow(verdictFor(w), w)
      BY <3>2, <3>3, VerdictsStayInside
    <3>5. /\ WithinWindow(r, w)
          /\ r.confidence # "rejected" => r.length >= plausibleMinimumBytes(r.extension)
      BY <3>3, <3>4, PlausibleIs
    <3> HIDE DEF r
    <3>6. r \in Verdicts /\ r.length \in Nat /\ r.length <= Len(w)
      BY <3>5 DEF WithinWindow, Verdicts
    <3>7. c \in CandidateSet /\ c.offset = at /\ c.result = r
      BY <2>0, <3>2, <3>6 DEF CandidateSet
    <3> HIDE DEF c
    <3>8. StaysInside(c)
      <4>1. at + r.length <= Len(device) /\ r.length <= MaxCarve
        <5> DEFINE n == Len(w)
                   d == Len(device)
                   x == r.length
        <5>1. n \in Nat /\ d \in Nat /\ x \in Nat /\ x <= n /\ n <= MaxCarve /\ at + n <= d
              /\ MaxCarve \in Nat /\ at \in Nat
          BY <2>0, <3>3, <3>6, CarveWalkAssumption
        <5> HIDE DEF n, d, x
        <5>2. at + x <= d /\ x <= MaxCarve
          BY <5>1
        <5> QED
          BY <5>2 DEF x, d
      <4> QED
        BY <3>5, <3>7, <4>1 DEF StaysInside, Trusted
    <3>9. ReportedOk'
      <4>1. reported \in Seq(CandidateSet) /\ \A i \in 1..Len(reported) : StaysInside(reported[i])
        BY <2>0 DEF ReportedOk
      <4>2. reported' \in Seq(CandidateSet) /\ Len(reported') = Len(reported) + 1
        BY <3>1, <3>7, <4>1
      <4>3. ASSUME NEW i \in 1..Len(reported') PROVE StaysInside(reported'[i])
        <5>1. CASE i = Len(reported) + 1
          <6>1. reported'[i] = c
            BY <3>1, <4>1, <5>1
          <6> QED
            BY <3>8, <6>1
        <5>2. CASE i \in 1..Len(reported)
          <6>1. reported'[i] = reported[i]
            BY <3>1, <4>1, <5>2
          <6> QED
            BY <4>1, <5>2, <6>1
        <5> QED
          BY <4>1, <4>2, <5>1, <5>2
      <4>4. (\A i \in 1..Len(reported) : StaysInside(reported[i]))'
        BY <3>1, <4>3 DEF StaysInside, Trusted, plausibleMinimumBytes
      <4> QED
        BY <4>2, <4>4 DEF ReportedOk
    <3>10. resume' \in Nat
      <4>1. Max({r.length, 1}) = IF r.length >= 1 THEN r.length ELSE 1
        BY <3>6, MinMaxOfTwo
      <4>2. Max({r.length, 1}) \in Nat
        BY <3>6, <4>1
      <4> QED
        BY <2>0, <3>1, <4>2 DEF resumeOffset
    <3> QED
      BY <2>0, <3>1, <3>9, <3>10 DEF CarveInv, DeviceOk, MatchOk
  <2>4. CASE finishScan
    <3>1. phase' = "done" /\ UNCHANGED <<device, resume, at, reported>>
      BY <2>4 DEF finishScan
    <3> QED
      BY <2>0, <2>k, <3>1 DEF CarveInv, DeviceOk, MatchOk
  <2>5. CASE UNCHANGED vars
    <3>1. UNCHANGED <<device, resume, at, reported, phase, format, walk>>
      BY <2>5 DEF vars
    <3> QED
      BY <2>0, <2>k, <3>1 DEF CarveInv, DeviceOk, MatchOk, readWindow
  <2> QED
    BY <2>1, <2>2, <2>3, <2>4, <2>5 DEF Next, stepMarker, walkPng, walkMp4, runChain
<1> QED
  BY <1>1, <1>2, PTL DEF Spec

(* No candidate of a scan reaches past the device or past the carver's window, whatever the
   lengths, counts and offsets in the cells say, and none below its format's floor is
   trusted: for every device, damage, window length and table of floors.
   JpegMarkerWalk.cpp, PngChunkWalk.cpp, Mp4BoxWalk.cpp, TiffIfdWalk.cpp, ZipCarver.cpp,
   PdfCarver.cpp, Plausibility.cpp. *)
THEOREM CarvedIsInside == Spec => []CandidatesStayInside
<1>1. CarveInv => CandidatesStayInside
  <2> SUFFICES ASSUME CarveInv, NEW c \in Candidates, Trusted(c)
               PROVE  /\ c.offset + c.result.length <= Len(device)
                      /\ c.result.length \in plausibleMinimumBytes(c.result.extension)..MaxCarve
    BY DEF CandidatesStayInside
  <2>1. PICK i \in 1..Len(reported) : c = reported[i]
    BY DEF Candidates, ToSet, CarveInv, ReportedOk
  <2>2. StaysInside(c) /\ c \in CandidateSet
    BY <2>1 DEF CarveInv, ReportedOk
  <2>3. c.result.length \in Nat /\ plausibleMinimumBytes(c.result.extension) \in Nat /\ MaxCarve \in Nat
    BY <2>2, FloorIs, CarveWalkAssumption DEF CandidateSet, Verdicts
  <2> QED
    BY <2>2, <2>3 DEF StaysInside
<1> QED
  BY <1>1, CarveInvariant, PTL

=============================================================================
