------------------------------- MODULE CarveWalk ------------------------------
(***************************************************************************)
(* A scan carving a device with the built-in carvers: at every signature   *)
(* the scan has not yet passed, the carver's walk runs over a window of    *)
(* bounded length, one marker, chunk, box or table at a step; the verdict  *)
(* passes the plausibility floor and says where the scan goes on           *)
(* (BuiltinCarvers.cpp, CarveMatches.cpp, Plausibility.cpp and the walks   *)
(* of carve/formats).                                                      *)
(*                                                                         *)
(* The device is a file, whole, cut short or with one cell changed, and    *)
(* behind it nothing, noise, or a second file.                             *)
(***************************************************************************)
EXTENDS CarveFormats

CONSTANTS
  Files,           \* [cells, format, extension, ends]: ends are the lengths at which a
                   \* part of the file is a whole file of its format
  Noise, Damage,   \* a cell that is no format's, and the values a damaged cell takes
  MaxCarve,        \* ScanConfig::maxCarveBytes
  Floors,          \* kMinimums
  Allowlists

ASSUME CarveWalkAssumption ==
  /\ \A f \in Files : f.cells \in Seq(Nat)
  /\ Noise \in Nat /\ Damage \subseteq Nat /\ MaxCarve \in Nat
  /\ \A e \in DOMAIN Floors : Floors[e] \in Nat

VARIABLES
  layout,    \* how the device was made: [file, kept, damage, second, gap]
  device,    \* its cells
  allowlist,
  phase,     \* "scan", "walk", "verdict", "done"
  resume,    \* MatchOutcome::resumeCursor
  at, format, walk,   \* the match, the carver it belongs to, its walk's bookkeeping
  reported   \* what the visitor was given

vars == <<layout, device, allowlist, phase, resume, at, format, walk, reported>>

Nothing == [cells |-> <<>>, format |-> "none", extension |-> "none", ends |-> {}]
Whole(file) == Len(file.cells)

FirstPart(l) ==
  LET cells == SubSeq(l.file.cells, 1, l.kept)
  IN IF l.damage.at = 0 THEN cells ELSE [cells EXCEPT ![l.damage.at] = l.damage.cell]
DeviceOf(l) == FirstPart(l) \o [i \in 1..l.gap |-> Noise] \o l.second.cells
SecondAt == layout.kept + layout.gap

NoDamage == [at |-> 0, cell |-> Noise]
Seconds == Files \cup {Nothing}
Layouts ==
  (UNION {{[file |-> f, kept |-> Whole(f), damage |-> NoDamage, second |-> s, gap |-> g] :
             s \in Seconds, g \in 0..2} : f \in Files})
  \cup (UNION {{[file |-> f, kept |-> k, damage |-> NoDamage, second |-> Nothing, gap |-> g] :
             k \in 1..(Whole(f) - 1), g \in {0, 4}} : f \in Files})
  \cup (UNION {{[file |-> f, kept |-> Whole(f), damage |-> [at |-> i, cell |-> c],
                 second |-> s, gap |-> 1] :
             i \in 1..Whole(f), c \in Damage, s \in Seconds} : f \in Files})

-----------------------------------------------------------------------------

kNames ==
  [jpeg |-> {"jpg"}, png |-> {"png"}, mp4 |-> {"mp4", "mov"}, raw |-> {"cr2", "nef", "arw", "tif"},
   zip |-> {"zip", "docx", "xlsx", "pptx"}, pdf |-> {"pdf"}]

(* A carver is kept when any extension it can report is allowed. *)
registered == {f \in DOMAIN kNames : allowlist = {} \/ kNames[f] \cap allowlist # {}}

(* The signatures: a keyword and where in the file it stands. *)
Reads(pos, cells) == Has(device, pos, Len(cells)) /\ Cells(device, pos, Len(cells)) = cells
signatureAt(f, pos) ==
  CASE f = "jpeg" -> Reads(pos, kSoiSignature)
    [] f = "png" -> Reads(pos, <<PngMagic>>)
    [] f = "mp4" -> Reads(pos + 1, <<kFtyp>>)
    [] f = "raw" -> Reads(pos, <<kLittleEndianMagic>>) \/ Reads(pos, <<kBigEndianMagic>>)
    [] f = "zip" -> Reads(pos, <<kLocalHeader>>)
    [] f = "pdf" -> Reads(pos, <<kPdfHeader>>)

Matches == {match \in (resume..(Len(device) - 1)) \X registered : signatureAt(match[2], match[1])}

readWindow(pos) == SubSeq(device, pos + 1, Min({pos + MaxCarve, Len(device)}))

plausibleMinimumBytes(extension) == IF extension \in DOMAIN Floors THEN Floors[extension] ELSE 0

applyPlausibility(result) ==
  IF result.confidence # "rejected" /\ result.length < plausibleMinimumBytes(result.extension)
  THEN Rejected(result.extension) ELSE result

resumeOffset(result) ==
  IF result.confidence = "rejected" THEN at + 1 ELSE at + Max({result.length, 1})

startOf(f, w) ==
  CASE f = "jpeg" -> JpegStart [] f = "png" -> PngStart [] f = "mp4" -> Mp4Start
    [] f = "raw" -> RawStart(w) [] OTHER -> [step |-> "found"]

walking ==
  CASE format = "raw" -> chainGoesOn(walk) [] OTHER -> walk.step = "continue"

verdictFor(w) ==
  CASE format = "jpeg" -> JpegVerdict(walk)
    [] format = "png" -> PngVerdict(walk)
    [] format = "mp4" -> Mp4Verdict(w, walk)
    [] format = "raw" -> RawVerdict(w, walk)
    [] format = "zip" -> ZipVerdict(w)
    [] format = "pdf" -> PdfVerdict(w)

-----------------------------------------------------------------------------

Init ==
  /\ layout \in Layouts /\ device = DeviceOf(layout)
  /\ allowlist \in Allowlists
  /\ phase = "scan" /\ resume = 0 /\ at = 0 /\ format = "none" /\ walk = [step |-> "none"]
  /\ reported = <<>>

(* The next signature at or behind the cursor. *)
applyMatch ==
  /\ phase = "scan"
  /\ LET matches == Matches
     IN \E match \in matches :
       /\ \A other \in matches : match[1] <= other[1]
       /\ at' = match[1] /\ format' = match[2]
       /\ walk' = startOf(format', readWindow(at'))
  /\ phase' = "walk"
  /\ UNCHANGED <<layout, device, allowlist, resume, reported>>

(* One marker, chunk, box or table further. *)
walkedOn ==
  LET w == readWindow(at)
  IN CASE format = "jpeg" -> advanceOneMarker(w, walk)
       [] format = "png" -> stepChunk(w, walk)
       [] format = "mp4" -> stepBox(w, walk)
       [] format = "raw" -> stepIfd(w, walk)

WalkStep(f) ==
  /\ phase = "walk" /\ format = f /\ walking
  /\ walk' = walkedOn
  /\ UNCHANGED <<layout, device, allowlist, phase, resume, at, format, reported>>

stepMarker == WalkStep("jpeg")
walkPng == WalkStep("png")
walkMp4 == WalkStep("mp4")
runChain == WalkStep("raw")

buildCandidate ==
  LET result == applyPlausibility(verdictFor(readWindow(at)))
  IN /\ phase = "walk" /\ ~walking /\ phase' = "scan"
     /\ reported' = Append(reported, [offset |-> at, format |-> format, result |-> result])
     /\ resume' = resumeOffset(result)
     /\ UNCHANGED <<layout, device, allowlist, at, format, walk>>

finishScan ==
  /\ phase = "scan" /\ Matches = {} /\ phase' = "done"
  /\ UNCHANGED <<layout, device, allowlist, resume, at, format, walk, reported>>

Next == applyMatch \/ stepMarker \/ walkPng \/ walkMp4 \/ runChain \/ buildCandidate \/ finishScan

(* WF_vars(Next), with ENABLED <<Next>>_vars written out as CanStep: the carvers' loops
   run for as long as a step changes anything. *)
CanStep == phase = "scan" \/ (phase = "walk" /\ (walking => walkedOn # walk))
Fairness == []<>~CanStep \/ []<><<Next>>_vars

Spec == Init /\ [][Next]_vars /\ Fairness

-----------------------------------------------------------------------------

Candidates == ToSet(reported)
Trusted(c) == c.result.confidence # "rejected"
Covers(c, pos) == Trusted(c) /\ c.offset < pos /\ pos < c.offset + c.result.length

ReportedExactly(file, pos) ==
  [offset |-> pos, format |-> file.format,
   result |-> Verdict(Whole(file), "valid", file.extension)] \in Candidates

Carvable(file) ==
  /\ file.format \in registered /\ Whole(file) <= MaxCarve
  /\ Whole(file) >= plausibleMinimumBytes(file.extension)

(* A file whose carver looks for its end from the back of the window, or that goes on
   for as long as boxes follow, takes a neighbour of its own kind for a part of itself. *)
MayRunOn ==
  /\ layout.file.format = layout.second.format
  /\ layout.file.format \in {"zip", "pdf"} \/ (layout.file.format = "mp4" /\ layout.gap = 0)

(* A whole file is reported valid, at its exact length and under its extension, whatever
   lies behind it but a file of its own kind where the format has no end of its own; and so is
   the file behind it, unless the first one was taken to reach over it.  The carvers of
   carve/formats. *)
WholeFilesAreExact ==
  phase = "done" =>
    /\ layout.kept = Whole(layout.file) /\ layout.damage = NoDamage /\ Carvable(layout.file)
       /\ ~MayRunOn => ReportedExactly(layout.file, 0)
    /\ layout.second # Nothing /\ Carvable(layout.second)
       /\ (\A c \in Candidates : ~Covers(c, SecondAt)) => ReportedExactly(layout.second, SecondAt)

(* What is left of a file cut by the end of the device, or by foreign bytes for the
   formats that check their last structure, is valid only at a length where the format
   lets that file end.  JpegCarver.cpp, PngCarver.cpp, Mp4Carver.cpp, RawCarver.cpp,
   ZipCarver.cpp, PdfCarver.cpp. *)
CutIsNotWhole ==
  /\ layout.kept < Whole(layout.file)
  /\ layout.gap = 0 \/ layout.file.format \in {"jpeg", "png", "pdf"}
  =>
    \A c \in Candidates : c.offset = 0 /\ c.result.confidence = "valid" =>
                            c.result.length \in layout.file.ends

(* No candidate reaches past the device or the window, whatever a damaged length or
   pointer says, and none below its format's floor is trusted.  JpegMarkerWalk.cpp,
   Mp4BoxWalk.cpp, ZipCarver.cpp, RawCarver.cpp. *)
CandidatesStayInside ==
  \A c \in Candidates :
    Trusted(c) => /\ c.offset + c.result.length <= Len(device)
                  /\ c.result.length \in plausibleMinimumBytes(c.result.extension)..MaxCarve

(* The scan ends: no marker, chunk, box or table leads a walk back onto itself for
   ever.  TiffIfdWalk.cpp, Mp4BoxWalk.cpp. *)
CarveEnds == <>(phase = "done")

(* Stated in docs/architecture/carving-engine.md: every candidate is parsed to its exact
   extent.  PdfTrailer.cpp, ZipEndRecord.cpp, Mp4BoxWalk.cpp. *)
EveryExtentIsExact ==
  phase = "done" /\ layout.damage = NoDamage /\ layout.kept = Whole(layout.file)
    /\ Carvable(layout.file) => ReportedExactly(layout.file, 0)
===============================================================================
