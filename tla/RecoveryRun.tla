----------------------------- MODULE RecoveryRun -----------------------------
(***************************************************************************)
(* One session directory and the runs an operator makes over it: open the  *)
(* session, walk the filesystem, carve what it left unaccounted for in     *)
(* checkpointed chunks, decide, deliver, and write down how it ended       *)
(* (cli/RecoveryRun.cpp, cli/Session.cpp, cli/RunDelivery.cpp,             *)
(* recovery/HybridRecovery.cpp).  A run may be interrupted, killed, lose   *)
(* its source or have any of its writes refused, and the operator runs the *)
(* same command, or another one, again.                                    *)
(*                                                                         *)
(* The index is the log CandidateIndex implements: the acknowledged        *)
(* candidates.  What the parsers and carvers find is a parameter.          *)
(***************************************************************************)
EXTENDS Naturals, Sequences, FiniteSets, ScanRegions

CONSTANTS
  Items,             \* everything a run can discover
  Scopes,            \* the byte ranges a run can work in: a source, a partition
  SizeOf,            \* SizeOf[s]: its length in bytes
  Entries,           \* Entries[s]: what the filesystem pass reports there
  Claims,            \* Claims[x]: the extents of entry x, none of an uncertain one
  Mounts,            \* the scopes whose filesystem walk succeeds
  Partitioned,       \* the scopes whose walk is one of each partition
  Findings(_, _, _), \* Findings(s, formats, g): the candidates carved in g
  Winners(_),        \* what arbitration picks of a set of candidates
  Requests,          \* the commands an operator may give
  CheckpointBytes,   \* kDefaultCheckpointBytes
  MaxIndexed,        \* kMaxIndexedCandidates
  FaultKinds,        \* what may go wrong
  MaxFaults,         \* bound of the model: how often
  None

Modes == {"fsOnly", "hybrid", "carveOnly"}

ASSUME RecoveryRunAssumption ==
  /\ SizeOf \in [Scopes -> Nat]
  /\ Entries \in [Scopes -> SUBSET Items]
  /\ \A s \in Scopes : \A x \in Entries[s] : Claims[x] \subseteq Regions(SizeOf[s])
  /\ Partitioned \subseteq Mounts
  /\ CheckpointBytes \in Nat \ {0}
  /\ MaxIndexed \in Nat
  /\ MaxFaults \in Nat
  /\ None \notin Nat
  /\ \A r \in Requests : /\ r.mode \in Modes
                         /\ r.scope \in Scopes
                         /\ r.delivery \in {"extract", "preview"}

(* A carver reports only candidates that start inside the range it was given,
   and none of them is a filesystem entry. *)
ASSUME FindingsAssumption ==
  \A r \in Requests : \A g \in Regions(SizeOf[r.scope]) :
    /\ Findings(r.scope, r.formats, g) \subseteq Items
    /\ Findings(r.scope, r.formats, g) \cap Entries[r.scope] = {}
    /\ \A h \in Regions(SizeOf[r.scope]) :
         Apart(g, h) => Findings(r.scope, r.formats, g)
                          \cap Findings(r.scope, r.formats, h) = {}

(* Arbitration invents nothing. *)
ASSUME WinnersAssumption == \A found \in SUBSET Items : Winners(found) \subseteq found

VARIABLES
  index,        \* the session's acknowledged candidates
  checkpoint,   \* the checkpoint file: [shape, cursor, records], or None
  manifest,     \* the manifest file: [outcome, scannedUpTo, artifacts], or None
  pc,           \* where the running process is; "idle" when there is none
  req,          \* the command of the current, or else the last, run
  resumeFrom,   \* where the carve pass picks up, or None in a fresh session
  toAppend,     \* what the current pass or chunk has yet to report
  regions,      \* the chunks not yet scanned
  region,       \* the chunk being scanned
  indexGood,    \* every append of this process was acknowledged
  interrupted,  \* gInterrupted
  result,       \* how the scan, or the extraction, ended
  scannedUpTo,  \* the end of the last chunk this process scanned
  artifacts,    \* artifacts[w]: what became of winner w in this run
  outcome,      \* how the last run ended, in the words of the exit code
  faults        \* how many more things may go wrong

session == <<index, checkpoint>>
scan == <<resumeFrom, toAppend, regions, region, indexGood, result, scannedUpTo>>
vars == <<session, manifest, pc, req, scan, interrupted, artifacts, outcome, faults>>

NoRegion == Region(0, 0)
NoArtifacts == [w \in {} |-> "written"]

(* Everything the digest of a run covers: not the partition, nor the source's
   identity, nor whether files are written. *)
shapeOf(r) == <<r.mode, SizeOf[r.scope], r.formats>>

(* What the filesystem pass reports, and what it accounts for.  A walk that
   fails has reported its entries by then, but accounts for nothing. *)
entriesOf(r) == IF r.mode = "carveOnly" THEN {} ELSE Entries[r.scope]

claimedBy(entries) == UNION {Claims[x] : x \in entries}

accountedBy(r) ==
  IF r.mode = "hybrid" /\ r.scope \in Mounts THEN claimedBy(Entries[r.scope]) ELSE {}

carveRegions(r, accounted, from) ==
  IF r.mode = "fsOnly" THEN {}
  ELSE chunked(regionsFrom(gaps(accounted, SizeOf[r.scope]), from), CheckpointBytes)

outcomeOf(code) ==
  CASE code \in {"kNotFound", "kInvalidArgument", "kDestinationOnSource", "kPermissionDenied",
                 "kDestinationIdentityUnresolved", "kNotBlockAddressable"} -> "did-not-start"
    [] code = "kSourceLost" -> "stopped-resumable"
    [] OTHER -> "stopped-needs-attention"

(* An interrupted scan carries no error. *)
endingOf(res) == IF res = "incomplete" THEN "stopped-resumable" ELSE outcomeOf(res)

Codes == {"kNotFound", "kInvalidArgument", "kIoFailure", "kSourceLost", "kStorageExhausted"}
Endings == {"finished", "did-not-start", "stopped-resumable", "stopped-needs-attention"}
Statuses == {"notAttempted", "previewed", "written", "failed"}

(* What the two files of a session other than its index may hold. *)
Checkpoints == [shape : {shapeOf(r) : r \in Requests}, cursor : Nat, records : Nat]

Manifests == [outcome : Endings \union {"in-progress"}, scannedUpTo : Nat,
              artifacts : UNION {[S -> Statuses] : S \in SUBSET Items}]

(* A missing file is none of them. *)
ASSUME NoneAssumption == None \notin Checkpoints /\ None \notin Manifests

(* One of the budgeted faults happens, or none does. *)
Fault(kind) == kind \in FaultKinds /\ faults > 0 /\ faults' = faults - 1

Init ==
  /\ index = <<>>
  /\ checkpoint = None
  /\ manifest = None
  /\ pc = "idle"
  /\ req \in Requests
  /\ resumeFrom = None
  /\ toAppend = {}
  /\ regions = {}
  /\ region = NoRegion
  /\ indexGood = TRUE
  /\ interrupted = FALSE
  /\ result = "none"
  /\ scannedUpTo = 0
  /\ artifacts = NoArtifacts
  /\ outcome = "none"
  /\ faults = MaxFaults

(* The process is gone, and with it all that was not on disk. *)
Exit(ending) ==
  /\ pc' = "idle"
  /\ outcome' = ending
  /\ resumeFrom' = None
  /\ toAppend' = {}
  /\ regions' = {}
  /\ region' = NoRegion
  /\ indexGood' = TRUE
  /\ interrupted' = FALSE
  /\ result' = "none"
  /\ scannedUpTo' = 0

(***************************************************************************)
(* Opening the session.                                                    *)
(***************************************************************************)

runRecovery(r) ==
  /\ pc = "idle"
  /\ pc' = "open"
  /\ req' = r
  /\ outcome' = "running"
  /\ artifacts' = NoArtifacts
  /\ UNCHANGED <<session, manifest, scan, interrupted, faults>>

(* The source, the destination, the partition or the session directory is
   refused before the session is touched. *)
refused ==
  /\ pc = "open"
  /\ Fault("refuse")
  /\ \E code \in {"kNotFound", "kDestinationOnSource", "kIoFailure"} : Exit(outcomeOf(code))
  /\ UNCHANGED <<session, manifest, req, artifacts>>

(* The checkpoint is this command's, and the index still holds its records. *)
resumable ==
  /\ checkpoint # None
  /\ checkpoint.shape = shapeOf(req)
  /\ checkpoint.records <= Len(index)

(* Mutant of continuedSession: a resumed walk reports its entries again. *)
continuedSession_reindexes ==
  /\ pc = "open"
  /\ resumable
  /\ index' = SubSeq(index, 1, checkpoint.records)
  /\ resumeFrom' = checkpoint.cursor
  /\ toAppend' = entriesOf(req)
  /\ pc' = "walk"
  /\ UNCHANGED <<checkpoint, manifest, req, regions, region, indexGood,
                 interrupted, result, scannedUpTo, artifacts, outcome, faults>>

(* Mutant of continuedSession: the index is appended to as it stands. *)
continuedSession_untruncated ==
  /\ pc = "open"
  /\ resumable
  /\ resumeFrom' = checkpoint.cursor
  /\ pc' = "walk"
  /\ UNCHANGED <<session, manifest, req, toAppend, regions, region, indexGood,
                 interrupted, result, scannedUpTo, artifacts, outcome, faults>>

(* The index is cut back to the checkpoint, and the scan will start there. *)
continuedSession ==
  /\ pc = "open"
  /\ resumable
  /\ index' = SubSeq(index, 1, checkpoint.records)
  /\ resumeFrom' = checkpoint.cursor
  /\ pc' = "walk"
  /\ UNCHANGED <<checkpoint, manifest, req, toAppend, regions, region, indexGood,
                 interrupted, result, scannedUpTo, artifacts, outcome, faults>>

(* No checkpoint, another run's, or an index that cannot be reopened. *)
clearCheckpoint ==
  /\ pc = "open"
  /\ \/ ~resumable /\ UNCHANGED faults
     \/ Fault("session")
  /\ checkpoint' = None
  /\ pc' = "fresh"
  /\ UNCHANGED <<index, manifest, req, scan, interrupted, artifacts, outcome>>

freshSession ==
  /\ pc = "fresh"
  /\ index' = <<>>
  /\ toAppend' = entriesOf(req)
  /\ pc' = "walk"
  /\ UNCHANGED <<checkpoint, manifest, req, resumeFrom, regions, region, indexGood,
                 interrupted, result, scannedUpTo, artifacts, outcome, faults>>

(* The scan ended with res; what is left of it no longer matters. *)
ScanEnds(res) ==
  /\ pc' = "decide"
  /\ result' = res
  /\ toAppend' = {}
  /\ region' = NoRegion

createFails ==
  /\ pc = "fresh"
  /\ Fault("session")
  /\ index' = <<>>
  /\ ScanEnds("kIoFailure")
  /\ UNCHANGED <<checkpoint, manifest, req, resumeFrom, regions, indexGood,
                 interrupted, scannedUpTo, artifacts, outcome>>

(***************************************************************************)
(* The two passes.  A resumed walk reports to DroppingVisitor: nothing.    *)
(***************************************************************************)

(* IndexingVisitors: one finding appended.  A refused append is counted, and
   the failed stream refuses every later one. *)
append ==
  /\ pc \in {"walk", "chunk"}
  /\ \E x \in toAppend :
       /\ toAppend' = toAppend \ {x}
       /\ \/ /\ indexGood
             /\ index' = Append(index, x)
             /\ UNCHANGED <<indexGood, faults>>
          \/ /\ indexGood
             /\ Fault("append")
             /\ indexGood' = FALSE
             /\ UNCHANGED index
          \/ /\ ~indexGood
             /\ UNCHANGED <<index, indexGood, faults>>
  /\ UNCHANGED <<checkpoint, manifest, pc, req, resumeFrom, regions, region,
                 interrupted, result, scannedUpTo, artifacts, outcome>>

ResumeCursor == IF resumeFrom = None THEN 0 ELSE resumeFrom

(* The walk is over.  One that failed ends a filesystem-only run and leaves any
   other with nothing accounted for. *)
walkScope ==
  /\ pc = "walk"
  /\ toAppend = {}
  /\ IF req.mode = "fsOnly" /\ req.scope \notin Mounts
     THEN ScanEnds("kNotFound") /\ UNCHANGED regions
     ELSE /\ regions' = carveRegions(req, accountedBy(req), ResumeCursor)
          /\ pc' = "scan"
          /\ UNCHANGED <<toAppend, region, result>>
  /\ UNCHANGED <<session, manifest, req, resumeFrom, indexGood, interrupted,
                 scannedUpTo, artifacts, outcome, faults>>

(* The volume is being mounted: no entry has been reported yet. *)
Mounting == pc = "walk" /\ (resumeFrom = None => toAppend = entriesOf(req))

(* A volume that usually mounts does not: its boot region came back as zeros. *)
mountFailure ==
  /\ Mounting
  /\ req.mode # "carveOnly"
  /\ req.scope \notin Partitioned
  /\ Fault("mount")
  /\ IF req.mode = "fsOnly"
     THEN ScanEnds("kNotFound") /\ UNCHANGED regions
     ELSE /\ regions' = carveRegions(req, {}, ResumeCursor)
          /\ pc' = "scan"
          /\ toAppend' = {}
          /\ UNCHANGED <<region, result>>
  /\ UNCHANGED <<session, manifest, req, resumeFrom, indexGood, interrupted,
                 scannedUpTo, artifacts, outcome>>

(* The pass succeeds with some of the entries.  Each is accounted for and then
   reported, so a fresh walk accounts for what it has reported; a resumed one, which
   reports nothing, for any of them. *)
WalkFallsShort ==
  /\ \E met \in SUBSET entriesOf(req) :
       /\ resumeFrom = None => met = entriesOf(req) \ toAppend
       /\ regions' = carveRegions(req, claimedBy(met), ResumeCursor)
  /\ pc' = "scan"
  /\ toAppend' = {}
  /\ UNCHANGED <<session, manifest, req, resumeFrom, region, indexGood, interrupted, result,
                 scannedUpTo, artifacts, outcome>>

(* enumerateDisk passes over a partition whose walk fails, because it will not
   mount or because the source went away. *)
walkOneFails ==
  /\ pc = "walk"
  /\ req.mode # "carveOnly"
  /\ req.scope \in Partitioned
  /\ Fault("mount") \/ Fault("source")
  /\ WalkFallsShort

(* A mounted volume's walk passes over a directory or a record it cannot read,
   unless the error is kIoFailure; RetryingDevice says kSourceLost. *)
skipUnreadableDirectory ==
  /\ pc = "walk"
  /\ req.mode # "carveOnly"
  /\ req.scope \in Mounts
  /\ Fault("directory")
  /\ WalkFallsShort

(* The source goes away while a volume is mounted or a chunk is scanned: the run
   ends, the session stands. *)
sourceLost ==
  /\ \/ Mounting /\ req.mode # "carveOnly" /\ req.scope \notin Partitioned
     \/ pc = "chunk"
  /\ Fault("source")
  /\ ScanEnds("kSourceLost")
  /\ UNCHANGED <<session, manifest, req, resumeFrom, regions, indexGood, interrupted,
                 scannedUpTo, artifacts, outcome>>

(* The next chunk in device order. *)
scanNextRegion ==
  /\ pc = "scan"
  /\ \E g \in regions :
       /\ \A h \in regions : g.start <= h.start
       /\ region' = g
       /\ toAppend' = Findings(req.scope, req.formats, g)
  /\ pc' = "chunk"
  /\ UNCHANGED <<session, manifest, req, resumeFrom, regions, indexGood, interrupted,
                 result, scannedUpTo, artifacts, outcome, faults>>

(* withoutLostRecords over stoppedShort: how a scan that returned ended. *)
scanResult(good, left) ==
  IF ~good THEN "kIoFailure" ELSE IF left = {} THEN "complete" ELSE "incomplete"

(* A chunk is done: the checkpoint says so, and then the interrupt is asked. *)
onScanned ==
  /\ pc = "chunk"
  /\ toAppend = {}
  /\ checkpoint' = [shape |-> shapeOf(req), cursor |-> region.end, records |-> Len(index)]
  /\ regions' = regions \ {region}
  /\ scannedUpTo' = region.end
  /\ IF interrupted
     THEN ScanEnds(scanResult(indexGood, regions'))
     ELSE pc' = "scan" /\ region' = NoRegion /\ UNCHANGED <<toAppend, result>>
  /\ UNCHANGED <<index, manifest, req, resumeFrom, indexGood, interrupted, artifacts,
                 outcome, faults>>

(* The checkpoint could not be replaced: the old one stands, the run stops. *)
onScannedUnwritable ==
  /\ pc = "chunk"
  /\ toAppend = {}
  /\ Fault("checkpoint")
  /\ ScanEnds("kIoFailure")
  /\ UNCHANGED <<session, manifest, req, resumeFrom, regions, indexGood, interrupted,
                 scannedUpTo, artifacts, outcome>>

scanRegions ==
  /\ pc = "scan"
  /\ regions = {}
  /\ ScanEnds(scanResult(indexGood, regions))
  /\ UNCHANGED <<session, manifest, req, resumeFrom, regions, indexGood, interrupted,
                 scannedUpTo, artifacts, outcome, faults>>

(***************************************************************************)
(* Deciding and delivering.                                                *)
(***************************************************************************)

CheckpointCursor == IF checkpoint = None THEN 0 ELSE checkpoint.cursor

(* How far the scan got, by its own account or by the checkpoint's. *)
scannedUpToOf(res) == IF res = "incomplete" THEN scannedUpTo ELSE CheckpointCursor

withoutArtifacts(ending, upTo) ==
  [outcome |-> ending, scannedUpTo |-> upTo, artifacts |-> NoArtifacts]

(* A scan that did not finish is written down and reported; one that could not
   start is only reported. *)
stopped ==
  /\ pc = "decide"
  /\ result # "complete"
  /\ \/ /\ endingOf(result) = "did-not-start"
        /\ Exit("did-not-start")
        /\ UNCHANGED <<manifest, faults>>
     \/ /\ endingOf(result) # "did-not-start"
        /\ manifest' = withoutArtifacts(endingOf(result), scannedUpToOf(result))
        /\ Exit(endingOf(result))
        /\ UNCHANGED faults
     \/ /\ endingOf(result) # "did-not-start"
        /\ Fault("manifest")
        /\ Exit("stopped-needs-attention")
        /\ UNCHANGED manifest
  /\ UNCHANGED <<session, req, artifacts>>

(* Mutant of arbitrateIndexFails: an index that is just full is refused. *)
arbitrateIndexFails_atCap ==
  /\ pc = "decide"
  /\ result = "complete"
  /\ Len(index) >= MaxIndexed
  /\ Exit("stopped-needs-attention")
  /\ UNCHANGED <<session, manifest, req, artifacts, faults>>

(* arbitrateIndex refuses an index of more records than it may materialize, or
   finds a file that is not one.  No manifest is written. *)
arbitrateIndexFails ==
  /\ pc = "decide"
  /\ result = "complete"
  /\ \/ Len(index) > MaxIndexed /\ Exit(outcomeOf("kOutOfRange")) /\ UNCHANGED faults
     \/ Fault("session") /\ Exit(outcomeOf("kInvalidArgument"))
  /\ UNCHANGED <<session, manifest, req, artifacts>>

Found == {index[i] : i \in DOMAIN index}

(* Mutant of reserve: the first file is written before any manifest is. *)
reserve_unannounced ==
  /\ pc = "decide"
  /\ result = "complete"
  /\ Len(index) <= MaxIndexed
  /\ artifacts' = [w \in Winners(Found) |-> "notAttempted"]
  /\ pc' = "deliver"
  /\ UNCHANGED <<session, manifest, req, scan, interrupted, outcome, faults>>

(* The winners are decided, and the manifest says a run is under way, before
   the first byte of the first file. *)
reserve ==
  /\ pc = "decide"
  /\ result = "complete"
  /\ Len(index) <= MaxIndexed
  /\ \/ /\ manifest' = withoutArtifacts("in-progress", scannedUpTo)
        /\ artifacts' = [w \in Winners(Found) |-> "notAttempted"]
        /\ pc' = "deliver"
        /\ UNCHANGED <<scan, interrupted, outcome, faults>>
     \/ /\ Fault("manifest")
        /\ Exit("stopped-needs-attention")
        /\ UNCHANGED <<manifest, artifacts>>
  /\ UNCHANGED <<session, req>>

(* writeOne: one winner is written, or fails, or ends the extraction. *)
writeOne ==
  /\ pc = "deliver"
  /\ req.delivery = "extract"
  /\ \E w \in DOMAIN artifacts :
       /\ artifacts[w] = "notAttempted"
       /\ \/ /\ artifacts' = [artifacts EXCEPT ![w] = "written"]
             /\ UNCHANGED <<pc, result, faults>>
          \/ /\ Fault("extract")
             /\ artifacts' = [artifacts EXCEPT ![w] = "failed"]
             /\ \/ UNCHANGED <<pc, result>>
                \/ /\ result' \in {"kStorageExhausted", "kSourceLost"}
                   /\ pc' = "record"
  /\ UNCHANGED <<session, manifest, req, resumeFrom, toAppend, regions, region,
                 indexGood, scannedUpTo, interrupted, outcome>>

(* Every winner had its turn; in a preview, the turn is only to be named, and a
   name no path can be made of is a failure there too. *)
delivered ==
  /\ pc = "deliver"
  /\ \/ /\ req.delivery = "preview"
        /\ artifacts' \in [DOMAIN artifacts -> {"previewed", "failed"}]
     \/ /\ req.delivery = "extract"
        /\ \A w \in DOMAIN artifacts : artifacts[w] # "notAttempted"
        /\ UNCHANGED artifacts
  /\ pc' = "record"
  /\ UNCHANGED <<session, manifest, req, scan, interrupted, outcome, faults>>

(* The manifest first, the failure second. *)
recorded ==
  /\ pc = "record"
  /\ LET ending == IF result = "complete" THEN "finished" ELSE outcomeOf(result)
     IN  \/ /\ manifest' = [outcome |-> ending, scannedUpTo |-> scannedUpTo,
                            artifacts |-> artifacts]
            /\ Exit(ending)
            /\ UNCHANGED faults
         \/ /\ Fault("manifest")
            /\ Exit("stopped-needs-attention")
            /\ UNCHANGED manifest
  /\ UNCHANGED <<session, req, artifacts>>

(***************************************************************************)
(* The operator and the machine.                                           *)
(***************************************************************************)

(* Ctrl-C: a flag the run reads between chunks. *)
onInterrupt ==
  /\ pc # "idle"
  /\ ~interrupted
  /\ Fault("interrupt")
  /\ interrupted' = TRUE
  /\ UNCHANGED <<session, manifest, pc, req, scan, artifacts, outcome>>

killed ==
  /\ pc # "idle"
  /\ Fault("kill")
  /\ Exit("killed")
  /\ UNCHANGED <<session, manifest, req, artifacts>>

(* What the process does by itself, faults included. *)
Step ==
  \/ refused
  \/ continuedSession
  \/ clearCheckpoint
  \/ freshSession
  \/ createFails
  \/ append
  \/ walkScope
  \/ mountFailure
  \/ walkOneFails
  \/ skipUnreadableDirectory
  \/ sourceLost
  \/ scanNextRegion
  \/ onScanned
  \/ onScannedUnwritable
  \/ scanRegions
  \/ stopped
  \/ arbitrateIndexFails
  \/ reserve
  \/ writeOne
  \/ delivered
  \/ recorded

Next ==
  \/ \E r \in Requests : runRecovery(r)
  \/ Step
  \/ onInterrupt
  \/ killed

Spec == Init /\ [][Next]_vars

(* The process keeps running while it can, and the operator keeps giving commands:
   which ones is open. *)
FairSpec ==
  /\ Spec
  /\ WF_vars(Step)
  /\ WF_vars(\E r \in Requests : runRecovery(r))

(***************************************************************************)
(* Properties.                                                             *)
(***************************************************************************)

TypeOK ==
  /\ index \in Seq(Items)
  /\ checkpoint # None => checkpoint \in Checkpoints
  /\ manifest # None =>
       /\ manifest.outcome \in Endings \union {"in-progress"}
       /\ manifest.scannedUpTo \in Nat
       /\ DOMAIN manifest.artifacts \subseteq Items
  /\ pc \in {"idle", "open", "fresh", "walk", "scan", "chunk", "decide", "deliver", "record"}
  /\ req \in Requests
  /\ resumeFrom # None => resumeFrom \in Nat
  /\ toAppend \subseteq Items
  /\ regions \subseteq Regions(SizeOf[req.scope])
  /\ region \in Regions(SizeOf[req.scope]) \union {NoRegion}
  /\ indexGood \in BOOLEAN
  /\ interrupted \in BOOLEAN
  /\ result \in Codes \union {"none", "complete", "incomplete"}
  /\ scannedUpTo \in Nat
  /\ artifacts \in [DOMAIN artifacts -> Statuses]
  /\ DOMAIN artifacts \subseteq Items
  /\ outcome \in Endings \union {"none", "running", "killed"}
  /\ faults \in 0..MaxFaults

(* What a run of r that nothing disturbs has discovered once its carve pass has
   reached the given byte. *)
ChunksOf(r) == carveRegions(r, accountedBy(r), 0)

CarvedIn(r, chunks) == UNION {Findings(r.scope, r.formats, g) : g \in chunks}

Discovered(r, upTo) ==
  entriesOf(r) \union CarvedIn(r, {g \in ChunksOf(r) : g.end <= upTo})

(* s holds every member of S, once, and nothing else. *)
Lists(s, S) ==
  /\ \A i, j \in 1..Len(s) : s[i] = s[j] => i = j
  /\ S = {s[i] : i \in 1..Len(s)}

(* The checkpoint on disk is exact, whatever was interrupted, killed or refused
   around it, in this run or in another: the records it names are what an
   undisturbed run of its command would hold at that byte, with no entry of the
   filesystem pass or of a rescanned chunk twice and none missing
   (Session.cpp, ScanRegions.cpp, the DroppingVisitor of HybridRecovery.cpp). *)
CheckpointExact ==
  checkpoint # None =>
    \A r \in Requests : shapeOf(r) = checkpoint.shape =>
      /\ checkpoint.records <= Len(index)
      /\ Lists(SubSeq(index, 1, checkpoint.records), Discovered(r, checkpoint.cursor))

(* What a winner's turn can come to. *)
Turns(r) == IF r.delivery = "preview" THEN {"previewed", "failed"} ELSE {"written", "failed"}

(* A run that exits 0 decided over exactly what an undisturbed run of the same
   command discovers, gave every winner of it its turn, and its manifest says
   so. *)
FinishedIsExact ==
  outcome = "finished" =>
    LET all == Discovered(req, SizeOf[req.scope])
    IN  /\ Lists(index, all)
        /\ DOMAIN artifacts = Winners(all)
        /\ \A w \in DOMAIN artifacts : artifacts[w] \in Turns(req)
        /\ manifest.outcome = "finished"
        /\ manifest.artifacts = artifacts

(* The manifest on disk says a run is under way, or states what became of each
   winner this run wrote, whole or in part. *)
Accounts ==
  (\E w \in DOMAIN artifacts : artifacts[w] \in {"written", "failed"}) =>
    /\ manifest # None
    /\ manifest.outcome = "in-progress" \/ manifest.artifacts = artifacts

(* No file goes unaccounted for (RunDelivery.cpp: "files nothing accounts for are
   the one outcome worse than stopping"); and a stop without artifacts and the
   next run agree about the same byte: the manifest states the cursor a resumed
   run will start from, whether it was taken from the scan's own totals or from
   the checkpoint (RunDelivery.cpp scannedUpTo). *)
ManifestIsTrue ==
  [][ /\ Accounts'
      /\ manifest' # manifest /\ manifest'.outcome \in Endings /\ pc = "decide" =>
           manifest'.scannedUpTo = CheckpointCursor ]_vars

(* A checkpoint is only ever replaced by one of the same command that is further
   along and keeps every record; anything else goes through clearCheckpoint. *)
CheckpointAdvances ==
  [][ checkpoint # None /\ checkpoint' # None =>
        /\ checkpoint'.shape = checkpoint.shape
        /\ checkpoint'.cursor > checkpoint.cursor
        /\ checkpoint'.records >= checkpoint.records ]_checkpoint

Log == INSTANCE CheckpointedLog
         WITH Candidates <- Items,
              log   <- index,
              saved <- IF checkpoint = None THEN None ELSE checkpoint.records,
              open  <- pc \in {"walk", "scan", "chunk", "decide"}

(* The runs use the index as the log CandidateIndex implements, and progress is
   never given back. *)
SessionIsALog == Log!Spec /\ CheckpointAdvances

(* What a run of r discovers can be read back, and decided over. *)
Recoverable(r) ==
  /\ r.mode = "fsOnly" => r.scope \in Mounts
  /\ Cardinality(Discovered(r, SizeOf[r.scope])) <= MaxIndexed

(* The session holds more than arbitrateIndex reads.  Re-running the command resumes
   it as it is. *)
Overfull == checkpoint # None /\ checkpoint.records > MaxIndexed

(* Whatever was interrupted, killed, lost or refused before, under this command or
   another, a recovery that can be completed is completed by giving its command, and no
   other, again and again; the one exception is a session that a walk falling short has
   left overfull (see ExitThreeCarriesOn).  Session.cpp, HybridRecovery.cpp. *)
EventuallyFinishes ==
  \A r \in Requests : Recoverable(r) /\ <>[](req = r) => []<>(outcome = "finished") \/ <>[]Overfull

(* What cli/RunOutcome.hpp says of exit code 3 ("Stopped early, and re-running the same
   command carries on: an interrupt, or a source that went away.  Nothing needs fixing
   first."): when nothing goes wrong any more, giving that command, and no other, comes
   to exit 0.  The code does not keep this: a re-run may leave the session overfull. *)
ExitThreeCarriesOn ==
  \A r \in Requests : Recoverable(r) =>
    [](outcome = "stopped-resumable" /\ faults = 0 /\ [](req = r) => <>(outcome = "finished"))

(***************************************************************************)
(* The inductive invariant behind CheckpointExact and FinishedIsExact.     *)
(***************************************************************************)

(* No two commands that scan different scopes share a shape. *)
ShapesSeparate ==
  \A r, q \in Requests : shapeOf(r) = shapeOf(q) => r.scope = q.scope

(* A process that has not opened its session holds nothing of it. *)
BeforeSession ==
  /\ pc \in {"idle", "open", "fresh"} =>
       regions = {} /\ region = NoRegion /\ toAppend = {} /\ resumeFrom = None
  /\ pc = "walk" => regions = {} /\ region = NoRegion
  /\ pc = "fresh" => checkpoint = None

(* The checkpoint is exact, and its cursor is the end of one of the chunks. *)
CheckpointInv ==
  /\ CheckpointExact
  /\ checkpoint # None =>
       \A r \in Requests : shapeOf(r) = checkpoint.shape =>
         \E g \in ChunksOf(r) : g.end = checkpoint.cursor

(* During the walk the index holds the entries reported so far, or, in a
   resumed session, what the checkpoint names. *)
WalkInv ==
  pc = "walk" =>
    IF resumeFrom = None
    THEN /\ checkpoint = None
         /\ toAppend \subseteq entriesOf(req)
         /\ Lists(index, entriesOf(req) \ toAppend)
    ELSE /\ checkpoint # None
         /\ checkpoint.shape = shapeOf(req)
         /\ resumeFrom = checkpoint.cursor
         /\ checkpoint.records = Len(index)
         /\ toAppend = {}

(* What is left to scan is the tail of the chunks of an undisturbed run. *)
ChunksInv ==
  pc \in {"scan", "chunk"} =>
    /\ regions \subseteq ChunksOf(req)
    /\ \A g \in ChunksOf(req) \ regions : \A h \in regions : g.end <= h.start
    /\ checkpoint # None => /\ checkpoint.shape = shapeOf(req)
                            /\ checkpoint.records <= Len(index)

(* The index lists what the chunks done hold, and in a chunk what it has
   yielded so far. *)
ScanInv ==
  /\ pc = "scan" =>
       Lists(index, entriesOf(req) \union CarvedIn(req, ChunksOf(req) \ regions))
  /\ pc = "chunk" =>
       /\ region \in regions
       /\ \A h \in regions : region.start <= h.start
       /\ toAppend \subseteq Findings(req.scope, req.formats, region)
       /\ Lists(index, entriesOf(req) \union CarvedIn(req, ChunksOf(req) \ regions)
                         \union (Findings(req.scope, req.formats, region) \ toAppend))

(* A scan that returned complete has everything, and delivery follows it. *)
DecisionInv ==
  /\ pc \in {"decide", "deliver", "record"} /\ result = "complete" =>
       Lists(index, Discovered(req, SizeOf[req.scope]))
  /\ pc = "deliver" => /\ result = "complete"
                       /\ \A w \in DOMAIN artifacts : artifacts[w] # "previewed"
  /\ pc \in {"deliver", "record"} =>
       /\ result = "complete" => DOMAIN artifacts = Winners(Discovered(req, SizeOf[req.scope]))
       /\ pc = "record" /\ result = "complete" =>
            \A w \in DOMAIN artifacts : artifacts[w] \in Turns(req)

FinishedInv == FinishedIsExact /\ (outcome = "finished" => pc = "idle")

RunInv ==
  /\ TypeOK
  /\ BeforeSession
  /\ indexGood
  /\ CheckpointInv
  /\ WalkInv
  /\ ChunksInv
  /\ ScanInv
  /\ DecisionInv
  /\ FinishedInv

(***************************************************************************)
(* The inductive invariants behind ManifestIsTrue and SessionIsALog.  They *)
(* hold whatever goes wrong, so they say less of what the index holds.     *)
(***************************************************************************)

(* Files are only written under a manifest that announces them, and a scan that
   stopped between chunks has its own cursor in the checkpoint. *)
ManifestInv ==
  /\ Accounts
  /\ pc \in {"open", "fresh", "walk", "scan", "chunk", "decide"} => artifacts = NoArtifacts
  /\ pc \in {"deliver", "record"} => manifest # None /\ manifest.outcome = "in-progress"
  /\ pc = "decide" /\ result = "incomplete" =>
       checkpoint # None /\ checkpoint.cursor = scannedUpTo

(* The checkpoint a running scan works under is its own command's, and lies
   before everything the scan has still to do. *)
AdvanceInv ==
  /\ pc = "walk" => IF resumeFrom = None THEN checkpoint = None
                    ELSE checkpoint # None /\ resumeFrom = checkpoint.cursor
  /\ pc \in {"walk", "scan", "chunk"} /\ checkpoint # None =>
       checkpoint.shape = shapeOf(req) /\ checkpoint.records <= Len(index)
  /\ pc \in {"scan", "chunk"} =>
       /\ \A g, h \in regions : g = h \/ Apart(g, h)
       /\ checkpoint # None => \A h \in regions : checkpoint.cursor <= h.start
  /\ pc = "chunk" => region \in regions /\ \A h \in regions : region.start <= h.start

=============================================================================
