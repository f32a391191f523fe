----------------------------- MODULE RecoverySink -----------------------------
(***************************************************************************)
(* Writing the winners down (recovery/RecoverySink.cpp and the naming and  *)
(* copying under it: WriteOrder, OutputName, Disambiguate, OutputPath,     *)
(* ExtractFile, StorageRoom), and the marking of what the device would not *)
(* give up (recovery/Damage.cpp, cli/RunDamage.cpp).  An operator may      *)
(* preview and extract the same winners into one destination many times.   *)
(*                                                                         *)
(* A name is [stem, suffix]: what the parser or the carver proposed, and   *)
(* the numbers disambiguation put after it (0 is the overflow form).  A    *)
(* path is a name whose stem is in its safe form.                          *)
(***************************************************************************)
EXTENDS Naturals, FiniteSets, SequencesExt

CONSTANTS
  ScopeSize,      \* the length of the run's scope
  StartBytes,     \* where the scope begins on the device
  Device,         \* Device[b]: the byte at b of the scope
  Unreadable,     \* the bytes of the scope the device may hand back as zeros
  PlainTags,      \* the carvers' extensions that may become a directory
  Safe,           \* Safe[stem]: the stem sanitizeOutputPath makes of it, or Refused
  Full,           \* the stems whose path has no room left for a suffix
  kMaxDisambiguationAttempts,
  MaxSinkFaults,  \* bound of the model: refused opens, writes, reads, removes
  MaxDeliveries,  \* bound of the model: runs over the destination
  Refused, Partial, None

ASSUME SinkAssumption ==
  /\ ScopeSize \in Nat /\ StartBytes \in Nat
  /\ Device \in [0..(ScopeSize - 1) -> Nat]
  /\ Unreadable \subseteq DOMAIN Device
  /\ kMaxDisambiguationAttempts \in Nat
  /\ MaxSinkFaults \in Nat /\ MaxDeliveries \in Nat
  \* A copy past the end comes up short only where the last byte reads: behind an
  \* unreadable one RetryingDevice fills up the sector with zeros.
  /\ ScopeSize - 1 \notin Unreadable

VARIABLES
  delivery,    \* "none", "extract" or "preview"
  todo,        \* the winners whose turn has not come: [winner, ordinal]
  used,        \* used_
  written,     \* written_
  artifacts,   \* result_.artifacts
  stoppedBy,   \* result_.stoppedBy
  files,       \* the destination: from path to content
  damage,      \* the bad-sector map of the run's source stack, in device bytes
  foretold,    \* the artifacts of the last preview
  unremoved,   \* a duplicate of this delivery could not be removed
  sinkFaults,  \* how many more things may be refused
  deliveries   \* how many runs may still begin

sinkVars == <<delivery, todo, used, written, artifacts, stoppedBy, files, damage,
              foretold, unremoved, sinkFaults, deliveries>>

SinkInit ==
  /\ delivery = "none"
  /\ todo = <<>>
  /\ used = {}
  /\ written = {}
  /\ artifacts = <<>>
  /\ stoppedBy = None
  /\ files = [p \in {} |-> <<>>]
  /\ damage = {}
  /\ foretold = <<>>
  /\ unremoved = FALSE
  /\ sinkFaults = MaxSinkFaults
  /\ deliveries = MaxDeliveries

(* The winners of one source, each with the ordinal it has in device order. *)
ofSource(winners, source) ==
  LET ordered[i \in 0..Len(winners)] ==
        IF i = 0
        THEN <<>>
        ELSE IF winners[i].source = source
             THEN Append(ordered[i - 1], [winner |-> winners[i], ordinal |-> i - 1])
             ELSE ordered[i - 1]
  IN ordered[Len(winners)]

(* Named artifacts go first, so that a carved duplicate arrives second. *)
orderedForWriting(winners) == ofSource(winners, "filesystem") \o ofSource(winners, "carve")

bucketOf(c) == IF c.name \in PlainTags THEN c.name ELSE "bin"

(* A filesystem entry brings its name; a carved file is called by its number. *)
outputNameFor(o) ==
  IF o.winner.source = "filesystem"
  THEN o.winner.name
  ELSE [stem |-> <<"carved", bucketOf(o.winner), o.ordinal>>, suffix |-> <<>>]

(* Only what the cleaning does to different names is kept: a stem is refused
   or has a safe form, which another stem may share, and a suffix may make a
   segment too long. *)
collectSegments(name) ==
  IF name.stem \in Full /\ name.suffix # <<>> THEN Refused ELSE Safe[name.stem]

sanitizeOutputPath(name) ==
  IF collectSegments(name) = Refused
  THEN Refused
  ELSE [stem |-> collectSegments(name), suffix |-> name.suffix]

numberedCandidate(name, n) == [name EXCEPT !.suffix = Append(@, n)]

(* The first free number, and the overflow form once they are all taken: that
   one is not checked. *)
disambiguate(name, taken) ==
  LET free == {n \in 2..(kMaxDisambiguationAttempts + 1) :
                 numberedCandidate(name, n) \notin taken}
  IN IF name \notin taken THEN name
     ELSE IF free # {} THEN numberedCandidate(name, Min(free))
     ELSE numberedCandidate(name, 0)

(* Mutant of claimedName: nothing is taken. *)
claimedName_unchecked(o) == disambiguate(outputNameFor(o), {})

claimedName(o) == disambiguate(outputNameFor(o), used)

(* Whether the proposed name has a safe form at all: nothing is claimed of one
   that has none. *)
Nameable(o) == sanitizeOutputPath(outputNameFor(o)) # Refused

(* The device bytes of an extent, placed on the device. *)
BytesOfExtent(x) == x.deviceOffset..(x.deviceOffset + x.lengthBytes - 1)

SourceBytes(c) == UNION {BytesOfExtent(c.extents[i]) : i \in DOMAIN c.extents}

(* What the copy puts in the file when the bytes of lost come back as zeros. *)
contentOf(c, lost) ==
  LET readOne(b) == IF b \in lost THEN 0 ELSE Device[b]
      readExtent(x) == [i \in 1..x.lengthBytes |-> readOne(x.deviceOffset + i - 1)]
  IN IF c.extents = <<>> THEN c.resident
     ELSE FlattenSeq([i \in DOMAIN c.extents |-> readExtent(c.extents[i])])

recordFor(c, outcome) ==
  [winner |-> c, outcome |-> outcome, path |-> None, name |-> None,
   content |-> <<>>, lost |-> {}, invented |-> {}]

endsTheRun(code) == code \in {"kStorageExhausted", "kSourceLost"}

(* A sink is made for one delivery: its names and digests are its own, the
   damage is what the scan before it met. *)
open(winners, how) ==
  /\ delivery = "none" /\ deliveries > 0
  /\ deliveries' = deliveries - 1
  /\ delivery' = how
  /\ todo' = orderedForWriting(winners)
  /\ used' = {}
  /\ written' = {}
  /\ artifacts' = <<>>
  /\ stoppedBy' = None
  /\ damage' \in SUBSET {b + StartBytes : b \in Unreadable}
  /\ unremoved' = FALSE
  /\ UNCHANGED <<files, foretold, sinkFaults>>

Extracting == delivery = "extract" /\ todo # <<>> /\ stoppedBy = None

(* One of the refusals the operating system may answer with. *)
Refusal == sinkFaults > 0 /\ sinkFaults' = sinkFaults - 1

(* The turn of the next winner is over, and it could not be written. *)
writeFailed(o, code) ==
  /\ artifacts' = Append(artifacts, recordFor(o.winner, "failed"))
  /\ stoppedBy' = IF endsTheRun(code) THEN code ELSE None
  /\ todo' = Tail(todo)
  /\ UNCHANGED <<delivery, written, foretold, unremoved, deliveries>>

(* Nothing safe survives of the name, or of the name with its number. *)
unsafeName ==
  LET o == Head(todo)
  IN /\ Extracting
     /\ ~Nameable(o) \/ sanitizeOutputPath(claimedName(o)) = Refused
     /\ used' = IF Nameable(o) THEN used \cup {claimedName(o)} ELSE used
     /\ writeFailed(o, "kInvalidArgument")
     /\ UNCHANGED <<files, damage, sinkFaults>>

(* The name is claimed, and there is a path to write to. *)
Claimed(o) ==
  /\ Extracting
  /\ Nameable(o) /\ sanitizeOutputPath(claimedName(o)) # Refused
  /\ used' = used \cup {claimedName(o)}

Leaves(path, content) ==
  files' = [p \in DOMAIN files \cup {path} |-> IF p = path THEN content ELSE files[p]]

Erases(path) == files' = [p \in DOMAIN files \ {path} |-> files[p]]

(* The target cannot be opened: writeFailureAt asks whether there is room. *)
openFails ==
  LET o == Head(todo)
  IN /\ Claimed(o) /\ Refusal
     /\ \E code \in {"kIoFailure", "kStorageExhausted"} : writeFailed(o, code)
     /\ UNCHANGED <<files, damage>>

(* Bytes past the end of the scope come back short. *)
ReachesPastTheEnd(c) == \E i \in DOMAIN c.extents :
  c.extents[i].deviceOffset + c.extents[i].lengthBytes > ScopeSize

(* The copy of an extent that fails does not stop the next one, and the last
   failure is the one reported; what was copied stays in the file. *)
shortRead ==
  LET o == Head(todo)
  IN /\ Claimed(o)
     /\ ReachesPastTheEnd(o.winner)
     /\ Leaves(sanitizeOutputPath(claimedName(o)), Partial)
     /\ writeFailed(o, "kOutOfRange")
     /\ \E lost \in SUBSET (SourceBytes(o.winner) \cap Unreadable) :
          damage' = damage \cup {b + StartBytes : b \in lost}
     /\ UNCHANGED sinkFaults

sourceLost ==
  LET o == Head(todo)
  IN /\ Claimed(o) /\ Refusal
     /\ o.winner.extents # <<>>
     /\ Leaves(sanitizeOutputPath(claimedName(o)), Partial)
     /\ \E code \in {"kSourceLost"}
                 \cup (IF ReachesPastTheEnd(o.winner) THEN {"kOutOfRange"} ELSE {}) :
          writeFailed(o, code)
     /\ \E lost \in SUBSET (SourceBytes(o.winner) \cap Unreadable) :
          damage' = damage \cup {b + StartBytes : b \in lost}

flushFails ==
  LET o == Head(todo)
  IN /\ Claimed(o) /\ Refusal
     /\ ~ReachesPastTheEnd(o.winner)
     /\ Leaves(sanitizeOutputPath(claimedName(o)), Partial)
     /\ \E code \in {"kIoFailure", "kStorageExhausted"} : writeFailed(o, code)
     /\ \E lost \in SUBSET (SourceBytes(o.winner) \cap Unreadable) :
          damage' = damage \cup {b + StartBytes : b \in lost}

(* The copy succeeds, with zeros for what the device would not give up. *)
Copied(o, lost) ==
  /\ Claimed(o)
  /\ ~ReachesPastTheEnd(o.winner)
  /\ damage' = damage \cup {b + StartBytes : b \in lost}
  /\ todo' = Tail(todo)

isDuplicate(o, content) == o.winner.source = "carve" /\ content \in written

keep(o, lost) ==
  LET content == contentOf(o.winner, lost)
      path == sanitizeOutputPath(claimedName(o))
  IN /\ ~isDuplicate(o, content)
     /\ written' = written \cup {content}
     /\ Leaves(path, content)
     /\ artifacts' = Append(artifacts,
          [recordFor(o.winner, "written") EXCEPT
             !.path = path, !.name = claimedName(o), !.content = content, !.lost = lost])
     /\ UNCHANGED <<unremoved, sinkFaults>>

(* Mutant of dropIfDuplicate: the file is recorded as dropped and left there. *)
dropIfDuplicate_kept(o, lost) ==
  LET content == contentOf(o.winner, lost)
  IN /\ isDuplicate(o, content)
     /\ Leaves(sanitizeOutputPath(claimedName(o)), content)
     /\ artifacts' = Append(artifacts,
          [recordFor(o.winner, "deduplicated") EXCEPT !.content = content])
     /\ UNCHANGED <<written, unremoved, sinkFaults>>

(* A carved artifact with bytes already recovered is removed again; a refusal
   of the remove goes unnoticed. *)
dropIfDuplicate(o, lost) ==
  LET content == contentOf(o.winner, lost)
      path == sanitizeOutputPath(claimedName(o))
  IN /\ isDuplicate(o, content)
     /\ \/ Erases(path) /\ UNCHANGED <<unremoved, sinkFaults>>
        \/ Leaves(path, content) /\ Refusal /\ unremoved' = TRUE
     /\ artifacts' = Append(artifacts,
          [recordFor(o.winner, "deduplicated") EXCEPT !.content = content])
     /\ UNCHANGED written

writeOne ==
  LET o == Head(todo)
  IN /\ Extracting
     /\ \E lost \in SUBSET (SourceBytes(o.winner) \cap Unreadable) :
          /\ Copied(o, lost)
          /\ keep(o, lost) \/ dropIfDuplicate(o, lost)
     /\ UNCHANGED <<delivery, stoppedBy, foretold, deliveries>>

(* Mutant of recordNotAttempted: the winners after a stop are left out. *)
recordNotAttempted_omitted ==
  /\ stoppedBy # None /\ todo # <<>>
  /\ todo' = <<>>
  /\ UNCHANGED <<delivery, used, written, artifacts, stoppedBy, files, damage, foretold,
                 unremoved, sinkFaults, deliveries>>

recordNotAttempted ==
  /\ stoppedBy # None /\ todo # <<>>
  /\ artifacts' = artifacts
       \o [i \in DOMAIN todo |-> recordFor(todo[i].winner, "notAttempted")]
  /\ todo' = <<>>
  /\ UNCHANGED <<delivery, used, written, stoppedBy, files, damage, foretold,
                 unremoved, sinkFaults, deliveries>>

(* Mutant of previewOne: the proposed names, before any collision. *)
previewOne_proposed ==
  LET o == Head(todo)
  IN /\ delivery = "preview" /\ todo # <<>>
     /\ artifacts' = Append(artifacts,
          IF Nameable(o)
          THEN [recordFor(o.winner, "previewed") EXCEPT !.name = outputNameFor(o)]
          ELSE recordFor(o.winner, "failed"))
     /\ todo' = Tail(todo)
     /\ UNCHANGED <<delivery, used, written, stoppedBy, files, damage, foretold,
                    unremoved, sinkFaults, deliveries>>

previewOne ==
  LET o == Head(todo)
  IN /\ delivery = "preview" /\ todo # <<>>
     /\ artifacts' = Append(artifacts,
          IF Nameable(o)
          THEN [recordFor(o.winner, "previewed") EXCEPT !.name = claimedName(o)]
          ELSE recordFor(o.winner, "failed"))
     /\ used' = IF Nameable(o) THEN used \cup {claimedName(o)} ELSE used
     /\ todo' = Tail(todo)
     /\ UNCHANGED <<delivery, written, stoppedBy, files, damage, foretold,
                    unremoved, sinkFaults, deliveries>>

(* Mutant of inventedIn: the map is read as if the scope began the device. *)
inventedIn_unplaced(c) == damage \cap SourceBytes(c)

inventedIn(c) == damage \cap {b + StartBytes : b \in SourceBytes(c)}

(* The finished extraction meets the bad-sector map. *)
marked ==
  /\ delivery # "none" /\ todo = <<>>
  /\ artifacts' = [i \in DOMAIN artifacts |->
                     [artifacts[i] EXCEPT !.invented = inventedIn(artifacts[i].winner)]]
  /\ foretold' = IF delivery = "preview" THEN artifacts ELSE foretold
  /\ delivery' = "none"
  /\ UNCHANGED <<todo, used, written, stoppedBy, files, damage, unremoved,
                 sinkFaults, deliveries>>

(* The process is gone, and its records with it; the file being written is
   there in part, or not at all. *)
killed ==
  /\ delivery # "none" /\ sinkFaults > 0
  /\ \/ UNCHANGED <<files, used>>
     \/ Claimed(Head(todo)) /\ Leaves(sanitizeOutputPath(claimedName(Head(todo))), Partial)
  /\ sinkFaults' = sinkFaults - 1
  /\ delivery' = "none"
  /\ todo' = <<>>
  /\ artifacts' = <<>>
  /\ stoppedBy' = None
  /\ UNCHANGED <<written, damage, foretold, unremoved, deliveries>>

SinkStep ==
  \/ unsafeName \/ openFails \/ shortRead \/ sourceLost \/ flushFails
  \/ writeOne \/ recordNotAttempted \/ previewOne \/ marked \/ killed

------------------------------------------------------------------------------

Outcome(i, outcome) == artifacts[i].outcome = outcome

(* Every file the records call written is at its path, with the bytes its
   digest was taken of: no later winner, retry or removal has touched it
   (docs/architecture/recovery-output.md: "Collisions are renamed, not
   overwritten"); and what was dropped as a duplicate was written, under an earlier
   record of the same delivery. *)
WrittenIsThere ==
  \A i \in DOMAIN artifacts :
    /\ Outcome(i, "written") => /\ artifacts[i].path \in DOMAIN files
                                /\ files[artifacts[i].path] = artifacts[i].content
    /\ Outcome(i, "deduplicated") =>
         \E j \in 1..(i - 1) : /\ Outcome(j, "written")
                               /\ artifacts[j].content = artifacts[i].content

(* A preview names every artifact as the extraction after it does: the same
   order, the same renames (RecoverySink::preview). *)
PreviewForetells ==
  foretold # <<>> =>
    \A i \in DOMAIN artifacts :
      /\ artifacts[i].winner = foretold[i].winner
      /\ Outcome(i, "written") => artifacts[i].name = foretold[i].name

(* Once a delivery is over, every byte of a written file that the device did not
   give is marked, in device offsets, and no mark is outside what the file
   occupies. *)
InventedIsMarked ==
  delivery = "none" =>
    \A i \in DOMAIN artifacts :
      LET onDevice(bytes) == {b + StartBytes : b \in bytes}
      IN /\ onDevice(artifacts[i].lost) \subseteq artifacts[i].invented
         /\ artifacts[i].invented \subseteq onDevice(SourceBytes(artifacts[i].winner))
===============================================================================
