------------------------------- MODULE Delivery -------------------------------
(***************************************************************************)
(* Deciding and delivering (cli/RunDelivery.cpp): the winners of           *)
(* Arbitration, handed to one RecoverySink after another.                  *)
(***************************************************************************)
EXTENDS Arbitration, RecoverySink

ASSUME DeliveryAssumption ==
  /\ ScopeSize = DeviceSize
  /\ \A c \in Candidates :
       FromFilesystem(c) => c.name \in [stem : DOMAIN Safe, suffix : Seq(Nat)]

vars == <<arbitrationVars, sinkVars>>

Init == ArbitrationInit /\ SinkInit

(* deliver: a preview stops just before the last step. *)
deliver == phase = "decided" /\ \E how \in {"extract", "preview"} : open(decided, how)

Next ==
  \/ ArbitrationNext /\ UNCHANGED sinkVars
  \/ (deliver \/ SinkStep) /\ UNCHANGED arbitrationVars

Spec == Init /\ [][Next]_vars

------------------------------------------------------------------------------

Delivered == delivery = "none" /\ artifacts # <<>>

(* Every winner has exactly one record, in the order they are written, and after
   the one that stopped the run none is attempted. *)
EveryWinnerIsRecorded ==
  Delivered =>
    /\ Len(artifacts) = Len(decided)
    /\ \A i \in DOMAIN artifacts : artifacts[i].winner = orderedForWriting(decided)[i].winner
    /\ \A i, j \in DOMAIN artifacts :
         Outcome(i, "notAttempted") /\ i < j => Outcome(j, "notAttempted")
    /\ (\E i \in DOMAIN artifacts : Outcome(i, "notAttempted")) => stoppedBy # None
    /\ stoppedBy # None => \E i \in DOMAIN artifacts :
         Outcome(i, "failed") /\ \A j \in DOMAIN artifacts : j > i => Outcome(j, "notAttempted")

(* An extraction in which nothing failed leaves exactly the files its records
   name, whatever earlier deliveries of the same winners left half done: a
   re-run replaces every partial file and every leftover duplicate. *)
RerunLeavesOnlyItsFiles ==
  /\ Delivered /\ ~unremoved
  /\ \A i \in DOMAIN artifacts : artifacts[i].outcome \in {"written", "deduplicated"}
  => DOMAIN files = {artifacts[i].path :
                       i \in {j \in DOMAIN artifacts : Outcome(j, "written")}}

(***************************************************************************)
(* The inductive invariant behind the records, the names and the files.    *)
(* The name a winner gets is a function of the winners before it alone:    *)
(* every delivery of one decision claims the same names in the same order, *)
(* whatever fails on the way.                                              *)
(***************************************************************************)

Order == orderedForWriting(decided)

(* The names claimed once the first k of the order have had their turn. *)
UsedBy(order) ==
  LET after[k \in 0..Len(order)] ==
        IF k = 0
        THEN {}
        ELSE IF Nameable(order[k])
             THEN after[k - 1] \cup {disambiguate(outputNameFor(order[k]), after[k - 1])}
             ELSE after[k - 1]
  IN after

NameAt(i) == disambiguate(outputNameFor(Order[i]), UsedBy(Order)[i - 1])

PathAt(i) == sanitizeOutputPath(NameAt(i))

(* The winners that get as far as a path. *)
Placed == {i \in DOMAIN Order : Nameable(Order[i]) /\ PathAt(i) # Refused}

IsSeq(s) == s \in Seq({s[i] : i \in DOMAIN s})

Fields == {"winner", "outcome", "path", "name", "content", "lost", "invented"}

(* The records and what is still to do are the order, cut in two. *)
RecordsInv ==
  /\ delivery \in {"none", "extract", "preview"}
  /\ IsSeq(artifacts) /\ IsSeq(todo) /\ IsSeq(foretold)
  /\ \A i \in DOMAIN artifacts : DOMAIN artifacts[i] = Fields
  /\ delivery = "none" => todo = <<>>
  /\ delivery # "none" \/ artifacts # <<>> \/ foretold # <<>> \/ DOMAIN files # {} =>
       phase = "decided"
  /\ delivery # "none" \/ artifacts # <<>> =>
       /\ Len(artifacts) + Len(todo) = Len(Order)
       /\ \A i \in DOMAIN artifacts : artifacts[i].winner = Order[i].winner
       /\ \A i \in DOMAIN todo : todo[i] = Order[Len(artifacts) + i]

(* Every name given so far is the one the order gives. *)
NamesInv ==
  /\ delivery # "none" /\ todo # <<>> => used = UsedBy(Order)[Len(artifacts)]
  /\ \A i \in DOMAIN artifacts :
       /\ Outcome(i, "written") => Nameable(Order[i]) /\ artifacts[i].name = NameAt(i)
       /\ delivery = "preview" /\ Nameable(Order[i]) => artifacts[i].name = NameAt(i)
  /\ foretold # <<>> =>
       /\ Len(foretold) = Len(Order)
       /\ \A i \in DOMAIN foretold :
            /\ foretold[i].winner = Order[i].winner
            /\ Nameable(Order[i]) => foretold[i].name = NameAt(i)

(* A stop is the last attempt there was. *)
StopInv ==
  /\ delivery = "preview" => stoppedBy = None
  /\ \A i \in DOMAIN artifacts : Outcome(i, "notAttempted") =>
       /\ stoppedBy # None /\ todo = <<>>
       /\ \A j \in DOMAIN artifacts : i < j => Outcome(j, "notAttempted")
  /\ stoppedBy # None => \E i \in DOMAIN artifacts :
       Outcome(i, "failed") /\ \A j \in DOMAIN artifacts : j > i => Outcome(j, "notAttempted")

OnDevice(bytes) == {b + StartBytes : b \in bytes}

(* What a copy lost is in the map from then on. *)
MarksInv ==
  /\ InventedIsMarked
  /\ delivery # "none" => \A i \in DOMAIN artifacts :
       /\ artifacts[i].lost \subseteq SourceBytes(artifacts[i].winner)
       /\ OnDevice(artifacts[i].lost) \subseteq damage

(* What is recorded as a duplicate has been written, and by this delivery. *)
DuplicatesInv ==
  /\ delivery # "none" =>
       written = {artifacts[i].content : i \in {j \in DOMAIN artifacts : Outcome(j, "written")}}
  /\ \A i \in DOMAIN artifacts : Outcome(i, "deduplicated") =>
       \E j \in 1..(i - 1) : Outcome(j, "written") /\ artifacts[j].content = artifacts[i].content

SinkInv == RecordsInv /\ NamesInv /\ StopInv /\ MarksInv /\ DuplicatesInv

(* The destination holds only paths the order gives, a written file among them
   and a removed one not. *)
FilesInv ==
  /\ DOMAIN files \subseteq {PathAt(i) : i \in Placed}
  /\ \A i \in DOMAIN artifacts :
       /\ Outcome(i, "written") =>
            /\ i \in Placed /\ artifacts[i].path = PathAt(i)
            /\ PathAt(i) \in DOMAIN files /\ files[PathAt(i)] = artifacts[i].content
       /\ Outcome(i, "deduplicated") /\ ~unremoved => i \in Placed /\ PathAt(i) \notin DOMAIN files

(* No two names that winners propose are folded into one by the cleaning. *)
NothingFolded ==
  \A i, j \in DOMAIN Order :
    LET s == outputNameFor(Order[i]).stem
        t == outputNameFor(Order[j]).stem
    IN Safe[s] = Safe[t] /\ Safe[s] # Refused => s = t

(* The name a winner gets is a new one: the overflow form, which disambiguate does
   not check, is given to one winner at most. *)
NamesAreNew == \A i \in DOMAIN Order : NameAt(i) \notin UsedBy(Order)[i - 1]
===============================================================================
