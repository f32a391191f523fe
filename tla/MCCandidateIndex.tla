--------------------------- MODULE MCCandidateIndex ---------------------------
(* Two candidates of different lengths: a torn entry of one can cover the
   range a later, shorter entry claims. *)
EXTENDS CandidateIndex

CONSTANTS short, long

MCCandidates == {short, long}
MCEntryBytes == [c \in MCCandidates |-> IF c = short THEN 1 ELSE 2]
MCWithinCaps == MCCandidates

=============================================================================
