--------------------------- MODULE CheckpointedLog ---------------------------
(***************************************************************************)
(* What a recovery session promises about the candidates it records        *)
(* (ADR-0008): an append-only log of acknowledged candidates, a saved      *)
(* length that survives the process, and a restart that keeps exactly the  *)
(* saved prefix.  The two-file index of CandidateIndex implements it.      *)
(***************************************************************************)
EXTENDS Naturals, Sequences

CONSTANTS
  Candidates,   \* everything a run may record
  None          \* "no checkpoint"

VARIABLES
  log,          \* the acknowledged candidates, in append order
  saved,        \* the length the last checkpoint names, or None
  open          \* a process is appending

vars == <<log, saved, open>>

Init ==
  /\ log = <<>>
  /\ saved = None
  /\ open = FALSE

(* An append that returned an ordinal. *)
Acknowledge ==
  /\ open
  /\ \E c \in Candidates : log' = Append(log, c)
  /\ UNCHANGED <<saved, open>>

(* A checkpoint: the current length becomes the one a restart keeps. *)
Save ==
  /\ open
  /\ saved' = Len(log)
  /\ UNCHANGED <<log, open>>

(* The process ended, in whatever way. *)
Stop ==
  /\ open
  /\ open' = FALSE
  /\ UNCHANGED <<log, saved>>

(* The session is given up: what it holds no longer counts. *)
Forget ==
  /\ ~open
  /\ saved' = None
  /\ UNCHANGED <<log, open>>

(* A new session; the attempt may fail after it emptied the log. *)
Start ==
  /\ ~open
  /\ saved = None
  /\ log' = <<>>
  /\ open' \in BOOLEAN
  /\ UNCHANGED saved

(* A resumed session keeps the saved prefix and nothing after it. *)
Restart ==
  /\ ~open
  /\ saved # None
  /\ log' = SubSeq(log, 1, saved)
  /\ open' \in BOOLEAN
  /\ UNCHANGED saved

Next ==
  \/ Acknowledge
  \/ Save
  \/ Stop
  \/ Forget
  \/ Start
  \/ Restart

Spec == Init /\ [][Next]_vars

=============================================================================
