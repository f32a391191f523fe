---------------------------- MODULE MCRecoveryRun ----------------------------
(* A disk with a filesystem, whose file leaves a gap on each side, and a small
   raw one.  On the disk a carved file reaches over the next signature, so what
   a chunk yields depends on where the chunk begins, and the claimed file has a
   signature in it, so what is carved depends on what the walk accounted for. *)
EXTENDS RecoveryRun

CONSTANTS disk, raw

MCScopes == {disk, raw}
MCSizeOf == [s \in MCScopes |-> IF s = disk THEN 7 ELSE 2]

MCItems == {<<"fs", disk, 0>>, <<"fs", disk, 1>>}
             \union {<<"carve", disk, at>> : at \in {0, 2, 3, 4, 5}} \union {<<"carve", raw, 0>>}
MCEntries == [s \in MCScopes |-> IF s = disk THEN {<<"fs", s, 0>>, <<"fs", s, 1>>} ELSE {}]
MCClaims == [x \in MCItems |-> IF x = <<"fs", disk, 0>> THEN {Region(1, 3)} ELSE {}]
MCMounts == {disk}

(* Signatures, and the end of the file each one begins. *)
Signatures == [at \in {0, 2, 3, 4, 5} |-> IF at = 3 THEN 6 ELSE at + 1]

MCFindings(s, formats, g) ==
  LET here == {at \in DOMAIN Signatures : g.start <= at /\ at < g.end}
  IN  {<<"carve", s, at>> : at \in {a \in here : \A b \in here : b < a => Signatures[b] <= a}}

MCWinners(found) == {x \in found : x = <<"fs", disk, 0>> \/ x[3] = 5}

Command(mode, s, delivery) ==
  [mode |-> mode, scope |-> s, formats |-> "all", delivery |-> delivery]

MCRequests ==
  {Command("hybrid", disk, "extract"), Command("hybrid", disk, "preview"),
   Command("fsOnly", disk, "extract"), Command("fsOnly", raw, "extract"),
   Command("carveOnly", disk, "extract"), Command("hybrid", raw, "extract")}

MCFaultyRequests ==
  {Command("hybrid", disk, "extract"), Command("carveOnly", disk, "preview"),
   Command("hybrid", raw, "extract")}

=============================================================================
