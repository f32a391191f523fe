----------------------------- MODULE Arbitration -----------------------------
(***************************************************************************)
(* From what the filesystem pass reports to the winners: the accounting of *)
(* its entries (recovery/ByteAccounting.cpp), the gaps the carvers are     *)
(* sent into (RegionSet.cpp), and the arbitration of everything found      *)
(* (recovery/Arbitration.cpp).                                             *)
(*                                                                         *)
(* A candidate is a record: id, source, confidence, extents (a sequence of *)
(* extents), resident (its bytes when it has none) and name.               *)
(***************************************************************************)
EXTENDS RegionSet, FiniteSets

CONSTANTS
  Candidates,            \* everything the parsers and carvers may report
  DeviceSize,            \* the length of the run's scope
  kMaxAccountedRegions,  \* kMaxAccountedRegions
  MaxFound               \* bound of the model: candidates in one run

kRejected == 0
kUncertain == 1
kValid == 2

FromFilesystem(c) == c.source = "filesystem"

Extents == [deviceOffset : 0..kMax, lengthBytes : 0..kMax]

ASSUME ArbitrationAssumption ==
  /\ DeviceSize \in 0..kMax
  /\ IsFiniteSet(Candidates)
  /\ kMaxAccountedRegions \in Nat
  /\ \A c \in Candidates :
       /\ c.source \in {"filesystem", "carve"}
       /\ c.confidence \in {kRejected, kUncertain, kValid}
       /\ c.extents \in Seq(Extents)
       /\ FromFilesystem(c) \/ (Len(c.extents) = 1 /\ c.confidence # kRejected)

VARIABLES
  phase,        \* "walk", "arbitrate" or "decided"
  found,        \* the candidates reported so far
  toVisit,      \* the filesystem entries not yet reported
  accounting,   \* the extents of the current entry not yet accounted
  accounted,    \* claimed_ of ByteAccounting
  dropped,      \* dropped_
  pool,         \* the candidates not yet offered
  claiming,     \* the extents of the last winner not yet claimed
  claimed,      \* the regions the winners hold
  winners,      \* the winners so far
  suppressed,   \* how many candidates lost
  decided       \* the winners by position, once arbitration is over

accountVars == <<found, toVisit, accounting, accounted, dropped>>
arbitrateVars == <<pool, claiming, claimed, winners, suppressed, decided>>
arbitrationVars == <<phase, accountVars, arbitrateVars>>

ArbitrationInit ==
  /\ phase = "walk"
  /\ found = {}
  /\ toVisit \in {s \in SUBSET {c \in Candidates : FromFilesystem(c)} :
                    Cardinality(s) <= MaxFound}
  /\ accounting = <<>>
  /\ accounted = NoRegions
  /\ dropped = 0
  /\ pool = {}
  /\ claiming = <<>>
  /\ claimed = NoRegions
  /\ winners = {}
  /\ suppressed = 0
  /\ decided = <<>>

(* Mutant of account: every entry is accounted for, trusted or not. *)
account_anyTrust(e) ==
  /\ phase = "walk" /\ accounting = <<>>
  /\ toVisit' = toVisit \ {e}
  /\ found' = found \cup {e}
  /\ accounting' = e.extents
  /\ UNCHANGED <<phase, accounted, dropped, arbitrateVars>>

(* ByteAccounting::account, on the way to the index: only an entry that is
   trusted has its extents accounted for. *)
account(e) ==
  /\ phase = "walk" /\ accounting = <<>>
  /\ toVisit' = toVisit \ {e}
  /\ found' = found \cup {e}
  /\ accounting' = IF e.confidence = kValid THEN e.extents ELSE <<>>
  /\ UNCHANGED <<phase, accounted, dropped, arbitrateVars>>

addRegion ==
  /\ phase = "walk" /\ accounting # <<>>
  /\ accounting' = Tail(accounting)
  /\ IF regionCount(accounted) >= kMaxAccountedRegions
     THEN dropped' = dropped + 1 /\ accounted' = accounted
     ELSE dropped' = dropped /\ accounted' = add(accounted, Head(accounting))
  /\ UNCHANGED <<phase, found, toVisit, arbitrateVars>>

startOf(c) == IF c.extents = <<>> THEN 0 ELSE c.extents[1].deviceOffset

(* The carvers report candidates that start in what is unaccounted for; how
   far one reaches is the format's business. *)
carveGaps ==
  /\ phase = "walk" /\ toVisit = {} /\ accounting = <<>>
  /\ \E carved \in SUBSET {c \in Candidates :
                             /\ ~FromFilesystem(c)
                             /\ \E g \in complementOf(accounted, DeviceSize) :
                                  g.start <= startOf(c) /\ startOf(c) < g.end} :
       /\ Cardinality(found \cup carved) <= MaxFound
       /\ found' = found \cup carved
       /\ pool' = found'
  /\ phase' = "arbitrate"
  /\ UNCHANGED <<toVisit, accounting, accounted, dropped,
                 claiming, claimed, winners, suppressed, decided>>

(* 64-bit, as the lengths come off the disk. *)
totalBytes(c) ==
  LET plus(sum, x) == sum + x.lengthBytes
  IN FoldLeft(plus, Len(c.resident), c.extents) % (kMax + 1)

rankOf(c) ==
  <<IF FromFilesystem(c) THEN 0 ELSE 1, kValid - c.confidence,
    startOf(c), kMax - totalBytes(c)>>

(* std::tuple's order. *)
Precedes(r, s) == \E i \in 1..4 : r[i] < s[i] /\ \A j \in 1..(i - 1) : r[j] = s[j]

(* The sort is by rank alone: candidates of one rank come in any order. *)
Offered(c) ==
  /\ phase = "arbitrate" /\ claiming = <<>>
  /\ \A d \in pool : ~Precedes(rankOf(d), rankOf(c))

isBlocked(regions, c) == \E i \in 1..Len(c.extents) : overlaps(regions, c.extents[i])

accept(c) ==
  /\ Offered(c)
  /\ c.confidence # kRejected /\ ~isBlocked(claimed, c)
  /\ pool' = pool \ {c}
  /\ winners' = winners \cup {c}
  /\ claiming' = c.extents
  /\ UNCHANGED <<phase, accountVars, claimed, suppressed, decided>>

suppress(c) ==
  /\ Offered(c)
  /\ c.confidence = kRejected \/ isBlocked(claimed, c)
  /\ pool' = pool \ {c}
  /\ suppressed' = suppressed + 1
  /\ UNCHANGED <<phase, accountVars, claimed, claiming, winners, decided>>

claimAll ==
  /\ phase = "arbitrate" /\ claiming # <<>>
  /\ claimed' = add(claimed, Head(claiming))
  /\ claiming' = Tail(claiming)
  /\ UNCHANGED <<phase, accountVars, pool, winners, suppressed, decided>>

(* The last sort is by position alone. *)
inDeviceOrder ==
  /\ phase = "arbitrate" /\ pool = {} /\ claiming = <<>>
  /\ phase' = "decided"
  /\ \E s \in SetToSeqs(winners) :
       /\ \A i, j \in 1..Len(s) : i < j => startOf(s[i]) <= startOf(s[j])
       /\ decided' = s
  /\ UNCHANGED <<accountVars, pool, claiming, claimed, winners, suppressed>>

ArbitrationNext ==
  \/ \E e \in toVisit : account(e)
  \/ addRegion
  \/ carveGaps
  \/ \E c \in pool : accept(c) \/ suppress(c)
  \/ claimAll
  \/ inDeviceOrder

------------------------------------------------------------------------------

(* The regions of a set neither overlap nor touch: RegionSet::add relies on it
   to find everything a new range reaches, overlaps and gaps to look at one
   neighbour only. *)
Separate(regions) ==
  \A j, k \in DOMAIN regions : j < k => regions[j] < k

Bytes(x) == x.deviceOffset..(endOf(x) - 1)

BytesIn(extents) == UNION {Bytes(extents[i]) : i \in 1..Len(extents)}

BytesOf(c) == BytesIn(c.extents)

GapBytes == UNION {g.start..(g.end - 1) : g \in complementOf(accounted, DeviceSize)}

TrustedBytes ==
  UNION {BytesOf(c) : c \in {e \in found : FromFilesystem(e) /\ e.confidence = kValid}}

Ref == INSTANCE ScanRegions

(* The regions stay fused, the walk over them computes the complement the scan is
   cut from, and the carvers are sent into every byte no trusted entry holds, whatever the
   cap cost; and when it cost nothing they are sent nowhere else
   (ByteAccounting.cpp: "less accounting only ever means more scanning"). *)
GapsAreTheUnaccounted ==
  Separate(accounted) /\ (accounting = <<>> =>
    /\ complementOf(accounted, DeviceSize)
         = Ref!gaps({Ref!Region(k, accounted[k]) : k \in DOMAIN accounted}, DeviceSize)
    /\ (0..(DeviceSize - 1)) \ TrustedBytes \subseteq GapBytes
    /\ dropped = 0 => GapBytes \cap TrustedBytes = {})

(* No byte of the device is recovered into two files; and a candidate loses only for
   being rejected, or to a winner that shares bytes with it and that it does not
   outrank, in particular never to a carve when it is a named entry, and every loser is
   counted (Arbitration.cpp). *)
WinnersBeatWhatTheyOverlap ==
  LET losers == found \ (pool \cup winners)
  IN /\ Separate(claimed)
     /\ \A v, w \in winners : v # w => BytesOf(v) \cap BytesOf(w) = {}
     /\ phase # "walk" =>
       /\ suppressed = Cardinality(losers)
       /\ \A c \in losers :
            \/ c.confidence = kRejected
            \/ \E w \in winners : /\ BytesOf(c) \cap BytesOf(w) # {}
                                  /\ FromFilesystem(c) => FromFilesystem(w)
                                  /\ c.source = w.source => c.confidence <= w.confidence

(***************************************************************************)
(* The inductive invariants behind the two.                                *)
(***************************************************************************)

(* A region is a range of offsets; only at the very last one can it be empty. *)
RegionsFit(regions) ==
  \A k \in DOMAIN regions : /\ k \in 0..kMax /\ regions[k] \in k..kMax
                            /\ k < regions[k] \/ k = kMax

RegionBytes(regions) == UNION {k..(regions[k] - 1) : k \in DOMAIN regions}

ArbitrationTypes ==
  /\ phase \in {"walk", "arbitrate", "decided"}
  /\ found \subseteq Candidates
  /\ toVisit \subseteq {c \in Candidates : FromFilesystem(c)}
  /\ accounting \in Seq(Extents) /\ claiming \in Seq(Extents)
  /\ RegionsFit(accounted) /\ RegionsFit(claimed)
  /\ dropped \in Nat /\ suppressed \in Nat
  /\ pool \subseteq found /\ winners \subseteq found /\ pool \cap winners = {}
  /\ phase = "walk" => pool = {} /\ winners = {} /\ suppressed = 0
  /\ phase = "decided" => pool = {} /\ claiming = <<>>

(* What is accounted for is trusted, and only the cap keeps trusted bytes out. *)
AccountedInv ==
  /\ Separate(accounted)
  /\ RegionBytes(accounted) \cup BytesIn(accounting) \subseteq TrustedBytes
  /\ dropped = 0 => TrustedBytes \subseteq RegionBytes(accounted) \cup BytesIn(accounting)

(* The regions are exactly what the winners hold, and whatever is still in the
   pool outranks no winner. *)
WinnersInv ==
  /\ WinnersBeatWhatTheyOverlap
  /\ RegionBytes(claimed) \cup BytesIn(claiming) = UNION {BytesOf(w) : w \in winners}
  /\ \A c \in pool, w \in winners : ~Precedes(rankOf(c), rankOf(w))

ArbitrationInv == ArbitrationTypes /\ AccountedInv /\ WinnersInv

==============================================================================
