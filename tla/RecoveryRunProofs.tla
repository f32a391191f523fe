-------------------------- MODULE RecoveryRunProofs --------------------------
(***************************************************************************)
(* The recovery session for every source, every parser and carver, every   *)
(* set of commands and every budget of faults: types, and the exactness of *)
(* checkpoints and of finished runs.                                       *)
(***************************************************************************)
EXTENDS RecoveryRun, Integers, TLAPS

(***************************************************************************)
(* The cutting of gaps into chunks: the chunks of a scan never overlap,    *)
(* and a scan resumed at the end of one of its chunks is cut at the same   *)
(* bytes as the scan that was interrupted.                                 *)
(***************************************************************************)

(* A set of ranges no two of which overlap. *)
Separated(gs) == \A g, h \in gs : g = h \/ Apart(g, h)

(* A range is its two ends. *)
LEMMA RegionEnds ==
  ASSUME NEW n \in Nat, NEW g \in Regions(n)
  PROVE  /\ g = Region(g.start, g.end)
         /\ g.start \in Nat /\ g.end \in Nat /\ g.start < g.end /\ g.end <= n
BY DEF Regions, Region

LEMMA RegionIn ==
  ASSUME NEW n \in Nat, NEW a \in Nat, NEW b \in Nat, a < b, b <= n
  PROVE  Region(a, b) \in Regions(n) /\ Region(a, b).start = a /\ Region(a, b).end = b
BY DEF Regions, Region

(* Two gaps that meet are one gap: a shared byte lies next to no claimed one. *)
LEMMA GapsAreSeparated ==
  ASSUME NEW n \in Nat, NEW claimed \in SUBSET Regions(n)
  PROVE  gaps(claimed, n) \subseteq Regions(n) /\ Separated(gaps(claimed, n))
<1>1. gaps(claimed, n) \subseteq Regions(n)
  BY DEF gaps
<1>2. ASSUME NEW g \in gaps(claimed, n), NEW h \in gaps(claimed, n), ~Apart(g, h)
      PROVE  g.start <= h.start /\ g.end <= h.end
  <2>1. /\ g.start \in Nat /\ g.end \in Nat /\ g.start < g.end /\ g.end <= n
        /\ h.start \in Nat /\ h.end \in Nat /\ h.start < h.end /\ h.end <= n
    BY <1>1, RegionEnds
  <2>2. h.start < g.end /\ g.start < h.end
    BY <1>2, <2>1 DEF Apart
  <2>3. \A r \in claimed : /\ r.start \in Nat /\ r.end \in Nat /\ r.start < r.end
                           /\ r.end <= h.start \/ h.end <= r.start
                           /\ r.end <= g.start \/ g.end <= r.start
    BY RegionEnds DEF gaps, Apart
  <2>4. g.start <= h.start
    <3>1. SUFFICES ASSUME h.start < g.start PROVE FALSE
      BY <2>1
    <3>2. PICK r \in claimed : r.end = g.start
      BY <2>1, <3>1 DEF gaps
    <3> QED
      BY <2>1, <2>2, <2>3, <3>1, <3>2
  <2>5. g.end <= h.end
    <3>1. SUFFICES ASSUME h.end < g.end PROVE FALSE
      BY <2>1
    <3>2. PICK r \in claimed : r.start = h.end
      BY <2>1, <3>1 DEF gaps
    <3> QED
      BY <2>1, <2>2, <2>3, <3>1, <3>2
  <2> QED
    BY <2>4, <2>5
<1>3. ASSUME NEW g \in gaps(claimed, n), NEW h \in gaps(claimed, n), ~Apart(g, h)
      PROVE  g = h
  <2>1. ~Apart(h, g)
    BY <1>3 DEF Apart
  <2>2. /\ g.start <= h.start /\ g.end <= h.end
        /\ h.start <= g.start /\ h.end <= g.end
    BY <1>2, <1>3, <2>1
  <2>3. /\ g = Region(g.start, g.end) /\ g.start \in Nat /\ g.end \in Nat
        /\ h = Region(h.start, h.end) /\ h.start \in Nat /\ h.end \in Nat
    BY <1>1, RegionEnds
  <2>4. g.start = h.start /\ g.end = h.end
    BY <2>2, <2>3
  <2> QED
    BY <2>3, <2>4
<1> QED
  BY <1>1, <1>3 DEF Separated

(* A chunk lies inside its range, and is full unless it is the last one. *)
LEMMA ChunkIs ==
  ASSUME NEW n \in Nat, NEW size \in Nat \ {0}, NEW g \in Regions(n),
         NEW c \in appendChunks(g, size)
  PROVE  /\ c \in Regions(n)
         /\ g.start <= c.start /\ c.start < g.end /\ c.end <= g.end
         /\ c.end = g.end \/ c.end = c.start + size
         /\ c.end <= c.start + size
         /\ c = chunkAt(g, c.start, size)
<1>1. PICK k \in 0..(g.end - g.start) :
        g.start + k * size < g.end /\ c = chunkAt(g, g.start + k * size, size)
  BY DEF appendChunks
<1>2. g.start \in Nat /\ g.end \in Nat /\ g.start < g.end /\ g.end <= n
  BY RegionEnds
<1>3. k \in Nat /\ k * size \in Nat
  BY <1>2
<1> DEFINE a == g.start + k * size
           b == IF a + size < g.end THEN a + size ELSE g.end
<1>4. a \in Nat /\ b \in Nat /\ g.start <= a /\ a < b /\ b <= g.end /\ b <= n /\ b <= a + size
  BY <1>1, <1>2, <1>3
<1>5. c = Region(a, b)
  BY <1>1 DEF chunkAt
<1>6. c \in Regions(n) /\ c.start = a /\ c.end = b
  BY <1>4, <1>5, RegionIn
<1>7. b = g.end \/ b = a + size
  OBVIOUS
<1> QED
  BY <1>1, <1>4, <1>6, <1>7

(* A chunk starts a whole number of chunk lengths into its range. *)
LEMMA ChunkStart ==
  ASSUME NEW size, NEW g, NEW c \in appendChunks(g, size)
  PROVE  \E k \in Nat : c.start = g.start + k * size
<1>1. PICK k \in 0..(g.end - g.start) : c = chunkAt(g, g.start + k * size, size)
  BY DEF appendChunks
<1>2. c.start = g.start + k * size
  BY <1>1 DEF chunkAt, Region
<1>3. k \in Nat
  OBVIOUS
<1> QED
  BY <1>2, <1>3

(* Conversely, every such place starts a chunk. *)
LEMMA ChunkFrom ==
  ASSUME NEW n \in Nat, NEW size \in Nat \ {0}, NEW g \in Regions(n),
         NEW k \in Nat, g.start + k * size < g.end
  PROVE  chunkAt(g, g.start + k * size, size) \in appendChunks(g, size)
<1>1. g.start \in Nat /\ g.end \in Nat
  BY RegionEnds
<1>2. k <= k * size
  BY SMT
<1>3. k \in 0..(g.end - g.start)
  BY <1>1, <1>2
<1> QED
  BY <1>3 DEF appendChunks

(* Multiples of the chunk length are ordered as their factors are. *)
LEMMA Multiples ==
  ASSUME NEW size \in Nat \ {0}, NEW j \in Nat, NEW k \in Nat
  PROVE  /\ (j + k) * size = j * size + k * size
         /\ (j + 1) * size = j * size + size
         /\ j * size \in Nat
         /\ k < j => k * size + size <= j * size
<1>1. (j + k) * size = j * size + k * size /\ (j + 1) * size = j * size + size /\ j * size \in Nat
  BY SMT
<1>2. ASSUME k < j PROVE k * size + size <= j * size
  <2>1. PICK d \in Nat : j = k + 1 + d
    <3>1. j - k - 1 \in Nat /\ j = k + 1 + (j - k - 1)
      BY <1>2
    <3> QED
      BY <3>1
  <2>2. j * size = k * size + size + d * size /\ d * size \in Nat /\ k * size \in Nat
    BY <2>1, SMT
  <2> QED
    BY <2>2
<1> QED
  BY <1>1, <1>2

(* The chunks of one scan never overlap. *)
LEMMA ChunksAreSeparated ==
  ASSUME NEW n \in Nat, NEW size \in Nat \ {0},
         NEW gs \in SUBSET Regions(n), Separated(gs)
  PROVE  chunked(gs, size) \subseteq Regions(n) /\ Separated(chunked(gs, size))
<1>1. ASSUME NEW c \in chunked(gs, size), NEW d \in chunked(gs, size)
      PROVE  c \in Regions(n) /\ (c = d \/ Apart(c, d))
  <2>1. PICK g \in gs : c \in appendChunks(g, size)
    BY DEF chunked
  <2>2. PICK h \in gs : d \in appendChunks(h, size)
    BY DEF chunked
  <2>3. /\ c \in Regions(n)
        /\ g.start <= c.start /\ c.start < g.end /\ c.end <= g.end
        /\ c.end <= c.start + size
        /\ c = chunkAt(g, c.start, size)
    BY <2>1, ChunkIs
  <2>4. /\ d \in Regions(n)
        /\ h.start <= d.start /\ d.start < h.end /\ d.end <= h.end
        /\ d.end <= d.start + size
        /\ d = chunkAt(h, d.start, size)
    BY <2>2, ChunkIs
  <2>5. /\ c.start \in Nat /\ c.end \in Nat /\ d.start \in Nat /\ d.end \in Nat
        /\ g.start \in Nat /\ g.end \in Nat /\ h.start \in Nat /\ h.end \in Nat
    BY <2>3, <2>4, RegionEnds
  <2>6. CASE Apart(g, h)
    BY <2>3, <2>4, <2>5, <2>6 DEF Apart
  <2>7. CASE g = h
    <3>1. PICK k \in Nat : c.start = g.start + k * size
      BY <2>1, ChunkStart
    <3>2. PICK l \in Nat : d.start = g.start + l * size
      BY <2>2, <2>7, ChunkStart
    <3>3. CASE k = l
      <4>1. c.start = d.start
        BY <3>1, <3>2, <3>3
      <4> QED
        BY <4>1, <2>3, <2>4, <2>7
    <3>4. CASE k < l
      <4>1. k * size + size <= l * size /\ k * size \in Nat /\ l * size \in Nat
        BY <3>4, Multiples
      <4> QED
        BY <4>1, <2>3, <2>5, <3>1, <3>2 DEF Apart
    <3>5. CASE l < k
      <4>1. l * size + size <= k * size /\ k * size \in Nat /\ l * size \in Nat
        BY <3>5, Multiples
      <4>2. d.end <= g.start + l * size + size
        BY <2>4, <3>2
      <4>3. g.start + l * size + size <= c.start
        BY <4>1, <2>5, <3>1
      <4>4. g.start + l * size + size \in Nat
        BY <4>1, <2>5
      <4> QED
        BY <4>2, <4>3, <4>4, <2>3, <2>5 DEF Apart
    <3> QED
      BY <2>3, <3>3, <3>4, <3>5
  <2> QED
    BY <2>3, <2>6, <2>7 DEF Separated
<1> QED
  BY <1>1 DEF Separated

(* A fresh scan is the scan resumed at zero. *)
LEMMA FreshIsResumedAtZero ==
  ASSUME NEW n \in Nat, NEW gs \in SUBSET Regions(n)
  PROVE  regionsFrom(gs, 0) = gs
<1>1. ASSUME NEW g \in gs PROVE g.end > 0 /\ tailOf(g, 0) = g
  BY RegionEnds DEF tailOf
<1> QED
  BY <1>1 DEF regionsFrom

(* Resumed at the end of a chunk, the scan is cut into exactly the chunks the
   first scan had still to do: none is redone, none is cut elsewhere. *)
THEOREM ResumeKeepsTheChunks ==
  ASSUME NEW n \in Nat, NEW size \in Nat \ {0},
         NEW gs \in SUBSET Regions(n), Separated(gs),
         NEW last \in chunked(gs, size)
  PROVE  chunked(regionsFrom(gs, last.end), size)
           = {c \in chunked(gs, size) : c.start >= last.end}
<1> DEFINE e == last.end
<1>1. PICK g0 \in gs : last \in appendChunks(g0, size)
  BY DEF chunked
<1>2. PICK k0 \in Nat : last.start = g0.start + k0 * size
  BY <1>1, ChunkStart
<1>3. /\ last \in Regions(n)
      /\ g0.start <= last.start /\ last.start < g0.end /\ e <= g0.end
      /\ e = g0.end \/ e = last.start + size
  BY <1>1, ChunkIs
<1>4. /\ g0.start \in Nat /\ g0.end \in Nat /\ last.start \in Nat /\ e \in Nat /\ last.start < e
  BY <1>3, RegionEnds
<1>5. ASSUME NEW g \in gs, g # g0, g.end > e
      PROVE  g.start >= e /\ tailOf(g, e) = g
  <2>1. g = Region(g.start, g.end) /\ g.start \in Nat /\ g.end \in Nat
    BY RegionEnds
  <2>2. Apart(g, g0)
    BY <1>5 DEF Separated
  <2>3. g.start >= e
    BY <2>1, <2>2, <1>3, <1>4, <1>5 DEF Apart
  <2> QED
    BY <2>1, <2>3, <1>4 DEF tailOf
<1>6. ASSUME g0.end > e
      PROVE  /\ e = g0.start + (k0 + 1) * size
             /\ tailOf(g0, e) \in Regions(n)
             /\ tailOf(g0, e).start = e /\ tailOf(g0, e).end = g0.end
  <2>1. e = last.start + size
    BY <1>3, <1>4, <1>6
  <2>2. e = g0.start + (k0 + 1) * size
    BY <2>1, <1>2, <1>4, Multiples
  <2>3. tailOf(g0, e) = Region(e, g0.end) /\ g0.end <= n
    BY <1>3, <1>4, RegionEnds DEF tailOf
  <2> QED
    BY <2>2, <2>3, <1>4, <1>6, RegionIn
<1>7. ASSUME NEW t \in chunked(regionsFrom(gs, e), size)
      PROVE  t \in chunked(gs, size) /\ t.start >= e
  <2>1. PICK g \in gs : g.end > e /\ t \in appendChunks(tailOf(g, e), size)
    BY DEF chunked, regionsFrom
  <2>2. CASE g # g0
    <3>1. t \in appendChunks(g, size) /\ g.start >= e /\ g \in Regions(n)
      BY <1>5, <2>1, <2>2
    <3>2. t.start >= g.start /\ t.start \in Nat /\ g.start \in Nat
      BY <3>1, ChunkIs, RegionEnds
    <3> QED
      BY <3>1, <3>2, <1>4 DEF chunked
  <2>3. CASE g = g0
    <3>1. t \in appendChunks(tailOf(g0, e), size) /\ g0.end > e
      BY <2>1, <2>3
    <3> DEFINE tail == tailOf(g0, e)
    <3>2. tail \in Regions(n) /\ tail.start = e /\ tail.end = g0.end
      BY <1>6, <3>1
    <3> HIDE DEF tail
    <3>3. t \in appendChunks(tail, size)
      BY <3>1 DEF tail
    <3>4. PICK l \in Nat : t.start = e + l * size
      BY <3>2, <3>3, ChunkStart
    <3>5. t.start < g0.end /\ t = chunkAt(tail, t.start, size)
      BY <3>2, <3>3, ChunkIs
    <3>6. t.start = g0.start + (k0 + 1 + l) * size /\ t.start >= e
      <4>1. (k0 + 1 + l) * size = (k0 + 1) * size + l * size /\ l * size \in Nat
            /\ (k0 + 1) * size \in Nat
        BY Multiples
      <4> QED
        BY <4>1, <3>4, <3>1, <1>6, <1>4
    <3>7. t = chunkAt(g0, t.start, size)
      BY <3>2, <3>5 DEF chunkAt
    <3>8. t \in appendChunks(g0, size)
      <4> DEFINE k == k0 + 1 + l
      <4>1. k \in Nat /\ g0 \in Regions(n) /\ t.start = g0.start + k * size
        BY <3>6
      <4> HIDE DEF k
      <4> QED
        BY <4>1, <3>5, <3>7, ChunkFrom
    <3> QED
      BY <3>6, <3>8 DEF chunked
  <2> QED
    BY <2>2, <2>3
<1>8. ASSUME NEW c \in chunked(gs, size), c.start >= e
      PROVE  c \in chunked(regionsFrom(gs, e), size)
  <2>1. PICK g \in gs : c \in appendChunks(g, size)
    BY DEF chunked
  <2>2. /\ c \in Regions(n) /\ c.start < g.end /\ c = chunkAt(g, c.start, size)
        /\ c.start \in Nat /\ g.end \in Nat
    BY <2>1, ChunkIs, RegionEnds
  <2>3. g.end > e
    BY <1>4, <1>8, <2>2
  <2>4. CASE g # g0
    <3>1. tailOf(g, e) = g
      BY <1>5, <2>3, <2>4
    <3>2. g \in regionsFrom(gs, e)
      BY <3>1, <2>3 DEF regionsFrom
    <3> QED
      BY <3>2, <2>1 DEF chunked
  <2>5. CASE g = g0
    <3> DEFINE tail == tailOf(g0, e)
    <3>1. g0.end > e /\ tail \in regionsFrom(gs, e)
      BY <2>3, <2>5 DEF regionsFrom
    <3>2. tail \in Regions(n) /\ tail.start = e /\ tail.end = g0.end
          /\ e = g0.start + (k0 + 1) * size
      BY <1>6, <3>1
    <3> HIDE DEF tail
    <3>3. PICK j \in Nat : c.start = g0.start + j * size
      BY <2>1, <2>5, ChunkStart
    <3>4. k0 + 1 <= j
      <4>1. SUFFICES ASSUME j < k0 + 1 PROVE FALSE
        OBVIOUS
      <4>2. j * size + size <= (k0 + 1) * size /\ j * size \in Nat /\ (k0 + 1) * size \in Nat
        BY <4>1, Multiples
      <4> QED
        BY <4>2, <3>2, <3>3, <1>8, <1>4
    <3>5. PICK l \in Nat : j = (k0 + 1) + l
      <4>1. j - (k0 + 1) \in Nat /\ j = (k0 + 1) + (j - (k0 + 1))
        BY <3>4
      <4> QED
        BY <4>1
    <3>6. c.start = e + l * size
      <4>1. j * size = (k0 + 1) * size + l * size /\ (k0 + 1) * size \in Nat /\ l * size \in Nat
        BY <3>5, Multiples
      <4> QED
        BY <4>1, <3>2, <3>3, <1>4
    <3>7. c = chunkAt(tail, c.start, size)
      BY <2>2, <2>5, <3>2 DEF chunkAt
    <3>8. c \in appendChunks(tail, size)
      BY <3>2, <3>6, <3>7, <2>2, <2>5, ChunkFrom
    <3> QED
      BY <3>1, <3>8 DEF chunked
  <2> QED
    BY <2>4, <2>5
<1> QED
  BY <1>7, <1>8

(***************************************************************************)
(* Facts about the constants.                                              *)
(***************************************************************************)

LEMMA RequestFacts ==
  ASSUME NEW r \in Requests
  PROVE  /\ r.scope \in Scopes /\ SizeOf[r.scope] \in Nat
         /\ entriesOf(r) \subseteq Items
         /\ accountedBy(r) \subseteq Regions(SizeOf[r.scope])
         /\ \A met \in SUBSET entriesOf(r) : claimedBy(met) \subseteq Regions(SizeOf[r.scope])
         /\ CheckpointBytes \in Nat \ {0}
<1>1. r.scope \in Scopes /\ SizeOf[r.scope] \in Nat /\ CheckpointBytes \in Nat \ {0}
  BY RecoveryRunAssumption
<1>2. entriesOf(r) \subseteq Entries[r.scope] /\ Entries[r.scope] \subseteq Items
  BY <1>1, RecoveryRunAssumption DEF entriesOf
<1>3. ASSUME NEW met \in SUBSET Entries[r.scope]
      PROVE  claimedBy(met) \subseteq Regions(SizeOf[r.scope])
  <2>1. \A x \in met : Claims[x] \subseteq Regions(SizeOf[r.scope])
    BY <1>1, <1>3, RecoveryRunAssumption
  <2> QED
    BY <2>1, Zenon DEF claimedBy
<1> QED
  BY <1>1, <1>2, <1>3 DEF accountedBy

(* The chunks of any scan lie on the device. *)
LEMMA CarveRegionsOnDevice ==
  ASSUME NEW r \in Requests, NEW claimed \in SUBSET Regions(SizeOf[r.scope]), NEW from \in Nat
  PROVE  carveRegions(r, claimed, from) \subseteq Regions(SizeOf[r.scope])
<1> DEFINE n == SizeOf[r.scope]
           gs == gaps(claimed, n)
<1>1. n \in Nat /\ CheckpointBytes \in Nat \ {0}
  BY RequestFacts
<1>2. gs \subseteq Regions(n)
  BY DEF gaps
<1> HIDE DEF gs, n
<1>3. ASSUME NEW g \in gs, g.end > from
      PROVE  tailOf(g, from) \in Regions(n)
  <2>1. g.start \in Nat /\ g.end \in Nat /\ g.start < g.end /\ g.end <= n
    BY <1>1, <1>2, RegionEnds
  <2> DEFINE a == IF g.start < from THEN from ELSE g.start
  <2>2. a \in Nat /\ a < g.end
    BY <2>1, <1>3
  <2> QED
    BY <1>1, <2>1, <2>2, RegionIn DEF tailOf
<1>4. \A t \in regionsFrom(gs, from) : appendChunks(t, CheckpointBytes) \subseteq Regions(n)
  BY <1>1, <1>3, ChunkIs DEF regionsFrom
<1>5. chunked(regionsFrom(gs, from), CheckpointBytes) \subseteq Regions(n)
  BY <1>4 DEF chunked
<1> QED
  BY <1>5 DEF carveRegions, gs, n

LEMMA FindingsAreItems ==
  ASSUME NEW r \in Requests, NEW g \in Regions(SizeOf[r.scope])
  PROVE  Findings(r.scope, r.formats, g) \subseteq Items
BY FindingsAssumption

(***************************************************************************)
(* Types.                                                                  *)
(***************************************************************************)

(* Every error code and every scan result has an ending. *)
LEMMA EndingsOfCodes ==
  ASSUME NEW code
  PROVE  outcomeOf(code) \in Endings \ {"finished"} /\ endingOf(code) \in Endings \ {"finished"}
BY DEF outcomeOf, endingOf, Endings

(* A process that ends leaves a well-typed session behind. *)
LEMMA ExitTypes ==
  ASSUME TypeOK, NEW ending \in Endings \union {"killed"}, Exit(ending),
         UNCHANGED <<index, checkpoint, req, artifacts>>, faults' \in 0..MaxFaults,
         \/ manifest' = manifest
         \/ /\ manifest'.outcome \in Endings
            /\ manifest'.scannedUpTo \in Nat
            /\ DOMAIN manifest'.artifacts \subseteq Items
  PROVE  TypeOK' /\ BeforeSession'
<1>1. indexGood' \in BOOLEAN /\ interrupted' \in BOOLEAN
  BY DEF Exit
<1>2. /\ manifest' # None =>
           /\ manifest'.outcome \in Endings \union {"in-progress"}
           /\ manifest'.scannedUpTo \in Nat
           /\ DOMAIN manifest'.artifacts \subseteq Items
      /\ outcome' \in Endings \union {"none", "running", "killed"}
  BY DEF Exit, TypeOK
<1>3. /\ pc' = "idle" /\ resumeFrom' = None /\ toAppend' = {} /\ regions' = {}
      /\ region' = NoRegion /\ result' = "none" /\ scannedUpTo' = 0
  BY DEF Exit
<1> QED
  BY <1>1, <1>2, <1>3 DEF TypeOK, BeforeSession

LEMMA TypeStep ==
  ASSUME TypeOK, BeforeSession, [Next]_vars
  PROVE  TypeOK' /\ BeforeSession'
<1> USE DEF session, scan
<1>0. /\ SizeOf[req.scope] \in Nat /\ entriesOf(req) \subseteq Items
      /\ accountedBy(req) \subseteq Regions(SizeOf[req.scope])
      /\ \A met \in SUBSET entriesOf(req) : claimedBy(met) \subseteq Regions(SizeOf[req.scope])
      /\ {} \subseteq Regions(SizeOf[req.scope])
      /\ DOMAIN NoArtifacts = {} /\ NoArtifacts \in [DOMAIN NoArtifacts -> Statuses]
  BY RequestFacts DEF TypeOK, NoArtifacts
<1>00. \A kind : Fault(kind) => faults' \in 0..MaxFaults
  BY RecoveryRunAssumption DEF Fault, TypeOK
<1>1. ASSUME NEW r \in Requests, runRecovery(r) PROVE TypeOK' /\ BeforeSession'
  BY <1>0, <1>00, <1>1 DEF runRecovery, TypeOK, BeforeSession
<1>2. CASE refused
  <2>1. \E ending \in Endings : Exit(ending)
    BY <1>2, EndingsOfCodes DEF refused
  <2>2. UNCHANGED <<index, checkpoint, req, artifacts, manifest>> /\ faults' \in 0..MaxFaults
    BY <1>2, <1>00 DEF refused
  <2> QED
    BY <2>1, <2>2, ExitTypes
<1>3. CASE continuedSession
  BY <1>0, <1>00, <1>3 DEF continuedSession, resumable, TypeOK, Checkpoints, BeforeSession
<1>4. CASE clearCheckpoint
  BY <1>0, <1>00, <1>4 DEF clearCheckpoint, TypeOK, BeforeSession
<1>5. CASE freshSession
  BY <1>0, <1>00, <1>5 DEF freshSession, TypeOK, BeforeSession
<1>6. CASE createFails
  BY <1>0, <1>00, <1>6 DEF createFails, ScanEnds, TypeOK, BeforeSession, Codes
<1>7. CASE append
  <2>1. PICK x \in toAppend :
          /\ toAppend' = toAppend \ {x}
          /\ index' = Append(index, x) \/ index' = index
          /\ indexGood' = indexGood \/ indexGood' = FALSE
          /\ faults' = faults \/ Fault("append")
    BY <1>7 DEF append
  <2>2. index' \in Seq(Items) /\ toAppend' \subseteq Items /\ faults' \in 0..MaxFaults
    BY <2>1, <1>00, SMTT(60) DEF TypeOK
  <2>3. indexGood' \in BOOLEAN
    BY <2>1 DEF TypeOK
  <2> QED
    BY <1>7, <2>2, <2>3 DEF append, TypeOK, BeforeSession
<1>8. CASE walkScope \/ mountFailure
  <2>1. ResumeCursor \in Nat
    BY DEF ResumeCursor, TypeOK
  <2>2. /\ carveRegions(req, accountedBy(req), ResumeCursor) \subseteq Regions(SizeOf[req.scope])
        /\ carveRegions(req, {}, ResumeCursor) \subseteq Regions(SizeOf[req.scope])
    BY <1>0, <1>00, <2>1, CarveRegionsOnDevice DEF TypeOK
  <2> QED
    BY <1>0, <1>00, <1>8, <2>2 DEF walkScope, mountFailure, Mounting, ScanEnds, TypeOK, BeforeSession, Codes
<1>8a. CASE walkOneFails \/ skipUnreadableDirectory
  <2>1. ResumeCursor \in Nat
    BY DEF ResumeCursor, TypeOK
  <2>2. \A met \in SUBSET entriesOf(req) :
          carveRegions(req, claimedBy(met), ResumeCursor) \subseteq Regions(SizeOf[req.scope])
    BY <1>0, <2>1, CarveRegionsOnDevice DEF TypeOK
  <2> QED
    BY <1>0, <1>00, <1>8a, <2>2 DEF walkOneFails, skipUnreadableDirectory, WalkFallsShort, TypeOK, BeforeSession
<1>9. CASE sourceLost
  BY <1>0, <1>00, <1>9 DEF sourceLost, Mounting, ScanEnds, TypeOK, BeforeSession, Codes
<1>10. CASE scanNextRegion
  BY <1>0, <1>00, <1>10, FindingsAreItems, SMTT(60) DEF scanNextRegion, TypeOK, BeforeSession
<1>11. CASE onScanned
  <2>1. region.end \in Nat /\ Len(index) \in Nat
    BY <1>0, RegionEnds DEF TypeOK, NoRegion, Region
  <2>2. checkpoint' \in Checkpoints /\ scannedUpTo' \in Nat
    BY <1>11, <2>1 DEF onScanned, TypeOK, Checkpoints
  <2>3. /\ pc' \in {"decide", "scan"} /\ toAppend' = {} /\ region' = NoRegion
        /\ result' = result \/ \E x, y : result' = scanResult(x, y)
        /\ regions' \subseteq regions
    BY <1>11 DEF onScanned, ScanEnds
  <2>4. result' \in Codes \union {"none", "complete", "incomplete"}
    BY <2>3 DEF scanResult, Codes, TypeOK
  <2>5. UNCHANGED <<index, manifest, req, resumeFrom, indexGood, interrupted, artifacts,
                    outcome, faults>>
    BY <1>11 DEF onScanned
  <2> QED
    BY <2>2, <2>3, <2>4, <2>5 DEF TypeOK, BeforeSession
<1>12. CASE onScannedUnwritable
  BY <1>0, <1>00, <1>12 DEF onScannedUnwritable, ScanEnds, TypeOK, BeforeSession, Codes
<1>13. CASE scanRegions
  BY <1>0, <1>00, <1>13 DEF scanRegions, ScanEnds, scanResult, TypeOK, BeforeSession, Codes
<1>14. CASE stopped
  <2>1. scannedUpToOf(result) \in Nat /\ endingOf(result) \in Endings
    BY EndingsOfCodes DEF scannedUpToOf, CheckpointCursor, TypeOK, Checkpoints
  <2>2. \E ending \in Endings : Exit(ending)
    BY <1>14, <2>1 DEF stopped, Endings
  <2>3. \/ manifest' = manifest
        \/ /\ manifest'.outcome \in Endings /\ manifest'.scannedUpTo \in Nat
           /\ manifest'.artifacts = NoArtifacts
    BY <1>14, <2>1 DEF stopped, withoutArtifacts
  <2>4. UNCHANGED <<session, req, artifacts>> /\ faults' \in 0..MaxFaults
    BY <1>14, <1>00 DEF stopped, TypeOK
  <2> QED
    BY <1>0, <2>2, <2>3, <2>4, ExitTypes
<1>15. CASE arbitrateIndexFails
  <2>1. /\ \E code : Exit(outcomeOf(code))
        /\ UNCHANGED <<index, checkpoint, req, artifacts, manifest>>
        /\ faults' \in 0..MaxFaults
    BY <1>15, <1>00 DEF arbitrateIndexFails, TypeOK
  <2> QED
    BY <2>1, EndingsOfCodes, ExitTypes
<1>16. CASE reserve
  <2>1. Winners(Found) \subseteq Items
    <3>1. Found \subseteq Items
      BY DEF Found, TypeOK
    <3> QED
      BY <3>1, WinnersAssumption
  <2>2. CASE pc' = "deliver"
    <3>1. /\ manifest' = withoutArtifacts("in-progress", scannedUpTo)
          /\ artifacts' = [w \in Winners(Found) |-> "notAttempted"]
          /\ UNCHANGED <<scan, interrupted, outcome, faults, session, req>>
      BY <1>16, <2>2 DEF reserve, Exit
    <3>2. DOMAIN artifacts' \subseteq Items /\ artifacts' \in [DOMAIN artifacts' -> Statuses]
      BY <2>1, <3>1 DEF Statuses
    <3> QED
      BY <1>0, <2>2, <3>1, <3>2 DEF withoutArtifacts, TypeOK, BeforeSession
  <2>3. CASE pc' # "deliver"
    <3>1. /\ Exit("stopped-needs-attention") /\ UNCHANGED <<index, checkpoint, req, artifacts, manifest>>
          /\ faults' \in 0..MaxFaults
      BY <1>16, <2>3, <1>00 DEF reserve
    <3> QED
      BY <3>1, ExitTypes DEF Endings
  <2> QED
    BY <2>2, <2>3
<1>17. CASE writeOne
  BY <1>0, <1>00, <1>17 DEF writeOne, TypeOK, BeforeSession, Codes, Statuses
<1>18. CASE delivered
  BY <1>0, <1>00, <1>18 DEF delivered, TypeOK, BeforeSession, Statuses
<1>19. CASE recorded
  <2>1. \E ending \in Endings :
          /\ Exit(ending)
          /\ \/ manifest' = manifest
             \/ manifest' = [outcome |-> ending, scannedUpTo |-> scannedUpTo, artifacts |-> artifacts]
    BY <1>19, EndingsOfCodes DEF recorded, Endings
  <2>2. UNCHANGED <<session, req, artifacts>> /\ faults' \in 0..MaxFaults
    BY <1>19, <1>00 DEF recorded, TypeOK
  <2>3. scannedUpTo \in Nat /\ DOMAIN artifacts \subseteq Items
    BY DEF TypeOK
  <2> QED
    BY <2>1, <2>2, <2>3, ExitTypes
<1>20. CASE onInterrupt
  BY <1>0, <1>00, <1>20 DEF onInterrupt, TypeOK, BeforeSession
<1>21. CASE killed
  BY <1>21, <1>00, ExitTypes DEF killed
<1>22. CASE UNCHANGED vars
  BY <1>22 DEF vars, TypeOK, BeforeSession
<1> QED
  BY <1>1, <1>2, <1>3, <1>4, <1>5, <1>6, <1>7, <1>8, <1>8a, <1>9, <1>10, <1>11, <1>12, <1>13,
     <1>14, <1>15, <1>16, <1>17, <1>18, <1>19, <1>20, <1>21, <1>22 DEF Next, Step

LEMMA TypeInit == Init => TypeOK /\ BeforeSession
<1>1. NoArtifacts \in [DOMAIN NoArtifacts -> Statuses] /\ DOMAIN NoArtifacts \subseteq Items
  BY DEF NoArtifacts
<1>2. <<>> \in Seq(Items) /\ MaxFaults \in 0..MaxFaults
  BY RecoveryRunAssumption
<1>3. Init => indexGood \in BOOLEAN /\ interrupted \in BOOLEAN
  BY DEF Init
<1> QED
  BY <1>1, <1>2, <1>3 DEF Init, TypeOK, BeforeSession

(* Every variable of the session and of its runs stays of its type, whatever
   faults strike; in particular what is scanned always lies on the device. *)
THEOREM TypeCorrect == Spec => []TypeOK
<1>1. TypeOK /\ BeforeSession /\ [Next]_vars => TypeOK' /\ BeforeSession'
  BY TypeStep
<1> QED
  BY TypeInit, <1>1, PTL DEF Spec

(***************************************************************************)
(* Listings, and the chunks of an undisturbed run.                         *)
(***************************************************************************)

LEMMA ListsEmpty == Lists(<<>>, {})
BY DEF Lists

LEMMA ListsAppend ==
  ASSUME NEW s \in Seq(Items), NEW S, Lists(s, S), NEW x \in Items, x \notin S
  PROVE  Lists(Append(s, x), S \union {x})
<1> DEFINE t == Append(s, x)
<1>1. /\ Len(s) \in Nat /\ Len(t) = Len(s) + 1 /\ t[Len(s) + 1] = x
      /\ \A i \in 1..Len(s) : t[i] = s[i]
  OBVIOUS
<1>2. \A i \in 1..Len(s) : s[i] \in S
  BY DEF Lists
<1> HIDE DEF t
<1>3. \A i \in 1..Len(t) : i \in 1..Len(s) \/ i = Len(s) + 1
  BY <1>1
<1>4. \A i, j \in 1..Len(t) : t[i] = t[j] => i = j
  BY <1>1, <1>2, <1>3 DEF Lists
<1>5. {t[i] : i \in 1..Len(t)} = {s[i] : i \in 1..Len(s)} \union {x}
  <2>1. \A i \in 1..Len(s) : i \in 1..Len(t)
    BY <1>1
  <2>2. Len(s) + 1 \in 1..Len(t)
    BY <1>1
  <2> QED
    BY <2>1, <2>2, <1>1, <1>3
<1> QED
  BY <1>4, <1>5 DEF Lists, t

(* Prefixes, as the checkpoint keeps them. *)
LEMMA Prefixes ==
  ASSUME NEW s \in Seq(Items), NEW k \in Nat, k <= Len(s)
  PROVE  /\ SubSeq(s, 1, k) \in Seq(Items) /\ Len(SubSeq(s, 1, k)) = k
         /\ SubSeq(SubSeq(s, 1, k), 1, k) = SubSeq(s, 1, k)
         /\ SubSeq(s, 1, Len(s)) = s
         /\ \A x \in Items : SubSeq(Append(s, x), 1, k) = SubSeq(s, 1, k)
OBVIOUS

(* The chunks of an undisturbed run are on the device and never overlap; the
   ones a run resumed at the end of a chunk plans are the ones past it. *)
LEMMA ChunkFacts ==
  ASSUME NEW r \in Requests
  PROVE  /\ ChunksOf(r) \subseteq Regions(SizeOf[r.scope])
         /\ \A g, h \in ChunksOf(r) : g = h \/ Apart(g, h)
         /\ \A g \in ChunksOf(r) :
              carveRegions(r, accountedBy(r), g.end) = {h \in ChunksOf(r) : h.start >= g.end}
<1> DEFINE n == SizeOf[r.scope]
           gs == gaps(accountedBy(r), n)
<1>1. n \in Nat /\ CheckpointBytes \in Nat \ {0} /\ accountedBy(r) \in SUBSET Regions(n)
  BY RequestFacts
<1>2. gs \in SUBSET Regions(n) /\ Separated(gs)
  BY <1>1, GapsAreSeparated
<1>3. ChunksOf(r) = IF r.mode = "fsOnly" THEN {} ELSE chunked(gs, CheckpointBytes)
  <2>1. regionsFrom(gs, 0) = gs
    BY <1>1, <1>2, FreshIsResumedAtZero
  <2> QED
    BY <2>1 DEF ChunksOf, carveRegions
<1>4. \A e : carveRegions(r, accountedBy(r), e)
              = IF r.mode = "fsOnly" THEN {} ELSE chunked(regionsFrom(gs, e), CheckpointBytes)
  BY DEF carveRegions
<1> HIDE DEF gs, n
<1>5. chunked(gs, CheckpointBytes) \subseteq Regions(n) /\ Separated(chunked(gs, CheckpointBytes))
  BY <1>1, <1>2, ChunksAreSeparated
<1>6. \A g \in chunked(gs, CheckpointBytes) :
         chunked(regionsFrom(gs, g.end), CheckpointBytes)
           = {h \in chunked(gs, CheckpointBytes) : h.start >= g.end}
  BY <1>1, <1>2, ResumeKeepsTheChunks
<1> QED
  BY <1>3, <1>4, <1>5, <1>6 DEF Separated, n

(* A chunk yields nothing that the entries or the other chunks did. *)
LEMMA ChunkIsNew ==
  ASSUME NEW r \in Requests, NEW g \in ChunksOf(r), NEW done \in SUBSET ChunksOf(r),
         g \notin done
  PROVE  Findings(r.scope, r.formats, g) \cap (entriesOf(r) \union CarvedIn(r, done)) = {}
<1>1. g \in Regions(SizeOf[r.scope]) /\ done \subseteq Regions(SizeOf[r.scope])
  BY ChunkFacts
<1>2. Findings(r.scope, r.formats, g) \cap entriesOf(r) = {}
  BY <1>1, FindingsAssumption DEF entriesOf
<1>3. \A h \in done : Findings(r.scope, r.formats, g) \cap Findings(r.scope, r.formats, h) = {}
  BY <1>1, ChunkFacts, FindingsAssumption
<1> QED
  BY <1>2, <1>3 DEF CarvedIn

(* Commands of one shape discover the same things in the same chunks. *)
LEMMA SameShape ==
  ASSUME ShapesSeparate, NEW r \in Requests, NEW q \in Requests, shapeOf(r) = shapeOf(q)
  PROVE  /\ ChunksOf(r) = ChunksOf(q)
         /\ \A e : Discovered(r, e) = Discovered(q, e)
<1>1. r.mode = q.mode /\ r.formats = q.formats /\ r.scope = q.scope
  BY DEF ShapesSeparate, shapeOf
<1>2. ChunksOf(r) = ChunksOf(q) /\ entriesOf(r) = entriesOf(q)
  BY <1>1 DEF ChunksOf, carveRegions, accountedBy, entriesOf
<1> QED
  BY <1>1, <1>2 DEF Discovered, CarvedIn

(***************************************************************************)
(* The inductive invariant.                                                *)
(***************************************************************************)

(* The end of a chunk: it joins the chunks done, which are then exactly the
   ones that end by its last byte, and come before all that are left. *)
LEMMA ChunkDone ==
  ASSUME RunInv, pc = "chunk", toAppend = {}
  PROVE  /\ region \in regions /\ region \in ChunksOf(req)
         /\ {g \in ChunksOf(req) : g.end <= region.end} = ChunksOf(req) \ (regions \ {region})
         /\ Lists(index, Discovered(req, region.end))
         /\ \A g \in ChunksOf(req) \ (regions \ {region}) :
              \A h \in regions \ {region} : g.end <= h.start
<1> DEFINE D == ChunksOf(req) \ regions
           F == Findings(req.scope, req.formats, region)
<1>1. /\ req \in Requests /\ regions \subseteq ChunksOf(req) /\ region \in regions
      /\ \A g \in D : \A h \in regions : g.end <= h.start
      /\ \A h \in regions : region.start <= h.start
      /\ Lists(index, entriesOf(req) \union CarvedIn(req, D) \union (F \ {}))
  BY DEF RunInv, TypeOK, ChunksInv, ScanInv
<1>2. \A g \in ChunksOf(req) : g.start \in Nat /\ g.end \in Nat /\ g.start < g.end
  BY <1>1, ChunkFacts, RequestFacts, RegionEnds
<1>3. \A h \in regions \ {region} : region.end <= h.start
  BY <1>1, <1>2, ChunkFacts DEF Apart
<1>4. ChunksOf(req) \ (regions \ {region}) = D \union {region}
  BY <1>1
<1>5. {g \in ChunksOf(req) : g.end <= region.end} = D \union {region}
  <2>1. \A g \in D : g.end <= region.end
    BY <1>1, <1>2
  <2>2. \A h \in regions \ {region} : ~(h.end <= region.end)
    BY <1>1, <1>2, <1>3
  <2>3. region.end <= region.end
    BY <1>1, <1>2
  <2> QED
    BY <1>1, <2>1, <2>2, <2>3
<1>6. CarvedIn(req, D \union {region}) = CarvedIn(req, D) \union F
  BY DEF CarvedIn
<1>7. entriesOf(req) \union CarvedIn(req, D) \union (F \ {}) = Discovered(req, region.end)
  BY <1>5, <1>6 DEF Discovered
<1>8. Lists(index, Discovered(req, region.end))
  BY <1>1, <1>7
<1> QED
  BY <1>1, <1>3, <1>4, <1>5, <1>8

(* Nothing is left: the chunks done are the chunks of the whole scope. *)
LEMMA AllDone ==
  ASSUME NEW r \in Requests
  PROVE  Discovered(r, SizeOf[r.scope]) = entriesOf(r) \union CarvedIn(r, ChunksOf(r))
<1>1. \A g \in ChunksOf(r) : g.end <= SizeOf[r.scope]
  BY ChunkFacts, RequestFacts, RegionEnds
<1>2. {g \in ChunksOf(r) : g.end <= SizeOf[r.scope]} = ChunksOf(r)
  BY <1>1
<1> QED
  BY <1>2 DEF Discovered

(* A step that leaves the session's files alone keeps the checkpoint exact. *)
LEMMA SessionKept ==
  ASSUME RunInv, UNCHANGED <<index, checkpoint>>
  PROVE  CheckpointInv'
BY DEF RunInv, CheckpointInv, CheckpointExact

(* A process that ends short of "finished" keeps the invariant. *)
LEMMA ExitKeeps ==
  ASSUME RunInv, NEW ending, ending # "finished", Exit(ending),
         UNCHANGED <<index, checkpoint>>, TypeOK', BeforeSession'
  PROVE  RunInv'
<1>1. pc' = "idle" /\ outcome' # "finished" /\ indexGood'
  BY DEF Exit
<1>2. WalkInv' /\ ChunksInv' /\ ScanInv' /\ DecisionInv' /\ FinishedInv'
  BY <1>1 DEF WalkInv, ChunksInv, ScanInv, DecisionInv, FinishedInv, FinishedIsExact
<1> QED
  BY <1>1, <1>2, SessionKept DEF RunInv

(* A scan that ends in an error keeps it too. *)
LEMMA ScanFailureKeeps ==
  ASSUME RunInv, NEW code, code # "complete", ScanEnds(code),
         CheckpointInv', indexGood', outcome' = outcome, pc # "idle", TypeOK', BeforeSession'
  PROVE  RunInv'
<1>1. pc' = "decide" /\ result' # "complete" /\ outcome' # "finished"
  BY DEF ScanEnds, RunInv, FinishedInv
<1>2. WalkInv' /\ ChunksInv' /\ ScanInv' /\ DecisionInv' /\ FinishedInv'
  BY <1>1 DEF WalkInv, ChunksInv, ScanInv, DecisionInv, FinishedInv, FinishedIsExact
<1> QED
  BY <1>2 DEF RunInv

(* The checkpoint written at the end of a chunk is exact. *)
LEMMA CheckpointWritten ==
  ASSUME ShapesSeparate, RunInv, onScanned
  PROVE  CheckpointInv'
<1>1. /\ region \in ChunksOf(req)
      /\ Lists(index, Discovered(req, region.end))
  BY ChunkDone DEF onScanned
<1>2. /\ checkpoint' = [shape |-> shapeOf(req), cursor |-> region.end, records |-> Len(index)]
      /\ index' = index
  BY DEF onScanned
<1>3. SubSeq(index, 1, Len(index)) = index /\ Len(index) \in Nat /\ req \in Requests
  BY DEF RunInv, TypeOK
<1>4. ASSUME NEW r \in Requests, shapeOf(r) = shapeOf(req)
      PROVE  /\ Lists(SubSeq(index, 1, Len(index)), Discovered(r, region.end))
             /\ \E g \in ChunksOf(r) : g.end = region.end
  BY <1>1, <1>3, <1>4, SameShape
<1>5. CheckpointExact'
  BY <1>2, <1>3, <1>4 DEF CheckpointExact
<1> QED
  BY <1>2, <1>4, <1>5 DEF CheckpointInv

(* The first chunks of a run: all of them, or the ones past the checkpoint. *)
LEMMA WalkDone ==
  ASSUME RunInv, pc = "walk", toAppend = {},
         NEW planned, planned = carveRegions(req, accountedBy(req), ResumeCursor)
  PROVE  /\ planned \subseteq ChunksOf(req)
         /\ \A g \in ChunksOf(req) \ planned : \A h \in planned : g.end <= h.start
         /\ checkpoint # None => /\ checkpoint.shape = shapeOf(req)
                                 /\ checkpoint.records <= Len(index)
         /\ Lists(index, entriesOf(req) \union CarvedIn(req, ChunksOf(req) \ planned))
<1>0. req \in Requests /\ index \in Seq(Items)
  BY DEF RunInv, TypeOK
<1>1. CASE resumeFrom = None
  <2>1. /\ checkpoint = None /\ Lists(index, entriesOf(req) \ {})
        /\ planned = ChunksOf(req)
    BY <1>1 DEF RunInv, WalkInv, ResumeCursor, ChunksOf
  <2>2. entriesOf(req) \union CarvedIn(req, ChunksOf(req) \ planned) = entriesOf(req) \ {}
    BY <2>1 DEF CarvedIn
  <2> QED
    BY <2>1, <2>2
<1>2. CASE resumeFrom # None
  <2>1. /\ checkpoint # None /\ checkpoint.shape = shapeOf(req)
        /\ resumeFrom = checkpoint.cursor /\ checkpoint.records = Len(index)
    BY <1>2 DEF RunInv, WalkInv
  <2> DEFINE e == checkpoint.cursor
  <2>2. PICK last \in ChunksOf(req) : last.end = e
    BY <1>0, <2>1 DEF RunInv, CheckpointInv
  <2>3. Lists(SubSeq(index, 1, Len(index)), Discovered(req, e))
    BY <1>0, <2>1 DEF RunInv, CheckpointInv, CheckpointExact
  <2>4. planned = {h \in ChunksOf(req) : h.start >= e}
    BY <1>0, <1>2, <2>1, <2>2, ChunkFacts DEF ResumeCursor
  <2>5. \A g \in ChunksOf(req) : g.start \in Nat /\ g.end \in Nat /\ g.start < g.end
    BY <1>0, ChunkFacts, RequestFacts, RegionEnds
  <2>6. \A g \in ChunksOf(req) : g.start < e <=> g.end <= e
    BY <1>0, <2>2, <2>5, ChunkFacts DEF Apart
  <2>7. ChunksOf(req) \ planned = {g \in ChunksOf(req) : g.end <= e}
    BY <2>2, <2>4, <2>5, <2>6
  <2>8. \A g \in ChunksOf(req) \ planned : \A h \in planned : g.end <= h.start
    BY <2>2, <2>4, <2>5, <2>7
  <2>9. Lists(index, entriesOf(req) \union CarvedIn(req, ChunksOf(req) \ planned))
    <3>1. SubSeq(index, 1, Len(index)) = index
      BY <1>0
    <3> QED
      BY <3>1, <2>3, <2>7 DEF Discovered
  <2> QED
    BY <1>0, <2>1, <2>4, <2>8, <2>9
<1> QED
  BY <1>1, <1>2

(* One more finding in the index. *)
LEMMA AppendKeeps ==
  ASSUME "append" \notin FaultKinds, RunInv, append
  PROVE  CheckpointInv' /\ WalkInv' /\ ChunksInv' /\ ScanInv' /\ indexGood'
<1>1. PICK x \in toAppend : toAppend' = toAppend \ {x} /\ index' = Append(index, x) /\ indexGood'
  BY DEF append, Fault, RunInv
<1>2. /\ UNCHANGED <<checkpoint, pc, req, resumeFrom, regions, region>>
      /\ pc \in {"walk", "chunk"}
  BY DEF append
<1>3. req \in Requests /\ index \in Seq(Items) /\ x \in Items /\ Len(index') = Len(index) + 1
  BY <1>1 DEF RunInv, TypeOK
<1>4. CheckpointInv'
  <2>1. SUFFICES ASSUME checkpoint # None,
                        NEW r \in Requests, shapeOf(r) = checkpoint.shape
                 PROVE  /\ checkpoint.records <= Len(index')
                        /\ SubSeq(index', 1, checkpoint.records)
                             = SubSeq(index, 1, checkpoint.records)
    BY <1>2 DEF RunInv, CheckpointInv, CheckpointExact
  <2>2. checkpoint.records \in Nat /\ checkpoint.records <= Len(index)
    BY <2>1 DEF RunInv, TypeOK, Checkpoints, CheckpointInv, CheckpointExact
  <2> QED
    BY <1>1, <1>3, <2>2, Prefixes
<1>5. WalkInv'
  <2>1. SUFFICES ASSUME pc = "walk" PROVE WalkInv'
    BY <1>2 DEF WalkInv
  <2>2. /\ resumeFrom = None /\ checkpoint = None /\ toAppend \subseteq entriesOf(req)
        /\ Lists(index, entriesOf(req) \ toAppend)
    BY <1>1, <2>1 DEF RunInv, WalkInv
  <2>3. Lists(index', (entriesOf(req) \ toAppend) \union {x})
    BY <1>1, <1>3, <2>2, ListsAppend
  <2>4. (entriesOf(req) \ toAppend) \union {x} = entriesOf(req) \ toAppend'
    BY <1>1, <2>2
  <2> QED
    BY <1>1, <1>2, <2>2, <2>3, <2>4 DEF WalkInv
<1>6. ChunksInv'
  BY <1>2, <1>3 DEF RunInv, TypeOK, Checkpoints, ChunksInv
<1>7. ScanInv'
  <2>1. SUFFICES ASSUME pc = "chunk" PROVE ScanInv'
    BY <1>2 DEF ScanInv
  <2> DEFINE F == Findings(req.scope, req.formats, region)
             S == entriesOf(req) \union CarvedIn(req, ChunksOf(req) \ regions)
  <2>2. /\ region \in regions /\ \A h \in regions : region.start <= h.start
        /\ toAppend \subseteq F /\ Lists(index, S \union (F \ toAppend))
        /\ regions \subseteq ChunksOf(req)
    BY <2>1 DEF RunInv, ScanInv, ChunksInv
  <2>3. F \cap S = {}
    BY <1>3, <2>2, ChunkIsNew
  <2>4. x \notin S \union (F \ toAppend)
    BY <1>1, <2>2, <2>3
  <2>5. Lists(index', (S \union (F \ toAppend)) \union {x})
    BY <1>1, <1>3, <2>2, <2>4, ListsAppend
  <2>6. (S \union (F \ toAppend)) \union {x} = S \union (F \ toAppend')
    BY <1>1, <2>2
  <2>7. Lists(index', S \union (F \ toAppend')) /\ toAppend' \subseteq F
    BY <1>1, <2>2, <2>5, <2>6
  <2> QED
    BY <1>2, <2>1, <2>2, <2>7 DEF ScanInv
<1> QED
  BY <1>1, <1>4, <1>5, <1>6, <1>7

LEMMA RunInvStep ==
  ASSUME ShapesSeparate, "append" \notin FaultKinds, "mount" \notin FaultKinds,
         "directory" \notin FaultKinds,
         "source" \in FaultKinds => Partitioned = {},
         RunInv, [Next]_vars
  PROVE  RunInv'
<1> USE DEF session, scan
<1>0. TypeOK' /\ BeforeSession'
  BY TypeStep DEF RunInv
<1>a. indexGood /\ req \in Requests /\ (pc # "idle" => outcome # "finished")
  BY DEF RunInv, TypeOK, FinishedInv
<1>1. ASSUME NEW r \in Requests, runRecovery(r) PROVE RunInv'
  <2>1. pc' = "open" /\ outcome' = "running" /\ indexGood' /\ UNCHANGED <<index, checkpoint>>
    BY <1>1, <1>a DEF runRecovery
  <2>2. WalkInv' /\ ChunksInv' /\ ScanInv' /\ DecisionInv' /\ FinishedInv'
    BY <2>1 DEF WalkInv, ChunksInv, ScanInv, DecisionInv, FinishedInv, FinishedIsExact
  <2> QED
    BY <1>0, <2>1, <2>2, SessionKept DEF RunInv
<1>2. CASE refused
  <2>1. PICK ending : Exit(ending) /\ ending # "finished"
    BY <1>2, EndingsOfCodes DEF refused
  <2> QED
    BY <1>0, <1>2, <2>1, ExitKeeps DEF refused
<1>3. CASE continuedSession
  <2>1. /\ pc' = "walk" /\ outcome' = outcome /\ indexGood' /\ outcome # "finished"
        /\ checkpoint # None /\ checkpoint.shape = shapeOf(req)
        /\ checkpoint.records <= Len(index)
        /\ index' = SubSeq(index, 1, checkpoint.records) /\ resumeFrom' = checkpoint.cursor
        /\ UNCHANGED <<checkpoint, req, toAppend>> /\ toAppend = {}
    BY <1>3, <1>a DEF continuedSession, resumable, RunInv, BeforeSession
  <2>2. checkpoint.records \in Nat /\ checkpoint.cursor \in Nat /\ index \in Seq(Items)
    BY <2>1 DEF RunInv, TypeOK, Checkpoints
  <2>3. Len(index') = checkpoint.records /\ SubSeq(index', 1, checkpoint.records) = index'
    BY <2>1, <2>2, Prefixes
  <2>4. CheckpointInv'
    <3>1. \A r \in Requests : shapeOf(r) = checkpoint.shape =>
            /\ Lists(index', Discovered(r, checkpoint.cursor))
            /\ \E g \in ChunksOf(r) : g.end = checkpoint.cursor
      BY <2>1 DEF RunInv, CheckpointInv, CheckpointExact
    <3>2. checkpoint.records <= Len(index')
      BY <2>2, <2>3
    <3>3. CheckpointExact'
      BY <2>1, <2>3, <3>1, <3>2 DEF CheckpointExact
    <3> QED
      BY <2>1, <3>1, <3>3 DEF CheckpointInv
  <2>5. WalkInv'
    BY <2>1, <2>2, <2>3, RecoveryRunAssumption DEF WalkInv
  <2>6. ChunksInv' /\ ScanInv' /\ DecisionInv' /\ FinishedInv'
    BY <2>1 DEF ChunksInv, ScanInv, DecisionInv, FinishedInv, FinishedIsExact
  <2> QED
    BY <1>0, <2>1, <2>4, <2>5, <2>6 DEF RunInv
<1>4. CASE clearCheckpoint
  <2>1. pc' = "fresh" /\ checkpoint' = None /\ outcome' # "finished" /\ indexGood'
    BY <1>4, <1>a DEF clearCheckpoint
  <2>2. /\ CheckpointInv' /\ WalkInv' /\ ChunksInv' /\ ScanInv' /\ DecisionInv' /\ FinishedInv'
    BY <2>1 DEF CheckpointInv, CheckpointExact, WalkInv, ChunksInv, ScanInv, DecisionInv,
                FinishedInv, FinishedIsExact
  <2> QED
    BY <1>0, <2>1, <2>2 DEF RunInv
<1>5. CASE freshSession
  <2>1. /\ pc' = "walk" /\ checkpoint' = None /\ outcome' # "finished" /\ indexGood'
        /\ index' = <<>> /\ toAppend' = entriesOf(req) /\ req' = req /\ resumeFrom' = None
    BY <1>5, <1>a DEF freshSession, RunInv, BeforeSession
  <2>2. WalkInv'
    <3>1. entriesOf(req) \ entriesOf(req) = {}
      OBVIOUS
    <3> QED
      BY <2>1, <3>1, ListsEmpty DEF WalkInv
  <2>3. CheckpointInv' /\ ChunksInv' /\ ScanInv' /\ DecisionInv' /\ FinishedInv'
    BY <2>1 DEF CheckpointInv, CheckpointExact, ChunksInv, ScanInv, DecisionInv,
                FinishedInv, FinishedIsExact
  <2> QED
    BY <1>0, <2>1, <2>2, <2>3 DEF RunInv
<1>6. CASE createFails
  <2>1. /\ checkpoint' = None /\ indexGood' /\ outcome' = outcome /\ pc # "idle"
        /\ ScanEnds("kIoFailure")
    BY <1>6, <1>a DEF createFails, RunInv, BeforeSession
  <2>2. CheckpointInv'
    BY <2>1 DEF CheckpointInv, CheckpointExact
  <2> QED
    BY <1>0, <2>1, <2>2, ScanFailureKeeps
<1>7. CASE append
  <2>1. pc' = pc /\ outcome' # "finished" /\ pc \in {"walk", "chunk"}
    BY <1>7, <1>a DEF append
  <2>2. DecisionInv' /\ FinishedInv'
    BY <2>1 DEF DecisionInv, FinishedInv, FinishedIsExact
  <2> QED
    BY <1>0, <1>7, <2>2, AppendKeeps DEF RunInv
<1>8. CASE walkScope
  <2>1. /\ pc = "walk" /\ toAppend = {} /\ indexGood' /\ UNCHANGED <<index, checkpoint, req, outcome>>
    BY <1>8, <1>a DEF walkScope
  <2>2. CASE pc' = "scan"
    <3>1. regions' = carveRegions(req, accountedBy(req), ResumeCursor)
      BY <1>8, <2>2 DEF walkScope, ScanEnds
    <3>2. ChunksInv' /\ ScanInv'
      BY <2>1, <2>2, <3>1, WalkDone DEF ChunksInv, ScanInv
    <3>3. WalkInv' /\ DecisionInv' /\ FinishedInv'
      BY <1>a, <2>1, <2>2 DEF WalkInv, DecisionInv, FinishedInv, FinishedIsExact
    <3> QED
      BY <1>0, <2>1, <3>2, <3>3, SessionKept DEF RunInv
  <2>3. CASE pc' # "scan"
    <3>1. ScanEnds("kNotFound")
      BY <1>8, <2>3 DEF walkScope
    <3> QED
      BY <1>0, <2>1, <3>1, SessionKept, ScanFailureKeeps
  <2> QED
    BY <2>2, <2>3
<1>9. CASE mountFailure
  BY <1>9 DEF mountFailure, Fault
<1>9a. CASE walkOneFails \/ skipUnreadableDirectory
  BY <1>9a DEF walkOneFails, skipUnreadableDirectory, Fault
<1>10. CASE sourceLost
  <2>1. /\ ScanEnds("kSourceLost") /\ indexGood' /\ pc # "idle" /\ UNCHANGED <<index, checkpoint, outcome>>
    BY <1>10, <1>a DEF sourceLost, Mounting
  <2> QED
    BY <1>0, <2>1, SessionKept, ScanFailureKeeps
<1>11. CASE scanNextRegion
  <2>1. /\ pc = "scan" /\ pc' = "chunk" /\ indexGood'
        /\ UNCHANGED <<index, checkpoint, req, regions, outcome>>
        /\ region' \in regions /\ \A h \in regions : region'.start <= h.start
        /\ toAppend' = Findings(req.scope, req.formats, region')
    BY <1>11, <1>a DEF scanNextRegion
  <2>2. ChunksInv'
    BY <2>1 DEF RunInv, ChunksInv
  <2>3. ScanInv'
    <3> DEFINE S == entriesOf(req) \union CarvedIn(req, ChunksOf(req) \ regions)
    <3>1. Lists(index, S)
      BY <2>1 DEF RunInv, ScanInv
    <3>2. S = S \union (toAppend' \ toAppend')
      OBVIOUS
    <3>3. Lists(index, S \union (toAppend' \ toAppend'))
      BY <3>1, <3>2
    <3> QED
      BY <2>1, <3>3 DEF ScanInv
  <2>4. WalkInv' /\ DecisionInv' /\ FinishedInv'
    BY <1>a, <2>1 DEF WalkInv, DecisionInv, FinishedInv, FinishedIsExact
  <2> QED
    BY <1>0, <2>1, <2>2, <2>3, <2>4, SessionKept DEF RunInv
<1>12. CASE onScanned
  <2>1. /\ pc = "chunk" /\ toAppend = {} /\ indexGood'
        /\ UNCHANGED <<index, req, outcome>> /\ regions' = regions \ {region}
        /\ checkpoint' = [shape |-> shapeOf(req), cursor |-> region.end, records |-> Len(index)]
    BY <1>12, <1>a DEF onScanned
  <2>2. CheckpointInv'
    BY <1>12, CheckpointWritten
  <2>3. /\ region \in regions /\ regions \subseteq ChunksOf(req)
        /\ {g \in ChunksOf(req) : g.end <= region.end} = ChunksOf(req) \ regions'
        /\ Lists(index, Discovered(req, region.end))
        /\ \A g \in ChunksOf(req) \ regions' : \A h \in regions' : g.end <= h.start
    BY <2>1, ChunkDone DEF RunInv, ChunksInv
  <2>4. Lists(index, entriesOf(req) \union CarvedIn(req, ChunksOf(req) \ regions'))
    BY <2>3 DEF Discovered
  <2>5. CASE pc' = "scan"
    <3>1. ChunksInv'
      BY <2>1, <2>3, <2>5 DEF ChunksInv, RunInv, TypeOK
    <3>2. ScanInv'
      BY <2>1, <2>4, <2>5 DEF ScanInv
    <3>3. WalkInv' /\ DecisionInv' /\ FinishedInv'
      BY <1>a, <2>1, <2>5 DEF WalkInv, DecisionInv, FinishedInv, FinishedIsExact
    <3> QED
      BY <1>0, <2>1, <2>2, <3>1, <3>2, <3>3 DEF RunInv
  <2>6. CASE pc' # "scan"
    <3>1. pc' = "decide" /\ result' = scanResult(indexGood, regions')
      BY <1>12, <2>6 DEF onScanned, ScanEnds
    <3>2. DecisionInv'
      <4>1. SUFFICES ASSUME result' = "complete"
                     PROVE  Lists(index, Discovered(req, SizeOf[req.scope]))
        BY <2>1, <3>1 DEF DecisionInv
      <4>2. regions' = {}
        BY <3>1, <4>1 DEF scanResult
      <4>3. ChunksOf(req) \ regions' = ChunksOf(req)
        BY <4>2
      <4> QED
        BY <1>a, <2>4, <4>3, AllDone
    <3>3. WalkInv' /\ ChunksInv' /\ ScanInv' /\ FinishedInv'
      BY <1>a, <2>1, <3>1 DEF WalkInv, ChunksInv, ScanInv, FinishedInv, FinishedIsExact
    <3> QED
      BY <1>0, <2>1, <2>2, <3>2, <3>3 DEF RunInv
  <2> QED
    BY <2>5, <2>6
<1>13. CASE onScannedUnwritable
  <2>1. /\ ScanEnds("kIoFailure") /\ indexGood' /\ pc # "idle" /\ UNCHANGED <<index, checkpoint, outcome>>
    BY <1>13, <1>a DEF onScannedUnwritable
  <2> QED
    BY <1>0, <2>1, SessionKept, ScanFailureKeeps
<1>14. CASE scanRegions
  <2>1. /\ pc = "scan" /\ pc' = "decide" /\ regions = {} /\ indexGood'
        /\ UNCHANGED <<index, checkpoint, req, outcome>>
    BY <1>14, <1>a DEF scanRegions, ScanEnds
  <2>2. Lists(index, Discovered(req, SizeOf[req.scope]))
    <3>1. Lists(index, entriesOf(req) \union CarvedIn(req, ChunksOf(req) \ {}))
      BY <2>1 DEF RunInv, ScanInv
    <3>2. ChunksOf(req) \ {} = ChunksOf(req)
      OBVIOUS
    <3> QED
      BY <1>a, <3>1, <3>2, AllDone
  <2>3. WalkInv' /\ ChunksInv' /\ ScanInv' /\ DecisionInv' /\ FinishedInv'
    BY <1>a, <2>1, <2>2 DEF WalkInv, ChunksInv, ScanInv, DecisionInv, FinishedInv, FinishedIsExact
  <2> QED
    BY <1>0, <2>1, <2>3, SessionKept DEF RunInv
<1>15. CASE stopped
  <2>1. PICK ending : Exit(ending) /\ ending # "finished"
    BY <1>15, EndingsOfCodes DEF stopped
  <2> QED
    BY <1>0, <1>15, <2>1, ExitKeeps DEF stopped
<1>16. CASE arbitrateIndexFails
  <2>1. PICK code : Exit(outcomeOf(code))
    BY <1>16 DEF arbitrateIndexFails
  <2> QED
    BY <1>0, <1>16, <2>1, EndingsOfCodes, ExitKeeps DEF arbitrateIndexFails
<1>17. CASE reserve
  <2>1. CASE pc' = "deliver"
    <3>1. /\ artifacts' = [w \in Winners(Found) |-> "notAttempted"] /\ indexGood'
          /\ result = "complete" /\ pc = "decide"
          /\ UNCHANGED <<index, checkpoint, req, result, outcome>>
      BY <1>17, <1>a, <2>1 DEF reserve, Exit
    <3>2. Lists(index, Discovered(req, SizeOf[req.scope]))
      BY <3>1 DEF RunInv, DecisionInv
    <3>3. Found = Discovered(req, SizeOf[req.scope])
      BY <3>2 DEF Found, Lists, RunInv, TypeOK
    <3>4. DecisionInv'
      BY <2>1, <3>1, <3>2, <3>3 DEF DecisionInv
    <3>5. WalkInv' /\ ChunksInv' /\ ScanInv' /\ FinishedInv'
      BY <1>a, <2>1, <3>1 DEF WalkInv, ChunksInv, ScanInv, FinishedInv, FinishedIsExact
    <3> QED
      BY <1>0, <3>1, <3>4, <3>5, SessionKept DEF RunInv
  <2>2. CASE pc' # "deliver"
    BY <1>0, <1>17, <2>2, ExitKeeps DEF reserve
  <2> QED
    BY <2>1, <2>2
<1>18. CASE writeOne
  <2>1. /\ pc = "deliver" /\ req.delivery = "extract" /\ DOMAIN artifacts' = DOMAIN artifacts
        /\ indexGood' /\ UNCHANGED <<index, checkpoint, req, outcome>>
        /\ \/ pc' = pc /\ result' = result
           \/ pc' = "record" /\ result' # "complete"
        /\ \A w \in DOMAIN artifacts : artifacts[w] # "previewed" => artifacts'[w] # "previewed"
    BY <1>18, <1>a DEF writeOne
  <2>2. DecisionInv'
    BY <2>1 DEF RunInv, DecisionInv
  <2>3. WalkInv' /\ ChunksInv' /\ ScanInv' /\ FinishedInv'
    BY <1>a, <2>1 DEF WalkInv, ChunksInv, ScanInv, FinishedInv, FinishedIsExact
  <2> QED
    BY <1>0, <2>1, <2>2, <2>3, SessionKept DEF RunInv
<1>19. CASE delivered
  <2>1. /\ pc = "deliver" /\ pc' = "record" /\ indexGood'
        /\ UNCHANGED <<index, checkpoint, req, outcome, result>>
        /\ DOMAIN artifacts' = DOMAIN artifacts
    BY <1>19, <1>a DEF delivered
  <2>a. \A w \in DOMAIN artifacts' : artifacts'[w] \in Turns(req)
    <3>1. /\ \A w \in DOMAIN artifacts : artifacts[w] \in Statuses
          /\ \A w \in DOMAIN artifacts : artifacts[w] # "previewed"
      BY <2>1 DEF RunInv, DecisionInv, TypeOK
    <3> QED
      BY <1>19, <3>1 DEF delivered, Statuses, Turns
  <2>2. DecisionInv'
    BY <2>1, <2>a DEF RunInv, DecisionInv, Turns
  <2>3. WalkInv' /\ ChunksInv' /\ ScanInv' /\ FinishedInv'
    BY <1>a, <2>1 DEF WalkInv, ChunksInv, ScanInv, FinishedInv, FinishedIsExact
  <2> QED
    BY <1>0, <2>1, <2>2, <2>3, SessionKept DEF RunInv
<1>20. CASE recorded
  <2>1. CASE outcome' = "finished"
    <3>1. /\ result = "complete" /\ pc = "record" /\ pc' = "idle" /\ indexGood'
          /\ manifest' = [outcome |-> "finished", scannedUpTo |-> scannedUpTo, artifacts |-> artifacts]
          /\ UNCHANGED <<index, checkpoint, req, artifacts>>
      BY <1>20, <2>1, EndingsOfCodes DEF recorded, Exit
    <3>2. /\ Lists(index, Discovered(req, SizeOf[req.scope]))
          /\ DOMAIN artifacts = Winners(Discovered(req, SizeOf[req.scope]))
          /\ \A w \in DOMAIN artifacts : artifacts[w] \in Turns(req)
      BY <3>1 DEF RunInv, DecisionInv
    <3>4. FinishedInv'
      BY <3>1, <3>2 DEF FinishedInv, FinishedIsExact, Turns
    <3>5. WalkInv' /\ ChunksInv' /\ ScanInv' /\ DecisionInv'
      BY <3>1 DEF WalkInv, ChunksInv, ScanInv, DecisionInv
    <3> QED
      BY <1>0, <3>1, <3>4, <3>5, SessionKept DEF RunInv
  <2>2. CASE outcome' # "finished"
    <3>1. PICK ending : Exit(ending)
      BY <1>20 DEF recorded
    <3>2. ending # "finished"
      BY <2>2, <3>1 DEF Exit
    <3> QED
      BY <1>0, <1>20, <3>1, <3>2, ExitKeeps DEF recorded
  <2> QED
    BY <2>1, <2>2
<1>21. CASE onInterrupt
  <2>1. /\ pc # "idle" /\ indexGood'
        /\ UNCHANGED <<index, checkpoint, pc, req, resumeFrom, toAppend, regions, region, result,
                       artifacts, outcome>>
    BY <1>21, <1>a DEF onInterrupt
  <2>2. WalkInv' /\ ChunksInv' /\ ScanInv' /\ DecisionInv'
    BY <2>1 DEF RunInv, WalkInv, ChunksInv, ScanInv, DecisionInv
  <2>3. FinishedInv'
    BY <1>a, <2>1 DEF FinishedInv, FinishedIsExact
  <2> QED
    BY <1>0, <2>1, <2>2, <2>3, SessionKept DEF RunInv
<1>22. CASE killed
  BY <1>0, <1>22, ExitKeeps DEF killed
<1>23. CASE UNCHANGED vars
  <2>1. /\ indexGood'
        /\ UNCHANGED <<index, checkpoint, manifest, pc, req, resumeFrom, toAppend, regions, region,
                       result, artifacts, outcome>>
    BY <1>23, <1>a DEF vars
  <2>2. WalkInv' /\ ChunksInv' /\ ScanInv' /\ DecisionInv'
    BY <2>1 DEF RunInv, WalkInv, ChunksInv, ScanInv, DecisionInv
  <2>3. FinishedInv'
    BY <2>1 DEF RunInv, FinishedInv, FinishedIsExact
  <2> QED
    BY <1>0, <2>1, <2>2, <2>3, SessionKept DEF RunInv
<1> QED
  BY <1>1, <1>2, <1>3, <1>4, <1>5, <1>6, <1>7, <1>8, <1>9, <1>9a, <1>10, <1>11, <1>12, <1>13,
     <1>14, <1>15, <1>16, <1>17, <1>18, <1>19, <1>20, <1>21, <1>22, <1>23 DEF Next, Step

(* The invariant holds whatever is interrupted, killed or refused, as long as
   appends are not refused, walks are repeatable and shapes tell scopes apart. *)
THEOREM RunInvariant ==
  ASSUME ShapesSeparate, "append" \notin FaultKinds, "mount" \notin FaultKinds,
         "directory" \notin FaultKinds,
         "source" \in FaultKinds => Partitioned = {}
  PROVE  Spec => []RunInv
<1>1. Init => RunInv
  <2> SUFFICES ASSUME Init PROVE RunInv
    OBVIOUS
  <2>1. TypeOK /\ BeforeSession /\ indexGood
    BY TypeInit DEF Init
  <2>2. CheckpointInv /\ WalkInv /\ ChunksInv /\ ScanInv /\ DecisionInv /\ FinishedInv
    BY DEF Init, CheckpointInv, CheckpointExact, WalkInv, ChunksInv, ScanInv, DecisionInv,
           FinishedInv, FinishedIsExact
  <2> QED
    BY <2>1, <2>2 DEF RunInv
<1>2. RunInv /\ [Next]_vars => RunInv'
  BY RunInvStep
<1> QED
  BY <1>1, <1>2, PTL DEF Spec

(* Every checkpoint on disk names exactly what an undisturbed run of its command
   holds at that byte. *)
THEOREM CheckpointsAreExact ==
  ASSUME ShapesSeparate, "append" \notin FaultKinds, "mount" \notin FaultKinds,
         "directory" \notin FaultKinds,
         "source" \in FaultKinds => Partitioned = {}
  PROVE  Spec => []CheckpointExact
<1>1. RunInv => CheckpointExact
  BY DEF RunInv, CheckpointInv
<1> QED
  BY <1>1, RunInvariant, PTL

(* Every run that exits 0, after however many interrupted, killed and failed
   ones, decided and delivered as a single undisturbed run would have. *)
THEOREM FinishedRunsAreExact ==
  ASSUME ShapesSeparate, "append" \notin FaultKinds, "mount" \notin FaultKinds,
         "directory" \notin FaultKinds,
         "source" \in FaultKinds => Partitioned = {}
  PROVE  Spec => []FinishedIsExact
<1>1. RunInv => FinishedIsExact
  BY DEF RunInv, FinishedInv
<1> QED
  BY <1>1, RunInvariant, PTL

(***************************************************************************)
(* The manifest, whatever goes wrong.                                      *)
(***************************************************************************)

(* A manifest that was written is there. *)
LEMMA ManifestsAreFiles ==
  ASSUME NEW ending \in Endings \union {"in-progress"}, NEW upTo \in Nat,
         NEW S \in SUBSET Items, NEW a \in [S -> Statuses]
  PROVE  [outcome |-> ending, scannedUpTo |-> upTo, artifacts |-> a] # None
<1>1. a \in UNION {[T -> Statuses] : T \in SUBSET Items}
  OBVIOUS
<1>2. [outcome |-> ending, scannedUpTo |-> upTo, artifacts |-> a] \in Manifests
  BY <1>1 DEF Manifests
<1> QED
  BY <1>2, NoneAssumption

(* A step between the opening of the session and the decision writes no file
   and no manifest. *)
LEMMA BeforeDeliveryKeeps ==
  ASSUME ManifestInv, UNCHANGED <<manifest, artifacts>>,
         pc \in {"open", "fresh", "walk", "scan", "chunk", "decide"},
         pc' \in {"open", "fresh", "walk", "scan", "chunk", "decide"},
         pc' = "decide" /\ result' = "incomplete" =>
           checkpoint' # None /\ checkpoint'.cursor = scannedUpTo'
  PROVE  ManifestInv'
BY DEF ManifestInv, Accounts

(* Neither does the end of a process, unless it says so. *)
LEMMA ExitAccounts ==
  ASSUME NEW ending, Exit(ending), Accounts'
  PROVE  ManifestInv'
BY DEF ManifestInv, Exit

LEMMA ManifestStep ==
  ASSUME TypeOK, BeforeSession, ManifestInv, [Next]_vars
  PROVE  ManifestInv'
<1> USE DEF session, scan
<1>0. DOMAIN NoArtifacts = {}
  BY DEF NoArtifacts
<1>1. ASSUME NEW r \in Requests, runRecovery(r) PROVE ManifestInv'
  BY <1>0, <1>1 DEF runRecovery, ManifestInv, Accounts
<1>2. CASE refused \/ arbitrateIndexFails \/ killed
  <2>1. /\ \E ending : Exit(ending)
        /\ UNCHANGED <<manifest, artifacts>>
    BY <1>2 DEF refused, arbitrateIndexFails, killed
  <2>2. Accounts'
    BY <2>1 DEF ManifestInv, Accounts
  <2> QED
    BY <2>1, <2>2, ExitAccounts
<1>3. CASE continuedSession \/ clearCheckpoint \/ freshSession \/ scanNextRegion
  BY <1>3, BeforeDeliveryKeeps DEF continuedSession, clearCheckpoint, freshSession, scanNextRegion
<1>4. CASE createFails \/ mountFailure \/ sourceLost \/ onScannedUnwritable \/ walkScope
  BY <1>4, BeforeDeliveryKeeps
     DEF createFails, mountFailure, Mounting, sourceLost, onScannedUnwritable, walkScope, ScanEnds
<1>5. CASE walkOneFails \/ skipUnreadableDirectory
  BY <1>5, BeforeDeliveryKeeps DEF walkOneFails, skipUnreadableDirectory, WalkFallsShort
<1>6. CASE append
  BY <1>6, BeforeDeliveryKeeps DEF append
<1>7. CASE onScanned
  <2>1. /\ pc = "chunk" /\ pc' \in {"scan", "decide"} /\ UNCHANGED <<manifest, artifacts>>
        /\ scannedUpTo' = region.end /\ region.end \in Nat
        /\ checkpoint' = [shape |-> shapeOf(req), cursor |-> region.end, records |-> Len(index)]
    BY <1>7, RequestFacts, RegionEnds DEF onScanned, ScanEnds, TypeOK, NoRegion, Region
  <2>2. checkpoint' # None
    <3>1. checkpoint' \in Checkpoints
      BY <2>1 DEF Checkpoints, TypeOK
    <3> QED
      BY <3>1, NoneAssumption
  <2> QED
    BY <2>1, <2>2, BeforeDeliveryKeeps
<1>8. CASE scanRegions
  BY <1>8, BeforeDeliveryKeeps DEF scanRegions, ScanEnds, scanResult
<1>9. CASE stopped
  <2>1. /\ \E ending : Exit(ending)
        /\ artifacts' = NoArtifacts
    BY <1>9 DEF stopped, ManifestInv
  <2>2. Accounts'
    BY <1>0, <2>1 DEF Accounts
  <2> QED
    BY <2>1, <2>2, ExitAccounts
<1>10. CASE reserve
  <2>1. CASE pc' = "deliver"
    <3>1. /\ manifest' = [outcome |-> "in-progress", scannedUpTo |-> scannedUpTo,
                          artifacts |-> NoArtifacts]
          /\ artifacts' = [w \in Winners(Found) |-> "notAttempted"]
      BY <1>10, <2>1 DEF reserve, Exit, withoutArtifacts
    <3>2. manifest' # None
      <4>1. {} \in SUBSET Items /\ NoArtifacts \in [{} -> Statuses]
        BY DEF NoArtifacts
      <4> QED
        BY <3>1, <4>1, ManifestsAreFiles DEF TypeOK
    <3> QED
      BY <2>1, <3>1, <3>2 DEF ManifestInv, Accounts
  <2>2. CASE pc' # "deliver"
    <3>1. (\E ending : Exit(ending)) /\ UNCHANGED <<manifest, artifacts>>
      BY <1>10, <2>2 DEF reserve
    <3>2. Accounts'
      BY <3>1 DEF ManifestInv, Accounts
    <3> QED
      BY <3>1, <3>2, ExitAccounts
  <2> QED
    BY <2>1, <2>2
<1>11. CASE writeOne \/ delivered
  <2>1. pc = "deliver" /\ pc' \in {"deliver", "record"} /\ manifest' = manifest
    BY <1>11 DEF writeOne, delivered
  <2> QED
    BY <2>1 DEF ManifestInv, Accounts
<1>12. CASE recorded
  <2>1. PICK ending \in Endings :
          /\ Exit(ending)
          /\ \/ manifest' = manifest
             \/ manifest' = [outcome |-> ending, scannedUpTo |-> scannedUpTo, artifacts |-> artifacts]
    BY <1>12, EndingsOfCodes DEF recorded, Endings
  <2>2. pc = "record" /\ artifacts' = artifacts
    BY <1>12 DEF recorded
  <2>3. CASE manifest' = manifest
    <3>1. Accounts'
      BY <2>2, <2>3 DEF ManifestInv, Accounts
    <3> QED
      BY <2>1, <3>1, ExitAccounts
  <2>4. CASE manifest' = [outcome |-> ending, scannedUpTo |-> scannedUpTo, artifacts |-> artifacts]
    <3>1. manifest' # None
      BY <2>4, ManifestsAreFiles DEF TypeOK
    <3>2. Accounts'
      BY <2>2, <2>4, <3>1 DEF Accounts
    <3> QED
      BY <2>1, <3>2, ExitAccounts
  <2> QED
    BY <2>1, <2>3, <2>4
<1>13. CASE onInterrupt \/ UNCHANGED vars
  <2>1. UNCHANGED <<checkpoint, manifest, pc, result, scannedUpTo, artifacts>>
    BY <1>13 DEF onInterrupt, vars
  <2> QED
    BY <2>1 DEF ManifestInv, Accounts
<1> QED
  BY <1>1, <1>2, <1>3, <1>4, <1>5, <1>6, <1>7, <1>8, <1>9, <1>10, <1>11, <1>12, <1>13 DEF Next, Step

(* The only manifest that a run writes at its decision to stop names the cursor
   of the checkpoint. *)
LEMMA StoppedNamesTheCursor ==
  ASSUME TypeOK, ManifestInv, Next,
         manifest' # manifest, manifest'.outcome \in Endings, pc = "decide"
  PROVE  manifest'.scannedUpTo = CheckpointCursor
<1> USE DEF session, scan
<1>1. stopped \/ reserve
  <2>1. ~(\E r \in Requests : runRecovery(r)) /\ ~recorded
    BY DEF runRecovery, recorded
  <2> QED
    BY <2>1 DEF Next, Step, refused, continuedSession, clearCheckpoint, freshSession, createFails,
       append, walkScope, mountFailure, walkOneFails, skipUnreadableDirectory, WalkFallsShort,
       sourceLost, scanNextRegion, onScanned, onScannedUnwritable, scanRegions,
       arbitrateIndexFails, writeOne, delivered, onInterrupt, killed
<1>2. CASE stopped
  <2>1. manifest' = withoutArtifacts(endingOf(result), scannedUpToOf(result))
    BY <1>2 DEF stopped
  <2>2. manifest'.scannedUpTo = scannedUpToOf(result)
    BY <2>1 DEF withoutArtifacts
  <2> QED
    BY <2>2 DEF scannedUpToOf, CheckpointCursor, ManifestInv
<1>3. CASE reserve
  BY <1>3 DEF reserve, withoutArtifacts, Endings
<1> QED
  BY <1>1, <1>2, <1>3

(* No file of a run goes unaccounted for, and a run that stops names the byte
   the next one starts from: whatever is interrupted, killed, lost or refused. *)
THEOREM ManifestsAreTrue == Spec => ManifestIsTrue
<1>1. Init => ManifestInv
  BY DEF Init, ManifestInv, Accounts, NoArtifacts
<1>2. TypeOK /\ BeforeSession /\ ManifestInv /\ [Next]_vars
        => TypeOK' /\ BeforeSession' /\ ManifestInv'
  BY TypeStep, ManifestStep
<1>3. TypeOK /\ ManifestInv /\ ManifestInv' /\ [Next]_vars =>
        [ /\ Accounts'
          /\ manifest' # manifest /\ manifest'.outcome \in Endings /\ pc = "decide" =>
               manifest'.scannedUpTo = CheckpointCursor ]_vars
  BY StoppedNamesTheCursor DEF ManifestInv
<1> QED
  BY TypeInit, <1>1, <1>2, <1>3, PTL DEF Spec, ManifestIsTrue

(***************************************************************************)
(* The session as a checkpointed log, whatever goes wrong.                 *)
(***************************************************************************)

(* What is planned from a cursor on starts there or later, in chunks that do not
   overlap, however little the filesystem pass accounted for. *)
LEMMA PlanFollowsTheCursor ==
  ASSUME NEW r \in Requests, NEW claimed \in SUBSET Regions(SizeOf[r.scope]), NEW from \in Nat
  PROVE  /\ \A g, h \in carveRegions(r, claimed, from) : g = h \/ Apart(g, h)
         /\ \A h \in carveRegions(r, claimed, from) : from <= h.start
<1> DEFINE n == SizeOf[r.scope]
           gs == gaps(claimed, n)
           ts == regionsFrom(gs, from)
<1>1. n \in Nat /\ CheckpointBytes \in Nat \ {0}
  BY RequestFacts
<1>2. gs \subseteq Regions(n) /\ Separated(gs)
  BY <1>1, GapsAreSeparated
<1> HIDE DEF gs, n
<1>3. ASSUME NEW g \in gs, g.end > from
      PROVE  /\ tailOf(g, from) \in Regions(n)
             /\ from <= tailOf(g, from).start /\ g.start <= tailOf(g, from).start
             /\ tailOf(g, from).end = g.end
  <2>1. g.start \in Nat /\ g.end \in Nat /\ g.start < g.end /\ g.end <= n
    BY <1>1, <1>2, RegionEnds
  <2> DEFINE a == IF g.start < from THEN from ELSE g.start
  <2>2. a \in Nat /\ a < g.end /\ from <= a /\ g.start <= a
    BY <2>1, <1>3
  <2>3. tailOf(g, from) = Region(a, g.end)
    BY DEF tailOf
  <2> HIDE DEF a
  <2> QED
    BY <1>1, <2>1, <2>2, <2>3, RegionIn
<1>4. ts \subseteq Regions(n) /\ \A t \in ts : from <= t.start
  BY <1>3 DEF regionsFrom
<1>5. Separated(ts)
  <2>1. ASSUME NEW t \in ts, NEW u \in ts PROVE t = u \/ Apart(t, u)
    <3>1. PICK g \in gs : g.end > from /\ t = tailOf(g, from)
      BY DEF regionsFrom
    <3>2. PICK h \in gs : h.end > from /\ u = tailOf(h, from)
      BY DEF regionsFrom
    <3>3. g = h \/ Apart(g, h)
      BY <1>2 DEF Separated
    <3>4. /\ g.start \in Nat /\ g.end \in Nat /\ h.start \in Nat /\ h.end \in Nat
          /\ t.start \in Nat /\ u.start \in Nat
          /\ g.start <= t.start /\ t.end = g.end /\ h.start <= u.start /\ u.end = h.end
      BY <1>1, <1>2, <1>3, <1>4, <3>1, <3>2, RegionEnds
    <3> QED
      BY <3>1, <3>2, <3>3, <3>4 DEF Apart
  <2> QED
    BY <2>1 DEF Separated
<1> HIDE DEF ts
<1>6. Separated(chunked(ts, CheckpointBytes))
  BY <1>1, <1>4, <1>5, ChunksAreSeparated
<1>7. ASSUME NEW c \in chunked(ts, CheckpointBytes) PROVE from <= c.start
  <2>1. PICK t \in ts : c \in appendChunks(t, CheckpointBytes)
    BY DEF chunked
  <2>2. t.start <= c.start /\ c \in Regions(n)
    BY <1>1, <1>4, <2>1, ChunkIs
  <2>3. t.start \in Nat /\ c.start \in Nat /\ from <= t.start
    BY <1>1, <1>4, <2>2, RegionEnds
  <2> QED
    BY <2>2, <2>3
<1> QED
  BY <1>6, <1>7 DEF carveRegions, Separated, ts, gs, n

(* The walk is over, with all of its accounting, some of it or none. *)
LEMMA PlanKeepsAdvancing ==
  ASSUME TypeOK, AdvanceInv, pc = "walk", pc' = "scan",
         UNCHANGED <<index, checkpoint, req>>,
         \E kept \in SUBSET Regions(SizeOf[req.scope]) :
           regions' = carveRegions(req, kept, ResumeCursor)
  PROVE  AdvanceInv'
<1>1. ResumeCursor \in Nat /\ (checkpoint # None => ResumeCursor = checkpoint.cursor)
  BY RecoveryRunAssumption DEF ResumeCursor, TypeOK, AdvanceInv
<1>2. /\ \A g, h \in regions' : g = h \/ Apart(g, h)
      /\ \A h \in regions' : ResumeCursor <= h.start
  BY <1>1, PlanFollowsTheCursor DEF TypeOK
<1> QED
  BY <1>1, <1>2 DEF AdvanceInv

(* Nothing is said of a process that scans no more. *)
LEMMA AdvanceIsOfScans ==
  ASSUME pc' \notin {"walk", "scan", "chunk"}
  PROVE  AdvanceInv'
BY DEF AdvanceInv

LEMMA AdvanceStep ==
  ASSUME TypeOK, BeforeSession, AdvanceInv, [Next]_vars
  PROVE  AdvanceInv'
<1> USE DEF session, scan
<1>1. ASSUME NEW r \in Requests, runRecovery(r) PROVE AdvanceInv'
  BY <1>1, AdvanceIsOfScans DEF runRecovery
<1>2. CASE refused \/ arbitrateIndexFails \/ killed \/ stopped \/ recorded
  <2>1. \E ending : Exit(ending)
    BY <1>2 DEF refused, arbitrateIndexFails, killed, stopped, recorded
  <2> QED
    BY <2>1, AdvanceIsOfScans DEF Exit
<1>3. CASE continuedSession
  <2>1. /\ pc' = "walk" /\ checkpoint' = checkpoint /\ req' = req
        /\ checkpoint # None /\ checkpoint.shape = shapeOf(req)
        /\ checkpoint.records <= Len(index)
        /\ index' = SubSeq(index, 1, checkpoint.records) /\ resumeFrom' = checkpoint.cursor
    BY <1>3 DEF continuedSession, resumable
  <2>2. checkpoint.records \in Nat /\ checkpoint.cursor \in Nat /\ index \in Seq(Items)
    BY <2>1 DEF TypeOK, Checkpoints
  <2>3. Len(index') = checkpoint.records
    BY <2>1, <2>2, Prefixes
  <2> QED
    BY <2>1, <2>2, <2>3, RecoveryRunAssumption DEF AdvanceInv
<1>4. CASE clearCheckpoint \/ createFails \/ sourceLost \/ onScannedUnwritable \/ scanRegions
  BY <1>4, AdvanceIsOfScans
     DEF clearCheckpoint, createFails, sourceLost, onScannedUnwritable, scanRegions, ScanEnds
<1>5. CASE freshSession
  BY <1>5 DEF freshSession, AdvanceInv, BeforeSession
<1>6. CASE append
  <2>1. PICK x \in toAppend : index' = Append(index, x) \/ index' = index
    BY <1>6 DEF append
  <2>2. Len(index) \in Nat /\ Len(index') \in Nat /\ Len(index) <= Len(index')
    BY <2>1 DEF TypeOK
  <2>3. UNCHANGED <<checkpoint, pc, req, resumeFrom, regions, region>>
    BY <1>6 DEF append
  <2>4. checkpoint # None => checkpoint.records \in Nat
    BY DEF TypeOK, Checkpoints
  <2> QED
    BY <2>2, <2>3, <2>4 DEF AdvanceInv
<1>7. CASE walkScope \/ mountFailure
  <2>1. pc = "walk" /\ UNCHANGED <<index, checkpoint, req>>
    BY <1>7 DEF walkScope, mountFailure, Mounting
  <2>2. CASE pc' = "scan"
    <3>1. \/ regions' = carveRegions(req, accountedBy(req), ResumeCursor)
          \/ regions' = carveRegions(req, {}, ResumeCursor)
      BY <1>7, <2>2 DEF walkScope, mountFailure, ScanEnds
    <3>2. accountedBy(req) \in SUBSET Regions(SizeOf[req.scope])
          /\ {} \in SUBSET Regions(SizeOf[req.scope])
      BY RequestFacts DEF TypeOK
    <3> QED
      BY <2>1, <2>2, <3>1, <3>2, PlanKeepsAdvancing
  <2>3. CASE pc' # "scan"
    BY <1>7, <2>3, AdvanceIsOfScans DEF walkScope, mountFailure, ScanEnds
  <2> QED
    BY <2>2, <2>3
<1>8. CASE walkOneFails \/ skipUnreadableDirectory
  <2>1. /\ pc = "walk" /\ pc' = "scan" /\ UNCHANGED <<index, checkpoint, req>>
        /\ \E met \in SUBSET entriesOf(req) :
             regions' = carveRegions(req, claimedBy(met), ResumeCursor)
    BY <1>8 DEF walkOneFails, skipUnreadableDirectory, WalkFallsShort
  <2>2. \A met \in SUBSET entriesOf(req) : claimedBy(met) \subseteq Regions(SizeOf[req.scope])
    BY RequestFacts DEF TypeOK
  <2> QED
    BY <2>1, <2>2, PlanKeepsAdvancing
<1>9. CASE scanNextRegion
  BY <1>9 DEF scanNextRegion, AdvanceInv
<1>10. CASE onScanned
  <2>1. /\ pc = "chunk" /\ pc' \in {"scan", "decide"} /\ UNCHANGED <<index, req>>
        /\ regions' = regions \ {region}
        /\ checkpoint' = [shape |-> shapeOf(req), cursor |-> region.end, records |-> Len(index)]
    BY <1>10 DEF onScanned, ScanEnds
  <2>2. ASSUME NEW h \in regions' PROVE region.end <= h.start
    <3>1. h \in regions /\ h # region /\ region \in regions /\ region.start <= h.start
          /\ Apart(region, h)
      BY <2>1 DEF AdvanceInv
    <3>2. /\ h.start \in Nat /\ h.end \in Nat /\ h.start < h.end
          /\ region.start \in Nat /\ region.end \in Nat /\ region.start < region.end
      BY <3>1, RequestFacts, RegionEnds DEF TypeOK
    <3> QED
      BY <3>1, <3>2 DEF Apart
  <2>3. CASE pc' = "decide"
    BY <2>3, AdvanceIsOfScans
  <2>4. CASE pc' = "scan"
    <3>1. checkpoint'.shape = shapeOf(req)' /\ checkpoint'.records <= Len(index)'
      BY <2>1 DEF TypeOK, shapeOf
    <3> QED
      BY <2>1, <2>2, <2>4, <3>1 DEF AdvanceInv
  <2> QED
    BY <2>1, <2>3, <2>4
<1>11. CASE reserve \/ writeOne \/ delivered
  BY <1>11, AdvanceIsOfScans DEF reserve, Exit, writeOne, delivered
<1>12. CASE onInterrupt \/ UNCHANGED vars
  <2>1. UNCHANGED <<index, checkpoint, pc, req, resumeFrom, regions, region>>
    BY <1>12 DEF onInterrupt, vars
  <2> QED
    BY <2>1 DEF AdvanceInv
<1> QED
  BY <1>1, <1>2, <1>3, <1>4, <1>5, <1>6, <1>7, <1>8, <1>9, <1>10, <1>11, <1>12 DEF Next, Step

(* A checkpoint written over another keeps its command and all it covered. *)
LEMMA SavesAdvance ==
  ASSUME TypeOK, AdvanceInv, [Next]_vars, checkpoint # None, checkpoint' # None,
         checkpoint' # checkpoint
  PROVE  /\ checkpoint'.shape = checkpoint.shape
         /\ checkpoint'.cursor > checkpoint.cursor
         /\ checkpoint'.records >= checkpoint.records
<1>1. onScanned
  BY DEF Next, Step, runRecovery, refused, continuedSession, clearCheckpoint, freshSession,
     createFails, append, walkScope, mountFailure, walkOneFails, skipUnreadableDirectory,
     WalkFallsShort, sourceLost, scanNextRegion, onScannedUnwritable, scanRegions, stopped,
     arbitrateIndexFails, reserve, writeOne, delivered, recorded, onInterrupt, killed,
     session, vars
<1>2. /\ pc = "chunk"
      /\ checkpoint' = [shape |-> shapeOf(req), cursor |-> region.end, records |-> Len(index)]
  BY <1>1 DEF onScanned
<1>3. /\ checkpoint.shape = shapeOf(req) /\ checkpoint.records <= Len(index)
      /\ region \in regions /\ checkpoint.cursor <= region.start
  BY <1>2 DEF AdvanceInv
<1>4. /\ checkpoint.cursor \in Nat /\ checkpoint.records \in Nat /\ Len(index) \in Nat
      /\ region.start \in Nat /\ region.end \in Nat /\ region.start < region.end
  BY <1>3, RequestFacts, RegionEnds DEF TypeOK, Checkpoints
<1> QED
  BY <1>2, <1>3, <1>4

(* Every step of a run is a step of the log, or leaves it alone. *)
LEMMA SessionStep ==
  ASSUME TypeOK, BeforeSession, [Next]_vars
  PROVE  [Log!Next]_(Log!vars)
<1> USE DEF session, scan
<1> DEFINE opened(p) == p \in {"walk", "scan", "chunk", "decide"}
           savedIn(c) == IF c = None THEN None ELSE c.records
<1>a. ASSUME UNCHANGED <<index, checkpoint>>, opened(pc') = opened(pc)
      PROVE  UNCHANGED Log!vars
  BY <1>a DEF Log!vars
<1>b. ASSUME UNCHANGED <<index, checkpoint>>, opened(pc), ~opened(pc')
      PROVE  Log!Next
  BY <1>b DEF Log!Next, Log!Stop
<1>1. ASSUME NEW r \in Requests, runRecovery(r) PROVE UNCHANGED Log!vars
  BY <1>1, <1>a DEF runRecovery
<1>2. CASE refused \/ recorded
  BY <1>2, <1>a DEF refused, recorded, Exit
<1>3. CASE stopped \/ arbitrateIndexFails
  <2>1. pc = "decide" /\ pc' = "idle" /\ UNCHANGED <<index, checkpoint>>
    BY <1>3 DEF stopped, arbitrateIndexFails, Exit
  <2> QED
    BY <2>1, <1>b
<1>4. CASE killed
  <2>1. pc' = "idle" /\ UNCHANGED <<index, checkpoint>>
    BY <1>4 DEF killed, Exit
  <2> QED
    BY <2>1, <1>a, <1>b
<1>5. CASE reserve
  <2>1. pc = "decide" /\ pc' \in {"idle", "deliver"} /\ UNCHANGED <<index, checkpoint>>
    BY <1>5 DEF reserve, Exit
  <2> QED
    BY <2>1, <1>b
<1>6. CASE continuedSession
  <2>1. /\ pc = "open" /\ pc' = "walk" /\ checkpoint # None /\ checkpoint' = checkpoint
        /\ index' = SubSeq(index, 1, checkpoint.records)
    BY <1>6 DEF continuedSession, resumable
  <2>2. checkpoint.records \in Nat
    BY <2>1 DEF TypeOK, Checkpoints
  <2>3. Log!Restart
    BY <2>1, <2>2, RecoveryRunAssumption DEF Log!Restart
  <2> QED
    BY <2>3 DEF Log!Next
<1>7. CASE clearCheckpoint
  <2>1. pc = "open" /\ pc' = "fresh" /\ checkpoint' = None /\ index' = index
    BY <1>7 DEF clearCheckpoint
  <2>2. Log!Forget
    BY <2>1 DEF Log!Forget
  <2> QED
    BY <2>2 DEF Log!Next
<1>8. CASE freshSession \/ createFails
  <2>1. /\ pc = "fresh" /\ pc' \in {"walk", "decide"} /\ checkpoint = None
        /\ checkpoint' = checkpoint /\ index' = <<>>
    BY <1>8 DEF freshSession, createFails, ScanEnds, BeforeSession
  <2>2. Log!Start
    BY <2>1 DEF Log!Start
  <2> QED
    BY <2>2 DEF Log!Next
<1>9. CASE append
  <2>1. pc \in {"walk", "chunk"} /\ pc' = pc /\ checkpoint' = checkpoint
    BY <1>9 DEF append
  <2>2. PICK x \in toAppend : index' = Append(index, x) \/ index' = index
    BY <1>9 DEF append
  <2>3. CASE index' = index
    BY <2>1, <2>3, <1>a
  <2>4. CASE index' = Append(index, x)
    <3>1. x \in Items
      BY DEF TypeOK
    <3>2. Log!Acknowledge
      BY <2>1, <2>4, <3>1 DEF Log!Acknowledge
    <3> QED
      BY <3>2 DEF Log!Next
  <2> QED
    BY <2>2, <2>3, <2>4
<1>10. CASE onScanned
  <2>1. /\ pc = "chunk" /\ pc' \in {"scan", "decide"} /\ index' = index
        /\ checkpoint' = [shape |-> shapeOf(req), cursor |-> region.end, records |-> Len(index)]
    BY <1>10 DEF onScanned, ScanEnds
  <2>2. region.end \in Nat /\ Len(index) \in Nat
    BY RequestFacts, RegionEnds DEF TypeOK, NoRegion, Region
  <2>3. checkpoint' # None
    <3>1. checkpoint' \in Checkpoints
      BY <2>1, <2>2 DEF Checkpoints, TypeOK
    <3> QED
      BY <3>1, NoneAssumption
  <2>4. Log!Save
    BY <2>1, <2>3 DEF Log!Save
  <2> QED
    BY <2>4 DEF Log!Next
<1>11. CASE walkScope \/ mountFailure \/ walkOneFails \/ skipUnreadableDirectory
  <2>1. pc = "walk" /\ pc' \in {"scan", "decide"} /\ UNCHANGED <<index, checkpoint>>
    BY <1>11 DEF walkScope, mountFailure, Mounting, walkOneFails, skipUnreadableDirectory,
                 WalkFallsShort, ScanEnds
  <2> QED
    BY <2>1, <1>a
<1>12. CASE sourceLost \/ scanNextRegion \/ onScannedUnwritable \/ scanRegions
  <2>1. /\ pc \in {"walk", "scan", "chunk"} /\ pc' \in {"chunk", "decide"}
        /\ UNCHANGED <<index, checkpoint>>
    BY <1>12 DEF sourceLost, Mounting, scanNextRegion, onScannedUnwritable, scanRegions, ScanEnds
  <2> QED
    BY <2>1, <1>a
<1>13. CASE writeOne \/ delivered
  <2>1. pc = "deliver" /\ pc' \in {"deliver", "record"} /\ UNCHANGED <<index, checkpoint>>
    BY <1>13 DEF writeOne, delivered
  <2> QED
    BY <2>1, <1>a
<1>14. CASE onInterrupt \/ UNCHANGED vars
  <2>1. UNCHANGED <<index, checkpoint, pc>>
    BY <1>14 DEF onInterrupt, vars
  <2> QED
    BY <2>1, <1>a
<1> QED
  BY <1>1, <1>2, <1>3, <1>4, <1>5, <1>6, <1>7, <1>8, <1>9, <1>10, <1>11, <1>12, <1>13, <1>14
     DEF Next, Step

(* The runs over one session directory, with any faults, use the index as the
   log that CandidateIndex implements, and a checkpoint gives way only to a
   later one of the same command or to none. *)
THEOREM SessionImplementsLog == Spec => SessionIsALog
<1>1. Init => Log!Init /\ AdvanceInv
  BY DEF Init, Log!Init, AdvanceInv
<1>2. TypeOK /\ BeforeSession /\ AdvanceInv /\ [Next]_vars
        => TypeOK' /\ BeforeSession' /\ AdvanceInv'
  BY TypeStep, AdvanceStep
<1>3. TypeOK /\ BeforeSession /\ [Next]_vars => [Log!Next]_(Log!vars)
  BY SessionStep
<1>4. TypeOK /\ AdvanceInv /\ [Next]_vars =>
        [ checkpoint # None /\ checkpoint' # None =>
            /\ checkpoint'.shape = checkpoint.shape
            /\ checkpoint'.cursor > checkpoint.cursor
            /\ checkpoint'.records >= checkpoint.records ]_checkpoint
  BY SavesAdvance
<1> QED
  BY TypeInit, <1>1, <1>2, <1>3, <1>4, PTL DEF Spec, SessionIsALog, CheckpointAdvances, Log!Spec

=============================================================================
