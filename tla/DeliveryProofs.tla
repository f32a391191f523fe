---------------------------- MODULE DeliveryProofs ----------------------------
(***************************************************************************)
(* Delivery for every decision, every device and every pattern of refusals: *)
(* every winner is recorded in order, a preview names what the extraction   *)
(* writes, invented bytes are marked, and what is recorded as written is    *)
(* there.                                                                   *)
(***************************************************************************)
EXTENDS Delivery, NatFacts, FiniteSetTheorems

-----------------------------------------------------------------------------

(***************************************************************************)
(* Regions.                                                                *)
(***************************************************************************)

(* An extent ends where it should, or at the last offset there is. *)
LEMMA ExtentEnds ==
  ASSUME NEW x \in Extents
  PROVE  /\ x.deviceOffset \in 0..kMax /\ endOf(x) \in 0..kMax
         /\ x.deviceOffset <= endOf(x)
         /\ x.lengthBytes = 0 => endOf(x) = x.deviceOffset
         /\ x.lengthBytes # 0 => x.deviceOffset < endOf(x) \/ x.deviceOffset = kMax
BY RegionSetAssumption DEF Extents, endOf

(* RegionSet::add, by what it returns: the ranges it reaches are replaced by
   one from the lowest start to the highest finish. *)
LEMMA AddIs ==
  ASSUME NEW regions, RegionsFit(regions), Separate(regions),
         NEW x \in Extents, x.lengthBytes # 0
  PROVE  \E hit \in SUBSET DOMAIN regions, start \in 0..kMax, finish \in 0..kMax :
           /\ hit = touched(regions, x.deviceOffset, endOf(x))
           /\ start <= x.deviceOffset /\ \A k \in hit : start <= k
           /\ start \in hit \/ start = x.deviceOffset
           /\ endOf(x) <= finish /\ \A k \in hit : regions[k] <= finish
           /\ finish = endOf(x) \/ \E k \in hit : finish = regions[k]
           /\ DOMAIN add(regions, x) = (DOMAIN regions \ hit) \cup {start}
           /\ start \notin DOMAIN regions \ hit
           /\ add(regions, x)[start] = finish
           /\ \A k \in DOMAIN regions \ hit : add(regions, x)[k] = regions[k]
<1> DEFINE a == x.deviceOffset
           e == endOf(x)
           hit == touched(regions, a, e)
           starts == hit \cup {a}
           ends == {regions[k] : k \in hit} \cup {e}
           start == Min(starts)
           finish == Max(ends)
<1>1. a \in 0..kMax /\ e \in 0..kMax /\ a <= e /\ kMax \in Nat
  BY ExtentEnds, RegionSetAssumption
<1>2. hit \subseteq DOMAIN regions /\ \A k \in hit : k <= e /\ regions[k] >= a
  BY DEF touched
<1>3. \A k \in DOMAIN regions : k \in 0..kMax /\ regions[k] \in 0..kMax /\ k <= regions[k]
  BY <1>1 DEF RegionsFit
<1>a. \A k \in DOMAIN regions : k <= e /\ regions[k] >= a => k \in hit
  BY DEF touched
<1> HIDE DEF hit
<1>4. starts \in SUBSET Nat /\ starts # {} /\ ends \in SUBSET (0..kMax) /\ ends # {}
  BY <1>1, <1>2, <1>3
<1>5. start \in starts /\ \A y \in starts : start <= y
  <2> HIDE DEF starts
  <2> QED
    BY <1>4, MinIs
<1>6. finish \in ends /\ \A y \in ends : y <= finish
  <2> HIDE DEF ends
  <2> QED
    BY <1>1, <1>4, MaxIs
<1>7. add(regions, x) = [k \in (DOMAIN regions \ hit) \cup {start} |->
                           IF k = start THEN finish ELSE regions[k]]
  BY DEF add, hit
<1> HIDE DEF start, finish
<1>8. start \in 0..kMax /\ finish \in 0..kMax
  BY <1>1, <1>2, <1>3, <1>5, <1>6
<1>9. start \notin DOMAIN regions \ hit
  <2>1. SUFFICES ASSUME start \in DOMAIN regions, start \notin hit PROVE FALSE
    OBVIOUS
  <2>2. start = a
    BY <1>5, <2>1
  <2>3. regions[a] >= a /\ a <= e
    BY <1>1, <1>3, <2>1, <2>2
  <2> QED
    BY <1>a, <2>1, <2>2, <2>3
<1>10. /\ DOMAIN add(regions, x) = (DOMAIN regions \ hit) \cup {start}
       /\ add(regions, x)[start] = finish
       /\ \A k \in DOMAIN regions \ hit : add(regions, x)[k] = regions[k]
  BY <1>7, <1>9
<1>11. /\ start <= a /\ \A k \in hit : start <= k
       /\ start \in hit \/ start = a
       /\ e <= finish /\ \A k \in hit : regions[k] <= finish
       /\ finish = e \/ \E k \in hit : finish = regions[k]
  BY <1>5, <1>6
<1>12. hit \in SUBSET DOMAIN regions /\ hit = touched(regions, x.deviceOffset, endOf(x))
  BY <1>2 DEF hit
<1> QED
  BY <1>8, <1>9, <1>10, <1>11, <1>12

(* Adding an extent keeps the regions apart and adds its bytes, no others. *)
LEMMA AddKeeps ==
  ASSUME NEW regions, RegionsFit(regions), Separate(regions), NEW x \in Extents
  PROVE  /\ RegionsFit(add(regions, x)) /\ Separate(add(regions, x))
         /\ RegionBytes(add(regions, x)) = RegionBytes(regions) \cup Bytes(x)
<1> DEFINE a == x.deviceOffset
           e == endOf(x)
           new == add(regions, x)
<1>1. /\ a \in 0..kMax /\ e \in 0..kMax /\ a <= e /\ kMax \in Nat
      /\ x.lengthBytes # 0 => a < e \/ a = kMax
      /\ x.lengthBytes = 0 => e = a
  BY ExtentEnds, RegionSetAssumption
<1>2. CASE x.lengthBytes = 0
  <2>1. new = regions
    BY <1>2 DEF add
  <2>2. Bytes(x) = {}
    BY <1>1, <1>2 DEF Bytes
  <2> QED
    BY <2>1, <2>2
<1>3. CASE x.lengthBytes # 0
  <2>1. PICK hit \in SUBSET DOMAIN regions, start \in 0..kMax, finish \in 0..kMax :
           /\ hit = touched(regions, a, e)
           /\ start <= a /\ \A k \in hit : start <= k
           /\ start \in hit \/ start = a
           /\ e <= finish /\ \A k \in hit : regions[k] <= finish
           /\ finish = e \/ \E k \in hit : finish = regions[k]
           /\ DOMAIN new = (DOMAIN regions \ hit) \cup {start}
           /\ start \notin DOMAIN regions \ hit
           /\ new[start] = finish
           /\ \A k \in DOMAIN regions \ hit : new[k] = regions[k]
    BY <1>3, AddIs
  <2> HIDE DEF new, a, e
  <2>2. \A k \in DOMAIN regions : /\ k \in 0..kMax /\ regions[k] \in 0..kMax /\ k <= regions[k]
                                  /\ k < regions[k] \/ k = kMax
    BY <1>1 DEF RegionsFit
  <2>3. /\ \A k \in hit : k <= e /\ regions[k] >= a
        /\ \A k \in DOMAIN regions \ hit : k > e \/ regions[k] < a
    BY <1>1, <2>1, <2>2 DEF touched
  <2>4. RegionsFit(new)
    <3>1. start < finish \/ start = kMax
      BY <1>1, <1>3, <2>1
    <3>2. start \in 0..kMax /\ finish \in start..kMax
      BY <1>1, <2>1
    <3>3. \A k \in DOMAIN regions \ hit : /\ k \in 0..kMax /\ regions[k] \in k..kMax
                                          /\ k < regions[k] \/ k = kMax
      BY <2>2
    <3> QED
      BY <2>1, <3>1, <3>2, <3>3 DEF RegionsFit
  <2>5. \A j, k \in DOMAIN regions : j < k => regions[j] < k
    BY DEF Separate
  <2>6. Separate(new)
    <3>1. ASSUME NEW k \in DOMAIN regions \ hit, start < k PROVE finish < k
      <4>1. k > e
        <5>1. SUFFICES ASSUME regions[k] < a PROVE FALSE
          BY <2>3
        <5>2. start < a
          BY <1>1, <2>1, <2>2, <3>1, <5>1
        <5>3. start \in hit
          BY <2>1, <5>2
        <5>4. regions[start] < k /\ regions[start] >= a /\ k <= regions[k]
          BY <2>2, <2>3, <2>5, <3>1, <5>3
        <5> QED
          BY <1>1, <2>2, <5>1, <5>3, <5>4
      <4>2. CASE finish = e
        BY <4>1, <4>2
      <4>3. ASSUME NEW h \in hit, finish = regions[h] PROVE finish < k
        <5>1. h < k
          BY <1>1, <2>2, <2>3, <4>1
        <5> QED
          BY <2>5, <4>3, <5>1
      <4> QED
        BY <2>1, <4>2, <4>3
    <3>2. ASSUME NEW j \in DOMAIN regions \ hit, j < start PROVE regions[j] < start
      <4>1. regions[j] < a
        BY <1>1, <2>1, <2>2, <2>3, <3>2
      <4>2. CASE start = a
        BY <4>1, <4>2
      <4>3. CASE start \in hit
        BY <2>5, <3>2, <4>3
      <4> QED
        BY <2>1, <4>2, <4>3
    <3>3. ASSUME NEW j \in DOMAIN new, NEW k \in DOMAIN new, j < k PROVE new[j] < k
      <4>1. CASE j = start
        <5>1. k \in DOMAIN regions \ hit
          BY <2>1, <3>3, <4>1
        <5> QED
          BY <2>1, <3>1, <3>3, <4>1, <5>1
      <4>2. CASE k = start
        <5>1. j \in DOMAIN regions \ hit
          BY <2>1, <3>3, <4>2
        <5> QED
          BY <2>1, <3>2, <3>3, <4>2, <5>1
      <4>3. CASE j # start /\ k # start
        BY <2>1, <2>5, <3>3, <4>3
      <4> QED
        BY <4>1, <4>2, <4>3
    <3> QED
      BY <3>3 DEF Separate
  <2>7. start..(finish - 1) = Bytes(x) \cup UNION {k..(regions[k] - 1) : k \in hit}
    <3>1. ASSUME NEW b \in start..(finish - 1)
          PROVE  b \in Bytes(x) \/ \E k \in hit : b \in k..(regions[k] - 1)
      <4>1. CASE a <= b /\ b < e
        BY <4>1, <3>1, <1>1 DEF Bytes, a, e
      <4>2. CASE b < a
        <5>1. start \in hit
          BY <1>1, <2>1, <3>1, <4>2
        <5>2. regions[start] \in 0..kMax /\ regions[start] >= a
          BY <2>2, <2>3, <5>1
        <5>3. b \in start..(regions[start] - 1)
          BY <1>1, <3>1, <4>2, <5>2
        <5> QED
          BY <5>1, <5>3
      <4>3. CASE e <= b
        <5>1. PICK h \in hit : finish = regions[h]
          BY <1>1, <2>1, <3>1, <4>3
        <5>2. h <= e /\ h \in 0..kMax
          BY <2>2, <2>3
        <5>3. b \in h..(regions[h] - 1)
          BY <1>1, <3>1, <4>3, <5>1, <5>2
        <5> QED
          BY <5>1, <5>3
      <4> QED
        BY <1>1, <3>1, <4>1, <4>2, <4>3
    <3>2. ASSUME NEW b \in Bytes(x) PROVE b \in start..(finish - 1)
      BY <1>1, <2>1 DEF Bytes, a, e
    <3>3. ASSUME NEW k \in hit, NEW b \in k..(regions[k] - 1) PROVE b \in start..(finish - 1)
      <4>1. k \in 0..kMax /\ regions[k] \in 0..kMax /\ start <= k /\ regions[k] <= finish
        BY <2>1, <2>2
      <4> QED
        BY <4>1
    <3> QED
      BY <3>1, <3>2, <3>3
  <2>8. RegionBytes(new) = start..(finish - 1)
                             \cup UNION {k..(regions[k] - 1) : k \in DOMAIN regions \ hit}
    <3>1. \A k \in DOMAIN regions \ hit : k \in DOMAIN new /\ k # start /\ new[k] = regions[k]
      BY <2>1
    <3>2. start \in DOMAIN new /\ new[start] = finish
      BY <2>1
    <3>3. \A k \in DOMAIN new : k = start \/ k \in DOMAIN regions \ hit
      BY <2>1
    <3> QED
      BY <3>1, <3>2, <3>3 DEF RegionBytes
  <2>9. RegionBytes(regions) = (UNION {k..(regions[k] - 1) : k \in hit})
                                 \cup UNION {k..(regions[k] - 1) : k \in DOMAIN regions \ hit}
    BY DEF RegionBytes
  <2> QED
    BY <2>4, <2>6, <2>7, <2>8, <2>9 DEF new
<1> QED
  BY <1>2, <1>3

(* RegionSet::overlaps answers for the bytes of the extent. *)
LEMMA OverlapIsSharing ==
  ASSUME NEW regions, RegionsFit(regions), NEW x \in Extents
  PROVE  overlaps(regions, x) <=> RegionBytes(regions) \cap Bytes(x) # {}
<1> DEFINE a == x.deviceOffset
           e == endOf(x)
<1>1. /\ a \in 0..kMax /\ e \in 0..kMax /\ a <= e /\ kMax \in Nat
      /\ x.lengthBytes # 0 => a < e \/ a = kMax
      /\ x.lengthBytes = 0 => e = a
  BY ExtentEnds, RegionSetAssumption
<1>2. \A k \in DOMAIN regions : /\ k \in 0..kMax /\ regions[k] \in 0..kMax
                                /\ k < regions[k] \/ k = kMax
  BY <1>1 DEF RegionsFit
<1>3. Bytes(x) = a..(e - 1)
  BY DEF Bytes
<1>4. overlaps(regions, x) <=>
        x.lengthBytes # 0 /\ \E k \in DOMAIN regions : IF k <= a THEN regions[k] > a ELSE k < e
  BY DEF overlaps
<1>5. RegionBytes(regions) \cap Bytes(x) # {} <=>
        \E k \in DOMAIN regions : \E b \in k..(regions[k] - 1) : b \in a..(e - 1)
  BY <1>3 DEF RegionBytes
<1> HIDE DEF a, e
<1>6. ASSUME x.lengthBytes # 0, NEW k \in DOMAIN regions, IF k <= a THEN regions[k] > a ELSE k < e
      PROVE  \E b \in k..(regions[k] - 1) : b \in a..(e - 1)
  <2>1. CASE k <= a
    <3>1. a \in k..(regions[k] - 1) /\ a \in a..(e - 1)
      BY <1>1, <1>2, <1>6, <2>1
    <3> QED
      BY <3>1
  <2>2. CASE ~(k <= a)
    <3>1. k \in k..(regions[k] - 1) /\ k \in a..(e - 1)
      BY <1>1, <1>2, <1>6, <2>2
    <3> QED
      BY <3>1
  <2> QED
    BY <2>1, <2>2
<1>7. ASSUME NEW k \in DOMAIN regions, NEW b \in k..(regions[k] - 1), b \in a..(e - 1)
      PROVE  x.lengthBytes # 0 /\ IF k <= a THEN regions[k] > a ELSE k < e
  BY <1>1, <1>2, <1>7
<1> QED
  BY <1>4, <1>5, <1>6, <1>7

(***************************************************************************)
(* The walk that computes the complement.                                  *)
(***************************************************************************)

Complements == [gaps : SUBSET [start : 0..kMax, end : 0..kMax], cursor : 0..kMax]

(* The regions as the ranges ScanRegions speaks of. *)
Ranges(regions) == {Ref!Region(k, regions[k]) : k \in DOMAIN regions}

Cut(offset, n) == IF offset <= n THEN offset ELSE n

LEMMA TakeIs ==
  ASSUME NEW v \in Complements, NEW u \in 0..kMax
  PROVE  /\ takeUpTo(v, u) \in Complements
         /\ takeUpTo(v, u).cursor = IF u <= v.cursor THEN v.cursor ELSE u
         /\ takeUpTo(v, u).gaps = IF u <= v.cursor THEN v.gaps
                                  ELSE v.gaps \cup {Ref!Region(v.cursor, u)}
<1>1. /\ v.gaps \in SUBSET [start : 0..kMax, end : 0..kMax] /\ v.cursor \in 0..kMax
  BY DEF Complements
<1>2. Ref!Region(v.cursor, u) = [start |-> v.cursor, end |-> u]
  BY DEF Ref!Region
<1>3. CASE u <= v.cursor
  BY <1>3 DEF takeUpTo
<1>4. CASE ~(u <= v.cursor)
  <2>1. takeUpTo(v, u) = [gaps |-> v.gaps \cup {Ref!Region(v.cursor, u)}, cursor |-> u]
    BY <1>2, <1>4 DEF takeUpTo
  <2>2. Ref!Region(v.cursor, u) \in [start : 0..kMax, end : 0..kMax]
    BY <1>1, <1>2
  <2> QED
    BY <1>1, <1>4, <2>1, <2>2 DEF Complements
<1> QED
  BY <1>3, <1>4

LEMMA PassIs ==
  ASSUME NEW v \in Complements, NEW s \in 0..kMax, NEW f \in 0..kMax, NEW n \in 0..kMax
  PROVE  /\ passRegion(v, s, f, n) \in Complements
         /\ passRegion(v, s, f, n).gaps = takeUpTo(v, Cut(s, n)).gaps
         /\ passRegion(v, s, f, n).cursor =
              IF takeUpTo(v, Cut(s, n)).cursor >= Cut(f, n)
              THEN takeUpTo(v, Cut(s, n)).cursor ELSE Cut(f, n)
<1>1. s \in Nat /\ f \in Nat /\ n \in Nat /\ kMax \in Nat
  BY RegionSetAssumption
<1>2. Min({s, n}) = Cut(s, n) /\ Min({f, n}) = Cut(f, n)
  BY <1>1, MinMaxOfTwo DEF Cut
<1>3. Cut(s, n) \in 0..kMax /\ Cut(f, n) \in 0..kMax
  BY DEF Cut
<1> DEFINE t == takeUpTo(v, Cut(s, n))
<1>4. t \in Complements
  BY <1>3, TakeIs
<1>5. passRegion(v, s, f, n) = [t EXCEPT !.cursor = Max({t.cursor, Cut(f, n)})]
  BY <1>2 DEF passRegion
<1> HIDE DEF t
<1>4a. t.cursor \in Nat /\ Cut(f, n) \in Nat
  BY <1>1, <1>3, <1>4 DEF Complements
<1>6. Max({t.cursor, Cut(f, n)}) = IF t.cursor >= Cut(f, n) THEN t.cursor ELSE Cut(f, n)
  BY <1>4a, MinMaxOfTwo
<1>7. Max({t.cursor, Cut(f, n)}) \in 0..kMax
  BY <1>3, <1>4, <1>6 DEF Complements
<1>8. passRegion(v, s, f, n) = [gaps |-> t.gaps, cursor |-> Max({t.cursor, Cut(f, n)})]
  BY <1>4, <1>5 DEF Complements
<1> QED
  BY <1>4, <1>6, <1>7, <1>8 DEF Complements, t

(* The loop is the function it is written as. *)
LEMMA WalkedIs ==
  ASSUME NEW regions, RegionsFit(regions), NEW n \in 0..kMax
  PROVE  /\ passRegions(regions, n)[0] = [gaps |-> {}, cursor |-> 0]
         /\ \A k \in 0..kMax :
              passRegions(regions, n)[k + 1] =
                IF k \in DOMAIN regions
                THEN passRegion(passRegions(regions, n)[k], k, regions[k], n)
                ELSE passRegions(regions, n)[k]
<1> DEFINE N == kMax + 1
           base == [gaps |-> {}, cursor |-> 0]
           once(v, k) == IF k - 1 \in DOMAIN regions
                         THEN passRegion(v, k - 1, regions[k - 1], n) ELSE v
           step == [k \in 1..N |-> [v \in Complements |-> once(v, k)]]
           Is(f) == f = [k \in 0..N |-> IF k = 0 THEN base ELSE once(f[k - 1], k)]
<1>1. kMax \in Nat /\ N \in Nat /\ base \in Complements
  BY RegionSetAssumption DEF Complements
<1>2. ASSUME NEW k \in 1..N, NEW v \in Complements PROVE once(v, k) \in Complements
  <2>1. CASE k - 1 \in DOMAIN regions
    <3>1. k - 1 \in 0..kMax /\ regions[k - 1] \in 0..kMax
      BY <1>1, <2>1 DEF RegionsFit
    <3> QED
      BY <2>1, <3>1, PassIs
  <2>2. CASE k - 1 \notin DOMAIN regions
    BY <2>2
  <2> QED
    BY <2>1, <2>2
<1>3. step \in [1..N -> [Complements -> Complements]]
  BY <1>2
<1> HIDE DEF once, base
<1>4. PICK f \in [0..N -> Complements] :
        f[0] = base /\ \A k \in 1..N : f[k] = step[k][f[k - 1]]
  <2> HIDE DEF step, N
  <2> QED
    BY <1>1, <1>3, RecursionExists
<1>5. \A k \in 1..N : k - 1 \in 0..N /\ k \in 0..N /\ k # 0
  BY <1>1
<1>6. \A k \in 1..N : f[k] = once(f[k - 1], k)
  BY <1>4, <1>5
<1>7. \A k \in 0..N : k = 0 \/ k \in 1..N
  BY <1>1
<1>8. Is(f)
  BY <1>4, <1>6, <1>7
<1>9. passRegions(regions, n) = CHOOSE g : Is(g)
  BY DEF passRegions, once, base
<1> DEFINE W == passRegions(regions, n)
<1>10. Is(W)
  <2> HIDE DEF Is
  <2> QED
    BY <1>8, <1>9
<1> HIDE DEF W
<1>11. W[0] = base /\ \A k \in 1..N : W[k] = once(W[k - 1], k)
  <2>1. 0 \in 0..N
    BY <1>1
  <2> QED
    BY <1>5, <1>10, <2>1
<1>12. ASSUME NEW k \in 0..kMax
       PROVE  W[k + 1] = IF k \in DOMAIN regions THEN passRegion(W[k], k, regions[k], n) ELSE W[k]
  <2>1. k + 1 \in 1..N /\ (k + 1) - 1 = k
    BY <1>1
  <2> QED
    BY <1>11, <2>1 DEF once
<1> QED
  BY <1>11, <1>12 DEF W, base

(* A range is a gap when no region reaches into it and it cannot be widened. *)
IsGap(regions, n, a, b) ==
  /\ a < b
  /\ \A j \in DOMAIN regions : regions[j] <= a \/ b <= j
  /\ a = 0 \/ \E j \in DOMAIN regions : regions[j] = a
  /\ b = n \/ b \in DOMAIN regions

LEMMA GapIs ==
  ASSUME NEW regions, NEW n \in Nat
  PROVE  Ref!gaps(Ranges(regions), n)
           = {g \in [start : 0..n, end : 0..n] : IsGap(regions, n, g.start, g.end)}
<1>1. /\ \A r \in Ranges(regions) : \E j \in DOMAIN regions : r = Ref!Region(j, regions[j])
      /\ \A j \in DOMAIN regions : Ref!Region(j, regions[j]) \in Ranges(regions)
  BY DEF Ranges
<1>2. \A x, y : Ref!Region(x, y).start = x /\ Ref!Region(x, y).end = y
  BY DEF Ref!Region
<1>3. ASSUME NEW g \in [start : 0..n, end : 0..n]
      PROVE  g \in Ref!gaps(Ranges(regions), n) <=> IsGap(regions, n, g.start, g.end)
  <2>1. (\A r \in Ranges(regions) : Ref!Apart(r, g))
          <=> \A j \in DOMAIN regions : regions[j] <= g.start \/ g.end <= j
    BY <1>1, <1>2 DEF Ref!Apart
  <2>2. (\E r \in Ranges(regions) : r.end = g.start) <=> \E j \in DOMAIN regions : regions[j] = g.start
    BY <1>1, <1>2
  <2>3. (\E r \in Ranges(regions) : r.start = g.end) <=> g.end \in DOMAIN regions
    BY <1>1, <1>2
  <2> QED
    BY <2>1, <2>2, <2>3 DEF Ref!gaps, Ref!Regions, IsGap
<1>4. Ref!gaps(Ranges(regions), n) \subseteq [start : 0..n, end : 0..n]
  BY DEF Ref!gaps, Ref!Regions
<1> QED
  BY <1>3, <1>4

(* The only gap that starts between c and u is the one that fills the space. *)
LEMMA OneGap ==
  ASSUME NEW regions, RegionsFit(regions), NEW n \in 0..kMax,
         NEW c \in 0..n, NEW u \in 0..n, IsGap(regions, n, c, u)
  PROVE  /\ Ref!Region(c, u) \in Ref!gaps(Ranges(regions), n)
         /\ \A g \in Ref!gaps(Ranges(regions), n) :
              c <= g.start /\ g.start < u => g = Ref!Region(c, u)
<1>1. /\ kMax \in Nat /\ n \in Nat /\ c \in Nat /\ u \in Nat
      /\ \A j \in DOMAIN regions : /\ j \in Nat /\ regions[j] \in Nat /\ j <= regions[j]
  BY RegionSetAssumption DEF RegionsFit
<1>2. /\ c < u /\ \A j \in DOMAIN regions : regions[j] <= c \/ u <= j
      /\ u = n \/ u \in DOMAIN regions
  BY DEF IsGap
<1>3. Ref!Region(c, u) \in Ref!gaps(Ranges(regions), n)
  <2>1. Ref!Region(c, u) \in [start : 0..n, end : 0..n]
        /\ Ref!Region(c, u).start = c /\ Ref!Region(c, u).end = u
    BY DEF Ref!Region
  <2> QED
    BY <1>1, <2>1, GapIs
<1>4. ASSUME NEW g \in Ref!gaps(Ranges(regions), n), c <= g.start, g.start < u
      PROVE  g = Ref!Region(c, u)
  <2> DEFINE a == g.start
             b == g.end
  <2>1. g \in [start : 0..n, end : 0..n] /\ IsGap(regions, n, a, b)
    BY <1>1, GapIs
  <2>2. a \in Nat /\ b \in 0..n /\ g = [start |-> a, end |-> b]
    BY <2>1
  <2>3. /\ a < b /\ \A j \in DOMAIN regions : regions[j] <= a \/ b <= j
        /\ a = 0 \/ \E j \in DOMAIN regions : regions[j] = a
        /\ b = n \/ b \in DOMAIN regions
    BY <2>1 DEF IsGap
  <2>4. c <= a /\ a < u
    BY <1>4
  <2> HIDE DEF a, b
  <2>5. a = c
    <3>1. CASE a = 0
      BY <1>1, <2>4, <3>1
    <3>2. ASSUME NEW j \in DOMAIN regions, regions[j] = a PROVE a = c
      BY <1>1, <1>2, <2>4, <3>2
    <3> QED
      BY <2>3, <3>1, <3>2
  <2>6. b <= u
    BY <1>1, <1>2, <2>2, <2>3, <2>5
  <2>7. u <= b
    BY <1>1, <1>2, <2>2, <2>3, <2>5
  <2>8. b = u
    BY <1>1, <2>2, <2>6, <2>7
  <2> QED
    BY <2>2, <2>5, <2>8 DEF Ref!Region
<1> QED
  BY <1>3, <1>4

(* What the walk has done when the regions that start before k are passed: the
   gaps before the cursor are out, and the cursor is where the next may begin. *)
Passed(regions, n, k, v) ==
  /\ v \in Complements /\ v.cursor <= n
  /\ \A j \in DOMAIN regions : IF j < k THEN regions[j] <= v.cursor \/ v.cursor = n
                               ELSE v.cursor <= j
  /\ v.cursor \in {0, n} \/ \E j \in DOMAIN regions : regions[j] = v.cursor
  /\ v.gaps = {g \in Ref!gaps(Ranges(regions), n) : g.start < v.cursor}

(* Passing the region at k keeps that so. *)
LEMMA PassKeeps ==
  ASSUME NEW regions, RegionsFit(regions), Separate(regions), NEW n \in 0..kMax,
         NEW k \in DOMAIN regions, NEW v, Passed(regions, n, k, v)
  PROVE  Passed(regions, n, k + 1, passRegion(v, k, regions[k], n))
<1> DEFINE c == v.cursor
           f == regions[k]
           u == Cut(k, n)
           d == Cut(f, n)
           w == passRegion(v, k, regions[k], n)
           G == Ref!gaps(Ranges(regions), n)
<1>1. /\ kMax \in Nat /\ n \in Nat /\ k \in 0..kMax /\ f \in 0..kMax
      /\ \A j \in DOMAIN regions : /\ j \in Nat /\ regions[j] \in Nat /\ j <= regions[j]
  BY RegionSetAssumption DEF RegionsFit
<1>2. \A i, j \in DOMAIN regions : i < j => regions[i] < j
  BY DEF Separate
<1>3. /\ v \in Complements /\ c \in 0..kMax /\ c <= n
      /\ \A j \in DOMAIN regions : IF j < k THEN regions[j] <= c \/ c = n ELSE c <= j
      /\ c = 0 \/ c = n \/ \E j \in DOMAIN regions : regions[j] = c
      /\ v.gaps = {g \in G : g.start < c}
  BY DEF Passed, Complements
<1>4. u \in 0..n /\ d \in 0..n /\ u <= k /\ d <= f /\ u <= d /\ c <= k
      /\ (u = k \/ u = n) /\ (d = f \/ d = n) /\ (u = n => d = n)
  BY <1>1, <1>3 DEF Cut
<1>5. c <= u
  BY <1>1, <1>3, <1>4
<1>6. w \in Complements /\ w.cursor = d
      /\ w.gaps = IF u <= c THEN v.gaps ELSE v.gaps \cup {Ref!Region(c, u)}
  <2> DEFINE t == takeUpTo(v, u)
  <2>1. u \in 0..kMax
    BY <1>1, <1>4
  <2>2. t.cursor = (IF u <= c THEN c ELSE u)
        /\ t.gaps = IF u <= c THEN v.gaps ELSE v.gaps \cup {Ref!Region(c, u)}
    <3> HIDE DEF u
    <3> QED
      BY <1>3, <2>1, TakeIs
  <2>3. w \in Complements /\ w.gaps = t.gaps /\ w.cursor = IF t.cursor >= d THEN t.cursor ELSE d
    <3>1. v \in Complements /\ regions[k] \in 0..kMax
      BY <1>1, <1>3
    <3>2. /\ passRegion(v, k, regions[k], n) \in Complements
          /\ passRegion(v, k, regions[k], n).gaps = takeUpTo(v, Cut(k, n)).gaps
          /\ passRegion(v, k, regions[k], n).cursor =
               IF takeUpTo(v, Cut(k, n)).cursor >= Cut(regions[k], n)
               THEN takeUpTo(v, Cut(k, n)).cursor ELSE Cut(regions[k], n)
      <4>1. k \in 0..kMax
        BY <1>1
      <4> QED
        BY <3>1, <4>1, PassIs, ZenonT(90)
    <3> QED
      BY <3>2
  <2> HIDE DEF t, u, d
  <2>4. t.cursor = u
    BY <1>1, <1>3, <1>4, <1>5, <2>2
  <2>5. w.cursor = d
    BY <1>1, <1>4, <2>3, <2>4
  <2> QED
    BY <2>2, <2>3, <2>5
<1>g. \A g \in G : g \in [start : 0..n, end : 0..n] /\ IsGap(regions, n, g.start, g.end)
  BY <1>1, GapIs
<1> HIDE DEF u, d, w, c, f, G
<1>7. ASSUME NEW g \in G, u <= g.start, g.start < d PROVE FALSE
  <2>1. /\ g.start \in 0..n /\ g.end \in 0..n /\ g.start < g.end
        /\ f <= g.start \/ g.end <= k
    BY <1>g, <1>7 DEF IsGap, f
  <2>2. u # n
    BY <1>1, <1>4, <1>7, <2>1
  <2>3. u = k
    BY <1>4, <2>2
  <2> QED
    BY <1>1, <1>4, <1>7, <2>1, <2>3
<1>8. \A g \in G : g.start \in Nat
  BY <1>g
<1>9. w.gaps = {g \in G : g.start < d}
  <2>1. CASE u <= c
    <3>1. u = c
      BY <1>1, <1>3, <1>4, <1>5, <2>1
    <3>2. \A g \in G : g.start < d <=> g.start < c
      BY <1>1, <1>3, <1>4, <1>7, <1>8, <3>1
    <3> QED
      BY <1>3, <1>6, <2>1, <3>2
  <2>2. CASE ~(u <= c)
    <3>1. c < u /\ c \in 0..n
      BY <1>1, <1>3, <1>4, <2>2
    <3>2. IsGap(regions, n, c, u)
      <4>1. ASSUME NEW j \in DOMAIN regions PROVE regions[j] <= c \/ u <= j
        BY <1>1, <1>3, <1>4, <3>1, <4>1
      <4>2. u = n \/ u \in DOMAIN regions
        BY <1>4
      <4>3. c # n
        BY <1>1, <1>4, <3>1
      <4> QED
        BY <1>3, <3>1, <4>1, <4>2, <4>3 DEF IsGap
    <3>3. /\ Ref!Region(c, u) \in G
          /\ \A g \in G : c <= g.start /\ g.start < u => g = Ref!Region(c, u)
      BY <1>4, <3>1, <3>2, OneGap DEF G
    <3>4. Ref!Region(c, u).start = c /\ c < d
      BY <1>1, <1>3, <1>4, <3>1 DEF Ref!Region
    <3>5. \A g \in G : g.start < d <=> g.start < c \/ g = Ref!Region(c, u)
      BY <1>1, <1>3, <1>4, <1>7, <1>8, <3>1, <3>3, <3>4
    <3> QED
      BY <1>3, <1>6, <2>2, <3>3, <3>5
  <2> QED
    BY <2>1, <2>2
<1>10. ASSUME NEW j \in DOMAIN regions
       PROVE  IF j < k + 1 THEN regions[j] <= d \/ d = n ELSE d <= j
  <2>1. CASE j < k
    BY <1>1, <1>3, <1>4, <1>5, <2>1
  <2>2. CASE j = k
    BY <1>1, <1>4, <2>2 DEF f
  <2>3. CASE k < j
    <3>1. f < j
      BY <1>2, <2>3 DEF f
    <3> QED
      BY <1>1, <1>4, <2>3, <3>1
  <2> QED
    BY <1>1, <2>1, <2>2, <2>3
<1>11. d \in {0, n} \/ \E j \in DOMAIN regions : regions[j] = d
  BY <1>4 DEF f
<1>12. d <= n
  BY <1>1, <1>4
<1> QED
  BY <1>6, <1>9, <1>10, <1>11, <1>12 DEF Passed, G, w

(* RegionSet::gaps returns what ScanRegions says it does. *)
LEMMA ComplementIsTheGaps ==
  ASSUME NEW regions, RegionsFit(regions), Separate(regions), NEW n \in 0..kMax
  PROVE  complementOf(regions, n) = Ref!gaps(Ranges(regions), n)
<1> DEFINE W == passRegions(regions, n)
           G == Ref!gaps(Ranges(regions), n)
           S == {k \in Nat : k <= kMax + 1 => Passed(regions, n, k, W[k])}
<1>1. /\ kMax \in Nat /\ n \in Nat
      /\ \A j \in DOMAIN regions : /\ j \in 0..kMax /\ regions[j] \in Nat /\ j <= regions[j]
  BY RegionSetAssumption DEF RegionsFit
<1>2. /\ W[0] = [gaps |-> {}, cursor |-> 0]
      /\ \A k \in 0..kMax :
           W[k + 1] = IF k \in DOMAIN regions THEN passRegion(W[k], k, regions[k], n) ELSE W[k]
  BY WalkedIs
<1>g. \A g \in G : g \in [start : 0..n, end : 0..n] /\ IsGap(regions, n, g.start, g.end)
  BY <1>1, GapIs
<1> HIDE DEF W, G
<1>3. 0 \in S
  <2>1. W[0] \in Complements /\ W[0].cursor = 0 /\ W[0].gaps = {}
    BY <1>1, <1>2 DEF Complements
  <2>2. {g \in G : g.start < 0} = {}
    BY <1>g
  <2>3. Passed(regions, n, 0, W[0])
    BY <1>1, <2>1, <2>2 DEF Passed, G
  <2> QED
    BY <2>3
<1>4. ASSUME NEW k \in S PROVE k + 1 \in S
  <2>1. k \in Nat
    OBVIOUS
  <2>2. SUFFICES ASSUME k + 1 <= kMax + 1 PROVE Passed(regions, n, k + 1, W[k + 1])
    BY <2>1
  <2>3. k \in 0..kMax /\ Passed(regions, n, k, W[k])
    BY <1>1, <2>1, <2>2
  <2>4. CASE k \in DOMAIN regions
    BY <1>2, <2>3, <2>4, PassKeeps
  <2>5. CASE k \notin DOMAIN regions
    <3>1. \A j \in DOMAIN regions : j < k + 1 <=> j < k
      BY <1>1, <2>1, <2>5
    <3>2. W[k + 1] = W[k]
      BY <1>2, <2>3, <2>5
    <3> QED
      BY <2>3, <3>1, <3>2 DEF Passed
  <2> QED
    BY <2>4, <2>5
<1>5. S = Nat
  <2>1. S \in SUBSET Nat
    OBVIOUS
  <2> HIDE DEF S
  <2> QED
    BY <1>3, <1>4, <2>1, SetInduction
<1> DEFINE v == W[kMax + 1]
           c == v.cursor
<1>6. Passed(regions, n, kMax + 1, v)
  BY <1>1, <1>5
<1>7. complementOf(regions, n) = takeUpTo(v, n).gaps
  BY DEF complementOf, W
<1> HIDE DEF v
<1>8. /\ v \in Complements /\ c \in 0..kMax /\ c <= n
      /\ \A j \in DOMAIN regions : regions[j] <= c \/ c = n
      /\ c = 0 \/ c = n \/ \E j \in DOMAIN regions : regions[j] = c
      /\ v.gaps = {g \in G : g.start < c}
  <2>1. \A j \in DOMAIN regions : j < kMax + 1
    BY <1>1
  <2> QED
    BY <1>6, <2>1 DEF Passed, Complements, G
<1>9. complementOf(regions, n) = IF n <= c THEN v.gaps ELSE v.gaps \cup {Ref!Region(c, n)}
  BY <1>7, <1>8, TakeIs
<1> HIDE DEF c
<1>10. \A g \in G : g.start \in Nat /\ g.start < n
  BY <1>1, <1>g DEF IsGap
<1>11. CASE n <= c
  <2>1. c = n
    BY <1>1, <1>8, <1>11
  <2> QED
    BY <1>8, <1>9, <1>10, <1>11, <2>1 DEF G
<1>12. CASE ~(n <= c)
  <2>1. c < n /\ c \in 0..n /\ n \in 0..n /\ c # n
    BY <1>1, <1>8, <1>12
  <2>2. IsGap(regions, n, c, n)
    BY <1>8, <2>1 DEF IsGap
  <2>3. /\ Ref!Region(c, n) \in G
        /\ \A g \in G : c <= g.start /\ g.start < n => g = Ref!Region(c, n)
    BY <2>1, <2>2, OneGap DEF G
  <2>4. \A g \in G : g.start < c \/ g = Ref!Region(c, n)
    BY <1>1, <1>8, <1>10, <2>3
  <2> QED
    BY <1>8, <1>9, <1>12, <2>3, <2>4 DEF G
<1> QED
  BY <1>11, <1>12

(* A byte of the device is in a gap exactly when no region holds it. *)
LEMMA GapsHoldTheRest ==
  ASSUME NEW regions, RegionsFit(regions), NEW n \in 0..kMax
  PROVE  UNION {g.start..(g.end - 1) : g \in Ref!gaps(Ranges(regions), n)}
           = (0..(n - 1)) \ RegionBytes(regions)
<1> DEFINE G == Ref!gaps(Ranges(regions), n)
<1>1. /\ kMax \in Nat /\ n \in Nat
      /\ \A j \in DOMAIN regions : /\ j \in 0..kMax /\ regions[j] \in 0..kMax /\ j <= regions[j]
  BY RegionSetAssumption DEF RegionsFit
<1>2. G = {g \in [start : 0..n, end : 0..n] : IsGap(regions, n, g.start, g.end)}
  BY <1>1, GapIs
<1>3. ASSUME NEW b \in (0..(n - 1)) \ RegionBytes(regions)
      PROVE  \E g \in G : b \in g.start..(g.end - 1)
  <2> DEFINE starts == {n} \cup {j \in DOMAIN regions : b < j}
             ends == {0} \cup {regions[j] : j \in {i \in DOMAIN regions : regions[i] <= b}}
             a == Max(ends)
             e == Min(starts)
  <2>1. b \in Nat /\ b < n /\ \A j \in DOMAIN regions : regions[j] <= b \/ b < j
    BY <1>1 DEF RegionBytes
  <2>2. /\ starts \in SUBSET Nat /\ starts # {}
        /\ ends \in SUBSET (0..b) /\ ends # {}
    BY <1>1, <2>1
  <2>3. a \in ends /\ \A y \in ends : y <= a
    <3> HIDE DEF ends
    <3> QED
      BY <2>1, <2>2, MaxIs
  <2>4. e \in starts /\ \A y \in starts : e <= y
    <3> HIDE DEF starts
    <3> QED
      BY <2>2, MinIs
  <2> HIDE DEF a, e
  <2>5. a \in 0..n /\ e \in 0..n /\ a <= b /\ b < e
    BY <1>1, <2>1, <2>2, <2>3, <2>4
  <2>6. IsGap(regions, n, a, e)
    <3>1. ASSUME NEW j \in DOMAIN regions PROVE regions[j] <= a \/ e <= j
      BY <2>1, <2>3, <2>4
    <3>2. a = 0 \/ \E j \in DOMAIN regions : regions[j] = a
      BY <2>3
    <3>3. e = n \/ e \in DOMAIN regions
      BY <2>4
    <3>4. a < e
      BY <1>1, <2>1, <2>5
    <3> QED
      BY <3>1, <3>2, <3>3, <3>4 DEF IsGap
  <2>7. Ref!Region(a, e) \in [start : 0..n, end : 0..n]
        /\ Ref!Region(a, e).start = a /\ Ref!Region(a, e).end = e
    BY <2>5 DEF Ref!Region
  <2>8. Ref!Region(a, e) \in G /\ b \in a..(e - 1)
    BY <1>1, <1>2, <2>1, <2>5, <2>6, <2>7
  <2> QED
    BY <2>7, <2>8
<1>4. ASSUME NEW g \in G, NEW b \in g.start..(g.end - 1)
      PROVE  b \in (0..(n - 1)) \ RegionBytes(regions)
  <2>1. /\ g.start \in 0..n /\ g.end \in 0..n
        /\ \A j \in DOMAIN regions : regions[j] <= g.start \/ g.end <= j
    BY <1>2 DEF IsGap
  <2>2. b \in 0..(n - 1)
    BY <1>1, <2>1
  <2>3. ASSUME NEW j \in DOMAIN regions, b \in j..(regions[j] - 1) PROVE FALSE
    BY <1>1, <2>1, <2>3
  <2> QED
    BY <2>2, <2>3 DEF RegionBytes
<1> HIDE DEF G
<1>5. UNION {g.start..(g.end - 1) : g \in G} = (0..(n - 1)) \ RegionBytes(regions)
  BY <1>3, <1>4
<1> QED
  BY <1>5 DEF G

(***************************************************************************)
(* Extents, candidates and their ranks.                                    *)
(***************************************************************************)

LEMMA BytesOfNone == BytesIn(<<>>) = {}
BY DEF BytesIn

LEMMA BytesOfFirst ==
  ASSUME NEW s \in Seq(Extents), s # <<>>
  PROVE  /\ Head(s) \in Extents /\ Tail(s) \in Seq(Extents)
         /\ BytesIn(s) = Bytes(Head(s)) \cup BytesIn(Tail(s))
<1>1. Head(s) \in Extents /\ Tail(s) \in Seq(Extents) /\ Len(s) \in Nat /\ Len(s) >= 1
  OBVIOUS
<1>2. Head(s) = s[1] /\ Len(Tail(s)) = Len(s) - 1 /\ \A i \in 1..(Len(s) - 1) : Tail(s)[i] = s[i + 1]
  OBVIOUS
<1>3. ASSUME NEW b \in BytesIn(s) PROVE b \in Bytes(Head(s)) \/ b \in BytesIn(Tail(s))
  <2>1. PICK i \in 1..Len(s) : b \in Bytes(s[i])
    BY DEF BytesIn
  <2>2. CASE i = 1
    BY <1>2, <2>1, <2>2
  <2>3. CASE i # 1
    <3>1. i - 1 \in 1..Len(Tail(s)) /\ Tail(s)[i - 1] = s[i]
      BY <1>1, <1>2, <2>3
    <3> QED
      BY <2>1, <3>1 DEF BytesIn
  <2> QED
    BY <2>2, <2>3
<1>4. ASSUME NEW b \in Bytes(Head(s)) PROVE b \in BytesIn(s)
  <2>1. 1 \in 1..Len(s)
    BY <1>1
  <2> QED
    BY <1>2, <1>4, <2>1 DEF BytesIn
<1>5. ASSUME NEW b \in BytesIn(Tail(s)) PROVE b \in BytesIn(s)
  <2>1. PICK i \in 1..Len(Tail(s)) : b \in Bytes(Tail(s)[i])
    BY DEF BytesIn
  <2>2. i + 1 \in 1..Len(s) /\ Tail(s)[i] = s[i + 1]
    BY <1>1, <1>2
  <2> QED
    BY <2>1, <2>2 DEF BytesIn
<1> QED
  BY <1>1, <1>3, <1>4, <1>5

LEMMA CandidateFacts ==
  ASSUME NEW c \in Candidates
  PROVE  /\ c.extents \in Seq(Extents)
         /\ c.source \in {"filesystem", "carve"}
         /\ c.confidence \in 0..2
BY ArbitrationAssumption DEF kRejected, kUncertain, kValid

(* A candidate is blocked when it shares bytes with what is claimed. *)
LEMMA BlockedIsSharing ==
  ASSUME NEW regions, RegionsFit(regions), NEW c \in Candidates
  PROVE  isBlocked(regions, c) <=> RegionBytes(regions) \cap BytesOf(c) # {}
<1>1. \A i \in 1..Len(c.extents) : c.extents[i] \in Extents
  BY CandidateFacts
<1>2. \A i \in 1..Len(c.extents) :
        overlaps(regions, c.extents[i]) <=> RegionBytes(regions) \cap Bytes(c.extents[i]) # {}
  BY <1>1, OverlapIsSharing
<1>3. RegionBytes(regions) \cap BytesOf(c) # {} <=>
        \E i \in 1..Len(c.extents) : RegionBytes(regions) \cap Bytes(c.extents[i]) # {}
  BY DEF BytesOf, BytesIn
<1> QED
  BY <1>2, <1>3 DEF isBlocked

(* What a rank that does not come first says of source and confidence. *)
LEMMA RankSays ==
  ASSUME NEW c \in Candidates, NEW w \in Candidates, ~Precedes(rankOf(c), rankOf(w))
  PROVE  /\ FromFilesystem(c) => FromFilesystem(w)
         /\ c.source = w.source => c.confidence <= w.confidence
<1> DEFINE r == rankOf(c)
           s == rankOf(w)
<1>1. /\ r[1] = (IF FromFilesystem(c) THEN 0 ELSE 1) /\ s[1] = (IF FromFilesystem(w) THEN 0 ELSE 1)
      /\ r[2] = 2 - c.confidence /\ s[2] = 2 - w.confidence
  BY DEF rankOf, kValid
<1>2. ~(r[1] < s[1]) /\ (r[1] = s[1] => ~(r[2] < s[2]))
  <2> HIDE DEF r, s
  <2>1. \A i \in 1..4 : r[i] < s[i] => \E j \in 1..(i - 1) : r[j] # s[j]
    BY DEF Precedes, r, s
  <2>2. ~(r[1] < s[1])
    BY <2>1
  <2>3. r[2] < s[2] => \E j \in 1..1 : r[j] # s[j]
    BY <2>1
  <2> QED
    BY <2>2, <2>3
<1> HIDE DEF r, s
<1>3. FromFilesystem(c) => FromFilesystem(w)
  BY <1>1, <1>2
<1>4. ASSUME c.source = w.source PROVE c.confidence <= w.confidence
  <2>1. r[1] = s[1]
    BY <1>1, <1>4 DEF FromFilesystem
  <2> QED
    BY <1>1, <1>2, <2>1, CandidateFacts
<1> QED
  BY <1>3, <1>4

(***************************************************************************)
(* The invariant, action by action.                                        *)
(***************************************************************************)

LEMMA TypesStep ==
  ASSUME ArbitrationTypes, Separate(accounted), Separate(claimed),
         ArbitrationNext \/ UNCHANGED arbitrationVars
  PROVE  ArbitrationTypes'
<1> USE DEF accountVars, arbitrateVars, arbitrationVars
<1>1. ASSUME NEW e \in toVisit, account(e) PROVE ArbitrationTypes'
  <2>1. e \in Candidates /\ accounting' \in Seq(Extents)
    BY <1>1, CandidateFacts DEF account, ArbitrationTypes
  <2> QED
    BY <1>1, <2>1 DEF account, ArbitrationTypes
<1>2. CASE addRegion
  <2>1. Head(accounting) \in Extents /\ accounting' \in Seq(Extents)
    BY <1>2, BytesOfFirst DEF addRegion, ArbitrationTypes
  <2>2. RegionsFit(accounted') /\ dropped' \in Nat
    BY <1>2, <2>1, AddKeeps DEF addRegion, ArbitrationTypes
  <2> QED
    BY <1>2, <2>1, <2>2 DEF addRegion, ArbitrationTypes
<1>3. CASE carveGaps
  BY <1>3 DEF carveGaps, ArbitrationTypes
<1>4. ASSUME NEW c \in pool, accept(c) PROVE ArbitrationTypes'
  <2>1. c \in Candidates /\ claiming' \in Seq(Extents)
    BY <1>4, CandidateFacts DEF accept, ArbitrationTypes
  <2> QED
    BY <1>4, <2>1 DEF accept, Offered, ArbitrationTypes
<1>5. ASSUME NEW c \in pool, suppress(c) PROVE ArbitrationTypes'
  BY <1>5 DEF suppress, Offered, ArbitrationTypes
<1>6. CASE claimAll
  <2>1. Head(claiming) \in Extents /\ claiming' \in Seq(Extents)
    BY <1>6, BytesOfFirst DEF claimAll, ArbitrationTypes
  <2>2. RegionsFit(claimed')
    BY <1>6, <2>1, AddKeeps DEF claimAll, ArbitrationTypes
  <2> QED
    BY <1>6, <2>1, <2>2 DEF claimAll, ArbitrationTypes
<1>7. CASE inDeviceOrder
  BY <1>7 DEF inDeviceOrder, ArbitrationTypes
<1>8. CASE UNCHANGED arbitrationVars
  BY <1>8 DEF ArbitrationTypes
<1> QED
  BY <1>1, <1>2, <1>3, <1>4, <1>5, <1>6, <1>7, <1>8 DEF ArbitrationNext

(* An entry that is reported adds to the trusted bytes when it is trusted;
   what is carved never does. *)
LEMMA TrustGrows ==
  ASSUME NEW more, found' = found \cup more
  PROVE  TrustedBytes' = TrustedBytes
           \cup UNION {BytesOf(c) : c \in {e \in more : FromFilesystem(e) /\ e.confidence = kValid}}
BY DEF TrustedBytes

LEMMA AccountedStep ==
  ASSUME ArbitrationTypes, AccountedInv, ArbitrationNext \/ UNCHANGED arbitrationVars
  PROVE  AccountedInv'
<1> USE DEF accountVars, arbitrateVars, arbitrationVars
<1>1. ASSUME NEW e \in toVisit, account(e) PROVE AccountedInv'
  <2>1. /\ found' = found \cup {e} /\ accounted' = accounted /\ dropped' = dropped
        /\ BytesIn(accounting) = {}
        /\ accounting' = IF e.confidence = kValid THEN e.extents ELSE <<>>
        /\ FromFilesystem(e)
    BY <1>1, BytesOfNone DEF account, ArbitrationTypes
  <2>2. TrustedBytes' = TrustedBytes \cup BytesIn(accounting')
    <3>1. CASE e.confidence = kValid
      <4>1. {c \in {e} : FromFilesystem(c) /\ c.confidence = kValid} = {e}
        BY <2>1, <3>1
      <4>2. (UNION {BytesOf(c) : c \in {e}}) = BytesIn(accounting')
        BY <2>1, <3>1 DEF BytesOf
      <4> QED
        BY <2>1, <4>1, <4>2, TrustGrows
    <3>2. CASE e.confidence # kValid
      <4>1. {c \in {e} : FromFilesystem(c) /\ c.confidence = kValid} = {}
        BY <3>2
      <4>2. BytesIn(accounting') = {}
        BY <2>1, <3>2, BytesOfNone
      <4>3. (UNION {BytesOf(c) : c \in {}}) = {}
        OBVIOUS
      <4> QED
        BY <2>1, <4>1, <4>2, <4>3, TrustGrows
    <3> QED
      BY <3>1, <3>2
  <2> QED
    BY <2>1, <2>2 DEF AccountedInv
<1>2. CASE addRegion
  <2>1. /\ accounting # <<>> /\ accounting' = Tail(accounting) /\ found' = found
        /\ \/ dropped' = dropped + 1 /\ accounted' = accounted
           \/ dropped' = dropped /\ accounted' = add(accounted, Head(accounting))
    BY <1>2 DEF addRegion
  <2>2. /\ Head(accounting) \in Extents
        /\ BytesIn(accounting) = Bytes(Head(accounting)) \cup BytesIn(accounting')
    BY <2>1, BytesOfFirst DEF ArbitrationTypes
  <2>3. TrustedBytes' = TrustedBytes
    BY <2>1 DEF TrustedBytes
  <2>4. CASE dropped' = dropped + 1 /\ accounted' = accounted
    <3>1. dropped' # 0
      BY <2>4 DEF ArbitrationTypes
    <3> QED
      BY <2>2, <2>3, <2>4, <3>1 DEF AccountedInv
  <2>5. CASE dropped' = dropped /\ accounted' = add(accounted, Head(accounting))
    <3>1. /\ Separate(accounted')
          /\ RegionBytes(accounted') = RegionBytes(accounted) \cup Bytes(Head(accounting))
      BY <2>2, <2>5, AddKeeps DEF ArbitrationTypes, AccountedInv
    <3> QED
      BY <2>2, <2>3, <2>5, <3>1 DEF AccountedInv
  <2> QED
    BY <2>1, <2>4, <2>5
<1>3. CASE carveGaps
  <2>1. PICK carved \in SUBSET {c \in Candidates : ~FromFilesystem(c)} : found' = found \cup carved
    BY <1>3 DEF carveGaps
  <2>2. {c \in carved : FromFilesystem(c) /\ c.confidence = kValid} = {}
    OBVIOUS
  <2>3. (UNION {BytesOf(c) : c \in {}}) = {}
    OBVIOUS
  <2>4. TrustedBytes' = TrustedBytes
    <3>1. TrustedBytes' = TrustedBytes
            \cup UNION {BytesOf(c) : c \in {e \in carved : FromFilesystem(e) /\ e.confidence = kValid}}
      BY <2>1, TrustGrows
    <3> QED
      BY <2>2, <2>3, <3>1
  <2> QED
    BY <1>3, <2>4 DEF carveGaps, AccountedInv
<1>4. ASSUME UNCHANGED accountVars PROVE AccountedInv'
  <2>1. TrustedBytes' = TrustedBytes
    BY <1>4 DEF TrustedBytes
  <2> QED
    BY <1>4, <2>1 DEF AccountedInv
<1>5. ASSUME NEW c \in pool, accept(c) \/ suppress(c) PROVE AccountedInv'
  BY <1>4, <1>5 DEF accept, suppress
<1>6. CASE claimAll \/ inDeviceOrder \/ UNCHANGED arbitrationVars
  BY <1>4, <1>6 DEF claimAll, inDeviceOrder
<1> QED
  BY <1>1, <1>2, <1>3, <1>5, <1>6 DEF ArbitrationNext

(* The losers so far. *)
Losers == found \ (pool \cup winners)

(* Why a loser lost. *)
LostTo(c, w) ==
  /\ BytesOf(c) \cap BytesOf(w) # {}
  /\ FromFilesystem(c) => FromFilesystem(w)
  /\ c.source = w.source => c.confidence <= w.confidence

Claims == UNION {BytesOf(w) : w \in winners}

(* WinnersInv, with its parts named. *)
LEMMA WinnersParts ==
  WinnersInv <=>
    /\ Separate(claimed)
    /\ \A v, w \in winners : v # w => BytesOf(v) \cap BytesOf(w) = {}
    /\ phase # "walk" => /\ suppressed = Cardinality(Losers)
                         /\ \A c \in Losers : c.confidence = kRejected \/ \E w \in winners : LostTo(c, w)
    /\ RegionBytes(claimed) \cup BytesIn(claiming) = Claims
    /\ \A c \in pool, w \in winners : ~Precedes(rankOf(c), rankOf(w))
BY DEF WinnersInv, WinnersBeatWhatTheyOverlap, Losers, LostTo, Claims

(* The same of the next state. *)
LEMMA WinnersPartsNext ==
  WinnersInv' <=>
    /\ Separate(claimed')
    /\ \A v, w \in winners' : v # w => BytesOf(v) \cap BytesOf(w) = {}
    /\ phase' # "walk" => /\ suppressed' = Cardinality(Losers')
                          /\ \A c \in Losers' : c.confidence = kRejected \/ \E w \in winners' : LostTo(c, w)
    /\ RegionBytes(claimed') \cup BytesIn(claiming') = Claims'
    /\ \A c \in pool', w \in winners' : ~Precedes(rankOf(c), rankOf(w))
BY DEF WinnersInv, WinnersBeatWhatTheyOverlap, Losers, LostTo, Claims

(* Only a candidate that shares no byte with a winner wins. *)
LEMMA AcceptKeeps ==
  ASSUME ArbitrationTypes, WinnersInv, NEW c \in pool, accept(c)
  PROVE  WinnersInv'
<1> USE DEF accountVars, arbitrateVars
<1>1. /\ claiming = <<>> /\ phase = "arbitrate" /\ ~isBlocked(claimed, c)
      /\ \A d \in pool : ~Precedes(rankOf(d), rankOf(c))
      /\ pool' = pool \ {c} /\ winners' = winners \cup {c} /\ claiming' = c.extents
      /\ UNCHANGED <<phase, found, claimed, suppressed>>
  BY DEF accept, Offered
<1>2. c \in Candidates /\ c \in found /\ c \notin winners
  BY DEF ArbitrationTypes
<1>3. RegionBytes(claimed) = Claims
  BY <1>1, BytesOfNone, WinnersParts
<1>4. Claims \cap BytesOf(c) = {}
  BY <1>1, <1>2, <1>3, BlockedIsSharing DEF ArbitrationTypes
<1>5. \A w \in winners : BytesOf(w) \cap BytesOf(c) = {}
  BY <1>4 DEF Claims
<1>6. \A v, w \in winners' : v # w => BytesOf(v) \cap BytesOf(w) = {}
  BY <1>1, <1>5, WinnersParts
<1>7. Claims' = Claims \cup BytesOf(c)
  BY <1>1 DEF Claims
<1>8. RegionBytes(claimed') \cup BytesIn(claiming') = Claims'
  BY <1>1, <1>3, <1>7 DEF BytesOf
<1>9. Losers' = Losers
  BY <1>1, <1>2 DEF Losers
<1>10. \A d \in pool', w \in winners' : ~Precedes(rankOf(d), rankOf(w))
  BY <1>1, WinnersParts
<1>11. phase' # "walk" =>
         /\ suppressed' = Cardinality(Losers')
         /\ \A d \in Losers' : d.confidence = kRejected \/ \E w \in winners' : LostTo(d, w)
  BY <1>1, <1>9, WinnersParts
<1>12. Separate(claimed')
  BY <1>1, WinnersParts
<1> QED
  BY <1>6, <1>8, <1>10, <1>11, <1>12, WinnersPartsNext

(* A candidate is suppressed for a reason, and counted. *)
LEMMA SuppressKeeps ==
  ASSUME ArbitrationTypes, WinnersInv, NEW c \in pool, suppress(c)
  PROVE  WinnersInv'
<1> USE DEF accountVars, arbitrateVars
<1>1. /\ claiming = <<>> /\ phase = "arbitrate"
      /\ c.confidence = kRejected \/ isBlocked(claimed, c)
      /\ pool' = pool \ {c} /\ suppressed' = suppressed + 1
      /\ UNCHANGED <<phase, found, claimed, claiming, winners>>
  BY DEF suppress, Offered
<1>2. c \in Candidates /\ c \in found /\ c \notin winners /\ winners \subseteq Candidates
  BY DEF ArbitrationTypes
<1>3. ASSUME isBlocked(claimed, c) PROVE \E w \in winners : LostTo(c, w)
  <2>1. RegionBytes(claimed) = Claims
    BY <1>1, BytesOfNone, WinnersParts
  <2>2. Claims \cap BytesOf(c) # {}
    BY <1>2, <1>3, <2>1, BlockedIsSharing DEF ArbitrationTypes
  <2>3. PICK w \in winners : BytesOf(c) \cap BytesOf(w) # {}
    BY <2>2 DEF Claims
  <2>4. ~Precedes(rankOf(c), rankOf(w))
    BY WinnersParts
  <2> QED
    BY <1>2, <2>3, <2>4, RankSays DEF LostTo
<1>4. Losers' = Losers \cup {c} /\ c \notin Losers
  BY <1>1, <1>2 DEF Losers
<1>5. IsFiniteSet(Losers)
  <2>1. Losers \in SUBSET Candidates
    BY DEF Losers, ArbitrationTypes
  <2> QED
    BY <2>1, ArbitrationAssumption, FS_Subset
<1>6. suppressed' = Cardinality(Losers')
  BY <1>1, <1>4, <1>5, FS_AddElement, WinnersParts
<1>7. \A d \in Losers' : d.confidence = kRejected \/ \E w \in winners' : LostTo(d, w)
  BY <1>1, <1>3, <1>4, WinnersParts
<1>8. /\ Separate(claimed')
      /\ \A v, w \in winners' : v # w => BytesOf(v) \cap BytesOf(w) = {}
      /\ RegionBytes(claimed') \cup BytesIn(claiming') = Claims'
      /\ \A d \in pool', w \in winners' : ~Precedes(rankOf(d), rankOf(w))
  BY <1>1, WinnersParts DEF Claims
<1> QED
  BY <1>6, <1>7, <1>8, WinnersPartsNext

LEMMA WinnersStep ==
  ASSUME ArbitrationTypes, WinnersInv, ArbitrationNext \/ UNCHANGED arbitrationVars
  PROVE  WinnersInv'
<1> USE DEF accountVars, arbitrateVars, arbitrationVars
<1>1. ASSUME UNCHANGED <<pool, claiming, claimed, winners, suppressed>>,
             phase' = "walk" \/ (found' = found /\ (phase' # "walk" => phase # "walk"))
      PROVE  WinnersInv'
  <2>1. /\ Separate(claimed')
        /\ \A v, w \in winners' : v # w => BytesOf(v) \cap BytesOf(w) = {}
        /\ RegionBytes(claimed') \cup BytesIn(claiming') = Claims'
        /\ \A d \in pool', w \in winners' : ~Precedes(rankOf(d), rankOf(w))
    BY <1>1, WinnersParts DEF Claims
  <2>2. phase' # "walk" =>
          /\ suppressed' = Cardinality(Losers')
          /\ \A c \in Losers' : c.confidence = kRejected \/ \E w \in winners' : LostTo(c, w)
    BY <1>1, WinnersParts DEF Losers
  <2> QED
    BY <2>1, <2>2, WinnersPartsNext
<1>2. ASSUME NEW e \in toVisit, account(e) PROVE WinnersInv'
  BY <1>1, <1>2 DEF account
<1>3. CASE addRegion \/ inDeviceOrder \/ UNCHANGED arbitrationVars
  BY <1>1, <1>3 DEF addRegion, inDeviceOrder
<1>4. CASE carveGaps
  <2>1. /\ phase = "walk" /\ winners' = winners /\ pool' = found' /\ suppressed' = suppressed
        /\ UNCHANGED <<claimed, claiming>>
    BY <1>4 DEF carveGaps
  <2>2. winners = {} /\ suppressed = 0
    BY <2>1 DEF ArbitrationTypes
  <2>3. Losers' = {}
    BY <2>1 DEF Losers
  <2>4. suppressed' = Cardinality(Losers')
    BY <2>1, <2>2, <2>3, FS_EmptySet
  <2>5. /\ Separate(claimed')
        /\ RegionBytes(claimed') \cup BytesIn(claiming') = Claims'
    BY <2>1, WinnersParts DEF Claims
  <2> QED
    BY <2>1, <2>2, <2>3, <2>4, <2>5, WinnersPartsNext
<1>5. CASE claimAll
  <2>1. /\ claiming # <<>> /\ claimed' = add(claimed, Head(claiming)) /\ claiming' = Tail(claiming)
        /\ UNCHANGED <<phase, found, pool, winners, suppressed>>
    BY <1>5 DEF claimAll
  <2>2. /\ Head(claiming) \in Extents
        /\ BytesIn(claiming) = Bytes(Head(claiming)) \cup BytesIn(claiming')
    BY <2>1, BytesOfFirst DEF ArbitrationTypes
  <2>3. /\ Separate(claimed')
        /\ RegionBytes(claimed') = RegionBytes(claimed) \cup Bytes(Head(claiming))
    BY <2>1, <2>2, AddKeeps, WinnersParts DEF ArbitrationTypes
  <2>4. RegionBytes(claimed') \cup BytesIn(claiming') = Claims'
    BY <2>1, <2>2, <2>3, WinnersParts DEF Claims
  <2>5. /\ \A v, w \in winners' : v # w => BytesOf(v) \cap BytesOf(w) = {}
        /\ \A d \in pool', w \in winners' : ~Precedes(rankOf(d), rankOf(w))
        /\ phase' # "walk" =>
             /\ suppressed' = Cardinality(Losers')
             /\ \A c \in Losers' : c.confidence = kRejected \/ \E w \in winners' : LostTo(c, w)
    BY <2>1, WinnersParts DEF Losers
  <2> QED
    BY <2>3, <2>4, <2>5, WinnersPartsNext
<1> QED
  BY <1>2, <1>3, <1>4, <1>5, AcceptKeeps, SuppressKeeps DEF ArbitrationNext

LEMMA ArbitrationStep ==
  ASSUME ArbitrationInv, [Next]_vars
  PROVE  ArbitrationInv'
<1>1. ArbitrationNext \/ UNCHANGED arbitrationVars
  BY DEF Next, vars
<1>2. Separate(accounted) /\ Separate(claimed)
  BY WinnersParts DEF ArbitrationInv, AccountedInv
<1> QED
  BY <1>1, <1>2, TypesStep, AccountedStep, WinnersStep DEF ArbitrationInv

LEMMA ArbitrationStarts == Init => ArbitrationInv
<1> SUFFICES ASSUME Init PROVE ArbitrationInv
  OBVIOUS
<1>1. /\ phase = "walk" /\ found = {} /\ pool = {} /\ winners = {} /\ suppressed = 0 /\ dropped = 0
      /\ accounting = <<>> /\ claiming = <<>> /\ accounted = NoRegions /\ claimed = NoRegions
      /\ toVisit \subseteq {c \in Candidates : FromFilesystem(c)}
  BY DEF Init, ArbitrationInit
<1>2. RegionsFit(NoRegions) /\ Separate(NoRegions) /\ RegionBytes(NoRegions) = {}
  BY DEF NoRegions, RegionsFit, Separate, RegionBytes
<1>3. ArbitrationTypes
  BY <1>1, <1>2 DEF ArbitrationTypes
<1>4. TrustedBytes = {} /\ Claims = {}
  BY <1>1 DEF TrustedBytes, Claims
<1>5. AccountedInv
  BY <1>1, <1>2, <1>4, BytesOfNone DEF AccountedInv
<1>6. WinnersInv
  BY <1>1, <1>2, <1>4, BytesOfNone, WinnersParts
<1> QED
  BY <1>3, <1>5, <1>6 DEF ArbitrationInv

(* The accounting, the regions and the winners keep the invariant, for every
   device, every set of candidates and every cap. *)
THEOREM ArbitrationInvariant == Spec => []ArbitrationInv
<1>1. ArbitrationInv /\ [Next]_vars => ArbitrationInv'
  BY ArbitrationStep
<1> QED
  BY <1>1, ArbitrationStarts, PTL DEF Spec

(* No byte is recovered twice, and a candidate loses only to a winner it shares
   bytes with and does not outrank: Arbitration.cpp for every input. *)
THEOREM WinnersAreRight == Spec => []WinnersBeatWhatTheyOverlap
<1>1. ArbitrationInv => WinnersBeatWhatTheyOverlap
  BY DEF ArbitrationInv, WinnersInv
<1> QED
  BY <1>1, ArbitrationInvariant, PTL

(* The scan is sent into exactly the bytes no region holds: RegionSet::gaps is
   the complement, no unaccounted byte is missed whatever the cap dropped, and
   nothing trusted is scanned again when it dropped nothing. *)
THEOREM GapsAreRight == Spec => []GapsAreTheUnaccounted
<1>1. ArbitrationInv => GapsAreTheUnaccounted
  <2> SUFFICES ASSUME ArbitrationInv PROVE GapsAreTheUnaccounted
    OBVIOUS
  <2>1. RegionsFit(accounted) /\ Separate(accounted) /\ DeviceSize \in 0..kMax
    BY ArbitrationAssumption DEF ArbitrationInv, ArbitrationTypes, AccountedInv
  <2>2. complementOf(accounted, DeviceSize) = Ref!gaps(Ranges(accounted), DeviceSize)
    BY <2>1, ComplementIsTheGaps
  <2>3. GapBytes = (0..(DeviceSize - 1)) \ RegionBytes(accounted)
    BY <2>1, <2>2, GapsHoldTheRest DEF GapBytes
  <2>4. accounting = <<>> => /\ RegionBytes(accounted) \subseteq TrustedBytes
                             /\ dropped = 0 => TrustedBytes \subseteq RegionBytes(accounted)
    BY BytesOfNone DEF ArbitrationInv, AccountedInv
  <2>5. Ranges(accounted) = {Ref!Region(k, accounted[k]) : k \in DOMAIN accounted}
    BY DEF Ranges
  <2>6. accounting = <<>> => /\ (0..(DeviceSize - 1)) \ TrustedBytes \subseteq GapBytes
                             /\ dropped = 0 => GapBytes \cap TrustedBytes = {}
    BY <2>3, <2>4
  <2> QED
    BY <2>1, <2>2, <2>5, <2>6 DEF GapsAreTheUnaccounted
<1> QED
  BY <1>1, ArbitrationInvariant, PTL

-----------------------------------------------------------------------------

(***************************************************************************)
(* Sequences.                                                              *)
(***************************************************************************)

LEMMA SeqIs ==
  ASSUME NEW s, IsSeq(s)
  PROVE  /\ Len(s) \in Nat /\ DOMAIN s = 1..Len(s)
         /\ s = <<>> <=> Len(s) = 0
BY DEF IsSeq

LEMMA IsSeqOf ==
  ASSUME NEW S, NEW s \in Seq(S)
  PROVE  IsSeq(s)
<1> DEFINE R == {s[i] : i \in DOMAIN s}
<1>1. Len(s) \in Nat /\ DOMAIN s = 1..Len(s) /\ s = [i \in 1..Len(s) |-> s[i]]
  OBVIOUS
<1>2. \A i \in 1..Len(s) : s[i] \in R
  BY <1>1
<1> HIDE DEF R
<1>3. [i \in 1..Len(s) |-> s[i]] \in Seq(R)
  BY <1>1, <1>2
<1> QED
  BY <1>1, <1>3 DEF IsSeq, R

LEMMA MapIs ==
  ASSUME NEW n \in Nat, NEW g, g = [i \in 1..n |-> g[i]]
  PROVE  IsSeq(g) /\ Len(g) = n
<1> DEFINE R == {g[i] : i \in DOMAIN g}
<1>1. \A i \in 1..n : g[i] \in R
  OBVIOUS
<1> HIDE DEF R
<1>2. g \in Seq(R)
  BY <1>1
<1> QED
  BY <1>2, IsSeqOf

LEMMA AppendIs ==
  ASSUME NEW s, IsSeq(s), NEW e
  PROVE  /\ IsSeq(Append(s, e)) /\ Len(Append(s, e)) = Len(s) + 1
         /\ DOMAIN Append(s, e) = 1..(Len(s) + 1)
         /\ \A i \in DOMAIN s : Append(s, e)[i] = s[i]
         /\ Append(s, e)[Len(s) + 1] = e
<1> DEFINE R == {s[i] : i \in DOMAIN s} \cup {e}
<1>1. s \in Seq(R) /\ e \in R
  <2>1. s \in Seq({s[i] : i \in DOMAIN s})
    BY DEF IsSeq
  <2>2. Len(s) \in Nat /\ s = [i \in 1..Len(s) |-> s[i]]
    BY <2>1
  <2>3. \A i \in 1..Len(s) : s[i] \in R
    BY <2>1
  <2> HIDE DEF R
  <2>4. s \in Seq(R)
    BY <2>2, <2>3
  <2> QED
    BY <2>4 DEF R
<1> HIDE DEF R
<1>2. Append(s, e) \in Seq(R) /\ Len(s) \in Nat /\ DOMAIN s = 1..Len(s)
  BY <1>1
<1>3. IsSeq(Append(s, e))
  BY <1>2, IsSeqOf
<1>4. Len(Append(s, e)) = Len(s) + 1 /\ Append(s, e)[Len(s) + 1] = e
  BY <1>1
<1>5. \A i \in 1..Len(s) : Append(s, e)[i] = s[i]
  BY <1>1
<1>6. DOMAIN Append(s, e) = 1..(Len(s) + 1)
  BY <1>2, <1>4
<1> QED
  BY <1>2, <1>3, <1>4, <1>5, <1>6

LEMMA TailIs ==
  ASSUME NEW s, IsSeq(s), s # <<>>
  PROVE  /\ Head(s) = s[1] /\ 1 \in DOMAIN s
         /\ IsSeq(Tail(s)) /\ Len(Tail(s)) = Len(s) - 1 /\ DOMAIN Tail(s) = 1..(Len(s) - 1)
         /\ \A i \in 1..(Len(s) - 1) : Tail(s)[i] = s[i + 1]
<1> DEFINE R == {s[i] : i \in DOMAIN s}
<1>1. s \in Seq(R)
  BY DEF IsSeq
<1> HIDE DEF R
<1>2. Tail(s) \in Seq(R) /\ Head(s) = s[1] /\ Len(s) \in Nat /\ DOMAIN s = 1..Len(s) /\ Len(s) >= 1
  BY <1>1
<1>3. IsSeq(Tail(s))
  BY <1>2, IsSeqOf
<1>4. Len(Tail(s)) = Len(s) - 1 /\ \A i \in 1..(Len(s) - 1) : Tail(s)[i] = s[i + 1]
  BY <1>1
<1>5. DOMAIN Tail(s) = 1..(Len(s) - 1)
  BY <1>2, <1>4
<1>6. 1 \in DOMAIN s
  BY <1>2
<1> QED
  BY <1>2, <1>3, <1>4, <1>5, <1>6

(* Two sequences are sequences over one set. *)
LEMMA CommonRange ==
  ASSUME NEW s, NEW t, IsSeq(s), IsSeq(t)
  PROVE  \E R : s \in Seq(R) /\ t \in Seq(R)
<1> DEFINE R == {s[i] : i \in DOMAIN s} \cup {t[i] : i \in DOMAIN t}
<1>1. ASSUME NEW v, IsSeq(v), \A i \in DOMAIN v : v[i] \in R PROVE v \in Seq(R)
  <2>1. v \in Seq({v[i] : i \in DOMAIN v})
    BY <1>1 DEF IsSeq
  <2>2. Len(v) \in Nat /\ v = [i \in 1..Len(v) |-> v[i]] /\ DOMAIN v = 1..Len(v)
    BY <2>1
  <2> HIDE DEF R
  <2> QED
    BY <1>1, <2>2
<1>2. (\A i \in DOMAIN s : s[i] \in R) /\ \A i \in DOMAIN t : t[i] \in R
  OBVIOUS
<1> HIDE DEF R
<1> QED
  BY <1>1, <1>2

(***************************************************************************)
(* The order of writing.                                                   *)
(***************************************************************************)

Ordereds == [winner : Candidates, ordinal : Nat]

Holds(s, x) == \E i \in DOMAIN s : s[i] = x

(* ofSource's loop: as many of either source as winners passed, and all of them. *)
LEMMA OfSourceIs ==
  ASSUME NEW w \in Seq(Candidates), NEW source
  PROVE  \E f \in [0..Len(w) -> Seq(Ordereds)] :
           /\ ofSource(w, source) = f[Len(w)] /\ f[0] = <<>>
           /\ \A k \in 1..Len(w) :
                f[k] = IF w[k].source = source
                       THEN Append(f[k - 1], [winner |-> w[k], ordinal |-> k - 1])
                       ELSE f[k - 1]
<1> DEFINE N == Len(w)
           V == Seq(Ordereds)
           none == <<>>
           once(v, k) == IF w[k].source = source
                         THEN Append(v, [winner |-> w[k], ordinal |-> k - 1]) ELSE v
           step == [k \in 1..N |-> [v \in V |-> once(v, k)]]
           Is(f) == f = [k \in 0..N |-> IF k = 0 THEN none ELSE once(f[k - 1], k)]
<1>1. N \in Nat /\ none \in V
  OBVIOUS
<1>2. ASSUME NEW k \in 1..N, NEW v \in V PROVE once(v, k) \in V
  <2>1. [winner |-> w[k], ordinal |-> k - 1] \in Ordereds
    BY DEF Ordereds
  <2> QED
    BY <2>1
<1>3. step \in [1..N -> [V -> V]]
  BY <1>2
<1> HIDE DEF once, V
<1>4. PICK f \in [0..N -> V] : f[0] = none /\ \A k \in 1..N : f[k] = step[k][f[k - 1]]
  <2> HIDE DEF step, N, none
  <2> QED
    BY <1>1, <1>3, RecursionExists
<1>5. \A k \in 1..N : k - 1 \in 0..N /\ k \in 0..N /\ k # 0
  BY <1>1
<1>6. \A k \in 1..N : f[k] = once(f[k - 1], k)
  BY <1>4, <1>5
<1>7. \A k \in 0..N : k = 0 \/ k \in 1..N
  BY <1>1
<1>8. Is(f)
  BY <1>4, <1>6, <1>7
<1>9. \A g : Is(g) => g = f
  <2> SUFFICES ASSUME NEW g, Is(g) PROVE g = f
    OBVIOUS
  <2> DEFINE S == {k \in Nat : k <= N => g[k] = f[k]}
  <2>1. g[0] = none /\ \A k \in 1..N : g[k] = once(g[k - 1], k)
    <3>1. 0 \in 0..N
      BY <1>1
    <3> QED
      BY <1>5, <3>1
  <2>2. 0 \in S
    BY <1>4, <2>1
  <2>3. ASSUME NEW k \in S PROVE k + 1 \in S
    <3>1. k \in Nat
      OBVIOUS
    <3>2. ASSUME k + 1 <= N PROVE g[k + 1] = f[k + 1]
      <4>1. k + 1 \in 1..N /\ (k + 1) - 1 = k /\ g[k] = f[k]
        BY <1>1, <3>1, <3>2
      <4> QED
        BY <1>6, <2>1, <4>1
    <3> QED
      BY <3>1, <3>2
  <2>4. S = Nat
    <3>1. S \in SUBSET Nat
      OBVIOUS
    <3> HIDE DEF S
    <3> QED
      BY <2>2, <2>3, <3>1, SetInduction
  <2>5. \A k \in 0..N : g[k] = f[k]
    BY <1>1, <2>4, SMTT(60)
  <2>6. g = [k \in 0..N |-> g[k]] /\ f = [k \in 0..N |-> f[k]]
    OBVIOUS
  <2> QED
    BY <2>5, <2>6
<1>10. ofSource(w, source) = (CHOOSE g : Is(g))[N]
  BY DEF ofSource, once
<1>11. (CHOOSE g : Is(g)) = f
  <2> HIDE DEF Is
  <2> QED
    BY <1>8, <1>9
<1>12. ofSource(w, source) = f[N]
  BY <1>10, <1>11
<1>13. f \in [0..Len(w) -> Seq(Ordereds)]
  BY DEF V
<1> QED
  BY <1>4, <1>6, <1>12, <1>13 DEF once

(* The order is the winners, each once: as many, and every one with its place. *)
LEMMA OrderIs ==
  ASSUME NEW w \in Seq(Candidates)
  PROVE  /\ orderedForWriting(w) \in Seq(Ordereds) /\ Len(orderedForWriting(w)) = Len(w)
         /\ \A k \in 1..Len(w) :
              Holds(orderedForWriting(w), [winner |-> w[k], ordinal |-> k - 1])
<1> DEFINE N == Len(w)
           at(k) == [winner |-> w[k], ordinal |-> k - 1]
<1>1. N \in Nat /\ \A k \in 1..N : w[k] \in Candidates /\ w[k].source \in {"filesystem", "carve"}
  BY ArbitrationAssumption
<1>2. PICK f \in [0..N -> Seq(Ordereds)] :
           /\ ofSource(w, "filesystem") = f[N] /\ f[0] = <<>>
           /\ \A k \in 1..N : f[k] = IF w[k].source = "filesystem" THEN Append(f[k - 1], at(k))
                                     ELSE f[k - 1]
  BY OfSourceIs
<1>3. PICK c \in [0..N -> Seq(Ordereds)] :
           /\ ofSource(w, "carve") = c[N] /\ c[0] = <<>>
           /\ \A k \in 1..N : c[k] = IF w[k].source = "carve" THEN Append(c[k - 1], at(k))
                                     ELSE c[k - 1]
  BY OfSourceIs
<1> DEFINE Good(k) == /\ Len(f[k]) + Len(c[k]) = k
                      /\ \A i \in 1..k : Holds(f[k], at(i)) \/ Holds(c[k], at(i))
           S == {k \in Nat : k <= N => Good(k)}
<1> HIDE DEF at, N
<1>4. 0 \in S
  BY <1>1, <1>2, <1>3
<1>5. ASSUME NEW k \in S PROVE k + 1 \in S
  <2>1. k \in Nat
    OBVIOUS
  <2>2. SUFFICES ASSUME k + 1 <= N PROVE Good(k + 1)
    BY <2>1
  <2>3. k \in 0..N /\ k + 1 \in 1..N /\ (k + 1) - 1 = k /\ Good(k)
    BY <1>1, <2>1, <2>2
  <2>4. IsSeq(f[k]) /\ IsSeq(c[k]) /\ Len(f[k]) \in Nat /\ Len(c[k]) \in Nat
    <3>1. f[k] \in Seq(Ordereds) /\ c[k] \in Seq(Ordereds)
      BY <2>3
    <3> QED
      BY <3>1, IsSeqOf
  <2>5. ASSUME NEW s, IsSeq(s)
        PROVE  /\ Holds(Append(s, at(k + 1)), at(k + 1))
               /\ \A x : Holds(s, x) => Holds(Append(s, at(k + 1)), x)
    <3>1. Len(s) \in Nat /\ DOMAIN s = 1..Len(s)
      BY <2>5, SeqIs
    <3>2. /\ DOMAIN Append(s, at(k + 1)) = 1..(Len(s) + 1)
          /\ Append(s, at(k + 1))[Len(s) + 1] = at(k + 1)
          /\ \A i \in DOMAIN s : Append(s, at(k + 1))[i] = s[i]
      BY <2>5, AppendIs
    <3>3. Len(s) + 1 \in DOMAIN Append(s, at(k + 1)) /\ DOMAIN s \subseteq DOMAIN Append(s, at(k + 1))
      BY <3>1, <3>2
    <3> QED
      BY <3>2, <3>3 DEF Holds
  <2>6. \A i \in 1..(k + 1) : i \in 1..k \/ i = k + 1
    BY <2>1
  <2>7. CASE w[k + 1].source = "filesystem"
    <3>1. f[k + 1] = Append(f[k], at(k + 1)) /\ c[k + 1] = c[k]
      BY <1>2, <1>3, <2>3, <2>7
    <3>2. Len(f[k + 1]) = Len(f[k]) + 1
      BY <2>4, <3>1, AppendIs
    <3>3. \A i \in 1..(k + 1) : Holds(f[k + 1], at(i)) \/ Holds(c[k + 1], at(i))
      BY <2>3, <2>4, <2>5, <2>6, <3>1
    <3>4. Len(f[k + 1]) + Len(c[k + 1]) = k + 1
      <4>1. Len(f[k]) + Len(c[k]) = k
        BY <2>3
      <4>2. Len(f[k + 1]) = Len(f[k]) + 1 /\ Len(c[k + 1]) = Len(c[k])
        BY <3>1, <3>2
      <4> QED
        BY <2>1, <2>4, <4>1, <4>2
    <3> QED
      BY <3>3, <3>4
  <2>8. CASE w[k + 1].source = "carve"
    <3>1. c[k + 1] = Append(c[k], at(k + 1)) /\ f[k + 1] = f[k]
      BY <1>2, <1>3, <2>3, <2>8
    <3>2. Len(c[k + 1]) = Len(c[k]) + 1
      BY <2>4, <3>1, AppendIs
    <3>3. \A i \in 1..(k + 1) : Holds(f[k + 1], at(i)) \/ Holds(c[k + 1], at(i))
      BY <2>3, <2>4, <2>5, <2>6, <3>1
    <3>4. Len(f[k + 1]) + Len(c[k + 1]) = k + 1
      <4>1. Len(f[k]) + Len(c[k]) = k
        BY <2>3
      <4>2. Len(c[k + 1]) = Len(c[k]) + 1 /\ Len(f[k + 1]) = Len(f[k])
        BY <3>1, <3>2
      <4>3. Len(f[k]) + (Len(c[k]) + 1) = k + 1
        BY <2>1, <2>4, <4>1
      <4> QED
        BY <4>2, <4>3
    <3> QED
      BY <3>3, <3>4
  <2> QED
    BY <1>1, <2>3, <2>7, <2>8
<1>6. Good(N)
  <2>1. S = Nat
    <3>1. S \in SUBSET Nat
      OBVIOUS
    <3> HIDE DEF S
    <3> QED
      BY <1>4, <1>5, <3>1, SetInduction
  <2>2. N \in S /\ N <= N
    <3> HIDE DEF S
    <3> QED
      BY <1>1, <2>1
  <2> HIDE DEF Good
  <2> QED
    BY <2>2
<1> DEFINE s == f[N]
           t == c[N]
           o == orderedForWriting(w)
<1>7. s \in Seq(Ordereds) /\ t \in Seq(Ordereds) /\ o = s \o t
  <2>1. N \in 0..N
    BY <1>1
  <2> QED
    BY <1>2, <1>3, <2>1 DEF orderedForWriting
<1>8. Len(s) + Len(t) = N /\ \A i \in 1..N : Holds(s, at(i)) \/ Holds(t, at(i))
  <2>1. N \in 1..N \/ N = 0
    BY <1>1
  <2> QED
    BY <1>6
<1> HIDE DEF s, t, o
<1>9. IsSeq(s) /\ IsSeq(t)
  BY <1>7, IsSeqOf
<1>10. /\ Len(o) = Len(s) + Len(t) /\ DOMAIN o = 1..(Len(s) + Len(t))
       /\ \A i \in 1..Len(s) : o[i] = s[i]
       /\ \A i \in 1..Len(t) : o[Len(s) + i] = t[i]
       /\ Len(s) \in Nat /\ Len(t) \in Nat /\ DOMAIN s = 1..Len(s) /\ DOMAIN t = 1..Len(t)
  <2>1. Len(s) \in Nat /\ Len(t) \in Nat /\ DOMAIN s = 1..Len(s) /\ DOMAIN t = 1..Len(t)
    BY <1>9, SeqIs
  <2> QED
    BY <1>7, <2>1
<1>11. ASSUME NEW x, Holds(s, x) \/ Holds(t, x) PROVE Holds(o, x)
  <2>1. ASSUME NEW i \in DOMAIN s, s[i] = x PROVE Holds(o, x)
    <3>1. i \in 1..Len(s) /\ i \in DOMAIN o
      BY <1>10
    <3> QED
      BY <1>10, <2>1, <3>1 DEF Holds
  <2>2. ASSUME NEW i \in DOMAIN t, t[i] = x PROVE Holds(o, x)
    <3>1. i \in 1..Len(t) /\ Len(s) + i \in DOMAIN o
      BY <1>10
    <3> QED
      BY <1>10, <2>2, <3>1 DEF Holds
  <2> QED
    BY <1>11, <2>1, <2>2 DEF Holds
<1>12. o \in Seq(Ordereds) /\ Len(o) = N
  BY <1>7, <1>8, <1>10
<1>13. \A k \in 1..N : Holds(o, at(k))
  BY <1>8, <1>11
<1> QED
  BY <1>12, <1>13 DEF o, at, N

(***************************************************************************)
(* The names.                                                              *)
(***************************************************************************)

Names(stems) == [stem : stems, suffix : Seq(Nat)]

LEMMA DisambiguateIs ==
  ASSUME NEW stems, NEW name \in Names(stems), NEW taken
  PROVE  disambiguate(name, taken) \in Names(stems) /\ disambiguate(name, taken).stem = name.stem
<1> DEFINE free == {n \in 2..(kMaxDisambiguationAttempts + 1) :
                      numberedCandidate(name, n) \notin taken}
<1>1. \A n \in Nat : numberedCandidate(name, n) \in Names(stems)
                     /\ numberedCandidate(name, n).stem = name.stem
  BY SMTT(60) DEF Names, numberedCandidate
<1>2. free \in SUBSET Nat
  BY SinkAssumption
<1>3. disambiguate(name, taken) = IF name \notin taken THEN name
                                  ELSE IF free # {} THEN numberedCandidate(name, Min(free))
                                  ELSE numberedCandidate(name, 0)
  BY DEF disambiguate
<1> HIDE DEF free
<1>4. free # {} => Min(free) \in Nat
  BY <1>2, MinIs
<1> QED
  BY <1>1, <1>3, <1>4

(* A winner proposes a name. *)
LEMMA ProposedIs ==
  ASSUME NEW o \in Ordereds
  PROVE  outputNameFor(o) \in Names({outputNameFor(o).stem})
<1>1. o.winner \in Candidates /\ o.winner.source \in {"filesystem", "carve"}
  BY ArbitrationAssumption DEF Ordereds
<1>2. CASE o.winner.source = "filesystem"
  <2>1. o.winner.name \in [stem : DOMAIN Safe, suffix : Seq(Nat)]
    BY <1>1, <1>2, DeliveryAssumption DEF FromFilesystem
  <2>2. outputNameFor(o) = o.winner.name
    BY <1>2 DEF outputNameFor
  <2> QED
    BY <2>1, <2>2 DEF Names
<1>3. CASE o.winner.source = "carve"
  <2> DEFINE s == <<"carved", bucketOf(o.winner), o.ordinal>>
  <2>1. outputNameFor(o) = [stem |-> s, suffix |-> <<>>]
    BY <1>3 DEF outputNameFor
  <2>2. <<>> \in Seq(Nat)
    OBVIOUS
  <2> HIDE DEF s
  <2> QED
    BY <2>1, <2>2 DEF Names
<1> QED
  BY <1>1, <1>2, <1>3

StemsOf(order) == {outputNameFor(order[i]).stem : i \in 1..Len(order)}

(* The naming is the loop it is written as, and what it claims stays claimed. *)
LEMMA UsedIs ==
  ASSUME NEW order \in Seq(Ordereds)
  PROVE  /\ UsedBy(order)[0] = {}
         /\ \A k \in 1..Len(order) :
              UsedBy(order)[k] =
                IF Nameable(order[k])
                THEN UsedBy(order)[k - 1]
                       \cup {disambiguate(outputNameFor(order[k]), UsedBy(order)[k - 1])}
                ELSE UsedBy(order)[k - 1]
         /\ \A k \in 1..Len(order) :
              LET name == disambiguate(outputNameFor(order[k]), UsedBy(order)[k - 1])
              IN name \in Names(StemsOf(order)) /\ name.stem = outputNameFor(order[k]).stem
<1> DEFINE N == Len(order)
           V == SUBSET Names(StemsOf(order))
           new(v, k) == disambiguate(outputNameFor(order[k]), v)
           once(v, k) == IF Nameable(order[k]) THEN v \cup {new(v, k)} ELSE v
           step == [k \in 1..N |-> [v \in V |-> once(v, k)]]
           none == {}
           Is(f) == f = [k \in 0..N |-> IF k = 0 THEN none ELSE once(f[k - 1], k)]
<1>1. N \in Nat /\ none \in V
  OBVIOUS
<1>2. ASSUME NEW k \in 1..N, NEW v
      PROVE  new(v, k) \in Names(StemsOf(order)) /\ new(v, k).stem = outputNameFor(order[k]).stem
  <2>1. order[k] \in Ordereds
    OBVIOUS
  <2>2. outputNameFor(order[k]) \in Names(StemsOf(order))
    <3>1. outputNameFor(order[k]) \in Names({outputNameFor(order[k]).stem})
      BY <2>1, ProposedIs
    <3>2. outputNameFor(order[k]).stem \in StemsOf(order)
      BY DEF StemsOf
    <3> QED
      BY <3>1, <3>2 DEF Names
  <2> QED
    BY <2>2, DisambiguateIs
<1> HIDE DEF new
<1>3. step \in [1..N -> [V -> V]]
  <2>1. ASSUME NEW k \in 1..N, NEW v \in V PROVE once(v, k) \in V
    BY <1>2
  <2> HIDE DEF once, V
  <2> QED
    BY <2>1
<1> HIDE DEF once, V
<1>4. PICK f \in [0..N -> V] : f[0] = none /\ \A k \in 1..N : f[k] = step[k][f[k - 1]]
  <2> HIDE DEF step, N, none
  <2> QED
    BY <1>1, <1>3, RecursionExists
<1>5. \A k \in 1..N : k - 1 \in 0..N /\ k \in 0..N /\ k # 0
  BY <1>1
<1>6. \A k \in 1..N : f[k] = once(f[k - 1], k)
  BY <1>4, <1>5
<1>7. \A k \in 0..N : k = 0 \/ k \in 1..N
  BY <1>1
<1>8. Is(f)
  BY <1>4, <1>6, <1>7
<1> DEFINE W == UsedBy(order)
<1>9. W = CHOOSE g : Is(g)
  BY DEF UsedBy, once, new
<1>10. Is(W)
  <2> HIDE DEF Is, W
  <2> QED
    BY <1>8, <1>9
<1> HIDE DEF W
<1>11. W[0] = {} /\ \A k \in 1..N : W[k] = once(W[k - 1], k)
  <2>1. 0 \in 0..N
    BY <1>1
  <2> QED
    BY <1>5, <1>10, <2>1
<1>12. \A k \in 1..N : new(W[k - 1], k) \in Names(StemsOf(order))
                       /\ new(W[k - 1], k).stem = outputNameFor(order[k]).stem
  BY <1>2
<1> QED
  BY <1>11, <1>12 DEF W, once, new

(***************************************************************************)
(* The steps of a delivery.  Whatever the outcome, a winner's turn appends *)
(* one record, claims one name and touches one path.                       *)
(***************************************************************************)

PathOf(o) == sanitizeOutputPath(claimedName(o))

(* What a turn does to the destination. *)
Touches(o, r) ==
  /\ IF Nameable(o) /\ PathOf(o) # Refused
     THEN /\ DOMAIN files' \subseteq DOMAIN files \cup {PathOf(o)}
          /\ \A p \in DOMAIN files \ {PathOf(o)} : p \in DOMAIN files' /\ files'[p] = files[p]
     ELSE files' = files /\ r.outcome \notin {"written", "deduplicated"}
  /\ r.outcome = "written" =>
       r.path = PathOf(o) /\ PathOf(o) \in DOMAIN files' /\ files'[PathOf(o)] = r.content
  /\ r.outcome = "deduplicated" /\ ~unremoved' => PathOf(o) \notin DOMAIN files'
  /\ ~unremoved' => ~unremoved

Turn(o, r) ==
  /\ delivery # "none" /\ todo # <<>> /\ o = Head(todo)
  /\ delivery = "extract" => stoppedBy = None
  /\ artifacts' = Append(artifacts, r) /\ todo' = Tail(todo)
  /\ delivery' = delivery /\ foretold' = foretold
  /\ DOMAIN r = Fields /\ r.winner = o.winner
  /\ r.outcome \in {"written", "deduplicated", "failed", "previewed"}
  /\ used' = IF Nameable(o) THEN used \cup {claimedName(o)} ELSE used
  /\ r.outcome = "written" \/ (delivery = "preview" /\ Nameable(o)) =>
       Nameable(o) /\ r.name = claimedName(o)
  /\ delivery = "preview" => stoppedBy' = stoppedBy
  /\ delivery = "extract" /\ stoppedBy' # None => r.outcome = "failed"
  /\ r.lost \subseteq SourceBytes(o.winner) /\ OnDevice(r.lost) \subseteq damage'
  /\ damage \subseteq damage'
  /\ written' = (IF r.outcome = "written" THEN written \cup {r.content} ELSE written)
  /\ r.outcome = "deduplicated" => r.content \in written
  /\ Touches(o, r)

LEMMA RecordIs ==
  ASSUME NEW c, NEW outcome
  PROVE  /\ DOMAIN recordFor(c, outcome) = Fields
         /\ recordFor(c, outcome).winner = c /\ recordFor(c, outcome).outcome = outcome
         /\ recordFor(c, outcome).lost = {} /\ recordFor(c, outcome).content = <<>>
BY DEF recordFor, Fields

(* Leaving or erasing a file touches its path only. *)
LEMMA LeavesIs ==
  ASSUME NEW path, NEW content, Leaves(path, content)
  PROVE  /\ DOMAIN files' = DOMAIN files \cup {path} /\ files'[path] = content
         /\ \A p \in DOMAIN files \ {path} : files'[p] = files[p]
BY DEF Leaves

LEMMA ErasesIs ==
  ASSUME NEW path, Erases(path)
  PROVE  /\ DOMAIN files' = DOMAIN files \ {path}
         /\ \A p \in DOMAIN files \ {path} : files'[p] = files[p]
BY DEF Erases

(* A turn that fails: the file it leaves, if any, is at its own path. *)
LEMMA FailedTurn ==
  ASSUME NEW o, o = Head(todo), Extracting, NEW code, writeFailed(o, code),
         used' = IF Nameable(o) THEN used \cup {claimedName(o)} ELSE used,
         damage \subseteq damage',
         \/ files' = files
         \/ Nameable(o) /\ PathOf(o) # Refused /\ \E x : Leaves(PathOf(o), x)
  PROVE  Turn(o, recordFor(o.winner, "failed"))
<1> DEFINE r == recordFor(o.winner, "failed")
<1>1. /\ DOMAIN r = Fields /\ r.winner = o.winner /\ r.outcome = "failed" /\ r.lost = {}
  BY RecordIs
<1>2. artifacts' = Append(artifacts, r) /\ todo' = Tail(todo)
      /\ delivery' = delivery /\ foretold' = foretold /\ written' = written /\ unremoved' = unremoved
  BY DEF writeFailed
<1>3. OnDevice(r.lost) = {}
  BY <1>1 DEF OnDevice
<1>4. delivery = "extract" /\ todo # <<>> /\ stoppedBy = None
  BY DEF Extracting
<1> HIDE DEF r
<1>5. Touches(o, r)
  <2>1. CASE files' = files
    BY <1>1, <1>2, <2>1 DEF Touches
  <2>2. ASSUME Nameable(o), PathOf(o) # Refused, NEW x, Leaves(PathOf(o), x) PROVE Touches(o, r)
    <3>1. DOMAIN files' = DOMAIN files \cup {PathOf(o)}
          /\ \A p \in DOMAIN files \ {PathOf(o)} : files'[p] = files[p]
      BY <2>2, LeavesIs
    <3> QED
      BY <1>1, <1>2, <2>2, <3>1 DEF Touches
  <2> QED
    BY <2>1, <2>2
<1>6. Turn(o, r)
  BY <1>1, <1>2, <1>3, <1>4, <1>5 DEF Turn
<1> QED
  BY <1>6 DEF r

LEMMA WrittenTurn ==
  ASSUME NEW o, o = Head(todo), Extracting, NEW lost, lost \subseteq SourceBytes(o.winner),
         Copied(o, lost), keep(o, lost) \/ dropIfDuplicate(o, lost),
         delivery' = delivery, stoppedBy' = stoppedBy, foretold' = foretold
  PROVE  \E r : Turn(o, r)
<1> DEFINE content == contentOf(o.winner, lost)
           path == PathOf(o)
<1>1. delivery = "extract" /\ todo # <<>> /\ stoppedBy = None
  BY DEF Extracting
<1>2. /\ Nameable(o) /\ path # Refused /\ used' = used \cup {claimedName(o)}
      /\ damage' = damage \cup OnDevice(lost) /\ todo' = Tail(todo)
  BY DEF Copied, Claimed, OnDevice, PathOf
<1> HIDE DEF content, path
<1>3. CASE keep(o, lost)
  <2> DEFINE r == [recordFor(o.winner, "written") EXCEPT
                     !.path = path, !.name = claimedName(o), !.content = content, !.lost = lost]
  <2>1. /\ written' = written \cup {content} /\ Leaves(path, content)
        /\ artifacts' = Append(artifacts, r) /\ unremoved' = unremoved
    BY <1>3 DEF keep, content, path, PathOf
  <2>2. /\ DOMAIN r = Fields /\ r.winner = o.winner /\ r.outcome = "written"
        /\ r.path = path /\ r.name = claimedName(o) /\ r.content = content /\ r.lost = lost
    BY DEF recordFor, Fields
  <2> HIDE DEF r
  <2>3. /\ DOMAIN files' = DOMAIN files \cup {path} /\ files'[path] = content
        /\ \A p \in DOMAIN files \ {path} : files'[p] = files[p]
    BY <2>1, LeavesIs
  <2>4. Touches(o, r)
    BY <1>2, <2>1, <2>2, <2>3 DEF Touches, path
  <2>5. Turn(o, r)
    BY <1>1, <1>2, <2>1, <2>2, <2>4 DEF Turn
  <2> QED
    BY <2>5
<1>4. CASE dropIfDuplicate(o, lost)
  <2> DEFINE r == [recordFor(o.winner, "deduplicated") EXCEPT !.content = content]
  <2>1. /\ content \in written /\ written' = written /\ artifacts' = Append(artifacts, r)
        /\ \/ Erases(path) /\ unremoved' = unremoved
           \/ Leaves(path, content) /\ unremoved' = TRUE
    BY <1>4 DEF dropIfDuplicate, isDuplicate, content, path, PathOf
  <2>2. /\ DOMAIN r = Fields /\ r.winner = o.winner /\ r.outcome = "deduplicated"
        /\ r.content = content /\ r.lost = {}
    BY DEF recordFor, Fields
  <2> HIDE DEF r
  <2>3. OnDevice(r.lost) = {}
    BY <2>2 DEF OnDevice
  <2>4. Touches(o, r)
    <3>1. CASE Erases(path) /\ unremoved' = unremoved
      <4>1. /\ DOMAIN files' = DOMAIN files \ {path}
            /\ \A p \in DOMAIN files \ {path} : files'[p] = files[p]
        BY <3>1, ErasesIs
      <4> QED
        BY <1>2, <2>2, <3>1, <4>1 DEF Touches, path
    <3>2. CASE Leaves(path, content) /\ unremoved' = TRUE
      <4>1. /\ DOMAIN files' = DOMAIN files \cup {path}
            /\ \A p \in DOMAIN files \ {path} : files'[p] = files[p]
        BY <3>2, LeavesIs
      <4> QED
        BY <1>2, <2>2, <3>2, <4>1 DEF Touches, path
    <3> QED
      BY <2>1, <3>1, <3>2
  <2>5. Turn(o, r)
    BY <1>1, <1>2, <2>1, <2>2, <2>3, <2>4 DEF Turn
  <2> QED
    BY <2>5
<1> QED
  BY <1>3, <1>4

LEMMA PreviewTurn ==
  ASSUME previewOne
  PROVE  \E r : Turn(Head(todo), r)
<1> DEFINE o == Head(todo)
           good == [recordFor(o.winner, "previewed") EXCEPT !.name = claimedName(o)]
           bad == recordFor(o.winner, "failed")
           r == IF Nameable(o) THEN good ELSE bad
<1>1. /\ delivery = "preview" /\ todo # <<>> /\ artifacts' = Append(artifacts, r)
      /\ used' = (IF Nameable(o) THEN used \cup {claimedName(o)} ELSE used)
      /\ todo' = Tail(todo) /\ delivery' = delivery /\ written' = written
      /\ stoppedBy' = stoppedBy /\ files' = files /\ damage' = damage
      /\ foretold' = foretold /\ unremoved' = unremoved
  BY DEF previewOne
<1>2. /\ DOMAIN good = Fields /\ good.winner = o.winner /\ good.outcome = "previewed"
      /\ good.name = claimedName(o) /\ good.lost = {}
  BY DEF recordFor, Fields
<1>3. DOMAIN bad = Fields /\ bad.winner = o.winner /\ bad.outcome = "failed" /\ bad.lost = {}
  BY RecordIs
<1> HIDE DEF good, bad
<1>4. /\ DOMAIN r = Fields /\ r.winner = o.winner /\ r.outcome \in {"failed", "previewed"}
      /\ Nameable(o) => r.name = claimedName(o)
      /\ r.lost = {}
  BY <1>2, <1>3
<1> HIDE DEF r, o
<1>5. OnDevice(r.lost) = {}
  BY <1>4 DEF OnDevice
<1>6. Touches(o, r)
  <2>1. r.outcome # "written" /\ r.outcome # "deduplicated"
    BY <1>4
  <2> QED
    BY <1>1, <2>1 DEF Touches
<1>7. Turn(o, r)
  BY <1>1, <1>4, <1>5, <1>6 DEF Turn, o
<1> QED
  BY <1>7 DEF o

(* Every step of a delivery is a turn or one of the four others. *)
LEMMA StepIs ==
  ASSUME SinkStep
  PROVE  \/ \E r : Turn(Head(todo), r)
         \/ recordNotAttempted \/ marked \/ killed
<1> DEFINE o == Head(todo)
<1>1. CASE unsafeName
  <2>1. /\ Extracting /\ writeFailed(o, "kInvalidArgument") /\ files' = files /\ damage' = damage
        /\ used' = IF Nameable(o) THEN used \cup {claimedName(o)} ELSE used
    BY <1>1 DEF unsafeName
  <2> QED
    BY <2>1, FailedTurn
<1>2. ASSUME Claimed(o), NEW code, writeFailed(o, code), damage \subseteq damage',
             files' = files \/ \E x : Leaves(sanitizeOutputPath(claimedName(o)), x)
      PROVE  \E r : Turn(o, r)
  <2>1. Extracting /\ Nameable(o) /\ PathOf(o) # Refused
        /\ used' = IF Nameable(o) THEN used \cup {claimedName(o)} ELSE used
    BY <1>2 DEF Claimed, PathOf
  <2>2. files' = files \/ \E x : Leaves(PathOf(o), x)
    BY <1>2 DEF PathOf
  <2> HIDE DEF o
  <2>3. o = Head(todo)
    BY DEF o
  <2> QED
    BY <1>2, <2>1, <2>2, <2>3, FailedTurn
<1>3. CASE openFails
  <2>1. Claimed(o) /\ files' = files /\ damage' = damage /\ \E code : writeFailed(o, code)
    BY <1>3 DEF openFails
  <2> QED
    BY <1>2, <2>1
<1>4. CASE shortRead
  <2>1. Claimed(o) /\ writeFailed(o, "kOutOfRange") /\ damage \subseteq damage'
        /\ Leaves(sanitizeOutputPath(claimedName(o)), Partial)
    BY <1>4 DEF shortRead
  <2> QED
    BY <1>2, <2>1
<1>5. CASE sourceLost
  <2>1. Claimed(o) /\ (\E code : writeFailed(o, code)) /\ damage \subseteq damage'
        /\ Leaves(sanitizeOutputPath(claimedName(o)), Partial)
    BY <1>5 DEF sourceLost
  <2> QED
    BY <1>2, <2>1
<1>6. CASE flushFails
  <2>1. Claimed(o) /\ (\E code : writeFailed(o, code)) /\ damage \subseteq damage'
        /\ Leaves(sanitizeOutputPath(claimedName(o)), Partial)
    BY <1>6 DEF flushFails
  <2> QED
    BY <1>2, <2>1
<1>7. CASE writeOne
  <2>1. Extracting /\ delivery' = delivery /\ stoppedBy' = stoppedBy /\ foretold' = foretold
    BY <1>7 DEF writeOne
  <2>2. PICK lost \in SUBSET (SourceBytes(o.winner) \cap Unreadable) :
          Copied(o, lost) /\ (keep(o, lost) \/ dropIfDuplicate(o, lost))
    BY <1>7 DEF writeOne
  <2>3. lost \subseteq SourceBytes(o.winner)
    OBVIOUS
  <2> HIDE DEF o
  <2>4. o = Head(todo)
    BY DEF o
  <2> QED
    BY <2>1, <2>2, <2>3, <2>4, WrittenTurn
<1> QED
  BY <1>1, <1>3, <1>4, <1>5, <1>6, <1>7, PreviewTurn DEF SinkStep

(***************************************************************************)
(* The step cases, and the records.                                        *)
(***************************************************************************)

DecisionInv == decided \in Seq(Candidates)

LEMMA DecisionStep ==
  ASSUME ArbitrationTypes, DecisionInv, [Next]_vars
  PROVE  DecisionInv'
<1>1. CASE inDeviceOrder
  <2>1. PICK s \in SetToSeqs(winners) : decided' = s
    BY <1>1 DEF inDeviceOrder
  <2>2. s \in [1..Cardinality(winners) -> winners]
    BY DEF SetToSeqs
  <2>3. winners \subseteq Candidates /\ IsFiniteSet(winners) /\ Cardinality(winners) \in Nat
    <3>1. winners \subseteq Candidates
      BY DEF ArbitrationTypes
    <3> QED
      BY <3>1, ArbitrationAssumption, FS_Subset, FS_CardinalityType
  <2>4. s \in Seq(Candidates)
    BY <2>2, <2>3
  <2> QED
    BY <2>1, <2>4 DEF DecisionInv
<1>2. CASE decided' = decided
  BY <1>2 DEF DecisionInv
<1>3. inDeviceOrder \/ decided' = decided
  <2>1. ArbitrationNext \/ UNCHANGED arbitrationVars
    BY DEF Next, vars
  <2> QED
    BY <2>1 DEF ArbitrationNext, account, addRegion, carveGaps, accept, suppress, claimAll,
                arbitrationVars, arbitrateVars
<1> QED
  BY <1>1, <1>2, <1>3

LEMMA SameOrder ==
  ASSUME decided' = decided
  PROVE  /\ Order' = Order /\ UsedBy(Order)' = UsedBy(Order) /\ Placed' = Placed
         /\ \A i : NameAt(i)' = NameAt(i) /\ PathAt(i)' = PathAt(i)
<1>1. Order' = Order
  BY DEF Order
<1>2. UsedBy(Order)' = UsedBy(Order)
  BY <1>1
<1>3. \A i : NameAt(i)' = NameAt(i)
  BY <1>1, <1>2 DEF NameAt
<1>4. \A i : PathAt(i)' = PathAt(i)
  BY <1>3 DEF PathAt
<1>5. Placed' = Placed
  BY <1>1, <1>4 DEF Placed
<1> QED
  BY <1>1, <1>2, <1>3, <1>4, <1>5

(* Nothing is delivered before the decision, and the decision stands. *)
Idle == UNCHANGED sinkVars /\ ((decided' = decided /\ phase' = phase) \/ phase # "decided")

Stays == decided' = decided /\ phase' = phase

LEMMA Cases ==
  ASSUME [Next]_vars
  PROVE  \/ Idle
         \/ Stays /\ \/ deliver
                     \/ \E r : Turn(Head(todo), r)
                     \/ recordNotAttempted \/ marked \/ killed
<1>1. CASE ArbitrationNext /\ UNCHANGED sinkVars
  <2>1. phase # "decided"
    BY <1>1 DEF ArbitrationNext, account, addRegion, carveGaps, accept, suppress, Offered,
                claimAll, inDeviceOrder
  <2> QED
    BY <1>1, <2>1 DEF Idle
<1>2. CASE (deliver \/ SinkStep) /\ UNCHANGED arbitrationVars
  <2>1. Stays
    BY <1>2 DEF Stays, arbitrationVars, arbitrateVars
  <2> QED
    BY <1>2, <2>1, StepIs
<1>3. CASE UNCHANGED vars
  BY <1>3 DEF vars, Idle, arbitrationVars, arbitrateVars
<1> QED
  BY <1>1, <1>2, <1>3 DEF Next

LEMMA EmptyIs == IsSeq(<<>>) /\ Len(<<>>) = 0 /\ DOMAIN <<>> = {}
<1>1. <<>> \in Seq({}) /\ Len(<<>>) = 0 /\ DOMAIN <<>> = {}
  OBVIOUS
<1>2. ASSUME NEW s, s = <<>> PROVE IsSeq(s)
  <2>1. s \in Seq({})
    BY <1>1, <1>2
  <2> QED
    BY <2>1, IsSeqOf
<1> QED
  BY <1>1, <1>2

LEMMA DecidedOrder ==
  ASSUME DecisionInv
  PROVE  /\ Order \in Seq(Ordereds) /\ IsSeq(Order) /\ Len(Order) = Len(decided)
         /\ Len(Order) \in Nat /\ DOMAIN Order = 1..Len(Order)
<1>1. Order \in Seq(Ordereds) /\ Len(Order) = Len(decided)
  BY OrderIs DEF DecisionInv, Order
<1>2. IsSeq(Order)
  BY <1>1, IsSeqOf
<1> QED
  BY <1>1, <1>2, SeqIs

(* The parts of the invariant that tie records and rest to the order. *)
CutInTwo ==
  /\ Len(artifacts) + Len(todo) = Len(Order)
  /\ \A i \in DOMAIN artifacts : artifacts[i].winner = Order[i].winner
  /\ \A i \in DOMAIN todo : todo[i] = Order[Len(artifacts) + i]

(* What a turn finds: the next of the order, and where its record goes. *)
LEMMA TurnFinds ==
  ASSUME RecordsInv, DecisionInv, NEW r, Turn(Head(todo), r)
  PROVE  /\ phase = "decided" /\ CutInTwo
         /\ Len(artifacts) \in Nat /\ DOMAIN artifacts = 1..Len(artifacts)
         /\ IsSeq(artifacts') /\ Len(artifacts') = Len(artifacts) + 1
         /\ DOMAIN artifacts' = 1..(Len(artifacts) + 1)
         /\ \A i \in DOMAIN artifacts : artifacts'[i] = artifacts[i]
         /\ artifacts'[Len(artifacts) + 1] = r
         /\ Len(artifacts) + 1 \in DOMAIN Order
         /\ Head(todo) = Order[Len(artifacts) + 1]
<1>1. IsSeq(artifacts) /\ IsSeq(todo) /\ todo # <<>> /\ delivery # "none"
      /\ artifacts' = Append(artifacts, r)
  BY DEF RecordsInv, Turn
<1>2. phase = "decided" /\ CutInTwo
  BY <1>1 DEF RecordsInv, CutInTwo
<1>3. Len(artifacts) \in Nat /\ DOMAIN artifacts = 1..Len(artifacts)
      /\ Len(todo) \in Nat /\ Len(todo) # 0
  BY <1>1, SeqIs
<1>4. /\ IsSeq(artifacts') /\ Len(artifacts') = Len(artifacts) + 1
      /\ DOMAIN artifacts' = 1..(Len(artifacts) + 1)
      /\ \A i \in DOMAIN artifacts : artifacts'[i] = artifacts[i]
      /\ artifacts'[Len(artifacts) + 1] = r
  BY <1>1, AppendIs
<1>5. Head(todo) = todo[1] /\ 1 \in DOMAIN todo
  BY <1>1, TailIs
<1>6. Len(artifacts) + 1 \in DOMAIN Order
  <2>1. Len(Order) \in Nat /\ DOMAIN Order = 1..Len(Order)
    BY DecidedOrder
  <2>2. Len(artifacts) + Len(todo) = Len(Order)
    BY <1>2 DEF CutInTwo
  <2> QED
    BY <1>3, <2>1, <2>2
<1>7. Head(todo) = Order[Len(artifacts) + 1]
  BY <1>2, <1>5 DEF CutInTwo
<1> QED
  BY <1>2, <1>3, <1>4, <1>6, <1>7

(* What a stop appends: a record for everything still to do. *)
LEMMA RestIs ==
  ASSUME RecordsInv, DecisionInv, recordNotAttempted
  PROVE  /\ phase = "decided" /\ delivery # "none" /\ CutInTwo
         /\ Len(artifacts) \in Nat /\ DOMAIN artifacts = 1..Len(artifacts)
         /\ IsSeq(artifacts') /\ Len(artifacts') = Len(Order) /\ DOMAIN artifacts' = 1..Len(Order)
         /\ Len(artifacts) < Len(Order)
         /\ \A i \in DOMAIN artifacts : i \in 1..Len(Order) /\ artifacts'[i] = artifacts[i]
         /\ \A i \in DOMAIN artifacts' : i \notin DOMAIN artifacts =>
              artifacts'[i] = recordFor(Order[i].winner, "notAttempted")
<1> DEFINE rest == [i \in DOMAIN todo |-> recordFor(todo[i].winner, "notAttempted")]
<1>1. IsSeq(artifacts) /\ IsSeq(todo) /\ todo # <<>> /\ artifacts' = artifacts \o rest
  BY DEF RecordsInv, recordNotAttempted
<1>2. delivery # "none" /\ phase = "decided" /\ CutInTwo
  BY <1>1 DEF RecordsInv, CutInTwo
<1>3. Len(artifacts) \in Nat /\ DOMAIN artifacts = 1..Len(artifacts)
      /\ Len(todo) \in Nat /\ DOMAIN todo = 1..Len(todo) /\ Len(todo) # 0
  BY <1>1, SeqIs
<1>4. IsSeq(rest) /\ Len(rest) = Len(todo)
  <2>1. rest = [i \in 1..Len(todo) |-> rest[i]]
    BY <1>3
  <2> HIDE DEF rest
  <2> QED
    BY <1>3, <2>1, MapIs
<1>5. \A i \in 1..Len(todo) : rest[i] = recordFor(Order[Len(artifacts) + i].winner, "notAttempted")
  BY <1>2, <1>3 DEF CutInTwo
<1> HIDE DEF rest
<1>6. /\ IsSeq(artifacts') /\ Len(artifacts') = Len(artifacts) + Len(rest)
      /\ DOMAIN artifacts' = 1..(Len(artifacts) + Len(rest))
      /\ \A i \in 1..Len(artifacts) : artifacts'[i] = artifacts[i]
      /\ \A i \in 1..Len(rest) : artifacts'[Len(artifacts) + i] = rest[i]
  <2>1. PICK R : artifacts \in Seq(R) /\ rest \in Seq(R)
    BY <1>1, <1>4, CommonRange
  <2> DEFINE u == artifacts \o rest
  <2>2. u \in Seq(R) /\ Len(u) = Len(artifacts) + Len(rest)
    BY <2>1
  <2>3. DOMAIN u = 1..(Len(artifacts) + Len(rest)) /\ \A i \in 1..Len(artifacts) : u[i] = artifacts[i]
    BY <2>1
  <2>4. ASSUME NEW i \in 1..Len(rest) PROVE u[Len(artifacts) + i] = rest[i]
    <3>1. /\ Len(artifacts) + i \in 1..(Len(artifacts) + Len(rest))
          /\ Len(artifacts) + i > Len(artifacts) /\ (Len(artifacts) + i) - Len(artifacts) = i
      BY <1>3, <1>4
    <3> QED
      BY <2>1, <3>1
  <2>5. artifacts' = u
    BY <1>1
  <2> HIDE DEF u
  <2>6. IsSeq(u)
    BY <2>2, IsSeqOf
  <2> QED
    BY <2>2, <2>3, <2>4, <2>5, <2>6
<1>7. Len(artifacts) + Len(rest) = Len(Order) /\ Len(Order) \in Nat
  BY <1>2, <1>4, DecidedOrder DEF CutInTwo
<1>8. ASSUME NEW i \in DOMAIN artifacts', i \notin DOMAIN artifacts
      PROVE  artifacts'[i] = recordFor(Order[i].winner, "notAttempted")
  <2> DEFINE j == i - Len(artifacts)
  <2>1. i \in Nat /\ j \in 1..Len(todo) /\ Len(artifacts) + j = i
    BY <1>3, <1>4, <1>6, <1>7, <1>8
  <2>2. artifacts'[Len(artifacts) + j] = rest[j]
        /\ rest[j] = recordFor(Order[Len(artifacts) + j].winner, "notAttempted")
    BY <1>4, <1>5, <1>6, <2>1
  <2> QED
    BY <2>1, <2>2
<1>9. Len(artifacts) < Len(Order) /\ \A i \in DOMAIN artifacts : i \in 1..Len(Order)
  BY <1>3, <1>4, <1>7
<1>10. Len(artifacts') = Len(Order) /\ DOMAIN artifacts' = 1..Len(Order)
  BY <1>6, <1>7
<1> QED
  BY <1>2, <1>3, <1>6, <1>8, <1>9, <1>10

(* Marking changes one field. *)
LEMMA MarkedIs ==
  ASSUME RecordsInv, marked
  PROVE  /\ IsSeq(artifacts') /\ Len(artifacts') = Len(artifacts)
         /\ DOMAIN artifacts' = DOMAIN artifacts
         /\ \A i \in DOMAIN artifacts :
              /\ DOMAIN artifacts'[i] = Fields
              /\ artifacts'[i].winner = artifacts[i].winner
              /\ artifacts'[i].outcome = artifacts[i].outcome
              /\ artifacts'[i].name = artifacts[i].name
              /\ artifacts'[i].path = artifacts[i].path
              /\ artifacts'[i].content = artifacts[i].content
              /\ artifacts'[i].lost = artifacts[i].lost
              /\ artifacts'[i].invented = inventedIn(artifacts[i].winner)
         /\ delivery # "none" /\ delivery' = "none" /\ todo = <<>> /\ todo' = <<>>
<1> DEFINE m(i) == [artifacts[i] EXCEPT !.invented = inventedIn(artifacts[i].winner)]
<1>1. artifacts' = [i \in DOMAIN artifacts |-> m(i)]
      /\ delivery # "none" /\ delivery' = "none" /\ todo = <<>> /\ todo' = todo
  BY DEF marked
<1>2. ASSUME NEW i \in DOMAIN artifacts
      PROVE  /\ DOMAIN m(i) = Fields
             /\ m(i).winner = artifacts[i].winner /\ m(i).outcome = artifacts[i].outcome
             /\ m(i).name = artifacts[i].name /\ m(i).path = artifacts[i].path
             /\ m(i).content = artifacts[i].content /\ m(i).lost = artifacts[i].lost
             /\ m(i).invented = inventedIn(artifacts[i].winner)
  <2>1. DOMAIN artifacts[i] = Fields
    BY DEF RecordsInv
  <2> QED
    BY <2>1 DEF Fields
<1> HIDE DEF m
<1>3. IsSeq(artifacts) /\ Len(artifacts) \in Nat /\ DOMAIN artifacts = 1..Len(artifacts)
  BY SeqIs DEF RecordsInv
<1>4. IsSeq(artifacts') /\ Len(artifacts') = Len(artifacts)
  <2>1. artifacts' = [i \in 1..Len(artifacts) |-> artifacts'[i]]
    BY <1>1, <1>3
  <2> QED
    BY <1>3, <2>1, MapIs
<1> QED
  BY <1>1, <1>2, <1>4

LEMMA DeliverIs ==
  ASSUME deliver
  PROVE  /\ phase = "decided" /\ delivery = "none" /\ delivery' \in {"extract", "preview"}
         /\ todo' = Order /\ used' = {} /\ written' = {} /\ artifacts' = <<>>
         /\ stoppedBy' = None /\ unremoved' = FALSE /\ files' = files /\ foretold' = foretold
BY DEF deliver, open, Order

LEMMA KilledIs ==
  ASSUME killed
  PROVE  /\ delivery # "none" /\ delivery' = "none" /\ todo' = <<>> /\ artifacts' = <<>>
         /\ stoppedBy' = None /\ foretold' = foretold
BY DEF killed

(* The records stay the order, cut in two. *)
LEMMA RecordsStep ==
  ASSUME RecordsInv, DecisionInv, [Next]_vars
  PROVE  RecordsInv'
<1>1. CASE Idle
  <2>1. /\ delivery' = delivery /\ artifacts' = artifacts /\ todo' = todo /\ foretold' = foretold
        /\ files' = files
    BY <1>1 DEF Idle, sinkVars
  <2>2. CASE decided' = decided /\ phase' = phase
    <3>1. Order' = Order
      BY <2>2, SameOrder
    <3> QED
      BY <2>1, <2>2, <3>1 DEF RecordsInv
  <2>3. CASE phase # "decided"
    <3>1. delivery = "none" /\ artifacts = <<>> /\ foretold = <<>> /\ DOMAIN files = {}
      BY <2>3 DEF RecordsInv
    <3> QED
      BY <2>1, <3>1 DEF RecordsInv
  <2> QED
    BY <1>1, <2>2, <2>3 DEF Idle
<1>2. CASE Stays /\ deliver
  <2>1. Order' = Order /\ phase' = phase
    BY <1>2, SameOrder DEF Stays
  <2>2. IsSeq(Order) /\ Len(Order) \in Nat
    BY DecidedOrder
  <2>3. DOMAIN artifacts' = {} /\ Len(artifacts') = 0 /\ IsSeq(artifacts')
    BY <1>2, DeliverIs, EmptyIs
  <2>4. IsSeq(foretold)' /\ IsSeq(todo)' /\ todo' = Order /\ delivery' # "none"
        /\ delivery' \in {"none", "extract", "preview"} /\ phase' = "decided"
    BY <1>2, <2>1, <2>2, DeliverIs DEF RecordsInv
  <2>5. Len(artifacts') + Len(todo') = Len(Order')
    BY <2>1, <2>2, <2>3, <2>4
  <2>6. \A i \in DOMAIN todo' : todo'[i] = Order'[Len(artifacts') + i]
    <3>1. DOMAIN Order = 1..Len(Order)
      BY DecidedOrder
    <3>2. \A i \in DOMAIN Order : Len(artifacts') + i = i
      BY <2>2, <2>3, <3>1
    <3> QED
      BY <2>1, <2>4, <3>2
  <2> QED
    BY <2>3, <2>4, <2>5, <2>6 DEF RecordsInv
<1>3. ASSUME Stays, NEW r, Turn(Head(todo), r) PROVE RecordsInv'
  <2>1. Order' = Order /\ phase' = phase
    BY <1>3, SameOrder DEF Stays
  <2> DEFINE n == Len(artifacts)
  <2>2. /\ phase = "decided" /\ CutInTwo /\ n \in Nat /\ DOMAIN artifacts = 1..n
        /\ IsSeq(artifacts') /\ Len(artifacts') = n + 1 /\ DOMAIN artifacts' = 1..(n + 1)
        /\ \A i \in DOMAIN artifacts : artifacts'[i] = artifacts[i]
        /\ artifacts'[n + 1] = r /\ Head(todo) = Order[n + 1]
    BY <1>3, TurnFinds
  <2>3. /\ todo # <<>> /\ todo' = Tail(todo) /\ delivery' = delivery /\ foretold' = foretold
        /\ delivery # "none" /\ DOMAIN r = Fields /\ r.winner = Head(todo).winner
        /\ IsSeq(todo) /\ IsSeq(foretold) /\ delivery \in {"none", "extract", "preview"}
    BY <1>3 DEF Turn, RecordsInv
  <2> HIDE DEF n
  <2>4. /\ IsSeq(todo') /\ Len(todo') = Len(todo) - 1 /\ DOMAIN todo' = 1..(Len(todo) - 1)
        /\ \A i \in 1..(Len(todo) - 1) : todo'[i] = todo[i + 1]
    BY <2>3, TailIs
  <2>5. Len(todo) \in Nat /\ DOMAIN todo = 1..Len(todo) /\ Len(Order) \in Nat
    BY <2>3, SeqIs, DecidedOrder
  <2>6. n + Len(todo) = Len(Order)
        /\ (\A i \in DOMAIN artifacts : artifacts[i].winner = Order[i].winner)
        /\ (\A i \in DOMAIN todo : todo[i] = Order[n + i])
    BY <2>2 DEF CutInTwo, n
  <2>7. \A i \in 1..(n + 1) : i \in DOMAIN artifacts \/ i = n + 1
    BY <2>2
  <2>8. \A i \in DOMAIN artifacts' :
          DOMAIN artifacts'[i] = Fields /\ artifacts'[i].winner = Order[i].winner
    BY <2>2, <2>3, <2>6, <2>7 DEF RecordsInv
  <2>9. Len(artifacts') + Len(todo') = Len(Order)
    BY <2>2, <2>4, <2>5, <2>6
  <2>10. ASSUME NEW i \in DOMAIN todo' PROVE todo'[i] = Order[Len(artifacts') + i]
    <3>1. i \in 1..(Len(todo) - 1) /\ i + 1 \in DOMAIN todo /\ n + (i + 1) = Len(artifacts') + i
      <4>1. i \in 1..(Len(todo) - 1)
        BY <2>4
      <4>2. i + 1 \in DOMAIN todo /\ n + (i + 1) = (n + 1) + i
        BY <2>2, <2>5, <4>1, SMTT(60)
      <4> QED
        BY <2>2, <4>1, <4>2
    <3>2. todo'[i] = todo[i + 1] /\ todo[i + 1] = Order[n + (i + 1)]
      BY <2>4, <2>6, <3>1
    <3> QED
      BY <3>1, <3>2
  <2> QED
    BY <2>1, <2>2, <2>3, <2>4, <2>8, <2>9, <2>10 DEF RecordsInv
<1>4. CASE Stays /\ recordNotAttempted
  <2>1. Order' = Order /\ phase' = phase
    BY <1>4, SameOrder DEF Stays
  <2>2. /\ phase = "decided" /\ delivery # "none" /\ CutInTwo
        /\ IsSeq(artifacts') /\ Len(artifacts') = Len(Order) /\ DOMAIN artifacts' = 1..Len(Order)
        /\ \A i \in DOMAIN artifacts : artifacts'[i] = artifacts[i]
        /\ \A i \in DOMAIN artifacts' : i \notin DOMAIN artifacts =>
             artifacts'[i] = recordFor(Order[i].winner, "notAttempted")
    BY <1>4, RestIs
  <2>3. todo' = <<>> /\ delivery' = delivery /\ foretold' = foretold
    BY <1>4 DEF recordNotAttempted
  <2>4. IsSeq(todo') /\ Len(todo') = 0 /\ DOMAIN todo' = {} /\ Len(Order) \in Nat
    BY <2>3, EmptyIs, DecidedOrder
  <2>5. \A i \in DOMAIN artifacts' :
          DOMAIN artifacts'[i] = Fields /\ artifacts'[i].winner = Order[i].winner
    BY <2>2, RecordIs DEF RecordsInv, CutInTwo
  <2>6. Len(artifacts') + Len(todo') = Len(Order)
    BY <2>2, <2>4
  <2> QED
    BY <2>1, <2>2, <2>3, <2>4, <2>5, <2>6 DEF RecordsInv
<1>5. CASE Stays /\ marked
  <2>1. Order' = Order /\ phase' = phase
    BY <1>5, SameOrder DEF Stays
  <2>2. /\ IsSeq(artifacts') /\ Len(artifacts') = Len(artifacts)
        /\ DOMAIN artifacts' = DOMAIN artifacts
        /\ \A i \in DOMAIN artifacts : /\ DOMAIN artifacts'[i] = Fields
                                       /\ artifacts'[i].winner = artifacts[i].winner
        /\ delivery # "none" /\ delivery' = "none" /\ todo = <<>> /\ todo' = <<>>
    BY <1>5, MarkedIs
  <2>3. foretold' = artifacts \/ foretold' = foretold
    BY <1>5 DEF marked
  <2>4. IsSeq(foretold')
    BY <2>3 DEF RecordsInv
  <2>5. CutInTwo /\ phase = "decided"
    BY <2>2 DEF RecordsInv, CutInTwo
  <2>6. CutInTwo'
    <3>1. todo' = todo /\ DOMAIN todo = {}
      BY <2>2, EmptyIs
    <3> QED
      BY <2>1, <2>2, <2>5, <3>1 DEF CutInTwo
  <2>7. IsSeq(todo')
    BY <2>2, EmptyIs
  <2> QED
    BY <2>1, <2>2, <2>4, <2>5, <2>6, <2>7 DEF RecordsInv, CutInTwo
<1>6. CASE Stays /\ killed
  <2>1. phase' = phase /\ phase = "decided"
    BY <1>6, KilledIs DEF Stays, RecordsInv
  <2>2. IsSeq(artifacts') /\ IsSeq(todo') /\ IsSeq(foretold') /\ DOMAIN artifacts' = {}
        /\ delivery' = "none" /\ artifacts' = <<>> /\ todo' = <<>>
    BY <1>6, KilledIs, EmptyIs DEF RecordsInv
  <2> QED
    BY <2>1, <2>2 DEF RecordsInv
<1> QED
  BY <1>1, <1>2, <1>3, <1>4, <1>5, <1>6, Cases

(***************************************************************************)
(* The names.                                                              *)
(***************************************************************************)

(* The name the next winner would claim is the one the order gives. *)
LEMMA NextClaims ==
  ASSUME RecordsInv, NamesInv, DecisionInv, delivery # "none", todo # <<>>
  PROVE  /\ Len(artifacts) \in Nat /\ Len(artifacts) + 1 \in DOMAIN Order
         /\ Head(todo) = Order[Len(artifacts) + 1]
         /\ claimedName(Head(todo)) = NameAt(Len(artifacts) + 1)
         /\ PathOf(Head(todo)) = PathAt(Len(artifacts) + 1)
<1> DEFINE n == Len(artifacts)
           o == Head(todo)
<1>1. IsSeq(artifacts) /\ IsSeq(todo) /\ CutInTwo /\ used = UsedBy(Order)[n]
  BY DEF RecordsInv, CutInTwo, NamesInv
<1>2. n \in Nat /\ Len(todo) \in Nat /\ Len(todo) # 0 /\ o = todo[1] /\ 1 \in DOMAIN todo
  BY <1>1, SeqIs, TailIs
<1>3. n + Len(todo) = Len(Order) /\ o = Order[n + 1]
  BY <1>1, <1>2 DEF CutInTwo
<1>4. Len(Order) \in Nat /\ DOMAIN Order = 1..Len(Order)
  BY DecidedOrder
<1> HIDE DEF n, o
<1>5. n + 1 \in DOMAIN Order /\ (n + 1) - 1 = n
  BY <1>2, <1>3, <1>4
<1>6. claimedName(o) = NameAt(n + 1)
  BY <1>1, <1>3, <1>5 DEF claimedName, NameAt
<1>7. PathOf(o) = PathAt(n + 1)
  BY <1>6 DEF PathOf, PathAt
<1> QED
  BY <1>2, <1>3, <1>5, <1>6, <1>7 DEF n, o

(* A turn claims it. *)
LEMMA TurnClaims ==
  ASSUME RecordsInv, NamesInv, DecisionInv, NEW r, Turn(Head(todo), r)
  PROVE  /\ claimedName(Head(todo)) = NameAt(Len(artifacts) + 1)
         /\ PathOf(Head(todo)) = PathAt(Len(artifacts) + 1)
         /\ used' = UsedBy(Order)[Len(artifacts) + 1]
<1> DEFINE n == Len(artifacts)
           o == Head(todo)
<1>1. /\ delivery # "none" /\ todo # <<>>
      /\ used' = IF Nameable(o) THEN used \cup {claimedName(o)} ELSE used
  BY DEF Turn
<1>2. /\ n \in Nat /\ n + 1 \in DOMAIN Order /\ o = Order[n + 1]
      /\ claimedName(o) = NameAt(n + 1) /\ PathOf(o) = PathAt(n + 1)
  BY <1>1, NextClaims
<1>3. used = UsedBy(Order)[n]
  BY <1>1 DEF NamesInv
<1> HIDE DEF n, o
<1>4. Order \in Seq(Ordereds) /\ n + 1 \in 1..Len(Order) /\ (n + 1) - 1 = n
  BY <1>2, DecidedOrder
<1>5. UsedBy(Order)[n + 1] =
        IF Nameable(Order[n + 1])
        THEN UsedBy(Order)[n] \cup {disambiguate(outputNameFor(Order[n + 1]), UsedBy(Order)[n])}
        ELSE UsedBy(Order)[n]
  BY <1>4, UsedIs
<1>6. used' = UsedBy(Order)[n + 1]
  BY <1>1, <1>2, <1>3, <1>5 DEF claimedName
<1> QED
  BY <1>2, <1>6 DEF n, o

LEMMA NamesStep ==
  ASSUME RecordsInv, NamesInv, StopInv, DecisionInv, [Next]_vars
  PROVE  NamesInv'
<1>1. CASE Idle
  <2>1. /\ delivery' = delivery /\ artifacts' = artifacts /\ todo' = todo /\ foretold' = foretold
        /\ used' = used
    BY <1>1 DEF Idle, sinkVars
  <2>2. CASE decided' = decided /\ phase' = phase
    BY <2>1, <2>2, SameOrder DEF NamesInv, Outcome
  <2>3. CASE phase # "decided"
    <3>1. delivery = "none" /\ artifacts = <<>> /\ foretold = <<>>
      BY <2>3 DEF RecordsInv
    <3> QED
      BY <2>1, <3>1, EmptyIs DEF NamesInv
  <2> QED
    BY <1>1, <2>2, <2>3 DEF Idle
<1>2. CASE Stays /\ deliver
  <2>1. Order' = Order /\ UsedBy(Order)' = UsedBy(Order) /\ \A i : NameAt(i)' = NameAt(i)
    BY <1>2, SameOrder DEF Stays
  <2>2. DOMAIN artifacts' = {} /\ Len(artifacts') = 0 /\ used' = {} /\ foretold' = foretold
    BY <1>2, DeliverIs, EmptyIs
  <2>3. UsedBy(Order)[0] = {}
    BY DecidedOrder, UsedIs
  <2> QED
    BY <2>1, <2>2, <2>3 DEF NamesInv
<1>3. ASSUME Stays, NEW r, Turn(Head(todo), r) PROVE NamesInv'
  <2>1. Order' = Order /\ UsedBy(Order)' = UsedBy(Order) /\ \A i : NameAt(i)' = NameAt(i)
    BY <1>3, SameOrder DEF Stays
  <2> DEFINE n == Len(artifacts)
             o == Head(todo)
  <2>2. /\ n \in Nat /\ DOMAIN artifacts = 1..n /\ Len(artifacts') = n + 1
        /\ DOMAIN artifacts' = 1..(n + 1)
        /\ \A i \in DOMAIN artifacts : artifacts'[i] = artifacts[i]
        /\ artifacts'[n + 1] = r /\ o = Order[n + 1]
    BY <1>3, TurnFinds
  <2>3. claimedName(o) = NameAt(n + 1) /\ used' = UsedBy(Order)[n + 1]
    BY <1>3, TurnClaims
  <2>4. /\ delivery' = delivery /\ foretold' = foretold
        /\ r.outcome = "written" \/ (delivery = "preview" /\ Nameable(o)) =>
             Nameable(o) /\ r.name = claimedName(o)
    BY <1>3 DEF Turn
  <2> HIDE DEF n, o
  <2>5. ASSUME NEW i \in DOMAIN artifacts'
        PROVE  /\ artifacts'[i].outcome = "written" =>
                    Nameable(Order[i]) /\ artifacts'[i].name = NameAt(i)
               /\ delivery = "preview" /\ Nameable(Order[i]) => artifacts'[i].name = NameAt(i)
    <3>1. CASE i = n + 1
      BY <2>2, <2>3, <2>4, <3>1
    <3>2. CASE i \in DOMAIN artifacts
      BY <2>2, <3>2 DEF NamesInv, Outcome
    <3>3. i = n + 1 \/ i \in DOMAIN artifacts
      BY <2>2
    <3> QED
      BY <3>1, <3>2, <3>3
  <2>6. foretold' # <<>> =>
          /\ Len(foretold') = Len(Order)
          /\ \A i \in DOMAIN foretold' :
               /\ foretold'[i].winner = Order[i].winner
               /\ Nameable(Order[i]) => foretold'[i].name = NameAt(i)
    BY <2>4 DEF NamesInv
  <2>7. used' = UsedBy(Order)[Len(artifacts')]
    BY <2>2, <2>3
  <2> QED
    BY <2>1, <2>4, <2>5, <2>6, <2>7 DEF NamesInv, Outcome
<1>4. CASE Stays /\ recordNotAttempted
  <2>1. Order' = Order /\ UsedBy(Order)' = UsedBy(Order) /\ \A i : NameAt(i)' = NameAt(i)
    BY <1>4, SameOrder DEF Stays
  <2>2. /\ \A i \in DOMAIN artifacts : artifacts'[i] = artifacts[i]
        /\ \A i \in DOMAIN artifacts' : i \notin DOMAIN artifacts =>
             artifacts'[i].outcome = "notAttempted"
    BY <1>4, RestIs, RecordIs
  <2>3. todo' = <<>> /\ delivery' = delivery /\ foretold' = foretold /\ delivery' # "preview"
    BY <1>4 DEF recordNotAttempted, StopInv
  <2>4. \A i \in DOMAIN artifacts' : artifacts'[i].outcome = "written" =>
          Nameable(Order[i]) /\ artifacts'[i].name = NameAt(i)
    BY <2>2 DEF NamesInv, Outcome
  <2> QED
    BY <2>1, <2>3, <2>4 DEF NamesInv, Outcome
<1>5. CASE Stays /\ marked
  <2>1. Order' = Order /\ UsedBy(Order)' = UsedBy(Order) /\ \A i : NameAt(i)' = NameAt(i)
    BY <1>5, SameOrder DEF Stays
  <2>2. /\ DOMAIN artifacts' = DOMAIN artifacts
        /\ \A i \in DOMAIN artifacts : /\ artifacts'[i].outcome = artifacts[i].outcome
                                       /\ artifacts'[i].name = artifacts[i].name
        /\ delivery # "none" /\ delivery' = "none" /\ todo = <<>>
    BY <1>5, MarkedIs
  <2>3. foretold' = IF delivery = "preview" THEN artifacts ELSE foretold
    BY <1>5 DEF marked
  <2>4. \A i \in DOMAIN artifacts' : artifacts'[i].outcome = "written" =>
          Nameable(Order[i]) /\ artifacts'[i].name = NameAt(i)
    BY <2>2 DEF NamesInv, Outcome
  <2>5. Len(artifacts) = Len(Order) /\ \A i \in DOMAIN artifacts : artifacts[i].winner = Order[i].winner
    <3>1. Len(artifacts) + Len(todo) = Len(Order) /\ Len(todo) = 0 /\ Len(artifacts) \in Nat
      BY <2>2, EmptyIs, SeqIs DEF RecordsInv
    <3> QED
      BY <2>2, <3>1 DEF RecordsInv
  <2>6. foretold' # <<>> =>
          /\ Len(foretold') = Len(Order)
          /\ \A i \in DOMAIN foretold' :
               /\ foretold'[i].winner = Order[i].winner
               /\ Nameable(Order[i]) => foretold'[i].name = NameAt(i)
    <3>1. CASE delivery = "preview"
      BY <2>3, <2>5, <3>1 DEF NamesInv
    <3>2. CASE delivery # "preview"
      BY <2>3, <3>2 DEF NamesInv
    <3> QED
      BY <3>1, <3>2
  <2> QED
    BY <2>1, <2>2, <2>4, <2>6 DEF NamesInv, Outcome
<1>6. CASE Stays /\ killed
  <2>1. Order' = Order /\ UsedBy(Order)' = UsedBy(Order) /\ \A i : NameAt(i)' = NameAt(i)
    BY <1>6, SameOrder DEF Stays
  <2>2. DOMAIN artifacts' = {} /\ delivery' = "none" /\ foretold' = foretold
    BY <1>6, KilledIs, EmptyIs
  <2> QED
    BY <2>1, <2>2 DEF NamesInv
<1> QED
  BY <1>1, <1>2, <1>3, <1>4, <1>5, <1>6, Cases

(***************************************************************************)
(* A stop.                                                                 *)
(***************************************************************************)

LEMMA StopStep ==
  ASSUME RecordsInv, StopInv, DecisionInv, [Next]_vars
  PROVE  StopInv'
<1>1. CASE Idle
  <2>1. delivery' = delivery /\ artifacts' = artifacts /\ todo' = todo /\ stoppedBy' = stoppedBy
    BY <1>1 DEF Idle, sinkVars
  <2> QED
    BY <2>1 DEF StopInv, Outcome
<1>2. CASE Stays /\ deliver
  <2>1. DOMAIN artifacts' = {} /\ stoppedBy' = None
    BY <1>2, DeliverIs, EmptyIs
  <2> QED
    BY <2>1 DEF StopInv
<1>3. ASSUME Stays, NEW r, Turn(Head(todo), r) PROVE StopInv'
  <2> DEFINE n == Len(artifacts)
  <2>1. /\ n \in Nat /\ DOMAIN artifacts = 1..n /\ DOMAIN artifacts' = 1..(n + 1)
        /\ \A i \in DOMAIN artifacts : artifacts'[i] = artifacts[i]
        /\ artifacts'[n + 1] = r
    BY <1>3, TurnFinds
  <2>2. /\ delivery' = delivery /\ delivery # "none"
        /\ delivery = "extract" => stoppedBy = None
        /\ delivery = "preview" => stoppedBy' = stoppedBy
        /\ delivery = "extract" /\ stoppedBy' # None => r.outcome = "failed"
        /\ r.outcome \in {"written", "deduplicated", "failed", "previewed"}
    BY <1>3 DEF Turn
  <2>3. stoppedBy = None /\ delivery \in {"extract", "preview"}
    BY <2>2 DEF StopInv, RecordsInv
  <2> HIDE DEF n
  <2>4. \A i \in DOMAIN artifacts' : i \in DOMAIN artifacts \/ i = n + 1
    BY <2>1
  <2>5. \A i \in DOMAIN artifacts' : artifacts'[i].outcome # "notAttempted"
    BY <2>1, <2>2, <2>3, <2>4 DEF StopInv, Outcome
  <2>6. stoppedBy' # None => \E i \in DOMAIN artifacts' :
          artifacts'[i].outcome = "failed"
          /\ \A j \in DOMAIN artifacts' : j > i => artifacts'[j].outcome = "notAttempted"
    <3>1. n + 1 \in DOMAIN artifacts' /\ \A j \in DOMAIN artifacts' : ~(j > n + 1)
      BY <2>1
    <3>2. stoppedBy' # None => artifacts'[n + 1].outcome = "failed"
      BY <2>1, <2>2, <2>3
    <3> QED
      BY <3>1, <3>2
  <2>7. delivery' = "preview" => stoppedBy' = None
    BY <2>2, <2>3
  <2> QED
    BY <2>5, <2>6, <2>7 DEF StopInv, Outcome
<1>4. CASE Stays /\ recordNotAttempted
  <2> DEFINE n == Len(artifacts)
             m == Len(Order)
  <2>1. /\ n \in Nat /\ DOMAIN artifacts = 1..n /\ DOMAIN artifacts' = 1..m /\ n < m
        /\ \A i \in DOMAIN artifacts : artifacts'[i] = artifacts[i] /\ i \in 1..m
        /\ \A i \in DOMAIN artifacts' : i \notin DOMAIN artifacts =>
             artifacts'[i].outcome = "notAttempted"
    BY <1>4, RestIs, RecordIs
  <2>2. m \in Nat
    BY DecidedOrder
  <2>3. todo # <<>> /\ todo' = <<>> /\ delivery' = delivery /\ stoppedBy' = stoppedBy /\ stoppedBy # None
    BY <1>4 DEF recordNotAttempted
  <2> HIDE DEF n, m
  <2>4. \A i \in DOMAIN artifacts : artifacts[i].outcome # "notAttempted"
    BY <2>3 DEF StopInv, Outcome
  <2>5. PICK f \in DOMAIN artifacts : artifacts[f].outcome = "failed"
          /\ \A j \in DOMAIN artifacts : j > f => artifacts[j].outcome = "notAttempted"
    BY <2>3 DEF StopInv, Outcome
  <2>6. f = n
    <3>1. n \in DOMAIN artifacts /\ (n > f \/ n = f)
      BY <2>1
    <3> QED
      BY <2>4, <2>5, <3>1
  <2>7. \A i, j \in DOMAIN artifacts' :
          artifacts'[i].outcome = "notAttempted" /\ i < j => artifacts'[j].outcome = "notAttempted"
    BY <2>1, <2>2, <2>4
  <2>8. \A j \in DOMAIN artifacts' : j > n => artifacts'[j].outcome = "notAttempted"
    BY <2>1, <2>2
  <2>9. n \in DOMAIN artifacts' /\ artifacts'[n].outcome = "failed"
    BY <2>1, <2>2, <2>5, <2>6
  <2>10. delivery' # "preview"
    BY <2>3 DEF StopInv
  <2> QED
    BY <2>3, <2>7, <2>8, <2>9, <2>10 DEF StopInv, Outcome
<1>5. CASE Stays /\ marked
  <2>1. /\ DOMAIN artifacts' = DOMAIN artifacts
        /\ \A i \in DOMAIN artifacts : artifacts'[i].outcome = artifacts[i].outcome
        /\ delivery' = "none" /\ todo = <<>> /\ todo' = <<>>
    BY <1>5, MarkedIs
  <2>2. stoppedBy' = stoppedBy
    BY <1>5 DEF marked
  <2> QED
    BY <2>1, <2>2 DEF StopInv, Outcome
<1>6. CASE Stays /\ killed
  <2>1. DOMAIN artifacts' = {} /\ stoppedBy' = None
    BY <1>6, KilledIs, EmptyIs
  <2> QED
    BY <2>1 DEF StopInv
<1> QED
  BY <1>1, <1>2, <1>3, <1>4, <1>5, <1>6, Cases

(***************************************************************************)
(* Marks, duplicates and files.                                            *)
(***************************************************************************)

LEMMA MarksStep ==
  ASSUME RecordsInv, MarksInv, DecisionInv, [Next]_vars
  PROVE  MarksInv'
<1>1. CASE Idle
  <2>1. delivery' = delivery /\ artifacts' = artifacts /\ damage' = damage
    BY <1>1 DEF Idle, sinkVars
  <2> QED
    BY <2>1 DEF MarksInv, InventedIsMarked
<1>2. CASE Stays /\ deliver
  <2>1. DOMAIN artifacts' = {}
    BY <1>2, DeliverIs, EmptyIs
  <2> QED
    BY <2>1 DEF MarksInv, InventedIsMarked
<1>3. ASSUME Stays, NEW r, Turn(Head(todo), r) PROVE MarksInv'
  <2> DEFINE n == Len(artifacts)
  <2>1. /\ n \in Nat /\ DOMAIN artifacts = 1..n /\ DOMAIN artifacts' = 1..(n + 1)
        /\ \A i \in DOMAIN artifacts : artifacts'[i] = artifacts[i]
        /\ artifacts'[n + 1] = r
    BY <1>3, TurnFinds
  <2>2. /\ delivery' = delivery /\ delivery # "none" /\ damage \subseteq damage'
        /\ r.lost \subseteq SourceBytes(r.winner) /\ OnDevice(r.lost) \subseteq damage'
    BY <1>3 DEF Turn
  <2> HIDE DEF n
  <2>3. \A i \in DOMAIN artifacts' : i \in DOMAIN artifacts \/ i = n + 1
    BY <2>1
  <2>4. \A i \in DOMAIN artifacts' :
          /\ artifacts'[i].lost \subseteq SourceBytes(artifacts'[i].winner)
          /\ OnDevice(artifacts'[i].lost) \subseteq damage'
    <3>1. \A i \in DOMAIN artifacts :
            /\ artifacts[i].lost \subseteq SourceBytes(artifacts[i].winner)
            /\ OnDevice(artifacts[i].lost) \subseteq damage
      BY <2>2 DEF MarksInv
    <3> QED
      BY <2>1, <2>2, <2>3, <3>1
  <2> QED
    BY <2>2, <2>4 DEF MarksInv, InventedIsMarked, OnDevice
<1>4. CASE Stays /\ recordNotAttempted
  <2>1. /\ delivery # "none"
        /\ \A i \in DOMAIN artifacts : artifacts'[i] = artifacts[i]
        /\ \A i \in DOMAIN artifacts' : i \notin DOMAIN artifacts => artifacts'[i].lost = {}
    BY <1>4, RestIs, RecordIs
  <2>2. delivery' = delivery /\ damage' = damage
    BY <1>4 DEF recordNotAttempted
  <2>3. OnDevice({}) = {}
    BY DEF OnDevice
  <2>4. \A i \in DOMAIN artifacts' :
          /\ artifacts'[i].lost \subseteq SourceBytes(artifacts'[i].winner)
          /\ OnDevice(artifacts'[i].lost) \subseteq damage'
    <3>1. \A i \in DOMAIN artifacts :
            /\ artifacts[i].lost \subseteq SourceBytes(artifacts[i].winner)
            /\ OnDevice(artifacts[i].lost) \subseteq damage
      BY <2>1 DEF MarksInv
    <3> QED
      BY <2>1, <2>2, <2>3, <3>1
  <2> QED
    BY <2>1, <2>2, <2>4 DEF MarksInv, InventedIsMarked, OnDevice
<1>5. CASE Stays /\ marked
  <2>1. /\ DOMAIN artifacts' = DOMAIN artifacts
        /\ \A i \in DOMAIN artifacts :
             /\ artifacts'[i].winner = artifacts[i].winner
             /\ artifacts'[i].lost = artifacts[i].lost
             /\ artifacts'[i].invented = inventedIn(artifacts[i].winner)
        /\ delivery # "none" /\ delivery' = "none"
    BY <1>5, MarkedIs
  <2>2. ASSUME NEW i \in DOMAIN artifacts'
        PROVE  /\ OnDevice(artifacts'[i].lost) \subseteq artifacts'[i].invented
               /\ artifacts'[i].invented \subseteq OnDevice(SourceBytes(artifacts'[i].winner))
    <3>1. /\ artifacts[i].lost \subseteq SourceBytes(artifacts[i].winner)
          /\ OnDevice(artifacts[i].lost) \subseteq damage
      BY <2>1 DEF MarksInv
    <3>2. OnDevice(artifacts[i].lost) \subseteq OnDevice(SourceBytes(artifacts[i].winner))
      BY <3>1 DEF OnDevice
    <3>3. inventedIn(artifacts[i].winner) = damage \cap OnDevice(SourceBytes(artifacts[i].winner))
      BY DEF inventedIn, OnDevice
    <3> QED
      BY <2>1, <3>1, <3>2, <3>3
  <2> QED
    BY <2>1, <2>2 DEF MarksInv, InventedIsMarked, OnDevice
<1>6. CASE Stays /\ killed
  <2>1. DOMAIN artifacts' = {}
    BY <1>6, KilledIs, EmptyIs
  <2> QED
    BY <2>1 DEF MarksInv, InventedIsMarked
<1> QED
  BY <1>1, <1>2, <1>3, <1>4, <1>5, <1>6, Cases

LEMMA DuplicatesStep ==
  ASSUME RecordsInv, DuplicatesInv, DecisionInv, [Next]_vars
  PROVE  DuplicatesInv'
<1>1. CASE Idle
  <2>1. delivery' = delivery /\ artifacts' = artifacts /\ written' = written
    BY <1>1 DEF Idle, sinkVars
  <2> QED
    BY <2>1 DEF DuplicatesInv, Outcome
<1>2. CASE Stays /\ deliver
  <2>1. DOMAIN artifacts' = {} /\ written' = {}
    BY <1>2, DeliverIs, EmptyIs
  <2> QED
    BY <2>1 DEF DuplicatesInv
<1>3. ASSUME Stays, NEW r, Turn(Head(todo), r) PROVE DuplicatesInv'
  <2> DEFINE n == Len(artifacts)
  <2>1. /\ n \in Nat /\ DOMAIN artifacts = 1..n /\ DOMAIN artifacts' = 1..(n + 1)
        /\ \A i \in DOMAIN artifacts : artifacts'[i] = artifacts[i]
        /\ artifacts'[n + 1] = r
    BY <1>3, TurnFinds
  <2>2. /\ written' = (IF r.outcome = "written" THEN written \cup {r.content} ELSE written)
        /\ r.outcome = "deduplicated" => r.content \in written
        /\ delivery # "none"
    BY <1>3 DEF Turn
  <2> HIDE DEF n
  <2>3. (\A i \in DOMAIN artifacts' : i \in DOMAIN artifacts \/ i = n + 1)
        /\ n + 1 \in DOMAIN artifacts' /\ \A i \in DOMAIN artifacts : i \in DOMAIN artifacts'
    BY <2>1
  <2>4. written = {artifacts[i].content : i \in {j \in DOMAIN artifacts : artifacts[j].outcome = "written"}}
    BY <2>2 DEF DuplicatesInv, Outcome
  <2>5. written' = {artifacts'[i].content : i \in {j \in DOMAIN artifacts' : artifacts'[j].outcome = "written"}}
    BY <2>1, <2>2, <2>3, <2>4
  <2>6. ASSUME NEW i \in DOMAIN artifacts', artifacts'[i].outcome = "deduplicated"
        PROVE  \E j \in 1..(i - 1) : artifacts'[j].outcome = "written"
                                     /\ artifacts'[j].content = artifacts'[i].content
    <3>1. CASE i = n + 1
      <4>1. PICK j \in DOMAIN artifacts : artifacts[j].outcome = "written" /\ artifacts[j].content = r.content
        BY <2>1, <2>2, <2>4, <2>6, <3>1
      <4>2. j \in 1..(i - 1)
        BY <2>1, <3>1
      <4> QED
        BY <2>1, <3>1, <4>1, <4>2
    <3>2. CASE i \in DOMAIN artifacts
      <4>1. PICK j \in 1..(i - 1) : artifacts[j].outcome = "written"
                                    /\ artifacts[j].content = artifacts[i].content
        BY <2>1, <2>6, <3>2 DEF DuplicatesInv, Outcome
      <4>2. j \in DOMAIN artifacts
        BY <2>1, <3>2
      <4> QED
        BY <2>1, <3>2, <4>1, <4>2
    <3> QED
      BY <2>3, <3>1, <3>2
  <2> QED
    BY <2>5, <2>6 DEF DuplicatesInv, Outcome
<1>4. CASE Stays /\ recordNotAttempted
  <2> DEFINE n == Len(artifacts)
             m == Len(Order)
  <2>1. /\ delivery # "none" /\ n \in Nat /\ DOMAIN artifacts = 1..n /\ DOMAIN artifacts' = 1..m
        /\ \A i \in DOMAIN artifacts : artifacts'[i] = artifacts[i] /\ i \in 1..m
        /\ \A i \in DOMAIN artifacts' : i \notin DOMAIN artifacts =>
             artifacts'[i].outcome = "notAttempted"
    BY <1>4, RestIs, RecordIs
  <2>2. delivery' = delivery /\ written' = written
    BY <1>4 DEF recordNotAttempted
  <2> HIDE DEF n, m
  <2>3. written = {artifacts[i].content : i \in {j \in DOMAIN artifacts : artifacts[j].outcome = "written"}}
    BY <2>1 DEF DuplicatesInv, Outcome
  <2>4. \A i : i \in DOMAIN artifacts' /\ artifacts'[i].outcome = "written" <=>
               i \in DOMAIN artifacts /\ artifacts[i].outcome = "written"
    BY <2>1
  <2>5. written' = {artifacts'[i].content : i \in {j \in DOMAIN artifacts' : artifacts'[j].outcome = "written"}}
    BY <2>1, <2>2, <2>3, <2>4
  <2>6. ASSUME NEW i \in DOMAIN artifacts', artifacts'[i].outcome = "deduplicated"
        PROVE  \E j \in 1..(i - 1) : artifacts'[j].outcome = "written"
                                     /\ artifacts'[j].content = artifacts'[i].content
    <3>1. i \in DOMAIN artifacts /\ artifacts'[i] = artifacts[i]
      BY <2>1, <2>6
    <3>2. PICK j \in 1..(i - 1) : artifacts[j].outcome = "written"
                                  /\ artifacts[j].content = artifacts[i].content
      BY <2>6, <3>1 DEF DuplicatesInv, Outcome
    <3>3. j \in DOMAIN artifacts
      BY <2>1, <3>1
    <3> QED
      BY <2>1, <3>1, <3>2, <3>3
  <2> QED
    BY <2>5, <2>6 DEF DuplicatesInv, Outcome
<1>5. CASE Stays /\ marked
  <2>1. /\ DOMAIN artifacts' = DOMAIN artifacts
        /\ \A i \in DOMAIN artifacts : /\ artifacts'[i].outcome = artifacts[i].outcome
                                       /\ artifacts'[i].content = artifacts[i].content
        /\ delivery' = "none"
    BY <1>5, MarkedIs
  <2>2. Len(artifacts) \in Nat /\ DOMAIN artifacts = 1..Len(artifacts)
    BY SeqIs DEF RecordsInv
  <2>3. \A i \in DOMAIN artifacts : 1..(i - 1) \subseteq DOMAIN artifacts
    BY <2>2
  <2> QED
    BY <2>1, <2>3 DEF DuplicatesInv, Outcome
<1>6. CASE Stays /\ killed
  <2>1. DOMAIN artifacts' = {} /\ delivery' = "none"
    BY <1>6, KilledIs, EmptyIs
  <2> QED
    BY <2>1 DEF DuplicatesInv
<1> QED
  BY <1>1, <1>2, <1>3, <1>4, <1>5, <1>6, Cases

(***************************************************************************)
(* What holds of every delivery.                                           *)
(***************************************************************************)

LEMMA SinkStarts == Init => SinkInv /\ DecisionInv
<1> SUFFICES ASSUME Init PROVE SinkInv /\ DecisionInv
  OBVIOUS
<1>1. /\ delivery = "none" /\ todo = <<>> /\ artifacts = <<>> /\ stoppedBy = None
      /\ foretold = <<>> /\ DOMAIN files = {} /\ decided = <<>>
  BY DEF Init, SinkInit, ArbitrationInit
<1>2. RecordsInv
  BY <1>1, EmptyIs DEF RecordsInv
<1>3. NamesInv /\ StopInv
  BY <1>1, EmptyIs DEF NamesInv, StopInv
<1>4. MarksInv /\ DuplicatesInv
  BY <1>1, EmptyIs DEF MarksInv, InventedIsMarked, DuplicatesInv
<1>5. DecisionInv
  BY <1>1 DEF DecisionInv
<1> QED
  BY <1>2, <1>3, <1>4, <1>5 DEF SinkInv

(* Records, names, stops, marks and duplicates keep their invariant, whatever is
   refused and wherever the process is killed. *)
THEOREM DeliveryInvariant == Spec => [](SinkInv /\ DecisionInv)
<1>1. ArbitrationInv /\ (SinkInv /\ DecisionInv) /\ [Next]_vars => (SinkInv /\ DecisionInv)'
  BY DecisionStep, RecordsStep, NamesStep, StopStep, MarksStep, DuplicatesStep
     DEF SinkInv, ArbitrationInv
<1> QED
  BY <1>1, SinkStarts, ArbitrationInvariant, PTL DEF Spec

(* Every winner has one record, in the order of writing, and nothing is attempted
   after the record that stopped the run (RecoverySink::extract). *)
THEOREM RecordsAreRight == Spec => []EveryWinnerIsRecorded
<1>1. SinkInv /\ DecisionInv => EveryWinnerIsRecorded
  <2> SUFFICES ASSUME SinkInv, DecisionInv, Delivered PROVE EveryWinnerIsRecorded
    BY DEF EveryWinnerIsRecorded
  <2>1. delivery = "none" /\ artifacts # <<>> /\ RecordsInv /\ StopInv
    BY DEF Delivered, SinkInv
  <2>2. /\ Len(artifacts) + Len(todo) = Len(Order) /\ todo = <<>>
        /\ \A i \in DOMAIN artifacts : artifacts[i].winner = Order[i].winner
    BY <2>1 DEF RecordsInv
  <2>3. Len(artifacts) \in Nat /\ Len(todo) = 0 /\ Len(Order) = Len(decided)
    BY <2>1, <2>2, SeqIs, EmptyIs, DecidedOrder DEF RecordsInv
  <2>4. Len(artifacts) = Len(decided)
    BY <2>2, <2>3
  <2>5. \A i \in DOMAIN artifacts : artifacts[i].winner = orderedForWriting(decided)[i].winner
    BY <2>2 DEF Order
  <2> QED
    BY <2>1, <2>4, <2>5 DEF EveryWinnerIsRecorded, StopInv
<1> QED
  BY <1>1, DeliveryInvariant, PTL

(* A preview foretells the names of every extraction that follows it, however
   many fail (RecoverySink::preview). *)
THEOREM PreviewIsRight == Spec => []PreviewForetells
<1>1. SinkInv /\ DecisionInv => PreviewForetells
  <2> SUFFICES ASSUME SinkInv, DecisionInv, foretold # <<>>, NEW i \in DOMAIN artifacts
               PROVE  /\ artifacts[i].winner = foretold[i].winner
                      /\ Outcome(i, "written") => artifacts[i].name = foretold[i].name
    BY DEF PreviewForetells
  <2>1. /\ IsSeq(artifacts) /\ IsSeq(foretold) /\ IsSeq(todo) /\ artifacts # <<>>
    BY EmptyIs DEF SinkInv, RecordsInv
  <2>2. /\ Len(artifacts) + Len(todo) = Len(Order)
        /\ artifacts[i].winner = Order[i].winner
    BY <2>1 DEF SinkInv, RecordsInv
  <2>3. Len(foretold) = Len(Order)
    BY DEF SinkInv, NamesInv
  <2>4. /\ Len(artifacts) \in Nat /\ Len(todo) \in Nat /\ DOMAIN artifacts = 1..Len(artifacts)
        /\ DOMAIN foretold = 1..Len(foretold)
    BY <2>1, SeqIs
  <2>5. i \in DOMAIN foretold
    BY <2>2, <2>3, <2>4
  <2> QED
    BY <2>2, <2>5 DEF SinkInv, NamesInv
<1> QED
  BY <1>1, DeliveryInvariant, PTL

(* Every byte the device did not give is marked in the records of a finished
   delivery, and no mark lies outside its file (cli/RunDamage.cpp). *)
THEOREM MarksAreRight == Spec => []InventedIsMarked
<1>1. SinkInv => InventedIsMarked
  BY DEF SinkInv, MarksInv
<1> QED
  BY <1>1, DeliveryInvariant, PTL

(***************************************************************************)
(* What holds of the files when the names stay apart.                      *)
(***************************************************************************)

PathsApart == \A i, j \in Placed : PathAt(i) = PathAt(j) => i = j

(* What is claimed stays claimed. *)
LEMMA UsedGrows ==
  ASSUME NEW order \in Seq(Ordereds), NEW i \in 1..Len(order), NEW j \in 1..Len(order), i < j,
         Nameable(order[i])
  PROVE  disambiguate(outputNameFor(order[i]), UsedBy(order)[i - 1]) \in UsedBy(order)[j - 1]
<1> DEFINE U == UsedBy(order)
           x == disambiguate(outputNameFor(order[i]), U[i - 1])
           S == {k \in Nat : i + k <= Len(order) => x \in U[i + k]}
<1>1. Len(order) \in Nat /\ i \in Nat /\ j \in Nat
  OBVIOUS
<1>2. \A k \in 1..Len(order) :
        U[k] = IF Nameable(order[k])
               THEN U[k - 1] \cup {disambiguate(outputNameFor(order[k]), U[k - 1])}
               ELSE U[k - 1]
  BY UsedIs
<1>3. x \in U[i] /\ \A k \in 1..Len(order) : U[k - 1] \subseteq U[k]
  BY <1>2
<1> HIDE DEF U, x
<1>4. 0 \in S
  BY <1>1, <1>3
<1>5. ASSUME NEW k \in S PROVE k + 1 \in S
  <2>1. k \in Nat
    OBVIOUS
  <2>2. ASSUME i + (k + 1) <= Len(order) PROVE x \in U[i + (k + 1)]
    <3>1. i + (k + 1) \in 1..Len(order) /\ (i + (k + 1)) - 1 = i + k /\ i + k <= Len(order)
      BY <1>1, <2>1, <2>2
    <3>2. x \in U[i + k]
      BY <2>1, <3>1
    <3>3. U[(i + (k + 1)) - 1] \subseteq U[i + (k + 1)]
      BY <1>3, <3>1
    <3> QED
      BY <3>1, <3>2, <3>3
  <2> QED
    BY <2>1, <2>2
<1>6. S = Nat
  <2>1. S \in SUBSET Nat
    OBVIOUS
  <2> HIDE DEF S
  <2> QED
    BY <1>4, <1>5, <2>1, SetInduction
<1>7. (j - 1) - i \in S /\ i + ((j - 1) - i) = j - 1 /\ j - 1 <= Len(order)
  <2> HIDE DEF S
  <2> QED
    BY <1>1, <1>6
<1>8. x \in U[i + ((j - 1) - i)]
  BY <1>7
<1> QED
  BY <1>7, <1>8 DEF x, U

(* New names that the cleaning does not fold are different paths. *)
LEMMA NamesKeepPathsApart ==
  ASSUME DecisionInv, NothingFolded, NamesAreNew
  PROVE  PathsApart
<1>1. Order \in Seq(Ordereds) /\ DOMAIN Order = 1..Len(Order) /\ Len(Order) \in Nat
  BY DecidedOrder
<1>2. ASSUME NEW i \in Placed
      PROVE  /\ i \in 1..Len(Order) /\ Nameable(Order[i])
             /\ NameAt(i) \in Names(StemsOf(Order))
             /\ NameAt(i).stem = outputNameFor(Order[i]).stem
             /\ PathAt(i) = [stem |-> Safe[NameAt(i).stem], suffix |-> NameAt(i).suffix]
             /\ Safe[NameAt(i).stem] # Refused
  <2>1. i \in 1..Len(Order) /\ Nameable(Order[i]) /\ PathAt(i) # Refused
    BY <1>1 DEF Placed
  <2>2. /\ NameAt(i) \in Names(StemsOf(Order))
        /\ NameAt(i).stem = outputNameFor(Order[i]).stem
    BY <1>1, <2>1, UsedIs DEF NameAt
  <2>3. collectSegments(NameAt(i)) # Refused
    BY <2>1 DEF PathAt, sanitizeOutputPath
  <2>4. PathAt(i) = [stem |-> collectSegments(NameAt(i)), suffix |-> NameAt(i).suffix]
    BY <2>3 DEF PathAt, sanitizeOutputPath
  <2>5. collectSegments(NameAt(i)) = Safe[NameAt(i).stem]
    BY <2>3 DEF collectSegments
  <2> QED
    BY <2>1, <2>2, <2>3, <2>4, <2>5
<1>3. ASSUME NEW i \in Placed, NEW j \in Placed, PathAt(i) = PathAt(j), i < j PROVE FALSE
  <2>1. Safe[NameAt(i).stem] = Safe[NameAt(j).stem] /\ NameAt(i).suffix = NameAt(j).suffix
    BY <1>2, <1>3
  <2>2. outputNameFor(Order[i]).stem = outputNameFor(Order[j]).stem
    BY <1>1, <1>2, <2>1 DEF NothingFolded
  <2>3. NameAt(i) = NameAt(j)
    BY <1>2, <2>1, <2>2 DEF Names
  <2>4. NameAt(i) \in UsedBy(Order)[j - 1]
    BY <1>1, <1>2, <1>3, UsedGrows DEF NameAt
  <2>5. NameAt(j) \notin UsedBy(Order)[j - 1]
    BY <1>1, <1>2 DEF NamesAreNew
  <2> QED
    BY <2>3, <2>4, <2>5
<1>4. \A i, j \in Placed : i < j \/ j < i \/ i = j
  BY <1>1, <1>2
<1> QED
  BY <1>3, <1>4 DEF PathsApart

LEMMA FilesStep ==
  ASSUME RecordsInv, NamesInv, DecisionInv, FilesInv, PathsApart, [Next]_vars
  PROVE  FilesInv'
<1>1. CASE Idle
  <2>1. artifacts' = artifacts /\ files' = files /\ unremoved' = unremoved
    BY <1>1 DEF Idle, sinkVars
  <2>2. CASE decided' = decided /\ phase' = phase
    BY <2>1, <2>2, SameOrder DEF FilesInv, Outcome
  <2>3. CASE phase # "decided"
    <3>1. artifacts = <<>> /\ DOMAIN files = {}
      BY <2>3 DEF RecordsInv
    <3> QED
      BY <2>1, <3>1, EmptyIs DEF FilesInv
  <2> QED
    BY <1>1, <2>2, <2>3 DEF Idle
<1>2. CASE Stays /\ deliver
  <2>1. Placed' = Placed /\ \A i : PathAt(i)' = PathAt(i)
    BY <1>2, SameOrder DEF Stays
  <2>2. DOMAIN artifacts' = {} /\ files' = files
    BY <1>2, DeliverIs, EmptyIs
  <2> QED
    BY <2>1, <2>2 DEF FilesInv
<1>3. ASSUME Stays, NEW r, Turn(Head(todo), r) PROVE FilesInv'
  <2>1. Placed' = Placed /\ \A i : PathAt(i)' = PathAt(i)
    BY <1>3, SameOrder DEF Stays
  <2> DEFINE n == Len(artifacts)
             o == Head(todo)
             p == PathAt(n + 1)
  <2>2. /\ n \in Nat /\ DOMAIN artifacts = 1..n /\ DOMAIN artifacts' = 1..(n + 1)
        /\ \A i \in DOMAIN artifacts : artifacts'[i] = artifacts[i]
        /\ artifacts'[n + 1] = r /\ o = Order[n + 1] /\ n + 1 \in DOMAIN Order
    BY <1>3, TurnFinds
  <2>3. PathOf(o) = p /\ Touches(o, r)
    BY <1>3, TurnClaims DEF Turn
  <2>4. Nameable(o) /\ p # Refused <=> n + 1 \in Placed
    BY <2>2 DEF Placed
  <2>5. /\ n + 1 \in Placed => /\ DOMAIN files' \subseteq DOMAIN files \cup {p}
                               /\ \A q \in DOMAIN files \ {p} : q \in DOMAIN files' /\ files'[q] = files[q]
        /\ n + 1 \notin Placed => files' = files /\ r.outcome \notin {"written", "deduplicated"}
        /\ r.outcome = "written" => r.path = p /\ p \in DOMAIN files' /\ files'[p] = r.content
        /\ r.outcome = "deduplicated" /\ ~unremoved' => p \notin DOMAIN files'
        /\ ~unremoved' => ~unremoved
    BY <2>3, <2>4 DEF Touches
  <2> HIDE DEF n, o, p
  <2>6. /\ \A i \in DOMAIN artifacts' : i \in DOMAIN artifacts \/ i = n + 1
        /\ \A i \in DOMAIN artifacts : i # n + 1
    BY <2>2
  <2>7. DOMAIN files' \subseteq {PathAt(i) : i \in Placed}
    <3>1. DOMAIN files \subseteq {PathAt(i) : i \in Placed}
      BY DEF FilesInv
    <3>2. n + 1 \in Placed => p \in {PathAt(i) : i \in Placed}
      BY DEF p
    <3> QED
      BY <2>5, <3>1, <3>2
  <2>8. ASSUME NEW i \in DOMAIN artifacts, i \in Placed, n + 1 \in Placed PROVE PathAt(i) # p
    BY <2>6, <2>8 DEF PathsApart, p
  <2>9. ASSUME NEW i \in DOMAIN artifacts'
        PROVE  /\ artifacts'[i].outcome = "written" =>
                    /\ i \in Placed /\ artifacts'[i].path = PathAt(i)
                    /\ PathAt(i) \in DOMAIN files' /\ files'[PathAt(i)] = artifacts'[i].content
               /\ artifacts'[i].outcome = "deduplicated" /\ ~unremoved' =>
                    i \in Placed /\ PathAt(i) \notin DOMAIN files'
    <3>1. CASE i = n + 1
      BY <2>2, <2>5, <3>1 DEF p
    <3>2. CASE i \in DOMAIN artifacts
      <4>1. /\ artifacts[i].outcome = "written" =>
                 /\ i \in Placed /\ artifacts[i].path = PathAt(i)
                 /\ PathAt(i) \in DOMAIN files /\ files[PathAt(i)] = artifacts[i].content
            /\ artifacts[i].outcome = "deduplicated" /\ ~unremoved =>
                 i \in Placed /\ PathAt(i) \notin DOMAIN files
        BY <3>2 DEF FilesInv, Outcome
      <4>2. artifacts'[i] = artifacts[i]
        BY <2>2, <3>2
      <4>3. CASE n + 1 \in Placed
        BY <2>5, <2>8, <3>2, <4>1, <4>2, <4>3
      <4>4. CASE n + 1 \notin Placed
        BY <2>5, <4>1, <4>2, <4>4
      <4> QED
        BY <4>3, <4>4
    <3> QED
      BY <2>6, <3>1, <3>2
  <2> QED
    BY <2>1, <2>7, <2>9 DEF FilesInv, Outcome
<1>4. CASE Stays /\ recordNotAttempted
  <2>1. Placed' = Placed /\ \A i : PathAt(i)' = PathAt(i)
    BY <1>4, SameOrder DEF Stays
  <2>2. /\ \A i \in DOMAIN artifacts : artifacts'[i] = artifacts[i]
        /\ \A i \in DOMAIN artifacts' : i \notin DOMAIN artifacts =>
             artifacts'[i].outcome = "notAttempted"
    BY <1>4, RestIs, RecordIs
  <2>3. files' = files /\ unremoved' = unremoved
    BY <1>4 DEF recordNotAttempted
  <2> QED
    BY <2>1, <2>2, <2>3 DEF FilesInv, Outcome
<1>5. CASE Stays /\ marked
  <2>1. Placed' = Placed /\ \A i : PathAt(i)' = PathAt(i)
    BY <1>5, SameOrder DEF Stays
  <2>2. /\ DOMAIN artifacts' = DOMAIN artifacts
        /\ \A i \in DOMAIN artifacts : /\ artifacts'[i].outcome = artifacts[i].outcome
                                       /\ artifacts'[i].path = artifacts[i].path
                                       /\ artifacts'[i].content = artifacts[i].content
    BY <1>5, MarkedIs
  <2>3. files' = files /\ unremoved' = unremoved
    BY <1>5 DEF marked
  <2> QED
    BY <2>1, <2>2, <2>3 DEF FilesInv, Outcome
<1>6. CASE Stays /\ killed
  <2>1. Placed' = Placed /\ \A i : PathAt(i)' = PathAt(i)
    BY <1>6, SameOrder DEF Stays
  <2>2. DOMAIN artifacts' = {}
    BY <1>6, KilledIs, EmptyIs
  <2>3. DOMAIN files' \subseteq {PathAt(i) : i \in Placed}
    <3>1. CASE files' = files
      BY <3>1 DEF FilesInv
    <3>2. CASE /\ Claimed(Head(todo))
               /\ Leaves(sanitizeOutputPath(claimedName(Head(todo))), Partial)
      <4>1. delivery # "none" /\ todo # <<>> /\ Nameable(Head(todo)) /\ PathOf(Head(todo)) # Refused
        BY <3>2 DEF Claimed, Extracting, PathOf
      <4>2. /\ Len(artifacts) + 1 \in DOMAIN Order /\ Head(todo) = Order[Len(artifacts) + 1]
            /\ PathOf(Head(todo)) = PathAt(Len(artifacts) + 1)
        BY <4>1, NextClaims
      <4>3. Len(artifacts) + 1 \in Placed
        BY <4>1, <4>2 DEF Placed
      <4>4. DOMAIN files' = DOMAIN files \cup {PathOf(Head(todo))}
        BY <3>2, LeavesIs DEF PathOf
      <4> QED
        BY <4>2, <4>3, <4>4 DEF FilesInv
    <3> QED
      BY <1>6, <3>1, <3>2 DEF killed
  <2> QED
    BY <2>1, <2>2, <2>3 DEF FilesInv
<1> QED
  BY <1>1, <1>2, <1>3, <1>4, <1>5, <1>6, Cases

(* When the cleaning folds no two proposed names into one, and no winner is given
   a name already taken, the destination is what the records say. *)
THEOREM FilesInvariant == Spec /\ [](NothingFolded /\ NamesAreNew) => []FilesInv
<1>1. Init => FilesInv
  <2> SUFFICES ASSUME Init PROVE FilesInv
    OBVIOUS
  <2>1. artifacts = <<>> /\ DOMAIN files = {}
    BY DEF Init, SinkInit
  <2> QED
    BY <2>1, EmptyIs DEF FilesInv
<1>2. (SinkInv /\ DecisionInv) /\ (NothingFolded /\ NamesAreNew) /\ FilesInv /\ [Next]_vars => FilesInv'
  BY NamesKeepPathsApart, FilesStep DEF SinkInv
<1> QED
  BY <1>1, <1>2, DeliveryInvariant, PTL DEF Spec

(* Then every file recorded as written is there with its bytes, and every dropped
   duplicate has a written original: collisions are renamed, not overwritten. *)
THEOREM WrittenIsRight == Spec /\ [](NothingFolded /\ NamesAreNew) => []WrittenIsThere
<1>1. SinkInv /\ FilesInv => WrittenIsThere
  <2> SUFFICES ASSUME SinkInv, FilesInv PROVE WrittenIsThere
    OBVIOUS
  <2>1. \A i \in DOMAIN artifacts : Outcome(i, "written") =>
          artifacts[i].path \in DOMAIN files /\ files[artifacts[i].path] = artifacts[i].content
    BY DEF FilesInv
  <2>2. \A i \in DOMAIN artifacts : Outcome(i, "deduplicated") =>
          \E j \in 1..(i - 1) : Outcome(j, "written") /\ artifacts[j].content = artifacts[i].content
    BY DEF SinkInv, DuplicatesInv
  <2> QED
    BY <2>1, <2>2 DEF WrittenIsThere
<1> QED
  BY <1>1, FilesInvariant, DeliveryInvariant, PTL

(* And an extraction in which nothing failed leaves exactly the files it records,
   whatever interrupted deliveries of the same winners left behind. *)
THEOREM RerunIsRight == Spec /\ [](NothingFolded /\ NamesAreNew) => []RerunLeavesOnlyItsFiles
<1>1. SinkInv /\ DecisionInv /\ FilesInv => RerunLeavesOnlyItsFiles
  <2> SUFFICES ASSUME SinkInv, DecisionInv, FilesInv, Delivered, ~unremoved,
                      \A i \in DOMAIN artifacts : artifacts[i].outcome \in {"written", "deduplicated"}
               PROVE  DOMAIN files = {artifacts[i].path :
                                        i \in {j \in DOMAIN artifacts : Outcome(j, "written")}}
    BY DEF RerunLeavesOnlyItsFiles
  <2>1. DOMAIN artifacts = DOMAIN Order
    <3>1. delivery = "none" /\ artifacts # <<>> /\ RecordsInv
      BY DEF Delivered, SinkInv
    <3>2. Len(artifacts) + Len(todo) = Len(Order) /\ todo = <<>> /\ IsSeq(artifacts)
      BY <3>1 DEF RecordsInv
    <3>3. Len(artifacts) \in Nat /\ DOMAIN artifacts = 1..Len(artifacts) /\ Len(todo) = 0
      BY <3>2, SeqIs, EmptyIs
    <3>4. DOMAIN Order = 1..Len(Order)
      BY DecidedOrder
    <3> QED
      BY <3>2, <3>3, <3>4
  <2>2. ASSUME NEW p \in DOMAIN files
        PROVE  \E i \in DOMAIN artifacts : Outcome(i, "written") /\ artifacts[i].path = p
    <3>1. PICK i \in Placed : p = PathAt(i)
      BY DEF FilesInv
    <3>2. i \in DOMAIN artifacts
      BY <2>1 DEF Placed
    <3>3. ~Outcome(i, "deduplicated")
      BY <3>1, <3>2 DEF FilesInv
    <3>4. Outcome(i, "written")
      BY <3>2, <3>3 DEF Outcome
    <3> QED
      BY <3>1, <3>2, <3>4 DEF FilesInv
  <2>3. \A i \in DOMAIN artifacts : Outcome(i, "written") => artifacts[i].path \in DOMAIN files
    BY DEF FilesInv
  <2> QED
    BY <2>2, <2>3
<1> QED
  BY <1>1, FilesInvariant, DeliveryInvariant, PTL

(* Every turn claims one name at most. *)
LEMMA UsedIsFew ==
  ASSUME NEW order \in Seq(Ordereds), NEW k \in 0..Len(order)
  PROVE  IsFiniteSet(UsedBy(order)[k]) /\ Cardinality(UsedBy(order)[k]) <= k
<1> DEFINE U == UsedBy(order)
           Fits(n) == IsFiniteSet(U[n]) /\ Cardinality(U[n]) <= n
           S == {n \in Nat : n <= Len(order) => Fits(n)}
<1>1. Len(order) \in Nat /\ k \in Nat /\ k <= Len(order)
  OBVIOUS
<1>2. U[0] = {}
  BY UsedIs
<1>3. ASSUME NEW n \in 1..Len(order)
      PROVE  U[n] = U[n - 1] \/ \E x : U[n] = U[n - 1] \cup {x}
  BY UsedIs
<1> HIDE DEF U
<1>4. 0 \in S
  <2>1. IsFiniteSet(U[0]) /\ Cardinality(U[0]) = 0
    BY <1>2, FS_EmptySet, Zenon
  <2> QED
    BY <2>1
<1>5. ASSUME NEW n \in S PROVE n + 1 \in S
  <2> SUFFICES ASSUME n + 1 <= Len(order) PROVE Fits(n + 1)
    OBVIOUS
  <2>1. n \in Nat /\ n + 1 \in 1..Len(order) /\ (n + 1) - 1 = n /\ Fits(n)
    BY <1>1
  <2>2. U[n + 1] = U[n] \/ \E x : U[n + 1] = U[n] \cup {x}
    BY <1>3, <2>1
  <2>3. Cardinality(U[n]) \in Nat
    BY <2>1, FS_CardinalityType
  <2>4. CASE U[n + 1] = U[n]
    BY <2>1, <2>3, <2>4
  <2>5. ASSUME NEW x, U[n + 1] = U[n] \cup {x} PROVE Fits(n + 1)
    <3>1. IsFiniteSet(U[n] \cup {x})
          /\ Cardinality(U[n] \cup {x}) = IF x \in U[n] THEN Cardinality(U[n]) ELSE Cardinality(U[n]) + 1
      BY <2>1, FS_AddElement
    <3> QED
      BY <2>1, <2>3, <2>5, <3>1
  <2> QED
    BY <2>2, <2>4, <2>5
<1>6. S \in SUBSET Nat
  OBVIOUS
<1>7. S = Nat
  <2> HIDE DEF S
  <2> QED
    BY <1>4, <1>5, <1>6, SetInduction
<1>8. Fits(k)
  BY <1>1, <1>7
<1> QED
  BY <1>8 DEF U

(* While fewer names are taken than there are numbers to try, one is free. *)
LEMMA ANumberIsFree ==
  ASSUME NEW stems, NEW name \in Names(stems), NEW taken, IsFiniteSet(taken),
         Cardinality(taken) < kMaxDisambiguationAttempts
  PROVE  disambiguate(name, taken) \notin taken
<1> DEFINE tried == 2..(kMaxDisambiguationAttempts + 1)
           free == {n \in tried : numberedCandidate(name, n) \notin taken}
           f == [n \in tried |-> numberedCandidate(name, n)]
<1>1. \A m, n \in Nat : numberedCandidate(name, m) = numberedCandidate(name, n) => m = n
  <2> SUFFICES ASSUME NEW m \in Nat, NEW n \in Nat,
                      numberedCandidate(name, m) = numberedCandidate(name, n)
               PROVE  m = n
    OBVIOUS
  <2>1. Append(name.suffix, m) = Append(name.suffix, n)
    BY DEF numberedCandidate, Names
  <2>2. name.suffix \in Seq(Nat)
    BY DEF Names
  <2>3. /\ Len(name.suffix) \in Nat
        /\ Append(name.suffix, m)[Len(name.suffix) + 1] = m
        /\ Append(name.suffix, n)[Len(name.suffix) + 1] = n
    BY <2>2
  <2> QED
    BY <2>1, <2>3
<1>2. kMaxDisambiguationAttempts \in Nat
  BY SinkAssumption
<1>3. tried \in SUBSET Nat /\ free \in SUBSET Nat
  BY <1>2
<1>4. IsFiniteSet(tried) /\ Cardinality(tried) = kMaxDisambiguationAttempts
  BY <1>2, FS_Interval
<1>5. free # {}
  <2> SUFFICES ASSUME free = {} PROVE FALSE
    OBVIOUS
  <2>1. f \in [tried -> taken]
    OBVIOUS
  <2>2. \A m, n \in tried : f[m] = f[n] => m = n
    BY <1>1, <1>3
  <2> HIDE DEF f, tried
  <2>3. \E m, n \in tried : m # n /\ f[m] = f[n]
    BY <1>4, <2>1, FS_PigeonHole
  <2> QED
    BY <2>2, <2>3
<1>6. Min(free) \in free
  <2> HIDE DEF free
  <2> QED
    BY <1>3, <1>5, MinIs
<1>7. disambiguate(name, taken) = IF name \notin taken THEN name
                                  ELSE numberedCandidate(name, Min(free))
  BY <1>5 DEF disambiguate
<1> QED
  BY <1>6, <1>7

(* So names are new as long as there are no more winners than numbers to try. *)
LEMMA FewNamesAreNew ==
  ASSUME DecisionInv, Len(decided) <= kMaxDisambiguationAttempts
  PROVE  NamesAreNew
<1> SUFFICES ASSUME NEW i \in DOMAIN Order PROVE NameAt(i) \notin UsedBy(Order)[i - 1]
  BY DEF NamesAreNew
<1>1. /\ Order \in Seq(Ordereds) /\ Len(Order) = Len(decided)
      /\ Len(Order) \in Nat /\ i \in 1..Len(Order)
  BY DecidedOrder
<1>2. i - 1 \in 0..Len(Order)
  BY <1>1
<1>3. IsFiniteSet(UsedBy(Order)[i - 1]) /\ Cardinality(UsedBy(Order)[i - 1]) <= i - 1
  BY <1>1, <1>2, UsedIsFew
<1>4. Cardinality(UsedBy(Order)[i - 1]) \in Nat
  BY <1>3, FS_CardinalityType
<1>5. kMaxDisambiguationAttempts \in Nat
  BY SinkAssumption
<1>6. Cardinality(UsedBy(Order)[i - 1]) < kMaxDisambiguationAttempts
  BY <1>1, <1>3, <1>4, <1>5
<1>7. Order[i] \in Ordereds
  BY <1>1
<1>8. outputNameFor(Order[i]) \in Names({outputNameFor(Order[i]).stem})
  BY <1>7, ProposedIs
<1> QED
  BY <1>3, <1>6, <1>8, ANumberIsFree DEF NameAt

(* A decision with at most ten thousand winners, whatever their names, is extracted
   without one file overwriting another, as long as no two names are folded. *)
THEOREM FewWinnersAreSafe ==
  Spec /\ [](NothingFolded /\ Len(decided) <= kMaxDisambiguationAttempts)
    => [](WrittenIsThere /\ RerunLeavesOnlyItsFiles)
<1>1. DecisionInv /\ Len(decided) <= kMaxDisambiguationAttempts => NamesAreNew
  BY FewNamesAreNew
<1> QED
  BY <1>1, DeliveryInvariant, WrittenIsRight, RerunIsRight, PTL

===============================================================================
