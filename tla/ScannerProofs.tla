----------------------------- MODULE ScannerProofs -----------------------------
(***************************************************************************)
(* The carve scan and the device it reads through: the map of what was     *)
(* lost, that a device that has gone is noticed, and that windows find     *)
(* what one pass over the whole device would.                              *)
(***************************************************************************)
EXTENDS SignatureScanner, NatFacts, FiniteSetTheorems

(***************************************************************************)
(* The bad-sector map.                                                     *)
(***************************************************************************)

Ranges == [offsetBytes : Nat, lengthBytes : Nat \ {0}]

Covered(s) == UNION {BytesOfRange(s[i]) : i \in DOMAIN s}

RangesApart(s) == \A i, j \in DOMAIN s : i < j => endOfRange(s[i]) < s[j].offsetBytes

StartBy(s, b) == \A i \in DOMAIN s : s[i].offsetBytes <= b

LEMMA RangeIs ==
  ASSUME NEW r \in Ranges
  PROVE  /\ r.offsetBytes \in Nat /\ endOfRange(r) \in Nat /\ r.offsetBytes < endOfRange(r)
BY DEF Ranges, endOfRange

(* Folding one range in keeps the type. *)
LEMMA FoldedType ==
  ASSUME NEW s \in Seq(Ranges), NEW one \in Ranges
  PROVE  folded(s, one) \in Seq(Ranges)
<1>1. CASE ~(s # <<>> /\ one.offsetBytes <= endOfRange(Last(s)))
  BY <1>1 DEF folded
<1>2. CASE s # <<>> /\ one.offsetBytes <= endOfRange(Last(s))
  <2> DEFINE top == Max({endOfRange(Last(s)), endOfRange(one)})
             len == top - Last(s).offsetBytes
             new == [Last(s) EXCEPT !.lengthBytes = len]
  <2>1. Len(s) \in Nat \ {0} /\ Last(s) = s[Len(s)] /\ Last(s) \in Ranges
    BY <1>2 DEF Last
  <2>2. endOfRange(Last(s)) \in Nat /\ endOfRange(one) \in Nat
        /\ endOfRange(Last(s)) > Last(s).offsetBytes /\ Last(s).offsetBytes \in Nat
    BY <2>1 DEF Ranges, endOfRange
  <2>3. top \in Nat /\ top >= endOfRange(Last(s))
    <3> DEFINE a == endOfRange(Last(s))
               b == endOfRange(one)
    <3>1. a \in Nat /\ b \in Nat
      BY <2>2
    <3> HIDE DEF a, b
    <3>2. Max({a, b}) = IF a >= b THEN a ELSE b
      BY <3>1, MinMaxOfTwo
    <3>3. Max({a, b}) \in Nat /\ Max({a, b}) >= a
      BY <3>1, <3>2
    <3> QED
      BY <3>3 DEF a, b
  <2>4. len \in Nat \ {0}
    BY <2>2, <2>3
  <2> HIDE DEF len
  <2>5. new \in Ranges
    BY <2>1, <2>4 DEF Ranges
  <2>6. folded(s, one) = [s EXCEPT ![Len(s)] = new]
    BY <1>2, <2>1 DEF folded, len
  <2> HIDE DEF new
  <2>7. [s EXCEPT ![Len(s)] = new] \in Seq(Ranges)
    BY <2>1, <2>5
  <2> QED
    BY <2>6, <2>7
<1> QED
  BY <1>1, <1>2

(* Folding a range that starts no earlier than those before it covers what it covers
   and leaves them apart. *)
LEMMA FoldedIs ==
  ASSUME NEW s \in Seq(Ranges), RangesApart(s), NEW one \in Ranges, StartBy(s, one.offsetBytes)
  PROVE  /\ RangesApart(folded(s, one)) /\ StartBy(folded(s, one), one.offsetBytes)
         /\ Covered(folded(s, one)) = Covered(s) \cup BytesOfRange(one)
<1>0. Len(s) \in Nat /\ DOMAIN s = 1..Len(s) /\ \A i \in 1..Len(s) : s[i] \in Ranges
  OBVIOUS
<1>1. CASE ~(s # <<>> /\ one.offsetBytes <= endOfRange(Last(s)))
  <2> DEFINE t == Append(s, one)
  <2>1. folded(s, one) = t
    BY <1>1 DEF folded
  <2>2. /\ DOMAIN t = 1..(Len(s) + 1) /\ t[Len(s) + 1] = one
        /\ \A i \in 1..Len(s) : t[i] = s[i]
    OBVIOUS
  <2> HIDE DEF t
  <2>3. \A i \in 1..Len(s) : endOfRange(s[i]) < one.offsetBytes
    <3> SUFFICES ASSUME NEW i \in 1..Len(s) PROVE endOfRange(s[i]) < one.offsetBytes
      OBVIOUS
    <3>1. s # <<>> /\ Last(s) = s[Len(s)] /\ Len(s) \in 1..Len(s)
      BY <1>0 DEF Last
    <3>2. s[i] \in Ranges /\ s[Len(s)] \in Ranges
      BY <1>0, <3>1
    <3>3. /\ endOfRange(s[i]) \in Nat /\ endOfRange(s[Len(s)]) \in Nat /\ one.offsetBytes \in Nat
          /\ s[Len(s)].offsetBytes \in Nat /\ s[Len(s)].offsetBytes < endOfRange(s[Len(s)])
      BY <3>2, RangeIs
    <3>4. ~(one.offsetBytes <= endOfRange(s[Len(s)]))
      BY <1>1, <3>1
    <3>5. i < Len(s) => endOfRange(s[i]) < s[Len(s)].offsetBytes
      BY <1>0, <3>1 DEF RangesApart
    <3>6. i = Len(s) \/ i < Len(s)
      <4>1. Len(s) \in Nat
        BY <1>0
      <4> QED
        BY <4>1
    <3> QED
      BY <3>3, <3>4, <3>5, <3>6
  <2>4. RangesApart(t)
    <3> SUFFICES ASSUME NEW i \in 1..(Len(s) + 1), NEW j \in 1..(Len(s) + 1), i < j
                 PROVE  endOfRange(t[i]) < t[j].offsetBytes
      BY <2>2 DEF RangesApart
    <3>1. i \in 1..Len(s)
      BY <1>0
    <3>2. CASE j = Len(s) + 1
      BY <2>2, <2>3, <3>1, <3>2
    <3>3. CASE j # Len(s) + 1
      <4>1. j \in 1..Len(s)
        BY <1>0, <3>3
      <4> QED
        BY <1>0, <2>2, <3>1, <4>1 DEF RangesApart
    <3> QED
      BY <3>2, <3>3
  <2>5. StartBy(t, one.offsetBytes)
    <3>1. ASSUME NEW i \in 1..(Len(s) + 1) PROVE t[i].offsetBytes <= one.offsetBytes
      <4>1. i = Len(s) + 1 \/ i \in 1..Len(s)
        BY <1>0
      <4>2. one.offsetBytes \in Nat
        BY DEF Ranges
      <4> QED
        BY <1>0, <2>2, <4>1, <4>2 DEF StartBy
    <3> QED
      BY <2>2, <3>1 DEF StartBy
  <2>6. Covered(t) = Covered(s) \cup BytesOfRange(one)
    <3>1. 1..(Len(s) + 1) = 1..Len(s) \cup {Len(s) + 1}
      BY <1>0
    <3> QED
      BY <1>0, <2>2, <3>1 DEF Covered
  <2> QED
    BY <2>1, <2>4, <2>5, <2>6
<1>2. CASE s # <<>> /\ one.offsetBytes <= endOfRange(Last(s))
  <2> DEFINE top == Max({endOfRange(Last(s)), endOfRange(one)})
             new == [Last(s) EXCEPT !.lengthBytes = top - Last(s).offsetBytes]
             n == Len(s)
             t == [s EXCEPT ![n] = new]
  <2>1. n \in Nat \ {0} /\ n \in 1..n /\ Last(s) = s[n] /\ Last(s) \in Ranges
    BY <1>2 DEF Last
  <2>2. folded(s, one) = t
    BY <1>2, <2>1 DEF folded
  <2>3. endOfRange(s[n]) \in Nat /\ endOfRange(one) \in Nat /\ s[n].offsetBytes \in Nat
        /\ one.offsetBytes \in Nat /\ s[n].offsetBytes <= one.offsetBytes
        /\ one.offsetBytes <= endOfRange(s[n])
    BY <1>2, <2>1 DEF Ranges, endOfRange, StartBy
  <2>4. top = IF endOfRange(s[n]) >= endOfRange(one) THEN endOfRange(s[n]) ELSE endOfRange(one)
    BY <2>1, <2>3, MinMaxOfTwo
  <2>5. new.offsetBytes = s[n].offsetBytes /\ endOfRange(new) = top
    <3>1. new.offsetBytes = s[n].offsetBytes /\ new.lengthBytes = top - s[n].offsetBytes
      BY <2>1 DEF Ranges
    <3>2. top \in Nat
      BY <2>3, <2>4
    <3> QED
      BY <2>3, <3>1, <3>2 DEF endOfRange
  <2>6. BytesOfRange(new) = BytesOfRange(s[n]) \cup BytesOfRange(one)
    <3> HIDE DEF new
    <3>1. new.offsetBytes..(top - 1)
            = s[n].offsetBytes..(endOfRange(s[n]) - 1) \cup one.offsetBytes..(endOfRange(one) - 1)
      BY <2>3, <2>4, <2>5
    <3> QED
      BY <2>5, <3>1 DEF BytesOfRange
  <2>7. DOMAIN t = 1..n /\ t[n] = new /\ \A i \in 1..n : i # n => t[i] = s[i]
    BY <1>0, <2>1
  <2> HIDE DEF new, t, top
  <2>8. RangesApart(t)
    <3> SUFFICES ASSUME NEW i \in 1..n, NEW j \in 1..n, i < j
                 PROVE  endOfRange(t[i]) < t[j].offsetBytes
      BY <2>7 DEF RangesApart
    <3>1. t[i] = s[i] /\ t[j].offsetBytes = s[j].offsetBytes
      BY <2>1, <2>5, <2>7, SMTT(60)
    <3> QED
      BY <1>0, <3>1 DEF RangesApart
  <2>9. StartBy(t, one.offsetBytes)
    <3>1. \A i \in 1..n : t[i].offsetBytes = s[i].offsetBytes
      BY <2>5, <2>7
    <3> QED
      BY <1>0, <2>7, <3>1 DEF StartBy
  <2>10. Covered(t) = Covered(s) \cup BytesOfRange(one)
    <3>1. \A i \in 1..n : BytesOfRange(s[i]) \subseteq BytesOfRange(t[i])
                          /\ BytesOfRange(t[i]) \subseteq BytesOfRange(s[i]) \cup BytesOfRange(one)
      BY <2>6, <2>7
    <3>2. BytesOfRange(one) \subseteq BytesOfRange(t[n]) /\ n \in 1..n
      BY <2>1, <2>6, <2>7
    <3> QED
      BY <1>0, <2>7, <3>1, <3>2 DEF Covered
  <2> QED
    BY <2>2, <2>8, <2>9, <2>10
<1> QED
  BY <1>1, <1>2

(* coalesce, over ranges in the order of their offsets: what comes out covers the same
   bytes, and no two of its ranges touch. *)
LEMMA CoalesceIs ==
  ASSUME NEW s \in Seq(Ranges),
         \A i, j \in 1..Len(s) : i < j => s[i].offsetBytes <= s[j].offsetBytes
  PROVE  /\ coalesce(s) \in Seq(Ranges) /\ RangesApart(coalesce(s))
         /\ Covered(coalesce(s)) = Covered(s)
<1> DEFINE N == Len(s)
           V == Seq(Ranges)
           none == <<>>
           step == [k \in 1..N |-> [v \in V |-> folded(v, s[k])]]
           Is(f) == f = [k \in 0..N |-> IF k = 0 THEN none ELSE folded(f[k - 1], s[k])]
           f == CHOOSE g : Is(g)
<1>1. N \in Nat /\ none \in V /\ DOMAIN s = 1..N /\ \A i \in 1..N : s[i] \in Ranges
  OBVIOUS
<1>2. ASSUME NEW k \in 1..N, NEW v \in V PROVE folded(v, s[k]) \in V
  BY <1>1, FoldedType
<1>3. step \in [1..N -> [V -> V]]
  BY <1>2
<1> HIDE DEF V
<1>4. PICK g \in [0..N -> V] : g[0] = none /\ \A k \in 1..N : g[k] = step[k][g[k - 1]]
  <2> HIDE DEF step, N, none
  <2> QED
    BY <1>1, <1>3, RecursionExists, SMTT(60)
<1>5. \A k \in 1..N : k - 1 \in 0..N /\ k \in 0..N /\ k # 0
  BY <1>1
<1>6. Is(g)
  <2>1. \A k \in 1..N : g[k] = folded(g[k - 1], s[k])
    BY <1>4, <1>5
  <2>2. \A k \in 0..N : k = 0 \/ k \in 1..N
    BY <1>1
  <2> QED
    BY <1>4, <2>1, <2>2
<1>7. Is(f)
  <2> HIDE DEF Is
  <2> QED
    BY <1>6
<1>8. coalesce(s) = f[N]
  BY DEF coalesce
<1> HIDE DEF f
<1>9. f[0] = none /\ \A k \in 1..N : f[k] = folded(f[k - 1], s[k])
  <2>1. 0 \in 0..N
    BY <1>1
  <2> QED
    BY <1>5, <1>7, <2>1
<1> DEFINE Upto(k) == UNION {BytesOfRange(s[i]) : i \in 1..k}
           Good(k) == /\ f[k] \in V /\ RangesApart(f[k]) /\ Covered(f[k]) = Upto(k)
                      /\ \A j \in 1..N : k < j => StartBy(f[k], s[j].offsetBytes)
           S == {k \in Nat : k <= N => Good(k)}
<1>10. 0 \in S
  <2>1. f[0] = <<>> /\ DOMAIN f[0] = {} /\ 1..0 = {}
    BY <1>9
  <2>2. RangesApart(f[0]) /\ Covered(f[0]) = {} /\ \A b : StartBy(f[0], b)
    BY <2>1 DEF RangesApart, Covered, StartBy
  <2>3. Upto(0) = {}
    BY <2>1
  <2>4. Good(0)
    BY <1>1, <1>9, <2>2, <2>3
  <2> QED
    BY <2>4
<1>11. ASSUME NEW k \in S PROVE k + 1 \in S
  <2>1. k \in Nat
    OBVIOUS
  <2> SUFFICES ASSUME k + 1 <= N PROVE Good(k + 1)
    OBVIOUS
  <2>2. k + 1 \in 1..N /\ (k + 1) - 1 = k /\ k < k + 1 /\ k <= N
    BY <1>1, <2>1
  <2>3. Good(k)
    BY <2>2
  <2> DEFINE one == s[k + 1]
  <2>4. one \in Ranges /\ f[k + 1] = folded(f[k], one)
    BY <1>1, <1>9, <2>2
  <2>5. f[k] \in Seq(Ranges) /\ RangesApart(f[k]) /\ StartBy(f[k], one.offsetBytes)
    BY <2>2, <2>3 DEF V
  <2> HIDE DEF one, Good
  <2>6. f[k + 1] \in Seq(Ranges)
    BY <2>4, <2>5, FoldedType
  <2>7. /\ RangesApart(f[k + 1]) /\ StartBy(f[k + 1], one.offsetBytes)
        /\ Covered(f[k + 1]) = Covered(f[k]) \cup BytesOfRange(one)
    BY <2>4, <2>5, FoldedIs
  <2>8. Upto(k + 1) = Upto(k) \cup BytesOfRange(one)
    <3>1. 1..(k + 1) = 1..k \cup {k + 1}
      BY <2>1
    <3> QED
      BY <3>1 DEF one
  <2>9. Covered(f[k]) = Upto(k)
    BY <2>3 DEF Good
  <2>10. ASSUME NEW j \in 1..N, k + 1 < j PROVE StartBy(f[k + 1], s[j].offsetBytes)
    <3>1. one.offsetBytes <= s[j].offsetBytes /\ one.offsetBytes \in Nat /\ s[j].offsetBytes \in Nat
      BY <1>1, <2>2, <2>4, <2>10, RangeIs DEF one
    <3>2. \A i \in DOMAIN f[k + 1] : f[k + 1][i].offsetBytes \in Nat
      BY <2>6, RangeIs, SMTT(60)
    <3> QED
      BY <2>7, <3>1, <3>2 DEF StartBy
  <2> QED
    BY <2>6, <2>7, <2>8, <2>9, <2>10 DEF Good, V
<1>12. S = Nat
  <2>1. S \in SUBSET Nat
    OBVIOUS
  <2> HIDE DEF S
  <2> QED
    BY <1>10, <1>11, <2>1, SetInduction
<1>13. Good(N)
  BY <1>1, <1>12, SMTT(60)
<1>14. Upto(N) = Covered(s)
  BY <1>1 DEF Covered
<1> QED
  BY <1>8, <1>13, <1>14 DEF V

(* recordBad adds one range to a map. *)
LEMMA RecordBadIs ==
  ASSUME NEW s \in Seq(Ranges), RangesApart(s), NEW one \in Ranges
  PROVE  /\ recordBad(s, one) \in Seq(Ranges) /\ RangesApart(recordBad(s, one))
         /\ Covered(recordBad(s, one)) = Covered(s) \cup BytesOfRange(one)
<1> DEFINE N == Len(s)
           low == {i \in DOMAIN s : s[i].offsetBytes <= one.offsetBytes}
           after == Cardinality(low)
           t == InsertAt(s, after + 1, one)
<1>1. N \in Nat /\ DOMAIN s = 1..N /\ \A i \in 1..N : s[i] \in Ranges
  OBVIOUS
<1>2. one.offsetBytes \in Nat /\ \A i \in 1..N : s[i].offsetBytes \in Nat
  BY <1>1, RangeIs
<1>3. \A i, j \in 1..N : i < j => s[i].offsetBytes < s[j].offsetBytes
  <2> SUFFICES ASSUME NEW i \in 1..N, NEW j \in 1..N, i < j
               PROVE  s[i].offsetBytes < s[j].offsetBytes
    OBVIOUS
  <2>1. endOfRange(s[i]) < s[j].offsetBytes
    BY <1>1 DEF RangesApart
  <2>2. s[i].offsetBytes \in Nat /\ endOfRange(s[i]) \in Nat /\ s[i].offsetBytes < endOfRange(s[i])
    BY <1>1, RangeIs
  <2> QED
    BY <1>2, <2>1, <2>2
<1>4. \E a \in 0..N : low = 1..a
  <2>1. CASE low = {}
    <3>1. 0 \in 0..N /\ 1..0 = {}
      BY <1>1
    <3> QED
      BY <2>1, <3>1
  <2>2. CASE low # {}
    <3>1. low \in SUBSET (0..N)
      BY <1>1
    <3> HIDE DEF low
    <3>2. Max(low) \in low /\ \A y \in low : y <= Max(low)
      BY <1>1, <2>2, <3>1, MaxIs
    <3> DEFINE a == Max(low)
    <3>3. a \in 1..N /\ s[a].offsetBytes <= one.offsetBytes
      BY <1>1, <3>2 DEF low
    <3>4. ASSUME NEW i \in 1..N, i <= a PROVE i \in low
      <4>1. i = a \/ s[i].offsetBytes < s[a].offsetBytes
        BY <1>1, <1>3, <3>3, <3>4
      <4>2. s[i].offsetBytes <= one.offsetBytes
        BY <1>2, <3>3, <4>1
      <4> QED
        BY <1>1, <4>2 DEF low
    <3>5. \A i \in low : i \in 1..N /\ i <= a
      BY <1>1, <3>2 DEF low
    <3> HIDE DEF a
    <3>6. a \in 0..N /\ \A i : i \in 1..a <=> i \in 1..N /\ i <= a
      BY <1>1, <3>3
    <3>7. low = 1..a
      BY <3>4, <3>5, <3>6
    <3> QED
      BY <3>6, <3>7
  <2> QED
    BY <2>1, <2>2
<1>5. PICK a \in 0..N : low = 1..a
  BY <1>4
<1>6. after = a
  <2>1. a \in Nat
    BY <1>1
  <2>2. Cardinality(1..a) = IF 1 > a THEN 0 ELSE a - 1 + 1
    BY <2>1, FS_Interval
  <2>3. Cardinality(1..a) = a
    BY <2>1, <2>2
  <2> QED
    BY <1>5, <2>3
<1> HIDE DEF after
<1>7. /\ t \in Seq(Ranges) /\ Len(t) = N + 1
      /\ \A i \in 1..a : t[i] = s[i]
      /\ t[a + 1] = one
      /\ \A i \in (a + 1)..N : t[i + 1] = s[i]
  <2>1. t = SubSeq(s, 1, a) \o <<one>> \o SubSeq(s, a + 1, N)
    <3>1. t = SubSeq(s, 1, (after + 1) - 1) \o <<one>> \o SubSeq(s, after + 1, N)
      BY DEF InsertAt
    <3>2. (after + 1) - 1 = a /\ after + 1 = a + 1
      BY <1>1, <1>6
    <3> QED
      BY <3>1, <3>2
  <2>2. a \in Nat /\ a <= N
    BY <1>1
  <2> DEFINE u == SubSeq(s, 1, a)
             v == SubSeq(s, a + 1, N)
             w == u \o <<one>>
  <2>3. u \in Seq(Ranges) /\ Len(u) = a /\ \A i \in 1..a : u[i] = s[i]
    BY <2>2
  <2>4. v \in Seq(Ranges) /\ Len(v) = N - a /\ \A i \in 1..(N - a) : v[i] = s[a + i]
    BY <2>2
  <2> HIDE DEF u, v
  <2>5. w \in Seq(Ranges) /\ Len(w) = a + 1 /\ w[a + 1] = one /\ \A i \in 1..a : w[i] = u[i]
    BY <2>2, <2>3
  <2> HIDE DEF w
  <2>6. t = w \o v
    BY <2>1 DEF u, v, w
  <2>7. w \o v \in Seq(Ranges) /\ Len(w \o v) = Len(w) + Len(v)
    <3>1. w \in Seq(Ranges) /\ v \in Seq(Ranges)
      BY <2>4, <2>5
    <3> QED
      BY <3>1
  <2>8. \A i \in 1..(a + 1) : (w \o v)[i] = w[i]
    BY <2>2, <2>4, <2>5
  <2>9. \A i \in 1..(N - a) : (w \o v)[a + 1 + i] = v[i]
    BY <1>1, <2>2, <2>4, <2>5
  <2>10. ASSUME NEW i \in (a + 1)..N PROVE (w \o v)[i + 1] = s[i]
    <3>1. i - a \in 1..(N - a) /\ a + 1 + (i - a) = i + 1 /\ a + (i - a) = i
      BY <1>1, <2>2
    <3> QED
      BY <2>4, <2>9, <3>1, ZenonT(90)
  <2>11. \A i \in 1..a : i \in 1..(a + 1)
    BY <2>2
  <2>12. a + 1 \in 1..(a + 1) /\ Len(w) + Len(v) = N + 1
    BY <1>1, <2>2, <2>4, <2>5
  <2> QED
    BY <2>3, <2>5, <2>6, <2>7, <2>8, <2>10, <2>11, <2>12, ZenonT(90)
<1>8. recordBad(s, one) = coalesce(t)
  BY DEF recordBad, after
<1> HIDE DEF t
<1>9. /\ \A i \in 1..a : s[i].offsetBytes <= one.offsetBytes
      /\ \A i \in (a + 1)..N : one.offsetBytes <= s[i].offsetBytes
  <2>1. \A i \in 1..N : s[i].offsetBytes <= one.offsetBytes <=> i \in 1..a
    BY <1>1, <1>5
  <2>2. (\A i \in 1..a : i \in 1..N) /\ \A i \in (a + 1)..N : i \in 1..N /\ i \notin 1..a
    BY <1>1
  <2> QED
    BY <1>2, <2>1, <2>2
<1>10. ASSUME NEW i \in 1..Len(t), NEW j \in 1..Len(t), i < j
       PROVE  t[i].offsetBytes <= t[j].offsetBytes
  <2>0. a \in Nat /\ a <= N
    BY <1>1
  <2>1. ASSUME NEW k \in 1..Len(t)
        PROVE  \/ k \in 1..a /\ t[k] = s[k]
               \/ k = a + 1 /\ t[k] = one
               \/ k - 1 \in (a + 1)..N /\ t[k] = s[k - 1]
    <3>1. k \in 1..a \/ k = a + 1 \/ (k - 1 \in (a + 1)..N /\ (k - 1) + 1 = k)
      BY <1>1, <1>7, <2>0
    <3> QED
      BY <1>7, <3>1
  <2>2. \A k \in 1..a : k \in 1..N
    BY <1>1, <2>0
  <2>3. \A k \in (a + 1)..N : k \in 1..N
    BY <1>1, <2>0
  <2>4. CASE i \in 1..a /\ t[i] = s[i]
    <3>1. CASE j \in 1..a /\ t[j] = s[j]
      BY <1>2, <1>3, <1>10, <2>2, <2>4, <3>1
    <3>2. CASE j = a + 1 /\ t[j] = one
      BY <1>9, <2>4, <3>2
    <3>3. CASE j - 1 \in (a + 1)..N /\ t[j] = s[j - 1]
      BY <1>2, <1>9, <2>2, <2>3, <2>4, <3>3
    <3> QED
      BY <2>1, <3>1, <3>2, <3>3
  <2>5. CASE i = a + 1 /\ t[i] = one
    <3>1. j - 1 \in (a + 1)..N /\ t[j] = s[j - 1]
      BY <1>10, <2>0, <2>1, <2>5
    <3> QED
      BY <1>9, <2>5, <3>1
  <2>6. CASE i - 1 \in (a + 1)..N /\ t[i] = s[i - 1]
    <3>1. j - 1 \in (a + 1)..N /\ t[j] = s[j - 1] /\ i - 1 < j - 1
      BY <1>10, <2>0, <2>1, <2>6
    <3> QED
      BY <1>2, <1>3, <2>3, <2>6, <3>1, SMTT(60)
  <2> QED
    BY <2>1, <2>4, <2>5, <2>6
<1>11. Covered(t) = Covered(s) \cup BytesOfRange(one)
  <2>1. DOMAIN t = 1..(N + 1)
    BY <1>1, <1>7
  <2>2. \A k \in 1..(N + 1) : k \in 1..a \/ k = a + 1 \/ (k - 1 \in (a + 1)..N /\ (k - 1) + 1 = k)
    BY <1>1
  <2>3. \A k \in 1..N : k \in 1..a \/ k \in (a + 1)..N
    BY <1>1
  <2>4. /\ \A k \in 1..a : k \in 1..(N + 1) /\ k \in 1..N
        /\ a + 1 \in 1..(N + 1)
        /\ \A k \in (a + 1)..N : k + 1 \in 1..(N + 1) /\ k \in 1..N
    BY <1>1
  <2>5. ASSUME NEW k \in 1..(N + 1)
        PROVE  t[k] = one \/ \E i \in 1..N : t[k] = s[i]
    BY <1>7, <2>2, <2>4
  <2>6. ASSUME NEW i \in 1..N PROVE \E k \in 1..(N + 1) : t[k] = s[i]
    BY <1>7, <2>3, <2>4
  <2>7. t[a + 1] = one /\ a + 1 \in 1..(N + 1)
    BY <1>7, <2>4
  <2> QED
    BY <1>1, <2>1, <2>5, <2>6, <2>7 DEF Covered
<1>12. /\ coalesce(t) \in Seq(Ranges) /\ RangesApart(coalesce(t))
       /\ Covered(coalesce(t)) = Covered(t)
  BY <1>7, <1>10, CoalesceIs
<1> QED
  BY <1>8, <1>11, <1>12

(***************************************************************************)
(* Reads.                                                                  *)
(***************************************************************************)

LEMMA ContentIs ==
  ASSUME content \in Contents
  PROVE  content \in Seq(ByteValues) /\ content \in Seq(Nat) /\ sizeInBytes \in Nat
<1>1. content \in Seq(Nat) /\ Len(content) \in Nat /\ DOMAIN content = 1..Len(content)
  BY DeviceAssumption
<1>2. \A i \in 1..Len(content) : content[i] \in ByteValues
  BY <1>1 DEF ByteValues, ToSet
<1>3. content \in Seq(ByteValues)
  BY <1>1, <1>2
<1> QED
  BY <1>1, <1>3 DEF sizeInBytes

SliceLen(at, n) ==
  IF at >= sizeInBytes THEN 0 ELSE IF at + n <= sizeInBytes THEN n ELSE sizeInBytes - at

(* A slice is what the device holds there, up to its end. *)
LEMMA SliceIs ==
  ASSUME content \in Contents, NEW at \in Nat, NEW n \in Nat
  PROVE  /\ Slice(at, n) \in Seq(ByteValues) /\ Len(Slice(at, n)) = SliceLen(at, n)
         /\ \A i \in 1..SliceLen(at, n) : Slice(at, n)[i] = content[at + i]
<1> DEFINE z == sizeInBytes
           top == Min({at + n, z})
<1>1. z \in Nat /\ z = Len(content) /\ content \in Seq(ByteValues)
  BY ContentIs DEF sizeInBytes
<1>2. top = IF at + n <= z THEN at + n ELSE z
  BY <1>1, MinMaxOfTwo
<1>3. Slice(at, n) = SubSeq(content, at + 1, top)
  BY <1>1 DEF Slice, sliceOf
<1> HIDE DEF top
<1>4. top \in Nat /\ top <= Len(content) /\ at + 1 >= 1
  BY <1>1, <1>2
<1>5. SubSeq(content, at + 1, top) \in Seq(ByteValues)
  BY <1>1, <1>4
<1>6. Len(SubSeq(content, at + 1, top)) = IF at + 1 <= top THEN top - (at + 1) + 1 ELSE 0
  BY <1>1, <1>4
<1>7. Len(SubSeq(content, at + 1, top)) = SliceLen(at, n)
  BY <1>1, <1>2, <1>6 DEF SliceLen
<1>8. \A i \in 1..SliceLen(at, n) : i \in 1..(top - (at + 1) + 1) /\ at + 1 <= top
  BY <1>1, <1>2 DEF SliceLen
<1>9. \A i \in 1..(top - (at + 1) + 1) : SubSeq(content, at + 1, top)[i] = content[at + i]
  BY <1>1, <1>4
<1> QED
  BY <1>3, <1>5, <1>7, <1>8, <1>9

LEMMA SliceLenIs ==
  ASSUME content \in Contents, NEW at \in Nat, NEW n \in Nat
  PROVE  /\ SliceLen(at, n) \in 0..n /\ SliceLen(at, n) \in Nat /\ SliceLen(at, n) <= n
         /\ SliceLen(at, n) = n \/ at + SliceLen(at, n) >= sizeInBytes
         /\ SliceLen(at, n) > 0 => at + SliceLen(at, n) <= sizeInBytes
         /\ at < sizeInBytes /\ n > 0 => SliceLen(at, n) > 0
         /\ SliceLen(at, SliceLen(at, n)) = SliceLen(at, n)
<1>1. sizeInBytes \in Nat
  BY ContentIs
<1> QED
  BY <1>1 DEF SliceLen

(* Bytes that are the device's from an offset on are the slice of that length. *)
LEMMA IsSlice ==
  ASSUME content \in Contents, NEW at \in Nat, NEW s \in Seq(ByteValues),
         Len(s) = 0 \/ at + Len(s) <= sizeInBytes,
         \A i \in 1..Len(s) : s[i] = content[at + i]
  PROVE  s = Slice(at, Len(s))
<1> DEFINE t == Slice(at, Len(s))
<1>1. Len(s) \in Nat /\ sizeInBytes \in Nat
  BY ContentIs
<1>2. SliceLen(at, Len(s)) = Len(s)
  BY <1>1 DEF SliceLen
<1>3. t \in Seq(ByteValues) /\ Len(t) = Len(s) /\ \A i \in 1..Len(s) : t[i] = content[at + i]
  BY <1>1, <1>2, SliceIs
<1> HIDE DEF t
<1>4. s = t
  BY <1>3
<1> QED
  BY <1>4 DEF t

LEMMA SliceOfItsLength ==
  ASSUME content \in Contents, NEW at \in Nat, NEW n \in Nat
  PROVE  Slice(at, n) = Slice(at, Len(Slice(at, n)))
<1> DEFINE s == Slice(at, n)
<1>1. /\ s \in Seq(ByteValues) /\ Len(s) = SliceLen(at, n)
      /\ \A i \in 1..SliceLen(at, n) : s[i] = content[at + i]
  BY SliceIs
<1>2. Len(s) = 0 \/ at + Len(s) <= sizeInBytes
  <2>1. SliceLen(at, n) \in Nat /\ (SliceLen(at, n) > 0 => at + SliceLen(at, n) <= sizeInBytes)
    BY SliceLenIs
  <2> QED
    BY <1>1, <2>1
<1> HIDE DEF s
<1>3. s = Slice(at, Len(s))
  BY <1>1, <1>2, IsSlice
<1> QED
  BY <1>3 DEF s

LEMMA SlicesJoin ==
  ASSUME content \in Contents, NEW at \in Nat, NEW s \in Seq(ByteValues), s = Slice(at, Len(s)),
         NEW n \in Nat
  PROVE  s \o Slice(at + Len(s), n) = Slice(at, Len(s \o Slice(at + Len(s), n)))
<1> DEFINE l == Len(s)
           u == Slice(at + l, n)
           w == s \o u
<1>1. l \in Nat /\ sizeInBytes \in Nat /\ at + l \in Nat
  BY ContentIs
<1>2. /\ u \in Seq(ByteValues) /\ Len(u) = SliceLen(at + l, n)
      /\ \A i \in 1..SliceLen(at + l, n) : u[i] = content[at + l + i]
  BY <1>1, SliceIs
<1>3. Len(s) = SliceLen(at, l) /\ \A i \in 1..SliceLen(at, l) : Slice(at, l)[i] = content[at + i]
  BY <1>1, SliceIs
<1>4. \A i \in 1..l : s[i] = content[at + i]
  BY <1>3
<1>5. l = 0 \/ at + l <= sizeInBytes
  BY <1>1, <1>3 DEF SliceLen
<1> HIDE DEF u
<1>6. w \in Seq(ByteValues) /\ Len(w) = l + Len(u)
  BY <1>2, SMTT(60)
<1>7. Len(u) \in Nat
  BY <1>2
<1>8. \A i \in 1..l : w[i] = s[i]
  BY <1>1, <1>2, <1>7
<1>9. \A i \in 1..Len(u) : w[l + i] = u[i]
  BY <1>1, <1>2, <1>7
<1> HIDE DEF w, l
<1>10. ASSUME NEW i \in 1..Len(w) PROVE w[i] = content[at + i]
  <2>1. CASE i <= l
    BY <1>1, <1>4, <1>8, <2>1
  <2>2. CASE i > l
    <3>1. i - l \in 1..Len(u) /\ l + (i - l) = i /\ at + l + (i - l) = at + i
      BY <1>1, <1>6, <1>7, <2>2
    <3> QED
      BY <1>2, <1>9, <3>1
  <2> QED
    BY <1>1, <2>1, <2>2
<1>11. Len(w) = 0 \/ at + Len(w) <= sizeInBytes
  BY <1>1, <1>2, <1>5, <1>6, <1>7 DEF SliceLen
<1>12. w = Slice(at, Len(w))
  BY <1>6, <1>10, <1>11, IsSlice
<1> QED
  BY <1>12 DEF w, u, l

ReadStates == {"none", "whole", "sectors", "ok", "lost"}

Reads == [at : Nat, want : Nat, got : Seq(ByteValues), state : ReadStates]

(* What ReadInv says, of any read. *)
ReadOk(r, lost, zeros) ==
  /\ Len(r.got) <= r.want
  /\ r.state \in {"none", "whole"} => r.got = <<>>
  /\ r.state \in {"whole", "sectors"} => r.want > 0
  /\ r.state \in {"none", "whole", "ok"} => lost < kLostSourceRunBytes
  /\ r.state = "ok" => Len(r.got) = r.want \/ r.at + Len(r.got) >= sizeInBytes
  /\ zeros = {} => r.got = Slice(r.at, Len(r.got))

LEMMA ReadInvIs == ReadInv <=> ReadOk(read, contiguousLost, invented)
BY DEF ReadInv, ReadOk, Here

LEMMA ReadInvNext ==
  ASSUME content' = content
  PROVE  ReadInv' <=> ReadOk(read', contiguousLost', invented')
BY DEF ReadInv, ReadOk, Here, Slice, sizeInBytes

DeviceInv == DeviceTypes /\ ReadInv /\ BadMapIsTheInvented

LEMMA BadMapIs ==
  BadMapIsTheInvented <=> Covered(bad) = invented /\ RangesApart(bad)
BY DEF BadMapIsTheInvented, Covered, RangesApart

LEMMA BadMapNext ==
  BadMapIsTheInvented' <=> Covered(bad') = invented' /\ RangesApart(bad')
BY DEF BadMapIsTheInvented, Covered, RangesApart

LEMMA EmptyRead ==
  ASSUME content \in Contents, NEW at \in Nat
  PROVE  <<>> = Slice(at, Len(<<>>)) /\ <<>> \in Seq(ByteValues) /\ Len(<<>>) = 0
<1> DEFINE s == <<>>
<1>1. s \in Seq(ByteValues) /\ Len(s) = 0
  OBVIOUS
<1>2. \A i \in 1..Len(s) : s[i] = content[at + i]
  BY <1>1
<1> HIDE DEF s
<1>3. s = Slice(at, Len(s))
  BY <1>1, <1>2, IsSlice
<1> QED
  BY <1>1, <1>3 DEF s

(* The device's own part of the state at the start, and where a read begins. *)
LEMMA DeviceStarts == DeviceInit => DeviceInv
<1> SUFFICES ASSUME DeviceInit PROVE DeviceInv
  OBVIOUS
<1>1. content \in Contents /\ bad = <<>> /\ contiguousLost = 0 /\ lostRunStart = 0
      /\ read = NoRead /\ invented = {} /\ answeredTo = 0
  BY DEF DeviceInit
<1>2. <<>> \in Seq(ByteValues) /\ <<>> \in Seq(Ranges) /\ 0 \in Nat
  OBVIOUS
<1>3. read \in Reads
  BY <1>1, <1>2 DEF NoRead, Reads, ReadStates
<1>4. DeviceTypes
  BY <1>1, <1>2, <1>3 DEF DeviceTypes, Reads, ReadStates, Ranges
<1>5. ReadOk(read, contiguousLost, invented)
  <2>1. read.got = <<>> /\ read.at = 0 /\ read.want = 0 /\ read.state = "none"
    BY <1>1 DEF NoRead
  <2>2. kLostSourceRunBytes \in Nat \ {0}
    BY DeviceAssumption
  <2>3. <<>> = Slice(0, Len(<<>>)) /\ Len(<<>>) = 0
    BY <1>1, EmptyRead
  <2> QED
    BY <1>1, <2>1, <2>2, <2>3 DEF ReadOk
<1>6. BadMapIsTheInvented
  <2>1. DOMAIN bad = {}
    BY <1>1
  <2> QED
    BY <1>1, <2>1 DEF BadMapIsTheInvented
<1> QED
  BY <1>4, <1>5, <1>6, ReadInvIs DEF DeviceInv

LEMMA ReadBegins ==
  ASSUME DeviceInv, NEW at \in Nat, NEW count \in Nat \ {0}, read.state \in {"none", "ok"},
         readAt(at, count),
         UNCHANGED <<device, bad, contiguousLost, lostRunStart, invented, answeredTo>>
  PROVE  /\ DeviceInv' /\ content' = content
         /\ read'.at = at /\ read'.want = count /\ read'.state = "whole" /\ read'.got = <<>>
<1>1. content' = content /\ bad' = bad /\ contiguousLost' = contiguousLost
      /\ lostRunStart' = lostRunStart /\ invented' = invented /\ answeredTo' = answeredTo
  BY DEF device
<1>2. read' = [at |-> at, want |-> count, got |-> <<>>, state |-> "whole"]
  BY DEF readAt
<1>3. read'.at = at /\ read'.want = count /\ read'.state = "whole" /\ read'.got = <<>>
  BY <1>2
<1>4. content \in Contents /\ contiguousLost < kLostSourceRunBytes
  BY DEF DeviceInv, DeviceTypes, ReadInv
<1>5. <<>> = Slice(at, Len(<<>>)) /\ <<>> \in Seq(ByteValues) /\ Len(<<>>) = 0
  BY <1>4, EmptyRead
<1>6. read' \in Reads
  BY <1>2, <1>5 DEF Reads, ReadStates
<1>7. DeviceTypes'
  BY <1>1, <1>6 DEF DeviceInv, DeviceTypes, Reads, ReadStates
<1>8. ReadOk(read', contiguousLost', invented')
  BY <1>1, <1>3, <1>4, <1>5 DEF ReadOk
<1>9. BadMapIsTheInvented'
  BY <1>1, BadMapIs, BadMapNext DEF DeviceInv
<1> QED
  BY <1>1, <1>3, <1>7, <1>8, <1>9, ReadInvNext DEF DeviceInv

(* What a read in progress may turn into. *)
ReadGoesOn ==
  /\ content' = content /\ read'.at = read.at /\ read'.want = read.want
  /\ \/ read' = read
     \/ read.state \in {"whole", "sectors"} /\ read'.state \in {"sectors", "ok", "lost"}

LEMMA FurthestIs ==
  ASSUME DeviceTypes, NEW at \in Nat, NEW n \in Nat
  PROVE  /\ Furthest(at, n) \in Nat /\ Furthest(at, n) >= answeredTo
         /\ SliceLen(at, n) > 0 => Furthest(at, n) >= at + SliceLen(at, n)
<1> DEFINE s == Slice(at, n)
           b == at + Len(s)
<1>1. content \in Contents /\ answeredTo \in Nat
  BY DEF DeviceTypes
<1>2. s \in Seq(ByteValues) /\ Len(s) = SliceLen(at, n) /\ SliceLen(at, n) \in 0..n
  BY <1>1, SliceIs, SliceLenIs
<1>3. Furthest(at, n) = IF s = <<>> THEN answeredTo ELSE Max({answeredTo, b})
  BY DEF Furthest
<1> HIDE DEF s
<1>4. (s = <<>> <=> Len(s) = 0) /\ Len(s) \in Nat
  BY <1>2
<1>5. b \in Nat
  BY <1>4
<1> HIDE DEF b
<1>6. Max({answeredTo, b}) = IF answeredTo >= b THEN answeredTo ELSE b
  BY <1>1, <1>5, MinMaxOfTwo
<1>7. CASE s = <<>>
  BY <1>1, <1>2, <1>3, <1>4, <1>7
<1>8. CASE s # <<>>
  <2>1. b = at + SliceLen(at, n)
    BY <1>2 DEF b
  <2> QED
    BY <1>1, <1>3, <1>5, <1>6, <1>8, <2>1
<1> QED
  BY <1>7, <1>8

LEMMA StepLen ==
  ASSUME DeviceTypes, ReadInv, Walking
  PROVE  /\ Here \in Nat /\ Step \in Nat \ {0} /\ Step + Len(read.got) <= read.want
         /\ Len(read.got) \in Nat /\ Here = read.at + Len(read.got)
         /\ read.at \in Nat /\ read.want \in Nat /\ read.got \in Seq(ByteValues)
<1> DEFINE a == read.want - Len(read.got)
<1>1. read.at \in Nat /\ read.want \in Nat /\ read.got \in Seq(ByteValues)
  BY DEF DeviceTypes
<1>2. Len(read.got) \in Nat /\ Len(read.got) < read.want
  BY <1>1 DEF Walking
<1>3. a \in Nat /\ a > 0 /\ SectorSize \in Nat \ {0}
  BY <1>1, <1>2, DeviceAssumption
<1>4. Step = Min({a, SectorSize})
  BY DEF Step
<1> HIDE DEF a
<1>5. Step = IF a <= SectorSize THEN a ELSE SectorSize
  BY <1>3, <1>4, MinMaxOfTwo
<1>6. Step \in Nat \ {0} /\ Step <= a
  BY <1>3, <1>5
<1>7. Here = read.at + Len(read.got)
  BY DEF Here
<1> HIDE DEF Step, Here
<1> QED
  BY <1>1, <1>2, <1>6, <1>7 DEF a

LEMMA WholeKeeps ==
  ASSUME DeviceInv, readWhole \/ wholeFails
  PROVE  DeviceInv' /\ ReadGoesOn
<1>0. DeviceTypes /\ content \in Contents /\ read \in Reads /\ read.at \in Nat /\ read.want \in Nat
      /\ read.got \in Seq(ByteValues) /\ contiguousLost \in Nat
  BY DEF DeviceInv, DeviceTypes, Reads, ReadStates
<1>1. content' = content /\ bad' = bad /\ lostRunStart' = lostRunStart /\ invented' = invented
  BY DEF readWhole, wholeFails, device
<1>2. BadMapIsTheInvented'
  BY <1>1, BadMapIs, BadMapNext DEF DeviceInv
<1>3. ReadOk(read, contiguousLost, invented) /\ read.state = "whole"
  BY ReadInvIs DEF DeviceInv, readWhole, wholeFails
<1>4. CASE readWhole
  <2> DEFINE s == Slice(read.at, read.want)
  <2>1. read' = [read EXCEPT !.got = s, !.state = "ok"] /\ contiguousLost' = 0
        /\ answeredTo' = Furthest(read.at, read.want)
    BY <1>4 DEF readWhole
  <2>2. s \in Seq(ByteValues) /\ s = Slice(read.at, Len(s)) /\ Len(s) = SliceLen(read.at, read.want)
    BY <1>0, SliceIs, SliceOfItsLength
  <2>3. /\ SliceLen(read.at, read.want) <= read.want
        /\ \/ SliceLen(read.at, read.want) = read.want
           \/ read.at + SliceLen(read.at, read.want) >= sizeInBytes
    BY <1>0, SliceLenIs
  <2> HIDE DEF s
  <2>4. /\ read' \in Reads /\ read'.at = read.at /\ read'.want = read.want
        /\ read'.got = s /\ read'.state = "ok"
    BY <1>0, <2>1, <2>2 DEF Reads, ReadStates
  <2>5. answeredTo' \in Nat
    BY <1>0, <2>1, FurthestIs
  <2>6. DeviceTypes'
    BY <1>0, <1>1, <2>1, <2>4, <2>5 DEF DeviceTypes, Reads, ReadStates
  <2>7. ReadOk(read', contiguousLost', invented')
    <3>1. 0 < kLostSourceRunBytes
      BY DeviceAssumption
    <3> QED
      BY <2>1, <2>2, <2>3, <2>4, <3>1 DEF ReadOk
  <2> QED
    BY <1>1, <1>2, <1>3, <2>4, <2>6, <2>7, ReadInvNext DEF DeviceInv, ReadGoesOn
<1>5. CASE wholeFails
  <2>1. read' = [read EXCEPT !.state = "sectors"] /\ contiguousLost' = contiguousLost
        /\ answeredTo' = answeredTo
    BY <1>5 DEF wholeFails
  <2>2. /\ read' \in Reads /\ read'.at = read.at /\ read'.want = read.want
        /\ read'.got = read.got /\ read'.state = "sectors"
    BY <1>0, <2>1 DEF Reads, ReadStates
  <2>3. DeviceTypes'
    BY <1>0, <1>1, <2>1, <2>2 DEF DeviceTypes, Reads, ReadStates
  <2>4. ReadOk(read', contiguousLost', invented')
    BY <1>1, <1>3, <2>1, <2>2 DEF ReadOk
  <2> QED
    BY <1>1, <1>2, <1>3, <2>2, <2>3, <2>4, ReadInvNext DEF DeviceInv, ReadGoesOn
<1> QED
  BY <1>4, <1>5

LEMMA SectorKeeps ==
  ASSUME DeviceInv, readOneSector
  PROVE  DeviceInv' /\ ReadGoesOn
<1> DEFINE s == Slice(Here, Step)
           g == read.got \o s
<1>0. DeviceTypes /\ ReadInv /\ content \in Contents /\ read \in Reads /\ Walking
      /\ read.state = "sectors"
  BY DEF DeviceInv, DeviceTypes, Reads, ReadStates, readOneSector, Walking
<1>1. content' = content /\ bad' = bad /\ lostRunStart' = lostRunStart /\ invented' = invented
  BY DEF readOneSector, device
<1>2. BadMapIsTheInvented'
  BY <1>1, BadMapIs, BadMapNext DEF DeviceInv
<1>3. ReadOk(read, contiguousLost, invented)
  BY <1>0, ReadInvIs
<1>4. /\ Here \in Nat /\ Step \in Nat \ {0} /\ Step + Len(read.got) <= read.want
      /\ Len(read.got) \in Nat /\ Here = read.at + Len(read.got)
      /\ read.at \in Nat /\ read.want \in Nat /\ read.got \in Seq(ByteValues)
  BY <1>0, StepLen
<1>5. contiguousLost' = 0 /\ answeredTo' = Furthest(Here, Step)
      /\ read' = IF s = <<>> THEN [read EXCEPT !.state = "ok"] ELSE [read EXCEPT !.got = g]
  BY DEF readOneSector
<1>6. answeredTo' \in Nat
  BY <1>0, <1>4, <1>5, FurthestIs
<1>7. s \in Seq(ByteValues) /\ Len(s) = SliceLen(Here, Step) /\ SliceLen(Here, Step) \in 0..Step
      /\ (Here < sizeInBytes /\ Step > 0 => SliceLen(Here, Step) > 0) /\ sizeInBytes \in Nat
  BY <1>0, <1>4, SliceIs, SliceLenIs, ContentIs
<1>8. invented = {} => g = Slice(read.at, Len(g))
  <2> DEFINE h == read.got
             u == Slice(read.at + Len(h), Step)
  <2> SUFFICES ASSUME invented = {} PROVE g = Slice(read.at, Len(g))
    OBVIOUS
  <2>1. h \in Seq(ByteValues) /\ h = Slice(read.at, Len(h)) /\ Step \in Nat
    BY <1>3, <1>4 DEF ReadOk
  <2>2. g = h \o u
    BY <1>4
  <2> HIDE DEF h
  <2>3. h \o u = Slice(read.at, Len(h \o u))
    BY <1>0, <1>4, <2>1, SlicesJoin, ZenonT(90)
  <2> QED
    BY <2>2, <2>3
<1> HIDE DEF s, Here, Step
<1>9. g \in Seq(ByteValues) /\ Len(g) = Len(read.got) + Len(s) /\ Len(s) \in Nat
  <2>1. read.got \in Seq(ByteValues) /\ s \in Seq(ByteValues)
    BY <1>4, <1>7
  <2> QED
    BY <2>1
<1> HIDE DEF g
<1>10. 0 < kLostSourceRunBytes
  BY DeviceAssumption
<1>11. CASE s = <<>>
  <2>1. /\ read' \in Reads /\ read'.at = read.at /\ read'.want = read.want
        /\ read'.got = read.got /\ read'.state = "ok"
    BY <1>0, <1>5, <1>11 DEF Reads, ReadStates
  <2>2. Len(s) = 0
    BY <1>11
  <2>3. Here >= sizeInBytes
    BY <1>4, <1>7, <2>2
  <2>4. DeviceTypes'
    BY <1>0, <1>1, <1>5, <1>6, <2>1 DEF DeviceTypes, Reads, ReadStates
  <2>5. ReadOk(read', contiguousLost', invented')
    BY <1>1, <1>3, <1>4, <1>5, <1>10, <2>1, <2>3 DEF ReadOk
  <2> QED
    BY <1>0, <1>1, <1>2, <2>1, <2>4, <2>5, ReadInvNext DEF DeviceInv, ReadGoesOn
<1>12. CASE s # <<>>
  <2>1. /\ read' \in Reads /\ read'.at = read.at /\ read'.want = read.want
        /\ read'.got = g /\ read'.state = "sectors"
    BY <1>0, <1>5, <1>9, <1>12 DEF Reads, ReadStates
  <2>2. Len(g) <= read.want
    BY <1>4, <1>7, <1>9
  <2>3. DeviceTypes'
    BY <1>0, <1>1, <1>5, <1>6, <2>1 DEF DeviceTypes, Reads, ReadStates
  <2>4. ReadOk(read', contiguousLost', invented')
    BY <1>0, <1>1, <1>3, <1>8, <2>1, <2>2 DEF ReadOk
  <2> QED
    BY <1>0, <1>1, <1>2, <2>1, <2>3, <2>4, ReadInvNext DEF DeviceInv, ReadGoesOn
<1> QED
  BY <1>11, <1>12

LEMMA GivingUpKeeps ==
  ASSUME DeviceInv, giveUpOn
  PROVE  DeviceInv' /\ ReadGoesOn /\ Len(read'.got) = Len(read.got) + Step
<1> DEFINE z == Zeros(Step)
           g == read.got \o z
           one == BadRange(Here, Step)
<1>0. DeviceTypes /\ ReadInv /\ content \in Contents /\ read \in Reads /\ Walking
      /\ read.state = "sectors" /\ contiguousLost \in Nat /\ lostRunStart \in Nat
      /\ invented \in SUBSET Nat /\ bad \in Seq(Ranges) /\ answeredTo \in Nat
  BY DEF DeviceInv, DeviceTypes, Reads, ReadStates, giveUpOn, Walking, Ranges
<1>1. content' = content /\ answeredTo' = answeredTo
  BY DEF giveUpOn, device
<1>2. ReadOk(read, contiguousLost, invented)
  BY <1>0, ReadInvIs
<1>3. /\ Here \in Nat /\ Step \in Nat \ {0} /\ Step + Len(read.got) <= read.want
      /\ Len(read.got) \in Nat /\ Here = read.at + Len(read.got)
      /\ read.at \in Nat /\ read.want \in Nat /\ read.got \in Seq(ByteValues)
  BY <1>0, StepLen
<1>4. /\ read' = [read EXCEPT !.got = g] /\ bad' = recordBad(bad, one)
      /\ lostRunStart' = IF contiguousLost = 0 THEN Here ELSE lostRunStart
      /\ contiguousLost' = contiguousLost + Step
      /\ invented' = invented \cup (Here..(Here + Step - 1))
  BY DEF giveUpOn
<1>5. z \in Seq(ByteValues) /\ Len(z) = Step
  <2>1. 0 \in ByteValues
    BY DEF ByteValues
  <2> QED
    BY <1>3, <2>1 DEF Zeros
<1>6. /\ one \in Ranges /\ BytesOfRange(one) = Here..(Here + Step - 1)
  BY <1>3 DEF BadRange, Ranges, BytesOfRange, endOfRange
<1> HIDE DEF z, Here, Step, one
<1>7. g \in Seq(ByteValues) /\ Len(g) = Len(read.got) + Len(z)
  BY <1>3, <1>5
<1> HIDE DEF g
<1>8. /\ read' \in Reads /\ read'.at = read.at /\ read'.want = read.want
      /\ read'.got = g /\ read'.state = "sectors"
  BY <1>0, <1>4, <1>7 DEF Reads, ReadStates
<1>9. BadMapIsTheInvented
  BY DEF DeviceInv
<1>10. /\ bad' \in Seq(Ranges) /\ RangesApart(bad')
       /\ Covered(bad') = Covered(bad) \cup BytesOfRange(one)
  BY <1>0, <1>4, <1>6, <1>9, BadMapIs, RecordBadIs
<1>11. BadMapIsTheInvented'
  BY <1>4, <1>6, <1>9, <1>10, BadMapIs, BadMapNext
<1>12. invented' \subseteq Nat /\ Here \in invented'
  BY <1>0, <1>3, <1>4, SMTT(60)
<1>13. contiguousLost' \in Nat /\ lostRunStart' \in Nat
  BY <1>0, <1>3, <1>4
<1>14. DeviceTypes'
  BY <1>0, <1>1, <1>8, <1>10, <1>12, <1>13 DEF DeviceTypes, Reads, ReadStates, Ranges
<1>15. ReadOk(read', contiguousLost', invented')
  <2>1. Len(g) <= read.want /\ invented' # {}
    BY <1>3, <1>5, <1>7, <1>12
  <2> QED
    BY <1>0, <1>2, <1>8, <2>1 DEF ReadOk
<1> QED
  BY <1>0, <1>1, <1>5, <1>7, <1>8, <1>11, <1>14, <1>15, ReadInvNext DEF DeviceInv, ReadGoesOn

LEMMA EndOfReadKeeps ==
  ASSUME DeviceInv, readSectorwise \/ vanish
  PROVE  DeviceInv' /\ ReadGoesOn
<1>0. DeviceTypes /\ ReadInv /\ content \in Contents /\ read \in Reads /\ contiguousLost \in Nat
      /\ Len(read.got) \in Nat /\ read.want \in Nat
  BY DEF DeviceInv, DeviceTypes, Reads, ReadStates
<1>1. content' = content /\ bad' = bad /\ lostRunStart' = lostRunStart /\ invented' = invented
      /\ contiguousLost' = contiguousLost /\ answeredTo' = answeredTo
  BY DEF readSectorwise, vanish, device
<1>2. BadMapIsTheInvented'
  BY <1>1, BadMapIs, BadMapNext DEF DeviceInv
<1>3. ReadOk(read, contiguousLost, invented)
  BY <1>0, ReadInvIs
<1>4. CASE readSectorwise
  <2> DEFINE st == IF contiguousLost >= kLostSourceRunBytes THEN "lost" ELSE "ok"
  <2>1. read' = [read EXCEPT !.state = st] /\ read.state = "sectors" /\ ~Walking
    BY <1>4 DEF readSectorwise
  <2>2. /\ read' \in Reads /\ read'.at = read.at /\ read'.want = read.want
        /\ read'.got = read.got /\ read'.state = st
    BY <1>0, <2>1 DEF Reads, ReadStates
  <2>3. kLostSourceRunBytes \in Nat /\ Len(read.got) <= read.want
    BY <1>3, DeviceAssumption DEF ReadOk
  <2>4. st = "ok" => contiguousLost < kLostSourceRunBytes /\ Len(read.got) = read.want
    BY <1>0, <2>1, <2>3 DEF Walking
  <2>5. DeviceTypes'
    BY <1>0, <1>1, <2>2 DEF DeviceTypes, Reads, ReadStates
  <2>6. ReadOk(read', contiguousLost', invented')
    BY <1>1, <1>3, <2>2, <2>4 DEF ReadOk
  <2> QED
    BY <1>1, <1>2, <2>1, <2>2, <2>5, <2>6, ReadInvNext DEF DeviceInv, ReadGoesOn
<1>5. CASE vanish
  <2>1. read' = read
    BY <1>5 DEF vanish
  <2>2. DeviceTypes'
    BY <1>0, <1>1, <2>1 DEF DeviceTypes
  <2> QED
    BY <1>1, <1>2, <1>3, <2>1, <2>2, ReadInvNext DEF DeviceInv, ReadGoesOn
<1> QED
  BY <1>4, <1>5

LEMMA DeviceKeeps ==
  ASSUME DeviceInv, DeviceStep
  PROVE  DeviceInv' /\ ReadGoesOn
BY WholeKeeps, SectorKeeps, GivingUpKeeps, EndOfReadKeeps DEF DeviceStep

(***************************************************************************)
(* Signatures, matches and windows.                                        *)
(***************************************************************************)

(* The values of a sequence of naturals have a bound. *)
LEMMA BoundedAbove ==
  ASSUME NEW n \in Nat, NEW f \in [1..n -> Nat]
  PROVE  \E b \in Nat : \A i \in 1..n : f[i] <= b
<1> DEFINE S == {k \in Nat : k <= n => \E b \in Nat : \A i \in 1..k : f[i] <= b}
<1>1. 0 \in S
  <2>1. \A i \in 1..0 : f[i] <= 0
    OBVIOUS
  <2> QED
    BY <2>1
<1>2. ASSUME NEW k \in S PROVE k + 1 \in S
  <2> SUFFICES ASSUME k + 1 <= n PROVE \E b \in Nat : \A i \in 1..(k + 1) : f[i] <= b
    OBVIOUS
  <2>1. k \in Nat /\ k <= n /\ k + 1 \in 1..n
    OBVIOUS
  <2>2. PICK b \in Nat : \A i \in 1..k : f[i] <= b
    BY <2>1
  <2>3. f[k + 1] \in Nat /\ \A i \in 1..k : f[i] \in Nat
    BY <2>1
  <2> DEFINE c == b + f[k + 1]
  <2>4. c \in Nat
    BY <2>3
  <2>5. \A i \in 1..(k + 1) : i \in 1..k \/ i = k + 1
    BY <2>1
  <2>6. \A i \in 1..(k + 1) : f[i] <= c
    BY <2>2, <2>3, <2>5
  <2> QED
    BY <2>4, <2>6
<1>3. S = Nat
  <2>1. S \in SUBSET Nat
    OBVIOUS
  <2> HIDE DEF S
  <2> QED
    BY <1>1, <1>2, <2>1, SetInduction
<1>4. n \in S
  <2> HIDE DEF S
  <2> QED
    BY <1>3
<1> QED
  BY <1>4

LEMMA SignatureIs ==
  /\ Len(Signatures) \in Nat /\ DOMAIN Signatures = 1..Len(Signatures)
  /\ maxSignatureBytes \in Nat
  /\ \A i \in DOMAIN Signatures :
       /\ Signatures[i].offset \in Nat /\ Signatures[i].magic \in Seq(Nat)
       /\ Len(Signatures[i].magic) \in Nat \ {0}
       /\ widestSignature(Signatures[i]) = Len(Signatures[i].magic) + Signatures[i].offset
       /\ widestSignature(Signatures[i]) <= maxSignatureBytes
<1> DEFINE n == Len(Signatures)
           f == [i \in 1..n |-> widestSignature(Signatures[i])]
           W == {widestSignature(Signatures[i]) : i \in DOMAIN Signatures} \cup {0}
<1>1. n \in Nat /\ DOMAIN Signatures = 1..n
      /\ \A i \in 1..n : Signatures[i] \in [magic : Seq(Nat) \ {<<>>}, offset : Nat]
  <2> DEFINE R == [magic : Seq(Nat) \ {<<>>}, offset : Nat]
  <2>1. Signatures \in Seq(R)
    BY ScanAssumption
  <2> HIDE DEF R
  <2>2. n \in Nat /\ DOMAIN Signatures = 1..n /\ \A i \in 1..n : Signatures[i] \in R
    BY <2>1
  <2> QED
    BY <2>2 DEF R
<1>2. ASSUME NEW i \in 1..n
      PROVE  /\ Signatures[i].offset \in Nat /\ Signatures[i].magic \in Seq(Nat)
             /\ Len(Signatures[i].magic) \in Nat \ {0}
             /\ widestSignature(Signatures[i]) = Len(Signatures[i].magic) + Signatures[i].offset
  <2>1. Signatures[i].offset \in Nat /\ Signatures[i].magic \in Seq(Nat)
        /\ Signatures[i].magic # <<>>
    BY <1>1
  <2> QED
    BY <2>1 DEF widestSignature
<1>3. f \in [1..n -> Nat]
  BY <1>2
<1>4. PICK b \in Nat : \A i \in 1..n : f[i] <= b
  <2> HIDE DEF f, n
  <2> QED
    BY <1>1, <1>3, BoundedAbove
<1>5. W \in SUBSET (0..b) /\ W # {}
  BY <1>1, <1>3, <1>4
<1> HIDE DEF W
<1>6. Max(W) \in W /\ \A y \in W : y <= Max(W)
  BY <1>5, MaxIs
<1>7. Max(W) \in Nat
  <2>1. Max(W) \in 0..b
    BY <1>5, <1>6
  <2> HIDE DEF W
  <2> QED
    BY <2>1
<1>8. maxSignatureBytes = Max(W)
  BY DEF maxSignatureBytes, W
<1>9. \A i \in 1..n : widestSignature(Signatures[i]) \in W
  BY <1>1 DEF W
<1> QED
  BY <1>1, <1>2, <1>6, <1>7, <1>8, <1>9

Matches == [offset : Nat, carver : DOMAIN Signatures]

(* One match of some bytes: a signature whole in them. *)
MatchIn(m, bytes, at) ==
  /\ m \in Matches
  /\ \E q \in 1..Len(bytes) :
       /\ magicIsAt(bytes, q, Signatures[m.carver])
       /\ at + q - 1 = m.offset + Signatures[m.carver].offset

(* The prefilter keeps every position a signature is at. *)
LEMMA AskedKeeps ==
  ASSUME NEW bytes \in Seq(ByteValues), NEW q \in 1..Len(bytes), NEW i \in DOMAIN Signatures,
         magicIsAt(bytes, q, Signatures[i])
  PROVE  q \in Asked(bytes)
<1> DEFINE l == Len(Signatures[i].magic)
<1>1. Signatures[i].magic \in Seq(Nat) /\ l \in Nat \ {0}
  BY SignatureIs
<1>2. q + l - 1 <= Len(bytes) /\ SubSeq(bytes, q, q + l - 1) = Signatures[i].magic
  BY DEF magicIsAt
<1>3. SubSeq(bytes, q, q + l - 1)[1] = bytes[q + 1 - 1]
  BY <1>1, <1>2
<1>4. bytes[q] = Signatures[i].magic[1]
  <2>1. q + 1 - 1 = q
    OBVIOUS
  <2> QED
    BY <1>2, <1>3, <2>1
<1>5. bytes[q] \in FirstBytes
  BY <1>4 DEF FirstBytes
<1>6. nibbleFilter(bytes[q])
  BY <1>5 DEF nibbleFilter
<1> QED
  BY <1>5, <1>6 DEF Asked

LEMMA MatchWindowIs ==
  ASSUME NEW bytes \in Seq(ByteValues), NEW at \in Nat
  PROVE  \A m : m \in matchWindow(bytes, at) <=> MatchIn(m, bytes, at)
<1> DEFINE Hits(i) == {q \in Asked(bytes) : /\ magicIsAt(bytes, q, Signatures[i])
                                            /\ at + q - 1 >= Signatures[i].offset}
           Of(i, q) == [offset |-> at + q - 1 - Signatures[i].offset, carver |-> i]
<1>0. Len(bytes) \in Nat /\ \A i \in DOMAIN Signatures : Signatures[i].offset \in Nat
  BY SignatureIs
<1>1. \A m : m \in matchWindow(bytes, at) <=> \E i \in DOMAIN Signatures : \E q \in Hits(i) : m = Of(i, q)
  BY DEF matchWindow
<1>2. \A q \in Asked(bytes) : q \in 1..Len(bytes)
  BY DEF Asked
<1>3. ASSUME NEW m, NEW i \in DOMAIN Signatures, NEW q \in Hits(i), m = Of(i, q)
      PROVE  MatchIn(m, bytes, at)
  <2>1. /\ q \in 1..Len(bytes) /\ magicIsAt(bytes, q, Signatures[i])
        /\ at + q - 1 >= Signatures[i].offset
    BY <1>2
  <2>2. m.carver = i /\ m.offset = at + q - 1 - Signatures[i].offset
    BY <1>3
  <2>3. m.offset \in Nat /\ at + q - 1 = m.offset + Signatures[m.carver].offset
    BY <1>0, <2>1, <2>2
  <2>4. m \in Matches
    BY <1>3, <2>2, <2>3 DEF Matches
  <2> QED
    BY <2>1, <2>2, <2>3, <2>4 DEF MatchIn
<1>4. ASSUME NEW m, MatchIn(m, bytes, at)
      PROVE  \E i \in DOMAIN Signatures : \E q \in Hits(i) : m = Of(i, q)
  <2>1. m \in Matches /\ m.carver \in DOMAIN Signatures /\ m.offset \in Nat
        /\ m = [offset |-> m.offset, carver |-> m.carver]
    BY <1>4 DEF MatchIn, Matches
  <2>2. PICK q \in 1..Len(bytes) :
           /\ magicIsAt(bytes, q, Signatures[m.carver])
           /\ at + q - 1 = m.offset + Signatures[m.carver].offset
    BY <1>4 DEF MatchIn
  <2>3. q \in Asked(bytes)
    BY <2>1, <2>2, AskedKeeps
  <2>4. at + q - 1 >= Signatures[m.carver].offset
        /\ m.offset = at + q - 1 - Signatures[m.carver].offset
    <3> DEFINE o == Signatures[m.carver].offset
               off == m.offset
    <3>1. /\ o \in Nat /\ off \in Nat /\ q \in Int /\ at \in Nat
          /\ at + q - 1 = off + o
      BY <1>0, <2>1, <2>2
    <3> HIDE DEF o, off
    <3>2. at + q - 1 >= o /\ off = at + q - 1 - o
      BY <3>1
    <3> QED
      BY <3>2 DEF o, off
  <2> QED
    BY <2>1, <2>2, <2>3, <2>4
<1> QED
  BY <1>1, <1>3, <1>4

(* Where a match lies in the bytes it was found in. *)
LEMMA MatchLies ==
  ASSUME NEW bytes \in Seq(ByteValues), NEW at \in Nat, NEW m, MatchIn(m, bytes, at)
  PROVE  /\ m \in Matches /\ m.offset \in Nat /\ m.carver \in DOMAIN Signatures
         /\ m.offset < at + Len(bytes) /\ reachOf(m) <= at + Len(bytes) /\ reachOf(m) \in Nat
         /\ reachOf(m) <= m.offset + maxSignatureBytes
<1>1. m \in Matches /\ m.offset \in Nat /\ m.carver \in DOMAIN Signatures
  BY DEF MatchIn, Matches
<1> DEFINE s == Signatures[m.carver]
<1>2. PICK q \in 1..Len(bytes) : magicIsAt(bytes, q, s) /\ at + q - 1 = m.offset + s.offset
  BY DEF MatchIn
<1>3. /\ s.offset \in Nat /\ Len(s.magic) \in Nat \ {0} /\ maxSignatureBytes \in Nat
      /\ widestSignature(s) = Len(s.magic) + s.offset /\ widestSignature(s) <= maxSignatureBytes
  BY <1>1, SignatureIs
<1>4. q + Len(s.magic) - 1 <= Len(bytes) /\ Len(bytes) \in Nat
  BY <1>2 DEF magicIsAt
<1>5. reachOf(m) = m.offset + widestSignature(s)
  BY DEF reachOf
<1> DEFINE o == s.offset
           l == Len(s.magic)
           off == m.offset
           n == Len(bytes)
           r == reachOf(m)
           w == widestSignature(s)
<1>6. o \in Nat /\ l \in Nat \ {0} /\ w = l + o /\ w <= maxSignatureBytes /\ maxSignatureBytes \in Nat
  BY <1>3
<1>7. off \in Nat /\ n \in Nat /\ q \in Int /\ q + l - 1 <= n
  BY <1>1, <1>4
<1>8. at + q - 1 = off + o
  BY <1>2
<1>9. r = off + w
  BY <1>5
<1> HIDE DEF s, o, l, off, n, r, w
<1>10. off < at + n /\ r <= at + n /\ r \in Nat /\ r <= off + maxSignatureBytes
  BY <1>6, <1>7, <1>8, <1>9
<1> QED
  BY <1>1, <1>10 DEF off, n, r

(* A set of matches has a first one, and one only. *)
LEMMA FirstIs ==
  ASSUME NEW S \in SUBSET Matches, S # {}
  PROVE  /\ canonicallyFirst(S) \in S
         /\ \A n \in S : ~Before(n, canonicallyFirst(S))
         /\ \A m \in S : (\A n \in S : ~Before(n, m)) => m = canonicallyFirst(S)
<1>0. \A m \in S : /\ m.offset \in Nat /\ m.carver \in Nat
                   /\ m = [offset |-> m.offset, carver |-> m.carver]
  BY SignatureIs DEF Matches
<1> DEFINE O == {m.offset : m \in S}
<1>1. PICK o \in O : \A p \in O : o <= p
  <2>1. O \in SUBSET Nat /\ O # {}
    BY <1>0
  <2> HIDE DEF O
  <2> QED
    BY <2>1, LeastMember
<1> DEFINE C == {m.carver : m \in {n \in S : n.offset = o}}
<1>2. PICK c \in C : \A d \in C : c <= d
  <2>1. C \in SUBSET Nat /\ C # {}
    BY <1>0
  <2> HIDE DEF C
  <2> QED
    BY <2>1, LeastMember
<1>3. PICK m \in S : m.offset = o /\ m.carver = c
  OBVIOUS
<1>4. \A n \in S : ~Before(n, m)
  <2> SUFFICES ASSUME NEW n \in S PROVE ~Before(n, m)
    OBVIOUS
  <2>1. n.offset \in Nat /\ n.carver \in Nat /\ o \in Nat /\ c \in Nat /\ o <= n.offset
    BY <1>0, <1>1, <1>3
  <2>2. n.offset = o => c <= n.carver
    BY <1>2
  <2> QED
    BY <1>3, <2>1, <2>2 DEF Before
<1>5. canonicallyFirst(S) \in S /\ \A n \in S : ~Before(n, canonicallyFirst(S))
  BY <1>4 DEF canonicallyFirst
<1> HIDE DEF canonicallyFirst
<1>6. ASSUME NEW k \in S, NEW l \in S, ~Before(k, l), ~Before(l, k) PROVE k = l
  <2>1. k.offset = l.offset /\ k.carver = l.carver
    BY <1>0, <1>6 DEF Before
  <2>2. k = [offset |-> k.offset, carver |-> k.carver] /\ l = [offset |-> l.offset, carver |-> l.carver]
    BY <1>0
  <2> QED
    BY <2>1, <2>2
<1> QED
  BY <1>5, <1>6

(***************************************************************************)
(* Where the scan is.                                                      *)
(***************************************************************************)

LEMMA PlanIs ==
  ASSUME ScanTypes
  PROVE  /\ Len(plan) \in Nat /\ DOMAIN plan = 1..Len(plan) /\ scanned \in Nat /\ scanned <= Len(plan)
         /\ \A r \in 1..Len(plan) :
              plan[r].start \in Nat /\ plan[r].end \in Nat /\ plan[r].start < plan[r].end
         /\ \A i, j \in 1..Len(plan) : i < j => plan[i].end <= plan[j].start
<1> DEFINE R == [start : Nat, end : Nat]
<1>1. plan \in Seq(R) /\ plan \in Plans
  BY ScanAssumption DEF ScanTypes
<1>2. \A r \in R : r.start \in Nat /\ r.end \in Nat
  OBVIOUS
<1> HIDE DEF R
<1>3. Len(plan) \in Nat /\ DOMAIN plan = 1..Len(plan) /\ \A r \in 1..Len(plan) : plan[r] \in R
  BY <1>1
<1>4. scanned \in Nat /\ scanned <= Len(plan)
  BY <1>3 DEF ScanTypes
<1> QED
  BY <1>1, <1>2, <1>3, <1>4, ScanAssumption

LEMMA RegionIs ==
  ASSUME ScanTypes, scanned < Len(plan)
  PROVE  /\ scanned + 1 \in 1..Len(plan) /\ Region = plan[scanned + 1]
         /\ Region.start \in Nat /\ Region.end \in Nat /\ Region.start < Region.end
<1>1. scanned + 1 \in 1..Len(plan)
  BY PlanIs
<1>2. Region = plan[scanned + 1]
  BY DEF Region
<1> QED
  BY <1>1, <1>2, PlanIs

LEMMA WindowSliceIs ==
  ASSUME NEW from \in Nat, NEW end \in Nat, from < end
  PROVE  /\ windowSlice(from, end) \in Nat \ {0} /\ windowSlice(from, end) <= WindowBytes
         /\ \/ windowSlice(from, end) = WindowBytes
            \/ windowSlice(from, end) = end - from + maxSignatureBytes
<1> DEFINE w == end - from + maxSignatureBytes
<1>1. WindowBytes \in Nat \ {0} /\ maxSignatureBytes \in Nat
  BY ScanAssumption, SignatureIs
<1>2. w \in Nat \ {0}
  BY <1>1
<1>3. windowSlice(from, end) = IF end - from >= WindowBytes THEN WindowBytes
                               ELSE Min({WindowBytes, w})
  BY DEF windowSlice
<1> HIDE DEF w, windowSlice
<1>4. Min({WindowBytes, w}) = IF WindowBytes <= w THEN WindowBytes ELSE w
  BY <1>1, <1>2, MinMaxOfTwo
<1>5. windowSlice(from, end) = WindowBytes \/ (windowSlice(from, end) = w /\ w <= WindowBytes)
  BY <1>1, <1>2, <1>3, <1>4
<1> QED
  BY <1>1, <1>2, <1>5 DEF w

LEMMA OverlapIs ==
  ASSUME NEW n \in Nat
  PROVE  /\ overlapBytes(n) \in Nat
         /\ overlapBytes(n) = IF maxSignatureBytes = 0 THEN 0
                              ELSE IF maxSignatureBytes - 1 <= n THEN maxSignatureBytes - 1 ELSE n
<1> DEFINE a == maxSignatureBytes - 1
<1>1. maxSignatureBytes \in Nat
  BY SignatureIs
<1>2. CASE maxSignatureBytes = 0
  BY <1>2 DEF overlapBytes
<1>3. CASE maxSignatureBytes # 0
  <2>1. a \in Nat /\ overlapBytes(n) = Min({a, n})
    BY <1>1, <1>3 DEF overlapBytes
  <2> HIDE DEF a
  <2>2. Min({a, n}) = IF a <= n THEN a ELSE n
    BY <2>1, MinMaxOfTwo
  <2> QED
    BY <1>3, <2>1, <2>2 DEF a
<1> QED
  BY <1>2, <1>3

LEMMA NextCursorIs ==
  ASSUME NEW from \in Nat, NEW end \in Nat, from <= end, NEW back \in Nat, NEW resume \in Nat
  PROVE  LET q == nextCursor(from, end, back, resume)
         IN /\ q \in Nat /\ from <= q /\ (q <= end \/ q <= resume)
            /\ resume <= q
            /\ q = resume \/ q + back = end \/ (q = end /\ end <= from + back)
<1> DEFINE a == end - back
           slid == Max({a, resume})
<1>1. a \in Int
  OBVIOUS
<1>2. slid = IF a >= resume THEN a ELSE resume
  <2> HIDE DEF a
  <2>1. a \in Int /\ resume \in Int
    BY <1>1
  <2>2. CASE a >= resume
    BY <2>1, <2>2 DEF Max
  <2>3. CASE ~(a >= resume)
    BY <2>1, <2>3 DEF Max
  <2> QED
    BY <2>2, <2>3
<1>3. nextCursor(from, end, back, resume) = IF slid > from THEN slid ELSE end
  BY DEF nextCursor
<1> HIDE DEF slid, nextCursor
<1>4. slid \in Int /\ (slid = a \/ slid = resume) /\ slid >= a /\ slid >= resume
  BY <1>1, <1>2
<1>5. a + back = end
  OBVIOUS
<1> HIDE DEF a
<1>6. CASE slid > from
  BY <1>1, <1>3, <1>4, <1>5, <1>6
<1>7. CASE ~(slid > from)
  BY <1>1, <1>3, <1>4, <1>5, <1>7
<1> QED
  BY <1>6, <1>7

LEMMA ResumeIs ==
  ASSUME NEW o \in Nat, NEW i \in DOMAIN Signatures, NEW bytes \in Seq(ByteValues),
         Len(bytes) <= MaxCarveBytes
  PROVE  LET q == resumeOffset(o, Carve(i, bytes))
         IN q \in Nat /\ o < q /\ (q <= o + 1 \/ q <= o + Len(bytes))
<1> DEFINE n == Len(bytes)
           r == Carve(i, bytes)
           l == r.length
<1>1. n \in 0..MaxCarveBytes /\ n \in Nat /\ bytes \in [1..n -> ByteValues]
  BY ScanAssumption, SMTT(60)
<1>2. r.length \in Nat /\ (r.confidence # "rejected" => r.length <= n)
  BY <1>1, CarveAssumption
<1>3. resumeOffset(o, r) = IF r.confidence = "rejected" THEN o + 1 ELSE o + Max({l, 1})
  BY DEF resumeOffset
<1> HIDE DEF r, l, n
<1>4. l \in Nat /\ (r.confidence # "rejected" => l <= n)
  BY <1>2 DEF l
<1>5. Max({l, 1}) = IF l >= 1 THEN l ELSE 1
  BY <1>4, MinMaxOfTwo
<1>6. resumeOffset(o, r) \in Nat /\ o < resumeOffset(o, r)
      /\ (resumeOffset(o, r) <= o + 1 \/ resumeOffset(o, r) <= o + n)
  BY <1>1, <1>3, <1>4, <1>5
<1> QED
  BY <1>6 DEF r, n

LEMMA HereIs ==
  ASSUME DeviceTypes
  PROVE  /\ Here \in Nat /\ Here = read.at + Len(read.got) /\ Len(read.got) \in Nat
         /\ read.at \in Nat /\ sizeInBytes \in Nat
<1>1. read.at \in Nat /\ Len(read.got) \in Nat /\ content \in Contents
  BY DEF DeviceTypes
<1> QED
  BY <1>1, ContentIs DEF Here

LEMMA ReachedBelow ==
  ASSUME DeviceTypes, NEW p \in Nat, NEW q \in Nat, p <= q, Reached(q)
  PROVE  Reached(p)
<1>1. \A b \in Here..(p - 1) : b \in Here..(q - 1)
  BY HereIs
<1> QED
  BY <1>1 DEF Reached

LEMMA ReachedPast ==
  ASSUME DeviceTypes, NEW p \in Nat, p <= Here \/ sizeInBytes <= Here
  PROVE  Reached(p)
<1> SUFFICES ASSUME NEW b \in Here..(p - 1), b < sizeInBytes PROVE FALSE
  BY DEF Reached
<1> QED
  BY HereIs

(* A region begins behind what was scanned, with nothing to scan in between. *)
LEMMA NextRegionReached ==
  ASSUME DeviceTypes, ScanTypes, WindowInv, pc = "idle", scanned < Len(plan)
  PROVE  Reached(Region.start)
<1>1. /\ scanned + 1 \in 1..Len(plan) /\ Region = plan[scanned + 1]
      /\ Region.start \in Nat /\ Region.end \in Nat /\ Region.start < Region.end
  BY RegionIs
<1>2. /\ Len(plan) \in Nat /\ DOMAIN plan = 1..Len(plan) /\ scanned \in Nat
      /\ \A r \in 1..Len(plan) :
           plan[r].start \in Nat /\ plan[r].end \in Nat /\ plan[r].start < plan[r].end
      /\ \A i, j \in 1..Len(plan) : i < j => plan[i].end <= plan[j].start
  BY PlanIs
<1> SUFFICES ASSUME NEW b \in Here..(Region.start - 1), b < sizeInBytes,
                    NEW j \in 1..Len(plan), plan[j].start <= b, b < plan[j].end
             PROVE  FALSE
  BY <1>2 DEF Reached, InSomeRegion
<1>3. Here \in Nat /\ b \in Nat /\ Here <= b /\ b < Region.start
  BY <1>1, HereIs
<1>4. j <= scanned
  <2> SUFFICES ASSUME j > scanned PROVE FALSE
    BY <1>2
  <2>1. j = scanned + 1 \/ scanned + 1 < j
    BY <1>2
  <2>2. j = scanned + 1 => Region.start <= b
    BY <1>1
  <2>3. scanned + 1 < j => Region.end <= plan[j].start
    BY <1>1, <1>2
  <2>4. plan[j].start \in Nat
    BY <1>2
  <2> QED
    BY <1>1, <1>3, <2>1, <2>2, <2>3, <2>4
<1>5. scanned > 0 /\ scanned \in 1..Len(plan)
  BY <1>1, <1>2, <1>4
<1>6. plan[j].end <= plan[scanned].end
  <2>1. j = scanned \/ j < scanned
    BY <1>2, <1>4
  <2>2. j < scanned => plan[j].end <= plan[scanned].start
    BY <1>2, <1>5
  <2>3. plan[j].end \in Nat /\ plan[scanned].end \in Nat /\ plan[scanned].start \in Nat
        /\ plan[scanned].start < plan[scanned].end
    BY <1>2, <1>5
  <2> QED
    BY <2>1, <2>2, <2>3
<1>7. Reached(plan[scanned].end)
  BY <1>5 DEF WindowInv
<1>8. b \in Here..(plan[scanned].end - 1)
  <2>1. plan[j].end \in Nat /\ plan[scanned].end \in Nat
    BY <1>2, <1>5
  <2> QED
    BY <1>3, <1>6, <2>1
<1>9. ~InSomeRegion(b)
  BY <1>7, <1>8 DEF Reached
<1> QED
  BY <1>2, <1>9 DEF InSomeRegion

PlacedInv == DeviceInv /\ ScanTypes /\ WindowInv

LEMMA PlacedInit == Init => PlacedInv
<1> SUFFICES ASSUME Init PROVE PlacedInv
  OBVIOUS
<1>1. DeviceInv
  BY DeviceStarts DEF Init
<1>2. pc = "idle" /\ plan \in Plans /\ scanned = 0 /\ cursor = 0 /\ windowEnd = 0 /\ overlap = 0
      /\ matches = {} /\ resumeCursor = 0 /\ read = NoRead
  BY DEF Init, DeviceInit
<1>3. ScanTypes
  <2>1. Len(plan) \in Nat
    <3> DEFINE R == [start : Nat, end : Nat]
    <3>1. plan \in Seq(R)
      BY <1>2, ScanAssumption
    <3> HIDE DEF R
    <3> QED
      BY <3>1
  <2>2. scanned \in 0..Len(plan)
    BY <1>2, <2>1
  <2> QED
    BY <1>2, <2>2 DEF ScanTypes
<1>4. WindowInv
  BY <1>2 DEF WindowInv, InRegion, NoRead
<1> QED
  BY <1>1, <1>3, <1>4 DEF PlacedInv

(* While the device answers, the scan stands still. *)
LEMMA PlacedUnderDevice ==
  ASSUME PlacedInv, DeviceStep, UNCHANGED scanVars
  PROVE  PlacedInv'
<1>1. DeviceInv' /\ ReadGoesOn
  BY DeviceKeeps DEF PlacedInv
<1>2. /\ pc' = pc /\ plan' = plan /\ scanned' = scanned /\ cursor' = cursor
      /\ windowEnd' = windowEnd /\ overlap' = overlap /\ matches' = matches
      /\ resumeCursor' = resumeCursor /\ reported' = reported /\ content' = content
  BY <1>1 DEF scanVars, ReadGoesOn
<1>3. ScanTypes'
  BY <1>2 DEF PlacedInv, ScanTypes
<1>4. WindowInv
  BY DEF PlacedInv
<1> SUFFICES WindowInv'
  BY <1>1, <1>3 DEF PlacedInv
<1>5. CASE read' = read
  BY <1>2, <1>4, <1>5
     DEF WindowInv, Reached, InSomeRegion, Here, sizeInBytes, InRegion, Region, firstMatch,
         windowSlice
<1>6. CASE read' # read
  <2>1. read.state \in {"whole", "sectors"} /\ read'.state \in {"sectors", "ok", "lost"}
        /\ read'.at = read.at /\ read'.want = read.want
    BY <1>1, <1>6 DEF ReadGoesOn
  <2>2. pc \in {"window", "carve", "failed"}
    BY <1>4, <2>1 DEF WindowInv, PlacedInv, ScanTypes
  <2>3. CASE pc = "window"
    BY <1>2, <1>4, <2>1, <2>3 DEF WindowInv, InRegion, Region, windowSlice
  <2>4. CASE pc = "carve"
    BY <1>2, <1>4, <2>1, <2>4 DEF WindowInv, InRegion, Region, firstMatch
  <2>5. CASE pc = "failed"
    BY <1>2, <2>5 DEF WindowInv, InRegion
  <2> QED
    BY <2>2, <2>3, <2>4, <2>5
<1> QED
  BY <1>5, <1>6

LEMMA RegionStarts ==
  ASSUME PlacedInv, scanRegion
  PROVE  PlacedInv'
<1>1. /\ pc = "idle" /\ scanned < Len(plan) /\ cursor' = Region.start /\ pc' = "next"
      /\ UNCHANGED <<deviceVars, plan, scanned, windowEnd, overlap, matches, resumeCursor, reported>>
  BY DEF scanRegion
<1>2. DeviceInv /\ DeviceTypes /\ ScanTypes /\ WindowInv
  BY DEF PlacedInv, DeviceInv
<1>3. read' = read /\ content' = content /\ plan' = plan /\ scanned' = scanned
  BY <1>1 DEF deviceVars, device
<1>4. Region.start \in Nat /\ Region' = Region
  BY <1>1, <1>2, <1>3, RegionIs DEF Region
<1>5. DeviceInv'
  BY <1>1, <1>2 DEF deviceVars, device, DeviceInv, DeviceTypes, ReadInv, BadMapIsTheInvented,
                    Here, Slice, sizeInBytes
<1>6. ScanTypes'
  BY <1>1, <1>2, <1>4 DEF ScanTypes
<1>7. Reached(cursor')
  BY <1>1, <1>2, NextRegionReached
<1>8. Reached(cursor)'
  BY <1>3, <1>7 DEF Reached, Here, sizeInBytes, InSomeRegion
<1>9. read.state \in {"none", "ok"}
  BY <1>1, <1>2 DEF WindowInv
<1>10. WindowInv'
  BY <1>1, <1>3, <1>4, <1>8, <1>9 DEF WindowInv, InRegion
<1> QED
  BY <1>5, <1>6, <1>10 DEF PlacedInv

LEMMA DeviceSame ==
  ASSUME DeviceInv, UNCHANGED deviceVars
  PROVE  DeviceInv' /\ read' = read /\ content' = content /\ contiguousLost' = contiguousLost
         /\ answeredTo' = answeredTo /\ invented' = invented
BY DEF deviceVars, device, DeviceInv, DeviceTypes, ReadInv, BadMapIsTheInvented,
       Here, Slice, sizeInBytes

LEMMA RegionEnds ==
  ASSUME PlacedInv, runScanLoop
  PROVE  PlacedInv'
<1>1. /\ pc = "next" /\ cursor >= Region.end /\ scanned' = scanned + 1 /\ pc' = "idle"
      /\ UNCHANGED <<deviceVars, plan, cursor, windowEnd, overlap, matches, resumeCursor, reported>>
  BY DEF runScanLoop
<1>2. DeviceInv /\ DeviceTypes /\ ScanTypes /\ WindowInv
  BY DEF PlacedInv, DeviceInv
<1>3. DeviceInv' /\ read' = read /\ content' = content /\ plan' = plan
  BY <1>1, <1>2, DeviceSame
<1>4. scanned < Len(plan) /\ Reached(cursor) /\ read.state \in {"none", "ok"}
  BY <1>1, <1>2 DEF WindowInv, InRegion
<1>5. /\ scanned + 1 \in 1..Len(plan) /\ Region = plan[scanned + 1]
      /\ Region.start \in Nat /\ Region.end \in Nat /\ cursor \in Nat /\ scanned \in Nat
  BY <1>2, <1>4, RegionIs, PlanIs DEF ScanTypes
<1>6. ScanTypes'
  <2>1. scanned' \in 0..Len(plan')
    BY <1>1, <1>3, <1>5
  <2> QED
    BY <1>1, <1>2, <2>1 DEF ScanTypes
<1>7. Reached(plan[scanned + 1].end)
  BY <1>1, <1>2, <1>4, <1>5, ReachedBelow
<1>8. Reached(plan[scanned].end)'
  BY <1>1, <1>3, <1>7 DEF Reached, Here, sizeInBytes, InSomeRegion
<1>9. scanned' # 0
  BY <1>1, <1>5
<1>10. WindowInv'
  BY <1>1, <1>3, <1>4, <1>8, <1>9 DEF WindowInv, InRegion
<1> QED
  BY <1>3, <1>6, <1>10 DEF PlacedInv

LEMMA WindowStarts ==
  ASSUME PlacedInv, scanOneWindow
  PROVE  PlacedInv' /\ content' = content /\ read'.got = <<>> /\ read'.at = cursor /\ Reached(cursor)
         /\ contiguousLost' = contiguousLost /\ answeredTo' = answeredTo /\ invented' = invented
         /\ plan' = plan
<1> DEFINE n == windowSlice(cursor, Region.end)
<1>1. /\ pc = "next" /\ cursor < Region.end /\ readAt(cursor, n) /\ pc' = "window"
      /\ UNCHANGED <<device, bad, contiguousLost, lostRunStart, invented, answeredTo, plan,
                     scanned, cursor, windowEnd, overlap, matches, resumeCursor, reported>>
  BY DEF scanOneWindow
<1>2. DeviceInv /\ DeviceTypes /\ ScanTypes /\ WindowInv
  BY DEF PlacedInv, DeviceInv
<1>3. scanned < Len(plan) /\ Reached(cursor) /\ read.state \in {"none", "ok"} /\ Region.start <= cursor
  BY <1>1, <1>2 DEF WindowInv, InRegion
<1>4. /\ Region.end \in Nat /\ cursor \in Nat
  BY <1>2, <1>3, RegionIs DEF ScanTypes
<1>5. n \in Nat \ {0}
  BY <1>1, <1>4, WindowSliceIs
<1> HIDE DEF n
<1>6. /\ DeviceInv' /\ content' = content
      /\ read'.at = cursor /\ read'.want = n /\ read'.state = "whole" /\ read'.got = <<>>
  BY <1>1, <1>2, <1>3, <1>4, <1>5, ReadBegins
<1>7. ScanTypes'
  BY <1>1, <1>2 DEF ScanTypes
<1>8. Region' = Region /\ windowSlice(cursor, Region.end)' = n
  BY <1>1 DEF Region, windowSlice, n
<1>9. WindowInv'
  BY <1>1, <1>3, <1>6, <1>8 DEF WindowInv, InRegion
<1> QED
  BY <1>1, <1>3, <1>6, <1>7, <1>9 DEF PlacedInv

LEMMA WindowMatches ==
  ASSUME PlacedInv, readAndMatch
  PROVE  PlacedInv'
<1>1. /\ pc = "window" /\ read.state = "ok" /\ read.got # <<>>
      /\ matches' = {m \in matchWindow(read.got, cursor) : WithinRegion(m, cursor, Region.end)}
      /\ windowEnd' = cursor + Len(read.got) /\ overlap' = overlapBytes(Len(read.got))
      /\ resumeCursor' = 0 /\ pc' = "match"
      /\ UNCHANGED <<deviceVars, plan, scanned, cursor, reported>>
  BY DEF readAndMatch
<1>2. DeviceInv /\ DeviceTypes /\ ScanTypes /\ WindowInv /\ ReadInv
  BY DEF PlacedInv, DeviceInv
<1>3. DeviceInv' /\ DeviceTypes' /\ read' = read /\ content' = content /\ plan' = plan
      /\ scanned' = scanned /\ cursor' = cursor
  BY <1>1, <1>2, DeviceSame DEF DeviceInv
<1>4. /\ scanned < Len(plan) /\ Region.start <= cursor /\ cursor < Region.end
      /\ read.at = cursor /\ read.want = windowSlice(cursor, Region.end)
  BY <1>1, <1>2 DEF WindowInv, InRegion
<1>5. Region.end \in Nat /\ cursor \in Nat /\ Region' = Region
  BY <1>2, <1>3, <1>4, RegionIs DEF ScanTypes, Region
<1>6. /\ read.got \in Seq(ByteValues) /\ Len(read.got) \in Nat /\ Len(read.got) <= read.want
      /\ Here = read.at + Len(read.got)
  BY <1>2, HereIs DEF DeviceTypes, ReadInv
<1>7. windowEnd' \in Nat /\ windowEnd' \in cursor..(cursor + WindowBytes) /\ windowEnd' = Here
  <2>1. read.want <= WindowBytes /\ read.want \in Nat /\ WindowBytes \in Nat
    BY <1>4, <1>5, WindowSliceIs, ScanAssumption
  <2> QED
    BY <1>1, <1>4, <1>5, <1>6, <2>1
<1>8. ASSUME NEW m \in matches'
      PROVE  m \in Matches /\ cursor <= m.offset /\ m.offset < windowEnd' /\ m.offset < Region.end
  <2>1. MatchIn(m, read.got, cursor)
    BY <1>1, <1>5, <1>6, MatchWindowIs
  <2>2. m \in Matches /\ m.offset \in Nat /\ m.offset < cursor + Len(read.got)
    BY <1>5, <1>6, <2>1, MatchLies
  <2>3. cursor <= m.offset /\ m.offset < Region.end
    BY <1>1, <1>5, <2>2 DEF WithinRegion
  <2> QED
    BY <1>1, <2>2, <2>3
<1>9. overlap' \in Nat
  BY <1>1, <1>6, OverlapIs
<1>10. ScanTypes'
  <2>1. matches' \subseteq [offset : Nat, carver : DOMAIN Signatures]
    BY <1>8 DEF Matches
  <2> QED
    BY <1>1, <1>2, <1>7, <1>9, <2>1 DEF ScanTypes
<1>11. Reached(windowEnd') /\ Reached(resumeCursor')
  <2>1. Here \in Nat /\ 0 <= Here
    BY <1>2, HereIs
  <2> QED
    BY <1>1, <1>2, <1>7, <2>1, ReachedPast
<1>12. Reached(windowEnd)' /\ Reached(resumeCursor)'
  BY <1>3, <1>11 DEF Reached, Here, sizeInBytes, InSomeRegion
<1>13. WindowInv'
  BY <1>1, <1>3, <1>4, <1>5, <1>7, <1>8, <1>12 DEF WindowInv, InRegion
<1> QED
  BY <1>3, <1>10, <1>13 DEF PlacedInv

LEMMA DeviceEnds ==
  ASSUME PlacedInv, endOfDevice
  PROVE  PlacedInv' /\ read.at >= sizeInBytes
<1>1. /\ pc = "window" /\ read.state = "ok" /\ read.got = <<>> /\ cursor' = Region.end /\ pc' = "next"
      /\ UNCHANGED <<deviceVars, plan, scanned, windowEnd, overlap, matches, resumeCursor, reported>>
  BY DEF endOfDevice
<1>2. DeviceInv /\ DeviceTypes /\ ScanTypes /\ WindowInv /\ ReadInv
  BY DEF PlacedInv, DeviceInv
<1>3. DeviceInv' /\ read' = read /\ content' = content /\ plan' = plan /\ scanned' = scanned
  BY <1>1, <1>2, DeviceSame
<1>4. /\ scanned < Len(plan) /\ cursor < Region.end
      /\ read.at = cursor /\ read.want = windowSlice(cursor, Region.end)
  BY <1>1, <1>2 DEF WindowInv, InRegion
<1>5. Region.end \in Nat /\ Region.start \in Nat /\ Region.start < Region.end
      /\ cursor \in Nat /\ Region' = Region
  BY <1>2, <1>3, <1>4, RegionIs DEF ScanTypes, Region
<1>6. read.want \in Nat \ {0}
  BY <1>4, <1>5, WindowSliceIs
<1>7. Len(read.got) = 0 /\ Here >= sizeInBytes /\ Here = read.at + Len(read.got) /\ read.at \in Nat
  BY <1>1, <1>2, <1>6, HereIs DEF ReadInv
<1>8. sizeInBytes <= Here /\ read.at >= sizeInBytes
  BY <1>2, <1>7, HereIs
<1>9. Reached(cursor')
  BY <1>1, <1>2, <1>5, <1>8, ReachedPast
<1>10. Reached(cursor)'
  BY <1>3, <1>9 DEF Reached, Here, sizeInBytes, InSomeRegion
<1>11. ScanTypes'
  BY <1>1, <1>2, <1>5 DEF ScanTypes
<1>12. WindowInv'
  BY <1>1, <1>3, <1>4, <1>5, <1>10 DEF WindowInv, InRegion
<1> QED
  BY <1>3, <1>8, <1>11, <1>12 DEF PlacedInv

LEMMA FirstOfMatches ==
  ASSUME ScanTypes, matches # {}
  PROVE  /\ firstMatch \in matches /\ firstMatch \in Matches
         /\ firstMatch.offset \in Nat /\ firstMatch.carver \in DOMAIN Signatures
         /\ \A n \in matches : ~Before(n, firstMatch)
<1>1. matches \in SUBSET Matches
  BY DEF ScanTypes, Matches
<1>2. firstMatch \in matches /\ \A n \in matches : ~Before(n, firstMatch)
  BY <1>1, FirstIs DEF firstMatch
<1> HIDE DEF firstMatch
<1> QED
  BY <1>1, <1>2 DEF Matches

LEMMA MatchSkipped ==
  ASSUME PlacedInv, skipMatch
  PROVE  PlacedInv'
<1>1. /\ pc = "match" /\ matches' = matches \ {firstMatch}
      /\ UNCHANGED <<deviceVars, pc, plan, scanned, cursor, windowEnd, overlap, resumeCursor, reported>>
  BY DEF skipMatch
<1>2. DeviceInv /\ DeviceTypes /\ ScanTypes /\ WindowInv
  BY DEF PlacedInv, DeviceInv
<1>3. DeviceInv' /\ read' = read /\ content' = content /\ plan' = plan /\ scanned' = scanned
  BY <1>1, <1>2, DeviceSame
<1>4. ScanTypes' /\ matches' \subseteq matches
  BY <1>1, <1>2 DEF ScanTypes
<1>5. Reached(windowEnd)' /\ Reached(resumeCursor)'
  BY <1>1, <1>2, <1>3 DEF WindowInv, Reached, Here, sizeInBytes, InSomeRegion
<1>6. WindowInv'
  BY <1>1, <1>2, <1>3, <1>4, <1>5 DEF WindowInv, InRegion, Region
<1> QED
  BY <1>3, <1>4, <1>6 DEF PlacedInv

LEMMA CarveStarts ==
  ASSUME PlacedInv, attemptCarve
  PROVE  PlacedInv' /\ content' = content /\ read'.got = <<>> /\ read'.at = firstMatch.offset
         /\ Reached(read'.at) /\ contiguousLost' = contiguousLost /\ answeredTo' = answeredTo
         /\ invented' = invented /\ plan' = plan
<1>1. /\ pc = "match" /\ matches # {} /\ firstMatch.offset >= resumeCursor
      /\ readAt(firstMatch.offset, MaxCarveBytes) /\ pc' = "carve"
      /\ UNCHANGED <<device, bad, contiguousLost, lostRunStart, invented, answeredTo, plan,
                     scanned, cursor, windowEnd, overlap, matches, resumeCursor, reported>>
  BY DEF attemptCarve
<1>2. DeviceInv /\ DeviceTypes /\ ScanTypes /\ WindowInv
  BY DEF PlacedInv, DeviceInv
<1>3. read.state \in {"none", "ok"}
  BY <1>1, <1>2 DEF WindowInv
<1>4. firstMatch \in matches /\ firstMatch.offset \in Nat
  BY <1>1, <1>2, FirstOfMatches
<1>5. MaxCarveBytes \in Nat \ {0}
  BY ScanAssumption
<1>6. /\ DeviceInv' /\ content' = content
      /\ read'.at = firstMatch.offset /\ read'.want = MaxCarveBytes
      /\ read'.state = "whole" /\ read'.got = <<>>
  BY <1>1, <1>2, <1>3, <1>4, <1>5, ReadBegins
<1>7. ScanTypes'
  BY <1>1, <1>2 DEF ScanTypes
<1>8. Region' = Region /\ firstMatch' = firstMatch
  BY <1>1 DEF Region, firstMatch
<1>9. WindowInv'
  BY <1>1, <1>2, <1>6, <1>8 DEF WindowInv, InRegion
<1>10. Reached(firstMatch.offset)
  <2>1. Reached(windowEnd) /\ firstMatch.offset < windowEnd /\ windowEnd \in Nat
    BY <1>1, <1>2, <1>4 DEF WindowInv, ScanTypes
  <2>2. firstMatch.offset <= windowEnd
    BY <1>4, <2>1
  <2> QED
    BY <1>2, <1>4, <2>1, <2>2, ReachedBelow
<1> QED
  BY <1>1, <1>6, <1>7, <1>9, <1>10 DEF PlacedInv

LEMMA MatchApplied ==
  ASSUME PlacedInv, applyMatch
  PROVE  PlacedInv' /\ firstMatch.offset < resumeCursor'
<1> DEFINE m == firstMatch
           result == Carve(m.carver, read.got)
<1>1. /\ pc = "carve" /\ read.state = "ok" /\ resumeCursor' = resumeOffset(m.offset, result)
      /\ matches' = matches \ {m} /\ pc' = "match"
      /\ UNCHANGED <<deviceVars, plan, scanned, cursor, windowEnd, overlap>>
  BY DEF applyMatch
<1>2. DeviceInv /\ DeviceTypes /\ ScanTypes /\ WindowInv /\ ReadInv
  BY DEF PlacedInv, DeviceInv
<1>3. DeviceInv' /\ read' = read /\ content' = content /\ plan' = plan /\ scanned' = scanned
  BY <1>1, <1>2, DeviceSame
<1>4. /\ matches # {} /\ read.at = m.offset /\ read.want = MaxCarveBytes
      /\ windowEnd \in cursor..(cursor + WindowBytes) /\ cursor \in Nat /\ windowEnd \in Nat
  BY <1>1, <1>2 DEF WindowInv, ScanTypes
<1>5. m \in matches /\ m.offset \in Nat /\ m.carver \in DOMAIN Signatures
  BY <1>2, <1>4, FirstOfMatches
<1>6. cursor <= m.offset /\ m.offset < windowEnd
  BY <1>1, <1>2, <1>5 DEF WindowInv
<1>7. /\ read.got \in Seq(ByteValues) /\ Len(read.got) \in Nat /\ Len(read.got) <= MaxCarveBytes
      /\ Here = m.offset + Len(read.got) /\ Here \in Nat /\ sizeInBytes \in Nat
      /\ Len(read.got) = MaxCarveBytes \/ Here >= sizeInBytes
  BY <1>1, <1>2, <1>4, HereIs DEF ReadInv, DeviceTypes
<1> HIDE DEF m
<1>8. /\ resumeCursor' \in Nat /\ m.offset < resumeCursor'
      /\ resumeCursor' <= m.offset + 1 \/ resumeCursor' <= Here
  BY <1>1, <1>5, <1>7, ResumeIs
<1>9. windowEnd <= Here \/ sizeInBytes <= Here
  <2>1. WindowBytes \in Nat /\ MaxCarveBytes \in Nat /\ WindowBytes <= MaxCarveBytes
    BY ScanAssumption
  <2>2. CASE Here >= sizeInBytes
    BY <1>7, <2>2
  <2>3. CASE Len(read.got) = MaxCarveBytes
    <3>1. Here = m.offset + MaxCarveBytes /\ windowEnd <= cursor + WindowBytes
      BY <1>4, <1>7, <2>3
    <3>2. windowEnd <= Here
      BY <1>4, <1>5, <1>6, <2>1, <3>1
    <3> QED
      BY <3>2
  <2> QED
    BY <1>7, <2>2, <2>3
<1>10. Reached(windowEnd)
  BY <1>2, <1>4, <1>9, ReachedPast
<1>11. Reached(resumeCursor')
  <2>1. CASE resumeCursor' <= Here
    BY <1>2, <1>8, <2>1, ReachedPast
  <2>2. CASE resumeCursor' <= m.offset + 1
    <3>1. resumeCursor' <= windowEnd
      BY <1>4, <1>5, <1>6, <1>8, <2>2
    <3> QED
      BY <1>2, <1>4, <1>8, <1>10, <3>1, ReachedBelow
  <2> QED
    BY <1>8, <2>1, <2>2
<1>12. Reached(windowEnd)' /\ Reached(resumeCursor)'
  BY <1>1, <1>3, <1>10, <1>11 DEF Reached, Here, sizeInBytes, InSomeRegion
<1>13. ScanTypes' /\ matches' \subseteq matches
  BY <1>1, <1>2, <1>8 DEF ScanTypes
<1>14. WindowInv'
  BY <1>1, <1>2, <1>3, <1>12, <1>13 DEF WindowInv, InRegion, Region
<1> QED
  BY <1>3, <1>8, <1>13, <1>14 DEF PlacedInv, m

LEMMA WindowDone ==
  ASSUME PlacedInv, stepWindow
  PROVE  PlacedInv'
<1>1. /\ pc = "match" /\ cursor' = nextCursor(cursor, windowEnd, overlap, resumeCursor) /\ pc' = "next"
      /\ UNCHANGED <<deviceVars, plan, scanned, windowEnd, overlap, matches, resumeCursor, reported>>
  BY DEF stepWindow
<1>2. DeviceInv /\ DeviceTypes /\ ScanTypes /\ WindowInv
  BY DEF PlacedInv, DeviceInv
<1>3. DeviceInv' /\ read' = read /\ content' = content /\ plan' = plan /\ scanned' = scanned
  BY <1>1, <1>2, DeviceSame
<1>4. /\ scanned < Len(plan) /\ Region.start <= cursor /\ cursor <= windowEnd
      /\ Reached(windowEnd) /\ Reached(resumeCursor) /\ read.state = "ok"
      /\ cursor \in Nat /\ windowEnd \in Nat /\ overlap \in Nat /\ resumeCursor \in Nat
  BY <1>1, <1>2 DEF WindowInv, InRegion, ScanTypes
<1>5. cursor' \in Nat /\ cursor <= cursor' /\ (cursor' <= windowEnd \/ cursor' <= resumeCursor)
  BY <1>1, <1>4, NextCursorIs
<1>6. Reached(cursor')
  BY <1>2, <1>4, <1>5, ReachedBelow
<1>7. Reached(cursor)'
  BY <1>3, <1>6 DEF Reached, Here, sizeInBytes, InSomeRegion
<1>8. ScanTypes'
  BY <1>1, <1>2, <1>5 DEF ScanTypes
<1>9. Region' = Region /\ Region.start \in Nat /\ Region.start <= cursor'
  BY <1>2, <1>3, <1>4, <1>5, RegionIs DEF Region
<1>10. WindowInv'
  BY <1>1, <1>3, <1>4, <1>7, <1>9 DEF WindowInv, InRegion
<1> QED
  BY <1>3, <1>8, <1>10 DEF PlacedInv

LEMMA ScanFailed ==
  ASSUME PlacedInv, scanFails
  PROVE  PlacedInv'
<1>1. /\ pc' = "failed"
      /\ UNCHANGED <<deviceVars, plan, scanned, cursor, windowEnd, overlap, matches, resumeCursor,
                     reported>>
  BY DEF scanFails
<1>2. DeviceInv' /\ ScanTypes'
  BY <1>1, DeviceSame DEF PlacedInv, ScanTypes
<1>3. WindowInv'
  BY <1>1 DEF WindowInv, InRegion
<1> QED
  BY <1>2, <1>3 DEF PlacedInv

LEMMA PlacedNext ==
  ASSUME PlacedInv, [Next]_vars
  PROVE  PlacedInv'
<1>1. CASE ScanStep
  BY <1>1, RegionStarts, RegionEnds, WindowStarts, WindowMatches, DeviceEnds, MatchSkipped,
     CarveStarts, MatchApplied, WindowDone, ScanFailed DEF ScanStep
<1>2. CASE DeviceStep /\ UNCHANGED scanVars
  BY <1>2, PlacedUnderDevice
<1>3. CASE UNCHANGED vars
  <2>1. DeviceInv' /\ read' = read /\ content' = content
    BY <1>3, DeviceSame DEF PlacedInv, vars
  <2>2. ScanTypes' /\ UNCHANGED scanVars
    BY <1>3 DEF PlacedInv, ScanTypes, vars, scanVars
  <2>3. WindowInv'
    BY <2>1, <2>2 DEF PlacedInv, scanVars, WindowInv, Reached, InSomeRegion, Here, sizeInBytes,
                      InRegion, Region, firstMatch, windowSlice
  <2> QED
    BY <2>1, <2>2, <2>3 DEF PlacedInv
<1> QED
  BY <1>1, <1>2, <1>3 DEF Next

(* The state of the scan is well-formed, and it is where its reads have got to. *)
THEOREM PlacedInvariant == Spec => []PlacedInv
<1>1. Init => PlacedInv
  BY PlacedInit
<1>2. PlacedInv /\ [Next]_vars => PlacedInv'
  BY PlacedNext
<1> QED
  BY <1>1, <1>2, PTL DEF Spec

(* recordBad keeps the map of what was invented, as a set in offset order. *)
THEOREM BadMapIsRight == Spec => []BadMapIsTheInvented
<1>1. PlacedInv => BadMapIsTheInvented
  BY DEF PlacedInv, DeviceInv
<1> QED
  BY <1>1, PlacedInvariant, PTL

(***************************************************************************)
(* A device that has gone.                                                 *)
(***************************************************************************)

(* Unheard, for any last answer. *)
UnheardFrom(a, p) == {b \in a..(sizeInBytes - 1) : b < p /\ InSomeRegion(b)}

GoneOk(h, lost, a) ==
  \/ Cardinality(UnheardFrom(a, h)) <= lost
  \/ Cardinality(UnheardFrom(a, sizeInBytes)) < kLostSourceRunBytes

LEMMA GoneIs == GoneInv <=> GoneOk(Here, contiguousLost, answeredTo)
BY DEF GoneInv, GoneOk, Unheard, UnheardFrom

LEMMA GoneNext ==
  ASSUME content' = content, plan' = plan
  PROVE  GoneInv' <=> GoneOk(Here', contiguousLost', answeredTo')
BY DEF GoneInv, GoneOk, Unheard, UnheardFrom, sizeInBytes, InSomeRegion

LEMMA UnheardIsFinite ==
  ASSUME DeviceTypes, NEW a \in Nat, NEW p
  PROVE  IsFiniteSet(UnheardFrom(a, p)) /\ Cardinality(UnheardFrom(a, p)) \in Nat
<1>1. sizeInBytes - 1 \in Int /\ a \in Int
  BY HereIs
<1>2. IsFiniteSet(a..(sizeInBytes - 1))
  BY <1>1, FS_Interval
<1>3. UnheardFrom(a, p) \in SUBSET (a..(sizeInBytes - 1))
  BY DEF UnheardFrom
<1>4. IsFiniteSet(UnheardFrom(a, p))
  BY <1>2, <1>3, FS_Subset
<1> QED
  BY <1>4, FS_CardinalityType

(* A part of what is not heard of is no larger than the whole. *)
LEMMA FewerUnheard ==
  ASSUME DeviceTypes, NEW a \in Nat, NEW p, NEW c \in Nat, NEW q,
         UnheardFrom(a, p) \subseteq UnheardFrom(c, q)
  PROVE  Cardinality(UnheardFrom(a, p)) <= Cardinality(UnheardFrom(c, q))
<1>1. IsFiniteSet(UnheardFrom(c, q))
  BY UnheardIsFinite
<1> QED
  BY <1>1, FS_Subset

LEMMA HeardOfMore ==
  ASSUME DeviceTypes, NEW a \in Nat, NEW c \in Nat, a <= c, NEW p
  PROVE  UnheardFrom(c, p) \subseteq UnheardFrom(a, p)
<1>1. \A b \in c..(sizeInBytes - 1) : b \in a..(sizeInBytes - 1)
  BY HereIs
<1> QED
  BY <1>1 DEF UnheardFrom

(* A read that begins where everything scanned has been read up to adds nothing. *)
LEMMA GoneWhenReadBegins ==
  ASSUME DeviceTypes, GoneOk(Here, contiguousLost, answeredTo), NEW p \in Nat, Reached(p)
  PROVE  GoneOk(p, contiguousLost, answeredTo)
<1>0. answeredTo \in Nat /\ contiguousLost \in Nat /\ Here \in Nat /\ sizeInBytes \in Nat
  BY HereIs DEF DeviceTypes
<1>1. UnheardFrom(answeredTo, p) \subseteq UnheardFrom(answeredTo, Here)
  <2> SUFFICES ASSUME NEW b \in answeredTo..(sizeInBytes - 1), b < p, InSomeRegion(b)
               PROVE  b < Here
    BY DEF UnheardFrom
  <2>1. b \in Here..(p - 1) => ~(b < sizeInBytes)
    BY DEF Reached
  <2> QED
    BY <1>0, <2>1
<1>2. Cardinality(UnheardFrom(answeredTo, p)) <= Cardinality(UnheardFrom(answeredTo, Here))
  BY <1>0, <1>1, FewerUnheard
<1>3. Cardinality(UnheardFrom(answeredTo, p)) \in Nat
      /\ Cardinality(UnheardFrom(answeredTo, Here)) \in Nat
  BY <1>0, UnheardIsFinite
<1> QED
  BY <1>0, <1>2, <1>3 DEF GoneOk

(* An answer: either there is nothing behind it, or the device is at its end. *)
LEMMA GoneWhenAnswered ==
  ASSUME DeviceTypes, GoneOk(Here, contiguousLost, answeredTo), NEW n \in Nat \ {0},
         contiguousLost < kLostSourceRunBytes
  PROVE  GoneOk(Here + SliceLen(Here, n), 0, Furthest(Here, n))
<1> DEFINE a == Furthest(Here, n)
           l == SliceLen(Here, n)
<1>0. answeredTo \in Nat /\ contiguousLost \in Nat /\ Here \in Nat /\ sizeInBytes \in Nat
      /\ content \in Contents /\ kLostSourceRunBytes \in Nat
  BY HereIs, DeviceAssumption DEF DeviceTypes
<1>1. a \in Nat /\ a >= answeredTo /\ (l > 0 => a >= Here + l)
  BY <1>0, FurthestIs
<1>2. l \in Nat /\ (Here < sizeInBytes => l > 0)
  <2>1. n \in Nat /\ n > 0
    OBVIOUS
  <2>2. SliceLen(Here, n) \in Nat /\ (Here < sizeInBytes /\ n > 0 => SliceLen(Here, n) > 0)
    BY <1>0, <2>1, SliceLenIs
  <2> QED
    BY <2>1, <2>2
<1> HIDE DEF a, l
<1>3. CASE l > 0
  <2>1. UnheardFrom(a, Here + l) = {}
    <3> SUFFICES ASSUME NEW b \in a..(sizeInBytes - 1), b < Here + l PROVE FALSE
      BY DEF UnheardFrom
    <3> QED
      BY <1>0, <1>1, <1>2, <1>3
  <2>2. Cardinality(UnheardFrom(a, Here + l)) = 0
    BY <2>1, FS_EmptySet, Zenon
  <2>3. GoneOk(Here + l, 0, a)
    BY <2>2 DEF GoneOk
  <2> QED
    BY <2>3 DEF a, l
<1>4. CASE l = 0
  <2>1. Here >= sizeInBytes
    BY <1>0, <1>2, <1>4
  <2>2. UnheardFrom(a, sizeInBytes) \subseteq UnheardFrom(answeredTo, sizeInBytes)
    BY <1>0, <1>1, HeardOfMore
  <2>3. UnheardFrom(answeredTo, sizeInBytes) \subseteq UnheardFrom(answeredTo, Here)
    <3>1. \A b \in answeredTo..(sizeInBytes - 1) : b < Here
      BY <1>0, <2>1
    <3> QED
      BY <3>1 DEF UnheardFrom
  <2>4. UnheardFrom(a, sizeInBytes) \subseteq UnheardFrom(answeredTo, Here)
    BY <2>2, <2>3
  <2>5. /\ Cardinality(UnheardFrom(a, sizeInBytes)) <= Cardinality(UnheardFrom(answeredTo, Here))
        /\ Cardinality(UnheardFrom(a, sizeInBytes)) <= Cardinality(UnheardFrom(answeredTo, sizeInBytes))
    BY <1>0, <1>1, <2>2, <2>4, FewerUnheard
  <2>6. /\ Cardinality(UnheardFrom(a, sizeInBytes)) \in Nat
        /\ Cardinality(UnheardFrom(answeredTo, Here)) \in Nat
        /\ Cardinality(UnheardFrom(answeredTo, sizeInBytes)) \in Nat
    BY <1>0, <1>1, UnheardIsFinite
  <2>7. Cardinality(UnheardFrom(a, sizeInBytes)) < kLostSourceRunBytes
    BY <1>0, <2>5, <2>6 DEF GoneOk
  <2> QED
    BY <2>7 DEF GoneOk, a, l
<1> QED
  BY <1>2, <1>3, <1>4

LEMMA GoneWhenGivenUp ==
  ASSUME DeviceTypes, GoneOk(Here, contiguousLost, answeredTo), NEW n \in Nat \ {0}
  PROVE  GoneOk(Here + n, contiguousLost + n, answeredTo)
<1> DEFINE U == UnheardFrom(answeredTo, Here)
           I == Here..(Here + n - 1)
           V == UnheardFrom(answeredTo, Here + n)
<1>0. answeredTo \in Nat /\ contiguousLost \in Nat /\ Here \in Nat /\ sizeInBytes \in Nat
  BY HereIs DEF DeviceTypes
<1>1. V \subseteq U \cup I
  <2> SUFFICES ASSUME NEW b \in answeredTo..(sizeInBytes - 1), b < Here + n, b \notin I
               PROVE  b < Here
    BY DEF UnheardFrom
  <2> QED
    BY <1>0
<1>2. IsFiniteSet(U) /\ Cardinality(U) \in Nat /\ Cardinality(V) \in Nat
  BY <1>0, UnheardIsFinite
<1>3. IsFiniteSet(I) /\ Cardinality(I) = n
  <2>1. Here \in Int /\ Here + n - 1 \in Int /\ ~(Here > Here + n - 1) /\ (Here + n - 1) - Here + 1 = n
    BY <1>0
  <2>2. IsFiniteSet(I) /\ Cardinality(I) = IF Here > Here + n - 1 THEN 0 ELSE (Here + n - 1) - Here + 1
    BY <2>1, FS_Interval
  <2> QED
    BY <2>1, <2>2
<1> HIDE DEF U, I, V
<1>4. /\ IsFiniteSet(U \cup I)
      /\ Cardinality(U \cup I) = Cardinality(U) + Cardinality(I) - Cardinality(U \cap I)
  BY <1>2, <1>3, FS_Union
<1>5. IsFiniteSet(U \cap I) /\ Cardinality(U \cap I) \in Nat
  BY <1>2, FS_Intersection, FS_CardinalityType
<1>6. Cardinality(V) <= Cardinality(U \cup I)
  BY <1>1, <1>4, FS_Subset
<1>7. Cardinality(V) <= Cardinality(U) + n
  BY <1>2, <1>3, <1>4, <1>5, <1>6
<1>8. Cardinality(U) <= contiguousLost => Cardinality(V) <= contiguousLost + n
  BY <1>0, <1>2, <1>7
<1> QED
  BY <1>8 DEF GoneOk, U, V

LEMMA GoneUnderDevice ==
  ASSUME PlacedInv, GoneInv, DeviceStep, UNCHANGED scanVars
  PROVE  GoneInv'
<1>0. DeviceInv /\ DeviceTypes /\ ReadInv /\ GoneOk(Here, contiguousLost, answeredTo)
  BY GoneIs DEF PlacedInv, DeviceInv
<1>1. content' = content /\ plan' = plan /\ DeviceInv' /\ ReadGoesOn
  BY <1>0, DeviceKeeps DEF scanVars, ReadGoesOn
<1>2. /\ Here \in Nat /\ Here = read.at + Len(read.got) /\ content \in Contents
      /\ read.at \in Nat /\ read.want \in Nat /\ contiguousLost \in Nat
  BY <1>0, HereIs DEF DeviceTypes
<1>3. Here' = read.at + Len(read'.got)
  BY <1>1 DEF Here, ReadGoesOn
<1> SUFFICES GoneOk(Here', contiguousLost', answeredTo')
  BY <1>1, GoneNext
<1>4. CASE readWhole
  <2>1. /\ read.state = "whole" /\ read' = [read EXCEPT !.got = Slice(read.at, read.want), !.state = "ok"]
        /\ contiguousLost' = 0 /\ answeredTo' = Furthest(read.at, read.want)
    BY <1>4 DEF readWhole
  <2>2. /\ read.got = <<>> /\ read.want \in Nat \ {0} /\ contiguousLost < kLostSourceRunBytes
    BY <1>0, <1>2, <2>1 DEF ReadInv
  <2>3. Here = read.at
    BY <1>2, <2>2
  <2>4. read'.got = Slice(read.at, read.want)
    BY <1>0, <2>1 DEF DeviceTypes
  <2>5. Here' = Here + SliceLen(Here, read.want)
    BY <1>2, <1>3, <2>3, <2>4, SliceIs, ZenonT(90)
  <2>6. GoneOk(Here + SliceLen(Here, read.want), 0, Furthest(Here, read.want))
    BY <1>0, <2>2, GoneWhenAnswered
  <2> QED
    BY <2>1, <2>3, <2>5, <2>6
<1>5. CASE readOneSector
  <2> DEFINE s == Slice(Here, Step)
  <2>1. /\ Walking /\ contiguousLost' = 0 /\ answeredTo' = Furthest(Here, Step)
        /\ read' = IF s = <<>> THEN [read EXCEPT !.state = "ok"] ELSE [read EXCEPT !.got = read.got \o s]
    BY <1>5 DEF readOneSector
  <2>2. Step \in Nat \ {0} /\ read.got \in Seq(ByteValues) /\ Len(read.got) \in Nat
        /\ contiguousLost < kLostSourceRunBytes
    BY <1>0, <2>1, StepLen DEF Walking
  <2>3. s \in Seq(ByteValues) /\ Len(s) = SliceLen(Here, Step)
    BY <1>2, <2>2, SliceIs
  <2> HIDE DEF s
  <2>4. Len(s) \in Nat /\ (s = <<>> => Len(s) = 0)
    BY <2>3
  <2>5. CASE s = <<>>
    <3>1. read'.got = read.got
      BY <1>0, <2>1, <2>5 DEF DeviceTypes
    <3>2. Here' = Here + SliceLen(Here, Step)
      BY <1>2, <1>3, <2>3, <2>4, <2>5, <3>1
    <3> QED
      BY <1>0, <2>1, <2>2, <3>2, GoneWhenAnswered
  <2>6. CASE s # <<>>
    <3>1. read'.got = read.got \o s
      BY <1>0, <2>1, <2>6 DEF DeviceTypes
    <3>2. Len(read.got \o s) = Len(read.got) + Len(s)
      BY <2>2, <2>3
    <3>3. Here' = Here + SliceLen(Here, Step)
      BY <1>2, <1>3, <2>2, <2>3, <2>4, <3>1, <3>2, SMTT(60)
    <3> QED
      BY <1>0, <2>1, <2>2, <3>3, GoneWhenAnswered
  <2> QED
    BY <2>5, <2>6
<1>6. CASE giveUpOn
  <2>1. Len(read'.got) = Len(read.got) + Step
    BY <1>0, <1>6, GivingUpKeeps
  <2>2. Walking /\ contiguousLost' = contiguousLost + Step /\ answeredTo' = answeredTo
    BY <1>6 DEF giveUpOn
  <2>3. Step \in Nat \ {0} /\ Len(read.got) \in Nat
    BY <1>0, <2>2, StepLen
  <2>4. Here' = Here + Step
    BY <1>2, <1>3, <2>1, <2>3
  <2>5. GoneOk(Here + Step, contiguousLost + Step, answeredTo)
    BY <1>0, <2>3, GoneWhenGivenUp
  <2> QED
    BY <2>2, <2>4, <2>5
<1>7. CASE wholeFails \/ readSectorwise \/ vanish
  <2>1. read'.got = read.got /\ contiguousLost' = contiguousLost /\ answeredTo' = answeredTo
    BY <1>0, <1>7 DEF wholeFails, readSectorwise, vanish, DeviceTypes
  <2>2. Here' = Here
    BY <1>2, <1>3, <2>1
  <2> QED
    BY <1>0, <2>1, <2>2
<1> QED
  BY <1>4, <1>5, <1>6, <1>7 DEF DeviceStep

LEMMA GoneSame ==
  ASSUME PlacedInv, GoneInv, UNCHANGED deviceVars, plan' = plan
  PROVE  GoneInv'
<1>1. read' = read /\ content' = content /\ contiguousLost' = contiguousLost /\ answeredTo' = answeredTo
  BY DeviceSame DEF PlacedInv
<1>2. Here' = Here
  BY <1>1 DEF Here
<1> QED
  BY <1>1, <1>2, GoneIs, GoneNext

LEMMA GoneNextStep ==
  ASSUME PlacedInv, GoneInv, [Next]_vars
  PROVE  GoneInv'
<1>0. DeviceTypes /\ GoneOk(Here, contiguousLost, answeredTo) /\ ScanTypes
  BY GoneIs DEF PlacedInv, DeviceInv
<1>1. CASE scanOneWindow
  <2>1. content' = content /\ read'.got = <<>> /\ read'.at = cursor /\ Reached(cursor)
        /\ contiguousLost' = contiguousLost /\ answeredTo' = answeredTo /\ plan' = plan
    BY <1>1, WindowStarts
  <2>2. cursor \in Nat
    BY <1>0 DEF ScanTypes
  <2>3. Here' = cursor
    BY <2>1, <2>2 DEF Here
  <2>4. GoneOk(cursor, contiguousLost, answeredTo)
    BY <1>0, <2>1, <2>2, GoneWhenReadBegins
  <2> QED
    BY <2>1, <2>3, <2>4, GoneNext
<1>2. CASE attemptCarve
  <2>1. content' = content /\ read'.got = <<>> /\ Reached(read'.at) /\ read'.at = firstMatch.offset
        /\ contiguousLost' = contiguousLost /\ answeredTo' = answeredTo /\ plan' = plan
    BY <1>2, CarveStarts
  <2>2. read'.at \in Nat
    BY <1>0, <1>2, <2>1, FirstOfMatches DEF attemptCarve
  <2>3. Here' = read'.at
    BY <2>1, <2>2 DEF Here
  <2>4. GoneOk(read'.at, contiguousLost, answeredTo)
    BY <1>0, <2>1, <2>2, GoneWhenReadBegins
  <2> QED
    BY <2>1, <2>3, <2>4, GoneNext
<1>3. CASE \/ scanRegion \/ runScanLoop \/ readAndMatch \/ endOfDevice \/ skipMatch
           \/ applyMatch \/ stepWindow \/ scanFails
  <2>1. UNCHANGED deviceVars /\ plan' = plan
    BY <1>3 DEF scanRegion, runScanLoop, readAndMatch, endOfDevice, skipMatch, applyMatch,
                stepWindow, scanFails
  <2> QED
    BY <2>1, GoneSame
<1>4. CASE DeviceStep /\ UNCHANGED scanVars
  BY <1>4, GoneUnderDevice
<1>5. CASE UNCHANGED vars
  BY <1>5, GoneSame DEF vars, scanVars
<1> QED
  BY <1>1, <1>2, <1>3, <1>4, <1>5 DEF Next, ScanStep

(* The bytes scanned behind the last answer are no more than the run of losses, or too few
   to be called a lost source. *)
THEOREM GoneInvariant == Spec => []GoneInv
<1>1. Init => GoneInv
  <2> SUFFICES ASSUME Init PROVE GoneInv
    OBVIOUS
  <2>1. DeviceTypes
    BY PlacedInit DEF PlacedInv, DeviceInv
  <2>2. contiguousLost = 0 /\ answeredTo = 0 /\ read = NoRead
    BY DEF Init, DeviceInit
  <2>3. Here = 0
    BY <2>2 DEF Here, NoRead
  <2>4. UnheardFrom(0, 0) = {}
    <3>1. \A b \in 0..(sizeInBytes - 1) : ~(b < 0)
      BY <2>1, HereIs
    <3> QED
      BY <3>1 DEF UnheardFrom
  <2>5. Cardinality(UnheardFrom(0, 0)) = 0
    BY <2>4, FS_EmptySet, Zenon
  <2>6. GoneOk(0, 0, 0)
    BY <2>5 DEF GoneOk
  <2> QED
    BY <2>2, <2>3, <2>6, GoneIs
<1>2. PlacedInv /\ GoneInv /\ [Next]_vars => GoneInv'
  BY GoneNextStep
<1> QED
  BY <1>1, <1>2, PlacedInvariant, PTL DEF Spec

(* kLostSourceRunBytes does its work: a scan that completes over a device that has gone
   has invented less than that behind the last byte the device gave. *)
THEOREM GoneIsRight == Spec => []GoneIsNoticed
<1>1. PlacedInv /\ GoneInv => GoneIsNoticed
  <2> SUFFICES ASSUME PlacedInv, GoneInv, pc = "idle", scanned = Len(plan)
               PROVE  Cardinality({b \in answeredTo..(sizeInBytes - 1) :
                                     \E r \in 1..scanned : plan[r].start <= b /\ b < plan[r].end})
                        < kLostSourceRunBytes
    BY DEF GoneIsNoticed
  <2> DEFINE X == {b \in answeredTo..(sizeInBytes - 1) :
                     \E r \in 1..scanned : plan[r].start <= b /\ b < plan[r].end}
  <2>0. DeviceTypes /\ ScanTypes /\ WindowInv /\ ReadInv /\ GoneOk(Here, contiguousLost, answeredTo)
    BY GoneIs DEF PlacedInv, DeviceInv
  <2>1. /\ Len(plan) \in Nat /\ DOMAIN plan = 1..Len(plan)
        /\ \A r \in 1..Len(plan) :
             plan[r].start \in Nat /\ plan[r].end \in Nat /\ plan[r].start < plan[r].end
        /\ \A i, j \in 1..Len(plan) : i < j => plan[i].end <= plan[j].start
    BY <2>0, PlanIs
  <2>2. /\ Here \in Nat /\ sizeInBytes \in Nat /\ answeredTo \in Nat /\ contiguousLost \in Nat
        /\ kLostSourceRunBytes \in Nat \ {0}
    BY <2>0, HereIs, DeviceAssumption DEF DeviceTypes
  <2>3. X = UnheardFrom(answeredTo, sizeInBytes)
    <3>1. \A b \in answeredTo..(sizeInBytes - 1) : b < sizeInBytes
      BY <2>2
    <3>2. 1..scanned = DOMAIN plan
      BY <2>1
    <3> QED
      BY <3>1, <3>2 DEF UnheardFrom, InSomeRegion
  <2>4. UnheardFrom(answeredTo, sizeInBytes) \subseteq UnheardFrom(answeredTo, Here)
    <3> SUFFICES ASSUME NEW b \in answeredTo..(sizeInBytes - 1), NEW j \in 1..Len(plan),
                        plan[j].start <= b, b < plan[j].end, ~(b < Here)
                 PROVE  FALSE
      BY <2>1 DEF UnheardFrom, InSomeRegion
    <3>1. scanned > 0 /\ scanned \in 1..Len(plan)
      BY <2>1
    <3>2. Reached(plan[scanned].end)
      BY <2>0, <3>1 DEF WindowInv
    <3>3. plan[j].end \in Nat /\ plan[scanned].end \in Nat /\ plan[scanned].start \in Nat
          /\ plan[scanned].start < plan[scanned].end
      BY <2>1, <3>1
    <3>4. j = scanned \/ plan[j].end <= plan[scanned].start
      BY <2>1, <3>1
    <3>5. b \in Here..(plan[scanned].end - 1) /\ b < sizeInBytes
      BY <2>2, <3>3, <3>4
    <3>6. ~InSomeRegion(b)
      BY <3>2, <3>5 DEF Reached
    <3> QED
      BY <2>1, <3>6 DEF InSomeRegion
  <2>5. Cardinality(X) <= Cardinality(UnheardFrom(answeredTo, Here))
        /\ Cardinality(X) = Cardinality(UnheardFrom(answeredTo, sizeInBytes))
    BY <2>0, <2>2, <2>3, <2>4, FewerUnheard
  <2>6. Cardinality(X) \in Nat /\ Cardinality(UnheardFrom(answeredTo, Here)) \in Nat
    BY <2>0, <2>2, <2>3, UnheardIsFinite
  <2>7. contiguousLost < kLostSourceRunBytes
    BY <2>0 DEF WindowInv, ReadInv
  <2> HIDE DEF X
  <2>8. Cardinality(X) < kLostSourceRunBytes
    BY <2>0, <2>2, <2>5, <2>6, <2>7 DEF GoneOk
  <2> QED
    BY <2>8 DEF X
<1> QED
  BY <1>1, PlacedInvariant, GoneInvariant, PTL

(***************************************************************************)
(* The windows find what one pass over the whole device would.             *)
(***************************************************************************)

LEMMA AllMatchesAre ==
  ASSUME content \in Contents
  PROVE  /\ \A m : m \in AllMatches <=> MatchIn(m, content, 0)
         /\ AllMatches \in SUBSET Matches
         /\ \A m \in AllMatches :
              /\ m.offset \in Nat /\ m.carver \in DOMAIN Signatures /\ reachOf(m) \in Nat
              /\ m.offset < sizeInBytes /\ reachOf(m) <= sizeInBytes
              /\ reachOf(m) <= m.offset + maxSignatureBytes
<1>1. content \in Seq(ByteValues) /\ sizeInBytes \in Nat /\ 0 \in Nat
  BY ContentIs
<1>2. \A m : m \in AllMatches <=> MatchIn(m, content, 0)
  BY <1>1, MatchWindowIs DEF AllMatches
<1>3. ASSUME NEW m \in AllMatches
      PROVE  /\ m \in Matches /\ m.offset \in Nat /\ m.carver \in DOMAIN Signatures
             /\ reachOf(m) \in Nat
             /\ m.offset < sizeInBytes /\ reachOf(m) <= sizeInBytes
             /\ reachOf(m) <= m.offset + maxSignatureBytes
  <2>1. MatchIn(m, content, 0)
    BY <1>2
  <2>2. /\ m \in Matches /\ m.offset \in Nat /\ m.carver \in DOMAIN Signatures
        /\ m.offset < 0 + Len(content) /\ reachOf(m) <= 0 + Len(content) /\ reachOf(m) \in Nat
        /\ reachOf(m) <= m.offset + maxSignatureBytes
    BY <1>1, <2>1, MatchLies
  <2>3. 0 + Len(content) = sizeInBytes
    BY <1>1 DEF sizeInBytes
  <2> QED
    BY <2>2, <2>3
<1> QED
  BY <1>2, <1>3

(* What is left of a region from p on, what a match becomes, and where the
   pass goes on behind it. *)
Rest(p, end) == {m \in AllMatches : p <= m.offset /\ m.offset < end}

Taken(m) == [match |-> m, result |-> Carve(m.carver, Slice(m.offset, MaxCarveBytes))]

Behind(m) == resumeOffset(m.offset, Taken(m).result)

LEMMA BehindIs ==
  ASSUME content \in Contents, NEW m \in Matches
  PROVE  Behind(m) \in Nat /\ m.offset < Behind(m)
<1> DEFINE s == Slice(m.offset, MaxCarveBytes)
<1>1. m.offset \in Nat /\ m.carver \in DOMAIN Signatures /\ MaxCarveBytes \in Nat
  BY ScanAssumption DEF Matches
<1>2. s \in Seq(ByteValues) /\ Len(s) = SliceLen(m.offset, MaxCarveBytes)
  BY <1>1, SliceIs
<1>3. SliceLen(m.offset, MaxCarveBytes) <= MaxCarveBytes
  BY <1>1, SliceLenIs
<1>4. Behind(m) = resumeOffset(m.offset, Carve(m.carver, s))
  BY DEF Behind, Taken
<1> HIDE DEF s
<1>5. resumeOffset(m.offset, Carve(m.carver, s)) \in Nat
      /\ m.offset < resumeOffset(m.offset, Carve(m.carver, s))
  BY <1>1, <1>2, <1>3, ResumeIs
<1> QED
  BY <1>4, <1>5

(* The pass takes the first match there is, and goes on behind it. *)
LEMMA PassIs ==
  ASSUME content \in Contents, NEW end \in Nat
  PROVE  \A p \in 0..end :
           WholeScan(content, end)[p]
             = IF Rest(p, end) = {} THEN {}
               ELSE {Taken(canonicallyFirst(Rest(p, end)))}
                      \cup WholeScan(content, end)[Min({end, Behind(canonicallyFirst(Rest(p, end)))})]
<1> DEFINE D == 0..end
           stop == {p \in D : Rest(p, end) = {}}
           next == [p \in D |-> IF p \in stop THEN p
                                ELSE Min({end, Behind(canonicallyFirst(Rest(p, end)))})]
           e == [p \in D |-> Taken(canonicallyFirst(Rest(p, end)))]
           E == {e[p] : p \in D}
           Is(f) == f = [p \in D |-> IF Rest(p, end) = {} THEN {}
                           ELSE {Taken(canonicallyFirst(Rest(p, end)))}
                                  \cup f[Min({end, Behind(canonicallyFirst(Rest(p, end)))})]]
           f == CHOOSE g : Is(g)
<1>1. ASSUME NEW p \in D, p \notin stop
      PROVE  Min({end, Behind(canonicallyFirst(Rest(p, end)))}) \in D
  <2> DEFINE m == canonicallyFirst(Rest(p, end))
  <2>1. Rest(p, end) \in SUBSET Matches /\ Rest(p, end) # {}
    BY <1>1, AllMatchesAre DEF Rest
  <2>2. m \in Rest(p, end)
    BY <2>1, FirstIs
  <2> HIDE DEF m
  <2>3. Behind(m) \in Nat
    BY <2>1, <2>2, BehindIs
  <2>4. Min({end, Behind(m)}) = IF end <= Behind(m) THEN end ELSE Behind(m)
    BY <2>3, MinMaxOfTwo
  <2>5. Min({end, Behind(m)}) \in D
    BY <2>3, <2>4
  <2> QED
    BY <2>5 DEF m
<1>2. next \in [D -> D]
  BY <1>1
<1>3. PICK g \in [D -> SUBSET E] : Follows(g, D, stop, next, e)
  <2>1. stop \in SUBSET D /\ e \in [D -> E]
    OBVIOUS
  <2> HIDE DEF stop, D, e, E, next
  <2> QED
    BY <1>2, <2>1, ChainExists
<1>4. ASSUME NEW p \in D
      PROVE g[p]
             = (IF Rest(p, end) = {} THEN {}
                ELSE {Taken(canonicallyFirst(Rest(p, end)))}
                       \cup g[Min({end, Behind(canonicallyFirst(Rest(p, end)))})])
  BY <1>3 DEF Follows
<1>5. Is(g)
  <2> HIDE DEF e, next, stop, D
  <2> QED
    BY <1>3, <1>4
<1>6. Is(f)
  <2> HIDE DEF Is
  <2> QED
    BY <1>5
<1>7. WholeScan(content, end) = f
  BY DEF WholeScan, Rest, Taken, Behind, AllMatches, Slice
<1> HIDE DEF f
<1>8. ASSUME NEW p \in 0..end
      PROVE  f[p] = IF Rest(p, end) = {} THEN {}
                           ELSE {Taken(canonicallyFirst(Rest(p, end)))}
                                  \cup f[Min({end, Behind(canonicallyFirst(Rest(p, end)))})]
  BY <1>6
<1> QED
  BY <1>7, <1>8

(* Nothing begins between p and q: the pass finds the same from either. *)
LEMMA SamePass ==
  ASSUME content \in Contents, NEW end \in Nat, NEW p \in 0..end, NEW q \in 0..end, p <= q,
         \A m \in AllMatches : ~(p <= m.offset /\ m.offset < q)
  PROVE  WholeScan(content, end)[p] = WholeScan(content, end)[q]
<1>1. \A m \in AllMatches : m.offset \in Nat
  BY AllMatchesAre
<1>2. Rest(p, end) = Rest(q, end)
  BY <1>1 DEF Rest
<1> DEFINE f == WholeScan(content, end)
           Goes(r) == IF r = {} THEN {}
                      ELSE {Taken(canonicallyFirst(r))} \cup f[Min({end, Behind(canonicallyFirst(r))})]
<1>3. \A x \in 0..end : f[x] = Goes(Rest(x, end))
  BY PassIs
<1> HIDE DEF Goes, f
<1>4. f[p] = f[q]
  BY <1>2, <1>3
<1> QED
  BY <1>4 DEF f

LEMMA PassEnds ==
  ASSUME content \in Contents, NEW end \in Nat
  PROVE  WholeScan(content, end)[end] = {}
<1>1. \A m \in AllMatches : m.offset \in Nat
  BY AllMatchesAre
<1>2. Rest(end, end) = {}
  BY <1>1 DEF Rest
<1>3. end \in 0..end
  OBVIOUS
<1> QED
  BY <1>2, <1>3, PassIs

(* A piece of a slice is the same piece of the device. *)
LEMMA PieceOfSlice ==
  ASSUME content \in Contents, NEW a \in Nat, NEW s \in Seq(ByteValues), s = Slice(a, Len(s)),
         NEW q \in Nat \ {0}, NEW l \in Nat \ {0}, q + l - 1 <= Len(s)
  PROVE  /\ a + Len(s) <= sizeInBytes
         /\ SubSeq(s, q, q + l - 1) = SubSeq(content, a + q, a + q + l - 1)
<1>1. content \in Seq(ByteValues) /\ sizeInBytes \in Nat /\ sizeInBytes = Len(content)
  BY ContentIs DEF sizeInBytes
<1>2. Len(s) \in Nat /\ Len(s) > 0
  OBVIOUS
<1>3. Len(s) = SliceLen(a, Len(s)) /\ \A i \in 1..SliceLen(a, Len(s)) : s[i] = content[a + i]
  BY <1>2, SliceIs, ZenonT(90)
<1>4. a + Len(s) <= sizeInBytes
  BY <1>1, <1>2, <1>3 DEF SliceLen
<1>5. \A i \in 1..Len(s) : s[i] = content[a + i]
  BY <1>3
<1> DEFINE x == SubSeq(s, q, q + l - 1)
           y == SubSeq(content, a + q, a + q + l - 1)
<1>6. x \in Seq(ByteValues) /\ Len(x) = l /\ \A i \in 1..l : x[i] = s[q + i - 1]
  BY <1>2
<1>7. y \in Seq(ByteValues) /\ Len(y) = l /\ \A i \in 1..l : y[i] = content[a + q + i - 1]
  <2> DEFINE b == a + q
             c == a + q + l - 1
  <2>1. b \in Nat \ {0} /\ c \in Nat /\ c <= Len(content) /\ c - b + 1 = l
    BY <1>1, <1>2, <1>4
  <2> HIDE DEF b, c
  <2>2. LET z == SubSeq(content, b, c)
        IN z \in Seq(ByteValues) /\ Len(z) = c - b + 1 /\ \A i \in 1..(c - b + 1) : z[i] = content[b + i - 1]
    BY <1>1, <2>1
  <2>3. y = SubSeq(content, b, c)
    BY DEF b, c
  <2> QED
    BY <2>1, <2>2, <2>3 DEF b
<1> HIDE DEF x, y
<1>8. ASSUME NEW i \in 1..l PROVE x[i] = y[i]
  <2>1. q + i - 1 \in 1..Len(s) /\ a + (q + i - 1) = a + q + i - 1
    BY <1>2
  <2> QED
    BY <1>5, <1>6, <1>7, <2>1
<1>9. x = y
  BY <1>6, <1>7, <1>8
<1> QED
  BY <1>4, <1>9 DEF x, y

(* A window holds the matches of the whole device that end in it. *)
LEMMA WindowFinds ==
  ASSUME content \in Contents, NEW a \in Nat, NEW s \in Seq(ByteValues), s = Slice(a, Len(s)),
         NEW m \in Matches, m.offset >= a
  PROVE  MatchIn(m, s, a) <=> MatchIn(m, content, 0) /\ reachOf(m) <= a + Len(s)
<1> DEFINE g == Signatures[m.carver]
           l == Len(g.magic)
           o == g.offset
<1>1. m.offset \in Nat /\ m.carver \in DOMAIN Signatures
  BY DEF Matches
<1>2. l \in Nat \ {0} /\ o \in Nat /\ widestSignature(g) = l + o
  BY <1>1, SignatureIs
<1>3. reachOf(m) = m.offset + l + o
  BY <1>1, <1>2 DEF reachOf
<1>4. content \in Seq(ByteValues) /\ sizeInBytes \in Nat /\ sizeInBytes = Len(content) /\ Len(s) \in Nat
  BY ContentIs DEF sizeInBytes
<1>5. ASSUME NEW t, NEW q
      PROVE  magicIsAt(t, q, g) <=> q + l - 1 <= Len(t) /\ SubSeq(t, q, q + l - 1) = g.magic
  BY DEF magicIsAt
<1>6. ASSUME NEW t, NEW at
      PROVE  MatchIn(m, t, at) <=> \E q \in 1..Len(t) : magicIsAt(t, q, g) /\ at + q - 1 = m.offset + o
  BY DEF MatchIn
<1> HIDE DEF l, o, g
<1>7. ASSUME MatchIn(m, s, a)
      PROVE  MatchIn(m, content, 0) /\ reachOf(m) <= a + Len(s)
  <2>1. PICK q \in 1..Len(s) : magicIsAt(s, q, g) /\ a + q - 1 = m.offset + o
    BY <1>6, <1>7
  <2>2. q + l - 1 <= Len(s) /\ SubSeq(s, q, q + l - 1) = g.magic
    BY <1>5, <2>1
  <2>3. q \in Nat \ {0}
    BY <1>4
  <2>4. /\ a + Len(s) <= sizeInBytes
        /\ SubSeq(s, q, q + l - 1) = SubSeq(content, a + q, a + q + l - 1)
    BY <1>2, <2>2, <2>3, PieceOfSlice, ZenonT(90)
  <2>5. /\ a + q \in 1..Len(content) /\ a + q + l - 1 <= Len(content) /\ 0 + (a + q) - 1 = m.offset + o
        /\ reachOf(m) <= a + Len(s)
    BY <1>1, <1>2, <1>3, <1>4, <2>1, <2>2, <2>3, <2>4, SMTT(60)
  <2>6. magicIsAt(content, a + q, g)
    BY <1>5, <2>2, <2>4, <2>5
  <2> QED
    BY <1>6, <2>5, <2>6
<1>8. ASSUME MatchIn(m, content, 0), reachOf(m) <= a + Len(s)
      PROVE  MatchIn(m, s, a)
  <2>1. PICK r \in 1..Len(content) : magicIsAt(content, r, g) /\ 0 + r - 1 = m.offset + o
    BY <1>6, <1>8
  <2>2. r + l - 1 <= Len(content) /\ SubSeq(content, r, r + l - 1) = g.magic
    BY <1>5, <2>1
  <2> DEFINE q == r - a
  <2>3. q \in Nat \ {0} /\ q + l - 1 <= Len(s) /\ q \in 1..Len(s) /\ a + q = r /\ a + q - 1 = m.offset + o
    <3> DEFINE off == m.offset
               n == Len(s)
    <3>1. off \in Nat /\ n \in Nat /\ l \in Nat \ {0} /\ o \in Nat /\ r \in Nat /\ a \in Nat
      BY <1>1, <1>2, <1>4
    <3>2. 0 + r - 1 = off + o
      BY <2>1
    <3>3. off + l + o <= a + n /\ off >= a
      BY <1>3, <1>8
    <3> HIDE DEF off, n
    <3>4. q \in Nat \ {0} /\ q + l - 1 <= n /\ q <= n /\ a + q = r /\ a + q - 1 = off + o
      BY <3>1, <3>2, <3>3
    <3>5. q \in 1..n
      BY <3>1, <3>4
    <3> QED
      BY <3>4, <3>5 DEF off, n
  <2> HIDE DEF q
  <2>4. SubSeq(s, q, q + l - 1) = SubSeq(content, a + q, a + q + l - 1)
    BY <1>2, <2>3, PieceOfSlice, ZenonT(90)
  <2>5. magicIsAt(s, q, g)
    BY <1>5, <2>2, <2>3, <2>4
  <2> QED
    BY <1>6, <2>3, <2>5
<1> QED
  BY <1>7, <1>8

(* With nothing lost, what a read came back with is what is there. *)
LEMMA WholeRead ==
  ASSUME DeviceTypes, ReadInv, read.state = "ok", invented = {}
  PROVE  /\ read.got = Slice(read.at, read.want) /\ read.got = Slice(read.at, Len(read.got))
         /\ Len(read.got) = read.want \/ read.at + Len(read.got) >= sizeInBytes
         /\ Len(read.got) > 0 => read.at + Len(read.got) <= sizeInBytes
<1> DEFINE a == read.at
           w == read.want
           l == Len(read.got)
<1>1. a \in Nat /\ w \in Nat /\ l \in Nat /\ content \in Contents
  BY DEF DeviceTypes
<1>2. sizeInBytes \in Nat
  BY <1>1, ContentIs
<1>3. l <= w /\ (l = w \/ a + l >= sizeInBytes) /\ read.got = Slice(a, l)
  BY DEF ReadInv, Here
<1>4. l = SliceLen(a, l)
  BY <1>1, <1>3, SliceIs
<1> DEFINE t == Slice(a, w)
<1>5. Len(t) = SliceLen(a, w) /\ t = Slice(a, Len(t))
  BY <1>1, SliceIs, SliceOfItsLength
<1> HIDE DEF a, w, l, t
<1>6. SliceLen(a, w) = l /\ (l > 0 => a + l <= sizeInBytes)
  BY <1>1, <1>2, <1>3, <1>4 DEF SliceLen
<1>7. read.got = t
  BY <1>3, <1>5, <1>6
<1> QED
  BY <1>3, <1>6, <1>7 DEF a, w, l, t

(* Nothing invented is forgotten. *)
LEMMA InventedGrows ==
  ASSUME DeviceStep
  PROVE  invented' = {} => invented = {}
BY DEF DeviceStep, readWhole, wholeFails, readOneSector, giveUpOn, readSectorwise, vanish

FoundIn(rep, r) == {[match |-> c.match, result |-> c.result] : c \in {d \in rep : d.region = r}}

LEMMA ReportedIs == \A r : ReportedIn(r) = FoundIn(reported, r) /\ ReportedIn(r)' = FoundIn(reported', r)
BY DEF ReportedIn, FoundIn

LEMMA AllMatchesSame == content' = content => AllMatches' = AllMatches
BY DEF AllMatches

LEMMA SizeSame == content' = content => sizeInBytes' = sizeInBytes
BY DEF sizeInBytes

(* The parts of ExactInv, for any values of the variables. *)
PastOk(rep, n) == \A r \in 1..n : FoundIn(rep, r) = WholeScan(content, plan[r].end)[plan[r].start]

HereOk(rep, n, at) ==
  WholeScan(content, plan[n].end)[plan[n].start]
    = FoundIn(rep, n) \cup WholeScan(content, plan[n].end)[Min({plan[n].end, at})]

WindowOk(c, end, we, ov, found, resume, at) ==
  /\ we = Min({c + windowSlice(c, end), sizeInBytes})
  /\ ov = overlapBytes(we - c)
  /\ {m \in found : m.offset >= resume}
       = {m \in AllMatches : m.offset >= at /\ m.offset < end /\ reachOf(m) <= we}

LEMMA ExactIs ==
  /\ PastExact <=> PastOk(reported, scanned)
  /\ HereExact <=> (InRegion => HereOk(reported, scanned + 1, Position))
  /\ MatchesExact <=> (pc \in {"match", "carve"} =>
                         WindowOk(cursor, Region.end, windowEnd, overlap, matches, resumeCursor, Position))
<1>1. PastExact <=> PastOk(reported, scanned)
  BY ReportedIs DEF PastExact, PastOk
<1>2. HereExact <=> (InRegion => HereOk(reported, scanned + 1, Position))
  BY ReportedIs DEF HereExact, HereOk, Region
<1>3. MatchesExact <=> (pc \in {"match", "carve"} =>
                         WindowOk(cursor, Region.end, windowEnd, overlap, matches, resumeCursor, Position))
  BY DEF MatchesExact, WindowOk
<1> QED
  BY <1>1, <1>2, <1>3

LEMMA ExactNext ==
  ASSUME content' = content, plan' = plan
  PROVE  /\ PastExact' <=> PastOk(reported', scanned')
         /\ HereExact' <=> (InRegion' => HereOk(reported', scanned' + 1, Position'))
         /\ MatchesExact' <=> (pc' \in {"match", "carve"} =>
               WindowOk(cursor', Region'.end, windowEnd', overlap', matches', resumeCursor', Position'))
<1>1. PastExact' <=> PastOk(reported', scanned')
  BY ReportedIs DEF PastExact, PastOk
<1>2. HereExact' <=> (InRegion' => HereOk(reported', scanned' + 1, Position'))
  BY ReportedIs DEF HereExact, HereOk, Region
<1>3. MatchesExact' <=> (pc' \in {"match", "carve"} =>
               WindowOk(cursor', Region'.end, windowEnd', overlap', matches', resumeCursor', Position'))
  BY AllMatchesSame, SizeSame DEF MatchesExact, WindowOk
<1> QED
  BY <1>1, <1>2, <1>3

(* What holds in one state, when nothing the scan found was invented. *)
LEMMA ExactHere ==
  ASSUME ExactInv, invented = {}
  PROVE  /\ RegionsInv /\ PastOk(reported, scanned)
         /\ InRegion => HereOk(reported, scanned + 1, Position)
         /\ pc \in {"match", "carve"} =>
              WindowOk(cursor, Region.end, windowEnd, overlap, matches, resumeCursor, Position)
BY ExactIs DEF ExactInv

LEMMA ExactThere ==
  ASSUME content' = content, plan' = plan, RegionsInv',
         invented' = {} =>
           /\ PastOk(reported', scanned')
           /\ InRegion' => HereOk(reported', scanned' + 1, Position')
           /\ pc' \in {"match", "carve"} =>
                WindowOk(cursor', Region'.end, windowEnd', overlap', matches', resumeCursor', Position')
  PROVE  ExactInv'
BY ExactNext DEF ExactInv

(* A step that only reads. *)
LEMMA ExactWhileReading ==
  ASSUME ExactInv, content' = content, invented' = {} => invented = {},
         UNCHANGED <<plan, scanned, cursor, windowEnd, overlap, matches, resumeCursor, reported>>,
         \/ pc' = pc \/ pc' = "failed"
         \/ pc = "next" /\ pc' = "window"
         \/ pc = "match" /\ pc' = "carve"
  PROVE  ExactInv'
<1>1. RegionsInv'
  BY DEF ExactInv, RegionsInv
<1>2. /\ InRegion' => InRegion
      /\ pc' \in {"match", "carve"} => pc \in {"match", "carve"}
      /\ InRegion' => Position' = Position
      /\ Region' = Region
  BY DEF InRegion, Position, Region
<1>3. ASSUME invented' = {}
      PROVE  /\ PastOk(reported', scanned')
             /\ InRegion' => HereOk(reported', scanned' + 1, Position')
             /\ pc' \in {"match", "carve"} =>
                  WindowOk(cursor', Region'.end, windowEnd', overlap', matches', resumeCursor', Position')
  <2>1. /\ RegionsInv /\ PastOk(reported, scanned)
        /\ InRegion => HereOk(reported, scanned + 1, Position)
        /\ pc \in {"match", "carve"} =>
             WindowOk(cursor, Region.end, windowEnd, overlap, matches, resumeCursor, Position)
    BY <1>3, ExactHere
  <2>2. pc' \in {"match", "carve"} => Position' = Position
    BY <1>2 DEF InRegion
  <2> QED
    BY <1>2, <2>1, <2>2
<1> QED
  BY <1>1, <1>3, ExactThere

LEMMA ExactSkipped ==
  ASSUME ExactInv, PlacedInv, skipMatch
  PROVE  ExactInv'
<1>1. /\ pc = "match" /\ matches # {} /\ firstMatch.offset < resumeCursor
      /\ matches' = matches \ {firstMatch} /\ pc' = pc
      /\ UNCHANGED <<deviceVars, plan, scanned, cursor, windowEnd, overlap, resumeCursor, reported>>
  BY DEF skipMatch
<1>2. content' = content /\ invented' = invented
  BY <1>1 DEF deviceVars, device
<1>3. RegionsInv'
  BY <1>1 DEF ExactInv, RegionsInv
<1>4. InRegion' = InRegion /\ Position' = Position /\ Region' = Region
  BY <1>1 DEF InRegion, Position, Region
<1>5. ASSUME invented' = {}
      PROVE  /\ PastOk(reported', scanned')
             /\ InRegion' => HereOk(reported', scanned' + 1, Position')
             /\ WindowOk(cursor', Region'.end, windowEnd', overlap', matches', resumeCursor', Position')
  <2>1. /\ PastOk(reported, scanned)
        /\ InRegion => HereOk(reported, scanned + 1, Position)
        /\ WindowOk(cursor, Region.end, windowEnd, overlap, matches, resumeCursor, Position)
    BY <1>1, <1>2, <1>5, ExactHere
  <2>2. firstMatch.offset \in Nat /\ resumeCursor \in Nat
    BY <1>1, FirstOfMatches DEF PlacedInv, ScanTypes
  <2>3. {m \in matches' : m.offset >= resumeCursor} = {m \in matches : m.offset >= resumeCursor}
    BY <1>1, <2>2
  <2>4. WindowOk(cursor, Region.end, windowEnd, overlap, matches', resumeCursor, Position)
    BY <2>1, <2>3 DEF WindowOk
  <2> QED
    BY <1>1, <1>4, <2>1, <2>4
<1> QED
  BY <1>1, <1>2, <1>3, <1>5, ExactThere

LEMMA ExactRegionStarts ==
  ASSUME ExactInv, PlacedInv, scanRegion
  PROVE  ExactInv'
<1>1. /\ pc = "idle" /\ scanned < Len(plan) /\ cursor' = Region.start /\ pc' = "next"
      /\ UNCHANGED <<deviceVars, plan, scanned, windowEnd, overlap, matches, resumeCursor, reported>>
  BY DEF scanRegion
<1>2. content' = content /\ invented' = invented
  BY <1>1 DEF deviceVars, device
<1>3. /\ scanned \in Nat /\ Region = plan[scanned + 1]
      /\ Region.start \in Nat /\ Region.end \in Nat /\ Region.start < Region.end
  BY <1>1, RegionIs DEF PlacedInv, ScanTypes
<1>4. RegionsInv'
  BY <1>1 DEF ExactInv, RegionsInv
<1>5. Position' = Region.start
  BY <1>1 DEF Position
<1>6. ASSUME invented' = {}
      PROVE  PastOk(reported', scanned') /\ HereOk(reported', scanned' + 1, Position')
  <2>1. PastOk(reported, scanned)
    BY <1>2, <1>6, ExactHere
  <2>2. FoundIn(reported, scanned + 1) = {}
    <3>1. \A c \in reported : c.region \in 1..(scanned + 1) /\ c.region <= scanned
      BY <1>1 DEF ExactInv, RegionsInv
    <3>2. \A c \in reported : c.region # scanned + 1
      BY <1>3, <3>1
    <3> QED
      BY <3>2 DEF FoundIn
  <2>3. Min({Region.end, Region.start}) = Region.start
    BY <1>3, MinMaxOfTwo
  <2>4. HereOk(reported, scanned + 1, Region.start)
    BY <1>3, <2>2, <2>3 DEF HereOk
  <2> QED
    BY <1>1, <1>5, <2>1, <2>4
<1> QED
  BY <1>1, <1>2, <1>4, <1>6, ExactThere

LEMMA ExactRegionEnds ==
  ASSUME ExactInv, PlacedInv, runScanLoop
  PROVE  ExactInv'
<1>1. /\ pc = "next" /\ cursor >= Region.end /\ scanned' = scanned + 1 /\ pc' = "idle"
      /\ UNCHANGED <<deviceVars, plan, cursor, windowEnd, overlap, matches, resumeCursor, reported>>
  BY DEF runScanLoop
<1>2. content' = content /\ invented' = invented /\ content \in Contents
  BY <1>1 DEF deviceVars, device, PlacedInv, DeviceInv, DeviceTypes
<1>3. /\ scanned \in Nat /\ cursor \in Nat /\ Region = plan[scanned + 1]
      /\ Region.start \in Nat /\ Region.end \in Nat /\ Region.start < Region.end
  BY <1>1, RegionIs DEF PlacedInv, ScanTypes, WindowInv, InRegion
<1>4. RegionsInv'
  <2>1. \A c \in reported : c.region \in 1..(scanned + 1)
    BY DEF ExactInv, RegionsInv
  <2>2. \A c \in reported' : c.region \in 1..(scanned' + 1) /\ c.region <= scanned'
    BY <1>1, <1>3, <2>1
  <2> QED
    BY <2>2 DEF RegionsInv
<1>5. Position = cursor /\ InRegion
  BY <1>1 DEF Position, InRegion
<1>6. ASSUME invented' = {}
      PROVE  PastOk(reported', scanned')
  <2>1. PastOk(reported, scanned) /\ HereOk(reported, scanned + 1, cursor)
    BY <1>2, <1>5, <1>6, ExactHere
  <2>2. Min({Region.end, cursor}) = Region.end
    BY <1>1, <1>3, MinMaxOfTwo
  <2>3. WholeScan(content, Region.end)[Region.end] = {}
    BY <1>2, <1>3, PassEnds
  <2>4. FoundIn(reported, scanned + 1) = WholeScan(content, plan[scanned + 1].end)[plan[scanned + 1].start]
    BY <1>3, <2>1, <2>2, <2>3 DEF HereOk
  <2>5. \A r \in 1..(scanned + 1) : r \in 1..scanned \/ r = scanned + 1
    BY <1>3
  <2>6. PastOk(reported, scanned + 1)
    BY <2>1, <2>4, <2>5 DEF PastOk
  <2> QED
    BY <1>1, <2>6
<1>7. ~InRegion' /\ pc' \notin {"match", "carve"}
  BY <1>1 DEF InRegion
<1> QED
  BY <1>1, <1>2, <1>4, <1>6, <1>7, ExactThere

LEMMA PositionIs ==
  ASSUME ScanTypes
  PROVE  /\ Position \in Nat /\ cursor <= Position /\ cursor \in Nat /\ resumeCursor \in Nat
         /\ pc \in {"match", "carve"} =>
              /\ resumeCursor <= Position
              /\ Position = IF cursor >= resumeCursor THEN cursor ELSE resumeCursor
         /\ pc \notin {"match", "carve"} => Position = cursor
<1>1. cursor \in Nat /\ resumeCursor \in Nat
  BY DEF ScanTypes
<1>2. Max({cursor, resumeCursor}) = IF cursor >= resumeCursor THEN cursor ELSE resumeCursor
  BY <1>1, MinMaxOfTwo
<1>3. CASE pc \in {"match", "carve"}
  BY <1>1, <1>2, <1>3 DEF Position
<1>4. CASE pc \notin {"match", "carve"}
  BY <1>1, <1>4 DEF Position
<1> QED
  BY <1>3, <1>4

LEMMA ExactWindowRead ==
  ASSUME ExactInv, PlacedInv, readAndMatch
  PROVE  ExactInv'
<1>1. /\ pc = "window" /\ read.state = "ok" /\ read.got # <<>>
      /\ matches' = {m \in matchWindow(read.got, cursor) : WithinRegion(m, cursor, Region.end)}
      /\ windowEnd' = cursor + Len(read.got) /\ overlap' = overlapBytes(Len(read.got))
      /\ resumeCursor' = 0 /\ pc' = "match"
      /\ UNCHANGED <<deviceVars, plan, scanned, cursor, reported>>
  BY DEF readAndMatch
<1>2. content' = content /\ invented' = invented /\ content \in Contents
  BY <1>1 DEF deviceVars, device, PlacedInv, DeviceInv, DeviceTypes
<1>3. /\ scanned < Len(plan) /\ cursor < Region.end /\ cursor \in Nat
      /\ read.at = cursor /\ read.want = windowSlice(cursor, Region.end)
  BY <1>1 DEF PlacedInv, ScanTypes, WindowInv, InRegion
<1>4. Region.end \in Nat /\ Region' = Region
  BY <1>1, <1>3, RegionIs DEF PlacedInv, Region
<1>5. RegionsInv'
  BY <1>1 DEF ExactInv, RegionsInv
<1>6. Position = cursor /\ Position' = cursor /\ InRegion
  <2>1. Max({cursor, 0}) = cursor
    <3> DEFINE z == 0
    <3>1. z \in Nat /\ cursor >= z
      BY <1>3
    <3> HIDE DEF z
    <3>2. Max({cursor, z}) = IF cursor >= z THEN cursor ELSE z
      BY <1>3, <3>1, MinMaxOfTwo
    <3>3. Max({cursor, z}) = cursor
      BY <3>1, <3>2
    <3> QED
      BY <3>3 DEF z
  <2> QED
    BY <1>1, <2>1 DEF Position, InRegion
<1>7. ASSUME invented' = {}
      PROVE  /\ PastOk(reported', scanned') /\ HereOk(reported', scanned' + 1, Position')
             /\ WindowOk(cursor', Region'.end, windowEnd', overlap', matches', resumeCursor', Position')
  <2> DEFINE s == read.got
             l == Len(s)
             w == windowSlice(cursor, Region.end)
             e == cursor + l
  <2>1. PastOk(reported, scanned) /\ HereOk(reported, scanned + 1, cursor)
    BY <1>2, <1>6, <1>7, ExactHere
  <2>2. s \in Seq(ByteValues) /\ l \in Nat /\ l > 0
    BY <1>1 DEF PlacedInv, DeviceInv, DeviceTypes
  <2>3. /\ s = Slice(cursor, l)
        /\ l = w \/ cursor + l >= sizeInBytes
        /\ cursor + l <= sizeInBytes
    BY <1>1, <1>2, <1>3, <1>7, <2>2, WholeRead DEF PlacedInv, DeviceInv
  <2>4. l <= w
    BY <1>3 DEF PlacedInv, DeviceInv, ReadInv
  <2>5. w \in Nat /\ sizeInBytes \in Nat
    BY <1>2, <1>3, <1>4, WindowSliceIs, ContentIs
  <2>6. e = Min({cursor + w, sizeInBytes})
    <3> HIDE DEF w, l, s
    <3>1. cursor + w \in Nat
      BY <1>3, <2>5
    <3>2. Min({cursor + w, sizeInBytes}) = IF cursor + w <= sizeInBytes THEN cursor + w ELSE sizeInBytes
      BY <2>5, <3>1, MinMaxOfTwo
    <3> QED
      BY <1>3, <2>2, <2>3, <2>4, <2>5, <3>2
  <2>7. overlapBytes(l) = overlapBytes(e - cursor)
    <3>1. e - cursor = l
      BY <1>3, <2>2
    <3> QED
      BY <3>1
  <2> DEFINE here == {m \in AllMatches : m.offset >= cursor /\ m.offset < Region.end /\ reachOf(m) <= e}
  <2>8. ASSUME NEW m
        PROVE  m \in matches' <=> m \in here
    <3>1. m \in matches' <=> MatchIn(m, s, cursor) /\ m.offset >= cursor /\ m.offset < Region.end
      BY <1>1, <1>3, <2>2, MatchWindowIs DEF WithinRegion
    <3>2. MatchIn(m, s, cursor) \/ m \in AllMatches => m \in Matches
      BY <1>2, AllMatchesAre DEF MatchIn
    <3>3. m \in Matches /\ m.offset >= cursor =>
            (MatchIn(m, s, cursor) <=> MatchIn(m, content, 0) /\ reachOf(m) <= e)
      <4> SUFFICES ASSUME m \in Matches, m.offset >= cursor
                   PROVE  MatchIn(m, s, cursor) <=> MatchIn(m, content, 0) /\ reachOf(m) <= cursor + Len(s)
        OBVIOUS
      <4>1. s = Slice(cursor, Len(s)) /\ s \in Seq(ByteValues)
        BY <2>2, <2>3
      <4> HIDE DEF s
      <4> QED
        BY <1>2, <1>3, <4>1, WindowFinds
    <3>4. m \in AllMatches <=> MatchIn(m, content, 0)
      BY <1>2, AllMatchesAre
    <3> QED
      BY <3>1, <3>2, <3>3, <3>4
  <2>9. {m \in matches' : m.offset >= 0} = here
    <3>1. \A m \in here : m.offset \in Nat
      BY <1>2, AllMatchesAre
    <3> HIDE DEF here
    <3> QED
      BY <2>8, <3>1
  <2> HIDE DEF e, w, l
  <2>10. WindowOk(cursor, Region.end, e, overlapBytes(l), matches', 0, cursor)
    BY <2>6, <2>7, <2>9 DEF WindowOk, w
  <2>11. windowEnd' = e /\ overlap' = overlapBytes(l)
    BY <1>1 DEF e, l
  <2> QED
    BY <1>1, <1>4, <1>6, <2>1, <2>10, <2>11
<1> QED
  BY <1>1, <1>2, <1>5, <1>7, ExactThere

LEMMA ExactDeviceEnds ==
  ASSUME ExactInv, PlacedInv, endOfDevice
  PROVE  ExactInv'
<1>1. /\ pc = "window" /\ cursor' = Region.end /\ pc' = "next"
      /\ UNCHANGED <<deviceVars, plan, scanned, windowEnd, overlap, matches, resumeCursor, reported>>
  BY DEF endOfDevice
<1>2. content' = content /\ invented' = invented /\ content \in Contents
  BY <1>1 DEF deviceVars, device, PlacedInv, DeviceInv, DeviceTypes
<1>3. scanned < Len(plan) /\ cursor < Region.end /\ cursor \in Nat /\ read.at = cursor
  BY <1>1 DEF PlacedInv, ScanTypes, WindowInv, InRegion
<1>4. Region.end \in Nat /\ Region = plan[scanned + 1] /\ cursor >= sizeInBytes
  BY <1>1, <1>3, RegionIs, DeviceEnds DEF PlacedInv
<1>5. RegionsInv'
  BY <1>1 DEF ExactInv, RegionsInv
<1>6. Position = cursor /\ Position' = Region.end /\ InRegion
  BY <1>1 DEF Position, InRegion
<1>7. ASSUME invented' = {}
      PROVE  PastOk(reported', scanned') /\ HereOk(reported', scanned' + 1, Position')
  <2>1. PastOk(reported, scanned) /\ HereOk(reported, scanned + 1, cursor)
    BY <1>2, <1>6, <1>7, ExactHere
  <2>2. \A m \in AllMatches : ~(cursor <= m.offset /\ m.offset < Region.end)
    <3>1. \A m \in AllMatches : m.offset \in Nat /\ m.offset < sizeInBytes
      BY <1>2, AllMatchesAre
    <3>2. sizeInBytes \in Nat
      BY <1>2, ContentIs
    <3> QED
      BY <1>3, <1>4, <3>1, <3>2
  <2>3. cursor \in 0..Region.end /\ Region.end \in 0..Region.end /\ cursor <= Region.end
    BY <1>3, <1>4
  <2>4. WholeScan(content, Region.end)[cursor] = WholeScan(content, Region.end)[Region.end]
    BY <1>2, <1>4, <2>2, <2>3, SamePass
  <2>5. Min({Region.end, cursor}) = cursor /\ Min({Region.end, Region.end}) = Region.end
    BY <1>3, <1>4, MinMaxOfTwo
  <2>6. HereOk(reported, scanned + 1, Region.end)
    BY <1>4, <2>1, <2>4, <2>5 DEF HereOk
  <2> QED
    BY <1>1, <1>6, <2>1, <2>6
<1>8. pc' \notin {"match", "carve"}
  BY <1>1
<1> QED
  BY <1>1, <1>2, <1>5, <1>7, <1>8, ExactThere

(* One more candidate in a region. *)
Grown(rep, new, n, one) ==
  /\ FoundIn(new, n) = FoundIn(rep, n) \cup {one}
  /\ \A r : r # n => FoundIn(new, r) = FoundIn(rep, r)

LEMMA FoundGrows ==
  ASSUME NEW rep, NEW n, NEW m, NEW result
  PROVE  Grown(rep, rep \cup {[region |-> n, match |-> m, result |-> result]}, n,
               [match |-> m, result |-> result])
<1> DEFINE c == [region |-> n, match |-> m, result |-> result]
           new == rep \cup {c}
<1>1. c.region = n /\ c.match = m /\ c.result = result
  OBVIOUS
<1> HIDE DEF c
<1>2. {d \in new : d.region = n} = {d \in rep : d.region = n} \cup {c}
  BY <1>1
<1>3. FoundIn(new, n) = FoundIn(rep, n) \cup {[match |-> c.match, result |-> c.result]}
  BY <1>2 DEF FoundIn
<1>4. ASSUME NEW r, r # n PROVE FoundIn(new, r) = FoundIn(rep, r)
  <2>1. {d \in new : d.region = r} = {d \in rep : d.region = r}
    BY <1>1, <1>4
  <2> HIDE DEF new
  <2> QED
    BY <2>1 DEF FoundIn
<1> QED
  BY <1>1, <1>3, <1>4 DEF c, Grown

(* The first match of a window is the first of the device from there on: one
   before it would end no later, and so would be in the window too. *)
LEMMA FirstOfAll ==
  ASSUME ScanTypes, content \in Contents, MatchesEndInOrder, matches # {},
         NEW end \in Nat, NEW at \in Nat, firstMatch.offset >= resumeCursor,
         {m \in matches : m.offset >= resumeCursor}
           = {m \in AllMatches : m.offset >= at /\ m.offset < end /\ reachOf(m) <= windowEnd}
  PROVE  /\ firstMatch \in Rest(at, end) /\ firstMatch = canonicallyFirst(Rest(at, end))
<1> DEFINE f == firstMatch
<1>1. f \in matches /\ \A n \in matches : ~Before(n, f)
  BY FirstOfMatches
<1>2. f \in AllMatches /\ f.offset >= at /\ f.offset < end /\ reachOf(f) <= windowEnd
  BY <1>1
<1>3. Rest(at, end) \in SUBSET Matches /\ \A m \in AllMatches : m.offset \in Nat /\ reachOf(m) \in Nat
  BY AllMatchesAre DEF Rest
<1> HIDE DEF f
<1>4. f \in Rest(at, end)
  BY <1>2, <1>3 DEF Rest
<1>5. windowEnd \in Nat
  BY DEF ScanTypes
<1>6. ASSUME NEW n \in Rest(at, end), Before(n, f) PROVE FALSE
  <2>1. n \in AllMatches /\ at <= n.offset /\ n.offset < end /\ n.offset \in Nat
    BY <1>3 DEF Rest
  <2>2. reachOf(n) <= reachOf(f)
    BY <1>2, <1>6, <2>1 DEF MatchesEndInOrder
  <2>3. reachOf(n) <= windowEnd
    BY <1>2, <1>3, <1>5, <2>1, <2>2
  <2>4. n.offset >= at
    BY <2>1
  <2>5. n \in matches
    BY <2>1, <2>3, <2>4
  <2> QED
    BY <1>1, <1>6, <2>5
<1>7. f = canonicallyFirst(Rest(at, end))
  BY <1>3, <1>4, <1>6, FirstIs
<1> QED
  BY <1>4, <1>7 DEF f

LEMMA ExactApplied ==
  ASSUME ExactInv, PlacedInv, MatchesEndInOrder, applyMatch
  PROVE  ExactInv'
<1> DEFINE m == firstMatch
           result == Carve(m.carver, read.got)
<1>1. /\ pc = "carve" /\ read.state = "ok"
      /\ reported' = reported \cup {[region |-> scanned + 1, match |-> m, result |-> result]}
      /\ resumeCursor' = resumeOffset(m.offset, result)
      /\ matches' = matches \ {m} /\ pc' = "match"
      /\ UNCHANGED <<deviceVars, plan, scanned, cursor, windowEnd, overlap>>
  BY DEF applyMatch
<1>2. content' = content /\ invented' = invented /\ content \in Contents
  BY <1>1 DEF deviceVars, device, PlacedInv, DeviceInv, DeviceTypes
<1>3. /\ scanned < Len(plan) /\ cursor \in Nat /\ resumeCursor \in Nat /\ ScanTypes /\ scanned \in Nat
      /\ matches # {} /\ firstMatch.offset >= resumeCursor
      /\ read.at = firstMatch.offset /\ read.want = MaxCarveBytes
      /\ \A n \in matches : cursor <= n.offset /\ n.offset < Region.end
  BY <1>1 DEF PlacedInv, ScanTypes, WindowInv, InRegion
<1>4. Region.end \in Nat /\ Region = plan[scanned + 1] /\ Region' = Region
  BY <1>1, <1>3, RegionIs DEF Region
<1>5. m \in matches /\ m \in Matches /\ m.offset \in Nat /\ cursor <= m.offset /\ m.offset < Region.end
      /\ \A n \in matches : n.offset \in Nat
  BY <1>3, FirstOfMatches DEF ScanTypes
<1>6. RegionsInv'
  <2>1. \A c \in reported : c.region \in 1..(scanned + 1)
    BY DEF ExactInv, RegionsInv
  <2>2. scanned + 1 \in 1..(scanned + 1)
    BY <1>3
  <2>3. \A c \in reported' : c.region \in 1..(scanned + 1)
    BY <1>1, <2>1, <2>2
  <2> QED
    BY <1>1, <2>3 DEF RegionsInv
<1>7. ASSUME invented' = {}
      PROVE  /\ PastOk(reported', scanned') /\ HereOk(reported', scanned' + 1, Position')
             /\ WindowOk(cursor', Region'.end, windowEnd', overlap', matches', resumeCursor', Position')
  <2>1. /\ PastOk(reported, scanned) /\ HereOk(reported, scanned + 1, Position)
        /\ WindowOk(cursor, Region.end, windowEnd, overlap, matches, resumeCursor, Position)
    BY <1>1, <1>2, <1>7, ExactHere DEF InRegion
  <2>2. result = Taken(m).result /\ Taken(m) = [match |-> m, result |-> result]
    <3>1. read.got = Slice(m.offset, MaxCarveBytes)
      BY <1>1, <1>2, <1>3, <1>7, WholeRead DEF PlacedInv, DeviceInv
    <3> QED
      BY <3>1 DEF Taken
  <2> HIDE DEF result, m
  <2> DEFINE q == Behind(m)
             P == Position
             e == Region.end
  <2>3. resumeCursor' = q
    BY <1>1, <2>2 DEF Behind
  <2>4. q \in Nat /\ m.offset < q
    BY <1>2, <1>5, BehindIs
  <2>5. P \in Nat /\ P <= m.offset /\ resumeCursor <= P /\ cursor <= P
    BY <1>1, <1>3, <1>5, PositionIs DEF m
  <2>6. Position' = q
    <3> HIDE DEF q
    <3>1. Max({cursor, q}) = IF cursor >= q THEN cursor ELSE q
      BY <1>3, <2>4, MinMaxOfTwo
    <3>2. Max({cursor, q}) = q
      BY <1>3, <1>5, <2>4, <3>1
    <3> QED
      BY <1>1, <2>3, <3>2 DEF Position
  <2>7. m \in Rest(P, e) /\ m = canonicallyFirst(Rest(P, e))
    <3>1. {n \in matches : n.offset >= resumeCursor}
            = {n \in AllMatches : n.offset >= P /\ n.offset < e /\ reachOf(n) <= windowEnd}
      BY <2>1 DEF WindowOk
    <3> HIDE DEF P, e
    <3>2. e \in Nat
      BY <1>4 DEF e
    <3> QED
      BY <1>2, <1>3, <2>5, <3>1, <3>2, FirstOfAll DEF m
  <2>8. WholeScan(content, e)[P] = {Taken(m)} \cup WholeScan(content, e)[Min({e, q})]
    <3>1. P \in 0..e /\ e \in Nat /\ Rest(P, e) # {}
      BY <1>4, <1>5, <2>5, <2>7
    <3> DEFINE f == WholeScan(content, e)
               R == Rest(P, e)
    <3>2. f[P] = IF R = {} THEN {}
                 ELSE {Taken(canonicallyFirst(R))} \cup f[Min({e, Behind(canonicallyFirst(R))})]
      BY <1>2, <3>1, PassIs
    <3>3. R # {} /\ canonicallyFirst(R) = m
      BY <2>7, <3>1
    <3> HIDE DEF f, R
    <3>4. f[P] = {Taken(m)} \cup f[Min({e, Behind(m)})]
      BY <3>2, <3>3
    <3> QED
      BY <3>4 DEF f
  <2>9. Min({e, P}) = P
    <3>1. e \in Nat /\ P <= e
      BY <1>4, <1>5, <2>5
    <3> HIDE DEF e, P
    <3> QED
      BY <2>5, <3>1, MinMaxOfTwo
  <2>10. /\ FoundIn(reported', scanned + 1) = FoundIn(reported, scanned + 1) \cup {Taken(m)}
         /\ \A r : r # scanned + 1 => FoundIn(reported', r) = FoundIn(reported, r)
    <3> DEFINE n == scanned + 1
    <3>1. reported' = reported \cup {[region |-> n, match |-> m, result |-> result]}
      BY <1>1 DEF result, m
    <3> HIDE DEF n
    <3>2. Grown(reported, reported', n, [match |-> m, result |-> result])
      BY <3>1, FoundGrows
    <3> QED
      BY <2>2, <3>2 DEF n, Grown
  <2>11. PastOk(reported', scanned)
    <3>1. \A r \in 1..scanned : r # scanned + 1
      BY <1>3
    <3> QED
      BY <2>1, <2>10, <3>1 DEF PastOk
  <2>12. HereOk(reported', scanned + 1, q)
    <3> DEFINE f == WholeScan(content, e)
               st == plan[scanned + 1].start
    <3>1. f[st] = FoundIn(reported, scanned + 1) \cup f[Min({e, P})]
      BY <1>4, <2>1 DEF HereOk
    <3>2. f[P] = {Taken(m)} \cup f[Min({e, q})]
      BY <2>8
    <3> HIDE DEF f, st, q, P
    <3>3. f[st] = FoundIn(reported', scanned + 1) \cup f[Min({e, q})]
      BY <2>9, <2>10, <3>1, <3>2
    <3> QED
      BY <1>4, <3>3 DEF HereOk, f, st
  <2>13. WindowOk(cursor, e, windowEnd, overlap, matches', q, q)
    <3> DEFINE old == {n \in matches : n.offset >= resumeCursor}
    <3>1. old = {n \in AllMatches : n.offset >= P /\ n.offset < e /\ reachOf(n) <= windowEnd}
      BY <2>1 DEF WindowOk
    <3>2. \A n \in AllMatches : n.offset \in Nat
      BY <1>2, AllMatchesAre
    <3>3. \A n : n \in matches' /\ n.offset >= q <=> n \in old /\ n.offset >= q
      <4>1. \A n \in matches : n.offset >= q => n # m /\ n.offset >= resumeCursor
        BY <1>3, <1>5, <2>4, <2>5
      <4> HIDE DEF q
      <4> QED
        BY <1>1, <4>1 DEF m
    <3>4. \A n : n \in old /\ n.offset >= q
                   <=> n \in AllMatches /\ n.offset >= q /\ n.offset < e /\ reachOf(n) <= windowEnd
      <4> HIDE DEF old, q, P
      <4>1. \A n \in AllMatches : n.offset >= q => n.offset >= P
        BY <1>5, <2>4, <2>5, <3>2
      <4> QED
        BY <3>1, <4>1
    <3> HIDE DEF old, q
    <3>5. {n \in matches' : n.offset >= q}
            = {n \in AllMatches : n.offset >= q /\ n.offset < e /\ reachOf(n) <= windowEnd}
      BY <3>3, <3>4
    <3> QED
      BY <2>1, <3>5 DEF WindowOk
  <2> HIDE DEF q, P
  <2> QED
    BY <1>1, <1>4, <2>3, <2>6, <2>11, <2>12, <2>13 DEF e
<1> QED
  BY <1>1, <1>2, <1>6, <1>7, ExactThere

(* The next window begins where nothing was missed: a match that the window
   does not hold whole begins in what the next one reads again. *)
LEMMA NothingBetween ==
  ASSUME NEW c \in Nat, NEW end \in Nat, c < end, NEW size \in Nat, NEW we \in Nat, c <= we,
         we = Min({c + windowSlice(c, end), size}), NEW resume \in Nat,
         NEW x \in Nat, NEW reach \in Nat, x >= c, x >= resume, reach > we, reach <= size,
         reach <= x + maxSignatureBytes
  PROVE  nextCursor(c, we, overlapBytes(we - c), resume) <= x
<1> DEFINE w == windowSlice(c, end)
           n == we - c
           ov == overlapBytes(n)
           q == nextCursor(c, we, ov, resume)
           M == maxSignatureBytes
<1>1. /\ w \in Nat \ {0} /\ w <= WindowBytes
      /\ w = WindowBytes \/ w = end - c + M
  BY WindowSliceIs
<1>2. M \in Nat /\ WindowBytes \in Nat /\ WindowBytes >= M
  BY SignatureIs, ScanAssumption
<1>3. w >= M
  <2> HIDE DEF w, M
  <2> QED
    BY <1>1, <1>2
<1>4. n \in Nat /\ we = c + n
  OBVIOUS
<1>5. we = c + w
  <2> HIDE DEF w
  <2>1. c + w \in Nat
    BY <1>1
  <2>2. Min({c + w, size}) = IF c + w <= size THEN c + w ELSE size
    BY <2>1, MinMaxOfTwo
  <2>3. we = IF c + w <= size THEN c + w ELSE size
    BY <2>2 DEF w
  <2> QED
    BY <2>1, <2>3
<1>6. n = w
  <2> HIDE DEF w
  <2> QED
    BY <1>1, <1>5
<1> HIDE DEF n
<1>7. ov \in Nat /\ ov = IF M = 0 THEN 0 ELSE IF M - 1 <= n THEN M - 1 ELSE n
  BY <1>4, OverlapIs
<1> HIDE DEF w, M, ov
<1>8. /\ q \in Nat
      /\ \/ q = we /\ we <= c + ov
         \/ q = resume
         \/ q + ov = we
  <2>1. ov \in Nat
    BY <1>7
  <2>2. nextCursor(c, we, ov, resume) \in Nat
    BY <2>1, NextCursorIs
  <2>3. \/ nextCursor(c, we, ov, resume) = we /\ we <= c + ov
        \/ nextCursor(c, we, ov, resume) = resume
        \/ nextCursor(c, we, ov, resume) + ov = we
    BY <2>1, NextCursorIs
  <2> QED
    BY <2>2, <2>3
<1> HIDE DEF q
<1>9. q <= x
  <2>1. M > 0 => ov = M - 1
    BY <1>1, <1>2, <1>3, <1>6, <1>7
  <2>2. reach <= x + M
    BY DEF M
  <2>3. CASE q = we /\ we <= c + ov
    <3>1. ov < w /\ w \in Nat
      BY <1>1, <1>2, <1>3, <1>7, <2>1
    <3>2. FALSE
      BY <1>5, <1>7, <2>3, <3>1
    <3> QED
      BY <3>2
  <2>4. CASE q = resume
    BY <2>4
  <2>5. CASE q + ov = we
    <3>1. q + ov = we /\ x + M >= reach /\ reach > we /\ ov \in Nat /\ M \in Nat /\ q \in Nat
      BY <1>2, <1>7, <1>8, <2>2, <2>5
    <3>2. CASE M = 0
      BY <3>1, <3>2
    <3>3. CASE M > 0
      BY <2>1, <3>1, <3>3
    <3> QED
      BY <3>1, <3>2, <3>3
  <2> QED
    BY <1>8, <2>3, <2>4, <2>5
<1> QED
  BY <1>9 DEF q, ov, n

LEMMA ExactStepped ==
  ASSUME ExactInv, PlacedInv, stepWindow
  PROVE  ExactInv'
<1>1. /\ pc = "match" /\ matches = {} /\ cursor' = nextCursor(cursor, windowEnd, overlap, resumeCursor)
      /\ pc' = "next"
      /\ UNCHANGED <<deviceVars, plan, scanned, windowEnd, overlap, matches, resumeCursor, reported>>
  BY DEF stepWindow
<1>2. content' = content /\ invented' = invented /\ content \in Contents
  BY <1>1 DEF deviceVars, device, PlacedInv, DeviceInv, DeviceTypes
<1>3. /\ scanned < Len(plan) /\ cursor \in Nat /\ resumeCursor \in Nat /\ windowEnd \in Nat
      /\ overlap \in Nat /\ ScanTypes /\ cursor < Region.end /\ cursor <= windowEnd
  BY <1>1 DEF PlacedInv, ScanTypes, WindowInv, InRegion
<1>4. Region.end \in Nat /\ Region = plan[scanned + 1] /\ Region' = Region
  BY <1>1, <1>3, RegionIs DEF Region
<1>5. RegionsInv'
  BY <1>1 DEF ExactInv, RegionsInv
<1>6. Position' = cursor' /\ InRegion
  BY <1>1 DEF Position, InRegion
<1>7. cursor' \in Nat /\ cursor <= cursor' /\ resumeCursor <= cursor'
  BY <1>1, <1>3, NextCursorIs
<1>8. ASSUME invented' = {}
      PROVE  PastOk(reported', scanned') /\ HereOk(reported', scanned' + 1, Position')
  <2> DEFINE P == Position
             Q == cursor'
             e == Region.end
  <2>1. /\ PastOk(reported, scanned) /\ HereOk(reported, scanned + 1, P)
        /\ WindowOk(cursor, Region.end, windowEnd, overlap, matches, resumeCursor, P)
    BY <1>1, <1>2, <1>6, <1>8, ExactHere
  <2>2. P \in Nat /\ cursor <= P /\ resumeCursor <= P /\ P <= Q
    BY <1>1, <1>3, <1>7, PositionIs
  <2>3. ASSUME NEW m \in AllMatches, P <= m.offset, m.offset < e PROVE Q <= m.offset
    <3>1. /\ m.offset \in Nat /\ reachOf(m) \in Nat /\ reachOf(m) <= sizeInBytes
          /\ reachOf(m) <= m.offset + maxSignatureBytes /\ sizeInBytes \in Nat
      BY <1>2, AllMatchesAre, ContentIs
    <3>2. /\ windowEnd = Min({cursor + windowSlice(cursor, Region.end), sizeInBytes})
          /\ overlap = overlapBytes(windowEnd - cursor)
          /\ {n \in AllMatches : n.offset >= P /\ n.offset < Region.end /\ reachOf(n) <= windowEnd} = {}
      BY <1>1, <2>1 DEF WindowOk
    <3> HIDE DEF P
    <3>3. ~(reachOf(m) <= windowEnd)
      <4>1. m.offset >= P
        BY <2>2, <2>3, <3>1
      <4> QED
        BY <2>3, <3>2, <4>1
    <3>4. reachOf(m) > windowEnd /\ m.offset >= cursor /\ m.offset >= resumeCursor
      BY <1>3, <2>2, <2>3, <3>1, <3>3
    <3>5. nextCursor(cursor, windowEnd, overlapBytes(windowEnd - cursor), resumeCursor) <= m.offset
      <4> DEFINE x == m.offset
                 reach == reachOf(m)
                 size == sizeInBytes
                 end == Region.end
      <4>1. /\ x \in Nat /\ reach \in Nat /\ size \in Nat /\ end \in Nat
            /\ x >= cursor /\ x >= resumeCursor /\ reach > windowEnd /\ reach <= size
            /\ reach <= x + maxSignatureBytes /\ cursor < end
            /\ windowEnd = Min({cursor + windowSlice(cursor, end), size})
        BY <1>3, <1>4, <3>1, <3>2, <3>4
      <4> HIDE DEF x, reach, size, end
      <4>2. nextCursor(cursor, windowEnd, overlapBytes(windowEnd - cursor), resumeCursor) <= x
        BY <1>3, <4>1, NothingBetween
      <4> QED
        BY <4>2 DEF x
    <3> QED
      BY <1>1, <3>2, <3>5
  <2> DEFINE p == Min({e, P})
             q == Min({e, Q})
  <2>4. e \in Nat /\ Q \in Nat
    BY <1>4, <1>7
  <2> HIDE DEF P, Q, e
  <2>5. p = (IF e <= P THEN e ELSE P) /\ q = (IF e <= Q THEN e ELSE Q)
    BY <2>2, <2>4, MinMaxOfTwo
  <2> HIDE DEF p, q
  <2>6. p \in 0..e /\ q \in 0..e /\ p <= q
    BY <2>2, <2>4, <2>5
  <2>7. \A m \in AllMatches : ~(p <= m.offset /\ m.offset < q)
    <3> SUFFICES ASSUME NEW m \in AllMatches, p <= m.offset, m.offset < q PROVE FALSE
      OBVIOUS
    <3>1. m.offset \in Nat
      BY <1>2, AllMatchesAre
    <3>2. P <= m.offset /\ m.offset < e /\ m.offset < Q
      BY <2>2, <2>4, <2>5, <3>1
    <3>3. Q <= m.offset
      BY <2>3, <3>2
    <3> QED
      BY <2>4, <3>1, <3>2, <3>3
  <2>8. WholeScan(content, e)[p] = WholeScan(content, e)[q]
    BY <1>2, <2>4, <2>6, <2>7, SamePass
  <2>9. HereOk(reported, scanned + 1, Q)
    <3>1. plan[scanned + 1].end = e
      BY <1>4 DEF e
    <3> QED
      BY <2>1, <2>8, <3>1 DEF HereOk, p, q
  <2> QED
    BY <1>1, <1>6, <2>1, <2>9 DEF Q
<1>9. pc' \notin {"match", "carve"}
  BY <1>1
<1> QED
  BY <1>1, <1>2, <1>5, <1>8, <1>9, ExactThere

LEMMA ExactNextState ==
  ASSUME ExactInv, PlacedInv, MatchesEndInOrder, [Next]_vars
  PROVE  ExactInv'
<1>1. ASSUME scanOneWindow \/ attemptCarve \/ scanFails \/ UNCHANGED vars PROVE ExactInv'
  <2>1. /\ content' = content /\ invented' = invented
        /\ UNCHANGED <<plan, scanned, cursor, windowEnd, overlap, matches, resumeCursor, reported>>
    BY <1>1 DEF scanOneWindow, attemptCarve, scanFails, vars, scanVars, deviceVars, device
  <2>2. \/ pc' = pc \/ pc' = "failed"
        \/ pc = "next" /\ pc' = "window"
        \/ pc = "match" /\ pc' = "carve"
    BY <1>1 DEF scanOneWindow, attemptCarve, scanFails, vars, scanVars
  <2> QED
    BY <2>1, <2>2, ExactWhileReading
<1>2. ASSUME DeviceStep, UNCHANGED scanVars PROVE ExactInv'
  <2>1. /\ content' = content /\ pc' = pc
        /\ UNCHANGED <<plan, scanned, cursor, windowEnd, overlap, matches, resumeCursor, reported>>
    BY <1>2 DEF DeviceStep, readWhole, wholeFails, readOneSector, giveUpOn, readSectorwise, vanish,
                device, scanVars
  <2>2. invented' = {} => invented = {}
    BY <1>2, InventedGrows
  <2> QED
    BY <2>1, <2>2, ExactWhileReading
<1>3. CASE ScanStep
  BY <1>1, <1>3, ExactRegionStarts, ExactRegionEnds, ExactWindowRead, ExactDeviceEnds, ExactSkipped,
     ExactApplied, ExactStepped DEF ScanStep
<1> QED
  BY <1>1, <1>2, <1>3 DEF Next

LEMMA ExactInit == Init => ExactInv
<1> SUFFICES ASSUME Init PROVE ExactInv
  OBVIOUS
<1>1. pc = "idle" /\ scanned = 0 /\ reported = {}
  BY DEF Init
<1>2. RegionsInv /\ PastExact /\ HereExact /\ MatchesExact
  BY <1>1 DEF RegionsInv, PastExact, HereExact, MatchesExact, InRegion
<1> QED
  BY <1>2 DEF ExactInv

(* Where no signature begins inside a longer one that ends behind it, the scan
   of SignatureScanner::scan finds in its windows what one pass over the whole
   device would, up to the match it is at. *)
THEOREM ExactInvariant == Spec /\ []MatchesEndInOrder => []ExactInv
<1>1. Init => ExactInv
  BY ExactInit
<1>2. PlacedInv /\ MatchesEndInOrder /\ ExactInv /\ [Next]_vars => ExactInv'
  BY ExactNextState
<1> QED
  BY <1>1, <1>2, PlacedInvariant, PTL DEF Spec

(* A region that was read without loss reports what one pass over the whole
   device would, however the windows fall (windowSlice, nextCursor). *)
THEOREM ScanIsRight == Spec /\ []MatchesEndInOrder => []ScanIsExact
<1>1. ExactInv => ScanIsExact
  BY DEF ExactInv, PastExact, ReportedIn, ScanIsExact
<1> QED
  BY <1>1, ExactInvariant, PTL

===============================================================================
