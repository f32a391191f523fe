------------------------------- MODULE NatFacts -------------------------------
(***************************************************************************)
(* Induction over sets of naturals, the least and the greatest member of   *)
(* one, recursion, and division into units.  The proofs about regions and  *)
(* sequences rest on these.                                                *)
(***************************************************************************)
EXTENDS Integers, FiniteSetsExt, WellFoundedInduction, TLAPS

(* A set of naturals has a least member. *)
LEMMA LeastMember ==
  ASSUME NEW S \in SUBSET Nat, S # {}
  PROVE  \E x \in S : \A y \in S : x <= y
<1>1. \E x \in S : \A y \in S : ~(<<y, x>> \in OpToRel(<, Nat))
  BY NatLessThanWellFounded, WFMin
<1>2. PICK x \in S : \A y \in S : ~(<<y, x>> \in OpToRel(<, Nat))
  BY <1>1
<1>3. \A y \in S : ~(y < x)
  BY <1>2 DEF OpToRel
<1> QED
  BY <1>3

(* A set that holds zero and every successor holds every natural. *)
LEMMA SetInduction ==
  ASSUME NEW S \in SUBSET Nat, 0 \in S, \A n \in S : n + 1 \in S
  PROVE  S = Nat
<1>1. SUFFICES ASSUME Nat \ S # {} PROVE FALSE
  OBVIOUS
<1>2. PICK x \in Nat \ S : \A y \in Nat \ S : x <= y
  BY <1>1, LeastMember
<1>3. x # 0 /\ x - 1 \in Nat /\ x - 1 \in S
  BY <1>2
<1> QED
  BY <1>2, <1>3

LEMMA MinIs ==
  ASSUME NEW S \in SUBSET Nat, S # {}
  PROVE  Min(S) \in S /\ \A y \in S : Min(S) <= y
BY LeastMember DEF Min

(* A bounded set has a greatest member. *)
LEMMA MaxIs ==
  ASSUME NEW n \in Nat, NEW S \in SUBSET (0..n), S # {}
  PROVE  Max(S) \in S /\ \A y \in S : y <= Max(S)
<1> DEFINE T == {m \in Nat : n - m \in S}
<1>1. PICK s \in S : TRUE
  OBVIOUS
<1>2. n - s \in T
  BY <1>1
<1>3. PICK m \in T : \A k \in T : m <= k
  BY <1>2, LeastMember
<1>4. n - m \in S /\ \A y \in S : y <= n - m
  <2>1. ASSUME NEW y \in S PROVE y <= n - m
    <3>1. n - y \in T
      BY <2>1
    <3>2. m \in Nat /\ y \in Nat /\ y <= n
      OBVIOUS
    <3>3. m <= n - y
      <4> HIDE DEF T
      <4> QED
        BY <1>3, <3>1
    <3> QED
      BY <3>2, <3>3
  <2> QED
    BY <1>3, <2>1
<1>5. \E x \in S : \A y \in S : x >= y
  BY <1>4
<1>6. Max(S) \in S /\ \A y \in S : Max(S) >= y
  BY <1>5 DEF Max
<1> QED
  BY <1>6

(* The smaller and the larger of two. *)
LEMMA MinMaxOfTwo ==
  ASSUME NEW a \in Nat, NEW b \in Nat
  PROVE  /\ Min({a, b}) = IF a <= b THEN a ELSE b
         /\ Max({a, b}) = IF a >= b THEN a ELSE b
<1>1. Min({a, b}) \in {a, b} /\ \A y \in {a, b} : Min({a, b}) <= y
  <2>1. {a, b} \in SUBSET Nat /\ {a, b} # {}
    OBVIOUS
  <2> QED
    BY <2>1, MinIs
<1>2. Max({a, b}) \in {a, b} /\ \A y \in {a, b} : y <= Max({a, b})
  <2>1. {a, b} \in SUBSET (0..(a + b)) /\ {a, b} # {} /\ a + b \in Nat
    OBVIOUS
  <2> QED
    BY <2>1, MaxIs
<1> QED
  BY <1>1, <1>2

(* A function defined by recursion from zero exists. *)
LEMMA RecursionExists ==
  ASSUME NEW V, NEW base \in V, NEW n \in Nat, NEW step \in [1..n -> [V -> V]]
  PROVE  \E f \in [0..n -> V] : f[0] = base /\ \A k \in 1..n : f[k] = step[k][f[k - 1]]
<1> DEFINE Fits(f, m) == f[0] = base /\ \A k \in 1..m : f[k] = step[k][f[k - 1]]
           S == {m \in Nat : m <= n => \E f \in [0..m -> V] : Fits(f, m)}
<1>1. 0 \in S
  <2> DEFINE f == [i \in 0..0 |-> base]
  <2>1. f \in [0..0 -> V] /\ Fits(f, 0)
    OBVIOUS
  <2> QED
    BY <2>1
<1>2. ASSUME NEW m \in S PROVE m + 1 \in S
  <2>1. m \in Nat /\ m + 1 \in Nat
    OBVIOUS
  <2>2. SUFFICES ASSUME m + 1 <= n PROVE \E f \in [0..(m + 1) -> V] : Fits(f, m + 1)
    BY <2>1
  <2>3. PICK f \in [0..m -> V] : Fits(f, m)
    BY <2>1, <2>2
  <2> DEFINE g == [i \in 0..(m + 1) |-> IF i = m + 1 THEN step[m + 1][f[m]] ELSE f[i]]
  <2>4. m + 1 \in 1..n /\ m \in 0..m
    BY <2>1, <2>2
  <2>5. step[m + 1][f[m]] \in V
    BY <2>4
  <2>6. g \in [0..(m + 1) -> V]
    BY <2>1, <2>5
  <2>7. g[0] = base
    BY <2>1, <2>3
  <2>8. ASSUME NEW k \in 1..(m + 1) PROVE g[k] = step[k][g[k - 1]]
    <3>1. CASE k = m + 1
      BY <2>1, <3>1
    <3>2. CASE k # m + 1
      <4>1. k \in 1..m /\ k - 1 # m + 1 /\ k - 1 \in 0..m
        BY <2>1, <3>2
      <4> QED
        BY <2>1, <2>3, <4>1
    <3> QED
      BY <3>1, <3>2
  <2> QED
    BY <2>6, <2>7, <2>8
<1>3. S = Nat
  <2>1. S \in SUBSET Nat
    OBVIOUS
  <2> HIDE DEF S
  <2> QED
    BY <1>1, <1>2, <2>1, SetInduction
<1>4. n \in S
  BY <1>3
<1> QED
  BY <1>4

Recursive(V, base, n, step) ==
  \E f \in [0..n -> V] : f[0] = base /\ \A k \in 1..n : f[k] = step[k][f[k - 1]]

LEMMA HasRecursion ==
  ASSUME NEW V, NEW base \in V, NEW n \in Nat, NEW step \in [1..n -> [V -> V]]
  PROVE  Recursive(V, base, n, step)
BY RecursionExists DEF Recursive

(* What is met from a place on: what is there and what is met from the next
   place on, until a place to stop. *)
Follows(f, D, stop, next, e) ==
  \A p \in D : f[p] = IF p \in stop THEN {} ELSE {e[p]} \cup f[next[p]]

(* Wherever next leads, such a function exists. *)
LEMMA ChainExists ==
  ASSUME NEW D, NEW stop \in SUBSET D, NEW next \in [D -> D], NEW E, NEW e \in [D -> E]
  PROVE  \E f \in [D -> SUBSET E] : Follows(f, D, stop, next, e)
<1> DEFINE Closed(S) == \A x \in S : x \notin stop => next[x] \in S
           Reach(p) == {q \in D : \A S \in SUBSET D : p \in S /\ Closed(S) => q \in S}
           f == [p \in D |-> {e[q] : q \in Reach(p) \ stop}]
<1>1. ASSUME NEW p \in D PROVE p \in Reach(p)
  OBVIOUS
<1>2. ASSUME NEW p \in stop PROVE Reach(p) \ stop = {}
  <2>1. {p} \in SUBSET D /\ Closed({p})
    OBVIOUS
  <2> QED
    BY <2>1
<1>3. ASSUME NEW p \in D, p \notin stop PROVE Reach(p) = {p} \cup Reach(next[p])
  <2> DEFINE T == {p} \cup Reach(next[p])
  <2>1. next[p] \in D
    OBVIOUS
  <2>2. T \in SUBSET D
    OBVIOUS
  <2>3. Closed(T)
    <3> SUFFICES ASSUME NEW x \in T, x \notin stop PROVE next[x] \in T
      OBVIOUS
    <3>1. CASE x = p
      BY <1>1, <2>1, <3>1
    <3>2. CASE x \in Reach(next[p])
      <4>1. x \in D /\ next[x] \in D
        BY <3>2
      <4>2. ASSUME NEW S \in SUBSET D, next[p] \in S, Closed(S) PROVE next[x] \in S
        BY <3>2, <4>2
      <4> QED
        BY <4>1, <4>2
    <3> QED
      BY <3>1, <3>2
  <2>4. ASSUME NEW q \in Reach(p) PROVE q \in T
    <3> HIDE DEF T
    <3>1. p \in T
      BY DEF T
    <3> QED
      BY <2>2, <2>3, <3>1
  <2>5. ASSUME NEW q \in Reach(next[p]) PROVE q \in Reach(p)
    <3>1. ASSUME NEW S \in SUBSET D, p \in S, Closed(S) PROVE q \in S
      BY <1>3, <3>1
    <3> QED
      BY <3>1
  <2> QED
    BY <1>1, <2>4, <2>5
<1>4. ASSUME NEW p \in D
      PROVE  f[p] = IF p \in stop THEN {} ELSE {e[p]} \cup f[next[p]]
  <2>1. CASE p \in stop
    BY <1>2, <2>1
  <2>2. CASE p \notin stop
    <3>1. next[p] \in D
      OBVIOUS
    <3>2. Reach(p) \ stop = {p} \cup (Reach(next[p]) \ stop)
      BY <1>3, <2>2
    <3> HIDE DEF Reach
    <3>3. {e[q] : q \in Reach(p) \ stop} = {e[p]} \cup {e[q] : q \in Reach(next[p]) \ stop}
      BY <3>2
    <3> QED
      BY <2>2, <3>1, <3>3
  <2> QED
    BY <2>1, <2>2
<1>5. f \in [D -> SUBSET E]
  OBVIOUS
<1> HIDE DEF f
<1>6. Follows(f, D, stop, next, e)
  BY <1>4 DEF Follows
<1> QED
  BY <1>5, <1>6

(* Whole numbers in units of C. *)
LEMMA Divided ==
  ASSUME NEW C \in Nat \ {0}, NEW a \in Nat
  PROVE  /\ a \div C \in Nat /\ a % C \in 0..(C - 1)
         /\ a = C * (a \div C) + (a % C)
OBVIOUS

LEMMA DividedIs ==
  ASSUME NEW C \in Nat \ {0}, NEW q \in Nat, NEW r \in 0..(C - 1)
  PROVE  (q * C + r) \div C = q /\ (q * C + r) % C = r
OBVIOUS

LEMMA DividedSum ==
  ASSUME NEW C \in Nat \ {0}, NEW q \in Nat, NEW j \in Nat
  PROVE  (q * C + j) \div C = q + (j \div C) /\ (q * C + j) % C = j % C
<1> DEFINE k == j \div C
           r == j % C
<1>1. k \in Nat /\ r \in 0..(C - 1) /\ j = C * k + r
  BY Divided
<1> HIDE DEF k, r
<1>2. q + k \in Nat /\ q * C + j = (q + k) * C + r
  BY <1>1
<1>3. ((q + k) * C + r) \div C = q + k /\ ((q + k) * C + r) % C = r
  BY <1>1, <1>2, DividedIs
<1> QED
  BY <1>2, <1>3 DEF k, r

LEMMA DividedBelow ==
  ASSUME NEW C \in Nat \ {0}, NEW l \in Nat, NEW j \in Nat, j < l * C
  PROVE  j \div C < l
OBVIOUS
===============================================================================
