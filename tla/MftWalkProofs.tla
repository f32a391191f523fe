---------------------------- MODULE MftWalkProofs -----------------------------
(***************************************************************************)
(* The NTFS walk for every layout of the table, every history of the host  *)
(* and every torn write: a run list is decoded to exactly what was encoded, *)
(* a path is one its file had, what is graded valid is whole, no file is    *)
(* reported twice and no live file is left out.                             *)
(***************************************************************************)
EXTENDS MftWalk, NatFacts, FiniteSetTheorems, SequenceTheorems

-----------------------------------------------------------------------------
(***************************************************************************)
(* How much lies before each piece of a list of pieces.                    *)
(***************************************************************************)

IsList(e) == DOMAIN e = 1..Len(e) /\ Len(e) \in Nat /\ \A i \in 1..Len(e) : e[i].len \in Nat

UptoIs(e, f) == f = [n \in 0..Len(e) |-> IF n = 0 THEN 0 ELSE f[n - 1] + e[n].len]
Before(e) == CHOOSE f : UptoIs(e, f)

LEMMA BeforeIs ==
  ASSUME NEW e, IsList(e)
  PROVE  /\ Before(e) \in [0..Len(e) -> Nat] /\ Before(e)[0] = 0
         /\ \A i \in 1..Len(e) : Before(e)[i] = Before(e)[i - 1] + e[i].len
         /\ extentBytes(e) = Before(e)[Len(e)]
<1> DEFINE N == Len(e)
           V == Nat
           none == 0
           step == [k \in 1..N |-> [v \in V |-> v + e[k].len]]
<1>1. N \in Nat /\ none \in V /\ \A i \in 1..N : e[i].len \in Nat
  BY DEF IsList
<1>2. step \in [1..N -> [V -> V]]
  BY <1>1
<1>3. PICK g \in [0..N -> V] : g[0] = none /\ \A k \in 1..N : g[k] = step[k][g[k - 1]]
  <2>1. N \in Nat /\ none \in V
    BY <1>1
  <2> HIDE DEF step, N, V, none
  <2> QED
    BY <1>2, <2>1, RecursionExists, SMTT(60)
<1>4. \A k \in 1..N : k - 1 \in 0..N /\ k \in 0..N /\ k # 0
  BY <1>1
<1>5. UptoIs(e, g)
  <2>1. \A k \in 1..N : g[k] = g[k - 1] + e[k].len
    BY <1>3, <1>4
  <2>2. \A k \in 0..N : k = 0 \/ k \in 1..N
    BY <1>1
  <2> QED
    BY <1>3, <2>1, <2>2 DEF UptoIs
<1>6. UptoIs(e, Before(e))
  BY <1>5 DEF Before
<1> DEFINE f == Before(e)
<1>7. extentBytes(e) = f[N]
  BY DEF extentBytes, Before, UptoIs
<1> HIDE DEF f
<1>8. f[0] = 0 /\ DOMAIN f = 0..N /\ \A k \in 1..N : f[k] = f[k - 1] + e[k].len
  <2>1. 0 \in 0..N
    BY <1>1
  <2> QED
    BY <1>4, <1>6, <2>1 DEF UptoIs, f
<1> DEFINE S == {k \in Nat : k <= N => f[k] \in Nat}
<1>9. 0 \in S
  BY <1>8
<1>10. ASSUME NEW k \in S PROVE k + 1 \in S
  <2> SUFFICES ASSUME k + 1 <= N PROVE f[k + 1] \in Nat
    OBVIOUS
  <2>1. k + 1 \in 1..N /\ (k + 1) - 1 = k /\ f[k] \in Nat
    BY <1>1
  <2> QED
    BY SMTT(60), <1>1, <1>8, <2>1
<1>11. S = Nat
  <2>1. S \in SUBSET Nat
    OBVIOUS
  <2> HIDE DEF S
  <2> QED
    BY <1>9, <1>10, <2>1, SetInduction
<1>12. \A k \in 0..N : f[k] \in Nat
  BY <1>1, <1>11
<1> QED
  BY <1>7, <1>8, <1>12, <1>6 DEF f, UptoIs

LEMMA BeforeGrows ==
  ASSUME NEW e, IsList(e), NEW i \in 0..Len(e), NEW j \in 0..Len(e), i <= j
  PROVE  Before(e)[i] <= Before(e)[j]
<1> DEFINE f == Before(e)
           S == {k \in Nat : i <= k /\ k <= Len(e) => f[i] <= f[k]}
<1>1. /\ Len(e) \in Nat /\ f \in [0..Len(e) -> Nat]
      /\ \A k \in 1..Len(e) : f[k] = f[k - 1] + e[k].len /\ e[k].len \in Nat
  BY BeforeIs DEF IsList
<1> HIDE DEF f
<1>2. 0 \in S
  BY <1>1
<1>3. ASSUME NEW k \in S PROVE k + 1 \in S
  <2> SUFFICES ASSUME i <= k + 1, k + 1 <= Len(e) PROVE f[i] <= f[k + 1]
    OBVIOUS
  <2>1. k + 1 \in 1..Len(e) /\ (k + 1) - 1 = k /\ k \in 0..Len(e) /\ k + 1 \in 0..Len(e)
    BY <1>1
  <2>2. f[k + 1] = f[k] + e[k + 1].len /\ e[k + 1].len \in Nat /\ f[k] \in Nat /\ f[i] \in Nat
    BY <1>1, <2>1
  <2> QED
    BY <2>1, <2>2
<1>4. S = Nat
  <2>1. S \in SUBSET Nat
    OBVIOUS
  <2> HIDE DEF S
  <2> QED
    BY <1>2, <1>3, <2>1, SetInduction
<1> QED
  BY <1>1, <1>4 DEF f

(* The same pieces, further back, are preceded by the same. *)
LEMMA BeforeAgrees ==
  ASSUME NEW e, NEW d, IsList(e), IsList(d), NEW m \in Nat, m <= Len(e), m <= Len(d),
         \A i \in 1..m : d[i].len = e[i].len
  PROVE  \A i \in 0..m : Before(d)[i] = Before(e)[i]
<1> DEFINE f == Before(e)
           g == Before(d)
           S == {k \in Nat : k <= m => g[k] = f[k]}
<1>1. /\ Len(e) \in Nat /\ f[0] = 0 /\ \A k \in 1..Len(e) : f[k] = f[k - 1] + e[k].len
      /\ Len(d) \in Nat /\ g[0] = 0 /\ \A k \in 1..Len(d) : g[k] = g[k - 1] + d[k].len
  BY BeforeIs DEF IsList
<1> HIDE DEF f, g
<1>2. 0 \in S
  BY <1>1
<1>3. ASSUME NEW k \in S PROVE k + 1 \in S
  <2> SUFFICES ASSUME k + 1 <= m PROVE g[k + 1] = f[k + 1]
    OBVIOUS
  <2>1. k + 1 \in 1..Len(e) /\ k + 1 \in 1..Len(d) /\ k + 1 \in 1..m /\ (k + 1) - 1 = k
    BY <1>1
  <2> QED
    BY <1>1, <2>1
<1>4. S = Nat
  <2>1. S \in SUBSET Nat
    OBVIOUS
  <2> HIDE DEF S
  <2> QED
    BY <1>2, <1>3, <2>1, SetInduction
<1> QED
  BY <1>1, <1>4 DEF f, g

(* What the source's `before` counts. *)
LEMMA BytesBefore ==
  ASSUME NEW T, NEW e \in Seq(T), IsList(e), NEW i \in 1..Len(e)
  PROVE  extentBytes(SubSeq(e, 1, i - 1)) = Before(e)[i - 1]
<1> DEFINE d == SubSeq(e, 1, i - 1)
<1>1. Len(e) \in Nat /\ i - 1 \in 0..Len(e) /\ i - 1 \in Nat
  BY DEF IsList
<1>2. d \in Seq(T) /\ Len(d) = i - 1 /\ \A k \in 1..(i - 1) : d[k] = e[k]
  BY <1>1
<1>3. DOMAIN d = 1..Len(d)
  BY <1>2
<1> HIDE DEF d
<1>4. \A k \in 1..(i - 1) : d[k].len = e[k].len /\ e[k].len \in Nat
  BY <1>1, <1>2 DEF IsList
<1>5. IsList(d)
  BY <1>1, <1>2, <1>3, <1>4 DEF IsList
<1>6. Before(d)[i - 1] = Before(e)[i - 1]
  BY SMTT(60), <1>1, <1>2, <1>4, <1>5, BeforeAgrees
<1>7. extentBytes(d) = Before(d)[Len(d)]
  BY <1>5, BeforeIs
<1> QED
  BY <1>2, <1>6, <1>7 DEF d

-----------------------------------------------------------------------------
(***************************************************************************)
(* Extents that are, piece after piece, the bytes of a list of clusters.   *)
(***************************************************************************)

Extent == [at : Nat, len : Nat]
Extents == Seq(Extent)

(* The device byte that holds byte k of a file, counted from zero. *)
ByteAt(clusters, k) == clusters[(k \div ClusterBytes) + 1] * ClusterBytes + (k % ClusterBytes)

Tiled(e, clusters) ==
  \A i \in 1..Len(e) : \A j \in 0..(e[i].len - 1) : e[i].at + j = ByteAt(clusters, Before(e)[i - 1] + j)

Tiles(e, clusters, size) ==
  /\ e \in Extents /\ \A i \in 1..Len(e) : e[i].len > 0
  /\ Before(e)[Len(e)] = size
  /\ Tiled(e, clusters)

LEMMA ExtentsAreLists ==
  ASSUME NEW e \in Extents
  PROVE  IsList(e) /\ \A i \in 1..Len(e) : e[i].at \in Nat /\ e[i].len \in Nat
<1>1. \A x \in Extent : x.at \in Nat /\ x.len \in Nat
  BY DEF Extent
<1>2. DOMAIN e = 1..Len(e) /\ Len(e) \in Nat /\ \A i \in 1..Len(e) : e[i] \in Extent
  BY DEF Extents
<1> QED
  BY <1>1, <1>2 DEF IsList

(* The bytes of one extent. *)
Piece(x) == [i \in 1..x.len |-> x.at + i - 1]

LEMMA PieceIs ==
  ASSUME NEW x \in Extent
  PROVE  /\ Piece(x) \in Seq(Nat) /\ Len(Piece(x)) = x.len
         /\ \A i \in 1..x.len : Piece(x)[i] = x.at + i - 1
<1>1. x.at \in Nat /\ x.len \in Nat
  BY DEF Extent
<1>2. \A i \in 1..x.len : x.at + i - 1 \in Nat
  BY <1>1
<1>3. Piece(x) \in [1..x.len -> Nat]
  BY <1>2 DEF Piece
<1>4. Piece(x) \in Seq(Nat)
  BY <1>1, <1>3
<1> QED
  BY <1>1, <1>3, <1>4 DEF Piece

LEMMA BytesRecursion ==
  ASSUME NEW e \in Extents
  PROVE  \E f \in [0..Len(e) -> Seq(Nat)] :
           /\ f[0] = <<>> /\ BytesOf(e) = f[Len(e)]
           /\ \A k \in 1..Len(e) : f[k] = f[k - 1] \o Piece(e[k])
<1> DEFINE N == Len(e)
           V == Seq(Nat)
           none == <<>>
           step == [k \in 1..N |-> [v \in V |-> v \o Piece(e[k])]]
           Is(f) == f = [n \in 0..N |-> IF n = 0 THEN none ELSE f[n - 1] \o Piece(e[n])]
           f == CHOOSE g : Is(g)
<1>1. N \in Nat /\ none \in V
  BY DEF Extents
<1>2. \A k \in 1..N : Piece(e[k]) \in V
  <2>1. \A k \in 1..N : e[k] \in Extent
    BY DEF Extents
  <2> QED
    BY <2>1, PieceIs
<1>3. step \in [1..N -> [V -> V]]
  <2>1. \A k \in 1..N : \A v \in V : v \o Piece(e[k]) \in V
    BY <1>2
  <2> QED
    BY <2>1
<1>4. PICK g \in [0..N -> V] : g[0] = none /\ \A k \in 1..N : g[k] = step[k][g[k - 1]]
  <2> HIDE DEF step, N, V, none
  <2> QED
    BY <1>1, <1>3, RecursionExists, SMTT(60)
<1>5. \A k \in 1..N : k - 1 \in 0..N /\ k \in 0..N /\ k # 0
  BY <1>1
<1>6. Is(g)
  <2>1. \A k \in 1..N : g[k] = g[k - 1] \o Piece(e[k])
    BY <1>4, <1>5
  <2>2. \A k \in 0..N : k = 0 \/ k \in 1..N
    BY <1>1
  <2> QED
    BY <1>4, <2>1, <2>2
<1>7. Is(f)
  <2> HIDE DEF Is
  <2> QED
    BY <1>6
<1>8. BytesOf(e) = f[N]
  BY DEF BytesOf, Piece
<1> HIDE DEF f
<1>9. f[0] = none /\ DOMAIN f = 0..N /\ \A k \in 1..N : f[k] = f[k - 1] \o Piece(e[k])
  <2>1. 0 \in 0..N
    BY <1>1
  <2> QED
    BY <1>5, <1>7, <2>1
<1> DEFINE S == {k \in Nat : k <= N => f[k] \in V}
<1>10. 0 \in S
  BY <1>1, <1>9
<1>11. ASSUME NEW k \in S PROVE k + 1 \in S
  <2> SUFFICES ASSUME k + 1 <= N PROVE f[k + 1] \in V
    OBVIOUS
  <2>1. k + 1 \in 1..N /\ (k + 1) - 1 = k /\ f[k] \in V
    BY <1>1
  <2>2. f[k + 1] = f[k] \o Piece(e[k + 1]) /\ Piece(e[k + 1]) \in V
    BY <1>2, <1>9, <2>1
  <2> QED
    BY <2>1, <2>2
<1>12. S = Nat
  <2>1. S \in SUBSET Nat
    OBVIOUS
  <2> HIDE DEF S
  <2> QED
    BY <1>10, <1>11, <2>1, SetInduction
<1>13. \A k \in 0..N : f[k] \in V
  BY <1>1, <1>12
<1>14. f \in [0..N -> V]
  BY <1>7, <1>13
<1> QED
  BY <1>8, <1>9, <1>14

(* What tiles a list of clusters names exactly the bytes of it. *)
LEMMA TiledBytes ==
  ASSUME NEW e, NEW clusters, NEW size, Tiles(e, clusters, size)
  PROVE  BytesOf(e) = [i \in 1..size |-> ByteAt(clusters, i - 1)]
<1> DEFINE N == Len(e)
           b == Before(e)
<1>1. e \in Extents /\ IsList(e) /\ N \in Nat
  BY ExtentsAreLists DEF Tiles, IsList
<1>2. PICK f \in [0..N -> Seq(Nat)] : /\ f[0] = <<>> /\ BytesOf(e) = f[N]
                                     /\ \A k \in 1..N : f[k] = f[k - 1] \o Piece(e[k])
  BY <1>1, BytesRecursion
<1>3. b \in [0..N -> Nat] /\ b[0] = 0 /\ \A i \in 1..N : b[i] = b[i - 1] + e[i].len
  BY <1>1, BeforeIs
<1>4. \A i \in 1..N : \A j \in 0..(e[i].len - 1) : e[i].at + j = ByteAt(clusters, b[i - 1] + j)
  BY DEF Tiles, Tiled
<1> HIDE DEF b
<1> DEFINE Good(k) == Len(f[k]) = b[k] /\ \A i \in 1..b[k] : f[k][i] = ByteAt(clusters, i - 1)
           S == {k \in Nat : k <= N => Good(k)}
<1>5. 0 \in S
  BY <1>2, <1>3
<1>6. ASSUME NEW k \in S PROVE k + 1 \in S
  <2> SUFFICES ASSUME k + 1 <= N PROVE Good(k + 1)
    OBVIOUS
  <2>1. k \in Nat /\ k + 1 \in 1..N /\ (k + 1) - 1 = k /\ k \in 0..N
    BY <1>1
  <2>2. Good(k)
    BY <2>1
  <2> DEFINE x == e[k + 1]
             p == Piece(x)
             before == f[k]
  <2>3. x.len \in Nat /\ x.at \in Nat
    BY <1>1, <2>1, ExtentsAreLists
  <2>4. p \in Seq(Nat) /\ Len(p) = x.len /\ \A i \in 1..x.len : p[i] = x.at + i - 1
    <3>1. x \in Extent
      BY <1>1, <2>1 DEF Extents
    <3> QED
      BY <3>1, PieceIs
  <2>5. before \in Seq(Nat) /\ b[k] \in Nat /\ f[k + 1] = before \o p /\ b[k + 1] = b[k] + x.len
    BY <1>2, <1>3, <2>1
  <2>6. \A j \in 0..(x.len - 1) : x.at + j = ByteAt(clusters, b[k] + j)
    BY <1>4, <2>1
  <2>7. Len(before) = b[k] /\ \A i \in 1..b[k] : before[i] = ByteAt(clusters, i - 1)
    BY <2>2
  <2> DEFINE m == b[k]
             n == x.len
  <2>8. m \in Nat /\ n \in Nat /\ b[k + 1] = m + n /\ x.at \in Nat
    BY <2>3, <2>5
  <2>9. f[k + 1] = before \o p /\ Len(before) = m /\ Len(p) = n
    BY <2>4, <2>5, <2>7
  <2>10. /\ before \in Seq(Nat) /\ p \in Seq(Nat) /\ \A i \in 1..n : p[i] = x.at + i - 1
         /\ \A i \in 1..m : before[i] = ByteAt(clusters, i - 1)
         /\ \A j \in 0..(n - 1) : x.at + j = ByteAt(clusters, m + j)
    BY <2>4, <2>5, <2>6, <2>7
  <2> HIDE DEF x, p, before, Good, m, n
  <2>11. Len(f[k + 1]) = b[k + 1]
    <3>1. before \in Seq(Nat) /\ p \in Seq(Nat)
      BY <2>10
    <3>2. Len(before \o p) = Len(before) + Len(p)
      BY <3>1
    <3> QED
      BY <2>8, <2>9, <3>2
  <2>12. ASSUME NEW i \in 1..(m + n) PROVE f[k + 1][i] = ByteAt(clusters, i - 1)
    <3>1. CASE i <= m
      <4>1. i \in 1..m
        BY <2>8, <3>1
      <4>2. (before \o p)[i] = before[i]
        BY <2>9, <2>10, <4>1
      <4> QED
        BY <2>9, <2>10, <4>1, <4>2
    <3>2. CASE i > m
      <4> DEFINE j == i - m
      <4>1. j \in 1..n /\ j - 1 \in 0..(n - 1) /\ m + (j - 1) = i - 1
        BY <2>8, <3>2
      <4>2. (before \o p)[i] = p[j]
        BY SMTT(60), <2>8, <2>9, <2>10, <3>2
      <4>3. p[j] = x.at + j - 1 /\ x.at + j - 1 = x.at + (j - 1)
        BY <2>8, <2>10, <4>1
      <4>4. x.at + (j - 1) = ByteAt(clusters, m + (j - 1))
        BY <2>10, <4>1
      <4> QED
        BY <2>9, <4>1, <4>2, <4>3, <4>4
    <3> QED
      BY <2>8, <3>1, <3>2
  <2> QED
    BY <2>8, <2>11, <2>12 DEF Good
<1>7. S = Nat
  <2>1. S \in SUBSET Nat
    OBVIOUS
  <2> HIDE DEF S
  <2> QED
    BY <1>5, <1>6, <2>1, SetInduction
<1>8. Good(N) /\ f[N] \in Seq(Nat)
  BY <1>1, <1>2, <1>7
<1>9. b[N] = size
  BY DEF Tiles, b
<1>10. f[N] \in [1..size -> Nat]
  BY <1>8, <1>9
<1> QED
  BY <1>2, <1>8, <1>9, <1>10

(* Cutting what tiles a list of clusters leaves what tiles the start of it. *)
LEMMA TrimmedTiles ==
  ASSUME NEW e, NEW clusters, NEW total, NEW size \in Nat \ {0},
         Tiles(e, clusters, total), size <= extentBytes(e)
  PROVE  Tiles(trimToSize(e, size), clusters, size)
<1> DEFINE N == Len(e)
           b == Before(e)
           needed == {i \in 1..N : b[i - 1] < size}
           t == trimToSize(e, size)
<1>1. e \in Extents /\ IsList(e) /\ N \in Nat /\ DOMAIN e = 1..N
  BY ExtentsAreLists DEF Tiles, IsList
<1>2. /\ b \in [0..N -> Nat] /\ b[0] = 0 /\ extentBytes(e) = b[N]
      /\ \A i \in 1..N : b[i] = b[i - 1] + e[i].len
  BY <1>1, BeforeIs
<1>3. \A i \in 1..N : e[i].len \in Nat /\ e[i].len > 0 /\ e[i].at \in Nat
  BY <1>1, ExtentsAreLists DEF Tiles
<1>4. \A i \in 1..N : \A j \in 0..(e[i].len - 1) : e[i].at + j = ByteAt(clusters, b[i - 1] + j)
  BY DEF Tiles, Tiled
<1>5. \A i \in 1..N : extentBytes(SubSeq(e, 1, i - 1)) = b[i - 1]
  BY <1>1, BytesBefore DEF Extents
<1>6. \A i, j \in 0..N : i <= j => b[i] <= b[j]
  BY <1>1, BeforeGrows
<1>7. b[N] >= size
  <2> HIDE DEF b, N
  <2>1. N \in 0..N
    BY <1>1
  <2>2. b[N] \in Nat /\ extentBytes(e) = b[N]
    BY <1>2, <2>1
  <2> QED
    BY <2>2
<1> HIDE DEF b, N
<1>8. N # 0
  BY <1>1, <1>2, <1>7
<1>9. needed \in SUBSET (0..N) /\ 1 \in needed
  BY <1>1, <1>2, <1>8
<1>0. \A i : i \in needed <=> i \in 1..N /\ b[i - 1] < size
  OBVIOUS
<1> HIDE DEF needed
<1>10. PICK m \in needed : \A i \in needed : i <= m
  BY <1>1, <1>9, MaxIs
<1>11. m \in 1..N /\ b[m - 1] < size /\ m - 1 \in 0..N /\ m \in 0..N
  <2>1. m \in 1..N /\ b[m - 1] < size
    BY <1>0
  <2> QED
    BY <1>1, <2>1
<1>12. size <= b[m]
  <2>1. CASE m = N
    BY <1>7, <2>1
  <2>2. CASE m # N
    <3>1. m + 1 \in 1..N /\ (m + 1) - 1 = m
      BY <1>1, <1>11, <2>2
    <3>2. m + 1 \notin needed
      BY <1>10, <1>11
    <3>3. b[m] \in Nat
      BY <1>2, <1>11
    <3> QED
      BY <1>0, <3>1, <3>2, <3>3
  <2> QED
    BY <2>1, <2>2
<1>13. needed = 1..m
  <2>1. ASSUME NEW i \in 1..m PROVE i \in needed
    <3>1. i \in 1..N /\ i - 1 \in 0..N /\ i - 1 <= m - 1
      BY <1>1, <1>11
    <3>2. b[i - 1] <= b[m - 1] /\ b[i - 1] \in Nat /\ b[m - 1] \in Nat
      BY <1>2, <1>6, <1>11, <3>1
    <3> QED
      BY <1>0, <1>11, <3>1, <3>2
  <2>2. ASSUME NEW i \in needed PROVE i \in 1..m
    BY <1>0, <1>1, <1>10, <1>11
  <2> QED
    BY <2>1, <2>2
<1>14. Cardinality(needed) = m
  <2>1. m \in Int /\ 1 \in Int /\ m >= 1
    BY <1>11
  <2>2. Cardinality(1..m) = IF 1 > m THEN 0 ELSE m - 1 + 1
    BY <2>1, FS_Interval
  <2> QED
    BY <1>13, <2>1, <2>2
<1> DEFINE cut(i) == Min({e[i].len, size - b[i - 1]})
<1>15. t = [i \in 1..m |-> [at |-> e[i].at, len |-> cut(i)]]
  <2>1. ~(extentBytes(e) < size)
    BY <1>1, <1>2, <1>7
  <2>2. {i \in DOMAIN e : extentBytes(SubSeq(e, 1, i - 1)) < size} = needed
    BY <1>0, <1>1, <1>5
  <2>3. \A i \in 1..m : extentBytes(SubSeq(e, 1, i - 1)) = b[i - 1]
    BY <1>1, <1>5, <1>11
  <2> QED
    BY <1>14, <2>1, <2>2, <2>3 DEF trimToSize
<1>16. \A i \in 1..m : /\ cut(i) = IF i < m THEN e[i].len ELSE size - b[i - 1]
                       /\ cut(i) \in Nat /\ cut(i) > 0 /\ cut(i) <= e[i].len
  <2> SUFFICES ASSUME NEW i \in 1..m
               PROVE  /\ cut(i) = IF i < m THEN e[i].len ELSE size - b[i - 1]
                      /\ cut(i) \in Nat /\ cut(i) > 0 /\ cut(i) <= e[i].len
    OBVIOUS
  <2> DEFINE x == e[i].len
             y == size - b[i - 1]
  <2>1. i \in 1..N /\ i - 1 \in 0..N /\ i \in 0..N /\ i \in needed
    BY <1>1, <1>11, <1>13
  <2>2. x \in Nat /\ x > 0 /\ b[i - 1] \in Nat /\ b[i] = b[i - 1] + x /\ b[i - 1] < size
    BY <1>0, <1>2, <1>3, <2>1
  <2>3. y \in Nat /\ y > 0
    BY <2>2
  <2>4. cut(i) = IF x <= y THEN x ELSE y
    <3> HIDE DEF x, y
    <3>1. Min({x, y}) = IF x <= y THEN x ELSE y
      BY <2>2, <2>3, MinMaxOfTwo
    <3> QED
      BY <3>1 DEF x, y
  <2>5. i < m => x <= y
    <3> SUFFICES ASSUME i < m PROVE x <= y
      OBVIOUS
    <3>1. i + 1 \in 1..m /\ (i + 1) - 1 = i
      BY <1>11
    <3>2. b[i] < size
      BY <1>0, <1>13, <3>1
    <3> QED
      BY <2>2, <3>2
  <2>6. i >= m => y <= x
    <3>1. i >= m => b[i] >= size
      BY <1>11, <1>12
    <3> QED
      BY <2>2, <3>1
  <2> HIDE DEF cut
  <2> QED
    BY <2>2, <2>3, <2>4, <2>5, <2>6, <1>11 DEF x, y
<1> HIDE DEF cut, t
<1>17. /\ t \in Extents /\ Len(t) = m
       /\ \A i \in 1..m : t[i].at = e[i].at /\ t[i].len = cut(i) /\ t[i].len > 0
  <2>1. \A i \in 1..m : [at |-> e[i].at, len |-> cut(i)] \in Extent
    <3>1. \A i \in 1..m : i \in 1..N
      BY <1>1, <1>11
    <3> QED
      BY <1>3, <1>16, <3>1 DEF Extent
  <2>2. t \in [1..m -> Extent] /\ m \in Nat
    BY <1>11, <1>15, <2>1
  <2>3. t \in Extents /\ Len(t) = m
    BY <2>2 DEF Extents
  <2>4. \A i \in 1..m : t[i] = [at |-> e[i].at, len |-> cut(i)]
    BY <1>15
  <2> QED
    BY <1>16, <2>3, <2>4
<1>18. IsList(t)
  BY <1>17, ExtentsAreLists
<1>19. Before(t) \in [0..m -> Nat] /\ \A i \in 1..m : Before(t)[i] = Before(t)[i - 1] + t[i].len
  BY <1>17, <1>18, BeforeIs
<1>20. \A i \in 0..(m - 1) : Before(t)[i] = b[i]
  <2>1. m - 1 \in Nat /\ m - 1 <= Len(e) /\ m - 1 <= Len(t)
    BY <1>1, <1>11, <1>17
  <2>2. \A i \in 1..(m - 1) : t[i].len = e[i].len
    BY <1>11, <1>16, <1>17
  <2> QED
    BY <1>1, <1>18, <2>1, <2>2, BeforeAgrees DEF b
<1>21. Before(t)[Len(t)] = size
  <2>0. m \in 1..m /\ m - 1 \in 0..(m - 1) /\ ~(m < m)
    BY <1>11
  <2>1. t[m].len = size - b[m - 1] /\ b[m - 1] \in Nat /\ Before(t)[m - 1] = b[m - 1]
    BY <1>2, <1>11, <1>16, <1>17, <1>20, <2>0
  <2>2. Before(t)[m] = Before(t)[m - 1] + t[m].len
    BY <1>11, <1>19
  <2> QED
    BY <1>17, <2>1, <2>2
<1>22. Tiled(t, clusters)
  <2> SUFFICES ASSUME NEW i \in 1..m, NEW j \in 0..(t[i].len - 1)
               PROVE  t[i].at + j = ByteAt(clusters, Before(t)[i - 1] + j)
    BY <1>17 DEF Tiled
  <2>1. i \in 1..N /\ i - 1 \in 0..(m - 1)
    BY <1>1, <1>11
  <2>2. e[i].len \in Nat /\ cut(i) <= e[i].len /\ cut(i) \in Nat /\ t[i].len = cut(i)
    BY <1>3, <1>16, <1>17, <2>1
  <2>3. j \in 0..(e[i].len - 1)
    BY <2>2
  <2> QED
    BY <1>4, <1>17, <1>20, <2>1, <2>3
<1> QED
  BY <1>17, <1>21, <1>22 DEF Tiles, t

(* Where a range of the file is, when it is found: its bytes are the file's. *)
LEMMA LocatedTiles ==
  ASSUME NEW e, NEW clusters, NEW size, Tiles(e, clusters, size),
         NEW offset \in Nat, NEW length \in Nat \ {0}
  PROVE  LET at == locateInExtents(e, offset, length) IN
         /\ at = -1 \/ /\ at \in Nat /\ offset + length <= size
                       /\ \A j \in 0..(length - 1) : at + j = ByteAt(clusters, offset + j)
         /\ (\E i \in 1..Len(e) : Before(e)[i - 1] <= offset /\ offset + length <= Before(e)[i])
              => at # -1
<1> DEFINE N == Len(e)
           b == Before(e)
           holding == {i \in DOMAIN e : offset >= b[i - 1] /\ offset - b[i - 1] < e[i].len}
           fits(i) == length <= e[i].len - (offset - b[i - 1])
           at == locateInExtents(e, offset, length)
<1>1. e \in Extents /\ IsList(e) /\ N \in Nat /\ DOMAIN e = 1..N
  BY ExtentsAreLists DEF Tiles, IsList
<1>2. b \in [0..N -> Nat] /\ \A i \in 1..N : b[i] = b[i - 1] + e[i].len
  BY <1>1, BeforeIs
<1>3. \A i \in 1..N : e[i].len \in Nat /\ e[i].at \in Nat
  BY <1>1, ExtentsAreLists
<1>4. \A i \in 1..N : \A j \in 0..(e[i].len - 1) : e[i].at + j = ByteAt(clusters, b[i - 1] + j)
  BY DEF Tiles, Tiled
<1>5. \A i \in 1..N : extentBytes(SubSeq(e, 1, i - 1)) = b[i - 1]
  BY <1>1, BytesBefore DEF Extents
<1>6. \A i, j \in 0..N : i <= j => b[i] <= b[j]
  BY <1>1, BeforeGrows
<1>7. b[N] = size
  BY DEF Tiles
<1>8. {i \in DOMAIN e : offset >= extentBytes(SubSeq(e, 1, i - 1))
                        /\ offset - extentBytes(SubSeq(e, 1, i - 1)) < e[i].len} = holding
  BY <1>1, <1>5
<1>9. at = IF \E i \in holding : fits(i)
           THEN LET i == CHOOSE j \in holding : fits(j) IN e[i].at + (offset - b[i - 1])
           ELSE -1
  <2>1. \A i \in holding : extentBytes(SubSeq(e, 1, i - 1)) = b[i - 1]
    BY <1>1, <1>5
  <2> DEFINE gits(i) == length <= e[i].len - (offset - extentBytes(SubSeq(e, 1, i - 1)))
  <2>2. at = IF \E i \in holding : gits(i)
             THEN LET i == CHOOSE j \in holding : gits(j)
                  IN e[i].at + (offset - extentBytes(SubSeq(e, 1, i - 1)))
             ELSE -1
    BY <1>8 DEF locateInExtents
  <2>3. \A i \in holding : gits(i) <=> fits(i)
    BY <2>1
  <2> DEFINE F == {i \in holding : fits(i)}
             c == CHOOSE j \in holding : fits(j)
             d == CHOOSE j \in holding : gits(j)
  <2>4. CASE \E i \in holding : fits(i)
    <3>1. c = d
      BY <2>3
    <3>2. d \in holding
      BY <2>3, <2>4
    <3>3. at = e[d].at + (offset - extentBytes(SubSeq(e, 1, d - 1)))
      BY <2>2, <2>3, <2>4
    <3> HIDE DEF d, at, holding
    <3>4. at = e[d].at + (offset - b[d - 1])
      BY <2>1, <3>2, <3>3
    <3> QED
      BY <2>4, <3>1, <3>4
  <2>5. CASE ~\E i \in holding : fits(i)
    BY <2>2, <2>3, <2>5
  <2> QED
    BY <2>4, <2>5
<1> HIDE DEF b, N, at
<1>10. \A i : i \in holding <=> i \in 1..N /\ offset >= b[i - 1] /\ offset - b[i - 1] < e[i].len
  BY <1>1
<1> HIDE DEF holding
<1>11. CASE \E i \in holding : fits(i)
  <2> DEFINE i == CHOOSE j \in holding : fits(j)
  <2>1. i \in holding /\ fits(i)
    BY <1>11
  <2>2. at = e[i].at + (offset - b[i - 1])
    BY <1>9, <1>11
  <2> HIDE DEF i
  <2> DEFINE x == b[i - 1]
             l == e[i].len
             a == e[i].at
  <2>3. i \in 1..N /\ i - 1 \in 0..N /\ i \in 0..N /\ N \in 0..N /\ i <= N
    BY <1>1, <1>10, <2>1
  <2>4. x \in Nat /\ l \in Nat /\ a \in Nat /\ b[i] = x + l /\ offset >= x
        /\ length <= l - (offset - x) /\ b[i] <= b[N] /\ b[N] \in Nat
    BY <1>2, <1>3, <1>6, <1>10, <2>1, <2>3
  <2>5. \A j \in 0..(l - 1) : a + j = ByteAt(clusters, x + j)
    BY <1>4, <2>3
  <2>6. at = a + (offset - x)
    BY <2>2
  <2> HIDE DEF x, l, a
  <2>7. at \in Nat /\ offset + length <= size
    BY <1>7, <2>4, <2>6
  <2>8. ASSUME NEW j \in 0..(length - 1) PROVE at + j = ByteAt(clusters, offset + j)
    <3> DEFINE k == (offset - x) + j
    <3>1. k \in 0..(l - 1) /\ a + k = at + j /\ x + k = offset + j
      BY <2>4, <2>6
    <3>2. a + k = ByteAt(clusters, x + k)
      BY <2>5, <3>1
    <3> QED
      BY <3>1, <3>2
  <2>9. at # -1
    BY <2>7
  <2> QED
    BY <2>7, <2>8, <2>9 DEF at
<1>12. CASE ~\E i \in holding : fits(i)
  <2>1. at = -1
    BY <1>9, <1>12
  <2>2. ASSUME NEW i \in 1..N, b[i - 1] <= offset, offset + length <= b[i] PROVE FALSE
    <3>1. i - 1 \in 0..N
      BY <1>1
    <3>2. b[i - 1] \in Nat /\ e[i].len \in Nat /\ b[i] = b[i - 1] + e[i].len
      BY <1>2, <1>3, <3>1
    <3>3. offset >= b[i - 1] /\ offset - b[i - 1] < e[i].len /\ fits(i)
      BY <2>2, <3>2
    <3> QED
      BY <1>10, <1>12, <3>3
  <2> QED
    BY <2>1, <2>2 DEF at, b, N
<1> QED
  BY <1>11, <1>12

-----------------------------------------------------------------------------
(***************************************************************************)
(* The runs of a list of clusters.                                         *)
(***************************************************************************)

Cluster == Nat \cup {Hole}
Run == [start : Cluster, len : Nat \ {0}]
Runs == Seq(Run)

Joins(runs, c) ==
  runs # <<>> /\ IF c = Hole THEN Last(runs).start = Hole
                 ELSE Last(runs).start # Hole /\ c = Last(runs).start + Last(runs).len
Grown(runs, c) ==
  IF Joins(runs, c) THEN [runs EXCEPT ![Len(runs)].len = @ + 1]
  ELSE Append(runs, [start |-> c, len |-> 1])

(* The cluster in place t of a run. *)
InRun(run, t) == IF run.start = Hole THEN Hole ELSE run.start + t

(* The runs are the first n clusters, and no run carries on where another ends. *)
RunsOf(r, clusters, n) ==
  /\ r \in Runs /\ Before(r)[Len(r)] = n
  /\ \A i \in 1..Len(r) : \A t \in 0..(r[i].len - 1) : clusters[Before(r)[i - 1] + t + 1] = InRun(r[i], t)
  /\ \A i \in 1..(Len(r) - 1) :
       r[i].start # Hole /\ r[i + 1].start # Hole => r[i + 1].start # r[i].start + r[i].len

LEMMA RunsAreLists ==
  ASSUME NEW r \in Runs
  PROVE  /\ IsList(r) /\ Len(r) \in Nat /\ DOMAIN r = 1..Len(r)
         /\ \A i \in 1..Len(r) : r[i].start \in Cluster /\ r[i].len \in Nat /\ r[i].len > 0
<1>1. \A x \in Run : x.start \in Cluster /\ x.len \in Nat /\ x.len > 0
  BY DEF Run
<1>2. DOMAIN r = 1..Len(r) /\ Len(r) \in Nat /\ \A i \in 1..Len(r) : r[i] \in Run
  BY DEF Runs
<1> QED
  BY <1>1, <1>2 DEF IsList

LEMMA Appended ==
  ASSUME NEW r \in Runs, NEW c \in Cluster
  PROVE  LET g == Append(r, [start |-> c, len |-> 1]) IN
         /\ g \in Runs /\ Len(g) = Len(r) + 1 /\ \A i \in 1..Len(r) : g[i] = r[i]
         /\ g[Len(r) + 1].start = c /\ g[Len(r) + 1].len = 1
<1> DEFINE x == [start |-> c, len |-> 1]
<1>1. x \in Run /\ x.start = c /\ x.len = 1
  BY DEF Run
<1> HIDE DEF x
<1>2. r \in Seq(Run)
  BY DEF Runs
<1>3. /\ Append(r, x) \in Seq(Run) /\ Len(Append(r, x)) = Len(r) + 1
      /\ \A i \in 1..Len(r) : Append(r, x)[i] = r[i]
      /\ Append(r, x)[Len(r) + 1] = x
  BY <1>1, <1>2
<1> QED
  BY <1>1, <1>3 DEF Runs, x

LEMMA Lengthened ==
  ASSUME NEW r \in Runs, r # <<>>
  PROVE  LET g == [r EXCEPT ![Len(r)].len = @ + 1] IN
         /\ g \in Runs /\ Len(g) = Len(r) /\ \A i \in 1..(Len(r) - 1) : g[i] = r[i]
         /\ g[Len(r)].start = r[Len(r)].start /\ g[Len(r)].len = r[Len(r)].len + 1
<1> DEFINE L == Len(r)
           x == r[L]
           y == [x EXCEPT !.len = @ + 1]
           g == [r EXCEPT ![L].len = @ + 1]
<1>1. r \in Seq(Run) /\ L \in 1..L /\ L \in Nat /\ DOMAIN r = 1..L
  BY DEF Runs
<1>2. x \in Run
  BY <1>1
<1>3. y \in Run /\ y.start = x.start /\ y.len = x.len + 1
  BY <1>2 DEF Run
<1>4. g = [r EXCEPT ![L] = y]
  BY <1>1
<1> HIDE DEF y, g
<1>5. g \in [1..L -> Run] /\ g[L] = y /\ \A i \in 1..(L - 1) : g[i] = r[i]
  <2> HIDE DEF L
  <2>1. y \in Run /\ r \in [1..L -> Run]
    BY <1>1, <1>3 DEF L
  <2>2. g \in [1..L -> Run] /\ g[L] = y
    BY <1>1, <1>4, <2>1
  <2>3. \A i \in 1..(L - 1) : i \in 1..L /\ i # L
    BY <1>1
  <2> QED
    BY <1>4, <2>1, <2>2, <2>3
<1>6. g \in Seq(Run) /\ Len(g) = L
  BY <1>1, <1>5
<1>7. g[L].start = x.start /\ g[L].len = x.len + 1
  BY <1>3, <1>5
<1> HIDE DEF x
<1> QED
  BY <1>5, <1>6, <1>7 DEF Runs, g, x

LEMMA GrownIs ==
  ASSUME NEW r, NEW clusters, NEW n \in Nat, RunsOf(r, clusters, n), clusters[n + 1] \in Cluster
  PROVE  RunsOf(Grown(r, clusters[n + 1]), clusters, n + 1)
<1> DEFINE L == Len(r)
           c == clusters[n + 1]
           g == Grown(r, c)
           b == Before(r)
           a == Before(g)
<1>1. r \in Runs /\ b[L] = n /\ c \in Cluster
  BY DEF RunsOf
<1>2. /\ IsList(r) /\ L \in Nat
      /\ \A i \in 1..L : r[i].start \in Cluster /\ r[i].len \in Nat /\ r[i].len > 0
  BY <1>1, RunsAreLists
<1>3. b \in [0..L -> Nat] /\ b[0] = 0 /\ \A i \in 1..L : b[i] = b[i - 1] + r[i].len
  BY <1>2, BeforeIs
<1>4. \A i \in 1..L : \A t \in 0..(r[i].len - 1) : clusters[b[i - 1] + t + 1] = InRun(r[i], t)
  BY DEF RunsOf
<1>5. \A i \in 1..(L - 1) :
        r[i].start # Hole /\ r[i + 1].start # Hole => r[i + 1].start # r[i].start + r[i].len
  BY DEF RunsOf
<1> HIDE DEF b
<1>6. CASE Joins(r, c)
  <2>1. r # <<>> /\ g = [r EXCEPT ![L].len = @ + 1]
    BY <1>6 DEF Joins, Grown
  <2>2. /\ g \in Runs /\ Len(g) = L /\ \A i \in 1..(L - 1) : g[i] = r[i]
        /\ g[L].start = r[L].start /\ g[L].len = r[L].len + 1
    BY <1>1, <2>1, Lengthened
  <2> DEFINE l == r[L].len
             s == r[L].start
  <2>3. L \in 1..L /\ L - 1 \in 0..L /\ L # 0
    <3>1. L # 0
      BY <1>1, <2>1 DEF Runs
    <3> QED
      BY <1>2, <3>1
  <2>4. l \in Nat /\ s \in Cluster /\ b[L - 1] \in Nat /\ n = b[L - 1] + l
    BY <1>1, <1>2, <1>3, <2>3
  <2>5. c = IF s = Hole THEN Hole ELSE s + l
    BY <1>6, <2>1 DEF Joins, Last
  <2> HIDE DEF g
  <2>6. IsList(g) /\ a \in [0..L -> Nat] /\ \A i \in 1..L : a[i] = a[i - 1] + g[i].len
    BY <2>2, RunsAreLists, BeforeIs
  <2>7. \A i \in 0..(L - 1) : a[i] = b[i]
    <3>1. L - 1 \in Nat /\ L - 1 <= Len(r) /\ L - 1 <= Len(g)
      BY <1>2, <2>2, <2>3
    <3>2. \A i \in 1..(L - 1) : g[i].len = r[i].len
      BY <2>2
    <3> QED
      BY <1>2, <2>6, <3>1, <3>2, BeforeAgrees DEF b
  <2> HIDE DEF a
  <2>8. a[L - 1] = b[L - 1]
    BY <1>2, <2>3, <2>7
  <2>9. a[L] = n + 1
    <3>1. a[L] = a[L - 1] + (l + 1)
      BY <2>2, <2>3, <2>6
    <3> QED
      BY <2>4, <2>8, <3>1
  <2>10. ASSUME NEW i \in 1..L, NEW t \in 0..(g[i].len - 1)
         PROVE  clusters[a[i - 1] + t + 1] = InRun(g[i], t)
    <3>1. CASE i # L
      <4>1. i \in 1..(L - 1) /\ i - 1 \in 0..(L - 1)
        BY <1>2, <3>1
      <4> QED
        BY <1>4, <2>2, <2>7, <4>1
    <3>2. CASE i = L /\ t < l
      <4>1. t \in 0..(l - 1)
        BY <2>4, <3>2
      <4>2. clusters[b[L - 1] + t + 1] = InRun(r[L], t)
        BY <1>4, <2>3, <4>1
      <4>3. InRun(r[L], t) = InRun(g[L], t)
        BY <2>2 DEF InRun
      <4> QED
        BY <2>8, <3>2, <4>2, <4>3
    <3>3. CASE i = L /\ ~(t < l)
      <4>1. t = l
        BY <2>2, <2>4, <3>3
      <4>2. b[L - 1] + t + 1 = n + 1
        BY <2>4, <4>1
      <4>3. InRun(g[L], t) = c
        BY <2>2, <2>5, <4>1 DEF InRun
      <4> QED
        BY <2>8, <3>3, <4>2, <4>3
    <3> QED
      BY <3>1, <3>2, <3>3
  <2>11. ASSUME NEW i \in 1..(L - 1), g[i].start # Hole, g[i + 1].start # Hole
         PROVE  g[i + 1].start # g[i].start + g[i].len
    <3>1. g[i] = r[i] /\ (i + 1 \in 1..(L - 1) \/ i + 1 = L)
      BY <1>2, <2>2
    <3>2. g[i + 1].start = r[i + 1].start
      BY <2>2, <3>1
    <3> QED
      BY <1>5, <2>11, <3>1, <3>2
  <2> QED
    BY <2>2, <2>9, <2>10, <2>11 DEF RunsOf, a, g
<1>7. CASE ~Joins(r, c)
  <2>1. g = Append(r, [start |-> c, len |-> 1])
    BY <1>7 DEF Grown
  <2>2. /\ g \in Runs /\ Len(g) = L + 1 /\ \A i \in 1..L : g[i] = r[i]
        /\ g[L + 1].start = c /\ g[L + 1].len = 1
    BY <1>1, <2>1, Appended
  <2> HIDE DEF g
  <2>3. IsList(g) /\ a \in [0..(L + 1) -> Nat] /\ \A i \in 1..(L + 1) : a[i] = a[i - 1] + g[i].len
    <3>1. IsList(g)
      BY <2>2, RunsAreLists
    <3>2. a \in [0..Len(g) -> Nat] /\ \A i \in 1..Len(g) : a[i] = a[i - 1] + g[i].len
      BY <3>1, BeforeIs
    <3> QED
      BY <2>2, <3>1, <3>2
  <2>4. \A i \in 0..L : a[i] = b[i]
    <3>1. L \in Nat /\ L <= Len(r) /\ L <= Len(g)
      BY <1>2, <2>2
    <3>2. \A i \in 1..L : g[i].len = r[i].len
      BY <2>2
    <3> QED
      BY <1>2, <2>3, <3>1, <3>2, BeforeAgrees DEF b
  <2> HIDE DEF a
  <2>5. L + 1 \in 1..(L + 1) /\ L \in 0..L /\ (L + 1) - 1 = L
    BY <1>2
  <2>6. a[L] = n
    BY <1>1, <2>4, <2>5
  <2>7. a[L + 1] = n + 1
    BY <2>2, <2>3, <2>5, <2>6
  <2>8. ASSUME NEW i \in 1..(L + 1), NEW t \in 0..(g[i].len - 1)
        PROVE  clusters[a[i - 1] + t + 1] = InRun(g[i], t)
    <3>1. CASE i # L + 1
      <4>1. i \in 1..L /\ i - 1 \in 0..L
        BY <1>2, <3>1
      <4> QED
        BY <1>4, <2>2, <2>4, <4>1
    <3>2. CASE i = L + 1
      <4>1. t = 0
        BY <2>2, <3>2
      <4>2. a[i - 1] = n
        BY <1>2, <2>6, <3>2
      <4>3. InRun(g[L + 1], 0) = c
        BY <1>1, <2>2 DEF InRun, Cluster
      <4> QED
        BY <3>2, <4>1, <4>2, <4>3
    <3> QED
      BY <3>1, <3>2
  <2>9. ASSUME NEW i \in 1..L, g[i].start # Hole, g[i + 1].start # Hole
        PROVE  g[i + 1].start # g[i].start + g[i].len
    <3>1. CASE i # L
      <4>1. i \in 1..(L - 1) /\ i + 1 \in 1..L
        BY <1>2, <3>1
      <4> QED
        BY <1>5, <2>2, <2>9, <4>1
    <3>2. CASE i = L
      <4>1. r # <<>> /\ g[i] = r[L] /\ g[i + 1].start = c
        BY <1>1, <1>2, <2>2, <3>2
      <4> QED
        BY <1>7, <2>9, <4>1 DEF Joins, Last
    <3> QED
      BY <3>1, <3>2
  <2>10. Len(g) - 1 = L
    BY <1>2, <2>2
  <2> QED
    BY <2>2, <2>7, <2>8, <2>9, <2>10 DEF RunsOf, a, g
<1> QED
  BY <1>6, <1>7

LEMMA GrownType ==
  ASSUME NEW r \in Runs, NEW c \in Cluster
  PROVE  Grown(r, c) \in Runs
<1>1. CASE Joins(r, c)
  <2>1. r # <<>> /\ Grown(r, c) = [r EXCEPT ![Len(r)].len = @ + 1]
    BY <1>1 DEF Joins, Grown
  <2> QED
    BY <2>1, Lengthened
<1>2. CASE ~Joins(r, c)
  <2>1. Grown(r, c) = Append(r, [start |-> c, len |-> 1])
    BY <1>2 DEF Grown
  <2> QED
    BY <2>1, Appended
<1> QED
  BY <1>1, <1>2

(* The runs the host writes are the clusters it has. *)
LEMMA AllocatedIs ==
  ASSUME NEW clusters \in Seq(Cluster)
  PROVE  RunsOf(AllocatedRuns(clusters), clusters, Len(clusters))
<1> DEFINE N == Len(clusters)
           V == Runs
           none == <<>>
           step == [k \in 1..N |-> [v \in V |-> Grown(v, clusters[k])]]
           Is(f) == f = [n \in 0..N |-> IF n = 0 THEN none ELSE Grown(f[n - 1], clusters[n])]
           f == CHOOSE g : Is(g)
<1>1. N \in Nat /\ none \in V
  BY DEF Runs
<1>2. \A k \in 1..N : clusters[k] \in Cluster
  OBVIOUS
<1>3. step \in [1..N -> [V -> V]]
  <2>1. \A k \in 1..N : \A v \in V : Grown(v, clusters[k]) \in V
    BY <1>2, GrownType
  <2> QED
    BY <2>1
<1>4. PICK g \in [0..N -> V] : g[0] = none /\ \A k \in 1..N : g[k] = step[k][g[k - 1]]
  <2> HIDE DEF step, N, V, none
  <2> QED
    BY <1>1, <1>3, RecursionExists, SMTT(60)
<1>5. \A k \in 1..N : k - 1 \in 0..N /\ k \in 0..N /\ k # 0
  BY <1>1
<1>6. Is(g)
  <2>1. \A k \in 1..N : g[k] = Grown(g[k - 1], clusters[k])
    BY <1>4, <1>5
  <2>2. \A k \in 0..N : k = 0 \/ k \in 1..N
    BY <1>1
  <2> QED
    BY <1>4, <2>1, <2>2
<1>7. Is(f)
  <2> HIDE DEF Is
  <2> QED
    BY <1>6
<1>8. AllocatedRuns(clusters) = f[N]
  BY DEF AllocatedRuns, Grown, Joins
<1> HIDE DEF f
<1>9. f[0] = none /\ \A k \in 1..N : f[k] = Grown(f[k - 1], clusters[k])
  <2>1. 0 \in 0..N
    BY <1>1
  <2> QED
    BY <1>5, <1>7, <2>1
<1> DEFINE S == {k \in Nat : k <= N => RunsOf(f[k], clusters, k)}
<1>10. 0 \in S
  <2>1. none \in Runs /\ Len(none) = 0
    BY <1>1
  <2>2. Before(none)[0] = 0
    BY <2>1, RunsAreLists, BeforeIs
  <2>3. RunsOf(none, clusters, 0)
    BY <2>1, <2>2 DEF RunsOf
  <2> HIDE DEF none
  <2> QED
    BY <1>9, <2>3
<1>11. ASSUME NEW k \in S PROVE k + 1 \in S
  <2> SUFFICES ASSUME k + 1 <= N PROVE RunsOf(f[k + 1], clusters, k + 1)
    OBVIOUS
  <2>1. k \in Nat /\ k + 1 \in 1..N /\ (k + 1) - 1 = k /\ RunsOf(f[k], clusters, k)
    BY <1>1
  <2>2. f[k + 1] = Grown(f[k], clusters[k + 1]) /\ clusters[k + 1] \in Cluster
    BY <1>2, <1>9, <2>1
  <2>3. RunsOf(Grown(f[k], clusters[k + 1]), clusters, k + 1)
    BY <2>1, <2>2, GrownIs
  <2> QED
    BY <2>2, <2>3
<1>12. S = Nat
  <2>1. S \in SUBSET Nat
    OBVIOUS
  <2> HIDE DEF S
  <2> QED
    BY <1>10, <1>11, <2>1, SetInduction
<1>13. RunsOf(f[N], clusters, N)
  BY <1>1, <1>12
<1> QED
  BY <1>8, <1>13

-----------------------------------------------------------------------------
(***************************************************************************)
(* Reading a run list.                                                     *)
(***************************************************************************)

IsRaw(x) == /\ x.length \in Nat /\ x.offsetWidth \in 0..kMaxFieldWidth
            /\ x.offsetWidth # 0 => x.offset \in Int
Placed == [start : Int, len : Nat, sparse : BOOLEAN]
Reading == [ok : BOOLEAN, lcn : Int, runs : Seq(Placed)]

LEMMA PlacedIs ==
  ASSUME NEW x, IsRaw(x), NEW lcn \in Int
  PROVE  /\ placeRun(x, lcn) \in Placed
         /\ lcnAfter(placeRun(x, lcn), lcn) \in Int
         /\ placeRun(x, lcn).len = x.length
         /\ placeRun(x, lcn).sparse <=> x.offsetWidth = 0
<1>1. CASE x.offsetWidth = 0
  BY <1>1 DEF placeRun, Placed, lcnAfter, IsRaw
<1>2. CASE x.offsetWidth # 0
  <2>1. x.offsetWidth \in 1..kMaxFieldWidth /\ x.offset \in Int
    BY <1>2 DEF IsRaw, kMaxFieldWidth
  <2>2. Digit^(x.offsetWidth) \in Nat
    BY <2>1, WidthAssumption
  <2> DEFINE p == Digit^(x.offsetWidth)
  <2>3. signedDelta(x) = IF x.offset >= p \div 2 THEN x.offset - p ELSE x.offset
    BY DEF signedDelta
  <2> HIDE DEF p
  <2>4. signedDelta(x) \in Int
    BY <2>1, <2>2, <2>3 DEF p
  <2>5. nextLcn(lcn, x) \in Int
    BY <2>4 DEF nextLcn
  <2>6. placeRun(x, lcn) = [start |-> nextLcn(lcn, x), len |-> x.length, sparse |-> FALSE]
    BY <1>2 DEF placeRun
  <2> QED
    BY <1>2, <2>5, <2>6 DEF Placed, lcnAfter, IsRaw
<1> QED
  BY <1>1, <1>2

StepAccepts(v, x) ==
  v.ok /\ readRawRun(x) /\ placeRun(x, v.lcn).start # -1 /\ Len(v.runs) + 1 <= kMaxDataRuns

LEMMA StepIs ==
  ASSUME NEW v \in Reading, NEW x, IsRaw(x)
  PROVE  /\ stepOneRun(v, x) \in Reading
         /\ stepOneRun(v, x).ok <=> StepAccepts(v, x)
         /\ StepAccepts(v, x) =>
              LET run == placeRun(x, v.lcn) IN
              /\ stepOneRun(v, x).lcn = lcnAfter(run, v.lcn)
              /\ stepOneRun(v, x).runs = Append(v.runs, run)
<1> DEFINE run == placeRun(x, v.lcn)
           after == lcnAfter(run, v.lcn)
           stop == [v EXCEPT !.ok = FALSE]
           grown == Append(v.runs, run)
<1>1. v.ok \in BOOLEAN /\ v.lcn \in Int /\ v.runs \in Seq(Placed)
  BY DEF Reading
<1>2. run \in Placed /\ after \in Int
  BY <1>1, PlacedIs
<1>3. stop \in Reading /\ stop.ok = FALSE
  BY DEF Reading
<1>4. grown \in Seq(Placed)
  BY <1>1, <1>2
<1>5. Len(v.runs) \in Nat /\ kMaxDataRuns \in Nat
  BY <1>1, RunlistAssumption
<1>6. CASE StepAccepts(v, x)
  <2>1. stepOneRun(v, x) = [ok |-> TRUE, lcn |-> after, runs |-> grown]
    <3>1. ~(Len(v.runs) + 1 > kMaxDataRuns)
      BY <1>5, <1>6 DEF StepAccepts
    <3> QED
      BY <1>6, <3>1 DEF StepAccepts, stepOneRun, appendRun, storeRun
  <2> HIDE DEF run, after, grown
  <2>2. stepOneRun(v, x) \in Reading /\ stepOneRun(v, x).ok
    BY <1>2, <1>4, <2>1 DEF Reading
  <2>3. stepOneRun(v, x).lcn = after /\ stepOneRun(v, x).runs = grown
    BY <2>1
  <2> QED
    BY <1>6, <2>2, <2>3 DEF run, after, grown
<1>7. CASE ~StepAccepts(v, x)
  <2>1. stepOneRun(v, x) = stop
    <3>1. CASE ~(v.ok /\ readRawRun(x))
      BY <3>1 DEF stepOneRun
    <3>2. CASE v.ok /\ readRawRun(x) /\ run.start = -1
      BY <3>2 DEF stepOneRun, appendRun
    <3>3. CASE v.ok /\ readRawRun(x) /\ run.start # -1
      <4>1. Len(v.runs) + 1 > kMaxDataRuns
        BY <1>5, <1>7, <3>3 DEF StepAccepts
      <4> QED
        BY <3>3, <4>1 DEF stepOneRun, appendRun, storeRun
    <3> QED
      BY <3>1, <3>2, <3>3
  <2> HIDE DEF stop
  <2> QED
    BY <1>3, <1>7, <2>1
<1> QED
  BY <1>6, <1>7

IsRaws(raws) == DOMAIN raws = 1..Len(raws) /\ Len(raws) \in Nat /\ \A n \in 1..Len(raws) : IsRaw(raws[n])

LEMMA DecodeRecursion ==
  ASSUME NEW list, IsRaws(list.runs)
  PROVE  \E f \in [0..Len(list.runs) -> Reading] :
           /\ f[0] = [ok |-> TRUE, lcn |-> 0, runs |-> <<>>]
           /\ \A k \in 1..Len(list.runs) : f[k] = stepOneRun(f[k - 1], list.runs[k])
           /\ decodeRunlist(list) = IF list.ended /\ f[Len(list.runs)].ok
                                    THEN [ok |-> TRUE, runs |-> f[Len(list.runs)].runs] ELSE Refusal
<1> DEFINE N == Len(list.runs)
           V == Reading
           none == [ok |-> TRUE, lcn |-> 0, runs |-> <<>>]
           step == [k \in 1..N |-> [v \in V |-> stepOneRun(v, list.runs[k])]]
           Is(f) == f = [n \in 0..N |-> IF n = 0 THEN none ELSE stepOneRun(f[n - 1], list.runs[n])]
           f == CHOOSE g : Is(g)
<1>1. N \in Nat /\ none \in V
  <2>1. <<>> \in Seq(Placed)
    OBVIOUS
  <2> QED
    BY <2>1 DEF IsRaws, Reading
<1>2. \A k \in 1..N : IsRaw(list.runs[k])
  BY DEF IsRaws
<1>3. step \in [1..N -> [V -> V]]
  <2>1. \A k \in 1..N : \A v \in V : stepOneRun(v, list.runs[k]) \in V
    BY <1>2, StepIs
  <2> QED
    BY <2>1
<1>4. PICK g \in [0..N -> V] : g[0] = none /\ \A k \in 1..N : g[k] = step[k][g[k - 1]]
  <2> HIDE DEF step, N, V, none
  <2> QED
    BY <1>1, <1>3, RecursionExists, SMTT(60)
<1>5. \A k \in 1..N : k - 1 \in 0..N /\ k \in 0..N /\ k # 0
  BY <1>1
<1>6. Is(g)
  <2> HIDE DEF none, N, V
  <2>1. \A k \in 1..N : g[k] = stepOneRun(g[k - 1], list.runs[k])
    BY <1>4, <1>5
  <2>2. \A k \in 0..N : k = 0 \/ k \in 1..N
    BY <1>1
  <2> QED
    BY <1>4, <2>1, <2>2
<1>7. Is(f)
  <2> HIDE DEF Is
  <2> QED
    BY <1>6
<1>8. decodeRunlist(list) = IF list.ended /\ f[N].ok THEN [ok |-> TRUE, runs |-> f[N].runs] ELSE Refusal
  BY DEF decodeRunlist
<1> HIDE DEF f, none, N, V
<1>9. f[0] = none /\ \A k \in 1..N : f[k] = stepOneRun(f[k - 1], list.runs[k])
  <2>1. 0 \in 0..N
    BY <1>1
  <2> QED
    BY <1>5, <1>7, <2>1
<1> DEFINE S == {k \in Nat : k <= N => f[k] \in V}
<1>10. 0 \in S
  BY <1>1, <1>9
<1>11. ASSUME NEW k \in S PROVE k + 1 \in S
  <2> SUFFICES ASSUME k + 1 <= N PROVE f[k + 1] \in V
    OBVIOUS
  <2>1. k + 1 \in 1..N /\ (k + 1) - 1 = k /\ f[k] \in V
    BY <1>1
  <2>2. f[k + 1] = stepOneRun(f[k], list.runs[k + 1]) /\ IsRaw(list.runs[k + 1])
    BY <1>2, <1>9, <2>1
  <2> QED
    BY <2>1, <2>2, StepIs DEF V
<1>12. S = Nat
  <2>1. S \in SUBSET Nat
    OBVIOUS
  <2> HIDE DEF S
  <2> QED
    BY <1>10, <1>11, <2>1, SetInduction
<1>13. f \in [0..N -> V]
  <2>1. \A k \in 0..N : f[k] \in V
    BY <1>1, <1>12
  <2>2. DOMAIN f = 0..N /\ f = [k \in 0..N |-> f[k]]
    BY <1>7
  <2> QED
    BY <2>1, <2>2
<1> QED
  BY <1>8, <1>9, <1>13 DEF N, V, none

(* What each run of the list was placed at: `lcn` is the cluster it is counted from. *)
Placing(raws, lcn) ==
  /\ lcn \in [0..Len(raws) -> Int] /\ lcn[0] = 0
  /\ \A n \in 1..Len(raws) : /\ readRawRun(raws[n])
                             /\ placeRun(raws[n], lcn[n - 1]).start # -1
                             /\ lcn[n] = lcnAfter(placeRun(raws[n], lcn[n - 1]), lcn[n - 1])

PlacedAt(raws, lcn) == [n \in 1..Len(raws) |-> placeRun(raws[n], lcn[n - 1])]

(* A list that decodes: every run was accepted where the one before it left off. *)
LEMMA DecodeOk ==
  ASSUME NEW list, IsRaws(list.runs), list.ended \in BOOLEAN
  PROVE  /\ decodeRunlist(list).ok \in BOOLEAN
         /\ decodeRunlist(list).ok =>
              /\ list.ended
              /\ \E lcn : Placing(list.runs, lcn) /\ decodeRunlist(list).runs = PlacedAt(list.runs, lcn)
<1> DEFINE raws == list.runs
           N == Len(raws)
           d == decodeRunlist(list)
<1>1. N \in Nat /\ \A n \in 1..N : IsRaw(raws[n])
  BY DEF IsRaws
<1>2. PICK f \in [0..N -> Reading] :
         /\ f[0] = [ok |-> TRUE, lcn |-> 0, runs |-> <<>>]
         /\ \A k \in 1..N : f[k] = stepOneRun(f[k - 1], raws[k])
         /\ d = IF list.ended /\ f[N].ok THEN [ok |-> TRUE, runs |-> f[N].runs] ELSE Refusal
  BY DecodeRecursion
<1> HIDE DEF raws, N, d
<1>3. f[0].lcn = 0 /\ f[0].runs = <<>>
  BY <1>2
<1>4. \A k \in 1..N : f[k] = stepOneRun(f[k - 1], raws[k]) /\ f[k - 1] \in Reading /\ f[k] \in Reading
  BY <1>1, <1>2
<1>5. SUFFICES ASSUME list.ended, f[N].ok
               PROVE  \E lcn : Placing(raws, lcn) /\ f[N].runs = PlacedAt(raws, lcn)
  <2>1. CASE list.ended /\ f[N].ok
    <3>1. d.ok = TRUE /\ d.runs = f[N].runs
      BY <1>2, <2>1
    <3> QED
      BY <1>5, <2>1, <3>1 DEF d, raws
  <2>2. CASE ~(list.ended /\ f[N].ok)
    <3>1. d.ok = FALSE
      BY <1>2, <2>2 DEF Refusal
    <3> QED
      BY <3>1 DEF d
  <2> QED
    BY <2>1, <2>2
<1> DEFINE back(m) == N - m
           S == {m \in Nat : m <= N => f[back(m)].ok}
<1>6. 0 \in S
  BY <1>1, <1>5
<1>7. ASSUME NEW m \in S PROVE m + 1 \in S
  <2> SUFFICES ASSUME m + 1 <= N PROVE f[N - (m + 1)].ok
    OBVIOUS
  <2>1. N - m \in 1..N /\ (N - m) - 1 = N - (m + 1) /\ f[N - m].ok
    BY <1>1
  <2>2. StepAccepts(f[N - (m + 1)], raws[N - m])
    BY <1>1, <1>4, <2>1, StepIs
  <2> QED
    BY <2>2 DEF StepAccepts
<1>8. S = Nat
  <2>1. S \in SUBSET Nat
    OBVIOUS
  <2> HIDE DEF S
  <2> QED
    BY <1>6, <1>7, <2>1, SetInduction
<1>9. \A k \in 0..N : f[k].ok
  <2> SUFFICES ASSUME NEW k \in 0..N PROVE f[k].ok
    OBVIOUS
  <2>1. N - k \in Nat /\ N - k <= N /\ N - (N - k) = k
    BY <1>1
  <2>2. N - k \in S
    BY <1>8, <2>1
  <2> QED
    BY <2>1, <2>2
<1>10. \A k \in 1..N : StepAccepts(f[k - 1], raws[k])
  <2> SUFFICES ASSUME NEW k \in 1..N PROVE StepAccepts(f[k - 1], raws[k])
    OBVIOUS
  <2> DEFINE v == f[k - 1]
             x == raws[k]
  <2>1. f[k].ok /\ f[k] = stepOneRun(v, x) /\ v \in Reading /\ IsRaw(x)
    BY <1>1, <1>4, <1>9
  <2> HIDE DEF v, x
  <2>2. stepOneRun(v, x).ok
    BY <2>1
  <2>3. StepAccepts(v, x)
    BY <2>1, <2>2, StepIs
  <2> QED
    BY <2>3 DEF v, x
<1> DEFINE lcn == [k \in 0..N |-> f[k].lcn]
<1>11. \A k \in 0..N : f[k].lcn \in Int /\ f[k].runs \in Seq(Placed)
  BY <1>2 DEF Reading
<1>12. \A k \in 1..N : k - 1 \in 0..N /\ k \in 0..N
  BY <1>1
<1>13. \A k \in 1..N : /\ f[k].lcn = lcnAfter(placeRun(raws[k], f[k - 1].lcn), f[k - 1].lcn)
                       /\ f[k].runs = Append(f[k - 1].runs, placeRun(raws[k], f[k - 1].lcn))
                       /\ readRawRun(raws[k]) /\ placeRun(raws[k], f[k - 1].lcn).start # -1
                       /\ placeRun(raws[k], f[k - 1].lcn) \in Placed
  <2> SUFFICES ASSUME NEW k \in 1..N
               PROVE  /\ f[k].lcn = lcnAfter(placeRun(raws[k], f[k - 1].lcn), f[k - 1].lcn)
                      /\ f[k].runs = Append(f[k - 1].runs, placeRun(raws[k], f[k - 1].lcn))
                      /\ readRawRun(raws[k]) /\ placeRun(raws[k], f[k - 1].lcn).start # -1
                      /\ placeRun(raws[k], f[k - 1].lcn) \in Placed
    OBVIOUS
  <2>1. /\ f[k - 1] \in Reading /\ IsRaw(raws[k]) /\ StepAccepts(f[k - 1], raws[k])
        /\ f[k] = stepOneRun(f[k - 1], raws[k]) /\ f[k - 1].lcn \in Int
    BY <1>1, <1>4, <1>10, <1>11, <1>12
  <2> DEFINE v == f[k - 1]
             x == raws[k]
             l == v.lcn
  <2>2. l \in Int /\ l = v.lcn /\ f[k] = stepOneRun(v, x)
    BY <2>1
  <2> HIDE DEF v, x, l
  <2>3. /\ stepOneRun(v, x).lcn = lcnAfter(placeRun(x, v.lcn), v.lcn)
        /\ stepOneRun(v, x).runs = Append(v.runs, placeRun(x, v.lcn))
    BY <2>1, StepIs DEF v, x
  <2>4. readRawRun(x) /\ placeRun(x, l).start # -1
    BY <2>1, <2>2 DEF StepAccepts, v, x
  <2>5. placeRun(x, l) \in Placed
    BY <2>1, <2>2, PlacedIs DEF x
  <2> QED
    BY <2>2, <2>3, <2>4, <2>5 DEF v, x
<1>14. 0 \in 0..N /\ lcn \in [0..N -> Int] /\ lcn[0] = 0
  BY <1>1, <1>3, <1>11
<1>15. \A k \in 1..N : lcn[k] = f[k].lcn /\ lcn[k - 1] = f[k - 1].lcn
  BY <1>12
<1> HIDE DEF lcn
<1>16. Placing(raws, lcn)
  BY <1>13, <1>14, <1>15 DEF Placing, N
<1> DEFINE Good(k) == Len(f[k].runs) = k /\ \A i \in 1..k : f[k].runs[i] = placeRun(raws[i], lcn[i - 1])
           T == {k \in Nat : k <= N => Good(k)}
<1>17. 0 \in T
  BY <1>3
<1>18. ASSUME NEW k \in T PROVE k + 1 \in T
  <2> HIDE DEF Good
  <2> SUFFICES ASSUME k + 1 <= N PROVE Good(k + 1)
    OBVIOUS
  <2>1. k \in Nat /\ k + 1 \in 1..N /\ (k + 1) - 1 = k /\ k \in 0..N
    BY <1>1
  <2>2. Good(k)
    BY <2>1
  <2> DEFINE p == placeRun(raws[k + 1], lcn[k])
             r == f[k].runs
  <2>3. f[k + 1].runs = Append(r, p) /\ r \in Seq(Placed) /\ p \in Placed
    BY <1>11, <1>13, <1>15, <2>1
  <2>4. Len(r) = k /\ \A i \in 1..k : r[i] = placeRun(raws[i], lcn[i - 1])
    BY <2>2 DEF Good
  <2>5. p = placeRun(raws[k + 1], lcn[(k + 1) - 1])
    BY <2>1
  <2> HIDE DEF p, r, Good
  <2>6. Len(Append(r, p)) = k + 1 /\ Append(r, p)[k + 1] = p /\ \A i \in 1..k : Append(r, p)[i] = r[i]
    BY <2>3, <2>4
  <2>7. \A i \in 1..(k + 1) : i \in 1..k \/ i = k + 1
    BY <2>1
  <2> QED
    BY <2>3, <2>4, <2>5, <2>6, <2>7 DEF Good
<1>19. T = Nat
  <2>1. T \in SUBSET Nat
    OBVIOUS
  <2> HIDE DEF T
  <2> QED
    BY <1>17, <1>18, <2>1, SetInduction
<1>20. Good(N) /\ f[N].runs \in Seq(Placed)
  BY <1>1, <1>11, <1>19
<1>21. f[N].runs = PlacedAt(raws, lcn)
  <2> DEFINE r == f[N].runs
  <2>1. r \in [1..N -> Placed]
    BY <1>20
  <2>2. \A i \in 1..N : r[i] = placeRun(raws[i], lcn[i - 1])
    BY <1>20
  <2> HIDE DEF r
  <2>3. r = [i \in 1..N |-> placeRun(raws[i], lcn[i - 1])]
    BY <2>1, <2>2
  <2> QED
    BY <2>3 DEF r, PlacedAt, N
<1> QED
  BY <1>16, <1>21

LEMMA DecodeAccepts ==
  ASSUME NEW list, IsRaws(list.runs), list.ended = TRUE, Len(list.runs) <= kMaxDataRuns,
         NEW lcn, Placing(list.runs, lcn)
  PROVE  decodeRunlist(list).ok
<1> DEFINE raws == list.runs
           N == Len(raws)
           d == decodeRunlist(list)
<1>1. N \in Nat /\ kMaxDataRuns \in Nat /\ N <= kMaxDataRuns /\ \A n \in 1..N : IsRaw(raws[n])
  BY RunlistAssumption DEF IsRaws
<1>2. PICK f \in [0..N -> Reading] :
         /\ f[0] = [ok |-> TRUE, lcn |-> 0, runs |-> <<>>]
         /\ \A k \in 1..N : f[k] = stepOneRun(f[k - 1], raws[k])
         /\ d = IF list.ended /\ f[N].ok THEN [ok |-> TRUE, runs |-> f[N].runs] ELSE Refusal
  BY DecodeRecursion
<1>3. /\ lcn[0] = 0
      /\ \A n \in 1..N : /\ readRawRun(raws[n])
                         /\ placeRun(raws[n], lcn[n - 1]).start # -1
                         /\ lcn[n] = lcnAfter(placeRun(raws[n], lcn[n - 1]), lcn[n - 1])
  BY DEF Placing
<1> HIDE DEF raws, N, d
<1>4. f[0].ok /\ f[0].lcn = 0 /\ f[0].runs = <<>>
  BY <1>2
<1> DEFINE Good(k) == f[k].ok /\ f[k].lcn = lcn[k] /\ Len(f[k].runs) = k
           S == {k \in Nat : k <= N => Good(k)}
<1>5. 0 \in S
  BY <1>3, <1>4
<1>6. ASSUME NEW k \in S PROVE k + 1 \in S
  <2> HIDE DEF Good
  <2> SUFFICES ASSUME k + 1 <= N PROVE Good(k + 1)
    OBVIOUS
  <2> DEFINE v == f[k]
             x == raws[k + 1]
  <2>1. k \in Nat /\ k + 1 \in 1..N /\ (k + 1) - 1 = k /\ k \in 0..N
    BY <1>1
  <2>2. v.ok /\ v.lcn = lcn[k] /\ Len(v.runs) = k
    BY <2>1 DEF Good
  <2>3. v \in Reading /\ IsRaw(x) /\ f[k + 1] = stepOneRun(v, x)
    BY <1>1, <1>2, <2>1
  <2>4. /\ readRawRun(x) /\ placeRun(x, lcn[k]).start # -1
        /\ lcn[k + 1] = lcnAfter(placeRun(x, lcn[k]), lcn[k])
    BY <1>3, <2>1
  <2> HIDE DEF v, x
  <2>5. StepAccepts(v, x)
    BY <1>1, <2>1, <2>2, <2>4 DEF StepAccepts
  <2>6. /\ stepOneRun(v, x).ok /\ stepOneRun(v, x).lcn = lcnAfter(placeRun(x, v.lcn), v.lcn)
        /\ stepOneRun(v, x).runs = Append(v.runs, placeRun(x, v.lcn))
    BY <2>3, <2>5, StepIs
  <2>7. Len(Append(v.runs, placeRun(x, v.lcn))) = k + 1
    <3>1. v.runs \in Seq(Placed) /\ v.lcn \in Int
      BY <2>3 DEF Reading
    <3>2. placeRun(x, v.lcn) \in Placed
      BY <2>3, <3>1, PlacedIs
    <3> QED
      BY <2>2, <3>1, <3>2
  <2> QED
    BY <2>2, <2>3, <2>4, <2>6, <2>7 DEF Good
<1>7. S = Nat
  <2>1. S \in SUBSET Nat
    OBVIOUS
  <2> HIDE DEF S
  <2> QED
    BY <1>5, <1>6, <2>1, SetInduction
<1>8. f[N].ok
  BY <1>1, <1>7
<1>9. d = [ok |-> TRUE, runs |-> f[N].runs]
  BY <1>2, <1>8
<1> QED
  BY <1>9 DEF d

LEMMA PlacingUnique ==
  ASSUME NEW raws, Len(raws) \in Nat, NEW l, NEW m, Placing(raws, l), Placing(raws, m)
  PROVE  l = m
<1> DEFINE N == Len(raws)
           S == {k \in Nat : k <= N => l[k] = m[k]}
<1>1. /\ l \in [0..N -> Int] /\ m \in [0..N -> Int] /\ l[0] = 0 /\ m[0] = 0
      /\ \A n \in 1..N : l[n] = lcnAfter(placeRun(raws[n], l[n - 1]), l[n - 1])
      /\ \A n \in 1..N : m[n] = lcnAfter(placeRun(raws[n], m[n - 1]), m[n - 1])
  BY DEF Placing
<1> HIDE DEF N
<1>2. 0 \in S
  BY <1>1
<1>3. ASSUME NEW k \in S PROVE k + 1 \in S
  <2> SUFFICES ASSUME k + 1 <= N PROVE l[k + 1] = m[k + 1]
    OBVIOUS
  <2>1. k + 1 \in 1..N /\ (k + 1) - 1 = k /\ l[k] = m[k]
    BY DEF N
  <2> QED
    BY <1>1, <2>1
<1>4. S = Nat
  <2>1. S \in SUBSET Nat
    OBVIOUS
  <2> HIDE DEF S
  <2> QED
    BY <1>2, <1>3, <2>1, SetInduction
<1>5. \A k \in 0..N : l[k] = m[k]
  BY <1>4 DEF N
<1>6. l \in [0..N -> Int] /\ m \in [0..N -> Int]
  BY <1>1
<1>7. l = [k \in 0..N |-> l[k]] /\ m = [k \in 0..N |-> m[k]]
  BY <1>6
<1>8. [k \in 0..N |-> l[k]] = [k \in 0..N |-> m[k]]
  BY <1>5
<1> QED
  BY <1>7, <1>8

-----------------------------------------------------------------------------
(***************************************************************************)
(* Reading what the host wrote.                                            *)
(***************************************************************************)

VolumeCluster == 0..(VolumeClusters - 1)

(* A number the volume needs has a width, and the width holds it. *)
LEMMA WidthHolds ==
  ASSUME NEW value \in Int, value <= VolumeClusters, -VolumeClusters <= value
  PROVE  LET w == SignedWidth(value) IN
         /\ w \in 1..kMaxFieldWidth /\ Digit^w \in Nat
         /\ value < (Digit^w) \div 2 /\ value >= -((Digit^w) \div 2)
         /\ \E h \in Nat : Digit^w = 2 * h /\ (Digit^w) \div 2 = h
<1> DEFINE P(w) == Digit^w
           Holds(w) == value < P(w) \div 2 /\ value >= -(P(w) \div 2)
           S == {w \in 1..8 : Holds(w)}
<1>0. \A w \in 1..8 : P(w) \in Nat /\ P(w) % 2 = 0
  BY WidthAssumption DEF kMaxFieldWidth
<1>1. VolumeClusters <= P(8) \div 2 - 1 /\ P(8) \in Nat /\ VolumeClusters \in Nat
  BY <1>0, WidthAssumption, RunlistAssumption DEF MaxLcn, kMaxFieldWidth
<1> HIDE DEF P
<1>2. 8 \in S
  <2>1. P(8) \div 2 \in Nat
    BY <1>1
  <2> QED
    BY <1>1, <2>1
<1>3. PICK w \in S : \A v \in S : w <= v
  <2>1. S \in SUBSET Nat
    OBVIOUS
  <2> HIDE DEF S
  <2> QED
    BY <1>2, <2>1, LeastMember
<1>4. \A v \in 1..(w - 1) : value >= P(v) \div 2 \/ value < -(P(v) \div 2)
  <2> SUFFICES ASSUME NEW v \in 1..(w - 1), value < P(v) \div 2, value >= -(P(v) \div 2) PROVE FALSE
    <3>1. \A v \in 1..(w - 1) : P(v) \div 2 \in Int
      BY <1>0
    <3> QED
      BY <3>1
  <2>1. v \in 1..8 /\ ~(w <= v)
    OBVIOUS
  <2> QED
    BY <1>3, <2>1
<1> DEFINE Is(x) == /\ value < P(x) \div 2 /\ value >= -(P(x) \div 2)
                    /\ \A v \in 1..(x - 1) : value >= P(v) \div 2 \/ value < -(P(v) \div 2)
<1>5. w \in 1..kMaxFieldWidth /\ Is(w)
  BY <1>3, <1>4 DEF kMaxFieldWidth
<1>6. SignedWidth(value) = CHOOSE x \in 1..kMaxFieldWidth : Is(x)
  BY DEF SignedWidth, P
<1> DEFINE x == SignedWidth(value)
<1>7. x \in 1..kMaxFieldWidth /\ Is(x)
  <2> HIDE DEF Is
  <2> QED
    BY <1>5, <1>6
<1> HIDE DEF x
<1>8. P(x) \in Nat /\ P(x) % 2 = 0
  BY <1>0, <1>7 DEF kMaxFieldWidth
<1>9. P(x) \div 2 \in Nat /\ P(x) = 2 * (P(x) \div 2)
  BY <1>8
<1> QED
  BY <1>7, <1>8, <1>9 DEF x, P

(* The offset as it is written gives back the difference it was written for. *)
LEMMA DeltaIsRead ==
  ASSUME NEW delta \in Int, delta <= VolumeClusters, -VolumeClusters <= delta,
         NEW raw, raw.offsetWidth = SignedWidth(delta),
         raw.offset = delta % (Digit^SignedWidth(delta))
  PROVE  signedDelta(raw) = delta /\ raw.offset \in Int /\ raw.offsetWidth \in 1..kMaxFieldWidth
<1> DEFINE w == SignedWidth(delta)
           p == Digit^w
<1>1. w \in 1..kMaxFieldWidth /\ p \in Nat /\ delta < p \div 2 /\ delta >= -(p \div 2)
  BY WidthHolds
<1>2. PICK h \in Nat : p = 2 * h /\ p \div 2 = h
  BY WidthHolds
<1>3. raw.offset = delta % p /\ signedDelta(raw) = IF raw.offset >= h THEN raw.offset - p ELSE raw.offset
  BY <1>2 DEF signedDelta
<1> HIDE DEF p
<1>4. CASE delta >= 0
  <2>1. delta % p = delta
    BY <1>1, <1>2, <1>4
  <2> QED
    BY <1>1, <1>2, <1>3, <1>4, <2>1
<1>5. CASE delta < 0
  <2>1. delta % p = delta + p
    BY <1>1, <1>2, <1>5
  <2> QED
    BY <1>1, <1>2, <1>3, <1>5, <2>1
<1> QED
  BY <1>4, <1>5

LEMMA AllocatedBounds ==
  ASSUME NEW clusters \in Seq(VolumeCluster \cup {Hole})
  PROVE  LET R == AllocatedRuns(clusters) IN
         /\ RunsOf(R, clusters, Len(clusters)) /\ R \in Runs /\ Len(R) \in Nat
         /\ \A i \in 1..Len(R) : R[i].start # Hole =>
              /\ R[i].start \in Nat /\ R[i].len \in Nat \ {0}
              /\ R[i].start + R[i].len <= VolumeClusters
         /\ \A i \in 1..Len(R) : R[i].start = Hole => Hole \in Range(clusters)
         /\ Hole \in Range(clusters) => \E i \in 1..Len(R) : R[i].start = Hole
<1> DEFINE R == AllocatedRuns(clusters)
           b == Before(R)
           N == Len(clusters)
<1>1. VolumeClusters \in Nat /\ N \in Nat /\ DOMAIN clusters = 1..N
      /\ \A k \in 1..N : clusters[k] \in VolumeCluster \cup {Hole}
  BY RunlistAssumption
<1>2. clusters \in Seq(Cluster)
  <2>1. VolumeCluster \cup {Hole} \subseteq Cluster
    BY DEF VolumeCluster, Cluster
  <2> QED
    BY <2>1
<1>3. RunsOf(R, clusters, N)
  BY <1>2, AllocatedIs
<1> HIDE DEF R
<1>4. /\ R \in Runs /\ IsList(R) /\ Len(R) \in Nat
      /\ \A i \in 1..Len(R) : R[i].start \in Cluster /\ R[i].len \in Nat /\ R[i].len > 0
  BY <1>3, RunsAreLists DEF RunsOf
<1>5. b \in [0..Len(R) -> Nat] /\ b[0] = 0 /\ \A i \in 1..Len(R) : b[i] = b[i - 1] + R[i].len
  BY <1>4, BeforeIs
<1>6. \A i \in 1..Len(R) : \A t \in 0..(R[i].len - 1) : clusters[b[i - 1] + t + 1] = InRun(R[i], t)
  BY <1>3 DEF RunsOf
<1>7. \A i, j \in 0..Len(R) : i <= j => b[i] <= b[j]
  BY <1>4, BeforeGrows
<1>8. b[Len(R)] = N
  BY <1>3 DEF RunsOf
<1> HIDE DEF b, N
<1>9. ASSUME NEW i \in 1..Len(R), NEW t \in 0..(R[i].len - 1)
      PROVE  InRun(R[i], t) \in VolumeCluster \cup {Hole} /\ InRun(R[i], t) \in Range(clusters)
  <2> DEFINE k == b[i - 1] + t + 1
  <2>1. i - 1 \in 0..Len(R) /\ i \in 0..Len(R) /\ Len(R) \in 0..Len(R) /\ i <= Len(R)
    BY <1>4
  <2>2. b[i - 1] \in Nat /\ R[i].len \in Nat /\ b[i] = b[i - 1] + R[i].len /\ b[i] <= N
    BY <1>4, <1>5, <1>7, <1>8, <2>1
  <2>3. k \in 1..N
    BY SMTT(60), <1>1, <2>2
  <2>4. clusters[k] = InRun(R[i], t)
    BY <1>6
  <2>5. clusters[k] \in Range(clusters)
    BY <1>1, <2>3 DEF Range
  <2> QED
    BY <1>1, <2>3, <2>4, <2>5
<1>10. ASSUME NEW i \in 1..Len(R), R[i].start # Hole
       PROVE  /\ R[i].start \in Nat /\ R[i].len \in Nat \ {0}
              /\ R[i].start + R[i].len <= VolumeClusters
  <2> DEFINE s == R[i].start
             l == R[i].len
  <2>1. s \in Nat /\ l \in Nat /\ l > 0 /\ l - 1 \in 0..(l - 1)
    BY <1>4, <1>10 DEF Cluster
  <2>2. InRun(R[i], l - 1) = s + (l - 1)
    BY <1>10 DEF InRun
  <2>3. s + (l - 1) \in VolumeCluster \cup {Hole}
    BY <1>9, <2>1, <2>2
  <2> HIDE DEF s, l
  <2>4. s + (l - 1) \in VolumeCluster
    BY <2>1, <2>3 DEF Hole
  <2>5. s + l <= VolumeClusters
    BY <1>1, <2>1, <2>4 DEF VolumeCluster
  <2> QED
    BY <2>1, <2>5 DEF s, l
<1>11. ASSUME NEW i \in 1..Len(R), R[i].start = Hole PROVE Hole \in Range(clusters)
  <2>1. 0 \in 0..(R[i].len - 1)
    BY <1>4
  <2>2. InRun(R[i], 0) = Hole
    BY <1>11 DEF InRun
  <2> QED
    BY <1>9, <2>1, <2>2
<1>12. ASSUME Hole \in Range(clusters), \A i \in 1..Len(R) : R[i].start # Hole PROVE FALSE
  <2>1. PICK k \in 1..N : clusters[k] = Hole
    BY <1>1, <1>12 DEF Range
  <2> DEFINE S == {i \in 0..Len(R) : k <= b[i]}
  <2>2. Len(R) \in S /\ S \in SUBSET Nat
    BY <1>1, <1>4, <1>8
  <2>3. PICK i \in S : \A j \in S : i <= j
    <3> HIDE DEF S
    <3> QED
      BY <2>2, LeastMember
  <2>4. i \in 0..Len(R) /\ k <= b[i] /\ k \in Nat /\ k > 0
    BY <1>1, <2>3
  <2>5. i # 0
    BY <1>5, <2>4
  <2>6. i \in 1..Len(R) /\ i - 1 \in 0..Len(R)
    BY <1>4, <2>4, <2>5
  <2>7. ~(k <= b[i - 1])
    <3> SUFFICES ASSUME k <= b[i - 1] PROVE FALSE
      OBVIOUS
    <3>1. i - 1 \in S
      BY <2>6
    <3> HIDE DEF S
    <3> QED
      BY <2>3, <2>6, <3>1
  <2> DEFINE t == k - b[i - 1] - 1
  <2>8. b[i - 1] \in Nat /\ R[i].len \in Nat /\ b[i] = b[i - 1] + R[i].len
    BY <1>4, <1>5, <2>6
  <2>9. t \in 0..(R[i].len - 1) /\ b[i - 1] + t + 1 = k
    BY SMTT(60), <2>4, <2>7, <2>8
  <2>10. InRun(R[i], t) = Hole
    BY <1>6, <2>1, <2>6, <2>9
  <2>11. R[i].start \in Nat /\ R[i].start # Hole
    BY <1>10, <1>12, <2>6
  <2> HIDE DEF t
  <2>12. InRun(R[i], t) = R[i].start + t /\ t \in Nat
    BY <2>8, <2>9, <2>11 DEF InRun
  <2> QED
    BY <2>10, <2>11, <2>12 DEF Hole
<1> QED
  BY <1>3, <1>4, <1>10, <1>11, <1>12 DEF R, N

(* The list the host writes: of each run, its length, and whether it is a hole. *)
LEMMA EncodedIs ==
  ASSUME NEW clusters \in Seq(VolumeCluster \cup {Hole})
  PROVE  LET R == AllocatedRuns(clusters)
             list == encodeRunlist(clusters) IN
         /\ IsRaws(list.runs) /\ Len(list.runs) = Len(R) /\ list.ended = TRUE
         /\ \A i \in 1..Len(R) : /\ list.runs[i].length = R[i].len
                                 /\ list.runs[i].offsetWidth = 0 <=> R[i].start = Hole
         /\ Hole \notin Range(clusters) =>
              \E lcn : /\ Placing(list.runs, lcn)
                       /\ \A i \in 1..Len(R) : placeRun(list.runs[i], lcn[i - 1]) =
                            [start |-> R[i].start, len |-> R[i].len, sparse |-> FALSE]
<1> DEFINE R == AllocatedRuns(clusters)
           list == encodeRunlist(clusters)
           N == Len(R)
           Earlier(i) == {j \in 1..(i - 1) : R[j].start # Hole}
           previous(i) == IF Earlier(i) = {} THEN 0 ELSE R[Max(Earlier(i))].start
           delta(i) == R[i].start - previous(i)
           w(i) == IF R[i].start = Hole THEN 0 ELSE SignedWidth(delta(i))
           raw(i) == [lengthWidth |-> SignedWidth(R[i].len), length |-> R[i].len, offsetWidth |-> w(i),
                      offset |-> IF w(i) = 0 THEN 0 ELSE delta(i) % (Digit^w(i))]
<1>1. /\ R \in Runs /\ N \in Nat
      /\ \A i \in 1..N : R[i].start # Hole =>
              /\ R[i].start \in Nat /\ R[i].len \in Nat \ {0}
              /\ R[i].start + R[i].len <= VolumeClusters
      /\ \A i \in 1..N : R[i].start = Hole => Hole \in Range(clusters)
  BY AllocatedBounds
<1>2. DOMAIN R = 1..N /\ \A i \in 1..N : R[i].len \in Nat /\ R[i].len > 0
  BY <1>1, RunsAreLists
<1>3. list = [runs |-> [i \in DOMAIN R |-> raw(i)], ended |-> TRUE]
  BY DEF encodeRunlist
<1> HIDE DEF R, list, N
<1>4. list.runs = [i \in 1..N |-> raw(i)] /\ list.ended = TRUE
  BY <1>2, <1>3
<1> HIDE DEF raw
<1>5. Len(list.runs) = N /\ DOMAIN list.runs = 1..N /\ \A i \in 1..N : list.runs[i] = raw(i)
  BY <1>1, <1>4
<1>6. ASSUME NEW i \in 1..N
      PROVE  /\ raw(i).length = R[i].len /\ raw(i).lengthWidth = SignedWidth(R[i].len)
             /\ raw(i).offsetWidth = w(i)
             /\ raw(i).offset = IF w(i) = 0 THEN 0 ELSE delta(i) % (Digit^w(i))
  BY DEF raw
<1>7. VolumeClusters \in Nat
  BY RunlistAssumption
<1>8. ASSUME NEW i \in 1..N PROVE previous(i) \in Nat /\ previous(i) <= VolumeClusters
  <2>1. CASE Earlier(i) = {}
    BY <1>7, <2>1
  <2>2. CASE Earlier(i) # {}
    <3>1. Earlier(i) \in SUBSET (0..N)
      BY <1>1
    <3>2. Max(Earlier(i)) \in Earlier(i)
      <4> HIDE DEF Earlier
      <4> QED
        BY <1>1, <2>2, <3>1, MaxIs
    <3> DEFINE m == Max(Earlier(i))
    <3>3. m \in 1..N /\ R[m].start # Hole
      BY <1>1, <3>2
    <3>4. previous(i) = R[m].start
      BY <2>2
    <3> HIDE DEF m, previous
    <3>5. R[m].start \in Nat /\ R[m].len \in Nat /\ R[m].start + R[m].len <= VolumeClusters
      BY <1>1, <3>3
    <3> QED
      BY <1>7, <3>4, <3>5
  <2> QED
    BY <2>1, <2>2
<1>9. ASSUME NEW i \in 1..N, R[i].start # Hole
      PROVE  delta(i) \in Int /\ delta(i) <= VolumeClusters /\ -VolumeClusters <= delta(i)
  <2> HIDE DEF previous
  <2>1. R[i].start \in Nat /\ R[i].len \in Nat /\ R[i].start + R[i].len <= VolumeClusters
    BY <1>1, <1>9
  <2> QED
    BY <1>7, <1>8, <2>1
<1> HIDE DEF delta
<1>10. ASSUME NEW i \in 1..N, R[i].start # Hole
       PROVE  /\ signedDelta(raw(i)) = delta(i) /\ raw(i).offset \in Int
              /\ raw(i).offsetWidth \in 1..kMaxFieldWidth
  <2>1. w(i) = SignedWidth(delta(i))
    BY <1>10
  <2>2. SignedWidth(delta(i)) \in 1..kMaxFieldWidth
    BY <1>9, <1>10, WidthHolds
  <2>3. w(i) # 0
    BY <2>1, <2>2
  <2>4. raw(i).offsetWidth = SignedWidth(delta(i))
    BY <1>6, <2>1
  <2>5. raw(i).offset = delta(i) % (Digit^SignedWidth(delta(i)))
    BY <1>6, <2>1, <2>3
  <2> HIDE DEF w
  <2> QED
    BY <1>9, <1>10, <2>4, <2>5, DeltaIsRead
<1>11. ASSUME NEW i \in 1..N
       PROVE  /\ raw(i).length = R[i].len /\ IsRaw(raw(i))
              /\ raw(i).offsetWidth = 0 <=> R[i].start = Hole
  <2>1. raw(i).length = R[i].len /\ R[i].len \in Nat
    BY <1>2, <1>6
  <2>2. CASE R[i].start = Hole
    <3>1. raw(i).offsetWidth = 0
      BY <1>6, <2>2
    <3> QED
      BY <2>1, <2>2, <3>1 DEF IsRaw, kMaxFieldWidth
  <2>3. CASE R[i].start # Hole
    BY <1>10, <2>1, <2>3 DEF IsRaw, kMaxFieldWidth
  <2> QED
    BY <2>2, <2>3
<1> HIDE DEF w
<1>12. IsRaws(list.runs)
  BY <1>1, <1>5, <1>11 DEF IsRaws
<1>13. ASSUME Hole \notin Range(clusters)
       PROVE  \E lcn : /\ Placing(list.runs, lcn)
                       /\ \A i \in 1..N : placeRun(list.runs[i], lcn[i - 1]) =
                            [start |-> R[i].start, len |-> R[i].len, sparse |-> FALSE]
  <2> DEFINE lcn == [i \in 0..N |-> IF i = 0 THEN 0 ELSE R[i].start]
             placed(i) == [start |-> R[i].start, len |-> R[i].len, sparse |-> FALSE]
  <2>1. \A i \in 1..N : R[i].start # Hole
    BY <1>1, <1>13
  <2>2. \A i \in 1..N : /\ R[i].start \in Nat /\ R[i].len \in Nat \ {0}
                        /\ R[i].start + R[i].len <= VolumeClusters
    BY <1>1, <2>1
  <2>3. lcn \in [0..N -> Int] /\ lcn[0] = 0
    BY <1>1, <2>2
  <2>4. ASSUME NEW i \in 1..N PROVE previous(i) = lcn[i - 1]
    <3>1. CASE i = 1
      <4>1. Earlier(i) = {}
        BY <3>1
      <4> QED
        BY <1>1, <3>1, <4>1
    <3>2. CASE i # 1
      <4>1. i - 1 \in Earlier(i) /\ i - 1 \in 1..N /\ Earlier(i) \in SUBSET (0..N)
        BY <1>1, <2>1, <3>2
      <4>2. \A j \in Earlier(i) : j \in Nat /\ j <= i - 1
        BY <1>1
      <4> DEFINE m == Max(Earlier(i))
      <4>3. m \in Earlier(i) /\ i - 1 <= m
        <5> HIDE DEF Earlier
        <5> QED
          BY <1>1, <4>1, MaxIs
      <4>4. Earlier(i) # {}
        BY <4>1
      <4>5. m = i - 1
        <5> HIDE DEF Earlier, m
        <5> QED
          BY <4>1, <4>2, <4>3
      <4>6. previous(i) = R[m].start
        BY <4>4
      <4>7. lcn[i - 1] = R[i - 1].start
        BY <4>1
      <4> QED
        BY <4>5, <4>6, <4>7
    <3> QED
      BY <3>1, <3>2
  <2>5. \A i \in 1..N : lcn[i] = R[i].start
    BY <1>1
  <2> HIDE DEF lcn, previous
  <2>6. ASSUME NEW i \in 1..N PROVE placeRun(raw(i), lcn[i - 1]) = placed(i)
    <3>1. previous(i) = lcn[i - 1] /\ previous(i) \in Nat
      BY <1>8, <2>4
    <3>2. signedDelta(raw(i)) = R[i].start - previous(i) /\ raw(i).offsetWidth # 0
      BY <1>10, <2>1, <2>2 DEF delta
    <3>3. R[i].start \in 0..MaxLcn
      <4>1. R[i].start \in Nat /\ R[i].start <= VolumeClusters /\ VolumeClusters <= MaxLcn /\ MaxLcn \in Int
        <5>1. Digit^8 \in Nat
          BY WidthAssumption DEF kMaxFieldWidth
        <5>2. MaxLcn \in Int
          BY <5>1 DEF MaxLcn, kMaxFieldWidth
        <5>3. R[i].start <= VolumeClusters
          BY <1>7, <2>2
        <5> QED
          BY <2>2, <5>2, <5>3, WidthAssumption
      <4> HIDE DEF MaxLcn
      <4> QED
        BY <1>7, <4>1
    <3>4. lcn[i - 1] + signedDelta(raw(i)) = R[i].start
      BY <2>2, <3>1, <3>2
    <3>5. nextLcn(lcn[i - 1], raw(i)) = R[i].start
      BY <3>3, <3>4 DEF nextLcn
    <3>6. raw(i).length = R[i].len
      BY <1>6
    <3> QED
      BY <3>2, <3>5, <3>6 DEF placeRun
  <2>7. ASSUME NEW i \in 1..N
        PROVE  /\ readRawRun(raw(i)) /\ placeRun(raw(i), lcn[i - 1]).start # -1
               /\ lcn[i] = lcnAfter(placeRun(raw(i), lcn[i - 1]), lcn[i - 1])
    <3>1. placed(i).start = R[i].start /\ placed(i).sparse = FALSE /\ R[i].start # -1
      BY <2>1 DEF Hole
    <3>2. lcnAfter(placed(i), lcn[i - 1]) = R[i].start
      BY <3>1 DEF lcnAfter
    <3>3. SignedWidth(R[i].len) \in 1..kMaxFieldWidth
      <4>1. R[i].len \in Int /\ R[i].len <= VolumeClusters /\ -VolumeClusters <= R[i].len
        BY <1>7, <2>2
      <4> QED
        BY <4>1, WidthHolds
    <3>4. raw(i).offsetWidth \in 0..kMaxFieldWidth
      BY <1>10, <2>1 DEF kMaxFieldWidth
    <3>5. readRawRun(raw(i))
      BY <1>6, <2>2, <3>3, <3>4 DEF readRawRun, readRunHeader, makeRawRun
    <3> QED
      BY <2>5, <2>6, <3>1, <3>2, <3>5
  <2>8. Placing(list.runs, lcn)
    BY <1>5, <2>3, <2>7 DEF Placing
  <2> QED
    BY <1>5, <2>6, <2>8
<1> QED
  BY <1>4, <1>5, <1>11, <1>12, <1>13 DEF R, list, N

PlacedRun(run) == [start |-> run.start, len |-> run.len, sparse |-> FALSE]

(* Runs placed where the host had them map to extents that tile its clusters. *)
LEMMA MappedTiles ==
  ASSUME NEW clusters \in Seq(VolumeCluster), NEW R, RunsOf(R, clusters, Len(clusters)),
         \A i \in 1..Len(R) : R[i].start \in Nat,
         NEW p, DOMAIN p = 1..Len(R), \A i \in 1..Len(R) : p[i] = PlacedRun(R[i])
  PROVE  /\ Tiles(mapRuns(p), clusters, Len(clusters) * ClusterBytes)
         /\ Len(mapRuns(p)) = Len(R)
         /\ \A i \in 0..Len(R) : Before(mapRuns(p))[i] = Before(R)[i] * ClusterBytes
<1> DEFINE C == ClusterBytes
           N == Len(R)
           e == mapRuns(p)
           b == Before(R)
           a == Before(e)
<1>1. C \in Nat \ {0}
  BY RunlistAssumption
<1>2. /\ R \in Runs /\ IsList(R) /\ N \in Nat
      /\ \A i \in 1..N : R[i].len \in Nat /\ R[i].len > 0
  BY RunsAreLists DEF RunsOf
<1>3. b \in [0..N -> Nat] /\ b[0] = 0 /\ \A i \in 1..N : b[i] = b[i - 1] + R[i].len
  BY <1>2, BeforeIs
<1>4. \A i \in 1..N : \A t \in 0..(R[i].len - 1) : clusters[b[i - 1] + t + 1] = R[i].start + t
  BY DEF RunsOf, InRun, Hole
<1>5. b[N] = Len(clusters) /\ Len(clusters) \in Nat
  BY DEF RunsOf
<1>6. e = [i \in 1..N |-> [at |-> R[i].start * C, len |-> R[i].len * C]]
  BY DEF mapRuns, runExtent, PlacedRun
<1> HIDE DEF C, N, e, b
<1>7. \A i \in 1..N : R[i].start * C \in Nat /\ R[i].len * C \in Nat /\ R[i].len * C > 0
  <2>1. \A i \in 1..N : R[i].start \in Nat
    BY DEF N
  <2>2. \A x, y \in Nat : x * y \in Nat
    OBVIOUS
  <2>3. \A x, y \in Nat \ {0} : x * y > 0
    OBVIOUS
  <2> QED
    BY SMTT(60), <1>1, <1>2, <2>1, <2>2, <2>3
<1>8. /\ e \in Extents /\ Len(e) = N
      /\ \A i \in 1..N : e[i].at = R[i].start * C /\ e[i].len = R[i].len * C /\ e[i].len > 0
  <2>1. \A i \in 1..N : [at |-> R[i].start * C, len |-> R[i].len * C] \in Extent
    BY <1>7 DEF Extent
  <2>2. e \in [1..N -> Extent]
    BY <1>6, <2>1
  <2>3. e \in Extents /\ Len(e) = N
    BY <1>2, <2>2 DEF Extents
  <2>4. \A i \in 1..N : e[i] = [at |-> R[i].start * C, len |-> R[i].len * C]
    BY <1>6
  <2>5. \A i \in 1..N : e[i].at = R[i].start * C /\ e[i].len = R[i].len * C
    <3> TAKE i \in 1..N
    <3> DEFINE u == R[i].start * C
               v == R[i].len * C
    <3>1. e[i] = [at |-> u, len |-> v]
      BY <2>4
    <3> HIDE DEF u, v
    <3>2. e[i].at = u /\ e[i].len = v
      BY <3>1
    <3> QED
      BY <3>2 DEF u, v
  <2> QED
    BY <1>7, <2>3, <2>5
<1>9. IsList(e) /\ a \in [0..N -> Nat] /\ a[0] = 0 /\ \A i \in 1..N : a[i] = a[i - 1] + e[i].len
  <2>1. IsList(e)
    BY <1>8, ExtentsAreLists
  <2> QED
    BY <1>8, <2>1, BeforeIs
<1> HIDE DEF a
<1>10. \A i \in 0..N : a[i] = b[i] * C
  <2> DEFINE S == {k \in Nat : k <= N => a[k] = b[k] * C}
  <2>1. 0 \in S
    BY <1>1, <1>3, <1>9
  <2>2. ASSUME NEW k \in S PROVE k + 1 \in S
    <3> SUFFICES ASSUME k + 1 <= N PROVE a[k + 1] = b[k + 1] * C
      OBVIOUS
    <3> DEFINE x == b[k]
               l == R[k + 1].len
    <3>a. k \in Nat /\ (k <= N => a[k] = x * C)
      OBVIOUS
    <3>b. k + 1 \in 1..N /\ (k + 1) - 1 = k /\ k \in 0..N /\ k <= N
      BY <1>2, <3>a
    <3>1. k + 1 \in 1..N /\ (k + 1) - 1 = k /\ k \in 0..N /\ a[k] = x * C
      BY <3>a, <3>b
    <3>2. x \in Nat /\ l \in Nat /\ b[k + 1] = x + l /\ a[k + 1] = a[k] + l * C
      BY <1>2, <1>3, <1>8, <1>9, <3>1
    <3> HIDE DEF x, l
    <3>3. (x + l) * C = x * C + l * C
      BY <1>1, <3>2
    <3> QED
      BY <3>1, <3>2, <3>3
  <2>3. S = Nat
    <3>1. S \in SUBSET Nat
      OBVIOUS
    <3> HIDE DEF S
    <3> QED
      BY <2>1, <2>2, <3>1, SetInduction
  <2> QED
    BY <1>2, <2>3
<1>11. a[N] = Len(clusters) * C
  BY <1>2, <1>5, <1>10
<1>12. Tiled(e, clusters)
  <2> SUFFICES ASSUME NEW i \in 1..N, NEW j \in 0..(e[i].len - 1)
               PROVE  e[i].at + j = ByteAt(clusters, a[i - 1] + j)
    BY <1>8 DEF Tiled, a
  <2> DEFINE x == b[i - 1]
             l == R[i].len
             s == R[i].start
             t == j \div C
             r == j % C
  <2>1. i - 1 \in 0..N
    BY <1>2
  <2>2. x \in Nat /\ l \in Nat /\ s \in Nat /\ a[i - 1] = x * C /\ e[i].at = s * C /\ e[i].len = l * C
    BY <1>2, <1>3, <1>8, <1>10, <2>1 DEF N
  <2>3. j \in Nat /\ j < l * C
    BY <1>1, <2>2
  <2>4. t \in Nat /\ r \in Nat /\ j = C * t + r
    <3>1. j \in Nat
      BY <2>3
    <3>2. j \div C \in Nat /\ j % C \in 0..(C - 1) /\ j = C * (j \div C) + (j % C)
      BY ONLY <1>1, <3>1, Divided
    <3> QED
      BY <1>1, <3>2
  <2>5. t < l
    BY <1>1, <2>2, <2>3, DividedBelow
  <2>6. (x * C + j) \div C = x + t /\ (x * C + j) % C = r
    BY <1>1, <2>2, <2>3, DividedSum
  <2>7. clusters[x + t + 1] = s + t
    <3>1. t \in 0..(l - 1)
      BY <2>2, <2>4, <2>5
    <3> QED
      BY <1>4, <3>1
  <2>8. ByteAt(clusters, x * C + j) = (s + t) * C + r
    BY <2>6, <2>7 DEF ByteAt, C
  <2> HIDE DEF x, l, s, t, r
  <2>9. (s + t) * C + r = s * C + j
    BY SMTT(60), <1>1, <2>2, <2>4
  <2> QED
    BY <2>2, <2>8, <2>9
<1>13. Tiles(e, clusters, Len(clusters) * C)
  BY <1>8, <1>11, <1>12 DEF Tiles, a
<1> QED
  BY <1>8, <1>10, <1>13 DEF C, N, e, b, a

(* A list without a hole that decodes gives the runs the host had. *)
LEMMA DecodedIs ==
  ASSUME NEW clusters \in Seq(VolumeCluster \cup {Hole}), Hole \notin Range(clusters),
         NEW list, list = encodeRunlist(clusters), NEW d, d = decodeRunlist(list), d.ok,
         NEW R, R = AllocatedRuns(clusters)
  PROVE  /\ clusters \in Seq(VolumeCluster) /\ RunsOf(R, clusters, Len(clusters))
         /\ \A i \in 1..Len(R) : R[i].start \in Nat
         /\ DOMAIN d.runs = 1..Len(R) /\ \A i \in 1..Len(R) : d.runs[i] = PlacedRun(R[i])
<1> DEFINE N == Len(R)
<1>1. /\ RunsOf(R, clusters, Len(clusters)) /\ R \in Runs /\ N \in Nat
      /\ \A i \in 1..N : R[i].start # Hole => R[i].start \in Nat
      /\ \A i \in 1..N : R[i].start = Hole => Hole \in Range(clusters)
  BY AllocatedBounds
<1>2. /\ IsRaws(list.runs) /\ Len(list.runs) = N /\ list.ended = TRUE
      /\ \E lcn : /\ Placing(list.runs, lcn)
                  /\ \A i \in 1..N : placeRun(list.runs[i], lcn[i - 1]) = PlacedRun(R[i])
  BY ZenonT(90), EncodedIs DEF PlacedRun
<1>3. PICK lcn : /\ Placing(list.runs, lcn)
                 /\ \A i \in 1..N : placeRun(list.runs[i], lcn[i - 1]) = PlacedRun(R[i])
  BY <1>2
<1>4. PICK l : Placing(list.runs, l) /\ d.runs = PlacedAt(list.runs, l)
  BY <1>2, DecodeOk
<1>5. l = lcn
  BY <1>1, <1>2, <1>3, <1>4, PlacingUnique
<1>6. DOMAIN d.runs = 1..N /\ \A i \in 1..N : d.runs[i] = PlacedRun(R[i])
  BY <1>2, <1>3, <1>4, <1>5 DEF PlacedAt
<1>7. clusters \in Seq(VolumeCluster)
  <2>1. \A k \in 1..Len(clusters) : clusters[k] \in VolumeCluster
    BY DEF Range
  <2> QED
    BY <2>1
<1> QED
  BY <1>1, <1>6, <1>7

(* Runlist.cpp and RunlistExtents.cpp find exactly the clusters a host encoded, wherever
   they lie: a list that is located has no hole, reaches the declared size, and its
   extents are the clusters' bytes in order up to that size; and a list without a hole
   that reaches the size, of no more runs than kMaxDataRuns, is located. *)
THEOREM RunlistIsExact ==
  ASSUME NEW clusters \in Seq(VolumeCluster \cup {Hole}), NEW size \in Nat \ {0}
  PROVE  LET x == runlistExtents(encodeRunlist(clusters), size) IN
         /\ x.located \in BOOLEAN
         /\ ~x.located => x.extents = <<>>
         /\ x.located => /\ Hole \notin Range(clusters) /\ size <= Len(clusters) * ClusterBytes
                         /\ Tiles(x.extents, clusters, size)
         /\ Hole \notin Range(clusters) /\ Len(AllocatedRuns(clusters)) <= kMaxDataRuns
              /\ size <= Len(clusters) * ClusterBytes => x.located
<1> DEFINE R == AllocatedRuns(clusters)
           N == Len(R)
           list == encodeRunlist(clusters)
           d == decodeRunlist(list)
           e == mapRuns(d.runs)
           x == runlistExtents(list, size)
           fine == d.ok /\ allRunsMappable(d.runs) /\ extentBytes(e) >= size
<1>1. /\ RunsOf(R, clusters, Len(clusters)) /\ R \in Runs /\ N \in Nat
      /\ \A i \in 1..N : R[i].start # Hole =>
           /\ R[i].start \in Nat /\ R[i].len \in Nat \ {0}
           /\ R[i].start + R[i].len <= VolumeClusters
      /\ \A i \in 1..N : R[i].start = Hole => Hole \in Range(clusters)
      /\ Hole \in Range(clusters) => \E i \in 1..N : R[i].start = Hole
  BY AllocatedBounds
<1>2. /\ IsRaws(list.runs) /\ Len(list.runs) = N /\ list.ended = TRUE
      /\ \A i \in 1..N : /\ list.runs[i].length = R[i].len
                         /\ list.runs[i].offsetWidth = 0 <=> R[i].start = Hole
      /\ Hole \notin Range(clusters) =>
           \E lcn : /\ Placing(list.runs, lcn)
                    /\ \A i \in 1..N : placeRun(list.runs[i], lcn[i - 1]) = PlacedRun(R[i])
  BY EncodedIs DEF PlacedRun
<1>3. d.ok \in BOOLEAN /\ (d.ok => \E lcn : Placing(list.runs, lcn) /\ d.runs = PlacedAt(list.runs, lcn))
  BY <1>2, DecodeOk
<1>4. x = IF fine THEN [located |-> TRUE, extents |-> trimToSize(e, size)]
          ELSE [located |-> FALSE, extents |-> <<>>]
  BY DEF runlistExtents
<1>5. VolumeClusters \in Nat /\ ClusterBytes \in Nat \ {0}
  BY RunlistAssumption
<1> HIDE DEF R, N, list, d, e, x
<1>6. fine \in BOOLEAN
  BY <1>3 DEF allRunsMappable
<1>7. ASSUME d.ok, Hole \in Range(clusters) PROVE ~allRunsMappable(d.runs)
  <2>1. PICK i \in 1..N : R[i].start = Hole
    BY <1>1, <1>7
  <2>2. PICK lcn : Placing(list.runs, lcn) /\ d.runs = PlacedAt(list.runs, lcn)
    BY <1>3, <1>7
  <2>3. i \in DOMAIN d.runs /\ d.runs[i] = placeRun(list.runs[i], lcn[i - 1])
    BY <1>2, <2>1, <2>2 DEF PlacedAt
  <2>4. list.runs[i].offsetWidth = 0
    BY <1>2, <2>1
  <2>5. placeRun(list.runs[i], lcn[i - 1]).sparse = TRUE
    BY <2>4 DEF placeRun
  <2> QED
    BY <2>3, <2>5 DEF allRunsMappable
<1>8. ASSUME d.ok, Hole \notin Range(clusters)
      PROVE  /\ DOMAIN d.runs = 1..N /\ \A i \in 1..N : d.runs[i] = PlacedRun(R[i])
             /\ Tiles(e, clusters, Len(clusters) * ClusterBytes)
             /\ extentBytes(e) = Len(clusters) * ClusterBytes
  <2>1. /\ clusters \in Seq(VolumeCluster) /\ \A i \in 1..N : R[i].start \in Nat
        /\ DOMAIN d.runs = 1..N /\ \A i \in 1..N : d.runs[i] = PlacedRun(R[i])
    BY <1>8, DecodedIs DEF R, N, list, d
  <2>2. Tiles(e, clusters, Len(clusters) * ClusterBytes)
    BY <1>1, <2>1, MappedTiles DEF N, e
  <2>3. extentBytes(e) = Before(e)[Len(e)]
    BY <2>2, ExtentsAreLists, BeforeIs DEF Tiles
  <2> QED
    BY <2>1, <2>2, <2>3 DEF Tiles
<1>9. ASSUME fine
      PROVE  /\ x.located = TRUE
             /\ Hole \notin Range(clusters) /\ size <= Len(clusters) * ClusterBytes
             /\ Tiles(x.extents, clusters, size)
  <2>1. x.located = TRUE /\ x.extents = trimToSize(e, size)
    BY <1>4, <1>9
  <2>2. d.ok /\ Hole \notin Range(clusters)
    BY <1>7, <1>9
  <2>3. Tiles(e, clusters, Len(clusters) * ClusterBytes) /\ extentBytes(e) = Len(clusters) * ClusterBytes
    BY <1>8, <2>2
  <2>4. Len(clusters) * ClusterBytes \in Nat
    BY <1>5
  <2>5. size <= extentBytes(e)
    BY <1>9, <2>3, <2>4
  <2>6. Tiles(trimToSize(e, size), clusters, size)
    BY <2>3, <2>5, TrimmedTiles
  <2> QED
    BY <2>1, <2>2, <2>3, <2>5, <2>6
<1>10. ASSUME Hole \notin Range(clusters), N <= kMaxDataRuns, size <= Len(clusters) * ClusterBytes
       PROVE  fine
  <2>1. PICK lcn : Placing(list.runs, lcn)
    BY <1>2, <1>10
  <2>2. d.ok
    BY <1>2, <1>10, <2>1, DecodeAccepts DEF d
  <2>3. /\ DOMAIN d.runs = 1..N /\ \A i \in 1..N : d.runs[i] = PlacedRun(R[i])
        /\ extentBytes(e) = Len(clusters) * ClusterBytes
    BY <1>8, <1>10, <2>2
  <2>4. Len(clusters) * ClusterBytes \in Nat
    BY <1>5
  <2>5. allRunsMappable(d.runs)
    <3> SUFFICES ASSUME NEW i \in 1..N PROVE ~d.runs[i].sparse /\ runFitsVolume(d.runs[i])
      BY <2>3 DEF allRunsMappable
    <3>0. R[i].start # Hole
      BY <1>1, <1>10
    <3>1. /\ R[i].start \in Nat /\ R[i].len \in Nat
          /\ R[i].start + R[i].len <= VolumeClusters
      BY <1>1, <3>0
    <3>a. d.runs[i] = PlacedRun(R[i])
      BY <2>3
    <3>2. d.runs[i].start = R[i].start /\ d.runs[i].len = R[i].len /\ d.runs[i].sparse = FALSE
      BY <3>a DEF PlacedRun
    <3>3. runFitsVolume(d.runs[i])
      BY <1>5, <3>1, <3>2 DEF runFitsVolume
    <3> QED
      BY <3>2, <3>3
  <2> QED
    BY <1>10, <2>2, <2>3, <2>4, <2>5
<1>11. ~fine => x.located = FALSE /\ x.extents = <<>>
  BY <1>4
<1> HIDE DEF fine
<1> QED
  BY <1>6, <1>9, <1>10, <1>11 DEF R, N, list, x

(* What tiles the whole of a list of clusters is not cut. *)
LEMMA TrimmedWhole ==
  ASSUME NEW e, NEW clusters, NEW size \in Nat \ {0}, Tiles(e, clusters, size)
  PROVE  trimToSize(e, size) = e
<1> DEFINE N == Len(e)
           b == Before(e)
<1>1. e \in Extents /\ IsList(e) /\ N \in Nat /\ DOMAIN e = 1..N
  BY ExtentsAreLists DEF Tiles, IsList
<1>2. /\ b \in [0..N -> Nat] /\ b[0] = 0 /\ extentBytes(e) = b[N]
      /\ \A i \in 1..N : b[i] = b[i - 1] + e[i].len
  BY <1>1, BeforeIs
<1>3. \A i \in 1..N : e[i].len \in Nat /\ e[i].len > 0 /\ e[i].at \in Nat
  BY <1>1, ExtentsAreLists DEF Tiles
<1>4. \A i \in 1..N : extentBytes(SubSeq(e, 1, i - 1)) = b[i - 1]
  BY <1>1, BytesBefore DEF Extents
<1>5. \A i, j \in 0..N : i <= j => b[i] <= b[j]
  BY <1>1, BeforeGrows
<1>6. b[N] = size
  BY DEF Tiles
<1>7. e = [i \in 1..N |-> [at |-> e[i].at, len |-> e[i].len]]
  <2>1. e \in [1..N -> Extent]
    BY <1>1 DEF Extents
  <2>2. \A i \in 1..N : e[i] = [at |-> e[i].at, len |-> e[i].len]
    BY <2>1 DEF Extent
  <2> QED
    BY <2>1, <2>2
<1> HIDE DEF b, N
<1>8. ASSUME NEW i \in 1..N
      PROVE  b[i - 1] \in Nat /\ b[i - 1] < size /\ e[i].len <= size - b[i - 1] /\ size - b[i - 1] \in Nat
  <2>1. i - 1 \in 0..N /\ i \in 0..N /\ N \in 0..N /\ i <= N
    BY <1>1
  <2>2. b[i - 1] \in Nat /\ b[i] \in Nat /\ b[i] <= size /\ b[i] = b[i - 1] + e[i].len
    BY <1>2, <1>5, <1>6, <2>1
  <2> QED
    BY <1>3, <2>2
<1>9. {i \in DOMAIN e : extentBytes(SubSeq(e, 1, i - 1)) < size} = 1..N
  BY <1>1, <1>4, <1>8
<1>10. Cardinality(1..N) = N
  <2>1. N \in Int /\ 1 \in Int /\ Cardinality(1..N) = IF 1 > N THEN 0 ELSE N - 1 + 1
    BY <1>1, FS_Interval
  <2> QED
    BY <1>1, <2>1
<1>11. \A i \in 1..N : Min({e[i].len, size - extentBytes(SubSeq(e, 1, i - 1))}) = e[i].len
  <2> TAKE i \in 1..N
  <2>1. PICK x, y : x = e[i].len /\ y = size - b[i - 1]
    OBVIOUS
  <2>2. x \in Nat /\ y \in Nat /\ x <= y
    BY <1>3, <1>8, <2>1
  <2>3. Min({x, y}) = x
    BY <2>2, MinMaxOfTwo
  <2> QED
    BY <1>4, <2>1, <2>3
<1>12. ~(extentBytes(e) < size)
  BY <1>2, <1>6
<1>13. trimToSize(e, size) = [i \in 1..N |-> [at |-> e[i].at, len |-> Min({e[i].len, size - extentBytes(SubSeq(e, 1, i - 1))})]]
  BY <1>9, <1>10, <1>12 DEF trimToSize
<1> QED
  BY <1>7, <1>11, <1>13

(* The run that holds cluster k of a file. *)
LEMMA RunAt ==
  ASSUME NEW r \in Runs, NEW n, Before(r)[Len(r)] = n, NEW k \in Nat, k < n
  PROVE  \E i \in 1..Len(r) : Before(r)[i - 1] <= k /\ k < Before(r)[i]
<1> DEFINE N == Len(r)
           b == Before(r)
           S == {i \in Nat : i <= N /\ k < b[i]}
<1>1. IsList(r) /\ N \in Nat
  BY RunsAreLists
<1>2. b \in [0..N -> Nat] /\ b[0] = 0
  BY <1>1, BeforeIs
<1>3. N \in S /\ S \in SUBSET Nat
  BY <1>1
<1> HIDE DEF S, b, N
<1>4. PICK i \in S : \A j \in S : i <= j
  BY <1>3, LeastMember
<1>5. i \in Nat /\ i <= N /\ k < b[i]
  BY DEF S
<1>6. i # 0
  BY <1>2, <1>5
<1>7. i - 1 \in Nat /\ i - 1 \in 0..N /\ i \in 1..N /\ i - 1 \notin S
  BY <1>1, <1>4, <1>5, <1>6
<1>8. ~(k < b[i - 1]) /\ b[i - 1] \in Nat
  BY <1>1, <1>2, <1>5, <1>7 DEF S
<1> QED
  BY <1>5, <1>7, <1>8 DEF N, b

(* Two clusters of a file that follow each other on the device are in one run. *)
LEMMA RunsTogether ==
  ASSUME NEW R, NEW clusters, NEW n \in Nat, RunsOf(R, clusters, n), \A i \in 1..Len(R) : R[i].start \in Nat,
         NEW k \in Nat, k + 2 <= n, clusters[k + 2] = clusters[k + 1] + 1
  PROVE  \E i \in 1..Len(R) : Before(R)[i - 1] <= k /\ k + 2 <= Before(R)[i]
<1> DEFINE N == Len(R)
           b == Before(R)
<1>1. R \in Runs /\ b[N] = n
  BY DEF RunsOf
<1>2. PICK i \in 1..N : b[i - 1] <= k /\ k < b[i]
  <2>1. k < n
    OBVIOUS
  <2> QED
    BY <1>1, <2>1, RunAt
<1>3. /\ IsList(R) /\ N \in Nat /\ \A j \in 1..N : R[j].len \in Nat /\ R[j].len > 0
  BY <1>1, RunsAreLists
<1>4. b \in [0..N -> Nat] /\ \A j \in 1..N : b[j] = b[j - 1] + R[j].len
  BY <1>3, BeforeIs
<1>5. \A j \in 1..N : \A t \in 0..(R[j].len - 1) : clusters[b[j - 1] + t + 1] = R[j].start + t
  BY DEF RunsOf, InRun, Hole
<1>6. \A j \in 1..(N - 1) : R[j + 1].start # R[j].start + R[j].len
  <2> TAKE j \in 1..(N - 1)
  <2>1. R[j].start \in Nat /\ R[j + 1].start \in Nat
    BY <1>3
  <2>2. R[j].start # Hole /\ R[j + 1].start # Hole
    BY <2>1 DEF Hole
  <2> QED
    BY <2>2 DEF RunsOf
<1> HIDE DEF N, b
<1>7. SUFFICES ASSUME ~(k + 2 <= b[i]) PROVE FALSE
  <2>1. b[i - 1] <= k /\ k + 2 <= b[i] => \E j \in 1..N : b[j - 1] <= k /\ k + 2 <= b[j]
    OBVIOUS
  <2> QED
    BY <1>2, <2>1 DEF N, b
<1>8. i - 1 \in 0..N /\ i \in 0..N /\ b[i - 1] \in Nat /\ b[i] \in Nat /\ b[i] = b[i - 1] + R[i].len
  BY <1>3, <1>4
<1>9. b[i] = k + 1
  BY <1>2, <1>7, <1>8
<1>10. i \in 1..(N - 1) /\ i + 1 \in 1..N /\ (i + 1) - 1 = i
  BY <1>1, <1>3, <1>9
<1>11. clusters[k + 1] = R[i].start + (R[i].len - 1)
  <2>1. PICK l : l = R[i].len
    OBVIOUS
  <2>2. l \in Nat /\ l > 0 /\ l - 1 \in 0..(l - 1) /\ b[i - 1] + (l - 1) + 1 = k + 1
    BY <1>3, <1>8, <1>9, <2>1
  <2>3. clusters[b[i - 1] + (l - 1) + 1] = R[i].start + (l - 1)
    BY <1>5, <2>1, <2>2
  <2> QED
    BY <2>1, <2>2, <2>3
<1>12. clusters[k + 2] = R[i + 1].start
  <2>1. 0 \in 0..(R[i + 1].len - 1) /\ b[(i + 1) - 1] + 0 + 1 = k + 2
    BY <1>3, <1>9, <1>10
  <2>2. clusters[b[(i + 1) - 1] + 0 + 1] = R[i + 1].start + 0
    BY <1>5, <1>10, <2>1
  <2>3. R[i + 1].start \in Nat
    BY <1>10 DEF N
  <2> QED
    BY <2>1, <2>2, <2>3
<1>13. R[i].start \in Nat /\ R[i].len \in Nat
  BY <1>3 DEF N
<1>14. R[i + 1].start = R[i].start + R[i].len
  <2>1. PICK a, l, z, d : a = R[i].start /\ l = R[i].len /\ z = R[i + 1].start /\ d = clusters[k + 1]
    OBVIOUS
  <2>2. a \in Nat /\ l \in Nat /\ d = a + (l - 1) /\ z = d + 1
    BY <1>2, <1>11, <1>12, <1>13, <2>1
  <2>3. z = a + l
    BY ONLY <2>2
  <2> QED
    BY ONLY <2>1, <2>3
<1> QED
  BY <1>6, <1>10, <1>14

(* The same in bytes: what a reader must find in one extent is in one. *)
Together(e, clusters) ==
  \A k \in Nat : k + 2 <= Len(clusters) /\ clusters[k + 2] = clusters[k + 1] + 1 =>
    \E i \in 1..Len(e) : Before(e)[i - 1] <= k * ClusterBytes /\ (k + 2) * ClusterBytes <= Before(e)[i]

LEMMA LocatedTogether ==
  ASSUME NEW clusters \in Seq(VolumeCluster \cup {Hole}), NEW size \in Nat \ {0}, size = Len(clusters) * ClusterBytes,
         NEW x, x = runlistExtents(encodeRunlist(clusters), size), x.located
  PROVE  Together(x.extents, clusters)
<1>1. PICK list, d, R, e : /\ list = encodeRunlist(clusters) /\ d = decodeRunlist(list)
                           /\ R = AllocatedRuns(clusters) /\ e = mapRuns(d.runs)
  OBVIOUS
<1>2. Hole \notin Range(clusters)
  BY RunlistIsExact
<1>3. x = IF d.ok /\ allRunsMappable(d.runs) /\ extentBytes(e) >= size
          THEN [located |-> TRUE, extents |-> trimToSize(e, size)]
          ELSE [located |-> FALSE, extents |-> <<>>]
  BY <1>1 DEF runlistExtents
<1>4. d.ok /\ x.extents = trimToSize(e, size)
  BY <1>3
<1>5. /\ clusters \in Seq(VolumeCluster) /\ RunsOf(R, clusters, Len(clusters))
      /\ \A i \in 1..Len(R) : R[i].start \in Nat
      /\ DOMAIN d.runs = 1..Len(R) /\ \A i \in 1..Len(R) : d.runs[i] = PlacedRun(R[i])
  BY <1>1, <1>2, <1>4, DecodedIs
<1>6. /\ Tiles(e, clusters, size) /\ Len(e) = Len(R)
      /\ \A i \in 0..Len(R) : Before(e)[i] = Before(R)[i] * ClusterBytes
  BY <1>1, <1>5, MappedTiles
<1>7. x.extents = e
  BY <1>4, <1>6, TrimmedWhole
<1>8. ASSUME NEW k \in Nat, k + 2 <= Len(clusters), clusters[k + 2] = clusters[k + 1] + 1
      PROVE  \E i \in 1..Len(e) : Before(e)[i - 1] <= k * ClusterBytes /\ (k + 2) * ClusterBytes <= Before(e)[i]
  <2>1. PICK i \in 1..Len(R) : Before(R)[i - 1] <= k /\ k + 2 <= Before(R)[i]
    <3>1. Len(clusters) \in Nat
      OBVIOUS
    <3> QED
      BY <1>5, <1>8, <3>1, RunsTogether
  <2>2. PICK a, c, C : a = Before(R)[i - 1] /\ c = Before(R)[i] /\ C = ClusterBytes
    OBVIOUS
  <2>3. Len(R) \in Nat /\ Before(R) \in [0..Len(R) -> Nat]
    BY <1>5, RunsAreLists, BeforeIs DEF RunsOf
  <2>4. i - 1 \in 0..Len(R) /\ i \in 0..Len(R)
    BY <2>3
  <2>5. a \in Nat /\ c \in Nat /\ C \in Nat /\ a <= k /\ k + 2 <= c
    BY <2>1, <2>2, <2>3, <2>4, RunlistAssumption
  <2>6. a * C <= k * C /\ (k + 2) * C <= c * C
    BY ONLY k \in Nat, <2>5
  <2>7. Before(e)[i - 1] = a * C /\ Before(e)[i] = c * C
    BY <1>6, <2>2, <2>4
  <2> QED
    BY <1>6, <2>2, <2>6, <2>7
<1> QED
  BY <1>7, <1>8 DEF Together

-----------------------------------------------------------------------------
(***************************************************************************)
(* The table on disk.                                                      *)
(***************************************************************************)

Slots == 0..(Records - 1)

VolumeType ==
  /\ layout \in MftLayouts /\ habit \in {"delete", "reuse"} /\ running \in BOOLEAN
  /\ DOMAIN disk = VolumeMap /\ disk = [c \in VolumeMap |-> disk[c]]

Block(slot) == [i \in 1..Strides |-> disk[SlotClusters(slot)[i]]]

LEMMA NumbersAre ==
  /\ Records \in Nat /\ kRootRecordNumber \in Nat /\ kFirstUserRecord \in Nat
  /\ kRootRecordNumber < kFirstUserRecord /\ 0 < kRootRecordNumber
  /\ kFirstUserRecord + 2 < Records
  /\ UserSlots \subseteq Slots /\ Slots \subseteq Nat
  /\ \A s \in UserSlots : s > kRootRecordNumber /\ s # 0
BY MftAssumption, LayoutAssumption DEF UserSlots, Slots

LEMMA LayoutIs ==
  ASSUME VolumeType
  PROVE  /\ layout \in Seq(VolumeMap) /\ Len(layout) = 2 * Records /\ layout[2] = layout[1] + 1
         /\ \A i, j \in 1..Len(layout) : layout[i] = layout[j] => i = j
BY LayoutAssumption DEF VolumeType, Strides

(* Every stride of the table has a cluster of its own. *)
LEMMA SlotClustersAre ==
  ASSUME VolumeType
  PROVE  /\ \A s \in Slots : \A i \in 1..2 :
              /\ SlotClusters(s)[i] = layout[2 * s + i] /\ 2 * s + i \in 1..Len(layout)
              /\ SlotClusters(s)[i] \in VolumeMap
              /\ Block(s)[i] = disk[SlotClusters(s)[i]]
         /\ \A s, t \in Slots : \A i, j \in 1..2 :
              SlotClusters(s)[i] = SlotClusters(t)[j] => s = t /\ i = j
<1>1. /\ layout \in Seq(VolumeMap) /\ Len(layout) = 2 * Records
      /\ \A i, j \in 1..Len(layout) : layout[i] = layout[j] => i = j
  BY LayoutIs
<1>2. \A s \in Slots : \A i \in 1..2 : 2 * s + i \in 1..Len(layout)
  BY <1>1, NumbersAre DEF Slots
<1>3. \A s \in Slots : \A i \in 1..2 : SlotClusters(s)[i] = layout[2 * s + i]
  BY DEF SlotClusters, Strides
<1>4. \A k \in 1..Len(layout) : layout[k] \in VolumeMap
  BY <1>1
<1>5. \A s, t \in Slots : \A i, j \in 1..2 : 2 * s + i = 2 * t + j => s = t /\ i = j
  <2> SUFFICES ASSUME NEW s \in Slots, NEW t \in Slots, NEW i \in 1..2, NEW j \in 1..2,
                      2 * s + i = 2 * t + j
               PROVE  s = t /\ i = j
    OBVIOUS
  <2>1. s \in Int /\ t \in Int
    BY NumbersAre DEF Slots
  <2> QED
    BY <2>1
<1>6. \A s \in Slots : \A i \in 1..2 : Block(s)[i] = disk[SlotClusters(s)[i]]
  BY DEF Block, Strides
<1>7. \A s, t \in Slots : \A i, j \in 1..2 :
        SlotClusters(s)[i] = SlotClusters(t)[j] => s = t /\ i = j
  <2> SUFFICES ASSUME NEW s \in Slots, NEW t \in Slots, NEW i \in 1..2, NEW j \in 1..2,
                      SlotClusters(s)[i] = SlotClusters(t)[j]
               PROVE  s = t /\ i = j
    OBVIOUS
  <2> DEFINE a == 2 * s + i
             b == 2 * t + j
  <2>1. a \in 1..Len(layout) /\ b \in 1..Len(layout) /\ layout[a] = layout[b]
    BY <1>2, <1>3
  <2> HIDE DEF a, b
  <2>2. a = b
    BY <1>1, <2>1
  <2> QED
    BY <1>5, <2>2 DEF a, b
<1> QED
  BY ZenonT(90), <1>2, <1>3, <1>4, <1>6, <1>7

(* A write changes the strides it reaches and nothing else. *)
LEMMA WrittenIs ==
  ASSUME VolumeType, NEW before, NEW t \in Slots, NEW head, NEW first, NEW second,
         NEW reached \in SUBSET (1..2), NEW w, w = Written(before, t, head, first, second, reached)
  PROVE  LET new == StridesOf(UsnOf(t) + 1, head, first, second) IN
         /\ DOMAIN w = VolumeMap /\ w = [c \in VolumeMap |-> w[c]]
         /\ \A s \in Slots : \A i \in 1..2 :
              w[SlotClusters(s)[i]] = IF s = t /\ i \in reached THEN new[i]
                                      ELSE before[SlotClusters(s)[i]]
<1> DEFINE at == SlotClusters(t)
           new == StridesOf(UsnOf(t) + 1, head, first, second)
<1>1. w = [c \in VolumeMap |-> IF \E i \in reached : at[i] = c
                               THEN new[CHOOSE i \in reached : at[i] = c] ELSE before[c]]
  BY DEF Written
<1> HIDE DEF new
<1>2. DOMAIN w = VolumeMap /\ w = [c \in VolumeMap |-> w[c]]
  BY <1>1
<1>3. ASSUME NEW s \in Slots, NEW i \in 1..2
      PROVE  w[SlotClusters(s)[i]] = IF s = t /\ i \in reached THEN new[i]
                                     ELSE before[SlotClusters(s)[i]]
  <2> DEFINE c == SlotClusters(s)[i]
  <2>1. c \in VolumeMap
    BY SlotClustersAre
  <2>2. \A j \in reached : at[j] = c <=> s = t /\ j = i
    BY SlotClustersAre
  <2> HIDE DEF c, at
  <2>3. CASE s = t /\ i \in reached
    <3>1. (CHOOSE j \in reached : at[j] = c) = i
      BY <2>2, <2>3
    <3> QED
      BY <1>1, <2>1, <2>2, <2>3, <3>1 DEF c
  <2>4. CASE ~(s = t /\ i \in reached)
    <3>1. ~\E j \in reached : at[j] = c
      BY <2>2, <2>4
    <3> QED
      BY <1>1, <2>1, <2>4, <3>1 DEF c
  <2> QED
    BY <2>3, <2>4
<1> QED
  BY <1>2, <1>3 DEF new

-----------------------------------------------------------------------------
(***************************************************************************)
(* What holds of the volume.  While the host runs every record is exactly  *)
(* what it last wrote (Exact); after the mishap that stops it, a record    *)
(* that still parses is still its holder's, or shows that it is not whole  *)
(* (Sound).                                                                *)
(***************************************************************************)

Object ==
  [slot : UserSlots, ext : UserSlots \cup {0}, dir : BOOLEAN, links : Seq(Nat),
   alias : {"none", "first", "last"}, clusters : Seq(VolumeMap \cup {Hole}), size : Nat \ {0},
   resident : BOOLEAN, place : {"base", "split", "extension"}, live : BOOLEAN, whole : BOOLEAN]

(* Links lead to objects, those of a live object to live ones; the bytes of a file end in
   its last cluster; a slot has one live user, its last. *)
LinksLead(o, ids) == \A i \in DOMAIN o.links : o.links[i] \in {Root} \cup ids
SizeFits(o) ==
  /\ o.resident <=> o.clusters = <<>>
  /\ Len(o.clusters) > 1 => o.size > ClusterBytes
  /\ o.place = "split" => Len(o.clusters) > 1
  /\ ~o.resident => o.size <= Len(o.clusters) * ClusterBytes

ObjectsInv ==
  /\ objects \in Seq(Object)
  /\ \A n \in Ids : /\ Len(objects[n].links) > 0 /\ LinksLead(objects[n], Ids)
                    /\ objects[n].live => LinksLead(objects[n], LiveIds)
                    /\ SizeFits(objects[n])
  /\ \A n, m \in Ids : n < m /\ objects[m].slot = objects[n].slot => ~objects[n].live

Parsed(slot) ==
  /\ signatureIsFile(Block(slot)) /\ readRecordHeader(Block(slot)) /\ readUsaHeader(Block(slot))
  /\ applyUpdateSequenceFixup(Block(slot)) /\ Block(slot)[1].head.base = 0

References == [record : Nat, sequence : Nat]
FirstAttrs ==
  [type : {"std", "list"}, flaw : {"none"}] \cup
  [type : {"name"}, flaw : {"none"}, parent : References, name : Int, dos : BOOLEAN]

(* preferredName takes the first long name or, when none is kept, an alias. *)
MayStand(attrs, i) ==
  /\ isName(attrs[i])
  /\ attrs[i].dos \/ \A j \in 1..(i - 1) : isName(attrs[j]) => attrs[j].dos
NamesAre(attrs, n) ==
  \A i \in DOMAIN attrs : isName(attrs[i]) => attrs[i].name = IF attrs[i].dos THEN -n ELSE n

(* A reference that was true when it was written can be told from one to a later user. *)
RefHolds(ref, p) ==
  /\ p \in {Root} \cup Ids /\ ref.record = SlotOf(p)
  /\ p # Root => /\ ref.sequence <= SequenceOf(SlotOf(p))
                 /\ HolderOf(SlotOf(p)) # p \/ (habit = "delete" /\ ~objects[p].live) =>
                      ref.sequence < SequenceOf(SlotOf(p))

ObjectRecord(slot, head, first, second) ==
  LET n == HolderOf(slot)
      o == objects[n]
  IN /\ n \in Ids /\ head.dir = o.dir /\ head.inUse = o.live
     /\ first \in Seq(FirstAttrs) /\ second = SecondStride(o, n) /\ NamesAre(first, n)
     /\ \E i \in DOMAIN first : isName(first[i]) /\ ~first[i].dos
     /\ \A i \in DOMAIN first : MayStand(first, i) => RefHolds(first[i].parent, o.links[1])

IsSeq(s) == s \in Seq(Range(s))
Heads == [sequence : Nat, inUse : BOOLEAN, dir : BOOLEAN, base : Nat, flaw : {"none"}]

RecordExact(slot, usn, head, first, second) ==
  /\ Block(slot) = StridesOf(usn, head, first, second)
  /\ usn \in Nat /\ head \in Heads /\ IsSeq(first) /\ IsSeq(second)
  /\ head.base = 0 => ObjectRecord(slot, head, first, second)

SlotExact(slot) ==
  \/ Block(slot) = <<Blank, Blank>>
  \/ RecordExact(slot, Block(slot)[1].usn, Block(slot)[1].head, Block(slot)[1].attrs,
                 Block(slot)[2].attrs)

(* A live object is in its slot, and its parent is where its name says. *)
LiveExact(n) ==
  LET b == Block(objects[n].slot)
      p == objects[n].links[1]
  IN /\ b[1].kind = "mft" /\ b[1].head.base = 0
     /\ p # Root => \A i \in DOMAIN b[1].attrs :
          MayStand(b[1].attrs, i) => b[1].attrs[i].parent.sequence = SequenceOf(SlotOf(p))

Exact ==
  /\ \A slot \in UserSlots : SlotExact(slot)
  /\ \A n \in Ids : objects[n].whole
  /\ \A n \in LiveIds : LiveExact(n)
  /\ unreadable = {}

(* A reference that isLiveDirectory accepts is to the holder of the slot. *)
RefSound(ref, p) ==
  /\ p \in {Root} \cup Ids /\ ref.record = SlotOf(p)
  /\ p # Root /\ Parsed(SlotOf(p)) /\ Block(SlotOf(p))[1].head.sequence = ref.sequence =>
       HolderOf(SlotOf(p)) = p

Located(a) == runlistExtents(a.runs, a.size).located
StreamOf(a, o, n) ==
  /\ a.content = n /\ a.size = o.size /\ a.resident = o.resident
  /\ ~a.resident => /\ Located(a) \in BOOLEAN
                    /\ Located(a) => BytesOf(runlistExtents(a.runs, a.size).extents) = DeviceBytes(o)

Unfit(a) == ~readAttributeView(a) \/ ~consumeAttribute(a)

(* A record that is not its holder's last says so: an attribute does not parse, or the
   data is nowhere. *)
ShowsWhole(o, first, second) ==
  \/ o.whole
  \/ \E i \in DOMAIN first : Unfit(first[i])
  \/ \E i \in DOMAIN second : Unfit(second[i])
  \/ \A i \in DOMAIN second : second[i].stream = "unnamed" => ~second[i].resident /\ ~Located(second[i])

RecordSound(slot, head, first, second) ==
  LET n == HolderOf(slot)
      o == objects[n]
  IN /\ n \in Ids /\ head.dir = o.dir /\ head.inUse = o.live
     /\ IsSeq(first) /\ IsSeq(second) /\ NamesAre(first, n)
     /\ \A i \in DOMAIN first : first[i].type # "data"
     /\ \A i \in DOMAIN second : second[i].type = "data"
     /\ \A i \in DOMAIN first : isName(first[i]) => first[i].dos \in BOOLEAN
     /\ \A i \in DOMAIN first : MayStand(first, i) => RefSound(first[i].parent, o.links[1])
     /\ \A i \in DOMAIN second : second[i].stream = "unnamed" => StreamOf(second[i], o, n)
     /\ ShowsWhole(o, first, second)

Sound(slot) ==
  Parsed(slot) => RecordSound(slot, Block(slot)[1].head, Block(slot)[1].attrs, Block(slot)[2].attrs)
SoundInv == \A slot \in UserSlots : Sound(slot)

(* Record zero says where the table is. *)
ZeroHead == [sequence |-> 1, inUse |-> TRUE, dir |-> FALSE, base |-> 0, flaw |-> "none"]
ZeroData == DataAttr("unnamed", FALSE, encodeRunlist(layout), Records * RecordBytes, Root)
ZeroInv ==
  /\ Block(0) = StridesOf(1, ZeroHead, <<Std>>, <<ZeroData>>)
  /\ SequenceOf(kRootRecordNumber) \in Nat

VolumeInv ==
  /\ VolumeType /\ ObjectsInv /\ ZeroInv
  /\ running => Exact
  /\ ~running => SoundInv


-----------------------------------------------------------------------------
(***************************************************************************)
(* The holder of a slot.                                                   *)
(***************************************************************************)

HolderIn(made, slot) == Max({n \in DOMAIN made : made[n].slot = slot} \cup {0})

LEMMA HolderIs ==
  ASSUME NEW made, NEW N \in Nat, DOMAIN made = 1..N, NEW slot
  PROVE  LET h == HolderIn(made, slot) IN
         /\ h \in 0..N
         /\ h # 0 => h \in 1..N /\ made[h].slot = slot
         /\ \A n \in 1..N : made[n].slot = slot => n <= h /\ h # 0
         /\ \A n \in 1..N :
              (made[n].slot = slot /\ \A m \in 1..N : made[m].slot = slot => m <= n) => h = n
<1> DEFINE S == {n \in DOMAIN made : made[n].slot = slot} \cup {0}
           h == HolderIn(made, slot)
<1>1. S \in SUBSET (0..N) /\ S # {} /\ 0 \in S
  OBVIOUS
<1>2. h = Max(S)
  BY DEF HolderIn
<1>3. \A n \in S : n = 0 \/ (n \in 1..N /\ made[n].slot = slot)
  OBVIOUS
<1>4. \A n \in 1..N : made[n].slot = slot => n \in S
  OBVIOUS
<1> HIDE DEF S, h
<1>5. h \in S /\ \A y \in S : y <= h
  BY <1>1, <1>2, MaxIs
<1>6. h \in 0..N
  BY <1>1, <1>5
<1>7. ASSUME NEW n \in 1..N, made[n].slot = slot, \A m \in 1..N : made[m].slot = slot => m <= n
      PROVE  h = n
  <2>1. n <= h
    BY <1>4, <1>5, <1>7
  <2>2. h # 0 /\ h \in 1..N /\ made[h].slot = slot
    BY <1>3, <1>5, <1>6, <2>1
  <2> QED
    BY <1>6, <1>7, <2>1, <2>2
<1> QED
  BY <1>3, <1>4, <1>5, <1>6, <1>7 DEF h

(* A slot none of whose users changes keeps its holder. *)
LEMMA HolderSame ==
  ASSUME NEW a, NEW b, NEW slot, DOMAIN a \subseteq DOMAIN b,
         \A n \in DOMAIN a : b[n].slot = a[n].slot,
         \A n \in DOMAIN b : n \in DOMAIN a \/ b[n].slot # slot
  PROVE  HolderIn(b, slot) = HolderIn(a, slot)
<1>1. {n \in DOMAIN b : b[n].slot = slot} = {n \in DOMAIN a : a[n].slot = slot}
  OBVIOUS
<1> QED
  BY <1>1 DEF HolderIn

LEMMA HolderOfIs == \A slot : HolderOf(slot) = HolderIn(objects, slot)
BY DEF HolderOf, HolderIn, Ids, Root

LEMMA ObjectIs ==
  ASSUME ObjectsInv
  PROVE  /\ Len(objects) \in Nat /\ Ids = 1..Len(objects)
         /\ \A n \in Ids : /\ objects[n] \in Object /\ objects[n].slot \in UserSlots
                           /\ objects[n].links \in Seq(Nat) /\ objects[n].clusters \in Seq(VolumeCluster \cup {Hole})
                           /\ objects[n].live \in BOOLEAN /\ objects[n].dir \in BOOLEAN
                           /\ objects[n].resident \in BOOLEAN /\ objects[n].whole \in BOOLEAN
                           /\ objects[n].size \in Nat \ {0}
                           /\ objects[n].ext \in UserSlots \cup {0}
                           /\ objects[n].links[1] \in {Root} \cup Ids
<1>1. objects \in Seq(Object)
  BY DEF ObjectsInv
<1> HIDE DEF Object
<1>2. Len(objects) \in Nat /\ Ids = 1..Len(objects) /\ \A n \in Ids : objects[n] \in Object
  BY <1>1 DEF Ids
<1>3. ASSUME NEW o \in Object
      PROVE  /\ o.slot \in UserSlots /\ o.links \in Seq(Nat) /\ o.clusters \in Seq(VolumeMap \cup {Hole})
             /\ o.live \in BOOLEAN /\ o.dir \in BOOLEAN /\ o.resident \in BOOLEAN
             /\ o.whole \in BOOLEAN /\ o.size \in Nat \ {0} /\ o.ext \in UserSlots \cup {0}
  BY DEF Object
<1>4. ASSUME NEW n \in Ids PROVE objects[n].links[1] \in {Root} \cup Ids
  <2>1. objects[n].links \in Seq(Nat) /\ Len(objects[n].links) > 0
    BY <1>2, <1>3 DEF ObjectsInv
  <2>2. 1 \in DOMAIN objects[n].links
    BY <2>1
  <2> QED
    BY <2>2 DEF ObjectsInv, LinksLead
<1> QED
  BY <1>2, <1>3, <1>4 DEF VolumeMap, VolumeCluster

(* The holder of a slot, and the only object that can live there. *)
LEMMA HolderFacts ==
  ASSUME ObjectsInv, NEW slot
  PROVE  LET h == HolderOf(slot) IN
         /\ h \in {Root} \cup Ids
         /\ h # Root => h \in Ids /\ objects[h].slot = slot
         /\ \A n \in Ids : objects[n].slot = slot => n <= h /\ h # Root
         /\ \A n \in LiveIds : objects[n].slot = slot => h = n
<1> DEFINE h == HolderOf(slot)
<1>1. Len(objects) \in Nat /\ DOMAIN objects = 1..Len(objects) /\ Ids = 1..Len(objects)
  BY ObjectIs DEF Ids
<1>2. /\ h \in 0..Len(objects)
      /\ h # 0 => h \in Ids /\ objects[h].slot = slot
      /\ \A n \in Ids : objects[n].slot = slot => n <= h /\ h # 0
  BY <1>1, HolderIs, HolderOfIs
<1> HIDE DEF h
<1>3. ASSUME NEW n \in LiveIds, objects[n].slot = slot PROVE h = n
  <2>1. n \in Ids /\ objects[n].live
    BY DEF LiveIds
  <2>2. h \in Ids /\ objects[h].slot = slot /\ n <= h
    BY <1>2, <1>3, <2>1
  <2>3. ~(n < h)
    BY <1>3, <2>1, <2>2 DEF ObjectsInv
  <2> QED
    BY <1>1, <2>1, <2>2, <2>3
<1> QED
  BY <1>1, <1>2, <1>3 DEF h, Root


-----------------------------------------------------------------------------
(***************************************************************************)
(* What the host writes of an object.                                      *)
(***************************************************************************)

(* The runs of a file, or of its first cluster only, name its bytes when they reach its
   size. *)
LEMMA RunsAreRight ==
  ASSUME NEW o \in Object, SizeFits(o), ~o.resident, NEW list,
         list = encodeRunlist(o.clusters) \/
           (Len(o.clusters) > 1 /\ list = encodeRunlist(SubSeq(o.clusters, 1, 1)))
  PROVE  LET x == runlistExtents(list, o.size) IN
         /\ x.located \in BOOLEAN
         /\ x.located => BytesOf(x.extents) = DeviceBytes(o)
<1> DEFINE x == runlistExtents(list, o.size)
<1>1. o.clusters \in Seq(VolumeCluster \cup {Hole}) /\ o.size \in Nat \ {0}
  BY DEF Object, VolumeMap, VolumeCluster
<1>2. CASE list = encodeRunlist(o.clusters)
  <2>1. x.located \in BOOLEAN /\ (x.located => Tiles(x.extents, o.clusters, o.size))
    BY <1>1, <1>2, RunlistIsExact
  <2> SUFFICES ASSUME x.located PROVE BytesOf(x.extents) = DeviceBytes(o)
    BY <2>1
  <2> HIDE DEF x
  <2>2. BytesOf(x.extents) = [i \in 1..o.size |-> ByteAt(o.clusters, i - 1)]
    BY ZenonT(90), <2>1, TiledBytes
  <2> QED
    BY <2>2 DEF DeviceBytes, ByteAt
<1>3. CASE Len(o.clusters) > 1 /\ list = encodeRunlist(SubSeq(o.clusters, 1, 1))
  <2> DEFINE one == SubSeq(o.clusters, 1, 1)
  <2>1. one \in Seq(VolumeCluster \cup {Hole}) /\ Len(one) = 1
    BY <1>1, <1>3
  <2> HIDE DEF one
  <2>2. x.located \in BOOLEAN /\ (x.located => o.size <= Len(one) * ClusterBytes)
    BY <1>1, <1>3, <2>1, RunlistIsExact DEF one
  <2>3. o.size > ClusterBytes /\ ClusterBytes \in Nat
    BY <1>3, RunlistAssumption DEF SizeFits
  <2>4. ~x.located
    BY <1>1, <2>1, <2>2, <2>3
  <2> QED
    BY <2>2, <2>4
<1> QED
  BY <1>2, <1>3

OwnData(o, n) ==
  DataAttr("unnamed", o.resident, IF o.resident THEN NoRuns ELSE encodeRunlist(o.clusters), o.size, n)
StartData(o, n) == [OwnData(o, n) EXCEPT !.runs = encodeRunlist(SubSeq(o.clusters, 1, 1))]
StreamData(n) == DataAttr("stream", TRUE, NoRuns, 1, -n)

LEMMA SecondIs ==
  ASSUME NEW o \in Object, NEW n
  PROVE  /\ SecondStride(o, n) \in {<<>>, <<OwnData(o, n), StreamData(n)>>,
                                    <<StartData(o, n), StreamData(n)>>, <<StreamData(n)>>}
         /\ o.dir => SecondStride(o, n) = <<>>
         /\ ~o.dir /\ o.place = "base" => SecondStride(o, n) = <<OwnData(o, n), StreamData(n)>>
         /\ ~o.dir /\ o.place = "split" => SecondStride(o, n) = <<StartData(o, n), StreamData(n)>>
         /\ ~o.dir /\ o.place = "extension" => SecondStride(o, n) = <<StreamData(n)>>
<1>1. o.dir \in BOOLEAN /\ o.place \in {"base", "split", "extension"}
  BY DEF Object
<1>2. CASE o.dir
  BY <1>1, <1>2 DEF SecondStride
<1>3. CASE ~o.dir /\ o.place = "base"
  BY <1>1, <1>3 DEF SecondStride, OwnData, StartData, StreamData
<1>4. CASE ~o.dir /\ o.place = "split"
  BY <1>1, <1>4 DEF SecondStride, OwnData, StartData, StreamData
<1>5. CASE ~o.dir /\ o.place = "extension"
  <2>1. SecondStride(o, n) = <<StreamData(n)>>
    BY <1>1, <1>5 DEF SecondStride, StreamData
  <2> QED
    BY <1>5, <2>1
<1> QED
  BY <1>1, <1>2, <1>3, <1>4, <1>5


(* What SecondStride writes describes the object, and nothing of it is spoiled. *)
LEMMA SecondDescribes ==
  ASSUME NEW o \in Object, SizeFits(o), NEW n, NEW second, second = SecondStride(o, n)
  PROVE  /\ IsSeq(second) /\ DOMAIN second = 1..Len(second) /\ Len(second) \in Nat
         /\ \A i \in DOMAIN second : \/ second[i] = OwnData(o, n)
                                     \/ second[i] = StartData(o, n) /\ Len(o.clusters) > 1
                                     \/ second[i] = StreamData(n)
<1>1. o.dir \in BOOLEAN /\ o.place \in {"base", "split", "extension"}
  BY DEF Object
<1>2. \/ second = <<>> \/ second = <<OwnData(o, n), StreamData(n)>> \/ second = <<StreamData(n)>>
      \/ second = <<StartData(o, n), StreamData(n)>> /\ Len(o.clusters) > 1
  BY <1>1, SecondIs DEF SizeFits
<1> HIDE DEF SizeFits
<1>3. DOMAIN second = 1..Len(second) /\ Len(second) \in Nat /\ second \in Seq(Range(second))
  <2>1. CASE second = <<>>
    BY <2>1 DEF Range
  <2>2. CASE second # <<>>
    <3>1. \E x, y : second = <<x, y>> \/ second = <<y>>
      BY <1>2, <2>2
    <3>2. PICK x, y : second = <<x, y>> \/ second = <<y>>
      BY <3>1
    <3> QED
      BY <3>2 DEF Range
  <2> QED
    BY <2>1, <2>2
<1>4. ASSUME NEW i \in DOMAIN second
      PROVE  \/ second[i] = OwnData(o, n)
             \/ second[i] = StartData(o, n) /\ Len(o.clusters) > 1
             \/ second[i] = StreamData(n)
  <2>1. CASE second = <<>>
    BY <2>1
  <2>2. CASE second = <<StreamData(n)>>
    BY <2>2
  <2>3. CASE second = <<OwnData(o, n), StreamData(n)>>
    BY <2>3
  <2>4. CASE second = <<StartData(o, n), StreamData(n)>> /\ Len(o.clusters) > 1
    BY <2>4
  <2> QED
    BY <1>2, <2>1, <2>2, <2>3, <2>4
<1> QED
  BY <1>3, <1>4 DEF IsSeq

(* The fields of the attributes that SecondStride writes. *)
LEMMA DataFields ==
  ASSUME NEW stream, NEW resident, NEW runs, NEW size, NEW content,
         NEW a, a = DataAttr(stream, resident, runs, size, content)
  PROVE  /\ a.type = "data" /\ a.flaw = "none" /\ a.stream = stream /\ a.resident = resident
         /\ a.runs = runs /\ a.size = size /\ a.content = content
BY DEF DataAttr

LEMMA StartIs ==
  ASSUME NEW o, NEW n
  PROVE  StartData(o, n) = DataAttr("unnamed", o.resident, encodeRunlist(SubSeq(o.clusters, 1, 1)), o.size, n)
<1> DEFINE runs == IF o.resident THEN NoRuns ELSE encodeRunlist(o.clusters)
           own == DataAttr("unnamed", o.resident, runs, o.size, n)
           start == encodeRunlist(SubSeq(o.clusters, 1, 1))
<1>1. StartData(o, n) = [own EXCEPT !.runs = start]
  BY DEF StartData, OwnData
<1>2. own = [type |-> "data", flaw |-> "none", stream |-> "unnamed", resident |-> o.resident, runs |-> runs,
             size |-> o.size, content |-> n]
  BY DEF DataAttr
<1>3. DataAttr("unnamed", o.resident, start, o.size, n) =
        [type |-> "data", flaw |-> "none", stream |-> "unnamed", resident |-> o.resident, runs |-> start,
         size |-> o.size, content |-> n]
  BY DEF DataAttr
<1> HIDE DEF runs, own, start
<1>4. [own EXCEPT !.runs = start] =
        [type |-> "data", flaw |-> "none", stream |-> "unnamed", resident |-> o.resident, runs |-> start,
         size |-> o.size, content |-> n]
  BY <1>2
<1> QED
  BY <1>1, <1>3, <1>4 DEF start

(* Every stream SecondStride writes fits, and the unnamed one is the object's. *)
LEMMA SecondSound ==
  ASSUME NEW o \in Object, SizeFits(o), NEW n, NEW second, second = SecondStride(o, n)
  PROVE  \A i \in DOMAIN second :
           /\ second[i].type = "data" /\ second[i].flaw = "none"
           /\ second[i].stream = "unnamed" => StreamOf(second[i], o, n)
           /\ second[i].stream # "unnamed" => second[i].runs = NoRuns
<1> TAKE i \in DOMAIN second
<1> DEFINE a == second[i]
<1>1. a = OwnData(o, n) \/ (a = StartData(o, n) /\ Len(o.clusters) > 1) \/ a = StreamData(n)
  BY SecondDescribes
<1>2. o.resident \in BOOLEAN /\ (Len(o.clusters) > 1 => ~o.resident)
  BY DEF Object, SizeFits
<1> HIDE DEF a
<1>3. CASE a = OwnData(o, n)
  <2> DEFINE list == IF o.resident THEN NoRuns ELSE encodeRunlist(o.clusters)
  <2>1. /\ a.type = "data" /\ a.flaw = "none" /\ a.stream = "unnamed" /\ a.resident = o.resident
        /\ a.runs = list /\ a.size = o.size /\ a.content = n
    <3>1. a = DataAttr("unnamed", o.resident, list, o.size, n)
      BY <1>3 DEF OwnData
    <3> HIDE DEF list
    <3> QED
      BY <3>1, DataFields
  <2>2. ASSUME ~o.resident
        PROVE  /\ Located(a) \in BOOLEAN
               /\ Located(a) => BytesOf(runlistExtents(a.runs, a.size).extents) = DeviceBytes(o)
    <3>1. a.runs = encodeRunlist(o.clusters) /\ a.size = o.size
      BY <2>1, <2>2
    <3> QED
      BY <2>2, <3>1, RunsAreRight DEF Located
  <2> HIDE DEF list
  <2> QED
    BY <2>1, <2>2 DEF StreamOf, a
<1>4. CASE a = StartData(o, n) /\ Len(o.clusters) > 1
  <2> DEFINE list == encodeRunlist(SubSeq(o.clusters, 1, 1))
  <2>1. /\ a.type = "data" /\ a.flaw = "none" /\ a.stream = "unnamed" /\ a.resident = o.resident
        /\ a.runs = list /\ a.size = o.size /\ a.content = n
    <3>1. a = DataAttr("unnamed", o.resident, list, o.size, n)
      BY <1>4, StartIs
    <3> HIDE DEF list
    <3> QED
      BY <3>1, DataFields
  <2>2. /\ Located(a) \in BOOLEAN
        /\ Located(a) => BytesOf(runlistExtents(a.runs, a.size).extents) = DeviceBytes(o)
    BY <1>2, <1>4, <2>1, RunsAreRight DEF Located
  <2> HIDE DEF list
  <2> QED
    BY <2>1, <2>2 DEF StreamOf, a
<1>5. CASE a = StreamData(n)
  <2>1. /\ a.type = "data" /\ a.flaw = "none" /\ a.stream = "stream" /\ a.runs = NoRuns
    <3> DEFINE m == -n
    <3>1. a = DataAttr("stream", TRUE, NoRuns, 1, m)
      BY <1>5 DEF StreamData
    <3> HIDE DEF m
    <3> QED
      BY <3>1 DEF DataAttr
  <2> QED
    BY <2>1 DEF a
<1> QED
  BY <1>1, <1>3, <1>4, <1>5

(* An attribute the host wrote parses. *)
LEMMA FirstFit ==
  ASSUME NEW a \in FirstAttrs
  PROVE  /\ a.type # "data" /\ a.flaw = "none" /\ a.type \in {"std", "list", "name"}
         /\ isName(a) => a.dos \in BOOLEAN /\ a.parent \in References
         /\ ~Unfit(a)
BY DEF FirstAttrs, isName, Unfit, readAttributeView, consumeAttribute, attributeLengthValid, nonResident,
       readResidentTail, readNonResidentTail, parseStandardInformation, parseFileName

LEMMA DataFit ==
  ASSUME NEW a, a.type = "data", a.flaw = "none"
  PROVE  ~Unfit(a)
BY DEF Unfit, readAttributeView, consumeAttribute, attributeLengthValid, nonResident,
       readResidentTail, readNonResidentTail, parseStandardInformation, parseFileName


(* The fields of a record as it is on disk. *)
LEMMA StridesAre ==
  ASSUME NEW usn, NEW head, NEW first, NEW second, NEW b, b = StridesOf(usn, head, first, second)
  PROVE  /\ b[1].kind = "mft" /\ b[1].usn = usn /\ b[1].head = head /\ b[1].attrs = first
         /\ b[2].kind = "mft" /\ b[2].usn = usn /\ b[2].head = NoHead /\ b[2].attrs = second
BY DEF StridesOf

LEMMA HeaderIs ==
  ASSUME VolumeType, NEW s \in Slots
  PROVE  /\ Header(s) = Block(s)[1] /\ disk[SlotClusters(s)[2]] = Block(s)[2]
         /\ Used(s) <=> Block(s)[1].kind = "mft"
         /\ SequenceOf(s) = IF Block(s)[1].kind = "mft" THEN Block(s)[1].head.sequence ELSE 0
         /\ UsnOf(s) = IF Block(s)[1].kind = "mft" THEN Block(s)[1].usn ELSE 0
BY SlotClustersAre DEF Header, Used, SequenceOf, UsnOf

LEMMA BlankIs ==
  ASSUME NEW b, b = <<Blank, Blank>>
  PROVE  b[1].kind = "blank" /\ b[2].kind = "blank"
BY DEF Blank

(* While the host runs a slot is blank or holds one whole record. *)
LEMMA ExactSlot ==
  ASSUME VolumeType, NEW s \in UserSlots, SlotExact(s)
  PROVE  LET b == Block(s) IN
         /\ b[1].kind = b[2].kind /\ b[1].kind \in {"mft", "blank"}
         /\ b[1].kind = "blank" => b = <<Blank, Blank>>
         /\ b[1].kind = "mft" =>
              /\ RecordExact(s, b[1].usn, b[1].head, b[1].attrs, b[2].attrs)
              /\ b[1].usn = b[2].usn /\ b[1].usn \in Nat /\ b[1].head \in Heads
              /\ b[1].head.sequence \in Nat /\ b[1].head.flaw = "none"
         /\ UsnOf(s) \in Nat /\ SequenceOf(s) \in Nat
<1> DEFINE b == Block(s)
<1>1. s \in Slots
  BY NumbersAre
<1>2. CASE b = <<Blank, Blank>>
  BY <1>1, <1>2, BlankIs, HeaderIs
<1>3. CASE b # <<Blank, Blank>>
  <2>1. RecordExact(s, b[1].usn, b[1].head, b[1].attrs, b[2].attrs)
    BY <1>3 DEF SlotExact
  <2>2. b[1].kind = "mft" /\ b[2].kind = "mft" /\ b[1].usn = b[2].usn
    BY <2>1, StridesAre DEF RecordExact
  <2>3. b[1].usn \in Nat /\ b[1].head \in Heads
    BY <2>1 DEF RecordExact
  <2>4. b[1].head.sequence \in Nat /\ b[1].head.flaw = "none"
    BY <2>3 DEF Heads
  <2> QED
    BY <1>1, <2>1, <2>2, <2>3, <2>4, HeaderIs
<1> QED
  BY <1>2, <1>3

LEMMA ParsedIs ==
  ASSUME VolumeType, NEW s \in Slots
  PROVE  Parsed(s) <=> /\ Block(s)[1].kind = "mft" /\ Block(s)[2].kind = "mft"
                       /\ Block(s)[2].usn = Block(s)[1].usn
                       /\ Block(s)[1].head.flaw \notin {"magic", "offset", "usa"}
                       /\ Block(s)[1].head.base = 0
<1>1. applyUpdateSequenceFixup(Block(s)) <=>
        /\ Block(s)[1].kind = "mft" /\ Block(s)[1].usn = Block(s)[1].usn
        /\ Block(s)[2].kind = "mft" /\ Block(s)[2].usn = Block(s)[1].usn
  BY DEF applyUpdateSequenceFixup, Strides
<1> QED
  BY <1>1 DEF Parsed, signatureIsFile, readRecordHeader, readUsaHeader

(* References that hold are sound. *)
LEMMA RefHoldsSound ==
  ASSUME VolumeType, ObjectsInv, Exact, NEW ref, NEW p, RefHolds(ref, p)
  PROVE  RefSound(ref, p)
<1>1. p \in {Root} \cup Ids /\ ref.record = SlotOf(p)
  BY DEF RefHolds
<1>2. ASSUME p # Root, Parsed(SlotOf(p)), Block(SlotOf(p))[1].head.sequence = ref.sequence,
             HolderOf(SlotOf(p)) # p
      PROVE  FALSE
  <2> DEFINE s == SlotOf(p)
  <2>1. s \in UserSlots /\ s \in Slots
    BY <1>1, <1>2, ObjectIs, NumbersAre DEF SlotOf
  <2> HIDE DEF s
  <2>2. SlotExact(s)
    BY <2>1 DEF Exact
  <2>3. Block(s)[1].kind = "mft"
    BY <1>2, <2>1, ParsedIs DEF s
  <2>4. SequenceOf(s) = Block(s)[1].head.sequence /\ SequenceOf(s) \in Nat
    BY <2>1, <2>2, <2>3, HeaderIs, ExactSlot
  <2>5. ref.sequence < SequenceOf(s)
    BY <1>2 DEF RefHolds, s
  <2> QED
    BY <1>2, <2>4, <2>5 DEF s
<1> QED
  BY <1>1, <1>2 DEF RefSound

(* A record that is exact is sound. *)
LEMMA ExactRecordSound ==
  ASSUME VolumeType, ObjectsInv, Exact, NEW s \in UserSlots, Parsed(s)
  PROVE  RecordSound(s, Block(s)[1].head, Block(s)[1].attrs, Block(s)[2].attrs)
<1> DEFINE b == Block(s)
           n == HolderOf(s)
           o == objects[n]
           first == b[1].attrs
           second == b[2].attrs
<1>1. s \in Slots /\ SlotExact(s)
  BY NumbersAre DEF Exact
<1>2. b[1].kind = "mft" /\ b[1].head.base = 0
  BY <1>1, ParsedIs
<1>3. ObjectRecord(s, b[1].head, first, second)
  BY <1>1, <1>2, ExactSlot DEF RecordExact
<1>4. /\ n \in Ids /\ b[1].head.dir = o.dir /\ b[1].head.inUse = o.live
      /\ first \in Seq(FirstAttrs) /\ second = SecondStride(o, n) /\ NamesAre(first, n)
      /\ \A i \in DOMAIN first : MayStand(first, i) => RefHolds(first[i].parent, o.links[1])
  BY <1>3 DEF ObjectRecord
<1>5. o \in Object /\ SizeFits(o) /\ o.whole
  BY <1>4, ObjectIs DEF ObjectsInv, Exact
<1>6. \A i \in DOMAIN first : MayStand(first, i) => RefSound(first[i].parent, o.links[1])
  BY <1>4, RefHoldsSound
<1>7. /\ IsSeq(second)
      /\ \A i \in DOMAIN second : /\ second[i].type = "data"
                                  /\ second[i].stream = "unnamed" => StreamOf(second[i], o, n)
  BY <1>4, <1>5, SecondDescribes, SecondSound
<1> HIDE DEF b, n, o
<1>8. IsSeq(first)
  <2> HIDE DEF first, FirstAttrs
  <2>1. DOMAIN first = 1..Len(first) /\ Len(first) \in Nat /\ first = [i \in 1..Len(first) |-> first[i]]
    BY <1>4
  <2>2. \A i \in 1..Len(first) : first[i] \in Range(first)
    BY <2>1 DEF Range
  <2> QED
    BY <2>1, <2>2 DEF IsSeq
<1>9. \A i \in DOMAIN first : first[i].type # "data" /\ (isName(first[i]) => first[i].dos \in BOOLEAN)
  <2>1. \A i \in DOMAIN first : first[i] \in FirstAttrs
    BY <1>4
  <2> QED
    BY <2>1, FirstFit
<1>10. ShowsWhole(o, first, second)
  BY <1>5 DEF ShowsWhole
<1> HIDE DEF first, second
<1>11. /\ \A i \in DOMAIN first : first[i].type # "data"
       /\ \A i \in DOMAIN second : second[i].type = "data"
       /\ \A i \in DOMAIN first : isName(first[i]) => first[i].dos \in BOOLEAN
       /\ \A i \in DOMAIN second : second[i].stream = "unnamed" => StreamOf(second[i], o, n)
  BY <1>7, <1>9
<1> QED
  BY <1>4, <1>6, <1>7, <1>8, <1>10, <1>11 DEF RecordSound, b, n, o, first, second

LEMMA ExactSound ==
  ASSUME VolumeType, ObjectsInv, Exact
  PROVE  SoundInv
BY ExactRecordSound DEF SoundInv, Sound


-----------------------------------------------------------------------------
(***************************************************************************)
(* A change to the records in T, and what it leaves alone.                 *)
(***************************************************************************)

Changed(T) ==
  /\ VolumeType /\ VolumeType' /\ ObjectsInv /\ ObjectsInv'
  /\ layout' = layout /\ habit' = habit
  /\ T \subseteq UserSlots
  /\ \A s \in UserSlots \ T : Block(s)' = Block(s)
  /\ Ids \subseteq Ids'
  /\ \A n \in Ids : /\ objects'[n].slot = objects[n].slot
                    /\ objects[n].slot \notin T => objects'[n] = objects[n]
  /\ \A n \in Ids' : n \in Ids \/ objects'[n].slot \in T

(* A step that ends the host's work leaves every live object it does not mark as it was. *)
Spared ==
  running' \/ \E T : Changed(T) /\ \A n \in LiveIds' : objects'[n].whole => objects'[n].slot \notin T
Carried == VolumeInv' /\ Spared

LEMMA ChangedHolder ==
  ASSUME NEW T, Changed(T), NEW s, s \notin T
  PROVE  HolderOf(s)' = HolderOf(s)
<1>1. HolderOf(s)' = HolderIn(objects', s) /\ HolderOf(s) = HolderIn(objects, s)
  BY DEF HolderOf, HolderIn, Ids, Root
<1>2. /\ DOMAIN objects \subseteq DOMAIN objects'
      /\ \A n \in DOMAIN objects : objects'[n].slot = objects[n].slot
      /\ \A n \in DOMAIN objects' : n \in DOMAIN objects \/ objects'[n].slot # s
  BY DEF Changed, Ids
<1> QED
  BY <1>1, <1>2, HolderSame

LEMMA ChangedSlots ==
  ASSUME NEW T, Changed(T)
  PROVE  /\ \A p \in {Root} \cup Ids : SlotOf(p)' = SlotOf(p)
         /\ \A p \in Ids : SlotOf(p) = objects[p].slot /\ SlotOf(p) \in UserSlots
         /\ \A s \in UserSlots \ T : SequenceOf(s)' = SequenceOf(s) /\ (Parsed(s)' <=> Parsed(s))
<1>1. \A p \in Ids : p # Root
  BY ObjectIs DEF Changed, Root
<1>2. \A p \in Ids : SlotOf(p) = objects[p].slot /\ SlotOf(p)' = objects'[p].slot
  BY <1>1 DEF SlotOf
<1>3. SlotOf(Root)' = SlotOf(Root)
  BY DEF SlotOf
<1>4. \A p \in Ids : objects'[p].slot = objects[p].slot /\ objects[p].slot \in UserSlots
  BY ObjectIs DEF Changed
<1>5. ASSUME NEW s \in UserSlots \ T
      PROVE  SequenceOf(s)' = SequenceOf(s) /\ (Parsed(s)' <=> Parsed(s))
  <2>1. s \in Slots /\ Block(s)' = Block(s) /\ VolumeType /\ VolumeType'
    BY NumbersAre DEF Changed
  <2>2. SequenceOf(s) = IF Block(s)[1].kind = "mft" THEN Block(s)[1].head.sequence ELSE 0
    BY <2>1, HeaderIs
  <2>3. SequenceOf(s)' = IF Block(s)'[1].kind = "mft" THEN Block(s)'[1].head.sequence ELSE 0
    <3>1. Header(s)' = Block(s)'[1]
      BY <2>1, SlotClustersAre DEF Header, Block, SlotClusters, Strides
    <3> QED
      BY <3>1 DEF SequenceOf, Used
  <2>4. Parsed(s)' <=> Parsed(s)
    BY <2>1 DEF Parsed
  <2> QED
    BY <2>1, <2>2, <2>3, <2>4
<1> QED
  BY <1>2, <1>3, <1>4, <1>5

(* A reference holds as long as sequence numbers only grow, and grow for an object that
   loses its slot, or its life when the host counts at a delete. *)
LEMMA ChangedRef ==
  ASSUME NEW T, Changed(T), Exact,
         \A t \in T : SequenceOf(t) \in Nat /\ SequenceOf(t)' \in Nat /\ SequenceOf(t) <= SequenceOf(t)',
         \A t \in T : \A p \in Ids :
           /\ objects[p].slot = t
           /\ HolderOf(t)' # p \/ (habit = "delete" /\ ~objects'[p].live)
           => SequenceOf(t) < SequenceOf(t)' \/ HolderOf(t) # p \/ (habit = "delete" /\ ~objects[p].live),
         NEW ref \in References, NEW p, RefHolds(ref, p)
  PROVE  RefHolds(ref, p)'
<1>1. p \in {Root} \cup Ids /\ p \in {Root} \cup Ids' /\ ref.record = SlotOf(p)
  BY DEF RefHolds, Changed
<1>2. ref.record = SlotOf(p)'
  BY <1>1, ChangedSlots
<1>3. CASE p = Root
  BY <1>1, <1>2, <1>3 DEF RefHolds
<1>4. CASE p # Root
  <2>0. PICK s : s = objects[p].slot
    OBVIOUS
  <2>1. p \in Ids /\ SlotOf(p) = s /\ SlotOf(p)' = s /\ s \in UserSlots
    BY <1>1, <1>4, <2>0, ChangedSlots
  <2>2. ref.sequence \in Nat /\ habit' = habit
    BY DEF References, Changed
  <2>3. /\ ref.sequence <= SequenceOf(s)
        /\ HolderOf(s) # p \/ (habit = "delete" /\ ~objects[p].live) => ref.sequence < SequenceOf(s)
    BY <1>4, <2>1 DEF RefHolds
  <2>4. /\ ref.sequence <= SequenceOf(s)'
        /\ HolderOf(s)' # p \/ (habit = "delete" /\ ~objects'[p].live) => ref.sequence < SequenceOf(s)'
    <3>1. CASE s \notin T
      <4>1. objects'[p] = objects[p]
        BY <2>0, <2>1, <3>1 DEF Changed
      <4>2. HolderOf(s)' = HolderOf(s)
        BY <3>1, ChangedHolder
      <4>3. SequenceOf(s)' = SequenceOf(s)
        BY <2>1, <3>1, ChangedSlots
      <4> QED
        BY <2>3, <4>1, <4>2, <4>3
    <3>2. CASE s \in T
      <4>1. SequenceOf(s) \in Nat /\ SequenceOf(s)' \in Nat /\ SequenceOf(s) <= SequenceOf(s)'
        BY <3>2
      <4>2. (HolderOf(s)' # p \/ (habit = "delete" /\ ~objects'[p].live)) =>
              SequenceOf(s) < SequenceOf(s)' \/ HolderOf(s) # p \/ (habit = "delete" /\ ~objects[p].live)
        BY <2>0, <2>1, <3>2
      <4> QED
        BY <2>2, <2>3, <4>1, <4>2
    <3> QED
      BY <3>1, <3>2
  <2> QED
    BY <1>1, <1>2, <2>1, <2>2, <2>4 DEF RefHolds
<1> QED
  BY <1>3, <1>4

(* The records elsewhere stay exact. *)
LEMMA ChangedExact ==
  ASSUME NEW T, Changed(T), Exact,
         \A ref \in References : \A p : RefHolds(ref, p) => RefHolds(ref, p)',
         NEW s \in UserSlots \ T
  PROVE  SlotExact(s)'
<1>0. PICK b, n : b = Block(s) /\ n = HolderOf(s)
  OBVIOUS
<1>a. PICK o : o = objects[n]
  OBVIOUS
<1>1. Block(s)' = b
  BY <1>0 DEF Changed
<1>2. SlotExact(s)
  BY DEF Exact
<1>3. CASE b = <<Blank, Blank>>
  BY <1>1, <1>3 DEF SlotExact
<1>4. CASE b # <<Blank, Blank>>
  <2>1. RecordExact(s, b[1].usn, b[1].head, b[1].attrs, b[2].attrs)
    BY <1>0, <1>2, <1>4 DEF SlotExact
  <2> DEFINE head == b[1].head
             first == b[1].attrs
             second == b[2].attrs
  <2>2. ASSUME head.base = 0 PROVE ObjectRecord(s, head, first, second)'
    <3>1. ObjectRecord(s, head, first, second)
      BY <2>1, <2>2 DEF RecordExact
    <3>2. HolderOf(s)' = n
      BY <1>0, ChangedHolder
    <3>3. /\ n \in Ids /\ head.dir = o.dir /\ head.inUse = o.live
          /\ first \in Seq(FirstAttrs) /\ second = SecondStride(o, n) /\ NamesAre(first, n)
          /\ \E i \in DOMAIN first : isName(first[i]) /\ ~first[i].dos
          /\ \A i \in DOMAIN first : MayStand(first, i) => RefHolds(first[i].parent, o.links[1])
      BY <1>0, <1>a, <3>1 DEF ObjectRecord
    <3>4. objects[n].slot = s
      <4>1. n # Root
        BY <3>3, ObjectIs DEF Changed, Root
      <4> QED
        BY <1>0, <4>1, HolderFacts DEF Changed
    <3>5. objects'[n] = o /\ n \in Ids'
      BY <1>a, <3>3, <3>4 DEF Changed
    <3>6. \A i \in DOMAIN first : MayStand(first, i) => RefHolds(first[i].parent, o.links[1])'
      <4> SUFFICES ASSUME NEW i \in DOMAIN first, MayStand(first, i)
                   PROVE  RefHolds(first[i].parent, o.links[1])'
        OBVIOUS
      <4>1. first[i] \in FirstAttrs /\ isName(first[i])
        BY <3>3 DEF MayStand
      <4>2. first[i].parent \in References
        BY <4>1, FirstFit
      <4> QED
        BY <3>3, <4>2
    <3> QED
      BY <3>2, <3>3, <3>5, <3>6 DEF ObjectRecord
  <2> QED
    <3>1. /\ b = StridesOf(b[1].usn, head, first, second)
          /\ b[1].usn \in Nat /\ head \in Heads /\ IsSeq(first) /\ IsSeq(second)
      BY <1>0, <2>1 DEF RecordExact
    <3>2. RecordExact(s, b[1].usn, head, first, second)'
      BY <1>1, <2>2, <3>1 DEF RecordExact
    <3> QED
      BY SMTT(60), <1>1, <3>2 DEF SlotExact
<1> QED
  BY <1>3, <1>4


(* A live object elsewhere stays where it is, and so does its parent. *)
LEMMA ChangedLive ==
  ASSUME NEW T, Changed(T), Exact, NEW n \in LiveIds', objects'[n].slot \notin T,
         \A t \in T : \A p \in LiveIds :
           p = objects[n].links[1] /\ objects[p].slot = t => SequenceOf(t)' = SequenceOf(t)
  PROVE  LiveExact(n)'
<1>0. n \in Ids /\ objects'[n] = objects[n] /\ n \in LiveIds
  <2>1. n \in Ids' /\ objects'[n].live
    BY DEF LiveIds
  <2>2. n \in Ids
    BY <2>1 DEF Changed
  <2>3. objects'[n] = objects[n]
    BY <2>2 DEF Changed
  <2> QED
    BY <2>1, <2>2, <2>3 DEF LiveIds
<1>1. PICK s, p : s = objects[n].slot /\ p = objects[n].links[1]
  OBVIOUS
<1>2. s \in UserSlots \ T /\ p \in {Root} \cup LiveIds /\ p \in {Root} \cup Ids
  <2>1. ObjectsInv
    BY DEF Changed
  <2>2. objects[n].links \in Seq(Nat) /\ Len(objects[n].links) > 0 /\ LinksLead(objects[n], LiveIds)
    BY <1>0, <2>1, ObjectIs DEF ObjectsInv, LiveIds
  <2>3. 1 \in DOMAIN objects[n].links
    BY <2>2
  <2> QED
    BY <1>0, <1>1, <2>1, <2>2, <2>3, ObjectIs DEF LinksLead, LiveIds
<1>3. PICK b : b = Block(s)
  OBVIOUS
<1>4. Block(s)' = b
  BY <1>2, <1>3 DEF Changed
<1>5. /\ b[1].kind = "mft" /\ b[1].head.base = 0
      /\ p # Root => \A i \in DOMAIN b[1].attrs :
           MayStand(b[1].attrs, i) => b[1].attrs[i].parent.sequence = SequenceOf(SlotOf(p))
  BY <1>0, <1>1, <1>3 DEF Exact, LiveExact
<1>6. p # Root => SequenceOf(SlotOf(p))' = SequenceOf(SlotOf(p))
  <2> SUFFICES ASSUME p # Root PROVE SequenceOf(SlotOf(p))' = SequenceOf(SlotOf(p))
    OBVIOUS
  <2>1. PICK t : t = objects[p].slot
    OBVIOUS
  <2>2. p \in LiveIds /\ SlotOf(p) = t /\ SlotOf(p)' = t /\ t \in UserSlots
    BY <1>2, <2>1, ChangedSlots
  <2>3. SequenceOf(t)' = SequenceOf(t)
    BY <1>1, <2>1, <2>2, ChangedSlots
  <2> QED
    BY <2>2, <2>3
<1> QED
  BY <1>0, <1>1, <1>4, <1>5, <1>6 DEF LiveExact

(* A reference stays sound when what parses in T is the record that did before. *)
LEMMA ChangedRefSound ==
  ASSUME NEW T, Changed(T),
         \A t \in T : Parsed(t)' => /\ Parsed(t) /\ HolderOf(t)' = HolderOf(t)
                                    /\ Block(t)'[1].head.sequence = Block(t)[1].head.sequence,
         NEW ref, NEW p, RefSound(ref, p)
  PROVE  RefSound(ref, p)'
<1>1. p \in {Root} \cup Ids /\ p \in {Root} \cup Ids' /\ ref.record = SlotOf(p)
  BY DEF RefSound, Changed
<1>2. ref.record = SlotOf(p)'
  BY <1>1, ChangedSlots
<1>3. CASE p = Root
  BY <1>1, <1>2, <1>3 DEF RefSound
<1>4. CASE p # Root
  <2>0. PICK s : s = objects[p].slot
    OBVIOUS
  <2>1. p \in Ids /\ SlotOf(p) = s /\ SlotOf(p)' = s /\ s \in UserSlots
    BY <1>1, <1>4, <2>0, ChangedSlots
  <2>2. Parsed(s) /\ Block(s)[1].head.sequence = ref.sequence => HolderOf(s) = p
    BY <1>4, <2>1 DEF RefSound
  <2>3. Parsed(s)' => /\ Parsed(s) /\ HolderOf(s)' = HolderOf(s)
                      /\ Block(s)'[1].head.sequence = Block(s)[1].head.sequence
    <3>1. CASE s \in T
      BY <3>1
    <3>2. CASE s \notin T
      <4>1. Block(s)' = Block(s) /\ HolderOf(s)' = HolderOf(s)
        BY <2>1, <3>2, ChangedHolder DEF Changed
      <4> QED
        BY <2>1, <3>2, <4>1, ChangedSlots
    <3> QED
      BY <3>1, <3>2
  <2> QED
    BY <1>1, <1>2, <2>1, <2>2, <2>3 DEF RefSound
<1> QED
  BY <1>3, <1>4

(* The records elsewhere stay sound. *)
LEMMA ChangedSound ==
  ASSUME NEW T, Changed(T), SoundInv,
         \A ref : \A p : RefSound(ref, p) => RefSound(ref, p)',
         NEW s \in UserSlots \ T
  PROVE  Sound(s)'
<1>0. PICK b, n : b = Block(s) /\ n = HolderOf(s)
  OBVIOUS
<1>a. PICK o : o = objects[n]
  OBVIOUS
<1>1. Block(s)' = b /\ HolderOf(s)' = n
  BY <1>0, ChangedHolder DEF Changed
<1> DEFINE head == b[1].head
           first == b[1].attrs
           second == b[2].attrs
<1>2. SUFFICES ASSUME Parsed(s)' PROVE RecordSound(s, head, first, second)'
  BY <1>1 DEF Sound
<1>3. RecordSound(s, head, first, second)
  BY <1>0, <1>2, ChangedSlots DEF SoundInv, Sound
<1>4. /\ n \in Ids /\ head.dir = o.dir /\ head.inUse = o.live
      /\ IsSeq(first) /\ IsSeq(second) /\ NamesAre(first, n)
      /\ \A i \in DOMAIN first : first[i].type # "data"
      /\ \A i \in DOMAIN second : second[i].type = "data"
      /\ \A i \in DOMAIN first : isName(first[i]) => first[i].dos \in BOOLEAN
      /\ \A i \in DOMAIN first : MayStand(first, i) => RefSound(first[i].parent, o.links[1])
      /\ \A i \in DOMAIN second : second[i].stream = "unnamed" => StreamOf(second[i], o, n)
      /\ ShowsWhole(o, first, second)
  BY <1>0, <1>a, <1>3 DEF RecordSound
<1>5. objects[n].slot = s
  <2>1. n # Root
    BY <1>4, ObjectIs DEF Changed, Root
  <2> QED
    BY <1>0, <2>1, HolderFacts DEF Changed
<1>6. objects'[n] = o /\ n \in Ids'
  BY <1>a, <1>4, <1>5 DEF Changed
<1>7. \A i \in DOMAIN first : MayStand(first, i) => RefSound(first[i].parent, o.links[1])'
  BY <1>4
<1> HIDE DEF head, first, second
<1> QED
  BY <1>1, <1>4, <1>6, <1>7 DEF RecordSound


-----------------------------------------------------------------------------
(***************************************************************************)
(* The names the host writes.                                              *)
(***************************************************************************)

LongName(o, n, i) == NameAttr(LinkOf(o.links[i]), n, FALSE)
AliasName(o, n) == NameAttr(LinkOf(o.links[1]), -n, TRUE)

(* The long names follow each other after k attributes; the others are no long names. *)
Spread(s, k, o, n) ==
  /\ IsSeq(s) /\ k \in Nat /\ k + Len(o.links) <= Len(s)
  /\ \A j \in 1..Len(o.links) : s[k + j] = LongName(o, n, j)
  /\ \A i \in 1..Len(s) : \/ i \in (k + 1)..(k + Len(o.links))
                          \/ s[i] \in {Std, ListAttr, AliasName(o, n)}

LEMMA SeqIs ==
  ASSUME NEW s, IsSeq(s)
  PROVE  /\ Len(s) \in Nat /\ DOMAIN s = 1..Len(s) /\ s = [i \in 1..Len(s) |-> s[i]]
         /\ \A S : (\A i \in 1..Len(s) : s[i] \in S) => s \in Seq(S)
<1>1. s \in Seq(Range(s))
  BY DEF IsSeq
<1>2. Len(s) \in Nat /\ DOMAIN s = 1..Len(s) /\ s = [i \in 1..Len(s) |-> s[i]]
  BY <1>1
<1> QED
  BY <1>2

LEMMA IsSeqIf ==
  ASSUME NEW S, NEW s \in Seq(S)
  PROVE  IsSeq(s)
<1>1. Len(s) \in Nat /\ DOMAIN s = 1..Len(s) /\ s = [i \in 1..Len(s) |-> s[i]]
  OBVIOUS
<1>2. \A i \in 1..Len(s) : s[i] \in Range(s)
  BY <1>1 DEF Range
<1> QED
  BY <1>1, <1>2 DEF IsSeq

LEMMA SpreadAfter ==
  ASSUME NEW o, NEW n, o.links \in Seq(Nat), NEW s, NEW k, Spread(s, k, o, n),
         NEW x \in {Std, ListAttr, AliasName(o, n)}
  PROVE  Spread(<<x>> \o s, k + 1, o, n)
<1> DEFINE m == Len(o.links)
           r == <<x>> \o s
           A == {Std, ListAttr, AliasName(o, n)}
           S == Range(s) \cup A
<1>1. /\ IsSeq(s) /\ k \in Nat /\ k + m <= Len(s) /\ m \in Nat
      /\ \A j \in 1..m : s[k + j] = LongName(o, n, j)
      /\ \A i \in 1..Len(s) : i \in (k + 1)..(k + m) \/ s[i] \in A
  BY DEF Spread
<1>2. Len(s) \in Nat /\ s \in Seq(S) /\ x \in S
  BY <1>1, SeqIs DEF Range
<1> HIDE DEF S, A, m
<1>3. /\ r \in Seq(S) /\ Len(r) = Len(s) + 1 /\ r[1] = x
      /\ \A i \in 1..Len(s) : r[i + 1] = s[i]
  BY <1>2
<1> HIDE DEF r
<1>4. ASSUME NEW j \in 1..m PROVE r[(k + 1) + j] = LongName(o, n, j)
  <2>1. k + j \in 1..Len(s) /\ (k + 1) + j = (k + j) + 1
    BY <1>1, <1>2
  <2> QED
    BY <1>1, <1>3, <2>1
<1>5. ASSUME NEW i \in 1..Len(r) PROVE i \in (k + 1 + 1)..(k + 1 + m) \/ r[i] \in A
  <2>1. CASE i = 1
    BY <1>3, <2>1 DEF A
  <2>2. CASE i # 1
    <3>1. i - 1 \in 1..Len(s) /\ r[i] = s[i - 1]
      BY <1>2, <1>3, <2>2
    <3>2. i - 1 \in (k + 1)..(k + m) => i \in (k + 1 + 1)..(k + 1 + m)
      BY <1>1, <3>1
    <3> QED
      BY <1>1, <3>1, <3>2
  <2> QED
    BY <2>1, <2>2
<1>6. IsSeq(r)
  BY <1>3, IsSeqIf
<1>7. k + 1 \in Nat /\ k + 1 + m <= Len(r)
  BY <1>1, <1>2, <1>3
<1>8. Spread(r, k + 1, o, n)
  BY <1>4, <1>5, <1>6, <1>7 DEF Spread, A, m
<1> QED
  BY <1>8 DEF r

LEMMA SpreadNames ==
  ASSUME NEW o \in Object, Len(o.links) > 0, NEW n
  PROVE  \E k : Spread(NamesOf(o, n), k, o, n)
<1> DEFINE m == Len(o.links)
           longs == [i \in DOMAIN o.links |-> LongName(o, n, i)]
           alias == AliasName(o, n)
           S == {LongName(o, n, i) : i \in 1..m} \cup {alias}
<1>1. o.links \in Seq(Nat) /\ m \in Nat /\ DOMAIN o.links = 1..m /\ o.alias \in {"none", "first", "last"}
  BY DEF Object
<1>2. NamesOf(o, n) = CASE o.alias = "none" -> longs
                        [] o.alias = "first" -> <<alias>> \o longs
                        [] o.alias = "last" -> longs \o <<alias>>
  BY DEF NamesOf, LongName, AliasName
<1>3. longs \in Seq(S) /\ Len(longs) = m /\ \A i \in 1..m : longs[i] = LongName(o, n, i)
  <2>1. longs = [i \in 1..m |-> LongName(o, n, i)] /\ \A i \in 1..m : LongName(o, n, i) \in S
    BY <1>1
  <2> HIDE DEF S, m
  <2> QED
    BY <1>1, <2>1
<1> HIDE DEF m, longs
<1>4. Spread(longs, 0, o, n)
  <2>1. IsSeq(longs)
    BY <1>3, IsSeqIf
  <2>2. \A j \in 1..m : longs[0 + j] = LongName(o, n, j)
    BY <1>1, <1>3
  <2>3. \A i \in 1..m : i \in (0 + 1)..(0 + m)
    BY <1>1
  <2> QED
    BY <1>1, <1>3, <2>1, <2>2, <2>3 DEF Spread, m
<1>5. CASE o.alias = "none"
  BY <1>2, <1>4, <1>5
<1>6. CASE o.alias = "first"
  <2>1. NamesOf(o, n) = <<alias>> \o longs
    BY <1>2, <1>6
  <2>2. Spread(<<alias>> \o longs, 0 + 1, o, n)
    BY <1>1, <1>4, SpreadAfter
  <2> QED
    BY <2>1, <2>2
<1>7. CASE o.alias = "last"
  <2> DEFINE r == longs \o <<alias>>
  <2>1. NamesOf(o, n) = r
    BY <1>2, <1>7
  <2>2. alias \in S
    OBVIOUS
  <2> HIDE DEF S, alias
  <2>3. /\ r \in Seq(S) /\ Len(r) = m + 1 /\ r[m + 1] = alias
        /\ \A i \in 1..m : r[i] = longs[i]
    BY SMTT(60), <1>1, <1>3, <2>2
  <2> HIDE DEF r
  <2>4. IsSeq(r)
    BY <2>3, IsSeqIf
  <2>5. \A j \in 1..m : r[0 + j] = LongName(o, n, j)
    BY <1>1, <1>3, <2>3
  <2>6. \A i \in 1..(m + 1) : i \in (0 + 1)..(0 + m) \/ r[i] = alias
    BY <1>1, <2>3
  <2>7. Spread(r, 0, o, n)
    BY <1>1, <2>3, <2>4, <2>5, <2>6 DEF Spread, m, alias
  <2> QED
    BY <2>1, <2>7
<1> QED
  BY <1>1, <1>5, <1>6, <1>7

LEMMA SpreadFirst ==
  ASSUME NEW o \in Object, Len(o.links) > 0, NEW n
  PROVE  \E k : Spread(FirstStride(o, n), k, o, n)
<1>1. PICK k : Spread(NamesOf(o, n), k, o, n)
  BY SpreadNames
<1>2. o.links \in Seq(Nat) /\ IsSeq(NamesOf(o, n)) /\ k \in Nat
  BY <1>1 DEF Object, Spread
<1>3. NamesOf(o, n) \in Seq(Range(NamesOf(o, n)))
  BY <1>2 DEF IsSeq
<1> DEFINE names == NamesOf(o, n)
           S == Range(names) \cup {Std, ListAttr}
<1>4. names \in Seq(S) /\ Std \in S /\ ListAttr \in S
  BY <1>2, SeqIs DEF Range
<1>5. CASE o.place = "base"
  <2>1. FirstStride(o, n) = <<Std>> \o <<>> \o names
    BY <1>5 DEF FirstStride
  <2> HIDE DEF names, S
  <2>2. <<Std>> \o <<>> \o names = <<Std>> \o names
    BY <1>4
  <2>3. Spread(<<Std>> \o names, k + 1, o, n)
    BY <1>1, <1>2, SpreadAfter DEF names
  <2> QED
    BY <2>1, <2>2, <2>3
<1>6. CASE o.place # "base"
  <2>1. FirstStride(o, n) = <<Std>> \o <<ListAttr>> \o names
    BY <1>6 DEF FirstStride
  <2>2. Spread(<<ListAttr>> \o names, k + 1, o, n)
    BY <1>1, <1>2, SpreadAfter
  <2>3. Spread(<<Std>> \o (<<ListAttr>> \o names), k + 1 + 1, o, n)
    BY <1>2, <2>2, SpreadAfter
  <2> HIDE DEF names, S
  <2>4. <<Std>> \o <<ListAttr>> \o names = <<Std>> \o (<<ListAttr>> \o names)
    BY <1>4
  <2> QED
    BY <2>1, <2>3, <2>4
<1> QED
  BY <1>5, <1>6


LEMMA NameIn ==
  ASSUME NEW ref \in References, NEW name \in Int, NEW dos \in BOOLEAN
  PROVE  NameAttr(ref, name, dos) \in FirstAttrs
BY DEF NameAttr, FirstAttrs

LEMMA PlainFields ==
  /\ Std \in FirstAttrs /\ ListAttr \in FirstAttrs /\ ~isName(Std) /\ ~isName(ListAttr)
BY DEF Std, ListAttr, FirstAttrs, isName

LEMMA RefIs ==
  ASSUME VolumeType, ObjectsInv, Exact, ZeroInv, NEW p \in {Root} \cup Ids
  PROVE  LinkOf(p) \in References /\ LinkOf(p).record = SlotOf(p)
         /\ (p # Root => LinkOf(p).sequence = SequenceOf(SlotOf(p)))
<1>1. SlotOf(p) \in Nat
  BY ObjectIs, NumbersAre DEF SlotOf
<1>2. p # Root => SlotOf(p) \in UserSlots
  BY ObjectIs DEF SlotOf
<1>3. p # Root => SequenceOf(SlotOf(p)) \in Nat
  BY <1>2, ExactSlot DEF Exact
<1>4. p = Root => SequenceOf(SlotOf(p)) \in Nat
  BY DEF ZeroInv, SlotOf
<1> QED
  BY <1>1, <1>3, <1>4 DEF LinkOf, References

(* What FirstStride writes: names of the object, the preferred one in its first link. *)
LEMMA FirstWritten ==
  ASSUME NEW o \in Object, Len(o.links) > 0, NEW n \in Nat, NEW first, first = FirstStride(o, n),
         \A i \in 1..Len(o.links) : LinkOf(o.links[i]) \in References
  PROVE  /\ first \in Seq(FirstAttrs) /\ IsSeq(first) /\ NamesAre(first, n)
         /\ \E i \in DOMAIN first : isName(first[i]) /\ ~first[i].dos
         /\ \A i \in DOMAIN first : MayStand(first, i) => first[i].parent = LinkOf(o.links[1])
<1> DEFINE m == Len(o.links)
           alias == AliasName(o, n)
<1>1. PICK k : Spread(first, k, o, n)
  BY SpreadFirst
<1>2. m \in Nat /\ 1 \in 1..m
  BY DEF Object
<1>3. /\ IsSeq(first) /\ k \in Nat /\ k + m <= Len(first)
      /\ \A j \in 1..m : first[k + j] = LongName(o, n, j)
      /\ \A i \in 1..Len(first) : i \in (k + 1)..(k + m) \/ first[i] \in {Std, ListAttr, alias}
  BY <1>1 DEF Spread
<1>4. Len(first) \in Nat /\ DOMAIN first = 1..Len(first)
  BY <1>3, SeqIs
<1>5. /\ isName(alias) /\ alias.name = -n /\ alias.dos = TRUE /\ alias.parent = LinkOf(o.links[1])
      /\ alias \in FirstAttrs
  <2>0. -n \in Int
    OBVIOUS
  <2>1. /\ isName(alias) /\ alias.name = -n /\ alias.dos = TRUE /\ alias.parent = LinkOf(o.links[1])
    <3> DEFINE ref == LinkOf(o.links[1])
               name == -n
    <3>1. alias = NameAttr(ref, name, TRUE)
      BY DEF AliasName
    <3> HIDE DEF ref, name, alias
    <3>2. isName(alias) /\ alias.name = name /\ alias.dos = TRUE /\ alias.parent = ref
      BY <3>1 DEF NameAttr, isName
    <3> QED
      BY <3>2 DEF ref, name
  <2>2. LinkOf(o.links[1]) \in References
    BY <1>2
  <2> QED
    BY <2>0, <2>1, <2>2, NameIn DEF AliasName
<1>6. ASSUME NEW j \in 1..m
      PROVE  LET a == LongName(o, n, j) IN
             /\ a \in FirstAttrs
             /\ isName(a) /\ a.name = n /\ a.dos = FALSE /\ a.parent = LinkOf(o.links[j])
  <2> DEFINE ref == LinkOf(o.links[j])
             a == LongName(o, n, j)
  <2>1. ref \in References /\ a = NameAttr(ref, n, FALSE) /\ n \in Int
    BY DEF LongName
  <2> HIDE DEF ref, a
  <2>2. isName(a) /\ a.name = n /\ a.dos = FALSE /\ a.parent = ref
    BY <2>1 DEF NameAttr, isName
  <2>3. a \in FirstAttrs
    BY <2>1, NameIn
  <2> QED
    BY <2>2, <2>3 DEF ref, a
<1> HIDE DEF m, alias
<1>7. ASSUME NEW i \in 1..Len(first)
      PROVE  /\ first[i] \in FirstAttrs
             /\ \/ ~isName(first[i])
                \/ first[i] = alias
                \/ i - k \in 1..m /\ first[i] = LongName(o, n, i - k)
  <2>1. CASE i \in (k + 1)..(k + m)
    <3>1. i - k \in 1..m /\ k + (i - k) = i
      BY <1>2, <1>3, <2>1
    <3> QED
      BY <1>3, <1>6, <3>1
  <2>2. CASE i \notin (k + 1)..(k + m)
    BY <1>3, <1>5, <2>2, PlainFields
  <2> QED
    BY <2>1, <2>2
<1>8. first \in Seq(FirstAttrs)
  BY <1>3, <1>7, SeqIs
<1>9. NamesAre(first, n)
  <2> SUFFICES ASSUME NEW i \in 1..Len(first), isName(first[i])
               PROVE  first[i].name = IF first[i].dos THEN -n ELSE n
    BY <1>4 DEF NamesAre
  <2> QED
    BY <1>5, <1>6, <1>7
<1>10. k + 1 \in 1..Len(first) /\ isName(first[k + 1]) /\ first[k + 1].dos = FALSE
  <2>1. k + 1 \in 1..Len(first)
    BY <1>2, <1>3, <1>4
  <2>2. first[k + 1] = LongName(o, n, 1)
    BY <1>2, <1>3
  <2> QED
    BY <1>2, <1>6, <2>1, <2>2
<1>11. ASSUME NEW i \in 1..Len(first), MayStand(first, i) PROVE first[i].parent = LinkOf(o.links[1])
  <2>1. isName(first[i]) /\ (first[i].dos \/ \A j \in 1..(i - 1) : isName(first[j]) => first[j].dos)
    BY <1>11 DEF MayStand
  <2>2. CASE first[i] = alias
    BY <1>5, <2>2
  <2>3. CASE i - k \in 1..m /\ first[i] = LongName(o, n, i - k)
    <3>1. ~first[i].dos
      BY <1>6, <2>3
    <3>2. ~(k + 1 \in 1..(i - 1))
      BY <1>10, <2>1, <3>1
    <3>3. i - k = 1
      BY <1>2, <1>3, <2>3, <3>2
    <3> QED
      BY <1>6, <2>3, <3>3
  <2> QED
    BY <1>7, <2>1, <2>2, <2>3
<1> QED
  BY <1>3, <1>4, <1>8, <1>9, <1>10, <1>11

(* A write that reaches both strides leaves the new record; one that reaches only one
   leaves a record that does not parse. *)
LEMMA BlocksWritten ==
  ASSUME VolumeType, layout' = layout, NEW t \in UserSlots, SlotExact(t), NEW head, NEW first, NEW second,
         NEW reached \in Reaches, disk' = Written(disk, t, head, first, second, reached)
  PROVE  /\ DOMAIN disk' = VolumeMap /\ disk' = [c \in VolumeMap |-> disk'[c]]
         /\ \A s \in Slots \ {t} : Block(s)' = Block(s)
         /\ Whole(reached) => Block(t)' = StridesOf(UsnOf(t) + 1, head, first, second)
         /\ ~Whole(reached) => ~Parsed(t)'
<1> DEFINE new == StridesOf(UsnOf(t) + 1, head, first, second)
<1>1. t \in Slots /\ reached \in SUBSET (1..2)
  BY NumbersAre DEF Reaches, Strides
<1>2. /\ DOMAIN disk' = VolumeMap /\ disk' = [c \in VolumeMap |-> disk'[c]]
      /\ \A s \in Slots : \A i \in 1..2 :
           disk'[SlotClusters(s)[i]] = IF s = t /\ i \in reached THEN new[i] ELSE disk[SlotClusters(s)[i]]
  BY <1>1, WrittenIs
<1>3. \A s : SlotClusters(s)' = SlotClusters(s)
  BY DEF SlotClusters
<1>4. \A s : Block(s)' = [i \in 1..2 |-> disk'[SlotClusters(s)[i]]]
  BY <1>3 DEF Block, Strides
<1>5. \A s : Block(s) = [i \in 1..2 |-> disk[SlotClusters(s)[i]]]
  BY DEF Block, Strides
<1> HIDE DEF new
<1>6. ASSUME NEW s \in Slots \ {t} PROVE Block(s)' = Block(s)
  <2>1. \A i \in 1..2 : disk'[SlotClusters(s)[i]] = disk[SlotClusters(s)[i]]
    BY <1>2
  <2> QED
    BY <1>4, <1>5, <2>1
<1>7. Whole(reached) => Block(t)' = new
  <2> SUFFICES ASSUME Whole(reached) PROVE Block(t)' = new
    OBVIOUS
  <2>1. \A i \in 1..2 : disk'[SlotClusters(t)[i]] = new[i]
    BY <1>1, <1>2 DEF Whole, Strides
  <2>2. Block(t)' = [i \in 1..2 |-> new[i]]
    BY <1>4, <2>1
  <2>3. new = [i \in 1..2 |-> new[i]]
    BY DEF new, StridesOf
  <2> QED
    BY <2>2, <2>3
<1>8. ASSUME ~Whole(reached) PROVE ~Parsed(t)'
  <2>1. reached = {1} \/ reached = {2}
    BY <1>8 DEF Reaches, Whole, Strides
  <2>2. \A i \in 1..2 : Block(t)'[i] = IF i \in reached THEN new[i] ELSE Block(t)[i]
    BY <1>1, <1>2, <1>4, <1>5
  <2>3. new[1].usn = UsnOf(t) + 1 /\ new[2].usn = UsnOf(t) + 1
    BY StridesAre DEF new
  <2>4. \/ Block(t)[1].kind = "blank" /\ Block(t)[2].kind = "blank"
        \/ Block(t)[1].usn = UsnOf(t) /\ Block(t)[2].usn = UsnOf(t)
    BY <1>1, ExactSlot, HeaderIs
  <2>5. UsnOf(t) \in Nat
    BY ExactSlot
  <2>6. Parsed(t)' => /\ Block(t)'[1].kind = "mft" /\ Block(t)'[2].kind = "mft"
                      /\ Block(t)'[2].usn = Block(t)'[1].usn
    BY DEF Parsed, applyUpdateSequenceFixup, Strides
  <2> QED
    BY <2>1, <2>2, <2>3, <2>4, <2>5, <2>6
<1> QED
  BY <1>2, <1>6, <1>7, <1>8 DEF new


-----------------------------------------------------------------------------
(***************************************************************************)
(* The host's steps.                                                       *)
(***************************************************************************)

LEMMA LiveHolder ==
  ASSUME ObjectsInv', NEW n \in LiveIds', NEW t, objects'[n].slot = t
  PROVE  HolderOf(t)' = n
<1>1. objects' \in Seq(Object) /\ n \in DOMAIN objects' /\ objects'[n].live
  BY DEF ObjectsInv, LiveIds, Ids
<1>2. \A k, m \in DOMAIN objects' : k < m /\ objects'[m].slot = objects'[k].slot => ~objects'[k].live
  BY DEF ObjectsInv, Ids
<1> DEFINE N == Len(objects')
<1>3. N \in Nat /\ DOMAIN objects' = 1..N
  BY <1>1
<1> HIDE DEF N
<1>4. \A m \in 1..N : objects'[m].slot = t => m <= n
  BY <1>1, <1>2, <1>3
<1>5. HolderIn(objects', t) = n
  BY <1>1, <1>3, <1>4, HolderIs
<1> QED
  BY <1>5 DEF HolderOf, HolderIn, Ids, Root

(* What the host keeps in mind when it changes objects it already has. *)
LEMMA ObjectsKept ==
  ASSUME ObjectsInv, objects' \in Seq(Object), Len(objects') = Len(objects),
         \A n \in Ids : /\ objects'[n].slot = objects[n].slot
                        /\ objects'[n].live => objects[n].live
                        /\ Len(objects'[n].links) > 0 /\ LinksLead(objects'[n], Ids)
                        /\ objects'[n].live => LinksLead(objects'[n], LiveIds')
                        /\ SizeFits(objects'[n])
  PROVE  ObjectsInv' /\ Ids' = Ids
<1>1. Ids' = Ids
  <2>1. Ids = 1..Len(objects)
    BY ObjectIs
  <2>2. Ids' = 1..Len(objects')
    BY DEF Ids
  <2> QED
    BY <2>1, <2>2
<1>2. \A n \in Ids : objects[n].live \in BOOLEAN
  BY ObjectIs
<1>3. \A n, m \in Ids : n < m /\ objects'[m].slot = objects'[n].slot => ~objects'[n].live
  BY DEF ObjectsInv
<1> QED
  BY <1>1, <1>3 DEF ObjectsInv

(* A reference the host writes now holds. *)
LEMMA RefNow ==
  ASSUME NEW T, Changed(T), Exact, ZeroInv, NEW p \in {Root} \cup LiveIds, NEW ref, ref = LinkOf(p),
         \A t : p # Root /\ t = objects[p].slot => p \in LiveIds' /\ SequenceOf(t)' = SequenceOf(t)
  PROVE  /\ ref \in References /\ RefHolds(ref, p)'
         /\ p # Root => ref.sequence = SequenceOf(SlotOf(p))'
<1>1. p \in {Root} \cup Ids /\ p \in {Root} \cup Ids'
  BY DEF Changed, LiveIds
<1>2. ref \in References /\ ref.record = SlotOf(p) /\ (p # Root => ref.sequence = SequenceOf(SlotOf(p)))
  BY <1>1, RefIs DEF Changed
<1>3. ref.record = SlotOf(p)'
  BY <1>1, <1>2, ChangedSlots
<1>4. CASE p = Root
  BY <1>1, <1>2, <1>3, <1>4 DEF RefHolds
<1>5. CASE p # Root
  <2>1. PICK t : t = objects[p].slot
    OBVIOUS
  <2>2. p \in Ids /\ SlotOf(p) = t /\ SlotOf(p)' = t /\ objects'[p].slot = t
    BY <1>1, <1>5, <2>1, ChangedSlots DEF Changed
  <2>3. p \in LiveIds' /\ SequenceOf(t)' = SequenceOf(t)
    BY <1>5, <2>1
  <2>4. HolderOf(t)' = p /\ objects'[p].live
    BY <2>2, <2>3, LiveHolder DEF Changed, LiveIds
  <2>5. ref.sequence = SequenceOf(t)' /\ ref.sequence \in Nat
    BY <1>2, <1>5, <2>2, <2>3 DEF References
  <2> QED
    BY <1>1, <1>2, <1>3, <2>2, <2>4, <2>5 DEF RefHolds
<1> QED
  BY <1>4, <1>5

LEMMA HeadsAre ==
  ASSUME NEW o \in Object, NEW sequence \in Nat
  PROVE  /\ HeadOf(o, sequence) \in Heads /\ HeadOf(o, sequence).base = 0
         /\ HeadOf(o, sequence).dir = o.dir /\ HeadOf(o, sequence).inUse = o.live
         /\ HeadOf(o, sequence).sequence = sequence
<1>1. o.dir \in BOOLEAN /\ o.live \in BOOLEAN
  BY DEF Object
<1> QED
  BY <1>1 DEF HeadOf, Heads

(* An object that was written whole is exact. *)
LEMMA ObjectWritten ==
  ASSUME NEW T, Changed(T), Exact, ZeroInv, NEW t \in UserSlots, NEW n \in LiveIds', NEW o, objects'[n] = o,
         o.slot = t, SizeFits(o), LinksLead(o, LiveIds), Len(o.links) > 0,
         NEW usn \in Nat, NEW sequence \in Nat, NEW first, first = FirstStride(o, n),
         Block(t)' = StridesOf(usn, HeadOf(o, sequence), first, SecondStride(o, n)),
         \A s : \A p \in LiveIds : p = o.links[1] /\ s = objects[p].slot =>
                  p \in LiveIds' /\ SequenceOf(s)' = SequenceOf(s)
  PROVE  SlotExact(t)' /\ LiveExact(n)'
<1>1. PICK head, second, ref, p : /\ head = HeadOf(o, sequence) /\ second = SecondStride(o, n)
                                  /\ ref = LinkOf(o.links[1]) /\ p = o.links[1]
  OBVIOUS
<1>2. n \in Ids' /\ n \in Nat /\ o \in Object /\ o.live
  <2>1. objects' \in Seq(Object)
    BY DEF Changed, ObjectsInv
  <2> HIDE DEF Object
  <2> QED
    BY <2>1 DEF LiveIds, Ids
<1>3. o.links \in Seq(Nat) /\ 1 \in 1..Len(o.links) /\ DOMAIN o.links = 1..Len(o.links)
  BY <1>2 DEF Object
<1>4. \A i \in 1..Len(o.links) : o.links[i] \in {Root} \cup LiveIds
  BY <1>3 DEF LinksLead
<1>5. \A i \in 1..Len(o.links) : LinkOf(o.links[i]) \in References
  <2>1. \A i \in 1..Len(o.links) : o.links[i] \in {Root} \cup Ids
    BY <1>4 DEF LiveIds
  <2> QED
    BY <2>1, RefIs DEF Changed
<1>6. /\ first \in Seq(FirstAttrs) /\ IsSeq(first) /\ NamesAre(first, n)
      /\ \E i \in DOMAIN first : isName(first[i]) /\ ~first[i].dos
      /\ \A i \in DOMAIN first : MayStand(first, i) => first[i].parent = ref
  <2>1. o \in Object /\ n \in Nat /\ Len(o.links) > 0 /\ first = FirstStride(o, n)
    BY <1>2
  <2>2. /\ first \in Seq(FirstAttrs) /\ IsSeq(first) /\ NamesAre(first, n)
        /\ \E i \in DOMAIN first : isName(first[i]) /\ ~first[i].dos
        /\ \A i \in DOMAIN first : MayStand(first, i) => first[i].parent = LinkOf(o.links[1])
    BY ONLY <1>5, <2>1, FirstWritten
  <2> QED
    BY <1>1, <2>2
<1>7. RefHolds(ref, p)' /\ (p # Root => ref.sequence = SequenceOf(SlotOf(p))')
  <2>1. p \in {Root} \cup LiveIds
    BY <1>1, <1>3, <1>4
  <2>2. \A s : p # Root /\ s = objects[p].slot => p \in LiveIds' /\ SequenceOf(s)' = SequenceOf(s)
    BY <1>1, <2>1
  <2> QED
    BY <1>1, <2>1, <2>2, RefNow
<1>8. HolderOf(t)' = n
  BY LiveHolder DEF Changed
<1>9. IsSeq(second)
  BY <1>1, <1>2, SecondDescribes
<1>10. head \in Heads /\ head.base = 0 /\ head.dir = o.dir /\ head.inUse = o.live
  BY <1>1, <1>2, HeadsAre
<1>11. PICK b : b = Block(t)'
  OBVIOUS
<1>12. /\ b = StridesOf(usn, head, first, second)
       /\ b[1].usn = usn /\ b[1].head = head /\ b[1].attrs = first /\ b[2].attrs = second /\ b[1].kind = "mft"
  <2>1. b = StridesOf(usn, head, first, second)
    BY <1>1, <1>11
  <2> QED
    BY <2>1, StridesAre
<1>13. ObjectRecord(t, head, first, second)'
  <2>1. \A i \in DOMAIN first : MayStand(first, i) => RefHolds(first[i].parent, o.links[1])'
    BY <1>1, <1>6, <1>7
  <2> QED
    BY <1>1, <1>2, <1>6, <1>8, <1>10, <2>1 DEF ObjectRecord
<1>14. SlotExact(t)'
  <2>1. RecordExact(t, usn, head, first, second)'
    BY <1>6, <1>9, <1>10, <1>11, <1>12, <1>13 DEF RecordExact
  <2> QED
    BY <1>11, <1>12, <2>1 DEF SlotExact
<1>15. LiveExact(n)'
  BY <1>1, <1>6, <1>7, <1>10, <1>11, <1>12 DEF LiveExact
<1> QED
  BY <1>14, <1>15


LEMMA SequenceNext ==
  ASSUME NEW s
  PROVE  SequenceOf(s)' = IF Block(s)'[1].kind = "mft" THEN Block(s)'[1].head.sequence ELSE 0
<1>1. Header(s)' = Block(s)'[1]
  BY DEF Header, Block, Strides
<1> QED
  BY <1>1 DEF SequenceOf, Used

(* A change the host finished. *)
LEMMA ExactAfter ==
  ASSUME NEW T, Changed(T), Exact, unreadable' = {}, \A n \in Ids' : objects'[n].whole,
         \A t \in T : SequenceOf(t) \in Nat /\ SequenceOf(t)' \in Nat /\ SequenceOf(t) <= SequenceOf(t)',
         \A t \in T : \A p \in Ids :
           /\ objects[p].slot = t
           /\ HolderOf(t)' # p \/ (habit = "delete" /\ ~objects'[p].live)
           => SequenceOf(t) < SequenceOf(t)' \/ HolderOf(t) # p \/ (habit = "delete" /\ ~objects[p].live),
         \A t \in T : SlotExact(t)',
         \A n \in LiveIds' : objects'[n].slot \in T => LiveExact(n)',
         \A n \in LiveIds : \A t \in T : \A p \in LiveIds :
           /\ objects[n].slot \notin T
           /\ p = objects[n].links[1] /\ objects[p].slot = t
           => SequenceOf(t)' = SequenceOf(t)
  PROVE  Exact'
<1>1. \A ref \in References : \A p : RefHolds(ref, p) => RefHolds(ref, p)'
  BY ChangedRef
<1>2. \A s \in UserSlots : SlotExact(s)'
  BY <1>1, ChangedExact
<1>3. ASSUME NEW n \in LiveIds', objects'[n].slot \notin T PROVE LiveExact(n)'
  <2>1. n \in Ids /\ objects'[n] = objects[n] /\ n \in LiveIds
    <3>1. n \in Ids' /\ objects'[n].live
      BY DEF LiveIds
    <3>2. n \in Ids
      BY <1>3, <3>1 DEF Changed
    <3>3. objects'[n] = objects[n]
      BY <1>3, <3>2 DEF Changed
    <3> QED
      BY <3>1, <3>2, <3>3 DEF LiveIds
  <2> QED
    BY <1>3, <2>1, ChangedLive
<1>4. \A n \in LiveIds' : LiveExact(n)'
  BY <1>3
<1> QED
  BY <1>2, <1>4 DEF Exact

(* A change that left a record that does not parse. *)
LEMMA SoundAfter ==
  ASSUME NEW T, Changed(T), Exact,
         \A t \in T : Parsed(t)' => /\ Parsed(t) /\ HolderOf(t)' = HolderOf(t)
                                    /\ Block(t)'[1].head.sequence = Block(t)[1].head.sequence,
         \A t \in T : Sound(t)'
  PROVE  SoundInv'
<1>1. SoundInv
  BY ExactSound DEF Changed
<1>2. \A ref : \A p : RefSound(ref, p) => RefSound(ref, p)'
  BY ChangedRefSound
<1>3. \A s \in UserSlots \ T : Sound(s)'
  BY <1>1, <1>2, ChangedSound
<1> QED
  BY <1>3 DEF SoundInv

(* Record zero and the root's record are not the user's. *)
LEMMA ZeroAfter ==
  ASSUME ZeroInv, layout' = layout, \A s \in Slots \ UserSlots : Block(s)' = Block(s)
  PROVE  ZeroInv'
<1>1. 0 \in Slots \ UserSlots /\ kRootRecordNumber \in Slots \ UserSlots
  BY NumbersAre DEF Slots, UserSlots
<1>2. Block(0)' = Block(0) /\ Block(kRootRecordNumber)' = Block(kRootRecordNumber)
  BY <1>1
<1>3. SequenceOf(kRootRecordNumber) =
        IF Block(kRootRecordNumber)[1].kind = "mft" THEN Block(kRootRecordNumber)[1].head.sequence ELSE 0
  BY DEF SequenceOf, Used, Header, Block, Strides
<1>4. SequenceOf(kRootRecordNumber)' = SequenceOf(kRootRecordNumber)
  BY <1>2, <1>3, SequenceNext
<1>5. ZeroData' = ZeroData
  BY DEF ZeroData
<1> QED
  BY <1>2, <1>4, <1>5 DEF ZeroInv

(* The writing half of a host step. *)
LEMMA WriteStep ==
  ASSUME VolumeInv, running, NEW t \in UserSlots, NEW reached \in Reaches,
         NEW head, NEW first, NEW second, disk' = Written(disk, t, head, first, second, reached),
         Spend(reached), ObjectsInv', Ids \subseteq Ids',
         \A n \in Ids : /\ objects'[n].slot = objects[n].slot
                        /\ objects[n].slot # t => objects'[n] = objects[n],
         \A n \in Ids' : n \in Ids \/ objects'[n].slot = t
  PROVE  /\ VolumeType' /\ ZeroInv' /\ Changed({t}) /\ running' = Whole(reached) /\ unreadable' = {}
         /\ SequenceOf(t) \in Nat /\ UsnOf(t) + 1 \in Nat
         /\ Whole(reached) => Block(t)' = StridesOf(UsnOf(t) + 1, head, first, second)
         /\ ~Whole(reached) => SoundInv'
<1>1. /\ VolumeType /\ ObjectsInv /\ ZeroInv /\ Exact /\ SlotExact(t) /\ unreadable = {}
  BY DEF VolumeInv, Exact
<1>2. /\ layout' = layout /\ habit' = habit /\ unreadable' = unreadable /\ running' = Whole(reached)
  BY DEF Spend
<1>3. /\ DOMAIN disk' = VolumeMap /\ disk' = [c \in VolumeMap |-> disk'[c]]
      /\ \A s \in Slots \ {t} : Block(s)' = Block(s)
      /\ Whole(reached) => Block(t)' = StridesOf(UsnOf(t) + 1, head, first, second)
      /\ ~Whole(reached) => ~Parsed(t)'
  BY <1>1, <1>2, BlocksWritten
<1>4. VolumeType'
  BY <1>1, <1>2, <1>3 DEF VolumeType, Whole
<1>5. ZeroInv'
  BY <1>1, <1>2, <1>3, ZeroAfter
<1>6. Changed({t})
  <2>1. UserSlots \subseteq Slots
    BY NumbersAre
  <2> QED
    BY <1>1, <1>2, <1>3, <1>4, <2>1 DEF Changed
<1>7. SequenceOf(t) \in Nat /\ UsnOf(t) + 1 \in Nat
  BY <1>1, ExactSlot
<1>8. ~Whole(reached) => SoundInv'
  <2> SUFFICES ASSUME ~Whole(reached) PROVE SoundInv'
    OBVIOUS
  <2>1. ~Parsed(t)'
    BY <1>3
  <2>2. Sound(t)'
    BY <2>1 DEF Sound
  <2> QED
    BY <1>1, <1>6, <2>1, <2>2, SoundAfter
<1> QED
  BY <1>1, <1>2, <1>3, <1>4, <1>5, <1>6, <1>7, <1>8

(* What the host makes. *)
IsShape(shape) ==
  /\ shape.clusters \in Seq(VolumeMap \cup {Hole}) /\ shape.short \in 0..(ClusterBytes - 1)
  /\ shape.alias \in {"none", "first", "last"}

OneLink(o, parent) == DOMAIN o.links = 1..1 /\ Len(o.links) = 1 /\ o.links[1] = parent

Fresh(o, slot, parent) ==
  /\ o.slot = slot /\ OneLink(o, parent) /\ o.live /\ o.whole /\ o.ext = 0 /\ o.place = "base"

LEMMA NewFileIs ==
  ASSUME NEW slot \in UserSlots, NEW parent, parent \in Nat, NEW shape, IsShape(shape),
         NEW o, o = NewFile(slot, parent, shape)
  PROVE  o \in Object /\ SizeFits(o) /\ Fresh(o, slot, parent)
<1> DEFINE k == Len(shape.clusters)
           wide == k * ClusterBytes
           size == IF shape.clusters = <<>> THEN 1 ELSE wide - shape.short
           Clusters == Seq(VolumeMap \cup {Hole})
<1>0. shape.clusters \in Clusters /\ shape.short \in 0..(ClusterBytes - 1) /\ shape.alias \in {"none", "first", "last"}
  BY DEF IsShape
<1>1. ClusterBytes \in Nat /\ ClusterBytes > 0 /\ k \in Nat /\ shape.short \in Nat /\ shape.short < ClusterBytes
  BY <1>0, RunlistAssumption
<1>2. (shape.clusters = <<>>) <=> k = 0
  BY <1>0
<1>3. wide \in Nat /\ (k > 0 => wide >= ClusterBytes) /\ (k > 1 => wide >= 2 * ClusterBytes)
  BY <1>1
<1> HIDE DEF wide
<1>4. size \in Nat \ {0} /\ (k > 1 => size > ClusterBytes) /\ (shape.clusters # <<>> => size <= wide)
  BY <1>1, <1>2, <1>3
<1>5. o = [slot |-> slot, ext |-> 0, dir |-> FALSE, links |-> <<parent>>, alias |-> shape.alias,
           clusters |-> shape.clusters, size |-> size, resident |-> shape.clusters = <<>>, place |-> "base",
           live |-> TRUE, whole |-> TRUE]
  BY DEF NewFile, wide
<1>6. <<parent>> \in Seq(Nat) /\ shape.clusters \in Clusters
  BY <1>0
<1> HIDE DEF size, Clusters
<1>7. o \in Object
  BY <1>0, <1>4, <1>5, <1>6 DEF Object, Clusters
<1>8. SizeFits(o)
  <2>1. o.resident = (shape.clusters = <<>>) /\ o.clusters = shape.clusters /\ o.size = size /\ o.place = "base"
    BY <1>5
  <2>2. (Len(shape.clusters) > 1 => size > ClusterBytes) /\ (shape.clusters # <<>> => size <= Len(shape.clusters) * ClusterBytes)
    BY <1>4 DEF wide
  <2> HIDE DEF size
  <2> QED
    BY ONLY <2>1, <2>2 DEF SizeFits
<1> QED
  BY <1>5, <1>7, <1>8 DEF OneLink, Fresh

LEMMA NewDirectoryIs ==
  ASSUME NEW slot \in UserSlots, NEW parent, parent \in Nat, NEW o, o = NewDirectory(slot, parent)
  PROVE  o \in Object /\ SizeFits(o) /\ Fresh(o, slot, parent)
<1>1. PICK shape : shape = [clusters |-> <<>>, short |-> 0, alias |-> "none"]
  OBVIOUS
<1>2. PICK f : f = NewFile(slot, parent, shape)
  OBVIOUS
<1>3. IsShape(shape)
  BY <1>1, RunlistAssumption DEF IsShape
<1>4. f \in Object /\ SizeFits(f) /\ Fresh(f, slot, parent)
  BY <1>2, <1>3, NewFileIs
<1>5. o = [f EXCEPT !.dir = TRUE]
  BY <1>1, <1>2 DEF NewDirectory
<1>6. /\ o \in Object /\ o.slot = f.slot /\ o.links = f.links /\ o.live = f.live /\ o.whole = f.whole
      /\ o.dir = TRUE /\ o.ext = f.ext /\ o.alias = f.alias /\ o.resident = f.resident
      /\ o.clusters = f.clusters /\ o.size = f.size /\ o.place = f.place
  BY <1>4, <1>5 DEF Object
<1> QED
  BY <1>4, <1>6 DEF SizeFits, OneLink, Fresh

(* An object comes to a slot that no live one has. *)
LEMMA ObjectAdded ==
  ASSUME ObjectsInv, NEW ob \in Object, SizeFits(ob), NEW parent, OneLink(ob, parent), ob.live,
         parent \in {Root} \cup LiveIds, \A n \in LiveIds : objects[n].slot # ob.slot,
         objects' = Append(objects, ob), NEW N, N = Len(objects)
  PROVE  /\ ObjectsInv' /\ N \in Nat /\ Ids = 1..N /\ Ids' = 1..(N + 1) /\ objects'[N + 1] = ob
         /\ \A n \in Ids : objects'[n] = objects[n]
         /\ N + 1 \in LiveIds' /\ LiveIds \subseteq LiveIds'
<1>1. objects \in Seq(Object) /\ Ids = 1..N /\ N \in Nat
  BY ObjectIs DEF ObjectsInv
<1> HIDE DEF Object
<1>2. /\ objects' \in Seq(Object) /\ Len(objects') = N + 1 /\ objects'[N + 1] = ob
      /\ \A n \in Ids : objects'[n] = objects[n]
  BY <1>1
<1>3. Ids' = 1..(N + 1)
  BY <1>2 DEF Ids
<1>4. Ids \subseteq Ids' /\ N + 1 \in Ids' /\ \A n \in Ids' : n \in Ids \/ n = N + 1
  BY <1>1, <1>3
<1>5. N + 1 \in LiveIds' /\ LiveIds \subseteq LiveIds'
  BY <1>2, <1>4 DEF LiveIds
<1>6. ASSUME NEW n \in Ids
      PROVE  /\ Len(objects'[n].links) > 0 /\ LinksLead(objects'[n], Ids')
             /\ objects'[n].live => LinksLead(objects'[n], LiveIds')
             /\ SizeFits(objects'[n])
  <2>1. /\ Len(objects[n].links) > 0 /\ LinksLead(objects[n], Ids)
        /\ objects[n].live => LinksLead(objects[n], LiveIds)
        /\ SizeFits(objects[n])
    BY DEF ObjectsInv
  <2>2. objects'[n] = objects[n]
    BY <1>2
  <2> QED
    BY <1>4, <1>5, <2>1, <2>2 DEF LinksLead
<1>7. Len(ob.links) > 0 /\ LinksLead(ob, LiveIds') /\ LinksLead(ob, Ids')
  <2>1. LiveIds' \subseteq Ids'
    BY DEF LiveIds
  <2>2. parent \in {Root} \cup LiveIds' /\ parent \in {Root} \cup Ids'
    BY <1>5, <2>1
  <2>3. Len(ob.links) > 0 /\ \A i \in DOMAIN ob.links : ob.links[i] = parent
    BY DEF OneLink
  <2> QED
    BY <2>2, <2>3 DEF LinksLead
<1>8. ASSUME NEW n \in Ids', NEW m \in Ids', n < m, objects'[m].slot = objects'[n].slot
      PROVE  ~objects'[n].live
  <2>1. n \in Ids
    BY <1>1, <1>3, <1>8
  <2>2. CASE m \in Ids
    BY <1>2, <1>8, <2>1, <2>2 DEF ObjectsInv
  <2>3. CASE m = N + 1
    BY <1>2, <1>8, <2>1, <2>3 DEF LiveIds
  <2> QED
    BY <1>4, <2>2, <2>3
<1>9. ObjectsInv'
  <2>1. \A n \in Ids' : /\ Len(objects'[n].links) > 0 /\ LinksLead(objects'[n], Ids')
                        /\ objects'[n].live => LinksLead(objects'[n], LiveIds')
                        /\ SizeFits(objects'[n])
    BY <1>2, <1>4, <1>6, <1>7
  <2> QED
    BY <1>2, <1>8, <2>1 DEF ObjectsInv
<1> QED
  BY <1>1, <1>2, <1>3, <1>5, <1>9

LEMMA WholeOrNot ==
  ASSUME NEW o \in Object, NEW reached, NEW ob, ob = [o EXCEPT !.whole = Whole(reached)]
  PROVE  /\ ob \in Object /\ ob.slot = o.slot /\ ob.links = o.links /\ ob.live = o.live
         /\ ob.whole = Whole(reached)
         /\ SizeFits(o) => SizeFits(ob)
         /\ o.whole /\ Whole(reached) => ob = o
<1>1. Whole(reached) \in BOOLEAN
  BY DEF Whole
<1>2. /\ ob \in Object /\ ob.slot = o.slot /\ ob.links = o.links /\ ob.live = o.live
      /\ ob.whole = Whole(reached) /\ ob.clusters = o.clusters /\ ob.size = o.size
      /\ ob.resident = o.resident /\ ob.place = o.place
  BY <1>1 DEF Object
<1>3. SizeFits(o) => SizeFits(ob)
  BY <1>2 DEF SizeFits
<1>4. ASSUME o.whole, Whole(reached) PROVE ob = o
  <2>1. o.whole = TRUE /\ Whole(reached) = TRUE
    BY <1>1, <1>4 DEF Object
  <2> QED
    BY <2>1 DEF Object
<1> QED
  BY <1>2, <1>3, <1>4

(* A file or a directory is made. *)
LEMMA AddStep ==
  ASSUME VolumeInv, running, NEW slot \in FreeSlots, NEW parent \in Directories, NEW o \in Object,
         SizeFits(o), Fresh(o, slot, parent), NEW reached \in Reaches, Add(o, reached)
  PROVE  Carried
<1>1. PICK N, ob, sequence, first, second, head :
        /\ N = Len(objects) /\ ob = [o EXCEPT !.whole = Whole(reached)]
        /\ sequence = SequenceForNew(slot)
        /\ first = FirstStride(o, N + 1) /\ second = SecondStride(o, N + 1) /\ head = HeadOf(o, sequence)
  OBVIOUS
<1>2. VolumeType /\ ObjectsInv /\ ZeroInv /\ Exact
  BY DEF VolumeInv
<1>3. o.slot = slot /\ OneLink(o, parent) /\ o.live /\ o.whole
  BY DEF Fresh
<1>4. slot \in UserSlots /\ \A n \in LiveIds : objects[n].slot # slot
  BY DEF FreeSlots, HeldSlots
<1>5. parent \in {Root} \cup LiveIds
  BY DEF Directories
<1>6. /\ ob \in Object /\ ob.slot = slot /\ ob.links = o.links /\ ob.live /\ SizeFits(ob)
      /\ ob.whole = Whole(reached) /\ (Whole(reached) => ob = o)
  BY <1>1, <1>3, WholeOrNot
<1>7. OneLink(ob, parent)
  BY <1>3, <1>6 DEF OneLink
<1>8. objects' = Append(objects, ob) /\ Spend(reached)
  BY <1>1 DEF Add
<1>9. disk' = Written(disk, slot, head, first, second, reached)
  BY <1>1, <1>3 DEF Add, WriteObject
<1>10. /\ ObjectsInv' /\ N \in Nat /\ Ids = 1..N /\ Ids' = 1..(N + 1) /\ objects'[N + 1] = ob
       /\ \A n \in Ids : objects'[n] = objects[n]
       /\ N + 1 \in LiveIds' /\ LiveIds \subseteq LiveIds'
  BY ZenonT(90), <1>1, <1>2, <1>4, <1>5, <1>6, <1>7, <1>8, ObjectAdded
<1>11. Ids \subseteq Ids' /\ \A n \in Ids' : n \in Ids \/ n = N + 1
  BY <1>10
<1>12. /\ VolumeType' /\ ZeroInv' /\ Changed({slot}) /\ running' = Whole(reached) /\ unreadable' = {}
       /\ SequenceOf(slot) \in Nat /\ UsnOf(slot) + 1 \in Nat
       /\ Whole(reached) => Block(slot)' = StridesOf(UsnOf(slot) + 1, head, first, second)
       /\ ~Whole(reached) => SoundInv'
  <2>1. \A n \in Ids : objects'[n].slot = objects[n].slot /\ (objects[n].slot # slot => objects'[n] = objects[n])
    BY <1>10
  <2>2. \A n \in Ids' : n \in Ids \/ objects'[n].slot = slot
    BY <1>6, <1>10, <1>11
  <2> QED
    BY <1>4, <1>8, <1>9, <1>10, <1>11, <2>1, <2>2, WriteStep
<1>13. ASSUME Whole(reached) PROVE Exact'
  <2>1. PICK usn : usn = UsnOf(slot) + 1
    OBVIOUS
  <2>2. usn \in Nat /\ Block(slot)' = StridesOf(usn, head, first, second) /\ ob = o
    BY <1>6, <1>12, <1>13, <2>1
  <2>3. /\ sequence \in Nat /\ SequenceOf(slot) <= sequence
        /\ habit # "delete" => SequenceOf(slot) < sequence
    BY <1>1, <1>2, <1>12 DEF SequenceForNew, VolumeType
  <2>4. SequenceOf(slot)' = sequence
    <3>1. PICK b : b = Block(slot)'
      OBVIOUS
    <3>2. b[1].kind = "mft" /\ b[1].head = head
      BY <2>2, <3>1, StridesAre
    <3>3. head.sequence = sequence
      BY <1>1, <2>3, HeadsAre
    <3> QED
      BY <3>1, <3>2, <3>3, SequenceNext
  <2>5. ASSUME NEW s, NEW p \in LiveIds, s = objects[p].slot
        PROVE  p \in LiveIds' /\ SequenceOf(s)' = SequenceOf(s)
    <3>1. s # slot /\ p \in Ids /\ p \in LiveIds'
      BY <1>4, <1>10, <2>5 DEF LiveIds
    <3>2. s \in UserSlots \ {slot}
      BY <1>2, <2>5, <3>1, ObjectIs
    <3> QED
      BY <1>12, <3>1, <3>2, ChangedSlots
  <2>6. SlotExact(slot)' /\ LiveExact(N + 1)'
    <3>1. LinksLead(o, LiveIds) /\ Len(o.links) > 0
      BY <1>3, <1>5 DEF OneLink, LinksLead
    <3>2. objects'[N + 1] = o /\ N + 1 \in LiveIds'
      BY <1>10, <2>2
    <3>3. Block(slot)' = StridesOf(usn, HeadOf(o, sequence), first, SecondStride(o, N + 1))
      BY <1>1, <2>2
    <3> QED
      BY <1>1, <1>2, <1>3, <1>4, <1>12, <2>2, <2>3, <2>5, <3>1, <3>2, <3>3, ObjectWritten
  <2>7. \A n \in LiveIds' : objects'[n].slot \in {slot} => LiveExact(n)'
    <3> SUFFICES ASSUME NEW n \in LiveIds', objects'[n].slot = slot PROVE LiveExact(n)'
      OBVIOUS
    <3>1. n \in Ids' /\ objects'[n].live
      BY DEF LiveIds
    <3>2. n \notin Ids
      BY <1>4, <1>10, <3>1 DEF LiveIds
    <3>3. n = N + 1
      BY <1>11, <3>1, <3>2
    <3> QED
      BY <2>6, <3>3
  <2>8. \A n \in Ids' : objects'[n].whole
    BY <1>2, <1>6, <1>10, <1>11, <1>13 DEF Exact
  <2>9. \A p \in Ids : objects[p].slot = slot => ~objects[p].live
    BY <1>4 DEF LiveIds
  <2>10. habit \in {"delete", "reuse"}
    BY <1>2 DEF VolumeType
  <2>11. \A t \in {slot} : SequenceOf(t) \in Nat /\ SequenceOf(t)' \in Nat /\ SequenceOf(t) <= SequenceOf(t)'
    BY <1>12, <2>3, <2>4
  <2>12. \A t \in {slot} : \A p \in Ids :
           /\ objects[p].slot = t
           /\ HolderOf(t)' # p \/ (habit = "delete" /\ ~objects'[p].live)
           => SequenceOf(t) < SequenceOf(t)' \/ HolderOf(t) # p \/ (habit = "delete" /\ ~objects[p].live)
    BY <2>3, <2>4, <2>9, <2>10
  <2>13. \A t \in {slot} : SlotExact(t)'
    BY <2>6
  <2>14. \A n \in LiveIds : \A t \in {slot} : \A p \in LiveIds :
           /\ objects[n].slot \notin {slot}
           /\ p = objects[n].links[1] /\ objects[p].slot = t
           => SequenceOf(t)' = SequenceOf(t)
    BY <1>4
  <2> QED
    BY <1>2, <1>12, <2>7, <2>8, <2>11, <2>12, <2>13, <2>14, ExactAfter
<1>14. Spared
  <2> SUFFICES ASSUME ~running', NEW n \in LiveIds', objects'[n].whole PROVE objects'[n].slot \notin {slot}
    BY <1>12 DEF Spared
  <2>1. n \in Ids' /\ objects'[n].live
    BY DEF LiveIds
  <2>2. n # N + 1
    BY <1>6, <1>10, <1>12
  <2>3. n \in Ids /\ objects'[n] = objects[n]
    BY <1>10, <1>11, <2>1, <2>2
  <2> QED
    BY <1>4, <2>1, <2>3 DEF LiveIds
<1> QED
  BY <1>10, <1>12, <1>13, <1>14 DEF VolumeInv, Carried

(* One object is replaced by another in the same slot, live as it was. *)
LEMMA ObjectReplaced ==
  ASSUME ObjectsInv, NEW n \in LiveIds, NEW ob \in Object, SizeFits(ob), ob.live,
         ob.slot = objects[n].slot, Len(ob.links) > 0, LinksLead(ob, LiveIds),
         objects' = [objects EXCEPT ![n] = ob]
  PROVE  /\ ObjectsInv' /\ Ids' = Ids /\ LiveIds' = LiveIds /\ objects'[n] = ob
         /\ \A m \in Ids : /\ m # n => objects'[m] = objects[m]
                           /\ objects'[m].slot = objects[m].slot
<1>1. objects \in Seq(Object) /\ Ids = 1..Len(objects) /\ n \in Ids /\ objects[n].live
  BY ObjectIs DEF ObjectsInv, LiveIds
<1> HIDE DEF Object
<1>2. /\ objects' \in Seq(Object) /\ Len(objects') = Len(objects) /\ objects'[n] = ob
      /\ \A m \in Ids : m # n => objects'[m] = objects[m]
  BY <1>1
<1>3. Ids' = Ids
  BY <1>1, <1>2 DEF Ids
<1>4. \A m \in Ids : objects'[m].slot = objects[m].slot /\ (objects'[m].live <=> objects[m].live)
  BY <1>1, <1>2
<1>5. LiveIds' = LiveIds
  BY <1>3, <1>4 DEF LiveIds
<1>6. LinksLead(ob, Ids)
  BY DEF LinksLead, LiveIds
<1>7. ASSUME NEW m \in Ids
      PROVE  /\ Len(objects'[m].links) > 0 /\ LinksLead(objects'[m], Ids)
             /\ objects'[m].live => LinksLead(objects'[m], LiveIds')
             /\ SizeFits(objects'[m])
  <2>1. CASE m = n
    BY <1>2, <1>5, <1>6, <2>1
  <2>2. CASE m # n
    BY <1>2, <1>5, <2>2 DEF ObjectsInv
  <2> QED
    BY <2>1, <2>2
<1>8. ObjectsInv'
  BY <1>2, <1>4, <1>7, ObjectsKept
<1> QED
  BY <1>2, <1>3, <1>4, <1>5, <1>8

(* The record of a live object is written again. *)
LEMMA RewriteStep ==
  ASSUME VolumeInv, running, NEW n \in LiveIds, NEW o \in Object, SizeFits(o), o.live, o.whole,
         NEW slot, slot = objects[n].slot, o.slot = slot, Len(o.links) > 0, LinksLead(o, LiveIds),
         NEW reached \in Reaches, NEW sequence, sequence = SequenceOf(slot),
         Rewrite(n, o, sequence, reached)
  PROVE  Carried
<1>1. PICK ob, first, second, head :
        /\ ob = [o EXCEPT !.whole = Whole(reached)]
        /\ first = FirstStride(o, n) /\ second = SecondStride(o, n) /\ head = HeadOf(o, sequence)
  OBVIOUS
<1>2. VolumeType /\ ObjectsInv /\ ZeroInv /\ Exact /\ n \in Ids
  BY DEF VolumeInv, LiveIds
<1>3. /\ ob \in Object /\ ob.slot = slot /\ ob.links = o.links /\ ob.live /\ SizeFits(ob)
      /\ ob.whole = Whole(reached) /\ (Whole(reached) => ob = o)
  BY <1>1, WholeOrNot
<1>4. slot \in UserSlots
  BY <1>2, ObjectIs
<1>5. objects' = [objects EXCEPT ![n] = ob] /\ Spend(reached)
  BY <1>1 DEF Rewrite
<1>6. disk' = Written(disk, slot, head, first, second, reached)
  BY <1>1 DEF Rewrite, WriteObject
<1>7. /\ ObjectsInv' /\ Ids' = Ids /\ LiveIds' = LiveIds /\ objects'[n] = ob
      /\ \A m \in Ids : /\ m # n => objects'[m] = objects[m]
                        /\ objects'[m].slot = objects[m].slot
  <2>1. LinksLead(ob, LiveIds) /\ Len(ob.links) > 0
    BY <1>3 DEF LinksLead
  <2> QED
    BY <1>2, <1>3, <1>5, <2>1, ObjectReplaced
<1>8. /\ VolumeType' /\ ZeroInv' /\ Changed({slot}) /\ running' = Whole(reached) /\ unreadable' = {}
      /\ SequenceOf(slot) \in Nat /\ UsnOf(slot) + 1 \in Nat
      /\ Whole(reached) => Block(slot)' = StridesOf(UsnOf(slot) + 1, head, first, second)
      /\ ~Whole(reached) => SoundInv'
  <2>1. \A m \in Ids : /\ objects'[m].slot = objects[m].slot
                       /\ objects[m].slot # slot => objects'[m] = objects[m]
    BY <1>7
  <2>2. Ids \subseteq Ids' /\ \A m \in Ids' : m \in Ids \/ objects'[m].slot = slot
    BY <1>7
  <2> QED
    BY <1>4, <1>5, <1>6, <1>7, <2>1, <2>2, WriteStep
<1>9. ASSUME Whole(reached) PROVE Exact'
  <2>1. PICK usn : usn = UsnOf(slot) + 1
    OBVIOUS
  <2>2. usn \in Nat /\ Block(slot)' = StridesOf(usn, head, first, second) /\ ob = o /\ sequence \in Nat
    BY <1>3, <1>8, <1>9, <2>1
  <2>3. SequenceOf(slot)' = SequenceOf(slot)
    <3>1. PICK b : b = Block(slot)'
      OBVIOUS
    <3>2. b[1].kind = "mft" /\ b[1].head = head
      BY <2>2, <3>1, StridesAre
    <3>3. head.sequence = sequence
      BY <1>1, <2>2, HeadsAre
    <3> QED
      BY <3>1, <3>2, <3>3, SequenceNext
  <2>4. ASSUME NEW s, NEW p \in LiveIds, s = objects[p].slot
        PROVE  p \in LiveIds' /\ SequenceOf(s)' = SequenceOf(s)
    <3>1. p \in Ids /\ p \in LiveIds'
      BY <1>7 DEF LiveIds
    <3>2. s \in UserSlots
      BY <1>2, <2>4, <3>1, ObjectIs
    <3> QED
      BY <1>8, <2>3, <3>1, <3>2, ChangedSlots
  <2>5. SlotExact(slot)' /\ LiveExact(n)'
    <3>1. objects'[n] = o /\ n \in LiveIds'
      BY <1>7, <2>2
    <3>2. Block(slot)' = StridesOf(usn, HeadOf(o, sequence), first, SecondStride(o, n))
      BY <1>1, <2>2
    <3> QED
      BY <1>1, <1>2, <1>4, <1>8, <2>2, <2>4, <3>1, <3>2, ObjectWritten
  <2>6. HolderOf(slot) = n /\ HolderOf(slot)' = n
    <3>1. n \in LiveIds' /\ objects'[n].slot = slot
      BY <1>3, <1>7
    <3> QED
      BY <1>2, <1>7, <3>1, HolderFacts, LiveHolder
  <2>7. \A m \in LiveIds' : objects'[m].slot \in {slot} => LiveExact(m)'
    <3> SUFFICES ASSUME NEW m \in LiveIds', objects'[m].slot = slot PROVE LiveExact(m)'
      OBVIOUS
    <3>1. HolderOf(slot)' = m
      BY <1>7, LiveHolder
    <3> QED
      BY <2>5, <2>6, <3>1
  <2>8. \A m \in Ids' : objects'[m].whole
    BY <1>2, <1>3, <1>7, <1>9 DEF Exact
  <2>9. \A t \in {slot} : SequenceOf(t) \in Nat /\ SequenceOf(t)' \in Nat /\ SequenceOf(t) <= SequenceOf(t)'
    BY <1>8, <2>3
  <2>10. \A t \in {slot} : \A p \in Ids :
           /\ objects[p].slot = t
           /\ HolderOf(t)' # p \/ (habit = "delete" /\ ~objects'[p].live)
           => SequenceOf(t) < SequenceOf(t)' \/ HolderOf(t) # p \/ (habit = "delete" /\ ~objects[p].live)
    BY <1>3, <1>7, <2>6
  <2>11. \A t \in {slot} : SlotExact(t)'
    BY <2>5
  <2>12. \A m \in LiveIds : \A t \in {slot} : \A p \in LiveIds :
           /\ objects[m].slot \notin {slot}
           /\ p = objects[m].links[1] /\ objects[p].slot = t
           => SequenceOf(t)' = SequenceOf(t)
    BY <2>3
  <2> QED
    BY <1>2, <1>8, <2>7, <2>8, <2>9, <2>10, <2>11, <2>12, ExactAfter
<1>10. Spared
  <2> SUFFICES ASSUME ~running', NEW m \in LiveIds', objects'[m].whole PROVE objects'[m].slot \notin {slot}
    BY <1>8 DEF Spared
  <2>1. m # n
    BY <1>3, <1>7, <1>8
  <2>2. n \in LiveIds' /\ objects'[n].slot = slot
    BY <1>3, <1>7
  <2> QED
    BY <1>7, <2>1, <2>2, LiveHolder
<1> QED
  BY <1>7, <1>8, <1>9, <1>10 DEF VolumeInv, Carried

LEMMA MoveStep ==
  ASSUME VolumeInv, running, NEW n \in LiveIds, objects[n].whole, NEW parent \in Directories,
         NEW reached \in Reaches, move(n, parent, reached) \/ link(n, parent, reached)
  PROVE  Carried
<1>1. PICK was, slot, links : /\ was = objects[n] /\ slot = was.slot
                              /\ links = IF move(n, parent, reached) THEN [was.links EXCEPT ![1] = parent]
                                         ELSE Append(was.links, parent)
  OBVIOUS
<1>2. PICK o : o = [was EXCEPT !.links = links]
  OBVIOUS
<1>3. ObjectsInv /\ n \in Ids /\ was.live /\ was.whole /\ was \in Object /\ SizeFits(was)
  BY <1>1, ObjectIs DEF VolumeInv, LiveIds, ObjectsInv
<1>4. was.links \in Seq(Nat) /\ Len(was.links) > 0 /\ LinksLead(was, LiveIds)
  BY <1>1, <1>3, ObjectIs DEF ObjectsInv
<1>5. parent \in {Root} \cup LiveIds /\ parent \in Nat
  <2>1. parent \in {Root} \cup LiveIds
    BY DEF Directories
  <2>2. Ids \subseteq Nat /\ LiveIds \subseteq Ids /\ Root \in Nat
    BY <1>3, ObjectIs DEF LiveIds, Root
  <2> QED
    BY <2>1, <2>2
<1>6. /\ links \in Seq(Nat) /\ Len(links) > 0
      /\ \A i \in DOMAIN links : links[i] = parent \/ (i \in DOMAIN was.links /\ links[i] = was.links[i])
  <2>1. CASE links = [was.links EXCEPT ![1] = parent]
    BY <1>4, <1>5, <2>1
  <2>2. CASE links = Append(was.links, parent)
    BY <1>4, <1>5, <2>2
  <2> QED
    BY <1>1, <2>1, <2>2
<1>7. /\ o \in Object /\ o.slot = slot /\ o.links = links /\ o.live /\ o.whole /\ o.clusters = was.clusters
      /\ o.size = was.size /\ o.resident = was.resident /\ o.place = was.place
  BY <1>1, <1>2, <1>3, <1>6 DEF Object
<1>8. SizeFits(o)
  BY <1>3, <1>7 DEF SizeFits
<1>9. LinksLead(o, LiveIds)
  BY <1>4, <1>5, <1>6, <1>7 DEF LinksLead
<1>10. Rewrite(n, o, SequenceOf(slot), reached)
  <2>1. CASE move(n, parent, reached)
    <3>1. o = [was EXCEPT !.links[1] = parent]
      BY <1>1, <1>2, <2>1
    <3> QED
      BY <1>1, <2>1, <3>1 DEF move
  <2>2. CASE link(n, parent, reached) /\ ~move(n, parent, reached)
    <3>1. o = [was EXCEPT !.links = Append(@, parent)]
      BY <1>1, <1>2, <2>2
    <3> QED
      BY <1>1, <2>2, <3>1 DEF link
  <2> QED
    BY <2>1, <2>2
<1>11. PICK sequence : sequence = SequenceOf(slot)
  OBVIOUS
<1> QED
  BY <1>1, <1>6, <1>7, <1>8, <1>9, <1>10, <1>11, RewriteStep

(* A live object that nothing lies in goes. *)
LEMMA ObjectGone ==
  ASSUME ObjectsInv, NEW n \in LiveIds, Children(n) = {}, NEW whole \in BOOLEAN, NEW ob,
         ob = [objects[n] EXCEPT !.live = FALSE, !.whole = whole], objects' = [objects EXCEPT ![n] = ob]
  PROVE  /\ ObjectsInv' /\ Ids' = Ids /\ LiveIds' = LiveIds \ {n} /\ objects'[n] = ob
         /\ \A m \in Ids : /\ m # n => objects'[m] = objects[m]
                           /\ objects'[m].slot = objects[m].slot
         /\ \A s : HolderOf(s)' = HolderOf(s)
<1>1. objects \in Seq(Object) /\ Ids = 1..Len(objects) /\ n \in Ids /\ objects[n].live /\ objects[n] \in Object
  BY ObjectIs DEF ObjectsInv, LiveIds
<1>2. PICK o : o = objects[n]
  OBVIOUS
<1>3. /\ ob \in Object /\ ob.slot = o.slot /\ ob.links = o.links /\ ob.live = FALSE /\ ob.clusters = o.clusters
      /\ ob.size = o.size /\ ob.resident = o.resident /\ ob.place = o.place
  BY <1>1, <1>2 DEF Object
<1> HIDE DEF Object
<1>4. /\ objects' \in Seq(Object) /\ Len(objects') = Len(objects) /\ objects'[n] = ob
      /\ \A m \in Ids : m # n => objects'[m] = objects[m]
  BY ONLY <1>1, <1>3, objects' = [objects EXCEPT ![n] = ob]
<1>5. Ids' = Ids
  BY <1>1, <1>4 DEF Ids
<1>6. \A m \in Ids : objects'[m].slot = objects[m].slot
  BY <1>2, <1>3, <1>4
<1>7. LiveIds' = LiveIds \ {n}
  BY <1>3, <1>4, <1>5 DEF LiveIds
<1>8. ASSUME NEW m \in Ids
      PROVE  /\ objects'[m].live => objects[m].live
             /\ Len(objects'[m].links) > 0 /\ LinksLead(objects'[m], Ids)
             /\ objects'[m].live => LinksLead(objects'[m], LiveIds')
             /\ SizeFits(objects'[m])
  <2>1. CASE m = n
    <3>1. Len(o.links) > 0 /\ LinksLead(o, Ids) /\ SizeFits(o)
      BY <1>1, <1>2 DEF ObjectsInv
    <3> QED
      BY <1>3, <1>4, <2>1, <3>1 DEF LinksLead, SizeFits
  <2>2. CASE m # n
    <3>1. /\ Len(objects[m].links) > 0 /\ LinksLead(objects[m], Ids) /\ SizeFits(objects[m])
          /\ objects[m].live => LinksLead(objects[m], LiveIds)
      BY DEF ObjectsInv
    <3>2. objects[m].live => \A i \in DOMAIN objects[m].links : objects[m].links[i] # n
      BY DEF Children, LiveIds
    <3>3. objects[m].live => LinksLead(objects[m], LiveIds')
      BY <1>7, <3>1, <3>2 DEF LinksLead
    <3> QED
      BY <1>4, <2>2, <3>1, <3>3
  <2> QED
    BY <2>1, <2>2
<1>9. ObjectsInv'
  BY <1>4, <1>6, <1>8, ObjectsKept
<1>10. ASSUME NEW s PROVE HolderOf(s)' = HolderOf(s)
  <2>1. HolderIn(objects', s) = HolderIn(objects, s)
    BY ZenonT(90), <1>5, <1>6, HolderSame DEF Ids
  <2> QED
    BY <2>1 DEF HolderOf, HolderIn, Ids, Root
<1> QED
  BY <1>4, <1>5, <1>6, <1>7, <1>9, <1>10

(* The data of an object is said by these fields of it. *)
LEMMA SecondSame ==
  ASSUME NEW o, NEW ob, ob.dir = o.dir, ob.place = o.place, ob.resident = o.resident,
         ob.clusters = o.clusters, ob.size = o.size, NEW n
  PROVE  SecondStride(ob, n) = SecondStride(o, n)
BY DEF SecondStride

LEMMA DeleteStep ==
  ASSUME VolumeInv, running, NEW n \in LiveIds, NEW reached \in Reaches, delete(n, reached)
  PROVE  Carried
<1>1. PICK o, slot : o = objects[n] /\ slot = o.slot
  OBVIOUS
<1>2. PICK ob, was, sequence, first, second :
        /\ ob = [o EXCEPT !.live = FALSE, !.whole = Whole(reached)]
        /\ was = Block(slot)[1].head /\ sequence = SequenceForDeleted(slot)
        /\ first = Block(slot)[1].attrs /\ second = Block(slot)[2].attrs
  OBVIOUS
<1>3. PICK head : head = [was EXCEPT !.inUse = FALSE, !.sequence = sequence]
  OBVIOUS
<1>4. VolumeType /\ ObjectsInv /\ ZeroInv /\ Exact /\ n \in Ids /\ o \in Object /\ o.live /\ o.whole
  <2>1. VolumeType /\ ObjectsInv /\ ZeroInv /\ Exact /\ n \in Ids /\ o.live
    BY <1>1 DEF VolumeInv, LiveIds
  <2> QED
    BY <1>1, <2>1, ObjectIs DEF Exact
<1>5. slot \in UserSlots /\ slot \in Slots
  BY <1>1, <1>4, ObjectIs, NumbersAre
<1>6. Header(slot) = Block(slot)[1] /\ disk[SlotClusters(slot)[2]] = Block(slot)[2]
  BY <1>4, <1>5, HeaderIs
<1>7. disk' = Written(disk, slot, head, first, second, reached)
  <2>1. disk' = Written(disk, slot, [Header(slot).head EXCEPT !.inUse = FALSE, !.sequence = SequenceForDeleted(slot)],
                        Header(slot).attrs, disk[SlotClusters(slot)[2]].attrs, reached)
    BY <1>1 DEF delete
  <2> QED
    BY <1>2, <1>3, <1>6, <2>1
<1>8. Children(n) = {} /\ Spend(reached)
  BY DEF delete
<1>9. objects' = [objects EXCEPT ![n] = ob]
  <2>1. objects' = [objects EXCEPT ![n].live = FALSE, ![n].whole = Whole(reached)]
    BY DEF delete
  <2>2. objects \in Seq(Object) /\ n \in DOMAIN objects
    BY <1>4 DEF ObjectsInv, Ids
  <2> HIDE DEF Object
  <2> QED
    BY <1>1, <1>2, <2>1, <2>2
<1>10. /\ ObjectsInv' /\ Ids' = Ids /\ LiveIds' = LiveIds \ {n} /\ objects'[n] = ob
       /\ \A m \in Ids : /\ m # n => objects'[m] = objects[m]
                         /\ objects'[m].slot = objects[m].slot
       /\ \A s : HolderOf(s)' = HolderOf(s)
  <2>1. Whole(reached) \in BOOLEAN
    BY DEF Whole
  <2> QED
    BY <1>1, <1>2, <1>4, <1>8, <1>9, <2>1, ObjectGone
<1>11. HolderOf(slot) = n
  BY <1>1, <1>4, HolderFacts
<1>12. /\ ob.links = o.links /\ ob.live = FALSE /\ ob.whole = Whole(reached) /\ ob.dir = o.dir
       /\ ob.place = o.place /\ ob.resident = o.resident /\ ob.clusters = o.clusters /\ ob.size = o.size
  <2>1. Whole(reached) \in BOOLEAN
    BY DEF Whole
  <2> QED
    BY <1>2, <1>4, <2>1 DEF Object
<1>13. /\ VolumeType' /\ ZeroInv' /\ Changed({slot}) /\ running' = Whole(reached) /\ unreadable' = {}
       /\ SequenceOf(slot) \in Nat /\ UsnOf(slot) + 1 \in Nat
       /\ Whole(reached) => Block(slot)' = StridesOf(UsnOf(slot) + 1, head, first, second)
       /\ ~Whole(reached) => SoundInv'
  <2>1. \A m \in Ids : /\ objects'[m].slot = objects[m].slot
                       /\ objects[m].slot # slot => objects'[m] = objects[m]
    BY <1>1, <1>10
  <2>2. Ids \subseteq Ids' /\ \A m \in Ids' : m \in Ids \/ objects'[m].slot = slot
    BY <1>10
  <2> QED
    BY <1>5, <1>7, <1>8, <1>10, <2>1, <2>2, WriteStep
<1>14. /\ was \in Heads /\ was.base = 0 /\ IsSeq(first) /\ IsSeq(second) /\ was.dir = o.dir
       /\ first \in Seq(FirstAttrs) /\ second = SecondStride(o, n) /\ NamesAre(first, n)
       /\ \E i \in DOMAIN first : isName(first[i]) /\ ~first[i].dos
       /\ \A i \in DOMAIN first : MayStand(first, i) => RefHolds(first[i].parent, o.links[1])
  <2>1. Block(slot)[1].kind = "mft" /\ was.base = 0 /\ SlotExact(slot)
    BY <1>1, <1>2, <1>4, <1>5 DEF Exact, LiveExact
  <2>2. RecordExact(slot, Block(slot)[1].usn, was, first, second)
    BY <1>2, <1>4, <1>5, <2>1, ExactSlot
  <2>3. ObjectRecord(slot, was, first, second) /\ was \in Heads /\ IsSeq(first) /\ IsSeq(second)
    BY <2>1, <2>2 DEF RecordExact
  <2> QED
    BY <1>1, <1>11, <2>1, <2>3 DEF ObjectRecord
<1>15. ASSUME Whole(reached) PROVE Exact'
  <2>1. PICK usn : usn = UsnOf(slot) + 1
    OBVIOUS
  <2>2. PICK b : b = Block(slot)'
    OBVIOUS
  <2>3. /\ usn \in Nat /\ b = StridesOf(usn, head, first, second) /\ ob.whole
        /\ b[1].usn = usn /\ b[1].head = head /\ b[1].attrs = first /\ b[2].attrs = second /\ b[1].kind = "mft"
    <3>1. usn \in Nat /\ b = StridesOf(usn, head, first, second)
      BY <1>13, <1>15, <2>1, <2>2
    <3> QED
      BY <1>12, <1>15, <3>1, StridesAre
  <2>4. /\ sequence \in Nat /\ SequenceOf(slot) <= sequence
        /\ habit = "delete" => SequenceOf(slot) < sequence
    BY <1>2, <1>13 DEF SequenceForDeleted
  <2>5. head \in Heads /\ head.inUse = FALSE /\ head.sequence = sequence /\ head.dir = o.dir /\ head.base = 0
    <3>1. was \in Heads /\ sequence \in Nat
      BY <1>14, <2>4
    <3>2. head \in Heads /\ head.inUse = FALSE /\ head.sequence = sequence /\ head.dir = was.dir /\ head.base = was.base
      BY ONLY <1>3, <3>1 DEF Heads
    <3> QED
      BY <1>14, <3>2
  <2>6. SequenceOf(slot)' = sequence
    BY <2>2, <2>3, <2>5, SequenceNext
  <2>7. \A t \in {slot} : SequenceOf(t) \in Nat /\ SequenceOf(t)' \in Nat /\ SequenceOf(t) <= SequenceOf(t)'
    BY <1>13, <2>4, <2>6
  <2>8. \A t \in {slot} : \A p \in Ids :
          /\ objects[p].slot = t
          /\ HolderOf(t)' # p \/ (habit = "delete" /\ ~objects'[p].live)
          => SequenceOf(t) < SequenceOf(t)' \/ HolderOf(t) # p \/ (habit = "delete" /\ ~objects[p].live)
    BY <1>10, <1>11, <2>4, <2>6
  <2>9. \A ref \in References : \A p : RefHolds(ref, p) => RefHolds(ref, p)'
    BY <1>4, <1>13, <2>7, <2>8, ChangedRef
  <2>10. SlotExact(slot)'
    <3>1. \A i \in DOMAIN first : MayStand(first, i) => RefHolds(first[i].parent, ob.links[1])'
      <4> SUFFICES ASSUME NEW i \in DOMAIN first, MayStand(first, i)
                   PROVE  RefHolds(first[i].parent, ob.links[1])'
        OBVIOUS
      <4>1. first[i] \in FirstAttrs /\ isName(first[i])
        <5> HIDE DEF FirstAttrs
        <5> QED
          BY <1>14 DEF MayStand
      <4>2. PICK ref, p : ref = first[i].parent /\ p = o.links[1]
        OBVIOUS
      <4>3. ref \in References /\ RefHolds(ref, p)
        BY <1>14, <4>1, <4>2, FirstFit
      <4>4. RefHolds(ref, p)'
        BY <2>9, <4>3
      <4> QED
        BY <1>12, <4>2, <4>4
    <3>2. second = SecondStride(ob, n)
      BY <1>12, <1>14, SecondSame
    <3>3. ObjectRecord(slot, head, first, second)'
      <4>1. HolderOf(slot)' = n /\ n \in Ids' /\ objects'[n] = ob
        BY <1>4, <1>10, <1>11
      <4> QED
        BY <1>12, <1>14, <2>5, <3>1, <3>2, <4>1 DEF ObjectRecord
    <3>4. RecordExact(slot, usn, head, first, second)'
      BY <1>14, <2>2, <2>3, <2>5, <3>3 DEF RecordExact
    <3> QED
      BY <2>2, <2>3, <3>4 DEF SlotExact
  <2>11. \A m \in LiveIds' : objects'[m].slot \in {slot} => LiveExact(m)'
    <3> SUFFICES ASSUME NEW m \in LiveIds', objects'[m].slot = slot PROVE FALSE
      OBVIOUS
    <3>1. HolderOf(slot)' = m
      BY <1>10, LiveHolder
    <3> QED
      BY <1>10, <1>11, <3>1
  <2>12. \A m \in Ids' : objects'[m].whole
    BY <1>4, <1>10, <2>3 DEF Exact
  <2>13. \A t \in {slot} : SlotExact(t)'
    BY <2>10
  <2>14. \A m \in LiveIds : \A t \in {slot} : \A p \in LiveIds :
           /\ objects[m].slot \notin {slot}
           /\ p = objects[m].links[1] /\ objects[p].slot = t
           => SequenceOf(t)' = SequenceOf(t)
    <3> SUFFICES ASSUME NEW m \in LiveIds, NEW p \in LiveIds, p = objects[m].links[1], objects[p].slot = slot
                 PROVE  FALSE
      OBVIOUS
    <3>1. p = n
      BY <1>4, <1>11, HolderFacts
    <3>2. m \in Ids /\ 1 \in DOMAIN objects[m].links
      <4>1. m \in Ids /\ objects[m].links \in Seq(Nat) /\ Len(objects[m].links) > 0
        BY <1>4, ObjectIs DEF LiveIds, ObjectsInv
      <4> QED
        BY <4>1
    <3> QED
      BY <1>8, <3>1, <3>2 DEF Children
  <2> QED
    BY <1>4, <1>13, <2>7, <2>8, <2>11, <2>12, <2>13, <2>14, ExactAfter
<1>16. Spared
  <2> SUFFICES ASSUME NEW m \in LiveIds' PROVE objects'[m].slot \notin {slot}
    BY <1>13 DEF Spared
  <2>1. m \in LiveIds /\ m # n /\ m \in Ids /\ objects'[m].slot = objects[m].slot
    BY <1>10 DEF LiveIds
  <2> QED
    BY <1>4, <1>11, <2>1, HolderFacts
<1> QED
  BY <1>10, <1>13, <1>15, <1>16 DEF VolumeInv, Carried

(* Two records are written whole. *)
LEMMA TwoWritten ==
  ASSUME VolumeType, layout' = layout, NEW e \in UserSlots, NEW t \in UserSlots, e # t,
         NEW head1, NEW first1, NEW second1, NEW head2, NEW first2, NEW second2, NEW extended,
         extended = Written(disk, e, head1, first1, second1, 1..2),
         disk' = Written(extended, t, head2, first2, second2, 1..2)
  PROVE  /\ DOMAIN disk' = VolumeMap /\ disk' = [c \in VolumeMap |-> disk'[c]]
         /\ \A s \in Slots \ {e, t} : Block(s)' = Block(s)
         /\ Block(e)' = StridesOf(UsnOf(e) + 1, head1, first1, second1)
         /\ Block(t)' = StridesOf(UsnOf(t) + 1, head2, first2, second2)
<1>1. PICK one, two : /\ one = StridesOf(UsnOf(e) + 1, head1, first1, second1)
                      /\ two = StridesOf(UsnOf(t) + 1, head2, first2, second2)
  OBVIOUS
<1>2. e \in Slots /\ t \in Slots
  BY NumbersAre
<1>3. 1..2 \in SUBSET (1..2)
  OBVIOUS
<1>4. \A s \in Slots : \A i \in 1..2 :
        extended[SlotClusters(s)[i]] = IF s = e /\ i \in 1..2 THEN one[i] ELSE disk[SlotClusters(s)[i]]
  BY SMTT(60), <1>1, <1>2, <1>3, WrittenIs
<1>5. /\ DOMAIN disk' = VolumeMap /\ disk' = [c \in VolumeMap |-> disk'[c]]
      /\ \A s \in Slots : \A i \in 1..2 :
           disk'[SlotClusters(s)[i]] = IF s = t /\ i \in 1..2 THEN two[i] ELSE extended[SlotClusters(s)[i]]
  BY <1>1, <1>2, <1>3, WrittenIs
<1>6. \A s : SlotClusters(s)' = SlotClusters(s)
  BY DEF SlotClusters
<1>7. \A s : Block(s)' = [i \in 1..2 |-> disk'[SlotClusters(s)[i]]]
  BY <1>6 DEF Block, Strides
<1>8. \A s : Block(s) = [i \in 1..2 |-> disk[SlotClusters(s)[i]]]
  BY DEF Block, Strides
<1>9. ASSUME NEW s \in Slots \ {e, t} PROVE Block(s)' = Block(s)
  <2>1. \A i \in 1..2 : disk'[SlotClusters(s)[i]] = disk[SlotClusters(s)[i]]
    BY <1>4, <1>5
  <2> QED
    BY <1>7, <1>8, <2>1
<1>10. one = [i \in 1..2 |-> one[i]] /\ two = [i \in 1..2 |-> two[i]]
  BY <1>1 DEF StridesOf
<1>11. Block(e)' = one
  <2>1. \A i \in 1..2 : disk'[SlotClusters(e)[i]] = one[i]
    BY <1>2, <1>4, <1>5
  <2>2. Block(e)' = [i \in 1..2 |-> one[i]]
    BY <1>7, <2>1
  <2> QED
    BY <1>10, <2>2
<1>12. Block(t)' = two
  <2>1. \A i \in 1..2 : disk'[SlotClusters(t)[i]] = two[i]
    BY <1>2, <1>5
  <2>2. Block(t)' = [i \in 1..2 |-> two[i]]
    BY <1>7, <2>1
  <2> QED
    BY <1>10, <2>2
<1> QED
  BY <1>1, <1>5, <1>9, <1>11, <1>12

(* A record that is only an extension of another. *)
LEMMA ExtensionWritten ==
  ASSUME NEW e, NEW usn \in Nat, NEW head \in Heads, head.base # 0, NEW second, IsSeq(second), IsSeq(<<>>),
         Block(e)' = StridesOf(usn, head, <<>>, second)
  PROVE  SlotExact(e)'
<1>1. PICK b, first : b = Block(e)' /\ first = <<>>
  OBVIOUS
<1>2. b = StridesOf(usn, head, first, second)
  BY <1>1
<1>3. /\ b[1].usn = usn /\ b[1].head = head /\ b[1].attrs = first /\ b[2].attrs = second
  BY <1>2, StridesAre
<1>4. RecordExact(e, usn, head, first, second)'
  BY <1>1, <1>2 DEF RecordExact
<1> QED
  BY <1>1, <1>3, <1>4 DEF SlotExact

LEMMA SpillStep ==
  ASSUME VolumeInv, running, NEW n \in LiveIds, NEW place \in {"split", "extension"}, spill(n, place)
  PROVE  Carried
<1>1. PICK e \in FreeSlots :
        LET o == [objects[n] EXCEPT !.place = place, !.ext = e]
            extended == Written(disk, e, [sequence |-> SequenceForNew(e), inUse |-> TRUE,
                                            dir |-> FALSE, base |-> o.slot,
                                            flaw |-> "none"], <<>>,
                                <<DataAttr("unnamed", FALSE, encodeRunlist(o.clusters), o.size, n)>>,
                                1..Strides)
        IN /\ ~o.dir /\ ~o.resident /\ objects[n].place = "base"
           /\ Len(o.clusters) > 1
           /\ disk' = WriteObject(extended, n, o, SequenceOf(o.slot), 1..Strides)
           /\ objects' = [objects EXCEPT ![n] = o]
           /\ Spend(1..Strides)
  BY DEF spill
<1>2. PICK was, o, slot : was = objects[n] /\ o = [was EXCEPT !.place = place, !.ext = e] /\ slot = was.slot
  OBVIOUS
<1>3. PICK head, second, first, own, ownHead, ownSequence, fresh :
        /\ fresh = SequenceForNew(e) /\ ownSequence = SequenceOf(slot)
        /\ head = [sequence |-> fresh, inUse |-> TRUE, dir |-> FALSE, base |-> slot, flaw |-> "none"]
        /\ second = <<DataAttr("unnamed", FALSE, encodeRunlist(o.clusters), o.size, n)>>
        /\ first = FirstStride(o, n) /\ own = SecondStride(o, n) /\ ownHead = HeadOf(o, ownSequence)
  OBVIOUS
<1>4. VolumeType /\ ObjectsInv /\ ZeroInv /\ Exact /\ n \in Ids /\ was \in Object /\ was.live /\ was.whole /\ SizeFits(was)
  <2>1. VolumeType /\ ObjectsInv /\ ZeroInv /\ Exact /\ n \in Ids /\ was.live
    BY <1>2 DEF VolumeInv, LiveIds
  <2> QED
    BY <1>2, <2>1, ObjectIs DEF Exact, ObjectsInv
<1>5. slot \in UserSlots /\ slot \in Slots /\ slot \in Nat /\ slot # 0
  BY <1>2, <1>4, ObjectIs, NumbersAre
<1>6. e \in UserSlots /\ e \in Slots /\ \A m \in LiveIds : objects[m].slot # e
  <2>1. e \in UserSlots /\ e \notin HeldSlots
    BY <1>1 DEF FreeSlots
  <2>2. ASSUME NEW m \in LiveIds PROVE objects[m].slot \in HeldSlots
    <3>1. PICK S : S = {objects[m].slot, objects[m].ext}
      OBVIOUS
    <3>2. S \in {{objects[k].slot, objects[k].ext} : k \in LiveIds} /\ objects[m].slot \in S
      BY ONLY <3>1, m \in LiveIds
    <3> QED
      BY ONLY <3>2 DEF HeldSlots
  <2>3. \A m \in LiveIds : objects[m].slot # e
    BY ONLY <2>1, <2>2, Zenon
  <2> QED
    BY ONLY <2>1, <2>3, NumbersAre
<1>7. e # slot
  BY <1>2, <1>6
<1>8. /\ o \in Object /\ o.slot = slot /\ o.links = was.links /\ o.live /\ o.whole /\ o.clusters = was.clusters
      /\ o.size = was.size /\ o.resident = was.resident
  BY <1>2, <1>4, <1>6 DEF Object
<1>9. /\ Len(o.clusters) > 1 /\ objects' = [objects EXCEPT ![n] = o] /\ Spend(1..Strides)
  BY <1>1, <1>2
<1>10. PICK extended : extended = Written(disk, e, head, <<>>, second, 1..2)
  OBVIOUS
<1>11. disk' = Written(extended, slot, ownHead, first, own, 1..2)
  <2>1. LET extended_1 == Written(disk, e, [sequence |-> SequenceForNew(e), inUse |-> TRUE,
                                            dir |-> FALSE, base |-> o.slot, flaw |-> "none"], <<>>,
                                <<DataAttr("unnamed", FALSE, encodeRunlist(o.clusters), o.size, n)>>, 1..Strides)
        IN disk' = WriteObject(extended_1, n, o, SequenceOf(o.slot), 1..Strides)
    BY <1>1, <1>2
  <2>2. disk' = WriteObject(extended, n, o, SequenceOf(o.slot), 1..2)
    BY <1>3, <1>8, <1>10, <2>1 DEF Strides
  <2> QED
    BY <1>3, <1>8, <2>2 DEF WriteObject
<1>12. SizeFits(o)
  BY <1>4, <1>8, <1>9 DEF SizeFits
<1>13. Len(o.links) > 0 /\ LinksLead(o, LiveIds)
  <2>1. Len(was.links) > 0 /\ LinksLead(was, LiveIds)
    BY <1>2, <1>4 DEF ObjectsInv
  <2> QED
    BY <1>8, <2>1 DEF LinksLead
<1>14. /\ ObjectsInv' /\ Ids' = Ids /\ LiveIds' = LiveIds /\ objects'[n] = o
       /\ \A m \in Ids : /\ m # n => objects'[m] = objects[m]
                         /\ objects'[m].slot = objects[m].slot
  BY <1>2, <1>4, <1>8, <1>9, <1>12, <1>13, ObjectReplaced
<1>15. layout' = layout /\ habit' = habit /\ unreadable' = unreadable /\ running' = TRUE /\ unreadable' = {}
  BY <1>4, <1>9 DEF Spend, Whole, Exact
<1>16. PICK usn, ownUsn : usn = UsnOf(e) + 1 /\ ownUsn = UsnOf(slot) + 1
  OBVIOUS
<1>17. /\ DOMAIN disk' = VolumeMap /\ disk' = [c \in VolumeMap |-> disk'[c]]
       /\ \A s \in Slots \ {e, slot} : Block(s)' = Block(s)
       /\ Block(e)' = StridesOf(usn, head, <<>>, second)
       /\ Block(slot)' = StridesOf(ownUsn, ownHead, first, own)
  BY <1>4, <1>5, <1>6, <1>7, <1>10, <1>11, <1>15, <1>16, TwoWritten
<1>18. VolumeType'
  BY <1>4, <1>15, <1>17 DEF VolumeType
<1>19. ZeroInv'
  BY <1>4, <1>5, <1>6, <1>15, <1>17, ZeroAfter
<1>20. Changed({e, slot})
  <2>1. UserSlots \subseteq Slots
    BY NumbersAre
  <2>2. \A m \in Ids : objects[m].slot \notin {e, slot} => objects'[m] = objects[m]
    BY <1>2, <1>14
  <2> QED
    BY <1>4, <1>5, <1>6, <1>14, <1>15, <1>17, <1>18, <2>1, <2>2 DEF Changed
<1>21. /\ SlotExact(e) /\ SlotExact(slot) /\ SequenceOf(e) \in Nat /\ ownSequence \in Nat
       /\ usn \in Nat /\ ownUsn \in Nat
  <2>1. SlotExact(e) /\ SlotExact(slot)
    BY <1>4, <1>5, <1>6 DEF Exact
  <2> QED
    BY <1>3, <1>4, <1>5, <1>6, <1>16, <2>1, ExactSlot
<1>22. fresh \in Nat /\ SequenceOf(e) <= fresh /\ (habit # "delete" => SequenceOf(e) < fresh)
  BY <1>3, <1>4, <1>21 DEF SequenceForNew, VolumeType
<1>23. /\ head \in Heads /\ head.base = slot /\ head.sequence = fresh
  BY <1>3, <1>5, <1>22 DEF Heads
<1>24. SequenceOf(e)' = fresh
  <2>1. PICK b : b = Block(e)'
    OBVIOUS
  <2>2. b[1].kind = "mft" /\ b[1].head = head
    BY <1>17, <2>1, StridesAre
  <2> QED
    BY <1>23, <2>1, <2>2, SequenceNext
<1>25. SequenceOf(slot)' = SequenceOf(slot)
  <2>1. PICK b : b = Block(slot)'
    OBVIOUS
  <2>2. b[1].kind = "mft" /\ b[1].head = ownHead
    BY <1>17, <2>1, StridesAre
  <2>3. ownHead.sequence = ownSequence
    BY <1>3, <1>8, <1>21, HeadsAre
  <2> QED
    BY <1>3, <2>1, <2>2, <2>3, SequenceNext
<1>26. SlotExact(e)'
  <2>1. IsSeq(<<>>) /\ IsSeq(second)
    <3>1. PICK a : a = DataAttr("unnamed", FALSE, encodeRunlist(o.clusters), o.size, n)
      OBVIOUS
    <3>2. <<>> \in Seq({a}) /\ second \in Seq({a})
      BY <1>3, <3>1
    <3> QED
      BY <3>2, IsSeqIf
  <2> QED
    BY <1>5, <1>17, <1>21, <1>23, <2>1, ExtensionWritten
<1>27. ASSUME NEW s, NEW p \in LiveIds, s = objects[p].slot
       PROVE  p \in LiveIds' /\ SequenceOf(s)' = SequenceOf(s)
  <2>1. p \in Ids /\ p \in LiveIds' /\ s # e
    BY <1>6, <1>14, <1>27 DEF LiveIds
  <2>2. s \in UserSlots
    BY <1>4, <1>27, <2>1, ObjectIs
  <2> QED
    BY <1>20, <1>25, <2>1, <2>2, ChangedSlots
<1>28. SlotExact(slot)' /\ LiveExact(n)'
  <2>1. objects'[n] = o /\ n \in LiveIds'
    BY <1>14
  <2>2. Block(slot)' = StridesOf(ownUsn, HeadOf(o, ownSequence), first, SecondStride(o, n))
    BY <1>3, <1>17
  <2> QED
    BY <1>3, <1>4, <1>5, <1>8, <1>12, <1>13, <1>20, <1>21, <1>27, <2>1, <2>2, ObjectWritten
<1>29. HolderOf(slot) = n /\ HolderOf(slot)' = n
  <2>1. n \in LiveIds' /\ objects'[n].slot = slot
    BY <1>8, <1>14
  <2> QED
    BY <1>2, <1>4, <1>14, <2>1, HolderFacts, LiveHolder
<1>30. \A m \in LiveIds' : objects'[m].slot \in {e, slot} => LiveExact(m)'
  <2> SUFFICES ASSUME NEW m \in LiveIds', objects'[m].slot \in {e, slot} PROVE LiveExact(m)'
    OBVIOUS
  <2>1. m \in LiveIds /\ m \in Ids /\ objects'[m].slot = slot
    BY <1>6, <1>14 DEF LiveIds
  <2>2. HolderOf(slot)' = m
    BY <1>14, <2>1, LiveHolder
  <2> QED
    BY <1>28, <1>29, <2>2
<1>31. \A m \in Ids' : objects'[m].whole
  BY <1>4, <1>8, <1>14 DEF Exact
<1>32. \A t \in {e, slot} : SequenceOf(t) \in Nat /\ SequenceOf(t)' \in Nat /\ SequenceOf(t) <= SequenceOf(t)'
  BY <1>3, <1>21, <1>22, <1>24, <1>25
<1>33. \A t \in {e, slot} : \A p \in Ids :
         /\ objects[p].slot = t
         /\ HolderOf(t)' # p \/ (habit = "delete" /\ ~objects'[p].live)
         => SequenceOf(t) < SequenceOf(t)' \/ HolderOf(t) # p \/ (habit = "delete" /\ ~objects[p].live)
  <2>1. \A p \in Ids : objects[p].slot = e => ~objects[p].live
    BY <1>6 DEF LiveIds
  <2> QED
    BY <1>8, <1>14, <1>22, <1>24, <1>29, <2>1
<1>34. \A t \in {e, slot} : SlotExact(t)'
  BY <1>26, <1>28
<1>35. \A m \in LiveIds : \A t \in {e, slot} : \A p \in LiveIds :
         /\ objects[m].slot \notin {e, slot}
         /\ p = objects[m].links[1] /\ objects[p].slot = t
         => SequenceOf(t)' = SequenceOf(t)
  BY <1>6, <1>25
<1>36. Exact'
  BY <1>4, <1>15, <1>20, <1>30, <1>31, <1>32, <1>33, <1>34, <1>35, ExactAfter
<1> QED
  BY <1>14, <1>15, <1>18, <1>19, <1>36 DEF VolumeInv, Carried, Spared

-----------------------------------------------------------------------------
(***************************************************************************)
(* The mishaps.                                                            *)
(***************************************************************************)

Spoiled(list, bad) ==
  \/ bad = [list EXCEPT !.ended = FALSE]
  \/ bad = [list EXCEPT !.runs[1].length = 0]
  \/ bad = [list EXCEPT !.runs[1].offset = (Digit^(list.runs[1].offsetWidth)) - 1]

RecordIs(list, runs, a, b, c, d) ==
  /\ list = [runs |-> runs, ended |-> TRUE] /\ runs[1] = [lengthWidth |-> a, length |-> b, offsetWidth |-> c, offset |-> d]
  /\ DOMAIN runs = 1..Len(runs) /\ Len(runs) \in Nat
  /\ runs = [i \in 1..Len(runs) |-> runs[i]] /\ runs = list.runs

LEMMA RunRecord ==
  ASSUME NEW clusters \in Seq(VolumeCluster \cup {Hole}), NEW list, list = encodeRunlist(clusters),
         1 \in DOMAIN list.runs
  PROVE  \E a, b, c, d, runs : RecordIs(list, runs, a, b, c, d)
<1>1. /\ IsRaws(list.runs)
  BY EncodedIs
<1>2. DOMAIN list.runs = 1..Len(list.runs) /\ Len(list.runs) \in Nat
  BY <1>1 DEF IsRaws
<1> DEFINE R == AllocatedRuns(clusters)
           previous(i) ==
             LET earlier == {j \in 1..(i - 1) : R[j].start # Hole}
             IN IF earlier = {} THEN 0 ELSE R[Max(earlier)].start
           delta(i) == R[i].start - previous(i)
           w(i) == IF R[i].start = Hole THEN 0 ELSE SignedWidth(delta(i))
           raw(i) == [lengthWidth |-> SignedWidth(R[i].len), length |-> R[i].len, offsetWidth |-> w(i),
                      offset |-> IF w(i) = 0 THEN 0 ELSE delta(i) % (Digit^w(i))]
           runs == [i \in DOMAIN R |-> raw(i)]
<1>3. list = [runs |-> runs, ended |-> TRUE]
  BY DEF encodeRunlist
<1>4. \A i \in DOMAIN R : runs[i] = raw(i)
  OBVIOUS
<1>5. DOMAIN runs = DOMAIN R
  OBVIOUS
<1>6. \A i : \E a, b, c, d : raw(i) = [lengthWidth |-> a, length |-> b, offsetWidth |-> c, offset |-> d]
  OBVIOUS
<1>7. runs = [i \in DOMAIN runs |-> runs[i]]
  OBVIOUS
<1> HIDE DEF runs, raw, R, w, delta, previous
<1>8. list.runs = runs
  BY <1>3
<1>9. 1 \in DOMAIN R
  BY <1>5, <1>8
<1>10. PICK a, b, c, d : raw(1) = [lengthWidth |-> a, length |-> b, offsetWidth |-> c, offset |-> d]
  BY ONLY <1>6
<1>11. /\ DOMAIN runs = 1..Len(runs) /\ Len(runs) \in Nat /\ runs = [i \in 1..Len(runs) |-> runs[i]]
  BY <1>2, <1>7, <1>8
<1>12. runs[1] = raw(1)
  BY <1>4, <1>9
<1>13. runs[1] = [lengthWidth |-> a, length |-> b, offsetWidth |-> c, offset |-> d]
  BY ONLY <1>10, <1>12
<1>14. RecordIs(list, runs, a, b, c, d)
  BY <1>3, <1>8, <1>11, <1>13 DEF RecordIs
<1> QED
  BY <1>14

(* A run list that is cut, or whose first run is empty or leads before the volume, is
   refused. *)
LEMMA SpoiledRefused ==
  ASSUME NEW clusters \in Seq(VolumeCluster \cup {Hole}), NEW list, list = encodeRunlist(clusters),
         1 \in DOMAIN list.runs, NEW bad, Spoiled(list, bad), NEW size
  PROVE  runlistExtents(bad, size) = [located |-> FALSE, extents |-> <<>>]
<1>0. PICK a, b, c, d, runs : RecordIs(list, runs, a, b, c, d)
  BY RunRecord
<1>1.   /\ list = [runs |-> runs, ended |-> TRUE] /\ runs[1] = [lengthWidth |-> a, length |-> b, offsetWidth |-> c, offset |-> d]
        /\ DOMAIN runs = 1..Len(runs) /\ Len(runs) \in Nat
        /\ runs = [i \in 1..Len(runs) |-> runs[i]] /\ runs = list.runs
  BY <1>0 DEF RecordIs
<1>2. IsRaws(runs) /\ list.ended = TRUE /\ 1 \in 1..Len(runs)
  BY <1>1, EncodedIs
<1>3. /\ b \in Nat /\ c \in 0..kMaxFieldWidth /\ (c # 0 => d \in Int)
  BY <1>1, <1>2 DEF IsRaws, IsRaw
<1>4. ~decodeRunlist(bad).ok => runlistExtents(bad, size) = [located |-> FALSE, extents |-> <<>>]
  BY DEF runlistExtents
<1>5. ~allRunsMappable(decodeRunlist(bad).runs) => runlistExtents(bad, size) = [located |-> FALSE, extents |-> <<>>]
  BY DEF runlistExtents
<1>6. CASE bad = [list EXCEPT !.ended = FALSE]
  <2>1. bad.runs = runs /\ bad.ended = FALSE
    BY <1>1, <1>6
  <2>2. IsRaws(bad.runs) /\ bad.ended \in BOOLEAN
    BY <1>2, <2>1
  <2> QED
    BY <1>4, <2>1, <2>2, DecodeOk
<1>7. ASSUME NEW x, x = [lengthWidth |-> a, length |-> 0, offsetWidth |-> c, offset |-> d] \/
                    x = [lengthWidth |-> a, length |-> b, offsetWidth |-> c, offset |-> (Digit^c) - 1],
             bad = [list EXCEPT !.runs[1] = x]
      PROVE  runlistExtents(bad, size) = [located |-> FALSE, extents |-> <<>>]
  <2>1. bad.ended = TRUE /\ bad.runs = [runs EXCEPT ![1] = x]
    BY <1>1, <1>7
  <2>2. PICK raws : raws = bad.runs
    OBVIOUS
  <2>3. /\ DOMAIN raws = 1..Len(runs) /\ raws[1] = x /\ \A i \in 1..Len(runs) : i # 1 => raws[i] = runs[i]
        /\ Len(raws) = Len(runs)
    <3>1. raws = [i \in 1..Len(runs) |-> IF i = 1 THEN x ELSE runs[i]]
      BY <1>1, <2>1, <2>2
    <3> QED
      BY <1>1, <1>2, <3>1
  <2>4. c # 0 => (Digit^c) \in Nat \ {0} /\ (Digit^c) % 2 = 0
    BY <1>3, WidthAssumption
  <2>5. IsRaw(x) /\ x.offsetWidth = c
    <3>1. CASE x = [lengthWidth |-> a, length |-> 0, offsetWidth |-> c, offset |-> d]
      BY <1>3, <3>1 DEF IsRaw
    <3>2. CASE x = [lengthWidth |-> a, length |-> b, offsetWidth |-> c, offset |-> (Digit^c) - 1]
      <4>1. x.length = b /\ x.offsetWidth = c /\ x.offset = (Digit^c) - 1
        BY <3>2
      <4> QED
        BY <1>3, <2>4, <4>1 DEF IsRaw
    <3> QED
      BY <1>7, <3>1, <3>2
  <2>6. IsRaws(raws)
    BY <1>1, <1>2, <2>3, <2>5 DEF IsRaws
  <2>7. SUFFICES ASSUME decodeRunlist(bad).ok
                 PROVE  ~allRunsMappable(decodeRunlist(bad).runs)
    BY <1>4, <1>5
  <2>8. PICK lcn : Placing(raws, lcn) /\ decodeRunlist(bad).runs = PlacedAt(raws, lcn)
    BY <2>1, <2>2, <2>6, <2>7, DecodeOk
  <2>9. lcn[0] = 0 /\ readRawRun(x) /\ placeRun(x, lcn[0]).start # -1
    BY <1>2, <2>3, <2>8 DEF Placing
  <2>10. x.length # 0
    BY <2>9 DEF readRawRun, makeRawRun
  <2>11. x = [lengthWidth |-> a, length |-> b, offsetWidth |-> c, offset |-> (Digit^c) - 1]
    BY <1>7, <2>10
  <2>12. x.offset = (Digit^c) - 1
    BY <2>11
  <2>13. c = 0
    <3> SUFFICES ASSUME c # 0 PROVE FALSE
      OBVIOUS
    <3>1. PICK span : span = Digit^c
      OBVIOUS
    <3>2. span \in Nat \ {0} /\ span % 2 = 0
      BY <2>4, <3>1
    <3>3. span - 1 >= span \div 2 /\ span \div 2 \in Int
      BY <3>2
    <3>4. signedDelta(x) = -1
      <4>1. signedDelta(x) = IF x.offset >= span \div 2 THEN x.offset - span ELSE x.offset
        BY <2>5, <3>1 DEF signedDelta
      <4> QED
        BY <2>12, <3>1, <3>2, <3>3, <4>1
    <3>5. nextLcn(0, x) = -1
      BY <3>4 DEF nextLcn
    <3>6. placeRun(x, 0).start = -1
      BY <2>5, <3>5 DEF placeRun
    <3> QED
      BY <2>9, <3>6
  <2>14. placeRun(x, lcn[0]).sparse = TRUE
    BY <2>5, <2>13 DEF placeRun
  <2>15. 1 \in DOMAIN decodeRunlist(bad).runs /\ decodeRunlist(bad).runs[1] = placeRun(x, lcn[0])
    BY <1>2, <2>3, <2>8 DEF PlacedAt
  <2> QED
    BY <2>14, <2>15 DEF allRunsMappable
<1>8. CASE bad = [list EXCEPT !.runs[1].length = 0]
  <2>1. PICK x : x = [lengthWidth |-> a, length |-> 0, offsetWidth |-> c, offset |-> d]
    OBVIOUS
  <2>2. [runs[1] EXCEPT !.length = 0] = x
    BY <1>1, <2>1
  <2>3. bad = [list EXCEPT !.runs[1] = x]
    BY <1>1, <1>8, <2>2
  <2> QED
    BY <1>7, <2>1, <2>3
<1>9. CASE bad = [list EXCEPT !.runs[1].offset = (Digit^(list.runs[1].offsetWidth)) - 1]
  <2>1. PICK x, v : x = [lengthWidth |-> a, length |-> b, offsetWidth |-> c, offset |-> v] /\ v = (Digit^c) - 1
    OBVIOUS
  <2>2. list.runs[1].offsetWidth = c
    BY <1>1
  <2>3. bad = [list EXCEPT !.runs[1].offset = v]
    BY <1>9, <2>1, <2>2
  <2>4. [runs[1] EXCEPT !.offset = v] = x
    BY <1>1, <2>1
  <2>5. bad = [list EXCEPT !.runs[1] = x]
    BY <1>1, <2>3, <2>4
  <2>6. x = [lengthWidth |-> a, length |-> b, offsetWidth |-> c, offset |-> (Digit^c) - 1]
    BY <2>1
  <2> QED
    BY <1>7, <2>5, <2>6
<1> QED
  BY <1>6, <1>8, <1>9 DEF Spoiled

LEMMA NotWholeIs ==
  ASSUME NEW o \in Object, NEW ob, ob = [o EXCEPT !.whole = FALSE]
  PROVE  /\ ob \in Object /\ ob.slot = o.slot /\ ob.links = o.links /\ ob.live = o.live /\ ob.dir = o.dir
         /\ ob.clusters = o.clusters /\ ob.size = o.size /\ ob.resident = o.resident /\ ob.place = o.place
BY DEF Object

(* What the medium loses of one record: the host has nothing new in mind. *)
LEMMA ObjectsHarmed ==
  ASSUME ObjectsInv, NEW slot, objects' = NotWhole(slot)
  PROVE  /\ ObjectsInv' /\ Ids' = Ids /\ LiveIds' = LiveIds
         /\ \A n \in Ids : objects'[n].slot = objects[n].slot
         /\ \A n \in Ids : objects'[n] = IF objects[n].slot = slot THEN [objects[n] EXCEPT !.whole = FALSE]
                                         ELSE objects[n]
         /\ \A s : HolderOf(s)' = HolderOf(s)
<1>1. objects \in Seq(Object) /\ Ids = 1..Len(objects) /\ Len(objects) \in Nat /\ \A n \in Ids : objects[n] \in Object
  BY ObjectIs DEF ObjectsInv
<1>2. objects' = [n \in Ids |-> IF objects[n].slot = slot THEN [objects[n] EXCEPT !.whole = FALSE] ELSE objects[n]]
  BY DEF NotWhole
<1>3. \A n \in Ids : objects'[n] = IF objects[n].slot = slot THEN [objects[n] EXCEPT !.whole = FALSE] ELSE objects[n]
  BY ONLY <1>2
<1>4. DOMAIN objects' = 1..Len(objects)
  BY <1>1, <1>2
<1>5. ASSUME NEW n \in Ids
      PROVE  /\ objects'[n] \in Object /\ objects'[n].slot = objects[n].slot /\ objects'[n].live = objects[n].live
             /\ objects'[n].links = objects[n].links
             /\ SizeFits(objects'[n])
  <2>1. PICK o, ob : o = objects[n] /\ ob = objects'[n]
    OBVIOUS
  <2>2. o \in Object /\ SizeFits(o)
    BY <1>1, <2>1 DEF ObjectsInv
  <2>3. CASE ob = o
    BY <2>1, <2>2, <2>3
  <2>4. CASE ob = [o EXCEPT !.whole = FALSE]
    <3>1. /\ ob \in Object /\ ob.slot = o.slot /\ ob.links = o.links /\ ob.live = o.live
          /\ ob.clusters = o.clusters /\ ob.size = o.size /\ ob.resident = o.resident /\ ob.place = o.place
      BY <2>2, <2>4, NotWholeIs
    <3>2. SizeFits(ob)
      BY <2>2, <3>1 DEF SizeFits
    <3> QED
      BY <2>1, <3>1, <3>2
  <2> QED
    BY <1>3, <2>1, <2>3, <2>4
<1> HIDE DEF Object
<1>6. objects' \in Seq(Object) /\ Len(objects') = Len(objects)
  <2> DEFINE N == Len(objects)
  <2>1. \A n \in 1..N : objects'[n] \in Object
    BY <1>1, <1>5
  <2>2. objects' = [n \in 1..N |-> objects'[n]]
    BY <1>1, <1>2
  <2>3. N \in Nat
    BY <1>1
  <2> HIDE DEF N
  <2>4. objects' \in Seq(Object) /\ Len(objects') = N
    BY <2>1, <2>2, <2>3
  <2> QED
    BY <2>4 DEF N
<1>7. Ids' = Ids
  BY <1>1, <1>4 DEF Ids
<1>8. LiveIds' = LiveIds
  BY <1>5, <1>7 DEF LiveIds
<1>9. ASSUME NEW n \in Ids
      PROVE  /\ Len(objects'[n].links) > 0 /\ LinksLead(objects'[n], Ids)
             /\ objects'[n].live => LinksLead(objects'[n], LiveIds')
  BY <1>5, <1>8 DEF ObjectsInv, LinksLead
<1>10. ObjectsInv'
  BY <1>5, <1>6, <1>9, ObjectsKept
<1>11. ASSUME NEW s PROVE HolderOf(s)' = HolderOf(s)
  <2>1. HolderIn(objects', s) = HolderIn(objects, s)
    BY <1>5, <1>7, HolderSame DEF Ids
  <2> QED
    BY <2>1 DEF HolderOf, HolderIn, Ids, Root
<1> QED
  BY <1>3, <1>5, <1>7, <1>8, <1>10, <1>11

PutAt(at, v) == disk' = [disk EXCEPT ![at] = v]
BlockAfter(slot, half, v, at) ==
  /\ DOMAIN disk' = VolumeMap /\ disk' = [c \in VolumeMap |-> disk'[c]]
  /\ \A s \in Slots \ {slot} : Block(s)' = Block(s)
  /\ Block(slot)'[half] = v /\ \A j \in 1..2 : j # half => Block(slot)'[j] = Block(slot)[j]
  /\ Block(slot)[half] = disk[at]

LEMMA BlockHarmed ==
  ASSUME VolumeType, layout' = layout, NEW slot \in UserSlots, NEW half \in 1..2, NEW v, NEW at,
         at = SlotClusters(slot)[half], PutAt(at, v)
  PROVE  BlockAfter(slot, half, v, at)
<1>1. slot \in Slots /\ at \in VolumeMap
  BY NumbersAre, SlotClustersAre
<1>2. DOMAIN disk = VolumeMap /\ disk = [c \in VolumeMap |-> disk[c]]
  BY DEF VolumeType
<1>3. disk' = [c \in VolumeMap |-> IF c = at THEN v ELSE disk[c]]
  BY <1>1, <1>2 DEF PutAt
<1>4. DOMAIN disk' = VolumeMap /\ disk' = [c \in VolumeMap |-> disk'[c]]
  BY <1>3
<1>5. \A s : SlotClusters(s)' = SlotClusters(s)
  BY DEF SlotClusters
<1>6. \A s : Block(s)' = [i \in 1..2 |-> disk'[SlotClusters(s)[i]]]
  BY <1>5 DEF Block, Strides
<1>7. \A s : Block(s) = [i \in 1..2 |-> disk[SlotClusters(s)[i]]]
  BY DEF Block, Strides
<1>8. ASSUME NEW s \in Slots, NEW i \in 1..2
      PROVE  disk'[SlotClusters(s)[i]] = IF s = slot /\ i = half THEN v ELSE disk[SlotClusters(s)[i]]
  <2>1. PICK c : c = SlotClusters(s)[i]
    OBVIOUS
  <2>2. c \in VolumeMap /\ (c = at <=> s = slot /\ i = half)
    BY <1>1, <2>1, SlotClustersAre
  <2> QED
    BY <1>3, <2>1, <2>2
<1>9. ASSUME NEW s \in Slots \ {slot} PROVE Block(s)' = Block(s)
  <2>1. \A i \in 1..2 : disk'[SlotClusters(s)[i]] = disk[SlotClusters(s)[i]]
    BY <1>8
  <2> QED
    BY <1>6, <1>7, <2>1
<1> QED
  BY <1>1, <1>4, <1>6, <1>7, <1>8, <1>9 DEF BlockAfter

(* A mishap to one record that still shows that it is not whole. *)
LEMMA HarmStep ==
  ASSUME VolumeInv, running, NEW slot \in UserSlots, NEW half \in 1..2, NEW v, NEW at,
         at = SlotClusters(slot)[half], PutAt(at, v), objects' = NotWhole(slot), Harm,
         unreadable' = unreadable
  PROVE  VolumeType' /\ ObjectsInv' /\ ZeroInv' /\ Changed({slot}) /\ BlockAfter(slot, half, v, at)
<1>1. VolumeType /\ ObjectsInv /\ ZeroInv /\ Exact
  BY DEF VolumeInv
<1>2. layout' = layout /\ habit' = habit /\ running' = FALSE
  BY DEF Harm
<1>3. /\ ObjectsInv' /\ Ids' = Ids
      /\ \A n \in Ids : objects'[n].slot = objects[n].slot
      /\ \A n \in Ids : objects[n].slot # slot => objects'[n] = objects[n]
  BY <1>1, ObjectsHarmed
<1>4. /\ DOMAIN disk' = VolumeMap /\ disk' = [c \in VolumeMap |-> disk'[c]]
      /\ \A s \in Slots \ {slot} : Block(s)' = Block(s)
      /\ Block(slot)'[half] = v /\ \A j \in 1..2 : j # half => Block(slot)'[j] = Block(slot)[j]
      /\ Block(slot)[half] = disk[at]
  <2>1. BlockAfter(slot, half, v, at)
    BY <1>1, <1>2, BlockHarmed
  <2> QED
    BY ONLY <2>1 DEF BlockAfter
<1>5. VolumeType'
  BY <1>1, <1>2, <1>4 DEF VolumeType
<1>6. ZeroInv'
  BY <1>1, <1>2, <1>4, ZeroAfter
<1>7. Changed({slot})
  <2>1. UserSlots \subseteq Slots
    BY NumbersAre
  <2> QED
    BY <1>1, <1>2, <1>3, <1>4, <1>5, <2>1 DEF Changed
<1> QED
  BY <1>3, <1>4, <1>5, <1>6, <1>7 DEF BlockAfter

LEMMA HarmDone ==
  ASSUME VolumeInv, running, NEW slot \in UserSlots, Harm, objects' = NotWhole(slot),
         VolumeType', ObjectsInv', ZeroInv', Changed({slot}),
         Parsed(slot)' => Parsed(slot) /\ Block(slot)'[1].head.sequence = Block(slot)[1].head.sequence,
         Sound(slot)'
  PROVE  Carried
<1>1. ObjectsInv /\ Exact
  BY DEF VolumeInv
<1>2. HolderOf(slot)' = HolderOf(slot)
  BY <1>1, ObjectsHarmed
<1>3. SoundInv'
  BY <1>1, <1>2, SoundAfter
<1>4. \A n \in Ids : /\ objects'[n].slot = objects[n].slot
                     /\ objects[n].slot = slot => objects'[n] = [objects[n] EXCEPT !.whole = FALSE]
  BY <1>1, ObjectsHarmed
<1>5. Spared
  <2> SUFFICES ASSUME NEW n \in LiveIds', objects'[n].slot = slot PROVE ~objects'[n].whole
    BY DEF Spared
  <2>1. n \in Ids
    BY <1>1, ObjectsHarmed DEF LiveIds
  <2>2. objects'[n] = [objects[n] EXCEPT !.whole = FALSE] /\ objects[n] \in Object
    BY <1>1, <1>4, <2>1, ObjectIs
  <2> QED
    BY <2>2 DEF Object
<1> QED
  BY <1>3, <1>5 DEF VolumeInv, Harm, Carried

LEMMA ParsedNext ==
  ASSUME NEW s, NEW b, b = Block(s)'
  PROVE  Parsed(s)' <=> /\ b[1].kind = "mft" /\ b[2].kind = "mft" /\ b[2].usn = b[1].usn
                        /\ b[1].head.flaw \notin {"magic", "offset", "usa"}
                        /\ b[1].head.base = 0
<1>1. Parsed(s)' <=> /\ signatureIsFile(b) /\ readRecordHeader(b) /\ readUsaHeader(b)
                     /\ applyUpdateSequenceFixup(b) /\ b[1].head.base = 0
  BY DEF Parsed, signatureIsFile, readRecordHeader, readUsaHeader, applyUpdateSequenceFixup
<1>2. applyUpdateSequenceFixup(b) <=> /\ b[1].kind = "mft" /\ b[2].kind = "mft" /\ b[2].usn = b[1].usn
  BY DEF applyUpdateSequenceFixup, Strides
<1> QED
  BY <1>1, <1>2 DEF signatureIsFile, readRecordHeader, readUsaHeader

NotLocated == [located |-> FALSE, extents |-> <<>>]
SameName(x, a) ==
  x.type = a.type /\ (isName(a) => x.name = a.name /\ x.dos = a.dos /\ x.parent = a.parent)
SameData(x, a) ==
  /\ x.type = a.type /\ x.stream = a.stream /\ x.content = a.content /\ x.size = a.size
  /\ x.resident = a.resident
  /\ a.stream = "unnamed" => x.runs = a.runs \/ runlistExtents(x.runs, x.size) = NotLocated
Harmed(first, second, f, g) ==
  /\ IsSeq(f) /\ IsSeq(g) /\ DOMAIN f = DOMAIN first /\ DOMAIN g = DOMAIN second
  /\ \A i \in DOMAIN first : SameName(f[i], first[i])
  /\ \A i \in DOMAIN second : SameData(g[i], second[i])
  /\ \/ \E i \in DOMAIN f : Unfit(f[i])
     \/ \E i \in DOMAIN g : Unfit(g[i])
     \/ \A i \in DOMAIN g : g[i].stream = "unnamed" => ~g[i].resident /\ ~Located(g[i])

LEMMA StreamHarmed ==
  ASSUME NEW x, NEW a, SameData(x, a), a.stream = "unnamed", NEW o, NEW ob, NEW n, StreamOf(a, o, n),
         ob.size = o.size, ob.resident = o.resident, ob.clusters = o.clusters
  PROVE  StreamOf(x, ob, n)
<1>1. DeviceBytes(ob) = DeviceBytes(o)
  BY DEF DeviceBytes
<1>2. x.content = n /\ x.size = ob.size /\ x.resident = ob.resident /\ x.resident = a.resident
  BY DEF SameData, StreamOf
<1>3. CASE x.runs = a.runs
  <2>1. x.size = a.size
    BY DEF SameData
  <2> QED
    BY <1>1, <1>2, <1>3, <2>1 DEF StreamOf, Located
<1>4. CASE runlistExtents(x.runs, x.size) = NotLocated
  <2>1. Located(x) = FALSE
    BY <1>4 DEF Located, NotLocated
  <2> QED
    BY <1>2, <2>1 DEF StreamOf
<1> QED
  BY <1>3, <1>4 DEF SameData

LEMMA SpoiltRecord ==
  ASSUME ObjectsInv, NEW slot \in UserSlots, objects' = NotWhole(slot), NEW head, NEW first, NEW second,
         RecordSound(slot, head, first, second), NEW f, NEW g, Harmed(first, second, f, g),
         \A ref : \A p : RefSound(ref, p) => RefSound(ref, p)'
  PROVE  RecordSound(slot, head, f, g)'
<1>1. PICK n, o : n = HolderOf(slot) /\ o = objects[n]
  OBVIOUS
<1>2. /\ n \in Ids /\ head.dir = o.dir /\ head.inUse = o.live
      /\ IsSeq(first) /\ IsSeq(second) /\ NamesAre(first, n)
      /\ \A i \in DOMAIN first : first[i].type # "data"
      /\ \A i \in DOMAIN second : second[i].type = "data"
      /\ \A i \in DOMAIN first : isName(first[i]) => first[i].dos \in BOOLEAN
      /\ \A i \in DOMAIN first : MayStand(first, i) => RefSound(first[i].parent, o.links[1])
      /\ \A i \in DOMAIN second : second[i].stream = "unnamed" => StreamOf(second[i], o, n)
  BY <1>1 DEF RecordSound
<1>3. o.slot = slot /\ o \in Object
  <2>1. n # Root => o.slot = slot
    BY <1>1, HolderFacts
  <2>2. n # Root
    BY <1>2, ObjectIs DEF Root
  <2> QED
    BY <1>1, <1>2, <2>1, <2>2, ObjectIs
<1>4. PICK ob : ob = [o EXCEPT !.whole = FALSE]
  OBVIOUS
<1>5. /\ ob.links = o.links /\ ob.live = o.live /\ ob.dir = o.dir
      /\ ob.clusters = o.clusters /\ ob.size = o.size /\ ob.resident = o.resident
  BY <1>3, <1>4, NotWholeIs
<1>6. n \in Ids' /\ objects'[n] = ob /\ HolderOf(slot)' = n
  BY <1>1, <1>2, <1>3, <1>4, ObjectsHarmed
<1>7. /\ IsSeq(f) /\ IsSeq(g) /\ DOMAIN f = DOMAIN first /\ DOMAIN g = DOMAIN second
      /\ \A i \in DOMAIN first : SameName(f[i], first[i])
      /\ \A i \in DOMAIN second : SameData(g[i], second[i])
      /\ \/ \E i \in DOMAIN f : Unfit(f[i])
         \/ \E i \in DOMAIN g : Unfit(g[i])
         \/ \A i \in DOMAIN g : g[i].stream = "unnamed" => ~g[i].resident /\ ~Located(g[i])
  BY DEF Harmed
<1>8. \A i \in DOMAIN first :
        /\ f[i].type = first[i].type /\ (isName(f[i]) <=> isName(first[i]))
        /\ isName(first[i]) => f[i].name = first[i].name /\ f[i].dos = first[i].dos /\ f[i].parent = first[i].parent
  BY <1>7 DEF SameName, isName
<1>9. DOMAIN first = 1..Len(first) /\ Len(first) \in Nat
  BY <1>2, SeqIs
<1>10. ASSUME NEW i \in DOMAIN f, MayStand(f, i) PROVE RefSound(f[i].parent, ob.links[1])'
  <2>1. isName(first[i]) /\ (f[i].dos \/ \A j \in 1..(i - 1) : isName(f[j]) => f[j].dos)
    BY <1>7, <1>8, <1>10 DEF MayStand
  <2>2. first[i].dos \/ \A j \in 1..(i - 1) : isName(first[j]) => first[j].dos
    <3>1. i \in 1..Len(first) /\ 1..(i - 1) \subseteq 1..Len(first)
      BY <1>7, <1>9
    <3> QED
      BY <1>8, <1>9, <2>1, <3>1
  <2>3. MayStand(first, i)
    BY <2>1, <2>2 DEF MayStand
  <2>4. PICK ref, p : ref = first[i].parent /\ p = o.links[1]
    OBVIOUS
  <2>5. RefSound(ref, p)
    BY <1>2, <1>7, <2>3, <2>4
  <2>6. RefSound(ref, p)'
    BY <2>5
  <2> QED
    BY <1>5, <1>7, <1>8, <2>1, <2>4, <2>6
<1>11. \A i \in DOMAIN g : g[i].stream = "unnamed" => StreamOf(g[i], ob, n)
  <2> SUFFICES ASSUME NEW i \in DOMAIN g, g[i].stream = "unnamed" PROVE StreamOf(g[i], ob, n)
    OBVIOUS
  <2>1. SameData(g[i], second[i]) /\ second[i].stream = "unnamed"
    BY <1>7 DEF SameData
  <2> QED
    BY <1>2, <1>5, <1>7, <2>1, StreamHarmed
<1>12. NamesAre(f, n) /\ \A i \in DOMAIN f : isName(f[i]) => f[i].dos \in BOOLEAN
  <2>1. \A i \in DOMAIN first : isName(first[i]) => first[i].name = IF first[i].dos THEN -n ELSE n
    BY <1>2 DEF NamesAre
  <2>2. \A i \in DOMAIN f : isName(f[i]) => f[i].name = IF f[i].dos THEN -n ELSE n
    BY <1>7, <1>8, <2>1
  <2> QED
    BY <1>2, <1>7, <1>8, <2>2 DEF NamesAre
<1>13. (\A i \in DOMAIN f : f[i].type # "data") /\ \A i \in DOMAIN g : g[i].type = "data"
  BY <1>2, <1>7, <1>8 DEF SameData
<1>14. ShowsWhole(ob, f, g)
  BY <1>7 DEF ShowsWhole
<1> QED
  BY <1>2, <1>5, <1>6, <1>7, <1>10, <1>11, <1>12, <1>13, <1>14 DEF RecordSound

(* The attributes of one stride change under the host. *)
LEMMA AttrsHarm ==
  ASSUME VolumeInv, running, NEW slot \in UserSlots, Used(slot), NEW half \in 1..2, NEW at,
         at = SlotClusters(slot)[half], NEW attrs, NEW v, v = [disk[at] EXCEPT !.attrs = attrs],
         PutAt(at, v), objects' = NotWhole(slot), Harm, unreadable' = unreadable,
         NEW first, first = Block(slot)[1].attrs, NEW second, second = Block(slot)[2].attrs,
         NEW f, f = IF half = 1 THEN attrs ELSE first, NEW g, g = IF half = 2 THEN attrs ELSE second,
         Block(slot)[1].head.base = 0 => Harmed(first, second, f, g)
  PROVE  Carried
<1>1. VolumeType /\ ObjectsInv /\ ZeroInv /\ Exact /\ SlotExact(slot) /\ slot \in Slots
  BY NumbersAre DEF VolumeInv, Exact
<1>2. /\ VolumeType' /\ ObjectsInv' /\ ZeroInv' /\ Changed({slot})
      /\ Block(slot)'[half] = v /\ \A j \in 1..2 : j # half => Block(slot)'[j] = Block(slot)[j]
      /\ Block(slot)[half] = disk[at]
  <2>1. VolumeType' /\ ObjectsInv' /\ ZeroInv' /\ Changed({slot}) /\ BlockAfter(slot, half, v, at)
    BY HarmStep
  <2> QED
    BY ONLY <2>1 DEF BlockAfter
<1>3. PICK b, b2, usn, head : b = Block(slot) /\ b2 = Block(slot)' /\ usn = b[1].usn /\ head = b[1].head
  OBVIOUS
<1>4. b[1].kind = "mft" /\ RecordExact(slot, usn, head, first, second) /\ head.flaw = "none"
  <2>1. b[1].kind = "mft"
    BY SMTT(60), <1>1, <1>3, HeaderIs
  <2> QED
    BY <1>1, <1>3, <2>1, ExactSlot
<1>5. b = StridesOf(usn, head, first, second)
  BY <1>3, <1>4 DEF RecordExact
<1>6. /\ b[1] = [kind |-> "mft", usn |-> usn, head |-> head, attrs |-> first]
      /\ b[2] = [kind |-> "mft", usn |-> usn, head |-> NoHead, attrs |-> second]
  BY <1>5 DEF StridesOf
<1>7. /\ b2[1].kind = "mft" /\ b2[1].usn = usn /\ b2[1].head = head /\ b2[1].attrs = f
      /\ b2[2].kind = "mft" /\ b2[2].usn = usn /\ b2[2].attrs = g
  <2>1. CASE half = 1
    <3>1. v = [b[1] EXCEPT !.attrs = attrs] /\ b2[1] = v /\ b2[2] = b[2] /\ f = attrs /\ g = second
      BY <1>2, <1>3, <2>1
    <3>2. v = [kind |-> "mft", usn |-> usn, head |-> head, attrs |-> attrs]
      BY <1>6, <3>1
    <3> QED
      BY <1>6, <3>1, <3>2
  <2>2. CASE half = 2
    <3>1. v = [b[2] EXCEPT !.attrs = attrs] /\ b2[2] = v /\ b2[1] = b[1] /\ g = attrs /\ f = first
      BY <1>2, <1>3, <2>2
    <3>2. v = [kind |-> "mft", usn |-> usn, head |-> NoHead, attrs |-> attrs]
      BY <1>6, <3>1
    <3> QED
      BY <1>6, <3>1, <3>2
  <2> QED
    BY <2>1, <2>2
<1>8. Parsed(slot)' <=> head.base = 0
  <2>1. Parsed(slot)' <=> /\ b2[1].kind = "mft" /\ b2[2].kind = "mft" /\ b2[2].usn = b2[1].usn
                          /\ b2[1].head.flaw \notin {"magic", "offset", "usa"}
                          /\ b2[1].head.base = 0
    BY ONLY <1>3, ParsedNext
  <2> QED
    BY ONLY <1>4, <1>7, <2>1
<1>9. head.base = 0 => Parsed(slot)
  <2>1. Parsed(slot) <=> /\ Block(slot)[1].kind = "mft" /\ Block(slot)[2].kind = "mft"
                         /\ Block(slot)[2].usn = Block(slot)[1].usn
                         /\ Block(slot)[1].head.flaw \notin {"magic", "offset", "usa"}
                         /\ Block(slot)[1].head.base = 0
    BY ONLY <1>1, ParsedIs
  <2>2. /\ b[1].kind = "mft" /\ b[2].kind = "mft" /\ b[2].usn = b[1].usn /\ b[1].head = head
    BY <1>6
  <2> QED
    BY ONLY <1>3, <1>4, <2>1, <2>2
<1>10. Parsed(slot)' => Parsed(slot) /\ Block(slot)'[1].head.sequence = Block(slot)[1].head.sequence
  BY <1>3, <1>7, <1>8, <1>9
<1>11. Sound(slot)'
  <2> SUFFICES ASSUME Parsed(slot)'
               PROVE  RecordSound(slot, Block(slot)[1].head, Block(slot)[1].attrs, Block(slot)[2].attrs)'
    BY DEF Sound
  <2>1. head.base = 0 /\ Parsed(slot) /\ Harmed(first, second, f, g)
    BY <1>3, <1>8, <1>9
  <2>2. RecordSound(slot, head, first, second)
    BY <1>1, <1>3, <2>1, ExactRecordSound
  <2>3. HolderOf(slot)' = HolderOf(slot)
    BY <1>1, ObjectsHarmed
  <2>4. \A ref : \A p : RefSound(ref, p) => RefSound(ref, p)'
    BY <1>2, <1>10, <2>3, ChangedRefSound
  <2>5. RecordSound(slot, head, f, g)'
    BY <1>1, <2>1, <2>2, <2>4, SpoiltRecord
  <2> QED
    BY <1>3, <1>7, <2>5
<1> QED
  BY <1>2, <1>10, <1>11, HarmDone

IsData(a) == a = DataAttr(a.stream, a.resident, a.runs, a.size, a.content)

LEMMA StreamIs ==
  ASSUME NEW n
  PROVE  StreamData(n).stream = "stream"
<1>1. PICK m : m = -n
  OBVIOUS
<1>2. StreamData(n) = DataAttr("stream", TRUE, NoRuns, 1, m)
  BY <1>1 DEF StreamData
<1> QED
  BY <1>2 DEF DataAttr

LEMMA SecondData ==
  ASSUME NEW o \in Object, SizeFits(o), NEW n, NEW second, second = SecondStride(o, n)
  PROVE  /\ \A i \in DOMAIN second : IsData(second[i])
         /\ \A i, j \in DOMAIN second : second[i].stream = "unnamed" /\ second[j].stream = "unnamed" => i = j
<1>1. ASSUME NEW stream, NEW resident, NEW runs, NEW size, NEW content, NEW a,
             a = DataAttr(stream, resident, runs, size, content)
      PROVE  IsData(a)
  <2>1. a.stream = stream /\ a.resident = resident /\ a.runs = runs /\ a.size = size /\ a.content = content
    BY <1>1, DataFields
  <2> QED
    BY <1>1, <2>1 DEF IsData
<1>2. IsData(OwnData(o, n)) /\ IsData(StartData(o, n)) /\ IsData(StreamData(n))
  BY <1>1, StartIs DEF OwnData, StreamData
<1>3. \A i \in DOMAIN second : second[i] = OwnData(o, n) \/ second[i] = StartData(o, n) \/ second[i] = StreamData(n)
  BY SecondDescribes
<1>4. StreamData(n).stream = "stream"
  BY StreamIs
<1>5. PICK own, start, stream : own = OwnData(o, n) /\ start = StartData(o, n) /\ stream = StreamData(n)
  OBVIOUS
<1>6. second \in {<<>>, <<own, stream>>, <<start, stream>>, <<stream>>} /\ stream.stream = "stream"
  BY <1>4, <1>5, SecondIs
<1>7. \A i \in DOMAIN second : second[i].stream = "unnamed" => i = 1
  <2>1. CASE second = <<>>
    BY <2>1
  <2>2. CASE second = <<own, stream>>
    BY <1>6, <2>2
  <2>3. CASE second = <<start, stream>>
    BY <1>6, <2>3
  <2>4. CASE second = <<stream>>
    BY <1>6, <2>4
  <2> QED
    BY <1>6, <2>1, <2>2, <2>3, <2>4
<1> QED
  BY <1>2, <1>3, <1>7

LEMMA FlawedFirst ==
  ASSUME NEW a \in FirstAttrs, NEW flaw, NEW x, x = [a EXCEPT !.flaw = flaw]
  PROVE  x.flaw = flaw /\ SameName(x, a)
<1>1. CASE a \in [type : {"std", "list"}, flaw : {"none"}]
  BY <1>1 DEF SameName, isName
<1>2. CASE a \in [type : {"name"}, flaw : {"none"}, parent : References, name : Int, dos : BOOLEAN]
  BY <1>2 DEF SameName, isName
<1> QED
  BY <1>1, <1>2 DEF FirstAttrs

LEMMA FlawedData ==
  ASSUME NEW a, IsData(a), NEW flaw, NEW x, x = [a EXCEPT !.flaw = flaw]
  PROVE  x.flaw = flaw /\ SameData(x, a)
BY DEF IsData, DataAttr, SameData

LEMMA RerunData ==
  ASSUME NEW a, IsData(a), NEW runs, NEW x, x = [a EXCEPT !.runs = runs],
         runlistExtents(runs, a.size) = NotLocated
  PROVE  x.runs = runs /\ x.size = a.size /\ x.resident = a.resident /\ x.stream = a.stream /\ SameData(x, a)
BY DEF IsData, DataAttr, SameData

LEMMA SeqExcept ==
  ASSUME NEW s, IsSeq(s), NEW i \in DOMAIN s, NEW x, NEW f, f = [s EXCEPT ![i] = x]
  PROVE  IsSeq(f) /\ DOMAIN f = DOMAIN s /\ f[i] = x /\ \A j \in DOMAIN s : j # i => f[j] = s[j]
<1>1. Len(s) \in Nat /\ DOMAIN s = 1..Len(s) /\ s = [j \in 1..Len(s) |-> s[j]]
  BY SeqIs
<1>2. f = [j \in 1..Len(s) |-> IF j = i THEN x ELSE s[j]]
  BY <1>1
<1>3. DOMAIN f = DOMAIN s /\ f[i] = x /\ \A j \in DOMAIN s : j # i => f[j] = s[j]
  BY <1>1, <1>2
<1>4. IsSeq(f)
  <2>1. PICK N : N = Len(s)
    OBVIOUS
  <2>2. N \in Nat /\ f = [j \in 1..N |-> f[j]] /\ DOMAIN f = 1..N
    BY <1>1, <1>2, <2>1
  <2>3. \A j \in 1..N : f[j] \in Range(f)
    BY <2>2 DEF Range
  <2>4. f \in [1..N -> Range(f)]
    BY <2>2, <2>3
  <2>5. f \in Seq(Range(f))
    <3>1. PICK S : S = Range(f)
      OBVIOUS
    <3>2. f \in [1..N -> S] /\ N \in Nat
      BY <2>2, <2>4, <3>1
    <3>3. f \in Seq(S)
      BY ONLY <3>2, SeqDef
    <3> QED
      BY <3>1, <3>3
  <2> QED
    BY <2>5 DEF IsSeq
<1> QED
  BY <1>3, <1>4

LEMMA SameItself == \A a : SameName(a, a) /\ SameData(a, a)
BY DEF SameName, SameData

LEMMA FirstHarmed ==
  ASSUME NEW first \in Seq(FirstAttrs), NEW second, IsSeq(second), NEW i \in DOMAIN first,
         NEW flaw \in {"length", "tail", "content"}, flaw = "content" => first[i].type \in {"std", "name"},
         flaw = "tail" => first[i].type = "data",
         NEW x, x = [first[i] EXCEPT !.flaw = flaw], NEW f, f = [first EXCEPT ![i] = x]
  PROVE  Harmed(first, second, f, second)
<1>1. IsSeq(first) /\ \A j \in DOMAIN first : first[j] \in FirstAttrs
  <2> HIDE DEF FirstAttrs
  <2> QED
    BY IsSeqIf
<1>2. x.flaw = flaw /\ SameName(x, first[i]) /\ first[i].type # "data"
  <2>1. PICK a : a = first[i]
    OBVIOUS
  <2>2. a \in FirstAttrs /\ x = [a EXCEPT !.flaw = flaw]
    BY <1>1, <2>1
  <2>3. x.flaw = flaw /\ SameName(x, a)
    BY ONLY <2>2, FlawedFirst
  <2>4. a.type # "data"
    BY <2>2, FirstFit
  <2> QED
    BY <2>1, <2>3, <2>4
<1>3. IsSeq(f) /\ DOMAIN f = DOMAIN first /\ f[i] = x /\ \A j \in DOMAIN first : j # i => f[j] = first[j]
  BY <1>1, SeqExcept
<1>4. \A j \in DOMAIN first : SameName(f[j], first[j])
  BY <1>2, <1>3, SameItself
<1>5. Unfit(x)
  <2>1. CASE flaw = "length"
    BY <1>2, <2>1 DEF Unfit, readAttributeView, attributeLengthValid
  <2>2. CASE flaw = "content"
    <3>1. x.type \in {"std", "name"}
      BY <1>2, <2>2 DEF SameName
    <3> QED
      BY <1>2, <2>2, <3>1 DEF Unfit, consumeAttribute, parseStandardInformation, parseFileName
  <2> QED
    BY <1>2, <2>1, <2>2
<1> QED
  BY <1>3, <1>4, <1>5, SameItself DEF Harmed

LEMMA SecondHarmed ==
  ASSUME NEW o \in Object, SizeFits(o), NEW n, NEW second, second = SecondStride(o, n),
         NEW first, IsSeq(first), NEW i \in DOMAIN second,
         NEW flaw \in {"length", "tail", "content"}, flaw = "content" => second[i].type \in {"std", "name"},
         NEW x, x = [second[i] EXCEPT !.flaw = flaw], NEW g, g = [second EXCEPT ![i] = x]
  PROVE  Harmed(first, second, first, g)
<1>1. IsSeq(second) /\ IsData(second[i]) /\ second[i].type = "data"
  BY SecondDescribes, SecondData, SecondSound
<1>2. x.flaw = flaw /\ SameData(x, second[i])
  BY <1>1, FlawedData
<1>3. IsSeq(g) /\ DOMAIN g = DOMAIN second /\ g[i] = x /\ \A j \in DOMAIN second : j # i => g[j] = second[j]
  BY <1>1, SeqExcept
<1>4. \A j \in DOMAIN second : SameData(g[j], second[j])
  BY <1>2, <1>3, SameItself
<1>5. Unfit(x)
  <2>1. flaw = "length" \/ flaw = "tail"
    BY <1>1
  <2> QED
    BY <1>2, <2>1 DEF Unfit, readAttributeView, attributeLengthValid, readResidentTail, readNonResidentTail
<1> QED
  BY <1>3, <1>4, <1>5, SameItself DEF Harmed

LEMMA RunsHarmed ==
  ASSUME NEW o \in Object, SizeFits(o), NEW n, NEW second, second = SecondStride(o, n),
         NEW first, IsSeq(first), NEW i \in DOMAIN second, second[i].runs.runs # <<>>,
         NEW bad, Spoiled(second[i].runs, bad),
         NEW x, x = [second[i] EXCEPT !.runs = bad], NEW g, g = [second EXCEPT ![i] = x]
  PROVE  Harmed(first, second, first, g)
<1>1. PICK a : a = second[i]
  OBVIOUS
<1>2. IsSeq(second) /\ IsData(a) /\ a.type = "data" /\ (a.stream # "unnamed" => a.runs = NoRuns)
  BY <1>1, SecondDescribes, SecondData, SecondSound
<1>3. a.stream = "unnamed"
  <2>1. NoRuns.runs = <<>>
    BY DEF NoRuns
  <2> QED
    BY <1>1, <1>2, <2>1
<1>4. \E clusters \in Seq(VolumeCluster \cup {Hole}) : ~a.resident /\ a.runs = encodeRunlist(clusters)
  <2>1. o.clusters \in Seq(VolumeCluster \cup {Hole}) /\ o.resident \in BOOLEAN /\ (o.resident <=> o.clusters = <<>>)
    BY DEF Object, VolumeMap, VolumeCluster, SizeFits
  <2>2. CASE a = OwnData(o, n)
    <3>1. a.resident = o.resident /\ a.runs = IF o.resident THEN NoRuns ELSE encodeRunlist(o.clusters)
      <4>1. PICK runs : runs = IF o.resident THEN NoRuns ELSE encodeRunlist(o.clusters)
        OBVIOUS
      <4>2. a = DataAttr("unnamed", o.resident, runs, o.size, n)
        BY <2>2, <4>1 DEF OwnData
      <4>3. a.resident = o.resident /\ a.runs = runs
        BY <4>2, DataFields
      <4> QED
        BY <4>1, <4>3
    <3>2. NoRuns.runs = <<>>
      BY DEF NoRuns
    <3>3. ~o.resident
      BY <1>1, <3>1, <3>2
    <3> QED
      BY <2>1, <3>1, <3>3
  <2>3. CASE a = StartData(o, n) /\ Len(o.clusters) > 1
    <3>1. PICK one : one = SubSeq(o.clusters, 1, 1)
      OBVIOUS
    <3>2. a = DataAttr("unnamed", o.resident, encodeRunlist(one), o.size, n)
      BY <2>3, <3>1, StartIs
    <3>3. a.resident = o.resident /\ a.runs = encodeRunlist(one)
      BY <3>2, DataFields
    <3>4. one \in Seq(VolumeCluster \cup {Hole})
      BY <2>1, <2>3, <3>1
    <3>5. ~o.resident
      BY <2>1, <2>3
    <3> QED
      BY <3>3, <3>4, <3>5
  <2>4. CASE a = StreamData(n)
    <3>1. a.stream = "stream"
      BY <2>4, StreamIs
    <3> QED
      BY <1>3, <3>1
  <2> QED
    BY <1>1, <2>2, <2>3, <2>4, SecondDescribes
<1>5. PICK clusters \in Seq(VolumeCluster \cup {Hole}) : ~a.resident /\ a.runs = encodeRunlist(clusters)
  BY <1>4
<1>6. PICK list : list = encodeRunlist(clusters)
  OBVIOUS
<1>7. 1 \in DOMAIN list.runs
  <2>1. DOMAIN list.runs = 1..Len(list.runs) /\ Len(list.runs) \in Nat
    BY <1>6, EncodedIs DEF IsRaws
  <2>2. list.runs # <<>>
    BY <1>1, <1>5, <1>6
  <2>3. \E k, r : list.runs = [j \in k |-> r[j]]
    <3> DEFINE R == AllocatedRuns(clusters)
               previous(j) ==
                 LET earlier == {k \in 1..(j - 1) : R[k].start # Hole}
                 IN IF earlier = {} THEN 0 ELSE R[Max(earlier)].start
               delta(j) == R[j].start - previous(j)
               w(j) == IF R[j].start = Hole THEN 0 ELSE SignedWidth(delta(j))
               raw(j) == [lengthWidth |-> SignedWidth(R[j].len), length |-> R[j].len, offsetWidth |-> w(j),
                          offset |-> IF w(j) = 0 THEN 0 ELSE delta(j) % (Digit^w(j))]
               rs == [j \in DOMAIN R |-> raw(j)]
    <3>1. list = [runs |-> rs, ended |-> TRUE]
      BY <1>6 DEF encodeRunlist
    <3>2. rs = [j \in DOMAIN R |-> rs[j]]
      OBVIOUS
    <3> HIDE DEF rs
    <3>3. list.runs = rs
      BY <3>1
    <3> QED
      BY <3>2, <3>3
  <2>4. Len(list.runs) # 0
    <3> SUFFICES ASSUME Len(list.runs) = 0 PROVE FALSE
      OBVIOUS
    <3>1. PICK k, r : list.runs = [j \in k |-> r[j]]
      BY <2>3
    <3>2. k = {}
      BY <2>1, <3>1
    <3>3. list.runs = <<>>
      BY <3>1, <3>2
    <3> QED
      BY <2>2, <3>3
  <2> QED
    BY <2>1, <2>4
<1>8. runlistExtents(bad, a.size) = NotLocated
  BY <1>1, <1>5, <1>6, <1>7, SpoiledRefused DEF NotLocated
<1>9. x.runs = bad /\ x.size = a.size /\ x.resident = a.resident /\ x.stream = a.stream /\ SameData(x, a)
  BY <1>1, <1>2, <1>8, RerunData
<1>10. IsSeq(g) /\ DOMAIN g = DOMAIN second /\ g[i] = x /\ \A j \in DOMAIN second : j # i => g[j] = second[j]
  BY <1>2, SeqExcept
<1>11. \A j \in DOMAIN second : SameData(g[j], second[j])
  BY <1>1, <1>9, <1>10, SameItself
<1>12. ~Located(x) /\ ~x.resident
  BY <1>5, <1>8, <1>9 DEF Located, NotLocated
<1>13. \A j \in DOMAIN g : g[j].stream = "unnamed" => ~g[j].resident /\ ~Located(g[j])
  <2>1. \A j \in DOMAIN second : second[j].stream = "unnamed" => j = i
    BY <1>1, <1>3, SecondData
  <2> QED
    BY <1>10, <1>12, <2>1
<1> QED
  BY <1>10, <1>11, <1>13, SameItself DEF Harmed

LEMMA RecordAttrs ==
  ASSUME VolumeInv, running, NEW slot \in UserSlots, Used(slot), NEW first, first = Block(slot)[1].attrs,
         NEW second, second = Block(slot)[2].attrs
  PROVE  /\ IsSeq(first) /\ IsSeq(second)
         /\ Block(slot)[1].head \in Heads
         /\ Block(slot)[1].head.base = 0 =>
              \E o \in Object : \E n : /\ first \in Seq(FirstAttrs) /\ SizeFits(o) /\ second = SecondStride(o, n)
<1>1. VolumeType /\ ObjectsInv /\ SlotExact(slot) /\ slot \in Slots
  BY NumbersAre DEF VolumeInv, Exact
<1>2. PICK usn, head : usn = Block(slot)[1].usn /\ head = Block(slot)[1].head
  OBVIOUS
<1>3. Block(slot)[1].kind = "mft"
  BY <1>1, HeaderIs
<1>4. RecordExact(slot, usn, head, first, second)
  BY <1>1, <1>2, <1>3, ExactSlot
<1>5. IsSeq(first) /\ IsSeq(second) /\ head \in Heads /\ (head.base = 0 => ObjectRecord(slot, head, first, second))
  BY <1>4 DEF RecordExact
<1>6. ASSUME ObjectRecord(slot, head, first, second)
      PROVE  \E o \in Object : \E n : /\ first \in Seq(FirstAttrs) /\ SizeFits(o) /\ second = SecondStride(o, n)
  <2>1. PICK n, o : n = HolderOf(slot) /\ o = objects[n]
    OBVIOUS
  <2>2. n \in Ids /\ first \in Seq(FirstAttrs) /\ second = SecondStride(o, n)
    BY <1>6, <2>1 DEF ObjectRecord
  <2>3. o \in Object /\ SizeFits(o)
    BY SMTT(60), <1>1, <2>1, <2>2, ObjectIs DEF ObjectsInv
  <2> QED
    BY <2>2, <2>3
<1> QED
  BY <1>2, <1>5, <1>6

LEMMA SpoilAttributeStep ==
  ASSUME VolumeInv, running, NEW slot \in UserSlots, NEW half \in 1..Strides,
         NEW flaw \in {"length", "tail", "content"}, spoilAttribute(slot, half, flaw)
  PROVE  Carried
<1>1. PICK at : at = SlotClusters(slot)[half]
  OBVIOUS
<1>2. /\ Used(slot) /\ objects' = NotWhole(slot) /\ Harm /\ unreadable' = unreadable
      /\ \E i \in DOMAIN disk[at].attrs :
           /\ flaw = "content" => disk[at].attrs[i].type \in {"std", "name"}
           /\ flaw = "tail" => disk[at].attrs[i].type = "data"
           /\ disk' = [disk EXCEPT ![at].attrs[i].flaw = flaw]
  BY <1>1 DEF spoilAttribute
<1>3. PICK i \in DOMAIN disk[at].attrs :
           /\ flaw = "content" => disk[at].attrs[i].type \in {"std", "name"}
           /\ flaw = "tail" => disk[at].attrs[i].type = "data"
           /\ disk' = [disk EXCEPT ![at].attrs[i].flaw = flaw]
  BY <1>2
<1>4. PICK A, x, attrs, v : /\ A = disk[at].attrs /\ x = [A[i] EXCEPT !.flaw = flaw]
                            /\ attrs = [A EXCEPT ![i] = x] /\ v = [disk[at] EXCEPT !.attrs = attrs]
  OBVIOUS
<1>5. PutAt(at, v)
  BY <1>3, <1>4 DEF PutAt
<1>6. PICK first, second, f, g : /\ first = Block(slot)[1].attrs /\ second = Block(slot)[2].attrs
                                 /\ f = (IF half = 1 THEN attrs ELSE first)
                                 /\ g = (IF half = 2 THEN attrs ELSE second)
  OBVIOUS
<1>7. half \in 1..2 /\ slot \in Slots /\ VolumeType
  BY NumbersAre DEF Strides, VolumeInv
<1>8. A = IF half = 1 THEN first ELSE second
  BY <1>1, <1>4, <1>6, <1>7, SlotClustersAre
<1>9. Block(slot)[1].head.base = 0 => Harmed(first, second, f, g)
  <2> SUFFICES ASSUME Block(slot)[1].head.base = 0 PROVE Harmed(first, second, f, g)
    OBVIOUS
  <2>1. IsSeq(first) /\ IsSeq(second)
    BY <1>2, <1>6, RecordAttrs
  <2>2. PICK o \in Object : \E n : /\ first \in Seq(FirstAttrs) /\ SizeFits(o) /\ second = SecondStride(o, n)
    BY <1>2, <1>6, RecordAttrs
  <2>3. PICK n : /\ first \in Seq(FirstAttrs) /\ SizeFits(o) /\ second = SecondStride(o, n)
    BY <2>2
  <2>4. i \in DOMAIN A /\ (flaw = "content" => A[i].type \in {"std", "name"}) /\ (flaw = "tail" => A[i].type = "data")
    BY <1>3, <1>4
  <2>5. CASE half = 1
    <3>1. A = first /\ f = attrs /\ g = second
      BY <1>6, <1>8, <2>5
    <3>2. x = [first[i] EXCEPT !.flaw = flaw] /\ f = [first EXCEPT ![i] = x]
      BY ONLY <1>4, <3>1
    <3>3. Harmed(first, second, f, second)
      BY <2>1, <2>3, <2>4, <3>1, <3>2, FirstHarmed
    <3> QED
      BY <3>1, <3>3
  <2>6. CASE half = 2
    <3>1. A = second /\ f = first /\ g = attrs
      BY <1>6, <1>8, <2>6
    <3>2. x = [second[i] EXCEPT !.flaw = flaw] /\ g = [second EXCEPT ![i] = x]
      BY ONLY <1>4, <3>1
    <3>4. i \in DOMAIN second /\ (flaw = "content" => second[i].type \in {"std", "name"})
      BY <2>4, <3>1
    <3>5. flaw \in {"length", "tail", "content"}
      OBVIOUS
    <3>3. Harmed(first, second, first, g)
      BY ONLY <2>1, <2>3, o \in Object, <3>2, <3>4, <3>5, SecondHarmed
    <3> QED
      BY <3>1, <3>3
  <2> QED
    BY <1>7, <2>5, <2>6
<1> QED
  BY SMTT(60), <1>1, <1>2, <1>4, <1>5, <1>6, <1>7, <1>9, AttrsHarm

LEMMA SpoilRunsStep ==
  ASSUME VolumeInv, running, NEW slot \in UserSlots, NEW how \in {"cut", "empty", "back"}, spoilRuns(slot, how)
  PROVE  Carried
<1>1. PICK at : at = SlotClusters(slot)[2]
  BY SMTT(60)
<1>2. /\ Used(slot) /\ objects' = NotWhole(slot) /\ Harm /\ unreadable' = unreadable
      /\ \E i \in DOMAIN disk[at].attrs :
          /\ disk[at].attrs[i].type = "data" /\ disk[at].attrs[i].runs.runs # <<>>
          /\ disk' = CASE how = "cut" -> [disk EXCEPT ![at].attrs[i].runs.ended = FALSE]
                       [] how = "empty" -> [disk EXCEPT ![at].attrs[i].runs.runs[1].length = 0]
                       [] how = "back" ->
                         [disk EXCEPT ![at].attrs[i].runs.runs[1].offset =
                            (Digit^(disk[at].attrs[i].runs.runs[1].offsetWidth)) - 1]
  BY ZenonT(90), <1>1 DEF spoilRuns
<1>3. PICK i \in DOMAIN disk[at].attrs :
          /\ disk[at].attrs[i].type = "data" /\ disk[at].attrs[i].runs.runs # <<>>
          /\ disk' = CASE how = "cut" -> [disk EXCEPT ![at].attrs[i].runs.ended = FALSE]
                       [] how = "empty" -> [disk EXCEPT ![at].attrs[i].runs.runs[1].length = 0]
                       [] how = "back" ->
                         [disk EXCEPT ![at].attrs[i].runs.runs[1].offset =
                            (Digit^(disk[at].attrs[i].runs.runs[1].offsetWidth)) - 1]
  BY <1>2
<1>4. PICK A, a, list : A = disk[at].attrs /\ a = A[i] /\ list = a.runs
  OBVIOUS
<1>5. \E bad : Spoiled(list, bad) /\ disk' = [disk EXCEPT ![at].attrs[i].runs = bad]
  <2>1. CASE how = "cut"
    <3>1. PICK bad : bad = [list EXCEPT !.ended = FALSE]
      OBVIOUS
    <3>2. disk' = [disk EXCEPT ![at].attrs[i].runs.ended = FALSE]
      BY <1>3, <2>1
    <3> QED
      BY <1>4, <3>1, <3>2 DEF Spoiled
  <2>2. CASE how = "empty"
    <3>1. PICK bad : bad = [list EXCEPT !.runs[1].length = 0]
      OBVIOUS
    <3>2. disk' = [disk EXCEPT ![at].attrs[i].runs.runs[1].length = 0]
      BY <1>3, <2>2
    <3> QED
      BY <1>4, <3>1, <3>2 DEF Spoiled
  <2>3. CASE how = "back"
    <3>1. PICK w : w = (Digit^(list.runs[1].offsetWidth)) - 1
      OBVIOUS
    <3>2. PICK bad : bad = [list EXCEPT !.runs[1].offset = w]
      OBVIOUS
    <3>3. disk' = [disk EXCEPT ![at].attrs[i].runs.runs[1].offset = w]
      BY <1>3, <1>4, <2>3, <3>1
    <3>4. disk' = [disk EXCEPT ![at].attrs[i].runs = bad]
      BY ONLY <1>4, <3>2, <3>3
    <3>5. Spoiled(list, bad)
      BY <3>1, <3>2 DEF Spoiled
    <3> QED
      BY <3>4, <3>5
  <2> QED
    BY SMTT(60), <2>1, <2>2, <2>3
<1>6. PICK bad : Spoiled(list, bad) /\ disk' = [disk EXCEPT ![at].attrs[i].runs = bad]
  BY <1>5
<1>7. PICK x, attrs, v : /\ x = [a EXCEPT !.runs = bad] /\ attrs = [A EXCEPT ![i] = x]
                         /\ v = [disk[at] EXCEPT !.attrs = attrs]
  OBVIOUS
<1>8. PutAt(at, v)
  BY ONLY <1>4, <1>6, <1>7 DEF PutAt
<1>9. PICK first, second, f, g, half : /\ first = Block(slot)[1].attrs /\ second = Block(slot)[2].attrs
                                       /\ half = 2 /\ f = (IF half = 1 THEN attrs ELSE first)
                                       /\ g = (IF half = 2 THEN attrs ELSE second)
  OBVIOUS
<1>10. slot \in Slots /\ VolumeType /\ half \in 1..2 /\ f = first /\ g = attrs
  BY <1>9, NumbersAre DEF VolumeInv
<1>11. A = second
  BY <1>1, <1>4, <1>9, <1>10, SlotClustersAre
<1>12. Block(slot)[1].head.base = 0 => Harmed(first, second, f, g)
  <2> SUFFICES ASSUME Block(slot)[1].head.base = 0 PROVE Harmed(first, second, f, g)
    BY SMTT(60)
  <2>1. IsSeq(first) /\ IsSeq(second)
    BY SMTT(60), <1>2, <1>9, RecordAttrs
  <2>2. PICK o \in Object : \E n : /\ first \in Seq(FirstAttrs) /\ SizeFits(o) /\ second = SecondStride(o, n)
    BY <1>2, <1>9, RecordAttrs
  <2>3. PICK n : /\ first \in Seq(FirstAttrs) /\ SizeFits(o) /\ second = SecondStride(o, n)
    BY <2>2
  <2>4. i \in DOMAIN second /\ second[i].runs.runs # <<>> /\ Spoiled(second[i].runs, bad)
    BY <1>3, <1>4, <1>6, <1>11
  <2>5. x = [second[i] EXCEPT !.runs = bad] /\ g = [second EXCEPT ![i] = x]
    BY ONLY <1>4, <1>7, <1>10, <1>11
  <2>6. Harmed(first, second, first, g)
    BY ONLY <2>1, <2>3, <2>4, <2>5, o \in Object, RunsHarmed
  <2> QED
    BY <1>10, <2>6
<1>13. v = [disk[at] EXCEPT !.attrs = attrs]
  BY ONLY <1>7
<1>14. Used(slot) /\ objects' = NotWhole(slot) /\ Harm /\ unreadable' = unreadable
  BY <1>2
<1>15. at = SlotClusters(slot)[half]
  BY <1>1, <1>9
<1> QED
  BY ONLY VolumeInv, running, slot \in UserSlots, <1>8, <1>9, <1>10, <1>12, <1>13, <1>14, <1>15, AttrsHarm

LEMMA SpoilHeaderStep ==
  ASSUME VolumeInv, running, NEW slot \in UserSlots, NEW flaw \in {"magic", "offset", "usa"}, spoilHeader(slot, flaw)
  PROVE  Carried
<1>1. PICK at, half : half = 1 /\ at = SlotClusters(slot)[half]
  OBVIOUS
<1>2. /\ Used(slot) /\ objects' = NotWhole(slot) /\ Harm /\ unreadable' = unreadable
      /\ disk' = [disk EXCEPT ![at].head.flaw = flaw]
  BY <1>1 DEF spoilHeader
<1>3. PICK v : v = [disk[at] EXCEPT !.head.flaw = flaw]
  OBVIOUS
<1>4. PutAt(at, v)
  BY ONLY <1>2, <1>3 DEF PutAt
<1>5. VolumeType' /\ ObjectsInv' /\ ZeroInv' /\ Changed({slot}) /\ BlockAfter(slot, half, v, at)
  BY <1>1, <1>2, <1>4, HarmStep
<1>6. Block(slot)'[1] = v /\ Block(slot)[1] = disk[at]
  BY <1>1, <1>5 DEF BlockAfter
<1>7. VolumeType /\ SlotExact(slot) /\ slot \in Slots
  BY NumbersAre DEF VolumeInv, Exact
<1>8. PICK b, usn, head, first, second :
        /\ b = Block(slot) /\ usn = b[1].usn /\ head = b[1].head /\ first = b[1].attrs /\ second = b[2].attrs
  OBVIOUS
<1>9. RecordExact(slot, usn, head, first, second)
  <2>1. b[1].kind = "mft"
    BY SMTT(60), <1>2, <1>7, <1>8, HeaderIs
  <2> QED
    BY <1>7, <1>8, <2>1, ExactSlot
<1>10. b = StridesOf(usn, head, first, second) /\ head \in Heads
  BY <1>8, <1>9 DEF RecordExact
<1>11. b[1] = [kind |-> "mft", usn |-> usn, head |-> head, attrs |-> first]
  BY <1>10 DEF StridesOf
<1>12. v.head.flaw = flaw
  <2>1. PICK h : h = [head EXCEPT !.flaw = flaw]
    OBVIOUS
  <2>2. h.flaw = flaw
    BY <1>10, <2>1 DEF Heads
  <2>3. v = [b[1] EXCEPT !.head = h]
    BY <1>3, <1>6, <1>8, <2>1
  <2>4. v.head = h
    BY <1>11, <2>3
  <2> QED
    BY <2>2, <2>4
<1>13. ~Parsed(slot)'
  <2>1. PICK b2 : b2 = Block(slot)'
    OBVIOUS
  <2>2. Parsed(slot)' => b2[1].head.flaw \notin {"magic", "offset", "usa"}
    BY ONLY <2>1, ParsedNext
  <2> QED
    BY <1>6, <1>12, <2>1, <2>2
<1>14. Sound(slot)'
  BY <1>13 DEF Sound
<1> QED
  BY <1>2, <1>5, <1>13, <1>14, HarmDone

LEMMA LoseStep ==
  ASSUME VolumeInv, running, NEW c, loseCluster(c)
  PROVE  Carried
<1>1. VolumeType /\ ObjectsInv /\ ZeroInv /\ Exact
  BY DEF VolumeInv
<1>2. disk' = disk /\ objects' = objects /\ layout' = layout /\ habit' = habit /\ running' = FALSE
  BY DEF loseCluster, Harm
<1>3. \A s : Block(s)' = Block(s)
  BY <1>2 DEF Block, SlotClusters
<1>4. Ids' = Ids /\ LiveIds' = LiveIds
  BY <1>2 DEF Ids, LiveIds
<1>5. ObjectsInv'
  BY <1>1, <1>2, <1>4 DEF ObjectsInv
<1>6. VolumeType'
  BY <1>1, <1>2 DEF VolumeType
<1>7. ZeroInv'
  BY <1>1, <1>2, <1>3, ZeroAfter
<1>8. Changed({})
  BY <1>1, <1>2, <1>3, <1>4, <1>5, <1>6 DEF Changed
<1>9. SoundInv'
  BY <1>1, <1>8, SoundAfter
<1> QED
  BY <1>2, <1>5, <1>6, <1>7, <1>8, <1>9 DEF VolumeInv, Carried, Spared

(* Every step of the host, and every mishap. *)
LEMMA VolumeStep ==
  ASSUME VolumeInv, VolumeChanges
  PROVE  Carried
<1>1. running /\ (HostChanges \/ Mishaps) /\ ObjectsInv
  BY DEF VolumeChanges, VolumeInv
<1>2. ASSUME NEW parent \in Directories PROVE parent \in Nat
  <2>1. parent \in {Root} \cup Ids
    BY DEF Directories, LiveIds
  <2>2. Ids \subseteq Nat /\ Root \in Nat
    BY <1>1, ObjectIs DEF Root
  <2> QED
    BY <2>1, <2>2
<1>3. ASSUME NEW reached \in Reaches, NEW parent \in Directories, NEW shape \in Shapes, create(parent, shape, reached)
      PROVE  Carried
  <2>1. PICK slot \in FreeSlots : Add(NewFile(slot, parent, shape), reached)
    BY <1>3 DEF create
  <2>2. PICK o : o = NewFile(slot, parent, shape)
    OBVIOUS
  <2>3. IsShape(shape) /\ slot \in UserSlots
    BY ShapeAssumption DEF IsShape, FreeSlots
  <2>4. o \in Object /\ SizeFits(o) /\ Fresh(o, slot, parent)
    BY <1>2, <2>2, <2>3, NewFileIs
  <2>5. Add(o, reached)
    BY <2>1, <2>2
  <2> QED
    BY <1>1, <2>4, <2>5, AddStep
<1>4. ASSUME NEW reached \in Reaches, NEW parent \in Directories, makeDirectory(parent, reached)
      PROVE  Carried
  <2>1. PICK slot \in FreeSlots : Add(NewDirectory(slot, parent), reached)
    BY <1>4 DEF makeDirectory
  <2>2. PICK o : o = NewDirectory(slot, parent)
    OBVIOUS
  <2>3. slot \in UserSlots
    BY DEF FreeSlots
  <2>4. o \in Object /\ SizeFits(o) /\ Fresh(o, slot, parent)
    BY <1>2, <2>2, <2>3, NewDirectoryIs
  <2>5. Add(o, reached)
    BY <2>1, <2>2
  <2> QED
    BY <1>1, <2>4, <2>5, AddStep
<1>5. ASSUME NEW reached \in Reaches, NEW n \in LiveIds, objects[n].whole,
             \/ \E parent \in Directories : move(n, parent, reached) \/ link(n, parent, reached)
             \/ delete(n, reached)
             \/ Whole(reached) /\ \E place \in {"split", "extension"} : spill(n, place)
      PROVE  Carried
  BY <1>1, <1>5, MoveStep, DeleteStep, SpillStep
<1>6. HostChanges => Carried
  BY <1>3, <1>4, <1>5 DEF HostChanges
<1>7. Mishaps => Carried
  BY <1>1, SpoilAttributeStep, SpoilHeaderStep, SpoilRunsStep, LoseStep DEF Mishaps
<1> QED
  BY <1>1, <1>6, <1>7

-----------------------------------------------------------------------------
(***************************************************************************)
(* The volume at the start.                                                *)
(***************************************************************************)

FirstRef(n) ==
  [record |-> IF n = Root THEN kRootRecordNumber ELSE FirstObjects[n].slot, sequence |-> 1]
FirstNames(n) == <<Std, NameAttr(FirstRef(FirstObjects[n].links[1]), n, FALSE)>>
FirstUser(n) ==
  StridesOf(1, HeadOf(FirstObjects[n], 1), FirstNames(n), SecondStride(FirstObjects[n], n))
FirstStrides(slot) ==
  CASE slot = kMftRecordNumber -> StridesOf(1, ZeroHead, <<Std>>, <<ZeroData>>)
    [] slot = kRootRecordNumber ->
         StridesOf(1, [ZeroHead EXCEPT !.dir = TRUE], <<Std, NameAttr(FirstRef(Root), Root, FALSE)>>, <<>>)
    [] slot \in {FirstObjects[n].slot : n \in DOMAIN FirstObjects} ->
         FirstUser(CHOOSE n \in DOMAIN FirstObjects : FirstObjects[n].slot = slot)
    [] OTHER -> <<Blank, Blank>>

FirstAt(c) == CHOOSE i \in DOMAIN layout : layout[i] = c

LEMMA FirstTable ==
  ASSUME VolumeInit
  PROVE  disk = [c \in VolumeMap |->
                   IF c \notin Range(layout) THEN Blank
                   ELSE FirstStrides((FirstAt(c) - 1) \div Strides)[((FirstAt(c) - 1) % Strides) + 1]]
<1>1. disk = FirstRecords(FirstObjects)
  BY DEF VolumeInit
<1> QED
  BY ONLY <1>1, Zenon DEF FirstRecords, FirstStrides, FirstUser, FirstNames, FirstRef, FirstAt, ZeroHead, ZeroData

LEMMA FirstBlocks ==
  ASSUME VolumeInit
  PROVE  VolumeType /\ \A s \in Slots : \A i \in 1..2 : Block(s)[i] = FirstStrides(s)[i]
<1>1. VolumeType
  BY FirstTable DEF VolumeInit, VolumeType
<1> SUFFICES ASSUME NEW s \in Slots, NEW i \in 1..2 PROVE Block(s)[i] = FirstStrides(s)[i]
  BY <1>1
<1>2. PICK k, c : k = 2 * s + i /\ c = layout[k]
  OBVIOUS
<1>3. k \in 1..Len(layout) /\ c = SlotClusters(s)[i] /\ c \in VolumeMap /\ Block(s)[i] = disk[c]
  BY <1>1, <1>2, SlotClustersAre
<1>4. layout \in Seq(VolumeMap) /\ \A m, j \in 1..Len(layout) : layout[m] = layout[j] => m = j
  BY <1>1, LayoutIs
<1>5. DOMAIN layout = 1..Len(layout)
  BY <1>4
<1>6. FirstAt(c) = k /\ c \in Range(layout)
  <2>1. k \in DOMAIN layout /\ layout[k] = c
    BY <1>2, <1>3, <1>5
  <2>2. \A j \in DOMAIN layout : layout[j] = c => j = k
    BY <1>4, <1>5, <2>1
  <2> QED
    BY ONLY <2>1, <2>2, Zenon DEF FirstAt, Range
<1>7. (k - 1) \div Strides = s /\ ((k - 1) % Strides) + 1 = i
  <2>1. s \in Int
    BY NumbersAre
  <2> QED
    BY <1>2, <2>1 DEF Strides
<1> QED
  BY <1>3, <1>6, <1>7, FirstTable

(* Three objects, each in a slot of its own. *)
FirstSlot(n) == kFirstUserRecord + n - 1

LEMMA FirstObjectsAre ==
  /\ DOMAIN FirstObjects = 1..3 /\ FirstObjects \in Seq(Object)
  /\ \A n \in 1..3 : /\ FirstObjects[n] \in Object /\ SizeFits(FirstObjects[n])
                     /\ Fresh(FirstObjects[n], FirstSlot(n), n - 1)
<1>1. PICK a, b, c : /\ a = NewDirectory(kFirstUserRecord, Root) /\ b = NewDirectory(kFirstUserRecord + 1, 1)
                     /\ c = NewFile(kFirstUserRecord + 2, 2, FirstShape)
  OBVIOUS
<1>2. /\ kFirstUserRecord \in UserSlots /\ kFirstUserRecord + 1 \in UserSlots
      /\ kFirstUserRecord + 2 \in UserSlots
  BY NumbersAre DEF UserSlots
<1>3. IsShape(FirstShape)
  BY MftAssumption, ShapeAssumption DEF IsShape
<1>4. a \in Object /\ SizeFits(a) /\ Fresh(a, kFirstUserRecord, 0)
  BY <1>1, <1>2, NewDirectoryIs DEF Root
<1>5. b \in Object /\ SizeFits(b) /\ Fresh(b, kFirstUserRecord + 1, 1)
  BY <1>1, <1>2, NewDirectoryIs
<1>6. c \in Object /\ SizeFits(c) /\ Fresh(c, kFirstUserRecord + 2, 2)
  BY <1>1, <1>2, <1>3, NewFileIs
<1>7. FirstObjects = <<a, b, c>>
  BY <1>1 DEF FirstObjects
<1> HIDE DEF Object
<1>8. DOMAIN FirstObjects = 1..3 /\ FirstObjects \in Seq(Object)
  BY <1>4, <1>5, <1>6, <1>7
<1>9. FirstObjects[1] = a /\ FirstObjects[2] = b /\ FirstObjects[3] = c
  BY <1>7
<1>10. FirstSlot(1) = kFirstUserRecord /\ FirstSlot(2) = kFirstUserRecord + 1 /\ FirstSlot(3) = kFirstUserRecord + 2
  BY NumbersAre DEF FirstSlot
<1>11. ASSUME NEW n \in 1..3
       PROVE  /\ FirstObjects[n] \in Object /\ SizeFits(FirstObjects[n])
              /\ Fresh(FirstObjects[n], FirstSlot(n), n - 1)
  <2>1. CASE n = 1
    BY <2>1, <1>4, <1>9, <1>10
  <2>2. CASE n = 2
    BY <2>2, <1>5, <1>9, <1>10
  <2>3. CASE n = 3
    BY <2>3, <1>6, <1>9, <1>10
  <2> QED
    BY <2>1, <2>2, <2>3
<1> QED
  BY <1>8, <1>11

LEMMA FirstHolders ==
  ASSUME objects = FirstObjects
  PROVE  /\ Ids = 1..3 /\ LiveIds = 1..3 /\ ObjectsInv
         /\ \A n \in 1..3 : /\ objects[n].slot = FirstSlot(n) /\ HolderOf(FirstSlot(n)) = n
                            /\ objects[n].links[1] = n - 1 /\ objects[n].live /\ objects[n].whole
                            /\ FirstSlot(n) \in UserSlots
<1> HIDE DEF Object
<1>1. Ids = 1..3 /\ objects \in Seq(Object) /\ Len(objects) = 3
  BY FirstObjectsAre DEF Ids
<1>2. \A n \in 1..3 : /\ objects[n].slot = FirstSlot(n) /\ SizeFits(objects[n])
                      /\ OneLink(objects[n], n - 1) /\ objects[n].live /\ objects[n].whole
  BY FirstObjectsAre DEF Fresh
<1>3. LiveIds = 1..3
  BY <1>1, <1>2 DEF LiveIds
<1>4. \A n \in 1..3 : /\ Len(objects[n].links) > 0 /\ LinksLead(objects[n], Ids) /\ LinksLead(objects[n], LiveIds)
                      /\ objects[n].links[1] = n - 1
  <2> SUFFICES ASSUME NEW n \in 1..3
               PROVE  /\ Len(objects[n].links) > 0 /\ LinksLead(objects[n], Ids)
                      /\ LinksLead(objects[n], LiveIds) /\ objects[n].links[1] = n - 1
    OBVIOUS
  <2>1. DOMAIN objects[n].links = 1..1 /\ Len(objects[n].links) = 1 /\ objects[n].links[1] = n - 1
    BY <1>2 DEF OneLink
  <2>2. n - 1 \in {Root} \cup 1..3
    BY DEF Root
  <2>3. \A i \in DOMAIN objects[n].links : i = 1
    BY <2>1
  <2> QED
    BY <1>1, <1>3, <2>1, <2>2, <2>3 DEF LinksLead
<1>5. \A n, m \in 1..3 : FirstSlot(n) = FirstSlot(m) => n = m
  BY NumbersAre DEF FirstSlot
<1>6. \A n, m \in Ids : n < m /\ objects[m].slot = objects[n].slot => ~objects[n].live
  BY <1>1, <1>2, <1>5
<1>7. ObjectsInv
  BY <1>1, <1>2, <1>3, <1>4, <1>6 DEF ObjectsInv
<1>8. \A n \in 1..3 : HolderOf(FirstSlot(n)) = n
  BY <1>2, <1>3, <1>7, HolderFacts
<1>9. \A n \in 1..3 : FirstSlot(n) \in UserSlots
  BY NumbersAre DEF FirstSlot, UserSlots
<1> QED
  BY <1>1, <1>2, <1>3, <1>4, <1>7, <1>8, <1>9

LEMMA FirstSlots ==
  ASSUME VolumeInit
  PROVE  /\ Block(0) = StridesOf(1, ZeroHead, <<Std>>, <<ZeroData>>)
         /\ Block(kRootRecordNumber)[1].head = [ZeroHead EXCEPT !.dir = TRUE]
         /\ \A n \in 1..3 : Block(FirstSlot(n)) = FirstUser(n)
         /\ \A s \in UserSlots : (\A n \in 1..3 : s # FirstSlot(n)) => Block(s) = <<Blank, Blank>>
<1>1. PICK taken : taken = {FirstObjects[n].slot : n \in DOMAIN FirstObjects}
  OBVIOUS
<1>2. 0 \in Slots /\ kRootRecordNumber \in Slots /\ UserSlots \subseteq Slots
  BY NumbersAre DEF Slots
<1>3. kMftRecordNumber = 0 /\ kRootRecordNumber # 0 /\ \A s \in UserSlots : s # 0 /\ s # kRootRecordNumber
  BY LayoutAssumption, NumbersAre
<1>4. \A n \in 1..3 : FirstObjects[n].slot = FirstSlot(n) /\ FirstSlot(n) \in UserSlots
  BY FirstHolders DEF VolumeInit
<1>5. DOMAIN FirstObjects = 1..3
  BY FirstObjectsAre
<1>6. taken \subseteq UserSlots /\ 0 \notin taken /\ kRootRecordNumber \notin taken
  BY <1>1, <1>3, <1>4, <1>5
<1>7. \A s, b : b = FirstStrides(s) /\ s \notin taken /\ s # 0 /\ s # kRootRecordNumber => b = <<Blank, Blank>>
  BY ONLY <1>1, <1>3 DEF FirstStrides
<1>8. \A s, b : b = FirstStrides(s) /\ s \in taken /\ s # 0 /\ s # kRootRecordNumber =>
        b = FirstUser(CHOOSE n \in DOMAIN FirstObjects : FirstObjects[n].slot = s)
  BY ONLY <1>1, <1>3 DEF FirstStrides
<1>9. FirstStrides(0) = StridesOf(1, ZeroHead, <<Std>>, <<ZeroData>>)
  BY ONLY <1>1, <1>3, <1>6 DEF FirstStrides
<1>10. PICK up : up = FirstRef(Root)
  OBVIOUS
<1>11. FirstStrides(kRootRecordNumber) =
         StridesOf(1, [ZeroHead EXCEPT !.dir = TRUE], <<Std, NameAttr(up, Root, FALSE)>>, <<>>)
  BY ONLY <1>1, <1>3, <1>6, <1>10 DEF FirstStrides
<1>12. ASSUME NEW s \in Slots, NEW b, b = FirstStrides(s), b = <<b[1], b[2]>> PROVE Block(s) = b
  <2>1. Block(s) = <<Block(s)[1], Block(s)[2]>>
    BY DEF Block, Strides
  <2> QED
    BY <1>12, <2>1, FirstBlocks
<1>13. Block(0) = StridesOf(1, ZeroHead, <<Std>>, <<ZeroData>>)
  <2>1. PICK b : b = FirstStrides(0)
    OBVIOUS
  <2>2. b = <<b[1], b[2]>>
    BY <1>9, <2>1 DEF StridesOf
  <2> QED
    BY <1>2, <1>9, <1>12, <2>1, <2>2
<1>14. Block(kRootRecordNumber)[1].head = [ZeroHead EXCEPT !.dir = TRUE]
  BY <1>2, <1>11, FirstBlocks, StridesAre
<1>15. ASSUME NEW n \in 1..3 PROVE Block(FirstSlot(n)) = FirstUser(n)
  <2>1. PICK s, b : s = FirstSlot(n) /\ b = FirstStrides(s)
    OBVIOUS
  <2>2. \A m \in 1..3 : FirstObjects[m].slot = s => m = n
    BY <1>4, <2>1, NumbersAre DEF FirstSlot
  <2>3. s \in taken /\ s # 0 /\ s # kRootRecordNumber /\ s \in Slots
    BY <1>1, <1>2, <1>3, <1>4, <1>5, <2>1
  <2>4. (CHOOSE m \in DOMAIN FirstObjects : FirstObjects[m].slot = s) = n
    <3>1. n \in DOMAIN FirstObjects /\ FirstObjects[n].slot = s
      BY <1>4, <1>5, <2>1
    <3>2. \A m \in DOMAIN FirstObjects : FirstObjects[m].slot = s => m = n
      BY <1>5, <2>2
    <3> QED
      BY ONLY <3>1, <3>2, Zenon
  <2>5. b = FirstUser(n)
    BY <1>8, <2>1, <2>3, <2>4
  <2>6. b = <<b[1], b[2]>>
    BY ONLY <2>5 DEF FirstUser, StridesOf
  <2> QED
    BY <1>12, <2>1, <2>3, <2>5, <2>6
<1>16. ASSUME NEW s \in UserSlots, \A n \in 1..3 : s # FirstSlot(n) PROVE Block(s) = <<Blank, Blank>>
  <2>1. s \notin taken
    BY <1>1, <1>4, <1>5, <1>16
  <2>2. PICK b : b = FirstStrides(s)
    OBVIOUS
  <2>3. b = <<Blank, Blank>>
    BY <1>3, <1>7, <2>1, <2>2
  <2>4. b = <<b[1], b[2]>>
    BY <2>3
  <2> QED
    BY <1>2, <1>12, <2>2, <2>3, <2>4
<1> QED
  BY <1>13, <1>14, <1>15, <1>16

OneName(first, ref, n) ==
  /\ first \in Seq(FirstAttrs) /\ IsSeq(first) /\ DOMAIN first = 1..2
  /\ ~isName(first[1]) /\ isName(first[2]) /\ ~first[2].dos /\ first[2].name = n /\ first[2].parent = ref

LEMMA FirstRecord ==
  ASSUME NEW ref \in References, NEW n \in Nat, NEW first, first = <<Std, NameAttr(ref, n, FALSE)>>
  PROVE  OneName(first, ref, n)
<1>1. Std \in FirstAttrs /\ NameAttr(ref, n, FALSE) \in FirstAttrs
  BY DEF Std, NameAttr, FirstAttrs
<1> HIDE DEF FirstAttrs
<1>2. first \in Seq(FirstAttrs) /\ DOMAIN first = 1..2 /\ first[1] = Std /\ first[2] = NameAttr(ref, n, FALSE)
  <2>1. PICK x, y : x = Std /\ y = NameAttr(ref, n, FALSE)
    OBVIOUS
  <2>2. first = <<x, y>> /\ x \in FirstAttrs /\ y \in FirstAttrs
    BY <1>1, <2>1
  <2>3. first \in Seq(FirstAttrs) /\ DOMAIN first = 1..2 /\ first[1] = x /\ first[2] = y
    BY ONLY <2>2
  <2> QED
    BY <2>1, <2>3
<1>3. IsSeq(first)
  BY <1>2, IsSeqIf
<1> QED
  BY <1>2, <1>3 DEF OneName, Std, NameAttr, isName

LEMMA InitStep ==
  ASSUME VolumeInit
  PROVE  VolumeInv
<1>1. VolumeType /\ objects = FirstObjects /\ running = TRUE /\ unreadable = {}
  BY FirstBlocks DEF VolumeInit
<1>2. /\ Ids = 1..3 /\ LiveIds = 1..3 /\ ObjectsInv
      /\ \A n \in 1..3 : /\ objects[n].slot = FirstSlot(n) /\ HolderOf(FirstSlot(n)) = n
                         /\ objects[n].links[1] = n - 1 /\ objects[n].live /\ objects[n].whole
                         /\ FirstSlot(n) \in UserSlots
  BY <1>1, FirstHolders
<1>3. /\ Block(0) = StridesOf(1, ZeroHead, <<Std>>, <<ZeroData>>)
      /\ Block(kRootRecordNumber)[1].head = [ZeroHead EXCEPT !.dir = TRUE]
      /\ \A n \in 1..3 : Block(FirstSlot(n)) = FirstUser(n)
      /\ \A s \in UserSlots : (\A n \in 1..3 : s # FirstSlot(n)) => Block(s) = <<Blank, Blank>>
  BY FirstSlots
<1>4. 0 \in Slots /\ kRootRecordNumber \in Slots /\ UserSlots \subseteq Slots
  BY NumbersAre DEF Slots
<1>5. ZeroInv
  <2>1. [ZeroHead EXCEPT !.dir = TRUE].sequence = 1
    BY DEF ZeroHead
  <2>2. SequenceOf(kRootRecordNumber) \in Nat
    <3>1. PICK h, b : h = [ZeroHead EXCEPT !.dir = TRUE] /\ b = Block(kRootRecordNumber)
      OBVIOUS
    <3>2. h.sequence = 1 /\ b[1].head = h
      BY <1>3, <2>1, <3>1
    <3>3. SequenceOf(kRootRecordNumber) = IF b[1].kind = "mft" THEN b[1].head.sequence ELSE 0
      BY <1>1, <1>4, <3>1, HeaderIs
    <3> QED
      BY ONLY <3>2, <3>3
  <2> QED
    BY <1>3, <2>2 DEF ZeroInv
<1>6. ASSUME NEW n \in 1..3
      PROVE  LET b == Block(FirstSlot(n)) IN
             /\ b[1].kind = "mft" /\ b[1].usn = 1 /\ b[1].head = HeadOf(objects[n], 1) /\ b[1].attrs = FirstNames(n)
             /\ b[2].attrs = SecondStride(objects[n], n)
             /\ b = StridesOf(1, HeadOf(objects[n], 1), FirstNames(n), SecondStride(objects[n], n))
  BY <1>1, <1>3, StridesAre DEF FirstUser
<1>7. ASSUME NEW n \in 1..3
      PROVE  /\ HeadOf(objects[n], 1) \in Heads /\ HeadOf(objects[n], 1).base = 0 /\ HeadOf(objects[n], 1).sequence = 1
             /\ HeadOf(objects[n], 1).dir = objects[n].dir /\ HeadOf(objects[n], 1).inUse = objects[n].live
  <2>1. objects[n].dir \in BOOLEAN /\ objects[n].live \in BOOLEAN
    BY <1>2, ObjectIs
  <2> QED
    BY <2>1 DEF HeadOf, Heads
<1>8. \A n \in 1..3 : SequenceOf(FirstSlot(n)) = 1
  BY <1>1, <1>2, <1>4, <1>6, <1>7, HeaderIs
<1>9. ASSUME NEW n \in 1..3
      PROVE  \E ref \in References : /\ FirstNames(n) = <<Std, NameAttr(ref, n, FALSE)>>
                                     /\ ref.sequence = 1 /\ RefHolds(ref, objects[n].links[1])
  <2>1. PICK p, ref : p = objects[n].links[1] /\ ref = FirstRef(p)
    OBVIOUS
  <2>2. p = n - 1 /\ p \in {Root} \cup Ids
    BY <1>2, <2>1 DEF Root
  <2>3. ref.record = SlotOf(p) /\ ref.sequence = 1 /\ ref \in References
    <3>1. SlotOf(p) \in Nat
      BY <1>2, <2>2, NumbersAre DEF SlotOf
    <3> QED
      BY <1>1, <2>1, <3>1 DEF FirstRef, SlotOf, References
  <2>4. ASSUME p # Root
        PROVE  SlotOf(p) = FirstSlot(p) /\ HolderOf(SlotOf(p)) = p /\ SequenceOf(SlotOf(p)) = 1 /\ objects[p].live
    BY <1>2, <1>8, <2>2, <2>4 DEF SlotOf
  <2>5. RefHolds(ref, p)
    BY <2>2, <2>3, <2>4 DEF RefHolds
  <2>6. FirstNames(n) = <<Std, NameAttr(ref, n, FALSE)>>
    BY <1>1, <2>1 DEF FirstNames
  <2> QED
    BY <2>1, <2>3, <2>5, <2>6
<1>10. ASSUME NEW n \in 1..3 PROVE SlotExact(FirstSlot(n)) /\ LiveExact(n)
  <2>1. PICK ref \in References : /\ FirstNames(n) = <<Std, NameAttr(ref, n, FALSE)>>
                                  /\ ref.sequence = 1 /\ RefHolds(ref, objects[n].links[1])
    BY <1>9
  <2>2. PICK first, second, head : first = FirstNames(n) /\ second = SecondStride(objects[n], n) /\ head = HeadOf(objects[n], 1)
    OBVIOUS
  <2>3. /\ first \in Seq(FirstAttrs) /\ IsSeq(first) /\ DOMAIN first = 1..2
        /\ ~isName(first[1]) /\ isName(first[2]) /\ ~first[2].dos /\ first[2].name = n /\ first[2].parent = ref
    <3>1. n \in Nat /\ first = <<Std, NameAttr(ref, n, FALSE)>>
      BY <2>1, <2>2
    <3>2. OneName(first, ref, n)
      BY ONLY ref \in References, <3>1, FirstRecord
    <3> QED
      BY ONLY <3>2 DEF OneName
  <2>4. IsSeq(second)
    <3>1. objects[n] \in Object /\ SizeFits(objects[n])
      BY <1>2, ObjectIs DEF ObjectsInv
    <3> QED
      BY <2>2, <3>1, SecondDescribes
  <2>5. NamesAre(first, n)
    BY <2>3 DEF NamesAre
  <2>6. \A i \in DOMAIN first : MayStand(first, i) => first[i].parent = ref
    BY <2>3 DEF MayStand
  <2>7. ObjectRecord(FirstSlot(n), head, first, second)
    <3>1. HolderOf(FirstSlot(n)) = n /\ n \in Ids
      BY <1>2
    <3>2. head.dir = objects[n].dir /\ head.inUse = objects[n].live
      BY <1>7, <2>2
    <3>3. \E i \in DOMAIN first : isName(first[i]) /\ ~first[i].dos
      BY <2>3
    <3>4. \A i \in DOMAIN first : MayStand(first, i) => RefHolds(first[i].parent, objects[n].links[1])
      BY <2>1, <2>6
    <3> QED
      BY <2>2, <2>3, <2>5, <3>1, <3>2, <3>3, <3>4 DEF ObjectRecord
  <2>8. RecordExact(FirstSlot(n), 1, head, first, second)
    BY <1>6, <1>7, <2>2, <2>3, <2>4, <2>7 DEF RecordExact
  <2>9. SlotExact(FirstSlot(n))
    BY <1>6, <2>2, <2>8 DEF SlotExact
  <2>10. LiveExact(n)
    <3>1. PICK p : p = objects[n].links[1]
      OBVIOUS
    <3>2. p = n - 1
      BY <1>2, <3>1
    <3>3. p # Root => SequenceOf(SlotOf(p)) = 1
      BY <1>2, <1>8, <3>2 DEF SlotOf, Root
    <3>4. /\ Block(objects[n].slot)[1].kind = "mft" /\ Block(objects[n].slot)[1].head.base = 0
          /\ Block(objects[n].slot)[1].attrs = first
      BY <1>2, <1>6, <1>7, <2>2
    <3> QED
      BY <2>1, <2>6, <3>1, <3>3, <3>4 DEF LiveExact
  <2> QED
    BY <2>9, <2>10
<1>11. ASSUME NEW s \in UserSlots PROVE SlotExact(s)
  BY <1>3, <1>10 DEF SlotExact
<1>12. Exact
  BY <1>1, <1>2, <1>10, <1>11 DEF Exact
<1> QED
  BY <1>1, <1>2, <1>5, <1>12 DEF VolumeInv

-----------------------------------------------------------------------------
(***************************************************************************)
(* Reading a record: what the device gives is the block of the slot.       *)
(***************************************************************************)

LEMMA BytesAre ==
  /\ ClusterBytes \in Nat \ {0} /\ RecordBytes = 2 * ClusterBytes /\ RecordBytes \in Nat \ {0}
  /\ Strides = 2 /\ Records \in Nat /\ Records * RecordBytes = (2 * Records) * ClusterBytes
  /\ Records * RecordBytes \in Nat \ {0} /\ (Records * RecordBytes) \div RecordBytes = Records
<1>1. ClusterBytes \in Nat \ {0} /\ RecordBytes = 2 * ClusterBytes /\ Strides = 2 /\ Records \in Nat \ {0}
  BY RunlistAssumption, NumbersAre DEF RecordBytes, Strides
<1>2. RecordBytes \in Nat \ {0}
  BY <1>1
<1>3. Records * RecordBytes = (2 * Records) * ClusterBytes /\ Records * RecordBytes \in Nat \ {0}
  BY <1>1
<1>4. (Records * RecordBytes + 0) \div RecordBytes = Records /\ Records * RecordBytes + 0 = Records * RecordBytes
  BY <1>1, <1>2, <1>3, DividedIs
<1> QED
  BY <1>1, <1>2, <1>3, <1>4

LEMMA ClustersAtIs ==
  ASSUME NEW c \in Nat
  PROVE  ClustersAt(c * ClusterBytes) = [i \in 1..2 |-> c + i - 1]
<1>1. (c * ClusterBytes + 0) \div ClusterBytes = c /\ c * ClusterBytes + 0 = c * ClusterBytes
  BY BytesAre, DividedIs
<1> QED
  BY <1>1, BytesAre DEF ClustersAt

(* The device reads both strides of the record. *)
Readable(slot) == \A i \in 1..2 : SlotClusters(slot)[i] \notin unreadable

(* Two clusters that follow each other. *)
LEMMA BlockRead ==
  ASSUME VolumeType, NEW s \in Slots, SlotClusters(s)[2] = SlotClusters(s)[1] + 1, NEW as,
         NEW offset, offset = SlotClusters(s)[1] * ClusterBytes
  PROVE  /\ readBlock(offset, as) \in {Failed("ioFailure"), parseMftRecord(Block(s), as)}
         /\ Readable(s) => readBlock(offset, as) = parseMftRecord(Block(s), as)
         /\ ~Readable(s) => readBlock(offset, as) = Failed("ioFailure")
<1>1. PICK c : c = SlotClusters(s)[1]
  OBVIOUS
<1>2. c \in VolumeMap /\ c \in Nat /\ c + 1 \in VolumeMap /\ SlotClusters(s)[2] = c + 1
  <2>1. SlotClusters(s)[1] \in VolumeMap /\ SlotClusters(s)[2] \in VolumeMap
    BY SlotClustersAre
  <2>2. VolumeMap \subseteq Nat
    BY RunlistAssumption DEF VolumeMap
  <2> QED
    BY <1>1, <2>1, <2>2
<1>3. PICK at : at = ClustersAt(offset)
  OBVIOUS
<1>4. at = [i \in 1..2 |-> c + i - 1]
  BY <1>1, <1>2, <1>3, ClustersAtIs
<1>5. DOMAIN at = 1..2 /\ at[1] = c /\ at[2] = c + 1
  BY <1>2, <1>4
<1>6. Range(at) \subseteq VolumeMap
  BY <1>2, <1>5 DEF Range
<1>7. [i \in 1..2 |-> disk[at[i]]] = Block(s)
  <2>1. \A i \in 1..2 : disk[at[i]] = disk[SlotClusters(s)[i]]
    BY <1>1, <1>2, <1>5
  <2> QED
    BY <2>1 DEF Block, Strides
<1>8. readBlock(offset, as) = IF Range(at) \cap unreadable # {} THEN Failed("ioFailure")
                                  ELSE IF ~(Range(at) \subseteq VolumeMap) THEN Failed("outOfRange")
                                  ELSE parseMftRecord([i \in 1..2 |-> disk[at[i]]], as)
  BY <1>3 DEF readBlock, Strides
<1>9. Readable(s) <=> Range(at) \cap unreadable = {}
  BY <1>1, <1>2, <1>5 DEF Readable, Range
<1> QED
  BY <1>6, <1>7, <1>8, <1>9

(* The table as record zero describes it. *)
Tabled ==
  /\ table.recordCount = Records /\ Tiles(table.extents, layout, Records * RecordBytes)
  /\ Together(table.extents, layout)

LEMMA OffsetIs ==
  ASSUME VolumeType, Tabled, NEW slot \in Nat
  PROVE  \/ recordOffset(slot) = -1
         \/ /\ slot \in Slots /\ SlotClusters(slot)[2] = SlotClusters(slot)[1] + 1
            /\ recordOffset(slot) = SlotClusters(slot)[1] * ClusterBytes
<1>1. SUFFICES ASSUME recordOffset(slot) # -1
               PROVE  /\ slot \in Slots /\ SlotClusters(slot)[2] = SlotClusters(slot)[1] + 1
                      /\ recordOffset(slot) = SlotClusters(slot)[1] * ClusterBytes
  OBVIOUS
<1>2. /\ slot < Records /\ slot \in Slots
      /\ recordOffset(slot) = locateInExtents(table.extents, slot * RecordBytes, RecordBytes)
  BY <1>1, NumbersAre DEF recordOffset, Tabled, Slots
<1>3. PICK at, C : at = recordOffset(slot) /\ C = ClusterBytes
  OBVIOUS
<1>4. PICK off : off = slot * RecordBytes
  OBVIOUS
<1>5. off \in Nat /\ C \in Nat \ {0} /\ RecordBytes = 2 * C /\ off = (2 * slot) * C
  BY <1>3, <1>4, BytesAre
<1>6. at \in Nat /\ \A j \in 0..(RecordBytes - 1) : at + j = ByteAt(layout, off + j)
  <2>1. PICK e, size, len : e = table.extents /\ size = Records * RecordBytes /\ len = RecordBytes
    OBVIOUS
  <2>2. off \in Nat /\ Tiles(e, layout, size) /\ len \in Nat \ {0} /\ at = locateInExtents(e, off, len) /\ at # -1
    BY <1>1, <1>2, <1>3, <1>4, <1>5, <2>1, BytesAre DEF Tabled
  <2>3. at \in Nat /\ \A j \in 0..(len - 1) : at + j = ByteAt(layout, off + j)
    BY ONLY <2>2, LocatedTiles
  <2> QED
    BY <2>1, <2>3
<1>7. 0 \in 0..(RecordBytes - 1) /\ C \in 0..(RecordBytes - 1)
  BY <1>5
<1>8. at = ByteAt(layout, off) /\ at + C = ByteAt(layout, off + C)
  <2>1. at + 0 = ByteAt(layout, off + 0)
    BY <1>6, <1>7
  <2> QED
    BY <1>5, <1>6, <1>7, <2>1
<1>9. ByteAt(layout, off) = layout[2 * slot + 1] * C
  <2>1. (2 * slot) \in Nat /\ 0 \in 0..(C - 1)
    BY <1>5
  <2>2. ((2 * slot) * C + 0) \div C = 2 * slot /\ ((2 * slot) * C + 0) % C = 0
    BY <1>5, <2>1, DividedIs
  <2>3. (2 * slot) * C + 0 = off
    BY <1>5
  <2>4. off \div C = 2 * slot /\ off % C = 0
    BY <2>2, <2>3
  <2>5. layout[2 * slot + 1] \in Nat
    BY <1>2, SlotClustersAre, RunlistAssumption DEF VolumeMap
  <2>6. ByteAt(layout, off) = layout[2 * slot + 1] * C + 0
    BY <1>3, <2>4 DEF ByteAt
  <2> QED
    BY <1>5, <2>5, <2>6
<1>10. ByteAt(layout, off + C) = layout[2 * slot + 2] * C
  <2>1. (2 * slot + 1) \in Nat /\ 0 \in 0..(C - 1)
    BY <1>5
  <2>2. ((2 * slot + 1) * C + 0) \div C = 2 * slot + 1 /\ ((2 * slot + 1) * C + 0) % C = 0
    BY <1>5, <2>1, DividedIs
  <2>3. (2 * slot + 1) * C + 0 = off + C
    BY <1>5
  <2>4. (off + C) \div C = 2 * slot + 1 /\ (off + C) % C = 0
    BY <2>2, <2>3
  <2>5. layout[2 * slot + 2] \in Nat
    BY <1>2, SlotClustersAre, RunlistAssumption DEF VolumeMap
  <2>6. ByteAt(layout, off + C) = layout[(2 * slot + 1) + 1] * C + 0
    BY <1>3, <2>4 DEF ByteAt
  <2>7. (2 * slot + 1) + 1 = 2 * slot + 2
    OBVIOUS
  <2> QED
    BY <1>5, <2>5, <2>6, <2>7
<1>11. PICK a, b : a = SlotClusters(slot)[1] /\ b = SlotClusters(slot)[2]
  OBVIOUS
<1>12. a \in Nat /\ b \in Nat /\ a = layout[2 * slot + 1] /\ b = layout[2 * slot + 2]
  BY <1>2, <1>11, SlotClustersAre, RunlistAssumption DEF VolumeMap
<1>13. at = a * C /\ a * C + C = b * C
  BY <1>8, <1>9, <1>10, <1>12
<1>14. b = a + 1
  <2>1. (a + 1) * C = b * C /\ a + 1 \in Nat
    BY <1>5, <1>12, <1>13
  <2>2. ((a + 1) * C + 0) \div C = a + 1 /\ (b * C + 0) \div C = b
    <3>1. 0 \in 0..(C - 1) /\ C \in Nat \ {0}
      BY <1>5
    <3>2. ((a + 1) * C + 0) \div C = a + 1
      BY ONLY <2>1, <3>1, DividedIs
    <3>3. (b * C + 0) \div C = b
      BY ONLY <1>12, <3>1, DividedIs
    <3> QED
      BY <3>2, <3>3
  <2> QED
    BY <2>1, <2>2
<1> QED
  BY <1>2, <1>3, <1>11, <1>13, <1>14

(* What readRecord gives, when it gives a record, is the slot's own block, parsed. *)
LEMMA ReadIs ==
  ASSUME VolumeType, Tabled, NEW slot \in Nat, readRecord(slot).error = "none"
  PROVE  slot \in Slots /\ readRecord(slot) = parseMftRecord(Block(slot), slot)
<1>1. PICK offset : offset = recordOffset(slot)
  OBVIOUS
<1>2. \A e : Failed(e).error = e
  BY DEF Failed
<1>3. readRecord(slot) = IF offset = -1 THEN Failed("invalidArgument") ELSE readBlock(offset, slot)
  BY <1>1 DEF readRecord
<1>4. offset # -1
  BY <1>2, <1>3
<1>5. /\ slot \in Slots /\ SlotClusters(slot)[2] = SlotClusters(slot)[1] + 1
      /\ offset = SlotClusters(slot)[1] * ClusterBytes
  BY <1>1, <1>4, OffsetIs
<1>6. readBlock(offset, slot) \in {Failed("ioFailure"), parseMftRecord(Block(slot), slot)}
  BY <1>5, BlockRead
<1> QED
  BY <1>2, <1>3, <1>4, <1>5, <1>6

-----------------------------------------------------------------------------
(***************************************************************************)
(* What a record's attributes parse to.                                    *)
(***************************************************************************)

Joined(a, b, c) ==
  /\ IsSeq(c) /\ Len(c) = Len(a) + Len(b)
  /\ \A i \in 1..Len(a) : c[i] = a[i]
  /\ \A i \in 1..Len(b) : c[Len(a) + i] = b[i]

LEMMA JoinedIs ==
  ASSUME NEW a, NEW b, IsSeq(a), IsSeq(b), NEW c, c = a \o b
  PROVE  Joined(a, b, c)
<1>1. PICK S : S = Range(a) \cup Range(b)
  OBVIOUS
<1>2. Len(a) \in Nat /\ Len(b) \in Nat /\ a = [i \in 1..Len(a) |-> a[i]] /\ b = [i \in 1..Len(b) |-> b[i]]
  BY SeqIs
<1>3. a \in Seq(S) /\ b \in Seq(S)
  <2>1. a \in Seq(Range(a)) /\ b \in Seq(Range(b))
    BY DEF IsSeq
  <2>2. (\A i \in 1..Len(a) : a[i] \in S) /\ (\A i \in 1..Len(b) : b[i] \in S)
    BY <1>1, <2>1
  <2>3. \A s, T, n : n \in Nat /\ s = [i \in 1..n |-> s[i]] /\ (\A i \in 1..n : s[i] \in T) => s \in Seq(T)
    BY SMTT(60)
  <2> QED
    BY <1>2, <2>2, <2>3
<1>4. /\ c \in Seq(S) /\ Len(c) = Len(a) + Len(b)
      /\ \A i \in 1..(Len(a) + Len(b)) : c[i] = IF i <= Len(a) THEN a[i] ELSE b[i - Len(a)]
  BY <1>3, ConcatProperties
<1>5. \A i \in 1..Len(b) : c[Len(a) + i] = b[i]
  <2> SUFFICES ASSUME NEW i \in 1..Len(b) PROVE c[Len(a) + i] = b[i]
    OBVIOUS
  <2>1. Len(a) + i \in 1..(Len(a) + Len(b)) /\ ~(Len(a) + i <= Len(a)) /\ (Len(a) + i) - Len(a) = i
    BY <1>2
  <2> QED
    BY <1>4, <2>1
<1>6. \A i \in 1..Len(a) : c[i] = a[i]
  BY <1>2, <1>4
<1>7. IsSeq(c)
  BY <1>4, IsSeqIf
<1> QED
  BY <1>4, <1>5, <1>6, <1>7 DEF Joined

ViewKept(v, attrs, K) ==
  /\ K \in 0..Len(attrs) /\ v.names = [i \in {k \in 1..K : isName(attrs[k])} |-> attrs[i]]
  /\ v.data = <<>> \/ \E d \in 1..K : isUnnamedData(attrs[d]) /\ v.data = <<attrs[d]>>
  /\ v.grade = "valid" => \A i \in DOMAIN attrs : ~Unfit(attrs[i])
  /\ (\A i \in DOMAIN attrs : ~Unfit(attrs[i])) =>
       /\ K = Len(attrs) /\ v.grade = "valid"
       /\ (\E d \in DOMAIN attrs : isUnnamedData(attrs[d])) => v.data # <<>>
ViewHead(v, slot, head) ==
  /\ v.error = "none" /\ v.number = slot /\ v.inUse = head.inUse /\ v.isDirectory = head.dir
  /\ v.sequence = head.sequence

LEMMA AttributesParsed ==
  ASSUME NEW slot, NEW head, NEW attrs, IsSeq(attrs), NEW v,
         v = parseRecordAttributes(recordShell(slot, head), attrs)
  PROVE  ViewHead(v, slot, head) /\ \E K : ViewKept(v, attrs, K)
<1>1. Len(attrs) \in Nat /\ DOMAIN attrs = 1..Len(attrs)
  BY SeqIs
<1>2. PICK invalid : invalid = {i \in DOMAIN attrs : Unfit(attrs[i])}
  OBVIOUS
<1>3. PICK K : K = IF invalid = {} THEN Len(attrs) ELSE Min(invalid) - 1
  OBVIOUS
<1>4. invalid \in SUBSET (1..Len(attrs)) /\ invalid \in SUBSET Nat
  BY <1>1, <1>2
<1>5. invalid # {} => Min(invalid) \in invalid
  BY <1>4, MinIs
<1>6. K \in 0..Len(attrs)
  <2>1. CASE invalid = {}
    BY <1>1, <1>3, <2>1
  <2>2. CASE invalid # {}
    <3>1. PICK m : m = Min(invalid)
      OBVIOUS
    <3>2. m \in 1..Len(attrs) /\ K = m - 1
      BY <1>3, <1>4, <1>5, <2>2, <3>1
    <3> QED
      BY <1>1, <3>2
  <2> QED
    BY <2>1, <2>2
<1>7. PICK streams : streams = {i \in 1..K : isUnnamedData(attrs[i])}
  OBVIOUS
<1>8. PICK view : view = recordShell(slot, head)
  OBVIOUS
<1>9. PICK names, data, grade :
        /\ names = [i \in {k \in 1..K : isName(attrs[k])} |-> attrs[i]]
        /\ data = (IF streams = {} THEN <<>> ELSE <<attrs[Min(streams)]>>)
        /\ grade = (IF invalid = {} THEN "valid" ELSE "uncertain")
  OBVIOUS
<1>10. v = [view EXCEPT !.names = names, !.data = data, !.grade = grade]
  <2>1. invalid = {i \in DOMAIN attrs : ~readAttributeView(attrs[i]) \/ ~consumeAttribute(attrs[i])}
    BY <1>2 DEF Unfit
  <2> QED
    BY ONLY <1>3, <1>7, <1>8, <1>9, <2>1, v = parseRecordAttributes(recordShell(slot, head), attrs)
       DEF parseRecordAttributes
<1>11. v.names = names /\ v.data = data /\ v.grade = grade /\ ViewHead(v, slot, head)
  BY ONLY <1>8, <1>10 DEF recordShell, ViewHead
<1>12. streams # {} => Min(streams) \in streams
  <2>1. streams \in SUBSET Nat
    BY <1>6, <1>7
  <2> QED
    BY <2>1, MinIs
<1>13. data = <<>> \/ \E d \in 1..K : isUnnamedData(attrs[d]) /\ data = <<attrs[d]>>
  BY <1>7, <1>9, <1>12
<1>14. grade = "valid" => \A i \in DOMAIN attrs : ~Unfit(attrs[i])
  BY <1>2, <1>9
<1>15. ASSUME \A i \in DOMAIN attrs : ~Unfit(attrs[i])
       PROVE  /\ K = Len(attrs) /\ grade = "valid"
              /\ (\E d \in DOMAIN attrs : isUnnamedData(attrs[d])) => data # <<>>
  <2>1. invalid = {} /\ K = Len(attrs) /\ grade = "valid"
    BY <1>2, <1>3, <1>9, <1>15
  <2>2. (\E d \in DOMAIN attrs : isUnnamedData(attrs[d])) => streams # {}
    BY <1>1, <1>7, <2>1
  <2>3. streams # {} => data # <<>>
    BY <1>9
  <2> QED
    BY <2>1, <2>2, <2>3
<1>16. ViewKept(v, attrs, K)
  BY <1>6, <1>9, <1>11, <1>13, <1>14, <1>15 DEF ViewKept
<1> QED
  BY <1>11, <1>16

(* A record with a name or with data has parsed whole. *)
LEMMA RecordParsed ==
  ASSUME VolumeType, NEW s \in Slots, NEW v, v = parseMftRecord(Block(s), s), v.error = "none"
  PROVE  /\ ViewHead(v, s, Block(s)[1].head)
         /\ hasName(v) \/ v.data # <<>> =>
              /\ Parsed(s)
              /\ v = parseRecordAttributes(recordShell(s, Block(s)[1].head), Block(s)[1].attrs \o Block(s)[2].attrs)
<1>1. PICK b : b = Block(s)
  OBVIOUS
<1>2. \A e : Failed(e).error = e
  BY DEF Failed
<1>3. /\ signatureIsFile(b) /\ readRecordHeader(b) /\ readUsaHeader(b)
      /\ v = recordViewFromFixup(s, b, applyUpdateSequenceFixup(b))
  BY <1>1, <1>2 DEF parseMftRecord
<1>4. PICK shell : shell = recordShell(s, b[1].head)
  OBVIOUS
<1>5. ViewHead(shell, s, b[1].head) /\ DOMAIN shell.names = {} /\ shell.data = <<>>
  BY <1>4 DEF recordShell, ViewHead
<1>6. CASE b[1].head.base # 0 \/ ~applyUpdateSequenceFixup(b)
  <2>1. v = shell
    BY <1>3, <1>4, <1>6 DEF recordViewFromFixup
  <2> QED
    BY <1>1, <1>5, <2>1 DEF hasName
<1>7. CASE b[1].head.base = 0 /\ applyUpdateSequenceFixup(b)
  <2>1. v = parseRecordAttributes(recordShell(s, b[1].head), b[1].attrs \o b[2].attrs)
    BY <1>3, <1>4, <1>7 DEF recordViewFromFixup
  <2>2. Parsed(s)
    BY <1>1, <1>3, <1>7 DEF Parsed
  <2>3. ViewHead(v, s, b[1].head)
    <3>1. PICK view, attrs : view = recordShell(s, b[1].head) /\ attrs = b[1].attrs \o b[2].attrs
      OBVIOUS
    <3>2. \E names, data, grade : v = [view EXCEPT !.names = names, !.data = data, !.grade = grade]
      <4>1. v = parseRecordAttributes(view, attrs)
        BY <2>1, <3>1
      <4> QED
        BY ONLY <4>1, Zenon DEF parseRecordAttributes
    <3>3. PICK names, data, grade : v = [view EXCEPT !.names = names, !.data = data, !.grade = grade]
      BY <3>2
    <3> QED
      BY ONLY <3>1, <3>3 DEF recordShell, ViewHead
  <2> QED
    BY <1>1, <2>1, <2>2, <2>3
<1> QED
  BY <1>6, <1>7

(* Record zero says where the table is. *)
LEMMA ZeroParsed ==
  ASSUME VolumeType, ZeroInv, NEW v, v = parseMftRecord(Block(0), 0)
  PROVE  v.error = "none" /\ v.data # <<>> => v.data[1] = ZeroData
<1> SUFFICES ASSUME v.error = "none", v.data # <<>> PROVE v.data[1] = ZeroData
  OBVIOUS
<1>1. 0 \in Slots
  BY NumbersAre DEF Slots
<1>2. PICK head, first, second : head = Block(0)[1].head /\ first = Block(0)[1].attrs /\ second = Block(0)[2].attrs
  OBVIOUS
<1>3. first = <<Std>> /\ second = <<ZeroData>>
  BY <1>2, StridesAre DEF ZeroInv
<1>4. v = parseRecordAttributes(recordShell(0, head), first \o second)
  BY <1>1, <1>2, RecordParsed
<1>5. PICK x, y, attrs : x = Std /\ y = ZeroData /\ attrs = first \o second
  OBVIOUS
<1>6. /\ IsSeq(first) /\ Len(first) = 1 /\ first[1] = x
      /\ IsSeq(second) /\ Len(second) = 1 /\ second[1] = y
  <2>1. first = <<x>> /\ second = <<y>>
    BY <1>3, <1>5
  <2>2. /\ first \in Seq({x}) /\ Len(first) = 1 /\ first[1] = x
        /\ second \in Seq({y}) /\ Len(second) = 1 /\ second[1] = y
    BY ONLY <2>1
  <2> QED
    BY <2>2, IsSeqIf
<1>7. Joined(first, second, attrs)
  BY <1>5, <1>6, JoinedIs
<1>8. IsSeq(attrs) /\ Len(attrs) = 2 /\ attrs[1] = x /\ attrs[2] = y
  <2>1. IsSeq(attrs) /\ Len(attrs) = 2 /\ attrs[1] = first[1] /\ attrs[1 + 1] = second[1]
    BY <1>6, <1>7 DEF Joined
  <2> QED
    BY <1>6, <2>1
<1>9. PICK K : ViewKept(v, attrs, K)
  BY <1>4, <1>5, <1>8, AttributesParsed
<1>10. PICK d \in 1..K : isUnnamedData(attrs[d]) /\ v.data = <<attrs[d]>>
  BY <1>9 DEF ViewKept
<1>11. d \in 1..2
  BY <1>8, <1>9, <1>10 DEF ViewKept
<1>12. ~isUnnamedData(attrs[1])
  BY <1>5, <1>8 DEF isUnnamedData, Std
<1>13. d = 2
  BY <1>10, <1>11, <1>12
<1> QED
  BY <1>5, <1>8, <1>10, <1>13

(* An open table is the table. *)
LEMMA OpenStep ==
  ASSUME VolumeType, ZeroInv, openTable, phase' = "walk"
  PROVE  Tabled'
<1>1. PICK zero : zero = readRecordZero
  OBVIOUS
<1>2. PICK data, placed : data = zero.data[1] /\ placed = runlistExtents(data.runs, data.size)
  OBVIOUS
<1>3. /\ zero.error = "none" /\ nonResidentData(zero) /\ placed.located
      /\ table' = [extents |-> placed.extents, recordCount |-> data.size \div RecordBytes]
      /\ layout' = layout
  BY <1>1, <1>2 DEF openTable, volumeVars
<1>4. 0 \in Slots /\ SlotClusters(0)[1] = layout[1] /\ SlotClusters(0)[2] = layout[2] /\ layout[2] = layout[1] + 1
  <2>1. 0 \in Slots /\ layout[2] = layout[1] + 1
    BY NumbersAre, LayoutIs DEF Slots
  <2>2. 2 * 0 + 1 = 1 /\ 2 * 0 + 2 = 2
    OBVIOUS
  <2> QED
    BY <2>1, <2>2, SlotClustersAre
<1>5. zero \in {Failed("ioFailure"), parseMftRecord(Block(0), 0)}
  <2>1. PICK offset : offset = layout[1] * ClusterBytes
    OBVIOUS
  <2>2. zero = readBlock(offset, 0)
    BY <1>1, <2>1, LayoutAssumption DEF readRecordZero
  <2>3. offset = SlotClusters(0)[1] * ClusterBytes /\ SlotClusters(0)[2] = SlotClusters(0)[1] + 1
    BY <1>4, <2>1
  <2> QED
    BY <1>4, <2>2, <2>3, BlockRead
<1>6. zero = parseMftRecord(Block(0), 0)
  BY <1>3, <1>5 DEF Failed
<1>7. data = ZeroData
  BY <1>2, <1>3, <1>6, ZeroParsed DEF nonResidentData
<1>8. PICK runs, size : runs = encodeRunlist(layout) /\ size = Records * RecordBytes
  OBVIOUS
<1>9. data.runs = runs /\ data.size = size
  <2>1. data = DataAttr("unnamed", FALSE, runs, size, Root)
    BY <1>7, <1>8 DEF ZeroData
  <2> QED
    BY ONLY <2>1 DEF DataAttr
<1>10. placed = runlistExtents(runs, size)
  BY <1>2, <1>9
<1>11. layout \in Seq(VolumeCluster \cup {Hole}) /\ size \in Nat \ {0}
  <2>1. layout \in Seq(VolumeCluster)
    BY LayoutIs DEF VolumeMap, VolumeCluster
  <2> HIDE DEF VolumeCluster
  <2> QED
    BY <1>8, <2>1, BytesAre
<1>12. Tiles(placed.extents, layout, size)
  BY ONLY <1>3, <1>8, <1>10, <1>11, RunlistIsExact
<1>13. Together(placed.extents, layout)
  <2>1. size = Len(layout) * ClusterBytes
    BY <1>8, BytesAre, LayoutIs
  <2> QED
    BY ONLY <1>3, <1>8, <1>10, <1>11, <2>1, LocatedTogether
<1>14. table'.extents = placed.extents /\ table'.recordCount = Records
  BY <1>3, <1>8, <1>9, BytesAre
<1> QED
  BY <1>3, <1>8, <1>12, <1>13, <1>14 DEF Tabled

(***************************************************************************)
(* What a sound record shows: its holder's name, the place its holder was  *)
(* given, and its holder's data.                                           *)
(***************************************************************************)

NameIs(p, n, up) == (p.name = n \/ p.name = -n) /\ RefSound(p.parent, up)
DataIs(v, o, n) ==
  /\ StreamOf(v.data[1], o, n)
  /\ v.grade = "valid" => o.whole \/ (~v.data[1].resident /\ ~Located(v.data[1]))
HolderShown(v, s, n) ==
  /\ Parsed(s) /\ n \in Ids /\ n = HolderOf(s) /\ v.number = s /\ v.isDirectory = objects[n].dir
  /\ v.inUse = objects[n].live /\ v.sequence = Block(s)[1].head.sequence
  /\ hasName(v) => NameIs(preferredName(v.names), n, objects[n].links[1])
  /\ v.data # <<>> => DataIs(v, objects[n], n)

NamesKept(names, first, attrs, K) ==
  /\ K \in Nat /\ \A i \in 1..Len(first) : attrs[i] = first[i]
  /\ \A i \in 1..K : isName(attrs[i]) => i <= Len(first)
  /\ names = [i \in {k \in 1..K : isName(attrs[k])} |-> attrs[i]] /\ DOMAIN names # {}

LEMMA PreferredIs ==
  ASSUME NEW first, IsSeq(first), NEW attrs, NEW K, NEW names, NamesKept(names, first, attrs, K)
  PROVE  \E i \in DOMAIN first : /\ MayStand(first, i) /\ preferredName(names) = first[i]
                                 /\ (\E k \in DOMAIN names : isLong(names[k])) => isLong(first[i])
<1>0. /\ K \in Nat /\ \A i \in 1..Len(first) : attrs[i] = first[i]
      /\ \A i \in 1..K : isName(attrs[i]) => i <= Len(first)
      /\ names = [i \in {k \in 1..K : isName(attrs[k])} |-> attrs[i]] /\ DOMAIN names # {}
  BY DEF NamesKept
<1>1. PICK D, longs : D = DOMAIN names /\ longs = {i \in D : isLong(names[i])}
  OBVIOUS
<1>2. D = {k \in 1..K : isName(attrs[k])} /\ D \in SUBSET Nat /\ longs \in SUBSET Nat /\ longs \subseteq D
  BY <1>0, <1>1
<1>3. PICK T : T = IF longs # {} THEN longs ELSE D
  OBVIOUS
<1>4. T \in SUBSET Nat /\ T # {} /\ T \subseteq D
  BY <1>0, <1>1, <1>2, <1>3
<1>5. PICK m : m = Min(T)
  OBVIOUS
<1>6. m \in T /\ \A y \in T : m <= y
  BY <1>4, <1>5, MinIs
<1>7. preferredName(names) = names[m]
  BY <1>1, <1>3, <1>5 DEF preferredName
<1>8. Len(first) \in Nat /\ DOMAIN first = 1..Len(first)
  BY SeqIs
<1>9. \A i \in D : i \in 1..K /\ isName(attrs[i]) /\ i \in DOMAIN first /\ names[i] = first[i] /\ isName(first[i])
  BY <1>0, <1>2, <1>8
<1>10. m \in D /\ names[m] = first[m] /\ isName(first[m]) /\ m \in DOMAIN first /\ m \in 1..K
  BY <1>4, <1>6, <1>9
<1>11. MayStand(first, m)
  <2>1. CASE longs = {}
    BY <1>1, <1>10, <2>1 DEF MayStand, isLong
  <2>2. CASE longs # {}
    <3>1. ASSUME NEW j \in 1..(m - 1), isName(first[j]) PROVE first[j].dos
      <4>1. j \in 1..K /\ j \in DOMAIN first /\ attrs[j] = first[j] /\ ~(m <= j)
        BY <1>0, <1>8, <1>10
      <4>2. j \in D /\ names[j] = first[j]
        BY <1>2, <1>9, <3>1, <4>1
      <4>3. j \notin longs
        BY <1>3, <1>6, <2>2, <4>1
      <4> QED
        BY <1>1, <4>2, <4>3 DEF isLong
    <3> QED
      BY <1>10, <3>1 DEF MayStand
  <2> QED
    BY <2>1, <2>2
<1>12. (\E k \in DOMAIN names : isLong(names[k])) => isLong(first[m])
  BY <1>1, <1>3, <1>6, <1>10
<1> QED
  BY <1>7, <1>10, <1>11, <1>12

LEMMA ViewSound ==
  ASSUME VolumeType, ObjectsInv, SoundInv, NEW s \in UserSlots, NEW v, v = parseMftRecord(Block(s), s),
         v.error = "none", hasName(v) \/ v.data # <<>>
  PROVE  HolderShown(v, s, HolderOf(s))
<1>1. s \in Slots
  BY NumbersAre
<1>2. PICK head, first, second, n, o :
        /\ head = Block(s)[1].head /\ first = Block(s)[1].attrs /\ second = Block(s)[2].attrs
        /\ n = HolderOf(s) /\ o = objects[n]
  OBVIOUS
<1>3. /\ ViewHead(v, s, head) /\ Parsed(s)
      /\ v = parseRecordAttributes(recordShell(s, head), first \o second)
  BY <1>1, <1>2, RecordParsed
<1>4. RecordSound(s, head, first, second)
  BY <1>2, <1>3 DEF SoundInv, Sound
<1>5. /\ n \in Ids /\ head.dir = o.dir /\ head.inUse = o.live
      /\ IsSeq(first) /\ IsSeq(second) /\ NamesAre(first, n)
      /\ \A i \in DOMAIN first : first[i].type # "data"
      /\ \A i \in DOMAIN second : second[i].type = "data"
      /\ \A i \in DOMAIN first : isName(first[i]) => first[i].dos \in BOOLEAN
      /\ \A i \in DOMAIN first : MayStand(first, i) => RefSound(first[i].parent, o.links[1])
      /\ \A i \in DOMAIN second : second[i].stream = "unnamed" => StreamOf(second[i], o, n)
      /\ ShowsWhole(o, first, second)
  BY <1>2, <1>4 DEF RecordSound
<1>6. PICK attrs : attrs = first \o second
  OBVIOUS
<1>7. Joined(first, second, attrs)
  BY <1>5, <1>6, JoinedIs
<1>8. /\ IsSeq(attrs) /\ Len(attrs) = Len(first) + Len(second)
      /\ \A i \in 1..Len(first) : attrs[i] = first[i]
      /\ \A i \in 1..Len(second) : attrs[Len(first) + i] = second[i]
  BY <1>7 DEF Joined
<1>9. PICK K : ViewKept(v, attrs, K)
  BY <1>3, <1>6, <1>8, AttributesParsed
<1>10. /\ Len(first) \in Nat /\ Len(second) \in Nat /\ DOMAIN first = 1..Len(first)
       /\ DOMAIN second = 1..Len(second) /\ DOMAIN attrs = 1..Len(attrs)
  BY <1>5, <1>8, SeqIs
<1>11. K \in Nat /\ K <= Len(first) + Len(second)
  BY <1>8, <1>9, <1>10 DEF ViewKept
<1>12. ASSUME NEW i \in 1..K, i > Len(first)
       PROVE  /\ i - Len(first) \in DOMAIN second /\ attrs[i] = second[i - Len(first)]
              /\ attrs[i].type = "data"
  <2>1. PICK k : k = i - Len(first)
    OBVIOUS
  <2>2. k \in 1..Len(second) /\ i = Len(first) + k
    BY <1>10, <1>11, <1>12, <2>1
  <2>3. attrs[Len(first) + k] = second[k] /\ second[k].type = "data" /\ k \in DOMAIN second
    BY <1>5, <1>8, <1>10, <2>2
  <2> QED
    BY <2>1, <2>2, <2>3
<1>13. hasName(v) => NameIs(preferredName(v.names), n, o.links[1])
  <2> SUFFICES ASSUME hasName(v) PROVE NameIs(preferredName(v.names), n, o.links[1])
    OBVIOUS
  <2>1. PICK names : names = v.names
    OBVIOUS
  <2>2. names = [i \in {k \in 1..K : isName(attrs[k])} |-> attrs[i]] /\ DOMAIN names # {}
    BY <1>9, <2>1 DEF ViewKept, hasName
  <2>3. \A i \in 1..K : isName(attrs[i]) => i <= Len(first)
    BY <1>10, <1>11, <1>12 DEF isName
  <2>4. PICK i \in DOMAIN first : MayStand(first, i) /\ preferredName(names) = first[i]
    <3>1. NamesKept(names, first, attrs, K)
      BY ONLY <1>8, <1>11, <2>2, <2>3 DEF NamesKept
    <3> QED
      BY ONLY <1>5, <3>1, PreferredIs
  <2>5. RefSound(first[i].parent, o.links[1])
    BY <1>5, <2>4
  <2>6. first[i].name = n \/ first[i].name = -n
    BY <1>5, <2>4 DEF MayStand, NamesAre
  <2> QED
    BY <2>1, <2>4, <2>5, <2>6 DEF NameIs
<1>14. v.data # <<>> => DataIs(v, o, n)
  <2> SUFFICES ASSUME v.data # <<>> PROVE DataIs(v, o, n)
    OBVIOUS
  <2>1. PICK d \in 1..K : isUnnamedData(attrs[d]) /\ v.data = <<attrs[d]>>
    BY <1>9 DEF ViewKept
  <2>2. attrs[d].type = "data" /\ attrs[d].stream = "unnamed" /\ v.data[1] = attrs[d]
    BY <2>1 DEF isUnnamedData
  <2>3. d > Len(first)
    <3>1. ~(d \in 1..Len(first))
      BY <1>5, <1>8, <1>10, <2>2
    <3> QED
      BY <1>10, <1>11, <3>1
  <2>4. PICK k \in DOMAIN second : attrs[d] = second[k]
    BY <1>12, <2>3
  <2>5. StreamOf(v.data[1], o, n)
    BY <1>5, <2>2, <2>4
  <2>6. ASSUME v.grade = "valid", ~o.whole PROVE ~v.data[1].resident /\ ~Located(v.data[1])
    <3>1. \A i \in DOMAIN attrs : ~Unfit(attrs[i])
      BY <1>9, <2>6 DEF ViewKept
    <3>2. \A i \in DOMAIN first : ~Unfit(first[i])
      BY <1>8, <1>10, <3>1
    <3>3. \A i \in DOMAIN second : ~Unfit(second[i])
      <4> SUFFICES ASSUME NEW i \in DOMAIN second PROVE ~Unfit(second[i])
        OBVIOUS
      <4>1. Len(first) + i \in DOMAIN attrs /\ attrs[Len(first) + i] = second[i]
        BY <1>8, <1>10
      <4> QED
        BY <3>1, <4>1
    <3>4. \A i \in DOMAIN second : second[i].stream = "unnamed" => ~second[i].resident /\ ~Located(second[i])
      BY <1>5, <2>6, <3>2, <3>3 DEF ShowsWhole
    <3> QED
      BY <2>2, <2>4, <3>4
  <2> QED
    BY <2>5, <2>6 DEF DataIs
<1>15. /\ v.number = s /\ v.isDirectory = o.dir /\ v.inUse = o.live /\ v.sequence = head.sequence
  BY <1>3, <1>5 DEF ViewHead
<1> QED
  BY <1>2, <1>3, <1>5, <1>13, <1>14, <1>15 DEF HolderShown

-----------------------------------------------------------------------------
(***************************************************************************)
(* The way up, as the host has it.                                         *)
(***************************************************************************)

Places == {Root} \cup Ids

UpIs(n, k, f) ==
  f = [i \in 0..Len(objects) |->
         IF i = 0 THEN <<objects[n].links[k]>>
         ELSE LET above == f[i - 1] IN
              IF above[1] = Root THEN above ELSE <<objects[above[1]].links[1]>> \o above]
Up(n, k) == CHOOSE f : UpIs(n, k, f)

LEMMA PathIs == \A n, k : PathsTo(n, k) = Append(Tail(Up(n, k)[Len(objects)]), n)
BY Zenon DEF PathsTo, Up, UpIs

LEMMA InFront ==
  ASSUME NEW S, NEW s \in Seq(S), NEW x \in S, NEW r, r = <<x>> \o s
  PROVE  /\ r \in Seq(S) /\ r # <<>> /\ Len(r) = Len(s) + 1 /\ r[1] = x
         /\ \A i \in 1..Len(s) : r[i + 1] = s[i]
<1>1. PICK one : one = <<x>>
  OBVIOUS
<1>2. one \in Seq(S) /\ Len(one) = 1 /\ one[1] = x /\ Len(s) \in Nat
  BY <1>1
<1>3. /\ r \in Seq(S) /\ Len(r) = 1 + Len(s)
      /\ \A i \in 1..(1 + Len(s)) : r[i] = IF i <= 1 THEN one[i] ELSE s[i - 1]
  BY <1>1, <1>2, ConcatProperties
<1>4. ASSUME NEW i \in 1..Len(s) PROVE r[i + 1] = s[i]
  <2>1. i + 1 \in 1..(1 + Len(s)) /\ ~(i + 1 <= 1) /\ (i + 1) - 1 = i
    BY <1>2
  <2> QED
    BY <1>3, <2>1
<1>5. r[1] = x
  BY <1>2, <1>3
<1> QED
  BY <1>2, <1>3, <1>4, <1>5

(* f[i] is the chain of places up to the i-th. *)
Rises(f, n, k) ==
  /\ f[0] = <<objects[n].links[k]>>
  /\ \A i \in 1..Len(objects) :
       /\ f[i - 1][1] = Root => f[i] = f[i - 1]
       /\ f[i - 1][1] # Root => f[i] = <<objects[f[i - 1][1]].links[1]>> \o f[i - 1]
  /\ \A i \in 0..Len(objects) : f[i] \in Seq(Places) /\ f[i] # <<>> /\ f[i][1] \in Places

LEMMA UpRises ==
  ASSUME ObjectsInv, NEW n \in Ids, NEW k \in DOMAIN objects[n].links
  PROVE  Rises(Up(n, k), n, k)
<1> DEFINE N == Len(objects)
           V == {v \in Seq(Places) : v # <<>>}
           none == <<objects[n].links[k]>>
           step == [i \in 1..N |-> [v \in V |-> IF v[1] = Root THEN v ELSE <<objects[v[1]].links[1]>> \o v]]
<1>1. N \in Nat /\ Ids = 1..N /\ \A m \in Ids : objects[m].links[1] \in Places
  BY ObjectIs DEF Places
<1>2. objects[n].links[k] \in Places
  BY DEF ObjectsInv, LinksLead, Places
<1> HIDE DEF Places
<1>3. none \in V
  BY <1>2
<1>4. \A v \in V : v \in Seq(Places) /\ v # <<>> /\ v[1] \in Places
  OBVIOUS
<1>5. ASSUME NEW v \in V, v[1] # Root PROVE <<objects[v[1]].links[1]>> \o v \in V
  <2>1. PICK q, r : q = objects[v[1]].links[1] /\ r = <<q>> \o v
    OBVIOUS
  <2>2. v[1] \in Ids
    BY <1>4, <1>5 DEF Places
  <2>3. q \in Places
    BY <1>1, <2>1, <2>2
  <2>4. r \in Seq(Places) /\ r # <<>>
    BY <1>4, <2>1, <2>3, InFront
  <2> QED
    BY <2>1, <2>4
<1>6. step \in [1..N -> [V -> V]]
  <2> HIDE DEF V
  <2> QED
    BY <1>5
<1>7. PICK g \in [0..N -> V] : g[0] = none /\ \A i \in 1..N : g[i] = step[i][g[i - 1]]
  <2>1. N \in Nat /\ none \in V
    BY <1>1, <1>3
  <2> HIDE DEF step, N, V, none
  <2>2. Recursive(V, none, N, step)
    BY ONLY <1>6, <2>1, HasRecursion
  <2> QED
    BY ONLY <2>2, Zenon DEF Recursive
<1>8. \A i \in 1..N : i - 1 \in 0..N /\ i \in 0..N /\ i # 0
  BY <1>1
<1>9. \A i \in 1..N : g[i] = IF g[i - 1][1] = Root THEN g[i - 1] ELSE <<objects[g[i - 1][1]].links[1]>> \o g[i - 1]
  <2> HIDE DEF V
  <2> QED
    BY <1>7, <1>8
<1>10. UpIs(n, k, g)
  <2>1. \A i \in 0..N : i = 0 \/ i \in 1..N
    BY <1>1
  <2> HIDE DEF V
  <2> QED
    BY <1>7, <1>9, <2>1 DEF UpIs
<1>11. UpIs(n, k, Up(n, k))
  BY <1>10 DEF Up
<1> DEFINE f == Up(n, k)
<1>12. f[0] = none /\ \A i \in 1..N : f[i] = IF f[i - 1][1] = Root THEN f[i - 1] ELSE <<objects[f[i - 1][1]].links[1]>> \o f[i - 1]
  <2>1. 0 \in 0..N
    BY <1>1
  <2> HIDE DEF f
  <2> QED
    BY <1>8, <1>11, <2>1 DEF UpIs, f
<1> HIDE DEF f
<1> DEFINE S == {i \in Nat : i <= N => f[i] \in V}
<1> HIDE DEF V
<1>13. 0 \in S
  BY <1>3, <1>12
<1>14. ASSUME NEW i \in S PROVE i + 1 \in S
  <2> SUFFICES ASSUME i + 1 <= N PROVE f[i + 1] \in V
    OBVIOUS
  <2>1. i + 1 \in 1..N /\ (i + 1) - 1 = i /\ f[i] \in V
    BY <1>1
  <2>2. f[i + 1] = IF f[i][1] = Root THEN f[i] ELSE <<objects[f[i][1]].links[1]>> \o f[i]
    BY <1>12, <2>1
  <2> QED
    BY <1>5, <2>1, <2>2
<1>15. S = Nat
  <2>1. S \in SUBSET Nat
    OBVIOUS
  <2> HIDE DEF S
  <2> QED
    BY <1>13, <1>14, <2>1, SetInduction
<1>16. \A i \in 0..N : f[i] \in V
  BY <1>1, <1>15
<1> QED
  BY <1>4, <1>12, <1>16 DEF f, Rises

(* A chain at the root stays there. *)
LEMMA RootStays ==
  ASSUME ObjectsInv, NEW f, NEW n, NEW k, Rises(f, n, k), NEW i \in 0..Len(objects), f[i][1] = Root
  PROVE  f[Len(objects)] = f[i]
<1> DEFINE N == Len(objects)
           S == {j \in Nat : i + j <= N => f[i + j] = f[i]}
<1>1. N \in Nat
  BY ObjectIs
<1>2. 0 \in S
  BY <1>1
<1>3. ASSUME NEW j \in S PROVE j + 1 \in S
  <2> SUFFICES ASSUME i + (j + 1) <= N PROVE f[i + (j + 1)] = f[i]
    OBVIOUS
  <2>1. i + (j + 1) \in 1..N /\ (i + (j + 1)) - 1 = i + j /\ f[i + j] = f[i]
    BY <1>1
  <2> QED
    BY <2>1 DEF Rises
<1>4. S = Nat
  <2>1. S \in SUBSET Nat
    OBVIOUS
  <2> HIDE DEF S
  <2> QED
    BY <1>2, <1>3, <2>1, SetInduction
<1>5. PICK j : j = N - i
  OBVIOUS
<1>6. j \in Nat /\ i + j = N
  BY <1>1, <1>5
<1>7. j \in S
  BY <1>4, <1>6
<1> QED
  BY <1>1, <1>6, <1>7

(* A chain longer than there are objects goes round: it never comes to the root. *)
Closed(S) == S \subseteq Ids /\ \A m \in S : objects[m].links[1] \in S

LEMMA GoesRound ==
  ASSUME ObjectsInv, NEW f, NEW n, NEW k, Rises(f, n, k), \A b \in 0..Len(objects) : f[b][1] # Root
  PROVE  \E S : Closed(S) /\ f[Len(objects)][1] \in S
<1> DEFINE N == Len(objects)
           c == [b \in 0..N |-> f[b][1]]
<1>1. N \in Nat /\ Ids = 1..N
  BY ObjectIs
<1>2. \A b \in 0..N : c[b] \in Ids
  BY DEF Rises, Places
<1>3. \A b \in 1..N : c[b] = objects[c[b - 1]].links[1]
  <2> SUFFICES ASSUME NEW b \in 1..N PROVE c[b] = objects[c[b - 1]].links[1]
    OBVIOUS
  <2>1. b - 1 \in 0..N /\ b \in 0..N
    BY <1>1
  <2>2. PICK q, r, u : u = f[b - 1] /\ q = objects[u[1]].links[1] /\ r = <<q>> \o u
    OBVIOUS
  <2>3. f[b] = r /\ u \in Seq(Places) /\ f[b][1] \in Places
    BY <2>1, <2>2 DEF Rises
  <2>4. u[1] \in Ids
    BY <2>1, <2>2 DEF Rises, Places
  <2>5. q \in Places
    BY <2>2, <2>4, ObjectIs DEF Places
  <2>6. r[1] = q
    BY <2>2, <2>3, <2>5, InFront
  <2> QED
    BY <2>1, <2>2, <2>3, <2>6
<1>4. c \in [0..N -> Ids]
  BY <1>2
<1> HIDE DEF c
<1>5. PICK x, y \in 0..N : x # y /\ c[x] = c[y]
  <2>1. IsFiniteSet(0..N) /\ Cardinality(0..N) = N + 1
    BY <1>1, FS_Interval
  <2>2. IsFiniteSet(1..N) /\ Cardinality(1..N) = N
    <3>1. 1 \in Int /\ N \in Int /\ (IF 1 > N THEN 0 ELSE N - 1 + 1) = N
      BY <1>1
    <3> QED
      BY ONLY <3>1, FS_Interval
  <2>3. Cardinality(Ids) < Cardinality(0..N) /\ IsFiniteSet(Ids)
    BY <1>1, <2>1, <2>2
  <2> QED
    BY <1>4, <2>1, <2>3, FS_PigeonHole
<1>6. PICK a, b \in 0..N : a < b /\ c[a] = c[b]
  <2>1. CASE x < y
    BY <1>5, <2>1
  <2>2. CASE y < x
    BY <1>5, <2>2
  <2> QED
    BY <1>1, <1>5, <2>1, <2>2
<1> DEFINE S == {c[j] : j \in 0..(b - 1)}
<1>7. Closed(S)
  <2>1. S \subseteq Ids
    BY <1>1, <1>2
  <2>2. ASSUME NEW j \in 0..(b - 1) PROVE objects[c[j]].links[1] \in S
    <3>1. j + 1 \in 1..N /\ (j + 1) - 1 = j /\ c[j + 1] = objects[c[j]].links[1]
      BY <1>1, <1>3
    <3>2. CASE j + 1 = b
      <4>1. a \in 0..(b - 1)
        BY <1>1, <1>6
      <4>2. objects[c[j]].links[1] = c[a]
        BY <1>6, <3>1, <3>2
      <4> QED
        BY <4>1, <4>2
    <3>3. CASE j + 1 # b
      <4>1. j + 1 \in 0..(b - 1)
        BY <1>1, <3>3
      <4> QED
        BY <3>1, <4>1
    <3> QED
      BY <3>2, <3>3
  <2> QED
    BY <2>1, <2>2 DEF Closed
<1> DEFINE T == {j \in Nat : j <= N => c[j] \in S}
<1>8. 0 \in T
  BY <1>1, <1>6
<1> HIDE DEF S
<1>9. ASSUME NEW j \in T PROVE j + 1 \in T
  <2> SUFFICES ASSUME j + 1 <= N PROVE c[j + 1] \in S
    OBVIOUS
  <2>1. j + 1 \in 1..N /\ (j + 1) - 1 = j /\ c[j] \in S
    BY <1>1
  <2> QED
    BY <1>3, <1>7, <2>1 DEF Closed
<1>10. T = Nat
  <2>1. T \in SUBSET Nat
    OBVIOUS
  <2> HIDE DEF T
  <2> QED
    BY <1>8, <1>9, <2>1, SetInduction
<1>11. c[N] \in S
  BY <1>1, <1>10
<1>12. c[N] = f[N][1]
  BY <1>1 DEF c
<1> QED
  BY <1>7, <1>11, <1>12

-----------------------------------------------------------------------------
(***************************************************************************)
(* The climb.                                                              *)
(***************************************************************************)

ReadSound == VolumeType /\ ObjectsInv /\ SoundInv /\ Tabled

Rung(name, ascent) == [directories |-> <<name.name>> \o ascent.directories, stoppedAt |-> name.parent]
NameRead(slot) == preferredName(readRecord(slot).names)

(* A rung leads to the directory itself, and shows the place that it was given. *)
LEMMA ClimbIs ==
  ASSUME ReadSound, NEW ascent, NEW p, RefSound(ascent.stoppedAt, p), climb(ascent) # ascent
  PROVE  /\ p \in Ids /\ NameIs(NameRead(objects[p].slot), p, objects[p].links[1])
         /\ climb(ascent) = Rung(NameRead(objects[p].slot), ascent)
<1>1. PICK at : at = ascent.stoppedAt
  OBVIOUS
<1>2. PICK parent : parent = IF at.record = kRootRecordNumber THEN Failed("root") ELSE readRecord(at.record)
  OBVIOUS
<1>3. climb(ascent) = IF parent.error = "none" /\ isLiveDirectory(parent, at) /\ hasName(parent)
                      THEN Rung(preferredName(parent.names), ascent) ELSE ascent
  BY ONLY <1>1, <1>2, Zenon DEF climb, Rung
<1>4. parent.error = "none" /\ isLiveDirectory(parent, at) /\ hasName(parent)
  BY <1>3
<1>5. at.record # kRootRecordNumber /\ parent = readRecord(at.record)
  <2>1. Failed("root").error = "root"
    BY DEF Failed
  <2> QED
    BY <1>2, <1>4, <2>1
<1>6. p \in Ids /\ at.record = objects[p].slot /\ SlotOf(p) = objects[p].slot /\ p # Root
  BY <1>1, <1>5, ObjectIs DEF RefSound, SlotOf, Root, ReadSound
<1>7. PICK s : s = objects[p].slot
  OBVIOUS
<1>8. s \in UserSlots /\ s \in Nat
  BY <1>6, <1>7, ObjectIs, NumbersAre DEF ReadSound
<1>9. parent = readRecord(s)
  BY <1>5, <1>6, <1>7
<1>10. parent = parseMftRecord(Block(s), s)
  BY <1>4, <1>8, <1>9, ReadIs DEF ReadSound
<1>11. HolderShown(parent, s, HolderOf(s))
  BY <1>4, <1>8, <1>10, ViewSound DEF ReadSound
<1>12. Parsed(s) /\ Block(s)[1].head.sequence = at.sequence
  BY <1>4, <1>11 DEF HolderShown, isLiveDirectory
<1>13. HolderOf(s) = p
  BY <1>1, <1>6, <1>7, <1>12 DEF RefSound
<1>14. NameIs(preferredName(parent.names), p, objects[p].links[1])
  BY <1>4, <1>11, <1>13 DEF HolderShown
<1> QED
  BY <1>3, <1>4, <1>6, <1>7, <1>9, <1>14 DEF NameRead

(* The directories spell the chain below its top. *)
Spell(d, u) ==
  /\ d \in Seq(Int) /\ Len(d) + 1 = Len(u)
  /\ \A i \in 1..Len(d) : d[i] = u[i + 1] \/ d[i] = -u[i + 1]

Lost(ascent) == \E S : Closed(S) /\ \E p \in S : RefSound(ascent.stoppedAt, p)
OnTheWay(ascent, f) ==
  \E i \in 0..Len(objects) :
    /\ RefSound(ascent.stoppedAt, f[i][1]) /\ Spell(ascent.directories, f[i])
    /\ \A b \in 0..(i - 1) : f[b][1] # Root

LEMMA SpellOn ==
  ASSUME NEW d, NEW S, S \subseteq Nat, NEW u \in Seq(S), u # <<>>, Spell(d, u), NEW x \in Int, x = u[1] \/ x = -u[1],
         NEW q \in S, NEW e, e = <<x>> \o d, NEW w, w = <<q>> \o u
  PROVE  Spell(e, w)
<1>1. /\ d \in Seq(Int) /\ Len(d) + 1 = Len(u) /\ Len(d) \in Nat /\ Len(u) \in Nat
      /\ \A i \in 1..Len(d) : d[i] = u[i + 1] \/ d[i] = -u[i + 1]
  BY DEF Spell
<1>2. e \in Seq(Int) /\ Len(e) = Len(d) + 1 /\ e[1] = x /\ \A i \in 1..Len(d) : e[i + 1] = d[i]
  BY <1>1, InFront
<1>3. w \in Seq(S) /\ Len(w) = Len(u) + 1 /\ w[1] = q /\ \A i \in 1..Len(u) : w[i + 1] = u[i]
  BY InFront
<1>4. ASSUME NEW i \in 1..Len(e) PROVE e[i] = w[i + 1] \/ e[i] = -w[i + 1]
  <2>1. CASE i = 1
    <3>1. w[1 + 1] = u[1]
      BY <1>1, <1>3
    <3> QED
      BY <1>2, <2>1, <3>1
  <2>2. CASE i # 1
    <3>1. PICK j : j = i - 1
      OBVIOUS
    <3>2. j \in 1..Len(d) /\ i = j + 1 /\ j + 1 \in 1..Len(u)
      BY <1>1, <1>2, <2>2, <3>1
    <3>3. e[i] = d[j] /\ w[i + 1] = u[j + 1]
      BY <1>2, <1>3, <3>2
    <3> QED
      BY <1>1, <3>2, <3>3
  <2> QED
    BY <2>1, <2>2
<1> QED
  BY <1>1, <1>2, <1>3, <1>4 DEF Spell

LEMMA LostStep ==
  ASSUME ReadSound, NEW ascent, Lost(ascent)
  PROVE  Lost(climb(ascent))
<1>1. PICK S : Closed(S) /\ \E p \in S : RefSound(ascent.stoppedAt, p)
  BY DEF Lost
<1>2. PICK p \in S : RefSound(ascent.stoppedAt, p)
  BY <1>1
<1>3. CASE climb(ascent) = ascent
  BY <1>3
<1>4. CASE climb(ascent) # ascent
  <2>1. PICK name : name = NameRead(objects[p].slot)
    OBVIOUS
  <2>2. NameIs(name, p, objects[p].links[1]) /\ climb(ascent) = Rung(name, ascent)
    BY <1>2, <1>4, <2>1, ClimbIs
  <2>3. climb(ascent).stoppedAt = name.parent
    BY <2>2 DEF Rung
  <2>4. objects[p].links[1] \in S
    BY <1>1 DEF Closed
  <2>5. RefSound(climb(ascent).stoppedAt, objects[p].links[1])
    BY <2>2, <2>3 DEF NameIs
  <2> QED
    BY <1>1, <2>4, <2>5 DEF Lost
<1> QED
  BY <1>3, <1>4

LEMMA WayStep ==
  ASSUME ReadSound, NEW ascent, NEW f, NEW n, NEW k, Rises(f, n, k), OnTheWay(ascent, f)
  PROVE  OnTheWay(climb(ascent), f) \/ Lost(climb(ascent))
<1>1. PICK i \in 0..Len(objects) : /\ RefSound(ascent.stoppedAt, f[i][1]) /\ Spell(ascent.directories, f[i])
                                   /\ \A b \in 0..(i - 1) : f[b][1] # Root
  BY DEF OnTheWay
<1>2. CASE climb(ascent) = ascent
  BY <1>2
<1>3. CASE climb(ascent) # ascent
  <2>1. PICK p, name, u : p = f[i][1] /\ name = NameRead(objects[p].slot) /\ u = f[i]
    OBVIOUS
  <2>2. p \in Ids /\ NameIs(name, p, objects[p].links[1]) /\ climb(ascent) = Rung(name, ascent)
    BY <1>1, <1>3, <2>1, ClimbIs
  <2>3. PICK q, after : q = objects[p].links[1] /\ after = climb(ascent)
    OBVIOUS
  <2>4. after.stoppedAt = name.parent /\ after.directories = <<name.name>> \o ascent.directories
    BY <2>2, <2>3 DEF Rung
  <2>5. Len(objects) \in Nat /\ p # Root /\ p \in Nat /\ q \in Places /\ Places \subseteq Nat
    BY <2>2, <2>3, ObjectIs DEF Places, Root, ReadSound
  <2>6. RefSound(after.stoppedAt, q) /\ (name.name = p \/ name.name = -p) /\ name.name \in Int
    BY <2>2, <2>3, <2>4, <2>5 DEF NameIs
  <2>7. u \in Seq(Places) /\ u # <<>>
    BY <2>1 DEF Rises
  <2>8. CASE i < Len(objects)
    <3>1. i + 1 \in 1..Len(objects) /\ i + 1 \in 0..Len(objects) /\ (i + 1) - 1 = i
      BY <2>5, <2>8
    <3>2. PICK w, d, e, x : w = f[i + 1] /\ d = ascent.directories /\ e = after.directories /\ x = name.name
      OBVIOUS
    <3>3. w = <<q>> \o u
      BY <2>1, <2>3, <2>5, <3>1, <3>2 DEF Rises
    <3>4. w[1] = q
      BY <2>5, <2>7, <3>3, InFront
    <3>5. Spell(e, w)
      <4>1. Spell(d, u) /\ x \in Int /\ (x = u[1] \/ x = -u[1]) /\ e = <<x>> \o d
        BY <1>1, <2>1, <2>4, <2>6, <3>2
      <4> QED
        BY ONLY <2>5, <2>7, <3>3, <4>1, SpellOn
    <3>6. \A b \in 0..((i + 1) - 1) : f[b][1] # Root
      <4> SUFFICES ASSUME NEW b \in 0..i PROVE f[b][1] # Root
        BY <3>1
      <4>1. b = i \/ b \in 0..(i - 1)
        BY <2>5
      <4> QED
        BY <1>1, <2>1, <2>5, <4>1
    <3>7. OnTheWay(after, f)
      BY <2>6, <3>1, <3>2, <3>4, <3>5, <3>6 DEF OnTheWay
    <3> QED
      BY <2>3, <3>7
  <2>9. CASE i = Len(objects)
    <3>1. \A b \in 0..Len(objects) : f[b][1] # Root
      <4> SUFFICES ASSUME NEW b \in 0..Len(objects) PROVE f[b][1] # Root
        OBVIOUS
      <4>1. b = i \/ b \in 0..(i - 1)
        BY <2>5, <2>9
      <4> QED
        BY <1>1, <2>1, <2>5, <4>1
    <3>2. PICK S : Closed(S) /\ p \in S
      BY <2>1, <2>9, <3>1, GoesRound DEF ReadSound
    <3>3. q \in S
      BY <2>3, <3>2 DEF Closed
    <3> QED
      BY <2>3, <2>6, <3>2, <3>3 DEF Lost
  <2> QED
    BY <2>5, <2>8, <2>9
<1> QED
  BY <1>2, <1>3

AscentsAre(from, g) ==
  g = [n \in 0..kMaxPathDepth |-> IF n = 0 THEN [directories |-> <<>>, stoppedAt |-> from]
                                  ELSE LET below == g[n - 1] IN climb(below)]
Ascents(from) == CHOOSE g : AscentsAre(from, g)

LEMMA AscendIs ==
  ASSUME ReadSound, NEW from, NEW p \in Places, RefSound(from, p)
  PROVE  /\ ascend(from) = Ascents(from)[kMaxPathDepth]
         /\ Ascents(from)[0] = [directories |-> <<>>, stoppedAt |-> from]
         /\ \A j \in 1..kMaxPathDepth : Ascents(from)[j] = climb(Ascents(from)[j - 1])
<1> DEFINE K == kMaxPathDepth
           R == {from} \cup {NameRead(s).parent : s \in UserSlots}
           V == {a \in [directories : Seq(Int), stoppedAt : R] : \E q \in Places : RefSound(a.stoppedAt, q)}
           none == [directories |-> <<>>, stoppedAt |-> from]
           step == [j \in 1..K |-> [v \in V |-> climb(v)]]
<1>1. K \in Nat
  BY DepthAssumption
<1>2. none \in V
  OBVIOUS
<1>3. ASSUME NEW v \in V PROVE climb(v) \in V
  <2>1. CASE climb(v) = v
    BY <2>1
  <2>2. CASE climb(v) # v
    <3>1. PICK q \in Places : RefSound(v.stoppedAt, q)
      OBVIOUS
    <3>2. PICK name, up : name = NameRead(objects[q].slot) /\ up = objects[q].links[1]
      OBVIOUS
    <3>3. q \in Ids /\ NameIs(name, q, up) /\ climb(v) = Rung(name, v)
      BY <2>2, <3>1, <3>2, ClimbIs
    <3>4. objects[q].slot \in UserSlots /\ up \in Places /\ q \in Int
      BY <3>2, <3>3, ObjectIs DEF ReadSound, Places
    <3>5. name.parent \in R
      BY <3>2, <3>4
    <3>6. PICK x, d, e : x = name.name /\ d = v.directories /\ e = <<x>> \o d
      OBVIOUS
    <3>7. x \in Int /\ d \in Seq(Int) /\ RefSound(name.parent, up)
      BY <3>3, <3>4, <3>6 DEF NameIs
    <3>8. e \in Seq(Int)
      BY <3>6, <3>7, InFront
    <3>9. climb(v) = [directories |-> e, stoppedAt |-> name.parent]
      BY <3>3, <3>6 DEF Rung
    <3> HIDE DEF R
    <3> QED
      BY <3>4, <3>5, <3>7, <3>8, <3>9
  <2> QED
    BY <2>1, <2>2
<1>4. step \in [1..K -> [V -> V]]
  <2> HIDE DEF V
  <2> QED
    BY <1>3
<1>5. PICK g \in [0..K -> V] : g[0] = none /\ \A j \in 1..K : g[j] = step[j][g[j - 1]]
  <2>1. K \in Nat /\ none \in V
    BY <1>1, <1>2
  <2> HIDE DEF step, K, V, none
  <2>2. Recursive(V, none, K, step)
    BY ONLY <1>4, <2>1, HasRecursion
  <2> QED
    BY ONLY <2>2, Zenon DEF Recursive
<1>6. \A j \in 1..K : j - 1 \in 0..K /\ j \in 0..K /\ j # 0
  BY <1>1
<1> HIDE DEF V
<1>7. \A j \in 1..K : g[j] = climb(g[j - 1])
  BY <1>5, <1>6
<1>8. AscentsAre(from, g)
  <2>1. \A j \in 0..K : j = 0 \/ j \in 1..K
    BY <1>1
  <2> QED
    BY <1>5, <1>7, <2>1 DEF AscentsAre
<1>9. AscentsAre(from, Ascents(from))
  BY <1>8 DEF Ascents
<1>10. ascend(from) = Ascents(from)[K]
  BY Zenon DEF ascend, Ascents, AscentsAre
<1> DEFINE f == Ascents(from)
<1> HIDE DEF f
<1>11. f[0] = none /\ \A j \in 1..K : f[j] = climb(f[j - 1])
  <2>1. 0 \in 0..K
    BY <1>1
  <2> QED
    BY <1>6, <1>9, <2>1 DEF AscentsAre, f
<1> QED
  BY <1>10, <1>11 DEF f

(* An ascent that reaches the root has spelt the whole way. *)
LEMMA AscentSpells ==
  ASSUME ReadSound, NEW n \in Ids, NEW from, RefSound(from, objects[n].links[1]), NEW ascent, ascent = ascend(from),
         ascent.stoppedAt.record = kRootRecordNumber
  PROVE  Spell(ascent.directories, Up(n, 1)[Len(objects)])
<1>1. PICK g, f, K, p : g = Ascents(from) /\ f = Up(n, 1) /\ K = kMaxPathDepth /\ p = objects[n].links[1]
  OBVIOUS
<1>2. K \in Nat /\ p \in Places /\ 1 \in DOMAIN objects[n].links /\ Len(objects) \in Nat /\ Places \subseteq Nat
  <2>1. ObjectsInv /\ objects[n].links \in Seq(Nat) /\ Len(objects[n].links) > 0
    BY ObjectIs DEF ReadSound, ObjectsInv
  <2> QED
    BY <1>1, <2>1, ObjectIs, DepthAssumption DEF Places, Root
<1>3. /\ ascent = g[K] /\ g[0] = [directories |-> <<>>, stoppedAt |-> from]
      /\ \A j \in 1..K : g[j] = climb(g[j - 1])
  BY <1>1, <1>2, AscendIs
<1>4. Rises(f, n, 1)
  BY <1>1, <1>2, UpRises DEF ReadSound
<1> DEFINE S == {j \in Nat : j <= K => OnTheWay(g[j], f) \/ Lost(g[j])}
<1>5. 0 \in S
  <2>1. g[0].directories = <<>> /\ g[0].stoppedAt = from
    BY <1>3
  <2>2. f[0] = <<p>>
    BY <1>1, <1>4 DEF Rises
  <2>3. f[0][1] = p /\ Len(f[0]) = 1
    BY <2>2
  <2>4. Spell(g[0].directories, f[0])
    <3>1. <<>> \in Seq(Int) /\ Len(<<>>) = 0
      OBVIOUS
    <3> QED
      BY <2>1, <2>3, <3>1 DEF Spell
  <2>5. 0 \in 0..Len(objects) /\ \A b \in 0..(0 - 1) : FALSE
    BY <1>2
  <2>6. OnTheWay(g[0], f)
    BY <1>1, <2>1, <2>3, <2>4, <2>5 DEF OnTheWay
  <2> QED
    BY <2>6
<1>6. ASSUME NEW j \in S PROVE j + 1 \in S
  <2> SUFFICES ASSUME j + 1 <= K PROVE OnTheWay(g[j + 1], f) \/ Lost(g[j + 1])
    OBVIOUS
  <2>1. j + 1 \in 1..K /\ (j + 1) - 1 = j /\ (OnTheWay(g[j], f) \/ Lost(g[j]))
    BY <1>2
  <2>2. g[j + 1] = climb(g[j])
    BY <1>3, <2>1
  <2> QED
    BY <1>4, <2>1, <2>2, WayStep, LostStep
<1>7. S = Nat
  <2>1. S \in SUBSET Nat
    OBVIOUS
  <2> HIDE DEF S
  <2> QED
    BY <1>5, <1>6, <2>1, SetInduction
<1>8. OnTheWay(ascent, f) \/ Lost(ascent)
  BY <1>2, <1>3, <1>7
<1>9. ASSUME NEW q, RefSound(ascent.stoppedAt, q) PROVE q = Root
  <2>1. q \in Ids => objects[q].slot # kRootRecordNumber /\ q # Root
    BY ObjectIs, NumbersAre DEF ReadSound, Root
  <2> QED
    BY <1>9, <2>1 DEF RefSound, SlotOf
<1>10. ~Lost(ascent)
  <2>1. Root \notin Ids
    BY ObjectIs DEF ReadSound, Root
  <2> QED
    BY <1>9, <2>1 DEF Lost, Closed
<1>11. PICK i \in 0..Len(objects) : RefSound(ascent.stoppedAt, f[i][1]) /\ Spell(ascent.directories, f[i])
  BY <1>8, <1>10 DEF OnTheWay
<1>12. f[Len(objects)] = f[i]
  BY <1>4, <1>9, <1>11, RootStays DEF ReadSound
<1> QED
  BY <1>1, <1>11, <1>12

(* The path of an entry, without the signs of the aliases. *)
Spelled(path) == [k \in DOMAIN path |-> IF path[k] < 0 THEN -path[k] ELSE path[k]]

LEMMA SpelledIs ==
  ASSUME NEW d, NEW S, S \subseteq Nat, NEW u \in Seq(S), u # <<>>, Spell(d, u), NEW n \in Nat, NEW x, x = n \/ x = -n
  PROVE  Spelled(Append(d, x)) = Append(Tail(u), n)
<1>1. /\ d \in Seq(Int) /\ Len(d) + 1 = Len(u) /\ Len(d) \in Nat /\ Len(u) \in Nat
      /\ \A i \in 1..Len(d) : d[i] = u[i + 1] \/ d[i] = -u[i + 1]
  BY DEF Spell
<1>2. PICK t : t = Tail(u)
  OBVIOUS
<1>3. t \in Seq(S) /\ Len(t) = Len(d) /\ \A i \in 1..Len(t) : t[i] = u[i + 1] /\ u[i + 1] \in Nat
  <2>1. t \in Seq(S) /\ Len(t) = Len(u) - 1 /\ \A i \in 1..Len(t) : t[i] = u[i + 1]
    BY ONLY <1>2, u \in Seq(S), u # <<>>, HeadTailProperties
  <2>2. Len(t) = Len(d)
    BY <1>1, <2>1
  <2>3. ASSUME NEW i \in 1..Len(t) PROVE u[i + 1] \in Nat
    <3>1. i + 1 \in 1..Len(u)
      BY <1>1, <2>2
    <3>2. \A j \in 1..Len(u) : u[j] \in S
      BY ONLY u \in Seq(S)
    <3> QED
      BY <3>1, <3>2
  <2> QED
    BY <2>1, <2>2, <2>3
<1>4. PICK a, b : a = Append(d, x) /\ b = Append(t, n)
  OBVIOUS
<1>5. /\ a \in Seq(Int) /\ Len(a) = Len(d) + 1 /\ a[Len(d) + 1] = x /\ \A i \in 1..Len(d) : a[i] = d[i]
  BY <1>1, <1>4, AppendProperties
<1>6. /\ b \in Seq(Nat) /\ Len(b) = Len(d) + 1 /\ b[Len(d) + 1] = n /\ \A i \in 1..Len(d) : b[i] = t[i]
  <2>1. t \in Seq(Nat)
    BY <1>3
  <2> QED
    BY <1>3, <1>4, <2>1, AppendProperties
<1>7. PICK N : N = Len(d) + 1
  OBVIOUS
<1>8. N \in Nat /\ DOMAIN a = 1..N /\ DOMAIN b = 1..N
  BY <1>1, <1>5, <1>6, <1>7
<1>9. ASSUME NEW i \in 1..N PROVE (IF a[i] < 0 THEN -a[i] ELSE a[i]) = b[i]
  <2>1. CASE i = N
    BY <1>5, <1>6, <1>7, <2>1
  <2>2. CASE i # N
    <3>1. i \in 1..Len(d)
      BY <1>1, <1>7, <2>2
    <3>2. b[i] = u[i + 1] /\ b[i] \in Nat /\ (a[i] = u[i + 1] \/ a[i] = -u[i + 1])
      BY <1>1, <1>3, <1>5, <1>6, <3>1
    <3> QED
      BY <3>2
  <2> QED
    BY <2>1, <2>2
<1>10. b = [i \in 1..N |-> b[i]]
  BY <1>6, <1>8
<1>11. Spelled(a) = b
  BY <1>8, <1>9, <1>10 DEF Spelled
<1> QED
  BY <1>2, <1>4, <1>11

-----------------------------------------------------------------------------
(***************************************************************************)
(* The entries.                                                            *)
(***************************************************************************)

EntryOk(e, n) ==
  /\ n \in Ids
  /\ e.state # "orphaned" => Spelled(e.path) = PathsTo(n, 1)
  /\ e.grade = "valid" => objects[n].whole /\ HoldsContent(e, n)
  /\ e.extents # <<>> => HoldsContent(e, n)

LEMMA EntryPathIs ==
  ASSUME ReadSound, NEW view, hasName(view), NEW n \in Ids,
         NameIs(preferredName(view.names), n, objects[n].links[1]),
         NEW path, path = resolveEntryPath(view), path.reachedRoot
  PROVE  Spelled(path.path) = PathsTo(n, 1)
<1>1. PICK self, ascent : self = preferredName(view.names) /\ ascent = ascend(self.parent)
  OBVIOUS
<1>2. PICK b, spelt : b = (ascent.stoppedAt.record = kRootRecordNumber) /\ spelt = Append(ascent.directories, self.name)
  OBVIOUS
<1>3. /\ path.path = Append(ascent.directories, self.name)
      /\ ascent.stoppedAt.record = kRootRecordNumber
  <2>1. path = [path |-> spelt, reachedRoot |-> b]
    BY <1>1, <1>2, Zenon DEF resolveEntryPath
  <2>2. path.path = spelt /\ path.reachedRoot = b
    BY ONLY <2>1
  <2> QED
    BY <1>2, <2>2
<1>4. (self.name = n \/ self.name = -n) /\ RefSound(self.parent, objects[n].links[1])
  BY <1>1 DEF NameIs
<1>5. PICK d, u, x : d = ascent.directories /\ u = Up(n, 1)[Len(objects)] /\ x = self.name
  OBVIOUS
<1>6. Spell(d, u)
  BY <1>1, <1>3, <1>4, <1>5, AscentSpells
<1>7. ObjectsInv /\ Places \subseteq Nat /\ n \in Nat /\ 1 \in DOMAIN objects[n].links /\ Len(objects) \in 0..Len(objects)
  <2>1. ObjectsInv /\ objects[n].links \in Seq(Nat) /\ Len(objects[n].links) > 0
    BY ObjectIs DEF ReadSound, ObjectsInv
  <2> QED
    BY <2>1, ObjectIs DEF Places, Root
<1>8. u \in Seq(Places) /\ u # <<>>
  BY <1>5, <1>7, UpRises DEF Rises
<1>9. Spelled(Append(d, x)) = Append(Tail(u), n)
  <2>1. x = n \/ x = -n
    BY <1>4, <1>5
  <2> QED
    BY ONLY <1>6, <1>7, <1>8, <2>1, SpelledIs
<1> QED
  BY <1>3, <1>5, <1>9, PathIs

ContentOk(view, n, content, e) ==
  /\ content.located => HoldsContent(e, n)
  /\ e.extents # <<>> => content.located
  /\ view.grade = "valid" /\ content.located => objects[n].whole

LEMMA ContentIs ==
  ASSUME NEW view, NEW n \in Ids, DataIs(view, objects[n], n), objects[n].resident \in BOOLEAN, NEW content, content = contentOf(view),
         NEW e, e.extents = content.extents, e.resident = content.resident
  PROVE  ContentOk(view, n, content, e)
<1>1. PICK a, o : a = view.data[1] /\ o = objects[n]
  OBVIOUS
<1>2. PICK placed : placed = runlistExtents(a.runs, a.size)
  OBVIOUS
<1>3. /\ a.content = n /\ a.size = o.size /\ a.resident = o.resident
      /\ ~a.resident => /\ Located(a) \in BOOLEAN
                        /\ Located(a) => BytesOf(placed.extents) = DeviceBytes(o)
      /\ view.grade = "valid" => o.whole \/ (~a.resident /\ ~Located(a))
  BY <1>1, <1>2 DEF DataIs, StreamOf
<1>4. CASE a.resident
  <2>1. content = [located |-> TRUE, extents |-> <<>>, resident |-> a.content]
    BY <1>1, <1>4 DEF contentOf
  <2>2. content.located = TRUE /\ content.extents = <<>> /\ content.resident = n
    BY <1>3, <2>1
  <2> QED
    BY <1>1, <1>3, <1>4, <2>2 DEF HoldsContent, ContentOk
<1>5. CASE ~a.resident
  <2>1. content = [located |-> placed.located, extents |-> placed.extents, resident |-> Root]
    BY <1>1, <1>2, <1>5 DEF contentOf
  <2>2. content.located = placed.located /\ content.extents = placed.extents /\ Located(a) = placed.located
    BY <1>2, <2>1 DEF Located
  <2>3. placed.extents # <<>> => placed.located
    BY <1>2 DEF runlistExtents
  <2> QED
    BY <1>1, <1>3, <1>5, <2>2, <2>3 DEF HoldsContent, ContentOk
<1> QED
  BY <1>1, <1>3, <1>4, <1>5

LEMMA EntryIs ==
  ASSUME ReadSound, NEW s \in UserSlots, NEW view, view = readRecord(s), view.error = "none", isRecoverableFile(view),
         NEW e, e = entryFromRecord(view, resolveEntryPath(view))
  PROVE  EntryOk(e, e.from) /\ e.from = HolderOf(s) /\ objects[e.from].slot = s
<1>1. hasName(view) /\ view.data # <<>> /\ s \in Nat
  BY NumbersAre DEF isRecoverableFile
<1>2. view = parseMftRecord(Block(s), s)
  BY <1>1, ReadIs DEF ReadSound
<1>3. PICK n : n = HolderOf(s)
  OBVIOUS
<1>4. HolderShown(view, s, n)
  BY <1>1, <1>2, <1>3, ViewSound DEF ReadSound
<1>5. /\ n \in Ids /\ view.number = s /\ NameIs(preferredName(view.names), n, objects[n].links[1])
      /\ DataIs(view, objects[n], n)
  BY <1>1, <1>4 DEF HolderShown
<1>6. PICK path, content : path = resolveEntryPath(view) /\ content = contentOf(view)
  OBVIOUS
<1>7. /\ e.path = path.path /\ e.extents = content.extents /\ e.resident = content.resident
      /\ e.state = stateOf(view, path) /\ e.grade = gradeOf(view, path, content.located)
      /\ e.from = HolderOf(view.number)
  BY <1>6 DEF entryFromRecord
<1>8. e.from = n
  BY <1>3, <1>5, <1>7
<1>9. objects[n].slot = s /\ objects[n].resident \in BOOLEAN
  <2>1. n # Root
    BY <1>5, ObjectIs DEF ReadSound, Root
  <2> QED
    BY <1>3, <1>5, <2>1, HolderFacts, ObjectIs DEF ReadSound
<1>10. e.state # "orphaned" => Spelled(e.path) = PathsTo(n, 1)
  <2>1. e.state # "orphaned" => path.reachedRoot
    BY <1>7 DEF stateOf
  <2> QED
    BY <1>1, <1>5, <1>6, <1>7, <2>1, EntryPathIs
<1>11. /\ content.located => HoldsContent(e, n)
       /\ e.extents # <<>> => content.located
       /\ view.grade = "valid" /\ content.located => objects[n].whole
  <2>1. ContentOk(view, n, content, e)
    BY ONLY <1>5, <1>6, <1>7, <1>9, ContentIs
  <2> QED
    BY <2>1 DEF ContentOk
<1>12. e.grade = "valid" => view.grade = "valid" /\ content.located
  BY <1>7 DEF gradeOf
<1> QED
  BY <1>3, <1>5, <1>8, <1>9, <1>10, <1>11, <1>12 DEF EntryOk

-----------------------------------------------------------------------------
(***************************************************************************)
(* The walk.                                                               *)
(***************************************************************************)

EntriesInv ==
  /\ IsSeq(reported)
  /\ \A i \in DOMAIN reported : /\ EntryOk(reported[i], reported[i].from)
                                /\ objects[reported[i].from].slot < number
  /\ \A i, j \in DOMAIN reported : reported[i].from = reported[j].from => i = j

WalkInv ==
  /\ VolumeInv
  /\ number \in Nat /\ number >= kFirstUserRecord
  /\ phase = "host" => reported = <<>>
  /\ phase = "walk" => Tabled
  /\ EntriesInv

LEMMA VolumeSound ==
  ASSUME VolumeInv
  PROVE  VolumeType /\ ObjectsInv /\ ZeroInv /\ SoundInv
BY ExactSound DEF VolumeInv

LEMMA EntryStays ==
  ASSUME UNCHANGED volumeVars
  PROVE  \A e, n : EntryOk(e, n) => EntryOk(e, n)'
<1>1. objects' = objects
  BY DEF volumeVars
<1>2. \A n, k : PathsTo(n, k)' = PathsTo(n, k)
  BY ONLY <1>1, ZenonT(90) DEF PathsTo
<1>3. \A e, n : HoldsContent(e, n) => HoldsContent(e, n)'
  BY <1>1 DEF HoldsContent
<1>4. Ids' = Ids
  BY <1>1 DEF Ids
<1> QED
  BY <1>1, <1>2, <1>3, <1>4 DEF EntryOk

LEMMA VolumeKept ==
  ASSUME VolumeInv, UNCHANGED volumeVars
  PROVE  VolumeInv'
<1>1. /\ disk' = disk /\ objects' = objects /\ layout' = layout /\ habit' = habit /\ running' = running
      /\ unreadable' = unreadable
  BY DEF volumeVars
<1>2. VolumeType /\ ObjectsInv /\ ZeroInv
  BY DEF VolumeInv
<1>3. \A s : Block(s)' = Block(s)
  BY <1>1 DEF Block, SlotClusters
<1>4. Ids' = Ids /\ LiveIds' = LiveIds
  BY <1>1 DEF Ids, LiveIds
<1>5. ObjectsInv'
  BY <1>1, <1>2, <1>4 DEF ObjectsInv
<1>6. VolumeType'
  BY <1>1, <1>2 DEF VolumeType
<1>7. ZeroInv'
  BY <1>1, <1>2, <1>3, ZeroAfter
<1>8. Changed({})
  BY <1>1, <1>2, <1>3, <1>4, <1>5, <1>6 DEF Changed
<1>9. running => Exact'
  <2>1. ASSUME running PROVE Exact /\ unreadable' = {} /\ \A n \in Ids' : objects'[n].whole
    BY <1>1, <1>4, <2>1 DEF VolumeInv, Exact
  <2>2. ASSUME NEW n \in LiveIds' PROVE objects'[n].slot \notin {}
    OBVIOUS
  <2> QED
    BY <1>8, <2>1, <2>2, ExactAfter
<1>10. ~running => SoundInv'
  <2>1. ASSUME ~running PROVE SoundInv
    BY <2>1 DEF VolumeInv
  <2>2. \A ref : \A p : RefSound(ref, p) => RefSound(ref, p)'
    BY <1>8, ChangedRefSound
  <2>3. ASSUME ~running PROVE \A s \in UserSlots \ {} : Sound(s)'
    BY <1>8, <2>1, <2>2, <2>3, ChangedSound
  <2> QED
    BY <2>3 DEF SoundInv
<1> QED
  BY <1>1, <1>5, <1>6, <1>7, <1>9, <1>10 DEF VolumeInv

LEMMA EntryAdded ==
  ASSUME WalkInv, phase = "walk", stepRecord, reported' # reported
  PROVE  \E e : /\ reported' = Append(reported, e) /\ EntryOk(e, e.from) /\ objects[e.from].slot = number
<1>1. PICK view, e : view = readRecord(number) /\ e = entryFromRecord(view, resolveEntryPath(view))
  OBVIOUS
<1>2. ReadSound /\ number \in Nat /\ number >= kFirstUserRecord
  BY VolumeSound DEF WalkInv, ReadSound
<1>3. number \in UserSlots
  BY <1>2, NumbersAre DEF stepRecord, UserSlots, ReadSound, Tabled
<1>4. reported' = IF view.error = "none" THEN reportRecord(view) ELSE reported
  BY <1>1 DEF stepRecord
<1>5. view.error = "none" /\ isRecoverableFile(view) /\ reported' = Append(reported, e)
  BY <1>1, <1>4 DEF reportRecord
<1>6. EntryOk(e, e.from) /\ objects[e.from].slot = number
  BY <1>1, <1>2, <1>3, <1>5, EntryIs
<1> QED
  BY <1>5, <1>6

LEMMA StepWalk ==
  ASSUME WalkInv, stepRecord
  PROVE  WalkInv'
<1>1. phase = "walk" /\ number' = number + 1 /\ UNCHANGED volumeVars /\ table' = table /\ phase' # "host"
  BY DEF stepRecord
<1>2. number \in Nat /\ number >= kFirstUserRecord /\ VolumeInv /\ Tabled /\ EntriesInv /\ number' \in Nat
      /\ number' >= kFirstUserRecord
  BY <1>1, NumbersAre DEF WalkInv
<1>3. VolumeInv'
  BY <1>1, <1>2, VolumeKept
<1>4. layout' = layout /\ objects' = objects
  BY <1>1 DEF volumeVars
<1>5. Tabled'
  BY <1>1, <1>2, <1>4 DEF Tabled
<1>6. \A e, n : EntryOk(e, n) => EntryOk(e, n)'
  BY <1>1, EntryStays
<1>7. ASSUME NEW e, EntryOk(e, e.from) PROVE objects[e.from].slot \in Nat
  BY <1>2, <1>7, ObjectIs, NumbersAre DEF EntryOk, VolumeInv
<1>8. PICK old, len : old = reported /\ len = Len(reported)
  OBVIOUS
<1>9. /\ IsSeq(old) /\ len \in Nat /\ DOMAIN old = 1..len
      /\ \A i \in 1..len : EntryOk(old[i], old[i].from) /\ objects[old[i].from].slot < number
      /\ \A i, j \in 1..len : old[i].from = old[j].from => i = j
  BY <1>2, <1>8, SeqIs DEF EntriesInv
<1>10. ASSUME NEW e, EntryOk(e, e.from), objects[e.from].slot < number
       PROVE  EntryOk(e, e.from)' /\ (objects[e.from].slot < number)'
  <2>1. objects[e.from].slot < number + 1
    BY <1>2, <1>7, <1>10
  <2> QED
    BY <1>1, <1>4, <1>6, <1>10, <2>1
<1>11. CASE reported' = reported
  <2>1. \A i \in 1..len : EntryOk(old[i], old[i].from)' /\ (objects[old[i].from].slot < number)'
    BY <1>9, <1>10
  <2> QED
    BY <1>1, <1>2, <1>3, <1>5, <1>8, <1>9, <1>11, <2>1 DEF WalkInv, EntriesInv
<1>12. CASE reported' # reported
  <2>1. PICK e : reported' = Append(reported, e) /\ EntryOk(e, e.from) /\ objects[e.from].slot = number
    BY <1>1, <1>12, EntryAdded
  <2>2. PICK new : new = reported'
    OBVIOUS
  <2>3. /\ IsSeq(new) /\ DOMAIN new = 1..(len + 1) /\ new[len + 1] = e
        /\ \A i \in 1..len : new[i] = old[i]
    <3>1. new = Append(old, e)
      BY <1>8, <2>1, <2>2
    <3>2. PICK S : S = Range(old) \cup {e}
      OBVIOUS
    <3>3. old \in Seq(S)
      <4>1. old \in Seq(Range(old))
        BY <1>9 DEF IsSeq
      <4> QED
        BY <3>2, <4>1
    <3>4. e \in S /\ Len(old) = len
      BY <1>8, <3>2
    <3>5. new \in Seq(S) /\ Len(new) = len + 1 /\ new[len + 1] = e /\ \A i \in 1..len : new[i] = old[i]
      BY ONLY <3>1, <3>3, <3>4, AppendProperties
    <3> QED
      BY <1>9, <3>5, IsSeqIf
  <2>4. EntryOk(e, e.from)' /\ (objects[e.from].slot < number)'
    <3>1. objects[e.from].slot < number + 1
      BY <1>2, <2>1
    <3> QED
      BY <1>1, <1>4, <1>6, <2>1, <3>1
  <2>5. \A i \in 1..len : EntryOk(old[i], old[i].from)' /\ (objects[old[i].from].slot < number)'
    BY <1>9, <1>10
  <2>6. \A i \in 1..(len + 1) : i \in 1..len \/ i = len + 1
    BY <1>9
  <2>7. \A i \in 1..(len + 1) : EntryOk(new[i], new[i].from)' /\ (objects[new[i].from].slot < number)'
    BY <2>3, <2>4, <2>5, <2>6
  <2>8. \A i \in 1..len : old[i].from # e.from
    BY <1>2, <1>9, <2>1
  <2>9. \A i, j \in 1..(len + 1) : new[i].from = new[j].from => i = j
    BY <1>9, <2>3, <2>6, <2>8
  <2> QED
    BY <1>1, <1>2, <1>3, <1>5, <2>2, <2>3, <2>7, <2>9 DEF WalkInv, EntriesInv
<1> QED
  BY <1>11, <1>12

LEMMA EmptyIs == IsSeq(<<>>) /\ DOMAIN <<>> = {}
<1>1. <<>> \in Seq({})
  OBVIOUS
<1>2. IsSeq(<<>>)
  BY <1>1, IsSeqIf
<1>3. DOMAIN <<>> = 1..0
  BY <1>1
<1> QED
  BY <1>2, <1>3

LEMMA InitWalk ==
  ASSUME Init
  PROVE  WalkInv
<1>1. VolumeInv /\ reported = <<>> /\ phase = "host" /\ number = kFirstUserRecord
  BY InitStep DEF Init
<1>2. IsSeq(reported) /\ DOMAIN reported = {}
  BY <1>1, EmptyIs
<1>3. EntriesInv
  BY <1>2 DEF EntriesInv
<1> QED
  BY <1>1, <1>3, NumbersAre DEF WalkInv

LEMMA NothingYet ==
  ASSUME reported' = <<>>
  PROVE  EntriesInv'
<1>1. IsSeq(reported') /\ DOMAIN (reported') = {}
  BY EmptyIs
<1> QED
  BY <1>1 DEF EntriesInv, IsSeq

LEMMA HostWalk ==
  ASSUME WalkInv, Host
  PROVE  WalkInv'
<1>1. phase = "host" /\ phase' = "host" /\ number' = number /\ reported' = <<>>
  BY DEF WalkInv, Host
<1>2. VolumeInv'
  BY VolumeStep DEF WalkInv, Host, Carried
<1> QED
  BY <1>1, <1>2, NothingYet DEF WalkInv

LEMMA OpenWalk ==
  ASSUME WalkInv, openTable
  PROVE  WalkInv'
<1>1. phase' # "host" /\ UNCHANGED volumeVars /\ number' = number /\ reported' = <<>>
  BY DEF WalkInv, openTable
<1>2. VolumeInv'
  BY <1>1, VolumeKept DEF WalkInv
<1>3. phase' = "walk" => Tabled'
  BY OpenStep DEF WalkInv, VolumeInv
<1> QED
  BY <1>1, <1>2, <1>3, NothingYet DEF WalkInv

LEMMA StillWalk ==
  ASSUME WalkInv, UNCHANGED vars
  PROVE  WalkInv'
<1>1. /\ UNCHANGED volumeVars /\ phase' = phase /\ number' = number /\ table' = table /\ reported' = reported
  BY DEF vars
<1>2. VolumeInv'
  BY <1>1, VolumeKept DEF WalkInv
<1>3. layout' = layout /\ objects' = objects
  BY <1>1 DEF volumeVars
<1>4. phase = "walk" => Tabled'
  BY <1>1, <1>3 DEF WalkInv, Tabled
<1>5. \A e, n : EntryOk(e, n) => EntryOk(e, n)'
  BY <1>1, EntryStays
<1>6. PICK old : old = reported
  OBVIOUS
<1>7. /\ IsSeq(old)
      /\ \A i \in DOMAIN old : EntryOk(old[i], old[i].from)' /\ objects[old[i].from].slot < number
      /\ \A i, j \in DOMAIN old : old[i].from = old[j].from => i = j
  BY <1>5, <1>6 DEF WalkInv, EntriesInv
<1>8. EntriesInv'
  BY <1>1, <1>3, <1>6, <1>7 DEF EntriesInv
<1> QED
  BY <1>1, <1>2, <1>4, <1>8 DEF WalkInv

(* Whatever the host did to the volume, finished or cut short, and wherever the walk over
   the table stands: an intact volume's records are exactly its objects', a torn one's
   parse only when they are sound, and every reported entry is one object's, at its place
   and with its content, no object twice.  MftTable.cpp, MftRecord.cpp, EntryEnumeration.cpp. *)
THEOREM WalkInvHolds == Spec => []WalkInv
<1>1. Init => WalkInv
  BY InitWalk
<1>2. WalkInv /\ [Next]_vars => WalkInv'
  BY HostWalk, OpenWalk, StepWalk, StillWalk DEF Next
<1> QED
  BY <1>1, <1>2, PTL DEF Spec

(* The path of an entry that is not called an orphan is one its file really had: no
   directory in it is a later user of the slot.  EntryPath.cpp compares the sequence
   number of every reference with the record's own. *)
THEOREM PathIsItsOwnHolds == Spec => []PathIsItsOwn
<1>1. WalkInv => PathIsItsOwn
  <2> SUFFICES ASSUME WalkInv, NEW i \in DOMAIN reported, reported[i].state # "orphaned"
               PROVE  Spelled(reported[i].path) \in PathsOf(reported[i].from)
    BY DEF PathIsItsOwn, Spelled
  <2>1. PICK n : n = reported[i].from
    OBVIOUS
  <2>2. n \in Ids /\ Spelled(reported[i].path) = PathsTo(n, 1)
    BY <2>1 DEF WalkInv, EntriesInv, EntryOk
  <2>3. 1 \in DOMAIN objects[n].links
    <3>1. objects[n].links \in Seq(Nat) /\ Len(objects[n].links) > 0
      BY <2>2, ObjectIs DEF WalkInv, VolumeInv, ObjectsInv
    <3> QED
      BY <3>1
  <2> QED
    BY <2>1, <2>2, <2>3 DEF PathsOf
<1> QED
  BY <1>1, WalkInvHolds, PTL

(* An entry graded valid is a file whose record was written whole, and its extents are all
   of that file's bytes in order; extents are never part of a file's; no file is reported
   twice.  EntryFromRecord.cpp, MftRecordFixup.cpp, RunlistExtents.cpp. *)
THEOREM ValidIsWholeHolds == Spec => []ValidIsWhole
<1>1. WalkInv => ValidIsWhole
  BY DEF WalkInv, EntriesInv, EntryOk, ValidIsWhole
<1> QED
  BY <1>1, WalkInvHolds, PTL

-----------------------------------------------------------------------------
(***************************************************************************)
(* The tree the host keeps.                                                *)
(***************************************************************************)

(* Live objects lie in directories, and nothing live lies in itself. *)
TreeInv ==
  /\ \A n \in LiveIds : objects[n].links[1] \in Ids => objects[objects[n].links[1]].dir
  /\ \A S : Closed(S) /\ S \subseteq LiveIds => S = {}

(* The places from n's parent up to the root, and the path they spell. *)
Way(n, r, c) ==
  /\ r \in 0..Len(objects) /\ c[0] = objects[n].links[1] /\ c[r] = Root
  /\ \A i \in 0..(r - 1) : c[i] \in LiveIds /\ c[i + 1] = objects[c[i]].links[1]

PathSpells(n, r, c, path) ==
  /\ path \in Seq(Nat) /\ Len(path) = r + 1 /\ path[r + 1] = n
  /\ \A i \in 0..(r - 1) : path[r - i] = c[i]

LEMMA LiveLinks ==
  ASSUME ObjectsInv, NEW n \in LiveIds
  PROVE  /\ n \in Ids /\ n # Root /\ objects[n].links[1] \in {Root} \cup LiveIds
         /\ 1 \in DOMAIN objects[n].links
<1>1. n \in Ids /\ objects[n].live
  BY DEF LiveIds
<1>2. objects[n].links \in Seq(Nat) /\ Len(objects[n].links) > 0 /\ LinksLead(objects[n], LiveIds)
  BY <1>1, ObjectIs DEF ObjectsInv
<1>3. 1 \in DOMAIN objects[n].links
  BY <1>2
<1>4. n # Root
  BY <1>1, ObjectIs DEF Root
<1> QED
  BY <1>1, <1>2, <1>3, <1>4 DEF LinksLead

(* The chain of a live object stays among the live ones and comes to the root. *)
LEMMA ChainLives ==
  ASSUME ObjectsInv, NEW n \in LiveIds, NEW f, Rises(f, n, 1)
  PROVE  /\ \A i \in 0..Len(objects) : f[i][1] \in {Root} \cup LiveIds
         /\ \A i \in 1..Len(objects) : f[i - 1][1] # Root =>
              f[i][1] = objects[f[i - 1][1]].links[1] /\ Len(f[i]) = Len(f[i - 1]) + 1
              /\ \A j \in 1..Len(f[i - 1]) : f[i][j + 1] = f[i - 1][j]
<1> DEFINE N == Len(objects)
           S == {i \in Nat : i <= N => f[i][1] \in {Root} \cup LiveIds}
<1>1. N \in Nat
  BY ObjectIs
<1>2. ASSUME NEW i \in 1..N, f[i - 1][1] # Root
      PROVE  /\ f[i][1] = objects[f[i - 1][1]].links[1] /\ Len(f[i]) = Len(f[i - 1]) + 1
             /\ \A j \in 1..Len(f[i - 1]) : f[i][j + 1] = f[i - 1][j]
  <2>1. i - 1 \in 0..N
    BY <1>1
  <2>2. PICK q, r, u : u = f[i - 1] /\ q = objects[u[1]].links[1] /\ r = <<q>> \o u
    OBVIOUS
  <2>3. f[i] = r /\ u \in Seq(Places)
    <3>1. f[i] = <<objects[f[i - 1][1]].links[1]>> \o f[i - 1]
      BY <1>2 DEF Rises
    <3>2. f[i - 1] \in Seq(Places)
      BY <2>1 DEF Rises
    <3> QED
      BY ONLY <2>2, <3>1, <3>2
  <2>4. u[1] \in Ids
    BY <1>2, <2>1, <2>2 DEF Rises, Places
  <2>5. q \in Places
    BY <2>2, <2>4, ObjectIs DEF Places
  <2>6. r[1] = q /\ Len(r) = Len(u) + 1 /\ \A j \in 1..Len(u) : r[j + 1] = u[j]
    BY ONLY <2>2, <2>3, <2>5, InFront
  <2> QED
    BY <2>2, <2>3, <2>6
<1>3. 0 \in S
  BY LiveLinks DEF Rises
<1>4. ASSUME NEW i \in S PROVE i + 1 \in S
  <2> SUFFICES ASSUME i + 1 <= N PROVE f[i + 1][1] \in {Root} \cup LiveIds
    OBVIOUS
  <2>1. i + 1 \in 1..N /\ (i + 1) - 1 = i /\ f[i][1] \in {Root} \cup LiveIds
    BY <1>1
  <2>2. CASE f[i][1] = Root
    BY <2>1, <2>2 DEF Rises
  <2>3. CASE f[i][1] # Root
    BY <1>2, <2>1, <2>3, LiveLinks
  <2> QED
    BY <2>2, <2>3
<1>5. S = Nat
  <2>1. S \in SUBSET Nat
    OBVIOUS
  <2> HIDE DEF S
  <2> QED
    BY <1>3, <1>4, <2>1, SetInduction
<1> QED
  BY <1>1, <1>2, <1>5

LEMMA WayEnds ==
  ASSUME ObjectsInv, TreeInv, NEW n \in LiveIds, NEW f, Rises(f, n, 1)
  PROVE  \E r \in 0..Len(objects) : f[r][1] = Root /\ \A i \in 0..(r - 1) : f[i][1] # Root
<1> DEFINE N == Len(objects)
           B == {b \in 0..N : f[b][1] = Root}
<1>1. N \in Nat
  BY ObjectIs
<1>2. B # {}
  <2> SUFFICES ASSUME \A b \in 0..N : f[b][1] # Root PROVE FALSE
    OBVIOUS
  <2>1. PICK S : Closed(S) /\ f[N][1] \in S
    BY GoesRound
  <2>2. f[N][1] \in LiveIds
    BY <1>1, ChainLives
  <2> DEFINE L == S \cap LiveIds
  <2>3. ASSUME NEW m \in L PROVE objects[m].links[1] \in L
    <3>1. objects[m].links[1] \in S /\ objects[m].links[1] # Root
      BY <2>1, ObjectIs DEF Closed, Root
    <3> QED
      BY <3>1, LiveLinks
  <2>4. Closed(L) /\ L \subseteq LiveIds
    BY <2>1, <2>3 DEF Closed
  <2> HIDE DEF L
  <2>5. L = {}
    BY <2>4 DEF TreeInv
  <2> QED
    BY <2>1, <2>2, <2>5 DEF L
<1>3. B \in SUBSET Nat
  BY <1>1
<1> HIDE DEF B
<1>4. PICK r \in B : \A y \in B : r <= y
  BY <1>2, <1>3, LeastMember
<1>5. r \in 0..N /\ f[r][1] = Root
  BY <1>4 DEF B
<1>6. ASSUME NEW i \in 0..(r - 1) PROVE f[i][1] # Root
  <2>1. i \in 0..N /\ ~(r <= i)
    BY <1>1, <1>5
  <2> QED
    BY <1>4, <2>1 DEF B
<1> QED
  BY <1>5, <1>6

(* What the chain has passed, from the place it is at down. *)
LEMMA ChainHolds ==
  ASSUME ObjectsInv, NEW n \in LiveIds, NEW f, Rises(f, n, 1), NEW r \in 0..Len(objects),
         \A i \in 0..(r - 1) : f[i][1] # Root
  PROVE  f[r] \in Seq(Places) /\ Len(f[r]) = r + 1 /\ \A k \in 0..r : f[r][r + 1 - k] = f[k][1]
<1> DEFINE N == Len(objects)
           Good(i) == Len(f[i]) = i + 1 /\ \A k \in 0..i : f[i][i + 1 - k] = f[k][1]
           S == {i \in Nat : i <= r => Good(i)}
<1>1. N \in Nat /\ r \in Nat /\ r <= N
  BY ObjectIs
<1>2. 0 \in S
  <2>1. f[0] = <<objects[n].links[1]>>
    BY DEF Rises
  <2>2. Len(f[0]) = 1
    BY <2>1
  <2>3. \A k \in 0..0 : f[0][0 + 1 - k] = f[k][1]
    OBVIOUS
  <2> QED
    BY <2>2, <2>3
<1>3. ASSUME NEW i \in S PROVE i + 1 \in S
  <2> SUFFICES ASSUME i + 1 <= r PROVE Good(i + 1)
    OBVIOUS
  <2>1. Good(i) /\ i + 1 \in 1..N /\ (i + 1) - 1 = i /\ i \in 0..(r - 1) /\ i \in Nat
    BY <1>1
  <2>2. f[i][1] # Root
    BY <2>1
  <2>3. /\ Len(f[i + 1]) = Len(f[i]) + 1
        /\ \A j \in 1..Len(f[i]) : f[i + 1][j + 1] = f[i][j]
    BY <2>1, <2>2, ChainLives
  <2>4. ASSUME NEW k \in 0..(i + 1) PROVE f[i + 1][(i + 1) + 1 - k] = f[k][1]
    <3>1. CASE k = i + 1
      <4>1. (i + 1) + 1 - k = 1
        BY <2>1, <3>1
      <4> QED
        BY <3>1, <4>1
    <3>2. CASE k # i + 1
      <4>1. PICK j : j = i + 1 - k
        OBVIOUS
      <4>2. k \in 0..i /\ j \in 1..Len(f[i]) /\ (i + 1) + 1 - k = j + 1
        BY <2>1, <3>2, <4>1
      <4>3. f[i][j] = f[k][1]
        BY <2>1, <4>1, <4>2
      <4> QED
        BY <2>3, <4>2, <4>3
    <3> QED
      BY <3>1, <3>2
  <2> QED
    BY <2>1, <2>3, <2>4
<1>4. S = Nat
  <2>1. S \in SUBSET Nat
    OBVIOUS
  <2> HIDE DEF S
  <2> QED
    BY <1>2, <1>3, <2>1, SetInduction
<1>5. f[r] \in Seq(Places)
  BY DEF Rises
<1>6. Good(r)
  <2>1. r \in S
    BY <1>1, <1>4
  <2> HIDE DEF Good
  <2> QED
    BY <1>1, <2>1
<1> QED
  BY <1>5, <1>6

PathFrom(path, r, n, u) ==
  path \in Seq(Nat) /\ Len(path) = r + 1 /\ path[r + 1] = n /\ \A i \in 1..r : path[i] = u[i + 1]

LEMMA PathMade ==
  ASSUME NEW P, P \subseteq Nat, NEW u \in Seq(P), NEW r \in Nat, Len(u) = r + 1, NEW n \in Nat, NEW path,
         path = Append(Tail(u), n)
  PROVE  PathFrom(path, r, n, u)
<1>1. PICK t : t = Tail(u)
  OBVIOUS
<1>2. u \in Seq(Nat) /\ u # <<>>
  <2>1. \A i \in 1..Len(u) : u[i] \in P
    BY ElementOfSeq
  <2>2. IsSeq(u) /\ \A i \in 1..Len(u) : u[i] \in Nat
    BY <2>1, IsSeqIf
  <2> QED
    BY <2>2, SeqIs
<1>3. t \in Seq(Nat) /\ Len(t) = r /\ \A i \in 1..r : t[i] = u[i + 1]
  BY <1>1, <1>2
<1>4. path \in Seq(Nat) /\ Len(path) = r + 1 /\ path[r + 1] = n /\ \A i \in 1..r : path[i] = t[i]
  BY <1>1, <1>3
<1> QED
  BY <1>3, <1>4 DEF PathFrom

LEMMA WayExists ==
  ASSUME ObjectsInv, TreeInv, NEW n \in LiveIds
  PROVE  \E r, c : Way(n, r, c) /\ PathSpells(n, r, c, PathsTo(n, 1))
<1>1. PICK f, N, path : f = Up(n, 1) /\ N = Len(objects) /\ path = PathsTo(n, 1)
  OBVIOUS
<1>2. Rises(f, n, 1)
  BY <1>1, LiveLinks, UpRises
<1>3. PICK r \in 0..N : f[r][1] = Root /\ \A i \in 0..(r - 1) : f[i][1] # Root
  BY <1>1, <1>2, WayEnds
<1>4. PICK c : c = [i \in 0..r |-> f[i][1]]
  OBVIOUS
<1>5. N \in Nat /\ Ids = 1..N /\ r \in Nat /\ r <= N
  BY <1>1, <1>3, ObjectIs
<1>6. PICK u : u = f[r]
  OBVIOUS
<1>7. u \in Seq(Places) /\ Len(u) = r + 1 /\ \A k \in 0..r : u[r + 1 - k] = f[k][1]
  BY ZenonT(90), <1>1, <1>2, <1>3, <1>6, ChainHolds
<1>8. f[N] = u
  BY <1>1, <1>2, <1>3, <1>6, RootStays
<1>9. path = Append(Tail(u), n)
  BY <1>1, <1>8, PathIs
<1>10. Places \subseteq Nat /\ n \in Nat
  BY <1>5 DEF Places, Root, LiveIds
<1>11. path \in Seq(Nat) /\ Len(path) = r + 1 /\ path[r + 1] = n /\ \A i \in 1..r : path[i] = u[i + 1]
  <2>1. PathFrom(path, r, n, u)
    BY ONLY <1>5, <1>7, <1>9, <1>10, PathMade
  <2> QED
    BY ONLY <2>1 DEF PathFrom
<1>12. ASSUME NEW i \in 0..(r - 1) PROVE path[r - i] = c[i]
  <2>1. r - i \in 1..r /\ (r - i) + 1 = r + 1 - i /\ i \in 0..r
    BY <1>5
  <2> QED
    BY <1>4, <1>7, <1>11, <2>1
<1>13. PathSpells(n, r, c, path)
  BY <1>11, <1>12 DEF PathSpells
<1>14. c[0] = objects[n].links[1] /\ c[r] = Root
  BY <1>2, <1>3, <1>4, <1>5 DEF Rises
<1>15. ASSUME NEW i \in 0..(r - 1) PROVE c[i] \in LiveIds /\ c[i + 1] = objects[c[i]].links[1]
  <2>1. i \in 0..N /\ i + 1 \in 1..N /\ (i + 1) - 1 = i /\ i \in 0..r /\ i + 1 \in 0..r
    BY <1>5
  <2>2. f[i][1] # Root
    BY <1>3
  <2>3. f[i][1] \in LiveIds
    BY <1>1, <1>2, <2>1, <2>2, ChainLives
  <2>4. f[i + 1][1] = objects[f[i][1]].links[1]
    <3>1. PICK k : k = i + 1
      OBVIOUS
    <3>2. k \in 1..Len(objects) /\ k - 1 = i
      BY <1>1, <2>1, <3>1
    <3>3. f[k][1] = objects[f[i][1]].links[1]
      BY <1>2, <2>2, <3>2, ChainLives
    <3> QED
      BY <3>1, <3>3
  <2> QED
    BY <1>4, <2>1, <2>3, <2>4
<1>16. Way(n, r, c)
  BY <1>1, <1>3, <1>14, <1>15 DEF Way
<1> QED
  BY <1>1, <1>13, <1>16

(* No place comes twice on the way, so it is no longer than there are places on it. *)
LEMMA WayApart ==
  ASSUME ObjectsInv, TreeInv, NEW n \in LiveIds, NEW r, NEW c, Way(n, r, c)
  PROVE  /\ \A i, j \in 0..(r - 1) : c[i] = c[j] => i = j
         /\ \A i \in 0..(r - 1) : c[i] # n
<1>1. r \in Nat
  BY ObjectIs DEF Way
<1>2. ASSUME NEW i \in 0..(r - 1), NEW j \in 0..(r - 1), i < j, c[i] = c[j] PROVE FALSE
  <2> DEFINE S == {c[k] : k \in i..(j - 1)}
  <2>1. ASSUME NEW k \in i..(j - 1) PROVE c[k] \in LiveIds /\ objects[c[k]].links[1] \in S
    <3>1. k \in 0..(r - 1) /\ (k + 1 \in i..(j - 1) \/ k + 1 = j) /\ i \in i..(j - 1)
      BY <1>1, <1>2
    <3>2. c[k] \in LiveIds /\ c[k + 1] = objects[c[k]].links[1]
      BY <3>1 DEF Way
    <3>3. c[k + 1] \in S
      BY <1>2, <3>1
    <3> QED
      BY <3>2, <3>3
  <2>2. S \subseteq LiveIds /\ LiveIds \subseteq Ids /\ \A m \in S : objects[m].links[1] \in S
    BY <2>1 DEF LiveIds
  <2>3. c[i] \in S
    BY <1>1, <1>2
  <2> HIDE DEF S
  <2> QED
    BY <2>2, <2>3 DEF TreeInv, Closed
<1>3. ASSUME NEW i \in 0..(r - 1), c[i] = n PROVE FALSE
  <2> DEFINE S == {c[k] : k \in 0..i}
  <2>1. ASSUME NEW k \in 0..i PROVE c[k] \in LiveIds /\ objects[c[k]].links[1] \in S
    <3>1. k \in 0..(r - 1) /\ (k + 1 \in 0..i \/ k = i) /\ 0 \in 0..i
      BY <1>1, <1>3
    <3>2. c[k] \in LiveIds /\ c[k + 1] = objects[c[k]].links[1]
      BY <3>1 DEF Way
    <3>3. CASE k = i
      BY <1>3, <3>1, <3>3 DEF Way
    <3>4. CASE k + 1 \in 0..i
      <4>1. c[k + 1] \in S
        BY <3>4
      <4> QED
        BY <3>2, <4>1
    <3> QED
      BY <3>1, <3>2, <3>3, <3>4
  <2>2. S \subseteq LiveIds /\ LiveIds \subseteq Ids /\ \A m \in S : objects[m].links[1] \in S
    BY <2>1 DEF LiveIds
  <2>3. c[i] \in S
    BY <1>1, <1>3
  <2> HIDE DEF S
  <2> QED
    BY <2>2, <2>3 DEF TreeInv, Closed
<1>4. \A i, j \in 0..(r - 1) : i < j \/ j < i \/ i = j
  BY <1>1
<1> QED
  BY <1>2, <1>3, <1>4

LEMMA WayIsAbove ==
  ASSUME ObjectsInv, TreeInv, NEW n \in LiveIds, NEW r, NEW c, Way(n, r, c),
         PathSpells(n, r, c, PathsTo(n, 1))
  PROVE  /\ \A i \in 0..(r - 1) : c[i] \in Above(n)
         /\ Cardinality(Above(n)) \in Nat /\ r <= Cardinality(Above(n))
<1>1. PICK path, A, N : path = PathsTo(n, 1) /\ A = Above(n) /\ N = Len(objects)
  OBVIOUS
<1>2. r \in Nat /\ N \in Nat /\ Ids = 1..N
  BY <1>1, ObjectIs DEF Way
<1>3. /\ \A i, j \in 0..(r - 1) : c[i] = c[j] => i = j
      /\ \A i \in 0..(r - 1) : c[i] # n
      /\ \A i \in 0..(r - 1) : c[i] \in Ids
  <2>1. /\ \A i, j \in 0..(r - 1) : c[i] = c[j] => i = j
        /\ \A i \in 0..(r - 1) : c[i] # n
    BY WayApart
  <2>2. \A i \in 0..(r - 1) : c[i] \in Ids
    BY DEF Way, LiveIds
  <2> QED
    BY <2>1, <2>2
<1>4. DOMAIN path = 1..(r + 1) /\ path[r + 1] = n /\ \A i \in 0..(r - 1) : path[r - i] = c[i]
  BY <1>1, <1>2 DEF PathSpells
<1>5. A = {path[i] : i \in DOMAIN path} \ {n}
  BY <1>1 DEF Above, Range
<1>6. ASSUME NEW i \in 0..(r - 1) PROVE c[i] \in A
  <2>1. r - i \in 1..(r + 1) /\ path[r - i] = c[i]
    BY <1>2, <1>4
  <2> QED
    BY <1>3, <1>4, <1>5, <2>1
<1>7. A \subseteq Ids
  <2> SUFFICES ASSUME NEW j \in 1..(r + 1), path[j] # n PROVE path[j] \in Ids
    BY <1>4, <1>5
  <2>1. j # r + 1 /\ r - j \in 0..(r - 1) /\ r - (r - j) = j
    BY <1>2, <1>4
  <2> QED
    BY <1>3, <1>4, <2>1
<1>8. IsFiniteSet(A) /\ Cardinality(A) \in Nat
  <2>1. IsFiniteSet(Ids)
    <3>1. 1 \in Int /\ N \in Int
      BY <1>2
    <3> QED
      BY <1>2, <3>1, FS_Interval
  <2> QED
    BY <1>7, <2>1, FS_Subset, FS_CardinalityType
<1>9. r <= Cardinality(A)
  <2> SUFFICES ASSUME Cardinality(A) < r PROVE FALSE
    BY <1>2, <1>8
  <2>1. PICK h : h = [i \in 0..(r - 1) |-> c[i]]
    OBVIOUS
  <2>2. h \in [0..(r - 1) -> A]
    BY <1>6, <2>1
  <2>3. IsFiniteSet(0..(r - 1)) /\ Cardinality(0..(r - 1)) = r
    <3>1. 0 \in Int /\ r - 1 \in Int /\ (IF 0 > r - 1 THEN 0 ELSE r - 1 - 0 + 1) = r
      BY <1>2
    <3> QED
      BY ONLY <3>1, FS_Interval
  <2>4. PICK x, y \in 0..(r - 1) : x # y /\ h[x] = h[y]
    BY <1>8, <2>2, <2>3, FS_PigeonHole
  <2> QED
    BY <1>3, <2>1, <2>4
<1> QED
  BY <1>1, <1>6, <1>8, <1>9

LEMMA TreeSame ==
  ASSUME ObjectsInv, TreeInv, Ids' = Ids, LiveIds' \subseteq LiveIds,
         \A n \in Ids : objects'[n].links[1] = objects[n].links[1] /\ objects'[n].dir = objects[n].dir
  PROVE  TreeInv'
<1>1. \A n \in LiveIds' : objects'[n].links[1] \in Ids' => objects'[objects'[n].links[1]].dir
  <2> SUFFICES ASSUME NEW n \in LiveIds', objects'[n].links[1] \in Ids' PROVE objects'[objects'[n].links[1]].dir
    OBVIOUS
  <2>1. n \in LiveIds /\ n \in Ids
    BY DEF LiveIds
  <2> QED
    BY <2>1 DEF TreeInv
<1>2. ASSUME NEW S, Closed(S)', S \subseteq LiveIds' PROVE S = {}
  <2>1. Closed(S) /\ S \subseteq LiveIds
    BY <1>2 DEF Closed
  <2> QED
    BY <2>1 DEF TreeInv
<1> QED
  BY <1>1, <1>2 DEF TreeInv

LEMMA TreeGrows ==
  ASSUME ObjectsInv, TreeInv, NEW parent \in Directories, NEW N, N = Len(objects), Ids' = 1..(N + 1),
         \A n \in Ids : objects'[n] = objects[n], objects'[N + 1].links[1] = parent
  PROVE  TreeInv'
<1>1. N \in Nat /\ Ids = 1..N /\ \A n \in Ids' : n \in Ids \/ n = N + 1
  BY ObjectIs
<1>2. N + 1 \notin Ids /\ Ids \subseteq Ids' /\ Root \notin Ids' /\ N + 1 # Root
  BY <1>1 DEF Root
<1>3. parent \in {Root} \cup LiveIds /\ (parent # Root => parent \in Ids /\ objects[parent].dir)
  BY DEF Directories, LiveIds
<1>4. \A n \in LiveIds' : n \in LiveIds \/ n = N + 1
  BY <1>1 DEF LiveIds
<1>5. \A n \in LiveIds : n \in Ids /\ objects[n].links[1] \in {Root} \cup LiveIds
  BY LiveLinks
<1>6. LiveIds \subseteq Ids
  BY DEF LiveIds
<1>7. ASSUME NEW n \in LiveIds', objects'[n].links[1] \in Ids' PROVE objects'[objects'[n].links[1]].dir
  <2>1. CASE n \in LiveIds
    <3>1. objects'[n].links[1] = objects[n].links[1] /\ objects[n].links[1] \in Ids
      BY <1>2, <1>5, <1>6, <1>7, <2>1
    <3> QED
      BY <2>1, <3>1 DEF TreeInv
  <2>2. CASE n = N + 1
    BY <1>2, <1>3, <1>7, <2>2
  <2> QED
    BY <1>4, <2>1, <2>2
<1>8. ASSUME NEW S, Closed(S)', S \subseteq LiveIds' PROVE S = {}
  <2> DEFINE L == S \ {N + 1}
  <2>1. L \subseteq LiveIds
    BY <1>4, <1>8
  <2>2. ASSUME NEW m \in L PROVE objects[m].links[1] \in L
    <3>1. m \in LiveIds /\ objects'[m] = objects[m] /\ objects'[m].links[1] \in S
      BY <1>5, <1>8, <2>1 DEF Closed
    <3> QED
      BY <1>2, <1>5, <1>6, <3>1
  <2>3. Closed(L)
    BY <1>6, <2>1, <2>2 DEF Closed
  <2> HIDE DEF L
  <2>4. L = {}
    BY <2>1, <2>3 DEF TreeInv
  <2>5. N + 1 \notin S
    <3> SUFFICES ASSUME N + 1 \in S PROVE FALSE
      OBVIOUS
    <3>1. parent \in S /\ parent \in Ids'
      BY <1>8 DEF Closed
    <3>2. parent \in L
      BY <1>2, <1>3, <1>6, <3>1 DEF L
    <3> QED
      BY <2>4, <3>2
  <2> QED
    BY <2>4, <2>5 DEF L
<1> QED
  BY <1>7, <1>8 DEF TreeInv

LEMMA TreeMoved ==
  ASSUME ObjectsInv, TreeInv, NEW n \in LiveIds, NEW parent \in Directories,
         parent # Root => n \notin Range(PathsTo(parent, 1)),
         Ids' = Ids, LiveIds' = LiveIds, objects'[n].links[1] = parent,
         \A m \in Ids : objects'[m].dir = objects[m].dir,
         \A m \in Ids : m # n => objects'[m].links[1] = objects[m].links[1]
  PROVE  TreeInv'
<1>1. parent \in {Root} \cup LiveIds /\ (parent # Root => parent \in Ids /\ objects[parent].dir)
  BY DEF Directories, LiveIds
<1>2. LiveIds \subseteq Ids /\ Root \notin Ids
  BY ObjectIs DEF LiveIds, Root
<1>3. ASSUME NEW m \in LiveIds', objects'[m].links[1] \in Ids' PROVE objects'[objects'[m].links[1]].dir
  <2>1. CASE m = n
    BY <1>1, <1>2, <1>3, <2>1
  <2>2. CASE m # n
    BY <1>2, <1>3, <2>2 DEF TreeInv
  <2> QED
    BY <2>1, <2>2
<1>4. ASSUME NEW S, Closed(S)', S \subseteq LiveIds' PROVE S = {}
  <2>1. CASE n \notin S
    <3>1. Closed(S)
      BY <1>4, <2>1 DEF Closed
    <3> QED
      BY <1>4, <3>1 DEF TreeInv
  <2>2. ASSUME n \in S PROVE FALSE
    <3>1. parent \in S /\ parent \in LiveIds /\ parent # Root
      BY <1>2, <1>4, <2>2 DEF Closed
    <3>2. PICK r, c : Way(parent, r, c) /\ PathSpells(parent, r, c, PathsTo(parent, 1))
      BY <3>1, WayExists
    <3>3. r \in Nat
      BY <3>2, ObjectIs DEF Way
    <3>4. PICK path : path = PathsTo(parent, 1)
      OBVIOUS
    <3>5. n \notin {path[i] : i \in 1..(r + 1)}
      <4>1. DOMAIN path = 1..(r + 1)
        BY <3>2, <3>3, <3>4 DEF PathSpells
      <4> QED
        BY <3>1, <3>4, <4>1 DEF Range
    <3>6. parent # n
      BY <3>2, <3>3, <3>4, <3>5 DEF PathSpells
    <3>7. ASSUME NEW i \in 0..(r - 1) PROVE c[i] # n
      <4>1. r - i \in 1..(r + 1) /\ path[r - i] = c[i]
        BY <3>2, <3>3, <3>4 DEF PathSpells
      <4> QED
        BY <3>5, <4>1
    <3> DEFINE T == {i \in Nat : i <= r => c[i] \in S}
    <3>8. 0 \in T
      BY <1>2, <1>4, <3>1, <3>2, <3>6 DEF Way, Closed
    <3>9. ASSUME NEW i \in T PROVE i + 1 \in T
      <4> SUFFICES ASSUME i + 1 <= r PROVE c[i + 1] \in S
        OBVIOUS
      <4>1. i \in 0..(r - 1) /\ c[i] \in S
        BY <3>3
      <4>2. c[i] \in Ids /\ c[i + 1] = objects[c[i]].links[1] /\ c[i] # n
        BY <1>2, <3>2, <3>7, <4>1 DEF Way
      <4> QED
        BY <1>4, <4>1, <4>2 DEF Closed
    <3>10. T = Nat
      <4>1. T \in SUBSET Nat
        OBVIOUS
      <4> HIDE DEF T
      <4> QED
        BY <3>8, <3>9, <4>1, SetInduction
    <3>11. c[r] \in S
      BY <3>3, <3>10
    <3> QED
      BY <1>2, <1>4, <3>2, <3>11 DEF Way
  <2> QED
    BY <2>1, <2>2
<1> QED
  BY <1>3, <1>4 DEF TreeInv

LEMMA TreeAdd ==
  ASSUME ObjectsInv, TreeInv, NEW slot, NEW parent \in Directories, NEW o \in Object, Fresh(o, slot, parent),
         NEW reached, Add(o, reached)
  PROVE  TreeInv'
<1>1. PICK ob, N : ob = [o EXCEPT !.whole = Whole(reached)] /\ N = Len(objects)
  OBVIOUS
<1>2. objects' = Append(objects, ob)
  BY <1>1 DEF Add
<1>3. ob.links[1] = parent
  BY <1>1, WholeOrNot DEF Fresh, OneLink
<1>4. objects \in Seq(Object) /\ ob \in Object /\ N \in Nat
  BY <1>1, WholeOrNot, ObjectIs DEF ObjectsInv
<1>5. Ids' = 1..(N + 1) /\ (\A n \in Ids : objects'[n] = objects[n]) /\ objects'[N + 1] = ob
  <2> HIDE DEF Object
  <2> QED
    BY <1>1, <1>2, <1>4 DEF Ids
<1> QED
  BY <1>1, <1>3, <1>5, TreeGrows

LEMMA Replaced ==
  ASSUME ObjectsInv, NEW n \in Ids, NEW ob, objects' = [objects EXCEPT ![n] = ob]
  PROVE  /\ Ids' = Ids /\ objects'[n] = ob /\ \A m \in Ids : m # n => objects'[m] = objects[m]
         /\ ob.live = objects[n].live => LiveIds' = LiveIds
         /\ ~ob.live => LiveIds' \subseteq LiveIds
<1>1. objects \in Seq(Object)
  BY DEF ObjectsInv
<1>2. Ids' = Ids /\ objects'[n] = ob /\ \A m \in Ids : m # n => objects'[m] = objects[m]
  <2> HIDE DEF Object
  <2> QED
    BY <1>1 DEF Ids
<1> QED
  BY <1>2 DEF LiveIds

LEMMA TreeRewrite ==
  ASSUME ObjectsInv, TreeInv, NEW n \in LiveIds, NEW parent \in Directories, NEW reached,
         move(n, parent, reached) \/ link(n, parent, reached)
  PROVE  TreeInv'
<1>1. n \in Ids /\ 1 \in DOMAIN objects[n].links
  BY LiveLinks
<1>2. PICK was, links : was = objects[n] /\ links = was.links
  OBVIOUS
<1>3. was \in Object /\ links \in Seq(Nat)
  BY <1>1, <1>2, ObjectIs
<1>4. PICK next : next = IF move(n, parent, reached) THEN [links EXCEPT ![1] = parent] ELSE Append(links, parent)
  OBVIOUS
<1>5. PICK ob : ob = [was EXCEPT !.links = next, !.whole = Whole(reached)]
  OBVIOUS
<1>6. ob.links = next /\ ob.dir = was.dir /\ ob.live = was.live
  BY <1>3, <1>5 DEF Object
<1>7. CASE move(n, parent, reached)
  <2>1. objects' = [objects EXCEPT ![n] = [[objects[n] EXCEPT !.links[1] = parent] EXCEPT !.whole = Whole(reached)]]
    BY <1>7 DEF move, Rewrite
  <2>2. ob = [[objects[n] EXCEPT !.links[1] = parent] EXCEPT !.whole = Whole(reached)]
    BY <1>2, <1>3, <1>4, <1>5, <1>7 DEF Object
  <2>3. objects' = [objects EXCEPT ![n] = ob]
    BY <2>1, <2>2
  <2>4. /\ Ids' = Ids /\ objects'[n] = ob /\ (\A m \in Ids : m # n => objects'[m] = objects[m])
        /\ LiveIds' = LiveIds
    BY <1>1, <1>2, <1>6, <2>3, Replaced
  <2>5. next[1] = parent
    BY <1>1, <1>2, <1>3, <1>4, <1>7
  <2>6. parent # Root => n \notin Range(PathsTo(parent, 1))
    BY <1>7 DEF move
  <2> QED
    BY <1>2, <1>6, <2>4, <2>5, <2>6, TreeMoved
<1>8. CASE link(n, parent, reached) /\ ~move(n, parent, reached)
  <2>1. objects' = [objects EXCEPT ![n] = [[objects[n] EXCEPT !.links = Append(@, parent)] EXCEPT !.whole = Whole(reached)]]
    BY <1>8 DEF link, Rewrite
  <2>2. ob = [[objects[n] EXCEPT !.links = Append(@, parent)] EXCEPT !.whole = Whole(reached)]
    BY <1>2, <1>3, <1>4, <1>5, <1>8 DEF Object
  <2>3. objects' = [objects EXCEPT ![n] = ob]
    BY <2>1, <2>2
  <2>4. /\ Ids' = Ids /\ objects'[n] = ob /\ (\A m \in Ids : m # n => objects'[m] = objects[m])
        /\ LiveIds' = LiveIds
    BY <1>1, <1>2, <1>6, <2>3, Replaced
  <2>5. next[1] = links[1]
    <3>1. next = Append(links, parent) /\ Len(links) > 0
      BY <1>1, <1>2, <1>3, <1>4, <1>8
    <3> QED
      BY <1>3, <3>1
  <2> QED
    BY <1>2, <1>6, <2>4, <2>5, TreeSame
<1> QED
  BY <1>7, <1>8

LEMMA TreeShrinks ==
  ASSUME ObjectsInv, TreeInv, NEW n \in LiveIds, NEW reached, NEW place,
         delete(n, reached) \/ spill(n, place)
  PROVE  TreeInv'
<1>1. n \in Ids
  BY LiveLinks
<1>2. PICK was : was = objects[n]
  OBVIOUS
<1>3. was \in Object /\ objects \in Seq(Object) /\ was.live
  BY <1>1, <1>2, ObjectIs DEF ObjectsInv, LiveIds
<1>4. ASSUME NEW ob, ob.links = was.links, ob.dir = was.dir, ob.live = was.live \/ ~ob.live,
             objects' = [objects EXCEPT ![n] = ob]
      PROVE  TreeInv'
  <2>1. /\ Ids' = Ids /\ objects'[n] = ob /\ (\A m \in Ids : m # n => objects'[m] = objects[m])
        /\ LiveIds' \subseteq LiveIds
    BY <1>1, <1>2, <1>4, Replaced
  <2> QED
    BY <1>2, <1>4, <2>1, TreeSame
<1>5. CASE delete(n, reached)
  <2>1. PICK ob : ob = [was EXCEPT !.live = FALSE, !.whole = Whole(reached)]
    OBVIOUS
  <2>2. objects' = [objects EXCEPT ![n].live = FALSE, ![n].whole = Whole(reached)]
    BY <1>5 DEF delete
  <2>3. objects' = [objects EXCEPT ![n] = ob]
    <3> HIDE DEF Object
    <3> QED
      BY <1>1, <1>2, <1>3, <2>1, <2>2 DEF Ids
  <2>4. ob.links = was.links /\ ob.dir = was.dir /\ ~ob.live
    BY <1>3, <2>1 DEF Object
  <2> QED
    BY <1>4, <2>3, <2>4
<1>6. CASE spill(n, place)
  <2>1. PICK ext \in FreeSlots : objects' = [objects EXCEPT ![n] = [objects[n] EXCEPT !.place = place, !.ext = ext]]
    BY <1>6 DEF spill
  <2>2. PICK ob : ob = [was EXCEPT !.place = place, !.ext = ext]
    OBVIOUS
  <2>3. objects' = [objects EXCEPT ![n] = ob]
    BY <1>2, <2>1, <2>2
  <2>4. ob.links = was.links /\ ob.dir = was.dir /\ ob.live = was.live
    BY <1>3, <2>2 DEF Object
  <2> QED
    BY <1>4, <2>3, <2>4
<1> QED
  BY <1>5, <1>6

LEMMA TreeHarmed ==
  ASSUME ObjectsInv, TreeInv, Mishaps
  PROVE  TreeInv'
<1>1. CASE objects' = objects
  <2>1. Ids' = Ids /\ LiveIds' = LiveIds
    BY <1>1 DEF Ids, LiveIds
  <2> QED
    BY <1>1, <2>1, TreeSame
<1>2. ASSUME NEW slot, objects' = NotWhole(slot) PROVE TreeInv'
  <2>1. /\ Ids' = Ids /\ LiveIds' = LiveIds
        /\ \A n \in Ids : objects'[n] = IF objects[n].slot = slot THEN [objects[n] EXCEPT !.whole = FALSE]
                                        ELSE objects[n]
    BY <1>2, ObjectsHarmed
  <2>2. ASSUME NEW n \in Ids PROVE objects'[n].links[1] = objects[n].links[1] /\ objects'[n].dir = objects[n].dir
    <3>1. PICK o, ob : o = objects[n] /\ ob = [o EXCEPT !.whole = FALSE]
      OBVIOUS
    <3>2. ob.links = o.links /\ ob.dir = o.dir
      BY <3>1, NotWholeIs, ObjectIs
    <3> QED
      BY <2>1, <3>1, <3>2
  <2> QED
    BY <2>1, <2>2, TreeSame
<1> QED
  BY <1>1, <1>2 DEF Mishaps, spoilAttribute, spoilHeader, spoilRuns, loseCluster

LEMMA TreeStep ==
  ASSUME VolumeInv, TreeInv, VolumeChanges
  PROVE  TreeInv'
<1>1. (HostChanges \/ Mishaps) /\ ObjectsInv
  BY DEF VolumeChanges, VolumeInv
<1>2. ASSUME NEW parent \in Directories PROVE parent \in Nat
  <2>1. parent \in {Root} \cup Ids
    BY DEF Directories, LiveIds
  <2>2. Ids \subseteq Nat /\ Root \in Nat
    BY <1>1, ObjectIs DEF Root
  <2> QED
    BY <2>1, <2>2
<1>3. ASSUME NEW reached \in Reaches, NEW parent \in Directories, NEW shape \in Shapes, create(parent, shape, reached)
      PROVE  TreeInv'
  <2>1. PICK slot \in FreeSlots : Add(NewFile(slot, parent, shape), reached)
    BY <1>3 DEF create
  <2>2. PICK o : o = NewFile(slot, parent, shape)
    OBVIOUS
  <2>3. IsShape(shape) /\ slot \in UserSlots
    BY ShapeAssumption DEF IsShape, FreeSlots
  <2>4. o \in Object /\ Fresh(o, slot, parent)
    BY <1>2, <2>2, <2>3, NewFileIs
  <2>5. Add(o, reached)
    BY <2>1, <2>2
  <2> QED
    BY <1>1, <2>4, <2>5, TreeAdd
<1>4. ASSUME NEW reached \in Reaches, NEW parent \in Directories, makeDirectory(parent, reached)
      PROVE  TreeInv'
  <2>1. PICK slot \in FreeSlots : Add(NewDirectory(slot, parent), reached)
    BY <1>4 DEF makeDirectory
  <2>2. PICK o : o = NewDirectory(slot, parent)
    OBVIOUS
  <2>3. slot \in UserSlots
    BY DEF FreeSlots
  <2>4. o \in Object /\ Fresh(o, slot, parent)
    BY <1>2, <2>2, <2>3, NewDirectoryIs
  <2>5. Add(o, reached)
    BY <2>1, <2>2
  <2> QED
    BY <1>1, <2>4, <2>5, TreeAdd
<1>5. ASSUME NEW reached \in Reaches, NEW n \in LiveIds,
             \/ \E parent \in Directories : move(n, parent, reached) \/ link(n, parent, reached)
             \/ delete(n, reached)
             \/ \E place \in {"split", "extension"} : spill(n, place)
      PROVE  TreeInv'
  BY <1>1, <1>5, TreeRewrite, TreeShrinks
<1>6. HostChanges => TreeInv'
  BY <1>3, <1>4, <1>5 DEF HostChanges
<1> QED
  BY <1>1, <1>6, TreeHarmed

LEMMA TreeFirst ==
  ASSUME objects = FirstObjects
  PROVE  TreeInv
<1>1. /\ Ids = 1..3 /\ LiveIds = 1..3 /\ \A n \in 1..3 : objects[n].links[1] = n - 1
  BY FirstHolders
<1>2. objects[1].dir /\ objects[2].dir
  BY DEF FirstObjects, NewDirectory, NewFile
<1>3. ASSUME NEW n \in LiveIds, objects[n].links[1] \in Ids PROVE objects[objects[n].links[1]].dir
  BY <1>1, <1>2, <1>3
<1>4. ASSUME NEW S, Closed(S), S \subseteq LiveIds PROVE S = {}
  <2>1. \A m \in S : m \in 1..3 /\ m - 1 \in S
    BY <1>1, <1>4 DEF Closed
  <2>2. 1 \notin S
    BY <2>1
  <2>3. 2 \notin S
    BY <2>1, <2>2
  <2>4. 3 \notin S
    BY <2>1, <2>3
  <2> QED
    BY <2>1, <2>2, <2>3, <2>4
<1> QED
  BY <1>3, <1>4 DEF TreeInv


-----------------------------------------------------------------------------
(***************************************************************************)
(* The records of the live objects that are whole.                         *)
(***************************************************************************)

(* b is the record of object o, and names it. *)
KeptRecord(b, o, n) ==
  /\ b = StridesOf(b[1].usn, b[1].head, b[1].attrs, SecondStride(o, n))
  /\ b[1].head.base = 0 /\ b[1].head.flaw = "none" /\ b[1].head.dir = o.dir /\ b[1].head.inUse = TRUE
  /\ b[1].attrs \in Seq(FirstAttrs) /\ NamesAre(b[1].attrs, n)
  /\ \E i \in DOMAIN b[1].attrs : isName(b[1].attrs[i]) /\ ~b[1].attrs[i].dos

(* A reference to p that isLiveDirectory accepts, if p is whole. *)
KeptRef(ref, p) ==
  ref.record = SlotOf(p) /\ (p # Root /\ objects[p].whole => ref.sequence = SequenceOf(SlotOf(p)))
KeptRefs(first, p) == \A i \in DOMAIN first : MayStand(first, i) => KeptRef(first[i].parent, p)

Kept(n) ==
  /\ KeptRecord(Block(objects[n].slot), objects[n], n)
  /\ KeptRefs(Block(objects[n].slot)[1].attrs, objects[n].links[1])
KeptInv == \A n \in LiveIds : objects[n].whole => Kept(n)

LEMMA ExactKept ==
  ASSUME VolumeType, ObjectsInv, Exact
  PROVE  KeptInv
<1> SUFFICES ASSUME NEW n \in LiveIds PROVE Kept(n)
  BY DEF KeptInv
<1>1. PICK s, b, o, p : s = objects[n].slot /\ b = Block(s) /\ o = objects[n] /\ p = objects[n].links[1]
  OBVIOUS
<1>2. n \in Ids /\ o.live = TRUE /\ s \in UserSlots /\ HolderOf(s) = n
  BY <1>1, ObjectIs, HolderFacts DEF LiveIds
<1>3. SlotExact(s) /\ LiveExact(n)
  BY <1>2 DEF Exact
<1>4. b[1].kind = "mft" /\ b[1].head.base = 0
  BY <1>1, <1>3 DEF LiveExact
<1>5. RecordExact(s, b[1].usn, b[1].head, b[1].attrs, b[2].attrs) /\ b[1].head.flaw = "none"
  BY SMTT(60), <1>1, <1>2, <1>3, <1>4, ExactSlot
<1>6. b = StridesOf(b[1].usn, b[1].head, b[1].attrs, b[2].attrs) /\ ObjectRecord(s, b[1].head, b[1].attrs, b[2].attrs)
  BY ZenonT(90), <1>1, <1>4, <1>5 DEF RecordExact
<1>7. KeptRecord(b, o, n)
  BY <1>1, <1>2, <1>4, <1>5, <1>6 DEF KeptRecord, ObjectRecord
<1>8. ASSUME NEW i \in DOMAIN b[1].attrs, MayStand(b[1].attrs, i)
      PROVE  KeptRef(b[1].attrs[i].parent, p)
  <2>1. RefHolds(b[1].attrs[i].parent, p)
    BY <1>1, <1>2, <1>6, <1>8 DEF ObjectRecord
  <2>2. p # Root => b[1].attrs[i].parent.sequence = SequenceOf(SlotOf(p))
    BY <1>1, <1>3, <1>8 DEF LiveExact
  <2> QED
    BY <2>1, <2>2 DEF KeptRef, RefHolds
<1> QED
  BY <1>1, <1>7, <1>8 DEF Kept, KeptRefs

(* An object that nothing happens to, in a slot that nothing happens to, is kept. *)
LEMMA KeptStays ==
  ASSUME NEW T, Changed(T), KeptInv, \A n \in LiveIds' : objects'[n].whole => objects'[n].slot \notin T
  PROVE  KeptInv'
<1>1. ASSUME NEW n \in LiveIds', objects'[n].whole
      PROVE  /\ n \in LiveIds /\ objects'[n] = objects[n] /\ objects[n].slot \in UserSlots \ T
             /\ Block(objects[n].slot)' = Block(objects[n].slot)
  <2>1. n \in Ids' /\ objects'[n].slot \notin T /\ objects'[n].live
    BY <1>1 DEF LiveIds
  <2>2. n \in Ids /\ objects'[n] = objects[n] /\ objects[n].slot \in UserSlots \ T
    BY <2>1, ObjectIs DEF Changed
  <2>3. PICK s : s = objects[n].slot
    OBVIOUS
  <2>4. Block(s)' = Block(s)
    BY <2>2, <2>3 DEF Changed
  <2>5. Block(objects[n].slot)' = Block(s)'
    BY <2>2, <2>3 DEF Block
  <2> QED
    BY <2>1, <2>2, <2>3, <2>4, <2>5 DEF LiveIds
<1>2. ASSUME NEW n \in LiveIds', objects'[n].whole
      PROVE  Kept(n)'
  <2>1. PICK s, b, o, p : s = objects[n].slot /\ b = Block(s) /\ o = objects[n] /\ p = objects[n].links[1]
    OBVIOUS
  <2>2. n \in LiveIds /\ objects'[n] = o /\ s \in UserSlots \ T /\ Block(s)' = b
    BY <1>1, <1>2, <2>1
  <2>3. KeptRecord(b, o, n) /\ KeptRefs(b[1].attrs, p)
    BY <1>2, <2>1, <2>2 DEF KeptInv, Kept
  <2>4. ObjectsInv' /\ p \in {Root} \cup LiveIds'
    <3>1. ObjectsInv /\ ObjectsInv' /\ n \in LiveIds'
      BY <1>2 DEF Changed
    <3>2. Len(objects'[n].links) > 0 /\ LinksLead(objects'[n], LiveIds')
      BY <3>1 DEF ObjectsInv, LiveIds
    <3>3. o.links \in Seq(Nat)
      BY <2>1, <2>2, <3>1, ObjectIs DEF LiveIds
    <3>4. 1 \in DOMAIN o.links
      BY <2>2, <3>2, <3>3
    <3> QED
      BY <2>1, <2>2, <3>1, <3>2, <3>4 DEF LinksLead
  <2>5. p \in {Root} \cup Ids
    BY <2>1, <2>2, ObjectIs DEF Changed, LiveIds
  <2>6. ASSUME NEW ref, KeptRef(ref, p)
        PROVE  KeptRef(ref, p)'
    <3>1. SlotOf(p)' = SlotOf(p)
      BY <2>5, ChangedSlots
    <3>2. ASSUME p # Root, objects'[p].whole
          PROVE  objects[p].whole /\ SequenceOf(SlotOf(p))' = SequenceOf(SlotOf(p))
      <4>1. p \in LiveIds' /\ p \in Ids
        BY <2>4, <2>5, <3>2
      <4>2. objects'[p] = objects[p] /\ objects[p].slot \in UserSlots \ T
        BY <1>1, <3>2, <4>1
      <4>3. PICK t : t = SlotOf(p)
        OBVIOUS
      <4>4. t \in UserSlots \ T /\ SequenceOf(t)' = SequenceOf(t)
        BY <3>2, <4>1, <4>2, <4>3, ChangedSlots
      <4>5. SequenceOf(SlotOf(p))' = SequenceOf(t)'
        BY <3>1, <4>3 DEF SequenceOf, Used, Header, SlotClusters
      <4> QED
        BY <3>2, <4>2, <4>3, <4>4, <4>5
    <3> QED
      BY <2>6, <3>1, <3>2 DEF KeptRef
  <2>7. KeptRefs(b[1].attrs, p)'
    BY <2>3, <2>6 DEF KeptRefs
  <2>8. Block(objects[n].slot)' = b /\ objects'[n].links[1] = p
    BY <1>1, <1>2, <2>1, <2>2
  <2> QED
    BY <2>2, <2>3, <2>7, <2>8 DEF Kept, KeptRefs
<1> QED
  BY <1>2 DEF KeptInv

(* The records of the live objects that no mishap reached are as the host wrote them. *)
KeptVolume == VolumeInv /\ (~running => KeptInv)

LEMMA VolumeIsKept ==
  ASSUME KeptVolume
  PROVE  KeptInv
BY ExactKept DEF KeptVolume, VolumeInv

LEMMA KeptStep ==
  ASSUME KeptVolume, VolumeChanges
  PROVE  KeptVolume'
<1>1. VolumeInv' /\ Spared /\ KeptInv
  BY VolumeStep, VolumeIsKept DEF KeptVolume, Carried
<1>2. ~running' => KeptInv'
  BY <1>1, KeptStays DEF Spared
<1> QED
  BY <1>1, <1>2 DEF KeptVolume

LEMMA KeptSame ==
  ASSUME KeptVolume, UNCHANGED volumeVars
  PROVE  KeptVolume'
<1>1. VolumeInv /\ VolumeInv'
  BY VolumeKept DEF KeptVolume
<1>2. disk' = disk /\ objects' = objects /\ layout' = layout /\ habit' = habit /\ running' = running
  BY DEF volumeVars
<1>3. \A s : Block(s)' = Block(s)
  BY <1>2 DEF Block, SlotClusters
<1>4. Ids' = Ids
  BY <1>2 DEF Ids
<1>5. Changed({})
  BY <1>1, <1>2, <1>3, <1>4 DEF Changed, VolumeInv
<1>6. KeptInv'
  BY <1>5, VolumeIsKept, KeptStays
<1> QED
  BY <1>1, <1>6 DEF KeptVolume


-----------------------------------------------------------------------------
(***************************************************************************)
(* Reading the record of a live object.                                    *)
(***************************************************************************)

(* MftTable finds every record that is in one place. *)
LEMMA OffsetFound ==
  ASSUME VolumeType, Tabled, NEW s \in Slots, ~Straddles(s)
  PROVE  recordOffset(s) # -1
<1>1. PICK e, size, len, C, off, k : /\ e = table.extents /\ size = Records * RecordBytes /\ len = RecordBytes
                                     /\ C = ClusterBytes /\ off = s * RecordBytes /\ k = 2 * s
  OBVIOUS
<1>2. s \in Nat /\ s < Records /\ k \in Nat /\ Records \in Nat
  BY <1>1, NumbersAre DEF Slots
<1>3. layout[k + 2] = layout[k + 1] + 1 /\ k + 2 <= Len(layout)
  <2>1. SlotClusters(s)[2] = SlotClusters(s)[1] + 1
    BY DEF Straddles
  <2>2. SlotClusters(s)[2] = layout[2 * s + 2] /\ SlotClusters(s)[1] = layout[2 * s + 1]
    BY SlotClustersAre
  <2>3. Len(layout) = 2 * Records
    BY LayoutIs
  <2> QED
    BY <1>1, <1>2, <2>1, <2>2, <2>3
<1>4. PICK i \in 1..Len(e) : Before(e)[i - 1] <= k * C /\ (k + 2) * C <= Before(e)[i]
  BY <1>1, <1>2, <1>3 DEF Tabled, Together
<1>5. C \in Nat \ {0} /\ len = 2 * C /\ len \in Nat \ {0} /\ off = k * C /\ off \in Nat /\ off + len = (k + 2) * C
  <2>1. C \in Nat \ {0} /\ len = 2 * C
    BY <1>1, BytesAre
  <2>2. off = s * (2 * C)
    BY <1>1, <2>1
  <2> QED
    BY <1>1, <1>2, <2>1, <2>2
<1>6. Tiles(e, layout, size)
  BY <1>1 DEF Tabled
<1>7. locateInExtents(e, off, len) # -1
  BY ONLY <1>4, <1>5, <1>6, LocatedTiles
<1>8. ~(s >= table.recordCount)
  BY <1>2 DEF Tabled
<1> QED
  BY <1>1, <1>7, <1>8 DEF recordOffset

LEMMA ReadFound ==
  ASSUME VolumeType, Tabled, NEW s \in Slots, ~Straddles(s)
  PROVE  readRecord(s) = IF Readable(s) THEN parseMftRecord(Block(s), s) ELSE Failed("ioFailure")
<1>1. PICK offset : offset = recordOffset(s)
  OBVIOUS
<1>2. s \in Nat /\ offset # -1
  BY <1>1, OffsetFound, NumbersAre
<1>3. SlotClusters(s)[2] = SlotClusters(s)[1] + 1 /\ offset = SlotClusters(s)[1] * ClusterBytes
  BY <1>1, <1>2, OffsetIs
<1>4. readRecord(s) = readBlock(offset, s)
  BY <1>1, <1>2 DEF readRecord
<1> QED
  BY <1>3, <1>4, BlockRead

(* What a kept record shows: everything the host wrote, under the object's long name. *)
KeptView(v, n, o) ==
  /\ v.error = "none" /\ v.number = o.slot /\ v.inUse = TRUE /\ v.isDirectory = o.dir
  /\ v.sequence = SequenceOf(o.slot) /\ v.grade = "valid" /\ hasName(v)
  /\ preferredName(v.names).name = n /\ KeptRef(preferredName(v.names).parent, o.links[1])
  /\ ~o.dir /\ o.place = "base" => v.data = <<OwnData(o, n)>>

LEMMA KeptHead ==
  ASSUME NEW b, NEW o, NEW n, KeptRecord(b, o, n), NEW s, NEW v, v = parseMftRecord(b, s)
  PROVE  /\ b[1].kind = "mft" /\ b[2].attrs = SecondStride(o, n)
         /\ v = parseRecordAttributes(recordShell(s, b[1].head), b[1].attrs \o b[2].attrs)
<1>1. b = StridesOf(b[1].usn, b[1].head, b[1].attrs, SecondStride(o, n)) /\ b[1].head.flaw = "none" /\ b[1].head.base = 0
  BY DEF KeptRecord
<1>2. /\ b[1].kind = "mft" /\ b[2].kind = "mft" /\ b[2].usn = b[1].usn /\ b[2].attrs = SecondStride(o, n)
  BY <1>1, StridesAre
<1>3. signatureIsFile(b) /\ readRecordHeader(b) /\ readUsaHeader(b)
  BY <1>1, <1>2 DEF signatureIsFile, readRecordHeader, readUsaHeader
<1>4. applyUpdateSequenceFixup(b)
  BY <1>2 DEF applyUpdateSequenceFixup, Strides
<1>5. v = recordViewFromFixup(s, b, applyUpdateSequenceFixup(b))
  BY SMTT(60), <1>3 DEF parseMftRecord
<1> QED
  BY <1>1, <1>2, <1>4, <1>5 DEF recordViewFromFixup

LEMMA KeptShows ==
  ASSUME VolumeType, ObjectsInv, NEW n \in LiveIds, Kept(n), NEW o, o = objects[n],
         NEW v, v = parseMftRecord(Block(o.slot), o.slot)
  PROVE  KeptView(v, n, o)
<1>1. PICK s, b, head, first, second : /\ s = o.slot /\ b = Block(s) /\ head = b[1].head /\ first = b[1].attrs
                                       /\ second = SecondStride(o, n)
  OBVIOUS
<1>2. n \in Ids /\ o \in Object /\ SizeFits(o) /\ s \in UserSlots /\ s \in Slots
  BY <1>1, ObjectIs, NumbersAre DEF LiveIds, ObjectsInv
<1>3. KeptRecord(b, o, n) /\ KeptRefs(first, o.links[1])
  BY <1>1 DEF Kept
<1>4. b[1].kind = "mft" /\ v = parseRecordAttributes(recordShell(s, head), first \o second)
  BY <1>1, <1>3, KeptHead
<1>5. /\ head.dir = o.dir /\ head.inUse = TRUE /\ first \in Seq(FirstAttrs) /\ NamesAre(first, n)
      /\ \E i \in DOMAIN first : isName(first[i]) /\ ~first[i].dos
  BY <1>1, <1>3 DEF KeptRecord
<1>6. PICK attrs : attrs = first \o second
  OBVIOUS
<1>7. IsSeq(first) /\ IsSeq(second)
  BY <1>1, <1>2, <1>5, IsSeqIf, SecondDescribes
<1>8. /\ IsSeq(attrs) /\ Len(attrs) = Len(first) + Len(second)
      /\ \A i \in 1..Len(first) : attrs[i] = first[i]
      /\ \A i \in 1..Len(second) : attrs[Len(first) + i] = second[i]
  <2>1. Joined(first, second, attrs)
    BY <1>6, <1>7, JoinedIs
  <2> QED
    BY <2>1 DEF Joined
<1>9. /\ Len(first) \in Nat /\ Len(second) \in Nat /\ DOMAIN first = 1..Len(first)
      /\ DOMAIN second = 1..Len(second) /\ DOMAIN attrs = 1..Len(attrs)
  BY <1>7, <1>8, SeqIs
<1>10. ViewHead(v, s, head) /\ \E K : ViewKept(v, attrs, K)
  BY <1>4, <1>6, <1>8, AttributesParsed
<1>11. \A i \in DOMAIN first : ~Unfit(first[i]) /\ first[i].type # "data" /\ (isName(first[i]) => first[i].dos \in BOOLEAN)
  <2> TAKE i \in DOMAIN first
  <2>1. first[i] \in FirstAttrs
    <3> HIDE DEF FirstAttrs
    <3> QED
      BY <1>5, <1>9
  <2> QED
    BY <2>1, FirstFit
<1>12. \A i \in DOMAIN second : second[i].type = "data" /\ ~Unfit(second[i])
  BY <1>1, <1>2, SecondSound, DataFit
<1>13. ASSUME NEW i \in 1..Len(attrs), i > Len(first)
       PROVE  \E k \in DOMAIN second : attrs[i] = second[k]
  <2>1. PICK k : k = i - Len(first)
    OBVIOUS
  <2>2. k \in 1..Len(second) /\ i = Len(first) + k
    BY <1>8, <1>9, <1>13, <2>1
  <2> QED
    BY <1>8, <1>9, <2>2
<1>14. \A i \in DOMAIN attrs : ~Unfit(attrs[i]) /\ (i > Len(first) => attrs[i].type = "data")
  <2> TAKE i \in DOMAIN attrs
  <2>1. CASE i > Len(first)
    BY <1>9, <1>12, <1>13, <2>1
  <2>2. CASE ~(i > Len(first))
    <3>1. i \in 1..Len(first)
      BY <1>9, <2>2
    <3> QED
      BY <1>8, <1>9, <1>11, <2>2, <3>1
  <2> QED
    BY <2>1, <2>2
<1>15. ViewKept(v, attrs, Len(attrs)) /\ v.grade = "valid"
  BY <1>10, <1>14 DEF ViewKept
<1>16. PICK K, names : K = Len(attrs) /\ names = v.names
  OBVIOUS
<1>17. PICK l \in DOMAIN first : isName(first[l]) /\ ~first[l].dos
  BY <1>5
<1>18. names = [i \in {k \in 1..K : isName(attrs[k])} |-> attrs[i]]
  BY <1>15, <1>16 DEF ViewKept
<1>19. l \in DOMAIN names /\ names[l] = first[l] /\ isLong(names[l])
  <2>1. l \in 1..K /\ attrs[l] = first[l]
    BY <1>8, <1>9, <1>16
  <2> QED
    BY <1>17, <1>18, <2>1 DEF isLong
<1>20. NamesKept(names, first, attrs, K)
  <2>1. \A i \in 1..K : isName(attrs[i]) => i <= Len(first)
    BY <1>8, <1>9, <1>14, <1>16 DEF isName
  <2>2. K \in Nat /\ DOMAIN names # {}
    BY <1>8, <1>9, <1>16, <1>19
  <2> QED
    BY <1>8, <1>18, <2>1, <2>2 DEF NamesKept
<1>21. PICK i \in DOMAIN first : MayStand(first, i) /\ preferredName(names) = first[i] /\ isLong(first[i])
  <2>1. \E i \in DOMAIN first : /\ MayStand(first, i) /\ preferredName(names) = first[i]
                                /\ (\E k \in DOMAIN names : isLong(names[k])) => isLong(first[i])
    BY ONLY <1>7, <1>20, PreferredIs
  <2> QED
    BY <1>19, <2>1
<1>22. first[i].name = n /\ KeptRef(first[i].parent, o.links[1])
  BY <1>3, <1>5, <1>21 DEF MayStand, NamesAre, isLong, KeptRefs
<1>23. hasName(v)
  BY <1>16, <1>19 DEF hasName
<1>24. ~o.dir /\ o.place = "base" => v.data = <<OwnData(o, n)>>
  <2> SUFFICES ASSUME ~o.dir, o.place = "base" PROVE v.data = <<OwnData(o, n)>>
    OBVIOUS
  <2>1. PICK x, y : x = OwnData(o, n) /\ y = StreamData(n)
    OBVIOUS
  <2>2. second = <<x, y>>
    BY <1>1, <1>2, <2>1, SecondIs
  <2>3. Len(second) = 2 /\ second[1] = x /\ second[2] = y
    BY ONLY <2>2
  <2>4. isUnnamedData(x) /\ ~isUnnamedData(y)
    BY <2>1 DEF isUnnamedData, OwnData, StreamData, DataAttr
  <2>5. Len(first) + 1 \in DOMAIN attrs /\ attrs[Len(first) + 1] = x
    <3>1. 1 \in 1..Len(second)
      BY <2>3
    <3> QED
      BY <1>8, <1>9, <2>3, <3>1
  <2>6. v.data # <<>>
    BY <1>14, <1>15, <2>4, <2>5 DEF ViewKept
  <2>7. PICK d \in 1..Len(attrs) : isUnnamedData(attrs[d]) /\ v.data = <<attrs[d]>>
    BY <1>15, <2>6 DEF ViewKept
  <2>8. d > Len(first)
    <3>1. ~(d \in 1..Len(first))
      BY <1>8, <1>9, <1>11, <2>7 DEF isUnnamedData
    <3> QED
      BY <1>8, <1>9, <3>1
  <2>9. PICK k \in DOMAIN second : attrs[d] = second[k]
    BY <1>13, <2>8
  <2>10. attrs[d] = x
    BY SMTT(60), <1>9, <2>3, <2>4, <2>7, <2>9
  <2> QED
    BY <2>1, <2>7, <2>10
<1>25. v.sequence = SequenceOf(s)
  BY <1>1, <1>2, <1>4, <1>10, HeaderIs DEF ViewHead
<1> QED
  BY <1>1, <1>5, <1>10, <1>15, <1>16, <1>21, <1>22, <1>23, <1>24, <1>25 DEF KeptView, ViewHead

-----------------------------------------------------------------------------
(***************************************************************************)
(* The climb through live directories.                                     *)
(***************************************************************************)

KeptRead == VolumeType /\ ObjectsInv /\ Tabled /\ KeptInv

(* The record of object p is there to be read. *)
Legible(p) == objects[p].whole /\ ~Straddles(objects[p].slot) /\ Readable(objects[p].slot)

LEMMA LegibleShows ==
  ASSUME KeptRead, NEW p \in LiveIds, Legible(p), NEW o, o = objects[p], NEW v, v = readRecord(o.slot)
  PROVE  KeptView(v, p, o)
<1>1. o.slot \in Slots
  BY ObjectIs, NumbersAre DEF KeptRead, LiveIds
<1>2. v = parseMftRecord(Block(o.slot), o.slot)
  BY <1>1, ReadFound DEF KeptRead, Legible
<1>3. Kept(p)
  BY DEF KeptRead, KeptInv, Legible
<1> QED
  BY <1>2, <1>3, KeptShows DEF KeptRead

LEMMA ClimbRoot ==
  ASSUME NEW ascent, KeptRef(ascent.stoppedAt, Root)
  PROVE  climb(ascent) = ascent
<1>1. ascent.stoppedAt.record = kRootRecordNumber
  BY DEF KeptRef, SlotOf
<1>2. Failed("root").error # "none"
  BY DEF Failed
<1> QED
  BY <1>1, <1>2 DEF climb

LEMMA ClimbKept ==
  ASSUME KeptRead, NEW p \in LiveIds, Legible(p), objects[p].dir, NEW ascent, KeptRef(ascent.stoppedAt, p),
         ascent.directories \in Seq(Nat), NEW next, next = climb(ascent)
  PROVE  next.directories \in Seq(Nat) /\ KeptRef(next.stoppedAt, objects[p].links[1])
<1>1. PICK o, at, v : o = objects[p] /\ at = ascent.stoppedAt /\ v = readRecord(o.slot)
  OBVIOUS
<1>2. p \in Ids /\ p \in Nat /\ p # Root /\ o.slot \in UserSlots /\ o.dir = TRUE
  BY <1>1, ObjectIs DEF KeptRead, LiveIds, Root
<1>3. at.record = o.slot /\ at.sequence = SequenceOf(o.slot) /\ o.slot # kRootRecordNumber
  BY <1>1, <1>2, NumbersAre DEF KeptRef, SlotOf, Legible
<1>4. KeptView(v, p, o)
  BY <1>1, LegibleShows
<1>5. PICK name : name = preferredName(v.names)
  OBVIOUS
<1>6. v.error = "none" /\ isLiveDirectory(v, at) /\ hasName(v) /\ name.name = p /\ KeptRef(name.parent, o.links[1])
  BY <1>2, <1>3, <1>4, <1>5 DEF KeptView, isLiveDirectory
<1>7. next = [directories |-> <<name.name>> \o ascent.directories, stoppedAt |-> name.parent]
  BY <1>1, <1>3, <1>5, <1>6 DEF climb
<1>8. PICK d, e : d = ascent.directories /\ e = <<p>> \o d
  OBVIOUS
<1>9. e \in Seq(Nat)
  BY <1>2, <1>8, InFront
<1>10. next.directories = e /\ next.stoppedAt = name.parent
  BY <1>6, <1>7, <1>8
<1> QED
  BY <1>1, <1>6, <1>9, <1>10

(* The directories from n up to the root are all there to be read. *)
Climbable(n, r, c) == \A i \in 0..(r - 1) : Legible(c[i])

LEMMA WayIsDirectories ==
  ASSUME ObjectsInv, TreeInv, NEW n \in LiveIds, NEW r, NEW c, Way(n, r, c)
  PROVE  \A i \in 0..(r - 1) : c[i] \in LiveIds /\ objects[c[i]].dir
<1>1. r \in Nat /\ \A i \in 0..(r - 1) : c[i] \in LiveIds /\ c[i + 1] = objects[c[i]].links[1]
  BY ObjectIs DEF Way
<1> SUFFICES ASSUME NEW i \in 0..(r - 1) PROVE objects[c[i]].dir
  BY <1>1
<1>2. c[i] \in LiveIds /\ c[i] \in Ids
  BY <1>1 DEF LiveIds
<1>3. CASE i = 0
  BY <1>2, <1>3 DEF Way, TreeInv
<1>4. CASE i # 0
  <2>1. i - 1 \in 0..(r - 1) /\ (i - 1) + 1 = i
    BY <1>1, <1>4
  <2>2. c[i - 1] \in LiveIds /\ c[i] = objects[c[i - 1]].links[1]
    BY <1>1, <2>1
  <2> QED
    BY <1>2, <2>2 DEF TreeInv
<1> QED
  BY <1>3, <1>4

LEMMA AscentArrives ==
  ASSUME KeptRead, TreeInv, NEW n \in LiveIds, NEW r, NEW c, Way(n, r, c), Climbable(n, r, c), r <= kMaxPathDepth,
         NEW from, KeptRef(from, objects[n].links[1]), NEW g, g[0] = [directories |-> <<>>, stoppedAt |-> from],
         \A j \in 1..kMaxPathDepth : g[j] = climb(g[j - 1])
  PROVE  /\ g[kMaxPathDepth].directories \in Seq(Nat)
         /\ g[kMaxPathDepth].stoppedAt.record = kRootRecordNumber
<1>1. r \in Nat /\ kMaxPathDepth \in Nat /\ c[0] = objects[n].links[1] /\ c[r] = Root
  BY ObjectIs, DepthAssumption DEF Way, KeptRead
<1>2. \A i \in 0..(r - 1) : c[i] \in LiveIds /\ objects[c[i]].dir /\ c[i + 1] = objects[c[i]].links[1] /\ Legible(c[i])
  BY WayIsDirectories DEF Way, KeptRead, Climbable
<1> DEFINE at(j) == IF j < r THEN j ELSE r
           Good(j) == g[j].directories \in Seq(Nat) /\ KeptRef(g[j].stoppedAt, c[at(j)])
           S == {j \in Nat : j <= kMaxPathDepth => Good(j)}
<1>3. 0 \in S
  <2>1. at(0) = 0
    BY <1>1
  <2>2. g[0].directories = <<>> /\ g[0].stoppedAt = from
    OBVIOUS
  <2>3. g[0].directories \in Seq(Nat)
    BY <2>2
  <2>4. KeptRef(g[0].stoppedAt, c[at(0)])
    BY <1>1, <2>1, <2>2
  <2> QED
    BY <2>3, <2>4
<1>4. ASSUME NEW j \in S PROVE j + 1 \in S
  <2> SUFFICES ASSUME j + 1 <= kMaxPathDepth PROVE Good(j + 1)
    OBVIOUS
  <2>1. j \in Nat /\ j + 1 \in 1..kMaxPathDepth /\ (j + 1) - 1 = j /\ j <= kMaxPathDepth
    BY <1>1
  <2>2. Good(j) /\ g[j + 1] = climb(g[j])
    BY <2>1
  <2>3. CASE j < r
    <3>1. at(j) = j /\ at(j + 1) = j + 1 /\ j \in 0..(r - 1)
      BY <1>1, <2>1, <2>3
    <3>2. PICK p, ascent, next : p = c[j] /\ ascent = g[j] /\ next = g[j + 1]
      OBVIOUS
    <3>3. p \in LiveIds /\ objects[p].dir /\ Legible(p) /\ c[j + 1] = objects[p].links[1]
      BY <1>2, <3>1, <3>2
    <3>4. KeptRef(ascent.stoppedAt, p) /\ ascent.directories \in Seq(Nat) /\ next = climb(ascent)
      BY <2>2, <3>1, <3>2
    <3>5. next.directories \in Seq(Nat) /\ KeptRef(next.stoppedAt, objects[p].links[1])
      BY <3>3, <3>4, ClimbKept
    <3> QED
      BY <3>1, <3>2, <3>3, <3>5
  <2>4. CASE ~(j < r)
    <3>1. at(j) = r /\ at(j + 1) = r
      BY <1>1, <2>1, <2>4
    <3>2. KeptRef(g[j].stoppedAt, Root)
      BY <1>1, <2>2, <3>1
    <3>3. g[j + 1] = g[j]
      BY <2>2, <3>2, ClimbRoot
    <3> QED
      BY <2>2, <3>1, <3>3
  <2> QED
    BY <2>3, <2>4
<1>5. S = Nat
  <2>1. S \in SUBSET Nat
    OBVIOUS
  <2> HIDE DEF S
  <2> QED
    BY <1>3, <1>4, <2>1, SetInduction
<1>6. Good(kMaxPathDepth) /\ at(kMaxPathDepth) = r
  BY <1>1, <1>5
<1> QED
  BY <1>1, <1>6 DEF KeptRef, SlotOf

-----------------------------------------------------------------------------
(***************************************************************************)
(* The entry of a live file.                                               *)
(***************************************************************************)

(* The device reads the file's record and those of its directories. *)
Reachable(n) == Readable(objects[n].slot) /\ \A d \in Above(n) : Readable(objects[d].slot)

LiveEntry(e, n) ==
  e.from = n /\ e.state = "live" /\ e.grade = "valid" /\ e.path = PathsTo(n, 1)

LEMMA SpelledSame ==
  ASSUME NEW path \in Seq(Nat)
  PROVE  Spelled(path) = path
<1>1. \A k \in DOMAIN path : path[k] \in Nat
  OBVIOUS
<1>2. \A k \in DOMAIN path : (IF path[k] < 0 THEN -path[k] ELSE path[k]) = path[k]
  BY <1>1
<1>3. path = [k \in DOMAIN path |-> path[k]]
  OBVIOUS
<1> QED
  BY <1>2, <1>3 DEF Spelled

(* The data of a recoverable file is where its record says. *)
LEMMA OwnLocated ==
  ASSUME ObjectsInv, NEW n \in Ids, Recoverable(n), NEW o, o = objects[n], NEW view, view.data = <<OwnData(o, n)>>
  PROVE  contentOf(view).located = TRUE
<1>1. PICK data, runs : data = view.data[1] /\ runs = encodeRunlist(o.clusters)
  OBVIOUS
<1>2. data = OwnData(o, n)
  <2>1. PICK x : x = OwnData(o, n)
    OBVIOUS
  <2>2. view.data = <<x>>
    BY <2>1
  <2> QED
    BY <1>1, <2>1, <2>2
<1>3. data.resident = o.resident /\ data.size = o.size /\ (~o.resident => data.runs = runs)
  <2>1. PICK list : list = IF o.resident THEN NoRuns ELSE runs
    OBVIOUS
  <2>2. data = DataAttr("unnamed", o.resident, list, o.size, n)
    BY <1>1, <1>2, <2>1 DEF OwnData
  <2> QED
    BY <2>1, <2>2, DataFields
<1>4. CASE o.resident
  BY <1>1, <1>3, <1>4 DEF contentOf
<1>5. CASE ~o.resident
  <2>1. o.clusters \in Seq(VolumeCluster \cup {Hole}) /\ o.size \in Nat \ {0}
    BY ObjectIs
  <2>2. Hole \notin Range(o.clusters) /\ Len(AllocatedRuns(o.clusters)) <= kMaxDataRuns
    BY DEF Recoverable
  <2>3. o.size <= Len(o.clusters) * ClusterBytes
    BY <1>5 DEF ObjectsInv, SizeFits
  <2>4. PICK x : x = runlistExtents(runs, o.size)
    OBVIOUS
  <2>5. x.located = TRUE
    BY <1>1, <2>1, <2>2, <2>3, <2>4, RunlistIsExact
  <2> QED
    BY <1>1, <1>3, <1>5, <2>4, <2>5 DEF contentOf
<1> QED
  BY <1>4, <1>5

LEMMA LivePath ==
  ASSUME ReadSound, KeptInv, TreeInv, NEW n \in Ids, Recoverable(n), Reachable(n), NEW view,
         KeptView(view, n, objects[n]), NameIs(preferredName(view.names), n, objects[n].links[1]),
         NEW path, path = resolveEntryPath(view)
  PROVE  path.reachedRoot = TRUE /\ path.path = PathsTo(n, 1)
<1>1. n \in LiveIds /\ KeptRead /\ ObjectsInv /\ n \in Nat /\ objects[n].links[1] \in Places
  BY ObjectIs DEF ReadSound, KeptRead, Recoverable, LiveIds, Places
<1>2. PICK r, c : Way(n, r, c) /\ PathSpells(n, r, c, PathsTo(n, 1))
  BY <1>1, WayExists
<1>3. /\ \A i \in 0..(r - 1) : c[i] \in Above(n)
      /\ Cardinality(Above(n)) \in Nat /\ r <= Cardinality(Above(n))
  BY <1>1, <1>2, WayIsAbove
<1>4. r <= kMaxPathDepth
  <2>1. r \in Nat /\ kMaxPathDepth \in Nat
    BY <1>1, <1>2, ObjectIs, DepthAssumption DEF Way
  <2>2. Cardinality(Above(n)) <= kMaxPathDepth
    BY DEF Recoverable
  <2> QED
    BY <1>3, <2>1, <2>2
<1>5. Climbable(n, r, c)
  BY <1>3 DEF Climbable, Legible, Recoverable, Reachable
<1>6. PICK self, from, g : self = preferredName(view.names) /\ from = self.parent /\ g = Ascents(from)
  OBVIOUS
<1>7. self.name = n /\ KeptRef(from, objects[n].links[1]) /\ RefSound(from, objects[n].links[1]) /\ hasName(view)
  BY <1>6 DEF KeptView, NameIs
<1>8. /\ ascend(from) = g[kMaxPathDepth] /\ g[0] = [directories |-> <<>>, stoppedAt |-> from]
      /\ \A j \in 1..kMaxPathDepth : g[j] = climb(g[j - 1])
  BY <1>1, <1>6, <1>7, AscendIs
<1>9. g[kMaxPathDepth].directories \in Seq(Nat) /\ g[kMaxPathDepth].stoppedAt.record = kRootRecordNumber
  BY <1>1, <1>2, <1>4, <1>5, <1>7, <1>8, AscentArrives
<1>10. PICK d : d = ascend(from).directories
  OBVIOUS
<1>11. path.path = Append(d, n) /\ path.reachedRoot = TRUE
  BY <1>6, <1>7, <1>8, <1>9, <1>10 DEF resolveEntryPath
<1>12. path.path \in Seq(Nat)
  BY <1>1, <1>8, <1>9, <1>10, <1>11
<1>13. Spelled(path.path) = PathsTo(n, 1)
  BY <1>6, <1>7, <1>11, EntryPathIs
<1> QED
  BY <1>11, <1>12, <1>13, SpelledSame

LEMMA LiveEntryIs ==
  ASSUME ReadSound, KeptInv, TreeInv, NEW n \in Ids, Recoverable(n), Reachable(n), NEW view,
         view = readRecord(objects[n].slot), NEW e, e = entryFromRecord(view, resolveEntryPath(view))
  PROVE  view.error = "none" /\ isRecoverableFile(view) /\ LiveEntry(e, n)
<1>1. PICK o, s, path, content : /\ o = objects[n] /\ s = o.slot /\ path = resolveEntryPath(view)
                                 /\ content = contentOf(view)
  OBVIOUS
<1>2. n \in LiveIds /\ KeptRead /\ ObjectsInv /\ s \in UserSlots /\ o.dir = FALSE /\ HolderOf(s) = n
  BY <1>1, ObjectIs, HolderFacts DEF ReadSound, KeptRead, Recoverable, LiveIds
<1>3. Legible(n) /\ o.place = "base"
  BY <1>1 DEF Legible, Recoverable, Reachable
<1>4. KeptView(view, n, o)
  BY <1>1, <1>2, <1>3, LegibleShows
<1>5. /\ view.error = "none" /\ view.data = <<OwnData(o, n)>> /\ hasName(view) /\ view.isDirectory = FALSE
      /\ view.inUse = TRUE /\ view.grade = "valid" /\ view.number = s
  BY <1>1, <1>2, <1>3, <1>4 DEF KeptView
<1>6. view.data # <<>>
  <2>1. PICK x : x = OwnData(o, n)
    OBVIOUS
  <2>2. view.data = <<x>>
    BY <1>5, <2>1
  <2> QED
    BY <2>2
<1>7. isRecoverableFile(view)
  BY SMTT(60), <1>5, <1>6 DEF isRecoverableFile
<1>8. NameIs(preferredName(view.names), n, o.links[1])
  <2>1. s \in Slots /\ s \in Nat
    BY <1>2, NumbersAre
  <2>2. view = parseMftRecord(Block(s), s)
    BY <1>1, <1>5, <2>1, ReadIs DEF ReadSound
  <2>3. HolderShown(view, s, n)
    BY <1>2, <1>5, <2>2, ViewSound DEF ReadSound
  <2> QED
    BY <1>1, <1>5, <2>3 DEF HolderShown
<1>9. path.reachedRoot = TRUE /\ path.path = PathsTo(n, 1)
  BY <1>1, <1>4, <1>8, LivePath
<1>10. content.located = TRUE
  BY <1>1, <1>2, <1>5, OwnLocated
<1>11. stateOf(view, path) = "live" /\ gradeOf(view, path, content.located) = "valid"
  BY <1>5, <1>9, <1>10 DEF stateOf, gradeOf
<1>12. /\ e.path = path.path /\ e.state = stateOf(view, path) /\ e.grade = gradeOf(view, path, content.located)
       /\ e.from = HolderOf(view.number)
  BY <1>1 DEF entryFromRecord
<1> QED
  BY <1>2, <1>5, <1>7, <1>9, <1>11, <1>12 DEF LiveEntry

-----------------------------------------------------------------------------
(***************************************************************************)
(* The walk over the live files.                                           *)
(***************************************************************************)

(* A walk that has not failed has read every record behind it, and given every file whose
   record is behind it and whose directories can be read. *)
Seen ==
  /\ \A s \in UserSlots : s < number /\ ~Straddles(s) => Readable(s)
  /\ \A n \in Ids : Recoverable(n) /\ Reachable(n) /\ objects[n].slot < number =>
       \E i \in DOMAIN reported : LiveEntry(reported[i], n)

LiveInv ==
  /\ WalkInv /\ TreeInv /\ KeptVolume
  /\ phase = "host" => number = kFirstUserRecord
  /\ phase = "done" => number >= Records
  /\ phase \in {"walk", "done"} => Seen

(* What Seen says of the volume does not change when the volume does not. *)
SameSight ==
  /\ \A s : (Straddles(s)' <=> Straddles(s)) /\ (Readable(s)' <=> Readable(s))
  /\ \A n : (Recoverable(n)' <=> Recoverable(n)) /\ (Reachable(n)' <=> Reachable(n))
  /\ \A e, n : LiveEntry(e, n)' <=> LiveEntry(e, n)
  /\ objects' = objects /\ Ids' = Ids

LEMMA SightKept ==
  ASSUME UNCHANGED volumeVars
  PROVE  SameSight
<1>1. objects' = objects /\ layout' = layout /\ unreadable' = unreadable
  BY DEF volumeVars
<1>2. \A n, k : PathsTo(n, k)' = PathsTo(n, k)
  BY ONLY <1>1, ZenonT(90) DEF PathsTo
<1>3. \A s : SlotClusters(s)' = SlotClusters(s)
  BY <1>1 DEF SlotClusters
<1>4. \A s : (Straddles(s)' <=> Straddles(s)) /\ (Readable(s)' <=> Readable(s))
  BY <1>1, <1>3 DEF Straddles, Readable
<1>5. \A n : Above(n)' = Above(n)
  BY <1>2 DEF Above, Range
<1>6. \A n : Recoverable(n)' <=> Recoverable(n)
  BY <1>1, <1>4, <1>5 DEF Recoverable
<1>7. \A n : Reachable(n)' <=> Reachable(n)
  BY <1>1, <1>4, <1>5 DEF Reachable
<1>8. \A e, n : LiveEntry(e, n)' <=> LiveEntry(e, n)
  BY <1>2 DEF LiveEntry
<1>9. Ids' = Ids
  BY <1>1 DEF Ids
<1> QED
  BY <1>1, <1>4, <1>6, <1>7, <1>8, <1>9 DEF SameSight

LEMMA TreeKept ==
  ASSUME ObjectsInv, TreeInv, UNCHANGED volumeVars
  PROVE  TreeInv'
<1>1. objects' = objects
  BY DEF volumeVars
<1>2. Ids' = Ids /\ LiveIds' = LiveIds
  BY <1>1 DEF Ids, LiveIds
<1> QED
  BY <1>1, <1>2, TreeSame

LEMMA SeenStep ==
  ASSUME LiveInv, stepRecord, phase' # "failed"
  PROVE  Seen'
<1>1. PICK view, e, num : view = readRecord(number) /\ e = entryFromRecord(view, resolveEntryPath(view)) /\ num = number
  OBVIOUS
<1>2. /\ phase = "walk" /\ num < table.recordCount /\ number' = num + 1 /\ UNCHANGED volumeVars
      /\ view.error # "ioFailure"
      /\ reported' = IF view.error = "none" THEN reportRecord(view) ELSE reported
  BY <1>1 DEF stepRecord
<1>3. ReadSound /\ KeptInv /\ TreeInv /\ Seen /\ IsSeq(reported) /\ num \in Nat /\ num >= kFirstUserRecord
  BY <1>1, <1>2, VolumeSound, VolumeIsKept DEF LiveInv, WalkInv, ReadSound, EntriesInv
<1>4. num \in UserSlots /\ num \in Slots
  BY <1>2, <1>3, NumbersAre DEF UserSlots, ReadSound, Tabled
<1>5. SameSight
  BY <1>2, SightKept
<1>6. ASSUME NEW s \in UserSlots, s < num + 1, ~Straddles(s)
      PROVE  Readable(s)
  <2>1. s \in Nat
    BY NumbersAre
  <2>2. CASE s < num
    BY <1>1, <1>3, <1>6, <2>2 DEF Seen
  <2>3. CASE s = num
    <3>1. view = IF Readable(s) THEN parseMftRecord(Block(s), s) ELSE Failed("ioFailure")
      BY <1>1, <1>3, <1>4, <1>6, <2>3, ReadFound DEF ReadSound
    <3>2. Failed("ioFailure").error = "ioFailure"
      BY DEF Failed
    <3> QED
      BY <1>2, <3>1, <3>2
  <2> QED
    BY <1>3, <1>6, <2>1, <2>2, <2>3
<1>7. PICK old, new : old = reported /\ new = reported'
  OBVIOUS
<1>8. new = old \/ (new = Append(old, e) /\ view.error = "none" /\ isRecoverableFile(view))
  BY <1>1, <1>2, <1>7 DEF reportRecord
<1>9. \A i \in DOMAIN old : i \in DOMAIN new /\ new[i] = old[i]
  <2>1. old \in Seq(Range(old)) /\ IsSeq(old)
    BY <1>3, <1>7 DEF IsSeq
  <2>2. new = Append(old, e) => \A i \in 1..Len(old) : i \in DOMAIN new /\ new[i] = old[i]
    BY <2>1
  <2> QED
    BY <1>8, <2>1, <2>2, SeqIs
<1>10. ASSUME NEW n \in Ids, Recoverable(n), Reachable(n), objects[n].slot < num + 1
       PROVE  \E i \in DOMAIN new : LiveEntry(new[i], n)
  <2>1. objects[n].slot \in Nat
    BY <1>3, ObjectIs, NumbersAre DEF ReadSound
  <2>2. CASE objects[n].slot < num
    <3>1. PICK i \in DOMAIN old : LiveEntry(old[i], n)
      BY <1>1, <1>3, <1>7, <1>10, <2>2 DEF Seen
    <3> QED
      BY <1>9, <3>1
  <2>3. CASE objects[n].slot = num
    <3>1. view = readRecord(objects[n].slot)
      BY <1>1, <2>3
    <3>2. view.error = "none" /\ isRecoverableFile(view) /\ LiveEntry(e, n)
      BY <1>1, <1>3, <1>10, <3>1, LiveEntryIs
    <3>3. new = Append(old, e)
      BY <1>1, <1>2, <1>7, <3>2 DEF reportRecord
    <3>4. Len(old) + 1 \in DOMAIN new /\ new[Len(old) + 1] = e
      <4>1. old \in Seq(Range(old))
        BY <1>3, <1>7 DEF IsSeq
      <4> QED
        BY <3>3, <4>1
    <3> QED
      BY <3>2, <3>4
  <2> QED
    BY <1>3, <1>10, <2>1, <2>2, <2>3
<1> QED
  BY <1>2, <1>5, <1>6, <1>7, <1>10 DEF Seen, SameSight

LEMMA LiveStep ==
  ASSUME LiveInv, stepRecord
  PROVE  LiveInv'
<1>1. WalkInv'
  BY StepWalk DEF LiveInv
<1>2. UNCHANGED volumeVars /\ phase = "walk" /\ number' = number + 1 /\ UNCHANGED table /\ phase' \in {"failed", "done", "walk"}
      /\ (phase' = "done" => number + 1 >= table.recordCount)
  BY DEF stepRecord
<1>3. TreeInv' /\ KeptVolume'
  BY <1>2, TreeKept, KeptSame DEF LiveInv, WalkInv, VolumeInv
<1>4. phase' # "failed" => Seen'
  BY SeenStep
<1>5. phase' = "done" => number' >= Records
  BY <1>2 DEF LiveInv, WalkInv, Tabled
<1> QED
  BY <1>1, <1>2, <1>3, <1>4, <1>5 DEF LiveInv

(* Nothing is behind a walk that begins. *)
LEMMA SeenFirst ==
  ASSUME ObjectsInv, number = kFirstUserRecord
  PROVE  Seen
<1>1. ASSUME NEW s \in UserSlots PROVE ~(s < number)
  BY NumbersAre DEF UserSlots
<1>2. \A n \in Ids : objects[n].slot \in UserSlots
  BY ObjectIs
<1> QED
  BY <1>1, <1>2 DEF Seen

LEMMA LiveOpen ==
  ASSUME LiveInv, openTable
  PROVE  LiveInv'
<1>1. WalkInv'
  BY OpenWalk DEF LiveInv
<1>2. /\ UNCHANGED volumeVars /\ phase = "host" /\ phase' \in {"walk", "failed"}
      /\ number' = number /\ reported' = reported
  BY DEF openTable
<1>3. TreeInv' /\ KeptVolume'
  BY <1>2, TreeKept, KeptSame DEF LiveInv, WalkInv, VolumeInv
<1>4. Seen
  BY <1>2, SeenFirst DEF LiveInv, WalkInv, VolumeInv
<1>5. Seen'
  BY <1>2, <1>4, SightKept DEF Seen, SameSight
<1> QED
  BY <1>1, <1>2, <1>3, <1>5 DEF LiveInv

LEMMA LiveHost ==
  ASSUME LiveInv, Host
  PROVE  LiveInv'
<1>1. WalkInv'
  BY HostWalk DEF LiveInv
<1>2. VolumeChanges /\ phase = "host" /\ phase' = "host" /\ number' = number
  BY DEF Host
<1>3. TreeInv' /\ KeptVolume'
  BY <1>2, TreeStep, KeptStep DEF LiveInv, WalkInv
<1> QED
  BY <1>1, <1>2, <1>3 DEF LiveInv

LEMMA LiveStill ==
  ASSUME LiveInv, UNCHANGED vars
  PROVE  LiveInv'
<1>1. WalkInv'
  BY StillWalk DEF LiveInv
<1>2. UNCHANGED volumeVars /\ phase' = phase /\ number' = number /\ reported' = reported
  BY DEF vars
<1>3. TreeInv' /\ KeptVolume'
  BY <1>2, TreeKept, KeptSame DEF LiveInv, WalkInv, VolumeInv
<1>4. Seen => Seen'
  BY <1>2, SightKept DEF Seen, SameSight
<1> QED
  BY <1>1, <1>2, <1>3, <1>4 DEF LiveInv

LEMMA LiveFirst ==
  ASSUME Init
  PROVE  LiveInv
<1>1. WalkInv
  BY InitWalk
<1>2. phase = "host" /\ number = kFirstUserRecord /\ objects = FirstObjects /\ running = TRUE
  BY DEF Init, VolumeInit
<1>3. TreeInv
  BY <1>2, TreeFirst
<1>4. KeptVolume
  BY <1>1, <1>2 DEF KeptVolume, WalkInv
<1> QED
  BY <1>1, <1>2, <1>3, <1>4 DEF LiveInv

LEMMA AboveLives ==
  ASSUME ObjectsInv, TreeInv, NEW n \in LiveIds
  PROVE  Above(n) \subseteq LiveIds
<1>1. PICK r, c, path : Way(n, r, c) /\ PathSpells(n, r, c, path) /\ path = PathsTo(n, 1)
  BY WayExists
<1>2. r \in Nat /\ \A i \in 0..(r - 1) : c[i] \in LiveIds
  BY <1>1, ObjectIs DEF Way
<1>3. path \in Seq(Nat) /\ Len(path) = r + 1 /\ path[r + 1] = n /\ \A i \in 0..(r - 1) : path[r - i] = c[i]
  BY <1>1 DEF PathSpells
<1>4. ASSUME NEW k \in 1..(r + 1), path[k] # n PROVE path[k] \in LiveIds
  <2>1. PICK i : i = r - k
    OBVIOUS
  <2>2. i \in 0..(r - 1) /\ r - i = k
    BY <1>2, <1>3, <1>4, <2>1
  <2> QED
    BY <1>2, <1>3, <2>2
<1>5. DOMAIN path = 1..(r + 1)
  BY <1>3
<1> QED
  BY <1>1, <1>4, <1>5 DEF Above, Range

LEMMA LiveReported ==
  ASSUME LiveInv, phase = "done", NEW n \in Ids, Recoverable(n)
  PROVE  \E e \in Range(reported) :
           /\ Cardinality({i \in DOMAIN reported : reported[i].from = n}) = 1
           /\ e.from = n /\ e.state = "live" /\ e.grade = "valid"
           /\ e.path = PathsTo(n, 1) /\ HoldsContent(e, n)
<1>1. ObjectsInv /\ TreeInv /\ Seen /\ EntriesInv /\ number >= Records /\ number \in Nat /\ n \in LiveIds
  BY DEF LiveInv, WalkInv, VolumeInv, Recoverable, LiveIds
<1>2. ASSUME NEW d \in Ids, ~Straddles(objects[d].slot)
      PROVE  Readable(objects[d].slot) /\ objects[d].slot < number
  <2>1. objects[d].slot \in UserSlots
    BY <1>1, ObjectIs
  <2>2. objects[d].slot < number
    BY <1>1, <2>1, NumbersAre DEF UserSlots
  <2> QED
    BY <1>1, <1>2, <2>1, <2>2 DEF Seen
<1>3. Reachable(n)
  <2>1. \A d \in Above(n) : d \in Ids /\ ~Straddles(objects[d].slot)
    BY <1>1, AboveLives DEF Recoverable, LiveIds
  <2> QED
    BY <1>2, <2>1 DEF Recoverable, Reachable
<1>4. PICK i \in DOMAIN reported : LiveEntry(reported[i], n)
  <2>1. objects[n].slot < number
    BY <1>2 DEF Recoverable
  <2> QED
    BY <1>1, <1>3, <2>1 DEF Seen
<1>5. HoldsContent(reported[i], n)
  BY <1>1, <1>4 DEF EntriesInv, EntryOk, LiveEntry
<1>6. {j \in DOMAIN reported : reported[j].from = n} = {i}
  BY <1>1, <1>4 DEF EntriesInv, LiveEntry
<1>7. Cardinality({i}) = 1
  BY FS_Singleton
<1>8. reported[i] \in Range(reported)
  BY DEF Range
<1> QED
  BY <1>4, <1>5, <1>6, <1>7, <1>8 DEF LiveEntry

(* No live file is lost: when the walk over the table ends without the device failing it,
   every live file whose record and directories were written whole, that MftTable can
   find and whose run list has no hole, has been reported exactly once, as live and valid,
   at its first long name's place and with all of its bytes, for every layout of the table
   and whatever the host did, was cut short in, or lost elsewhere.  EntryEnumeration.cpp,
   EntryPath.cpp, EntryFromRecord.cpp. *)
THEOREM LiveFilesAreReportedHolds == Spec => []LiveFilesAreReported
<1>1. Init => LiveInv
  BY LiveFirst
<1>2. LiveInv /\ [Next]_vars => LiveInv'
  BY LiveHost, LiveOpen, LiveStep, LiveStill DEF Next
<1>3. LiveInv => LiveFilesAreReported
  BY LiveReported DEF LiveFilesAreReported
<1> QED
  BY <1>1, <1>2, <1>3, PTL DEF Spec
==============================================================================
