--------------------------- MODULE ClusterWalkProofs ---------------------------
(***************************************************************************)
(* What holds of the directory walk on every volume, of any size and with  *)
(* any slots in its directories: it opens each directory once, so it opens *)
(* no more than the volume has clusters; and every extent it gives out     *)
(* lies inside the data region.  On FAT32, a removed file that kept its    *)
(* slot and lay in one run comes back with that run, and a finished walk   *)
(* gives the live files in reach and no other as valid, each once.         *)
(***************************************************************************)
EXTENDS ClusterWalk, NatFacts, FiniteSetTheorems, SequenceTheorems, TLAPS

LEMMA FirstIsACluster == kFirstCluster \in Clusters
BY GeometryAssumption DEF kFirstCluster, Clusters

(* Sequences whose elements have no common type: any set they all lie in will do. *)
LEMMA SequenceOver ==
  ASSUME NEW s, IsSequence(s), NEW S, \A i \in 1..Len(s) : s[i] \in S
  PROVE  s \in Seq(S) /\ DOMAIN s = 1..Len(s) /\ Len(s) \in Nat
<1>1. DOMAIN s = 1..Len(s) /\ Len(s) \in Nat
  BY DEF IsSequence
<1>2. s \in [1..Len(s) -> S]
  BY <1>1 DEF IsSequence
<1> QED
  BY <1>1, <1>2

LEMMA SequenceOf ==
  ASSUME NEW s, IsSequence(s)
  PROVE  DOMAIN s = 1..Len(s) /\ Len(s) \in Nat
BY DEF IsSequence

LEMMA TypedIsSequence ==
  ASSUME NEW S, NEW s \in Seq(S)
  PROVE  IsSequence(s) /\ DOMAIN s = 1..Len(s)
<1>1. s \in [1..Len(s) -> S] /\ Len(s) \in Nat
  BY LenProperties
<1> QED
  BY <1>1 DEF IsSequence

LEMMA AppendTyped ==
  ASSUME NEW S, NEW s \in Seq(S), NEW x \in S
  PROVE  /\ IsSequence(Append(s, x))
         /\ DOMAIN Append(s, x) = 1..(Len(s) + 1)
         /\ \A i \in 1..Len(s) : Append(s, x)[i] = s[i]
         /\ Append(s, x)[Len(s) + 1] = x
<1>1. Append(s, x) \in Seq(S) /\ Len(Append(s, x)) = Len(s) + 1 /\ Len(s) \in Nat
  OBVIOUS
<1>2. IsSequence(Append(s, x))
  BY <1>1, TypedIsSequence
<1>3. \A i \in 1..Len(s) : Append(s, x)[i] = s[i]
  OBVIOUS
<1>4. Append(s, x)[Len(s) + 1] = x
  OBVIOUS
<1> QED
  BY <1>1, <1>2, <1>3, <1>4

LEMMA FrontTyped ==
  ASSUME NEW S, NEW s \in Seq(S), s # <<>>
  PROVE  /\ IsSequence(Front(s))
         /\ Len(s) \in 1..Len(s)
         /\ DOMAIN Front(s) = 1..(Len(s) - 1)
         /\ \A i \in 1..(Len(s) - 1) : Front(s)[i] = s[i]
<1> DEFINE n == Len(s) - 1
           front == SubSeq(s, 1, n)
<1>1. Len(s) \in Nat \ {0}
  OBVIOUS
<1>2. n \in Nat /\ \A i \in 1..n : s[i] \in S
  BY <1>1
<1>3. /\ front \in Seq(S)
      /\ Len(front) = IF 1 <= n THEN n - 1 + 1 ELSE 0
      /\ \A i \in 1..(n - 1 + 1) : front[i] = s[1 + i - 1]
  <2> HIDE DEF n
  <2> QED
    BY <1>2, SubSeqProperties
<1>4. Len(front) = n /\ \A i \in 1..n : front[i] = s[i]
  <2> HIDE DEF n, front
  <2>1. n - 1 + 1 = n /\ \A i \in 1..n : 1 + i - 1 = i
    BY <1>2
  <2>2. Len(front) = n
    BY <1>2, <1>3, <2>1
  <2>3. ASSUME NEW i \in 1..n PROVE front[i] = s[i]
    <3>1. front[i] = s[1 + i - 1]
      BY <1>2, <1>3, <2>1
    <3> QED
      BY <3>1, <2>1
  <2> QED
    BY <2>2, <2>3
<1>5. IsSequence(front) /\ DOMAIN front = 1..n
  BY <1>3, <1>4, TypedIsSequence
<1>6. Front(s) = front
  BY DEF Front
<1> QED
  BY <1>1, <1>4, <1>5, <1>6

LEMMA AppendSequence ==
  ASSUME NEW s, IsSequence(s), NEW x
  PROVE  /\ IsSequence(Append(s, x))
         /\ DOMAIN Append(s, x) = 1..(Len(s) + 1)
         /\ \A i \in 1..Len(s) : Append(s, x)[i] = s[i]
         /\ Append(s, x)[Len(s) + 1] = x
<1> DEFINE S == {s[i] : i \in 1..Len(s)} \cup {x}
<1>1. x \in S /\ \A i \in 1..Len(s) : s[i] \in S
  OBVIOUS
<1> HIDE DEF S
<1>2. s \in Seq(S)
  BY <1>1, SequenceOver
<1> QED
  BY <1>1, <1>2, AppendTyped

LEMMA FrontSequence ==
  ASSUME NEW s, IsSequence(s), s # <<>>
  PROVE  /\ IsSequence(Front(s))
         /\ Len(s) \in 1..Len(s)
         /\ DOMAIN Front(s) = 1..(Len(s) - 1)
         /\ \A i \in 1..(Len(s) - 1) : Front(s)[i] = s[i]
<1> DEFINE S == {s[i] : i \in 1..Len(s)}
<1>1. \A i \in 1..Len(s) : s[i] \in S
  OBVIOUS
<1> HIDE DEF S
<1>2. s \in Seq(S)
  BY <1>1, SequenceOver
<1> QED
  BY <1>2, FrontTyped

(* Taking up the last directory of the worklist. *)
LEMMA TakeBack ==
  ASSUME WorklistInv, phase = "walking", pending # <<>>, phase' \in {"walking", "failed"},
         pending' = Front(pending), opened' = Append(opened, Last(pending).cluster),
         visited' = visited
  PROVE  WorklistInv'
<1>1. /\ IsSequence(pending') /\ Len(pending) \in 1..Len(pending)
      /\ DOMAIN pending' = 1..(Len(pending) - 1)
      /\ \A i \in 1..(Len(pending) - 1) : pending'[i] = pending[i]
  BY FrontSequence DEF WorklistInv
<1>2. DOMAIN pending = 1..Len(pending) /\ Len(pending) \in Nat
  BY SequenceOf DEF WorklistInv
<1>3. Last(pending).cluster \in visited /\ \A j \in DOMAIN opened : opened[j] # Last(pending).cluster
  BY <1>1, <1>2 DEF WorklistInv, Last
<1>4. opened' \in Seq(visited')
  BY <1>3 DEF WorklistInv
<1>5. /\ DOMAIN opened' = 1..(Len(opened) + 1)
      /\ DOMAIN opened = 1..Len(opened) /\ Len(opened) \in Nat
      /\ \A j \in 1..Len(opened) : opened'[j] = opened[j]
      /\ opened'[Len(opened) + 1] = Last(pending).cluster
  BY <1>3 DEF WorklistInv
<1>6. ASSUME NEW i \in DOMAIN pending'
      PROVE  pending'[i].cluster \in visited /\ \A j \in DOMAIN opened' : opened'[j] # pending'[i].cluster
  <2>1. i \in DOMAIN pending /\ pending'[i] = pending[i] /\ i # Len(pending)
    BY <1>1, <1>2
  <2>2. pending[i].cluster # Last(pending).cluster
    BY <2>1, <1>1, <1>2 DEF WorklistInv, Last
  <2> QED
    BY <2>1, <2>2, <1>5 DEF WorklistInv
<1>7. \A i, j \in DOMAIN pending' : pending'[i].cluster = pending'[j].cluster => i = j
  BY <1>1, <1>2 DEF WorklistInv
<1>8. DirectoriesOpenedOnce'
  BY <1>3, <1>5 DEF WorklistInv, DirectoriesOpenedOnce
<1> QED
  BY <1>1, <1>4, <1>6, <1>7, <1>8 DEF WorklistInv

(* A directory put on the worklist, or passed by. *)
LEMMA EnqueueKeeps ==
  ASSUME WorklistInv, phase = "walking", NEW id, NEW first, NEW deleted,
         enqueue(id, first, deleted), phase' = phase, opened' = opened
  PROVE  WorklistInv'
<1>1. CASE UNCHANGED <<visited, pending>>
  BY <1>1 DEF WorklistInv, DirectoriesOpenedOnce, IsSequence
<1>2. CASE walkable(cursor, first)
  <2> DEFINE c == [path |-> Append(cursor.path, id), cluster |-> first, depth |-> cursor.depth + 1,
                   underDeleted |-> cursor.underDeleted \/ deleted]
  <2>1. /\ first \in Clusters /\ first \notin visited
        /\ visited' = visited \cup {first} /\ pending' = Append(pending, c)
    BY <1>2 DEF enqueue, walkable, isDataCluster
  <2>2. c.cluster = first
    OBVIOUS
  <2> HIDE DEF c
  <2>3. /\ IsSequence(pending') /\ DOMAIN pending' = 1..(Len(pending) + 1)
        /\ \A i \in 1..Len(pending) : pending'[i] = pending[i]
        /\ pending'[Len(pending) + 1] = c
    BY <2>1, AppendSequence DEF WorklistInv
  <2>4. DOMAIN pending = 1..Len(pending) /\ Len(pending) \in Nat
    BY SequenceOf DEF WorklistInv
  <2>5. opened' \in Seq(visited')
    BY <2>1 DEF WorklistInv
  <2>6. \A j \in DOMAIN opened : opened[j] \in visited
    BY DEF WorklistInv
  <2>7. ASSUME NEW i \in DOMAIN pending'
        PROVE  pending'[i].cluster \in visited' /\ \A j \in DOMAIN opened' : opened'[j] # pending'[i].cluster
    BY <2>1, <2>2, <2>3, <2>4, <2>6 DEF WorklistInv
  <2>8. ASSUME NEW i \in DOMAIN pending', NEW j \in DOMAIN pending',
               pending'[i].cluster = pending'[j].cluster
        PROVE  i = j
    BY <2>1, <2>2, <2>3, <2>4, <2>8 DEF WorklistInv
  <2>9. visited' \subseteq Clusters /\ DirectoriesOpenedOnce'
    BY <2>1 DEF WorklistInv, DirectoriesOpenedOnce
  <2> QED
    BY <2>3, <2>5, <2>7, <2>8, <2>9 DEF WorklistInv
<1> QED
  BY <1>1, <1>2 DEF enqueue

LEMMA SameWorklist ==
  ASSUME WorklistInv, UNCHANGED <<pending, visited, opened>>,
         phase' = phase \/ phase' \in {"walking", "walked"}
  PROVE  WorklistInv'
BY DEF WorklistInv, DirectoriesOpenedOnce, IsSequence

(* The last set of a directory, or the one before the next. *)
LEMMA FinishKeeps ==
  ASSUME WorklistInv, phase = "walking", finish, phase' = phase, opened' = opened
  PROVE  WorklistInv'
<1>1. CASE UNCHANGED <<visited, pending>>
  BY <1>1, SameWorklist
<1>2. CASE enqueue(set.file.id, set.stream.cluster, FALSE)
  BY <1>2, EnqueueKeeps
<1> QED
  BY <1>1, <1>2 DEF finish, report

LEMMA StepKeepsWorklist == WorklistInv /\ [Next]_vars => WorklistInv'
<1> SUFFICES ASSUME WorklistInv, [Next]_vars PROVE WorklistInv'
  OBVIOUS
<1>1. CASE UNCHANGED walkVars
  BY <1>1, SameWorklist DEF walkVars
<1>2. CASE start
  <2>1. /\ visited' = {kFirstCluster} /\ opened' = <<>> /\ phase' = "walking"
        /\ pending' = <<[NoCursor EXCEPT !.cluster = kFirstCluster]>>
    BY <1>2 DEF start, WorklistInv
  <2>2. pending'[1].cluster = kFirstCluster /\ DOMAIN pending' = {1} /\ IsSequence(pending')
    BY <2>1 DEF NoCursor, IsSequence
  <2>3. opened' \in Seq(visited') /\ DOMAIN opened' = {}
    BY <2>1
  <2> QED
    BY <2>1, <2>2, <2>3, FirstIsACluster DEF WorklistInv, DirectoriesOpenedOnce
<1>3. CASE walkOne
  BY <1>3, TakeBack DEF walkOne
<1>4. CASE skipUnreadableDirectory
  BY <1>4, TakeBack DEF skipUnreadableDirectory
<1>5. CASE shortEntry
  <2>1. CASE UNCHANGED <<visited, pending>>
    BY <1>5, <2>1, SameWorklist DEF shortEntry
  <2>2. CASE enqueue(Head(slots).id, Head(slots).cluster, Head(slots).deleted)
    BY <1>5, <2>2, EnqueueKeeps DEF shortEntry, Visiting
  <2> QED
    BY <1>5, <2>1, <2>2 DEF shortEntry, report
<1>6. CASE collectFragment
  BY <1>6, SameWorklist DEF collectFragment
<1>7. CASE startSet
  BY <1>7, FinishKeeps DEF startSet, Visiting
<1>8. CASE absorb
  BY <1>8, SameWorklist DEF absorb
<1>9. CASE finishDirectory
  BY <1>9, FinishKeeps DEF finishDirectory
<1>10. CASE finishWalk
  BY <1>10, SameWorklist DEF finishWalk
<1> QED
  BY <1>1, <1>2, <1>3, <1>4, <1>5, <1>6, <1>7, <1>8, <1>9, <1>10 DEF Next, Walk, vars

LEMMA WorklistAlways == Spec => []WorklistInv
<1>1. Init => WorklistInv
  <2> SUFFICES ASSUME Init PROVE WorklistInv
    OBVIOUS
  <2>1. pending = <<>> /\ visited = {} /\ opened = <<>> /\ DOMAIN pending = {} /\ DOMAIN opened = {}
    BY DEF Init
  <2>2. IsSequence(pending) /\ opened \in Seq(visited)
    BY <2>1 DEF IsSequence
  <2> QED
    BY <2>1, <2>2 DEF WorklistInv, DirectoriesOpenedOnce
<1> QED
  BY <1>1, StepKeepsWorklist, PTL DEF Spec

(* No directory is passed over twice, whatever the volume's slots and chains say
   (fs/fat/DirectoryWalk.cpp and fs/exfat/EntrySetWalk.cpp, enqueue). *)
THEOREM DirectoriesAreOpenedOnce == Spec => []DirectoriesOpenedOnce
<1>1. WorklistInv => DirectoriesOpenedOnce
  BY DEF WorklistInv
<1> QED
  BY <1>1, WorklistAlways, PTL

(* So the worklist runs dry: driveWorklist takes up at most as many directories as
   the volume has clusters. *)
THEOREM WalkIsBounded == Spec => [](Len(opened) <= TotalClusters)
<1>1. WorklistInv => Len(opened) <= TotalClusters
  <2> SUFFICES ASSUME WorklistInv PROVE Len(opened) <= TotalClusters
    OBVIOUS
  <2> DEFINE D == 1..Len(opened)
  <2>1. Len(opened) \in Nat /\ opened \in [D -> Clusters]
    BY DEF WorklistInv
  <2>2. opened \in Injection(D, Clusters)
    BY <2>1 DEF WorklistInv, DirectoriesOpenedOnce, Injection, IsInjective
  <2>3. IsFiniteSet(Clusters) /\ Cardinality(Clusters) = TotalClusters
    BY FS_Interval, GeometryAssumption DEF Clusters, kFirstCluster
  <2>4. Cardinality(D) = Len(opened)
    BY <2>1, FS_Interval, SMTT(60)
  <2> QED
    BY <2>2, <2>3, <2>4, FS_Injection
<1> QED
  BY <1>1, WorklistAlways, PTL

(* The run guessed for a deleted file, or taken from NoFatChain, lies inside the
   volume's clusters whatever size its slot claims (extentsAssumingContiguous). *)
THEOREM GuessStaysInside ==
  ASSUME NEW first \in Clusters, NEW size \in Nat
  PROVE  \A i \in DOMAIN extentsAssumingContiguous(first, size) :
           LET e == extentsAssumingContiguous(first, size)[i]
           IN /\ e.len > 0 /\ e.at >= DataOffset
              /\ e.at + e.len <= clusterOffset(kFirstCluster + TotalClusters)
<1> DEFINE n == (size - 1) \div BytesPerCluster + 1
           run == [at |-> clusterOffset(first), len |-> size]
<1>1. CASE size = 0 \/ first + n > kFirstCluster + TotalClusters
  <2>1. extentsAssumingContiguous(first, size) = <<>>
    BY <1>1 DEF extentsAssumingContiguous
  <2> QED
    BY <2>1
<1>2. CASE size # 0 /\ first + n <= kFirstCluster + TotalClusters
  <2>1. TotalClusters \in Nat /\ BytesPerCluster \in Nat /\ BytesPerCluster > 0 /\ DataOffset \in Nat
    BY GeometryAssumption
  <2>2. first \in Nat /\ first - kFirstCluster \in Nat /\ size - 1 \in Nat
    BY <1>2, <2>1 DEF Clusters, kFirstCluster
  <2>3. n \in Nat /\ size <= n * BytesPerCluster
    BY <2>1, <2>2
  <2>4. (first - kFirstCluster) * BytesPerCluster \in Nat
    BY <2>1, <2>2
  <2>5. (first - kFirstCluster + n) * BytesPerCluster <= TotalClusters * BytesPerCluster
    BY <1>2, <2>1, <2>2, <2>3 DEF kFirstCluster
  <2>6. (first - kFirstCluster + n) * BytesPerCluster
          = (first - kFirstCluster) * BytesPerCluster + n * BytesPerCluster
    BY <2>1, <2>2, <2>3
  <2>7. clusterOffset(first) >= DataOffset /\ clusterOffset(first) \in Nat
    BY <2>1, <2>4 DEF clusterOffset
  <2>8. clusterOffset(first) + size <= clusterOffset(kFirstCluster + TotalClusters)
    BY <2>1, <2>2, <2>3, <2>4, <2>5, <2>6 DEF clusterOffset, kFirstCluster
  <2>9. extentsAssumingContiguous(first, size) = <<run>>
    BY <1>2, <2>1, <2>2, <2>3, ~(first + n > kFirstCluster + TotalClusters)
       DEF extentsAssumingContiguous, kFirstCluster
  <2> QED
    BY <1>2, <2>7, <2>8, <2>9
<1>3. n \in Int /\ first \in Int
  BY GeometryAssumption DEF Clusters, kFirstCluster
<1> QED
  BY <1>1, <1>2, <1>3, GeometryAssumption DEF kFirstCluster

-----------------------------------------------------------------------------
(***************************************************************************)
(* Following a chain.                                                      *)
(***************************************************************************)

LEMMA GeometryIs ==
  /\ TotalClusters \in Nat /\ TotalClusters > 0 /\ BytesPerCluster \in Nat /\ BytesPerCluster > 0
  /\ DataOffset \in Nat /\ SlotsPerCluster \in Nat /\ SlotsPerCluster >= 3
  /\ kFirstCluster = 2 /\ Bad \in Nat /\ kEndOfChain \in Nat
  /\ \A c : c \in Clusters <=> c \in Nat /\ 2 <= c /\ c < 2 + TotalClusters
  /\ \A c \in Clusters : c < kEndOfChain
<1>1. /\ TotalClusters \in Nat /\ TotalClusters > 0 /\ BytesPerCluster \in Nat /\ BytesPerCluster > 0
      /\ DataOffset \in Nat /\ SlotsPerCluster \in Nat /\ SlotsPerCluster >= 3
  <2>1. TotalClusters \in Nat \ {0} /\ BytesPerCluster \in Nat \ {0} /\ DataOffset \in Nat
    BY ONLY GeometryAssumption
  <2>2. SlotsPerCluster \in Nat /\ SlotsPerCluster >= 3
    BY ONLY VolumeAssumption
  <2> QED
    BY ONLY <2>1, <2>2
<1>2. kFirstCluster = 2 /\ Bad = 2 + TotalClusters /\ kEndOfChain = 2 + TotalClusters + 1
  BY DEF kFirstCluster, Bad, kEndOfChain
<1>3. \A c : c \in Clusters <=> c \in Nat /\ 2 <= c /\ c < 2 + TotalClusters
  BY ONLY <1>1, <1>2 DEF Clusters
<1> QED
  BY ONLY <1>1, <1>2, <1>3

LEMMA Distributed ==
  ASSUME NEW a \in Nat, NEW b \in Nat, NEW c \in Nat
  PROVE  (a + b) * c = a * c + b * c /\ a * c \in Nat
OBVIOUS

LEMMA FunctionIsSeq ==
  ASSUME NEW S, NEW n \in Nat, NEW s \in [1..n -> S]
  PROVE  s \in Seq(S) /\ Len(s) = n /\ DOMAIN s = 1..n
OBVIOUS

Moved(t, here) == IF isDataCluster(here) THEN t[here] ELSE here

Led(t, first, at) ==
  /\ at[0] = first /\ \A n \in 1..TotalClusters : at[n] = Moved(t, at[n - 1])

LEMMA StepsAre ==
  ASSUME NEW t \in [Clusters -> Nat], NEW first \in Nat
  PROVE  \E at \in [0..TotalClusters -> Nat] :
           Led(t, first, at) /\ Steps(t, first) = [n \in 1..(TotalClusters + 1) |-> at[n - 1]]
<1> DEFINE T == TotalClusters
           Is(f) == f = [n \in 0..T |-> IF n = 0 THEN first ELSE Moved(t, f[n - 1])]
           at == CHOOSE f : Is(f)
           step == [n \in 1..T |-> [v \in Nat |-> Moved(t, v)]]
<1>1. T \in Nat /\ \A v \in Nat : Moved(t, v) \in Nat
  BY GeometryIs DEF Moved, isDataCluster
<1>2. step \in [1..T -> [Nat -> Nat]]
  BY <1>1
<1>3. PICK g \in [0..T -> Nat] : g[0] = first /\ \A k \in 1..T : g[k] = step[k][g[k - 1]]
  <2>1. T \in Nat
    BY <1>1
  <2> HIDE DEF step, T
  <2>2. Recursive(Nat, first, T, step)
    BY ONLY <1>2, <2>1, first \in Nat, HasRecursion
  <2> QED
    BY ONLY <2>2, Zenon DEF Recursive
<1>4. \A k \in 1..T : k - 1 \in 0..T /\ k \in 0..T /\ k # 0
  BY <1>1
<1>5. Is(g)
  <2>1. \A k \in 1..T : g[k] = Moved(t, g[k - 1])
    BY <1>3, <1>4
  <2>2. \A k \in 0..T : k = 0 \/ k \in 1..T
    BY <1>1
  <2> HIDE DEF T
  <2> QED
    BY <1>3, <2>1, <2>2
<1>6. Is(at)
  <2> HIDE DEF Is
  <2> QED
    BY <1>5
<1>7. Steps(t, first) = [n \in 1..(T + 1) |-> at[n - 1]]
  BY Zenon DEF Steps, Moved
<1> HIDE DEF at
<1>8. at[0] = first /\ \A k \in 1..T : at[k] = Moved(t, at[k - 1])
  <2>1. 0 \in 0..T
    BY <1>1
  <2> HIDE DEF T
  <2> QED
    BY <1>4, <1>6, <2>1
<1> DEFINE S == {k \in Nat : k <= T => at[k] \in Nat}
<1>9. 0 \in S
  BY <1>8
<1>10. ASSUME NEW k \in S PROVE k + 1 \in S
  <2> SUFFICES ASSUME k + 1 <= T PROVE at[k + 1] \in Nat
    OBVIOUS
  <2>1. k + 1 \in 1..T /\ (k + 1) - 1 = k /\ at[k] \in Nat
    BY <1>1
  <2> QED
    BY <1>1, <1>8, <2>1
<1>11. S = Nat
  <2>1. S \in SUBSET Nat
    OBVIOUS
  <2> HIDE DEF S
  <2> QED
    BY <1>9, <1>10, <2>1, SetInduction
<1>12. \A k \in 0..T : at[k] \in Nat
  <2>1. ASSUME NEW k \in 0..T PROVE at[k] \in Nat
    <3>1. k \in Nat /\ k <= T
      BY <1>1
    <3>2. k \in S
      BY <1>11, <3>1
    <3> QED
      BY <3>1, <3>2
  <2> QED
    BY <2>1
<1>13. at \in [0..T -> Nat]
  BY <1>6, <1>12
<1> QED
  BY <1>7, <1>8, <1>13 DEF Led

(* Where a chain leaves the data region. *)
ChainUpTo(t, first, at, m, chain) ==
  /\ m \in 0..TotalClusters /\ at \in [0..TotalClusters -> Nat] /\ Led(t, first, at)
  /\ \A k \in 0..(m - 1) : at[k] \in Clusters
  /\ at[m] \notin Clusters
  /\ chain \in Seq(Clusters) /\ Len(chain) = m /\ \A k \in 1..m : chain[k] = at[k - 1]

LEMMA ChainIs ==
  ASSUME NEW t \in [Clusters -> Nat], NEW first \in Nat
  PROVE  \/ chainFrom(t, first) = <<>>
         \/ \E at, m : ChainUpTo(t, first, at, m, chainFrom(t, first))
<1>1. PICK at \in [0..TotalClusters -> Nat] :
        Led(t, first, at) /\ Steps(t, first) = [n \in 1..(TotalClusters + 1) |-> at[n - 1]]
  BY StepsAre
<1>2. PICK s : s = Steps(t, first)
  OBVIOUS
<1>3. TotalClusters \in Nat /\ TotalClusters > 0
  BY GeometryIs
<1>4. s \in [1..(TotalClusters + 1) -> Nat] /\ \A n \in 1..(TotalClusters + 1) : s[n] = at[n - 1]
  <2>1. \A n \in 1..(TotalClusters + 1) : n - 1 \in 0..TotalClusters
    BY <1>3
  <2> QED
    BY <1>1, <1>2, <2>1
<1>5. s \in Seq(Nat) /\ Len(s) = TotalClusters + 1
  <2>1. TotalClusters + 1 \in Nat
    BY <1>3
  <2> QED
    BY ONLY <1>4, <2>1, FunctionIsSeq
<1> DEFINE outside == {n \in DOMAIN s : ~isDataCluster(s[n])}
<1>6. SUFFICES ASSUME ~(Last(s) < kEndOfChain), chainFrom(t, first) = SubSeq(s, 1, Min(outside) - 1)
               PROVE  \E m : ChainUpTo(t, first, at, m, chainFrom(t, first))
  BY <1>2 DEF chainFrom
<1>7. DOMAIN s = 1..(TotalClusters + 1) /\ outside \in SUBSET Nat
  <2>1. DOMAIN s = 1..(TotalClusters + 1)
    BY <1>4
  <2> QED
    BY <2>1
<1>8. TotalClusters + 1 \in outside
  <2>1. Last(s) = s[TotalClusters + 1] /\ TotalClusters + 1 \in 1..(TotalClusters + 1)
    BY <1>3, <1>5 DEF Last
  <2>2. s[TotalClusters + 1] \notin Clusters
    BY <1>4, <1>6, <2>1, GeometryIs
  <2> QED
    BY <1>7, <2>1, <2>2 DEF isDataCluster
<1>9. PICK x : x = Min(outside)
  OBVIOUS
<1>10. x \in outside /\ \A y \in outside : x <= y
  <2> HIDE DEF outside
  <2> QED
    BY <1>7, <1>8, <1>9, MinIs
<1>11. x \in 1..(TotalClusters + 1) /\ s[x] \notin Clusters /\ \A k \in 1..(x - 1) : s[k] \in Clusters
  <2>1. x \in 1..(TotalClusters + 1) /\ s[x] \notin Clusters
    BY <1>7, <1>10 DEF isDataCluster
  <2>2. ASSUME NEW k \in 1..(x - 1) PROVE s[k] \in Clusters
    <3>1. k \in 1..(TotalClusters + 1) /\ k < x
      BY <1>3, <2>1
    <3>2. k \notin outside
      BY <1>10, <2>1, <3>1
    <3> QED
      BY <1>7, <3>1, <3>2 DEF isDataCluster
  <2> QED
    BY <2>1, <2>2
<1>12. PICK m : m = x - 1
  OBVIOUS
<1>13. m \in 0..TotalClusters /\ m \in Nat /\ m + 1 = x
  BY <1>3, <1>11, <1>12
<1>14. PICK chain : chain = SubSeq(s, 1, m)
  OBVIOUS
<1>15. chain = chainFrom(t, first)
  BY <1>6, <1>9, <1>12, <1>14
<1>16. Len(chain) = m /\ DOMAIN chain = 1..m /\ \A k \in 1..m : chain[k] = s[k]
  BY SMTT(30), <1>3, <1>5, <1>13, <1>14
<1>17. \A k \in 1..m : chain[k] = at[k - 1] /\ chain[k] \in Clusters
  <2>1. ASSUME NEW k \in 1..m PROVE chain[k] = at[k - 1] /\ chain[k] \in Clusters
    <3>1. k \in 1..(TotalClusters + 1) /\ k \in 1..(x - 1)
      BY ONLY <1>3, <1>12, <1>13, k \in 1..m
    <3> QED
      BY ONLY <1>4, <1>11, <1>16, <3>1, k \in 1..m
  <2> QED
    BY <2>1
<1>18. chain \in Seq(Clusters)
  <2>1. chain \in Seq(Nat)
    BY SMTT(30), <1>3, <1>5, <1>13, <1>14
  <2>2. chain \in [1..m -> Clusters]
    BY <1>16, <1>17, <2>1
  <2> QED
    BY <1>13, <2>2
<1>19. at[m] \notin Clusters /\ \A k \in 0..(m - 1) : at[k] \in Clusters
  <2>1. at[m] = s[x] /\ s[x] \notin Clusters
    BY <1>3, <1>4, <1>11, <1>13
  <2>2. ASSUME NEW k \in 0..(m - 1) PROVE at[k] \in Clusters
    <3>1. k + 1 \in 1..m /\ (k + 1) - 1 = k
      BY <1>13
    <3> QED
      BY <1>17, <3>1
  <2> QED
    BY <2>1, <2>2
<1>20. ChainUpTo(t, first, at, m, chain)
  BY <1>1, <1>13, <1>16, <1>17, <1>18, <1>19 DEF ChainUpTo
<1> QED
  BY <1>15, <1>20

LEMMA ChainTyped ==
  ASSUME NEW t \in [Clusters -> Nat], NEW first \in Nat
  PROVE  chainFrom(t, first) \in Seq(Clusters)
<1>1. CASE chainFrom(t, first) = <<>>
  BY <1>1
<1> QED
  BY <1>1, ChainIs DEF ChainUpTo

-----------------------------------------------------------------------------
(***************************************************************************)
(* How much lies before each piece of a list of pieces.                    *)
(***************************************************************************)

IsList(e) == DOMAIN e = 1..Len(e) /\ Len(e) \in Nat /\ \A i \in 1..Len(e) : e[i].len \in Nat

UptoIs(e, f) == f = [n \in 0..Len(e) |-> IF n = 0 THEN 0 ELSE f[n - 1] + e[n].len]
Before(e) == CHOOSE f : UptoIs(e, f)

LEMMA BeforeIs ==
  ASSUME NEW e, IsList(e)
  PROVE  /\ Before(e) \in [0..Len(e) -> Nat] /\ Before(e)[0] = 0
         /\ \A i \in 1..Len(e) : Before(e)[i] = Before(e)[i - 1] + e[i].len
         /\ extentBytes(e) = Before(e)[Len(e)]
<1> DEFINE N == Len(e)
           V == Nat
           none == 0
           step == [k \in 1..N |-> [v \in V |-> v + e[k].len]]
<1>1. N \in Nat /\ none \in V /\ \A i \in 1..N : e[i].len \in Nat
  BY DEF IsList
<1>2. step \in [1..N -> [V -> V]]
  BY <1>1
<1>3. PICK g \in [0..N -> V] : g[0] = none /\ \A k \in 1..N : g[k] = step[k][g[k - 1]]
  <2>1. N \in Nat /\ none \in V
    BY <1>1
  <2> HIDE DEF step, N, V, none
  <2> QED
    BY <1>2, <2>1, RecursionExists, SMTT(60)
<1>4. \A k \in 1..N : k - 1 \in 0..N /\ k \in 0..N /\ k # 0
  BY <1>1
<1>5. UptoIs(e, g)
  <2>1. \A k \in 1..N : g[k] = g[k - 1] + e[k].len
    BY <1>3, <1>4
  <2>2. \A k \in 0..N : k = 0 \/ k \in 1..N
    BY <1>1
  <2> QED
    BY <1>3, <2>1, <2>2 DEF UptoIs
<1>6. UptoIs(e, Before(e))
  BY <1>5 DEF Before
<1> DEFINE f == Before(e)
<1>7. extentBytes(e) = f[N]
  BY DEF extentBytes, Before, UptoIs
<1> HIDE DEF f
<1>8. f[0] = 0 /\ DOMAIN f = 0..N /\ \A k \in 1..N : f[k] = f[k - 1] + e[k].len
  <2>1. 0 \in 0..N
    BY <1>1
  <2> QED
    BY <1>4, <1>6, <2>1 DEF UptoIs, f
<1> DEFINE S == {k \in Nat : k <= N => f[k] \in Nat}
<1>9. 0 \in S
  BY <1>8
<1>10. ASSUME NEW k \in S PROVE k + 1 \in S
  <2> SUFFICES ASSUME k + 1 <= N PROVE f[k + 1] \in Nat
    OBVIOUS
  <2>1. k + 1 \in 1..N /\ (k + 1) - 1 = k /\ f[k] \in Nat
    BY <1>1
  <2> QED
    BY SMTT(60), <1>1, <1>8, <2>1
<1>11. S = Nat
  <2>1. S \in SUBSET Nat
    OBVIOUS
  <2> HIDE DEF S
  <2> QED
    BY <1>9, <1>10, <2>1, SetInduction
<1>12. \A k \in 0..N : f[k] \in Nat
  BY <1>1, <1>11
<1> QED
  BY <1>7, <1>8, <1>12, <1>6 DEF f, UptoIs

LEMMA BeforeGrows ==
  ASSUME NEW e, IsList(e), NEW i \in 0..Len(e), NEW j \in 0..Len(e), i <= j
  PROVE  Before(e)[i] <= Before(e)[j]
<1> DEFINE f == Before(e)
           S == {k \in Nat : i <= k /\ k <= Len(e) => f[i] <= f[k]}
<1>1. /\ Len(e) \in Nat /\ f \in [0..Len(e) -> Nat]
      /\ \A k \in 1..Len(e) : f[k] = f[k - 1] + e[k].len /\ e[k].len \in Nat
  BY BeforeIs DEF IsList
<1> HIDE DEF f
<1>2. 0 \in S
  BY <1>1
<1>3. ASSUME NEW k \in S PROVE k + 1 \in S
  <2> SUFFICES ASSUME i <= k + 1, k + 1 <= Len(e) PROVE f[i] <= f[k + 1]
    OBVIOUS
  <2>1. k + 1 \in 1..Len(e) /\ (k + 1) - 1 = k /\ k \in 0..Len(e) /\ k + 1 \in 0..Len(e)
    BY <1>1
  <2>2. f[k + 1] = f[k] + e[k + 1].len /\ e[k + 1].len \in Nat /\ f[k] \in Nat /\ f[i] \in Nat
    BY <1>1, <2>1
  <2> QED
    BY <2>1, <2>2
<1>4. S = Nat
  <2>1. S \in SUBSET Nat
    OBVIOUS
  <2> HIDE DEF S
  <2> QED
    BY <1>2, <1>3, <2>1, SetInduction
<1> QED
  BY <1>1, <1>4 DEF f

(* The same pieces, further back, are preceded by the same. *)
LEMMA BeforeAgrees ==
  ASSUME NEW e, NEW d, IsList(e), IsList(d), NEW m \in Nat, m <= Len(e), m <= Len(d),
         \A i \in 1..m : d[i].len = e[i].len
  PROVE  \A i \in 0..m : Before(d)[i] = Before(e)[i]
<1> DEFINE f == Before(e)
           g == Before(d)
           S == {k \in Nat : k <= m => g[k] = f[k]}
<1>1. /\ Len(e) \in Nat /\ f[0] = 0 /\ \A k \in 1..Len(e) : f[k] = f[k - 1] + e[k].len
      /\ Len(d) \in Nat /\ g[0] = 0 /\ \A k \in 1..Len(d) : g[k] = g[k - 1] + d[k].len
  BY BeforeIs DEF IsList
<1> HIDE DEF f, g
<1>2. 0 \in S
  BY <1>1
<1>3. ASSUME NEW k \in S PROVE k + 1 \in S
  <2> SUFFICES ASSUME k + 1 <= m PROVE g[k + 1] = f[k + 1]
    OBVIOUS
  <2>1. k + 1 \in 1..Len(e) /\ k + 1 \in 1..Len(d) /\ k + 1 \in 1..m /\ (k + 1) - 1 = k
    BY <1>1
  <2> QED
    BY <1>1, <2>1
<1>4. S = Nat
  <2>1. S \in SUBSET Nat
    OBVIOUS
  <2> HIDE DEF S
  <2> QED
    BY <1>2, <1>3, <2>1, SetInduction
<1> QED
  BY <1>1, <1>4 DEF f, g

(* What the source's `before` counts. *)
LEMMA BytesBefore ==
  ASSUME NEW T, NEW e \in Seq(T), IsList(e), NEW i \in 1..Len(e)
  PROVE  extentBytes(SubSeq(e, 1, i - 1)) = Before(e)[i - 1]
<1> DEFINE d == SubSeq(e, 1, i - 1)
<1>1. Len(e) \in Nat /\ i - 1 \in 0..Len(e) /\ i - 1 \in Nat
  BY DEF IsList
<1>2. d \in Seq(T) /\ Len(d) = i - 1 /\ \A k \in 1..(i - 1) : d[k] = e[k]
  BY <1>1
<1>3. DOMAIN d = 1..Len(d)
  BY <1>2
<1> HIDE DEF d
<1>4. \A k \in 1..(i - 1) : d[k].len = e[k].len /\ e[k].len \in Nat
  BY <1>1, <1>2 DEF IsList
<1>5. IsList(d)
  BY <1>1, <1>2, <1>3, <1>4 DEF IsList
<1>6. Before(d)[i - 1] = Before(e)[i - 1]
  BY SMTT(60), <1>1, <1>2, <1>4, <1>5, BeforeAgrees
<1>7. extentBytes(d) = Before(d)[Len(d)]
  BY <1>5, BeforeIs
<1> QED
  BY <1>2, <1>6, <1>7 DEF d

-----------------------------------------------------------------------------
(***************************************************************************)
(* Extents.                                                                *)
(***************************************************************************)

Extent == [at : Nat, len : Nat]
Extents == Seq(Extent)

LEMMA ExtentIs ==
  ASSUME NEW x \in Extent
  PROVE  x.at \in Nat /\ x.len \in Nat /\ x = [at |-> x.at, len |-> x.len]
BY DEF Extent

LEMMA ExtentsAreLists ==
  ASSUME NEW e \in Extents
  PROVE  IsList(e) /\ \A i \in 1..Len(e) : e[i].at \in Nat /\ e[i].len \in Nat
<1>1. \A x \in Extent : x.at \in Nat /\ x.len \in Nat
  BY DEF Extent
<1>2. DOMAIN e = 1..Len(e) /\ Len(e) \in Nat /\ \A i \in 1..Len(e) : e[i] \in Extent
  BY DEF Extents
<1> QED
  BY <1>1, <1>2 DEF IsList

(* Extents cut to a size they reach: the first m, the last of them perhaps shorter. *)
CutTo(e, size, m, t) ==
  /\ m \in 1..Len(e) /\ t \in Extents /\ Len(t) = m
  /\ \A i \in 1..m : /\ t[i].at = e[i].at /\ t[i].len > 0 /\ t[i].len <= e[i].len
                     /\ t[i].len = IF i < m THEN e[i].len ELSE size - Before(e)[i - 1]

LEMMA TrimmedIs ==
  ASSUME NEW e \in Extents, \A i \in 1..Len(e) : e[i].len > 0, NEW size \in Nat \ {0}, size <= extentBytes(e)
  PROVE  \E m : CutTo(e, size, m, trimToSize(e, size))
<1> DEFINE N == Len(e)
           b == Before(e)
           needed == {i \in 1..N : b[i - 1] < size}
           t == trimToSize(e, size)
<1>1. e \in Extents /\ IsList(e) /\ N \in Nat /\ DOMAIN e = 1..N
  BY ExtentsAreLists DEF IsList
<1>2. /\ b \in [0..N -> Nat] /\ b[0] = 0 /\ extentBytes(e) = b[N]
      /\ \A i \in 1..N : b[i] = b[i - 1] + e[i].len
  BY <1>1, BeforeIs
<1>3. \A i \in 1..N : e[i].len \in Nat /\ e[i].len > 0 /\ e[i].at \in Nat
  BY <1>1, ExtentsAreLists
<1>5. \A i \in 1..N : extentBytes(SubSeq(e, 1, i - 1)) = b[i - 1]
  BY <1>1, BytesBefore DEF Extents
<1>6. \A i, j \in 0..N : i <= j => b[i] <= b[j]
  BY <1>1, BeforeGrows
<1>7. b[N] >= size
  <2> HIDE DEF b, N
  <2>1. N \in 0..N
    BY <1>1
  <2>2. b[N] \in Nat /\ extentBytes(e) = b[N]
    BY <1>2, <2>1
  <2> QED
    BY <2>2
<1> HIDE DEF b, N
<1>8. N # 0
  BY <1>1, <1>2, <1>7
<1>9. needed \in SUBSET (0..N) /\ 1 \in needed
  BY <1>1, <1>2, <1>8
<1>0. \A i : i \in needed <=> i \in 1..N /\ b[i - 1] < size
  OBVIOUS
<1> HIDE DEF needed
<1>10. PICK m \in needed : \A i \in needed : i <= m
  BY <1>1, <1>9, MaxIs
<1>11. m \in 1..N /\ b[m - 1] < size /\ m - 1 \in 0..N /\ m \in 0..N
  <2>1. m \in 1..N /\ b[m - 1] < size
    BY <1>0
  <2> QED
    BY <1>1, <2>1
<1>12. size <= b[m]
  <2>1. CASE m = N
    BY <1>7, <2>1
  <2>2. CASE m # N
    <3>1. m + 1 \in 1..N /\ (m + 1) - 1 = m
      BY <1>1, <1>11, <2>2
    <3>2. m + 1 \notin needed
      BY <1>10, <1>11
    <3>3. b[m] \in Nat
      BY <1>2, <1>11
    <3> QED
      BY <1>0, <3>1, <3>2, <3>3
  <2> QED
    BY <2>1, <2>2
<1>13. needed = 1..m
  <2>1. ASSUME NEW i \in 1..m PROVE i \in needed
    <3>1. i \in 1..N /\ i - 1 \in 0..N /\ i - 1 <= m - 1
      BY <1>1, <1>11
    <3>2. b[i - 1] <= b[m - 1] /\ b[i - 1] \in Nat /\ b[m - 1] \in Nat
      BY <1>2, <1>6, <1>11, <3>1
    <3> QED
      BY SMTT(30), <1>0, <1>11, <3>1, <3>2
  <2>2. ASSUME NEW i \in needed PROVE i \in 1..m
    BY <1>0, <1>1, <1>10, <1>11
  <2> QED
    BY <2>1, <2>2
<1>14. Cardinality(needed) = m
  <2>1. m \in Int /\ 1 \in Int /\ m >= 1
    BY <1>11
  <2>2. Cardinality(1..m) = IF 1 > m THEN 0 ELSE m - 1 + 1
    BY <2>1, FS_Interval
  <2> QED
    BY <1>13, <2>1, <2>2
<1> DEFINE cut(i) == Min({e[i].len, size - b[i - 1]})
<1>15. t = [i \in 1..m |-> [at |-> e[i].at, len |-> cut(i)]]
  <2>1. ~(extentBytes(e) < size)
    BY <1>1, <1>2, <1>7
  <2>2. {i \in DOMAIN e : extentBytes(SubSeq(e, 1, i - 1)) < size} = needed
    BY <1>0, <1>1, <1>5
  <2>3. \A i \in 1..m : extentBytes(SubSeq(e, 1, i - 1)) = b[i - 1]
    BY <1>1, <1>5, <1>11
  <2> QED
    BY <1>14, <2>1, <2>2, <2>3 DEF trimToSize
<1>16. \A i \in 1..m : /\ cut(i) = IF i < m THEN e[i].len ELSE size - b[i - 1]
                       /\ cut(i) \in Nat /\ cut(i) > 0 /\ cut(i) <= e[i].len
  <2> SUFFICES ASSUME NEW i \in 1..m
               PROVE  /\ cut(i) = IF i < m THEN e[i].len ELSE size - b[i - 1]
                      /\ cut(i) \in Nat /\ cut(i) > 0 /\ cut(i) <= e[i].len
    OBVIOUS
  <2> DEFINE x == e[i].len
             y == size - b[i - 1]
  <2>1. i \in 1..N /\ i - 1 \in 0..N /\ i \in 0..N /\ i \in needed
    BY <1>1, <1>11, <1>13
  <2>2. x \in Nat /\ x > 0 /\ b[i - 1] \in Nat /\ b[i] = b[i - 1] + x /\ b[i - 1] < size
    BY <1>0, <1>2, <1>3, <2>1
  <2>3. y \in Nat /\ y > 0
    BY <2>2
  <2>4. cut(i) = IF x <= y THEN x ELSE y
    <3> HIDE DEF x, y
    <3>1. Min({x, y}) = IF x <= y THEN x ELSE y
      BY <2>2, <2>3, MinMaxOfTwo
    <3> QED
      BY <3>1 DEF x, y
  <2>5. i < m => x <= y
    <3> SUFFICES ASSUME i < m PROVE x <= y
      OBVIOUS
    <3>1. i + 1 \in 1..m /\ (i + 1) - 1 = i
      BY <1>11
    <3>2. b[i] < size
      BY <1>0, <1>13, <3>1
    <3> QED
      BY <2>2, <3>2
  <2>6. i >= m => y <= x
    <3>1. i >= m => b[i] >= size
      BY <1>11, <1>12
    <3> QED
      BY <2>2, <3>1
  <2> HIDE DEF cut
  <2> QED
    BY <2>2, <2>3, <2>4, <2>5, <2>6, <1>11 DEF x, y
<1> HIDE DEF cut, t
<1>17. /\ t \in Extents /\ Len(t) = m
       /\ \A i \in 1..m : t[i].at = e[i].at /\ t[i].len = cut(i) /\ t[i].len > 0
  <2>1. \A i \in 1..m : [at |-> e[i].at, len |-> cut(i)] \in Extent
    <3>1. \A i \in 1..m : i \in 1..N
      BY <1>1, <1>11
    <3> QED
      BY <1>3, <1>16, <3>1 DEF Extent
  <2>2. t \in [1..m -> Extent] /\ m \in Nat
    BY <1>11, <1>15, <2>1
  <2>3. t \in Extents /\ Len(t) = m
    BY <2>2 DEF Extents
  <2>4. \A i \in 1..m : t[i] = [at |-> e[i].at, len |-> cut(i)]
    BY <1>15
  <2> QED
    BY <1>16, <2>3, <2>4
<1>18. CutTo(e, size, m, t)
  BY <1>11, <1>16, <1>17 DEF CutTo, N, b
<1> QED
  BY <1>18 DEF t

LEMMA TrimmedShort ==
  ASSUME NEW e \in Extents, NEW size \in Nat, extentBytes(e) < size
  PROVE  trimToSize(e, size) = <<>>
BY DEF trimToSize

(* An extent of the data region. *)
InData(x) ==
  /\ x.len > 0 /\ x.at >= DataOffset
  /\ x.at + x.len <= clusterOffset(kFirstCluster + TotalClusters)

LEMMA ClusterIsInData ==
  ASSUME NEW c \in Clusters
  PROVE  /\ ClusterExtent(c) \in Extent /\ InData(ClusterExtent(c))
         /\ ClusterExtent(c).at = DataOffset + (c - 2) * BytesPerCluster /\ ClusterExtent(c).len = BytesPerCluster
<1>1. /\ TotalClusters \in Nat /\ BytesPerCluster \in Nat /\ BytesPerCluster > 0 /\ DataOffset \in Nat /\ kFirstCluster = 2
      /\ c - 2 \in Nat /\ c - 2 + 1 <= TotalClusters
  BY GeometryIs
<1>2. PICK k : k = c - 2
  OBVIOUS
<1>3. clusterOffset(c) = DataOffset + k * BytesPerCluster
  BY ONLY <1>1, <1>2 DEF clusterOffset
<1>4. clusterOffset(kFirstCluster + TotalClusters) = DataOffset + TotalClusters * BytesPerCluster
  BY ONLY <1>1 DEF clusterOffset
<1>5. k * BytesPerCluster \in Nat /\ k * BytesPerCluster + BytesPerCluster <= TotalClusters * BytesPerCluster
  <2>1. k \in Nat /\ k + 1 <= TotalClusters
    BY ONLY <1>1, <1>2
  <2>2. (k + 1) * BytesPerCluster <= TotalClusters * BytesPerCluster
    BY ONLY <1>1, <2>1
  <2> QED
    BY ONLY <1>1, <2>1, <2>2
<1>6. PICK x : x = ClusterExtent(c)
  OBVIOUS
<1>7. x = [at |-> clusterOffset(c), len |-> BytesPerCluster]
  BY ONLY <1>6 DEF ClusterExtent
<1>8. x.at = DataOffset + k * BytesPerCluster /\ x.len = BytesPerCluster
  BY ONLY <1>3, <1>7
<1>9. x.at \in Nat /\ x.len \in Nat
  BY ONLY <1>1, <1>5, <1>8
<1>10. x \in Extent
  BY ONLY <1>7, <1>9 DEF Extent
<1>11. InData(x)
  BY ONLY <1>1, <1>4, <1>5, <1>8 DEF InData
<1> QED
  BY ONLY <1>2, <1>6, <1>8, <1>10, <1>11

AllInData(e) == \A i \in 1..Len(e) : InData(e[i])

LEMMA AppendIs ==
  ASSUME NEW r \in Extents, NEW x \in Extent
  PROVE  /\ appendExtent(r, x) \in Extents
         /\ AllInData(r) /\ InData(x) => AllInData(appendExtent(r, x))
         /\ r = <<>> => appendExtent(r, x) = <<x>>
         /\ \A y \in Extent : r = <<y>> /\ y.at + y.len = x.at =>
              appendExtent(r, x) = <<[at |-> y.at, len |-> y.len + x.len]>>
<1>1. /\ Len(r) \in Nat /\ DOMAIN r = 1..Len(r) /\ \A i \in 1..Len(r) : r[i] \in Extent
      /\ \A y \in Extent : y.at \in Nat /\ y.len \in Nat /\ y = [at |-> y.at, len |-> y.len]
  <2>1. Len(r) \in Nat /\ DOMAIN r = 1..Len(r) /\ \A i \in 1..Len(r) : r[i] \in Extent
    BY DEF Extents
  <2> QED
    BY <2>1, ExtentIs
<1>2. PICK a : a = appendExtent(r, x)
  OBVIOUS
<1>3. CASE r # <<>> /\ Last(r).at + Last(r).len = x.at
  <2>1. PICK n, y : n = Len(r) /\ y = r[n]
    OBVIOUS
  <2>2. n \in 1..n /\ n \in Nat /\ y \in Extent /\ y.at + y.len = x.at
    BY <1>1, <1>3, <2>1 DEF Last, Extents
  <2>3. PICK z : z = [at |-> y.at, len |-> y.len + x.len]
    OBVIOUS
  <2>4. z \in Extent /\ z.at = y.at /\ z.len = y.len + x.len
    BY <1>1, <2>2, <2>3 DEF Extent
  <2>5. a = [r EXCEPT ![n].len = @ + x.len]
    BY ONLY <1>2, <1>3, <2>1 DEF appendExtent
  <2>6. a = [i \in 1..n |-> IF i = n THEN z ELSE r[i]]
    <3>1. [r[n] EXCEPT !.len = @ + x.len] = z
      BY ONLY <1>1, <2>1, <2>2, <2>3
    <3> QED
      BY ONLY <1>1, <2>1, <2>2, <2>5, <3>1
  <2>7. a \in [1..n -> Extent]
    BY ONLY <1>1, <2>1, <2>4, <2>6
  <2>8. a \in Extents /\ Len(a) = n
    BY ONLY <2>2, <2>7, FunctionIsSeq DEF Extents
  <2>9. AllInData(r) /\ InData(x) => AllInData(a)
    <3> SUFFICES ASSUME AllInData(r), InData(x), NEW i \in 1..Len(a) PROVE InData(a[i])
      BY DEF AllInData
    <3> i \in 1..n
      BY <2>8
    <3>1. CASE i # n
      BY ONLY <2>1, <2>6, <3>1, AllInData(r), i \in 1..n DEF AllInData
    <3>2. CASE i = n
      <4>1. InData(y)
        BY ONLY <2>1, <2>2, AllInData(r) DEF AllInData
      <4>2. InData(z)
        <5>1. PICK d : d = clusterOffset(kFirstCluster + TotalClusters)
          OBVIOUS
        <5>2. /\ y.at \in Nat /\ y.len \in Nat /\ x.at \in Nat /\ x.len \in Nat
              /\ y.len > 0 /\ y.at >= DataOffset /\ x.len > 0 /\ x.at + x.len <= d
          BY ONLY <1>1, <2>2, <4>1, <5>1, InData(x), x \in Extent DEF InData
        <5>3. z.len > 0 /\ z.at >= DataOffset /\ z.at + z.len = x.at + x.len
          BY ONLY <2>2, <2>4, <5>2
        <5> QED
          BY ONLY <5>1, <5>2, <5>3 DEF InData
      <4> QED
        BY ONLY <2>6, <3>2, <4>2, i \in 1..n
    <3> QED
      BY <3>1, <3>2
  <2>10. \A v \in Extent : r = <<v>> => a = <<[at |-> v.at, len |-> v.len + x.len]>>
    <3> SUFFICES ASSUME NEW v \in Extent, r = <<v>> PROVE a = <<[at |-> v.at, len |-> v.len + x.len]>>
      OBVIOUS
    <3>1. n = 1 /\ y = v
      BY ONLY <2>1, r = <<v>>
    <3>2. a \in Extents /\ Len(a) = 1 /\ a[1] = z
      BY ONLY <2>6, <2>8, <3>1
    <3> QED
      BY ONLY <2>3, <3>1, <3>2 DEF Extents
  <2> QED
    BY ONLY <1>2, <1>3, <2>8, <2>9, <2>10
<1>4. CASE ~(r # <<>> /\ Last(r).at + Last(r).len = x.at)
  <2>1. a = Append(r, x)
    BY ONLY <1>2, <1>4 DEF appendExtent
  <2>2. a \in Extents /\ Len(a) = Len(r) + 1 /\ a[Len(r) + 1] = x /\ \A i \in 1..Len(r) : a[i] = r[i]
    BY <2>1 DEF Extents
  <2>3. AllInData(r) /\ InData(x) => AllInData(a)
    BY <1>1, <2>2 DEF AllInData
  <2>4. r = <<>> => a = <<x>>
    BY ONLY <2>1
  <2>5. \A y \in Extent : r = <<y>> => y.at + y.len # x.at
    <3>1. \A y \in Extent : r = <<y>> => r # <<>> /\ Last(r) = y
      BY ONLY DEF Last
    <3> QED
      BY ONLY <1>4, <3>1
  <2> QED
    BY ONLY <1>2, <2>2, <2>3, <2>4, <2>5
<1> QED
  BY <1>3, <1>4

Joins(clusters, runs) ==
  /\ runs \in [0..Len(clusters) -> Extents] /\ runs[0] = <<>>
  /\ \A k \in 1..Len(clusters) : runs[k] = appendExtent(runs[k - 1], ClusterExtent(clusters[k]))

LEMMA RunsAre ==
  ASSUME NEW clusters \in Seq(Clusters)
  PROVE  \E runs : /\ Joins(clusters, runs)
                   /\ \A size : clusters # <<>> /\ size # 0 =>
                        chainExtents(clusters, size) = trimToSize(runs[Len(clusters)], size)
<1> DEFINE N == Len(clusters)
           none == <<>>
           Is(f) == f = [n \in 0..N |-> IF n = 0 THEN none ELSE appendExtent(f[n - 1], ClusterExtent(clusters[n]))]
           runs == CHOOSE f : Is(f)
           step == [n \in 1..N |-> [v \in Extents |-> appendExtent(v, ClusterExtent(clusters[n]))]]
<1>1. N \in Nat /\ none \in Extents /\ \A n \in 1..N : ClusterExtent(clusters[n]) \in Extent
  <2>1. N \in Nat /\ \A n \in 1..N : clusters[n] \in Clusters
    OBVIOUS
  <2>2. none \in Extents
    BY DEF Extents
  <2> QED
    BY <2>1, <2>2, ClusterIsInData
<1>2. step \in [1..N -> [Extents -> Extents]]
  <2>1. \A n \in 1..N : \A v \in Extents : appendExtent(v, ClusterExtent(clusters[n])) \in Extents
    BY <1>1, AppendIs
  <2> HIDE DEF N
  <2> QED
    BY ONLY <2>1
<1>3. PICK g \in [0..N -> Extents] : g[0] = none /\ \A k \in 1..N : g[k] = step[k][g[k - 1]]
  <2>1. N \in Nat /\ none \in Extents
    BY <1>1
  <2> HIDE DEF step, N, none
  <2>2. Recursive(Extents, none, N, step)
    BY ONLY <1>2, <2>1, HasRecursion
  <2> QED
    BY ONLY <2>2, Zenon DEF Recursive
<1>4. \A k \in 1..N : k - 1 \in 0..N /\ k \in 0..N /\ k # 0
  BY ONLY <1>1
<1>5. \A k \in 0..N : k = 0 \/ k \in 1..N
  BY ONLY <1>1
<1>6. \A k \in 1..N : g[k] = appendExtent(g[k - 1], ClusterExtent(clusters[k]))
  <2> HIDE DEF N
  <2> QED
    BY ONLY <1>3, <1>4
<1>7. Is(g)
  <2> HIDE DEF N, none
  <2> QED
    BY ONLY <1>3, <1>5, <1>6
<1>8. Is(runs)
  <2> HIDE DEF Is
  <2> QED
    BY ONLY <1>7
<1>9. \A size : clusters # <<>> /\ size # 0 => chainExtents(clusters, size) = trimToSize(runs[N], size)
  BY Zenon DEF chainExtents
<1> HIDE DEF runs
<1>10. runs[0] = none /\ DOMAIN runs = 0..N
       /\ \A k \in 1..N : runs[k] = appendExtent(runs[k - 1], ClusterExtent(clusters[k]))
  <2>1. 0 \in 0..N
    BY ONLY <1>1
  <2> HIDE DEF N, none
  <2> QED
    BY ONLY <1>4, <1>8, <2>1
<1> DEFINE S == {k \in Nat : k <= N => runs[k] \in Extents}
<1>11. 0 \in S
  BY ONLY <1>1, <1>10
<1>12. ASSUME NEW k \in S PROVE k + 1 \in S
  <2> SUFFICES ASSUME k + 1 <= N PROVE runs[k + 1] \in Extents
    OBVIOUS
  <2>1. k + 1 \in 1..N /\ (k + 1) - 1 = k /\ runs[k] \in Extents
    BY <1>1
  <2>2. runs[k + 1] = appendExtent(runs[k], ClusterExtent(clusters[k + 1])) /\ ClusterExtent(clusters[k + 1]) \in Extent
    BY ONLY <1>1, <1>10, <2>1
  <2> QED
    BY ONLY <2>1, <2>2, AppendIs
<1>13. S = Nat
  <2>1. S \in SUBSET Nat
    OBVIOUS
  <2> HIDE DEF S
  <2> QED
    BY <1>11, <1>12, <2>1, SetInduction
<1>14. ASSUME NEW k \in 0..N PROVE runs[k] \in Extents
  <2>1. k \in Nat /\ k <= N
    BY ONLY <1>1, k \in 0..N
  <2>2. k \in S
    BY <1>13, <2>1
  <2> QED
    BY <2>1, <2>2
<1>15. runs \in [0..N -> Extents]
  <2> HIDE DEF N
  <2> QED
    BY ONLY <1>8, <1>14
<1>16. Joins(clusters, runs)
  BY ONLY <1>10, <1>15 DEF Joins, N, none
<1> QED
  BY ONLY <1>9, <1>16 DEF N

(* What an extent list restates lies in the data region. *)
LEMMA ChainExtentsAre ==
  ASSUME NEW clusters \in Seq(Clusters), NEW size \in Nat
  PROVE  chainExtents(clusters, size) \in Extents /\ AllInData(chainExtents(clusters, size))
<1>1. CASE clusters = <<>> \/ size = 0
  <2>1. chainExtents(clusters, size) = <<>>
    BY <1>1 DEF chainExtents
  <2> QED
    BY <2>1 DEF Extents, AllInData
<1>2. CASE clusters # <<>> /\ size # 0
  <2>1. PICK runs : Joins(clusters, runs) /\ chainExtents(clusters, size) = trimToSize(runs[Len(clusters)], size)
    BY <1>2, RunsAre
  <2>2. PICK N : N = Len(clusters)
    OBVIOUS
  <2>3. N \in Nat /\ \A k \in 1..N : clusters[k] \in Clusters
    BY <2>2
  <2>4. /\ runs \in [0..N -> Extents] /\ runs[0] = <<>>
        /\ \A k \in 1..N : runs[k] = appendExtent(runs[k - 1], ClusterExtent(clusters[k]))
    BY <2>1, <2>2 DEF Joins
  <2> DEFINE S == {k \in Nat : k <= N => AllInData(runs[k])}
  <2>5. 0 \in S
    BY <2>4 DEF AllInData
  <2>6. ASSUME NEW k \in S PROVE k + 1 \in S
    <3> SUFFICES ASSUME k + 1 <= N PROVE AllInData(runs[k + 1])
      OBVIOUS
    <3>1. k \in 0..N /\ k + 1 \in 1..N /\ (k + 1) - 1 = k /\ AllInData(runs[k])
      BY <2>3
    <3>2. PICK r, x : r = runs[k] /\ x = ClusterExtent(clusters[k + 1])
      OBVIOUS
    <3>3. r \in Extents /\ x \in Extent /\ InData(x) /\ runs[k + 1] = appendExtent(r, x)
      BY <2>3, <2>4, <3>1, <3>2, ClusterIsInData
    <3> QED
      BY ONLY <3>1, <3>2, <3>3, AppendIs
  <2>7. S = Nat
    <3>1. S \in SUBSET Nat
      OBVIOUS
    <3> HIDE DEF S
    <3> QED
      BY <2>5, <2>6, <3>1, SetInduction
  <2>8. PICK e : e = runs[N]
    OBVIOUS
  <2>9. e \in Extents /\ AllInData(e)
    <3>1. N \in S /\ N \in 0..N
      BY <2>3, <2>7
    <3> QED
      BY <2>4, <2>8, <3>1
  <2>10. PICK t : t = trimToSize(e, size)
    OBVIOUS
  <2>11. chainExtents(clusters, size) = t
    BY ONLY <2>1, <2>2, <2>8, <2>10
  <2>12. CASE extentBytes(e) < size
    <3>1. t = <<>>
      BY ONLY <2>9, <2>10, <2>12, TrimmedShort, size \in Nat
    <3> QED
      BY <2>11, <3>1 DEF Extents, AllInData
  <2>13. CASE ~(extentBytes(e) < size)
    <3>1. size \in Nat \ {0} /\ \A i \in 1..Len(e) : e[i].len > 0
      BY <1>2, <2>9 DEF AllInData, InData
    <3>2. size <= extentBytes(e)
      <4>1. IsList(e) /\ Len(e) \in Nat
        BY <2>9, ExtentsAreLists DEF IsList
      <4>2. extentBytes(e) \in Nat
        BY <4>1, BeforeIs
      <4> QED
        BY ONLY <2>13, <4>2, size \in Nat
    <3>3. PICK m : CutTo(e, size, m, t)
      BY ONLY <2>9, <2>10, <3>1, <3>2, TrimmedIs
    <3>4. ASSUME NEW i \in 1..Len(t) PROVE InData(t[i])
      <4>1. i \in 1..Len(e) /\ t[i].at = e[i].at /\ t[i].len > 0 /\ t[i].len <= e[i].len /\ t \in Extents
        <5>1. Len(e) \in Nat
          BY <2>9 DEF Extents
        <5> QED
          BY ONLY <3>3, <5>1, i \in 1..Len(t) DEF CutTo
      <4>2. InData(e[i])
        BY ONLY <2>9, <4>1 DEF AllInData
      <4>3. t[i] \in Extent /\ e[i] \in Extent
        BY ONLY <2>9, <4>1, i \in 1..Len(t) DEF Extents
      <4>4. t[i].len \in Nat /\ e[i].len \in Nat /\ e[i].at \in Nat
        BY ONLY <4>3, ExtentIs
      <4>5. clusterOffset(kFirstCluster + TotalClusters) \in Nat
        BY GeometryIs DEF clusterOffset
      <4> QED
        BY ONLY <4>1, <4>2, <4>4, <4>5 DEF InData
    <3> QED
      BY ONLY <2>11, <3>3, <3>4 DEF CutTo, AllInData
  <2> QED
    BY <2>12, <2>13
<1> QED
  BY <1>1, <1>2

(* Clusters one after the other are one extent. *)
LEMMA RunIsOne ==
  ASSUME NEW clusters \in Seq(Clusters), clusters # <<>>, Consecutive(clusters),
         NEW size \in Nat \ {0}, size <= Len(clusters) * BytesPerCluster
  PROVE  chainExtents(clusters, size) = <<[at |-> clusterOffset(clusters[1]), len |-> size]>>
<1>1. PICK runs : Joins(clusters, runs) /\ chainExtents(clusters, size) = trimToSize(runs[Len(clusters)], size)
  BY RunsAre
<1>2. PICK N, B, first, a : N = Len(clusters) /\ B = BytesPerCluster /\ first = clusters[1] /\ a = clusterOffset(first)
  OBVIOUS
<1>3. /\ N \in Nat /\ N >= 1 /\ \A k \in 1..N : clusters[k] \in Clusters
      /\ \A k \in 1..(N - 1) : clusters[k + 1] = clusters[k] + 1
  BY <1>2 DEF Consecutive
<1>4. /\ runs \in [0..N -> Extents] /\ runs[0] = <<>>
      /\ \A k \in 1..N : runs[k] = appendExtent(runs[k - 1], ClusterExtent(clusters[k]))
  BY <1>1, <1>2 DEF Joins
<1>5. first \in Clusters /\ first \in Nat /\ first - 2 \in Nat /\ B \in Nat /\ B > 0 /\ DataOffset \in Nat
  BY <1>2, <1>3, GeometryIs
<1>6. a = DataOffset + (first - 2) * B /\ (first - 2) * B \in Nat /\ a \in Nat
  <2>1. kFirstCluster = 2
    BY GeometryIs
  <2>2. a = DataOffset + (first - 2) * B
    BY ONLY <1>2, <2>1 DEF clusterOffset
  <2>3. (first - 2) * B \in Nat
    <3>1. PICK d : d = first - 2
      OBVIOUS
    <3>2. d \in Nat
      BY ONLY <1>5, <3>1
    <3>3. d * B \in Nat
      BY ONLY <1>5, <3>2
    <3> QED
      BY ONLY <3>1, <3>3
  <2> QED
    BY ONLY <1>5, <2>2, <2>3
<1> DEFINE S == {k \in Nat : k + 1 <= N => clusters[k + 1] = first + k /\ runs[k + 1] = <<[at |-> a, len |-> (k + 1) * B]>>}
<1>7. 0 \in S
  <2>1. 1 \in 1..N /\ 1 - 1 = 0 /\ 0 + 1 = 1 /\ 1 * B = B
    BY ONLY <1>3, <1>5
  <2>2. clusters[1] = first + 0
    BY ONLY <1>2, <1>5
  <2>3. PICK x : x = ClusterExtent(first)
    OBVIOUS
  <2>4. x \in Extent /\ x.at = a /\ x.len = B
    BY ONLY <1>2, <1>5, <1>6, <2>3, ClusterIsInData
  <2>5. x = [at |-> a, len |-> B]
    BY ONLY <2>4, ExtentIs
  <2>6. <<>> \in Extents
    BY DEF Extents
  <2>7. runs[1] = appendExtent(<<>>, x)
    BY ONLY <1>2, <1>4, <2>1, <2>3
  <2>8. runs[1] = <<x>>
    BY ONLY <2>4, <2>6, <2>7, AppendIs
  <2> QED
    BY ONLY <2>1, <2>2, <2>5, <2>8
<1>8. ASSUME NEW k \in S PROVE k + 1 \in S
  <2>1. k \in Nat /\ k + 1 \in Nat
    OBVIOUS
  <2> SUFFICES ASSUME (k + 1) + 1 <= N
               PROVE  clusters[(k + 1) + 1] = first + (k + 1) /\ runs[(k + 1) + 1] = <<[at |-> a, len |-> ((k + 1) + 1) * B]>>
    BY <2>1
  <2>2. PICK j : j = k + 1
    OBVIOUS
  <2>3. j \in 1..(N - 1) /\ j + 1 \in 1..N /\ (j + 1) - 1 = j /\ j \in Nat /\ j <= N
    BY ONLY <1>3, <2>1, <2>2, (k + 1) + 1 <= N
  <2>4. clusters[j] = first + k /\ runs[j] = <<[at |-> a, len |-> j * B]>>
    BY <2>2, <2>3
  <2>5. clusters[j + 1] = clusters[j] + 1 /\ clusters[j + 1] \in Clusters
    BY ONLY <1>3, <2>3
  <2>6. clusters[j + 1] = first + j
    BY ONLY <1>5, <2>1, <2>2, <2>4, <2>5
  <2>7. PICK x, y : x = ClusterExtent(clusters[j + 1]) /\ y = [at |-> a, len |-> j * B]
    OBVIOUS
  <2>8. x \in Extent /\ x.at = DataOffset + ((first + j) - 2) * B /\ x.len = B
    <3>1. PICK c : c = clusters[j + 1]
      OBVIOUS
    <3>2. c \in Clusters /\ c = first + j /\ x = ClusterExtent(c)
      BY ONLY <2>5, <2>6, <2>7, <3>1
    <3>3. x \in Extent /\ x.at = DataOffset + (c - 2) * B /\ x.len = B
      BY ONLY <1>2, <3>2, ClusterIsInData
    <3> QED
      BY ONLY <3>2, <3>3, Zenon
  <2>9. j * B \in Nat /\ ((first + j) - 2) * B = (first - 2) * B + j * B /\ (j + 1) * B = j * B + B
    <3>1. PICK d : d = first - 2
      OBVIOUS
    <3>2. d \in Nat /\ (first + j) - 2 = d + j
      BY ONLY <1>5, <2>3, <3>1
    <3>3. j * B \in Nat /\ (d + j) * B = d * B + j * B /\ (j + 1) * B = j * B + B
      <4>1. (d + j) * B = d * B + j * B
        BY ONLY <1>5, <2>3, <3>2, Distributed
      <4>2. (j + 1) * B = j * B + 1 * B /\ j * B \in Nat
        BY ONLY <1>5, <2>3, Distributed
      <4> QED
        BY ONLY <1>5, <4>1, <4>2
    <3> QED
      BY ONLY <3>1, <3>2, <3>3
  <2>10. y \in Extent /\ y.at = a /\ y.len = j * B
    BY ONLY <1>6, <2>7, <2>9 DEF Extent
  <2>11. y.at + y.len = x.at
    BY ONLY <1>5, <1>6, <2>8, <2>9, <2>10
  <2>12. PICK r : r = runs[j]
    OBVIOUS
  <2>13. r \in Extents /\ r = <<y>> /\ runs[j + 1] = appendExtent(r, x)
    <3>1. j \in 0..N
      BY ONLY <1>3, <2>3
    <3> QED
      BY ONLY <1>4, <2>3, <2>4, <2>7, <2>12, <3>1
  <2>14. runs[j + 1] = <<[at |-> y.at, len |-> y.len + x.len]>>
    BY ONLY <2>8, <2>10, <2>11, <2>13, AppendIs
  <2>15. y.len + x.len = (j + 1) * B
    BY ONLY <2>8, <2>9, <2>10
  <2> QED
    BY ONLY <2>2, <2>6, <2>10, <2>14, <2>15
<1>9. S = Nat
  <2>1. S \in SUBSET Nat
    OBVIOUS
  <2> HIDE DEF S
  <2> QED
    BY <1>7, <1>8, <2>1, SetInduction
<1>10. PICK e, x : e = runs[N] /\ x = [at |-> a, len |-> N * B]
  OBVIOUS
<1>11. e = <<x>>
  <2>1. N - 1 \in Nat /\ (N - 1) + 1 = N
    BY ONLY <1>3
  <2>2. N - 1 \in S
    BY <1>9, <2>1
  <2>3. runs[(N - 1) + 1] = <<[at |-> a, len |-> ((N - 1) + 1) * B]>>
    BY ONLY <2>1, <2>2, <1>3
  <2> QED
    BY ONLY <1>10, <2>1, <2>3
<1>12. N * B \in Nat /\ N * B > 0 /\ size <= N * B
  BY <1>2, <1>3, <1>5
<1>13. x \in Extent /\ x.at = a /\ x.len = N * B
  BY ONLY <1>6, <1>10, <1>12 DEF Extent
<1>14. e \in Extents /\ Len(e) = 1 /\ e[1] = x
  BY ONLY <1>11, <1>13 DEF Extents
<1>15. extentBytes(e) = N * B /\ Before(e)[0] = 0
  <2>1. IsList(e)
    BY ONLY <1>14, ExtentsAreLists
  <2>2. /\ Before(e)[0] = 0 /\ extentBytes(e) = Before(e)[Len(e)]
        /\ \A i \in 1..Len(e) : Before(e)[i] = Before(e)[i - 1] + e[i].len
    BY ONLY <2>1, BeforeIs
  <2>3. 1 \in 1..1 /\ 1 - 1 = 0
    OBVIOUS
  <2>4. Before(e)[1] = Before(e)[0] + e[1].len
    BY ONLY <1>14, <2>2, <2>3
  <2> QED
    BY ONLY <1>12, <1>13, <1>14, <2>2, <2>4
<1>16. PICK t : t = trimToSize(e, size)
  OBVIOUS
<1>17. PICK m : CutTo(e, size, m, t)
  <2>1. \A i \in 1..Len(e) : e[i].len > 0
    BY ONLY <1>12, <1>13, <1>14
  <2> QED
    BY ONLY <1>12, <1>14, <1>15, <1>16, <2>1, TrimmedIs, size \in Nat \ {0}
<1>18. m = 1 /\ t \in Extents /\ Len(t) = 1 /\ t[1].at = a /\ t[1].len = size
  <2>1. m = 1
    BY ONLY <1>14, <1>17 DEF CutTo
  <2>2. t \in Extents /\ Len(t) = 1 /\ t[1].at = e[1].at /\ t[1].len = size - Before(e)[1 - 1]
    BY ONLY <1>17, <2>1 DEF CutTo
  <2> QED
    BY ONLY <1>13, <1>14, <1>15, <2>1, <2>2, size \in Nat \ {0}
<1>19. t[1] = [at |-> a, len |-> size]
  <2>1. t[1] \in Extent
    <3>1. 1 \in 1..Len(t)
      BY ONLY <1>18
    <3> QED
      BY ONLY <1>18, <3>1, ElementOfSeq DEF Extents
  <2> QED
    BY ONLY <1>18, <2>1, ExtentIs
<1>20. t = <<t[1]>>
  BY ONLY <1>18 DEF Extents
<1> QED
  BY ONLY <1>1, <1>2, <1>10, <1>16, <1>19, <1>20

(* And the guess for them is that extent. *)
LEMMA GuessIsRight ==
  ASSUME NEW clusters \in Seq(Clusters), clusters # <<>>, Consecutive(clusters),
         NEW size \in Nat \ {0}, size <= Len(clusters) * BytesPerCluster
  PROVE  extentsAssumingContiguous(clusters[1], size) = <<[at |-> clusterOffset(clusters[1]), len |-> size]>>
<1>1. PICK N, B, first : N = Len(clusters) /\ B = BytesPerCluster /\ first = clusters[1]
  OBVIOUS
<1>2. /\ N \in Nat /\ N >= 1 /\ \A k \in 1..N : clusters[k] \in Clusters
      /\ \A k \in 1..(N - 1) : clusters[k + 1] = clusters[k] + 1
  BY <1>1 DEF Consecutive
<1>3. first \in Clusters /\ first \in Nat /\ B \in Nat /\ B > 0 /\ TotalClusters \in Nat /\ size - 1 \in Nat
  BY <1>1, <1>2, GeometryIs
<1> DEFINE S == {k \in Nat : k + 1 <= N => clusters[k + 1] = first + k}
<1>4. 0 \in S
  BY <1>1, <1>3
<1>5. ASSUME NEW k \in S PROVE k + 1 \in S
  <2>1. k \in Nat /\ k + 1 \in Nat
    OBVIOUS
  <2> SUFFICES ASSUME (k + 1) + 1 <= N PROVE  clusters[(k + 1) + 1] = first + (k + 1)
    BY <2>1
  <2>2. k + 1 \in 1..(N - 1) /\ clusters[k + 1] = first + k
    BY <1>2, <2>1
  <2> QED
    BY ONLY <1>2, <1>3, <2>1, <2>2
<1>6. S = Nat
  <2>1. S \in SUBSET Nat
    OBVIOUS
  <2> HIDE DEF S
  <2> QED
    BY <1>4, <1>5, <2>1, SetInduction
<1>7. clusters[N] = first + (N - 1) /\ clusters[N] \in Clusters
  <2>1. N - 1 \in Nat /\ (N - 1) + 1 = N /\ N \in 1..N
    BY ONLY <1>2
  <2>2. N - 1 \in S
    BY <1>6, <2>1
  <2>3. clusters[(N - 1) + 1] = first + (N - 1)
    BY ONLY <1>2, <2>1, <2>2
  <2> QED
    BY ONLY <1>2, <2>1, <2>3
<1>8. first + N <= 2 + TotalClusters
  BY ONLY <1>2, <1>3, <1>7, GeometryIs
<1>9. PICK q : q = (size - 1) \div B
  OBVIOUS
<1>10. q \in Nat /\ q < N
  <2>1. size - 1 < N * B
    BY <1>1, <1>2, <1>3
  <2>2. (size - 1) \div B \in Nat /\ (size - 1) \div B < N
    <3>1. PICK z : z = size - 1
      OBVIOUS
    <3>2. z \in Nat /\ z < N * B /\ B \in Nat \ {0}
      BY ONLY <1>3, <2>1, <3>1
    <3>3. z \div B \in Nat
      BY ONLY <3>2, Divided
    <3>4. z \div B < N
      BY ONLY <1>2, <3>2, DividedBelow
    <3> QED
      BY ONLY <3>1, <3>3, <3>4
  <2> QED
    BY ONLY <1>9, <2>2
<1>11. ~(first + (q + 1) > kFirstCluster + TotalClusters) /\ size # 0
  BY ONLY <1>2, <1>3, <1>8, <1>10, GeometryIs, size \in Nat \ {0}
<1> QED
  BY ONLY <1>1, <1>9, <1>11 DEF extentsAssumingContiguous

-----------------------------------------------------------------------------
(***************************************************************************)
(* What the slots of a volume say of its nodes.                            *)
(***************************************************************************)

Kinds == {"end", "file", "stream", "name", "other"}
SlotType == [kind : Kinds, id : Nat, dir : BOOLEAN, cluster : Nat, size : Nat,
             noFatChain : BOOLEAN, deleted : BOOLEAN]
NodeType == [path : Seq(Nat), dir : BOOLEAN, clusters : Seq(Clusters), size : Nat,
             live : BOOLEAN, noFatChain : BOOLEAN]

(* The directory a node was made in. *)
ParentOf(n) ==
  IF Len(nodes[n].path) = 1 THEN 1 ELSE nodes[n].path[Len(nodes[n].path) - 1]

NodeOk(n) ==
  LET o == nodes[n] IN
  /\ n = 1 => o.path = <<>> /\ o.live /\ o.dir
  /\ n > 1 => /\ Len(o.path) >= 1 /\ o.path[Len(o.path)] = n /\ ParentOf(n) \in 1..Len(nodes)
  /\ o.dir => o.clusters # <<>>
  /\ ~o.dir => o.size <= Len(o.clusters) * BytesPerCluster

VolumeType ==
  /\ kind \in {"fat", "exfat"} /\ table \in [Clusters -> Nat] /\ held \subseteq Clusters
  /\ content \in [Clusters -> [1..SlotsPerCluster -> SlotType]]
  /\ nodes \in Seq(NodeType) /\ Len(nodes) >= 1

(* On FAT, a file's slot has its size and its first cluster. *)
Describes(s) ==
  LET o == nodes[s.id] IN
  kind = "fat" /\ s.kind = "file" =>
    s.dir = o.dir /\ s.size = o.size /\ (o.clusters # <<>> => s.cluster = o.clusters[1])

(* A slot that names a node is in the node's directory, and deleted as soon as the node is. *)
Names(c, s) ==
  s.id # 0 =>
    /\ s.kind # "end" /\ s.id \in 2..Len(nodes) /\ Describes(s)
    /\ c \in Range(nodes[ParentOf(s.id)].clusters)

Marked(s) ==
  s.id # 0 => (s.deleted => ~nodes[s.id].live) /\ (~s.deleted => nodes[s.id].live)

SlotOk(c, s) == Names(c, s) /\ Marked(s)

SlotsInv == \A c \in Clusters : \A i \in 1..SlotsPerCluster : SlotOk(c, content[c][i])

VolumeInv == VolumeType /\ (\A n \in 1..Len(nodes) : NodeOk(n)) /\ SlotsInv

(* A slot of no node. *)
Anonymous(s) == s \in SlotType /\ s.id = 0

LEMMA SlotIs ==
  ASSUME NEW k \in Kinds, NEW id \in Nat
  PROVE  /\ Slot(k, id) \in SlotType /\ Slot(k, id).kind = k /\ Slot(k, id).id = id /\ ~Slot(k, id).deleted
         /\ Slot(k, id).cluster = 0 /\ Slot(k, id).size = 0 /\ Slot(k, id).dir = FALSE
BY DEF Slot, SlotType

LEMMA WithDir ==
  ASSUME NEW s \in SlotType, NEW d \in BOOLEAN
  PROVE  LET x == [s EXCEPT !.dir = d] IN
         x \in SlotType /\ x.kind = s.kind /\ x.id = s.id /\ x.deleted = s.deleted
BY DEF SlotType

LEMMA WithDirCluster ==
  ASSUME NEW s \in SlotType, NEW d \in BOOLEAN, NEW c \in Nat
  PROVE  LET x == [s EXCEPT !.dir = d, !.cluster = c] IN
         x \in SlotType /\ x.kind = s.kind /\ x.id = s.id /\ x.deleted = s.deleted
BY DEF SlotType

LEMMA WithCluster ==
  ASSUME NEW s \in SlotType, NEW c \in Nat
  PROVE  LET x == [s EXCEPT !.cluster = c] IN
         x \in SlotType /\ x.kind = s.kind /\ x.id = s.id /\ x.deleted = s.deleted
BY DEF SlotType

LEMMA WithPlace ==
  ASSUME NEW s \in SlotType, NEW c \in Nat, NEW z \in Nat
  PROVE  LET x == [s EXCEPT !.cluster = c, !.size = z] IN
         x \in SlotType /\ x.kind = s.kind /\ x.id = s.id /\ x.deleted = s.deleted
BY DEF SlotType

LEMMA WithDeleted ==
  ASSUME NEW s \in SlotType, NEW f \in BOOLEAN
  PROVE  LET x == [s EXCEPT !.deleted = f] IN
         x \in SlotType /\ x.kind = s.kind /\ x.id = s.id
         /\ x.dir = s.dir /\ x.cluster = s.cluster /\ x.size = s.size /\ x.deleted = f
BY DEF SlotType

LEMMA EndIs == Anonymous(End) /\ End.kind = "end" /\ \A i \in 1..SlotsPerCluster : AllEnd[i] = End
<1>1. "end" \in Kinds /\ 0 \in Nat
  BY DEF Kinds
<1> QED
  BY <1>1, SlotIs DEF End, AllEnd, Anonymous

LEMMA FileBytesAre ==
  ASSUME NEW k, NEW i \in 1..SlotsPerCluster
  PROVE  Anonymous(FileBytes(k)[i])
<1>1. PICK o, f : o = Slot("other", 0) /\ f = Slot("file", 0)
  OBVIOUS
<1>2. "other" \in Kinds /\ "file" \in Kinds /\ 0 \in Nat /\ 1 \in Nat /\ kFirstCluster \in Nat /\ FALSE \in BOOLEAN
  BY DEF Kinds, kFirstCluster
<1>3. Anonymous(o) /\ Anonymous(f)
  BY ONLY <1>1, <1>2, SlotIs DEF Anonymous
<1>4. PICK g : g = [f EXCEPT !.cluster = kFirstCluster, !.size = 1]
  OBVIOUS
<1>5. Anonymous(g)
  BY ONLY <1>2, <1>3, <1>4, WithPlace DEF Anonymous
<1>6. FileBytes(k)[i] = IF k = "exfat" THEN o ELSE g
  BY ONLY <1>1, <1>4, i \in 1..SlotsPerCluster DEF FileBytes
<1> QED
  BY ONLY <1>3, <1>5, <1>6

LEMMA NodeIs ==
  ASSUME VolumeInv, NEW n \in 1..Len(nodes)
  PROVE  /\ nodes[n] \in NodeType /\ nodes[n].path \in Seq(Nat) /\ nodes[n].clusters \in Seq(Clusters)
         /\ nodes[n].size \in Nat /\ nodes[n].dir \in BOOLEAN /\ nodes[n].live \in BOOLEAN /\ NodeOk(n)
<1>1. nodes[n] \in NodeType
  BY DEF VolumeInv, VolumeType
<1> QED
  BY <1>1 DEF NodeType, VolumeInv

LEMMA NewDirectoryIs ==
  ASSUME VolumeInv, NEW parent \in LiveDirectories, NEW self \in Nat, NEW i \in 1..SlotsPerCluster
  PROVE  Anonymous(NewDirectory(parent, self)[i])
<1>1. parent \in 1..Len(nodes) /\ nodes[parent].dir
  BY DEF LiveDirectories, VolumeInv, VolumeType
<1>2. PICK s, dot, up, dotdot :
        /\ s = Slot("file", 0) /\ dot = [s EXCEPT !.dir = TRUE, !.cluster = self]
        /\ up = (IF parent = 1 THEN 0 ELSE nodes[parent].clusters[1]) /\ dotdot = [dot EXCEPT !.cluster = up]
  OBVIOUS
<1>3. up \in Nat
  <2>1. nodes[parent].clusters \in Seq(Clusters) /\ nodes[parent].clusters # <<>>
    BY <1>1, NodeIs DEF NodeOk
  <2>2. nodes[parent].clusters[1] \in Clusters
    BY ONLY <2>1
  <2> QED
    BY ONLY <1>2, <2>2, GeometryIs
<1>4. "file" \in Kinds /\ 0 \in Nat /\ TRUE \in BOOLEAN /\ FALSE \in BOOLEAN
  BY DEF Kinds
<1>5. s \in SlotType /\ s.id = 0
  BY ONLY <1>2, <1>4, SlotIs
<1>6. dot \in SlotType /\ dot.id = 0
  BY ONLY <1>2, <1>4, <1>5, WithDirCluster, self \in Nat
<1>7. dotdot \in SlotType /\ dotdot.id = 0
  BY ONLY <1>2, <1>3, <1>4, <1>6, WithCluster
<1>8. NewDirectory(parent, self)[i] \in {dot, dotdot, End}
  <2>1. NewDirectory(parent, self) = IF kind = "fat" THEN [AllEnd EXCEPT ![1] = dot, ![2] = dotdot] ELSE AllEnd
    BY ONLY <1>2 DEF NewDirectory
  <2>2. AllEnd[i] = End /\ DOMAIN AllEnd = 1..SlotsPerCluster
    BY EndIs DEF AllEnd
  <2> HIDE DEF AllEnd
  <2> QED
    BY ONLY <2>1, <2>2, i \in 1..SlotsPerCluster
<1> QED
  BY ONLY <1>6, <1>7, <1>8, EndIs DEF Anonymous

(* The slots a host writes for a node. *)
Fresh(s, id, dir, first, size) ==
  /\ s \in SlotType /\ s.id = id /\ s.kind # "end" /\ ~s.deleted
  /\ kind = "fat" /\ s.kind = "file" => s.dir = dir /\ s.size = size /\ s.cluster = first

LEMMA SlotsForAre ==
  ASSUME NEW id \in Nat, NEW dir \in BOOLEAN, NEW first \in Nat, NEW size \in Nat,
         NEW noFatChain \in BOOLEAN, NEW names \in Nat,
         NEW j \in DOMAIN SlotsFor(id, dir, first, size, noFatChain, names)
  PROVE  Fresh(SlotsFor(id, dir, first, size, noFatChain, names)[j], id, dir, first, size)
<1>1. PICK a, b, d, name, file, stream, head, new :
        /\ a = Slot("name", id) /\ b = Slot("file", id) /\ d = Slot("stream", id)
        /\ name = [i \in 1..names |-> a]
        /\ file = [b EXCEPT !.dir = dir, !.cluster = first, !.size = size]
        /\ stream = [d EXCEPT !.cluster = first, !.size = size, !.noFatChain = noFatChain]
        /\ head = [b EXCEPT !.dir = dir]
        /\ new = SlotsFor(id, dir, first, size, noFatChain, names)
  OBVIOUS
<1>2. "name" \in Kinds /\ "file" \in Kinds /\ "stream" \in Kinds
  BY DEF Kinds
<1>3. /\ a \in SlotType /\ a.id = id /\ a.kind = "name" /\ ~a.deleted
      /\ b \in SlotType /\ b.id = id /\ b.kind = "file" /\ ~b.deleted
      /\ d \in SlotType /\ d.id = id /\ d.kind = "stream" /\ ~d.deleted
  <2>1. a = Slot("name", id) /\ b = Slot("file", id) /\ d = Slot("stream", id)
    BY ONLY <1>1
  <2> QED
    BY ONLY ZenonT(60), <1>2, <2>1, SlotIs, id \in Nat
<1>4. /\ file \in SlotType /\ file.id = id /\ file.kind = "file" /\ ~file.deleted
      /\ file.dir = dir /\ file.cluster = first /\ file.size = size
  <2>1. file = [b EXCEPT !.dir = dir, !.cluster = first, !.size = size]
    BY ONLY <1>1
  <2>2. b \in SlotType /\ b.id = id /\ b.kind = "file" /\ ~b.deleted
    BY ONLY <1>3
  <2> QED
    BY ONLY <2>1, <2>2, dir \in BOOLEAN, first \in Nat, size \in Nat DEF SlotType
<1>5. stream \in SlotType /\ stream.id = id /\ stream.kind = "stream" /\ ~stream.deleted
  <2>1. stream = [d EXCEPT !.cluster = first, !.size = size, !.noFatChain = noFatChain]
    BY ONLY <1>1
  <2>2. d \in SlotType /\ d.id = id /\ d.kind = "stream" /\ ~d.deleted
    BY ONLY <1>3
  <2> QED
    BY ONLY <2>1, <2>2, noFatChain \in BOOLEAN, first \in Nat, size \in Nat DEF SlotType
<1>6. head \in SlotType /\ head.id = id /\ head.kind = "file" /\ ~head.deleted
  BY ONLY <1>1, <1>3, WithDir, dir \in BOOLEAN
<1>7. name \in Seq(SlotType) /\ Len(name) = names /\ \A k \in 1..names : name[k] = a
  <2>1. name \in [1..names -> SlotType] /\ \A k \in 1..names : name[k] = a
    BY ONLY <1>1, <1>3
  <2> QED
    BY ONLY <2>1, FunctionIsSeq, names \in Nat
<1>8. Fresh(a, id, dir, first, size) /\ (kind = "fat" => Fresh(file, id, dir, first, size))
  BY ONLY <1>3, <1>4 DEF Fresh
<1>9. kind # "fat" => Fresh(head, id, dir, first, size) /\ Fresh(stream, id, dir, first, size)
  BY ONLY <1>5, <1>6 DEF Fresh
<1>10. CASE kind = "fat"
  <2>1. new = Append(name, file)
    BY ONLY <1>1, <1>10 DEF SlotsFor
  <2>2. j \in 1..(names + 1)
    BY ONLY <1>1, <1>4, <1>7, <2>1, j \in DOMAIN SlotsFor(id, dir, first, size, noFatChain, names), names \in Nat
  <2>3. new[j] = a \/ new[j] = file
    BY ONLY <1>4, <1>7, <2>1, <2>2, names \in Nat
  <2> QED
    BY ONLY <1>1, <1>8, <1>10, <2>3
<1>11. CASE kind # "fat"
  <2>1. PICK two : two = <<head, stream>>
    OBVIOUS
  <2>2. two \in Seq(SlotType) /\ Len(two) = 2 /\ two[1] = head /\ two[2] = stream
    BY ONLY <1>5, <1>6, <2>1
  <2>3. new = two \o name
    BY ONLY <1>1, <1>11, <2>1 DEF SlotsFor
  <2>4. j \in 1..(2 + names) /\ \A k \in 1..(2 + names) : (two \o name)[k] = IF k <= 2 THEN two[k] ELSE name[k - 2]
    <3>1. /\ Len(two \o name) = Len(two) + Len(name) /\ two \o name \in Seq(SlotType)
          /\ \A k \in 1..(Len(two) + Len(name)) :
               (two \o name)[k] = IF k <= Len(two) THEN two[k] ELSE name[k - Len(two)]
      BY ONLY <1>7, <2>2, ConcatProperties
    <3>2. j \in DOMAIN (two \o name)
      BY ONLY <1>1, <2>3, j \in DOMAIN SlotsFor(id, dir, first, size, noFatChain, names)
    <3>3. DOMAIN (two \o name) = 1..Len(two \o name)
      BY ONLY <3>1, TypedIsSequence
    <3> QED
      BY ONLY <1>7, <2>2, <3>1, <3>2, <3>3
  <2>6. new[j] = a \/ new[j] = head \/ new[j] = stream
    <3>1. CASE j <= 2
      <4>1. j = 1 \/ j = 2
        BY ONLY <2>4, <3>1
      <4> QED
        BY ONLY <2>2, <2>3, <2>4, <3>1, <4>1
    <3>2. CASE ~(j <= 2)
      <4>1. j - 2 \in 1..names
        BY ONLY <2>4, <3>2, names \in Nat
      <4> QED
        BY ONLY <1>7, <2>3, <2>4, <3>2, <4>1
    <3> QED
      BY <3>1, <3>2
  <2> QED
    BY ONLY <1>1, <1>8, <1>9, <1>11, <2>6
<1> QED
  BY <1>10, <1>11

LEMMA WrittenSlots ==
  ASSUME NEW clusters, NEW new, NEW at, NEW over, NEW c \in Clusters, NEW i \in 1..SlotsPerCluster
  PROVE  LET s == Written(clusters, new, at, over)[c][i] IN
         s = over[c][i] \/ \E j \in DOMAIN new : s = new[j] /\ c \in Range(clusters)
<1>1. CASE \E k \in DOMAIN clusters : clusters[k] = c
  <2>1. PICK k : k = CHOOSE x \in DOMAIN clusters : clusters[x] = c
    OBVIOUS
  <2>2. c \in Range(clusters)
    BY ONLY <1>1 DEF Range
  <2>3. PICK j : j = (k - 1) * SlotsPerCluster + i - at + 1
    OBVIOUS
  <2>4. Written(clusters, new, at, over)[c][i] = IF j \in DOMAIN new THEN new[j] ELSE over[c][i]
    BY ONLY <1>1, <2>1, <2>3, c \in Clusters, i \in 1..SlotsPerCluster, Zenon DEF Written
  <2> QED
    BY ONLY <2>2, <2>4
<1>2. CASE ~ \E k \in DOMAIN clusters : clusters[k] = c
  BY ONLY <1>2, c \in Clusters DEF Written
<1> QED
  BY <1>1, <1>2

LEMMA WrittenShape ==
  ASSUME NEW clusters, NEW new, NEW at, NEW over, \A c \in Clusters : DOMAIN over[c] = 1..SlotsPerCluster /\ over[c] = [i \in 1..SlotsPerCluster |-> over[c][i]]
  PROVE  LET w == Written(clusters, new, at, over) IN
         DOMAIN w = Clusters /\ w = [c \in Clusters |-> w[c]] /\ \A c \in Clusters : w[c] = [i \in 1..SlotsPerCluster |-> w[c][i]]
<1>1. PICK w : w = Written(clusters, new, at, over)
  OBVIOUS
<1>2. DOMAIN w = Clusters /\ w = [c \in Clusters |-> w[c]]
  BY ONLY <1>1 DEF Written
<1>3. ASSUME NEW c \in Clusters PROVE w[c] = [i \in 1..SlotsPerCluster |-> w[c][i]]
  BY ONLY <1>1, \A x \in Clusters : over[x] = [i \in 1..SlotsPerCluster |-> over[x][i]], c \in Clusters DEF Written
<1> QED
  BY ONLY <1>1, <1>2, <1>3

-----------------------------------------------------------------------------
(***************************************************************************)
(* The host.                                                               *)
(***************************************************************************)

(* What no change to the volume takes back. *)
NodesGrow ==
  /\ kind' = kind /\ Len(nodes') \in Nat /\ Len(nodes) <= Len(nodes')
  /\ \A n \in 1..Len(nodes) :
       /\ nodes'[n].path = nodes[n].path /\ nodes'[n].dir = nodes[n].dir /\ nodes'[n].size = nodes[n].size
       /\ Range(nodes[n].clusters) \subseteq Range(nodes'[n].clusters)
       /\ nodes'[n].clusters # <<>> => nodes[n].clusters # <<>> /\ nodes'[n].clusters[1] = nodes[n].clusters[1]

LEMMA LengthIs ==
  ASSUME VolumeInv
  PROVE  Len(nodes) \in Nat /\ Len(nodes) >= 1 /\ DOMAIN nodes = 1..Len(nodes)
BY DEF VolumeInv, VolumeType

LEMMA ParentIs ==
  ASSUME VolumeInv, NEW n \in 2..Len(nodes)
  PROVE  ParentOf(n) \in 1..Len(nodes)
<1>1. n \in 1..Len(nodes) /\ n > 1
  BY LengthIs
<1> QED
  BY <1>1 DEF VolumeInv, NodeOk

LEMMA SlotCarries ==
  ASSUME VolumeInv, NodesGrow, NEW c \in Clusters, NEW s \in SlotType, Names(c, s), Marked(s)'
  PROVE  SlotOk(c, s)'
<1> SUFFICES ASSUME s.id # 0
             PROVE  /\ s.kind # "end" /\ s.id \in 2..Len(nodes') /\ Describes(s)'
                    /\ c \in Range(nodes'[ParentOf(s.id)'].clusters)
  BY DEF SlotOk, Names
<1>1. PICK n : n = s.id
  OBVIOUS
<1>2. /\ s.kind # "end" /\ n \in 2..Len(nodes) /\ Describes(s)
      /\ c \in Range(nodes[ParentOf(n)].clusters)
  BY <1>1 DEF Names
<1>3. n \in 1..Len(nodes) /\ n \in 2..Len(nodes') /\ ParentOf(n) \in 1..Len(nodes)
  BY <1>2, LengthIs, ParentIs DEF NodesGrow
<1>4. ParentOf(n)' = ParentOf(n)
  BY <1>3 DEF ParentOf, NodesGrow
<1>5. Describes(s)'
  BY <1>1, <1>2, <1>3 DEF Describes, NodesGrow
<1>6. c \in Range(nodes'[ParentOf(n)'].clusters)
  BY <1>1, <1>2, <1>3, <1>4 DEF NodesGrow
<1> QED
  BY <1>1, <1>2, <1>3, <1>5, <1>6

LEMMA SlotStays ==
  ASSUME VolumeInv, NodesGrow, NEW c \in Clusters, NEW s \in SlotType, SlotOk(c, s),
         s.id # 0 => nodes'[s.id].live = nodes[s.id].live
  PROVE  SlotOk(c, s)'
<1>1. Names(c, s) /\ Marked(s)
  BY DEF SlotOk
<1>2. Marked(s)'
  BY <1>1 DEF Marked
<1> QED
  BY <1>1, <1>2, SlotCarries

LEMMA MaxOfZero ==
  ASSUME NEW a \in Int
  PROVE  Max({0, a}) = IF a >= 0 THEN a ELSE 0
<1>1. \E x \in {0, a} : \A y \in {0, a} : x >= y
  OBVIOUS
<1>2. Max({0, a}) \in {0, a} /\ \A y \in {0, a} : Max({0, a}) >= y
  BY <1>1 DEF Max
<1> QED
  BY <1>2

LEMMA ChainedTyped ==
  ASSUME table \in [Clusters -> Nat], NEW clusters \in Seq(Clusters)
  PROVE  Chained(clusters) \in [Clusters -> Nat]
<1>1. ASSUME NEW c \in Clusters PROVE Chained(clusters)[c] \in Nat
  <2>1. CASE \E i \in DOMAIN clusters : clusters[i] = c
    <3>1. PICK i : i = CHOOSE x \in DOMAIN clusters : clusters[x] = c
      OBVIOUS
    <3>2. i \in 1..Len(clusters) /\ Len(clusters) \in Nat
      BY <2>1, <3>1
    <3>3. Chained(clusters)[c] = IF i = Len(clusters) THEN kEndOfChain ELSE clusters[i + 1]
      BY ONLY <2>1, <3>1, c \in Clusters, Zenon DEF Chained
    <3>4. i # Len(clusters) => clusters[i + 1] \in Clusters
      BY <3>2
    <3> QED
      BY ONLY <3>3, <3>4, GeometryIs
  <2>2. CASE ~ \E i \in DOMAIN clusters : clusters[i] = c
    BY <2>2 DEF Chained
  <2> QED
    BY <2>1, <2>2
<1>2. DOMAIN Chained(clusters) = Clusters /\ Chained(clusters) = [c \in Clusters |-> Chained(clusters)[c]]
  BY DEF Chained
<1> QED
  BY ONLY <1>1, <1>2

LEMMA MakeKeeps ==
  ASSUME VolumeInv, NEW parent \in LiveDirectories, NEW dir \in BOOLEAN, NEW clusters \in Seq(Clusters),
         dir => clusters # <<>>, NEW noFatChain \in BOOLEAN, NEW names \in Nat,
         make(parent, dir, clusters, noFatChain, names)
  PROVE  VolumeInv'
<1>1. PICK id, size, first, new, at, filled, node :
        /\ id = Len(nodes) + 1
        /\ size = (IF dir THEN 0 ELSE Max({0, Len(clusters) * BytesPerCluster - 1}))
        /\ first = (IF clusters = <<>> THEN 0 ELSE clusters[1])
        /\ new = SlotsFor(id, dir, first, size, noFatChain, names)
        /\ at = Min(Places(nodes[parent].clusters, Len(new)))
        /\ filled = [c \in Clusters |->
                       IF \A i \in DOMAIN clusters : clusters[i] # c THEN content[c]
                       ELSE IF dir THEN NewDirectory(parent, c) ELSE FileBytes(kind)]
        /\ node = [path |-> Append(nodes[parent].path, id), dir |-> dir, clusters |-> clusters, size |-> size,
                   live |-> TRUE, noFatChain |-> noFatChain]
  OBVIOUS
<1>2. /\ content' = Written(nodes[parent].clusters, new, at, filled)
      /\ table' = (IF noFatChain THEN table ELSE Chained(clusters))
      /\ held' = held \cup Range(clusters) /\ nodes' = Append(nodes, node) /\ kind' = kind
  BY <1>1, Zenon DEF make
<1>3. parent \in 1..Len(nodes) /\ Len(nodes) \in Nat /\ Len(nodes) >= 1 /\ nodes[parent].dir /\ nodes[parent].live
  BY LengthIs DEF LiveDirectories
<1>4. id \in Nat /\ id >= 2
  BY <1>1, <1>3
<1>5. size \in Nat /\ (~dir => size <= Len(clusters) * BytesPerCluster)
  <2>1. PICK a : a = Len(clusters) * BytesPerCluster
    OBVIOUS
  <2>2. a \in Nat
    BY <2>1, GeometryIs
  <2>3. Max({0, a - 1}) = IF a - 1 >= 0 THEN a - 1 ELSE 0
    BY ONLY <2>2, MaxOfZero
  <2> QED
    BY ONLY <1>1, <2>1, <2>2, <2>3
<1>6. first \in Nat /\ (clusters # <<>> => first = clusters[1])
  <2>1. clusters # <<>> => clusters[1] \in Clusters
    OBVIOUS
  <2> QED
    BY ONLY <1>1, <2>1, GeometryIs
<1>7. nodes[parent].path \in Seq(Nat) /\ nodes[parent].clusters \in Seq(Clusters) /\ NodeOk(parent)
  BY <1>3, NodeIs
<1>8. PICK path : path = Append(nodes[parent].path, id)
  OBVIOUS
<1>9. path \in Seq(Nat) /\ Len(path) = Len(nodes[parent].path) + 1 /\ path[Len(path)] = id
      /\ \A k \in 1..Len(nodes[parent].path) : path[k] = nodes[parent].path[k]
  BY ONLY <1>4, <1>7, <1>8
<1>10. node \in NodeType /\ node.path = path /\ node.dir = dir /\ node.clusters = clusters /\ node.size = size /\ node.live
  <2>1. node = [path |-> path, dir |-> dir, clusters |-> clusters, size |-> size, live |-> TRUE, noFatChain |-> noFatChain]
    BY ONLY <1>1, <1>8
  <2> QED
    BY ONLY <1>5, <1>9, <2>1, dir \in BOOLEAN, clusters \in Seq(Clusters), noFatChain \in BOOLEAN DEF NodeType
<1>11. /\ nodes' \in Seq(NodeType) /\ Len(nodes') = Len(nodes) + 1 /\ nodes'[id] = node
       /\ \A n \in 1..Len(nodes) : nodes'[n] = nodes[n]
  <2>1. nodes \in Seq(NodeType)
    BY DEF VolumeInv, VolumeType
  <2> QED
    BY ONLY <1>1, <1>2, <1>10, <2>1
<1>12. NodesGrow
  BY ONLY <1>2, <1>3, <1>11 DEF NodesGrow
<1>13. ParentOf(id)' = parent
  <2>1. CASE parent = 1
    <3>1. Len(path) = 1
      BY ONLY <1>7, <1>9, <2>1 DEF NodeOk
    <3> QED
      BY ONLY <1>10, <1>11, <2>1, <3>1 DEF ParentOf
  <2>2. CASE parent # 1
    <3>1. parent > 1
      BY ONLY <1>3, <2>2
    <3>2. PICK m : m = Len(nodes[parent].path)
      OBVIOUS
    <3>3. m \in Nat /\ m >= 1 /\ nodes[parent].path[m] = parent
      BY ONLY <1>7, <3>1, <3>2 DEF NodeOk
    <3>4. Len(path) # 1 /\ path[Len(path) - 1] = parent
      <4>1. Len(path) = m + 1 /\ \A k \in 1..m : path[k] = nodes[parent].path[k]
        BY ONLY <1>9, <3>2
      <4>2. Len(path) # 1 /\ Len(path) - 1 = m /\ m \in 1..m
        BY ONLY <3>3, <4>1
      <4> QED
        BY ONLY <3>3, <4>1, <4>2
    <3> QED
      BY ONLY <1>10, <1>11, <3>4 DEF ParentOf
  <2> QED
    BY <2>1, <2>2
<1>14. ASSUME NEW n \in 1..Len(nodes') PROVE NodeOk(n)'
  <2>1. CASE n \in 1..Len(nodes)
    <3>1. nodes'[n] = nodes[n] /\ NodeOk(n) /\ ParentOf(n)' = ParentOf(n)
      BY <1>11, <2>1 DEF VolumeInv, ParentOf
    <3> QED
      BY ONLY <1>3, <1>11, <3>1 DEF NodeOk
  <2>2. CASE n = id
    <3>1. nodes'[n] = node /\ n # 1 /\ parent \in 1..Len(nodes')
      BY ONLY <1>3, <1>4, <1>11, <2>2
    <3>2. Len(path) >= 1
      BY ONLY <1>7, <1>9
    <3> QED
      BY ONLY <1>5, <1>9, <1>10, <1>13, <2>2, <3>1, <3>2, dir => clusters # <<>> DEF NodeOk
  <2> QED
    BY ONLY <1>1, <1>3, <1>11, <2>1, <2>2, n \in 1..Len(nodes')
<1>15. ASSUME NEW c \in Clusters, NEW i \in 1..SlotsPerCluster
       PROVE  filled[c] = [k \in 1..SlotsPerCluster |-> filled[c][k]]
              /\ (filled[c][i] = content[c][i] \/ Anonymous(filled[c][i]))
  <2>1. filled[c] = IF \A k \in DOMAIN clusters : clusters[k] # c THEN content[c]
                    ELSE IF dir THEN NewDirectory(parent, c) ELSE FileBytes(kind)
    BY ONLY <1>1, c \in Clusters
  <2>2. content[c] = [k \in 1..SlotsPerCluster |-> content[c][k]]
    BY DEF VolumeInv, VolumeType
  <2>3. FileBytes(kind) = [k \in 1..SlotsPerCluster |-> FileBytes(kind)[k]] /\ Anonymous(FileBytes(kind)[i])
    BY FileBytesAre DEF FileBytes
  <2>4. /\ NewDirectory(parent, c) = [k \in 1..SlotsPerCluster |-> NewDirectory(parent, c)[k]]
        /\ Anonymous(NewDirectory(parent, c)[i])
    <3>1. Anonymous(NewDirectory(parent, c)[i])
      BY NewDirectoryIs, GeometryIs
    <3> QED
      BY <3>1 DEF NewDirectory, AllEnd
  <2> QED
    BY ONLY <2>1, <2>2, <2>3, <2>4
<1>16. /\ content' = [c \in Clusters |-> content'[c]]
       /\ \A c \in Clusters : content'[c] = [i \in 1..SlotsPerCluster |-> content'[c][i]]
  <2>1. \A c \in Clusters : filled[c] = [k \in 1..SlotsPerCluster |-> filled[c][k]]
    <3>1. 1 \in 1..SlotsPerCluster
      BY GeometryIs
    <3> QED
      BY ONLY <1>15, <3>1
  <2>2. \A c \in Clusters : DOMAIN filled[c] = 1..SlotsPerCluster
    BY ONLY <2>1
  <2>3. PICK w : w = Written(nodes[parent].clusters, new, at, filled)
    OBVIOUS
  <2>4. DOMAIN w = Clusters /\ w = [c \in Clusters |-> w[c]] /\ \A c \in Clusters : w[c] = [i \in 1..SlotsPerCluster |-> w[c][i]]
    BY ONLY SMTT(30), <2>1, <2>2, <2>3, WrittenShape
  <2>5. content' = w
    BY ONLY <1>2, <2>3
  <2> QED
    BY ONLY <2>4, <2>5
<1>17. ASSUME NEW c \in Clusters, NEW i \in 1..SlotsPerCluster
       PROVE  content'[c][i] \in SlotType /\ SlotOk(c, content[c][i])'
  <2>1. PICK s : s = content'[c][i]
    OBVIOUS
  <2>2. \/ s = filled[c][i]
        \/ \E j \in DOMAIN new : s = new[j] /\ c \in Range(nodes[parent].clusters)
    BY ONLY <1>2, <2>1, WrittenSlots, c \in Clusters, i \in 1..SlotsPerCluster
  <2>3. CASE s = content[c][i]
    <3>1. s \in SlotType /\ SlotOk(c, s)
      BY <2>3 DEF VolumeInv, VolumeType, SlotsInv
    <3>2. s.id # 0 => nodes'[s.id].live = nodes[s.id].live
      <4>1. s.id # 0 => s.id \in 1..Len(nodes)
        BY <1>3, <3>1 DEF SlotOk, Names
      <4> QED
        BY ONLY <1>11, <4>1
    <3>3. SlotOk(c, s)'
      BY <1>12, <3>1, <3>2, SlotStays
    <3> QED
      BY ONLY <2>1, <3>1, <3>3 DEF SlotOk, Names, Marked, Describes, ParentOf
  <2>4. CASE Anonymous(s)
    BY ONLY <2>1, <2>4 DEF Anonymous, SlotOk, Names, Marked
  <2>5. CASE \E j \in DOMAIN new : s = new[j] /\ c \in Range(nodes[parent].clusters)
    <3>1. Fresh(s, id, dir, first, size) /\ c \in Range(nodes[parent].clusters)
      <4>1. PICK j \in DOMAIN new : s = new[j] /\ c \in Range(nodes[parent].clusters)
        BY <2>5
      <4>2. new = SlotsFor(id, dir, first, size, noFatChain, names)
        BY ONLY <1>1
      <4>3. j \in DOMAIN SlotsFor(id, dir, first, size, noFatChain, names)
        BY ONLY <4>2, j \in DOMAIN new
      <4>4. Fresh(SlotsFor(id, dir, first, size, noFatChain, names)[j], id, dir, first, size)
        BY ONLY <1>4, <1>5, <1>6, <4>3, SlotsForAre, dir \in BOOLEAN, noFatChain \in BOOLEAN, names \in Nat
      <4> QED
        BY ONLY <4>1, <4>2, <4>4
    <3>2. s \in SlotType /\ s.id = id /\ s.kind # "end"
      BY ONLY <3>1 DEF Fresh
    <3>3. id \in 2..Len(nodes') /\ nodes'[id] = node /\ nodes'[parent] = nodes[parent]
      BY ONLY <1>1, <1>3, <1>4, <1>11
    <3>4. Describes(s)'
      BY ONLY <1>2, <1>6, <1>10, <3>1, <3>2, <3>3 DEF Describes, Fresh
    <3>5. nodes'[s.id].live /\ c \in Range(nodes'[ParentOf(s.id)'].clusters) /\ ~s.deleted
      BY ONLY <1>10, <1>13, <3>1, <3>2, <3>3 DEF Fresh
    <3>6. SlotOk(c, s)'
      BY ONLY <3>2, <3>3, <3>4, <3>5 DEF SlotOk, Names, Marked
    <3> QED
      BY ONLY <2>1, <3>2, <3>6 DEF SlotOk, Names, Marked, Describes, ParentOf
  <2> QED
    BY ONLY <1>15, <2>2, <2>3, <2>4, <2>5, c \in Clusters, i \in 1..SlotsPerCluster
<1>18. content' \in [Clusters -> [1..SlotsPerCluster -> SlotType]] /\ SlotsInv'
  <2>1. SlotsInv'
    BY ONLY <1>17 DEF SlotsInv
  <2>2. \A c \in Clusters : content'[c] \in [1..SlotsPerCluster -> SlotType]
    BY ONLY <1>16, <1>17
  <2> QED
    BY ONLY <1>16, <2>1, <2>2
<1>19. table' \in [Clusters -> Nat] /\ held' \subseteq Clusters /\ kind' \in {"fat", "exfat"}
  <2>1. table \in [Clusters -> Nat] /\ held \subseteq Clusters /\ kind \in {"fat", "exfat"}
    BY DEF VolumeInv, VolumeType
  <2>2. Range(clusters) \subseteq Clusters
    BY DEF Range
  <2> QED
    BY ONLY <1>2, <2>1, <2>2, ChainedTyped, clusters \in Seq(Clusters)
<1>20. VolumeType'
  <2>1. Len(nodes') >= 1
    BY ONLY <1>3, <1>11
  <2> QED
    BY ONLY <1>11, <1>18, <1>19, <2>1 DEF VolumeType
<1> QED
  BY ONLY <1>14, <1>18, <1>20 DEF VolumeInv

LEMMA VolumeStarts ==
  ASSUME VolumeInit
  PROVE  VolumeInv
<1>1. /\ kind \in {"fat", "exfat"} /\ table = [c \in Clusters |-> IF c = kFirstCluster THEN kEndOfChain ELSE Free]
      /\ held = {kFirstCluster} /\ nodes = <<RootNode>>
      /\ content = [c \in Clusters |->
           IF c = kFirstCluster /\ kind = "exfat" THEN [AllEnd EXCEPT ![1] = Slot("other", 0)] ELSE AllEnd]
  BY DEF VolumeInit
<1>2. kFirstCluster \in Clusters
  BY GeometryIs
<1>3. table \in [Clusters -> Nat] /\ held \subseteq Clusters
  BY <1>1, <1>2, GeometryIs DEF Free
<1>4. RootNode \in NodeType
  <2>1. <<kFirstCluster>> \in Seq(Clusters) /\ <<>> \in Seq(Nat)
    BY <1>2
  <2> QED
    BY <2>1 DEF RootNode, NodeType
<1>5. nodes \in Seq(NodeType) /\ Len(nodes) = 1 /\ nodes[1] = RootNode
  BY ONLY <1>1, <1>4
<1>6. ASSUME NEW n \in 1..Len(nodes) PROVE NodeOk(n)
  <2>1. n = 1 /\ nodes[n] = RootNode
    BY <1>5
  <2>2. RootNode.path = <<>> /\ RootNode.live /\ RootNode.dir /\ RootNode.clusters # <<>>
    BY DEF RootNode
  <2> QED
    BY ONLY <2>1, <2>2 DEF NodeOk
<1>7. PICK o : o = Slot("other", 0)
  OBVIOUS
<1>8. Anonymous(o)
  <2>1. "other" \in Kinds /\ 0 \in Nat
    BY DEF Kinds
  <2> QED
    BY ONLY <1>7, <2>1, SlotIs DEF Anonymous
<1>9. ASSUME NEW c \in Clusters
      PROVE  /\ content[c] = [i \in 1..SlotsPerCluster |-> content[c][i]]
             /\ \A i \in 1..SlotsPerCluster : Anonymous(content[c][i])
  <2>1. content[c] = [AllEnd EXCEPT ![1] = o] \/ content[c] = AllEnd
    BY ONLY <1>1, <1>7, c \in Clusters
  <2>2. AllEnd = [i \in 1..SlotsPerCluster |-> End]
    BY DEF AllEnd
  <2> QED
    BY ONLY <1>8, <2>1, <2>2, EndIs
<1>10. content \in [Clusters -> [1..SlotsPerCluster -> SlotType]]
  <2>1. \A c \in Clusters : content[c] \in [1..SlotsPerCluster -> SlotType]
    BY ONLY <1>9 DEF Anonymous
  <2>2. content = [c \in Clusters |-> content[c]]
    BY ONLY <1>1
  <2> QED
    BY ONLY <2>1, <2>2
<1>11. SlotsInv
  BY ONLY <1>9 DEF SlotsInv, SlotOk, Names, Marked, Anonymous
<1> QED
  BY ONLY <1>1, <1>3, <1>5, <1>6, <1>10, <1>11 DEF VolumeInv, VolumeType

LEMMA GrowKeeps ==
  ASSUME VolumeInv, growDirectory
  PROVE  VolumeInv'
<1>1. PICK d \in LiveDirectories, c \in Clusters :
        /\ nodes' = [nodes EXCEPT ![d].clusters = Append(nodes[d].clusters, c)]
        /\ table' = Chained(Append(nodes[d].clusters, c)) /\ held' = held \cup {c}
        /\ content' = [content EXCEPT ![c] = AllEnd] /\ kind' = kind
  BY DEF growDirectory
<1>2. d \in 1..Len(nodes) /\ nodes[d].dir /\ Len(nodes) \in Nat /\ Len(nodes) >= 1
  BY LengthIs DEF LiveDirectories
<1>3. nodes[d] \in NodeType /\ nodes[d].clusters \in Seq(Clusters) /\ NodeOk(d) /\ nodes[d].clusters # <<>>
  BY <1>2, NodeIs DEF NodeOk
<1>4. PICK old, grown : old = nodes[d].clusters /\ grown = Append(old, c)
  OBVIOUS
<1>5. /\ grown \in Seq(Clusters) /\ grown # <<>> /\ grown[1] = old[1]
      /\ \A x \in Range(old) : x \in Range(grown)
  <2>1. /\ grown \in Seq(Clusters) /\ Len(grown) = Len(old) + 1 /\ Len(old) \in Nat /\ Len(old) >= 1 /\ grown # <<>>
        /\ \A k \in 1..Len(old) : grown[k] = old[k]
    BY ONLY <1>3, <1>4, c \in Clusters
  <2>2. DOMAIN old = 1..Len(old) /\ DOMAIN grown = 1..Len(grown)
    BY ONLY <1>3, <1>4, <2>1
  <2> QED
    BY ONLY <2>1, <2>2 DEF Range
<1>6. nodes \in Seq(NodeType)
  BY DEF VolumeInv, VolumeType
<1>7. /\ nodes' \in Seq(NodeType) /\ Len(nodes') = Len(nodes)
      /\ \A n \in 1..Len(nodes) : nodes'[n] = IF n = d THEN [nodes[d] EXCEPT !.clusters = grown] ELSE nodes[n]
  <2>1. PICK x : x = [nodes[d] EXCEPT !.clusters = grown]
    OBVIOUS
  <2>2. x \in NodeType
    BY ONLY <1>3, <1>5, <2>1 DEF NodeType
  <2>3. nodes' = [nodes EXCEPT ![d] = x]
    BY ONLY <1>1, <1>4, <2>1
  <2> QED
    BY ONLY <1>2, <1>6, <2>1, <2>2, <2>3
<1>8. /\ nodes'[d].path = nodes[d].path /\ nodes'[d].dir = nodes[d].dir /\ nodes'[d].size = nodes[d].size
      /\ nodes'[d].live = nodes[d].live /\ nodes'[d].clusters = grown
  BY ONLY <1>2, <1>3, <1>7 DEF NodeType
<1>9. \A n \in 1..Len(nodes) : n # d => nodes'[n] = nodes[n]
  BY ONLY <1>7
<1>10. \A n \in 1..Len(nodes) : nodes'[n].path = nodes[n].path /\ nodes'[n].live = nodes[n].live
  BY ONLY <1>8, <1>9
<1>11. NodesGrow
  <2>1. ASSUME NEW n \in 1..Len(nodes)
        PROVE  /\ nodes'[n].path = nodes[n].path /\ nodes'[n].dir = nodes[n].dir /\ nodes'[n].size = nodes[n].size
               /\ Range(nodes[n].clusters) \subseteq Range(nodes'[n].clusters)
               /\ nodes'[n].clusters # <<>> => nodes[n].clusters # <<>> /\ nodes'[n].clusters[1] = nodes[n].clusters[1]
    <3>1. CASE n = d
      BY ONLY <1>3, <1>4, <1>5, <1>8, <3>1
    <3>2. CASE n # d
      BY ONLY <1>9, <3>2, n \in 1..Len(nodes)
    <3> QED
      BY <3>1, <3>2
  <2>2. kind' = kind /\ Len(nodes') \in Nat /\ Len(nodes) <= Len(nodes')
    BY ONLY <1>1, <1>2, <1>7
  <2> QED
    BY ONLY <2>1, <2>2 DEF NodesGrow
<1>12. ASSUME NEW n \in 1..Len(nodes') PROVE NodeOk(n)'
  <2>1. n \in 1..Len(nodes) /\ NodeOk(n)
    BY <1>7 DEF VolumeInv
  <2>2. ParentOf(n)' = ParentOf(n)
    BY ONLY <1>10, <2>1 DEF ParentOf
  <2>3. CASE n = d
    BY ONLY <1>2, <1>5, <1>7, <1>8, <2>1, <2>2, <2>3 DEF NodeOk
  <2>4. CASE n # d
    BY ONLY <1>7, <1>9, <2>1, <2>2, <2>4 DEF NodeOk
  <2> QED
    BY <2>3, <2>4
<1>13. ASSUME NEW b \in Clusters, NEW i \in 1..SlotsPerCluster
       PROVE  content'[b][i] \in SlotType /\ SlotOk(b, content[b][i])'
  <2>1. PICK s : s = content'[b][i]
    OBVIOUS
  <2>2. s = content[b][i] \/ s = End
    <3>1. content \in [Clusters -> [1..SlotsPerCluster -> SlotType]]
      BY DEF VolumeInv, VolumeType
    <3>2. content'[b] = content[b] \/ content'[b] = AllEnd
      <4>1. content' = [content EXCEPT ![c] = AllEnd]
        BY ONLY <1>1
      <4>2. DOMAIN content = Clusters
        BY ONLY <3>1, Zenon
      <4> QED
        BY ONLY <4>1, <4>2, b \in Clusters
    <3> QED
      BY ONLY <2>1, <3>2, EndIs
  <2>3. CASE s = content[b][i]
    <3>1. s \in SlotType /\ SlotOk(b, s)
      BY <2>3 DEF VolumeInv, VolumeType, SlotsInv
    <3>2. s.id # 0 => nodes'[s.id].live = nodes[s.id].live
      <4>1. s.id # 0 => s.id \in 1..Len(nodes)
        BY <1>2, <3>1 DEF SlotOk, Names
      <4> QED
        BY ONLY <1>10, <4>1
    <3>3. SlotOk(b, s)'
      BY <1>11, <3>1, <3>2, SlotStays
    <3> QED
      BY ONLY <2>1, <3>1, <3>3 DEF SlotOk, Names, Marked, Describes, ParentOf
  <2>4. CASE s = End
    <3>1. s \in SlotType /\ s.id = 0
      BY ONLY <2>4, EndIs DEF Anonymous
    <3> QED
      BY ONLY <2>1, <3>1 DEF SlotOk, Names, Marked
  <2> QED
    BY <2>2, <2>3, <2>4
<1>14. content' \in [Clusters -> [1..SlotsPerCluster -> SlotType]]
  <2>1. content \in [Clusters -> [1..SlotsPerCluster -> SlotType]]
    BY DEF VolumeInv, VolumeType
  <2>2. AllEnd \in [1..SlotsPerCluster -> SlotType]
    <3>1. End \in SlotType
      BY EndIs DEF Anonymous
    <3> QED
      BY ONLY <3>1 DEF AllEnd
  <2> QED
    BY ONLY <1>1, <2>1, <2>2
<1>15. table' \in [Clusters -> Nat] /\ held' \subseteq Clusters /\ kind' \in {"fat", "exfat"}
  <2>1. table \in [Clusters -> Nat] /\ held \subseteq Clusters /\ kind \in {"fat", "exfat"}
    BY DEF VolumeInv, VolumeType
  <2> QED
    BY ONLY <1>1, <1>4, <1>5, <2>1, ChainedTyped
<1>16. SlotsInv'
  BY ONLY <1>13 DEF SlotsInv
<1>17. VolumeType'
  BY ONLY <1>2, <1>7, <1>14, <1>15 DEF VolumeType
<1> QED
  BY ONLY <1>12, <1>16, <1>17 DEF VolumeInv

LEMMA RemoveKeeps ==
  ASSUME VolumeInv, remove
  PROVE  VolumeInv'
<1>1. PICK n \in 2..Len(nodes), wipe \in BOOLEAN :
        /\ nodes' = [nodes EXCEPT ![n].live = FALSE] /\ kind' = kind
        /\ table' = [c \in Clusters |-> IF wipe /\ c \in Range(nodes[n].clusters) THEN Free ELSE table[c]]
        /\ held' = held \ Range(nodes[n].clusters)
        /\ content' = [c \in Clusters |->
             IF c \notin Range(nodes[ParentOf(n)].clusters) THEN content[c]
             ELSE [i \in 1..SlotsPerCluster |->
                     IF content[c][i].kind # "end" /\ content[c][i].id = n
                     THEN [content[c][i] EXCEPT !.deleted = TRUE] ELSE content[c][i]]]
  BY Zenon DEF remove, ParentOf
<1>2. n \in 1..Len(nodes) /\ n # 1 /\ Len(nodes) \in Nat /\ Len(nodes) >= 1
  BY LengthIs
<1>3. nodes \in Seq(NodeType) /\ nodes[n] \in NodeType
  BY <1>2, NodeIs DEF VolumeInv, VolumeType
<1>4. PICK gone : gone = [nodes[n] EXCEPT !.live = FALSE]
  OBVIOUS
<1>5. /\ gone \in NodeType /\ gone.path = nodes[n].path /\ gone.dir = nodes[n].dir /\ gone.size = nodes[n].size
      /\ gone.clusters = nodes[n].clusters /\ gone.live = FALSE
  BY ONLY <1>3, <1>4 DEF NodeType
<1>6. /\ nodes' \in Seq(NodeType) /\ Len(nodes') = Len(nodes) /\ nodes'[n] = gone
      /\ \A m \in 1..Len(nodes) : m # n => nodes'[m] = nodes[m]
  <2>1. nodes' = [nodes EXCEPT ![n] = gone]
    BY ONLY <1>1, <1>4
  <2> QED
    BY ONLY <1>2, <1>3, <1>5, <2>1
<1>7. \A m \in 1..Len(nodes) : /\ nodes'[m].path = nodes[m].path /\ nodes'[m].dir = nodes[m].dir
                               /\ nodes'[m].size = nodes[m].size /\ nodes'[m].clusters = nodes[m].clusters
  BY ONLY <1>5, <1>6
<1>8. NodesGrow
  <2>1. \A m \in 1..Len(nodes) : Range(nodes[m].clusters) \subseteq Range(nodes'[m].clusters)
    BY ONLY <1>7
  <2>2. \A m \in 1..Len(nodes) : nodes'[m].clusters # <<>> =>
          nodes[m].clusters # <<>> /\ nodes'[m].clusters[1] = nodes[m].clusters[1]
    BY ONLY <1>7
  <2> QED
    BY ONLY <1>1, <1>2, <1>6, <1>7, <2>1, <2>2 DEF NodesGrow
<1>9. ASSUME NEW m \in 1..Len(nodes') PROVE NodeOk(m)'
  <2>1. m \in 1..Len(nodes) /\ NodeOk(m)
    BY <1>6 DEF VolumeInv
  <2>2. ParentOf(m)' = ParentOf(m)
    BY ONLY <1>7, <2>1 DEF ParentOf
  <2>3. m = 1 => nodes'[m] = nodes[m]
    BY ONLY <1>2, <1>6, <2>1
  <2> QED
    BY ONLY <1>6, <1>7, <2>1, <2>2, <2>3 DEF NodeOk
<1>10. ASSUME NEW c \in Clusters, NEW i \in 1..SlotsPerCluster
       PROVE  content'[c][i] \in SlotType /\ SlotOk(c, content[c][i])'
  <2>1. PICK s, t : s = content[c][i] /\ t = content'[c][i]
    OBVIOUS
  <2>2. s \in SlotType /\ SlotOk(c, s)
    BY <2>1 DEF VolumeInv, VolumeType, SlotsInv
  <2>3. t = IF c \in Range(nodes[ParentOf(n)].clusters) /\ s.kind # "end" /\ s.id = n
            THEN [s EXCEPT !.deleted = TRUE] ELSE s
    BY ONLY <1>1, <2>1, c \in Clusters, i \in 1..SlotsPerCluster
  <2>4. CASE s.id = n
    <3>1. PICK u : u = [s EXCEPT !.deleted = TRUE]
      OBVIOUS
    <3>2. u \in SlotType /\ u.kind = s.kind /\ u.id = s.id /\ u.dir = s.dir /\ u.cluster = s.cluster /\ u.size = s.size /\ u.deleted
      BY ONLY <2>2, <3>1, WithDeleted
    <3>3. s.id # 0 /\ s.kind # "end" /\ Describes(s) /\ c \in Range(nodes[ParentOf(n)].clusters)
      BY ONLY <1>2, <2>2, <2>4 DEF SlotOk, Names
    <3>4. t = u
      BY ONLY <2>3, <2>4, <3>1, <3>3
    <3>5. t \in SlotType /\ Names(c, t)
      <4>1. Describes(u)
        BY ONLY <3>2, <3>3 DEF Describes
      <4>2. Names(c, u)
        BY ONLY <2>2, <3>2, <3>3, <4>1 DEF SlotOk, Names
      <4> QED
        BY ONLY <3>2, <3>4, <4>2
    <3>6. SlotOk(c, t)'
      <4>1. ~nodes'[n].live /\ t.id = n /\ t.deleted
        BY ONLY <1>5, <1>6, <2>4, <3>2, <3>4
      <4>2. Marked(t)'
        BY ONLY SMTT(30), <4>1 DEF Marked
      <4> QED
        BY ONLY SMTT(30), <1>8, <3>5, <4>2, SlotCarries, VolumeInv, c \in Clusters
    <3> QED
      BY ONLY <2>1, <3>5, <3>6 DEF SlotOk, Names, Marked, Describes, ParentOf
  <2>5. CASE s.id # n
    <3>1. t = s
      BY ONLY <2>3, <2>5
    <3>2. s.id # 0 => nodes'[s.id].live = nodes[s.id].live
      <4>1. s.id # 0 => s.id \in 1..Len(nodes)
        BY <1>2, <2>2 DEF SlotOk, Names
      <4> QED
        BY ONLY <1>6, <2>5, <4>1
    <3>3. SlotOk(c, s)'
      BY <1>8, <2>2, <3>2, SlotStays
    <3> QED
      BY ONLY <2>1, <2>2, <3>1, <3>3 DEF SlotOk, Names, Marked, Describes, ParentOf
  <2> QED
    BY <2>4, <2>5
<1>11. content' \in [Clusters -> [1..SlotsPerCluster -> SlotType]]
  <2>1. content' = [c \in Clusters |-> content'[c]]
    BY ONLY <1>1
  <2>2. content \in [Clusters -> [1..SlotsPerCluster -> SlotType]]
    BY DEF VolumeInv, VolumeType
  <2>3. ASSUME NEW c \in Clusters PROVE content'[c] = [i \in 1..SlotsPerCluster |-> content'[c][i]]
    <3>1. content[c] = [i \in 1..SlotsPerCluster |-> content[c][i]]
      BY ONLY <2>2, c \in Clusters
    <3> QED
      BY ONLY <1>1, <3>1, c \in Clusters
  <2>4. \A c \in Clusters : content'[c] \in [1..SlotsPerCluster -> SlotType]
    BY ONLY <1>10, <2>3
  <2> QED
    BY ONLY <2>1, <2>4
<1>12. table' \in [Clusters -> Nat] /\ held' \subseteq Clusters /\ kind' \in {"fat", "exfat"}
  <2>1. table \in [Clusters -> Nat] /\ held \subseteq Clusters /\ kind \in {"fat", "exfat"}
    BY DEF VolumeInv, VolumeType
  <2> QED
    BY ONLY <1>1, <2>1 DEF Free
<1>13. SlotsInv'
  BY ONLY <1>10 DEF SlotsInv
<1>14. VolumeType'
  BY ONLY <1>2, <1>6, <1>11, <1>12 DEF VolumeType
<1> QED
  BY ONLY <1>9, <1>13, <1>14 DEF VolumeInv

LEMMA HostKeeps ==
  ASSUME VolumeInv, HostChanges
  PROVE  VolumeInv'
<1>1. NameSlots \subseteq Nat
  <2>1. NameSlots = {0, 1} \/ NameSlots = {0}
    BY ONLY Zenon DEF NameSlots
  <2> QED
    BY <2>1
<1>2. CASE createFile
  <2>1. PICK parent \in LiveDirectories, noFatChain \in BOOLEAN, names \in NameSlots,
             clusters \in BoundedSeq(Clusters \ held, 2) :
          make(parent, FALSE, clusters, noFatChain, names)
    BY <1>2, Zenon DEF createFile
  <2>2. clusters \in Seq(Clusters)
    <3>1. PICK m \in 0..2 : clusters \in [1..m -> Clusters \ held]
      BY DEF BoundedSeq, SeqOf
    <3>2. m \in Nat /\ clusters \in [1..m -> Clusters]
      BY <3>1
    <3> QED
      BY ONLY <3>2, FunctionIsSeq
  <2>3. names \in Nat /\ FALSE \in BOOLEAN /\ (FALSE => clusters # <<>>)
    BY <1>1
  <2> QED
    BY ONLY <2>1, <2>2, <2>3, MakeKeeps, VolumeInv
<1>3. CASE createDirectory
  <2>1. PICK parent \in LiveDirectories, c \in Clusters, noFatChain \in BOOLEAN, names \in NameSlots :
          make(parent, TRUE, <<c>>, noFatChain, names)
    BY <1>3, Zenon DEF createDirectory
  <2>2. <<c>> \in Seq(Clusters) /\ <<c>> # <<>>
    OBVIOUS
  <2>3. names \in Nat /\ TRUE \in BOOLEAN
    BY <1>1
  <2> QED
    BY ONLY <2>1, <2>2, <2>3, MakeKeeps, VolumeInv
<1> QED
  BY <1>2, <1>3, GrowKeeps, RemoveKeeps DEF HostChanges

-----------------------------------------------------------------------------
(***************************************************************************)
(* What the walk reports.                                                  *)
(***************************************************************************)

(* A slot some cluster of the volume holds. *)
Shown(s) == s \in SlotType /\ \E c \in Clusters : SlotOk(c, s)

EntryType == [path : Seq(Nat), size : Nat, extents : Extents,
              state : {"live", "deleted", "orphaned"}, grade : {"valid", "uncertain"}]

(* On FAT, a removed file that lay in one run has the extents it had. *)
WhereItWas(e) ==
  LET n == Last(e.path) IN
  kind = "fat" /\ n # 0 =>
    /\ n \in 2..Len(nodes)
    /\ ~nodes[n].live /\ Consecutive(nodes[n].clusters) => e.extents = TrueExtents(n)

Sound(e) == e \in EntryType /\ AllInData(e.extents) /\ WhereItWas(e)

PathsInv == cursor.path \in Seq(Nat) /\ \A i \in DOMAIN pending : pending[i].path \in Seq(Nat)

ReadingInv ==
  /\ phase = "written" => reported = <<>> /\ slots = <<>> /\ set = NoSet
  /\ slots \in Seq(SlotType) /\ \A i \in 1..Len(slots) : Shown(slots[i])
  /\ set.file \in SlotType /\ set.stream \in SlotType
  /\ kind = "fat" => bitmap = {} /\ ~set.active

ReportedInv == IsSequence(reported) /\ \A i \in DOMAIN reported : Sound(reported[i])

ReportInv == VolumeInv /\ WorklistInv /\ PathsInv /\ ReadingInv /\ ReportedInv

LEMMA LastAppended ==
  ASSUME NEW s \in Seq(Nat), NEW x \in Nat
  PROVE  Append(s, x) \in Seq(Nat) /\ Last(Append(s, x)) = x
BY DEF Last

LEMMA GuessIsInData ==
  ASSUME NEW first \in Clusters, NEW size \in Nat
  PROVE  extentsAssumingContiguous(first, size) \in Extents /\ AllInData(extentsAssumingContiguous(first, size))
<1>1. PICK e : e = extentsAssumingContiguous(first, size)
  OBVIOUS
<1>2. PICK run : run = [at |-> clusterOffset(first), len |-> size]
  OBVIOUS
<1>3. e = <<>> \/ e = <<run>>
  BY ONLY <1>1, <1>2 DEF extentsAssumingContiguous
<1>4. run \in Extent
  <2>1. ClusterExtent(first) \in Extent /\ ClusterExtent(first).at = clusterOffset(first)
    BY ClusterIsInData DEF ClusterExtent
  <2> QED
    BY ONLY <1>2, <2>1, size \in Nat DEF Extent
<1>5. e \in Extents
  <2>1. <<>> \in Extents /\ <<run>> \in Extents
    BY ONLY <1>4 DEF Extents
  <2> QED
    BY ONLY <1>3, <2>1
<1>6. \A i \in DOMAIN e : InData(e[i])
  BY ONLY <1>1, GuessStaysInside, first \in Clusters, size \in Nat DEF InData
<1>7. AllInData(e)
  BY ONLY <1>5, <1>6 DEF AllInData, Extents
<1> QED
  BY ONLY <1>1, <1>5, <1>7

LEMMA NoneIsInData == <<>> \in Extents /\ AllInData(<<>>)
BY DEF Extents, AllInData

LEMMA FollowedIsInData ==
  ASSUME NEW t \in [Clusters -> Nat], NEW first \in Clusters, NEW size \in Nat
  PROVE  extentsFollowingChain(t, first, size) \in Extents /\ AllInData(extentsFollowingChain(t, first, size))
<1>1. first \in Nat
  BY GeometryIs
<1>2. chainFrom(t, first) \in Seq(Clusters)
  BY <1>1, ChainTyped
<1> QED
  BY ONLY <1>2, ChainExtentsAre, size \in Nat DEF extentsFollowingChain

LEMMA ShortIsInData ==
  ASSUME VolumeInv, NEW s \in SlotType
  PROVE  locateShort(s) \in Extents /\ AllInData(locateShort(s))
<1>1. s.size \in Nat /\ table \in [Clusters -> Nat]
  BY DEF SlotType, VolumeInv, VolumeType
<1>2. PICK a, b : a = extentsAssumingContiguous(s.cluster, s.size) /\ b = extentsFollowingChain(table, s.cluster, s.size)
  OBVIOUS
<1>3. CASE s.cluster \in Clusters
  <2>1. a \in Extents /\ AllInData(a) /\ b \in Extents /\ AllInData(b)
    BY ONLY <1>1, <1>2, <1>3, GuessIsInData, FollowedIsInData
  <2>2. locateShort(s) = <<>> \/ locateShort(s) = a \/ locateShort(s) = b
    BY ONLY <1>2 DEF locateShort
  <2> QED
    BY ONLY <2>1, <2>2, NoneIsInData
<1>4. CASE s.cluster \notin Clusters
  <2>1. locateShort(s) = <<>>
    BY ONLY <1>4 DEF locateShort, isDataCluster
  <2> QED
    BY ONLY <2>1, NoneIsInData
<1> QED
  BY <1>3, <1>4

LEMMA SetIsInData ==
  ASSUME VolumeInv, NEW file \in SlotType, NEW stream \in SlotType
  PROVE  locateSet(file, stream) \in Extents /\ AllInData(locateSet(file, stream))
<1>1. stream.size \in Nat /\ table \in [Clusters -> Nat]
  BY DEF SlotType, VolumeInv, VolumeType
<1>2. PICK a, b : a = extentsAssumingContiguous(stream.cluster, stream.size)
                  /\ b = extentsFollowingChain(table, stream.cluster, stream.size)
  OBVIOUS
<1>3. CASE stream.cluster \in Clusters
  <2>1. a \in Extents /\ AllInData(a) /\ b \in Extents /\ AllInData(b)
    BY ONLY <1>1, <1>2, <1>3, GuessIsInData, FollowedIsInData
  <2>2. locateSet(file, stream) = <<>> \/ locateSet(file, stream) = a \/ locateSet(file, stream) = b
    BY ONLY <1>2 DEF locateSet
  <2> QED
    BY ONLY <2>1, <2>2, NoneIsInData
<1>4. CASE stream.cluster \notin Clusters
  <2>1. locateSet(file, stream) = <<>>
    BY ONLY <1>4 DEF locateSet, isDataCluster
  <2> QED
    BY ONLY <2>1, NoneIsInData
<1> QED
  BY <1>3, <1>4

(* The guess for a removed file is the run it lay in. *)
LEMMA ShortIsWhereItWas ==
  ASSUME VolumeInv, kind = "fat", NEW s, Shown(s), s.kind = "file", ~s.dir, s.id # 0,
         ~nodes[s.id].live, Consecutive(nodes[s.id].clusters)
  PROVE  locateShort(s) = TrueExtents(s.id)
<1>1. PICK c \in Clusters : SlotOk(c, s)
  BY DEF Shown
<1>2. PICK n, clusters, size : n = s.id /\ clusters = nodes[n].clusters /\ size = nodes[n].size
  OBVIOUS
<1>3. n \in 2..Len(nodes) /\ Describes(s) /\ s.deleted
  BY <1>1, <1>2 DEF SlotOk, Names, Marked
<1>4. ~nodes[n].dir /\ s.size = size /\ (clusters # <<>> => s.cluster = clusters[1])
  BY <1>2, <1>3 DEF Describes
<1>5. n \in 1..Len(nodes)
  BY <1>3, LengthIs
<1>6. clusters \in Seq(Clusters) /\ size \in Nat /\ size <= Len(clusters) * BytesPerCluster
  BY <1>2, <1>4, <1>5, NodeIs DEF NodeOk
<1>7. TrueExtents(s.id) = chainExtents(clusters, size)
  BY ONLY <1>2 DEF TrueExtents
<1>8. CASE size = 0
  <2>1. chainExtents(clusters, size) = <<>>
    BY ONLY <1>8 DEF chainExtents
  <2>2. locateShort(s) = <<>>
    BY ONLY <1>4, <1>8 DEF locateShort
  <2> QED
    BY ONLY <1>7, <2>1, <2>2
<1>9. CASE size # 0
  <2>1. clusters # <<>>
    <3>1. CASE clusters = <<>>
      <4>1. Len(clusters) = 0
        BY ONLY <3>1
      <4>2. 0 * BytesPerCluster = 0
        BY GeometryIs
      <4> QED
        BY ONLY <1>6, <1>9, <4>1, <4>2
    <3> QED
      BY <3>1
  <2>2. s.cluster = clusters[1] /\ clusters[1] \in Clusters
    BY ONLY <1>4, <1>6, <2>1
  <2>3. size \in Nat \ {0}
    BY ONLY <1>6, <1>9
  <2>4. Consecutive(clusters)
    BY <1>2
  <2>5. locateShort(s) = extentsAssumingContiguous(clusters[1], size)
    BY ONLY <1>3, <1>4, <1>9, <2>2 DEF locateShort, isDataCluster
  <2> QED
    BY ONLY <1>6, <1>7, <2>1, <2>3, <2>4, <2>5, GuessIsRight, RunIsOne
<1> QED
  BY <1>8, <1>9

LEMMA ShortIsSound ==
  ASSUME VolumeInv, kind = "fat", cursor.path \in Seq(Nat), NEW s, Shown(s), s.kind = "file", ~s.dir
  PROVE  Sound(entryFromSlot(s))
<1>1. s \in SlotType /\ s.id \in Nat /\ s.size \in Nat
  BY DEF Shown, SlotType
<1>2. PICK e, x : e = entryFromSlot(s) /\ x = locateShort(s)
  OBVIOUS
<1>3. x \in Extents /\ AllInData(x)
  BY <1>1, <1>2, ShortIsInData
<1>4. Append(cursor.path, s.id) \in Seq(Nat) /\ Last(Append(cursor.path, s.id)) = s.id
  BY <1>1, LastAppended
<1>5. e.path = Append(cursor.path, s.id) /\ e.extents = x
  BY ONLY <1>2 DEF entryFromSlot
<1>6. e \in EntryType
  <2>1. PICK path, state, grade :
          /\ path = Append(cursor.path, s.id)
          /\ state = (IF cursor.underDeleted THEN "orphaned" ELSE IF s.deleted THEN "deleted" ELSE "live")
          /\ grade = (IF ~(s.deleted \/ cursor.underDeleted) /\ located(x, s.size) THEN "valid" ELSE "uncertain")
    OBVIOUS
  <2>2. e = [path |-> path, size |-> s.size, extents |-> x, state |-> state, grade |-> grade]
    BY ONLY <1>2, <2>1, Zenon DEF entryFromSlot
  <2>3. state \in {"live", "deleted", "orphaned"} /\ grade \in {"valid", "uncertain"}
    BY ONLY <2>1
  <2> QED
    BY ONLY <1>1, <1>3, <1>4, <2>1, <2>2, <2>3 DEF EntryType
<1>7. s.id # 0 => s.id \in 2..Len(nodes)
  BY DEF Shown, SlotOk, Names
<1>8. s.id # 0 /\ ~nodes[s.id].live /\ Consecutive(nodes[s.id].clusters) => x = TrueExtents(s.id)
  BY <1>2, ShortIsWhereItWas
<1>9. WhereItWas(e)
  BY ONLY <1>4, <1>5, <1>7, <1>8 DEF WhereItWas
<1> QED
  BY ONLY <1>2, <1>3, <1>5, <1>6, <1>9 DEF Sound

LEMMA SetIsSound ==
  ASSUME VolumeInv, kind # "fat", cursor.path \in Seq(Nat), NEW file \in SlotType, NEW stream \in SlotType
  PROVE  Sound(entryOf(file, stream))
<1>1. file.id \in Nat /\ stream.size \in Nat
  BY DEF SlotType
<1>2. PICK e, x : e = entryOf(file, stream) /\ x = locateSet(file, stream)
  OBVIOUS
<1>3. x \in Extents /\ AllInData(x)
  BY <1>2, SetIsInData
<1>4. Append(cursor.path, file.id) \in Seq(Nat)
  BY <1>1, LastAppended
<1>5. e.extents = x
  BY ONLY <1>2 DEF entryOf
<1>6. e \in EntryType
  <2>1. PICK path, state, grade :
          /\ path = Append(cursor.path, file.id)
          /\ state = (IF file.deleted THEN "deleted" ELSE "live")
          /\ grade = (IF ~file.deleted /\ located(x, stream.size) THEN "valid" ELSE "uncertain")
    OBVIOUS
  <2>2. e = [path |-> path, size |-> stream.size, extents |-> x, state |-> state, grade |-> grade]
    BY ONLY <1>2, <2>1, Zenon DEF entryOf
  <2>3. state \in {"live", "deleted", "orphaned"} /\ grade \in {"valid", "uncertain"}
    BY ONLY <2>1
  <2> QED
    BY ONLY <1>1, <1>3, <1>4, <2>1, <2>2, <2>3 DEF EntryType
<1>7. WhereItWas(e)
  BY DEF WhereItWas
<1> QED
  BY ONLY <1>2, <1>3, <1>5, <1>6, <1>7 DEF Sound

(* The slots of a directory's clusters are slots of the volume. *)
LEMMA SlotsAreShown ==
  ASSUME VolumeInv, NEW clusters \in Seq(Clusters)
  PROVE  /\ SlotsOf(clusters) \in Seq(SlotType)
         /\ \A i \in 1..Len(SlotsOf(clusters)) : Shown(SlotsOf(clusters)[i])
<1>1. PICK S, N, f : S = SlotsPerCluster /\ N = Len(clusters) * S /\ f = SlotsOf(clusters)
  OBVIOUS
<1>2. S \in Nat /\ S > 0 /\ Len(clusters) \in Nat /\ N \in Nat
  <2>1. S \in Nat /\ S > 0
    BY ONLY <1>1, GeometryIs
  <2>2. Len(clusters) \in Nat
    OBVIOUS
  <2> QED
    BY ONLY <1>1, <2>1, <2>2
<1>3. ASSUME NEW j \in 1..N PROVE Shown(f[j])
  <2>1. PICK q, r : q = (j - 1) \div S /\ r = (j - 1) % S
    OBVIOUS
  <2>2. q \in Nat /\ r \in Nat /\ r < S /\ q < Len(clusters)
    <3>1. q \in Nat /\ r \in Nat /\ r < S /\ j - 1 = S * q + r
      BY ONLY <1>2, <2>1, j \in 1..N
    <3>2. CASE q >= Len(clusters)
      <4>1. S * q >= S * Len(clusters)
        BY ONLY <1>2, <3>1, <3>2
      <4>2. S * Len(clusters) = N
        BY ONLY <1>1, <1>2
      <4> QED
        BY ONLY <1>2, <3>1, <4>1, <4>2, j \in 1..N
    <3> QED
      BY ONLY <1>2, <3>1, <3>2
  <2>3. PICK c, i : c = clusters[q + 1] /\ i = r + 1
    OBVIOUS
  <2>4. c \in Clusters /\ i \in 1..SlotsPerCluster
    <3>1. q + 1 \in 1..Len(clusters)
      BY ONLY <1>2, <2>2
    <3> QED
      BY ONLY <1>1, <1>2, <2>2, <2>3, <3>1, clusters \in Seq(Clusters)
  <2>5. f[j] = content[c][i]
    <3>1. j \in 1..(Len(clusters) * SlotsPerCluster)
      BY ONLY <1>1, j \in 1..N
    <3>2. f[j] = content[clusters[(j - 1) \div SlotsPerCluster + 1]][((j - 1) % SlotsPerCluster) + 1]
      BY ONLY <1>1, <3>1, Zenon DEF SlotsOf
    <3> QED
      BY ONLY <1>1, <2>1, <2>3, <3>2, Zenon
  <2>6. content[c][i] \in SlotType /\ SlotOk(c, content[c][i])
    BY <2>4 DEF VolumeInv, VolumeType, SlotsInv
  <2> QED
    BY ONLY <2>4, <2>5, <2>6 DEF Shown
<1>4. f = [j \in 1..N |-> f[j]]
  BY ONLY <1>1 DEF SlotsOf
<1>5. f \in [1..N -> SlotType]
  <2>1. \A j \in 1..N : f[j] \in SlotType
    BY ONLY <1>3 DEF Shown
  <2> QED
    BY ONLY <1>4, <2>1
<1>6. f \in Seq(SlotType) /\ Len(f) = N
  BY ONLY <1>2, <1>5, FunctionIsSeq
<1> QED
  BY ONLY <1>1, <1>3, <1>6

LEMMA PrefixIs ==
  ASSUME NEW S, NEW s \in Seq(S), NEW n \in 0..Len(s)
  PROVE  /\ SubSeq(s, 1, n) \in Seq(S) /\ Len(SubSeq(s, 1, n)) = n
         /\ \A i \in 1..n : SubSeq(s, 1, n)[i] = s[i]
OBVIOUS

LEMMA ReadIsShown ==
  ASSUME VolumeInv, NEW c, c.cluster \in Clusters
  PROVE  LET s == upToEndOfDirectory(readDirectory(c)) IN
         s \in Seq(SlotType) /\ \A i \in 1..Len(s) : Shown(s[i])
<1>1. PICK clusters : clusters = IF c.underDeleted THEN <<c.cluster>> ELSE chainFrom(table, c.cluster)
  OBVIOUS
<1>2. clusters \in Seq(Clusters)
  <2>1. table \in [Clusters -> Nat] /\ c.cluster \in Nat
    BY GeometryIs DEF VolumeInv, VolumeType
  <2>2. chainFrom(table, c.cluster) \in Seq(Clusters)
    BY ONLY <2>1, ChainTyped
  <2>3. <<c.cluster>> \in Seq(Clusters)
    OBVIOUS
  <2> QED
    BY ONLY <1>1, <2>2, <2>3
<1>3. PICK wanted, n, taken, bytes :
        /\ wanted = (kMaxDirectorySlots + SlotsPerCluster - 1) \div SlotsPerCluster
        /\ n = Min({wanted, Len(clusters)}) /\ taken = SubSeq(clusters, 1, n) /\ bytes = SlotsOf(taken)
  OBVIOUS
<1>4. wanted \in Nat /\ Len(clusters) \in Nat
  <2>1. kMaxDirectorySlots \in Nat
    BY WalkAssumption
  <2>2. kMaxDirectorySlots + SlotsPerCluster - 1 \in Nat /\ SlotsPerCluster \in Nat /\ SlotsPerCluster > 0
    BY ONLY <2>1, GeometryIs
  <2> QED
    BY ONLY <1>2, <1>3, <2>2
<1>5. n \in 0..Len(clusters)
  <2>1. \E x \in {wanted, Len(clusters)} : \A y \in {wanted, Len(clusters)} : x <= y
    BY ONLY <1>4
  <2>2. n \in {wanted, Len(clusters)} /\ \A y \in {wanted, Len(clusters)} : n <= y
    BY ONLY <1>3, <2>1 DEF Min
  <2> QED
    BY ONLY <1>4, <2>2
<1>6. taken \in Seq(Clusters)
  BY ONLY <1>2, <1>3, <1>5, PrefixIs
<1>7. bytes \in Seq(SlotType) /\ \A i \in 1..Len(bytes) : Shown(bytes[i])
  BY <1>3, <1>6, SlotsAreShown
<1>8. readDirectory(c) = bytes
  BY ONLY <1>1, <1>3, Zenon DEF readDirectory, readDirectoryBytes
<1>9. PICK ends, m : ends = {i \in DOMAIN bytes : bytes[i].kind = "end"} /\ m = Min(ends)
  OBVIOUS
<1>10. upToEndOfDirectory(bytes) = IF ends = {} THEN bytes ELSE SubSeq(bytes, 1, m - 1)
  BY ONLY <1>9, Zenon DEF upToEndOfDirectory
<1>11. CASE ends = {}
  BY ONLY <1>7, <1>8, <1>10, <1>11
<1>12. CASE ends # {}
  <2>1. ends \subseteq 1..Len(bytes) /\ Len(bytes) \in Nat
    BY ONLY <1>7, <1>9
  <2>2. \E x \in ends : \A y \in ends : x <= y
    <3>1. ends \subseteq Nat
      BY ONLY <2>1
    <3> QED
      BY ONLY <1>12, <3>1, LeastMember
  <2>3. m \in ends
    BY ONLY <1>9, <2>2 DEF Min
  <2>4. m - 1 \in 0..Len(bytes)
    BY ONLY <2>1, <2>3
  <2>5. PICK t : t = SubSeq(bytes, 1, m - 1)
    OBVIOUS
  <2>6. t \in Seq(SlotType) /\ Len(t) = m - 1 /\ \A i \in 1..(m - 1) : t[i] = bytes[i]
    BY ONLY <1>7, <2>4, <2>5, PrefixIs
  <2>7. ASSUME NEW i \in 1..Len(t) PROVE Shown(t[i])
    <3>1. i \in 1..Len(bytes) /\ t[i] = bytes[i]
      BY ONLY <2>1, <2>4, <2>6
    <3> QED
      BY ONLY <1>7, <3>1
  <2> QED
    BY ONLY <1>8, <1>10, <1>12, <2>5, <2>6, <2>7
<1> QED
  BY <1>11, <1>12

-----------------------------------------------------------------------------
(***************************************************************************)
(* The steps of the walk.                                                  *)
(***************************************************************************)

LEMMA VolumeStays ==
  ASSUME VolumeInv, UNCHANGED volumeVars
  PROVE  /\ VolumeInv' /\ kind' = kind /\ nodes' = nodes
         /\ \A s : Shown(s) => Shown(s)'
         /\ \A e : Sound(e) => Sound(e)'
<1>1. kind' = kind /\ table' = table /\ held' = held /\ content' = content /\ nodes' = nodes
  BY DEF volumeVars
<1>2. VolumeType'
  BY <1>1 DEF VolumeInv, VolumeType
<1>3. \A n \in 1..Len(nodes') : NodeOk(n)'
  <2>1. ASSUME NEW n \in 1..Len(nodes') PROVE NodeOk(n)'
    <3>1. n \in 1..Len(nodes) /\ NodeOk(n)
      BY <1>1 DEF VolumeInv
    <3> QED
      BY ONLY <1>1, <3>1 DEF NodeOk, ParentOf
  <2> QED
    BY <2>1
<1>4. ASSUME NEW c, NEW s, SlotOk(c, s) PROVE SlotOk(c, s)'
  BY ONLY <1>1, SlotOk(c, s) DEF SlotOk, Names, Marked, Describes, ParentOf
<1>5. SlotsInv'
  <2>1. ASSUME NEW c \in Clusters, NEW i \in 1..SlotsPerCluster PROVE SlotOk(c, content[c][i])'
    <3>1. SlotOk(c, content[c][i])
      BY DEF VolumeInv, SlotsInv
    <3> QED
      BY ONLY <1>1, <3>1 DEF SlotOk, Names, Marked, Describes, ParentOf
  <2> QED
    BY ONLY SMTT(30), <2>1 DEF SlotsInv
<1>6. ASSUME NEW s, Shown(s) PROVE Shown(s)'
  BY ONLY <1>4, Shown(s) DEF Shown
<1>7. ASSUME NEW e, Sound(e) PROVE Sound(e)'
  BY ONLY <1>1, Sound(e) DEF Sound, WhereItWas, TrueExtents
<1> QED
  BY ONLY <1>1, <1>2, <1>3, <1>5, <1>6, <1>7 DEF VolumeInv

LEMMA ReportedStays ==
  ASSUME ReportInv, UNCHANGED volumeVars, reported' = reported
  PROVE  ReportedInv'
<1>1. \A e : Sound(e) => Sound(e)'
  BY VolumeStays DEF ReportInv
<1>2. ASSUME NEW i \in DOMAIN reported' PROVE Sound(reported[i])'
  <2>1. PICK e : e = reported[i]
    OBVIOUS
  <2>2. Sound(e)'
    BY <1>1, <2>1 DEF ReportInv, ReportedInv
  <2>3. e = reported'[i]
    BY <2>1
  <2> QED
    BY ONLY <2>2, <2>3 DEF Sound, WhereItWas, TrueExtents
<1> QED
  BY <1>2 DEF ReportInv, ReportedInv, IsSequence

LEMMA ReportKeeps ==
  ASSUME ReportInv, UNCHANGED volumeVars, NEW entry, Sound(entry), report(entry)
  PROVE  ReportedInv'
<1>1. reported' = Append(reported, entry)
  BY DEF report
<1>2. IsSequence(reported) /\ DOMAIN reported = 1..Len(reported) /\ Len(reported) \in Nat
  BY SequenceOf DEF ReportInv, ReportedInv
<1>3. /\ IsSequence(reported') /\ DOMAIN reported' = 1..(Len(reported) + 1)
      /\ \A i \in 1..Len(reported) : reported'[i] = reported[i]
      /\ reported'[Len(reported) + 1] = entry
  BY ONLY <1>1, <1>2, AppendSequence
<1>4. \A e : Sound(e) => Sound(e)'
  BY VolumeStays DEF ReportInv
<1>5. ASSUME NEW i \in DOMAIN reported' PROVE Sound(reported[i])'
  <2>1. PICK e : e = reported'[i]
    OBVIOUS
  <2>2. e = entry \/ (i \in DOMAIN reported /\ e = reported[i])
    BY ONLY <1>2, <1>3, <2>1, i \in DOMAIN reported'
  <2>3. Sound(e)
    BY <2>2 DEF ReportInv, ReportedInv
  <2>4. Sound(e)'
    BY ONLY <1>4, <2>3
  <2> QED
    BY ONLY <2>1, <2>4 DEF Sound, WhereItWas, TrueExtents
<1> QED
  BY ONLY <1>3, <1>5 DEF ReportedInv

LEMMA EnqueueReports ==
  ASSUME ReportInv, UNCHANGED volumeVars, NEW id \in Nat, NEW first, NEW deleted, enqueue(id, first, deleted)
  PROVE  ReportedInv' /\ \A i \in DOMAIN pending' : pending'[i].path \in Seq(Nat)
<1>1. ReportedInv'
  BY ReportedStays DEF enqueue
<1>2. PICK path : path = Append(cursor.path, id)
  OBVIOUS
<1>3. path \in Seq(Nat)
  BY <1>2, LastAppended DEF ReportInv, PathsInv
<1>4. \A i \in DOMAIN pending : pending[i].path \in Seq(Nat)
  BY DEF ReportInv, PathsInv
<1>5. PICK c : c = [path |-> path, cluster |-> first, depth |-> cursor.depth + 1,
                    underDeleted |-> cursor.underDeleted \/ deleted]
  OBVIOUS
<1>6. pending' = pending \/ pending' = Append(pending, c)
  BY ONLY <1>2, <1>5, enqueue(id, first, deleted) DEF enqueue
<1>7. c.path = path
  BY ONLY <1>5
<1>8. CASE pending' = Append(pending, c)
  <2>1. IsSequence(pending) /\ DOMAIN pending = 1..Len(pending) /\ Len(pending) \in Nat
    BY SequenceOf DEF ReportInv, WorklistInv
  <2>2. /\ DOMAIN pending' = 1..(Len(pending) + 1)
        /\ \A i \in 1..Len(pending) : pending'[i] = pending[i]
        /\ pending'[Len(pending) + 1] = c
    BY ONLY <1>8, <2>1, AppendSequence
  <2>3. ASSUME NEW i \in DOMAIN pending' PROVE pending'[i].path \in Seq(Nat)
    <3>1. i = Len(pending) + 1 \/ i \in 1..Len(pending)
      BY ONLY <2>1, <2>2, i \in DOMAIN pending'
    <3> QED
      BY ONLY <1>3, <1>4, <1>7, <2>1, <2>2, <3>1
  <2> QED
    BY <1>1, <2>3
<1> QED
  BY <1>1, <1>4, <1>6, <1>8

(* Nothing is put on the worklist, or a directory is; nothing is reported, or a sound entry is. *)
LEMMA FinishReports ==
  ASSUME ReportInv, UNCHANGED volumeVars, finish
  PROVE  ReportedInv' /\ \A i \in DOMAIN pending' : pending'[i].path \in Seq(Nat)
<1>1. \A i \in DOMAIN pending : pending[i].path \in Seq(Nat)
  BY DEF ReportInv, PathsInv
<1>2. PICK file, stream : file = set.file /\ stream = set.stream
  OBVIOUS
<1>3. file \in SlotType /\ stream \in SlotType /\ file.id \in Nat
  BY <1>2 DEF ReportInv, ReadingInv, SlotType
<1>4. CASE ~set.active \/ set.stream = End
  <2>1. pending' = pending /\ reported' = reported
    BY <1>4 DEF finish
  <2> QED
    BY <1>1, <2>1, ReportedStays
<1>5. CASE enqueue(file.id, stream.cluster, FALSE)
  BY <1>3, <1>5, EnqueueReports
<1>6. CASE set.active /\ report(entryOf(file, stream))
  <2>1. kind # "fat" /\ VolumeInv /\ cursor.path \in Seq(Nat)
    BY <1>6 DEF ReportInv, ReadingInv, PathsInv
  <2>2. Sound(entryOf(file, stream))
    BY ONLY <1>3, <2>1, SetIsSound
  <2>3. ReportedInv'
    BY <1>6, <2>2, ReportKeeps
  <2>4. pending' = pending
    BY <1>6 DEF report
  <2> QED
    BY <1>1, <2>3, <2>4
<1>7. \/ ~set.active \/ set.stream = End
      \/ enqueue(file.id, stream.cluster, FALSE)
      \/ (set.active /\ report(entryOf(file, stream)))
  BY ONLY <1>2, finish, Zenon DEF finish
<1> QED
  BY <1>4, <1>5, <1>6, <1>7

LEMMA TailIs ==
  ASSUME ReportInv, UNCHANGED volumeVars, slots # <<>>, slots' = Tail(slots)
  PROVE  /\ Shown(Head(slots)) /\ slots' \in Seq(SlotType) /\ \A i \in 1..Len(slots') : Shown(slots[i])'
<1>1. slots \in Seq(SlotType) /\ \A i \in 1..Len(slots) : Shown(slots[i])
  BY DEF ReportInv, ReadingInv
<1>2. /\ slots' \in Seq(SlotType) /\ Len(slots') = Len(slots) - 1 /\ Len(slots) \in Nat /\ Len(slots) >= 1
      /\ Head(slots) = slots[1] /\ \A i \in 1..Len(slots') : slots'[i] = slots[i + 1]
  BY ONLY <1>1, slots # <<>>, slots' = Tail(slots)
<1>3. ASSUME NEW i \in 1..Len(slots') PROVE Shown(slots[i])'
  <2>1. PICK s : s = slots[i + 1]
    OBVIOUS
  <2>2. i + 1 \in 1..Len(slots) /\ s = slots'[i]
    BY ONLY <1>2, <2>1, i \in 1..Len(slots')
  <2>3. Shown(s)'
    BY <1>1, <2>1, <2>2, VolumeStays DEF ReportInv
  <2> QED
    BY ONLY <2>2, <2>3 DEF Shown, SlotOk, Names, Marked, Describes, ParentOf
<1>4. 1 \in 1..Len(slots)
  BY ONLY <1>2
<1> QED
  BY ONLY <1>1, <1>2, <1>3, <1>4

LEMMA ShownStay ==
  ASSUME ReportInv, UNCHANGED volumeVars, slots' = slots
  PROVE  slots' \in Seq(SlotType) /\ \A i \in 1..Len(slots') : Shown(slots[i])'
<1>1. slots \in Seq(SlotType) /\ \A i \in 1..Len(slots) : Shown(slots[i])
  BY DEF ReportInv, ReadingInv
<1>2. ASSUME NEW i \in 1..Len(slots') PROVE Shown(slots[i])'
  <2>1. PICK s : s = slots[i]
    OBVIOUS
  <2>2. i \in 1..Len(slots) /\ s = slots'[i]
    BY <2>1
  <2>3. Shown(s)'
    BY <1>1, <2>1, <2>2, VolumeStays DEF ReportInv
  <2> QED
    BY ONLY <2>2, <2>3 DEF Shown, SlotOk, Names, Marked, Describes, ParentOf
<1> QED
  BY ONLY <1>1, <1>2, slots' = slots

(* A step that leaves the volume alone keeps what is read of it. *)
LEMMA ReadingKeeps ==
  ASSUME ReportInv, UNCHANGED volumeVars, phase' # "written",
         slots' \in Seq(SlotType), \A i \in 1..Len(slots') : Shown(slots[i])',
         set'.file \in SlotType, set'.stream \in SlotType,
         kind = "fat" => bitmap' = {} /\ ~set'.active
  PROVE  ReadingInv'
BY VolumeStays DEF ReadingInv, ReportInv

LEMMA SetStays ==
  ASSUME ReportInv, set' = set, bitmap' = bitmap
  PROVE  set'.file \in SlotType /\ set'.stream \in SlotType /\ (kind = "fat" => bitmap' = {} /\ ~set'.active)
BY DEF ReportInv, ReadingInv

LEMMA NoSetIs == NoSet.file \in SlotType /\ NoSet.stream \in SlotType /\ ~NoSet.active
<1>1. NoSet.file = End /\ NoSet.stream = End /\ NoSet.active = FALSE
  BY DEF NoSet
<1> QED
  BY ONLY <1>1, EndIs DEF Anonymous

LEMMA PathsStay ==
  ASSUME ReportInv, cursor' = cursor, \A i \in DOMAIN pending' : pending'[i].path \in Seq(Nat)
  PROVE  PathsInv'
BY DEF PathsInv, ReportInv

LEMMA PendingIs ==
  ASSUME ReportInv, pending # <<>>
  PROVE  /\ Last(pending).path \in Seq(Nat) /\ Last(pending).cluster \in Clusters
         /\ \A i \in DOMAIN Front(pending) : Front(pending)[i].path \in Seq(Nat)
<1>1. IsSequence(pending)
  BY DEF ReportInv, WorklistInv
<1>2. DOMAIN pending = 1..Len(pending) /\ Len(pending) \in Nat
  BY ONLY <1>1, SequenceOf
<1>3. /\ Len(pending) \in 1..Len(pending) /\ DOMAIN Front(pending) = 1..(Len(pending) - 1)
      /\ \A i \in 1..(Len(pending) - 1) : Front(pending)[i] = pending[i]
  BY ONLY <1>1, FrontSequence, pending # <<>>
<1>4. \A i \in DOMAIN pending : pending[i].path \in Seq(Nat) /\ pending[i].cluster \in Clusters
  BY DEF ReportInv, PathsInv, WorklistInv
<1>5. \A i \in 1..(Len(pending) - 1) : i \in 1..Len(pending)
  BY ONLY <1>2
<1> QED
  BY ONLY <1>2, <1>3, <1>4, <1>5 DEF Last

LEMMA HostReports ==
  ASSUME ReportInv, phase = "written", HostChanges, UNCHANGED walkVars
  PROVE  ReportInv'
<1>1. VolumeInv'
  BY HostKeeps DEF ReportInv
<1>2. /\ phase' = phase /\ pending' = pending /\ visited' = visited /\ cursor' = cursor /\ slots' = slots
      /\ set' = set /\ bitmap' = bitmap /\ opened' = opened /\ reported' = reported
  BY DEF walkVars
<1>3. WorklistInv'
  BY ONLY <1>2, SameWorklist, ReportInv DEF ReportInv
<1>4. PathsInv'
  BY <1>2 DEF ReportInv, PathsInv
<1>5. kind' = kind
  <2>0. ASSUME NEW p, NEW d, NEW c, NEW f, NEW n, make(p, d, c, f, n) PROVE kind' = kind
    BY ONLY make(p, d, c, f, n), Zenon DEF make
  <2>1. CASE createFile
    BY ONLY <2>0, <2>1, Zenon DEF createFile
  <2>2. CASE createDirectory
    BY ONLY <2>0, <2>2, Zenon DEF createDirectory
  <2>3. CASE growDirectory
    BY ONLY <2>3, Zenon DEF growDirectory
  <2>4. CASE remove
    BY ONLY <2>4, Zenon DEF remove
  <2> QED
    BY <2>1, <2>2, <2>3, <2>4 DEF HostChanges
<1>6. slots' = <<>> /\ reported' = <<>> /\ set' = NoSet
  BY <1>2 DEF ReportInv, ReadingInv
<1>7. ReadingInv'
  <2>1. slots' \in Seq(SlotType) /\ Len(slots') = 0
    BY ONLY <1>6
  <2>2. \A i \in 1..Len(slots') : FALSE
    BY ONLY <2>1
  <2>3. kind' = "fat" => bitmap' = {}
    BY <1>2, <1>5 DEF ReportInv, ReadingInv
  <2> QED
    BY ONLY <1>6, <2>1, <2>2, <2>3, NoSetIs DEF ReadingInv
<1>8. ReportedInv'
  <2>1. DOMAIN reported' = {} /\ IsSequence(reported')
    BY ONLY <1>6 DEF IsSequence
  <2> QED
    BY ONLY <2>1 DEF ReportedInv, IsSequence
<1> QED
  BY ONLY <1>1, <1>3, <1>4, <1>7, <1>8 DEF ReportInv

LEMMA StepReports == ReportInv /\ [Next]_vars => ReportInv'
<1> SUFFICES ASSUME ReportInv, [Next]_vars PROVE ReportInv'
  OBVIOUS
<1>1. WorklistInv'
  BY StepKeepsWorklist DEF ReportInv
<1>2. CASE UNCHANGED vars
  <2>1. UNCHANGED volumeVars /\ UNCHANGED walkVars
    BY <1>2 DEF vars
  <2>2. /\ phase' = phase /\ pending' = pending /\ cursor' = cursor /\ slots' = slots /\ set' = set
        /\ bitmap' = bitmap /\ reported' = reported
    BY <2>1 DEF walkVars
  <2>3. VolumeInv' /\ ReportedInv' /\ kind' = kind
    BY <2>1, <2>2, VolumeStays, ReportedStays DEF ReportInv
  <2>4. PathsInv'
    BY <2>2 DEF ReportInv, PathsInv
  <2>5. slots' \in Seq(SlotType) /\ \A i \in 1..Len(slots') : Shown(slots[i])'
    BY <2>1, <2>2, ShownStay
  <2>6. ReadingInv'
    BY <2>2, <2>3, <2>5 DEF ReportInv, ReadingInv
  <2> QED
    BY ONLY <1>1, <2>3, <2>4, <2>6 DEF ReportInv
<1>3. CASE phase = "written" /\ HostChanges /\ UNCHANGED walkVars
  BY <1>3, HostReports
<1>4. ASSUME UNCHANGED volumeVars, PathsInv', ReportedInv', phase' # "written",
             slots' \in Seq(SlotType), \A i \in 1..Len(slots') : Shown(slots[i])',
             set'.file \in SlotType, set'.stream \in SlotType,
             kind = "fat" => bitmap' = {} /\ ~set'.active
      PROVE  ReportInv'
  <2>1. VolumeInv'
    BY <1>4, VolumeStays DEF ReportInv
  <2>2. ReadingInv'
    BY <1>4, ReadingKeeps
  <2> QED
    BY ONLY <1>1, <1>4, <2>1, <2>2 DEF ReportInv
<1>5. CASE start
  <2>1. /\ UNCHANGED volumeVars /\ phase' = "walking" /\ cursor' = cursor /\ slots' = slots /\ set' = set
        /\ reported' = reported /\ pending' = <<[NoCursor EXCEPT !.cluster = kFirstCluster]>> /\ bitmap' \in loadBitmap
    BY <1>5 DEF start
  <2>2. PathsInv'
    <3>1. PICK c : c = [NoCursor EXCEPT !.cluster = kFirstCluster]
      OBVIOUS
    <3>2. c.path = <<>>
      BY ONLY <3>1 DEF NoCursor
    <3>3. pending'[1] = c /\ DOMAIN pending' = {1}
      <4>1. PICK p : p = <<c>>
        OBVIOUS
      <4>2. p[1] = c /\ DOMAIN p = {1}
        BY ONLY <4>1
      <4>3. pending' = p
        BY ONLY <2>1, <3>1, <4>1, Zenon
      <4> QED
        BY ONLY <4>2, <4>3
    <3>4. ASSUME NEW i \in DOMAIN pending' PROVE pending'[i].path \in Seq(Nat)
      <4>1. i = 1 /\ <<>> \in Seq(Nat)
        BY ONLY <3>3, i \in DOMAIN pending'
      <4>2. pending'[i] = c
        BY ONLY <3>3, <4>1
      <4> QED
        BY ONLY <3>2, <4>1, <4>2
    <3> QED
      BY <2>1, <3>4, PathsStay
  <2>3. kind = "fat" => bitmap' = {}
    BY ONLY <2>1 DEF loadBitmap
  <2>4. set'.file \in SlotType /\ set'.stream \in SlotType /\ (kind = "fat" => ~set'.active)
    BY <2>1 DEF ReportInv, ReadingInv
  <2> QED
    BY <1>4, <2>1, <2>2, <2>3, <2>4, ShownStay, ReportedStays
<1>6. CASE walkOne
  <2>1. /\ UNCHANGED volumeVars /\ phase' = phase /\ phase = "walking" /\ cursor' = Last(pending) /\ set' = NoSet
        /\ reported' = reported /\ pending' = Front(pending) /\ bitmap' = bitmap /\ pending # <<>>
        /\ slots' = upToEndOfDirectory(readDirectory(Last(pending)))
    BY <1>6 DEF walkOne
  <2>2. /\ Last(pending).path \in Seq(Nat) /\ Last(pending).cluster \in Clusters
        /\ \A i \in DOMAIN Front(pending) : Front(pending)[i].path \in Seq(Nat)
    BY <2>1, PendingIs
  <2>3. PathsInv'
    BY ONLY <2>1, <2>2 DEF PathsInv
  <2>4. PICK s : s = upToEndOfDirectory(readDirectory(Last(pending)))
    OBVIOUS
  <2>5. s \in Seq(SlotType) /\ (\A i \in 1..Len(s) : Shown(s[i])) /\ slots' = s
    BY <2>1, <2>2, <2>4, ReadIsShown DEF ReportInv
  <2>6. \A i \in 1..Len(slots') : Shown(slots[i])'
    <3>1. ASSUME NEW i \in 1..Len(slots') PROVE Shown(slots[i])'
      <4>1. PICK x : x = s[i]
        OBVIOUS
      <4>2. Shown(x) /\ x = slots'[i]
        BY ONLY <2>5, <4>1, i \in 1..Len(slots')
      <4>3. Shown(x)'
        BY <2>1, <4>2, VolumeStays DEF ReportInv
      <4> QED
        BY ONLY <4>2, <4>3 DEF Shown, SlotOk, Names, Marked, Describes, ParentOf
    <3> QED
      BY <3>1
  <2>7. kind = "fat" => bitmap' = {}
    BY <2>1 DEF ReportInv, ReadingInv
  <2> QED
    BY <1>4, <2>1, <2>3, <2>5, <2>6, <2>7, NoSetIs, ReportedStays
<1>7. CASE skipUnreadableDirectory
  <2>1. /\ UNCHANGED volumeVars /\ phase' = "failed" /\ cursor' = cursor /\ set' = set /\ slots' = slots
        /\ reported' = reported /\ pending' = Front(pending) /\ bitmap' = bitmap /\ pending # <<>>
    BY <1>7 DEF skipUnreadableDirectory
  <2>2. PathsInv'
    BY <2>1, PendingIs, PathsStay
  <2> QED
    BY <1>4, <2>1, <2>2, ShownStay, SetStays, ReportedStays
<1>8. CASE shortEntry
  <2>1. PICK s : s = Head(slots)
    OBVIOUS
  <2>2. /\ UNCHANGED volumeVars /\ phase' = phase /\ phase = "walking" /\ cursor' = cursor /\ set' = set
        /\ bitmap' = bitmap /\ slots # <<>> /\ slots' = Tail(slots) /\ kind = "fat" /\ s.kind = "file"
        /\ IF s.dir THEN enqueue(s.id, s.cluster, s.deleted) ELSE report(entryFromSlot(s))
    BY <1>8, <2>1 DEF shortEntry, Visiting
  <2>3. Shown(s) /\ slots' \in Seq(SlotType) /\ \A i \in 1..Len(slots') : Shown(slots[i])'
    BY <2>1, <2>2, TailIs
  <2>4. s.id \in Nat
    BY <2>3 DEF Shown, SlotType
  <2>5. ReportedInv' /\ \A i \in DOMAIN pending' : pending'[i].path \in Seq(Nat)
    <3>1. CASE s.dir
      BY <2>2, <2>4, <3>1, EnqueueReports
    <3>2. CASE ~s.dir
      <4>1. VolumeInv /\ cursor.path \in Seq(Nat) /\ \A i \in DOMAIN pending : pending[i].path \in Seq(Nat)
        BY DEF ReportInv, PathsInv
      <4>2. Sound(entryFromSlot(s))
        BY ONLY <2>2, <2>3, <3>2, <4>1, ShortIsSound
      <4>3. report(entryFromSlot(s))
        BY ONLY <2>2, <3>2
      <4>4. ReportedInv'
        BY <2>2, <4>2, <4>3, ReportKeeps
      <4>5. pending' = pending
        BY ONLY <4>3 DEF report
      <4> QED
        BY <4>1, <4>4, <4>5
    <3> QED
      BY <3>1, <3>2
  <2>6. PathsInv'
    BY <2>2, <2>5, PathsStay
  <2>7. phase' # "written"
    BY ONLY <2>2
  <2> QED
    BY <1>4, <2>2, <2>3, <2>5, <2>6, <2>7, SetStays
<1>9. CASE collectFragment
  <2>1. /\ UNCHANGED volumeVars /\ phase' = phase /\ phase = "walking" /\ cursor' = cursor /\ set' = set
        /\ bitmap' = bitmap /\ slots # <<>> /\ slots' = Tail(slots) /\ reported' = reported /\ pending' = pending
    BY <1>9 DEF collectFragment, Visiting
  <2>2. PathsInv'
    BY <2>1 DEF ReportInv, PathsInv
  <2> QED
    BY <1>4, <2>1, <2>2, TailIs, SetStays, ReportedStays
<1>10. CASE startSet
  <2>1. /\ UNCHANGED volumeVars /\ phase' = phase /\ phase = "walking" /\ cursor' = cursor /\ finish
        /\ bitmap' = bitmap /\ slots # <<>> /\ slots' = Tail(slots) /\ kind = "exfat"
        /\ set' = [active |-> TRUE, file |-> Head(slots), stream |-> End]
    BY <1>10 DEF startSet, Visiting
  <2>2. Shown(Head(slots)) /\ slots' \in Seq(SlotType) /\ \A i \in 1..Len(slots') : Shown(slots[i])'
    BY <2>1, TailIs
  <2>3. set'.file \in SlotType /\ set'.stream \in SlotType
    BY ONLY <2>1, <2>2, EndIs DEF Shown, Anonymous
  <2>4. ReportedInv' /\ PathsInv'
    BY <2>1, FinishReports, PathsStay
  <2> QED
    BY <1>4, <2>1, <2>2, <2>3, <2>4
<1>11. CASE absorb
  <2>1. /\ UNCHANGED volumeVars /\ phase' = phase /\ phase = "walking" /\ cursor' = cursor
        /\ bitmap' = bitmap /\ slots # <<>> /\ slots' = Tail(slots) /\ kind = "exfat" /\ reported' = reported
        /\ pending' = pending
        /\ set' = IF set.active /\ Head(slots).kind = "stream" THEN [set EXCEPT !.stream = Head(slots)] ELSE set
    BY <1>11 DEF absorb, Visiting
  <2>2. Shown(Head(slots)) /\ slots' \in Seq(SlotType) /\ \A i \in 1..Len(slots') : Shown(slots[i])'
    BY <2>1, TailIs
  <2>3. set'.file \in SlotType /\ set'.stream \in SlotType
    BY <2>1, <2>2 DEF Shown, ReportInv, ReadingInv
  <2>4. PathsInv'
    BY <2>1 DEF ReportInv, PathsInv
  <2> QED
    BY <1>4, <2>1, <2>2, <2>3, <2>4, ReportedStays
<1>12. CASE finishDirectory
  <2>1. /\ UNCHANGED volumeVars /\ phase' = phase /\ phase = "walking" /\ cursor' = NoCursor /\ finish
        /\ bitmap' = bitmap /\ slots' = slots /\ set' = NoSet
    BY <1>12 DEF finishDirectory
  <2>2. ReportedInv' /\ \A i \in DOMAIN pending' : pending'[i].path \in Seq(Nat)
    BY <2>1, FinishReports
  <2>3. PathsInv'
    <3>1. NoCursor.path \in Seq(Nat)
      BY DEF NoCursor
    <3> QED
      BY ONLY <2>1, <2>2, <3>1 DEF PathsInv
  <2>4. kind = "fat" => bitmap' = {}
    BY <2>1 DEF ReportInv, ReadingInv
  <2> QED
    BY <1>4, <2>1, <2>2, <2>3, <2>4, ShownStay, NoSetIs
<1>13. CASE finishWalk
  <2>1. /\ UNCHANGED volumeVars /\ phase' = "walked" /\ cursor' = cursor /\ set' = set
        /\ bitmap' = bitmap /\ slots' = slots /\ reported' = reported /\ pending' = pending
    BY <1>13 DEF finishWalk
  <2>2. PathsInv'
    BY <2>1 DEF ReportInv, PathsInv
  <2> QED
    BY <1>4, <2>1, <2>2, ShownStay, SetStays, ReportedStays
<1> QED
  BY <1>2, <1>3, <1>5, <1>6, <1>7, <1>8, <1>9, <1>10, <1>11, <1>12, <1>13 DEF Next, Walk

LEMMA ReportStarts == Init => ReportInv
<1> SUFFICES ASSUME Init PROVE ReportInv
  OBVIOUS
<1>1. /\ VolumeInit /\ phase = "written" /\ pending = <<>> /\ visited = {} /\ cursor = NoCursor /\ slots = <<>>
      /\ set = NoSet /\ bitmap = {} /\ opened = <<>> /\ reported = <<>>
  BY DEF Init
<1>2. VolumeInv
  BY <1>1, VolumeStarts
<1>3. DOMAIN pending = {} /\ DOMAIN opened = {} /\ DOMAIN reported = {} /\ IsSequence(reported) /\ IsSequence(pending)
  BY ONLY <1>1 DEF IsSequence
<1>4. WorklistInv
  <2>1. opened \in Seq(visited)
    BY ONLY <1>1
  <2> QED
    BY ONLY <1>1, <1>3, <2>1 DEF WorklistInv, DirectoriesOpenedOnce
<1>5. PathsInv
  BY ONLY <1>1, <1>3 DEF PathsInv, NoCursor
<1>6. ReadingInv
  <2>1. slots \in Seq(SlotType) /\ Len(slots) = 0
    BY ONLY <1>1
  <2> QED
    BY ONLY <1>1, <2>1, NoSetIs DEF ReadingInv
<1>7. ReportedInv
  BY ONLY <1>3 DEF ReportedInv
<1> QED
  BY ONLY <1>2, <1>4, <1>5, <1>6, <1>7 DEF ReportInv

LEMMA ReportAlways == Spec => []ReportInv
BY ReportStarts, StepReports, PTL DEF Spec

(* Every extent given out is one of the volume's data region, and holds something. *)
ExtentsAreInData == \A i \in DOMAIN reported : \A e \in Range(reported[i].extents) : InData(e)

LEMMA ReportedIsInData == ReportInv => ExtentsAreInData
<1> SUFFICES ASSUME ReportInv, NEW i \in DOMAIN reported, NEW e \in Range(reported[i].extents) PROVE InData(e)
  BY DEF ExtentsAreInData
<1>1. PICK x : x = reported[i].extents
  OBVIOUS
<1>2. x \in Extents /\ AllInData(x)
  BY <1>1 DEF ReportInv, ReportedInv, Sound, EntryType
<1>3. DOMAIN x = 1..Len(x)
  BY ONLY <1>2, TypedIsSequence DEF Extents
<1> QED
  BY <1>1, <1>2, <1>3 DEF AllInData, Range

(* Whatever the slots, the sizes and the chains of a volume say, FAT32 or exFAT, the walk
   gives out no extent outside its data region: locateShort and locateSet check the first
   cluster, ClusterChain.cpp the others. *)
THEOREM ExtentsStayInData == Spec => []ExtentsAreInData
BY ReportedIsInData, ReportAlways, PTL

(* On a FAT32 volume, whatever its host did to it, a removed file whose slot is still there
   and whose clusters lay in one run comes back with that run, the guess of locateShort
   for a deleted slot. *)
THEOREM DeletedIsWhereItWasOnFat == Spec => [](kind = "fat" => DeletedIsWhereItWas)
<1>1. ReportInv => (kind = "fat" => DeletedIsWhereItWas)
  <2> SUFFICES ASSUME ReportInv, kind = "fat", NEW i \in DOMAIN reported
               PROVE  LET n == Last(reported[i].path)
                      IN /\ \A e \in Range(reported[i].extents) :
                              e.len > 0 /\ e.at >= DataOffset
                              /\ e.at + e.len <= clusterOffset(kFirstCluster + TotalClusters)
                         /\ (reported[i].state # "live" /\ n # 0 /\ ~nodes[n].live /\ Consecutive(nodes[n].clusters)
                             /\ (kind = "exfat" => nodes[n].noFatChain))
                            => reported[i].extents =
                                 IF bitmap # {} /\ nodes[n].clusters[1] \in held THEN <<>> ELSE TrueExtents(n)
    BY DEF DeletedIsWhereItWas
  <2>1. \A e \in Range(reported[i].extents) : InData(e)
    BY ReportedIsInData DEF ExtentsAreInData
  <2>2. WhereItWas(reported[i]) /\ bitmap = {}
    BY DEF ReportInv, ReportedInv, ReadingInv, Sound
  <2> QED
    BY ONLY <2>1, <2>2, kind = "fat" DEF WhereItWas, InData
<1> QED
  BY <1>1, ReportAlways, PTL

-----------------------------------------------------------------------------
(***************************************************************************)
(* The slots of a directory as a list.                                     *)
(***************************************************************************)

SlotsIn(con, clusters) ==
  [j \in 1..(Len(clusters) * SlotsPerCluster) |->
     con[clusters[(j - 1) \div SlotsPerCluster + 1]][((j - 1) % SlotsPerCluster) + 1]]

LEMMA SlotsInContent ==
  ASSUME NEW clusters
  PROVE  SlotsOf(clusters) = SlotsIn(content, clusters) /\ SlotsOf(clusters)' = SlotsIn(content', clusters)
BY DEF SlotsOf, SlotsIn

LEMMA TimesIs ==
  ASSUME NEW a \in Nat, NEW b \in Nat
  PROVE  a * b \in Nat
OBVIOUS

LEMMA TimesGrows ==
  ASSUME NEW a \in Nat, NEW b \in Nat, NEW s \in Nat, a <= b
  PROVE  a * s <= b * s
<1>1. PICK e : e = b - a
  OBVIOUS
<1>2. e \in Nat /\ b = a + e
  BY ONLY <1>1, a \in Nat, b \in Nat, a <= b
<1>3. (a + e) * s = a * s + e * s
  BY ONLY <1>2, a \in Nat, s \in Nat
<1>4. a * s \in Nat /\ e * s \in Nat
  BY ONLY <1>2, a \in Nat, s \in Nat, TimesIs
<1> QED
  BY ONLY <1>2, <1>3, <1>4

AtPlace(con, clusters, j, k, i) ==
  j = (k - 1) * SlotsPerCluster + i /\ SlotsIn(con, clusters)[j] = con[clusters[k]][i]

(* Place j of the list is slot i of the k-th cluster. *)
LEMMA PlaceIs ==
  ASSUME NEW con, NEW clusters \in Seq(Clusters), NEW j \in 1..(Len(clusters) * SlotsPerCluster)
  PROVE  \E k \in 1..Len(clusters), i \in 1..SlotsPerCluster : AtPlace(con, clusters, j, k, i)
<1>1. PICK S, N, n : S = SlotsPerCluster /\ n = Len(clusters) /\ N = n * S
  OBVIOUS
<1>2. S \in Nat /\ S > 0 /\ n \in Nat
  BY <1>1, GeometryIs
<1>3. N \in Nat /\ j \in 1..N /\ j \in Nat
  BY ONLY <1>1, <1>2, TimesIs, j \in 1..(Len(clusters) * SlotsPerCluster)
<1>4. PICK q, r : q = (j - 1) \div S /\ r = (j - 1) % S
  OBVIOUS
<1>5. q \in Nat /\ r \in Nat /\ r < S /\ j - 1 = S * q + r
  <2>1. j - 1 \in Nat /\ S \in Nat \ {0}
    BY ONLY <1>2, <1>3
  <2>2. q \in Nat /\ r \in 0..(S - 1) /\ j - 1 = S * q + r
    BY ONLY <1>4, <2>1, Divided
  <2> QED
    BY ONLY <2>1, <2>2
<1>6. q < n
  <2>1. j - 1 \in Nat /\ S \in Nat \ {0} /\ j - 1 < N
    BY ONLY <1>2, <1>3
  <2> QED
    BY ONLY <1>1, <1>2, <1>4, <2>1, DividedBelow
<1>7. PICK k, i : k = q + 1 /\ i = r + 1
  OBVIOUS
<1>8. k \in 1..Len(clusters) /\ i \in 1..SlotsPerCluster
  BY ONLY <1>1, <1>2, <1>5, <1>6, <1>7
<1>9. j = (k - 1) * SlotsPerCluster + i
  <2>1. S * q = q * S /\ k - 1 = q /\ S * q \in Nat
    BY ONLY <1>2, <1>5, <1>7, TimesIs
  <2>2. j = S * q + i
    BY ONLY <1>3, <1>5, <1>7, <2>1
  <2> QED
    BY ONLY <1>1, <2>1, <2>2
<1>10. SlotsIn(con, clusters)[j] = con[clusters[k]][i]
  <2>1. SlotsIn(con, clusters)[j] = con[clusters[(j - 1) \div SlotsPerCluster + 1]][((j - 1) % SlotsPerCluster) + 1]
    BY ONLY j \in 1..(Len(clusters) * SlotsPerCluster), Zenon DEF SlotsIn
  <2> QED
    BY ONLY <1>1, <1>4, <1>7, <2>1, Zenon
<1> QED
  BY ONLY <1>8, <1>9, <1>10 DEF AtPlace

LEMMA ListIs ==
  ASSUME NEW con, NEW clusters \in Seq(Clusters)
  PROVE  LET f == SlotsIn(con, clusters) IN
         /\ DOMAIN f = 1..(Len(clusters) * SlotsPerCluster) /\ IsSequence(f)
         /\ Len(f) = Len(clusters) * SlotsPerCluster /\ Len(f) \in Nat
<1>1. PICK f, N : f = SlotsIn(con, clusters) /\ N = Len(clusters) * SlotsPerCluster
  OBVIOUS
<1>2. N \in Nat
  <2>1. Len(clusters) \in Nat /\ SlotsPerCluster \in Nat
    BY GeometryIs
  <2> QED
    BY ONLY <1>1, <2>1, TimesIs
<1>3. DOMAIN f = 1..N /\ f = [j \in 1..N |-> f[j]]
  BY ONLY <1>1 DEF SlotsIn
<1>4. PICK T : T = {f[j] : j \in 1..N}
  OBVIOUS
<1>5. f \in [1..N -> T]
  BY ONLY <1>3, <1>4
<1>6. f \in Seq(T) /\ Len(f) = N
  BY ONLY <1>2, <1>5, FunctionIsSeq
<1>7. IsSequence(f)
  BY ONLY <1>6, TypedIsSequence
<1> QED
  BY ONLY <1>1, <1>2, <1>3, <1>6, <1>7

(* Slot i of the k-th cluster is a place of the list. *)
LEMMA SlotHasPlace ==
  ASSUME NEW con, NEW clusters \in Seq(Clusters), NEW k \in 1..Len(clusters), NEW i \in 1..SlotsPerCluster
  PROVE  /\ (k - 1) * SlotsPerCluster + i \in 1..(Len(clusters) * SlotsPerCluster)
         /\ SlotsIn(con, clusters)[(k - 1) * SlotsPerCluster + i] = con[clusters[k]][i]
<1>1. PICK S, n, j, q : S = SlotsPerCluster /\ n = Len(clusters) /\ j = (k - 1) * S + i /\ q = k - 1
  OBVIOUS
<1>2. S \in Nat /\ S > 0 /\ n \in Nat /\ q \in Nat /\ q + 1 <= n /\ i \in Nat /\ 1 <= i /\ i <= S
  BY <1>1, GeometryIs
<1>3. j = q * S + i
  BY ONLY <1>1
<1>4. q * S \in Nat /\ (q + 1) * S = q * S + S /\ (q + 1) * S <= n * S /\ n * S \in Nat
  <2>1. (q + 1) * S = q * S + S
    BY ONLY <1>2
  <2>2. (q + 1) * S <= n * S
    <3>1. q + 1 \in Nat /\ n \in Nat /\ S \in Nat /\ q + 1 <= n
      BY ONLY <1>2
    <3> QED
      BY ONLY <3>1, TimesGrows
  <2> QED
    BY ONLY <1>2, <2>1, <2>2, TimesIs
<1>5. j \in 1..(n * S)
  BY ONLY <1>2, <1>3, <1>4
<1>6. (j - 1) \div S = q /\ (j - 1) % S = i - 1
  <2>1. S \in Nat \ {0} /\ i - 1 \in 0..(S - 1)
    BY ONLY <1>2
  <2>2. j - 1 = q * S + (i - 1)
    BY ONLY <1>2, <1>3, <1>4
  <2> QED
    BY ONLY <1>2, <2>1, <2>2, DividedIs
<1>7. SlotsIn(con, clusters)[j] = con[clusters[(j - 1) \div S + 1]][((j - 1) % S) + 1]
  BY ONLY <1>1, <1>5, Zenon DEF SlotsIn
<1>8. q + 1 = k /\ i - 1 + 1 = i
  BY ONLY <1>1, k \in 1..Len(clusters), i \in 1..SlotsPerCluster, GeometryIs
<1> QED
  BY ONLY <1>1, <1>5, <1>6, <1>7, <1>8

LEMMA SameSlots ==
  ASSUME NEW con, NEW other, NEW clusters \in Seq(Clusters), \A k \in 1..Len(clusters) : con[clusters[k]] = other[clusters[k]]
  PROVE  SlotsIn(con, clusters) = SlotsIn(other, clusters)
<1>1. PICK f, g, N : f = SlotsIn(con, clusters) /\ g = SlotsIn(other, clusters) /\ N = Len(clusters) * SlotsPerCluster
  OBVIOUS
<1>2. ASSUME NEW j \in 1..N PROVE f[j] = g[j]
  <2>1. j \in 1..(Len(clusters) * SlotsPerCluster)
    BY ONLY <1>1, j \in 1..N
  <2>2. PICK k \in 1..Len(clusters), i \in 1..SlotsPerCluster : AtPlace(con, clusters, j, k, i)
    BY ONLY <2>1, PlaceIs, clusters \in Seq(Clusters)
  <2>3. j = (k - 1) * SlotsPerCluster + i /\ f[j] = con[clusters[k]][i]
    BY ONLY <1>1, <2>2 DEF AtPlace
  <2>4. g[j] = other[clusters[k]][i]
    BY ONLY <1>1, <2>3, SlotHasPlace, clusters \in Seq(Clusters)
  <2> QED
    BY ONLY <2>3, <2>4, \A x \in 1..Len(clusters) : con[clusters[x]] = other[clusters[x]]
<1>3. f = [j \in 1..N |-> f[j]] /\ g = [j \in 1..N |-> g[j]]
  BY ONLY <1>1 DEF SlotsIn
<1> QED
  BY ONLY <1>1, <1>2, <1>3

Injective(s) == \A i, j \in 1..Len(s) : s[i] = s[j] => i = j

LEMMA WrittenList ==
  ASSUME NEW clusters \in Seq(Clusters), Injective(clusters), NEW new, NEW at \in Nat, NEW over,
         NEW j \in 1..(Len(clusters) * SlotsPerCluster)
  PROVE  SlotsIn(Written(clusters, new, at, over), clusters)[j]
           = IF j - at + 1 \in DOMAIN new THEN new[j - at + 1] ELSE SlotsIn(over, clusters)[j]
<1>1. PICK w : w = Written(clusters, new, at, over)
  OBVIOUS
<1>0. PICK k \in 1..Len(clusters), i \in 1..SlotsPerCluster : AtPlace(w, clusters, j, k, i)
  BY ONLY PlaceIs, clusters \in Seq(Clusters), j \in 1..(Len(clusters) * SlotsPerCluster)
<1>2. j = (k - 1) * SlotsPerCluster + i /\ SlotsIn(w, clusters)[j] = w[clusters[k]][i]
  BY ONLY <1>0 DEF AtPlace
<1>3. SlotsIn(over, clusters)[j] = over[clusters[k]][i]
  BY ONLY <1>2, SlotHasPlace, clusters \in Seq(Clusters)
<1>4. PICK c, m : c = clusters[k] /\ m = CHOOSE x \in DOMAIN clusters : clusters[x] = c
  OBVIOUS
<1>5. c \in Clusters /\ k \in DOMAIN clusters /\ DOMAIN clusters = 1..Len(clusters)
  BY ONLY <1>4, clusters \in Seq(Clusters), k \in 1..Len(clusters)
<1>6. m = k
  <2>1. m \in DOMAIN clusters /\ clusters[m] = c
    BY ONLY <1>4, <1>5
  <2> QED
    BY ONLY <1>4, <1>5, <2>1, Injective(clusters) DEF Injective
<1>7. PICK t : t = (m - 1) * SlotsPerCluster + i - at + 1
  OBVIOUS
<1>8. w[c][i] = IF t \in DOMAIN new THEN new[t] ELSE over[c][i]
  <2>1. \E x \in DOMAIN clusters : clusters[x] = c
    BY ONLY <1>4, <1>5
  <2> QED
    BY ONLY <1>1, <1>4, <1>5, <1>7, <2>1, i \in 1..SlotsPerCluster, Zenon DEF Written
<1>9. t = j - at + 1
  <2>1. PICK a : a = (k - 1) * SlotsPerCluster
    OBVIOUS
  <2>2. a \in Nat /\ i \in Nat
    <3>1. k - 1 \in Nat /\ SlotsPerCluster \in Nat /\ i \in Nat
      BY ONLY GeometryIs, k \in 1..Len(clusters), clusters \in Seq(Clusters), i \in 1..SlotsPerCluster
    <3> QED
      BY ONLY <2>1, <3>1, TimesIs
  <2>3. j = a + i /\ t = a + i - at + 1
    BY ONLY <1>2, <1>6, <1>7, <2>1
  <2> QED
    BY ONLY <2>2, <2>3, at \in Nat
<1> QED
  BY ONLY <1>1, <1>2, <1>3, <1>4, <1>8, <1>9

(* Places k to l of a list written over. *)
Overwritten(old, new, at, s) ==
  /\ Len(s) = Len(old) /\ Len(old) \in Nat /\ Len(new) \in Nat /\ Len(new) >= 1
  /\ at \in Nat /\ at >= 1 /\ at + Len(new) - 1 <= Len(old)
  /\ \A j \in 1..Len(old) :
       s[j] = IF at <= j /\ j <= at + Len(new) - 1 THEN new[j - at + 1] ELSE old[j]

FreeSlots(s, at, n) ==
  at + n - 1 <= Len(s) /\ \A i \in at..(at + n - 1) : s[i].kind = "end" \/ s[i].deleted

EndsTogether(s) == \A j, k \in 1..Len(s) : j < k /\ s[j].kind = "end" => s[k].kind = "end"

OneSlotEach(s) ==
  \A j, k \in 1..Len(s) :
    s[j].kind = "file" /\ s[k].kind = "file" /\ s[j].id = s[k].id /\ s[j].id # 0 => j = k

DotsOnly(s) == \A j \in 1..Len(s) : s[j].kind = "file" /\ s[j].id = 0 => s[j].dir

(* Written where there is room for the first time, a directory keeps its free end. *)
LEMMA EndsStayTogether ==
  ASSUME NEW old, NEW new, NEW at, NEW s, Overwritten(old, new, at, s), EndsTogether(old),
         \A j \in 1..Len(new) : new[j].kind # "end",
         \A b \in 1..(at - 1) : ~FreeSlots(old, b, Len(new))
  PROVE  EndsTogether(s)
<1> SUFFICES ASSUME NEW j \in 1..Len(s), NEW k \in 1..Len(s), j < k, s[j].kind = "end" PROVE s[k].kind = "end"
  BY DEF EndsTogether
<1>1. PICK L, n : L = Len(old) /\ n = Len(new)
  OBVIOUS
<1>2. /\ Len(s) = L /\ L \in Nat /\ n \in Nat /\ n >= 1 /\ at \in Nat /\ at >= 1 /\ at + n - 1 <= L
      /\ j \in 1..L /\ k \in 1..L
  BY <1>1 DEF Overwritten
<1>3. \A x \in 1..L : s[x] = IF at <= x /\ x <= at + n - 1 THEN new[x - at + 1] ELSE old[x]
  BY <1>1 DEF Overwritten
<1>4. ~(at <= j /\ j <= at + n - 1)
  <2>1. CASE at <= j /\ j <= at + n - 1
    <3>1. j - at + 1 \in 1..n
      BY ONLY <1>2, <2>1
    <3>2. s[j] = new[j - at + 1]
      BY ONLY <1>2, <1>3, <2>1
    <3> QED
      BY <1>1, <3>1, <3>2
  <2> QED
    BY <2>1
<1>5. old[j].kind = "end"
  BY <1>2, <1>3, <1>4
<1>6. \A x \in 1..L : j < x => old[x].kind = "end"
  BY <1>1, <1>2, <1>5 DEF EndsTogether
<1>7. CASE at <= k /\ k <= at + n - 1
  <2>1. j < at
    BY ONLY <1>2, <1>4, <1>7, j < k
  <2>2. j \in 1..(at - 1) /\ j + n - 1 <= L /\ \A x \in j..(j + n - 1) : x \in 1..L /\ (x = j \/ j < x)
    BY ONLY <1>2, <2>1
  <2>3. FreeSlots(old, j, n)
    BY ONLY <1>1, <1>5, <1>6, <2>2 DEF FreeSlots
  <2> QED
    BY <1>1, <2>2, <2>3
<1>8. CASE ~(at <= k /\ k <= at + n - 1)
  BY ONLY <1>2, <1>3, <1>6, <1>8, j < k
<1> QED
  BY <1>7, <1>8

(* The new slots of a node, of which the last is the file's. *)
OneFile(new, id) ==
  /\ \A j \in 1..Len(new) : new[j].id = id
  /\ \A j \in 1..Len(new) : new[j].kind = "file" <=> j = Len(new)

HasSlot(s, id) == \E j \in 1..Len(s) : s[j].kind = "file" /\ s[j].id = id

KeptSlots(old, s) == \A j \in 1..Len(old) : old[j].kind = "file" /\ ~old[j].deleted => HasSlot(s, old[j].id)

LEMMA OneSlotStays ==
  ASSUME NEW old, NEW new, NEW at, NEW s, NEW id \in Nat, id # 0, Overwritten(old, new, at, s),
         OneSlotEach(old), DotsOnly(old), OneFile(new, id), \A j \in 1..Len(old) : old[j].id # id
  PROVE  /\ OneSlotEach(s) /\ DotsOnly(s) /\ HasSlot(s, id)
         /\ FreeSlots(old, at, Len(new)) => KeptSlots(old, s)
<1>1. PICK L, n : L = Len(old) /\ n = Len(new)
  OBVIOUS
<1>2. Len(s) = L /\ L \in Nat /\ n \in Nat /\ n >= 1 /\ at \in Nat /\ at >= 1 /\ at + n - 1 <= L
  BY <1>1 DEF Overwritten
<1>3. ASSUME NEW j \in 1..L
      PROVE  \/ j - at + 1 \in 1..n /\ s[j] = new[j - at + 1]
             \/ ~(at <= j /\ j <= at + n - 1) /\ s[j] = old[j]
  <2>1. s[j] = IF at <= j /\ j <= at + n - 1 THEN new[j - at + 1] ELSE old[j]
    BY <1>1 DEF Overwritten
  <2> QED
    BY ONLY <1>2, <2>1, j \in 1..L
<1>4. \A j \in 1..n : new[j].id = id /\ (new[j].kind = "file" <=> j = n)
  BY <1>1 DEF OneFile
<1>5. ASSUME NEW j \in 1..L, NEW k \in 1..L, s[j].kind = "file", s[k].kind = "file", s[j].id = s[k].id, s[j].id # 0
      PROVE  j = k
  <2>1. \/ j - at + 1 = n /\ s[j].id = id
        \/ s[j] = old[j]
    BY ONLY <1>3, <1>4, j \in 1..L, s[j].kind = "file"
  <2>2. \/ k - at + 1 = n /\ s[k].id = id
        \/ s[k] = old[k]
    BY ONLY <1>3, <1>4, k \in 1..L, s[k].kind = "file"
  <2>3. \A x \in 1..L : old[x].id # id
    BY <1>1
  <2>4. CASE s[j] = old[j] /\ s[k] = old[k]
    BY <1>1, <1>5, <2>4 DEF OneSlotEach
  <2>5. CASE j - at + 1 = n /\ k - at + 1 = n
    BY ONLY <1>2, <2>5, j \in 1..L, k \in 1..L
  <2> QED
    BY <1>5, <2>1, <2>2, <2>3, <2>4, <2>5
<1>6. OneSlotEach(s)
  BY <1>2, <1>5 DEF OneSlotEach
<1>7. DotsOnly(s)
  <2>1. ASSUME NEW j \in 1..L, s[j].kind = "file", s[j].id = 0 PROVE s[j].dir
    <3>1. s[j] = old[j]
      BY <1>3, <1>4, <2>1
    <3> QED
      BY <1>1, <2>1, <3>1 DEF DotsOnly
  <2> QED
    BY <1>2, <2>1 DEF DotsOnly
<1>8. HasSlot(s, id)
  <2>1. PICK j : j = at + n - 1
    OBVIOUS
  <2>2. j \in 1..L /\ j - at + 1 = n /\ n \in 1..n /\ at <= j /\ j <= at + n - 1
    BY ONLY <1>2, <2>1
  <2>3. s[j] = new[n]
    BY ONLY <1>3, <2>2
  <2> QED
    BY ONLY <1>2, <1>4, <2>2, <2>3 DEF HasSlot
<1>9. ASSUME NEW j \in 1..Len(old), old[j].kind = "file", ~old[j].deleted, FreeSlots(old, at, Len(new))
      PROVE  HasSlot(s, old[j].id)
  <2>1. j \in 1..L
    BY <1>1, <1>9
  <2>2. ~(at <= j /\ j <= at + n - 1)
    <3>1. CASE at <= j /\ j <= at + n - 1
      <4>1. j \in at..(at + n - 1)
        BY ONLY <1>2, <2>1, <3>1
      <4>2. old[j].kind = "end" \/ old[j].deleted
        BY <1>1, <1>9, <4>1 DEF FreeSlots
      <4> QED
        BY <1>9, <4>2
    <3> QED
      BY <3>1
  <2>3. ~(j - at + 1 \in 1..n)
    BY ONLY <1>2, <2>1, <2>2
  <2>4. s[j] = old[j]
    BY ONLY <1>3, <2>1, <2>3
  <2> QED
    BY <1>2, <1>9, <2>1, <2>4 DEF HasSlot
<1> QED
  BY <1>6, <1>7, <1>8, <1>9 DEF KeptSlots

-----------------------------------------------------------------------------
(***************************************************************************)
(* The tree a host keeps: who owns which clusters, and where its slots are.*)
(***************************************************************************)

NoReuse == "directory reuse" \notin Habits

Parent(ns, n) == IF Len(ns[n].path) = 1 THEN 1 ELSE ns[n].path[Len(ns[n].path) - 1]

NodeIn(ns, n) ==
  LET p == Parent(ns, n) IN
  /\ p \in 1..(n - 1) /\ ns[p].dir /\ ns[n].path = Append(ns[p].path, n)
  /\ ns[n].live => ns[p].live

Linked(t, cs) == \A i \in 1..Len(cs) : t[cs[i]] = IF i = Len(cs) THEN kEndOfChain ELSE cs[i + 1]

Owns(ns, k, t, h, n) ==
  ns[n].live => /\ Injective(ns[n].clusters) /\ Range(ns[n].clusters) \subseteq h
                /\ k = "fat" => Linked(t, ns[n].clusters)

(* Live nodes share no cluster; directories never did, unless their clusters are reused. *)
Apart(ns, m, n) ==
  (ns[m].live /\ ns[n].live) \/ (NoReuse /\ ns[m].dir /\ ns[n].dir)
    => Range(ns[m].clusters) \cap Range(ns[n].clusters) = {}

DotOf(ns, d, c, s) ==
  ns[d].dir /\ ns[d].clusters[1] = c /\ (s.cluster = c \/ s.cluster = ns[Parent(ns, d)].clusters[1])

(* A directory slot of no node is the `.` or the `..` of a directory. *)
Dotted(ns, c, s) ==
  s.kind = "file" /\ s.id = 0 /\ s.dir =>
    \/ s.cluster = 0
    \/ \E d \in 2..Len(ns) : DotOf(ns, d, c, s)

(* What is live in a directory has its slot there. *)
Lists(ns, d, s) ==
  \A n \in 2..Len(ns) : ns[n].live /\ Parent(ns, n) = d => HasSlot(s, n)

ListOk(ns, d, s) == EndsTogether(s) /\ OneSlotEach(s) /\ DotsOnly(s) /\ Lists(ns, d, s)

TreeInv ==
  /\ nodes[1].clusters[1] = kFirstCluster
  /\ \A n \in 2..Len(nodes) : NodeIn(nodes, n)
  /\ \A n \in 1..Len(nodes) : Owns(nodes, kind, table, held, n)
  /\ \A m, n \in 1..Len(nodes) : m # n => Apart(nodes, m, n)
  /\ NoReuse => \A c \in Clusters : \A i \in 1..SlotsPerCluster : Dotted(nodes, c, content[c][i])
  /\ kind = "fat" => \A d \in LiveDirectories : ListOk(nodes, d, SlotsIn(content, nodes[d].clusters))

LEMMA ParentAgrees ==
  ASSUME NEW n
  PROVE  ParentOf(n) = Parent(nodes, n) /\ ParentOf(n)' = Parent(nodes', n)
BY DEF ParentOf, Parent

(* On FAT the last of a node's slots is its file slot. *)
LEMMA FatSlots ==
  ASSUME kind = "fat", NEW id \in Nat, NEW dir, NEW first, NEW size, NEW noFatChain, NEW names \in Nat
  PROVE  LET new == SlotsFor(id, dir, first, size, noFatChain, names) IN
         /\ OneFile(new, id) /\ DOMAIN new = 1..Len(new) /\ Len(new) = names + 1
         /\ \A j \in 1..Len(new) : new[j].kind # "end"
<1>1. PICK a, b, name, file, new :
        /\ a = Slot("name", id) /\ b = Slot("file", id)
        /\ name = [i \in 1..names |-> a]
        /\ file = [b EXCEPT !.dir = dir, !.cluster = first, !.size = size]
        /\ new = SlotsFor(id, dir, first, size, noFatChain, names)
  OBVIOUS
<1>2. new = Append(name, file)
  BY ONLY <1>1, kind = "fat" DEF SlotsFor
<1>3. a.kind = "name" /\ a.id = id /\ file.kind = "file" /\ file.id = id
  BY ONLY <1>1 DEF Slot
<1>4. PICK T : T = {a, file}
  OBVIOUS
<1>5. name \in Seq(T) /\ Len(name) = names /\ \A k \in 1..names : name[k] = a
  <2>1. name \in [1..names -> T] /\ \A k \in 1..names : name[k] = a
    BY ONLY <1>1, <1>4
  <2> QED
    BY ONLY <2>1, FunctionIsSeq, names \in Nat
<1>6. /\ Len(new) = names + 1 /\ DOMAIN new = 1..Len(new)
      /\ new[names + 1] = file /\ \A k \in 1..names : new[k] = a
  BY ONLY <1>2, <1>4, <1>5, names \in Nat
<1>7. \A j \in 1..Len(new) : (j = Len(new) /\ new[j] = file) \/ (j # Len(new) /\ new[j] = a)
  BY ONLY <1>6, names \in Nat
<1> QED
  BY ONLY <1>1, <1>3, <1>6, <1>7 DEF OneFile

(* What a host has done when it has made a node. *)
Made(parent, dir, clusters, new, at, filled, node) ==
  LET id == Len(nodes) + 1 IN
  /\ nodes' \in Seq(NodeType) /\ Len(nodes') = id /\ nodes'[id] = node
  /\ \A n \in 1..Len(nodes) : nodes'[n] = nodes[n]
  /\ node.path = Append(nodes[parent].path, id) /\ node.dir = dir /\ node.clusters = clusters /\ node.live
  /\ content' = Written(nodes[parent].clusters, new, at, filled)
  /\ at = Min(Places(nodes[parent].clusters, Len(new))) /\ Places(nodes[parent].clusters, Len(new)) # {}
  /\ filled = [c \in Clusters |->
                 IF \A i \in DOMAIN clusters : clusters[i] # c THEN content[c]
                 ELSE IF dir THEN NewDirectory(parent, c) ELSE FileBytes(kind)]
  /\ held' = held \cup Range(clusters) /\ kind' = kind /\ (kind = "fat" => table' = Chained(clusters))
  /\ kind = "fat" => OneFile(new, id) /\ DOMAIN new = 1..Len(new) /\ Len(new) \in Nat /\ Len(new) >= 1
                     /\ \A j \in 1..Len(new) : new[j].kind # "end"
  /\ \A j \in DOMAIN new : new[j].id = id

LEMMA MadeIs ==
  ASSUME VolumeInv, NEW parent \in LiveDirectories, NEW dir \in BOOLEAN, NEW clusters \in Seq(Clusters),
         NEW noFatChain \in BOOLEAN, NEW names \in Nat, make(parent, dir, clusters, noFatChain, names)
  PROVE  \E new, at, filled, node : Made(parent, dir, clusters, new, at, filled, node)
<1>1. PICK id, size, first, new, at, filled, node :
        /\ id = Len(nodes) + 1
        /\ size = (IF dir THEN 0 ELSE Max({0, Len(clusters) * BytesPerCluster - 1}))
        /\ first = (IF clusters = <<>> THEN 0 ELSE clusters[1])
        /\ new = SlotsFor(id, dir, first, size, noFatChain, names)
        /\ at = Min(Places(nodes[parent].clusters, Len(new)))
        /\ filled = [c \in Clusters |->
                       IF \A i \in DOMAIN clusters : clusters[i] # c THEN content[c]
                       ELSE IF dir THEN NewDirectory(parent, c) ELSE FileBytes(kind)]
        /\ node = [path |-> Append(nodes[parent].path, id), dir |-> dir, clusters |-> clusters, size |-> size,
                   live |-> TRUE, noFatChain |-> noFatChain]
  OBVIOUS
<1>2. /\ content' = Written(nodes[parent].clusters, new, at, filled)
      /\ table' = (IF noFatChain THEN table ELSE Chained(clusters)) /\ (noFatChain => kind = "exfat")
      /\ Places(nodes[parent].clusters, Len(new)) # {}
      /\ held' = held \cup Range(clusters) /\ nodes' = Append(nodes, node) /\ kind' = kind
  BY <1>1, Zenon DEF make
<1>3. parent \in 1..Len(nodes) /\ Len(nodes) \in Nat /\ Len(nodes) >= 1
  BY LengthIs DEF LiveDirectories
<1>4. id \in Nat
  BY ONLY <1>1, <1>3
<1>5. size \in Nat
  <2>1. PICK a : a = Len(clusters) * BytesPerCluster
    OBVIOUS
  <2>2. a \in Nat
    BY <2>1, GeometryIs
  <2>3. Max({0, a - 1}) = IF a - 1 >= 0 THEN a - 1 ELSE 0
    BY ONLY <2>2, MaxOfZero
  <2> QED
    BY ONLY <1>1, <2>1, <2>2, <2>3
<1>6. first \in Nat
  <2>1. clusters # <<>> => clusters[1] \in Clusters
    OBVIOUS
  <2> QED
    BY ONLY <1>1, <2>1, GeometryIs
<1>7. node \in NodeType /\ node.path = Append(nodes[parent].path, id) /\ node.dir = dir /\ node.clusters = clusters /\ node.live
  <2>1. PICK path : path = Append(nodes[parent].path, id)
    OBVIOUS
  <2>2. path \in Seq(Nat)
    BY <1>3, <1>4, <2>1, NodeIs
  <2>3. node = [path |-> path, dir |-> dir, clusters |-> clusters, size |-> size, live |-> TRUE, noFatChain |-> noFatChain]
    BY ONLY <1>1, <2>1
  <2> QED
    BY ONLY <1>5, <2>1, <2>2, <2>3, dir \in BOOLEAN, clusters \in Seq(Clusters), noFatChain \in BOOLEAN DEF NodeType
<1>8. /\ nodes' \in Seq(NodeType) /\ Len(nodes') = Len(nodes) + 1 /\ nodes'[Len(nodes) + 1] = node
      /\ \A n \in 1..Len(nodes) : nodes'[n] = nodes[n]
  <2>1. nodes \in Seq(NodeType)
    BY DEF VolumeInv, VolumeType
  <2> QED
    BY ONLY <1>2, <1>7, <2>1
<1>9. kind = "fat" => /\ OneFile(new, id) /\ DOMAIN new = 1..Len(new) /\ Len(new) \in Nat /\ Len(new) >= 1
                      /\ \A j \in 1..Len(new) : new[j].kind # "end"
  <2>1. ASSUME kind = "fat"
        PROVE /\ OneFile(new, id) /\ DOMAIN new = 1..Len(new) /\ Len(new) = names + 1
              /\ \A j \in 1..Len(new) : new[j].kind # "end"
    <3>1. new = SlotsFor(id, dir, first, size, noFatChain, names)
      BY ONLY <1>1
    <3> QED
      BY ONLY <1>4, <2>1, <3>1, FatSlots, names \in Nat
  <2> QED
    BY <2>1
<1>10. ASSUME NEW j \in DOMAIN new PROVE new[j].id = id
  <2>1. new = SlotsFor(id, dir, first, size, noFatChain, names)
    BY ONLY <1>1
  <2>2. j \in DOMAIN SlotsFor(id, dir, first, size, noFatChain, names)
    BY ONLY <2>1, j \in DOMAIN new
  <2>3. Fresh(SlotsFor(id, dir, first, size, noFatChain, names)[j], id, dir, first, size)
    BY ONLY <1>4, <1>5, <1>6, <2>2, SlotsForAre, dir \in BOOLEAN, noFatChain \in BOOLEAN, names \in Nat
  <2> QED
    BY ONLY <2>1, <2>3 DEF Fresh
<1>11. id = Len(nodes) + 1
  BY ONLY <1>1
<1>12. kind = "fat" => table' = Chained(clusters)
  BY ONLY <1>2
<1>13. /\ at = Min(Places(nodes[parent].clusters, Len(new)))
       /\ filled = [c \in Clusters |->
                      IF \A i \in DOMAIN clusters : clusters[i] # c THEN content[c]
                      ELSE IF dir THEN NewDirectory(parent, c) ELSE FileBytes(kind)]
  BY ONLY <1>1
<1>14. Made(parent, dir, clusters, new, at, filled, node)
  BY ONLY <1>2, <1>7, <1>8, <1>9, <1>10, <1>11, <1>12, <1>13, Zenon DEF Made
<1> QED
  BY ONLY <1>14

LEMMA RangeIs ==
  ASSUME NEW S, NEW s \in Seq(S), NEW x
  PROVE  x \in Range(s) <=> \E i \in 1..Len(s) : s[i] = x
BY DEF Range

LEMMA ChainedLinks ==
  ASSUME NEW clusters \in Seq(Clusters), Injective(clusters)
  PROVE  /\ Linked(Chained(clusters), clusters)
         /\ \A c \in Clusters : c \notin Range(clusters) => Chained(clusters)[c] = table[c]
<1>1. ASSUME NEW k \in 1..Len(clusters)
      PROVE  Chained(clusters)[clusters[k]] = IF k = Len(clusters) THEN kEndOfChain ELSE clusters[k + 1]
  <2>1. PICK c, m : c = clusters[k] /\ m = CHOOSE x \in DOMAIN clusters : clusters[x] = c
    OBVIOUS
  <2>2. c \in Clusters /\ k \in DOMAIN clusters /\ DOMAIN clusters = 1..Len(clusters)
    BY ONLY <2>1, clusters \in Seq(Clusters), k \in 1..Len(clusters)
  <2>3. \E x \in DOMAIN clusters : clusters[x] = c
    BY ONLY <2>1, <2>2
  <2>4. m = k
    <3>1. m \in DOMAIN clusters /\ clusters[m] = c
      BY ONLY <2>1, <2>2
    <3> QED
      BY ONLY <2>1, <2>2, <3>1, Injective(clusters) DEF Injective
  <2>5. Chained(clusters)[c] = IF m = Len(clusters) THEN kEndOfChain ELSE clusters[m + 1]
    BY ONLY <2>1, <2>2, <2>3, Zenon DEF Chained
  <2> QED
    BY ONLY <2>1, <2>4, <2>5
<1>2. ASSUME NEW c \in Clusters, c \notin Range(clusters) PROVE Chained(clusters)[c] = table[c]
  <2>1. ~ \E x \in DOMAIN clusters : clusters[x] = c
    BY <1>2 DEF Range
  <2> QED
    BY ONLY <2>1, c \in Clusters DEF Chained
<1> QED
  BY ONLY <1>1, <1>2 DEF Linked

LEMMA LinkedElsewhere ==
  ASSUME NEW t, NEW u, NEW cs \in Seq(Clusters), Linked(t, cs), NEW R, Range(cs) \cap R = {},
         \A c \in Clusters : c \notin R => u[c] = t[c]
  PROVE  Linked(u, cs)
<1>1. ASSUME NEW i \in 1..Len(cs) PROVE u[cs[i]] = t[cs[i]]
  <2>1. cs[i] \in Clusters /\ cs[i] \in Range(cs)
    BY RangeIs
  <2> QED
    BY <2>1
<1> QED
  BY <1>1 DEF Linked

LEMMA LiveIs ==
  ASSUME VolumeInv, NEW d
  PROVE  d \in LiveDirectories <=> d \in 1..Len(nodes) /\ nodes[d].dir /\ nodes[d].live
BY LengthIs DEF LiveDirectories

LEMMA MadeParent ==
  ASSUME VolumeInv, NEW parent \in LiveDirectories, NEW dir, NEW clusters, NEW new, NEW at, NEW filled, NEW node,
         Made(parent, dir, clusters, new, at, filled, node)
  PROVE  /\ Parent(nodes', Len(nodes) + 1) = parent
         /\ \A n \in 1..Len(nodes) : Parent(nodes', n) = Parent(nodes, n)
<1>1. parent \in 1..Len(nodes) /\ Len(nodes) \in Nat
  BY LengthIs, LiveIs
<1>2. PICK old, id, path : old = nodes[parent].path /\ id = Len(nodes) + 1 /\ path = nodes'[id].path
  OBVIOUS
<1>3. old \in Seq(Nat) /\ id \in Nat /\ NodeOk(parent) /\ path = Append(old, id)
  BY <1>1, <1>2, NodeIs DEF Made
<1>4. Len(path) = Len(old) + 1 /\ Len(old) \in Nat /\ \A k \in 1..Len(old) : path[k] = old[k]
  BY ONLY <1>3
<1>5. Parent(nodes', id) = parent
  <2>1. CASE parent = 1
    <3>1. Len(path) = 1
      BY ONLY <1>2, <1>3, <1>4, <2>1 DEF NodeOk
    <3> QED
      BY ONLY <1>2, <2>1, <3>1 DEF Parent
  <2>2. CASE parent # 1
    <3>1. parent > 1
      BY ONLY <1>1, <2>2
    <3>2. Len(old) >= 1 /\ old[Len(old)] = parent
      BY ONLY <1>2, <1>3, <3>1 DEF NodeOk
    <3>3. Len(path) # 1 /\ Len(path) - 1 = Len(old) /\ Len(old) \in 1..Len(old)
      BY ONLY <1>4, <3>2
    <3>4. path[Len(path) - 1] = parent
      BY ONLY <1>4, <3>2, <3>3
    <3> QED
      BY ONLY <1>2, <3>3, <3>4 DEF Parent
  <2> QED
    BY <2>1, <2>2
<1>6. \A n \in 1..Len(nodes) : nodes'[n] = nodes[n]
  BY DEF Made
<1> QED
  BY ONLY <1>2, <1>5, <1>6 DEF Parent

LEMMA MadeNodes ==
  ASSUME VolumeInv, TreeInv, NEW parent \in LiveDirectories, NEW dir \in BOOLEAN, NEW clusters \in Seq(Clusters),
         NEW new, NEW at, NEW filled, NEW node, Made(parent, dir, clusters, new, at, filled, node),
         Injective(clusters), Range(clusters) \cap held = {},
         dir /\ NoReuse => \A n \in 1..Len(nodes) : nodes[n].dir => Range(clusters) \cap Range(nodes[n].clusters) = {}
  PROVE  /\ \A n \in 2..Len(nodes') : NodeIn(nodes', n)
         /\ \A n \in 1..Len(nodes') : Owns(nodes', kind', table', held', n)
         /\ \A m, n \in 1..Len(nodes') : m # n => Apart(nodes', m, n)
<1>1. parent \in 1..Len(nodes) /\ Len(nodes) \in Nat /\ nodes[parent].dir /\ nodes[parent].live
  BY LengthIs, LiveIs
<1>2. PICK id : id = Len(nodes) + 1
  OBVIOUS
<1>3. /\ Len(nodes') = id /\ nodes'[id] = node /\ \A n \in 1..Len(nodes) : nodes'[n] = nodes[n]
  BY <1>2 DEF Made
<1>4. /\ node.path = Append(nodes[parent].path, id) /\ node.dir = dir /\ node.clusters = clusters /\ node.live
      /\ held' = held \cup Range(clusters) /\ kind' = kind /\ (kind = "fat" => table' = Chained(clusters))
  BY <1>2 DEF Made
<1>5. Parent(nodes', id) = parent /\ \A n \in 1..Len(nodes) : Parent(nodes', n) = Parent(nodes, n)
  BY <1>2, MadeParent
<1>6. \A n \in 1..Len(nodes') : n \in 1..Len(nodes) \/ n = id
  BY ONLY <1>1, <1>2, <1>3
<1>7. ASSUME NEW n \in 2..Len(nodes') PROVE NodeIn(nodes', n)
  <2>1. CASE n \in 1..Len(nodes)
    <3>1. n \in 2..Len(nodes)
      BY ONLY <1>1, <2>1, n \in 2..Len(nodes')
    <3>2. NodeIn(nodes, n)
      BY <3>1 DEF TreeInv
    <3>3. Parent(nodes, n) \in 1..Len(nodes)
      BY ONLY <1>1, <3>1, <3>2 DEF NodeIn
    <3> QED
      BY ONLY <1>3, <1>5, <2>1, <3>2, <3>3 DEF NodeIn
  <2>2. CASE n = id
    <3>1. parent \in 1..(n - 1) /\ nodes'[parent] = nodes[parent]
      BY ONLY <1>1, <1>2, <1>3, <2>2
    <3> QED
      BY ONLY <1>1, <1>3, <1>4, <1>5, <2>2, <3>1 DEF NodeIn
  <2> QED
    BY ONLY <1>1, <1>2, <1>3, <2>1, <2>2, n \in 2..Len(nodes')
<1>8. ASSUME NEW n \in 1..Len(nodes') PROVE Owns(nodes', kind', table', held', n)
  <2>1. CASE n \in 1..Len(nodes)
    <3>1. nodes'[n] = nodes[n] /\ Owns(nodes, kind, table, held, n) /\ nodes[n].clusters \in Seq(Clusters)
      BY <1>3, <2>1, NodeIs DEF TreeInv
    <3>2. nodes[n].live /\ kind = "fat" => Linked(table', nodes[n].clusters)
      <4> SUFFICES ASSUME nodes[n].live, kind = "fat" PROVE Linked(table', nodes[n].clusters)
        OBVIOUS
      <4>1. Linked(table, nodes[n].clusters) /\ Range(nodes[n].clusters) \subseteq held
        BY <3>1 DEF Owns
      <4>2. \A c \in Clusters : c \notin Range(clusters) => table'[c] = table[c]
        BY <1>4, ChainedLinks
      <4>3. Range(nodes[n].clusters) \cap Range(clusters) = {}
        BY <4>1
      <4> QED
        BY ONLY <3>1, <4>1, <4>2, <4>3, LinkedElsewhere
    <3> QED
      BY ONLY <1>4, <3>1, <3>2 DEF Owns
  <2>2. CASE n = id
    <3>1. Linked(Chained(clusters), clusters)
      BY ChainedLinks
    <3> QED
      BY ONLY <1>3, <1>4, <2>2, <3>1, Injective(clusters) DEF Owns
  <2> QED
    BY <1>6, <2>1, <2>2
<1>9. ASSUME NEW n \in 1..Len(nodes) PROVE Apart(nodes', id, n) /\ Apart(nodes', n, id)
  <2>1. nodes'[n] = nodes[n] /\ Owns(nodes, kind, table, held, n)
    BY <1>3 DEF TreeInv
  <2>2. nodes[n].live => Range(clusters) \cap Range(nodes[n].clusters) = {}
    BY <2>1 DEF Owns
  <2> QED
    BY <1>3, <1>4, <2>1, <2>2 DEF Apart
<1>10. ASSUME NEW m \in 1..Len(nodes'), NEW n \in 1..Len(nodes'), m # n PROVE Apart(nodes', m, n)
  <2>1. CASE m \in 1..Len(nodes) /\ n \in 1..Len(nodes)
    <3>1. Apart(nodes, m, n) /\ nodes'[m] = nodes[m] /\ nodes'[n] = nodes[n]
      BY <1>3, <1>10, <2>1 DEF TreeInv
    <3> QED
      BY ONLY <3>1 DEF Apart
  <2> QED
    BY <1>6, <1>9, <1>10, <2>1
<1> QED
  BY ONLY <1>7, <1>8, <1>10

LEMMA NewSlots ==
  ASSUME VolumeInv, NEW parent \in LiveDirectories, NEW self \in Nat, NEW i \in 1..SlotsPerCluster
  PROVE  LET s == NewDirectory(parent, self)[i] IN
         /\ s.id = 0
         /\ kind = "fat" /\ i <= 2 => s.kind = "file" /\ s.dir
         /\ kind # "fat" \/ i > 2 => s.kind = "end"
         /\ i <= 2 => s.kind = "end" \/ s.cluster = self \/ s.cluster = 0 \/ s.cluster = nodes[parent].clusters[1]
<1>1. PICK b, n, x, dot, dotdot, e, s :
        /\ b = Slot("file", 0) /\ n = (IF parent = 1 THEN 0 ELSE nodes[parent].clusters[1])
        /\ dot = [b EXCEPT !.dir = TRUE, !.cluster = self] /\ dotdot = [dot EXCEPT !.cluster = n]
        /\ e = AllEnd /\ x = [e EXCEPT ![1] = dot, ![2] = dotdot] /\ s = NewDirectory(parent, self)[i]
  OBVIOUS
<1>2. NewDirectory(parent, self) = IF kind = "fat" THEN x ELSE e
  BY ONLY <1>1 DEF NewDirectory
<1>3. DOMAIN e = 1..SlotsPerCluster /\ \A k \in 1..SlotsPerCluster : e[k].kind = "end" /\ e[k].id = 0
  BY ONLY <1>1 DEF AllEnd, End, Slot
<1>4. dot.kind = "file" /\ dot.id = 0 /\ dot.dir /\ dot.cluster = self
  BY ONLY <1>1 DEF Slot
<1>5. dotdot.kind = "file" /\ dotdot.id = 0 /\ dotdot.dir /\ dotdot.cluster = n
  BY ONLY <1>1 DEF Slot
<1>6. \A k \in 1..SlotsPerCluster : x[k] = IF k = 2 THEN dotdot ELSE IF k = 1 THEN dot ELSE e[k]
  BY ONLY <1>1, <1>3
<1>7. s = IF kind # "fat" THEN e[i] ELSE IF i = 2 THEN dotdot ELSE IF i = 1 THEN dot ELSE e[i]
  BY ONLY <1>1, <1>2, <1>6, i \in 1..SlotsPerCluster, ZenonT(60)
<1>8. i \in Nat /\ i >= 1 /\ (i <= 2 <=> i = 1 \/ i = 2)
  BY GeometryIs
<1>9. n = 0 \/ n = nodes[parent].clusters[1]
  BY ONLY <1>1
<1>10. /\ s.id = 0
       /\ kind = "fat" /\ i <= 2 => s.kind = "file" /\ s.dir
       /\ kind # "fat" \/ i > 2 => s.kind = "end"
  BY ONLY <1>3, <1>4, <1>5, <1>7, <1>8, i \in 1..SlotsPerCluster
<1>11. i <= 2 => s.kind = "end" \/ s.cluster = self \/ s.cluster = 0 \/ s.cluster = nodes[parent].clusters[1]
  BY ONLY <1>3, <1>4, <1>5, <1>7, <1>8, <1>9, i \in 1..SlotsPerCluster
<1> QED
  BY ONLY <1>1, <1>10, <1>11

LEMMA FileBytesPlain ==
  ASSUME NEW k, NEW i \in 1..SlotsPerCluster
  PROVE  ~FileBytes(k)[i].dir
BY DEF FileBytes, Slot

LEMMA FilledIs ==
  ASSUME NEW parent, NEW dir, NEW clusters \in Seq(Clusters), NEW new, NEW at, NEW filled, NEW node,
         Made(parent, dir, clusters, new, at, filled, node), NEW c \in Clusters
  PROVE  /\ c \notin Range(clusters) => filled[c] = content[c]
         /\ c \in Range(clusters) => filled[c] = IF dir THEN NewDirectory(parent, c) ELSE FileBytes(kind)
<1>1. filled[c] = IF \A i \in DOMAIN clusters : clusters[i] # c THEN content[c]
                  ELSE IF dir THEN NewDirectory(parent, c) ELSE FileBytes(kind)
  BY ONLY Made(parent, dir, clusters, new, at, filled, node), c \in Clusters, Zenon DEF Made
<1>2. c \in Range(clusters) <=> \E i \in DOMAIN clusters : clusters[i] = c
  BY DEF Range
<1> QED
  BY ONLY <1>1, <1>2

(* Nodes made later, and clusters added at the end, leave a directory's dots as they are. *)
LEMMA DotsCarry ==
  ASSUME NEW ns, NEW ms, NEW c, NEW s, Dotted(ns, c, s), Len(ns) \in Nat, Len(ms) \in Nat, Len(ns) <= Len(ms),
         \A d \in 2..Len(ns) : NodeIn(ns, d) /\ Parent(ms, d) = Parent(ns, d),
         \A d \in 1..Len(ns) : ns[d].dir => ms[d].dir /\ ms[d].clusters[1] = ns[d].clusters[1]
  PROVE  Dotted(ms, c, s)
<1> SUFFICES ASSUME s.kind = "file", s.id = 0, s.dir, s.cluster # 0
             PROVE  \E d \in 2..Len(ms) : DotOf(ms, d, c, s)
  BY Zenon DEF Dotted
<1>1. PICK d \in 2..Len(ns) : DotOf(ns, d, c, s)
  BY DEF Dotted
<1>2. d \in 1..Len(ns) /\ d \in 2..Len(ms)
  BY <1>1
<1>3. Parent(ms, d) = Parent(ns, d) /\ Parent(ns, d) \in 1..Len(ns) /\ ns[Parent(ns, d)].dir
  <2>1. NodeIn(ns, d)
    BY <1>1
  <2>2. Parent(ns, d) \in 1..(d - 1) /\ ns[Parent(ns, d)].dir
    BY ONLY <2>1 DEF NodeIn
  <2> QED
    BY <1>1, <2>2
<1> QED
  BY <1>1, <1>2, <1>3 DEF DotOf

LEMMA MadeDots ==
  ASSUME VolumeInv, TreeInv, NoReuse, NEW parent \in LiveDirectories, NEW dir \in BOOLEAN, NEW clusters \in Seq(Clusters),
         NEW new, NEW at, NEW filled, NEW node, Made(parent, dir, clusters, new, at, filled, node),
         dir => Len(clusters) = 1, NEW c \in Clusters, NEW i \in 1..SlotsPerCluster
  PROVE  Dotted(nodes', c, content'[c][i])
<1>1. parent \in 1..Len(nodes) /\ Len(nodes) \in Nat /\ nodes[parent].dir
  BY LengthIs, LiveIs
<1>2. PICK id, s : id = Len(nodes) + 1 /\ s = content'[c][i]
  OBVIOUS
<1>3. /\ Len(nodes') = id /\ nodes'[id] = node /\ \A n \in 1..Len(nodes) : nodes'[n] = nodes[n]
      /\ node.dir = dir /\ node.clusters = clusters
      /\ content' = Written(nodes[parent].clusters, new, at, filled) /\ \A j \in DOMAIN new : new[j].id = id
  BY <1>2 DEF Made
<1>4. Parent(nodes', id) = parent /\ \A n \in 1..Len(nodes) : Parent(nodes', n) = Parent(nodes, n)
  BY <1>2, MadeParent
<1>5. s = filled[c][i] \/ \E j \in DOMAIN new : s = new[j]
  BY ONLY <1>2, <1>3, WrittenSlots, c \in Clusters, i \in 1..SlotsPerCluster
<1>6. CASE \E j \in DOMAIN new : s = new[j]
  <2>1. s.id = id /\ id # 0
    BY ONLY <1>1, <1>2, <1>3, <1>6
  <2> QED
    BY ONLY <1>2, <2>1 DEF Dotted
<1>7. CASE s = filled[c][i] /\ c \notin Range(clusters)
  <2>1. filled[c] = content[c]
    BY <1>7, FilledIs
  <2>2. Dotted(nodes, c, s)
    BY <1>7, <2>1 DEF TreeInv
  <2>3. Len(nodes') \in Nat /\ Len(nodes) <= Len(nodes')
    BY ONLY <1>1, <1>2, <1>3
  <2>4. \A d \in 2..Len(nodes) : NodeIn(nodes, d) /\ Parent(nodes', d) = Parent(nodes, d)
    <3>1. \A d \in 2..Len(nodes) : d \in 1..Len(nodes)
      BY ONLY <1>1
    <3>2. \A d \in 2..Len(nodes) : NodeIn(nodes, d)
      BY DEF TreeInv
    <3> QED
      BY ONLY <1>4, <3>1, <3>2
  <2>5. \A d \in 1..Len(nodes) : nodes[d].dir => nodes'[d].dir /\ nodes'[d].clusters[1] = nodes[d].clusters[1]
    BY ONLY <1>3
  <2> QED
    BY ONLY <1>1, <1>2, <2>2, <2>3, <2>4, <2>5, DotsCarry
<1>10. c \in Range(clusters) => filled[c] = IF dir THEN NewDirectory(parent, c) ELSE FileBytes(kind)
  BY ONLY FilledIs, clusters \in Seq(Clusters), c \in Clusters, Made(parent, dir, clusters, new, at, filled, node)
<1>8. CASE s = filled[c][i] /\ c \in Range(clusters) /\ ~dir
  <2>1. filled[c] = FileBytes(kind)
    BY ONLY <1>8, <1>10
  <2>2. ~s.dir
    BY ONLY <1>8, <2>1, FileBytesPlain, i \in 1..SlotsPerCluster
  <2> QED
    BY ONLY <1>2, <2>2 DEF Dotted
<1>9. CASE s = filled[c][i] /\ c \in Range(clusters) /\ dir
  <2>1. s = NewDirectory(parent, c)[i]
    BY ONLY <1>9, <1>10
  <2>2. clusters[1] = c
    BY <1>9, RangeIs
  <2>3. c \in Nat /\ i \in Nat
    BY GeometryIs
  <2>4. s.kind = "end" \/ s.cluster = c \/ s.cluster = 0 \/ s.cluster = nodes[parent].clusters[1]
    BY <2>1, <2>3, NewSlots
  <2>5. s.cluster = c \/ s.cluster = nodes[parent].clusters[1] => \E d \in 2..Len(nodes') : DotOf(nodes', d, c, s)
    <3>1. id \in 2..Len(nodes') /\ nodes'[parent] = nodes[parent]
      BY ONLY <1>1, <1>2, <1>3
    <3> QED
      BY ONLY <1>3, <1>4, <1>9, <2>2, <3>1 DEF DotOf
  <2> QED
    BY ONLY <1>2, <2>4, <2>5 DEF Dotted
<1> QED
  BY ONLY <1>5, <1>6, <1>7, <1>8, <1>9

(* A directory none of whose clusters are written keeps its list. *)
LEMMA OtherListKept ==
  ASSUME VolumeInv, TreeInv, NEW parent \in LiveDirectories, NEW dir \in BOOLEAN, NEW clusters \in Seq(Clusters),
         NEW new, NEW at, NEW filled, NEW node, Made(parent, dir, clusters, new, at, filled, node),
         Range(clusters) \cap held = {}, kind = "fat", NEW d \in LiveDirectories, d # parent
  PROVE  ListOk(nodes', d, SlotsIn(content', nodes'[d].clusters))
<1>1. parent \in 1..Len(nodes) /\ d \in 1..Len(nodes) /\ Len(nodes) \in Nat /\ nodes[parent].live /\ nodes[d].live
  BY LengthIs, LiveIs
<1>2. PICK id, cs, ps : id = Len(nodes) + 1 /\ cs = nodes[d].clusters /\ ps = nodes[parent].clusters
  OBVIOUS
<1>3. /\ Len(nodes') = id /\ \A n \in 1..Len(nodes) : nodes'[n] = nodes[n]
      /\ content' = Written(ps, new, at, filled)
  BY <1>2 DEF Made
<1>4. Parent(nodes', id) = parent /\ \A n \in 1..Len(nodes) : Parent(nodes', n) = Parent(nodes, n)
  BY <1>2, MadeParent
<1>5. cs \in Seq(Clusters) /\ ps \in Seq(Clusters) /\ Range(cs) \subseteq held /\ Range(cs) \cap Range(ps) = {}
  <2>1. Apart(nodes, d, parent) /\ Owns(nodes, kind, table, held, d)
    BY <1>1 DEF TreeInv
  <2> QED
    BY <1>1, <1>2, <2>1, NodeIs DEF Apart, Owns
<1>6. ASSUME NEW k \in 1..Len(cs) PROVE content'[cs[k]] = content[cs[k]]
  <2>1. cs[k] \in Clusters /\ cs[k] \in Range(cs)
    BY <1>5, RangeIs
  <2>2. cs[k] \notin Range(clusters) /\ cs[k] \notin Range(ps)
    BY <1>5, <2>1
  <2>3. filled[cs[k]] = content[cs[k]]
    BY <2>1, <2>2, FilledIs
  <2>4. ~ \E x \in DOMAIN ps : ps[x] = cs[k]
    BY <2>2 DEF Range
  <2>5. content'[cs[k]] = filled[cs[k]]
    BY ONLY <1>3, <2>1, <2>4 DEF Written
  <2> QED
    BY ONLY <2>3, <2>5
<1>7. SlotsIn(content', cs) = SlotsIn(content, cs)
  BY ONLY <1>5, <1>6, SameSlots
<1>8. ListOk(nodes, d, SlotsIn(content, cs))
  BY <1>2 DEF TreeInv
<1>9. Lists(nodes', d, SlotsIn(content, cs))
  <2> SUFFICES ASSUME NEW n \in 2..Len(nodes'), nodes'[n].live, Parent(nodes', n) = d
               PROVE  HasSlot(SlotsIn(content, cs), n)
    BY Zenon DEF Lists
  <2>1. n # id
    BY <1>4
  <2>2. n \in 2..Len(nodes) /\ n \in 1..Len(nodes)
    BY ONLY <1>1, <1>2, <1>3, <2>1, n \in 2..Len(nodes')
  <2>3. nodes[n].live /\ Parent(nodes, n) = d
    BY <1>3, <1>4, <2>2
  <2> QED
    BY ONLY <1>8, <2>2, <2>3 DEF ListOk, Lists
<1>10. nodes'[d].clusters = cs
  BY ONLY <1>1, <1>2, <1>3
<1> QED
  BY ONLY <1>7, <1>8, <1>9, <1>10 DEF ListOk

(* A new directory has its dots and nothing else. *)
LEMMA NewListIs ==
  ASSUME VolumeInv, TreeInv, NEW parent \in LiveDirectories, NEW dir \in BOOLEAN, NEW clusters \in Seq(Clusters),
         NEW new, NEW at, NEW filled, NEW node, Made(parent, dir, clusters, new, at, filled, node),
         Range(clusters) \cap held = {}, kind = "fat", dir, Len(clusters) = 1,
         \A n \in 2..Len(nodes') : NodeIn(nodes', n)
  PROVE  ListOk(nodes', Len(nodes) + 1, SlotsIn(content', clusters))
<1>1. parent \in 1..Len(nodes) /\ Len(nodes) \in Nat /\ nodes[parent].live
  BY LengthIs, LiveIs
<1>2. PICK id, ps, c, f : /\ id = Len(nodes) + 1 /\ ps = nodes[parent].clusters /\ c = clusters[1]
                          /\ f = SlotsIn(content', clusters)
  OBVIOUS
<1>3. Len(nodes') = id /\ content' = Written(ps, new, at, filled)
  BY <1>2 DEF Made
<1>4. c \in Clusters /\ c \in Range(clusters) /\ c \notin Range(ps)
  <2>1. Owns(nodes, kind, table, held, parent)
    BY <1>1 DEF TreeInv
  <2>2. c \in Clusters /\ c \in Range(clusters)
    BY <1>2, RangeIs
  <2> QED
    BY <1>1, <1>2, <2>1, <2>2 DEF Owns
<1>5. content'[c] = NewDirectory(parent, c)
  <2>1. filled[c] = NewDirectory(parent, c)
    <3>1. filled[c] = IF dir THEN NewDirectory(parent, c) ELSE FileBytes(kind)
      BY ONLY <1>4, FilledIs, clusters \in Seq(Clusters), Made(parent, dir, clusters, new, at, filled, node)
    <3> QED
      BY ONLY <3>1, dir
  <2>2. ~ \E x \in DOMAIN ps : ps[x] = c
    BY <1>4 DEF Range
  <2>3. content'[c] = filled[c]
    BY ONLY <1>3, <1>4, <2>2 DEF Written
  <2> QED
    BY ONLY <2>1, <2>3
<1>6. Len(f) = SlotsPerCluster /\ \A j \in 1..SlotsPerCluster : f[j] = NewDirectory(parent, c)[j]
  <2>1. Len(f) = Len(clusters) * SlotsPerCluster
    BY ONLY <1>2, ListIs, clusters \in Seq(Clusters)
  <2>2. ASSUME NEW j \in 1..SlotsPerCluster PROVE f[j] = NewDirectory(parent, c)[j]
    <3>1. 1 \in 1..Len(clusters)
      BY Len(clusters) = 1
    <3>2. SlotsIn(content', clusters)[(1 - 1) * SlotsPerCluster + j] = content'[clusters[1]][j]
      BY ONLY <3>1, SlotHasPlace, clusters \in Seq(Clusters), j \in 1..SlotsPerCluster
    <3>3. (1 - 1) * SlotsPerCluster + j = j
      BY GeometryIs
    <3> QED
      BY ONLY <1>2, <1>5, <3>2, <3>3
  <2>3. 1 * SlotsPerCluster = SlotsPerCluster
    BY GeometryIs
  <2> QED
    BY ONLY <2>1, <2>2, <2>3, Len(clusters) = 1
<1>7. ASSUME NEW j \in 1..SlotsPerCluster
      PROVE  f[j].id = 0 /\ (j <= 2 => f[j].kind = "file" /\ f[j].dir) /\ (j > 2 => f[j].kind = "end")
  <2>1. c \in Nat
    BY <1>4, GeometryIs
  <2>2. f[j] = NewDirectory(parent, c)[j]
    BY ONLY <1>6, j \in 1..SlotsPerCluster
  <2> QED
    BY <2>1, <2>2, NewSlots
<1>8. EndsTogether(f)
  <2> SUFFICES ASSUME NEW j \in 1..Len(f), NEW k \in 1..Len(f), j < k, f[j].kind = "end" PROVE f[k].kind = "end"
    BY DEF EndsTogether
  <2>1. j \in 1..SlotsPerCluster /\ k \in 1..SlotsPerCluster /\ j \in Nat /\ k \in Nat
    BY <1>6, GeometryIs
  <2>2. ~(j <= 2)
    BY <1>7, <2>1
  <2>3. k > 2
    BY <2>1, <2>2
  <2> QED
    BY <1>7, <2>1, <2>3
<1>9. OneSlotEach(f)
  BY ONLY <1>6, <1>7 DEF OneSlotEach
<1>10. DotsOnly(f)
  <2> SUFFICES ASSUME NEW j \in 1..Len(f), f[j].kind = "file" PROVE f[j].dir
    BY Zenon DEF DotsOnly
  <2>1. j \in 1..SlotsPerCluster /\ j \in Nat
    BY <1>6, GeometryIs
  <2>2. ~(j > 2)
    BY <1>7, <2>1
  <2> QED
    BY <1>7, <2>1, <2>2
<1>11. Lists(nodes', id, f)
  <2> SUFFICES ASSUME NEW n \in 2..Len(nodes'), Parent(nodes', n) = id PROVE FALSE
    BY Zenon DEF Lists
  <2>1. id \in 1..(n - 1)
    BY DEF NodeIn
  <2> QED
    BY ONLY <1>1, <1>2, <1>3, <2>1, n \in 2..Len(nodes')
<1> QED
  BY ONLY <1>2, <1>8, <1>9, <1>10, <1>11 DEF ListOk

(* The slots of a list are slots of the volume. *)
LEMMA ListedIs ==
  ASSUME VolumeInv, NEW clusters \in Seq(Clusters), NEW j \in 1..Len(SlotsIn(content, clusters))
  PROVE  \E c \in Range(clusters) : \E i \in 1..SlotsPerCluster :
           SlotsIn(content, clusters)[j] = content[c][i] /\ c \in Clusters /\ content[c][i] \in SlotType /\ SlotOk(c, content[c][i])
<1>1. j \in 1..(Len(clusters) * SlotsPerCluster)
  BY ONLY ListIs, clusters \in Seq(Clusters), j \in 1..Len(SlotsIn(content, clusters))
<1>2. PICK k \in 1..Len(clusters), i \in 1..SlotsPerCluster : AtPlace(content, clusters, j, k, i)
  BY ONLY <1>1, PlaceIs, clusters \in Seq(Clusters)
<1>3. SlotsIn(content, clusters)[j] = content[clusters[k]][i]
  BY ONLY <1>2 DEF AtPlace
<1>4. clusters[k] \in Clusters /\ clusters[k] \in Range(clusters)
  BY RangeIs
<1>5. content[clusters[k]][i] \in SlotType /\ SlotOk(clusters[k], content[clusters[k]][i])
  BY <1>4 DEF VolumeInv, VolumeType, SlotsInv
<1> QED
  BY ONLY <1>3, <1>4, <1>5

(* What a node's slots are written over. *)
LEMMA WrittenOver ==
  ASSUME VolumeInv, TreeInv, NEW parent \in LiveDirectories, NEW dir \in BOOLEAN, NEW clusters \in Seq(Clusters),
         NEW new, NEW at, NEW filled, NEW node, Made(parent, dir, clusters, new, at, filled, node),
         Range(clusters) \cap held = {}, kind = "fat"
  PROVE  LET ps == nodes[parent].clusters
             old == SlotsIn(content, ps)
         IN /\ Overwritten(old, new, at, SlotsIn(content', ps)) /\ FreeSlots(old, at, Len(new))
            /\ \A b \in 1..(at - 1) : ~FreeSlots(old, b, Len(new))
<1>1. parent \in 1..Len(nodes) /\ nodes[parent].live
  BY LengthIs, LiveIs
<1>2. PICK ps, old, s, N, n, P :
        /\ ps = nodes[parent].clusters /\ old = SlotsIn(content, ps) /\ s = SlotsIn(content', ps)
        /\ N = Len(ps) * SlotsPerCluster /\ n = Len(new) /\ P = Places(ps, n)
  OBVIOUS
<1>3. /\ content' = Written(ps, new, at, filled) /\ at = Min(P) /\ P # {}
      /\ DOMAIN new = 1..n /\ n \in Nat /\ n >= 1
  BY ONLY <1>2, kind = "fat", Made(parent, dir, clusters, new, at, filled, node), Zenon DEF Made
<1>4. ps \in Seq(Clusters) /\ Injective(ps) /\ Range(ps) \subseteq held
  <2>1. Owns(nodes, kind, table, held, parent)
    BY <1>1 DEF TreeInv
  <2> QED
    BY <1>1, <1>2, <2>1, NodeIs DEF Owns
<1>5. Len(old) = N /\ Len(s) = N /\ N \in Nat
  BY ONLY <1>2, <1>4, ListIs
<1>6. SlotsIn(filled, ps) = old
  <2>1. ASSUME NEW k \in 1..Len(ps) PROVE filled[ps[k]] = content[ps[k]]
    <3>1. ps[k] \in Clusters /\ ps[k] \in Range(ps)
      BY <1>4, RangeIs
    <3>2. ps[k] \notin Range(clusters)
      BY <1>4, <3>1
    <3> QED
      BY ONLY <3>1, <3>2, FilledIs, clusters \in Seq(Clusters), Made(parent, dir, clusters, new, at, filled, node)
  <2> QED
    BY ONLY <1>2, <1>4, <2>1, SameSlots
<1>7. P = {b \in 1..N : FreeSlots(old, b, n)}
  <2>1. SlotsOf(ps) = old
    BY ONLY <1>2, SlotsInContent
  <2>2. \A b : Fits(ps, n, b) <=> FreeSlots(old, b, n)
    BY ONLY <2>1 DEF Fits, FreeSlots
  <2> QED
    BY ONLY <1>2, <2>2 DEF Places
<1>8. at \in 1..N /\ FreeSlots(old, at, n) /\ \A b \in P : at <= b
  <2>1. P \in SUBSET Nat
    BY ONLY <1>5, <1>7
  <2>2. Min(P) \in P /\ \A b \in P : Min(P) <= b
    BY ONLY <1>3, <2>1, MinIs
  <2> QED
    BY ONLY <1>3, <1>7, <2>2
<1>9. \A b \in 1..(at - 1) : ~FreeSlots(old, b, n)
  <2>1. \A b \in 1..(at - 1) : b \in 1..N /\ ~(at <= b)
    BY ONLY <1>5, <1>8
  <2> QED
    BY ONLY <1>7, <1>8, <2>1
<1>10. at + n - 1 <= N
  BY ONLY <1>5, <1>8 DEF FreeSlots
<1>11. ASSUME NEW j \in 1..N PROVE s[j] = IF at <= j /\ j <= at + n - 1 THEN new[j - at + 1] ELSE old[j]
  <2>1. at \in Nat /\ j \in 1..(Len(ps) * SlotsPerCluster)
    BY ONLY <1>2, <1>5, <1>8, j \in 1..N
  <2>2. s[j] = IF j - at + 1 \in DOMAIN new THEN new[j - at + 1] ELSE SlotsIn(filled, ps)[j]
    BY ONLY <1>2, <1>3, <1>4, <2>1, WrittenList
  <2>3. j - at + 1 \in 1..n <=> at <= j /\ j <= at + n - 1
    BY ONLY <1>3, <1>5, <1>8, j \in 1..N
  <2> QED
    BY ONLY <1>3, <1>6, <2>2, <2>3
<1>12. Overwritten(old, new, at, s)
  <2>1. at \in Nat /\ at >= 1
    BY ONLY <1>5, <1>8
  <2> QED
    BY ONLY <1>2, <1>3, <1>5, <1>10, <1>11, <2>1 DEF Overwritten
<1> QED
  BY ONLY <1>2, <1>8, <1>9, <1>12

(* The directory a node is made in has its slot, and keeps the others'. *)
LEMMA ParentListIs ==
  ASSUME VolumeInv, TreeInv, NEW parent \in LiveDirectories, NEW dir \in BOOLEAN, NEW clusters \in Seq(Clusters),
         NEW new, NEW at, NEW filled, NEW node, Made(parent, dir, clusters, new, at, filled, node),
         Range(clusters) \cap held = {}, kind = "fat"
  PROVE  ListOk(nodes', parent, SlotsIn(content', nodes'[parent].clusters))
<1>1. parent \in 1..Len(nodes) /\ Len(nodes) \in Nat
  BY LengthIs, LiveIs
<1>2. PICK id, ps, old, s : /\ id = Len(nodes) + 1 /\ ps = nodes[parent].clusters /\ old = SlotsIn(content, ps)
                            /\ s = SlotsIn(content', ps)
  OBVIOUS
<1>3. Len(nodes') = id /\ (\A n \in 1..Len(nodes) : nodes'[n] = nodes[n]) /\ nodes'[parent].clusters = ps
  BY <1>1, <1>2 DEF Made
<1>4. Parent(nodes', id) = parent /\ \A n \in 1..Len(nodes) : Parent(nodes', n) = Parent(nodes, n)
  BY <1>2, MadeParent
<1>5. Overwritten(old, new, at, s) /\ FreeSlots(old, at, Len(new)) /\ \A b \in 1..(at - 1) : ~FreeSlots(old, b, Len(new))
  BY <1>2, WrittenOver
<1>6. EndsTogether(old) /\ OneSlotEach(old) /\ DotsOnly(old) /\ Lists(nodes, parent, old)
  BY <1>2 DEF TreeInv, ListOk
<1>7. OneFile(new, id) /\ \A j \in 1..Len(new) : new[j].kind # "end"
  BY <1>2 DEF Made
<1>8. ASSUME NEW j \in 1..Len(old)
      PROVE  old[j].id # id /\ (old[j].id # 0 /\ nodes[old[j].id].live => ~old[j].deleted)
  <2>1. ps \in Seq(Clusters)
    BY <1>1, <1>2, NodeIs
  <2>2. PICK c \in Range(ps), i \in 1..SlotsPerCluster : old[j] = content[c][i] /\ SlotOk(c, content[c][i])
    BY ONLY VolumeInv, <1>2, <2>1, ListedIs, j \in 1..Len(old)
  <2>3. SlotOk(c, old[j])
    BY ONLY <2>2
  <2>4. old[j].id # 0 => old[j].id \in 2..Len(nodes)
    BY ONLY <2>3 DEF SlotOk, Names
  <2>5. old[j].id # 0 => (old[j].deleted => ~nodes[old[j].id].live)
    BY ONLY <2>3 DEF SlotOk, Marked
  <2> QED
    BY ONLY <1>1, <1>2, <2>4, <2>5
<1>9. EndsTogether(s)
  BY ONLY <1>5, <1>6, <1>7, EndsStayTogether
<1>10. OneSlotEach(s) /\ DotsOnly(s) /\ HasSlot(s, id) /\ KeptSlots(old, s)
  <2>1. id \in Nat /\ id # 0 /\ \A j \in 1..Len(old) : old[j].id # id
    BY ONLY <1>1, <1>2, <1>8
  <2> QED
    BY ONLY <1>5, <1>6, <1>7, <2>1, OneSlotStays
<1>11. Lists(nodes', parent, s)
  <2> SUFFICES ASSUME NEW n \in 2..Len(nodes'), nodes'[n].live, Parent(nodes', n) = parent
               PROVE  HasSlot(s, n)
    BY Zenon DEF Lists
  <2>1. CASE n = id
    BY ONLY <1>10, <2>1
  <2>2. CASE n # id
    <3>1. n \in 2..Len(nodes) /\ n \in 1..Len(nodes) /\ n # 0
      BY ONLY <1>1, <1>2, <1>3, <2>2, n \in 2..Len(nodes')
    <3>2. nodes[n].live /\ Parent(nodes, n) = parent
      BY <1>3, <1>4, <3>1
    <3>3. PICK j \in 1..Len(old) : old[j].kind = "file" /\ old[j].id = n
      BY ONLY <1>6, <3>1, <3>2 DEF Lists, HasSlot
    <3>4. ~old[j].deleted
      BY ONLY <1>8, <3>1, <3>2, <3>3
    <3> QED
      BY ONLY <1>10, <3>3, <3>4 DEF KeptSlots
  <2> QED
    BY <2>1, <2>2
<1> QED
  BY ONLY <1>2, <1>3, <1>9, <1>10, <1>11 DEF ListOk

LEMMA MakeTree ==
  ASSUME VolumeInv, TreeInv, NEW parent \in LiveDirectories, NEW dir \in BOOLEAN, NEW clusters \in Seq(Clusters),
         NEW noFatChain \in BOOLEAN, NEW names \in Nat, make(parent, dir, clusters, noFatChain, names),
         Injective(clusters), Range(clusters) \cap held = {}, dir => Len(clusters) = 1,
         dir /\ NoReuse => \A n \in 1..Len(nodes) : nodes[n].dir => Range(clusters) \cap Range(nodes[n].clusters) = {}
  PROVE  TreeInv'
<1>1. PICK new, at, filled, node : Made(parent, dir, clusters, new, at, filled, node)
  BY MadeIs
<1>2. /\ \A n \in 2..Len(nodes') : NodeIn(nodes', n)
      /\ \A n \in 1..Len(nodes') : Owns(nodes', kind', table', held', n)
      /\ \A m, n \in 1..Len(nodes') : m # n => Apart(nodes', m, n)
  BY <1>1, MadeNodes
<1>3. NoReuse => \A c \in Clusters : \A i \in 1..SlotsPerCluster : Dotted(nodes', c, content'[c][i])
  BY <1>1, MadeDots
<1>4. ASSUME kind' = "fat", NEW d \in LiveDirectories' PROVE ListOk(nodes', d, SlotsIn(content', nodes'[d].clusters))
  <2>1. kind = "fat" /\ Len(nodes') = Len(nodes) + 1 /\ nodes'[Len(nodes) + 1] = node /\ node.dir = dir /\ node.clusters = clusters
        /\ nodes' \in Seq(NodeType) /\ \A n \in 1..Len(nodes) : nodes'[n] = nodes[n]
    BY ONLY <1>1, <1>4, Zenon DEF Made
  <2>2. Len(nodes) \in Nat
    BY LengthIs
  <2>3. d \in DOMAIN nodes' /\ nodes'[d].dir /\ nodes'[d].live
    BY <1>4 DEF LiveDirectories
  <2>4. d \in 1..Len(nodes) \/ d = Len(nodes) + 1
    BY ONLY <2>1, <2>2, <2>3
  <2>5. CASE d \in 1..Len(nodes)
    <3>1. d \in LiveDirectories
      BY <2>1, <2>3, <2>5, LiveIs
    <3>2. CASE d = parent
      BY <1>1, <2>1, <3>2, ParentListIs
    <3>3. CASE d # parent
      BY <1>1, <2>1, <3>1, <3>3, OtherListKept
    <3> QED
      BY <3>2, <3>3
  <2>6. CASE d = Len(nodes) + 1
    <3>1. dir /\ nodes'[d].clusters = clusters
      BY ONLY <2>1, <2>3, <2>6
    <3>2. Len(clusters) = 1
      BY <3>1
    <3> QED
      BY <1>1, <1>2, <2>1, <2>6, <3>1, <3>2, NewListIs
  <2> QED
    BY <2>4, <2>5, <2>6
<1>5. nodes'[1].clusters[1] = kFirstCluster
  <2>1. \A n \in 1..Len(nodes) : nodes'[n] = nodes[n]
    BY ONLY <1>1, Zenon DEF Made
  <2>2. 1 \in 1..Len(nodes) /\ nodes[1].clusters[1] = kFirstCluster
    BY LengthIs DEF TreeInv
  <2> QED
    BY ONLY <2>1, <2>2
<1> QED
  BY ONLY <1>2, <1>3, <1>4, <1>5 DEF TreeInv, NoReuse

-----------------------------------------------------------------------------
(* What a host has done when it has given a directory another cluster. *)
Grown(d, c, grown) ==
  LET cs == nodes[d].clusters IN
  /\ d \in 1..Len(nodes) /\ nodes[d].live /\ nodes[d].dir /\ c \in Clusters /\ c \notin held
  /\ cs \in Seq(Clusters) /\ cs # <<>> /\ grown = Append(cs, c)
  /\ Len(nodes') = Len(nodes) /\ nodes'[d].clusters = grown
  /\ \A n \in 1..Len(nodes) :
       /\ nodes'[n].path = nodes[n].path /\ nodes'[n].dir = nodes[n].dir /\ nodes'[n].live = nodes[n].live
       /\ n # d => nodes'[n].clusters = nodes[n].clusters
  /\ table' = Chained(grown) /\ held' = held \cup {c} /\ kind' = kind
  /\ content'[c] = AllEnd /\ \A b \in Clusters : b # c => content'[b] = content[b]
  /\ kind = "fat" => Places(cs, 1) = {}
  /\ NoReuse => \A n \in 1..Len(nodes) : nodes[n].dir => c \notin Range(nodes[n].clusters)

LEMMA GrownIs ==
  ASSUME VolumeInv, growDirectory
  PROVE  \E d, c, grown : Grown(d, c, grown)
<1>1. PICK d \in LiveDirectories, c \in Clusters \ held :
        /\ nodes' = [nodes EXCEPT ![d].clusters = Append(nodes[d].clusters, c)]
        /\ table' = Chained(Append(nodes[d].clusters, c)) /\ held' = held \cup {c}
        /\ content' = [content EXCEPT ![c] = AllEnd] /\ kind' = kind
        /\ Places(nodes[d].clusters, IF kind = "fat" THEN 1 ELSE 2) = {}
        /\ "directory reuse" \in Habits \/ \A n \in DOMAIN nodes : nodes[n].dir => c \notin Range(nodes[n].clusters)
  BY Zenon DEF growDirectory
<1>2. d \in 1..Len(nodes) /\ nodes[d].dir /\ nodes[d].live /\ Len(nodes) \in Nat /\ Len(nodes) >= 1 /\ DOMAIN nodes = 1..Len(nodes)
  BY LengthIs, LiveIs
<1>3. nodes[d] \in NodeType /\ nodes[d].clusters \in Seq(Clusters) /\ nodes[d].clusters # <<>>
  BY <1>2, NodeIs DEF NodeOk
<1>4. PICK grown, x : grown = Append(nodes[d].clusters, c) /\ x = [nodes[d] EXCEPT !.clusters = grown]
  OBVIOUS
<1>5. x.path = nodes[d].path /\ x.dir = nodes[d].dir /\ x.live = nodes[d].live /\ x.clusters = grown
  BY ONLY <1>3, <1>4 DEF NodeType
<1>6. Len(nodes') = Len(nodes) /\ nodes'[d] = x /\ \A n \in 1..Len(nodes) : n # d => nodes'[n] = nodes[n]
  <2>1. nodes' = [nodes EXCEPT ![d] = x]
    BY ONLY <1>1, <1>4
  <2>2. nodes \in Seq(NodeType)
    BY DEF VolumeInv, VolumeType
  <2> QED
    BY ONLY <1>2, <2>1, <2>2
<1>7. \A n \in 1..Len(nodes) :
        /\ nodes'[n].path = nodes[n].path /\ nodes'[n].dir = nodes[n].dir /\ nodes'[n].live = nodes[n].live
        /\ n # d => nodes'[n].clusters = nodes[n].clusters
  BY ONLY <1>5, <1>6
<1>8. content'[c] = AllEnd /\ \A b \in Clusters : b # c => content'[b] = content[b]
  <2>1. DOMAIN content = Clusters
    BY DEF VolumeInv, VolumeType
  <2> QED
    BY <1>1, <2>1
<1>9. kind = "fat" => Places(nodes[d].clusters, 1) = {}
  BY ONLY <1>1
<1>10. NoReuse => \A n \in 1..Len(nodes) : nodes[n].dir => c \notin Range(nodes[n].clusters)
  BY ONLY <1>1, <1>2 DEF NoReuse
<1>11. c \in Clusters /\ c \notin held /\ nodes'[d].clusters = grown
  BY ONLY <1>1, <1>5, <1>6
<1>12. table' = Chained(grown) /\ held' = held \cup {c} /\ kind' = kind
  BY ONLY <1>1, <1>4
<1>13. grown = Append(nodes[d].clusters, c) /\ Len(nodes') = Len(nodes)
  BY ONLY <1>4, <1>6
<1>14. Grown(d, c, grown)
  BY ONLY <1>2, <1>3, <1>7, <1>8, <1>9, <1>10, <1>11, <1>12, <1>13, Zenon DEF Grown
<1> QED
  BY ONLY <1>14

LEMMA GrownChain ==
  ASSUME TreeInv, NEW d, NEW c, NEW grown, Grown(d, c, grown)
  PROVE  LET cs == nodes[d].clusters IN
         /\ grown \in Seq(Clusters) /\ Len(grown) = Len(cs) + 1 /\ Len(cs) \in Nat /\ Len(cs) >= 1
         /\ grown[Len(cs) + 1] = c /\ (\A k \in 1..Len(cs) : grown[k] = cs[k])
         /\ Range(grown) = Range(cs) \cup {c} /\ Injective(grown)
<1>1. PICK cs : cs = nodes[d].clusters
  OBVIOUS
<1>2. cs \in Seq(Clusters) /\ cs # <<>> /\ grown = Append(cs, c) /\ c \in Clusters /\ c \notin held
      /\ d \in 1..Len(nodes) /\ nodes[d].live
  BY <1>1 DEF Grown
<1>3. /\ grown \in Seq(Clusters) /\ Len(grown) = Len(cs) + 1 /\ Len(cs) \in Nat /\ Len(cs) >= 1
      /\ grown[Len(cs) + 1] = c /\ (\A k \in 1..Len(cs) : grown[k] = cs[k])
  BY ONLY <1>2
<1>4. Range(cs) \subseteq held /\ Injective(cs)
  BY <1>1, <1>2 DEF TreeInv, Owns
<1>5. \A k \in 1..Len(grown) : k \in 1..Len(cs) \/ k = Len(cs) + 1
  BY ONLY <1>3
<1>6. ASSUME NEW x PROVE x \in Range(grown) <=> x \in Range(cs) \cup {c}
  <2>1. x \in Range(grown) <=> \E i \in 1..Len(grown) : grown[i] = x
    BY ONLY <1>3, RangeIs
  <2>2. x \in Range(cs) <=> \E i \in 1..Len(cs) : cs[i] = x
    BY ONLY <1>2, RangeIs
  <2>3. (\E i \in 1..Len(grown) : grown[i] = x) <=> (\E i \in 1..Len(cs) : cs[i] = x) \/ x = c
    BY ONLY <1>3, <1>5
  <2> QED
    BY ONLY <2>1, <2>2, <2>3
<1>7. \A k \in 1..Len(cs) : cs[k] # c
  <2>1. \A k \in 1..Len(cs) : cs[k] \in Range(cs)
    BY ONLY <1>2, RangeIs
  <2> QED
    BY ONLY <1>2, <1>4, <2>1
<1>8. Injective(grown)
  BY ONLY <1>3, <1>4, <1>5, <1>7 DEF Injective
<1>9. Range(grown) = Range(cs) \cup {c}
  BY ONLY <1>6
<1> QED
  BY ONLY <1>1, <1>3, <1>8, <1>9

LEMMA GrownNodes ==
  ASSUME VolumeInv, TreeInv, NEW d, NEW c, NEW grown, Grown(d, c, grown)
  PROVE  /\ \A n \in 1..Len(nodes) : Parent(nodes', n) = Parent(nodes, n)
         /\ \A n \in 2..Len(nodes') : NodeIn(nodes', n)
         /\ \A n \in 1..Len(nodes') : Owns(nodes', kind', table', held', n)
         /\ \A m, n \in 1..Len(nodes') : m # n => Apart(nodes', m, n)
<1>1. /\ Len(nodes') = Len(nodes) /\ Len(nodes) \in Nat /\ d \in 1..Len(nodes) /\ nodes[d].live /\ nodes[d].dir
      /\ c \in Clusters /\ c \notin held /\ held' = held \cup {c} /\ kind' = kind /\ table' = Chained(grown)
      /\ nodes'[d].clusters = grown
      /\ NoReuse => \A n \in 1..Len(nodes) : nodes[n].dir => c \notin Range(nodes[n].clusters)
  BY LengthIs, Zenon DEF Grown
<1>2. \A n \in 1..Len(nodes) :
        /\ nodes'[n].path = nodes[n].path /\ nodes'[n].dir = nodes[n].dir /\ nodes'[n].live = nodes[n].live
        /\ n # d => nodes'[n].clusters = nodes[n].clusters
  BY Zenon DEF Grown
<1>3. grown \in Seq(Clusters) /\ Range(grown) = Range(nodes[d].clusters) \cup {c} /\ Injective(grown)
  BY GrownChain
<1>4. \A n \in 1..Len(nodes) : Parent(nodes', n) = Parent(nodes, n)
  BY ONLY <1>2 DEF Parent
<1>5. ASSUME NEW n \in 2..Len(nodes') PROVE NodeIn(nodes', n)
  <2>1. n \in 2..Len(nodes) /\ n \in 1..Len(nodes)
    BY <1>1
  <2>2. NodeIn(nodes, n)
    BY <2>1 DEF TreeInv
  <2>3. Parent(nodes, n) \in 1..Len(nodes)
    BY ONLY <1>1, <2>1, <2>2 DEF NodeIn
  <2> QED
    BY ONLY <1>2, <1>4, <2>1, <2>2, <2>3 DEF NodeIn
<1>6. ASSUME NEW n \in 1..Len(nodes), n # d, nodes[n].live
      PROVE  Range(nodes[n].clusters) \cap Range(grown) = {}
  <2>1. Owns(nodes, kind, table, held, n) /\ Apart(nodes, n, d)
    BY <1>1, <1>6 DEF TreeInv
  <2>2. Range(nodes[n].clusters) \subseteq held /\ Range(nodes[n].clusters) \cap Range(nodes[d].clusters) = {}
    BY ONLY <1>1, <1>6, <2>1 DEF Owns, Apart
  <2> QED
    BY ONLY <1>1, <1>3, <2>2
<1>7. ASSUME NEW n \in 1..Len(nodes') PROVE Owns(nodes', kind', table', held', n)
  <2>1. n \in 1..Len(nodes) /\ Owns(nodes, kind, table, held, n)
    BY <1>1 DEF TreeInv
  <2>2. CASE n = d
    <3>1. Linked(Chained(grown), grown)
      BY ONLY <1>3, ChainedLinks
    <3>2. Range(grown) \subseteq held'
      BY ONLY <1>1, <1>3, <2>1, <2>2 DEF Owns
    <3> QED
      BY ONLY <1>1, <1>3, <2>2, <3>1, <3>2 DEF Owns
  <2>3. CASE n # d /\ nodes[n].live
    <3>1. nodes[n].clusters \in Seq(Clusters)
      BY <2>1, NodeIs
    <3>2. Range(nodes[n].clusters) \cap Range(grown) = {}
      BY ONLY <1>6, <2>1, <2>3
    <3>3. \A b \in Clusters : b \notin Range(grown) => table'[b] = table[b]
      BY ONLY <1>1, <1>3, ChainedLinks
    <3>4. kind = "fat" => Linked(table', nodes[n].clusters)
      <4>1. kind = "fat" => Linked(table, nodes[n].clusters)
        BY ONLY <2>1, <2>3 DEF Owns
      <4> QED
        BY ONLY <3>1, <3>2, <3>3, <4>1, LinkedElsewhere
    <3> QED
      BY ONLY <1>1, <1>2, <2>1, <2>3, <3>4 DEF Owns
  <2>4. CASE n # d /\ ~nodes[n].live
    BY ONLY <1>2, <2>1, <2>4 DEF Owns
  <2> QED
    BY <2>2, <2>3, <2>4
<1>8. ASSUME NEW n \in 1..Len(nodes), n # d PROVE Apart(nodes', d, n) /\ Apart(nodes', n, d)
  <2>1. Apart(nodes, n, d)
    BY <1>1, <1>8 DEF TreeInv
  <2>2. NoReuse /\ nodes[n].dir => Range(nodes[n].clusters) \cap Range(grown) = {}
    BY ONLY <1>1, <1>3, <2>1, n \in 1..Len(nodes) DEF Apart
  <2>3. nodes[n].live => Range(nodes[n].clusters) \cap Range(grown) = {}
    BY ONLY <1>6, <1>8, n \in 1..Len(nodes)
  <2>4. nodes'[n].dir = nodes[n].dir /\ nodes'[n].live = nodes[n].live /\ nodes'[n].clusters = nodes[n].clusters
    BY ONLY <1>2, <1>8, n \in 1..Len(nodes)
  <2> QED
    BY ONLY <1>1, <2>2, <2>3, <2>4 DEF Apart
<1>9. ASSUME NEW m \in 1..Len(nodes'), NEW n \in 1..Len(nodes'), m # n PROVE Apart(nodes', m, n)
  <2>1. m \in 1..Len(nodes) /\ n \in 1..Len(nodes)
    BY <1>1
  <2>2. CASE m # d /\ n # d
    <3>1. Apart(nodes, m, n)
      BY <1>9, <2>1 DEF TreeInv
    <3> QED
      BY ONLY <1>2, <2>1, <2>2, <3>1 DEF Apart
  <2> QED
    BY ONLY <1>8, <1>9, <2>1, <2>2
<1> QED
  BY ONLY <1>4, <1>5, <1>7, <1>9

LEMMA GrownDots ==
  ASSUME VolumeInv, TreeInv, NoReuse, NEW d, NEW c, NEW grown, Grown(d, c, grown),
         NEW b \in Clusters, NEW i \in 1..SlotsPerCluster
  PROVE  Dotted(nodes', b, content'[b][i])
<1>1. /\ Len(nodes') = Len(nodes) /\ Len(nodes) \in Nat /\ d \in 1..Len(nodes)
      /\ content'[c] = AllEnd /\ (b # c => content'[b] = content[b]) /\ nodes'[d].clusters = grown
  BY LengthIs, Zenon DEF Grown
<1>2. CASE b = c
  <2>1. content'[b][i].kind = "end"
    BY ONLY <1>1, <1>2, EndIs, i \in 1..SlotsPerCluster
  <2> QED
    BY ONLY <2>1 DEF Dotted
<1>3. CASE b # c
  <2>1. Dotted(nodes, b, content'[b][i])
    BY <1>1, <1>3 DEF TreeInv
  <2>2. \A n \in 1..Len(nodes) : nodes[n].dir => nodes'[n].dir /\ nodes'[n].clusters[1] = nodes[n].clusters[1]
    <3>1. \A n \in 1..Len(nodes) : nodes'[n].dir = nodes[n].dir /\ (n # d => nodes'[n].clusters = nodes[n].clusters)
      BY Zenon DEF Grown
    <3>2. grown[1] = nodes[d].clusters[1]
      <4>1. 1 \in 1..Len(nodes[d].clusters) /\ \A k \in 1..Len(nodes[d].clusters) : grown[k] = nodes[d].clusters[k]
        BY GrownChain
      <4> QED
        BY ONLY <4>1
    <3> QED
      BY ONLY <1>1, <3>1, <3>2
  <2>3. \A n \in 2..Len(nodes) : NodeIn(nodes, n) /\ Parent(nodes', n) = Parent(nodes, n)
    <3>1. \A n \in 2..Len(nodes) : n \in 1..Len(nodes)
      BY ONLY <1>1
    <3>2. \A n \in 2..Len(nodes) : NodeIn(nodes, n)
      BY DEF TreeInv
    <3>3. \A n \in 1..Len(nodes) : Parent(nodes', n) = Parent(nodes, n)
      BY GrownNodes
    <3> QED
      BY ONLY <3>1, <3>2, <3>3
  <2>4. Len(nodes') \in Nat /\ Len(nodes) <= Len(nodes')
    BY ONLY <1>1
  <2> QED
    BY ONLY <1>1, <2>1, <2>2, <2>3, <2>4, DotsCarry
<1> QED
  BY <1>2, <1>3

(* A list with free slots added at its end. *)
Extended(old, s) ==
  /\ Len(old) \in Nat /\ Len(s) \in Nat /\ Len(old) <= Len(s)
  /\ \A j \in 1..Len(old) : s[j] = old[j] /\ old[j].kind # "end"
  /\ \A j \in (Len(old) + 1)..Len(s) : s[j].kind = "end" /\ s[j].id = 0

LEMMA ExtendedOk ==
  ASSUME NEW old, NEW s, Extended(old, s), OneSlotEach(old), DotsOnly(old)
  PROVE  EndsTogether(s) /\ OneSlotEach(s) /\ DotsOnly(s) /\ \A n : HasSlot(old, n) => HasSlot(s, n)
<1>1. PICK K, L : K = Len(old) /\ L = Len(s)
  OBVIOUS
<1>2. K \in Nat /\ L \in Nat /\ K <= L
  BY <1>1 DEF Extended
<1>3. \A j \in 1..L : (j \in 1..K /\ s[j] = old[j] /\ s[j].kind # "end") \/ (j > K /\ s[j].kind = "end" /\ s[j].id = 0)
  <2>1. \A j \in 1..L : j \in 1..K \/ (j \in (K + 1)..L /\ j > K)
    BY ONLY <1>2
  <2>2. \A j \in 1..K : s[j] = old[j] /\ s[j].kind # "end"
    BY <1>1 DEF Extended
  <2>3. \A j \in (K + 1)..L : s[j].kind = "end" /\ s[j].id = 0
    BY <1>1 DEF Extended
  <2> QED
    BY ONLY <2>1, <2>2, <2>3
<1>4. EndsTogether(s)
  <2>1. ASSUME NEW j \in 1..L, NEW k \in 1..L, j < k, s[j].kind = "end" PROVE s[k].kind = "end"
    <3>1. j > K
      BY ONLY <1>3, <2>1
    <3>2. k > K /\ ~(k \in 1..K)
      BY ONLY <1>2, <2>1, <3>1
    <3> QED
      BY ONLY <1>3, <3>2, k \in 1..L
  <2> QED
    BY ONLY <1>1, <2>1 DEF EndsTogether
<1>5. OneSlotEach(s)
  BY ONLY <1>1, <1>3, OneSlotEach(old) DEF OneSlotEach
<1>6. DotsOnly(s)
  BY ONLY <1>1, <1>3, DotsOnly(old) DEF DotsOnly
<1>7. \A j \in 1..K : j \in 1..L /\ s[j] = old[j]
  <2>1. \A j \in 1..K : j \in 1..L /\ ~(j > K)
    BY ONLY <1>2
  <2> QED
    BY ONLY <1>3, <2>1
<1>8. \A n : HasSlot(old, n) => HasSlot(s, n)
  BY ONLY <1>1, <1>7 DEF HasSlot
<1> QED
  BY ONLY <1>4, <1>5, <1>6, <1>8

LEMMA GrownList ==
  ASSUME VolumeInv, TreeInv, NEW d, NEW c, NEW grown, Grown(d, c, grown), kind = "fat"
  PROVE  Extended(SlotsIn(content, nodes[d].clusters), SlotsIn(content', grown))
<1>1. PICK cs, S, K, L, old, s :
        /\ cs = nodes[d].clusters /\ S = SlotsPerCluster /\ K = Len(cs) * S /\ L = Len(grown) * S
        /\ old = SlotsIn(content, cs) /\ s = SlotsIn(content', grown)
  OBVIOUS
<1>2. /\ grown \in Seq(Clusters) /\ Len(grown) = Len(cs) + 1 /\ Len(cs) \in Nat
      /\ grown[Len(cs) + 1] = c /\ (\A k \in 1..Len(cs) : grown[k] = cs[k])
  BY ONLY <1>1, TreeInv, Grown(d, c, grown), GrownChain
<1>3. /\ cs \in Seq(Clusters) /\ c \in Clusters /\ c \notin held /\ content'[c] = AllEnd
      /\ (\A b \in Clusters : b # c => content'[b] = content[b]) /\ Places(cs, 1) = {}
  BY <1>1, Zenon DEF Grown
<1>4. S \in Nat /\ Len(old) = K /\ K \in Nat /\ Len(s) = L /\ L \in Nat
  BY <1>1, <1>2, <1>3, ListIs, GeometryIs
<1>5. L = K + S
  <2>1. (Len(cs) + 1) * S = Len(cs) * S + 1 * S /\ 1 * S = S
    BY ONLY <1>2, <1>4
  <2> QED
    BY ONLY <1>1, <1>2, <2>1
<1>6. ASSUME NEW j \in 1..L
      PROVE  (j \in 1..K /\ s[j] = old[j]) \/ (~(j \in 1..K) /\ s[j].kind = "end" /\ s[j].id = 0)
  <2>1. PICK k \in 1..Len(grown), i \in 1..SlotsPerCluster : AtPlace(content', grown, j, k, i)
    BY ONLY <1>1, <1>2, PlaceIs, j \in 1..L
  <2>2. j = (k - 1) * SlotsPerCluster + i /\ s[j] = content'[grown[k]][i]
    BY ONLY <1>1, <2>1 DEF AtPlace
  <2>3. CASE k \in 1..Len(cs)
    <3>1. j \in 1..K /\ old[j] = content[cs[k]][i]
      BY ONLY <1>1, <1>3, <2>2, <2>3, SlotHasPlace, i \in 1..SlotsPerCluster
    <3>2. cs[k] \in Clusters /\ cs[k] # c
      <4>1. Range(cs) \subseteq held
        <5>1. d \in 1..Len(nodes) /\ nodes[d].live
          BY DEF Grown
        <5> QED
          BY <1>1, <5>1 DEF TreeInv, Owns
      <4>2. cs[k] \in Range(cs)
        BY ONLY <1>3, <2>3, RangeIs
      <4> QED
        BY ONLY <1>3, <2>3, <4>1, <4>2
    <3>3. content'[grown[k]] = content[cs[k]]
      BY ONLY <1>2, <1>3, <2>3, <3>2
    <3> QED
      BY ONLY <2>2, <3>1, <3>3
  <2>4. CASE k = Len(cs) + 1
    <3>1. s[j] = End
      BY ONLY <1>2, <1>3, <2>2, <2>4, EndIs, i \in 1..SlotsPerCluster
    <3>2. k - 1 = Len(cs)
      BY ONLY <1>2, <2>4
    <3>3. j = K + i /\ i \in Nat /\ i >= 1
      <4>1. (k - 1) * SlotsPerCluster = K
        BY ONLY <1>1, <3>2, Zenon
      <4>2. i \in 1..S
        BY ONLY <1>1, i \in 1..SlotsPerCluster
      <4> QED
        BY ONLY <1>4, <2>2, <4>1, <4>2
    <3>4. ~(j \in 1..K)
      BY ONLY <1>4, <3>3
    <3> QED
      BY ONLY <3>1, <3>4, EndIs DEF Anonymous
  <2> QED
    BY ONLY <1>2, <2>3, <2>4, k \in 1..Len(grown)
<1>7. ASSUME NEW j \in 1..K PROVE old[j].kind # "end"
  <2>1. ~Fits(cs, 1, j)
    BY ONLY <1>1, <1>3, j \in 1..K DEF Places
  <2>2. SlotsOf(cs) = old
    BY ONLY <1>1, SlotsInContent
  <2>3. j + 1 - 1 = j /\ j <= K /\ j..j = {j}
    BY ONLY <1>4, j \in 1..K
  <2> QED
    BY ONLY <1>4, <2>1, <2>2, <2>3 DEF Fits
<1>8. ASSUME NEW j \in 1..K PROVE s[j] = old[j]
  <2>1. j \in 1..L
    BY ONLY <1>4, <1>5, j \in 1..K
  <2> QED
    BY ONLY <1>6, <2>1, j \in 1..K
<1>9. ASSUME NEW j \in (K + 1)..L PROVE s[j].kind = "end" /\ s[j].id = 0
  <2>1. j \in 1..L /\ ~(j \in 1..K)
    BY ONLY <1>4, <1>5, j \in (K + 1)..L
  <2> QED
    BY ONLY <1>6, <2>1
<1>10. Extended(old, s)
  <2>1. K <= L
    BY ONLY <1>4, <1>5
  <2> QED
    BY ONLY <1>4, <1>7, <1>8, <1>9, <2>1 DEF Extended
<1> QED
  BY ONLY <1>1, <1>10

(* Enough for a directory's list to stay in order: its slots are what they were, and no
   node has come to it. *)
LEMMA SameListOk ==
  ASSUME NEW ns, NEW ms, NEW d, NEW s, NEW t, ListOk(ns, d, s), Len(ms) = Len(ns), s = t,
         \A n \in 2..Len(ns) : ms[n].live /\ Parent(ms, n) = d => ns[n].live /\ Parent(ns, n) = d
  PROVE  ListOk(ms, d, t)
BY DEF ListOk, Lists

LEMMA GrowTree ==
  ASSUME VolumeInv, TreeInv, growDirectory
  PROVE  TreeInv'
<1>1. PICK d, c, grown : Grown(d, c, grown)
  BY GrownIs
<1>2. /\ \A n \in 1..Len(nodes) : Parent(nodes', n) = Parent(nodes, n)
      /\ \A n \in 2..Len(nodes') : NodeIn(nodes', n)
      /\ \A n \in 1..Len(nodes') : Owns(nodes', kind', table', held', n)
      /\ \A m, n \in 1..Len(nodes') : m # n => Apart(nodes', m, n)
  BY <1>1, GrownNodes
<1>3. NoReuse => \A b \in Clusters : \A i \in 1..SlotsPerCluster : Dotted(nodes', b, content'[b][i])
  BY <1>1, GrownDots
<1>4. /\ Len(nodes') = Len(nodes) /\ Len(nodes) \in Nat /\ kind' = kind /\ c \in Clusters /\ c \notin held
      /\ d \in 1..Len(nodes) /\ nodes[d].dir /\ nodes[d].live /\ nodes'[d].clusters = grown
      /\ (\A b \in Clusters : b # c => content'[b] = content[b])
  BY <1>1, LengthIs, Zenon DEF Grown
<1>5. \A n \in 1..Len(nodes) :
        /\ nodes'[n].dir = nodes[n].dir /\ nodes'[n].live = nodes[n].live
        /\ n # d => nodes'[n].clusters = nodes[n].clusters
  BY <1>1, Zenon DEF Grown
<1>6. \A n \in 2..Len(nodes) : nodes'[n].live = nodes[n].live /\ Parent(nodes', n) = Parent(nodes, n)
  <2>1. \A n \in 2..Len(nodes) : n \in 1..Len(nodes)
    BY ONLY <1>4
  <2> QED
    BY ONLY <1>2, <1>5, <2>1
<1>7. ASSUME kind' = "fat", NEW e \in LiveDirectories' PROVE ListOk(nodes', e, SlotsIn(content', nodes'[e].clusters))
  <2>1. e \in 1..Len(nodes) /\ nodes[e].live /\ nodes[e].dir /\ kind = "fat"
    <3>1. VolumeInv'
      BY GrowKeeps
    <3>2. e \in DOMAIN nodes' /\ nodes'[e].dir /\ nodes'[e].live /\ DOMAIN nodes' = 1..Len(nodes')
      BY <3>1 DEF LiveDirectories, VolumeInv, VolumeType
    <3> QED
      BY ONLY <1>4, <1>5, <1>7, <3>2
  <2>2. ListOk(nodes, e, SlotsIn(content, nodes[e].clusters))
    <3>1. e \in LiveDirectories
      BY <2>1, LiveIs
    <3> QED
      BY <2>1, <3>1 DEF TreeInv
  <2>3. CASE e = d
    <3>1. PICK old, s : old = SlotsIn(content, nodes[d].clusters) /\ s = SlotsIn(content', grown)
      OBVIOUS
    <3>2. Extended(old, s)
      BY <1>1, <2>1, <3>1, GrownList
    <3>3. OneSlotEach(old) /\ DotsOnly(old) /\ Lists(nodes, d, old)
      BY ONLY <2>2, <2>3, <3>1 DEF ListOk
    <3>4. EndsTogether(s) /\ OneSlotEach(s) /\ DotsOnly(s) /\ \A n : HasSlot(old, n) => HasSlot(s, n)
      BY ONLY <3>2, <3>3, ExtendedOk
    <3>5. Lists(nodes', d, s)
      BY ONLY <1>4, <1>6, <3>3, <3>4 DEF Lists
    <3> QED
      BY ONLY <1>4, <2>3, <3>1, <3>4, <3>5 DEF ListOk
  <2>4. CASE e # d
    <3>1. PICK cs : cs = nodes[e].clusters
      OBVIOUS
    <3>2. cs \in Seq(Clusters) /\ Range(cs) \subseteq held /\ nodes'[e].clusters = cs
      <4>1. cs \in Seq(Clusters)
        BY <2>1, <3>1, NodeIs
      <4>2. Range(cs) \subseteq held
        BY <2>1, <3>1 DEF TreeInv, Owns
      <4> QED
        BY ONLY <1>5, <2>1, <2>4, <3>1, <4>1, <4>2
    <3>3. ASSUME NEW k \in 1..Len(cs) PROVE content'[cs[k]] = content[cs[k]]
      <4>1. cs[k] \in Clusters /\ cs[k] \in Range(cs)
        BY ONLY <3>2, RangeIs, k \in 1..Len(cs)
      <4> QED
        BY ONLY <1>4, <3>2, <4>1
    <3>4. SlotsIn(content', cs) = SlotsIn(content, cs)
      BY ONLY <3>2, <3>3, SameSlots
    <3> QED
      BY ONLY <1>4, <1>6, <2>2, <3>1, <3>2, <3>4, SameListOk
  <2> QED
    BY <2>3, <2>4
<1>8. nodes'[1].clusters[1] = kFirstCluster
  <2>1. 1 \in 1..Len(nodes) /\ nodes[1].clusters[1] = kFirstCluster
    BY LengthIs DEF TreeInv
  <2>2. 1 \in 1..Len(nodes[d].clusters) /\ \A k \in 1..Len(nodes[d].clusters) : grown[k] = nodes[d].clusters[k]
    BY <1>1, GrownChain
  <2> QED
    BY ONLY <1>4, <1>5, <2>1, <2>2
<1> QED
  BY ONLY <1>2, <1>3, <1>7, <1>8 DEF TreeInv, NoReuse

-----------------------------------------------------------------------------
(* What a host has done when it has removed a node. *)
Removed(n) ==
  /\ n \in 2..Len(nodes) /\ nodes[n].live /\ Len(nodes') = Len(nodes) /\ kind' = kind
  /\ \A m \in 1..Len(nodes) : nodes[m].live /\ m # n => n \notin Range(nodes[m].path)
  /\ ~nodes'[n].live
  /\ \A m \in 1..Len(nodes) :
       /\ nodes'[m].path = nodes[m].path /\ nodes'[m].dir = nodes[m].dir /\ nodes'[m].clusters = nodes[m].clusters
       /\ m # n => nodes'[m].live = nodes[m].live
  /\ \A c \in Clusters : c \notin Range(nodes[n].clusters) => table'[c] = table[c]
  /\ held' = held \ Range(nodes[n].clusters)
  /\ \A c \in Clusters : \A i \in 1..SlotsPerCluster :
       LET s == content[c][i]
           t == content'[c][i]
       IN /\ t.kind = s.kind /\ t.id = s.id /\ t.dir = s.dir /\ t.cluster = s.cluster
          /\ s.id # n => t = s

LEMMA RemovedIs ==
  ASSUME VolumeInv, remove
  PROVE  \E n : Removed(n)
<1>1. PICK n \in 2..Len(nodes), wipe \in BOOLEAN :
        /\ nodes' = [nodes EXCEPT ![n].live = FALSE] /\ kind' = kind /\ nodes[n].live
        /\ \A m \in DOMAIN nodes : nodes[m].live /\ m # n => n \notin Range(nodes[m].path)
        /\ table' = [c \in Clusters |-> IF wipe /\ c \in Range(nodes[n].clusters) THEN Free ELSE table[c]]
        /\ held' = held \ Range(nodes[n].clusters)
        /\ content' = [c \in Clusters |->
             IF c \notin Range(nodes[ParentOf(n)].clusters) THEN content[c]
             ELSE [i \in 1..SlotsPerCluster |->
                     IF content[c][i].kind # "end" /\ content[c][i].id = n
                     THEN [content[c][i] EXCEPT !.deleted = TRUE] ELSE content[c][i]]]
  BY Zenon DEF remove, ParentOf
<1>2. n \in 1..Len(nodes) /\ n # 1 /\ Len(nodes) \in Nat /\ DOMAIN nodes = 1..Len(nodes)
  BY LengthIs
<1>3. nodes \in Seq(NodeType) /\ nodes[n] \in NodeType
  BY <1>2, NodeIs DEF VolumeInv, VolumeType
<1>4. PICK gone : gone = [nodes[n] EXCEPT !.live = FALSE]
  OBVIOUS
<1>5. gone.path = nodes[n].path /\ gone.dir = nodes[n].dir /\ gone.clusters = nodes[n].clusters /\ ~gone.live
  BY ONLY <1>3, <1>4 DEF NodeType
<1>6. Len(nodes') = Len(nodes) /\ nodes'[n] = gone /\ \A m \in 1..Len(nodes) : m # n => nodes'[m] = nodes[m]
  <2>1. nodes' = [nodes EXCEPT ![n] = gone]
    BY ONLY <1>1, <1>4
  <2> QED
    BY ONLY <1>2, <1>3, <2>1
<1>7. \A m \in 1..Len(nodes) :
       /\ nodes'[m].path = nodes[m].path /\ nodes'[m].dir = nodes[m].dir /\ nodes'[m].clusters = nodes[m].clusters
       /\ m # n => nodes'[m].live = nodes[m].live
  BY ONLY <1>5, <1>6
<1>8. \A c \in Clusters : c \notin Range(nodes[n].clusters) => table'[c] = table[c]
  BY ONLY <1>1
<1>9. ASSUME NEW c \in Clusters, NEW i \in 1..SlotsPerCluster, NEW s, NEW t, s = content[c][i], t = content'[c][i]
      PROVE  t.kind = s.kind /\ t.id = s.id /\ t.dir = s.dir /\ t.cluster = s.cluster /\ (s.id # n => t = s)
  <2>1. s \in SlotType
    BY <1>9 DEF VolumeInv, VolumeType
  <2>2. t = IF c \in Range(nodes[ParentOf(n)].clusters) /\ s.kind # "end" /\ s.id = n
            THEN [s EXCEPT !.deleted = TRUE] ELSE s
    BY ONLY <1>1, <1>9, c \in Clusters, i \in 1..SlotsPerCluster
  <2>3. PICK u : u = [s EXCEPT !.deleted = TRUE]
    OBVIOUS
  <2>4. u.kind = s.kind /\ u.id = s.id /\ u.dir = s.dir /\ u.cluster = s.cluster
    BY ONLY <2>1, <2>3, WithDeleted
  <2> QED
    BY ONLY <2>2, <2>3, <2>4
<1>10. ~nodes'[n].live /\ n \in 2..Len(nodes) /\ nodes[n].live /\ kind' = kind /\ held' = held \ Range(nodes[n].clusters)
       /\ \A m \in 1..Len(nodes) : nodes[m].live /\ m # n => n \notin Range(nodes[m].path)
  BY ONLY <1>1, <1>2, <1>5, <1>6
<1>11. \A c \in Clusters : \A i \in 1..SlotsPerCluster :
         LET s == content[c][i]
             t == content'[c][i]
         IN /\ t.kind = s.kind /\ t.id = s.id /\ t.dir = s.dir /\ t.cluster = s.cluster
            /\ s.id # n => t = s
  BY ONLY <1>9
<1>12. Removed(n)
  BY ONLY <1>6, <1>7, <1>8, <1>10, <1>11, Zenon DEF Removed
<1> QED
  BY ONLY <1>12

LEMMA RemovedNodes ==
  ASSUME VolumeInv, TreeInv, NEW n, Removed(n)
  PROVE  /\ \A m \in 1..Len(nodes) : Parent(nodes', m) = Parent(nodes, m)
         /\ \A m \in 2..Len(nodes') : NodeIn(nodes', m)
         /\ \A m \in 1..Len(nodes') : Owns(nodes', kind', table', held', m)
         /\ \A l, m \in 1..Len(nodes') : l # m => Apart(nodes', l, m)
<1>1. /\ Len(nodes') = Len(nodes) /\ Len(nodes) \in Nat /\ n \in 2..Len(nodes) /\ n \in 1..Len(nodes) /\ nodes[n].live
      /\ ~nodes'[n].live /\ kind' = kind /\ held' = held \ Range(nodes[n].clusters)
  <2>1. Len(nodes) \in Nat
    BY LengthIs
  <2>2. /\ Len(nodes') = Len(nodes) /\ n \in 2..Len(nodes) /\ nodes[n].live
        /\ ~nodes'[n].live /\ kind' = kind /\ held' = held \ Range(nodes[n].clusters)
    BY Zenon DEF Removed
  <2>3. n \in 1..Len(nodes)
    BY ONLY <2>1, <2>2
  <2> QED
    BY ONLY <2>1, <2>2, <2>3
<1>2. \A m \in 1..Len(nodes) :
       /\ nodes'[m].path = nodes[m].path /\ nodes'[m].dir = nodes[m].dir /\ nodes'[m].clusters = nodes[m].clusters
       /\ m # n => nodes'[m].live = nodes[m].live
  BY Zenon DEF Removed
<1>3. \A m \in 1..Len(nodes) : Parent(nodes', m) = Parent(nodes, m)
  BY ONLY <1>2 DEF Parent
<1>4. ASSUME NEW m \in 2..Len(nodes') PROVE NodeIn(nodes', m)
  <2>1. m \in 2..Len(nodes) /\ m \in 1..Len(nodes)
    BY <1>1
  <2>2. PICK p : p = Parent(nodes, m)
    OBVIOUS
  <2>3. p \in 1..(m - 1) /\ nodes[p].dir /\ nodes[m].path = Append(nodes[p].path, m) /\ (nodes[m].live => nodes[p].live)
    BY <2>1, <2>2 DEF TreeInv, NodeIn
  <2>4. p \in 1..Len(nodes) /\ p # m
    BY ONLY <1>1, <2>1, <2>3
  <2>5. nodes'[m].live => nodes'[p].live
    <3>1. CASE p = n /\ nodes'[m].live
      <4>1. m # n /\ nodes[m].live
        BY ONLY <1>1, <1>2, <2>1, <2>4, <3>1
      <4>2. n \notin Range(nodes[m].path)
        BY ONLY <2>1, <4>1, Removed(n), Zenon DEF Removed
      <4>3. n \in Range(nodes[m].path)
        <5>1. nodes[p].path \in Seq(Nat) /\ NodeOk(p)
          BY <2>4, NodeIs
        <5>2. Len(nodes[p].path) >= 1 /\ nodes[p].path[Len(nodes[p].path)] = n
          BY ONLY <1>1, <3>1, <5>1 DEF NodeOk
        <5>3. PICK k : k = Len(nodes[p].path)
          OBVIOUS
        <5>4. k \in 1..Len(nodes[m].path) /\ nodes[m].path[k] = n
          BY ONLY <2>1, <2>3, <5>1, <5>2, <5>3
        <5>5. nodes[m].path \in Seq(Nat)
          BY <2>1, NodeIs
        <5> QED
          BY ONLY <5>4, <5>5, RangeIs
      <4> QED
        BY ONLY <4>2, <4>3
    <3>2. CASE p # n /\ nodes'[m].live
      BY ONLY <1>1, <1>2, <2>1, <2>3, <2>4, <3>2
    <3> QED
      BY ONLY <3>1, <3>2
  <2> QED
    BY ONLY <1>2, <1>3, <2>1, <2>2, <2>3, <2>4, <2>5 DEF NodeIn
<1>5. ASSUME NEW m \in 1..Len(nodes') PROVE Owns(nodes', kind', table', held', m)
  <2> SUFFICES ASSUME nodes'[m].live
               PROVE  /\ Injective(nodes'[m].clusters) /\ Range(nodes'[m].clusters) \subseteq held'
                      /\ kind' = "fat" => Linked(table', nodes'[m].clusters)
    BY Zenon DEF Owns
  <2>1. m \in 1..Len(nodes) /\ m # n /\ nodes[m].live /\ nodes'[m].clusters = nodes[m].clusters
    BY <1>1, <1>2
  <2>2. Owns(nodes, kind, table, held, m) /\ Apart(nodes, m, n) /\ nodes[m].clusters \in Seq(Clusters)
    BY <1>1, <2>1, NodeIs DEF TreeInv
  <2>3. Range(nodes[m].clusters) \cap Range(nodes[n].clusters) = {}
    BY ONLY <1>1, <2>1, <2>2 DEF Apart
  <2>4. \A c \in Clusters : c \notin Range(nodes[n].clusters) => table'[c] = table[c]
    BY Zenon DEF Removed
  <2>5. Injective(nodes[m].clusters) /\ Range(nodes[m].clusters) \subseteq held /\ (kind = "fat" => Linked(table, nodes[m].clusters))
    BY ONLY <2>1, <2>2 DEF Owns
  <2>6. kind = "fat" => Linked(table', nodes[m].clusters)
    BY ONLY <2>2, <2>3, <2>4, <2>5, LinkedElsewhere
  <2> QED
    BY ONLY <1>1, <2>1, <2>3, <2>5, <2>6
<1>6. ASSUME NEW l \in 1..Len(nodes'), NEW m \in 1..Len(nodes'), l # m PROVE Apart(nodes', l, m)
  <2>1. l \in 1..Len(nodes) /\ m \in 1..Len(nodes)
    BY <1>1
  <2>2. Apart(nodes, l, m)
    BY <1>6, <2>1 DEF TreeInv
  <2>3. (nodes'[l].live => nodes[l].live) /\ (nodes'[m].live => nodes[m].live)
    BY ONLY <1>1, <1>2, <2>1
  <2> QED
    BY ONLY <1>2, <2>1, <2>2, <2>3 DEF Apart
<1> QED
  BY ONLY <1>3, <1>4, <1>5, <1>6

(* Lists that differ in which slots are marked as deleted. *)
Remarked(s, t) ==
  /\ Len(t) = Len(s)
  /\ \A j \in 1..Len(s) : t[j].kind = s[j].kind /\ t[j].id = s[j].id /\ t[j].dir = s[j].dir

LEMMA RemarkedOk ==
  ASSUME NEW ns, NEW ms, NEW d, NEW s, NEW t, ListOk(ns, d, s), Remarked(s, t), Len(ms) = Len(ns),
         \A n \in 2..Len(ns) : ms[n].live /\ Parent(ms, n) = d => ns[n].live /\ Parent(ns, n) = d
  PROVE  ListOk(ms, d, t)
<1>1. EndsTogether(t)
  BY DEF ListOk, EndsTogether, Remarked
<1>2. OneSlotEach(t)
  BY DEF ListOk, OneSlotEach, Remarked
<1>3. DotsOnly(t)
  BY DEF ListOk, DotsOnly, Remarked
<1>4. Lists(ms, d, t)
  BY DEF ListOk, Lists, HasSlot, Remarked
<1> QED
  BY ONLY <1>1, <1>2, <1>3, <1>4 DEF ListOk

LEMMA RemoveTree ==
  ASSUME VolumeInv, TreeInv, remove
  PROVE  TreeInv'
<1>1. PICK n : Removed(n)
  BY RemovedIs
<1>2. /\ \A m \in 1..Len(nodes) : Parent(nodes', m) = Parent(nodes, m)
      /\ \A m \in 2..Len(nodes') : NodeIn(nodes', m)
      /\ \A m \in 1..Len(nodes') : Owns(nodes', kind', table', held', m)
      /\ \A l, m \in 1..Len(nodes') : l # m => Apart(nodes', l, m)
  BY <1>1, RemovedNodes
<1>3. Len(nodes') = Len(nodes) /\ Len(nodes) \in Nat /\ kind' = kind /\ ~nodes'[n].live
  <2>1. Len(nodes') = Len(nodes) /\ kind' = kind /\ ~nodes'[n].live
    BY ONLY <1>1, Zenon DEF Removed
  <2> QED
    BY <2>1, LengthIs
<1>4. \A m \in 1..Len(nodes) :
       /\ nodes'[m].dir = nodes[m].dir /\ nodes'[m].clusters = nodes[m].clusters
       /\ m # n => nodes'[m].live = nodes[m].live
  BY ONLY <1>1, Zenon DEF Removed
<1>5. \A c \in Clusters : \A i \in 1..SlotsPerCluster :
        /\ content'[c][i].kind = content[c][i].kind /\ content'[c][i].id = content[c][i].id
        /\ content'[c][i].dir = content[c][i].dir /\ content'[c][i].cluster = content[c][i].cluster
  BY ONLY <1>1, Zenon DEF Removed
<1>6. \A m \in 2..Len(nodes) : m \in 1..Len(nodes) /\ Parent(nodes', m) = Parent(nodes, m) /\ (nodes'[m].live => nodes[m].live)
  <2>1. \A m \in 2..Len(nodes) : m \in 1..Len(nodes)
    BY ONLY <1>3
  <2> QED
    BY ONLY <1>2, <1>3, <1>4, <2>1
<1>7. ASSUME NoReuse, NEW c \in Clusters, NEW i \in 1..SlotsPerCluster PROVE Dotted(nodes', c, content'[c][i])
  <2>1. Dotted(nodes, c, content[c][i])
    BY <1>7 DEF TreeInv
  <2>2. Dotted(nodes, c, content'[c][i])
    BY ONLY <1>5, <2>1, c \in Clusters, i \in 1..SlotsPerCluster DEF Dotted, DotOf
  <2>3. \A m \in 2..Len(nodes) : NodeIn(nodes, m)
    BY DEF TreeInv
  <2>4. \A m \in 1..Len(nodes) : nodes[m].dir => nodes'[m].dir /\ nodes'[m].clusters[1] = nodes[m].clusters[1]
    BY ONLY <1>4
  <2>5. Len(nodes') \in Nat /\ Len(nodes) <= Len(nodes')
    BY ONLY <1>3
  <2> QED
    BY ONLY <1>3, <1>6, <2>2, <2>3, <2>4, <2>5, DotsCarry
<1>8. ASSUME kind' = "fat", NEW d \in LiveDirectories' PROVE ListOk(nodes', d, SlotsIn(content', nodes'[d].clusters))
  <2>1. d \in 1..Len(nodes) /\ nodes[d].live /\ nodes[d].dir /\ kind = "fat"
    <3>1. VolumeInv'
      BY RemoveKeeps
    <3>2. d \in DOMAIN nodes' /\ nodes'[d].dir /\ nodes'[d].live /\ DOMAIN nodes' = 1..Len(nodes')
      BY <3>1 DEF LiveDirectories, VolumeInv, VolumeType
    <3> QED
      BY ONLY <1>3, <1>4, <1>8, <3>2
  <2>2. PICK cs, s, t : cs = nodes[d].clusters /\ s = SlotsIn(content, cs) /\ t = SlotsIn(content', cs)
    OBVIOUS
  <2>3. ListOk(nodes, d, s)
    <3>1. d \in LiveDirectories
      BY <2>1, LiveIs
    <3> QED
      BY <2>1, <2>2, <3>1 DEF TreeInv
  <2>4. cs \in Seq(Clusters)
    BY <2>1, <2>2, NodeIs
  <2>5. Len(s) = Len(cs) * SlotsPerCluster /\ Len(t) = Len(cs) * SlotsPerCluster
    BY ONLY <2>2, <2>4, ListIs
  <2>6. ASSUME NEW j \in 1..Len(s) PROVE t[j].kind = s[j].kind /\ t[j].id = s[j].id /\ t[j].dir = s[j].dir
    <3>1. j \in 1..(Len(cs) * SlotsPerCluster)
      BY ONLY <2>5, j \in 1..Len(s)
    <3>2. PICK k \in 1..Len(cs), i \in 1..SlotsPerCluster : AtPlace(content, cs, j, k, i)
      BY ONLY <2>4, <3>1, PlaceIs
    <3>3. s[j] = content[cs[k]][i] /\ j = (k - 1) * SlotsPerCluster + i
      BY ONLY <2>2, <3>2 DEF AtPlace
    <3>4. t[j] = content'[cs[k]][i]
      BY ONLY <2>2, <2>4, <3>3, SlotHasPlace, k \in 1..Len(cs), i \in 1..SlotsPerCluster
    <3>5. cs[k] \in Clusters
      BY ONLY <2>4, k \in 1..Len(cs)
    <3> QED
      BY ONLY <1>5, <3>3, <3>4, <3>5, i \in 1..SlotsPerCluster
  <2>7. Remarked(s, t)
    BY ONLY <2>5, <2>6 DEF Remarked
  <2>8. ListOk(nodes', d, t)
    BY ONLY <1>3, <1>6, <2>3, <2>7, RemarkedOk
  <2>9. nodes'[d].clusters = cs
    BY ONLY <1>4, <2>1, <2>2
  <2> QED
    BY ONLY <2>2, <2>8, <2>9
<1>9. nodes'[1].clusters[1] = kFirstCluster
  <2>1. 1 \in 1..Len(nodes) /\ nodes[1].clusters[1] = kFirstCluster
    BY LengthIs DEF TreeInv
  <2> QED
    BY ONLY <1>4, <2>1
<1> QED
  BY ONLY <1>2, <1>7, <1>8, <1>9 DEF TreeInv, NoReuse

-----------------------------------------------------------------------------
LEMMA TreeStarts ==
  ASSUME VolumeInit
  PROVE  TreeInv
<1>1. PICK c : c = kFirstCluster
  OBVIOUS
<1>2. VolumeInv /\ c \in Clusters
  BY <1>1, VolumeStarts, FirstIsACluster
<1>3. Len(nodes) = 1 /\ nodes[1].clusters = <<c>> /\ nodes[1].live /\ nodes[1].dir
  BY <1>1 DEF VolumeInit, RootNode
<1>4. <<c>> \in Seq(Clusters) /\ Len(<<c>>) = 1 /\ <<c>>[1] = c
  BY <1>2
<1>5. ASSUME NEW n \in 1..Len(nodes) PROVE Owns(nodes, kind, table, held, n)
  <2>1. n = 1
    BY <1>3
  <2>2. table[c] = kEndOfChain /\ held = {c}
    BY <1>1, <1>2 DEF VolumeInit
  <2>3. Injective(<<c>>)
    BY ONLY <1>4 DEF Injective
  <2>4. Linked(table, <<c>>)
    BY ONLY <1>4, <2>2 DEF Linked
  <2>5. Range(<<c>>) \subseteq held
    <3>1. \A x : x \in Range(<<c>>) <=> \E i \in 1..Len(<<c>>) : <<c>>[i] = x
      BY ONLY <1>4, RangeIs
    <3> QED
      BY ONLY <1>4, <2>2, <3>1
  <2> QED
    BY ONLY <1>3, <2>1, <2>3, <2>4, <2>5 DEF Owns
<1>6. ASSUME NEW b \in Clusters, NEW i \in 1..SlotsPerCluster
      PROVE  content[b][i].id = 0 /\ content[b][i].kind # "file" /\ (kind = "fat" => content[b][i].kind = "end")
  <2>1. content[b] = AllEnd \/ (kind = "exfat" /\ content[b] = [AllEnd EXCEPT ![1] = Slot("other", 0)])
    BY ONLY VolumeInit, b \in Clusters DEF VolumeInit
  <2>2. PICK o, e : o = Slot("other", 0) /\ e = AllEnd
    OBVIOUS
  <2>3. o.id = 0 /\ o.kind = "other"
    BY ONLY <2>2 DEF Slot
  <2>4. DOMAIN e = 1..SlotsPerCluster /\ \A k \in 1..SlotsPerCluster : e[k].id = 0 /\ e[k].kind = "end"
    BY ONLY <2>2 DEF AllEnd, End, Slot
  <2>5. CASE content[b] = e
    BY ONLY <2>4, <2>5, i \in 1..SlotsPerCluster
  <2>6. CASE kind = "exfat" /\ content[b] = [e EXCEPT ![1] = o]
    <3>1. content[b][i] = o \/ content[b][i] = e[i]
      BY ONLY <2>4, <2>6, i \in 1..SlotsPerCluster
    <3> QED
      BY ONLY <2>3, <2>4, <2>6, <3>1, i \in 1..SlotsPerCluster
  <2> QED
    <3>1. content[b] = e \/ (kind = "exfat" /\ content[b] = [e EXCEPT ![1] = o])
      BY ONLY <2>1, <2>2
    <3> QED
      BY ONLY <2>5, <2>6, <3>1
<1>7. ASSUME kind = "fat", NEW d \in LiveDirectories PROVE ListOk(nodes, d, SlotsIn(content, nodes[d].clusters))
  <2>1. d = 1
    BY <1>2, <1>3, LiveIs
  <2>2. PICK s : s = SlotsIn(content, <<c>>)
    OBVIOUS
  <2>3. ASSUME NEW j \in 1..Len(s) PROVE s[j].id = 0 /\ s[j].kind = "end"
    <3>1. PICK b \in Range(<<c>>), i \in 1..SlotsPerCluster : s[j] = content[b][i] /\ b \in Clusters
      BY ONLY <1>2, <1>4, <2>2, ListedIs, j \in 1..Len(s)
    <3> QED
      BY ONLY <1>6, <1>7, <3>1
  <2>4. EndsTogether(s) /\ OneSlotEach(s)
    BY ONLY <2>3 DEF EndsTogether, OneSlotEach
  <2>5. DotsOnly(s)
    BY ONLY <2>3 DEF DotsOnly
  <2>6. Lists(nodes, d, s)
    BY ONLY <1>3 DEF Lists
  <2> QED
    BY ONLY <1>3, <2>1, <2>2, <2>4, <2>5, <2>6 DEF ListOk
<1>8. \A n \in 2..Len(nodes) : NodeIn(nodes, n)
  BY ONLY <1>3
<1>9. \A m, n \in 1..Len(nodes) : m # n => Apart(nodes, m, n)
  BY ONLY <1>3
<1>10. \A b \in Clusters : \A i \in 1..SlotsPerCluster : Dotted(nodes, b, content[b][i])
  BY ONLY <1>6 DEF Dotted
<1>11. nodes[1].clusters[1] = kFirstCluster
  BY ONLY <1>1, <1>3, <1>4
<1> QED
  BY ONLY <1>5, <1>7, <1>8, <1>9, <1>10, <1>11 DEF TreeInv

LEMMA ShortInjective ==
  ASSUME NEW S, NEW s, NEW m \in 0..2, s \in [1..m -> S], Cardinality(Range(s)) = Len(s)
  PROVE  Injective(s)
<1>1. Len(s) = m /\ DOMAIN s = 1..m /\ s \in Seq(S)
  BY ONLY FunctionIsSeq, m \in 0..2, s \in [1..m -> S]
<1>2. CASE m # 2
  <2>1. m = 0 \/ m = 1
    BY ONLY <1>2, m \in 0..2
  <2> QED
    BY ONLY <1>1, <2>1 DEF Injective
<1>3. CASE m = 2 /\ s[1] # s[2]
  <2>1. \A i \in 1..Len(s) : i = 1 \/ i = 2
    BY ONLY <1>1, <1>3
  <2> QED
    BY ONLY <1>3, <2>1 DEF Injective
<1>4. CASE m = 2 /\ s[1] = s[2]
  <2>1. Range(s) = {s[1]}
    <3>1. \A x : x \in Range(s) <=> \E i \in 1..m : s[i] = x
      BY ONLY <1>1, RangeIs
    <3>2. \A i \in 1..m : i = 1 \/ i = 2
      BY ONLY <1>4
    <3>3. 1 \in 1..m
      BY ONLY <1>4
    <3> QED
      BY ONLY <1>4, <3>1, <3>2, <3>3
  <2>2. Cardinality({s[1]}) = 1
    BY ONLY FS_Singleton
  <2> QED
    BY ONLY <1>1, <1>4, <2>1, <2>2, Cardinality(Range(s)) = Len(s)
<1> QED
  BY ONLY <1>2, <1>3, <1>4

LEMMA HostTree ==
  ASSUME VolumeInv, TreeInv, HostChanges
  PROVE  TreeInv'
<1>1. NameSlots \subseteq Nat
  <2>1. NameSlots = {0, 1} \/ NameSlots = {0}
    BY ONLY Zenon DEF NameSlots
  <2> QED
    BY <2>1
<1>2. CASE createFile
  <2>1. PICK parent \in LiveDirectories, noFatChain \in BOOLEAN, names \in NameSlots,
             clusters \in BoundedSeq(Clusters \ held, 2) :
          Cardinality(Range(clusters)) = Len(clusters) /\ make(parent, FALSE, clusters, noFatChain, names)
    BY <1>2, Zenon DEF createFile
  <2>2. PICK m \in 0..2 : clusters \in [1..m -> Clusters \ held]
    BY DEF BoundedSeq, SeqOf
  <2>3. m \in Nat /\ clusters \in [1..m -> Clusters]
    BY <2>2
  <2>4. clusters \in Seq(Clusters) /\ clusters \in Seq(Clusters \ held)
    BY ONLY <2>2, <2>3, FunctionIsSeq
  <2>5. Injective(clusters)
    BY ONLY <2>1, <2>2, ShortInjective
  <2>6. Range(clusters) \cap held = {}
    <3>1. \A x : x \in Range(clusters) <=> \E i \in 1..Len(clusters) : clusters[i] = x
      BY ONLY <2>4, RangeIs
    <3>2. \A i \in 1..Len(clusters) : clusters[i] \notin held
      BY ONLY <2>4
    <3> QED
      BY ONLY <3>1, <3>2
  <2>7. names \in Nat /\ FALSE \in BOOLEAN /\ (FALSE => Len(clusters) = 1)
        /\ (FALSE /\ NoReuse => \A n \in 1..Len(nodes) : nodes[n].dir => Range(clusters) \cap Range(nodes[n].clusters) = {})
    BY <1>1
  <2> QED
    BY ONLY <2>1, <2>4, <2>5, <2>6, <2>7, MakeTree, VolumeInv, TreeInv
<1>3. CASE createDirectory
  <2>1. PICK parent \in LiveDirectories, c \in Clusters \ held, noFatChain \in BOOLEAN, names \in NameSlots :
          /\ make(parent, TRUE, <<c>>, noFatChain, names)
          /\ "directory reuse" \in Habits \/ \A n \in DOMAIN nodes : nodes[n].dir => c \notin Range(nodes[n].clusters)
    BY <1>3, Zenon DEF createDirectory
  <2>2. <<c>> \in Seq(Clusters) /\ Len(<<c>>) = 1 /\ <<c>>[1] = c
    OBVIOUS
  <2>3. Injective(<<c>>)
    BY ONLY <2>2 DEF Injective
  <2>4. \A x : x \in Range(<<c>>) <=> x = c
    <3>1. \A x : x \in Range(<<c>>) <=> \E i \in 1..Len(<<c>>) : <<c>>[i] = x
      BY ONLY <2>2, RangeIs
    <3> QED
      BY ONLY <2>2, <3>1
  <2>5. Range(<<c>>) \cap held = {}
    BY ONLY <2>1, <2>4
  <2>6. NoReuse => \A n \in 1..Len(nodes) : nodes[n].dir => Range(<<c>>) \cap Range(nodes[n].clusters) = {}
    <3>1. DOMAIN nodes = 1..Len(nodes)
      BY LengthIs
    <3> QED
      BY ONLY <2>1, <2>4, <3>1 DEF NoReuse
  <2>7. names \in Nat /\ TRUE \in BOOLEAN
    BY <1>1
  <2> QED
    BY ONLY <2>1, <2>2, <2>3, <2>5, <2>6, <2>7, MakeTree, VolumeInv, TreeInv
<1> QED
  BY <1>2, <1>3, GrowTree, RemoveTree DEF HostChanges

-----------------------------------------------------------------------------
(***************************************************************************)
(* What is read of a live node is what was written.                        *)
(***************************************************************************)

LEMMA InjectiveIsShort ==
  ASSUME NEW cs \in Seq(Clusters), Injective(cs)
  PROVE  Len(cs) \in Nat /\ Len(cs) <= TotalClusters
<1> DEFINE D == 1..Len(cs)
<1>1. Len(cs) \in Nat /\ cs \in [D -> Clusters]
  OBVIOUS
<1>2. cs \in Injection(D, Clusters)
  BY <1>1 DEF Injective, Injection, IsInjective
<1>3. IsFiniteSet(Clusters) /\ Cardinality(Clusters) = TotalClusters
  BY FS_Interval, GeometryAssumption DEF Clusters, kFirstCluster
<1>4. Cardinality(D) = Len(cs)
  BY <1>1, FS_Interval, SMTT(60)
<1> QED
  BY <1>1, <1>2, <1>3, <1>4, FS_Injection

(* A chain of links, followed from its first cluster, is the whole chain. *)
LEMMA LinkedIsFollowed ==
  ASSUME NEW t \in [Clusters -> Nat], NEW cs \in Seq(Clusters), cs # <<>>, Injective(cs), Linked(t, cs)
  PROVE  chainFrom(t, cs[1]) = cs
<1>1. PICK L, T, first : L = Len(cs) /\ T = TotalClusters /\ first = cs[1]
  OBVIOUS
<1>2. L \in Nat /\ T \in Nat /\ 1 <= L /\ L <= T /\ T > 0 /\ first \in Clusters /\ first \in Nat
  <2>1. Len(cs) >= 1 /\ cs[1] \in Clusters
    OBVIOUS
  <2> QED
    BY ONLY <1>1, <2>1, InjectiveIsShort, GeometryIs, cs \in Seq(Clusters), Injective(cs)
<1>3. PICK at \in [0..TotalClusters -> Nat] :
        Led(t, first, at) /\ Steps(t, first) = [n \in 1..(TotalClusters + 1) |-> at[n - 1]]
  BY ONLY <1>2, StepsAre, t \in [Clusters -> Nat]
<1>4. at[0] = cs[1] /\ \A n \in 1..T : at[n] = Moved(t, at[n - 1])
  BY ONLY <1>1, <1>3 DEF Led
<1>5. \A k \in 1..L : cs[k] \in Clusters /\ t[cs[k]] = IF k = L THEN kEndOfChain ELSE cs[k + 1]
  BY ONLY <1>1, cs \in Seq(Clusters), Linked(t, cs) DEF Linked
<1>6. kEndOfChain \notin Clusters /\ kEndOfChain \in Nat
  BY GeometryIs
<1> DEFINE S == {k \in Nat : k <= T => at[k] = IF k < L THEN cs[k + 1] ELSE kEndOfChain}
<1>7. S = Nat
  <2>1. 0 \in S
    BY <1>2, <1>4
  <2>2. ASSUME NEW n \in S PROVE n + 1 \in S
    <3> SUFFICES ASSUME n + 1 <= T PROVE at[n + 1] = IF n + 1 < L THEN cs[n + 2] ELSE kEndOfChain
      BY <2>2
    <3>1. n \in Nat /\ n <= T /\ n + 1 \in 1..T /\ n + 1 - 1 = n
      BY <1>2, <2>2
    <3>2. at[n] = IF n < L THEN cs[n + 1] ELSE kEndOfChain
      BY <2>2, <3>1
    <3>3. at[n + 1] = Moved(t, at[n])
      BY ONLY <1>4, <3>1
    <3>4. CASE n < L
      <4>1. n + 1 \in 1..L /\ (n + 1 = L <=> ~(n + 1 < L)) /\ n + 1 + 1 = n + 2
        BY ONLY <1>2, <3>1, <3>4
      <4>2. at[n] = cs[n + 1] /\ cs[n + 1] \in Clusters
        BY ONLY <1>5, <3>2, <3>4, <4>1
      <4>3. at[n + 1] = t[cs[n + 1]]
        BY ONLY <3>3, <4>2 DEF Moved, isDataCluster
      <4> QED
        BY ONLY <1>5, <4>1, <4>3
    <3>5. CASE ~(n < L)
      <4>1. at[n + 1] = kEndOfChain
        BY ONLY <1>6, <3>2, <3>3, <3>5 DEF Moved, isDataCluster
      <4>2. ~(n + 1 < L)
        BY ONLY <1>2, <3>1, <3>5
      <4> QED
        BY ONLY <4>1, <4>2
    <3> QED
      BY <3>4, <3>5
  <2>3. S \in SUBSET Nat
    OBVIOUS
  <2> HIDE DEF S
  <2> QED
    BY ONLY <2>1, <2>2, <2>3, SetInduction
<1>8. \A k \in 0..T : at[k] = IF k < L THEN cs[k + 1] ELSE kEndOfChain
  <2>1. \A k \in 0..T : k \in S /\ k <= T
    <3>1. \A k \in 0..T : k \in Nat /\ k <= T
      BY ONLY <1>2
    <3> HIDE DEF S
    <3> QED
      BY ONLY <1>7, <3>1
  <2> QED
    BY ONLY <2>1
<1>9. PICK s : s = Steps(t, first)
  OBVIOUS
<1>10. s \in [1..(T + 1) -> Nat] /\ \A n \in 1..(T + 1) : s[n] = at[n - 1] /\ n - 1 \in 0..T
  <2>1. \A n \in 1..(T + 1) : n - 1 \in 0..T
    BY ONLY <1>2
  <2> QED
    BY ONLY <1>1, <1>3, <1>9, <2>1
<1>11. s \in Seq(Nat) /\ Len(s) = T + 1 /\ DOMAIN s = 1..(T + 1)
  <2>1. T + 1 \in Nat
    BY ONLY <1>2
  <2> QED
    BY ONLY <1>10, <2>1, FunctionIsSeq
<1>12. \A n \in 1..(T + 1) : s[n] = IF n <= L THEN cs[n] ELSE kEndOfChain
  <2>1. ASSUME NEW n \in 1..(T + 1) PROVE s[n] = IF n <= L THEN cs[n] ELSE kEndOfChain
    <3>1. n - 1 + 1 = n /\ (n - 1 < L <=> n <= L)
      BY ONLY <1>2, n \in 1..(T + 1)
    <3>2. s[n] = at[n - 1] /\ n - 1 \in 0..T
      BY ONLY <1>10, n \in 1..(T + 1)
    <3> QED
      BY ONLY <1>8, <3>1, <3>2
  <2> QED
    BY ONLY <2>1
<1> DEFINE outside == {n \in DOMAIN s : ~isDataCluster(s[n])}
<1>13. \A n \in 1..(T + 1) : n \in outside <=> n > L
  <2>1. ASSUME NEW n \in 1..(T + 1) PROVE n \in outside <=> n > L
    <3>1. n \in outside <=> s[n] \notin Clusters
      BY <1>11 DEF isDataCluster
    <3>2. n <= L => n \in 1..L
      BY ONLY <1>2, n \in 1..(T + 1)
    <3>3. n <= L <=> ~(n > L)
      BY ONLY <1>2, n \in 1..(T + 1)
    <3> HIDE DEF outside
    <3> QED
      BY ONLY <1>5, <1>6, <1>12, <3>1, <3>2, <3>3, n \in 1..(T + 1)
  <2> HIDE DEF outside
  <2> QED
    BY ONLY <2>1
<1>14. outside \in SUBSET Nat /\ L + 1 \in outside /\ \A y \in outside : L + 1 <= y
  <2>1. outside \subseteq 1..(T + 1)
    BY <1>11
  <2> HIDE DEF outside
  <2> QED
    BY ONLY <1>2, <1>13, <2>1
<1>15. Min(outside) = L + 1
  <2>1. PICK x : x = Min(outside)
    OBVIOUS
  <2> HIDE DEF outside
  <2>2. x \in outside /\ \A y \in outside : x <= y
    BY ONLY <1>14, <2>1, MinIs
  <2> QED
    BY ONLY <1>2, <1>14, <2>1, <2>2
<1>16. ~(Last(s) < kEndOfChain)
  <2>1. Last(s) = s[T + 1] /\ T + 1 \in 1..(T + 1) /\ ~(T + 1 <= L)
    BY ONLY <1>2, <1>11 DEF Last
  <2>2. Last(s) = kEndOfChain
    BY ONLY <1>12, <2>1
  <2> QED
    BY ONLY <1>6, <2>2
<1>17. chainFrom(t, first) = SubSeq(s, 1, L)
  <2>1. (L + 1) - 1 = L
    BY ONLY <1>2
  <2> HIDE DEF outside
  <2>2. chainFrom(t, first) = SubSeq(s, 1, Min(outside) - 1)
    BY ONLY <1>9, <1>16 DEF chainFrom, outside
  <2> QED
    BY ONLY <1>15, <2>1, <2>2
<1>18. PICK r : r = SubSeq(s, 1, L)
  OBVIOUS
<1>19. L \in 0..Len(s)
  BY ONLY <1>2, <1>11
<1>20. r \in Seq(Nat) /\ Len(r) = L /\ \A i \in 1..L : r[i] = s[i]
  BY ONLY <1>11, <1>18, <1>19, PrefixIs
<1>21. \A i \in 1..L : r[i] = cs[i]
  <2>1. \A i \in 1..L : i \in 1..(T + 1) /\ i <= L
    BY ONLY <1>2
  <2> QED
    BY ONLY <1>12, <1>20, <2>1
<1>22. r = cs
  <2>1. r = [i \in 1..L |-> r[i]] /\ cs = [i \in 1..L |-> cs[i]]
    <3>1. IsSequence(r) /\ IsSequence(cs)
      BY ONLY <1>20, TypedIsSequence, cs \in Seq(Clusters)
    <3> QED
      BY ONLY <1>1, <1>20, <3>1 DEF IsSequence
  <2> QED
    BY ONLY <1>21, <2>1
<1> QED
  BY ONLY <1>1, <1>17, <1>18, <1>22

LEMMA LiveIsFollowed ==
  ASSUME VolumeInv, TreeInv, kind = "fat", NEW n \in 1..Len(nodes), nodes[n].live, nodes[n].clusters # <<>>
  PROVE  chainFrom(table, nodes[n].clusters[1]) = nodes[n].clusters
<1>1. nodes[n].clusters \in Seq(Clusters) /\ table \in [Clusters -> Nat]
  BY NodeIs DEF VolumeInv, VolumeType
<1>2. Owns(nodes, kind, table, held, n)
  BY DEF TreeInv
<1>3. Injective(nodes[n].clusters) /\ Linked(table, nodes[n].clusters)
  BY <1>2 DEF Owns
<1> QED
  BY ONLY <1>1, <1>3, LinkedIsFollowed, nodes[n].clusters # <<>>

Begins(s, t) == Len(s) \in Nat /\ Len(t) \in Nat /\ Len(s) <= Len(t) /\ \A j \in 1..Len(s) : s[j] = t[j]

LEMMA BeginsOk ==
  ASSUME NEW s, NEW t, Begins(s, t)
  PROVE  (OneSlotEach(t) => OneSlotEach(s)) /\ (DotsOnly(t) => DotsOnly(s))
<1>1. \A j \in 1..Len(s) : j \in 1..Len(t) /\ s[j] = t[j]
  BY DEF Begins
<1>2. OneSlotEach(t) => OneSlotEach(s)
  BY ONLY <1>1 DEF OneSlotEach
<1>3. DotsOnly(t) => DotsOnly(s)
  BY ONLY <1>1 DEF DotsOnly
<1> QED
  BY ONLY <1>2, <1>3

LEMMA BeginsTwice ==
  ASSUME NEW r, NEW s, NEW t, Begins(r, s), Begins(s, t)
  PROVE  Begins(r, t)
BY DEF Begins

(* The slots before the first free one; if the free ones are together, all that name a file. *)
LEMMA EndIsFound ==
  ASSUME NEW T, NEW bytes \in Seq(T)
  PROVE  /\ Begins(upToEndOfDirectory(bytes), bytes)
         /\ \A n : EndsTogether(bytes) /\ HasSlot(bytes, n) => HasSlot(upToEndOfDirectory(bytes), n)
<1>1. PICK ends, m, s : /\ ends = {i \in DOMAIN bytes : bytes[i].kind = "end"} /\ m = Min(ends)
                        /\ s = upToEndOfDirectory(bytes)
  OBVIOUS
<1>2. s = IF ends = {} THEN bytes ELSE SubSeq(bytes, 1, m - 1)
  BY ONLY <1>1, Zenon DEF upToEndOfDirectory
<1>3. DOMAIN bytes = 1..Len(bytes) /\ Len(bytes) \in Nat
  OBVIOUS
<1>4. CASE ends = {}
  <2>1. s = bytes
    BY ONLY <1>2, <1>4
  <2>2. Begins(s, bytes)
    BY ONLY <1>3, <2>1 DEF Begins
  <2> QED
    BY ONLY <1>1, <2>1, <2>2
<1>5. CASE ends # {}
  <2>1. ends \in SUBSET Nat /\ ends \subseteq 1..Len(bytes)
    BY ONLY <1>1, <1>3
  <2>2. m \in ends
    BY ONLY <1>1, <1>5, <2>1, MinIs
  <2>3. m \in 1..Len(bytes) /\ bytes[m].kind = "end"
    BY ONLY <1>1, <1>3, <2>2
  <2>4. m - 1 \in 0..Len(bytes)
    BY ONLY <1>3, <2>3
  <2>5. s = SubSeq(bytes, 1, m - 1)
    BY ONLY <1>2, <1>5
  <2>6. Len(s) = m - 1 /\ \A i \in 1..(m - 1) : s[i] = bytes[i]
    BY ONLY <2>4, <2>5, PrefixIs, bytes \in Seq(T)
  <2>7. Begins(s, bytes)
    <3>1. m - 1 \in Nat /\ m - 1 <= Len(bytes)
      BY ONLY <1>3, <2>4
    <3> QED
      BY ONLY <1>3, <2>6, <3>1 DEF Begins
  <2>8. ASSUME NEW n, EndsTogether(bytes), HasSlot(bytes, n) PROVE HasSlot(s, n)
    <3>1. PICK j \in 1..Len(bytes) : bytes[j].kind = "file" /\ bytes[j].id = n
      BY ONLY <2>8 DEF HasSlot
    <3>2. ~(m < j)
      BY ONLY <2>3, <2>8, <3>1 DEF EndsTogether
    <3>3. j # m
      BY ONLY <2>3, <3>1
    <3>4. j \in 1..(m - 1)
      BY ONLY <1>3, <2>3, <3>2, <3>3, j \in 1..Len(bytes)
    <3> QED
      BY ONLY <2>6, <3>1, <3>4 DEF HasSlot
  <2> QED
    BY ONLY <1>1, <2>7, <2>8
<1> QED
  BY ONLY <1>4, <1>5

LEMMA EnoughClusters ==
  ASSUME NEW K \in Nat, NEW S \in Nat \ {0}, NEW l \in Nat
  PROVE  (K + S - 1) \div S \in Nat /\ (l * S <= K => l <= (K + S - 1) \div S)
<1>1. PICK a, q, r : a = K + S - 1 /\ q = a \div S /\ r = a % S
  OBVIOUS
<1>2. a \in Nat
  BY ONLY <1>1, K \in Nat, S \in Nat \ {0}
<1>3. q \in Nat /\ r \in 0..(S - 1) /\ a = S * q + r
  BY ONLY <1>1, <1>2, Divided, S \in Nat \ {0}
<1>4. ASSUME l * S <= K PROVE l <= q
  <2>1. CASE q + 1 <= l
    <3>1. q + 1 \in Nat /\ S \in Nat
      BY ONLY <1>3, S \in Nat \ {0}
    <3>2. (q + 1) * S <= l * S
      BY ONLY <2>1, <3>1, TimesGrows, l \in Nat
    <3>3. (q + 1) * S = S * q + S /\ S * q \in Nat /\ l * S \in Nat
      <4>1. S * q \in Nat /\ l * S \in Nat
        BY ONLY <1>3, <3>1, TimesIs, l \in Nat
      <4>2. (q + 1) * S = S * q + S
        BY ONLY <1>3, <3>1
      <4> QED
        BY ONLY <4>1, <4>2
    <3>4. PICK x, y : x = S * q /\ y = l * S
      OBVIOUS
    <3>5. x + S <= y /\ y <= K /\ K + S - 1 = x + r /\ x \in Nat /\ y \in Nat
      BY ONLY <1>1, <1>3, <1>4, <3>2, <3>3, <3>4
    <3> QED
      BY ONLY <1>3, <3>1, <3>5, K \in Nat
  <2> QED
    BY ONLY <1>3, <2>1, l \in Nat
<1> QED
  BY ONLY <1>1, <1>3, <1>4

(* What is read of a directory is the beginning of it, and all of one that is not too big. *)
LEMMA BytesAreRead ==
  ASSUME NEW cs \in Seq(Clusters)
  PROVE  LET bytes == readDirectoryBytes(cs) IN
         /\ \E T : bytes \in Seq(T)
         /\ Begins(bytes, SlotsIn(content, cs))
         /\ Len(cs) * SlotsPerCluster <= kMaxDirectorySlots => bytes = SlotsIn(content, cs)
<1>1. PICK wanted, n, taken, bytes, all :
        /\ wanted = (kMaxDirectorySlots + SlotsPerCluster - 1) \div SlotsPerCluster
        /\ n = Min({wanted, Len(cs)}) /\ taken = SubSeq(cs, 1, n) /\ bytes = SlotsIn(content, taken)
        /\ all = SlotsIn(content, cs)
  OBVIOUS
<1>2. readDirectoryBytes(cs) = bytes
  <2>1. SlotsOf(taken) = SlotsIn(content, taken)
    BY ONLY SlotsInContent
  <2> QED
    BY ONLY <1>1, <2>1, Zenon DEF readDirectoryBytes
<1>3. Len(cs) \in Nat /\ wanted \in Nat /\ (Len(cs) * SlotsPerCluster <= kMaxDirectorySlots => Len(cs) <= wanted)
  <2>1. kMaxDirectorySlots \in Nat /\ SlotsPerCluster \in Nat \ {0} /\ Len(cs) \in Nat
    BY WalkAssumption, GeometryIs
  <2> QED
    BY ONLY <1>1, <2>1, EnoughClusters
<1>4. n = IF wanted <= Len(cs) THEN wanted ELSE Len(cs)
  BY ONLY <1>1, <1>3, MinMaxOfTwo
<1>5. n \in 0..Len(cs)
  BY ONLY <1>3, <1>4
<1>6. taken \in Seq(Clusters) /\ Len(taken) = n /\ \A i \in 1..n : taken[i] = cs[i]
  BY ONLY <1>1, <1>5, PrefixIs, cs \in Seq(Clusters)
<1>7. Len(bytes) = n * SlotsPerCluster /\ Len(bytes) \in Nat /\ IsSequence(bytes) /\ Len(all) = Len(cs) * SlotsPerCluster /\ Len(all) \in Nat
  BY ONLY <1>1, <1>6, ListIs, cs \in Seq(Clusters)
<1>8. Len(bytes) <= Len(all)
  <2>1. n \in Nat /\ n <= Len(cs) /\ SlotsPerCluster \in Nat
    BY ONLY <1>3, <1>5, GeometryIs
  <2> QED
    BY ONLY <1>3, <1>7, <2>1, TimesGrows
<1>9. ASSUME NEW j \in 1..Len(bytes) PROVE bytes[j] = all[j]
  <2>1. j \in 1..(Len(taken) * SlotsPerCluster)
    BY ONLY <1>6, <1>7, j \in 1..Len(bytes)
  <2>2. PICK k \in 1..Len(taken), i \in 1..SlotsPerCluster : AtPlace(content, taken, j, k, i)
    BY ONLY <1>6, <2>1, PlaceIs
  <2>3. j = (k - 1) * SlotsPerCluster + i /\ bytes[j] = content[taken[k]][i]
    BY ONLY <1>1, <2>2 DEF AtPlace
  <2>4. k \in 1..Len(cs) /\ taken[k] = cs[k]
    BY ONLY <1>3, <1>5, <1>6, k \in 1..Len(taken)
  <2>5. all[j] = content[cs[k]][i]
    BY ONLY <1>1, <2>3, <2>4, SlotHasPlace, cs \in Seq(Clusters), i \in 1..SlotsPerCluster
  <2> QED
    BY ONLY <2>3, <2>4, <2>5
<1>10. Begins(bytes, all)
  BY ONLY <1>7, <1>8, <1>9 DEF Begins
<1>11. \E T : bytes \in Seq(T)
  <2>1. PICK T : T = {bytes[j] : j \in 1..Len(bytes)}
    OBVIOUS
  <2>2. \A j \in 1..Len(bytes) : bytes[j] \in T
    BY ONLY <2>1
  <2>3. bytes \in Seq(T)
    BY ONLY <1>7, <2>2, SequenceOver
  <2> QED
    BY ONLY <2>3
<1>12. ASSUME Len(cs) * SlotsPerCluster <= kMaxDirectorySlots PROVE bytes = all
  <2>1. n = Len(cs)
    BY ONLY <1>3, <1>4, <1>12
  <2>2. Len(bytes) = Len(all)
    BY ONLY <1>7, <2>1
  <2>3. IsSequence(all)
    BY ONLY <1>1, ListIs, cs \in Seq(Clusters)
  <2>4. bytes = [j \in 1..Len(bytes) |-> bytes[j]] /\ all = [j \in 1..Len(all) |-> all[j]]
    BY ONLY <1>7, <2>3 DEF IsSequence
  <2> QED
    BY ONLY <1>9, <2>2, <2>4
<1> QED
  BY ONLY <1>1, <1>2, <1>10, <1>11, <1>12

First(ns, d) == ns[d].clusters[1]

(* Every slot of s stands in a cluster of the directory. *)
FromDir(ns, con, d, s) ==
  \A j \in 1..Len(s) :
    \E c \in Range(ns[d].clusters) : \E i \in 1..SlotsPerCluster : c \in Clusters /\ s[j] = con[c][i]

LEMMA BeginsFrom ==
  ASSUME VolumeInv, NEW d \in 1..Len(nodes), NEW cs \in Seq(Clusters), Range(cs) \subseteq Range(nodes[d].clusters),
         NEW s, Begins(s, SlotsIn(content, cs))
  PROVE  FromDir(nodes, content, d, s)
<1> SUFFICES ASSUME NEW j \in 1..Len(s)
             PROVE  \E c \in Range(nodes[d].clusters) : \E i \in 1..SlotsPerCluster : c \in Clusters /\ s[j] = content[c][i]
  BY Zenon DEF FromDir
<1> DEFINE t == SlotsIn(content, cs)
<1>1. j \in 1..Len(t) /\ s[j] = t[j] BY DEF Begins
<1>2. PICK c \in Range(cs) : \E i \in 1..SlotsPerCluster :
        t[j] = content[c][i] /\ c \in Clusters /\ content[c][i] \in SlotType /\ SlotOk(c, content[c][i])
  BY <1>1, ListedIs
<1> QED BY <1>1, <1>2, Zenon

(* Reading a live directory gives all it lists, within the bound on its size. *)
LEMMA ReadLive ==
  ASSUME VolumeInv, TreeInv, kind = "fat", NEW d \in LiveDirectories, NEW x, x.cluster = First(nodes, d), ~x.underDeleted
  PROVE  LET s == upToEndOfDirectory(readDirectory(x)) IN
         /\ FromDir(nodes, content, d, s) /\ OneSlotEach(s) /\ DotsOnly(s)
         /\ Len(nodes[d].clusters) * SlotsPerCluster <= kMaxDirectorySlots => Lists(nodes, d, s)
<1> DEFINE cs == nodes[d].clusters
<1> DEFINE b == readDirectoryBytes(cs)
<1> DEFINE s == upToEndOfDirectory(b)
<1>1. d \in 1..Len(nodes) /\ nodes[d].dir /\ nodes[d].live BY LiveIs
<1>2. cs \in Seq(Clusters) /\ cs # <<>> BY <1>1, NodeIs DEF NodeOk
<1>3. chainFrom(table, x.cluster) = cs BY <1>1, <1>2, LiveIsFollowed DEF First
<1>4. readDirectory(x) = b BY <1>3 DEF readDirectory
<1>5. ListOk(nodes, d, SlotsIn(content, cs)) BY DEF TreeInv
<1>6. /\ \E T : b \in Seq(T)
      /\ Begins(b, SlotsIn(content, cs))
      /\ Len(cs) * SlotsPerCluster <= kMaxDirectorySlots => b = SlotsIn(content, cs)
  BY <1>2, BytesAreRead
<1>7. Begins(s, b) /\ \A n : EndsTogether(b) /\ HasSlot(b, n) => HasSlot(s, n)
  <2>1. PICK T : b \in Seq(T) BY <1>6
  <2> QED BY <2>1, EndIsFound
<1>8. Begins(s, SlotsIn(content, cs)) BY <1>6, <1>7, BeginsTwice, Zenon
<1>9. FromDir(nodes, content, d, s) BY <1>1, <1>2, <1>8, BeginsFrom, Zenon
<1>10. OneSlotEach(s) /\ DotsOnly(s) BY <1>8, <1>5, BeginsOk, Zenon DEF ListOk
<1>11. Len(cs) * SlotsPerCluster <= kMaxDirectorySlots => Lists(nodes, d, s)
  <2> SUFFICES ASSUME Len(cs) * SlotsPerCluster <= kMaxDirectorySlots PROVE Lists(nodes, d, s) OBVIOUS
  <2>1. b = SlotsIn(content, cs) BY <1>6
  <2>2. EndsTogether(b) /\ Lists(nodes, d, b) BY ONLY <2>1, <1>5, Zenon DEF ListOk
  <2> HIDE DEF b, s
  <2> QED BY ONLY <2>2, <1>7, Zenon DEF Lists
<1> HIDE DEF cs
<1> QED BY <1>4, <1>9, <1>10, <1>11, Zenon DEF cs

(* A removed directory is read from its first cluster alone. *)
LEMMA ReadRemoved ==
  ASSUME VolumeInv, NEW d \in 1..Len(nodes), nodes[d].dir, NEW x, x.cluster = First(nodes, d), x.underDeleted
  PROVE  FromDir(nodes, content, d, upToEndOfDirectory(readDirectory(x)))
<1> DEFINE cs == <<x.cluster>>
<1> DEFINE b == readDirectoryBytes(cs)
<1> DEFINE s == upToEndOfDirectory(b)
<1>1. nodes[d].clusters \in Seq(Clusters) /\ nodes[d].clusters # <<>> BY NodeIs DEF NodeOk
<1>2. x.cluster \in Clusters /\ x.cluster \in Range(nodes[d].clusters)
  <2>1. Len(nodes[d].clusters) \in Nat /\ 1 \in 1..Len(nodes[d].clusters) BY <1>1
  <2>2. nodes[d].clusters[1] \in Clusters BY <1>1, <2>1
  <2> QED BY <1>1, <2>1, <2>2, RangeIs, Zenon DEF First
<1>3. cs \in Seq(Clusters) /\ Range(cs) \subseteq Range(nodes[d].clusters)
  <2>1. cs \in Seq(Clusters) /\ Len(cs) = 1 /\ cs[1] = x.cluster BY <1>2
  <2>2. ASSUME NEW c \in Range(cs) PROVE c = x.cluster
    <3> HIDE DEF cs
    <3>1. PICK i \in 1..Len(cs) : cs[i] = c BY ONLY <2>1, c \in Range(cs), RangeIs, Zenon
    <3> QED BY <3>1, <2>1
  <2> QED BY <2>1, <2>2, <1>2
<1>4. readDirectory(x) = b BY DEF readDirectory
<1>6. (\E T : b \in Seq(T)) /\ Begins(b, SlotsIn(content, cs)) BY <1>3, BytesAreRead
<1>7. Begins(s, b)
  <2>1. PICK T : b \in Seq(T) BY <1>6
  <2> QED BY <2>1, EndIsFound
<1>8. Begins(s, SlotsIn(content, cs)) BY <1>6, <1>7, BeginsTwice, Zenon
<1>9. FromDir(nodes, content, d, s) BY <1>3, <1>8, BeginsFrom, Zenon
<1> QED BY <1>4, <1>9, Zenon

(* A list grows by the bytes it is given. *)
LEMMA AppendBytes ==
  ASSUME NEW r \in Extents, NEW x \in Extent
  PROVE  extentBytes(appendExtent(r, x)) = extentBytes(r) + x.len /\ extentBytes(r) \in Nat
<1> DEFINE e == appendExtent(r, x)
<1> DEFINE L == Len(r)
<1>1. e \in Extents /\ IsList(e) /\ IsList(r) /\ L \in Nat /\ x.len \in Nat
  BY AppendIs, ExtentsAreLists, ExtentIs DEF IsList
<1>2. extentBytes(r) \in Nat /\ extentBytes(r) = Before(r)[L]
  BY <1>1, BeforeIs
<1>3. CASE r # <<>> /\ Last(r).at + Last(r).len = x.at
  <2>1. e = [r EXCEPT ![Len(r)].len = @ + x.len] BY <1>3 DEF appendExtent
  <2>2. r \in Seq(Extent) /\ L >= 1 BY <1>3, <1>1 DEF Extents
  <2>3. Len(e) = L /\ (\A i \in 1..(L - 1) : e[i] = r[i]) /\ e[L].len = r[L].len + x.len
    <3>1. r[L] \in Extent BY <2>2
    <3> QED BY <2>1, <2>2, <3>1 DEF Extent
  <2> HIDE DEF e
  <2>4. Before(e)[L - 1] = Before(r)[L - 1]
    <3>1. PICK m : m = L - 1 OBVIOUS
    <3>2. m \in Nat /\ m <= Len(e) /\ m <= Len(r) /\ m \in 0..m /\ \A i \in 1..m : e[i].len = r[i].len
      BY <2>2, <2>3, <1>1, <3>1
    <3>3. Before(e)[m] = Before(r)[m] BY ONLY <3>2, <1>1, BeforeAgrees
    <3> QED BY ONLY <3>1, <3>3
  <2>5. Before(e)[L] = Before(e)[L - 1] + e[L].len /\ Before(r)[L] = Before(r)[L - 1] + r[L].len
    <3>1. L \in 1..Len(e) /\ L \in 1..Len(r) BY <2>2, <2>3, <1>1
    <3> QED BY ONLY <3>1, <1>1, BeforeIs
  <2>6. extentBytes(e) = Before(e)[L] BY <1>1, <2>3, BeforeIs
  <2>7. Before(r)[L - 1] \in Nat /\ r[L].len \in Nat
    <3>1. L - 1 \in 0..Len(r) /\ L \in 1..Len(r) BY <2>2, <1>1
    <3>2. Before(r) \in [0..Len(r) -> Nat] BY <1>1, BeforeIs
    <3> QED BY <3>1, <3>2, <1>1 DEF IsList
  <2> QED BY ONLY <2>3, <2>4, <2>5, <2>6, <2>7, <1>1, <1>2 DEF e
<1>4. CASE ~(r # <<>> /\ Last(r).at + Last(r).len = x.at)
  <2>1. e = Append(r, x) BY <1>4 DEF appendExtent
  <2>2. r \in Seq(Extent) BY <1>1 DEF Extents
  <2>3. Len(e) = L + 1 /\ (\A i \in 1..L : e[i] = r[i]) /\ e[L + 1] = x
    BY <2>1, <2>2, <1>1
  <2> HIDE DEF e
  <2>4. Before(e)[L] = Before(r)[L]
    <3>1. L <= Len(e) /\ L <= Len(r) /\ \A i \in 1..L : e[i].len = r[i].len BY <2>3, <1>1
    <3> QED BY ONLY <3>1, <1>1, BeforeAgrees
  <2>5. Before(e)[L + 1] = Before(e)[(L + 1) - 1] + e[L + 1].len
    <3>1. L + 1 \in 1..Len(e) BY <2>3, <1>1
    <3> QED BY ONLY <3>1, <1>1, BeforeIs
  <2>6. extentBytes(e) = Before(e)[L + 1] BY <1>1, <2>3, BeforeIs
  <2>7. (L + 1) - 1 = L BY <1>1
  <2> QED BY ONLY <2>3, <2>4, <2>5, <2>6, <2>7, <1>1, <1>2 DEF e
<1> QED BY <1>3, <1>4

(* A chain holds its clusters' bytes, so what fits in them is found. *)
LEMMA ChainIsEnough ==
  ASSUME NEW clusters \in Seq(Clusters), NEW size \in Nat \ {0}, size <= Len(clusters) * BytesPerCluster
  PROVE  chainExtents(clusters, size) # <<>>
<1>0. clusters # <<>>
  <2> SUFFICES ASSUME clusters = <<>> PROVE FALSE OBVIOUS
  <2>1. Len(clusters) = 0 /\ 0 * BytesPerCluster = 0 BY GeometryIs
  <2> QED BY <2>1
<1>1. PICK runs : Joins(clusters, runs) /\ chainExtents(clusters, size) = trimToSize(runs[Len(clusters)], size)
  BY <1>0, RunsAre
<1>2. PICK N, B : N = Len(clusters) /\ B = BytesPerCluster OBVIOUS
<1>3. N \in Nat /\ B \in Nat /\ \A k \in 1..N : clusters[k] \in Clusters BY <1>2, GeometryIs
<1>4. /\ runs \in [0..N -> Extents] /\ runs[0] = <<>>
      /\ \A k \in 1..N : runs[k] = appendExtent(runs[k - 1], ClusterExtent(clusters[k]))
  BY <1>1, <1>2 DEF Joins
<1> DEFINE S == {k \in Nat : k <= N => extentBytes(runs[k]) = k * B /\ AllInData(runs[k])}
<1>5. 0 \in S
  <2>1. extentBytes(<<>>) = 0
    <3>1. <<>> \in Extents /\ Len(<<>>) = 0 BY DEF Extents
    <3>2. IsList(<<>>) BY <3>1, ExtentsAreLists
    <3> QED BY ONLY <3>1, <3>2, BeforeIs
  <2>2. 0 * B = 0 BY <1>3
  <2> QED BY <1>4, <2>1, <2>2 DEF AllInData
<1>6. ASSUME NEW k \in S PROVE k + 1 \in S
  <2> SUFFICES ASSUME k + 1 <= N PROVE extentBytes(runs[k + 1]) = (k + 1) * B /\ AllInData(runs[k + 1])
    OBVIOUS
  <2>1. k \in Nat /\ k \in 0..N /\ k + 1 \in 1..N /\ (k + 1) - 1 = k /\ extentBytes(runs[k]) = k * B /\ AllInData(runs[k])
    BY <1>3
  <2>2. PICK r, x : r = runs[k] /\ x = ClusterExtent(clusters[k + 1]) OBVIOUS
  <2>3. r \in Extents /\ x \in Extent /\ InData(x) /\ x.len = B /\ runs[k + 1] = appendExtent(r, x)
    BY <1>2, <1>3, <1>4, <2>1, <2>2, ClusterIsInData
  <2>4. extentBytes(runs[k + 1]) = k * B + B BY ONLY <2>1, <2>2, <2>3, AppendBytes
  <2>5. AllInData(runs[k + 1]) BY ONLY <2>1, <2>2, <2>3, AppendIs
  <2>6. (k + 1) * B = k * B + 1 * B /\ 1 * B = B BY ONLY <2>1, <1>3, Distributed
  <2> QED BY ONLY <2>4, <2>5, <2>6
<1>7. S = Nat
  <2>1. S \in SUBSET Nat OBVIOUS
  <2> HIDE DEF S
  <2> QED BY <1>5, <1>6, <2>1, SetInduction
<1>8. PICK e : e = runs[N] OBVIOUS
<1>9. e \in Extents /\ extentBytes(e) = N * B /\ AllInData(e)
  <2>1. N \in S /\ N \in 0..N BY <1>3, <1>7
  <2> QED BY <1>4, <1>8, <2>1
<1>10. PICK m : CutTo(e, size, m, trimToSize(e, size))
  <2>1. \A i \in 1..Len(e) : e[i].len > 0 BY ONLY <1>9 DEF AllInData, InData
  <2>2. size <= extentBytes(e) BY <1>2, <1>9
  <2> QED BY ONLY <1>9, <2>1, <2>2, TrimmedIs, size \in Nat \ {0}
<1>11. m \in Nat /\ m >= 1 /\ Len(trimToSize(e, size)) = m
  <2>1. Len(e) \in Nat BY <1>9 DEF Extents
  <2> QED BY ONLY <2>1, <1>10 DEF CutTo
<1>12. chainExtents(clusters, size) = trimToSize(e, size) BY ONLY <1>1, <1>2, <1>8
<1>13. Len(<<>>) = 0 OBVIOUS
<1> QED BY ONLY <1>11, <1>12, <1>13

(* The entry a live file should come back as. *)
EntryOf(ns, n) ==
  [path |-> ns[n].path, size |-> ns[n].size, extents |-> chainExtents(ns[n].clusters, ns[n].size),
   state |-> "live", grade |-> "valid"]

(* A slot not marked as deleted names a live node under the directory it stands in. *)
LEMMA SlotNames ==
  ASSUME VolumeInv, TreeInv, kind = "fat", NEW c \in Clusters, NEW s \in SlotType, SlotOk(c, s), s.kind = "file", s.id # 0
  PROVE  /\ s.id \in 2..Len(nodes) /\ NodeIn(nodes, s.id) /\ (s.deleted <=> ~nodes[s.id].live) /\ s.dir = nodes[s.id].dir
         /\ s.size = nodes[s.id].size /\ (nodes[s.id].clusters # <<>> => s.cluster = First(nodes, s.id))
         /\ c \in Range(nodes[Parent(nodes, s.id)].clusters)
<1>1. Names(c, s) /\ Marked(s) BY DEF SlotOk
<1>2. s.id \in 2..Len(nodes) /\ Describes(s) /\ c \in Range(nodes[ParentOf(s.id)].clusters)
  BY ONLY <1>1, s.id # 0, Zenon DEF Names
<1>3. NodeIn(nodes, s.id) BY ONLY <1>2, TreeInv, Zenon DEF TreeInv
<1>4. s.deleted <=> ~nodes[s.id].live BY ONLY <1>1, s.id # 0, Zenon DEF Marked
<1>5. s.dir = nodes[s.id].dir /\ s.size = nodes[s.id].size /\ (nodes[s.id].clusters # <<>> => s.cluster = First(nodes, s.id))
  BY ONLY <1>2, s.kind = "file", kind = "fat", Zenon DEF Describes, First
<1> QED BY <1>2, <1>3, <1>4, <1>5, ParentAgrees, Zenon

LEMMA LiveSlotEntry ==
  ASSUME VolumeInv, TreeInv, kind = "fat", NEW c \in Clusters, NEW s \in SlotType, SlotOk(c, s), s.kind = "file",
         ~s.dir, ~s.deleted, s.id # 0, ~cursor.underDeleted, cursor.path = nodes[Parent(nodes, s.id)].path
  PROVE  entryFromSlot(s) = EntryOf(nodes, s.id)
<1>1. PICK n, o : n = s.id /\ o = nodes[n] OBVIOUS
<1>2. n \in 2..Len(nodes) /\ NodeIn(nodes, n) /\ nodes[n].live /\ ~o.dir /\ s.size = o.size
      /\ (o.clusters # <<>> => s.cluster = First(nodes, n))
  BY <1>1, SlotNames
<1>3. Append(cursor.path, n) = o.path BY <1>1, <1>2 DEF NodeIn
<1>4. n \in 1..Len(nodes) /\ o.clusters \in Seq(Clusters) /\ o.size \in Nat /\ o.size <= Len(o.clusters) * BytesPerCluster
  <2>1. n \in 1..Len(nodes) BY <1>2, LengthIs
  <2> QED BY <2>1, <1>1, <1>2, NodeIs DEF NodeOk
<1>5. locateShort(s) = chainExtents(o.clusters, o.size) /\ located(locateShort(s), s.size)
  <2>1. CASE o.size = 0
    <3>1. locateShort(s) = <<>> BY <1>2, <2>1 DEF locateShort
    <3>2. chainExtents(o.clusters, o.size) = <<>> BY <2>1 DEF chainExtents
    <3> QED BY <3>1, <3>2, <1>2, <2>1 DEF located
  <2>2. CASE o.size # 0
    <3>1. chainExtents(o.clusters, o.size) # <<>>
      <4>1. o.size \in Nat \ {0} BY <1>4, <2>2
      <4> QED BY ONLY <4>1, <1>4, ChainIsEnough
    <3>2. o.clusters # <<>> BY <3>1 DEF chainExtents
    <3>3. s.cluster = o.clusters[1] /\ isDataCluster(s.cluster)
      BY <1>1, <1>2, <1>4, <3>2 DEF First, isDataCluster
    <3>4. chainFrom(table, s.cluster) = o.clusters BY <1>1, <1>2, <1>4, <3>2, <3>3, LiveIsFollowed
    <3>5. locateShort(s) = chainExtents(o.clusters, o.size)
      BY <1>2, <2>2, <3>3, <3>4, Zenon DEF locateShort, extentsFollowingChain
    <3> QED BY <3>1, <3>5 DEF located
  <2> QED BY <2>1, <2>2
<1>6. PICK x : x = locateShort(s) OBVIOUS
<1>7. entryFromSlot(s) = [path |-> Append(cursor.path, n), size |-> s.size, extents |-> x, state |-> "live", grade |-> "valid"]
  BY <1>1, <1>5, <1>6 DEF entryFromSlot
<1> QED BY <1>1, <1>2, <1>3, <1>5, <1>6, <1>7 DEF EntryOf

(* x stands for the directory d. *)
At(ns, x, d) ==
  /\ d \in 1..Len(ns) /\ ns[d].dir /\ x.cluster = First(ns, d) /\ x.path = ns[d].path
  /\ x.depth = Len(ns[d].path) /\ (x.underDeleted <=> ~ns[d].live)

Waits(ns, p, d) == \E i \in DOMAIN p : p[i].cluster = First(ns, d)

(* The walk is past the slot of n. *)
Passed(ns, p, x, s, v, n) ==
  LET d == Parent(ns, n) IN
  /\ First(ns, d) \in v /\ ~Waits(ns, p, d)
  /\ x # NoCursor /\ x.cluster = First(ns, d) => ~HasSlot(s, n)

FitsBound(ns, d) == Len(ns[d].clusters) * SlotsPerCluster <= kMaxDirectorySlots

Reach(ns, n) ==
  /\ ns[n].dir => Len(ns[n].path) <= kMaxDirectoryDepth
  /\ ~ns[n].dir => Len(ns[n].path) <= kMaxDirectoryDepth + 1
  /\ FitsBound(ns, 1) /\ \A d \in Range(Front(ns[n].path)) : FitsBound(ns, d)

Found(ns, v, r, n) ==
  /\ ns[n].dir => First(ns, n) \in v
  /\ ~ns[n].dir => \E i \in DOMAIN r : r[i] = EntryOf(ns, n)

EnteredFrom(ns, v, c) ==
  \E d \in 1..Len(ns) : ns[d].dir /\ First(ns, d) = c /\ (d # 1 => First(ns, Parent(ns, d)) \in v)

Reads(ns, con, p, x, s, v) ==
  /\ x.cluster \in v /\ \A i \in DOMAIN p : p[i].cluster # x.cluster
  /\ \E d : At(ns, x, d) /\ FromDir(ns, con, d, s) /\ (ns[d].live => OneSlotEach(s) /\ DotsOnly(s))

IsLiveFile(ns, n) == n \in 2..Len(ns) /\ ns[n].live /\ ~ns[n].dir

AllEntered(ns, v) == kFirstCluster \in v /\ \A c \in v : EnteredFrom(ns, v, c)
AllAt(ns, p) == \A i \in DOMAIN p : \E d : At(ns, p[i], d)
AllFound(ns, p, x, s, v, r) ==
  \A n \in 2..Len(ns) : ns[n].live /\ Reach(ns, n) /\ Passed(ns, p, x, s, v, n) => Found(ns, v, r, n)
AllTrue(ns, p, x, s, v, r) ==
  \A i \in DOMAIN r : r[i].grade = "valid" =>
    \E n : IsLiveFile(ns, n) /\ r[i] = EntryOf(ns, n) /\ Passed(ns, p, x, s, v, n)
AllOnce(r) == \A i, j \in DOMAIN r : r[i].grade = "valid" /\ r[i] = r[j] => i = j

WalkOk(ns, con, p, x, s, v, r) ==
  /\ AllEntered(ns, v) /\ AllAt(ns, p) /\ (x # NoCursor => Reads(ns, con, p, x, s, v))
  /\ AllFound(ns, p, x, s, v, r) /\ AllTrue(ns, p, x, s, v, r) /\ AllOnce(r)

(* The tree of a FAT volume on which no directory's cluster was given to another one. *)
FatTree == VolumeInv /\ TreeInv /\ kind = "fat" /\ NoReuse

LEMMA DirectoryIs ==
  ASSUME FatTree, NEW d \in 1..Len(nodes), nodes[d].dir
  PROVE  First(nodes, d) \in Clusters /\ First(nodes, d) \in Range(nodes[d].clusters)
<1>1. nodes[d].clusters \in Seq(Clusters) /\ nodes[d].clusters # <<>> BY NodeIs DEF NodeOk, FatTree
<1>2. Len(nodes[d].clusters) \in Nat /\ 1 \in 1..Len(nodes[d].clusters) BY <1>1
<1>3. nodes[d].clusters[1] \in Clusters BY <1>1, <1>2
<1> QED BY <1>1, <1>2, <1>3, RangeIs, Zenon DEF First

(* No two directories share a cluster. *)
LEMMA OneDirectory ==
  ASSUME FatTree, NEW d \in 1..Len(nodes), nodes[d].dir, NEW e \in 1..Len(nodes), nodes[e].dir,
         NEW c \in Range(nodes[d].clusters), c \in Range(nodes[e].clusters)
  PROVE  d = e
<1> SUFFICES ASSUME d # e PROVE FALSE OBVIOUS
<1>1. Apart(nodes, d, e) BY DEF FatTree, TreeInv
<1>2. Range(nodes[d].clusters) \cap Range(nodes[e].clusters) = {} BY <1>1, Zenon DEF Apart, FatTree
<1> QED BY <1>2

LEMMA SameFirst ==
  ASSUME FatTree, NEW d \in 1..Len(nodes), nodes[d].dir, NEW e \in 1..Len(nodes), nodes[e].dir,
         First(nodes, d) = First(nodes, e)
  PROVE  d = e
BY DirectoryIs, OneDirectory

LEMMA UnderDirectory ==
  ASSUME FatTree, NEW n \in 2..Len(nodes)
  PROVE  LET p == Parent(nodes, n) IN
         /\ p \in 1..Len(nodes) /\ p \in 1..(n - 1) /\ nodes[p].dir /\ (nodes[n].live => nodes[p].live)
         /\ nodes[n].path = Append(nodes[p].path, n) /\ Len(nodes[n].path) = Len(nodes[p].path) + 1
         /\ Len(nodes[p].path) \in Nat /\ nodes[n].path[Len(nodes[n].path)] = n
<1>1. PICK p : p = Parent(nodes, n) OBVIOUS
<1>2. NodeIn(nodes, n) /\ Len(nodes) \in Nat BY LengthIs, Zenon DEF FatTree, TreeInv
<1>3. p \in 1..(n - 1) /\ nodes[p].dir /\ nodes[n].path = Append(nodes[p].path, n) /\ (nodes[n].live => nodes[p].live)
  BY <1>1, <1>2, Zenon DEF NodeIn
<1>4. p \in 1..Len(nodes) BY <1>2, <1>3
<1>5. nodes[p].path \in Seq(Nat) BY <1>4, NodeIs DEF FatTree
<1>6. /\ Len(nodes[n].path) = Len(nodes[p].path) + 1 /\ Len(nodes[p].path) \in Nat
      /\ nodes[n].path[Len(nodes[p].path) + 1] = n
  BY <1>3, <1>5
<1> QED BY <1>1, <1>3, <1>4, <1>6, Zenon

LEMMA AtOne ==
  ASSUME FatTree, NEW x, NEW d, At(nodes, x, d), NEW e \in 1..Len(nodes), nodes[e].dir, x.cluster = First(nodes, e)
  PROVE  e = d
BY SameFirst DEF At

(* What the slot being passed over says. *)
LEMMA SlotUnder ==
  ASSUME FatTree, NEW s, NEW d, d \in 1..Len(nodes), nodes[d].dir, FromDir(nodes, content, d, s), NEW j \in 1..Len(s),
         s[j].kind = "file", s[j].id # 0
  PROVE  LET n == s[j].id IN
         /\ n \in 2..Len(nodes) /\ Parent(nodes, n) = d /\ (s[j].deleted <=> ~nodes[n].live) /\ s[j].dir = nodes[n].dir
         /\ nodes[n].dir => s[j].cluster = First(nodes, n)
         /\ s[j] \in SlotType /\ \E c \in Clusters : SlotOk(c, s[j])
<1>1. PICK c \in Range(nodes[d].clusters) : \E i \in 1..SlotsPerCluster : c \in Clusters /\ s[j] = content[c][i]
  BY Zenon DEF FromDir
<1>2. PICK i \in 1..SlotsPerCluster : c \in Clusters /\ s[j] = content[c][i] BY <1>1
<1>3. s[j] \in SlotType /\ SlotOk(c, s[j]) BY <1>2 DEF FatTree, VolumeInv, VolumeType, SlotsInv
<1>4. PICK n : n = s[j].id OBVIOUS
<1>5. /\ n \in 2..Len(nodes) /\ (s[j].deleted <=> ~nodes[n].live) /\ s[j].dir = nodes[n].dir
      /\ (nodes[n].clusters # <<>> => s[j].cluster = First(nodes, n)) /\ c \in Range(nodes[Parent(nodes, n)].clusters)
  BY <1>2, <1>3, <1>4, SlotNames, Zenon DEF FatTree
<1>6. Parent(nodes, n) \in 1..Len(nodes) /\ nodes[Parent(nodes, n)].dir BY <1>5, UnderDirectory
<1>7. Parent(nodes, n) = d BY <1>1, <1>5, <1>6, OneDirectory
<1>8. nodes[n].dir => nodes[n].clusters # <<>>
  <2>1. n \in 1..Len(nodes) BY <1>5, LengthIs DEF FatTree
  <2> QED BY <2>1, NodeIs DEF NodeOk, FatTree
<1> QED BY <1>2, <1>3, <1>4, <1>5, <1>7, <1>8, Zenon

(* `.` and `..` lead back to where the walk has been. *)
LEMMA DotsAreVisited ==
  ASSUME FatTree, NEW s, NEW d, d \in 1..Len(nodes), nodes[d].dir, FromDir(nodes, content, d, s), NEW j \in 1..Len(s),
         s[j].kind = "file", s[j].id = 0, s[j].dir, s[j].cluster \in Clusters, NEW v, First(nodes, d) \in v, AllEntered(nodes, v)
  PROVE  s[j].cluster \in v
<1>1. PICK c \in Range(nodes[d].clusters) : \E i \in 1..SlotsPerCluster : c \in Clusters /\ s[j] = content[c][i]
  BY Zenon DEF FromDir
<1>2. PICK i \in 1..SlotsPerCluster : c \in Clusters /\ s[j] = content[c][i] BY <1>1
<1>3. Dotted(nodes, c, s[j]) BY <1>2 DEF FatTree, TreeInv
<1>4. s[j].cluster # 0 BY GeometryIs
<1>5. PICK e \in 2..Len(nodes) : DotOf(nodes, e, c, s[j]) BY <1>3, <1>4, Zenon DEF Dotted
<1>6. nodes[e].dir /\ First(nodes, e) = c /\ (s[j].cluster = c \/ s[j].cluster = First(nodes, Parent(nodes, e)))
  BY <1>5, Zenon DEF DotOf, First
<1>7. e \in 1..Len(nodes) BY <1>5, LengthIs DEF FatTree
<1>8. c \in Range(nodes[e].clusters) BY <1>6, <1>7, DirectoryIs, Zenon
<1>9. e = d BY <1>1, <1>6, <1>7, <1>8, OneDirectory
<1>10. PICK f \in 1..Len(nodes) : nodes[f].dir /\ First(nodes, f) = First(nodes, d) /\ (f # 1 => First(nodes, Parent(nodes, f)) \in v)
  BY Zenon DEF AllEntered, EnteredFrom
<1>11. f = d BY <1>10, SameFirst
<1>12. d # 1 BY <1>5, <1>9
<1> QED BY <1>6, <1>9, <1>10, <1>11, <1>12

(* What is left once the first slot is passed. *)
LEMMA TailSlots ==
  ASSUME NEW T, NEW s \in Seq(T), s # <<>>, NEW ns, NEW con, NEW d
  PROVE  LET t == Tail(s) IN
         /\ 1 \in 1..Len(s) /\ Head(s) = s[1]
         /\ FromDir(ns, con, d, s) => FromDir(ns, con, d, t)
         /\ OneSlotEach(s) => OneSlotEach(t)
         /\ DotsOnly(s) => DotsOnly(t)
         /\ \A n : HasSlot(t, n) => HasSlot(s, n)
         /\ \A n : HasSlot(s, n) => HasSlot(t, n) \/ (s[1].kind = "file" /\ s[1].id = n)
         /\ OneSlotEach(s) /\ s[1].kind = "file" /\ s[1].id # 0 => ~HasSlot(t, s[1].id)
<1>1. PICK t : t = Tail(s) OBVIOUS
<1>2. PICK L : L = Len(s) OBVIOUS
<1>3. L \in Nat /\ L >= 1 /\ Len(t) = L - 1 /\ (\A j \in 1..(L - 1) : t[j] = s[j + 1]) /\ Head(s) = s[1]
  BY <1>1, <1>2
<1>4. 1 \in 1..Len(s) BY ONLY <1>2, <1>3
<1>5. \A j \in 1..Len(t) : j + 1 \in 1..Len(s) /\ t[j] = s[j + 1] BY ONLY <1>2, <1>3
<1>6. FromDir(ns, con, d, s) => FromDir(ns, con, d, t)
  <2> SUFFICES ASSUME FromDir(ns, con, d, s), NEW j \in 1..Len(t)
               PROVE  \E c \in Range(ns[d].clusters) : \E i \in 1..SlotsPerCluster : c \in Clusters /\ t[j] = con[c][i]
    BY Zenon DEF FromDir
  <2>1. PICK k : k = j + 1 OBVIOUS
  <2>2. k \in 1..Len(s) /\ t[j] = s[k] BY <1>5, <2>1
  <2>3. \E c \in Range(ns[d].clusters) : \E i \in 1..SlotsPerCluster : c \in Clusters /\ s[k] = con[c][i]
    BY <2>2, Zenon DEF FromDir
  <2> QED BY <2>2, <2>3, Zenon
<1>7. OneSlotEach(s) => OneSlotEach(t)
  <2> SUFFICES ASSUME OneSlotEach(s), NEW j \in 1..Len(t), NEW k \in 1..Len(t), t[j].kind = "file", t[k].kind = "file",
                      t[j].id = t[k].id, t[j].id # 0
               PROVE  j = k
    BY Zenon DEF OneSlotEach
  <2>1. j + 1 = k + 1 BY ONLY <1>5, OneSlotEach(s), j \in 1..Len(t), k \in 1..Len(t), t[j].kind = "file", t[k].kind = "file",
                      t[j].id = t[k].id, t[j].id # 0, Zenon DEF OneSlotEach
  <2> QED BY ONLY <2>1, <1>2, <1>3, j \in 1..Len(t), k \in 1..Len(t)
<1>8. DotsOnly(s) => DotsOnly(t) BY ONLY <1>5, Zenon DEF DotsOnly
<1>9. \A n : HasSlot(t, n) => HasSlot(s, n) BY ONLY <1>5, Zenon DEF HasSlot
<1>10. ASSUME NEW n, HasSlot(s, n) PROVE HasSlot(t, n) \/ (s[1].kind = "file" /\ s[1].id = n)
  <2>1. PICK j \in 1..Len(s) : s[j].kind = "file" /\ s[j].id = n BY <1>10, Zenon DEF HasSlot
  <2>2. CASE j = 1 BY <2>1, <2>2
  <2>3. CASE j # 1
    <3>1. j - 1 \in 1..Len(t) /\ (j - 1) + 1 = j BY ONLY <2>1, <2>3, <1>2, <1>3
    <3>2. t[j - 1] = s[j] BY <1>5, <3>1, Zenon
    <3> QED BY <3>1, <3>2, <2>1, Zenon DEF HasSlot
  <2> QED BY <2>2, <2>3
<1>11. ASSUME OneSlotEach(s), s[1].kind = "file", s[1].id # 0, HasSlot(t, s[1].id) PROVE FALSE
  <2>1. PICK j \in 1..Len(t) : t[j].kind = "file" /\ t[j].id = s[1].id BY <1>11, Zenon DEF HasSlot
  <2>2. j + 1 = 1 BY <1>4, <1>5, <1>11, <2>1, Zenon DEF OneSlotEach
  <2> QED BY <2>2, <1>2, <1>3, <2>1
<1> QED BY ONLY <1>1, <1>3, <1>4, <1>6, <1>7, <1>8, <1>9, <1>10, <1>11

LEMMA EntryNames ==
  ASSUME FatTree, NEW m, NEW n, IsLiveFile(nodes, m), IsLiveFile(nodes, n), EntryOf(nodes, m) = EntryOf(nodes, n)
  PROVE  m = n
<1>1. nodes[m].path = nodes[n].path
  <2>1. EntryOf(nodes, m).path = nodes[m].path /\ EntryOf(nodes, n).path = nodes[n].path BY DEF EntryOf
  <2> QED BY <2>1
<1>2. nodes[m].path[Len(nodes[m].path)] = m /\ nodes[n].path[Len(nodes[n].path)] = n
  BY UnderDirectory DEF IsLiveFile
<1> QED BY <1>1, <1>2

(* Nothing is passed yet when the walk sets out. *)
LEMMA WalkStarts ==
  ASSUME FatTree, NEW s
  PROVE  WalkOk(nodes, content, <<[NoCursor EXCEPT !.cluster = kFirstCluster]>>, NoCursor, s, {kFirstCluster}, <<>>)
<1> DEFINE y == [NoCursor EXCEPT !.cluster = kFirstCluster]
<1>1. PICK x : x = y OBVIOUS
<1>2. x.cluster = kFirstCluster /\ x.path = <<>> /\ x.depth = 0 /\ ~x.underDeleted BY <1>1 DEF NoCursor
<1>3. PICK p : p = <<x>> OBVIOUS
<1>4. DOMAIN p = {1} /\ p[1] = x BY <1>3
<1>5. 1 \in 1..Len(nodes) /\ nodes[1].dir /\ nodes[1].live /\ nodes[1].path = <<>> /\ First(nodes, 1) = kFirstCluster
  <2>1. 1 \in 1..Len(nodes) BY LengthIs DEF FatTree
  <2>2. First(nodes, 1) = kFirstCluster BY DEF FatTree, TreeInv, First
  <2> QED BY <2>1, <2>2, NodeIs DEF NodeOk, FatTree
<1>6. At(nodes, x, 1) BY <1>2, <1>5 DEF At
<1>7. AllEntered(nodes, {kFirstCluster})
  <2>1. EnteredFrom(nodes, {kFirstCluster}, kFirstCluster) BY <1>5 DEF EnteredFrom
  <2> QED BY <2>1 DEF AllEntered
<1>8. AllAt(nodes, p) BY <1>4, <1>6, Zenon DEF AllAt
<1>9. ASSUME NEW n, Passed(nodes, p, NoCursor, s, {kFirstCluster}, n) PROVE FALSE
  <2>1. First(nodes, Parent(nodes, n)) = kFirstCluster /\ ~Waits(nodes, p, Parent(nodes, n)) BY <1>9 DEF Passed
  <2> QED BY <2>1, <1>2, <1>4, Zenon DEF Waits
<1>10. AllFound(nodes, p, NoCursor, s, {kFirstCluster}, <<>>) BY <1>9, Zenon DEF AllFound
<1>11. DOMAIN <<>> = {} OBVIOUS
<1>12. AllTrue(nodes, p, NoCursor, s, {kFirstCluster}, <<>>) /\ AllOnce(<<>>) BY <1>11 DEF AllTrue, AllOnce
<1>13. WalkOk(nodes, content, p, NoCursor, s, {kFirstCluster}, <<>>) BY <1>7, <1>8, <1>10, <1>12, Zenon DEF WalkOk
<1> QED BY ONLY <1>13, <1>1, <1>3

LEMMA FrontAppends ==
  ASSUME NEW b \in Seq(Nat), NEW n \in Nat
  PROVE  Front(Append(b, n)) = b
<1>1. Append(b, n) \in Seq(Nat) /\ Append(b, n) # <<>> BY AppendProperties
<1>2. PICK f : f = Front(Append(b, n)) OBVIOUS
<1>3. IsSequence(f) /\ DOMAIN f = 1..(Len(Append(b, n)) - 1) /\ \A i \in 1..(Len(Append(b, n)) - 1) : f[i] = Append(b, n)[i]
  BY <1>1, <1>2, FrontTyped
<1>4. Len(Append(b, n)) - 1 = Len(b) /\ Len(b) \in Nat /\ \A i \in 1..Len(b) : Append(b, n)[i] = b[i] OBVIOUS
<1>5. DOMAIN f = 1..Len(b) /\ (\A i \in 1..Len(b) : f[i] = b[i]) BY <1>3, <1>4
<1>6. f = [i \in 1..Len(f) |-> f[i]] /\ DOMAIN f = 1..Len(f) BY <1>3, SequenceOf DEF IsSequence
<1>7. f = [i \in 1..Len(b) |-> b[i]] BY <1>5, <1>6
<1>8. b = [i \in 1..Len(b) |-> b[i]] OBVIOUS
<1> QED BY <1>2, <1>7, <1>8

LEMMA FrontWithin ==
  ASSUME NEW b \in Seq(Nat), Len(b) >= 1, NEW d \in Range(Front(b))
  PROVE  d \in Range(b)
<1>1. b # <<>> OBVIOUS
<1>2. PICK f : f = Front(b) OBVIOUS
<1>3. DOMAIN f = 1..(Len(b) - 1) /\ \A i \in 1..(Len(b) - 1) : f[i] = b[i] BY <1>1, <1>2, FrontTyped
<1>4. PICK i \in DOMAIN f : f[i] = d BY <1>2 DEF Range
<1>5. i \in 1..Len(b) /\ b[i] = d BY <1>3, <1>4
<1> QED BY <1>5, RangeIs

(* Every directory above what is in reach is within the bound. *)
LEMMA ReachFits ==
  ASSUME FatTree, NEW n \in 2..Len(nodes), Reach(nodes, n)
  PROVE  LET p == Parent(nodes, n) IN FitsBound(nodes, p) /\ (p # 1 => Reach(nodes, p))
<1>1. PICK p, a, b : p = Parent(nodes, n) /\ a = nodes[n].path /\ b = nodes[p].path OBVIOUS
<1>2. p \in 1..Len(nodes) /\ nodes[p].dir /\ a = Append(b, n) /\ Len(a) = Len(b) + 1 /\ Len(b) \in Nat
  BY <1>1, UnderDirectory
<1>3. b \in Seq(Nat) BY <1>1, <1>2, NodeIs DEF FatTree
<1>4. n \in Nat BY LengthIs DEF FatTree
<1>5. Front(a) = b BY <1>2, <1>3, <1>4, FrontAppends
<1>6. FitsBound(nodes, 1) /\ \A d \in Range(b) : FitsBound(nodes, d) BY <1>1, <1>5 DEF Reach
<1>7. p # 1 => p > 1 /\ Len(b) >= 1 /\ b[Len(b)] = p
  <2>1. p # 1 => p \in 2..Len(nodes) BY <1>2, LengthIs DEF FatTree
  <2>2. p # 1 => Len(b) >= 1 /\ b[Len(b)] = p
    <3> SUFFICES ASSUME p # 1 PROVE Len(b) >= 1 /\ b[Len(b)] = p OBVIOUS
    <3>1. Len(b) = Len(nodes[Parent(nodes, p)].path) + 1 /\ Len(nodes[Parent(nodes, p)].path) \in Nat /\ b[Len(b)] = p
      BY <1>1, <2>1, UnderDirectory
    <3> QED BY <3>1
  <2> QED BY <1>2, <2>1, <2>2
<1>8. FitsBound(nodes, p)
  <2>1. CASE p = 1 BY <1>6, <2>1
  <2>2. CASE p # 1
    <3>1. Len(b) \in 1..Len(b) /\ b[Len(b)] = p BY <1>2, <1>7, <2>2
    <3>2. p \in Range(b) BY <1>3, <3>1, RangeIs, Zenon
    <3> QED BY <1>6, <3>2
  <2> QED BY <2>1, <2>2
<1>9. p # 1 => Reach(nodes, p)
  <2> SUFFICES ASSUME p # 1 PROVE Reach(nodes, p) OBVIOUS
  <2>1. Len(b) <= kMaxDirectoryDepth
    <3>1. Len(a) <= kMaxDirectoryDepth + 1 BY <1>1, WalkAssumption, <1>2 DEF Reach
    <3> QED BY <3>1, <1>2, WalkAssumption
  <2>2. ASSUME NEW d \in Range(Front(b)) PROVE FitsBound(nodes, d)
    <3>1. d \in Range(b) BY <1>3, <1>7, FrontWithin
    <3> QED BY <3>1, <1>6
  <2> QED BY <1>1, <1>2, <1>6, <2>1, <2>2 DEF Reach
<1> QED BY <1>1, <1>8, <1>9, Zenon

(* A directory taken up and read. *)
LEMMA WalkReads ==
  ASSUME FatTree, NEW p, IsSequence(p), p # <<>>, NEW z, NEW v, NEW r, WalkOk(nodes, content, p, NoCursor, z, v, r),
         \A i \in DOMAIN p : p[i].cluster \in v, \A i, j \in DOMAIN p : p[i].cluster = p[j].cluster => i = j,
         NEW x, x = Last(p), NEW q, q = Front(p), NEW s, s = upToEndOfDirectory(readDirectory(x))
  PROVE  WalkOk(nodes, content, q, x, s, v, r)
<1>1. PICK L : L = Len(p) OBVIOUS
<1>2. /\ L \in Nat /\ L >= 1 /\ DOMAIN p = 1..L /\ DOMAIN q = 1..(L - 1) /\ (\A i \in 1..(L - 1) : q[i] = p[i])
      /\ x = p[L]
  <2>1. DOMAIN p = 1..L /\ L \in Nat BY <1>1, SequenceOf
  <2>2. L \in 1..L /\ DOMAIN q = 1..(L - 1) /\ \A i \in 1..(L - 1) : q[i] = p[i] BY <1>1, FrontSequence
  <2>3. x = p[L] BY <1>1 DEF Last
  <2> QED BY ONLY <2>1, <2>2, <2>3
<1>3. \A i \in DOMAIN q : i \in DOMAIN p /\ q[i] = p[i] /\ i # L BY ONLY <1>2
<1>4. L \in DOMAIN p BY ONLY <1>2
<1>5. x.cluster \in v /\ \A i \in DOMAIN q : q[i].cluster # x.cluster BY <1>2, <1>3, <1>4
<1>6. /\ AllEntered(nodes, v) /\ AllAt(nodes, p) /\ AllFound(nodes, p, NoCursor, z, v, r)
      /\ AllTrue(nodes, p, NoCursor, z, v, r) /\ AllOnce(r)
  BY Zenon DEF WalkOk
<1>7. PICK d : At(nodes, x, d) BY <1>2, <1>4, <1>6, Zenon DEF AllAt
<1>8. d \in 1..Len(nodes) /\ nodes[d].dir /\ x.cluster = First(nodes, d) /\ (x.underDeleted <=> ~nodes[d].live)
  BY <1>7, Zenon DEF At
<1>9. /\ FromDir(nodes, content, d, s) /\ (nodes[d].live => OneSlotEach(s) /\ DotsOnly(s))
      /\ nodes[d].live /\ FitsBound(nodes, d) => Lists(nodes, d, s)
  <2>1. CASE nodes[d].live
    <3>1. d \in LiveDirectories BY <1>8, <2>1, LiveIs DEF FatTree
    <3> QED BY <1>8, <2>1, <3>1, ReadLive DEF FatTree, FitsBound
  <2>2. CASE ~nodes[d].live BY <1>8, <2>2, ReadRemoved DEF FatTree
  <2> QED BY <2>1, <2>2
<1>10. Reads(nodes, content, q, x, s, v) BY <1>5, <1>7, <1>9, Zenon DEF Reads
<1>11. AllAt(nodes, q) BY <1>3, <1>6, Zenon DEF AllAt
<1>12. AllFound(nodes, q, x, s, v, r)
  <2> SUFFICES ASSUME NEW n \in 2..Len(nodes), nodes[n].live, Reach(nodes, n), Passed(nodes, q, x, s, v, n)
               PROVE  Found(nodes, v, r, n)
    BY Zenon DEF AllFound
  <2>1. PICK e : e = Parent(nodes, n) OBVIOUS
  <2>2. First(nodes, e) \in v /\ ~Waits(nodes, q, e) /\ (x # NoCursor /\ x.cluster = First(nodes, e) => ~HasSlot(s, n))
    BY <2>1, Zenon DEF Passed
  <2>3. e \in 1..Len(nodes) /\ nodes[e].dir /\ nodes[e].live BY <2>1, UnderDirectory
  <2>4. CASE x.cluster = First(nodes, e)
    <3>1. e = d BY <1>7, <2>3, <2>4, AtOne
    <3>2. x # NoCursor
      <4>1. First(nodes, d) \in Clusters BY <1>8, DirectoryIs
      <4>2. x.cluster # 0 BY <4>1, <1>8, GeometryIs
      <4> QED BY <4>2 DEF NoCursor
    <3>3. FitsBound(nodes, e) BY <2>1, ReachFits
    <3>4. HasSlot(s, n) BY <1>9, <2>1, <2>3, <3>1, <3>3, Zenon DEF Lists
    <3> QED BY <2>2, <2>4, <3>2, <3>4
  <2>5. CASE x.cluster # First(nodes, e)
    <3>1. ~Waits(nodes, p, e)
      <4> SUFFICES ASSUME NEW i \in DOMAIN p, p[i].cluster = First(nodes, e) PROVE FALSE BY Zenon DEF Waits
      <4>1. i # L BY <1>2, <2>5
      <4>2. i \in DOMAIN q /\ q[i] = p[i] BY ONLY <1>2, <4>1, i \in DOMAIN p
      <4> QED BY <2>2, <4>2, Zenon DEF Waits
    <3>2. Passed(nodes, p, NoCursor, z, v, n) BY <2>1, <2>2, <3>1, Zenon DEF Passed
    <3> QED BY <1>6, <3>2, Zenon DEF AllFound
  <2> QED BY <2>4, <2>5
<1>13. ASSUME NEW n, Passed(nodes, p, NoCursor, z, v, n) PROVE Passed(nodes, q, x, s, v, n)
  <2>1. PICK e : e = Parent(nodes, n) OBVIOUS
  <2>2. First(nodes, e) \in v /\ ~Waits(nodes, p, e) BY <1>13, <2>1, Zenon DEF Passed
  <2>3. ~Waits(nodes, q, e) BY <2>2, <1>3, Zenon DEF Waits
  <2>4. x.cluster # First(nodes, e) BY <2>2, <1>2, <1>4, Zenon DEF Waits
  <2> QED BY <2>1, <2>2, <2>3, <2>4, Zenon DEF Passed
<1>14. AllTrue(nodes, q, x, s, v, r) BY <1>6, <1>13, Zenon DEF AllTrue
<1> QED BY <1>6, <1>10, <1>11, <1>12, <1>14, Zenon DEF WalkOk

(* Passing a slot only adds its own node to what is passed. *)
LEMMA TailPasses ==
  ASSUME NEW p, NEW x, x # NoCursor, NEW T, NEW s \in Seq(T), s # <<>>, NEW t, t = Tail(s), NEW v, NEW n
  PROVE  /\ Passed(nodes, p, x, s, v, n) => Passed(nodes, p, x, t, v, n)
         /\ Passed(nodes, p, x, t, v, n) =>
              Passed(nodes, p, x, s, v, n) \/ (s[1].kind = "file" /\ s[1].id = n)
<1>1. (HasSlot(t, n) => HasSlot(s, n)) /\ (HasSlot(s, n) => HasSlot(t, n) \/ (s[1].kind = "file" /\ s[1].id = n))
  BY TailSlots
<1> QED BY <1>1, Zenon DEF Passed

LEMMA TailReads ==
  ASSUME NEW p, NEW x, NEW T, NEW s \in Seq(T), s # <<>>, NEW t, t = Tail(s), NEW v, Reads(nodes, content, p, x, s, v)
  PROVE  Reads(nodes, content, p, x, t, v)
<1>1. PICK d : At(nodes, x, d) /\ FromDir(nodes, content, d, s) /\ (nodes[d].live => OneSlotEach(s) /\ DotsOnly(s))
  BY Zenon DEF Reads
<1>2. FromDir(nodes, content, d, t) /\ (nodes[d].live => OneSlotEach(t) /\ DotsOnly(t)) BY <1>1, TailSlots
<1> QED BY <1>1, <1>2, Zenon DEF Reads

(* A slot passed over without an entry. *)
LEMMA WalkPasses ==
  ASSUME NEW p, NEW x, x # NoCursor, NEW T, NEW s \in Seq(T), s # <<>>, NEW t, t = Tail(s), NEW v, NEW r,
         WalkOk(nodes, content, p, x, s, v, r),
         \A n \in 2..Len(nodes) :
           s[1].kind = "file" /\ s[1].id = n /\ nodes[n].live /\ Reach(nodes, n) => Found(nodes, v, r, n)
  PROVE  WalkOk(nodes, content, p, x, t, v, r)
<1>1. /\ AllEntered(nodes, v) /\ AllAt(nodes, p) /\ Reads(nodes, content, p, x, s, v)
      /\ AllFound(nodes, p, x, s, v, r) /\ AllTrue(nodes, p, x, s, v, r) /\ AllOnce(r)
  BY Zenon DEF WalkOk
<1>2. Reads(nodes, content, p, x, t, v) BY <1>1, TailReads
<1>3. AllFound(nodes, p, x, t, v, r)
  <2> SUFFICES ASSUME NEW n \in 2..Len(nodes), nodes[n].live, Reach(nodes, n), Passed(nodes, p, x, t, v, n)
               PROVE  Found(nodes, v, r, n)
    BY Zenon DEF AllFound
  <2>1. Passed(nodes, p, x, s, v, n) \/ (s[1].kind = "file" /\ s[1].id = n) BY TailPasses
  <2> QED BY <1>1, <2>1, Zenon DEF AllFound
<1>4. \A n : Passed(nodes, p, x, s, v, n) => Passed(nodes, p, x, t, v, n) BY TailPasses
<1>5. AllTrue(nodes, p, x, t, v, r) BY <1>1, <1>4, Zenon DEF AllTrue
<1> QED BY <1>1, <1>2, <1>3, <1>5, Zenon DEF WalkOk

(* A directory's slot that is not followed: its cluster is known, or it is out of reach. *)
LEMMA WalkSkips ==
  ASSUME FatTree, NEW p, NEW x, x # NoCursor, NEW T, NEW s \in Seq(T), s # <<>>, NEW t, t = Tail(s), NEW v, NEW r,
         WalkOk(nodes, content, p, x, s, v, r), s[1].kind = "file", s[1].dir,
         ~(x.depth < kMaxDirectoryDepth /\ isDataCluster(s[1].cluster) /\ s[1].cluster \notin v)
  PROVE  WalkOk(nodes, content, p, x, t, v, r)
<1> SUFFICES ASSUME NEW n \in 2..Len(nodes), s[1].id = n, nodes[n].live, Reach(nodes, n) PROVE Found(nodes, v, r, n)
  BY WalkPasses
<1>1. Reads(nodes, content, p, x, s, v) BY Zenon DEF WalkOk
<1>2. PICK d : At(nodes, x, d) /\ FromDir(nodes, content, d, s) BY <1>1, Zenon DEF Reads
<1>3. d \in 1..Len(nodes) /\ nodes[d].dir /\ x.depth = Len(nodes[d].path) BY <1>2, Zenon DEF At
<1>4. 1 \in 1..Len(s) /\ s[1].id # 0 /\ n \in 1..Len(nodes)
  <2>1. 1 \in 1..Len(s) BY TailSlots
  <2> QED BY <2>1, LengthIs DEF FatTree
<1>5. Parent(nodes, n) = d /\ s[1].dir = nodes[n].dir /\ (nodes[n].dir => s[1].cluster = First(nodes, n))
  BY <1>2, <1>3, <1>4, SlotUnder, Zenon
<1>6. First(nodes, n) \in Clusters BY <1>4, <1>5, DirectoryIs
<1>7. x.depth < kMaxDirectoryDepth
  <2>1. Len(nodes[n].path) = x.depth + 1 /\ x.depth \in Nat BY <1>3, <1>5, UnderDirectory
  <2>2. Len(nodes[n].path) <= kMaxDirectoryDepth BY <1>5 DEF Reach
  <2> QED BY <2>1, <2>2, WalkAssumption
<1>8. First(nodes, n) \in v BY <1>5, <1>6, <1>7 DEF isDataCluster
<1> QED BY <1>5, <1>8 DEF Found

(* A directory's slot that is followed: the directory waits, and its parent is known. *)
LEMMA WalkEnters ==
  ASSUME FatTree, NEW p, IsSequence(p), NEW x, x # NoCursor, NEW T, NEW s \in Seq(T), s # <<>>, NEW t, t = Tail(s),
         NEW v, NEW r, WalkOk(nodes, content, p, x, s, v, r), s[1].kind = "file", s[1].dir,
         x.depth < kMaxDirectoryDepth, s[1].cluster \in Clusters, s[1].cluster \notin v,
         NEW y, y = [path |-> Append(x.path, s[1].id), cluster |-> s[1].cluster, depth |-> x.depth + 1,
                     underDeleted |-> x.underDeleted \/ s[1].deleted],
         NEW q, q = Append(p, y), NEW w, w = v \cup {s[1].cluster}
  PROVE  WalkOk(nodes, content, q, x, t, w, r)
<1>1. /\ AllEntered(nodes, v) /\ AllAt(nodes, p) /\ Reads(nodes, content, p, x, s, v)
      /\ AllFound(nodes, p, x, s, v, r) /\ AllTrue(nodes, p, x, s, v, r) /\ AllOnce(r)
  BY Zenon DEF WalkOk
<1>2. PICK d : At(nodes, x, d) /\ FromDir(nodes, content, d, s) BY <1>1, Zenon DEF Reads
<1>3. /\ d \in 1..Len(nodes) /\ nodes[d].dir /\ x.cluster = First(nodes, d) /\ x.path = nodes[d].path
      /\ x.depth = Len(nodes[d].path) /\ (x.underDeleted <=> ~nodes[d].live)
  BY <1>2, Zenon DEF At
<1>4. x.cluster \in v /\ \A i \in DOMAIN p : p[i].cluster # x.cluster BY <1>1, Zenon DEF Reads
<1>5. 1 \in 1..Len(s) BY TailSlots
<1>6. s[1].id # 0
  <2> SUFFICES ASSUME s[1].id = 0 PROVE FALSE OBVIOUS
  <2> QED BY <1>1, <1>2, <1>3, <1>4, <1>5, DotsAreVisited
<1>7. PICK m : m = s[1].id OBVIOUS
<1>8. /\ m \in 2..Len(nodes) /\ Parent(nodes, m) = d /\ (s[1].deleted <=> ~nodes[m].live) /\ nodes[m].dir
      /\ s[1].cluster = First(nodes, m)
  <2>1. /\ m \in 2..Len(nodes) /\ Parent(nodes, m) = d /\ (s[1].deleted <=> ~nodes[m].live) /\ s[1].dir = nodes[m].dir
        /\ nodes[m].dir => s[1].cluster = First(nodes, m)
    BY ONLY FatTree, s[1].kind = "file", <1>2, <1>3, <1>5, <1>6, <1>7, SlotUnder, SMTT(30)
  <2> QED BY ONLY <2>1, s[1].dir
<1>9. m \in 1..Len(nodes) BY <1>8, LengthIs DEF FatTree
<1>10. y.path = Append(x.path, m) /\ y.cluster = First(nodes, m) /\ y.depth = x.depth + 1 /\ (y.underDeleted <=> x.underDeleted \/ s[1].deleted)
  BY <1>7, <1>8
<1>11. At(nodes, y, m)
  <2>1. nodes[m].path = Append(x.path, m) /\ Len(nodes[m].path) = x.depth + 1 /\ (nodes[m].live => nodes[d].live)
    BY <1>3, <1>8, UnderDirectory
  <2>2. y.underDeleted <=> ~nodes[m].live BY ONLY <1>3, <1>8, <1>10, <2>1, Zenon
  <2>3. y.path = nodes[m].path /\ y.depth = Len(nodes[m].path) BY ONLY <1>10, <2>1
  <2> QED BY ONLY <1>8, <1>9, <1>10, <2>2, <2>3, Zenon DEF At
<1>12. PICK L : L = Len(p) OBVIOUS
<1>13. DOMAIN p = 1..L /\ L \in Nat /\ DOMAIN q = 1..(L + 1) /\ (\A i \in 1..L : q[i] = p[i]) /\ q[L + 1] = y
  BY <1>12, SequenceOf, AppendSequence
<1>14. \A i \in DOMAIN q : (i \in DOMAIN p /\ q[i] = p[i]) \/ q[i] = y BY ONLY <1>13
<1>15. \A i \in DOMAIN p : i \in DOMAIN q /\ q[i] = p[i] BY ONLY <1>13
<1>16. L + 1 \in DOMAIN q /\ q[L + 1] = y BY ONLY <1>13
<1>17. v \subseteq w /\ First(nodes, m) \in w /\ First(nodes, m) \notin v /\ \A c \in w : c \in v \/ c = First(nodes, m)
  BY <1>8
<1>18. AllEntered(nodes, w)
  <2>1. kFirstCluster \in w BY <1>1, <1>17 DEF AllEntered
  <2>2. ASSUME NEW c \in w PROVE EnteredFrom(nodes, w, c)
    <3>1. CASE c \in v
      <4>1. EnteredFrom(nodes, v, c) BY <1>1, <3>1, Zenon DEF AllEntered
      <4> QED BY <4>1, <1>17 DEF EnteredFrom
    <3>2. CASE c = First(nodes, m)
      <4>1. First(nodes, Parent(nodes, m)) \in w BY <1>3, <1>4, <1>8, <1>17
      <4> QED BY <4>1, <3>2, <1>8, <1>9, Zenon DEF EnteredFrom
    <3> QED BY <3>1, <3>2, <1>17
  <2> QED BY <2>1, <2>2, Zenon DEF AllEntered
<1>19. AllAt(nodes, q)
  <2> SUFFICES ASSUME NEW i \in DOMAIN q PROVE \E e : At(nodes, q[i], e) BY Zenon DEF AllAt
  <2>1. CASE i \in DOMAIN p /\ q[i] = p[i] BY <2>1, <1>1, Zenon DEF AllAt
  <2>2. CASE q[i] = y BY <2>2, <1>11
  <2> QED BY <2>1, <2>2, <1>14
<1>20. Reads(nodes, content, q, x, t, w)
  <2>1. Reads(nodes, content, p, x, t, v) BY <1>1, TailReads
  <2>2. \A i \in DOMAIN q : q[i].cluster # x.cluster BY <1>4, <1>10, <1>14, <1>17
  <2>3. \E e : At(nodes, x, e) /\ FromDir(nodes, content, e, t) /\ (nodes[e].live => OneSlotEach(t) /\ DotsOnly(t))
    BY ONLY <2>1, Zenon DEF Reads
  <2>4. x.cluster \in w BY ONLY <1>4, <1>17
  <2> QED BY ONLY <2>2, <2>3, <2>4, Zenon DEF Reads
<1>21. AllFound(nodes, q, x, t, w, r)
  <2> SUFFICES ASSUME NEW n \in 2..Len(nodes), nodes[n].live, Reach(nodes, n), Passed(nodes, q, x, t, w, n)
               PROVE  Found(nodes, w, r, n)
    BY Zenon DEF AllFound
  <2>1. PICK e : e = Parent(nodes, n) OBVIOUS
  <2>2. First(nodes, e) \in w /\ ~Waits(nodes, q, e) /\ (x.cluster = First(nodes, e) => ~HasSlot(t, n))
    BY <2>1, Zenon DEF Passed
  <2>3. First(nodes, e) \in v
    <3>1. First(nodes, e) # First(nodes, m) BY <2>2, <1>10, <1>16 DEF Waits
    <3> QED BY <2>2, <3>1, <1>17
  <2>4. ~Waits(nodes, p, e) BY <2>2, <1>15, Zenon DEF Waits
  <2>5. Passed(nodes, p, x, t, v, n) BY <2>1, <2>2, <2>3, <2>4, Zenon DEF Passed
  <2>6. Passed(nodes, p, x, s, v, n) \/ (s[1].kind = "file" /\ s[1].id = n) BY ONLY <2>5, TailPasses, x # NoCursor, s \in Seq(T), s # <<>>, t = Tail(s)
  <2>7. CASE Passed(nodes, p, x, s, v, n)
    <3>1. Found(nodes, v, r, n) BY <2>7, <1>1, Zenon DEF AllFound
    <3> QED BY <3>1, <1>17 DEF Found
  <2>8. CASE s[1].id = n
    <3>1. n = m BY <2>8, <1>7
    <3> QED BY <3>1, <1>8, <1>17 DEF Found
  <2> QED BY <2>6, <2>7, <2>8
<1>22. ASSUME NEW n, Passed(nodes, p, x, s, v, n) PROVE Passed(nodes, q, x, t, w, n)
  <2>1. PICK e : e = Parent(nodes, n) OBVIOUS
  <2>2. Passed(nodes, p, x, t, v, n) BY <1>22, TailPasses
  <2>3. First(nodes, e) \in v /\ ~Waits(nodes, p, e) /\ (x # NoCursor /\ x.cluster = First(nodes, e) => ~HasSlot(t, n))
    BY <2>1, <2>2, Zenon DEF Passed
  <2>4. ~Waits(nodes, q, e)
    <3> SUFFICES ASSUME NEW i \in DOMAIN q, q[i].cluster = First(nodes, e) PROVE FALSE BY Zenon DEF Waits
    <3>1. CASE i \in DOMAIN p /\ q[i] = p[i] BY <3>1, <2>3, Zenon DEF Waits
    <3>2. CASE q[i] = y BY <3>2, <2>3, <1>10, <1>17
    <3> QED BY <3>1, <3>2, <1>14
  <2>5. First(nodes, e) \in w BY <2>3, <1>17
  <2> QED BY <2>1, <2>3, <2>4, <2>5, Zenon DEF Passed
<1>23. AllTrue(nodes, q, x, t, w, r) BY <1>1, <1>22, Zenon DEF AllTrue
<1> QED BY <1>1, <1>18, <1>19, <1>20, <1>21, <1>23, Zenon DEF WalkOk

(* A file's slot: its entry is valid only if it is the true one, and it is the first such. *)
LEMMA WalkReports ==
  ASSUME FatTree, NEW p, NEW x, x = cursor, x # NoCursor, NEW T, NEW s \in Seq(T), s # <<>>, NEW t, t = Tail(s),
         NEW v, NEW r, IsSequence(r), WalkOk(nodes, content, p, x, s, v, r), s[1].kind = "file", ~s[1].dir,
         NEW e, e = entryFromSlot(s[1]), NEW u, u = Append(r, e)
  PROVE  WalkOk(nodes, content, p, x, t, v, u)
<1>1. /\ AllEntered(nodes, v) /\ AllAt(nodes, p) /\ Reads(nodes, content, p, x, s, v)
      /\ AllFound(nodes, p, x, s, v, r) /\ AllTrue(nodes, p, x, s, v, r) /\ AllOnce(r)
  BY Zenon DEF WalkOk
<1>2. PICK d : At(nodes, x, d) /\ FromDir(nodes, content, d, s) /\ (nodes[d].live => OneSlotEach(s) /\ DotsOnly(s))
  BY <1>1, Zenon DEF Reads
<1>3. /\ d \in 1..Len(nodes) /\ nodes[d].dir /\ x.cluster = First(nodes, d) /\ x.path = nodes[d].path
      /\ (x.underDeleted <=> ~nodes[d].live)
  BY <1>2, Zenon DEF At
<1>4. x.cluster \in v /\ \A i \in DOMAIN p : p[i].cluster # x.cluster BY <1>1, Zenon DEF Reads
<1>5. 1 \in 1..Len(s) BY TailSlots
<1>6. PICK m : m = s[1].id OBVIOUS
<1>7. ASSUME m # 0, ~s[1].deleted
      PROVE  IsLiveFile(nodes, m) /\ Parent(nodes, m) = d /\ e = EntryOf(nodes, m) /\ nodes[d].live
  <2>1. /\ m \in 2..Len(nodes) /\ Parent(nodes, m) = d /\ (s[1].deleted <=> ~nodes[m].live) /\ s[1].dir = nodes[m].dir
        /\ s[1] \in SlotType /\ \E c \in Clusters : SlotOk(c, s[1])
    BY <1>2, <1>3, <1>5, <1>6, <1>7, SlotUnder, Zenon
  <2>2. nodes[m].live /\ ~nodes[m].dir /\ nodes[d].live BY <1>7, <2>1, UnderDirectory
  <2>3. ~cursor.underDeleted /\ cursor.path = nodes[Parent(nodes, m)].path BY <1>3, <2>1, <2>2
  <2>4. PICK c \in Clusters : SlotOk(c, s[1]) BY <2>1
  <2>5. entryFromSlot(s[1]) = EntryOf(nodes, m)
    BY <1>6, <1>7, <2>1, <2>3, <2>4, LiveSlotEntry DEF FatTree
  <2> QED BY <2>1, <2>2, <2>5 DEF IsLiveFile
<1>8. e.grade = "valid" => m # 0 /\ ~s[1].deleted /\ nodes[d].live
  <2> SUFFICES ASSUME e.grade = "valid" PROVE m # 0 /\ ~s[1].deleted /\ nodes[d].live OBVIOUS
  <2>1. ~s[1].deleted /\ ~cursor.underDeleted BY DEF entryFromSlot
  <2>2. nodes[d].live BY <2>1, <1>3
  <2>3. m # 0 BY <2>2, <1>2, <1>5, <1>6 DEF DotsOnly
  <2> QED BY <2>1, <2>2, <2>3
<1>9. PICK L : L = Len(r) OBVIOUS
<1>10. DOMAIN r = 1..L /\ L \in Nat /\ DOMAIN u = 1..(L + 1) /\ (\A i \in 1..L : u[i] = r[i]) /\ u[L + 1] = e
  BY <1>9, SequenceOf, AppendSequence
<1>11. \A i \in DOMAIN u : (i \in DOMAIN r /\ u[i] = r[i]) \/ (i = L + 1 /\ u[i] = e) BY ONLY <1>10
<1>12. \A i \in DOMAIN r : i \in DOMAIN u /\ u[i] = r[i] BY ONLY <1>10
<1>13. L + 1 \in DOMAIN u /\ u[L + 1] = e BY ONLY <1>10
<1>14. Reads(nodes, content, p, x, t, v) BY <1>1, TailReads
<1>15. AllFound(nodes, p, x, t, v, u)
  <2> SUFFICES ASSUME NEW n \in 2..Len(nodes), nodes[n].live, Reach(nodes, n), Passed(nodes, p, x, t, v, n)
               PROVE  Found(nodes, v, u, n)
    BY Zenon DEF AllFound
  <2>1. Passed(nodes, p, x, s, v, n) \/ (s[1].kind = "file" /\ s[1].id = n) 
    BY ONLY Passed(nodes, p, x, t, v, n), TailPasses, x # NoCursor, s \in Seq(T), s # <<>>, t = Tail(s)
  <2>2. CASE Passed(nodes, p, x, s, v, n)
    <3>1. Found(nodes, v, r, n) BY <2>2, <1>1, Zenon DEF AllFound
    <3> QED BY <3>1, <1>12 DEF Found
  <2>3. CASE s[1].id = n
    <3>1. m = n /\ m # 0 BY <2>3, <1>6, LengthIs DEF FatTree
    <3>2. ~s[1].deleted
      <4>1. s[1].deleted <=> ~nodes[s[1].id].live
        BY ONLY FatTree, s[1].kind = "file", <1>2, <1>3, <1>5, <1>6, <3>1, SlotUnder
      <4> QED BY ONLY <4>1, <2>3, nodes[n].live
    <3>3. ~nodes[n].dir /\ e = EntryOf(nodes, n) BY <3>1, <3>2, <1>7 DEF IsLiveFile
    <3> QED BY <3>3, <1>13 DEF Found
  <2> QED BY <2>1, <2>2, <2>3
<1>16. \A n : Passed(nodes, p, x, s, v, n) => Passed(nodes, p, x, t, v, n) BY TailPasses
<1>17. AllTrue(nodes, p, x, t, v, u)
  <2> SUFFICES ASSUME NEW i \in DOMAIN u, u[i].grade = "valid"
               PROVE  \E n : IsLiveFile(nodes, n) /\ u[i] = EntryOf(nodes, n) /\ Passed(nodes, p, x, t, v, n)
    BY Zenon DEF AllTrue
  <2>1. CASE i \in DOMAIN r /\ u[i] = r[i] BY <2>1, <1>1, <1>16, Zenon DEF AllTrue
  <2>2. CASE u[i] = e
    <3>1. m # 0 /\ ~s[1].deleted /\ nodes[d].live BY <2>2, <1>8
    <3>2. IsLiveFile(nodes, m) /\ Parent(nodes, m) = d /\ e = EntryOf(nodes, m) BY <3>1, <1>7
    <3>3. ~HasSlot(t, m) BY <3>1, <1>2, <1>6, TailSlots
    <3>4. ~Waits(nodes, p, d) BY <1>3, <1>4, Zenon DEF Waits
    <3>5. Passed(nodes, p, x, t, v, m) BY <3>2, <3>3, <3>4, <1>3, <1>4, Zenon DEF Passed
    <3> QED BY <2>2, <3>2, <3>5
  <2> QED BY <2>1, <2>2, <1>11
<1>18. ASSUME e.grade = "valid", NEW j \in DOMAIN r, r[j] = e PROVE FALSE
  <2>1. m # 0 /\ ~s[1].deleted BY <1>18, <1>8
  <2>2. IsLiveFile(nodes, m) /\ Parent(nodes, m) = d /\ e = EntryOf(nodes, m) BY <2>1, <1>7
  <2>3. PICK n : IsLiveFile(nodes, n) /\ r[j] = EntryOf(nodes, n) /\ Passed(nodes, p, x, s, v, n)
    BY <1>1, <1>18, Zenon DEF AllTrue
  <2>4. n = m BY <1>18, <2>2, <2>3, EntryNames
  <2>5. ~HasSlot(s, m) BY <2>2, <2>3, <2>4, <1>3, Zenon DEF Passed
  <2> QED BY <2>5, <1>5, <1>6, Zenon DEF HasSlot
<1>19. AllOnce(u)
  <2> SUFFICES ASSUME NEW i \in DOMAIN u, NEW j \in DOMAIN u, u[i].grade = "valid", u[i] = u[j] PROVE i = j
    BY Zenon DEF AllOnce
  <2>1. CASE i \in DOMAIN r /\ j \in DOMAIN r BY <2>1, <1>1, <1>12, Zenon DEF AllOnce
  <2>2. CASE i \notin DOMAIN r /\ j \in DOMAIN r BY <2>2, <1>11, <1>12, <1>18
  <2>3. CASE i \in DOMAIN r /\ j \notin DOMAIN r BY <2>3, <1>11, <1>12, <1>18
  <2>4. CASE i \notin DOMAIN r /\ j \notin DOMAIN r BY <2>4, <1>11
  <2> QED BY <2>1, <2>2, <2>3, <2>4
<1> QED BY <1>1, <1>14, <1>15, <1>17, <1>19, Zenon DEF WalkOk

LEMMA HostKindStays ==
  ASSUME HostChanges
  PROVE  kind' = kind
<1>1. ASSUME NEW p, NEW d, NEW c, NEW f, NEW n, make(p, d, c, f, n) PROVE kind' = kind
  BY <1>1, Zenon DEF make
<1>2. CASE createFile BY <1>1, <1>2, Zenon DEF createFile
<1>3. CASE createDirectory BY <1>1, <1>3, Zenon DEF createDirectory
<1>4. CASE growDirectory BY <1>4, Zenon DEF growDirectory
<1>5. CASE remove BY <1>5, Zenon DEF remove
<1> QED BY <1>2, <1>3, <1>4, <1>5 DEF HostChanges

(* Why LiveTreeIsReported holds of FAT32. *)
FatWalk ==
  /\ phase = "written" => cursor = NoCursor
  /\ phase = "walked" => pending = <<>> /\ cursor = NoCursor
  /\ phase \in {"walking", "walked"} => WalkOk(nodes, content, pending, cursor, slots, visited, reported)

LiveInv == ReportInv /\ TreeInv /\ (kind = "fat" /\ NoReuse => FatWalk)

LEMMA TreeStays ==
  ASSUME TreeInv, UNCHANGED volumeVars
  PROVE  TreeInv'
BY DEF TreeInv, volumeVars, LiveDirectories

(* A step of the walk that leaves the volume alone. *)
LEMMA WalkKept ==
  ASSUME UNCHANGED volumeVars, phase' \in {"walking", "walked"},
         phase' = "walked" => pending' = <<>> /\ cursor' = NoCursor,
         WalkOk(nodes, content, pending', cursor', slots', visited', reported')
  PROVE  FatWalk'
BY DEF FatWalk, volumeVars

LEMMA WalkBegins ==
  ASSUME FatTree, FatWalk, ReportInv, start
  PROVE  FatWalk'
<1>1. UNCHANGED volumeVars /\ phase' = "walking" /\ cursor' = NoCursor /\ reported' = <<>>
  BY DEF start, FatWalk, ReportInv, ReadingInv
<1>2. visited' = {kFirstCluster} /\ pending' = <<[NoCursor EXCEPT !.cluster = kFirstCluster]>> BY Zenon DEF start
<1>3. PICK s : s = slots' OBVIOUS
<1>4. WalkOk(nodes, content, pending', cursor', slots', visited', reported') BY <1>1, <1>2, <1>3, WalkStarts, Zenon
<1> QED BY <1>1, <1>4, WalkKept

LEMMA WalkOpens ==
  ASSUME FatTree, FatWalk, ReportInv, walkOne
  PROVE  FatWalk'
<1>1. /\ UNCHANGED volumeVars /\ phase = "walking" /\ phase' = "walking" /\ cursor = NoCursor /\ pending # <<>>
      /\ visited' = visited /\ reported' = reported
  BY Zenon DEF walkOne
<1>2. cursor' = Last(pending) /\ pending' = Front(pending) /\ slots' = upToEndOfDirectory(readDirectory(Last(pending)))
  BY Zenon DEF walkOne
<1>3. WorklistInv BY DEF ReportInv
<1>4. /\ IsSequence(pending) /\ (\A i \in DOMAIN pending : pending[i].cluster \in visited)
      /\ \A i, j \in DOMAIN pending : pending[i].cluster = pending[j].cluster => i = j
  BY <1>3, Zenon DEF WorklistInv
<1>5. WalkOk(nodes, content, pending, NoCursor, slots, visited, reported) BY <1>1, Zenon DEF FatWalk
<1>6. PICK x, q, s : x = Last(pending) /\ q = Front(pending) /\ s = upToEndOfDirectory(readDirectory(x)) OBVIOUS
<1>7. WalkOk(nodes, content, q, x, s, visited, reported) BY ONLY FatTree, <1>1, <1>4, <1>5, <1>6, WalkReads
<1>8. WalkOk(nodes, content, pending', cursor', slots', visited', reported') BY ONLY <1>1, <1>2, <1>6, <1>7, Zenon
<1> QED BY <1>1, <1>8, WalkKept

LEMMA WalkVisits ==
  ASSUME FatTree, FatWalk, ReportInv, shortEntry
  PROVE  FatWalk'
<1>1. /\ UNCHANGED volumeVars /\ phase = "walking" /\ phase' = "walking" /\ cursor # NoCursor /\ slots # <<>>
      /\ cursor' = cursor /\ slots' = Tail(slots) /\ Head(slots).kind = "file"
  BY Zenon DEF shortEntry, Visiting
<1>2. slots \in Seq(SlotType) /\ IsSequence(pending) /\ IsSequence(reported)
  BY DEF ReportInv, ReadingInv, WorklistInv, ReportedInv
<1>3. WalkOk(nodes, content, pending, cursor, slots, visited, reported) BY <1>1, Zenon DEF FatWalk
<1>4. PICK t, a : t = Tail(slots) /\ a = slots[1] OBVIOUS
<1>5. Head(slots) = slots[1] BY <1>1, <1>2
<1>6. IF a.dir THEN enqueue(a.id, a.cluster, a.deleted) ELSE report(entryFromSlot(a))
  BY <1>4, <1>5, Zenon DEF shortEntry
<1>7. CASE a.dir
  <2>1. enqueue(a.id, a.cluster, a.deleted) BY <1>6, <1>7
  <2>2. CASE walkable(cursor, a.cluster)
    <3>1. PICK y : y = [path |-> Append(cursor.path, a.id), cluster |-> a.cluster, depth |-> cursor.depth + 1,
                        underDeleted |-> cursor.underDeleted \/ a.deleted]
      OBVIOUS
    <3>2. reported' = reported /\ visited' = visited \cup {a.cluster} /\ pending' = Append(pending, y)
      BY <2>1, <2>2, <3>1 DEF enqueue
    <3>3. PICK q, w : q = Append(pending, y) /\ w = visited \cup {a.cluster} OBVIOUS
    <3>4. cursor.depth < kMaxDirectoryDepth /\ a.cluster \in Clusters /\ a.cluster \notin visited
      BY <2>2 DEF walkable, isDataCluster
    <3>5. WalkOk(nodes, content, q, cursor, t, w, reported)
      BY ONLY FatTree, <1>1, <1>2, <1>3, <1>4, <1>5, <1>7, <3>1, <3>3, <3>4, WalkEnters
    <3> QED BY <1>1, <1>4, <3>2, <3>3, <3>5, WalkKept
  <2>3. CASE ~walkable(cursor, a.cluster)
    <3>1. reported' = reported /\ visited' = visited /\ pending' = pending
      BY <2>1, <2>3 DEF enqueue
    <3>2. ~(cursor.depth < kMaxDirectoryDepth /\ isDataCluster(a.cluster) /\ a.cluster \notin visited)
      BY <2>3, Zenon DEF walkable
    <3>3. WalkOk(nodes, content, pending, cursor, t, visited, reported)
      BY ONLY FatTree, <1>1, <1>2, <1>3, <1>4, <1>5, <1>7, <3>2, WalkSkips
    <3> QED BY <1>1, <1>4, <3>1, <3>3, WalkKept
  <2> QED BY <2>2, <2>3
<1>8. CASE ~a.dir
  <2>1. PICK e, u : e = entryFromSlot(a) /\ u = Append(reported, e) OBVIOUS
  <2>2. reported' = u /\ visited' = visited /\ pending' = pending BY <1>6, <1>8, <2>1 DEF report
  <2>3. WalkOk(nodes, content, pending, cursor, t, visited, u)
    BY ONLY FatTree, <1>1, <1>2, <1>3, <1>4, <1>5, <1>8, <2>1, WalkReports
  <2> QED BY <1>1, <1>4, <2>2, <2>3, WalkKept
<1> QED BY <1>7, <1>8

LEMMA WalkCollects ==
  ASSUME FatTree, FatWalk, ReportInv, collectFragment
  PROVE  FatWalk'
<1>1. /\ UNCHANGED volumeVars /\ phase = "walking" /\ phase' = "walking" /\ cursor # NoCursor /\ slots # <<>>
      /\ cursor' = cursor /\ slots' = Tail(slots) /\ Head(slots).kind = "name"
      /\ pending' = pending /\ visited' = visited /\ reported' = reported
  BY Zenon DEF collectFragment, Visiting
<1>2. slots \in Seq(SlotType) BY DEF ReportInv, ReadingInv
<1>3. WalkOk(nodes, content, pending, cursor, slots, visited, reported) BY <1>1, Zenon DEF FatWalk
<1>4. PICK t : t = Tail(slots) OBVIOUS
<1>5. slots[1].kind # "file" BY <1>1, <1>2
<1>6. WalkOk(nodes, content, pending, cursor, t, visited, reported) BY ONLY <1>1, <1>2, <1>3, <1>4, <1>5, WalkPasses
<1> QED BY <1>1, <1>4, <1>6, WalkKept

LEMMA WalkCloses ==
  ASSUME FatTree, FatWalk, ReportInv, finishDirectory
  PROVE  FatWalk'
<1>1. /\ UNCHANGED volumeVars /\ phase = "walking" /\ phase' = "walking" /\ slots = <<>>
      /\ cursor' = NoCursor /\ slots' = slots /\ finish
  BY Zenon DEF finishDirectory
<1>2. ~set.active BY DEF ReportInv, ReadingInv, FatTree
<1>3. pending' = pending /\ visited' = visited /\ reported' = reported BY <1>1, <1>2 DEF finish
<1>4. WalkOk(nodes, content, pending, cursor, slots, visited, reported) BY <1>1, Zenon DEF FatWalk
<1>5. \A n : ~HasSlot(slots, n) BY <1>1 DEF HasSlot
<1>6. \A n : Passed(nodes, pending, NoCursor, slots, visited, n) <=> Passed(nodes, pending, cursor, slots, visited, n)
  BY <1>5, Zenon DEF Passed
<1>7. WalkOk(nodes, content, pending, NoCursor, slots, visited, reported)
  BY <1>4, <1>6, Zenon DEF WalkOk, AllFound, AllTrue
<1> QED BY <1>1, <1>3, <1>7, WalkKept

LEMMA StepLives == LiveInv /\ [Next]_vars => LiveInv'
<1> SUFFICES ASSUME LiveInv, [Next]_vars PROVE LiveInv' OBVIOUS
<1>1. ReportInv /\ TreeInv /\ (kind = "fat" /\ NoReuse => FatWalk) BY DEF LiveInv
<1>2. ReportInv' BY <1>1, StepReports
<1>3. VolumeInv BY <1>1 DEF ReportInv
<1> SUFFICES TreeInv' /\ (kind' = "fat" /\ NoReuse => FatWalk') BY <1>2 DEF LiveInv
<1>4. CASE phase = "written" /\ HostChanges /\ UNCHANGED walkVars
  <2>1. TreeInv' BY <1>1, <1>3, <1>4, HostTree
  <2>2. kind' = kind BY <1>3, <1>4, HostKindStays
  <2>3. FatWalk => FatWalk' BY <1>4 DEF FatWalk, walkVars
  <2> QED BY <1>1, <2>1, <2>2, <2>3
<1>5. CASE ~(phase = "written" /\ HostChanges /\ UNCHANGED walkVars)
  <2>1. start \/ Walk \/ UNCHANGED vars BY <1>5 DEF Next
  <2>2. UNCHANGED volumeVars
    BY <2>1, Zenon DEF vars, start, Walk, walkOne, skipUnreadableDirectory, shortEntry, collectFragment, startSet, absorb,
                finishDirectory, finishWalk
  <2>3. TreeInv' BY <1>1, <2>2, TreeStays
  <2>4. kind' = kind BY <2>2 DEF volumeVars
  <2>5. ASSUME kind = "fat", NoReuse PROVE FatWalk'
    <3>1. FatTree /\ FatWalk BY <1>1, <1>3, <2>5 DEF FatTree
    <3>2. CASE start BY <1>1, <3>1, <3>2, WalkBegins
    <3>3. CASE walkOne BY <1>1, <3>1, <3>3, WalkOpens
    <3>4. CASE shortEntry BY <1>1, <3>1, <3>4, WalkVisits
    <3>5. CASE collectFragment BY <1>1, <3>1, <3>5, WalkCollects
    <3>6. CASE finishDirectory BY <1>1, <3>1, <3>6, WalkCloses
    <3>7. CASE startSet \/ absorb BY <2>5, <3>7 DEF startSet, absorb, Visiting
    <3>8. CASE skipUnreadableDirectory
      <4>1. phase' = "failed" BY <3>8 DEF skipUnreadableDirectory
      <4> QED BY <4>1 DEF FatWalk
    <3>9. CASE finishWalk
      <4>1. /\ phase = "walking" /\ phase' = "walked" /\ cursor = NoCursor /\ pending = <<>> /\ pending' = pending
            /\ cursor' = cursor /\ slots' = slots /\ visited' = visited /\ reported' = reported
        BY <3>9, Zenon DEF finishWalk
      <4>2. WalkOk(nodes, content, pending', cursor', slots', visited', reported') BY <3>1, <4>1, Zenon DEF FatWalk
      <4> QED BY <2>2, <4>1, <4>2, WalkKept
    <3>10. CASE UNCHANGED vars BY <3>1, <3>10 DEF FatWalk, vars, volumeVars, walkVars
    <3> QED BY <2>1, <3>2, <3>3, <3>4, <3>5, <3>6, <3>7, <3>8, <3>9, <3>10 DEF Walk
  <2> QED BY <2>3, <2>4, <2>5
<1> QED BY <1>4, <1>5

(* Every live directory in reach is entered: of those that were not, the one
   made first would lie in one that was, and be found there. *)
LEMMA AllDirectoriesEntered ==
  ASSUME FatTree, NEW z, NEW v, NEW r, WalkOk(nodes, content, <<>>, NoCursor, z, v, r),
         NEW n \in 2..Len(nodes), nodes[n].live, nodes[n].dir, Reach(nodes, n)
  PROVE  First(nodes, n) \in v
<1> SUFFICES ASSUME First(nodes, n) \notin v PROVE FALSE OBVIOUS
<1> DEFINE S == {m \in 2..Len(nodes) : nodes[m].live /\ nodes[m].dir /\ Reach(nodes, m) /\ First(nodes, m) \notin v}
<1>1. Len(nodes) \in Nat /\ S \subseteq Nat /\ S # {} BY LengthIs DEF FatTree
<1>2. PICK m \in S : \A k \in S : m <= k
  <2> HIDE DEF S
  <2> QED BY <1>1, LeastMember
<1>3. m \in 2..Len(nodes) /\ nodes[m].live /\ nodes[m].dir /\ Reach(nodes, m) /\ First(nodes, m) \notin v BY <1>2
<1>4. PICK p : p = Parent(nodes, m) OBVIOUS
<1>5. p \in 1..Len(nodes) /\ p \in 1..(m - 1) /\ nodes[p].dir /\ nodes[p].live /\ (p # 1 => Reach(nodes, p))
  BY <1>3, <1>4, UnderDirectory, ReachFits
<1>6. AllEntered(nodes, v) /\ AllFound(nodes, <<>>, NoCursor, z, v, r) BY Zenon DEF WalkOk
<1>7. First(nodes, p) \in v
  <2>1. CASE p = 1
    <3>1. First(nodes, 1) = kFirstCluster BY DEF FatTree, TreeInv, First
    <3> QED BY <2>1, <3>1, <1>6 DEF AllEntered
  <2>2. CASE p # 1
    <3>1. p < m /\ p \in 2..Len(nodes) /\ m \in Nat BY <2>2, <1>1, <1>3, <1>5
    <3>2. p \in S => FALSE
      <4> HIDE DEF S
      <4> QED BY ONLY <1>2, <3>1
    <3> QED BY <3>1, <3>2, <1>5, <2>2
  <2> QED BY <2>1, <2>2
<1>8. Passed(nodes, <<>>, NoCursor, z, v, m)
  <2>1. ~Waits(nodes, <<>>, p) BY DEF Waits
  <2> QED BY <2>1, <1>4, <1>7, Zenon DEF Passed
<1>9. Found(nodes, v, r, m) BY <1>3, <1>6, <1>8, Zenon DEF AllFound
<1> QED BY <1>3, <1>9 DEF Found

LEMMA AllFilesReported ==
  ASSUME FatTree, NEW z, NEW v, NEW r, WalkOk(nodes, content, <<>>, NoCursor, z, v, r),
         NEW n, IsLiveFile(nodes, n), Reach(nodes, n)
  PROVE  \E i \in DOMAIN r : r[i] = EntryOf(nodes, n)
<1>1. n \in 2..Len(nodes) /\ nodes[n].live /\ ~nodes[n].dir BY DEF IsLiveFile
<1>2. PICK p : p = Parent(nodes, n) OBVIOUS
<1>3. p \in 1..Len(nodes) /\ nodes[p].dir /\ nodes[p].live /\ (p # 1 => Reach(nodes, p))
  BY <1>1, <1>2, UnderDirectory, ReachFits
<1>4. First(nodes, p) \in v
  <2>1. CASE p = 1
    <3>1. First(nodes, 1) = kFirstCluster BY DEF FatTree, TreeInv, First
    <3>2. AllEntered(nodes, v) BY Zenon DEF WalkOk
    <3> QED BY <2>1, <3>1, <3>2 DEF AllEntered
  <2>2. CASE p # 1
    <3>1. p \in 2..Len(nodes) BY <2>2, <1>3, LengthIs DEF FatTree
    <3> QED BY <2>2, <3>1, <1>3, AllDirectoriesEntered
  <2> QED BY <2>1, <2>2
<1>5. Passed(nodes, <<>>, NoCursor, z, v, n)
  <2>1. ~Waits(nodes, <<>>, p) BY DEF Waits
  <2> QED BY <2>1, <1>2, <1>4, Zenon DEF Passed
<1>6. Found(nodes, v, r, n) BY <1>1, <1>5, Zenon DEF WalkOk, AllFound
<1> QED BY <1>1, <1>6, Zenon DEF Found

LEMMA TreeIsReported ==
  ASSUME LiveInv, kind = "fat", NoReuse
  PROVE  LiveTreeIsReported
<1> SUFFICES ASSUME phase = "walked" PROVE LiveTreeIsReported BY DEF LiveTreeIsReported
<1>1. FatTree /\ FatWalk BY DEF LiveInv, ReportInv, FatTree
<1>2. WalkOk(nodes, content, <<>>, NoCursor, slots, visited, reported) BY <1>1, Zenon DEF FatWalk
<1>3. \A n : LiveEntry(n) = EntryOf(nodes, n) BY DEF LiveEntry, EntryOf, TrueExtents
<1> DEFINE valid == {i \in DOMAIN reported : reported[i].grade = "valid"}
<1> DEFINE live == {n \in DOMAIN nodes : nodes[n].live /\ ~nodes[n].dir}
<1>4. \A n : n \in live <=> IsLiveFile(nodes, n)
  <2>1. DOMAIN nodes = 1..Len(nodes) /\ Len(nodes) \in Nat /\ Len(nodes) >= 1 /\ nodes[1].dir
    <3>1. DOMAIN nodes = 1..Len(nodes) /\ Len(nodes) \in Nat /\ Len(nodes) >= 1 BY <1>1, LengthIs DEF FatTree
    <3> QED BY <1>1, <3>1, NodeIs DEF NodeOk, FatTree
  <2> QED BY <2>1 DEF IsLiveFile
<1>5. ASSUME NEW n \in live, InReach(n) PROVE \E i \in valid : reported[i] = LiveEntry(n)
  <2>1. IsLiveFile(nodes, n) BY <1>4
  <2>2. Reach(nodes, n)
    BY <1>5, <2>1 DEF InReach, Reach, FitsBound, IsLiveFile
  <2>3. PICK i \in DOMAIN reported : reported[i] = EntryOf(nodes, n) BY <1>1, <1>2, <2>1, <2>2, AllFilesReported
  <2>4. reported[i].grade = "valid" BY <2>3 DEF EntryOf
  <2> QED BY <2>3, <2>4, <1>3
<1>6. ASSUME NEW i \in valid PROVE \E n \in live : reported[i] = LiveEntry(n)
  <2>1. AllTrue(nodes, <<>>, NoCursor, slots, visited, reported) BY <1>2, Zenon DEF WalkOk
  <2>2. PICK n : IsLiveFile(nodes, n) /\ reported[i] = EntryOf(nodes, n) BY <2>1, Zenon DEF AllTrue
  <2> QED BY <2>2, <1>3, <1>4
<1>7. ASSUME NEW i \in valid, NEW j \in valid, reported[i] = reported[j] PROVE i = j
  <2>1. AllOnce(reported) BY <1>2, Zenon DEF WalkOk
  <2> QED BY <2>1, <1>7, Zenon DEF AllOnce
<1> QED BY <1>5, <1>6, <1>7, Zenon DEF LiveTreeIsReported

LEMMA LiveStarts == Init => LiveInv
<1> SUFFICES ASSUME Init PROVE LiveInv OBVIOUS
<1>1. ReportInv BY ReportStarts
<1>2. TreeInv BY TreeStarts DEF Init
<1>3. FatWalk BY DEF Init, FatWalk
<1> QED BY <1>1, <1>2, <1>3 DEF LiveInv

(* On a FAT32 volume on which no new directory took a removed one's cluster,
   whatever its size, a finished walk reports as valid the live files in reach
   and nothing else, each once and with its own bytes. *)
THEOREM LiveTreeIsReportedOnFat == Spec => [](NoReuse /\ kind = "fat" => LiveTreeIsReported)
<1>1. LiveInv => (NoReuse /\ kind = "fat" => LiveTreeIsReported) BY TreeIsReported
<1> QED BY <1>1, LiveStarts, StepLives, PTL DEF Spec
===============================================================================
