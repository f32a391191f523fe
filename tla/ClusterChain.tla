----------------------------- MODULE ClusterChain -----------------------------
(***************************************************************************)
(* Following a cluster chain and restating it as extents                   *)
(* (fs/ClusterChain.cpp), shared by FAT32 and exFAT.                       *)
(*                                                                         *)
(* A table maps a cluster to the next one, to Free, to Bad or to an end    *)
(* marker.  A chain that does not end at an end marker, and an extent list *)
(* that cannot be given, are the empty sequence: every caller treats a     *)
(* refusal and an empty answer alike.                                      *)
(***************************************************************************)
EXTENDS ExtentSpan

CONSTANTS
  TotalClusters,   \* ClusterGeometry::totalClusters
  BytesPerCluster, \* ClusterGeometry::bytesPerCluster
  DataOffset       \* ClusterGeometry::dataOffsetBytes

ASSUME GeometryAssumption ==
  /\ TotalClusters \in Nat \ {0}
  /\ BytesPerCluster \in Nat \ {0}
  /\ DataOffset \in Nat

kFirstCluster == 2
Clusters == kFirstCluster..(kFirstCluster + TotalClusters - 1)

Free == 0
Bad == kFirstCluster + TotalClusters
kEndOfChain == Bad + 1

isDataCluster(value) == value \in Clusters

(* Where the table leads, for as many steps as there are clusters; a step off the
   data region stays where it is. *)
Steps(table, first) ==
  LET at[n \in 0..TotalClusters] ==
        IF n = 0 THEN first
        ELSE LET here == at[n - 1] IN IF isDataCluster(here) THEN table[here] ELSE here
  IN [n \in 1..(TotalClusters + 1) |-> at[n - 1]]

(* The chain, if it ends at an end marker and is no longer than the volume. *)
chainFrom(table, first) ==
  LET steps == Steps(table, first)
      outside == {n \in DOMAIN steps : ~isDataCluster(steps[n])}
  IN IF Last(steps) < kEndOfChain THEN <<>> ELSE SubSeq(steps, 1, Min(outside) - 1)

clusterOffset(cluster) == DataOffset + (cluster - kFirstCluster) * BytesPerCluster

ClusterExtent(cluster) == [at |-> clusterOffset(cluster), len |-> BytesPerCluster]

chainExtents(clusters, size) ==
  LET runs[n \in 0..Len(clusters)] ==
        IF n = 0 THEN <<>>
        ELSE LET earlier == runs[n - 1] IN appendExtent(earlier, ClusterExtent(clusters[n]))
  IN IF clusters = <<>> \/ size = 0 THEN <<>> ELSE trimToSize(runs[Len(clusters)], size)

extentsFollowingChain(table, first, size) == chainExtents(chainFrom(table, first), size)

extentsAssumingContiguous(first, size) ==
  LET clusters == (size - 1) \div BytesPerCluster + 1
  IN IF size = 0 \/ first + clusters > kFirstCluster + TotalClusters THEN <<>>
     ELSE <<[at |-> clusterOffset(first), len |-> size]>>
===============================================================================
