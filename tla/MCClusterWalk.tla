---------------------------- MODULE MCClusterWalk -----------------------------
(* Four clusters of three slots: enough for a directory of two clusters, a
   fragmented file, and a cluster that is freed and used again. *)
EXTENDS ClusterWalk
===============================================================================
