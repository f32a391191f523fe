------------------------------ MODULE MCMftWalk -------------------------------
(***************************************************************************)
(* MftWalk on a table of six records and four clusters of data.            *)
(***************************************************************************)
EXTENDS MftWalk

(* The table in two pieces, the second before the first; and with its last record in
   two places. *)
MCMftLayouts == {<<5, 6, 7, 8, 9, 10, 11, 12, 1, 2, 3, 4>>,
                 <<2, 3, 4, 5, 6, 7, 8, 9, 10, 11, 12, 1>>}

Shape(clusters, short, alias) == [clusters |-> clusters, short |-> short, alias |-> alias]

(* Resident; two runs, the second before the first; two runs with a step ahead; and a
   file with a hole. *)
MCFirstShape == Shape(<<15, 13>>, 1, "none")
MCShapes == {MCFirstShape, Shape(<<>>, 0, "first"), Shape(<<13, 14, 16>>, 0, "last"),
             Shape(<<16, Hole>>, 0, "none")}
===============================================================================
