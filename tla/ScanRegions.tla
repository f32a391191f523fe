----------------------------- MODULE ScanRegions -----------------------------
(***************************************************************************)
(* Device ranges and the cutting of them into the chunks a scan reports    *)
(* between (recovery/ScanRegions.cpp, the complement of RegionSet.cpp).    *)
(* The vectors of the code are sorted, disjoint and free of duplicates, so *)
(* they are sets here; the order is the order of the offsets.              *)
(***************************************************************************)
EXTENDS Naturals

(* The half-open range [first, finish). *)
Region(first, finish) == [start |-> first, end |-> finish]

(* The ranges of a device of n bytes; none is empty. *)
Regions(n) == {g \in [start : 0..n, end : 0..n] : g.start < g.end}

Apart(g, h) == g.end <= h.start \/ h.end <= g.start

(* RegionSet::gaps, by what it returns: the widest ranges of [0, n) that no
   claimed range reaches into. *)
gaps(claimed, n) ==
  {g \in Regions(n) :
     /\ \A r \in claimed : Apart(r, g)
     /\ g.start = 0 \/ \E r \in claimed : r.end = g.start
     /\ g.end = n \/ \E r \in claimed : r.start = g.end}

(* What is left of a range once everything before the cursor is spoken for. *)
tailOf(g, cursor) == Region(IF g.start < cursor THEN cursor ELSE g.start, g.end)

(* Mutant of regionsFrom: a range the cursor lies in counts as scanned. *)
regionsFrom_wholeOnly(regions, cursor) == {g \in regions : g.start >= cursor}

regionsFrom(regions, cursor) ==
  {tailOf(g, cursor) : g \in {h \in regions : h.end > cursor}}

(* Mutant of chunkAt: the last chunk is not cut short. *)
chunkAt_unclipped(g, a, chunkBytes) == Region(a, a + chunkBytes)

(* The chunk of g that starts at a. *)
chunkAt(g, a, chunkBytes) ==
  Region(a, IF a + chunkBytes < g.end THEN a + chunkBytes ELSE g.end)

appendChunks(g, chunkBytes) ==
  {chunkAt(g, g.start + i * chunkBytes, chunkBytes) :
     i \in {k \in 0..(g.end - g.start) : g.start + k * chunkBytes < g.end}}

chunked(regions, chunkBytes) == UNION {appendChunks(g, chunkBytes) : g \in regions}

=============================================================================
