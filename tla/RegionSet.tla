------------------------------ MODULE RegionSet ------------------------------
(***************************************************************************)
(* The set of claimed device ranges behind byte accounting and arbitration *)
(* (recovery/RegionSet.cpp).  The std::map from a range's start to its     *)
(* finish is a function; regions that touch are fused as they are added.   *)
(***************************************************************************)
EXTENDS Naturals, SequencesExt

CONSTANT kMax  \* the largest 64-bit offset

ASSUME RegionSetAssumption == kMax \in Nat

Extent(offset, length) == [deviceOffset |-> offset, lengthBytes |-> length]

NoRegions == [k \in {} |-> 0]

endOf(x) ==
  IF x.lengthBytes > kMax - x.deviceOffset THEN kMax ELSE x.deviceOffset + x.lengthBytes

(* What absorbFrom erases, beginning at firstTouching.  The regions of a set
   never touch one another, so absorbing one brings no further one into reach. *)
touched(regions, start, finish) ==
  {k \in DOMAIN regions : k <= finish /\ regions[k] >= start}

add(regions, x) ==
  IF x.lengthBytes = 0
  THEN regions
  ELSE LET hit == touched(regions, x.deviceOffset, endOf(x))
           start == Min(hit \cup {x.deviceOffset})
           finish == Max({regions[k] : k \in hit} \cup {endOf(x)})
       IN [k \in (DOMAIN regions \ hit) \cup {start} |->
             IF k = start THEN finish ELSE regions[k]]

(* Mutant of overlaps: only ranges that begin inside the extent are seen. *)
overlaps_startsInside(regions, x) ==
  /\ x.lengthBytes # 0
  /\ \E k \in DOMAIN regions : x.deviceOffset <= k /\ k < endOf(x)

overlaps(regions, x) ==
  /\ x.lengthBytes # 0
  /\ \E k \in DOMAIN regions :
       IF k <= x.deviceOffset THEN regions[k] > x.deviceOffset ELSE k < endOf(x)

(* The gaps emitted so far, and how far along the device the walk has come. *)
takeUpTo(complement, upTo) ==
  IF upTo <= complement.cursor
  THEN complement
  ELSE [gaps |-> complement.gaps \cup {[start |-> complement.cursor, end |-> upTo]},
        cursor |-> upTo]

(* Mutant of passRegion: the cursor stays at the start of the region just
   passed. *)
passRegion_toStart(complement, start, finish, deviceSize) ==
  takeUpTo(complement, Min({start, deviceSize}))

passRegion(complement, start, finish, deviceSize) ==
  LET taken == takeUpTo(complement, Min({start, deviceSize}))
  IN [taken EXCEPT !.cursor = Max({@, Min({finish, deviceSize})})]

(* The loop of RegionSet::gaps, which meets the regions in the order of their
   starts: walked[k] is the complement once those that start before k are passed. *)
passRegions(regions, deviceSize) ==
  LET walked[k \in 0..(kMax + 1)] ==
        IF k = 0
        THEN [gaps |-> {}, cursor |-> 0]
        ELSE IF k - 1 \in DOMAIN regions
             THEN passRegion(walked[k - 1], k - 1, regions[k - 1], deviceSize)
             ELSE walked[k - 1]
  IN walked

complementOf(regions, deviceSize) ==
  takeUpTo(passRegions(regions, deviceSize)[kMax + 1], deviceSize).gaps

regionCount(regions) == Cardinality(DOMAIN regions)
==============================================================================
