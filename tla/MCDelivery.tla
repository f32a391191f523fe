------------------------------ MODULE MCDelivery ------------------------------
(* A small device for Delivery: bytes 0..1 and 2..3 are alike, byte 3 may come
   back as a zero, and the offsets are four bits wide. *)
EXTENDS Delivery

MCDeviceSize == 8
MCDevice == (0 :> 1) @@ (1 :> 2) @@ (2 :> 1) @@ (3 :> 2)
            @@ (4 :> 3) @@ (5 :> 0) @@ (6 :> 0) @@ (7 :> 4)

Name(stem, suffix) == [stem |-> <<stem>>, suffix |-> suffix]

Entry(i, trust, where, bytes, called) ==
  [id |-> i, source |-> "filesystem", confidence |-> trust, extents |-> where,
   resident |-> bytes, name |-> called]

Carved(i, trust, where, tag) ==
  [id |-> i, source |-> "carve", confidence |-> trust, extents |-> <<where>>,
   resident |-> <<>>, name |-> tag]

MCCandidates == {
  Entry(1, kValid, <<Extent(0, 2)>>, <<>>, Name("a", <<>>)),
  Entry(2, kValid, <<Extent(6, 1), Extent(4, 1)>>, <<>>, Name("a", <<>>)),
  Entry(3, kUncertain, <<Extent(5, 1)>>, <<>>, Name("a", <<2>>)),
  Entry(4, kValid, <<>>, <<9>>, Name("full", <<>>)),
  Entry(5, kRejected, <<Extent(0, 4)>>, <<>>, Name("b", <<>>)),
  Entry(6, kValid, <<Extent(7, 12)>>, <<>>, Name("full", <<>>)),
  Entry(7, kValid, <<>>, <<1, 2>>, Name("unsafe", <<>>)),
  Entry(8, kValid, <<>>, <<1, 2>>,
        [stem |-> <<"carved", "jpg", 1>>, suffix |-> <<>>]),
  Carved(11, kValid, Extent(2, 2), "jpg"),
  Carved(12, kUncertain, Extent(2, 4), "jpg"),
  Carved(13, kValid, Extent(0, 2), "../x"),
  Carved(14, kValid, Extent(5, 3), "jpg")}

MCStems ==
  {<<s>> : s \in {"a", "a.", "b", "full", "unsafe"}}
    \cup {<<"carved", t, n>> : t \in {"jpg", "bin"}, n \in 0..5}

MCFull == {<<"full">>}

MCSafe == [s \in MCStems |-> IF s = <<"unsafe">> THEN Refused
                             ELSE IF s = <<"a.">> THEN <<"a">> ELSE s]

(* Names the sanitiser folds into one. *)
MCFoldedCandidates == {
  Entry(1, kValid, <<Extent(0, 2)>>, <<>>, Name("a", <<>>)),
  Entry(2, kValid, <<Extent(2, 2)>>, <<>>, Name("a.", <<>>))}
===============================================================================
