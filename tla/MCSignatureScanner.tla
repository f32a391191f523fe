-------------------------- MODULE MCSignatureScanner --------------------------
(* Six-byte devices of three sectors, a two-byte magic at a file's start and a
   one-byte magic two bytes into it: like the built-in signatures, none can lie
   inside another's reach. *)
EXTENDS SignatureScanner

MCSignatures == <<[magic |-> <<255, 216>>, offset |-> 0], [magic |-> <<102>>, offset |-> 2]>>

(* The byte behind the signature is the verdict: nothing there is a rejection,
   as is a zero; any other value is a file of that many bytes more. *)
MCCarve(carver, bytes) ==
  LET span == widestSignature(MCSignatures[carver])
  IN IF Len(bytes) <= span \/ bytes[span + 1] = 0
     THEN [confidence |-> "rejected", length |-> span]
     ELSE [confidence |-> "valid", length |-> span + 1]

Blocks == {<<0, 0>>, <<255, 216>>, <<0, 255>>, <<216, 0>>, <<102, 255>>, <<216, 102>>, <<118, 1>>}

MCContents == {a \o b \o c : a \in Blocks, b \in Blocks, c \in Blocks}

AllGood == [s \in 0..2 |-> "good"]

MCHealths == {AllGood, [AllGood EXCEPT ![1] = "bad"], [AllGood EXCEPT ![2] = "flaky"],
              [s \in 0..2 |-> IF s = 0 THEN "flaky" ELSE "bad"]}

MCPlans == {<<[start |-> 0, end |-> 6]>>,
            <<[start |-> 0, end |-> 3], [start |-> 3, end |-> 6]>>,
            <<[start |-> 1, end |-> 5]>>,
            <<[start |-> 4, end |-> 8]>>}
===============================================================================
