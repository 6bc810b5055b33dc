--------------------------- MODULE MCKindlePairing ---------------------------
(* Instances of KindlePairing for TLC. *)
EXTENDS KindlePairing

CONSTANTS h1, h2, c1, c2, c3

(* Two owners of one household, and one of another. *)
ThreeOwners == [c \in {c1, c2, c3} |-> IF c = c3 THEN h2 ELSE h1]

OneOwner == [c \in {c1} |-> h1]
=============================================================================
