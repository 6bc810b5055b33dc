----------------------------- MODULE MCInventory -----------------------------
(* Instances of Inventory for TLC. *)
EXTENDS Inventory, TLC

CONSTANTS h1, h2, c1, c2, p1, p2, l1, l2, b1, b2

(* Two members of one household. *)
SameHousehold == [c \in {c1, c2} |-> h1]

(* One client in each of two households. *)
TwoHouseholds == [c \in {c1, c2} |-> IF c = c1 THEN h1 ELSE h2]

Body(p, l, q, v) ==
    [product |-> p, location |-> l, quantity |-> q, level |-> v, opened_at |-> NULL]

MinusOne == {-1}

OneOrTwo == {Body(p1, l1, q, NULL) : q \in {1, 2}}

(* Valid and invalid bodies of both tracking modes. *)
BothModes == {Body(p1, l1, q, v) : q \in {-1, 1, NULL}, v \in {"low", NULL}}

(* Products and locations of either household, mixed at will. *)
MixedKeys == {Body(p, l, 1, NULL) : p \in {p1, p2}, l \in {l1, l2}}

(* Those of two households, and of both tracking modes. *)
KeysAndModes == MixedKeys \cup BothModes

(* A household that already has its product and its location, where only   *)
(* batches change: reachable from Init by createProduct, createLocation.   *)
StockedInit ==
    /\ products = [p \in Products |-> [household |-> h1, mode |-> "quantity"]]
    /\ locations = [l \in Locations |-> h1]
    /\ batches = [b \in BatchIds |-> NULL]
    /\ events = << >>
    /\ issued = Products \cup Locations
    /\ req = [c \in Clients |-> NULL]
    /\ inc = [b \in BatchIds |-> 0]
    /\ written = {}

StockedNext == \E c \in Clients : Handler(c) \/ Transaction(c)

StockedSpec == StockedInit /\ [][StockedNext]_vars

Members == Permutations({c1, c2})
=============================================================================
