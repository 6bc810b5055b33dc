------------------------------ MODULE OneAtATime ------------------------------
(***************************************************************************)
(* What a lock promises, whoever is killed where, and whoever removes a    *)
(* lock that was left behind: one process at a time is at work, and the    *)
(* next begins only when nobody is.  BatteryAgent implements it twice.     *)
(***************************************************************************)
CONSTANT Processes

VARIABLE inside    \* the processes at work

Init == inside = {}

Enter(p) ==
    /\ inside = {}
    /\ inside' = {p}

(* It is done, or is killed.                                               *)
Leave(p) ==
    /\ inside = {p}
    /\ inside' = {}

Next == \E p \in Processes : Enter(p) \/ Leave(p)

Spec == Init /\ [][Next]_inside
=============================================================================
