----------------------------- MODULE OneTimeCode -----------------------------
(***************************************************************************)
(* What a pairing code promises, whatever requests, devices and expiries   *)
(* overlap: it is open once, for one household to claim, and never opens   *)
(* again.  KindlePairing implements it.                                    *)
(***************************************************************************)
CONSTANTS Pairings, Households, NULL

VARIABLES
    status,   \* status[k]: "new", "open" or "spent"
    holder    \* holder[k]: the household that claimed k, or NULL

vars == <<status, holder>>

Init ==
    /\ status = [k \in Pairings |-> "new"]
    /\ holder = [k \in Pairings |-> NULL]

Issue(k) ==
    /\ status[k] = "new"
    /\ status' = [status EXCEPT ![k] = "open"]
    /\ UNCHANGED holder

Claim(k, h) ==
    /\ status[k] = "open"
    /\ status' = [status EXCEPT ![k] = "spent"]
    /\ holder' = [holder EXCEPT ![k] = h]

(* Expired codes are cleared, any number at a time.                        *)
Clear(K) ==
    /\ \A k \in K : status[k] = "open"
    /\ status' = [k \in Pairings |-> IF k \in K THEN "spent" ELSE status[k]]
    /\ UNCHANGED holder

Next ==
    \/ \E k \in Pairings : Issue(k)
    \/ \E k \in Pairings, h \in Households : Claim(k, h)
    \/ \E K \in SUBSET Pairings : Clear(K)

Spec == Init /\ [][Next]_vars
=============================================================================
