----------------------------- MODULE MCMembership -----------------------------
(* Instances of Membership for TLC. *)
EXTENDS Membership, TLC

(* Ids of one table are interchangeable, and so are the handlers. *)
Ids == Permutations(Clients) \cup Permutations(Sessions)
         \cup Permutations(Invites) \cup Permutations(Users \ {Admin})
=============================================================================
