---------------------------- MODULE ConnectionPool ----------------------------
(***************************************************************************)
(* The pool of database connections that all HTTP handlers share           *)
(* (internal/pantry/store.go), and how long each handler keeps one.        *)
(*                                                                         *)
(* A handler runs its statements one after the other.  Most hold a         *)
(* connection until they are done.  The loops of listBatches, listProducts *)
(* and dashboardData hold one for their rows, and for every row need       *)
(* another, for hydrateExpiry or fillProductStock.                         *)
(***************************************************************************)
EXTENDS Integers, Sequences, FiniteSets

CONSTANTS
    Requests,       \* the requests that may be served at the same time
    Plan,           \* Plan[r]: the statements of r's handler, in order
    MaxOpenConns,   \* db.SetMaxOpenConns
    MaxRows         \* bound on the rows a loop meets

ASSUME ConnectionPoolAssumption ==
    /\ IsFiniteSet(Requests)
    /\ Plan \in [Requests -> Seq({"query", "rows"})]
    /\ \A r \in Requests : Plan[r] # << >>
    /\ MaxOpenConns \in Nat \ {0} /\ MaxRows \in Nat

VARIABLES
    pc,    \* pc[r]: "idle"; "waiting" for a connection or "holding" one;
           \* "nested": holding one and waiting for a second; "both"
    at,    \* at[r]: the statement of Plan[r] that r runs, 0 when idle
    rows   \* rows[r]: the rows r's loop has still to meet

vars == <<pc, at, rows>>

TypeOK ==
    /\ pc \in [Requests -> {"idle", "waiting", "holding", "nested", "both"}]
    /\ at \in [Requests -> Nat]
    /\ rows \in [Requests -> 0..MaxRows]
    /\ \A r \in Requests : at[r] <= Len(Plan[r]) /\ (at[r] = 0 <=> pc[r] = "idle")

Init ==
    /\ pc = [r \in Requests |-> "idle"]
    /\ at = [r \in Requests |-> 0]
    /\ rows = [r \in Requests |-> 0]

-----------------------------------------------------------------------------
Users(states) == {r \in Requests : pc[r] \in states}

InUse == Cardinality(Users({"holding", "nested", "both"})) + Cardinality(Users({"both"}))

(* A faulty variant: a pool of two connections.                            *)
FreeOfTwo == InUse < 2

Free == InUse < MaxOpenConns

Loops(r) == Plan[r][at[r]] = "rows"

(* The request arrives.                                                    *)
Arrive(r) ==
    /\ pc[r] = "idle"
    /\ pc' = [pc EXCEPT ![r] = "waiting"]
    /\ at' = [at EXCEPT ![r] = 1]
    /\ UNCHANGED rows

(* database/sql hands a connection to any of those that wait, at random.   *)
Grant(r) ==
    /\ Free
    /\ \/ /\ pc[r] = "waiting"
          /\ pc' = [pc EXCEPT ![r] = "holding"]
          /\ \E n \in IF Loops(r) THEN 0..MaxRows ELSE {0} : rows' = [rows EXCEPT ![r] = n]
       \/ /\ pc[r] = "nested"
          /\ pc' = [pc EXCEPT ![r] = "both"]
          /\ UNCHANGED rows
    /\ UNCHANGED at

(* rows.Next, and the first query about the row.                           *)
NextRow(r) ==
    /\ pc[r] = "holding" /\ rows[r] > 0
    /\ pc' = [pc EXCEPT ![r] = "nested"]
    /\ UNCHANGED <<at, rows>>

(* A faulty variant: the loop does not go on to the next row.              *)
RowAgain(r) ==
    /\ pc[r] = "both"
    /\ pc' = [pc EXCEPT ![r] = "holding"]
    /\ UNCHANGED <<at, rows>>

(* QueryRow(...).Scan gives its connection back.                           *)
RowDone(r) ==
    /\ pc[r] = "both"
    /\ pc' = [pc EXCEPT ![r] = "holding"]
    /\ rows' = [rows EXCEPT ![r] = @ - 1]
    /\ UNCHANGED at

(* The statement is done, or its rows are closed; the handler goes on with *)
(* the next statement, or answers.                                         *)
StatementDone(r) ==
    /\ pc[r] = "holding" /\ rows[r] = 0
    /\ IF at[r] < Len(Plan[r])
         THEN /\ pc' = [pc EXCEPT ![r] = "waiting"]
              /\ at' = [at EXCEPT ![r] = @ + 1]
         ELSE /\ pc' = [pc EXCEPT ![r] = "idle"]
              /\ at' = [at EXCEPT ![r] = 0]
    /\ UNCHANGED rows

Work(r) == NextRow(r) \/ RowDone(r) \/ StatementDone(r)

Next == \E r \in Requests : Arrive(r) \/ Grant(r) \/ Work(r)

(* The database answers every statement, and a handler never stops in the  *)
(* middle.  The random choice among those that wait passes nobody over     *)
(* for ever.                                                               *)
Spec ==
    /\ Init /\ [][Next]_vars
    /\ \A r \in Requests : WF_vars(Work(r)) /\ SF_vars(Grant(r))

-----------------------------------------------------------------------------
(* The requests that ever hold a connection while they wait for another.   *)
Looping == {r \in Requests : \E i \in DOMAIN Plan[r] : Plan[r][i] = "rows"}

(* Only a loop meets rows: the invariant behind ConnectionPoolProofs.      *)
IInv ==
    /\ TypeOK
    /\ \A r \in Requests : pc[r] \in {"nested", "both"} => rows[r] > 0
    /\ \A r \in Requests : rows[r] > 0 => r \in Looping

(* The loops never use up the pool: some connection is free, or is held by *)
(* a handler that can give it back without getting another one first.      *)
NotWedged == Free \/ Users({"holding", "both"}) # {}

(* What a request has still to do: the statements after the one it runs,   *)
(* and of that one the rows still to meet.                                 *)
Left(r) ==
    CASE pc[r] = "idle" -> 0
      [] pc[r] = "waiting" -> 3 * MaxRows + 2
      [] pc[r] = "holding" -> 3 * rows[r] + 1
      [] pc[r] = "nested" -> 3 * rows[r]
      [] pc[r] = "both" -> 3 * rows[r] - 1

Rank(r) == Left(r) + (IF pc[r] = "idle" THEN 0 ELSE (Len(Plan[r]) - at[r]) * (3 * MaxRows + 3))

(* Every connection that is granted, and everything done with it, brings   *)
(* its request nearer to the answer and sets no other request back.        *)
StepsRunOut ==
    [][\A r \in Requests : Grant(r) \/ Work(r) =>
         /\ Rank(r)' < Rank(r)
         /\ \A q \in Requests \ {r} : Rank(q)' = Rank(q)]_vars

(* Every request is answered, the health check of the container and the    *)
(* dashboard of the Kindle included.                                       *)
Answered == \A r \in Requests : pc[r] # "idle" ~> pc[r] = "idle"
=============================================================================
