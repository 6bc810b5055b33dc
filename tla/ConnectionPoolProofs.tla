------------------------- MODULE ConnectionPoolProofs -------------------------
(***************************************************************************)
(* Proofs about ConnectionPool: the pool cannot be wedged by fewer loops   *)
(* than it has connections, however many other requests there are, and no  *)
(* request goes on for ever.                                               *)
(***************************************************************************)
EXTENDS ConnectionPool, FiniteSetTheorems, TLAPS

LEMMA InitInvariant == Init => IInv
  BY ConnectionPoolAssumption DEF Init, IInv, TypeOK

LEMMA GrantStep ==
    ASSUME IInv, NEW r \in Requests, Grant(r)
    PROVE  IInv'
<1> USE ConnectionPoolAssumption
<1>1. CASE /\ pc[r] = "waiting"
           /\ pc' = [pc EXCEPT ![r] = "holding"]
           /\ \E n \in IF Loops(r) THEN 0..MaxRows ELSE {0} : rows' = [rows EXCEPT ![r] = n]
  <2>1. PICK n \in 0..MaxRows : rows' = [rows EXCEPT ![r] = n] /\ (n # 0 => Loops(r))
    <3>1. CASE Loops(r)
      BY <1>1, <3>1
    <3>2. CASE ~Loops(r)
      <4>1. rows' = [rows EXCEPT ![r] = 0]
        BY <1>1, <3>2
      <4>2. 0 \in 0..MaxRows
        OBVIOUS
      <4> WITNESS 0 \in 0..MaxRows
      <4> QED BY <4>1
    <3> QED BY <3>1, <3>2
  <2>2. at[r] \in DOMAIN Plan[r] /\ at' = at
    BY <1>1 DEF IInv, TypeOK, Grant
  <2>3. n # 0 => r \in Looping
    BY <2>1, <2>2 DEF Loops, Looping
  <2> QED BY <1>1, <2>1, <2>2, <2>3 DEF IInv, TypeOK
<1>2. CASE /\ pc[r] = "nested"
           /\ pc' = [pc EXCEPT ![r] = "both"]
           /\ UNCHANGED rows
  BY <1>2 DEF IInv, TypeOK, Grant
<1> QED BY <1>1, <1>2 DEF Grant

LEMMA NextInvariant == IInv /\ [Next]_vars => IInv'
<1> SUFFICES ASSUME IInv, [Next]_vars PROVE IInv'
  OBVIOUS
<1> USE ConnectionPoolAssumption
<1>1. CASE UNCHANGED vars
  BY <1>1 DEF vars, IInv, TypeOK
<1>2. ASSUME NEW r \in Requests, Arrive(r)
      PROVE  IInv'
  BY <1>2 DEF Arrive, IInv, TypeOK
<1>3. ASSUME NEW r \in Requests, NextRow(r)
      PROVE  IInv'
  BY <1>3 DEF NextRow, IInv, TypeOK
<1>4. ASSUME NEW r \in Requests, RowDone(r)
      PROVE  IInv'
  BY <1>4 DEF RowDone, IInv, TypeOK
<1>5. ASSUME NEW r \in Requests, StatementDone(r)
      PROVE  IInv'
  <2>1. Len(Plan[r]) \in Nat /\ Len(Plan[r]) > 0 /\ at[r] \in Nat /\ rows' = rows
    BY <1>5 DEF StatementDone, IInv, TypeOK
  <2>2. PICK p \in {"idle", "waiting"}, m \in Nat :
          /\ pc' = [pc EXCEPT ![r] = p] /\ at' = [at EXCEPT ![r] = m]
          /\ m <= Len(Plan[r]) /\ (m = 0 <=> p = "idle")
    <3>1. CASE at[r] < Len(Plan[r])
      <4> DEFINE m == at[r] + 1
      <4>1. m \in Nat /\ m <= Len(Plan[r]) /\ m # 0
        BY <2>1, <3>1
      <4>2. pc' = [pc EXCEPT ![r] = "waiting"] /\ at' = [at EXCEPT ![r] = m]
        BY <1>5, <3>1 DEF StatementDone
      <4> HIDE DEF m
      <4> QED BY <4>1, <4>2
    <3>2. CASE ~(at[r] < Len(Plan[r]))
      <4>1. pc' = [pc EXCEPT ![r] = "idle"] /\ at' = [at EXCEPT ![r] = 0]
        BY <1>5, <3>2 DEF StatementDone
      <4>2. 0 <= Len(Plan[r]) /\ (0 = 0 <=> "idle" = "idle")
        BY <2>1
      <4> WITNESS "idle" \in {"idle", "waiting"}, 0 \in Nat
      <4> QED BY <4>1, <4>2
    <3> QED BY <3>1, <3>2
  <2> QED BY <2>1, <2>2 DEF IInv, TypeOK
<1> QED BY <1>1, <1>2, <1>3, <1>4, <1>5, GrantStep DEF Next, Work

THEOREM Invariant == Spec => []IInv
<1> QED BY InitInvariant, NextInvariant, PTL DEF Spec

(* If none of the users of the pool can give its connection back, they all *)
(* are loops that wait for a second one, each holding one connection.      *)
LEMMA StuckUsers ==
    ASSUME IInv, Cardinality(Looping) < MaxOpenConns, Users({"holding", "both"}) = {}
    PROVE  Free
<1> USE ConnectionPoolAssumption
<1> DEFINE nested == Users({"holding", "nested", "both"})
<1>1. IsFiniteSet(Looping)
  BY FS_Subset DEF Looping
<1>2. nested \subseteq Looping
  BY DEF Users, IInv
<1>3. Cardinality(nested) <= Cardinality(Looping)
  BY <1>1, <1>2, FS_Subset
<1>4. Users({"both"}) = {}
  BY DEF Users
<1>5. Cardinality(Users({"both"})) = 0
  BY <1>4, FS_EmptySet
<1>6. Cardinality(nested) \in Nat /\ Cardinality(Looping) \in Nat
  BY <1>1, <1>2, FS_Subset, FS_CardinalityType
<1> QED BY <1>3, <1>5, <1>6 DEF InUse, Free

(* With fewer loops than connections some handler can always go on.        *)
THEOREM PoolNeverWedged ==
    ASSUME Cardinality(Looping) < MaxOpenConns
    PROVE  Spec => []NotWedged
<1>1. IInv => NotWedged
  BY StuckUsers DEF NotWedged
<1> QED BY <1>1, Invariant, PTL

-----------------------------------------------------------------------------
(* How much a request has left to do.                                      *)

LEMMA StatementsLeft ==
    ASSUME NEW n \in Nat, NEW m \in Nat, m < n, NEW w \in Nat
    PROVE  (n - m) * w \in Nat /\ (n - m) * w = (n - (m + 1)) * w + w
<1>1. PICK k \in Nat : n - m = k + 1 /\ n - (m + 1) = k
  <2>1. n - (m + 1) \in Nat /\ n - m = (n - (m + 1)) + 1
    OBVIOUS
  <2> QED BY <2>1
<1>2. (k + 1) * w = k * w + w /\ k * w \in Nat
  OBVIOUS
<1> QED BY <1>1, <1>2

(* A request that no step is about keeps its place.                        *)
LEMMA OthersStay ==
    ASSUME IInv, NEW r \in Requests, Grant(r) \/ Work(r), NEW q \in Requests \ {r}
    PROVE  Rank(q)' = Rank(q)
<1>1. pc'[q] = pc[q] /\ at'[q] = at[q] /\ rows'[q] = rows[q]
  <2>1. CASE Grant(r)
    <3>1. at' = at
      BY <2>1 DEF Grant
    <3>2. pc'[q] = pc[q] /\ rows'[q] = rows[q]
      BY <2>1 DEF Grant, IInv, TypeOK
    <3> QED BY <3>1, <3>2
  <2>2. CASE NextRow(r)
    BY <2>2 DEF NextRow, IInv, TypeOK
  <2>3. CASE RowDone(r)
    BY <2>3 DEF RowDone, IInv, TypeOK
  <2>4. CASE StatementDone(r)
    BY <2>4 DEF StatementDone, IInv, TypeOK
  <2> QED BY <2>1, <2>2, <2>3, <2>4 DEF Work
<1> QED BY <1>1 DEF Rank, Left

(* A step within a statement.                                              *)
LEMMA LeftDecreases ==
    ASSUME IInv, NEW r \in Requests, pc[r] # "idle", pc'[r] # "idle", at'[r] = at[r],
           Left(r)' \in Nat, Left(r) \in Nat, Left(r)' < Left(r)
    PROVE  Rank(r)' < Rank(r)
<1>1. /\ Len(Plan[r]) \in Nat /\ at[r] \in Nat /\ at[r] <= Len(Plan[r])
      /\ 3 * MaxRows + 3 \in Nat
  BY ConnectionPoolAssumption DEF IInv, TypeOK
<1> DEFINE z == (Len(Plan[r]) - at[r]) * (3 * MaxRows + 3)
<1>2. z \in Int
  BY <1>1
<1>3. Rank(r) = Left(r) + z /\ Rank(r)' = Left(r)' + z
  BY DEF Rank
<1> HIDE DEF z
<1> QED BY <1>2, <1>3

LEMMA WithinStatement ==
    ASSUME IInv, NEW r \in Requests, Grant(r) \/ NextRow(r) \/ RowDone(r)
    PROVE  Rank(r)' < Rank(r)
<1> USE ConnectionPoolAssumption
<1>1. /\ pc[r] # "idle" /\ at'[r] = at[r] /\ rows[r] \in 0..MaxRows
      /\ pc[r] \in {"nested", "both"} => rows[r] > 0
  BY DEF Grant, NextRow, RowDone, IInv, TypeOK
<1>2. CASE Grant(r) /\ pc[r] = "waiting"
  <2>1. pc'[r] = "holding" /\ rows'[r] \in 0..MaxRows
    <3>1. PICK n \in 0..MaxRows : rows' = [rows EXCEPT ![r] = n]
      <4>1. PICK n \in IF Loops(r) THEN 0..MaxRows ELSE {0} : rows' = [rows EXCEPT ![r] = n]
        BY <1>2 DEF Grant
      <4>2. n \in 0..MaxRows
        BY <4>1
      <4> QED BY <4>1, <4>2
    <3>2. pc'[r] = "holding"
      BY <1>2 DEF Grant, IInv, TypeOK
    <3> QED BY <3>1, <3>2 DEF IInv, TypeOK
  <2>2. Left(r) = 3 * MaxRows + 2 /\ Left(r)' = 3 * rows'[r] + 1
    BY <1>2, <2>1 DEF Left
  <2>3. 3 * rows'[r] + 1 \in Nat /\ 3 * MaxRows + 2 \in Nat /\ 3 * rows'[r] + 1 < 3 * MaxRows + 2
    BY <2>1
  <2>4. pc'[r] # "idle"
    BY <2>1
  <2> QED BY <1>1, <2>2, <2>3, <2>4, LeftDecreases
<1>3. CASE Grant(r) /\ pc[r] = "nested"
  <2>1. pc'[r] = "both" /\ rows'[r] = rows[r]
    BY <1>3 DEF Grant, IInv, TypeOK
  <2>2. Left(r) = 3 * rows[r] /\ Left(r)' = 3 * rows[r] - 1
    BY <1>3, <2>1 DEF Left
  <2> QED BY <1>1, <1>3, <2>1, <2>2, LeftDecreases
<1>4. CASE NextRow(r)
  <2>1. pc[r] = "holding" /\ rows[r] > 0 /\ pc'[r] = "nested" /\ rows'[r] = rows[r]
    BY <1>4 DEF NextRow, IInv, TypeOK
  <2>2. Left(r) = 3 * rows[r] + 1 /\ Left(r)' = 3 * rows[r]
    BY <2>1 DEF Left
  <2> QED BY <1>1, <2>1, <2>2, LeftDecreases
<1>5. CASE RowDone(r)
  <2>1. pc[r] = "both" /\ pc'[r] = "holding" /\ rows'[r] = rows[r] - 1
    BY <1>5 DEF RowDone, IInv, TypeOK
  <2>2. Left(r) = 3 * rows[r] - 1 /\ Left(r)' = 3 * (rows[r] - 1) + 1
    BY <2>1 DEF Left
  <2>3. /\ 3 * rows[r] - 1 \in Nat /\ 3 * (rows[r] - 1) + 1 \in Nat
        /\ 3 * (rows[r] - 1) + 1 < 3 * rows[r] - 1
    BY <1>1, <2>1
  <2>4. pc'[r] # "idle"
    BY <2>1
  <2> QED BY <1>1, <2>2, <2>3, <2>4, LeftDecreases
<1>6. Grant(r) => pc[r] = "waiting" \/ pc[r] = "nested"
  BY DEF Grant
<1> QED BY <1>2, <1>3, <1>4, <1>5, <1>6

LEMMA EndOfStatement ==
    ASSUME IInv, NEW r \in Requests, StatementDone(r)
    PROVE  Rank(r)' < Rank(r)
<1> USE ConnectionPoolAssumption
<1> DEFINE n == Len(Plan[r])  w == 3 * MaxRows + 3
<1>1. n \in Nat /\ at[r] \in Nat /\ at[r] <= n /\ w \in Nat
  BY DEF IInv, TypeOK
<1>2. pc[r] = "holding" /\ rows[r] = 0
  BY DEF StatementDone
<1>3. Rank(r) = 1 + (n - at[r]) * w
  BY <1>2 DEF Rank, Left
<1>4. CASE at[r] < n
  <2>1. pc'[r] = "waiting" /\ at'[r] = at[r] + 1
    BY <1>1, <1>4 DEF StatementDone, IInv, TypeOK
  <2>2. Rank(r)' = 3 * MaxRows + 2 + (n - (at[r] + 1)) * w
    BY <2>1 DEF Rank, Left
  <2>3. (n - at[r]) * w = (n - (at[r] + 1)) * w + w
    BY <1>1, <1>4, StatementsLeft
  <2>4. (n - (at[r] + 1)) * w \in Int
    BY <1>1
  <2> DEFINE x == (n - (at[r] + 1)) * w  y == (n - at[r]) * w
  <2>5. x \in Int /\ y = x + 3 * MaxRows + 3 /\ Rank(r)' = 3 * MaxRows + 2 + x /\ Rank(r) = 1 + y
    BY <1>3, <2>2, <2>3, <2>4
  <2> HIDE DEF x, y
  <2> QED BY <2>5
<1>5. CASE ~(at[r] < n)
  <2>1. pc'[r] = "idle"
    BY <1>5 DEF StatementDone, IInv, TypeOK
  <2>2. Rank(r)' = 0
    BY <2>1 DEF Rank, Left
  <2>3. n - at[r] = 0
    BY <1>1, <1>5
  <2>4. Rank(r) = 1 + 0 * w
    BY <1>3, <2>3
  <2> QED BY <2>2, <2>4, <1>1
<1> QED BY <1>4, <1>5

(* Whatever the pool grants is well spent: what a request has left to do   *)
(* shrinks with each of its steps, and grows with nobody's.  With          *)
(* PoolNeverWedged this is why Answered holds; that a step is taken at all *)
(* is the fairness TLC uses.                                               *)
THEOREM RequestsAdvance == Spec => StepsRunOut
<1> DEFINE A == \A r \in Requests : Grant(r) \/ Work(r) =>
                  /\ Rank(r)' < Rank(r)
                  /\ \A q \in Requests \ {r} : Rank(q)' = Rank(q)
<1>1. ASSUME IInv PROVE A
  <2>1. ASSUME NEW r \in Requests, Grant(r) \/ Work(r) PROVE Rank(r)' < Rank(r)
    BY <1>1, <2>1, WithinStatement, EndOfStatement DEF Work
  <2>2. ASSUME NEW r \in Requests, Grant(r) \/ Work(r), NEW q \in Requests \ {r}
        PROVE  Rank(q)' = Rank(q)
    BY <1>1, <2>2, OthersStay
  <2> QED BY <2>1, <2>2
<1>2. IInv => [A]_vars
  BY <1>1
<1>3. StepsRunOut <=> [][A]_vars
  BY DEF StepsRunOut
<1> HIDE DEF A
<1> QED BY <1>2, <1>3, Invariant, PTL
=============================================================================
