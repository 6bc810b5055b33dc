---------------------------- MODULE WebPageProofs ----------------------------
(***************************************************************************)
(* Proofs about WebPage: type correctness, that nobody is shown an empty   *)
(* shell, that a list holds the writes known when it was asked for, and    *)
(* how often a late answer can take a write off the page again.            *)
(***************************************************************************)
EXTENDS WebPage, FiniteSetTheorems, TLAPS

(* The parts of a call, of a load and of a view.                           *)
LEMMA CallParts ==
    ASSUME NEW op, NEW pc, NEW by, NEW answer
    PROVE  /\ CallOf(op, pc, by, answer).op = op /\ CallOf(op, pc, by, answer).pc = pc
           /\ CallOf(op, pc, by, answer).by = by /\ CallOf(op, pc, by, answer).answer = answer
BY DEF CallOf

LEMMA LoadParts ==
    ASSUME NEW by, NEW version, NEW since
    PROVE  /\ LoadOf(by, version, since).by = by /\ LoadOf(by, version, since).version = version
           /\ LoadOf(by, version, since).since = since
BY DEF LoadOf

LEMMA ViewParts ==
    ASSUME NEW household, NEW version, NEW since
    PROVE  /\ ViewOf(household, version, since).household = household
           /\ ViewOf(household, version, since).version = version
           /\ ViewOf(household, version, since).since = since
BY DEF ViewOf

LEMMA CallTyped ==
    ASSUME NEW op \in Buttons \cup Starts \cup {"logout", "display"},
           NEW pc \in {"status", "post", "done", "me", "told", "expel", "load"},
           NEW by \in Accounts \cup {NULL}, NEW answer \in Nat
    PROVE  CallOf(op, pc, by, answer) \in Call /\ CallOf(op, pc, by, answer) # NULL
BY WebPageAssumption DEF CallOf, Call

LEMMA LoadTyped ==
    ASSUME NEW by \in Accounts \cup {NULL}, NEW version \in Nat \cup {NULL}, NEW since \in Nat
    PROVE  LoadOf(by, version, since) \in Load /\ LoadOf(by, version, since) # NULL
BY WebPageAssumption DEF LoadOf, Load

LEMMA ViewTyped ==
    ASSUME NEW household \in Households, NEW version \in Nat, NEW since \in Nat
    PROVE  ViewOf(household, version, since) \in View /\ ViewOf(household, version, since) # NULL
BY WebPageAssumption DEF ViewOf, View

LEMMA KnownTyped ==
    ASSUME NEW o \in [Households -> [Lists -> Nat]], NEW by \in Accounts \cup {NULL}, NEW l \in Lists
    PROVE  Known(o, by, l) \in Nat
BY WebPageAssumption DEF Known

LEMMA CallFields ==
    ASSUME TypeOK, NEW c \in Calls, call[c] # NULL
    PROVE  /\ call[c] \in Call
           /\ call[c].op \in Buttons \cup Starts \cup {"logout", "display"}
           /\ call[c].pc \in {"status", "post", "done", "me", "told", "expel", "load"}
           /\ call[c].by \in Accounts \cup {NULL} /\ call[c].answer \in Nat
           /\ call[c].pc = "told" => call[c].answer \in {0, 1}
<1>1. call[c] \in Call /\ (call[c].pc = "told" => call[c].answer \in {0, 1})
  BY DEF TypeOK
<1> QED BY <1>1 DEF Call

LEMMA LoadFields ==
    ASSUME TypeOK, NEW c \in Calls, NEW l \in Lists, load[c][l] # NULL
    PROVE  /\ load[c][l].by \in Accounts \cup {NULL}
           /\ load[c][l].version \in Nat \cup {NULL} /\ load[c][l].since \in Nat
<1>1. load[c][l] \in Load
  BY DEF TypeOK
<1> QED BY <1>1 DEF Load

LEMMA ViewFields ==
    ASSUME TypeOK, NEW l \in Lists, view[l] # NULL
    PROVE  /\ view[l].household \in Households
           /\ view[l].version \in Nat /\ view[l].since \in Nat
<1>1. view[l] \in View
  BY DEF TypeOK
<1> QED BY <1>1 DEF View

-----------------------------------------------------------------------------
(* What the building blocks of the actions do to calls, loads and views.   *)

LEMMA Awaited ==
    ASSUME TypeOK, NEW c \in Calls, call[c] # NULL,
           NEW pc \in {"status", "post", "done", "me", "told", "expel", "load"},
           NEW by \in Accounts \cup {NULL}, NEW answer \in Nat, Await(c, pc, by, answer)
    PROVE  /\ call' \in [Calls -> Call \cup {NULL}]
           /\ call'[c] # NULL /\ call'[c].op = call[c].op /\ call'[c].pc = pc
           /\ call'[c].by = by /\ call'[c].answer = answer
           /\ \A d \in Calls \ {c} : call'[d] = call[d]
<1> DEFINE q == CallOf(call[c].op, pc, by, answer)
<1>1. q \in Call /\ q # NULL
  BY CallFields, CallTyped
<1>2. q.op = call[c].op /\ q.pc = pc /\ q.by = by /\ q.answer = answer
  BY CallParts
<1>3. call' = [call EXCEPT ![c] = q] /\ call \in [Calls -> Call \cup {NULL}]
  BY DEF Await, TypeOK
<1> HIDE DEF q
<1> QED BY <1>1, <1>2, <1>3

LEMMA Returned ==
    ASSUME TypeOK, NEW c \in Calls, Return(c)
    PROVE  /\ call' \in [Calls -> Call \cup {NULL}] /\ loading' \in BOOLEAN
           /\ call'[c] = NULL
           /\ \A d \in Calls \ {c} : call'[d] = call[d]
BY DEF Return, TypeOK

(* A request that has just been sent, by an account or without a cookie.   *)
Fresh(c, l) ==
    load[c][l] # NULL =>
      /\ load[c][l].by \in Accounts \cup {NULL} /\ load[c][l].version = NULL
      /\ load[c][l].since = Known(own, load[c][l].by, l)

LEMMA Sent ==
    ASSUME TypeOK, NEW c \in Calls, NEW ls, NEW by \in Accounts \cup {NULL},
           own' \in [Households -> [Lists -> Nat]], Send(c, ls, by)
    PROVE  /\ load' \in [Calls -> [Lists -> Load \cup {NULL}]]
           /\ \A d \in Calls \ {c} : load'[d] = load[d]
           /\ \A l \in Lists \ ls : load'[c][l] = load[c][l]
           /\ \A l \in Lists \cap ls : load'[c][l] # NULL /\ Fresh(c, l)'
<1> DEFINE g(l) == LoadOf(by, NULL, Known(own', by, l))
<1>1. ASSUME NEW l \in Lists
      PROVE  /\ g(l) \in Load /\ g(l) # NULL
             /\ g(l).by = by /\ g(l).version = NULL /\ g(l).since = Known(own', by, l)
  <2>1. Known(own', by, l) \in Nat
    BY KnownTyped
  <2>2. g(l) \in Load /\ g(l) # NULL
    BY <2>1, LoadTyped
  <2>3. g(l).by = by /\ g(l).version = NULL /\ g(l).since = Known(own', by, l)
    BY LoadParts
  <2> QED BY <2>2, <2>3
<1>2. load' = [load EXCEPT ![c] = [l \in Lists |-> IF l \in ls THEN g(l) ELSE load[c][l]]]
  BY DEF Send
<1> HIDE DEF g
<1>3. /\ load' \in [Calls -> [Lists -> Load \cup {NULL}]]
      /\ \A d \in Calls \ {c} : load'[d] = load[d]
      /\ \A l \in Lists : load'[c][l] = IF l \in ls THEN g(l) ELSE load[c][l]
  BY <1>1, <1>2 DEF TypeOK
<1>4. \A l \in Lists \cap ls : load'[c][l] # NULL /\ Fresh(c, l)'
  BY <1>1, <1>3 DEF Fresh
<1> QED BY <1>3, <1>4

LEMMA AwaitedAll ==
    ASSUME TypeOK, NEW c \in Calls, call[c] # NULL, NEW ls, NEW by \in Accounts \cup {NULL},
           own' \in [Households -> [Lists -> Nat]], AwaitAll(c, ls, by)
    PROVE  /\ call' \in [Calls -> Call \cup {NULL}] /\ loading' \in BOOLEAN
           /\ load' \in [Calls -> [Lists -> Load \cup {NULL}]]
           /\ call'[c] # NULL => call'[c].op = call[c].op /\ call'[c].pc = "load"
           /\ \A d \in Calls \ {c} : call'[d] = call[d] /\ load'[d] = load[d]
           /\ \A l \in Lists : load'[c][l] = load[c][l] \/ Fresh(c, l)'
           /\ \A l \in Lists \cap ls : Fresh(c, l)'
<1>1. CASE ls = {}
  BY <1>1, Returned DEF AwaitAll, TypeOK
<1>2. CASE ls # {}
  <2>1. Await(c, "load", by, 0) /\ Send(c, ls, by) /\ loading' = loading
    BY <1>2 DEF AwaitAll
  <2>2. loading' \in BOOLEAN
    BY <2>1 DEF TypeOK
  <2>3. /\ load' \in [Calls -> [Lists -> Load \cup {NULL}]]
        /\ \A d \in Calls \ {c} : load'[d] = load[d]
        /\ \A l \in Lists : load'[c][l] = load[c][l] \/ Fresh(c, l)'
        /\ \A l \in Lists \cap ls : Fresh(c, l)'
    BY <2>1, Sent
  <2> QED BY <2>1, <2>2, <2>3, Awaited
<1> QED BY <1>1, <1>2

-----------------------------------------------------------------------------
(* Type correctness.                                                       *)

LEMMA OpenedTyped ==
    ASSUME TypeOK, NEW p \in AllPaths, Opened(p), own' = own
    PROVE  /\ path' \in AllPaths /\ loading' \in BOOLEAN /\ loggedIn' \in BOOLEAN
           /\ me' = NULL /\ view' \in [Lists -> View \cup {NULL}]
           /\ \A l \in Lists : view'[l] = NULL
           /\ call' \in [Calls -> Call \cup {NULL}]
           /\ \A c \in Calls : call'[c] # NULL =>
                call'[c].op \in Starts /\ call'[c].pc \in {"status", "load"}
           /\ load' \in [Calls -> [Lists -> Load \cup {NULL}]]
           /\ \A c \in Calls : \A l \in Lists : Fresh(c, l)'
<1>1. /\ CallOf("boot", "load", Display, 0) \in Call
      /\ CallOf("boot", "status", NULL, 0) \in Call
  BY CallTyped, WebPageAssumption DEF Starts
<1>2. ASSUME NEW c \in Calls
      PROVE  /\ call'[c] \in Call \cup {NULL}
             /\ call'[c] # NULL => call'[c].op \in Starts /\ call'[c].pc \in {"status", "load"}
  <2>1. call'[c] \in {NULL, CallOf("boot", "load", Display, 0), CallOf("boot", "status", NULL, 0)}
    BY DEF Opened, BootCalls
  <2> QED BY <1>1, <2>1, CallParts DEF Starts
<1>3. call' = [c \in Calls |-> call'[c]]
  BY DEF Opened, BootCalls
<1>4. ASSUME NEW l \in Lists
      PROVE  LoadOf(Display, NULL, Known(own, Display, l)) \in Load
  BY LoadTyped, KnownTyped, WebPageAssumption DEF TypeOK
<1>5. ASSUME NEW c \in Calls, NEW l \in Lists
      PROVE  load'[c][l] \in Load \cup {NULL} /\ Fresh(c, l)'
  <2>1. load'[c][l] \in {NULL, LoadOf(Display, NULL, Known(own, Display, l))}
    BY DEF Opened, BootLoads
  <2>2. Fresh(c, l)'
    BY <2>1, LoadParts, WebPageAssumption DEF Fresh
  <2> QED BY <1>4, <2>1, <2>2
<1>6. load' = [c \in Calls |-> [l \in Lists |-> load'[c][l]]]
  BY DEF Opened, BootLoads
<1>7. load' \in [Calls -> [Lists -> Load \cup {NULL}]]
  BY <1>5, <1>6
<1>8. call' \in [Calls -> Call \cup {NULL}]
  BY <1>2, <1>3
<1> QED BY <1>2, <1>5, <1>7, <1>8 DEF Opened

LEMMA InitTyped == Init => TypeOK /\ StartsAsk /\ \A c \in Calls : \A l \in Lists : Fresh(c, l)
<1> SUFFICES ASSUME Init PROVE TypeOK /\ StartsAsk /\ \A c \in Calls : \A l \in Lists : Fresh(c, l)
  OBVIOUS
<1>1. /\ CallOf("boot", "load", Display, 0) \in Call
      /\ CallOf("boot", "status", NULL, 0) \in Call
  BY CallTyped, WebPageAssumption DEF Starts
<1>2. own \in [Households -> [Lists -> Nat]]
  BY DEF Init
<1>3. call \in [Calls -> Call \cup {NULL}]
  BY <1>1 DEF Init, BootCalls
<1>4. ASSUME NEW c \in Calls, NEW l \in Lists
      PROVE  load[c][l] \in Load \cup {NULL} /\ Fresh(c, l)
  <2>1. load[c][l] \in {NULL, LoadOf(Display, NULL, Known(own, Display, l))}
    BY DEF Init, BootLoads
  <2>2. Fresh(c, l)
    BY <2>1, LoadParts, WebPageAssumption DEF Fresh
  <2>3. LoadOf(Display, NULL, Known(own, Display, l)) \in Load
    BY <1>2, LoadTyped, KnownTyped, WebPageAssumption
  <2> QED BY <2>1, <2>2, <2>3
<1>5. load \in [Calls -> [Lists -> Load \cup {NULL}]]
  <2>1. load = [c \in Calls |-> [l \in Lists |-> load[c][l]]]
    BY DEF Init, BootLoads
  <2> QED BY <1>4, <2>1
<1>6. ASSUME NEW c \in Calls, call[c] # NULL
      PROVE  call[c].op \in Starts /\ call[c].pc \in {"status", "load"}
  <2>1. call[c] \in {CallOf("boot", "load", Display, 0), CallOf("boot", "status", NULL, 0)}
    BY <1>6 DEF Init, BootCalls
  <2> QED BY <2>1, CallParts DEF Starts
<1> QED BY <1>2, <1>3, <1>4, <1>5, <1>6, WebPageAssumption DEF Init, TypeOK, StartsAsk

(* It suffices to look at the one call that goes on.                       *)
LEMMA OneCall ==
    ASSUME TypeOK, StartsAsk, NEW c \in Calls,
           call' \in [Calls -> Call \cup {NULL}], \A d \in Calls \ {c} : call'[d] = call[d],
           call'[c] # NULL =>
             /\ call'[c].pc = "told" => call'[c].answer \in {0, 1}
             /\ call'[c].pc \in {"status", "me", "told", "expel"} => call'[c].op \in Starts
    PROVE  /\ \A d \in Calls : call'[d] # NULL /\ call'[d].pc = "told" => call'[d].answer \in {0, 1}
           /\ StartsAsk'
BY DEF TypeOK, StartsAsk

LEMMA TypedPress ==
    ASSUME TypeOK, StartsAsk, NEW c \in Calls, Press(c)
    PROVE  TypeOK' /\ StartsAsk'
<1>1. CASE displayTimer(c)
  <2>1. CallOf("display", "load", Display, 0) \in Call
    BY CallTyped, WebPageAssumption
  <2>2. call' \in [Calls -> Call \cup {NULL}] /\ call'[c] = CallOf("display", "load", Display, 0)
        /\ \A d \in Calls \ {c} : call'[d] = call[d]
    BY <1>1, <2>1 DEF displayTimer, TypeOK
  <2>3. call'[c].pc = "load"
    BY <2>2, CallParts
  <2>4. load' \in [Calls -> [Lists -> Load \cup {NULL}]]
    BY <1>1, Sent, WebPageAssumption DEF displayTimer, TypeOK
  <2>5. (\A d \in Calls : call'[d] # NULL /\ call'[d].pc = "told" => call'[d].answer \in {0, 1})
        /\ StartsAsk'
    BY <2>2, <2>3, OneCall
  <2> QED BY <1>1, <2>2, <2>4, <2>5 DEF displayTimer, TypeOK
<1>2. ASSUME NEW op \in Ops \cup {"login", "change", "logout"}, press(c, op)
      PROVE  TypeOK' /\ StartsAsk'
  <2>1. op \in Buttons \cup Starts \cup {"logout", "display"}
    BY WebPageAssumption DEF Starts
  <2>2. PICK a \in Accounts \cup {NULL} : call' = [call EXCEPT ![c] = CallOf(op, "post", a, 0)]
    BY <1>2 DEF press, TypeOK
  <2>3. CallOf(op, "post", a, 0) \in Call
    BY <2>1, CallTyped
  <2>4. call' \in [Calls -> Call \cup {NULL}] /\ call'[c] = CallOf(op, "post", a, 0)
        /\ \A d \in Calls \ {c} : call'[d] = call[d]
    BY <2>2, <2>3 DEF TypeOK
  <2>5. call'[c].pc = "post"
    BY <2>4, CallParts
  <2>6. (\A d \in Calls : call'[d] # NULL /\ call'[d].pc = "told" => call'[d].answer \in {0, 1})
        /\ StartsAsk'
    BY <2>4, <2>5, OneCall
  <2> QED BY <1>2, <2>4, <2>6 DEF press, TypeOK
<1>3. ASSUME NEW op \in Ops \cup {"login", "change", "logout"}, navigate(c, op)
      PROVE  TypeOK' /\ StartsAsk'
  <2>1. CallOf(op, "load", session, 0) \in Call
    BY CallTyped, WebPageAssumption DEF Starts, TypeOK
  <2>2. call' \in [Calls -> Call \cup {NULL}] /\ call'[c] = CallOf(op, "load", session, 0)
        /\ \A d \in Calls \ {c} : call'[d] = call[d]
    BY <1>3, <2>1 DEF navigate, TypeOK
  <2>3. call'[c].pc = "load"
    BY <2>2, CallParts
  <2>4. load' \in [Calls -> [Lists -> Load \cup {NULL}]]
    BY <1>3, Sent DEF navigate, TypeOK
  <2>5. (\A d \in Calls : call'[d] # NULL /\ call'[d].pc = "told" => call'[d].answer \in {0, 1})
        /\ StartsAsk'
    BY <2>2, <2>3, OneCall
  <2> QED BY <1>3, <2>2, <2>4, <2>5 DEF navigate, TypeOK
<1> QED BY <1>1, <1>2, <1>3 DEF Press

(* Steps of the server, and of calls that do not load anything.            *)
LEMMA TypedRequest ==
    ASSUME TypeOK, StartsAsk, NEW c \in Calls,
           \/ boot(c) \/ serveAccount(c) \/ serveWrite(c) \/ serveMe(c)
           \/ entered(c) \/ expel(c) \/ expelled(c) \/ fail(c)
    PROVE  TypeOK' /\ StartsAsk'
<1> DEFINE Good == /\ call' \in [Calls -> Call \cup {NULL}]
                   /\ \A d \in Calls : call'[d] # NULL /\ call'[d].pc = "told" =>
                        call'[d].answer \in {0, 1}
                   /\ StartsAsk'
<1>1. ASSUME call[c] # NULL,
             NEW pc \in {"done", "me", "expel"}, NEW by \in Accounts \cup {NULL}, NEW answer \in Nat,
             Await(c, pc, by, answer), pc \in {"me", "expel"} => call[c].op \in Starts
      PROVE  Good
  BY <1>1, Awaited, OneCall
<1>2. ASSUME Return(c) PROVE Good /\ loading' \in BOOLEAN
  BY <1>2, Returned, OneCall
<1>3. CASE boot(c)
  <2>1. call[c] # NULL /\ call[c].op \in Starts /\ session \in Accounts \cup {NULL}
    BY <1>3 DEF boot, Running, StartsAsk, TypeOK
  <2>2. Good /\ loading' \in BOOLEAN
    BY <1>1, <1>2, <1>3, <2>1 DEF boot, TypeOK
  <2> QED BY <1>3, <2>2 DEF boot, TypeOK
<1>4. CASE serveAccount(c)
  <2>1. call[c] # NULL /\ call[c].by \in Accounts \cup {NULL}
    BY <1>4, CallFields DEF serveAccount, Running
  <2>2. Good
    BY <1>1, <1>4, <2>1 DEF serveAccount
  <2>3. must' \in [Accounts -> {0, 1}]
    BY <1>4, <2>1 DEF serveAccount, TypeOK
  <2> QED BY <1>4, <2>2, <2>3 DEF serveAccount, TypeOK
<1>5. CASE serveWrite(c)
  <2>1. call[c] # NULL /\ call[c].by \in Accounts
    BY <1>5, CallFields DEF serveWrite, Running, MayAdmin, MayUse
  <2>2. HouseholdOf[call[c].by] \in Households
    BY <2>1, WebPageAssumption
  <2>3. db' \in [Households -> Nat] /\ db[HouseholdOf[call[c].by]] + 1 \in Nat
    BY <1>5, <2>2 DEF serveWrite, TypeOK
  <2>4. Await(c, "done", call[c].by, db[HouseholdOf[call[c].by]] + 1)
    BY <1>5 DEF serveWrite
  <2>5. Good
    BY <1>1, <2>1, <2>3, <2>4
  <2> QED BY <1>5, <2>3, <2>5 DEF serveWrite, TypeOK
<1>6. CASE serveMe(c)
  <2>1. call[c] # NULL /\ call[c].by \in Accounts /\ call[c].op \in Starts
    BY <1>6, CallFields DEF serveMe, Running, StartsAsk
  <2>2. must[call[c].by] \in {0, 1} /\ must[call[c].by] \in Nat
    BY <2>1 DEF TypeOK
  <2>3. Await(c, "told", call[c].by, must[call[c].by])
    BY <1>6 DEF serveMe
  <2>4. Good
    BY <2>1, <2>2, <2>3, Awaited, OneCall
  <2> QED BY <1>6, <2>4 DEF serveMe, TypeOK
<1>7. CASE entered(c)
  <2>1. call[c] # NULL /\ call[c].by \in Accounts \cup {NULL} /\ call[c].op \in Starts
    BY <1>7, CallFields DEF entered, Running, Starts
  <2>2. session' \in Accounts \cup {NULL}
    BY <1>7, <2>1 DEF entered, TypeOK
  <2>3. Await(c, "me", session', 0)
    BY <1>7 DEF entered
  <2>4. Good
    BY <1>1, <2>1, <2>2, <2>3
  <2> QED BY <1>7, <2>2, <2>4 DEF entered, TypeOK
<1>8. CASE expel(c)
  <2>1. call[c] # NULL /\ call[c].op \in Starts /\ session \in Accounts \cup {NULL}
    BY <1>8 DEF expel, Running, StartsAsk, TypeOK
  <2>2. Good
    BY <1>1, <1>8, <2>1 DEF expel
  <2> QED BY <1>8, <2>2 DEF expel, TypeOK
<1>9. CASE expelled(c)
  BY <1>2, <1>9 DEF expelled, TypeOK
<1>10. CASE fail(c)
  BY <1>2, <1>10 DEF fail, TypeOK
<1> QED BY <1>3, <1>4, <1>5, <1>6, <1>7, <1>8, <1>9, <1>10

LEMMA Dropped ==
    ASSUME TypeOK, NEW c \in Calls, NEW l \in Lists, Drop(c, l)
    PROVE  /\ load' \in [Calls -> [Lists -> Load \cup {NULL}]]
           /\ load'[c][l] = NULL
           /\ \A d \in Calls : \A m \in Lists : d # c \/ m # l => load'[d][m] = load[d][m]
BY DEF Drop, TypeOK

LEMMA Served ==
    ASSUME TypeOK, NEW c \in Calls, NEW l \in Lists, serveList(c, l)
    PROVE  /\ load' \in [Calls -> [Lists -> Load \cup {NULL}]]
           /\ load'[c][l] # NULL /\ load[c][l] # NULL
           /\ load[c][l].by \in Accounts
           /\ load'[c][l].by = load[c][l].by /\ load'[c][l].since = load[c][l].since
           /\ load'[c][l].version = db[HouseholdOf[load[c][l].by]]
           /\ load'[c][l].version \in Nat
           /\ \A d \in Calls : \A m \in Lists : d # c \/ m # l => load'[d][m] = load[d][m]
<1> DEFINE g == LoadOf(load[c][l].by, db[HouseholdOf[load[c][l].by]], load[c][l].since)
<1>1. load[c][l] # NULL /\ load[c][l].by \in Accounts /\ load[c][l].since \in Nat
  BY LoadFields DEF serveList, MayAdmin, MayUse
<1>2. db[HouseholdOf[load[c][l].by]] \in Nat
  BY <1>1, WebPageAssumption DEF TypeOK
<1>3. g \in Load /\ g # NULL
  BY <1>1, <1>2, LoadTyped
<1>4. /\ g.by = load[c][l].by /\ g.since = load[c][l].since
      /\ g.version = db[HouseholdOf[load[c][l].by]]
  BY LoadParts
<1>5. load' = [load EXCEPT ![c] = [load[c] EXCEPT ![l] = g]]
  BY DEF serveList
<1> HIDE DEF g
<1>6. load' \in [Calls -> [Lists -> Load \cup {NULL}]] /\ load'[c][l] = g
      /\ \A d \in Calls : \A m \in Lists : d # c \/ m # l => load'[d][m] = load[d][m]
  BY <1>3, <1>5 DEF TypeOK
<1> QED BY <1>1, <1>2, <1>3, <1>4, <1>6

LEMMA Delivered ==
    ASSUME TypeOK, NEW c \in Calls, NEW l \in Lists, load[c][l] # NULL,
           load[c][l].version # NULL, load[c][l].by # NULL, deliver(c, l)
    PROVE  /\ view' \in [Lists -> View \cup {NULL}]
           /\ view'[l] # NULL /\ view'[l].household = HouseholdOf[load[c][l].by]
           /\ view'[l].version = load[c][l].version /\ view'[l].since = load[c][l].since
           /\ \A m \in Lists \ {l} : view'[m] = view[m]
           /\ late' \in [Households -> [Lists -> Nat]]
<1> DEFINE v == ViewOf(HouseholdOf[load[c][l].by], load[c][l].version, load[c][l].since)
           h == HouseholdOf[load[c][l].by]
<1>1. h \in Households /\ load[c][l].version \in Nat
      /\ load[c][l].since \in Nat
  BY LoadFields, WebPageAssumption
<1>2. v \in View /\ v # NULL
  BY <1>1, ViewTyped
<1>3. /\ v.household = HouseholdOf[load[c][l].by] /\ v.version = load[c][l].version
      /\ v.since = load[c][l].since
  BY ViewParts
<1>4. view' = [view EXCEPT ![l] = v]
  BY DEF deliver
<1>5. late' \in {late, [late EXCEPT ![h] = [late[h] EXCEPT ![l] = late[h][l] + 1]]}
  BY DEF deliver
<1> HIDE DEF v, h
<1>6. late' \in [Households -> [Lists -> Nat]]
  <2>1. late \in [Households -> [Lists -> Nat]] /\ late[h][l] + 1 \in Nat
    BY <1>1 DEF TypeOK
  <2>2. [late[h] EXCEPT ![l] = late[h][l] + 1] \in [Lists -> Nat]
    BY <1>1, <2>1
  <2> QED BY <1>5, <2>1, <2>2
<1> QED BY <1>2, <1>3, <1>4, <1>6 DEF TypeOK, h

(* Steps of the loads.                                                     *)
LEMMA TypedLoad ==
    ASSUME TypeOK, StartsAsk, AnswersHoldWrites, NEW c \in Calls, NEW l \in Lists,
           serveList(c, l) \/ deliver(c, l) \/ failLoad(c, l)
    PROVE  TypeOK' /\ StartsAsk'
<1>1. ASSUME Return(c) \/ UNCHANGED <<call, loading>>
      PROVE  /\ call' \in [Calls -> Call \cup {NULL}] /\ loading' \in BOOLEAN
             /\ \A d \in Calls : call'[d] # NULL /\ call'[d].pc = "told" =>
                  call'[d].answer \in {0, 1}
             /\ StartsAsk'
  <2>1. CASE Return(c)
    BY <2>1, Returned, OneCall
  <2>2. CASE UNCHANGED <<call, loading>>
    BY <2>2 DEF TypeOK, StartsAsk
  <2> QED BY <1>1, <2>1, <2>2
<1>2. CASE serveList(c, l)
  BY <1>1, <1>2, Served DEF serveList, TypeOK
<1>3. CASE deliver(c, l)
  <2>1. load[c][l] # NULL /\ load[c][l].version # NULL /\ load[c][l].by # NULL
    BY <1>3 DEF deliver, AnswersHoldWrites
  <2>2. view' \in [Lists -> View \cup {NULL}] /\ late' \in [Households -> [Lists -> Nat]]
    BY <1>3, <2>1, Delivered
  <2>3. load' \in [Calls -> [Lists -> Load \cup {NULL}]]
    BY <1>3, Dropped DEF deliver
  <2> QED BY <1>1, <1>3, <2>2, <2>3 DEF deliver, TypeOK
<1>4. CASE failLoad(c, l)
  <2>1. load' \in [Calls -> [Lists -> Load \cup {NULL}]]
    BY <1>4, Dropped DEF failLoad
  <2> QED BY <1>1, <1>4, <2>1 DEF failLoad, TypeOK
<1> QED BY <1>2, <1>3, <1>4

(* What the page learns of its write n, list by list.                      *)
LEMMA Learned ==
    ASSUME TypeOK, NEW h \in Households, NEW ls, NEW n \in Nat, Learn(h, ls, n)
    PROVE  /\ own' \in [Households -> [Lists -> Nat]] /\ late' \in [Households -> [Lists -> Nat]]
           /\ \A k \in Households : \A l \in Lists :
                \/ own'[k][l] = own[k][l] /\ late'[k][l] = late[k][l]
                \/ k = h /\ l \in ls /\ own'[k][l] = n /\ own[k][l] < n /\ late'[k][l] = 0
<1> DEFINE new == {l \in Lists \cap ls : own[h][l] < n}
<1>1. new \subseteq Lists /\ \A l \in new : l \in ls /\ own[h][l] < n
  OBVIOUS
<1>2. /\ own' = [own EXCEPT ![h] = [l \in Lists |-> IF l \in new THEN n ELSE own[h][l]]]
      /\ late' = [late EXCEPT ![h] = [l \in Lists |-> IF l \in new THEN 0 ELSE late[h][l]]]
  BY DEF Learn
<1> HIDE DEF new
<1> QED BY <1>1, <1>2 DEF TypeOK

(* A write was answered, or getMe.                                         *)
LEMMA TypedAnswer ==
    ASSUME TypeOK, StartsAsk, NEW c \in Calls, written(c) \/ getMe(c)
    PROVE  TypeOK' /\ StartsAsk'
<1>1. ASSUME call[c] # NULL, NEW ls, own' \in [Households -> [Lists -> Nat]], AwaitAll(c, ls, session)
      PROVE  /\ call' \in [Calls -> Call \cup {NULL}] /\ loading' \in BOOLEAN
             /\ load' \in [Calls -> [Lists -> Load \cup {NULL}]]
             /\ \A d \in Calls : call'[d] # NULL /\ call'[d].pc = "told" =>
                  call'[d].answer \in {0, 1}
             /\ StartsAsk'
  <2>1. session \in Accounts \cup {NULL}
    BY DEF TypeOK
  <2> QED BY <1>1, <2>1, AwaitedAll, OneCall
<1>2. CASE written(c)
  <2>1. call[c] # NULL /\ call[c].by \in Accounts /\ call[c].answer \in Nat
    BY <1>2, CallFields DEF written, Running
  <2>2. HouseholdOf[call[c].by] \in Households
    BY <2>1, WebPageAssumption
  <2>3. own' \in [Households -> [Lists -> Nat]] /\ late' \in [Households -> [Lists -> Nat]]
    BY <1>2, <2>1, <2>2, Learned DEF written
  <2>4. AwaitAll(c, Loads[call[c].op] \cap Lists, session)
    BY <1>2 DEF written
  <2> QED BY <1>1, <1>2, <2>1, <2>3, <2>4 DEF written, TypeOK
<1>3. CASE getMe(c)
  <2>1. call[c] # NULL /\ call[c].by \in Accounts /\ call[c].answer \in {0, 1}
    BY <1>3, CallFields DEF getMe, Running
  <2>2. me' \in Me
    BY <1>3, <2>1 DEF getMe, Me
  <2>3. AwaitAll(c, Wanted(call[c].by, call[c].answer), session) /\ own' = own
    BY <1>3 DEF getMe
  <2> QED BY <1>1, <1>3, <2>1, <2>2, <2>3 DEF getMe, TypeOK
<1> QED BY <1>2, <1>3

LEMMA TypedPage ==
    ASSUME TypeOK, StartsAsk,
           \/ \E c \in Calls : loggedOut(c)
           \/ \E p \in Paths : open(p)
           \/ \E h \in Households : otherWrites(h)
           \/ \E a \in Accounts : adminReset(a)
           \/ UNCHANGED vars
    PROVE  TypeOK' /\ StartsAsk'
<1>1. ASSUME NEW c \in Calls, loggedOut(c) PROVE TypeOK' /\ StartsAsk'
  <2>1. "/" \in AllPaths /\ Opened("/")
    BY <1>1 DEF loggedOut, AllPaths
  <2> QED BY <1>1, <2>1, OpenedTyped DEF loggedOut, TypeOK, StartsAsk
<1>2. ASSUME NEW p \in Paths, open(p) PROVE TypeOK' /\ StartsAsk'
  <2>1. p \in AllPaths /\ Opened(p)
    BY <1>2, WebPageAssumption DEF open
  <2> QED BY <1>2, <2>1, OpenedTyped DEF open, TypeOK, StartsAsk
<1>3. ASSUME NEW h \in Households, otherWrites(h) PROVE TypeOK' /\ StartsAsk'
  BY <1>3 DEF otherWrites, TypeOK, StartsAsk
<1>4. ASSUME NEW a \in Accounts, adminReset(a) PROVE TypeOK' /\ StartsAsk'
  BY <1>4 DEF adminReset, TypeOK, StartsAsk
<1>5. CASE UNCHANGED vars
  BY <1>5 DEF vars, TypeOK, StartsAsk
<1> QED BY <1>1, <1>2, <1>3, <1>4, <1>5

-----------------------------------------------------------------------------
(* The shell has data.                                                     *)

Loading(c, l) == Running(c, "load") /\ call[c].op \in Starts /\ load[c][l] # NULL

(* Nobody logs in, and whatever was shown or asked for still is.           *)
LEMMA ShellKept ==
    ASSUME ShellHasData, loggedIn' => loggedIn, me' = me,
           \A l \in Lists : view[l] # NULL => view'[l] # NULL,
           \A l \in Lists : \A c \in Calls :
             Loading(c, l) => view'[l] # NULL \/ (call'[c] = call[c] /\ load'[c][l] # NULL)
    PROVE  ShellHasData'
<1> SUFFICES ASSUME loggedIn' PROVE
      /\ me' # NULL
      /\ \A l \in Wanted(me.account, me.must_change_password) : Loaded(l)'
  BY DEF ShellHasData, Wanted
<1>1. me # NULL /\ \A l \in Wanted(me.account, me.must_change_password) : Loaded(l)
  BY DEF ShellHasData
<1>2. ASSUME NEW l \in Wanted(me.account, me.must_change_password) PROVE Loaded(l)'
  <2>1. l \in Lists
    BY DEF Wanted
  <2>2. CASE view[l] # NULL
    BY <2>1, <2>2 DEF Loaded
  <2>3. CASE view[l] = NULL
    <3>1. PICK c \in Calls : Loading(c, l)
      BY <1>1, <2>3 DEF Loaded, Loading
    <3> QED BY <2>1, <3>1 DEF Loaded, Loading, Running
  <2> QED BY <2>2, <2>3
<1> QED BY <1>1, <1>2

LEMMA ShellStep ==
    ASSUME TypeOK, StartsAsk, ShellHasData, AnswersHoldWrites, [Next]_vars
    PROVE  ShellHasData'
<1>1. ASSUME NEW c \in Calls, Step(c) PROVE ShellHasData'
  <2>1. CASE boot(c) \/ serveAccount(c) \/ serveWrite(c) \/ serveMe(c) \/ entered(c)
             \/ expel(c) \/ expelled(c) \/ fail(c)
    <3>1. ~Running(c, "load") /\ view' = view /\ load' = load /\ me' = me
          /\ (loggedIn' => loggedIn)
      <4>1. CASE fail(c)
        BY <4>1 DEF fail, Running
      <4>2. CASE expelled(c)
        BY <4>2 DEF expelled, Running
      <4>3. CASE boot(c) \/ serveAccount(c) \/ serveWrite(c) \/ serveMe(c) \/ entered(c) \/ expel(c)
        BY <4>3 DEF boot, serveAccount, serveWrite, serveMe, entered, expel, Running
      <4> QED BY <2>1, <4>1, <4>2, <4>3
    <3>2. \A d \in Calls \ {c} : call'[d] = call[d]
      BY <2>1 DEF TypeOK, boot, serveAccount, serveWrite, serveMe, entered, expel, expelled, fail,
                  Await, Return
    <3> QED BY <3>1, <3>2, ShellKept DEF Loading
  <2>2. CASE loggedOut(c)
    BY <2>2 DEF loggedOut, Opened, ShellHasData
  <2>3. CASE written(c)
    <3>1. call[c] # NULL /\ ~Running(c, "load") /\ session \in Accounts \cup {NULL}
          /\ AwaitAll(c, Loads[call[c].op] \cap Lists, session)
          /\ view' = view /\ me' = me /\ loggedIn' = loggedIn
      BY <2>3 DEF written, Running, TypeOK
    <3>2. own' \in [Households -> [Lists -> Nat]]
      BY <2>3, TypedAnswer DEF TypeOK
    <3>3. \A d \in Calls \ {c} : call'[d] = call[d] /\ load'[d] = load[d]
      BY <3>1, <3>2, AwaitedAll
    <3> QED BY <3>1, <3>3, ShellKept DEF Loading
  <2>4. CASE getMe(c)
    <3> DEFINE ls == Wanted(call[c].by, call[c].answer)
    <3>1. call[c] # NULL /\ call[c].op \in Starts /\ session \in Accounts \cup {NULL}
          /\ AwaitAll(c, ls, session) /\ own' \in [Households -> [Lists -> Nat]]
      BY <2>4 DEF getMe, Running, StartsAsk, TypeOK
    <3>2. me'.account = call[c].by /\ me'.must_change_password = call[c].answer /\ me' # NULL
      <4>1. call[c].by \in Accounts /\ call[c].answer \in {0, 1}
        BY <2>4, CallFields DEF getMe, Running
      <4> QED BY <2>4, <4>1, WebPageAssumption DEF getMe, Me
    <3>3. ls \subseteq Lists /\ Wanted(me.account, me.must_change_password)' = ls
      BY <3>2 DEF Wanted, IsAdmin
    <3>4. CASE ls = {}
      BY <3>2, <3>3, <3>4 DEF ShellHasData
    <3>5. CASE ls # {}
      <4>1. Await(c, "load", session, 0) /\ Send(c, ls, session)
        BY <3>1, <3>5 DEF AwaitAll
      <4>2. Running(c, "load")' /\ call'[c].op \in Starts
        <5> HIDE DEF ls
        <5> QED BY <3>1, <4>1, Awaited DEF Running
      <4>3. \A l \in ls : load'[c][l] # NULL
        <5> HIDE DEF ls
        <5> QED BY <3>1, <3>3, <4>1, Sent
      <4>4. \A l \in ls : Loaded(l)'
        <5> HIDE DEF ls
        <5> QED BY <4>2, <4>3 DEF Loaded
      <4> QED BY <3>2, <3>3, <4>4 DEF ShellHasData
    <3> QED BY <3>4, <3>5
  <2>5. ASSUME NEW l \in Lists, serveList(c, l) PROVE ShellHasData'
    <3>1. \A d \in Calls : \A m \in Lists : load[d][m] # NULL => load'[d][m] # NULL
      BY <2>5, Served
    <3> QED BY <2>5, <3>1, ShellKept DEF serveList, Loading
  <2>6. ASSUME NEW l \in Lists, deliver(c, l) PROVE ShellHasData'
    <3>1. load[c][l] # NULL /\ load[c][l].version # NULL /\ load[c][l].by # NULL
      BY <2>6 DEF deliver, AnswersHoldWrites
    <3>2. view'[l] # NULL /\ \A m \in Lists \ {l} : view'[m] = view[m]
      BY <2>6, <3>1, Delivered
    <3>3. \A d \in Calls : \A m \in Lists : d # c \/ m # l => load'[d][m] = load[d][m]
      BY <2>6, Dropped DEF deliver
    <3>4. ASSUME NEW m \in Lists \ {l}, NEW d \in Calls, Loading(d, m)
          PROVE  call'[d] = call[d] /\ load'[d][m] # NULL
      BY <2>6, <3>3, <3>4, Returned DEF deliver, Loading
    <3> QED BY <2>6, <3>2, <3>4, ShellKept DEF deliver
  <2>7. ASSUME NEW l \in Lists, failLoad(c, l) PROVE ShellHasData'
    <3>1. \A d \in Calls : \A m \in Lists : d # c \/ m # l => load'[d][m] = load[d][m]
      BY <2>7, Dropped DEF failLoad
    <3>2. CASE Running(c, "load") /\ call[c].op \in Starts
      BY <2>7, <3>2 DEF failLoad, ShellHasData
    <3>3. CASE ~(Running(c, "load") /\ call[c].op \in Starts)
      <4>1. \A d \in Calls \ {c} : call'[d] = call[d]
        BY <2>7, Returned DEF failLoad
      <4>2. view' = view /\ me' = me /\ (loggedIn' => loggedIn)
        BY <2>7 DEF failLoad
      <4> QED BY <3>1, <3>3, <4>1, <4>2, ShellKept DEF Loading
    <3> QED BY <3>2, <3>3
  <2> QED BY <1>1, <2>1, <2>2, <2>3, <2>4, <2>5, <2>6, <2>7 DEF Step
<1>2. ASSUME NEW c \in Calls, Press(c) PROVE ShellHasData'
  <2>1. ASSUME NEW ls, NEW by \in Accounts \cup {NULL}, Send(c, ls, by), own' = own, call[c] = NULL,
               \A d \in Calls \ {c} : call'[d] = call[d],
               view' = view, me' = me, loggedIn' = loggedIn
        PROVE  ShellHasData'
    <3>1. \A d \in Calls \ {c} : load'[d] = load[d]
      BY <2>1, Sent DEF TypeOK
    <3> QED BY <2>1, <3>1, ShellKept DEF Loading, Running
  <2>2. CASE displayTimer(c)
    BY <2>1, <2>2, WebPageAssumption DEF displayTimer, Free, Over, TypeOK
  <2>3. ASSUME NEW op \in Ops \cup {"login", "change", "logout"}, press(c, op)
        PROVE  ShellHasData'
    <3>1. call[c] = NULL /\ view' = view /\ load' = load /\ me' = me /\ loggedIn' = loggedIn
      BY <2>3 DEF press, Free, Over
    <3>2. \A d \in Calls \ {c} : call'[d] = call[d]
      BY <2>3 DEF press, TypeOK
    <3> QED BY <3>1, <3>2, ShellKept DEF Loading, Running
  <2>4. ASSUME NEW op \in Ops \cup {"login", "change", "logout"}, navigate(c, op)
        PROVE  ShellHasData'
    BY <2>1, <2>4 DEF navigate, Free, Over, TypeOK
  <2> QED BY <1>2, <2>2, <2>3, <2>4 DEF Press
<1>3. ASSUME NEW p \in Paths, open(p) PROVE ShellHasData'
  BY <1>3 DEF open, Opened, ShellHasData
<1>4. ASSUME NEW h \in Households, otherWrites(h) PROVE ShellHasData'
  BY <1>4, ShellKept DEF otherWrites, Loading
<1>5. ASSUME NEW a \in Accounts, adminReset(a) PROVE ShellHasData'
  BY <1>5, ShellKept DEF adminReset, Loading
<1>6. CASE UNCHANGED vars
  BY <1>6, ShellKept DEF vars, Loading
<1> QED BY <1>1, <1>2, <1>3, <1>4, <1>5, <1>6 DEF Next

-----------------------------------------------------------------------------
(* Answers hold the writes, and so does what is shown.                     *)

(* A request asks for writes the page knows of, and its answer holds them. *)
LoadHolds(c, l) ==
    load[c][l] # NULL =>
      /\ load[c][l].since = 0 \/ load[c][l].by # NULL
      /\ load[c][l].by # NULL => load[c][l].since <= own[HouseholdOf[load[c][l].by]][l]
      /\ load[c][l].version # NULL =>
           load[c][l].by # NULL /\ load[c][l].version >= load[c][l].since
ViewHolds(l) == view[l] # NULL => view[l].version >= view[l].since
AnswerHolds(c) ==
    Running(c, "done") /\ call[c].op \in Buttons /\ call[c].by # NULL =>
      call[c].answer <= db[HouseholdOf[call[c].by]]
Holds ==
    /\ \A h \in Households : \A l \in Lists : own[h][l] <= db[h]
    /\ \A c \in Calls : AnswerHolds(c)
    /\ \A c \in Calls : \A l \in Lists : LoadHolds(c, l)
    /\ \A l \in Lists : ViewHolds(l)

LEMMA HoldsMeans == Holds <=> AnswersHoldWrites /\ OwnWritesShown
BY DEF Holds, AnswersHoldWrites, OwnWritesShown, LoadHolds, ViewHolds, AnswerHolds

(* What the page knows only grows, so requests under way keep asking for   *)
(* writes it knows of, and new ones ask for all of them.                   *)
LEMMA LoadKept ==
    ASSUME TypeOK, Holds, NEW c \in Calls, NEW l \in Lists,
           own' \in [Households -> [Lists -> Nat]], \A h \in Households : own[h][l] <= own'[h][l],
           load'[c][l] = load[c][l]
    PROVE  LoadHolds(c, l)'
<1> SUFFICES ASSUME load[c][l] # NULL
             PROVE  /\ load[c][l].since = 0 \/ load[c][l].by # NULL
                    /\ load[c][l].by # NULL => load[c][l].since <= own'[HouseholdOf[load[c][l].by]][l]
                    /\ load[c][l].version # NULL =>
                         load[c][l].by # NULL /\ load[c][l].version >= load[c][l].since
  BY DEF LoadHolds
<1>1. LoadHolds(c, l)
  BY DEF Holds
<1>2. ASSUME load[c][l].by # NULL PROVE load[c][l].since <= own'[HouseholdOf[load[c][l].by]][l]
  <2> DEFINE h == HouseholdOf[load[c][l].by]
  <2>1. load[c][l].since \in Nat /\ h \in Households
    BY <1>2, LoadFields, WebPageAssumption
  <2>2. load[c][l].since <= own[h][l]
    BY <1>1, <1>2 DEF LoadHolds
  <2> HIDE DEF h
  <2>3. own[h][l] \in Nat /\ own'[h][l] \in Nat /\ own[h][l] <= own'[h][l]
    BY <2>1 DEF TypeOK
  <2>4. load[c][l].since <= own'[h][l]
    BY <2>1, <2>2, <2>3
  <2> QED BY <2>4 DEF h
<1> QED BY <1>1, <1>2 DEF LoadHolds

LEMMA FreshHolds ==
    ASSUME NEW c \in Calls, NEW l \in Lists, own' \in [Households -> [Lists -> Nat]], Fresh(c, l)'
    PROVE  LoadHolds(c, l)'
<1> SUFFICES ASSUME load'[c][l] # NULL
             PROVE  /\ load'[c][l].since = 0 \/ load'[c][l].by # NULL
                    /\ load'[c][l].by # NULL => load'[c][l].since <= own'[HouseholdOf[load'[c][l].by]][l]
                    /\ load'[c][l].version = NULL
  BY DEF LoadHolds
<1>1. /\ load'[c][l].by \in Accounts \cup {NULL} /\ load'[c][l].version = NULL
      /\ load'[c][l].since = Known(own', load'[c][l].by, l)
  BY DEF Fresh
<1>2. ASSUME load'[c][l].by # NULL
      PROVE  load'[c][l].since <= own'[HouseholdOf[load'[c][l].by]][l]
  <2>1. HouseholdOf[load'[c][l].by] \in Households
    BY <1>1, <1>2, WebPageAssumption
  <2>2. own'[HouseholdOf[load'[c][l].by]][l] \in Nat
    BY <2>1
  <2>3. load'[c][l].since = own'[HouseholdOf[load'[c][l].by]][l]
    BY <1>1, <1>2 DEF Known
  <2> QED BY <2>2, <2>3
<1> QED BY <1>1, <1>2 DEF Known

(* A step that sends requests at most, and shows nothing.                  *)
LEMMA NothingShown ==
    ASSUME TypeOK, Holds, NEW c \in Calls, view' = view,
           own' \in [Households -> [Lists -> Nat]],
           \A h \in Households : \A l \in Lists : own[h][l] <= own'[h][l] /\ own'[h][l] <= db'[h],
           \A d \in Calls \ {c} : load'[d] = load[d],
           \A l \in Lists : load'[c][l] = load[c][l] \/ Fresh(c, l)',
           \A d \in Calls : AnswerHolds(d)'
    PROVE  Holds'
<1>1. ASSUME NEW d \in Calls, NEW l \in Lists PROVE LoadHolds(d, l)'
  BY LoadKept, FreshHolds
<1>2. ASSUME NEW l \in Lists PROVE ViewHolds(l)'
  BY DEF Holds, ViewHolds
<1> QED BY <1>1, <1>2 DEF Holds

(* A step that neither loads nor shows anything.                           *)
LEMMA NothingLoaded ==
    ASSUME TypeOK, Holds, view' = view, load' = load, own' = own,
           db' \in [Households -> Nat], \A h \in Households : db[h] <= db'[h],
           \A c \in Calls : AnswerHolds(c)'
    PROVE  Holds'
<1>1. ASSUME NEW h \in Households, NEW l \in Lists
      PROVE  own[h][l] <= own'[h][l] /\ own'[h][l] <= db'[h]
  <2>1. own[h][l] \in Nat /\ db[h] \in Nat /\ db'[h] \in Nat /\ own[h][l] <= db[h] /\ db[h] <= db'[h]
    BY DEF TypeOK, Holds
  <2> QED BY <2>1
<1>2. own' \in [Households -> [Lists -> Nat]] /\ 1 \in Calls
  BY WebPageAssumption DEF TypeOK, Calls
<1> QED BY <1>1, <1>2, NothingShown

(* A step that sends, and learns nothing.                                  *)
LEMMA SendKeeps ==
    ASSUME TypeOK, Holds, NEW c \in Calls, NEW ls, NEW by \in Accounts \cup {NULL},
           Send(c, ls, by), view' = view, own' = own, db' = db, \A d \in Calls : AnswerHolds(d)'
    PROVE  Holds'
<1>1. own' \in [Households -> [Lists -> Nat]]
  BY DEF TypeOK
<1>2. ASSUME NEW h \in Households, NEW l \in Lists
      PROVE  own[h][l] <= own'[h][l] /\ own'[h][l] <= db'[h]
  <2>1. own[h][l] \in Nat /\ own[h][l] <= db[h]
    BY DEF TypeOK, Holds
  <2> QED BY <2>1
<1>3. /\ \A d \in Calls \ {c} : load'[d] = load[d]
      /\ \A l \in Lists : load'[c][l] = load[c][l] \/ Fresh(c, l)'
  BY <1>1, Sent
<1> QED BY <1>1, <1>2, <1>3, NothingShown

LEMMA AnswersKept ==
    ASSUME TypeOK, Holds, db' \in [Households -> Nat], \A h \in Households : db[h] <= db'[h],
           \A c \in Calls : Running(c, "done")' /\ call'[c].op \in Buttons => call'[c] = call[c]
    PROVE  \A c \in Calls : AnswerHolds(c)'
<1> SUFFICES ASSUME NEW c \in Calls, (Running(c, "done") /\ call[c].op \in Buttons /\ call[c].by # NULL)'
             PROVE  (call[c].answer <= db[HouseholdOf[call[c].by]])'
  BY DEF AnswerHolds
<1>1. call'[c] = call[c] /\ Running(c, "done") /\ call[c].op \in Buttons /\ call[c].by # NULL
  BY DEF Running
<1>2. call[c].by \in Accounts /\ call[c].answer \in Nat
  BY <1>1, CallFields DEF Running
<1>3. HouseholdOf[call[c].by] \in Households
  BY <1>2, WebPageAssumption
<1>4. call[c].answer <= db[HouseholdOf[call[c].by]]
  BY <1>1 DEF Holds, AnswerHolds
<1>5. db[HouseholdOf[call[c].by]] \in Nat /\ db'[HouseholdOf[call[c].by]] \in Nat
      /\ db[HouseholdOf[call[c].by]] <= db'[HouseholdOf[call[c].by]]
  BY <1>3 DEF TypeOK
<1> QED BY <1>1, <1>2, <1>4, <1>5

LEMMA HoldsRequest ==
    ASSUME TypeOK, StartsAsk, Holds, NEW c \in Calls,
           \/ boot(c) \/ serveAccount(c) \/ serveWrite(c) \/ serveMe(c)
           \/ entered(c) \/ expel(c) \/ expelled(c) \/ fail(c)
    PROVE  Holds'
<1> DEFINE Other == \A d \in Calls \ {c} : call'[d] = call[d]
           Same == view' = view /\ load' = load /\ own' = own
<1>1. ASSUME Other, Same, db' = db,
             call'[c] # NULL => call'[c].pc # "done" \/ call'[c].op \notin Buttons
      PROVE  Holds'
  <2>1. db' \in [Households -> Nat] /\ \A h \in Households : db[h] <= db'[h]
    BY <1>1 DEF TypeOK
  <2>2. \A d \in Calls : AnswerHolds(d)'
    BY <1>1, <2>1, AnswersKept DEF Running
  <2> QED BY <1>1, <2>1, <2>2, NothingLoaded
<1>2. CASE boot(c) \/ expelled(c) \/ fail(c)
  <2>1. Return(c) \/ (call[c] # NULL /\ session \in Accounts \cup {NULL} /\ Await(c, "me", session, 0))
    BY <1>2 DEF boot, expelled, fail, Running, TypeOK
  <2>2. Other /\ (call'[c] # NULL => call'[c].pc # "done")
    BY <2>1, Returned, Awaited
  <2>3. Same /\ db' = db
    BY <1>2 DEF boot, expelled, fail
  <2> QED BY <1>1, <2>2, <2>3
<1>3. CASE serveAccount(c)
  <2>1. call[c] # NULL /\ call[c].by \in Accounts \cup {NULL}
        /\ call[c].op \in {"login", "change", "logout"} /\ Await(c, "done", call[c].by, 0)
    BY <1>3, CallFields DEF serveAccount, Running
  <2>2. Other /\ call'[c].op \notin Buttons
    BY <2>1, Awaited DEF Buttons, Navigation
  <2> QED BY <1>1, <1>3, <2>2 DEF serveAccount
<1>4. CASE serveWrite(c)
  <2>1. call[c] # NULL /\ call[c].by \in Accounts
    BY <1>4, CallFields DEF serveWrite, Running, MayAdmin, MayUse
  <2> DEFINE h == HouseholdOf[call[c].by]
  <2>2. h \in Households
    BY <2>1, WebPageAssumption
  <2>3. db' = [db EXCEPT ![h] = db[h] + 1] /\ Await(c, "done", call[c].by, db[h] + 1) /\ Same
    BY <1>4 DEF serveWrite
  <2>4. db' \in [Households -> Nat] /\ db'[h] = db[h] + 1 /\ db[h] + 1 \in Nat
        /\ \A k \in Households : db[k] <= db'[k]
    <3> HIDE DEF h
    <3> QED BY <2>2, <2>3 DEF TypeOK
  <2>5. call'[c].by = call[c].by /\ call'[c].answer = db[h] + 1 /\ Other
    <3> HIDE DEF h
    <3> QED BY <2>1, <2>3, <2>4, Awaited
  <2>6. AnswerHolds(c)'
    BY <2>4, <2>5 DEF AnswerHolds
  <2>7. ASSUME NEW d \in Calls \ {c} PROVE AnswerHolds(d)'
    <3> SUFFICES ASSUME (Running(d, "done") /\ call[d].op \in Buttons /\ call[d].by # NULL)'
                 PROVE  (call[d].answer <= db[HouseholdOf[call[d].by]])'
      BY DEF AnswerHolds
    <3>1. call'[d] = call[d] /\ Running(d, "done") /\ call[d].op \in Buttons /\ call[d].by # NULL
      BY <2>5 DEF Running
    <3>2. call[d].by \in Accounts /\ call[d].answer \in Nat
      BY <3>1, CallFields DEF Running
    <3>3. HouseholdOf[call[d].by] \in Households
      BY <3>2, WebPageAssumption
    <3>4. call[d].answer <= db[HouseholdOf[call[d].by]]
      BY <3>1 DEF Holds, AnswerHolds
    <3>5. db[HouseholdOf[call[d].by]] \in Nat /\ db'[HouseholdOf[call[d].by]] \in Nat
          /\ db[HouseholdOf[call[d].by]] <= db'[HouseholdOf[call[d].by]]
      BY <2>4, <3>3 DEF TypeOK
    <3> QED BY <3>1, <3>2, <3>4, <3>5
  <2>8. \A d \in Calls : AnswerHolds(d)'
    BY <2>6, <2>7
  <2> QED BY <2>3, <2>4, <2>8, NothingLoaded
<1>5. CASE serveMe(c)
  <2>1. call[c] # NULL /\ call[c].by \in Accounts
    BY <1>5, CallFields DEF serveMe, Running
  <2>2. must[call[c].by] \in {0, 1} /\ must[call[c].by] \in Nat
    BY <2>1 DEF TypeOK
  <2>3. Other /\ call'[c].pc # "done"
    BY <1>5, <2>1, <2>2, Awaited DEF serveMe
  <2> QED BY <1>1, <1>5, <2>3 DEF serveMe
<1>6. CASE entered(c)
  <2>1. call[c] # NULL /\ call[c].by \in Accounts \cup {NULL}
    BY <1>6, CallFields DEF entered, Running
  <2>2. session' \in Accounts \cup {NULL} /\ Await(c, "me", session', 0)
    BY <1>6, <2>1 DEF entered, TypeOK
  <2>3. Other /\ call'[c].pc # "done"
    BY <2>1, <2>2, Awaited
  <2> QED BY <1>1, <1>6, <2>3 DEF entered
<1>7. CASE expel(c)
  <2>1. call[c] # NULL /\ session \in Accounts \cup {NULL} /\ Await(c, "expel", session, 0)
    BY <1>7 DEF expel, Running, TypeOK
  <2>2. Other /\ call'[c].pc # "done"
    BY <2>1, Awaited
  <2> QED BY <1>1, <1>7, <2>2 DEF expel
<1> QED BY <1>2, <1>3, <1>4, <1>5, <1>6, <1>7

LEMMA HoldsLoad ==
    ASSUME TypeOK, Holds, NEW c \in Calls, NEW l \in Lists,
           serveList(c, l) \/ deliver(c, l) \/ failLoad(c, l)
    PROVE  Holds'
<1>1. db' = db /\ own' = own
  BY DEF serveList, deliver, failLoad
<1>2. \A d \in Calls : AnswerHolds(d)'
  <2>1. \A d \in Calls : call'[d] = call[d] \/ call'[d] = NULL
    BY Returned DEF serveList, deliver, failLoad
  <2>2. db' \in [Households -> Nat] /\ \A h \in Households : db[h] <= db'[h]
    BY <1>1 DEF TypeOK
  <2> QED BY <2>1, <2>2, AnswersKept DEF Running
<1>3. \A h \in Households : \A m \in Lists : (own[h][m] <= db[h])'
  BY <1>1 DEF Holds
<1>4. ASSUME NEW d \in Calls, NEW m \in Lists, d # c \/ m # l PROVE LoadHolds(d, m)'
  <2>1. load'[d][m] = load[d][m]
    <3>1. CASE serveList(c, l)
      BY <1>4, <3>1, Served
    <3>2. CASE deliver(c, l) \/ failLoad(c, l)
      <4>1. Drop(c, l)
        BY <3>2 DEF deliver, failLoad
      <4> QED BY <1>4, <4>1, Dropped
    <3> QED BY <3>1, <3>2
  <2> QED BY <1>1, <2>1 DEF Holds, LoadHolds
<1>5. CASE serveList(c, l)
  <2>1. LoadHolds(c, l)'
    <3> DEFINE h == HouseholdOf[load[c][l].by]
    <3>1. /\ load[c][l] # NULL /\ load[c][l].by \in Accounts /\ h \in Households
          /\ load'[c][l].by = load[c][l].by /\ load'[c][l].since = load[c][l].since
          /\ load'[c][l].version = db[h] /\ load[c][l].since \in Nat
      BY <1>5, Served, LoadFields, WebPageAssumption
    <3>2. load[c][l].since <= own[h][l] /\ own[h][l] <= db[h] /\ load[c][l].by # NULL
      BY <3>1, WebPageAssumption DEF Holds, LoadHolds
    <3>3. own[h][l] \in Nat /\ db[h] \in Nat
      BY <3>1 DEF TypeOK
    <3> HIDE DEF h
    <3>4. db[h] >= load[c][l].since
      BY <3>1, <3>2, <3>3
    <3> QED BY <1>1, <3>1, <3>2, <3>4 DEF LoadHolds, h
  <2>2. \A m \in Lists : ViewHolds(m)'
    BY <1>5 DEF serveList, Holds, ViewHolds
  <2> QED BY <1>2, <1>3, <1>4, <2>1, <2>2 DEF Holds
<1>6. CASE deliver(c, l)
  <2>1. load[c][l] # NULL /\ load[c][l].version # NULL
    BY <1>6 DEF deliver
  <2>2. load[c][l].by # NULL /\ load[c][l].version >= load[c][l].since
    BY <2>1 DEF Holds, LoadHolds
  <2>3. \A m \in Lists : ViewHolds(m)'
    BY <1>6, <2>1, <2>2, Delivered DEF Holds, ViewHolds
  <2>4. LoadHolds(c, l)'
    BY <1>6, Dropped DEF deliver, LoadHolds
  <2> QED BY <1>2, <1>3, <1>4, <2>3, <2>4 DEF Holds
<1>7. CASE failLoad(c, l)
  <2>1. \A m \in Lists : ViewHolds(m)'
    BY <1>7 DEF failLoad, Holds, ViewHolds
  <2>2. LoadHolds(c, l)'
    BY <1>7, Dropped DEF failLoad, LoadHolds
  <2> QED BY <1>2, <1>3, <1>4, <2>1, <2>2 DEF Holds
<1> QED BY <1>5, <1>6, <1>7

(* The write is known, and the lists it may have changed are asked for.    *)
LEMMA HoldsWritten ==
    ASSUME TypeOK, Holds, NEW c \in Calls, written(c)
    PROVE  Holds'
<1> DEFINE h == HouseholdOf[call[c].by]
           n == call[c].answer
           ls == Loads[call[c].op]
<1>1. call[c] # NULL /\ n \in Nat /\ h \in Households
      /\ session \in Accounts \cup {NULL} /\ n <= db[h]
  <2>1. Running(c, "done") /\ call[c] # NULL /\ call[c].op \in Buttons /\ call[c].by # NULL
    BY DEF written, Running
  <2>2. call[c].by \in Accounts /\ n \in Nat
    BY <2>1, CallFields
  <2>3. n <= db[h]
    BY <2>1 DEF Holds, AnswerHolds
  <2> QED BY <2>2, <2>1, <2>3, WebPageAssumption DEF TypeOK
<1>2. Learn(h, ls, n) /\ AwaitAll(c, ls \cap Lists, session) /\ db' = db /\ view' = view
  BY DEF written
<1> HIDE DEF h, n, ls
<1>3. own' \in [Households -> [Lists -> Nat]]
      /\ \A k \in Households : \A l \in Lists :
           own'[k][l] = own[k][l] \/ (k = h /\ own'[k][l] = n /\ own[k][l] < n)
  BY <1>1, <1>2, Learned
<1>4. ASSUME NEW k \in Households, NEW l \in Lists
      PROVE  own[k][l] <= own'[k][l] /\ own'[k][l] <= db'[k]
  <2>1. own[k][l] <= db[k] /\ own[k][l] \in Nat /\ db[k] \in Nat
    BY DEF Holds, TypeOK
  <2> QED BY <1>1, <1>2, <1>3, <2>1
<1>5. /\ \A d \in Calls \ {c} : call'[d] = call[d] /\ load'[d] = load[d]
      /\ call'[c] # NULL => call'[c].pc = "load"
      /\ \A l \in Lists : load'[c][l] = load[c][l] \/ Fresh(c, l)'
  BY <1>1, <1>2, <1>3, AwaitedAll
<1>6. \A d \in Calls : AnswerHolds(d)'
  <2>1. db' \in [Households -> Nat] /\ \A k \in Households : db[k] <= db'[k]
    BY <1>2 DEF TypeOK
  <2> QED BY <1>5, <2>1, AnswersKept DEF Running
<1> QED BY <1>2, <1>3, <1>4, <1>5, <1>6, NothingShown

LEMMA HoldsPress ==
    ASSUME TypeOK, Holds, NEW c \in Calls, Press(c)
    PROVE  Holds'
<1>1. db' = db /\ own' = own /\ db' \in [Households -> Nat] /\ \A h \in Households : db[h] <= db'[h]
  <2>1. db' = db /\ own' = own
    BY DEF Press, displayTimer, press, navigate
  <2> QED BY <2>1 DEF TypeOK
<1>2. ASSUME NEW op, NEW pc \in {"post", "load"}, NEW by, call' = [call EXCEPT ![c] = CallOf(op, pc, by, 0)]
      PROVE  \A d \in Calls : AnswerHolds(d)'
  <2>1. call'[c].pc # "done" /\ \A d \in Calls \ {c} : call'[d] = call[d]
    BY <1>2, CallParts DEF TypeOK
  <2> QED BY <1>1, <2>1, AnswersKept DEF Running
<1>3. CASE displayTimer(c)
  BY <1>1, <1>2, <1>3, SendKeeps, WebPageAssumption DEF displayTimer
<1>4. ASSUME NEW op \in Ops \cup {"login", "change", "logout"}, press(c, op) PROVE Holds'
  <2>1. PICK a : call' = [call EXCEPT ![c] = CallOf(op, "post", a, 0)]
    BY <1>4 DEF press
  <2>2. view' = view /\ load' = load
    BY <1>4 DEF press
  <2> QED BY <1>1, <1>2, <2>1, <2>2, NothingLoaded
<1>5. ASSUME NEW op \in Ops \cup {"login", "change", "logout"}, navigate(c, op) PROVE Holds'
  BY <1>1, <1>2, <1>5, SendKeeps DEF navigate, TypeOK
<1> QED BY <1>3, <1>4, <1>5 DEF Press

LEMMA HoldsGetMe ==
    ASSUME TypeOK, Holds, NEW c \in Calls, getMe(c)
    PROVE  Holds'
<1> DEFINE ls == Wanted(call[c].by, call[c].answer)
<1>1. call[c] # NULL /\ session \in Accounts \cup {NULL} /\ AwaitAll(c, ls, session)
      /\ db' = db /\ own' = own /\ view' = view /\ own' \in [Households -> [Lists -> Nat]]
  BY DEF getMe, Running, TypeOK
<1> HIDE DEF ls
<1>2. db' \in [Households -> Nat] /\ \A h \in Households : db[h] <= db'[h]
  BY <1>1 DEF TypeOK
<1>3. /\ \A d \in Calls \ {c} : call'[d] = call[d] /\ load'[d] = load[d]
      /\ call'[c] # NULL => call'[c].pc = "load"
      /\ \A l \in Lists : load'[c][l] = load[c][l] \/ Fresh(c, l)'
  BY <1>1, AwaitedAll
<1>4. \A d \in Calls : AnswerHolds(d)'
  BY <1>2, <1>3, AnswersKept DEF Running
<1>5. ASSUME NEW h \in Households, NEW l \in Lists
      PROVE  own[h][l] <= own'[h][l] /\ own'[h][l] <= db'[h]
  <2>1. own[h][l] \in Nat /\ own[h][l] <= db[h]
    BY DEF TypeOK, Holds
  <2> QED BY <1>1, <2>1
<1> QED BY <1>1, <1>3, <1>4, <1>5, NothingShown

LEMMA HoldsPage ==
    ASSUME TypeOK, Holds,
           \/ \E c \in Calls : loggedOut(c)
           \/ \E p \in Paths : open(p)
           \/ \E h \in Households : otherWrites(h)
           \/ \E a \in Accounts : adminReset(a)
           \/ UNCHANGED vars
    PROVE  Holds'
<1>1. ASSUME NEW p \in AllPaths, Opened(p), db' = db, own' = own PROVE Holds'
  <2>1. own' \in [Households -> [Lists -> Nat]]
    BY <1>1 DEF TypeOK
  <2>2. \A l \in Lists : ViewHolds(l)' /\ \A c \in Calls : LoadHolds(c, l)'
    BY <1>1, <2>1, OpenedTyped, FreshHolds DEF ViewHolds
  <2>3. \A c \in Calls : AnswerHolds(c)'
    BY <1>1, OpenedTyped DEF AnswerHolds, Running
  <2>4. \A h \in Households : \A l \in Lists : (own[h][l] <= db[h])'
    BY <1>1 DEF Holds
  <2> QED BY <2>2, <2>3, <2>4 DEF Holds
<1>2. ASSUME NEW c \in Calls, loggedOut(c) PROVE Holds'
  BY <1>1, <1>2 DEF loggedOut, AllPaths
<1>3. ASSUME NEW p \in Paths, open(p) PROVE Holds'
  BY <1>1, <1>3, WebPageAssumption DEF open
<1>4. ASSUME view' = view, load' = load, own' = own, call' = call,
             db' \in [Households -> Nat], \A h \in Households : db[h] <= db'[h]
      PROVE  Holds'
  <2>1. \A c \in Calls : AnswerHolds(c)'
    BY <1>4, AnswersKept
  <2> QED BY <1>4, <2>1, NothingLoaded
<1>5. ASSUME NEW h \in Households, otherWrites(h) PROVE Holds'
  <2>1. db' \in [Households -> Nat] /\ \A k \in Households : db[k] <= db'[k]
    BY <1>5 DEF otherWrites, TypeOK
  <2> QED BY <1>4, <1>5, <2>1 DEF otherWrites
<1>6. ASSUME NEW a \in Accounts, adminReset(a) PROVE Holds'
  BY <1>4, <1>6 DEF adminReset, TypeOK
<1>7. CASE UNCHANGED vars
  BY <1>4, <1>7 DEF vars, TypeOK
<1> QED BY <1>2, <1>3, <1>5, <1>6, <1>7

-----------------------------------------------------------------------------
(* How often a late answer can take a write off the page.                  *)

LEMMA CallsCounted == IsFiniteSet(Calls) /\ Cardinality(Calls) = MaxCalls
<1>1. 1 \in Int /\ MaxCalls \in Int /\ ~(1 > MaxCalls) /\ MaxCalls - 1 + 1 = MaxCalls
  BY WebPageAssumption
<1> QED BY <1>1, FS_Interval DEF Calls

LEMMA StaleFinite ==
    ASSUME NEW S \in SUBSET Calls
    PROVE  IsFiniteSet(S) /\ Cardinality(S) \in Nat /\ Cardinality(S) <= MaxCalls
<1>1. IsFiniteSet(Calls) /\ Cardinality(Calls) = MaxCalls
  BY CallsCounted
<1> QED BY <1>1, FS_Subset, FS_CardinalityType

LEMMA StaleCalls ==
    ASSUME NEW h, NEW l
    PROVE  Stale(h, l) \in SUBSET Calls /\ Stale(h, l)' \in SUBSET Calls
BY DEF Stale, Calls

(* The bound of one list of one household.                                 *)
Bounded(h, l) == late[h][l] + Cardinality(Stale(h, l)) <= MaxCalls - 1

LEMMA BoundKept ==
    ASSUME TypeOK, LateAnswersBounded, NEW h \in Households, NEW l \in Lists,
           late'[h][l] = late[h][l], Stale(h, l)' \subseteq Stale(h, l)
    PROVE  Bounded(h, l)'
<1>1. late[h][l] \in Nat /\ late[h][l] + Cardinality(Stale(h, l)) <= MaxCalls - 1
  BY DEF TypeOK, LateAnswersBounded
<1>2. /\ Cardinality(Stale(h, l)) \in Nat /\ Cardinality(Stale(h, l)') \in Nat
      /\ Cardinality(Stale(h, l)') <= Cardinality(Stale(h, l))
  BY StaleCalls, StaleFinite, FS_Subset
<1> QED BY <1>1, <1>2, WebPageAssumption DEF Bounded

(* A request that has just been sent is not stale, and one under way does  *)
(* not get stale while the page learns nothing.                            *)
LEMMA FreshIsNotStale ==
    ASSUME NEW c \in Calls, NEW l \in Lists, NEW h \in Households,
           own' \in [Households -> [Lists -> Nat]], Fresh(c, l)'
    PROVE  c \notin Stale(h, l)'
<1> SUFFICES ASSUME load'[c][l] # NULL, load'[c][l].by # NULL, HouseholdOf[load'[c][l].by] = h,
                    load'[c][l].since < own'[h][l]
             PROVE  FALSE
  BY DEF Stale
<1>1. load'[c][l].since = own'[h][l] /\ own'[h][l] \in Nat
  BY DEF Fresh, Known
<1> QED BY <1>1

LEMMA FewerStale ==
    ASSUME NEW h \in Households, NEW l \in Lists, own' \in [Households -> [Lists -> Nat]],
           own'[h][l] = own[h][l],
           \A c \in Calls : load'[c][l] \in {NULL, load[c][l]} \/ Fresh(c, l)'
    PROVE  Stale(h, l)' \subseteq Stale(h, l)
<1> SUFFICES ASSUME NEW c \in Calls, c \in Stale(h, l)' PROVE c \in Stale(h, l)
  BY StaleCalls
<1>1. ~Fresh(c, l)' /\ load'[c][l] # NULL
  BY FreshIsNotStale DEF Stale
<1>2. load'[c][l] = load[c][l]
  BY <1>1
<1> QED BY <1>2 DEF Stale

(* A step that delivers nothing, and after which the page knows nothing new.*)
LEMMA NothingDelivered ==
    ASSUME TypeOK, LateAnswersBounded, UNCHANGED <<own, late>>,
           \A c \in Calls : \A l \in Lists : load'[c][l] \in {NULL, load[c][l]} \/ Fresh(c, l)'
    PROVE  LateAnswersBounded'
<1>1. own' \in [Households -> [Lists -> Nat]]
  BY DEF TypeOK
<1>2. ASSUME NEW h \in Households, NEW l \in Lists PROVE Bounded(h, l)'
  <2>1. Stale(h, l)' \subseteq Stale(h, l)
    BY <1>1, FewerStale
  <2> QED BY <2>1, BoundKept
<1> QED BY <1>2 DEF LateAnswersBounded, Bounded

LEMMA BoundSent ==
    ASSUME TypeOK, LateAnswersBounded, NEW c \in Calls, NEW ls, NEW by \in Accounts \cup {NULL},
           Send(c, ls, by), UNCHANGED <<own, late>>
    PROVE  LateAnswersBounded'
<1>1. /\ \A d \in Calls \ {c} : load'[d] = load[d]
      /\ \A l \in Lists : load'[c][l] = load[c][l] \/ Fresh(c, l)'
  BY Sent DEF TypeOK
<1> QED BY <1>1, NothingDelivered

LEMMA BoundLoad ==
    ASSUME TypeOK, Holds, LateAnswersBounded, NEW c \in Calls, NEW l \in Lists,
           serveList(c, l) \/ deliver(c, l) \/ failLoad(c, l)
    PROVE  LateAnswersBounded'
<1>1. CASE serveList(c, l)
  <2>1. UNCHANGED <<own, late>>
    BY <1>1 DEF serveList
  <2>2. ASSUME NEW h \in Households, NEW m \in Lists PROVE Stale(h, m)' \subseteq Stale(h, m)
    BY <1>1, <2>1, Served DEF Stale
  <2> QED BY <2>1, <2>2, BoundKept DEF LateAnswersBounded, Bounded
<1>2. CASE failLoad(c, l)
  <2>1. \A d \in Calls : \A m \in Lists : load'[d][m] \in {NULL, load[d][m]}
    BY <1>2, Dropped DEF failLoad
  <2> QED BY <1>2, <2>1, NothingDelivered DEF failLoad
<1>3. CASE deliver(c, l)
  <2>1. load[c][l] # NULL /\ load[c][l].by \in Accounts
        /\ HouseholdOf[load[c][l].by] \in Households
        /\ load[c][l].version \in Nat /\ load[c][l].since \in Nat
        /\ load[c][l].version >= load[c][l].since
    <3>1. load[c][l] # NULL /\ load[c][l].version # NULL
      BY <1>3 DEF deliver
    <3>2. load[c][l].by # NULL /\ load[c][l].version >= load[c][l].since
      BY <3>1 DEF Holds, LoadHolds
    <3> QED BY <3>1, <3>2, LoadFields, WebPageAssumption
  <2>2. PICK h \in Households : h = HouseholdOf[load[c][l].by]
    BY <2>1
  <2>3. own' = own /\ own' \in [Households -> [Lists -> Nat]]
    BY <1>3 DEF deliver, TypeOK
  <2>4. load'[c][l] = NULL /\ \A d \in Calls : \A m \in Lists : load'[d][m] \in {NULL, load[d][m]}
    BY <1>3, Dropped DEF deliver
  <2>5. ASSUME NEW k \in Households, NEW m \in Lists PROVE Stale(k, m)' \subseteq Stale(k, m)
    BY <2>3, <2>4, FewerStale
  <2>6. CASE ~(load[c][l].version < own[h][l])
    <3>1. late' = late
      BY <1>3, <2>6, <2>2 DEF deliver
    <3> QED BY <2>5, <3>1, BoundKept DEF LateAnswersBounded, Bounded
  <2>7. CASE load[c][l].version < own[h][l]
    <3>1. c \in Stale(h, l)
      <4>1. load[c][l].since < own[h][l]
        BY <2>1, <2>7 DEF TypeOK
      <4> QED BY <2>1, <2>2, <4>1, WebPageAssumption DEF Stale
    <3>2. c \notin Stale(h, l)'
      BY <2>4 DEF Stale
    <3>3. late' = [late EXCEPT ![h] = [late[h] EXCEPT ![l] = late[h][l] + 1]]
      BY <1>3, <2>7, <2>2 DEF deliver
    <3>4. /\ late'[h][l] = late[h][l] + 1 /\ late[h][l] \in Nat
          /\ \A k \in Households : \A m \in Lists : k # h \/ m # l => late'[k][m] = late[k][m]
      BY <3>3 DEF TypeOK
    <3>5. Bounded(h, l)'
      <4>1. /\ Cardinality(Stale(h, l) \ {c}) = Cardinality(Stale(h, l)) - 1
            /\ IsFiniteSet(Stale(h, l) \ {c}) /\ Cardinality(Stale(h, l)) \in Nat
        BY <3>1, StaleCalls, StaleFinite, FS_RemoveElement
      <4>2. Stale(h, l)' \subseteq Stale(h, l) \ {c} /\ Cardinality(Stale(h, l)') \in Nat
        <5>1. Stale(h, l)' \subseteq Stale(h, l)
          BY <2>5
        <5> QED BY <3>2, <5>1, StaleCalls, StaleFinite
      <4>3. Cardinality(Stale(h, l)') <= Cardinality(Stale(h, l)) - 1
        BY <4>1, <4>2, FS_Subset
      <4>4. late[h][l] + Cardinality(Stale(h, l)) <= MaxCalls - 1
        BY DEF LateAnswersBounded
      <4> QED BY <3>4, <4>1, <4>2, <4>3, <4>4, WebPageAssumption DEF Bounded
    <3> QED BY <2>5, <3>4, <3>5, BoundKept DEF LateAnswersBounded, Bounded
  <2> QED BY <2>6, <2>7
<1> QED BY <1>1, <1>2, <1>3

(* The function that wrote has just asked for the lists it may have        *)
(* changed, so only the others can have asked before.                      *)
LEMMA BoundWritten ==
    ASSUME TypeOK, LateAnswersBounded, NEW c \in Calls, written(c)
    PROVE  LateAnswersBounded'
<1> DEFINE h == HouseholdOf[call[c].by]
           n == call[c].answer
           ls == Loads[call[c].op]
<1>1. call[c] # NULL /\ n \in Nat /\ h \in Households /\ session \in Accounts \cup {NULL}
  BY CallFields, WebPageAssumption DEF written, Running, TypeOK
<1>2. Learn(h, ls, n) /\ AwaitAll(c, ls \cap Lists, session)
  BY DEF written
<1> HIDE DEF h, n, ls
<1>3. /\ own' \in [Households -> [Lists -> Nat]]
      /\ \A k \in Households : \A l \in Lists :
           \/ own'[k][l] = own[k][l] /\ late'[k][l] = late[k][l]
           \/ k = h /\ l \in ls /\ late'[k][l] = 0
  BY <1>1, <1>2, Learned
<1>4. /\ \A d \in Calls \ {c} : load'[d] = load[d]
      /\ \A l \in Lists : load'[c][l] = load[c][l] \/ Fresh(c, l)'
      /\ \A l \in Lists \cap ls : Fresh(c, l)'
  BY <1>1, <1>2, <1>3, AwaitedAll
<1>5. ASSUME NEW k \in Households, NEW l \in Lists PROVE Bounded(k, l)'
  <2>1. CASE own'[k][l] = own[k][l] /\ late'[k][l] = late[k][l]
    <3>1. Stale(k, l)' \subseteq Stale(k, l)
      BY <1>3, <1>4, <2>1, FewerStale
    <3> QED BY <2>1, <3>1, BoundKept
  <2>2. CASE l \in ls /\ late'[k][l] = 0
    <3>1. c \notin Stale(k, l)'
      BY <1>3, <1>4, <2>2, FreshIsNotStale
    <3>2. Stale(k, l)' \subseteq Calls \ {c} /\ Cardinality(Stale(k, l)') \in Nat
      BY <3>1, StaleCalls, StaleFinite
    <3>3. IsFiniteSet(Calls \ {c}) /\ Cardinality(Calls \ {c}) = MaxCalls - 1
      BY CallsCounted, FS_RemoveElement
    <3>4. Cardinality(Stale(k, l)') <= MaxCalls - 1
      BY <3>2, <3>3, FS_Subset
    <3> QED BY <2>2, <3>2, <3>4, WebPageAssumption DEF Bounded
  <2> QED BY <1>3, <2>1, <2>2
<1> QED BY <1>5 DEF LateAnswersBounded, Bounded

LEMMA BoundGetMe ==
    ASSUME TypeOK, LateAnswersBounded, NEW c \in Calls, getMe(c)
    PROVE  LateAnswersBounded'
<1>1. call[c] # NULL /\ session \in Accounts \cup {NULL}
      /\ AwaitAll(c, Wanted(call[c].by, call[c].answer), session)
      /\ UNCHANGED <<own, late>> /\ own' \in [Households -> [Lists -> Nat]]
  BY DEF getMe, Running, TypeOK
<1>2. /\ \A d \in Calls \ {c} : load'[d] = load[d]
      /\ \A l \in Lists : load'[c][l] = load[c][l] \/ Fresh(c, l)'
  BY <1>1, AwaitedAll
<1> QED BY <1>1, <1>2, NothingDelivered

LEMMA BoundPress ==
    ASSUME TypeOK, LateAnswersBounded, NEW c \in Calls, Press(c)
    PROVE  LateAnswersBounded'
<1>1. CASE displayTimer(c)
  BY <1>1, BoundSent, WebPageAssumption DEF displayTimer
<1>2. ASSUME NEW op \in Ops \cup {"login", "change", "logout"}, press(c, op)
      PROVE  LateAnswersBounded'
  BY <1>2, NothingDelivered DEF press
<1>3. ASSUME NEW op \in Ops \cup {"login", "change", "logout"}, navigate(c, op)
      PROVE  LateAnswersBounded'
  BY <1>3, BoundSent DEF navigate, TypeOK
<1> QED BY <1>1, <1>2, <1>3 DEF Press

LEMMA BoundPage ==
    ASSUME TypeOK, LateAnswersBounded,
           \/ \E c \in Calls : loggedOut(c)
           \/ \E p \in Paths : open(p)
           \/ \E h \in Households : otherWrites(h)
           \/ \E a \in Accounts : adminReset(a)
           \/ UNCHANGED vars
    PROVE  LateAnswersBounded'
<1>1. ASSUME NEW p \in AllPaths, Opened(p), UNCHANGED <<own, late>> PROVE LateAnswersBounded'
  BY <1>1, OpenedTyped, NothingDelivered
<1>2. ASSUME NEW c \in Calls, loggedOut(c) PROVE LateAnswersBounded'
  BY <1>1, <1>2 DEF loggedOut, AllPaths
<1>3. ASSUME NEW p \in Paths, open(p) PROVE LateAnswersBounded'
  BY <1>1, <1>3, WebPageAssumption DEF open
<1>4. ASSUME NEW h \in Households, otherWrites(h) PROVE LateAnswersBounded'
  BY <1>4, NothingDelivered DEF otherWrites
<1>5. ASSUME NEW a \in Accounts, adminReset(a) PROVE LateAnswersBounded'
  BY <1>5, NothingDelivered DEF adminReset
<1>6. CASE UNCHANGED vars
  BY <1>6, NothingDelivered DEF vars
<1> QED BY <1>2, <1>3, <1>4, <1>5, <1>6

LEMMA BoundStep ==
    ASSUME TypeOK, Holds, LateAnswersBounded, [Next]_vars
    PROVE  LateAnswersBounded'
<1>1. ASSUME NEW c \in Calls, Step(c) PROVE LateAnswersBounded'
  <2>1. CASE \/ boot(c) \/ serveAccount(c) \/ serveWrite(c) \/ serveMe(c)
             \/ entered(c) \/ expel(c) \/ expelled(c) \/ fail(c)
    BY <2>1, NothingDelivered DEF boot, serveAccount, serveWrite, serveMe, entered, expel, expelled,
       fail
  <2>2. CASE loggedOut(c)
    BY <2>2, BoundPage
  <2>3. ASSUME NEW l \in Lists, serveList(c, l) \/ deliver(c, l) \/ failLoad(c, l)
        PROVE  LateAnswersBounded'
    BY <2>3, BoundLoad
  <2> QED BY <1>1, <2>1, <2>2, <2>3, BoundWritten, BoundGetMe DEF Step
<1> QED BY <1>1, BoundPress, BoundPage DEF Next

-----------------------------------------------------------------------------
(* The theorems.                                                           *)

LEMMA InitInvariant == Init => IInv
<1> SUFFICES ASSUME Init PROVE IInv
  OBVIOUS
<1>1. TypeOK /\ StartsAsk
  BY InitTyped
<1>2. ShellHasData
  BY DEF Init, ShellHasData
<1>3. ASSUME NEW c \in Calls, NEW l \in Lists, load[c][l] # NULL
      PROVE  load[c][l].version = NULL /\ load[c][l].since = 0
  <2>1. /\ load[c][l].by \in Accounts \cup {NULL} /\ load[c][l].version = NULL
        /\ load[c][l].since = Known(own, load[c][l].by, l)
    BY <1>3, InitTyped DEF Fresh
  <2>2. own = [h \in Households |-> [m \in Lists |-> 0]]
    BY DEF Init
  <2> QED BY <2>1, <2>2, WebPageAssumption DEF Known
<1>4. \A c \in Calls : call[c] # NULL => call[c].pc # "done"
  <2>1. ASSUME NEW c \in Calls
        PROVE  call[c] \in {NULL, CallOf("boot", "load", Display, 0), CallOf("boot", "status", NULL, 0)}
    BY DEF Init, BootCalls
  <2> QED BY <2>1, CallParts
<1>5. AnswersHoldWrites
  <2>1. \A h \in Households : \A l \in Lists : own[h][l] = 0 /\ db[h] = 0 /\ late[h][l] = 0
    BY DEF Init
  <2>2. ASSUME NEW c \in Calls, NEW l \in Lists, load[c][l] # NULL, load[c][l].by # NULL
        PROVE  load[c][l].since <= own[HouseholdOf[load[c][l].by]][l]
    <3>1. HouseholdOf[load[c][l].by] \in Households
      BY <1>1, <2>2, LoadFields, WebPageAssumption
    <3> QED BY <1>3, <2>1, <2>2, <3>1
  <2> QED BY <1>3, <1>4, <2>1, <2>2 DEF AnswersHoldWrites, Running
<1>6. OwnWritesShown
  BY DEF Init, OwnWritesShown
<1>7. LateAnswersBounded
  <2>1. ASSUME NEW h \in Households, NEW l \in Lists
        PROVE  late[h][l] + Cardinality(Stale(h, l)) <= MaxCalls - 1
    <3>1. own[h][l] = 0 /\ late[h][l] = 0
      BY DEF Init
    <3>2. Stale(h, l) = {}
      BY <1>3, <3>1 DEF Stale
    <3> QED BY <3>1, <3>2, FS_EmptySet, WebPageAssumption
  <2> QED BY <2>1 DEF LateAnswersBounded
<1> QED BY <1>1, <1>2, <1>5, <1>6, <1>7 DEF IInv

LEMMA StepInvariant == IInv /\ [Next]_vars => IInv'
<1> SUFFICES ASSUME IInv, [Next]_vars PROVE IInv'
  OBVIOUS
<1>1. TypeOK /\ StartsAsk /\ ShellHasData /\ AnswersHoldWrites /\ Holds /\ LateAnswersBounded
  BY HoldsMeans DEF IInv
<1>2. ShellHasData' /\ LateAnswersBounded'
  BY <1>1, ShellStep, BoundStep
<1>3. ASSUME NEW c \in Calls, Step(c) PROVE TypeOK' /\ StartsAsk' /\ Holds'
  <2>1. CASE \/ boot(c) \/ serveAccount(c) \/ serveWrite(c) \/ serveMe(c)
             \/ entered(c) \/ expel(c) \/ expelled(c) \/ fail(c)
    BY <1>1, <2>1, TypedRequest, HoldsRequest
  <2>2. CASE loggedOut(c)
    BY <1>1, <2>2, TypedPage, HoldsPage
  <2>3. CASE written(c)
    BY <1>1, <2>3, TypedAnswer, HoldsWritten
  <2>4. CASE getMe(c)
    BY <1>1, <2>4, TypedAnswer, HoldsGetMe
  <2>5. ASSUME NEW l \in Lists, serveList(c, l) \/ deliver(c, l) \/ failLoad(c, l)
        PROVE  TypeOK' /\ StartsAsk' /\ Holds'
    BY <1>1, <2>5, TypedLoad, HoldsLoad
  <2> QED BY <1>3, <2>1, <2>2, <2>3, <2>4, <2>5 DEF Step
<1>4. ASSUME NEW c \in Calls, Press(c) PROVE TypeOK' /\ StartsAsk' /\ Holds'
  BY <1>1, <1>4, TypedPress, HoldsPress
<1>5. ASSUME \/ \E p \in Paths : open(p)
             \/ \E h \in Households : otherWrites(h)
             \/ \E a \in Accounts : adminReset(a)
             \/ UNCHANGED vars
      PROVE  TypeOK' /\ StartsAsk' /\ Holds'
  BY <1>1, <1>5, TypedPage, HoldsPage
<1>6. TypeOK' /\ StartsAsk' /\ Holds'
  BY <1>3, <1>4, <1>5 DEF Next
<1>7. AnswersHoldWrites' /\ OwnWritesShown'
  BY <1>6 DEF Holds, AnswersHoldWrites, OwnWritesShown, LoadHolds, ViewHolds, AnswerHolds
<1> QED BY <1>2, <1>6, <1>7 DEF IInv

LEMMA Invariant == Spec => []IInv
BY InitInvariant, StepInvariant, PTL DEF Spec

(* The page, its calls and its loads are well formed, whatever is answered *)
(* in whatever order.                                                      *)
THEOREM TypeCorrect == Spec => []TypeOK
<1>1. IInv => TypeOK
  BY DEF IInv
<1> QED BY <1>1, Invariant, PTL

(* For any number of accounts, lists and calls that overlap, nobody is     *)
(* shown a page whose lists have neither been loaded nor are being loaded  *)
(* by a function that logs the page out if it fails (App.vue, getMe).      *)
THEOREM NoEmptyShell == Spec => []ShellHasData
<1>1. IInv => ShellHasData
  BY DEF IInv
<1> QED BY <1>1, Invariant, PTL

(* Whatever list the page shows, it holds every write of this page that    *)
(* was answered before the list was asked for (App.vue: every handler      *)
(* awaits its write, and only then its loads).  A list that was asked for  *)
(* earlier may still arrive later and be shown in its place.               *)
THEOREM PageShowsItsWrites == Spec => []OwnWritesShown
<1>1. IInv => OwnWritesShown
  BY DEF IInv
<1> QED BY <1>1, Invariant, PTL

(* A write of its own can be taken off the page by a late answer           *)
(* (App.vue:41, loadAll), but no more often than other functions were      *)
(* under way when the page learned of it.                                  *)
THEOREM LateAnswersAreFew == Spec => []LateAnswersBounded
<1>1. IInv => LateAnswersBounded
  BY DEF IInv
<1> QED BY <1>1, Invariant, PTL

(* A user who waits for each function to end before starting the next      *)
(* never sees a write of this page taken off it again.                     *)
THEOREM NothingTakenOffInTurn ==
    ASSUME MaxCalls = 1
    PROVE  Spec => [](\A h \in Households : \A l \in Lists : late[h][l] = 0)
<1>1. IInv => \A h \in Households : \A l \in Lists : late[h][l] = 0
  <2> SUFFICES ASSUME IInv, NEW h \in Households, NEW l \in Lists PROVE late[h][l] = 0
    OBVIOUS
  <2>1. late[h][l] \in Nat /\ late[h][l] + Cardinality(Stale(h, l)) <= 0
    BY DEF IInv, TypeOK, LateAnswersBounded
  <2>2. Cardinality(Stale(h, l)) \in Nat
    BY StaleCalls, StaleFinite
  <2> QED BY <2>1, <2>2
<1> QED BY <1>1, Invariant, PTL
=============================================================================
