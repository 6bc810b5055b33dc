------------------------------- MODULE WebPage -------------------------------
(***************************************************************************)
(* The page of frontend/src/App.vue: who is logged in, the lists it shows, *)
(* and the asynchronous functions that run behind its buttons.             *)
(*                                                                         *)
(* A call c is one run of such a function.  It waits for one request at a  *)
(* time, or, in Promise.all, for the loads of several lists.  Requests are *)
(* sent, served and answered in separate steps, in any order, and any of   *)
(* them may fail: refused by the server, lost, or answered in vain.        *)
(* A household's data is the number of writes to it.                       *)
(***************************************************************************)
EXTENDS Integers, FiniteSets

CONSTANTS
    Accounts,       \* who may log in on this page
    Display,        \* stands for the token in the link of a display
    Households, HouseholdOf,
    Platform,       \* the administrator's "household"
    Paths,          \* where this instance may be opened
    Lists,          \* the lists this instance follows
    Ops,            \* the buttons this instance has
    MaxCalls,       \* bound on the calls that run at one time
    MaxWrites,      \* MaxWrites[h]: bound on the writes to household h
    NULL

(* "/register" stands for "/join", too.                                    *)
AllPaths == {"/", "/admin", "/register", "/privacy", "/display"}

HouseholdLists == {"dashboard", "products", "batches", "locations", "shopping", "todos"}
AllLists == HouseholdLists \cup {"settings", "admin"}

(* What a button's function loads, after its write if it has one:          *)
(*   stock     saveProduct, removeProduct, saveBatch, removeBatch, adjust, *)
(*             openBatch, undo: loadAll                                    *)
(*   shop      addToShopping, toggleShopping                               *)
(*   item      addShopping, removeShopping                                 *)
(*   todo      saveTodo, toggleTodo, removeTodo                            *)
(*   location  addLocation                                                 *)
(*   member    promoteMember, removeMember, createDisplay, revocations     *)
(*   admin     createSignupCode, setHouseholdStatus, resetUser             *)
(*   plain     saveSettings, createInvite                                  *)
(*   home, todos, settings   the buttons of the navigation, without write  *)
Loads == [stock |-> HouseholdLists, shop |-> {"shopping", "dashboard"}, item |-> {"shopping"},
          todo |-> {"todos", "dashboard"}, location |-> {"locations"}, member |-> {"settings"},
          admin |-> {"admin"}, plain |-> {}, home |-> {"dashboard"}, todos |-> {"todos"},
          settings |-> {"settings"}]

Navigation == {"home", "todos", "settings"}
Buttons == {"stock", "shop", "item", "todo", "location", "member", "admin", "plain"} \cup Navigation

(* The functions that call getMe; login stands for register and join, too. *)
Starts == {"boot", "login", "change"}

Calls == 1..MaxCalls

Call == [op : Buttons \cup Starts \cup {"logout", "display"},
         pc : {"status", "post", "done", "me", "told", "expel", "load"},
         by : Accounts \cup {NULL},  \* whose cookie the request carries
         answer : Nat]               \* must_change_password, or the writes including this one

(* since: own when the request was sent, so the writes it has to show.     *)
Load == [by : Accounts \cup {NULL}, version : Nat \cup {NULL}, since : Nat]
View == [household : Households, version : Nat, since : Nat]
Me == [account : Accounts, must_change_password : {0, 1}]

ASSUME WebPageAssumption ==
    /\ HouseholdOf \in [Accounts -> Households]
    /\ Display \in Accounts /\ Platform \in Households /\ HouseholdOf[Display] # Platform
    /\ Paths \subseteq AllPaths /\ Lists \subseteq AllLists /\ Ops \subseteq Buttons
    /\ MaxCalls \in Nat \ {0} /\ MaxWrites \in [Households -> Nat]
    /\ NULL \notin Nat /\ NULL \notin Accounts
    /\ NULL \notin Call /\ NULL \notin Load /\ NULL \notin View /\ NULL \notin Me

VARIABLES
    path,      \* location.pathname when the page was opened
    loading, loggedIn, me,
    view,      \* view[l]: the list the page shows, or NULL
    call,      \* call[c]: a function that runs, or NULL
    load,      \* load[c][l]: c's request for list l, or NULL
    session,   \* the account of the browser's cookie, or NULL
    must,      \* users.must_change_password
    db,        \* db[h]: the writes to household h
    own,       \* own[h][l]: the last write after which this page loaded l (history)
    late       \* late[h][l]: how many answers without it have come since (history)

page == <<path, loading, loggedIn, me, view>>
vars == <<path, loading, loggedIn, me, view, call, load, session, must, db, own, late>>

TypeOK ==
    /\ path \in AllPaths
    /\ loading \in BOOLEAN /\ loggedIn \in BOOLEAN
    /\ me \in Me \cup {NULL}
    /\ view \in [Lists -> View \cup {NULL}]
    /\ call \in [Calls -> Call \cup {NULL}]
    /\ \A c \in Calls : call[c] # NULL /\ call[c].pc = "told" => call[c].answer \in {0, 1}
    /\ load \in [Calls -> [Lists -> Load \cup {NULL}]]
    /\ session \in Accounts \cup {NULL}
    /\ must \in [Accounts -> {0, 1}]
    /\ db \in [Households -> Nat]
    /\ own \in [Households -> [Lists -> Nat]] /\ late \in [Households -> [Lists -> Nat]]

-----------------------------------------------------------------------------
Running(c, pc) == call[c] # NULL /\ call[c].pc = pc
Over(c) == call[c] = NULL /\ \A l \in Lists : load[c][l] = NULL
Free(c) == Over(c) /\ \A d \in 1..(c - 1) : ~Over(d)

CallOf(op, pc, by, answer) == [op |-> op, pc |-> pc, by |-> by, answer |-> answer]
LoadOf(by, version, since) == [by |-> by, version |-> version, since |-> since]
ViewOf(household, version, since) ==
    [household |-> household, version |-> version, since |-> since]
Known(o, by, l) == IF by = NULL THEN 0 ELSE o[HouseholdOf[by]][l]

(* c waits for its next request, which carries by's cookie.                *)
Await(c, pc, by, answer) == call' = [call EXCEPT ![c] = CallOf(call[c].op, pc, by, answer)]

(* c's function returns; boot takes the loader away.                       *)
Return(c) ==
    /\ call' = [call EXCEPT ![c] = NULL]
    /\ loading' = (loading /\ call[c].op # "boot")

(* A faulty variant: a list that is under way already is not asked for     *)
(* again, but answered as that request is.                                 *)
SendOnce(c, ls, by) ==
    load' = [load EXCEPT ![c] = [l \in Lists |->
      IF l \notin ls THEN load[c][l]
      ELSE IF \E d \in Calls : load[d][l] # NULL /\ load[d][l].by = by
        THEN LoadOf(by, load[CHOOSE d \in Calls : load[d][l] # NULL /\ load[d][l].by = by][l].version,
                    Known(own', by, l))
      ELSE LoadOf(by, NULL, Known(own', by, l))]]

(* c sends a request for every list of ls; others may be under way.        *)
Send(c, ls, by) ==
    load' = [load EXCEPT ![c] = [l \in Lists |->
      IF l \in ls THEN LoadOf(by, NULL, Known(own', by, l)) ELSE load[c][l]]]

(* await Promise.all of the lists of ls, or nothing to wait for.           *)
AwaitAll(c, ls, by) ==
    IF ls = {}
      THEN Return(c) /\ UNCHANGED load
      ELSE /\ Await(c, "load", by, 0) /\ Send(c, ls, by)
           /\ UNCHANGED loading

-----------------------------------------------------------------------------
(* boot: a display loads its dashboard, the pages of the legal text and of *)
(* the invitations ask nobody, the others ask who is logged in.            *)

IsAdmin(a) == HouseholdOf[a] = Platform
Resettable(a) == a # Display /\ ~IsAdmin(a)

BootCalls(p) == [c \in Calls |->
    IF c # 1 THEN NULL
    ELSE IF p = "/display" THEN CallOf("boot", "load", Display, 0)
    ELSE CallOf("boot", "status", NULL, 0)]
BootLoads(p) == [c \in Calls |-> [l \in Lists |->
    IF c = 1 /\ p = "/display" /\ l = "dashboard"
      THEN LoadOf(Display, NULL, Known(own, Display, l)) ELSE NULL]]

Opened(p) ==
    /\ path' = p /\ loading' = TRUE /\ loggedIn' = FALSE /\ me' = NULL
    /\ view' = [l \in Lists |-> NULL]
    /\ call' = BootCalls(p) /\ load' = BootLoads(p)

Init ==
    /\ path \in Paths /\ loading = TRUE /\ loggedIn = FALSE /\ me = NULL
    /\ view = [l \in Lists |-> NULL]
    /\ own = [h \in Households |-> [l \in Lists |-> 0]] 
    /\ late = [h \in Households |-> [l \in Lists |-> 0]]
    /\ call = BootCalls(path) /\ load = BootLoads(path)
    /\ session \in Accounts \cup {NULL} /\ session # Display
    /\ must \in [Accounts -> {0, 1}] /\ \A a \in Accounts : must[a] = 1 => Resettable(a)
    /\ db = [h \in Households |-> 0]

(* /status is answered, or its error is swallowed.                         *)
boot(c) ==
    /\ Running(c, "status")
    /\ IF path \in {"/privacy", "/register"}
         THEN Return(c)
         ELSE Await(c, "me", session, 0) /\ UNCHANGED loading
    /\ UNCHANGED <<path, loggedIn, me, view, load, session, must, db, own, late>>

(* setInterval: every five minutes, whatever became of the last load.      *)
displayTimer(c) ==
    /\ path = "/display" /\ ~loading /\ Free(c)
    /\ call' = [call EXCEPT ![c] = CallOf("display", "load", Display, 0)]
    /\ UNCHANGED <<path, loading, loggedIn, me, view, session, must, db, own, late>>
    /\ Send(c, {"dashboard"} \cap Lists, Display)

-----------------------------------------------------------------------------
(* What the template offers.                                               *)

Offers(op) ==
    CASE op = "login" -> ~loggedIn /\ path \notin {"/privacy", "/display"}
      [] op = "logout" -> loggedIn
      [] op = "change" -> loggedIn /\ me.must_change_password = 1
      [] op = "admin" -> loggedIn /\ me.must_change_password = 0 /\ IsAdmin(me.account)
      [] OTHER -> loggedIn /\ me.must_change_password = 0 /\ ~IsAdmin(me.account)

(* A button that writes, or logs in with somebody's password.              *)
press(c, op) ==
    /\ ~loading /\ Free(c) /\ op \notin Navigation /\ Offers(op)
    /\ \E a \in IF op = "login" THEN Accounts \ {Display} ELSE {session} :
         call' = [call EXCEPT ![c] = CallOf(op, "post", a, 0)]
    /\ UNCHANGED <<path, loading, loggedIn, me, view, load, session, must, db, own, late>>

(* A button of the navigation.                                             *)
navigate(c, op) ==
    /\ ~loading /\ Free(c) /\ op \in Navigation /\ Offers(op)
    /\ Loads[op] \cap Lists # {}
    /\ call' = [call EXCEPT ![c] = CallOf(op, "load", session, 0)]
    /\ UNCHANGED <<path, loading, loggedIn, me, view, session, must, db, own, late>>
    /\ Send(c, Loads[op] \cap Lists, session)

-----------------------------------------------------------------------------
(* The server.                                                             *)

(* requireAdmin, or requireHousehold.                                      *)
MayAdmin(a) == a # NULL /\ IsAdmin(a)
MayUse(a) == a # NULL /\ ~IsAdmin(a) /\ must[a] = 0

(* Login, change of a password, logout.                                    *)
serveAccount(c) ==
    /\ Running(c, "post") /\ call[c].op \in {"login", "change", "logout"}
    /\ call[c].op = "change" => call[c].by # NULL
    /\ must' = IF call[c].op = "change" THEN [must EXCEPT ![call[c].by] = 0] ELSE must
    /\ Await(c, "done", call[c].by, 0)
    /\ UNCHANGED <<path, loading, loggedIn, me, view, load, session, db, own, late>>

serveWrite(c) ==
    /\ Running(c, "post") /\ call[c].op \in Buttons
    /\ IF call[c].op = "admin" THEN MayAdmin(call[c].by) ELSE MayUse(call[c].by)
    /\ LET h == HouseholdOf[call[c].by] IN
        /\ db[h] < MaxWrites[h]
        /\ db' = [db EXCEPT ![h] = db[h] + 1]
        /\ Await(c, "done", call[c].by, db[h] + 1)
    /\ UNCHANGED <<path, loading, loggedIn, me, view, load, session, must, own, late>>

serveMe(c) ==
    /\ Running(c, "me") /\ call[c].by # NULL
    /\ Await(c, "told", call[c].by, must[call[c].by])
    /\ UNCHANGED <<path, loading, loggedIn, me, view, load, session, must, db, own, late>>

serveList(c, l) ==
    /\ load[c][l] # NULL /\ load[c][l].version = NULL
    /\ IF l = "admin" THEN MayAdmin(load[c][l].by) ELSE MayUse(load[c][l].by)
    /\ load' = [load EXCEPT ![c] = [load[c] EXCEPT ![l] =
         LoadOf(load[c][l].by, db[HouseholdOf[load[c][l].by]], load[c][l].since)]]
    /\ UNCHANGED <<path, loading, loggedIn, me, view, call, session, must, db, own, late>>

-----------------------------------------------------------------------------
(* The page goes on.                                                       *)

(* The answer to login brings the cookie, and getMe begins.                *)
entered(c) ==
    /\ Running(c, "done") /\ call[c].op \in {"login", "change"}
    /\ session' = IF call[c].op = "login" THEN call[c].by ELSE session
    /\ Await(c, "me", session', 0)
    /\ UNCHANGED <<path, loading, loggedIn, me, view, load, must, db, own, late>>

(* location.href = '/': whatever the page holds or waits for is gone.      *)
loggedOut(c) ==
    /\ Running(c, "done") /\ call[c].op = "logout"
    /\ session' = NULL
    /\ Opened("/")
    /\ UNCHANGED <<must, db, own, late>>

(* The page knows of its write n to household h, and will show it in ls.   *)
Learn(h, ls, n) ==
    LET new == {l \in Lists \cap ls : own[h][l] < n} IN
    /\ own' = [own EXCEPT ![h] = [l \in Lists |-> IF l \in new THEN n ELSE own[h][l]]]
    /\ late' = [late EXCEPT ![h] = [l \in Lists |-> IF l \in new THEN 0 ELSE late[h][l]]]

(* A faulty variant: the lists are loaded while the write is on its way.   *)
writtenUnawaited(c) ==
    /\ (Running(c, "post") \/ Running(c, "done")) /\ call[c].op \in Buttons /\ call[c].by # NULL
    /\ Learn(HouseholdOf[call[c].by], Loads[call[c].op], db[HouseholdOf[call[c].by]] + 1)
    /\ AwaitAll(c, Loads[call[c].op] \cap Lists, session)
    /\ UNCHANGED <<path, loggedIn, me, view, session, must, db>>

(* The write was answered: load what it may have changed.                  *)
written(c) ==
    /\ Running(c, "done") /\ call[c].op \in Buttons /\ call[c].by # NULL
    /\ Learn(HouseholdOf[call[c].by], Loads[call[c].op], call[c].answer)
    /\ AwaitAll(c, Loads[call[c].op] \cap Lists, session)
    /\ UNCHANGED <<path, loggedIn, me, view, session, must, db>>

(* What getMe loads for the account it was told about.                     *)
Wanted(a, m) ==
    IF IsAdmin(a) THEN {"admin"} \cap Lists
    ELSE IF m = 0 THEN HouseholdLists \cap Lists ELSE {}

getMe(c) ==
    /\ Running(c, "told") /\ call[c].by # NULL
    /\ ~(path = "/admin" /\ ~IsAdmin(call[c].by))
    /\ me' = [account |-> call[c].by, must_change_password |-> call[c].answer]
    /\ loggedIn' = TRUE
    /\ UNCHANGED <<path, view, session, must, db, own, late>>
    /\ AwaitAll(c, Wanted(call[c].by, call[c].answer), session)

(* An account that is no administrator's is logged out of /admin ...       *)
expel(c) ==
    /\ Running(c, "told") /\ path = "/admin" /\ ~IsAdmin(call[c].by)
    /\ Await(c, "expel", session, 0)
    /\ UNCHANGED <<path, loading, loggedIn, me, view, load, session, must, db, own, late>>

(* ... whether or not that succeeds.                                       *)
expelled(c) ==
    /\ Running(c, "expel")
    /\ session' \in {NULL, session}
    /\ loggedIn' = FALSE
    /\ Return(c)
    /\ UNCHANGED <<path, me, view, load, must, db, own, late>>

(* A faulty variant: what fails is asked for again.                        *)
failRetried(c) ==
    /\ call[c] # NULL /\ call[c].pc \in {"post", "done", "me", "told"}
    /\ Await(c, IF call[c].pc \in {"post", "done"} THEN "post" ELSE "me", session, 0)
    /\ UNCHANGED <<path, loading, loggedIn, me, view, load, session, must, db, own, late>>

(* A request fails.  Only getMe minds.                                     *)
fail(c) ==
    /\ call[c] # NULL /\ call[c].pc \in {"post", "done", "me", "told"}
    /\ loggedIn' = (loggedIn /\ call[c].pc \in {"post", "done"})
    /\ Return(c)
    /\ UNCHANGED <<path, me, view, load, session, must, db, own, late>>

Drop(c, l) == load' = [load EXCEPT ![c] = [load[c] EXCEPT ![l] = NULL]]

(* A faulty variant: a list is shown before it has arrived.                *)
deliverUnawaited(c, l) ==
    /\ load[c][l] # NULL
    /\ view' = [view EXCEPT ![l] =
         ViewOf(HouseholdOf[load[c][l].by], load[c][l].version, load[c][l].since)]
    /\ Drop(c, l)
    /\ IF Running(c, "load") /\ \A m \in Lists \ {l} : load[c][m] = NULL
         THEN Return(c) ELSE UNCHANGED <<call, loading>>
    /\ UNCHANGED <<path, loggedIn, me, session, must, db, own, late>>

(* A list arrives; Promise.all is done with its last one.                  *)
deliver(c, l) ==
    /\ load[c][l] # NULL /\ load[c][l].version # NULL
    /\ view' = [view EXCEPT ![l] =
         ViewOf(HouseholdOf[load[c][l].by], load[c][l].version, load[c][l].since)]
    /\ LET h == HouseholdOf[load[c][l].by] IN
         late' = IF load[c][l].version < own[h][l]
                   THEN [late EXCEPT ![h] = [late[h] EXCEPT ![l] = late[h][l] + 1]] ELSE late
    /\ Drop(c, l)
    /\ IF Running(c, "load") /\ \A m \in Lists \ {l} : load[c][m] = NULL
         THEN Return(c) ELSE UNCHANGED <<call, loading>>
    /\ UNCHANGED <<path, loggedIn, me, session, must, db, own>>

(* A faulty variant: getMe forgets that a load has failed.                 *)
failLoadQuietly(c, l) ==
    /\ load[c][l] # NULL
    /\ Drop(c, l)
    /\ IF Running(c, "load") THEN Return(c) ELSE UNCHANGED <<call, loading>>
    /\ UNCHANGED <<path, loggedIn, me, view, session, must, db, own, late>>

(* A load fails, and with it Promise.all: the function ends, the other     *)
(* loads arrive all the same.                                              *)
failLoad(c, l) ==
    /\ load[c][l] # NULL
    /\ Drop(c, l)
    /\ IF Running(c, "load")
         THEN Return(c) /\ loggedIn' = (loggedIn /\ call[c].op \notin Starts)
         ELSE UNCHANGED <<call, loading, loggedIn>>
    /\ UNCHANGED <<path, me, view, session, must, db, own, late>>

-----------------------------------------------------------------------------
(* The world.                                                              *)

(* The user opens or reloads the page.                                     *)
open(p) ==
    /\ ~loading
    /\ Opened(p)
    /\ UNCHANGED <<session, must, db, own, late>>

(* Another page of the same household, or another administrator, writes.   *)
otherWrites(h) ==
    /\ db[h] < MaxWrites[h]
    /\ db' = [db EXCEPT ![h] = db[h] + 1]
    /\ UNCHANGED <<path, loading, loggedIn, me, view, call, load, session, must, own, late>>

(* The administrator sets a temporary password.                            *)
adminReset(a) ==
    /\ Resettable(a) /\ must[a] = 0
    /\ must' = [must EXCEPT ![a] = 1]
    /\ UNCHANGED <<path, loading, loggedIn, me, view, call, load, session, db, own, late>>

Step(c) ==
    \/ boot(c) \/ serveAccount(c) \/ serveWrite(c) \/ serveMe(c)
    \/ entered(c) \/ loggedOut(c) \/ written(c) \/ getMe(c) \/ expel(c) \/ expelled(c) \/ fail(c)
    \/ \E l \in Lists : serveList(c, l) \/ deliver(c, l) \/ failLoad(c, l)

Press(c) ==
    \/ displayTimer(c)
    \/ \E op \in Ops \cup {"login", "change", "logout"} : press(c, op) \/ navigate(c, op)

Next ==
    \/ \E c \in Calls : Step(c) \/ Press(c)
    \/ \E p \in Paths : open(p)
    \/ \E h \in Households : otherWrites(h)
    \/ \E a \in Accounts : adminReset(a)

(* As long as there are requests, one of them is answered or fails in the  *)
(* end.  Nobody has to press a button.                                     *)
Spec == Init /\ [][Next]_vars /\ WF_vars(\E c \in Calls : Step(c))

-----------------------------------------------------------------------------
(* Whoever is logged in sees a page whose lists have all been loaded, or   *)
(* are being loaded by a getMe that logs the page out again if it fails:   *)
(* no failure, no second login and no late answer leaves an empty shell.   *)
Loaded(l) ==
    \/ view[l] # NULL
    \/ \E c \in Calls : Running(c, "load") /\ call[c].op \in Starts /\ load[c][l] # NULL

ShellHasData ==
    loggedIn =>
        /\ me # NULL
        /\ \A l \in Wanted(me.account, me.must_change_password) : Loaded(l)

(* Whatever the page shows holds every write it had made before it asked:  *)
(* a list that is loaded again after a write contains that write, whatever *)
(* overtakes it.                                                           *)
OwnWritesShown == \A l \in Lists : view[l] # NULL => view[l].version >= view[l].since

(* The requests for list l that were sent before the page knew of its last *)
(* write, and whose answers may replace one that holds it.                 *)
Stale(h, l) ==
    {c \in Calls : /\ load[c][l] # NULL /\ load[c][l].by # NULL
                   /\ HouseholdOf[load[c][l].by] = h /\ load[c][l].since < own[h][l]}

(* A late answer may take a write of the page's own off the page again,    *)
(* but each function that was under way does so once at most, and the one  *)
(* that wrote does not.                                                    *)
LateAnswersBounded ==
    \A h \in Households : \A l \in Lists :
        late[h][l] + Cardinality(Stale(h, l)) <= MaxCalls - 1

(* The loader goes away, whatever fails.                                   *)
LoaderEnds == loading ~> ~loading

-----------------------------------------------------------------------------
(* Why: only the functions that call getMe wait for its requests ...       *)
StartsAsk ==
    \A c \in Calls : call[c] # NULL /\ call[c].pc \in {"status", "me", "told", "expel"} =>
        call[c].op \in Starts

(* ... and whatever is answered holds the writes known when it was asked. *)
AnswersHoldWrites ==
    /\ \A h \in Households : \A l \in Lists : own[h][l] <= db[h]
    /\ \A c \in Calls : Running(c, "done") /\ call[c].op \in Buttons /\ call[c].by # NULL =>
         call[c].answer <= db[HouseholdOf[call[c].by]]
    /\ \A c \in Calls : \A l \in Lists : load[c][l] # NULL =>
         /\ load[c][l].since = 0 \/ load[c][l].by # NULL
         /\ load[c][l].by # NULL => load[c][l].since <= own[HouseholdOf[load[c][l].by]][l]
         /\ load[c][l].version # NULL =>
              load[c][l].by # NULL /\ load[c][l].version >= load[c][l].since

IInv ==
    /\ TypeOK /\ StartsAsk /\ ShellHasData
    /\ AnswersHoldWrites /\ OwnWritesShown /\ LateAnswersBounded
=============================================================================
