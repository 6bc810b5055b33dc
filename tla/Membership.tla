------------------------------ MODULE Membership ------------------------------
(***************************************************************************)
(* Households, their members, invites, sessions and passwords:             *)
(* internal/pantry/auth.go and auth_handlers.go.                           *)
(*                                                                         *)
(* A request is authenticated first and keeps the actor it found then      *)
(* (role and household included) for as long as its handler runs.  The     *)
(* handlers that check in one statement and write in another keep what     *)
(* they read as well.                                                      *)
(***************************************************************************)
EXTENDS Naturals, FiniteSets

CONSTANTS
    Clients,      \* the handler instances that may run at the same time
    Users, Households, Invites, Sessions,    \* ids newID may hand out
    Admin,        \* the platform administrator
    Passwords,
    Ops,          \* the requests clients send in this instance
    NULL

Requests == {"login", "register", "accept", "promote", "remove", "invite", "revoke",
             "change", "status", "reset", "code"}

UserRow == [household : Households \cup {NULL}, role : {"platform_admin", "owner", "member"},
            password : Passwords, must_change_password : {0, 1}]

(* Only the administrator is of no household.                              *)
User == {u \in UserRow : u.household = NULL <=> u.role = "platform_admin"}

(* A row of platform_invites (household is NULL) or of household_invites.  *)
Invite == [household : Households \cup {NULL}, created_by : Users,
           state : {"open", "used", "expired"}]

(* What authenticate puts into the request's context.                      *)
Actor == [user : Users, household : Households \cup {NULL}, role : {"platform_admin", "owner", "member"},
          must_change_password : {0, 1}]

(* "handle": authenticated, the handler has not touched the database yet;  *)
(* "write": it has checked target and is about to write.                   *)
Request == [op : Requests, pc : {"handle", "write"}, actor : Actor \cup {NULL},
            target : Users \cup Invites \cup Sessions \cup {NULL},
            password : Passwords \cup {NULL}]

ASSUME MembershipAssumption ==
    /\ Admin \in Users /\ Ops \subseteq Requests
    /\ NULL \notin Users \cup Households \cup Invites \cup Sessions \cup Passwords
    /\ NULL \notin User /\ NULL \notin Invite /\ NULL \notin Actor /\ NULL \notin Request
    /\ NULL # "active" /\ NULL # "suspended"
    /\ IsFiniteSet(Clients)

VARIABLES
    households,  \* households[h]: its status, or NULL
    users,       \* users[u]: a row, or NULL
    invites,     \* invites[i]: a row, or NULL
    sessions,    \* sessions[s]: the user it logs in, or NULL
    issued,      \* ids handed out by newID
    req,         \* req[c]: the request c's handler is serving, or NULL
    founder,     \* founder[h]: who registered h (history)
    admitted     \* admitted[i]: the users invite i has let in (history)

vars == <<households, users, invites, sessions, issued, req, founder, admitted>>

TypeOK ==
    /\ households \in [Households -> {"active", "suspended", NULL}]
    /\ users \in [Users -> User \cup {NULL}]
    /\ invites \in [Invites -> Invite \cup {NULL}]
    /\ sessions \in [Sessions -> Users \cup {NULL}]
    /\ issued \subseteq Users \cup Households \cup Invites \cup Sessions
    /\ req \in [Clients -> Request \cup {NULL}]
    /\ founder \in [Households -> Users \cup {NULL}]
    /\ admitted \in [Invites -> SUBSET Users]

(* The database after BootstrapAdmin, on the first start of the server.    *)
Init ==
    /\ households = [h \in Households |-> NULL]
    /\ \E p \in Passwords :
         users = [u \in Users |->
                    IF u = Admin THEN [household |-> NULL, role |-> "platform_admin",
                                       password |-> p, must_change_password |-> 0]
                    ELSE NULL]
    /\ invites = [i \in Invites |-> NULL]
    /\ sessions = [s \in Sessions |-> NULL]
    /\ issued = {Admin}
    /\ req = [c \in Clients |-> NULL]
    /\ founder = [h \in Households |-> NULL]
    /\ admitted = [i \in Invites |-> {}]

-----------------------------------------------------------------------------
tables == <<households, users, invites, sessions, issued, founder, admitted>>

Idle(c) == req[c] = NULL
At(c, op, pc) == ~Idle(c) /\ req[c].op = op /\ req[c].pc = pc

Serve(c, r) == req' = [req EXCEPT ![c] = r]
Answer(c) == req' = [req EXCEPT ![c] = NULL]

(* The handler has read what it needs and goes on to write.                *)
GoOn(c, target, password) ==
    Serve(c, [req[c] EXCEPT !.pc = "write", !.target = target, !.password = password])

(* A handler that anybody may call starts by reading.                      *)
Begin(c, op, target, password) ==
    /\ Idle(c) /\ op \in Ops
    /\ Serve(c, [op |-> op, pc |-> "write", actor |-> NULL, target |-> target,
                 password |-> password])
    /\ UNCHANGED tables

WithRole(row, role) == [row EXCEPT !.role = role]
WithPassword(row, p, must) == [row EXCEPT !.password = p, !.must_change_password = must]

NewSession(s, u) ==
    /\ s \in Sessions \ issued
    /\ sessions' = [sessions EXCEPT ![s] = u]

(* ON DELETE CASCADE, and DELETE FROM sessions WHERE user_id=?             *)
DropSessions(u) ==
    sessions' = [s \in Sessions |-> IF sessions[s] = u THEN NULL ELSE sessions[s]]

(* An error answer: nothing was found, a check failed, a key conflicted,   *)
(* or the write lock was busy for too long.                                *)
refuse(c) ==
    /\ ~Idle(c)
    /\ Answer(c)
    /\ UNCHANGED tables

-----------------------------------------------------------------------------
(* login reads the user and checks the password, then inserts the session. *)

login(c) ==
    \E u \in Users :
        /\ users[u] # NULL
        /\ Begin(c, "login", u, users[u].password)

(* A faulty variant: the foreign keys are not enforced.                    *)
commitLoginUnchecked(c) ==
    /\ At(c, "login", "write")
    /\ \E s \in Sessions : NewSession(s, req[c].target) /\ issued' = issued \cup {s}
    /\ Answer(c)
    /\ UNCHANGED <<households, users, invites, founder, admitted>>

(* The session's foreign key: the user must still be there.                *)
commitLogin(c) ==
    /\ At(c, "login", "write")
    /\ users[req[c].target] # NULL
    /\ \E s \in Sessions : NewSession(s, req[c].target) /\ issued' = issued \cup {s}
    /\ Answer(c)
    /\ UNCHANGED <<households, users, invites, founder, admitted>>

logout(c) ==
    /\ Idle(c)
    /\ \E s \in Sessions :
        /\ sessions[s] # NULL
        /\ sessions' = [sessions EXCEPT ![s] = NULL]
    /\ UNCHANGED <<households, users, invites, issued, req, founder, admitted>>

-----------------------------------------------------------------------------
(* registerHousehold and acceptHouseholdInvite look the invite up outside  *)
(* the transaction that uses it.                                           *)

(* A faulty variant: used_at is not looked at.                             *)
UsableTwice(i) == invites[i] # NULL /\ invites[i].state # "expired"

Usable(i) == invites[i] # NULL /\ invites[i].state = "open"

registerHousehold(c) ==
    \E i \in Invites, p \in Passwords :
        /\ Usable(i) /\ invites[i].household = NULL
        /\ Begin(c, "register", i, p)

acceptHouseholdInvite(c) ==
    \E i \in Invites, p \in Passwords :
        /\ Usable(i) /\ invites[i].household # NULL
        /\ Begin(c, "accept", i, p)

(* INSERT INTO users and sessions, UPDATE ... SET used_at WHERE id=?       *)
Admit(c, u, h, role) ==
    LET i == req[c].target IN
    /\ u \in Users \ issued
    /\ users' = [users EXCEPT ![u] = [household |-> h, role |-> role,
                                      password |-> req[c].password,
                                      must_change_password |-> 0]]
    /\ invites' = [invites EXCEPT ![i].state = "used"]
    /\ admitted' = [admitted EXCEPT ![i] = @ \cup {u}]

commitRegister(c) ==
    /\ At(c, "register", "write")
    /\ \E h \in Households \ issued, u \in Users, s \in Sessions :
        /\ Admit(c, u, h, "owner")
        /\ NewSession(s, u)
        /\ households' = [households EXCEPT ![h] = "active"]
        /\ founder' = [founder EXCEPT ![h] = u]
        /\ issued' = issued \cup {h, u, s}
    /\ Answer(c)

commitAccept(c) ==
    /\ At(c, "accept", "write")
    /\ \E u \in Users, s \in Sessions :
        /\ Admit(c, u, invites[req[c].target].household, "member")
        /\ NewSession(s, u)
        /\ issued' = issued \cup {u, s}
    /\ Answer(c)
    /\ UNCHANGED <<households, founder>>

(* expires_at passes.                                                      *)
expire ==
    /\ \E i \in Invites :
        /\ Usable(i)
        /\ invites' = [invites EXCEPT ![i].state = "expired"]
    /\ UNCHANGED <<households, users, sessions, issued, req, founder, admitted>>

-----------------------------------------------------------------------------
(* authenticate: one query joins the session, its user and the household.  *)

actorOf(u) == [user |-> u, household |-> users[u].household, role |-> users[u].role,
               must_change_password |-> users[u].must_change_password]

requireHousehold(a) ==
    a.household # NULL /\ a.role # "platform_admin" /\ a.must_change_password = 0
requireAdmin(a) == a.role = "platform_admin"

(* The middleware in front of the routes of each request.                  *)
Admissible(op, a) ==
    \/ op = "change"
    \/ op \in {"promote", "remove", "invite", "revoke"} /\ requireHousehold(a)
    \/ op \in {"status", "reset", "code"} /\ requireAdmin(a)

authenticate(c) ==
    /\ Idle(c)
    /\ \E s \in Sessions, op \in Ops :
        LET u == sessions[s] IN
        /\ u # NULL
        /\ users[u].household # NULL => households[users[u].household] = "active"
        /\ Admissible(op, actorOf(u))
        /\ Serve(c, [op |-> op, pc |-> "handle", actor |-> actorOf(u),
                     target |-> NULL, password |-> NULL])
    /\ UNCHANGED tables

-----------------------------------------------------------------------------
(* The owners' handlers.                                                   *)

Owner(c) == req[c].actor.role = "owner"
InHousehold(u, c) == users[u] # NULL /\ users[u].household = req[c].actor.household

(* created_by is a foreign key.                                            *)
NewInvite(c, h) ==
    /\ users[req[c].actor.user] # NULL
    /\ \E i \in Invites \ issued :
        /\ invites' = [invites EXCEPT ![i] =
                         [household |-> h, created_by |-> req[c].actor.user,
                          state |-> "open"]]
        /\ issued' = issued \cup {i}
    /\ Answer(c)
    /\ UNCHANGED <<households, users, sessions, founder, admitted>>

createHouseholdInvite(c) ==
    /\ At(c, "invite", "handle")
    /\ Owner(c)
    /\ NewInvite(c, req[c].actor.household)

(* Faulty variants: a wrong role, and a retry that takes the role back.    *)
promoteToAdmin(c) ==
    /\ At(c, "promote", "handle")
    /\ Owner(c)
    /\ \E u \in Users :
        /\ InHousehold(u, c) /\ users[u].role \in {"member", "owner"}
        /\ users' = [users EXCEPT ![u].role = "platform_admin"]
    /\ Answer(c)
    /\ UNCHANGED <<households, invites, sessions, issued, founder, admitted>>

toggleOwner(c) ==
    /\ At(c, "promote", "handle")
    /\ Owner(c)
    /\ \E u \in Users :
        /\ InHousehold(u, c) /\ users[u].role \in {"member", "owner"}
        /\ users' = [users EXCEPT ![u].role = IF @ = "owner" THEN "member" ELSE "owner"]
    /\ Answer(c)
    /\ UNCHANGED <<households, invites, sessions, issued, founder, admitted>>

promoteMemberToOwner(c) ==
    /\ At(c, "promote", "handle")
    /\ Owner(c)
    /\ \E u \in Users :
        /\ InHousehold(u, c) /\ users[u].role \in {"member", "owner"}
        /\ users' = [users EXCEPT ![u] = WithRole(users[u], "owner")]
    /\ Answer(c)
    /\ UNCHANGED <<households, invites, sessions, issued, founder, admitted>>

(* A faulty variant: an owner may be removed.                              *)
deleteAnyMember(c) ==
    /\ At(c, "remove", "handle")
    /\ Owner(c)
    /\ \E u \in Users : InHousehold(u, c) /\ GoOn(c, u, NULL)
    /\ UNCHANGED tables

(* deleteMember reads the member's role, and refuses an owner.             *)
deleteMember(c) ==
    /\ At(c, "remove", "handle")
    /\ Owner(c)
    /\ \E u \in Users :
        /\ InHousehold(u, c) /\ users[u].role # "owner"
        /\ GoOn(c, u, NULL)
    /\ UNCHANGED tables

(* DELETE FROM users WHERE id=? AND household_id=?, which the foreign key  *)
(* of an invite the user created stops; the error is ignored.              *)
commitRemove(c) ==
    LET u == req[c].target IN
    /\ At(c, "remove", "write")
    /\ InHousehold(u, c)
    /\ \A i \in Invites : invites[i] # NULL => invites[i].created_by # u
    /\ users' = [users EXCEPT ![u] = NULL]
    /\ DropSessions(u)
    /\ Answer(c)
    /\ UNCHANGED <<households, invites, issued, founder, admitted>>

(* deleteSession reads whose the session is, then deletes it by id.        *)
deleteSession(c) ==
    /\ At(c, "revoke", "handle")
    /\ \E s \in Sessions :
        /\ sessions[s] # NULL /\ InHousehold(sessions[s], c)
        /\ Owner(c) \/ sessions[s] = req[c].actor.user
        /\ GoOn(c, s, NULL)
    /\ UNCHANGED tables

commitRevoke(c) ==
    /\ At(c, "revoke", "write")
    /\ sessions' = [sessions EXCEPT ![req[c].target] = NULL]
    /\ Answer(c)
    /\ UNCHANGED <<households, users, invites, issued, founder, admitted>>

-----------------------------------------------------------------------------
(* changePassword reads the hash and checks it, then writes the new one.   *)

changePassword(c) ==
    LET u == req[c].actor.user IN
    /\ At(c, "change", "handle")
    /\ users[u] # NULL
    /\ GoOn(c, u, users[u].password)
    /\ UNCHANGED tables

commitChange(c) ==
    LET u == req[c].target IN
    /\ At(c, "change", "write")
    /\ users[u] # NULL
    /\ \E p \in Passwords :
        users' = [users EXCEPT ![u] = WithPassword(users[u], p, 0)]
    /\ Answer(c)
    /\ UNCHANGED <<households, invites, sessions, issued, founder, admitted>>

-----------------------------------------------------------------------------
(* The administrator's handlers.                                           *)

adminCreateSignupCode(c) ==
    /\ At(c, "code", "handle")
    /\ NewInvite(c, NULL)

adminSetHouseholdStatus(c) ==
    /\ At(c, "status", "handle")
    /\ \E h \in Households, status \in {"active", "suspended"} :
        /\ households[h] # NULL
        /\ households' = [households EXCEPT ![h] = status]
    /\ Answer(c)
    /\ UNCHANGED <<users, invites, sessions, issued, founder, admitted>>

(* Two statements: the password first, then the user's sessions.           *)
adminResetPassword(c) ==
    /\ At(c, "reset", "handle")
    /\ \E u \in Users, p \in Passwords :
        /\ users[u] # NULL /\ users[u].role # "platform_admin"
        /\ users' = [users EXCEPT ![u] = WithPassword(users[u], p, 1)]
        /\ GoOn(c, u, NULL)
    /\ UNCHANGED <<households, invites, sessions, issued, founder, admitted>>

commitReset(c) ==
    /\ At(c, "reset", "write")
    /\ DropSessions(req[c].target)
    /\ Answer(c)
    /\ UNCHANGED <<households, users, invites, issued, founder, admitted>>

-----------------------------------------------------------------------------
Public(c) ==
    \/ login(c) \/ commitLogin(c) \/ logout(c)
    \/ registerHousehold(c) \/ commitRegister(c)
    \/ acceptHouseholdInvite(c) \/ commitAccept(c)

Authenticated(c) ==
    \/ authenticate(c)
    \/ createHouseholdInvite(c) \/ promoteMemberToOwner(c)
    \/ deleteMember(c) \/ commitRemove(c) \/ deleteSession(c) \/ commitRevoke(c)
    \/ changePassword(c) \/ commitChange(c)

Administration(c) ==
    \/ adminCreateSignupCode(c) \/ adminSetHouseholdStatus(c)
    \/ adminResetPassword(c) \/ commitReset(c)

Next ==
    \/ \E c \in Clients : Public(c) \/ Authenticated(c) \/ Administration(c) \/ refuse(c)
    \/ expire

Spec == Init /\ [][Next]_vars

-----------------------------------------------------------------------------
(* Every household keeps an owner, whatever promotions and removals of its *)
(* members overlap: nothing would let anybody administer it again.         *)
HouseholdHasOwner ==
    \A h \in Households : households[h] # NULL =>
        \E u \in Users : users[u] # NULL /\ users[u].household = h /\ users[u].role = "owner"

(* A removed user is logged out everywhere and stays so: no login that was *)
(* under way leaves a session behind.                                      *)
SessionsHaveUsers ==
    \A s \in Sessions : sessions[s] # NULL => users[sessions[s]] # NULL

(* A request keeps the role it was authenticated with; as long as its user *)
(* exists, that role is never more than the user's, nor is it of another   *)
(* household.                                                              *)
ActorKeepsRights(c) ==
    LET a == req[c].actor IN
    a # NULL /\ users[a.user] # NULL =>
        /\ users[a.user].household = a.household
        /\ a.role # "member" => users[a.user].role = a.role

ActorsKeepTheirRights == \A c \in Clients : req[c] # NULL => ActorKeepsRights(c)

(* The requests that have looked invite i up and not used it yet.          *)
Redeeming(i) ==
    {c \in Clients : req[c] # NULL /\ req[c].op \in {"register", "accept"} /\ req[c].target = i}

(* Once an invite has let somebody in, nobody new can come with it: those  *)
(* it has let in and those who may still come all overlapped, so they are  *)
(* never more than the handlers that run at one time.                      *)
LateComersOverlap ==
    \A i \in Invites : admitted[i] # {} =>
        Cardinality(admitted[i]) + Cardinality(Redeeming(i)) <= Cardinality(Clients)

-----------------------------------------------------------------------------
(* The inductive invariant behind the theorems of MembershipProofs.        *)

(* An id that is in use, or that a request holds, is never handed out again.*)
IdsIssued ==
    /\ \A u \in Users : users[u] # NULL => u \in issued
    /\ \A h \in Households : households[h] # NULL => h \in issued
    /\ \A i \in Invites : invites[i] # NULL => i \in issued

(* The user who registered a household is one of its owners for good.      *)
FounderStays ==
    \A h \in Households : households[h] # NULL =>
        /\ founder[h] \in Users
        /\ users[founder[h]] # NULL
        /\ users[founder[h]].household = h /\ users[founder[h]].role = "owner"

(* Which requests write, and what the handler checked before.              *)
TargetOK(c) ==
    LET t == req[c].target IN
    req[c].pc = "write" =>
        /\ req[c].op \in {"login", "remove", "reset", "change"} => t \in Users \cap issued
        /\ req[c].op = "remove" => \A h \in Households : households[h] # NULL => t # founder[h]
        /\ req[c].op \in {"register", "accept"} =>
             /\ req[c].password # NULL
             /\ t \in Invites /\ invites[t] # NULL
        /\ req[c].op = "accept" => invites[t].household # NULL
        /\ req[c].op = "revoke" => t \in Sessions

ActorOK(c) ==
    /\ req[c].op \notin {"login", "register", "accept"} => req[c].actor # NULL
    /\ req[c].pc = "handle" => req[c].actor # NULL
    /\ req[c].actor # NULL => req[c].actor.user \in issued

RequestsOK == \A c \in Clients : req[c] # NULL => TargetOK(c) /\ ActorOK(c)

IInv ==
    /\ TypeOK /\ IdsIssued /\ FounderStays /\ RequestsOK
    /\ SessionsHaveUsers /\ ActorsKeepTheirRights

(* An invite that has let somebody in is not open again; the users it  *)
(* has let in are finitely many, and their ids were handed out.            *)
AdmissionsOK ==
    \A i \in Invites :
        /\ admitted[i] \subseteq issued /\ IsFiniteSet(admitted[i])
        /\ admitted[i] # {} => i \in issued /\ ~Usable(i)

AdmissionInv == AdmissionsOK /\ LateComersOverlap

-----------------------------------------------------------------------------
(* What the tests and the answers of the handlers promise, and the code    *)
(* does not keep.                                                          *)

(* Invites are one-time: each lets in at most one user.                    *)
InvitesAreOneTime == \A i \in Invites : Cardinality(admitted[i]) <= 1
=============================================================================
