--------------------------- MODULE MembershipProofs ---------------------------
(***************************************************************************)
(* Proofs about Membership: type correctness, that a household keeps an    *)
(* owner, that no session outlives its user, that no request acts with     *)
(* more rights than its user has, and how many users one invite lets in.   *)
(***************************************************************************)
EXTENDS Membership, FiniteSetTheorems, TLAPS

(* What every step does to the tables, as far as the requests of other     *)
(* handlers can tell: ids are used once, invites stay, a new household has *)
(* a new founder, and users who stay keep their household and their role.  *)
Kept ==
    /\ issued \subseteq issued'
    /\ \A i \in Invites : invites[i] # NULL =>
         invites'[i] # NULL /\ invites'[i].household = invites[i].household
    /\ \A h \in Households : households'[h] # NULL =>
         (households[h] # NULL /\ founder'[h] = founder[h]) \/ founder'[h] \notin issued
    /\ \A u \in Users \cap issued : users'[u] # NULL =>
         /\ users[u] # NULL
         /\ users'[u].household = users[u].household
         /\ users[u].role # "member" => users'[u].role = users[u].role

(* A request that is left alone, and waits to write or to be handled, is   *)
(* still a good one after such a step.                                     *)
LEMMA RequestKept ==
    ASSUME IInv, NEW d \in Clients, req[d] # NULL, req'[d] = req[d], Kept
    PROVE  TargetOK(d)' /\ ActorOK(d)' /\ ActorKeepsRights(d)'
<1>1. TargetOK(d) /\ ActorOK(d) /\ ActorKeepsRights(d) /\ req[d] \in Request
  BY MembershipAssumption DEF IInv, RequestsOK, ActorsKeepTheirRights, TypeOK
<1>2. TargetOK(d)'
  BY <1>1 DEF TargetOK, Kept
<1>3. ActorOK(d)'
  BY <1>1 DEF ActorOK, Kept
<1>4. ActorKeepsRights(d)'
  <2>1. req[d].actor # NULL => req[d].actor.user \in Users \cap issued
    BY <1>1 DEF ActorOK, Request, Actor
  <2> QED BY <1>1, <2>1 DEF ActorKeepsRights, Kept
<1> QED BY <1>2, <1>3, <1>4

LEMMA RequestsKept ==
    ASSUME IInv, NEW c \in Clients, NEW r \in Request \cup {NULL}, Serve(c, r), Kept,
           r # NULL => TargetOK(c)' /\ ActorOK(c)' /\ ActorKeepsRights(c)'
    PROVE  /\ RequestsOK' /\ ActorsKeepTheirRights'
           /\ req' \in [Clients -> Request \cup {NULL}]
<1>1. req' \in [Clients -> Request \cup {NULL}] /\ req'[c] = r
          /\ \A d \in Clients \ {c} : req'[d] = req[d]
  BY DEF IInv, TypeOK, Serve
<1>2. ASSUME NEW d \in Clients, req'[d] # NULL
      PROVE  TargetOK(d)' /\ ActorOK(d)' /\ ActorKeepsRights(d)'
  <2>1. CASE d = c
    BY <1>1, <1>2, <2>1
  <2>2. CASE d # c
    BY <1>1, <1>2, <2>2, RequestKept
  <2> QED BY <2>1, <2>2
<1> QED BY <1>1, <1>2 DEF RequestsOK, ActorsKeepTheirRights

(* A step that leaves the tables alone.                                    *)
LEMMA TablesKept ==
    ASSUME IInv, UNCHANGED tables, req' \in [Clients -> Request \cup {NULL}],
           RequestsOK', ActorsKeepTheirRights'
    PROVE  IInv'
<1>1. TypeOK'
  BY DEF IInv, TypeOK, tables
<1>2. IdsIssued' /\ FounderStays' /\ SessionsHaveUsers'
  BY DEF IInv, IdsIssued, FounderStays, SessionsHaveUsers, tables
<1> QED BY <1>1, <1>2 DEF IInv

LEMMA UnchangedKept ==
    ASSUME UNCHANGED tables, IInv
    PROVE  Kept
  BY DEF Kept, tables

LEMMA ServeStep ==
    ASSUME IInv, NEW c \in Clients, NEW r \in Request \cup {NULL}, Serve(c, r),
           UNCHANGED tables,
           r # NULL => TargetOK(c)' /\ ActorOK(c)' /\ ActorKeepsRights(c)'
    PROVE  IInv'
  BY RequestsKept, TablesKept, UnchangedKept

(* A step that changes the tables and answers the request.                 *)
LEMMA AnswerStep ==
    ASSUME IInv, NEW c \in Clients, Answer(c), Kept
    PROVE  RequestsOK' /\ ActorsKeepTheirRights' /\ req' \in [Clients -> Request \cup {NULL}]
<1>1. Serve(c, NULL)
  BY DEF Answer, Serve
<1> QED BY <1>1, RequestsKept

-----------------------------------------------------------------------------
(* Steps that only start or advance a handler.                             *)

LEMMA BeginStep ==
    ASSUME IInv, NEW c \in Clients, NEW op \in {"login", "register", "accept"},
           NEW t \in Users \cup Invites, NEW p \in Passwords, Begin(c, op, t, p),
           op = "login" => t \in Users /\ users[t] # NULL,
           op # "login" => t \in Invites /\ invites[t] # NULL,
           op = "accept" => invites[t].household # NULL
    PROVE  IInv'
<1> DEFINE r == [op |-> op, pc |-> "write", actor |-> NULL, target |-> t, password |-> p]
<1>1. r \in Request /\ Serve(c, r) /\ UNCHANGED tables /\ req'[c] = r
  BY DEF Begin, Request, Requests, Serve, IInv, TypeOK
<1>2. TargetOK(c)'
  BY <1>1, MembershipAssumption DEF TargetOK, tables, IInv, IdsIssued
<1>3. ActorOK(c)' /\ ActorKeepsRights(c)'
  BY <1>1 DEF ActorOK, ActorKeepsRights
<1> HIDE DEF r
<1> QED BY <1>1, <1>2, <1>3, ServeStep

LEMMA StartSteps ==
    ASSUME IInv, NEW c \in Clients,
           login(c) \/ registerHousehold(c) \/ acceptHouseholdInvite(c)
    PROVE  IInv'
<1>1. CASE login(c)
  <2>1. PICK u \in Users : users[u] # NULL /\ Begin(c, "login", u, users[u].password)
    BY <1>1 DEF login
  <2>2. users[u].password \in Passwords
    BY <2>1 DEF IInv, TypeOK, User, UserRow
  <2> QED BY <2>1, <2>2, BeginStep
<1>2. CASE registerHousehold(c)
  BY <1>2, BeginStep DEF registerHousehold, Usable
<1>3. CASE acceptHouseholdInvite(c)
  BY <1>3, BeginStep DEF acceptHouseholdInvite, Usable
<1> QED BY <1>1, <1>2, <1>3

LEMMA AuthenticateStep ==
    ASSUME IInv, NEW c \in Clients, authenticate(c)
    PROVE  IInv'
<1>1. PICK s \in Sessions, op \in Ops :
        /\ sessions[s] # NULL
        /\ Admissible(op, actorOf(sessions[s]))
        /\ Serve(c, [op |-> op, pc |-> "handle", actor |-> actorOf(sessions[s]),
                     target |-> NULL, password |-> NULL])
  BY DEF authenticate
<1> DEFINE u == sessions[s]
           r == [op |-> op, pc |-> "handle", actor |-> actorOf(u),
                 target |-> NULL, password |-> NULL]
<1>2. u \in Users \cap issued /\ users[u] # NULL /\ users[u] \in User
  BY <1>1 DEF IInv, TypeOK, IdsIssued, SessionsHaveUsers
<1>3. /\ actorOf(u) \in Actor /\ actorOf(u) # NULL /\ actorOf(u).user = u
      /\ actorOf(u).household = users[u].household /\ actorOf(u).role = users[u].role
  BY <1>2, MembershipAssumption DEF actorOf, Actor, User, UserRow
<1>4. r \in Request /\ Serve(c, r) /\ UNCHANGED tables /\ req'[c] = r
  BY <1>1, <1>3, MembershipAssumption DEF Request, Serve, IInv, TypeOK, authenticate
<1> HIDE DEF r
<1>5. req'[c].pc = "handle" /\ req'[c].actor = actorOf(u)
  BY <1>4 DEF r
<1>6. TargetOK(c)'
  BY <1>5 DEF TargetOK
<1>7. ActorOK(c)' /\ ActorKeepsRights(c)'
  BY <1>2, <1>3, <1>4, <1>5 DEF ActorOK, ActorKeepsRights, tables
<1> QED BY <1>4, <1>6, <1>7, ServeStep

(* A handler that has checked its target goes on to write.                 *)
LEMMA GoOnRequest ==
    ASSUME IInv, NEW c \in Clients, req[c] # NULL,
           NEW t \in Users \cup Sessions, NEW p \in Passwords \cup {NULL}, GoOn(c, t, p)
    PROVE  \E r \in Request :
             /\ Serve(c, r) /\ req'[c] = r
             /\ r.op = req[c].op /\ r.actor = req[c].actor /\ r.pc = "write" /\ r.target = t
<1> DEFINE r == [req[c] EXCEPT !.pc = "write", !.target = t, !.password = p]
<1>1. req[c] \in Request
  BY DEF IInv, TypeOK
<1>2. r \in Request /\ Serve(c, r) /\ req'[c] = r
  BY <1>1 DEF GoOn, Request, Serve, IInv, TypeOK
<1>3. r.op = req[c].op /\ r.actor = req[c].actor /\ r.pc = "write" /\ r.target = t
  BY <1>1 DEF Request
<1> QED BY <1>2, <1>3

LEMMA CheckSteps ==
    ASSUME IInv, NEW c \in Clients,
           deleteMember(c) \/ deleteSession(c) \/ changePassword(c)
    PROVE  IInv'
<1>1. /\ req[c] # NULL /\ req[c] \in Request /\ req[c].op \in {"remove", "revoke", "change"}
      /\ req[c].pc = "handle" /\ UNCHANGED tables
  BY DEF deleteMember, deleteSession, changePassword, At, Idle, IInv, TypeOK
<1>2. ActorOK(c) /\ ActorKeepsRights(c) /\ req[c].actor # NULL
  BY <1>1 DEF IInv, RequestsOK, ActorsKeepTheirRights, ActorOK
<1>3. \E t \in Users \cup Sessions, p \in Passwords \cup {NULL} :
        /\ GoOn(c, t, p)
        /\ req[c].op \in {"remove", "change"} => t \in Users /\ users[t] # NULL
        /\ req[c].op = "remove" => users[t].role # "owner"
        /\ req[c].op = "revoke" => t \in Sessions
  <2>1. CASE deleteMember(c)
    BY <2>1 DEF deleteMember, At, InHousehold
  <2>2. CASE deleteSession(c)
    BY <2>2 DEF deleteSession, At
  <2>3. CASE changePassword(c)
    <3>1. req[c].actor.user \in Users /\ users[req[c].actor.user] \in User
      BY <1>1, <1>2, <2>3, MembershipAssumption DEF Request, Actor, changePassword, IInv, TypeOK
    <3> QED BY <2>3, <3>1 DEF changePassword, At, User, UserRow
  <2> QED BY <2>1, <2>2, <2>3
<1>4. PICK t \in Users \cup Sessions, p \in Passwords \cup {NULL} :
        /\ GoOn(c, t, p)
        /\ req[c].op \in {"remove", "change"} => t \in Users /\ users[t] # NULL
        /\ req[c].op = "remove" => users[t].role # "owner"
        /\ req[c].op = "revoke" => t \in Sessions
  BY <1>3
<1>5. PICK r \in Request :
        /\ Serve(c, r) /\ req'[c] = r
        /\ r.op = req[c].op /\ r.actor = req[c].actor /\ r.pc = "write" /\ r.target = t
  BY <1>1, <1>4, GoOnRequest
<1>6. TargetOK(c)'
  BY <1>1, <1>4, <1>5 DEF TargetOK, IInv, IdsIssued, FounderStays, tables
<1>7. ActorOK(c)' /\ ActorKeepsRights(c)'
  BY <1>1, <1>2, <1>5 DEF ActorOK, ActorKeepsRights, tables
<1> QED BY <1>1, <1>5, <1>6, <1>7, ServeStep

LEMMA RefuseStep ==
    ASSUME IInv, NEW c \in Clients, refuse(c)
    PROVE  IInv'
<1>1. Serve(c, NULL) /\ UNCHANGED tables
  BY DEF refuse, Answer, Serve
<1> QED BY <1>1, ServeStep

-----------------------------------------------------------------------------
(* Steps that change the tables.                                           *)

LEMMA SessionSteps ==
    ASSUME IInv, NEW c \in Clients, commitLogin(c) \/ logout(c) \/ commitRevoke(c)
    PROVE  IInv'
<1> USE MembershipAssumption
<1>1. UNCHANGED <<households, users, invites, founder, admitted>> /\ issued \subseteq issued'
  BY DEF commitLogin, logout, commitRevoke
<1>2. /\ sessions' \in [Sessions -> Users \cup {NULL}] /\ SessionsHaveUsers'
      /\ issued' \subseteq Users \cup Households \cup Invites \cup Sessions
  <2>1. CASE commitLogin(c)
    <3>1. req[c].target \in Users /\ users[req[c].target] # NULL
      BY <2>1 DEF commitLogin, At, Idle, IInv, RequestsOK, TargetOK
    <3>2. PICK s \in Sessions : NewSession(s, req[c].target) /\ issued' = issued \cup {s}
      BY <2>1 DEF commitLogin
    <3> QED BY <1>1, <3>1, <3>2 DEF NewSession, IInv, TypeOK, SessionsHaveUsers
  <2>2. CASE logout(c)
    BY <1>1, <2>2 DEF logout, IInv, TypeOK, SessionsHaveUsers
  <2>3. CASE commitRevoke(c)
    BY <1>1, <2>3 DEF commitRevoke, IInv, TypeOK, SessionsHaveUsers
  <2> QED BY <2>1, <2>2, <2>3
<1>3. Kept
  BY <1>1 DEF Kept
<1>4. RequestsOK' /\ ActorsKeepTheirRights' /\ req' \in [Clients -> Request \cup {NULL}]
  <2>1. CASE logout(c)
    <3>1. Serve(c, NULL)
      BY <2>1 DEF logout, Serve, Idle, IInv, TypeOK
    <3> QED BY <1>3, <3>1, RequestsKept
  <2>2. CASE ~logout(c)
    BY <1>3, <2>2, AnswerStep DEF commitLogin, commitRevoke
  <2> QED BY <2>1, <2>2
<1>5. IdsIssued' /\ FounderStays'
  BY <1>1 DEF IInv, IdsIssued, FounderStays
<1>6. TypeOK'
  BY <1>1, <1>2, <1>4 DEF IInv, TypeOK
<1> QED BY <1>2, <1>4, <1>5, <1>6 DEF IInv

(* The new row of users, and the invite that is used up.                   *)
LEMMA Admitted ==
    ASSUME IInv, NEW c \in Clients, NEW i \in Invites, NEW u \in Users, NEW h \in Households,
           NEW role \in {"owner", "member"}, req[c].target = i, invites[i] # NULL,
           req[c].password \in Passwords, Admit(c, u, h, role)
    PROVE  /\ users' \in [Users -> User \cup {NULL}] /\ u \notin issued
           /\ users'[u] # NULL /\ users'[u].household = h /\ users'[u].role = role
           /\ \A v \in Users \ {u} : users'[v] = users[v]
           /\ invites' \in [Invites -> Invite \cup {NULL}]
           /\ \A j \in Invites : invites'[j] # NULL <=> invites[j] # NULL
           /\ \A j \in Invites : invites[j] # NULL => invites'[j].household = invites[j].household
           /\ admitted' \in [Invites -> SUBSET Users]
<1> USE MembershipAssumption
<1> DEFINE row == [household |-> h, role |-> role, password |-> req[c].password,
                   must_change_password |-> 0]
           used == [invites[i] EXCEPT !.state = "used"]
<1>1. row \in User /\ row # NULL /\ row.household = h /\ row.role = role
  BY DEF User, UserRow
<1>2. users' = [users EXCEPT ![u] = row] /\ u \notin issued
  BY DEF Admit
<1>3. invites[i] \in Invite /\ used \in Invite /\ used # NULL /\ used.household = invites[i].household
  BY DEF IInv, TypeOK, Invite
<1>4. invites' = [invites EXCEPT ![i] = used]
  BY DEF Admit
<1>5. admitted' \in [Invites -> SUBSET Users]
  BY DEF Admit, IInv, TypeOK
<1> HIDE DEF row, used
<1>6. /\ users' \in [Users -> User \cup {NULL}] /\ users'[u] = row
      /\ \A v \in Users \ {u} : users'[v] = users[v]
  BY <1>1, <1>2 DEF IInv, TypeOK
<1>7. /\ invites' \in [Invites -> Invite \cup {NULL}] /\ invites'[i] = used
      /\ \A j \in Invites \ {i} : invites'[j] = invites[j]
  BY <1>3, <1>4 DEF IInv, TypeOK
<1> QED BY <1>1, <1>2, <1>3, <1>5, <1>6, <1>7

LEMMA AdmissionSteps ==
    ASSUME IInv, NEW c \in Clients, commitRegister(c) \/ commitAccept(c)
    PROVE  IInv'
<1> USE MembershipAssumption
<1> DEFINE i == req[c].target
<1>1. /\ Answer(c) /\ req[c] \in Request /\ i \in Invites /\ invites[i] # NULL
      /\ req[c].password \in Passwords
      /\ commitAccept(c) => invites[i].household \in Households
  <2>1. /\ req[c] # NULL /\ req[c].pc = "write" /\ req[c].op \in {"register", "accept"}
        /\ Answer(c) /\ req[c] \in Request
        /\ commitAccept(c) => req[c].op = "accept"
    BY DEF commitRegister, commitAccept, At, Idle, IInv, TypeOK
  <2>2. TargetOK(c)
    BY <2>1 DEF IInv, RequestsOK
  <2> QED BY <2>1, <2>2 DEF TargetOK, Request, Invite, IInv, TypeOK
<1>2. PICK u \in Users, s \in Sessions, h \in Households :
        /\ Admit(c, u, h, "owner") \/ Admit(c, u, h, "member")
        /\ NewSession(s, u)
        /\ {u, s} \subseteq issued' /\ issued \subseteq issued'
        /\ issued' \subseteq issued \cup {u, s, h}
        /\ \/ UNCHANGED <<households, founder>>
           \/ /\ Admit(c, u, h, "owner") /\ h \notin issued /\ h \in issued'
              /\ households' = [households EXCEPT ![h] = "active"]
              /\ founder' = [founder EXCEPT ![h] = u]
  BY <1>1 DEF commitRegister, commitAccept
<1>3. PICK role \in {"owner", "member"} : Admit(c, u, h, role)
  BY <1>2
<1>4. /\ users' \in [Users -> User \cup {NULL}] /\ u \notin issued
      /\ users'[u] # NULL
      /\ \A v \in Users \ {u} : users'[v] = users[v]
      /\ invites' \in [Invites -> Invite \cup {NULL}]
      /\ \A j \in Invites : invites'[j] # NULL <=> invites[j] # NULL
      /\ \A j \in Invites : invites[j] # NULL => invites'[j].household = invites[j].household
      /\ admitted' \in [Invites -> SUBSET Users]
  BY <1>1, <1>3, Admitted
<1>5. Admit(c, u, h, "owner") => users'[u].household = h /\ users'[u].role = "owner"
  BY <1>1, Admitted
<1>6. /\ households' \in [Households -> {"active", "suspended", NULL}]
      /\ founder' \in [Households -> Users \cup {NULL}]
      /\ sessions' \in [Sessions -> Users \cup {NULL}]
      /\ issued' \subseteq Users \cup Households \cup Invites \cup Sessions
  BY <1>2 DEF IInv, TypeOK, NewSession
<1>7. /\ \A g \in Households : households'[g] # NULL =>
           \/ households[g] # NULL /\ founder'[g] = founder[g]
           \/ /\ g = h /\ h \in issued' /\ founder'[g] = u
              /\ users'[u].household = h /\ users'[u].role = "owner"
  <2>1. CASE UNCHANGED <<households, founder>>
    BY <2>1
  <2>2. CASE /\ Admit(c, u, h, "owner") /\ h \notin issued /\ h \in issued'
             /\ households' = [households EXCEPT ![h] = "active"]
             /\ founder' = [founder EXCEPT ![h] = u]
    BY <1>5, <2>2 DEF IInv, TypeOK
  <2> QED BY <1>2, <2>1, <2>2
<1>8. Kept
  BY <1>2, <1>4, <1>7 DEF Kept
<1>9. RequestsOK' /\ ActorsKeepTheirRights' /\ req' \in [Clients -> Request \cup {NULL}]
  BY <1>1, <1>8, AnswerStep
<1>10. IdsIssued'
  BY <1>2, <1>4, <1>7 DEF IInv, IdsIssued
<1>11. FounderStays'
  BY <1>4, <1>7 DEF IInv, FounderStays, IdsIssued
<1>12. SessionsHaveUsers'
  BY <1>2, <1>4 DEF IInv, SessionsHaveUsers, NewSession, TypeOK
<1>13. TypeOK'
  BY <1>4, <1>6, <1>9 DEF TypeOK
<1> QED BY <1>9, <1>10, <1>11, <1>12, <1>13 DEF IInv

(* A step that only rewrites the row of one user, who keeps the household, *)
(* and keeps the role unless it was that of a member.                      *)
LEMMA RowKept ==
    ASSUME IInv, NEW u \in Users, NEW row \in User, users[u] # NULL,
           users' = [users EXCEPT ![u] = row],
           row.household = users[u].household,
           users[u].role # "member" => row.role = users[u].role,
           UNCHANGED <<households, invites, sessions, issued, founder, admitted>>
    PROVE  /\ Kept /\ IdsIssued' /\ FounderStays' /\ SessionsHaveUsers'
           /\ users' \in [Users -> User \cup {NULL}]
<1>1. /\ users' \in [Users -> User \cup {NULL}] /\ users'[u] = row /\ row # NULL
      /\ \A v \in Users \ {u} : users'[v] = users[v]
  BY MembershipAssumption DEF IInv, TypeOK
<1>2. Kept
  BY <1>1 DEF Kept
<1>3. IdsIssued' /\ SessionsHaveUsers'
  BY <1>1 DEF IInv, IdsIssued, SessionsHaveUsers, TypeOK
<1>4. FounderStays'
  BY <1>1 DEF IInv, FounderStays
<1> QED BY <1>1, <1>2, <1>3, <1>4

LEMMA RowAnswered ==
    ASSUME IInv, NEW c \in Clients, Answer(c), NEW u \in Users, NEW row \in User,
           users[u] # NULL,
           users' = [users EXCEPT ![u] = row],
           row.household = users[u].household,
           users[u].role # "member" => row.role = users[u].role,
           UNCHANGED <<households, invites, sessions, issued, founder, admitted>>
    PROVE  IInv'
<1>1. /\ Kept /\ IdsIssued' /\ FounderStays' /\ SessionsHaveUsers'
      /\ users' \in [Users -> User \cup {NULL}]
  BY RowKept
<1>2. RequestsOK' /\ ActorsKeepTheirRights' /\ req' \in [Clients -> Request \cup {NULL}]
  BY <1>1, AnswerStep
<1>3. TypeOK'
  BY <1>1, <1>2 DEF IInv, TypeOK
<1> QED BY <1>1, <1>2, <1>3 DEF IInv

(* Rows with another role, and with another password.                      *)
LEMMA NewRole ==
    ASSUME NEW r \in UserRow, r \in User, r.role \in {"member", "owner"}
    PROVE  /\ WithRole(r, "owner") \in User /\ WithRole(r, "owner").household = r.household
           /\ WithRole(r, "owner").role = "owner"
  BY DEF User, UserRow, WithRole

LEMMA NewPassword ==
    ASSUME NEW r \in UserRow, r \in User, NEW p \in Passwords, NEW m \in {0, 1}
    PROVE  /\ WithPassword(r, p, m) \in User
           /\ WithPassword(r, p, m).household = r.household
           /\ WithPassword(r, p, m).role = r.role
<1>1. WithPassword(r, p, m) \in UserRow
  BY DEF UserRow, WithPassword
<1>2. /\ WithPassword(r, p, m).household = r.household
      /\ WithPassword(r, p, m).role = r.role
  BY DEF UserRow, WithPassword
<1> QED BY <1>1, <1>2 DEF User

LEMMA PromoteStep ==
    ASSUME IInv, NEW c \in Clients, promoteMemberToOwner(c)
    PROVE  IInv'
<1>1. PICK u \in Users :
        /\ users[u] # NULL /\ users[u].role \in {"member", "owner"}
        /\ users' = [users EXCEPT ![u] = WithRole(users[u], "owner")]
  BY DEF promoteMemberToOwner, InHousehold
<1> DEFINE row == WithRole(users[u], "owner")
<1>2. users[u] \in User /\ users[u] \in UserRow
  BY <1>1 DEF IInv, TypeOK, User
<1>3. /\ row \in User /\ row.household = users[u].household /\ row.role = "owner"
  BY <1>1, <1>2, NewRole
<1>4. users' = [users EXCEPT ![u] = row]
  BY <1>1
<1>5. /\ Answer(c)
      /\ users[u].role # "member" => row.role = users[u].role
      /\ UNCHANGED <<households, invites, sessions, issued, founder, admitted>>
  BY <1>1, <1>3 DEF promoteMemberToOwner
<1> HIDE DEF row
<1> QED BY <1>1, <1>3, <1>4, <1>5, RowAnswered


LEMMA ChangeStep ==
    ASSUME IInv, NEW c \in Clients, commitChange(c)
    PROVE  IInv'
<1> DEFINE u == req[c].target
<1>1. /\ u \in Users /\ users[u] # NULL /\ Answer(c)
      /\ users[u] \in User /\ users[u] \in UserRow
  BY DEF commitChange, At, Idle, IInv, RequestsOK, TargetOK, TypeOK, User
<1>2. PICK p \in Passwords :
        users' = [users EXCEPT ![u] = WithPassword(users[u], p, 0)]
  BY DEF commitChange
<1> DEFINE row == WithPassword(users[u], p, 0)
<1>3. users' = [users EXCEPT ![u] = row]
  BY <1>1, <1>2
<1>4. row \in User /\ row.household = users[u].household /\ row.role = users[u].role
  BY <1>1, NewPassword
<1> HIDE DEF u, row
<1>5. UNCHANGED <<households, invites, sessions, issued, founder, admitted>>
  BY DEF commitChange
<1> QED BY <1>1, <1>3, <1>4, <1>5, RowAnswered

LEMMA ResetStep ==
    ASSUME IInv, NEW c \in Clients, adminResetPassword(c)
    PROVE  IInv'
<1>1. PICK u \in Users, p \in Passwords :
        /\ users[u] # NULL
        /\ users' = [users EXCEPT ![u] = WithPassword(users[u], p, 1)]
        /\ GoOn(c, u, NULL)
  BY DEF adminResetPassword
<1> DEFINE row == WithPassword(users[u], p, 1)
<1>2. users[u] \in User /\ users[u] \in UserRow
  BY <1>1 DEF IInv, TypeOK, User
<1>3. users' = [users EXCEPT ![u] = row]
  BY <1>1, <1>2
<1>4. row \in User /\ row.household = users[u].household /\ row.role = users[u].role
  BY <1>2, NewPassword
<1> HIDE DEF row
<1>5. /\ UNCHANGED <<households, invites, sessions, issued, founder, admitted>>
      /\ req[c] # NULL /\ req[c].op = "reset" /\ req[c].pc = "handle"
  BY DEF adminResetPassword, At, Idle
<1>6. /\ Kept /\ IdsIssued' /\ FounderStays' /\ SessionsHaveUsers'
      /\ users' \in [Users -> User \cup {NULL}]
  BY <1>1, <1>3, <1>4, <1>5, RowKept
<1>7. PICK r \in Request :
        /\ Serve(c, r) /\ req'[c] = r
        /\ r.op = "reset" /\ r.actor = req[c].actor /\ r.pc = "write" /\ r.target = u
  BY <1>1, <1>5, GoOnRequest
<1>8. ActorOK(c) /\ ActorKeepsRights(c) /\ req[c].actor # NULL /\ req[c] \in Request
  BY <1>5, MembershipAssumption DEF IInv, RequestsOK, ActorsKeepTheirRights, ActorOK, TypeOK
<1>9. TargetOK(c)'
  BY <1>1, <1>5, <1>7 DEF TargetOK, IInv, IdsIssued
<1>10. ActorOK(c)'
  BY <1>5, <1>7, <1>8 DEF ActorOK
<1>11. ActorKeepsRights(c)'
  <2>1. req[c].actor.user \in Users \cap issued
    BY <1>8 DEF ActorOK, Request, Actor
  <2> QED BY <1>6, <1>7, <1>8, <2>1 DEF ActorKeepsRights, Kept
<1>12. RequestsOK' /\ ActorsKeepTheirRights' /\ req' \in [Clients -> Request \cup {NULL}]
  BY <1>6, <1>7, <1>9, <1>10, <1>11, RequestsKept
<1>13. TypeOK'
  BY <1>5, <1>6, <1>12 DEF IInv, TypeOK
<1> QED BY <1>6, <1>12, <1>13 DEF IInv

(* A step that leaves users and sessions alone.                            *)
LEMMA UsersKept ==
    ASSUME IInv, Kept, UNCHANGED <<users, sessions, founder, admitted>>,
           households' \in [Households -> {"active", "suspended", NULL}],
           \A h \in Households : households'[h] # NULL => households[h] # NULL,
           invites' \in [Invites -> Invite \cup {NULL}],
           \A i \in Invites : invites'[i] # NULL => i \in issued',
           issued' \subseteq Users \cup Households \cup Invites \cup Sessions,
           RequestsOK', ActorsKeepTheirRights', req' \in [Clients -> Request \cup {NULL}]
    PROVE  IInv'
<1>1. TypeOK'
  BY DEF IInv, TypeOK
<1>2. IdsIssued'
  BY DEF IInv, IdsIssued, Kept
<1>3. FounderStays' /\ SessionsHaveUsers'
  BY DEF IInv, FounderStays, SessionsHaveUsers
<1> QED BY <1>1, <1>2, <1>3 DEF IInv

LEMMA InviteSteps ==
    ASSUME IInv, NEW c \in Clients, createHouseholdInvite(c) \/ adminCreateSignupCode(c)
    PROVE  IInv'
<1>1. PICK h \in Households \cup {NULL} : NewInvite(c, h) /\ req[c].actor.user \in Users
  <2>1. req[c] # NULL /\ req[c].pc = "handle" /\ req[c] \in Request
    BY DEF createHouseholdInvite, adminCreateSignupCode, At, Idle, IInv, TypeOK
  <2>2. req[c].actor \in Actor
    BY <2>1 DEF IInv, RequestsOK, ActorOK, Request
  <2> QED BY <2>2 DEF createHouseholdInvite, adminCreateSignupCode, Actor
<1>2. PICK i \in Invites \ issued :
        /\ invites' = [invites EXCEPT ![i] = [household |-> h, created_by |-> req[c].actor.user,
                                              state |-> "open"]]
        /\ issued' = issued \cup {i}
  BY <1>1 DEF NewInvite
<1>3. [household |-> h, created_by |-> req[c].actor.user, state |-> "open"] \in Invite
  BY <1>1 DEF Invite
<1>4. /\ invites' \in [Invites -> Invite \cup {NULL}]
      /\ \A j \in Invites \ {i} : invites'[j] = invites[j]
      /\ invites[i] = NULL
  BY <1>2, <1>3 DEF IInv, TypeOK, IdsIssued
<1>5. Answer(c) /\ UNCHANGED <<households, users, sessions, founder, admitted>>
  BY <1>1 DEF NewInvite
<1>6. Kept
  BY <1>2, <1>4, <1>5 DEF Kept
<1>7. RequestsOK' /\ ActorsKeepTheirRights' /\ req' \in [Clients -> Request \cup {NULL}]
  BY <1>5, <1>6, AnswerStep
<1>8. /\ \A j \in Invites : invites'[j] # NULL => j \in issued'
      /\ issued' \subseteq Users \cup Households \cup Invites \cup Sessions
      /\ households' \in [Households -> {"active", "suspended", NULL}]
      /\ \A g \in Households : households'[g] # NULL => households[g] # NULL
  BY <1>2, <1>4, <1>5 DEF IInv, IdsIssued, TypeOK
<1> QED BY <1>4, <1>5, <1>6, <1>7, <1>8, UsersKept

LEMMA StatusStep ==
    ASSUME IInv, NEW c \in Clients, adminSetHouseholdStatus(c)
    PROVE  IInv'
<1>1. /\ households' \in [Households -> {"active", "suspended", NULL}]
      /\ \A h \in Households : households'[h] # NULL => households[h] # NULL
      /\ Answer(c) /\ UNCHANGED <<users, invites, sessions, issued, founder, admitted>>
  BY DEF adminSetHouseholdStatus, IInv, TypeOK
<1>2. Kept
  BY <1>1 DEF Kept
<1>3. RequestsOK' /\ ActorsKeepTheirRights' /\ req' \in [Clients -> Request \cup {NULL}]
  BY <1>1, <1>2, AnswerStep
<1>4. /\ \A j \in Invites : invites'[j] # NULL => j \in issued'
      /\ issued' \subseteq Users \cup Households \cup Invites \cup Sessions
      /\ invites' \in [Invites -> Invite \cup {NULL}]
  BY <1>1 DEF IInv, IdsIssued, TypeOK
<1> QED BY <1>1, <1>2, <1>3, <1>4, UsersKept

LEMMA ExpireStep ==
    ASSUME IInv, expire
    PROVE  IInv'
<1>1. PICK i \in Invites : invites[i] # NULL /\ invites' = [invites EXCEPT ![i].state = "expired"]
  BY DEF expire, Usable
<1> DEFINE row == [invites[i] EXCEPT !.state = "expired"]
<1>2. invites[i] \in Invite /\ row \in Invite /\ row.household = invites[i].household
  BY <1>1 DEF IInv, TypeOK, Invite
<1>3. invites' = [invites EXCEPT ![i] = row]
  BY <1>1
<1> HIDE DEF row
<1>4. /\ invites' \in [Invites -> Invite \cup {NULL}] /\ invites'[i] = row
      /\ \A j \in Invites \ {i} : invites'[j] = invites[j]
  BY <1>2, <1>3 DEF IInv, TypeOK
<1>5. UNCHANGED <<households, users, sessions, issued, req, founder, admitted>>
  BY DEF expire
<1>6. Kept
  BY <1>2, <1>4, <1>5, MembershipAssumption DEF Kept
<1>7. RequestsOK' /\ ActorsKeepTheirRights' /\ req' \in [Clients -> Request \cup {NULL}]
  <2>1. \A c \in Clients : req[c] # NULL => TargetOK(c)' /\ ActorOK(c)' /\ ActorKeepsRights(c)'
    BY <1>5, <1>6, RequestKept
  <2> QED BY <1>5, <2>1 DEF RequestsOK, ActorsKeepTheirRights, IInv, TypeOK
<1>8. /\ \A j \in Invites : invites'[j] # NULL => j \in issued'
      /\ issued' \subseteq Users \cup Households \cup Invites \cup Sessions
      /\ households' \in [Households -> {"active", "suspended", NULL}]
      /\ \A g \in Households : households'[g] # NULL => households[g] # NULL
  BY <1>1, <1>4, <1>5 DEF IInv, IdsIssued, TypeOK
<1> QED BY <1>4, <1>5, <1>6, <1>7, <1>8, UsersKept

(* The one step that takes a user away: never a founder.                   *)
LEMMA RemoveStep ==
    ASSUME IInv, NEW c \in Clients, commitRemove(c)
    PROVE  IInv'
<1> DEFINE u == req[c].target
<1>1. /\ u \in Users /\ \A h \in Households : households[h] # NULL => u # founder[h]
  BY DEF commitRemove, At, Idle, IInv, RequestsOK, TargetOK
<1>2. /\ users' = [users EXCEPT ![u] = NULL] /\ DropSessions(u) /\ Answer(c)
      /\ UNCHANGED <<households, invites, issued, founder, admitted>>
  BY DEF commitRemove
<1> HIDE DEF u
<1>3. /\ users' \in [Users -> User \cup {NULL}] /\ users'[u] = NULL
      /\ \A v \in Users \ {u} : users'[v] = users[v]
  BY <1>1, <1>2 DEF IInv, TypeOK
<1>4. Kept
  BY <1>2, <1>3 DEF Kept
<1>5. RequestsOK' /\ ActorsKeepTheirRights' /\ req' \in [Clients -> Request \cup {NULL}]
  BY <1>2, <1>4, AnswerStep
<1>6. IdsIssued'
  BY <1>2, <1>3 DEF IInv, IdsIssued
<1>7. FounderStays'
  BY <1>1, <1>2, <1>3 DEF IInv, FounderStays
<1>8. SessionsHaveUsers' /\ sessions' \in [Sessions -> Users \cup {NULL}]
  BY <1>2, <1>3 DEF IInv, SessionsHaveUsers, DropSessions, TypeOK
<1>9. TypeOK'
  BY <1>2, <1>3, <1>5, <1>8 DEF IInv, TypeOK
<1> QED BY <1>5, <1>6, <1>7, <1>8, <1>9 DEF IInv

LEMMA LogoutStep ==
    ASSUME IInv, NEW c \in Clients, commitReset(c)
    PROVE  IInv'
<1>1. /\ DropSessions(req[c].target) /\ Answer(c)
      /\ UNCHANGED <<households, users, invites, issued, founder, admitted>>
  BY DEF commitReset
<1>2. Kept
  BY <1>1 DEF Kept
<1>3. RequestsOK' /\ ActorsKeepTheirRights' /\ req' \in [Clients -> Request \cup {NULL}]
  BY <1>1, <1>2, AnswerStep
<1>4. SessionsHaveUsers' /\ sessions' \in [Sessions -> Users \cup {NULL}]
  BY <1>1 DEF IInv, SessionsHaveUsers, DropSessions, TypeOK
<1>5. IdsIssued' /\ FounderStays'
  BY <1>1 DEF IInv, IdsIssued, FounderStays
<1>6. TypeOK'
  BY <1>1, <1>3, <1>4 DEF IInv, TypeOK
<1> QED BY <1>3, <1>4, <1>5, <1>6 DEF IInv

-----------------------------------------------------------------------------
LEMMA InitInvariant == Init => IInv
<1> SUFFICES ASSUME Init PROVE IInv
  OBVIOUS
<1> USE MembershipAssumption
<1>1. PICK p \in Passwords :
         users = [u \in Users |->
                    IF u = Admin THEN [household |-> NULL, role |-> "platform_admin",
                                       password |-> p, must_change_password |-> 0]
                    ELSE NULL]
  BY DEF Init
<1> DEFINE row == [household |-> NULL, role |-> "platform_admin",
                   password |-> p, must_change_password |-> 0]
<1>2. row \in UserRow /\ row.household = NULL /\ row.role = "platform_admin"
  BY DEF UserRow
<1>3. row \in User
  BY <1>2 DEF User
<1>4. users = [u \in Users |-> IF u = Admin THEN row ELSE NULL]
  BY <1>1
<1> HIDE DEF row
<1>5. TypeOK
  BY <1>3, <1>4 DEF Init, TypeOK
<1>6. IdsIssued /\ FounderStays /\ SessionsHaveUsers
  BY <1>4 DEF Init, IdsIssued, FounderStays, SessionsHaveUsers
<1>7. RequestsOK /\ ActorsKeepTheirRights
  BY DEF Init, RequestsOK, ActorsKeepTheirRights
<1> QED BY <1>5, <1>6, <1>7 DEF IInv

LEMMA NextInvariant == IInv /\ [Next]_vars => IInv'
<1> SUFFICES ASSUME IInv, [Next]_vars PROVE IInv'
  OBVIOUS
<1>1. CASE UNCHANGED vars
  BY <1>1 DEF vars, IInv, TypeOK, IdsIssued, FounderStays, RequestsOK, TargetOK, ActorOK,
              SessionsHaveUsers, ActorsKeepTheirRights, ActorKeepsRights
<1>2. CASE expire
  BY <1>2, ExpireStep
<1>3. ASSUME NEW c \in Clients,
             Public(c) \/ Authenticated(c) \/ Administration(c) \/ refuse(c)
      PROVE  IInv'
  <2>1. CASE Public(c)
    BY <2>1, StartSteps, SessionSteps, AdmissionSteps DEF Public
  <2>2. CASE Authenticated(c)
    BY <2>2, AuthenticateStep, InviteSteps, PromoteStep, CheckSteps, RemoveStep, SessionSteps,
       ChangeStep DEF Authenticated
  <2>3. CASE Administration(c)
    BY <2>3, InviteSteps, StatusStep, ResetStep, LogoutStep DEF Administration
  <2>4. CASE refuse(c)
    BY <2>4, RefuseStep
  <2> QED BY <1>3, <2>1, <2>2, <2>3, <2>4
<1> QED BY <1>1, <1>2, <1>3 DEF Next

(* The inductive invariant holds in every reachable state.                 *)
THEOREM Invariant == Spec => []IInv
<1>1. Init => IInv
  BY InitInvariant
<1>2. IInv /\ [Next]_vars => IInv'
  BY NextInvariant
<1> QED BY <1>1, <1>2, PTL DEF Spec

(* Rows and requests are well-formed; only the administrator is without a  *)
(* household.                                                              *)
THEOREM TypeCorrect == Spec => []TypeOK
<1>1. IInv => TypeOK
  BY DEF IInv
<1> QED BY <1>1, Invariant, PTL

(* A household keeps an owner, though a member may be removed after having *)
(* been made an owner: the founder is an owner from the start, and whoever *)
(* is removed was no owner when deleteMember looked.                       *)
THEOREM OwnerRemains == Spec => []HouseholdHasOwner
<1>1. IInv => HouseholdHasOwner
  BY DEF IInv, FounderStays, HouseholdHasOwner
<1> QED BY <1>1, Invariant, PTL

(* No session outlives its user, whatever logins overlap the removal.      *)
THEOREM NoOrphanSessions == Spec => []SessionsHaveUsers
<1>1. IInv => SessionsHaveUsers
  BY DEF IInv
<1> QED BY <1>1, Invariant, PTL

(* The rights a request was authenticated with are still its user's.       *)
THEOREM RightsAreCurrent == Spec => []ActorsKeepTheirRights
<1>1. IInv => ActorsKeepTheirRights
  BY DEF IInv
<1> QED BY <1>1, Invariant, PTL

-----------------------------------------------------------------------------
(* The users whom one invite lets in: AdmissionInv, on top of IInv.        *)

(* A handler that moves on, or answers, is in no other invite's count.     *)
LEMMA RedeemingKept ==
    ASSUME IInv, NEW c \in Clients, NEW r, Serve(c, r), NEW i \in Invites,
           r # NULL /\ r.op \in {"register", "accept"} => r.target # i
    PROVE  Redeeming(i)' = Redeeming(i) \ {c}
<1>1. req'[c] = r /\ \A d \in Clients \ {c} : req'[d] = req[d]
  BY DEF Serve, IInv, TypeOK
<1> QED BY <1>1 DEF Redeeming

LEMMA RedeemingFinite ==
    ASSUME NEW i \in Invites
    PROVE  /\ IsFiniteSet(Redeeming(i)) /\ Cardinality(Redeeming(i)) \in Nat
           /\ Cardinality(Redeeming(i)) <= Cardinality(Clients) /\ Cardinality(Clients) \in Nat
<1>1. Redeeming(i) \subseteq Clients /\ IsFiniteSet(Clients)
  BY MembershipAssumption DEF Redeeming
<1> QED BY <1>1, FS_Subset, FS_CardinalityType

(* A step that lets nobody in, does not open an invite again, and sends no *)
(* new request after an invite that has let somebody in.                   *)
LEMMA NobodyAdmitted ==
    ASSUME AdmissionInv, UNCHANGED admitted, issued \subseteq issued',
           \A i \in Invites \cap issued : Usable(i)' => Usable(i),
           \A i \in Invites : admitted[i] # {} => Redeeming(i)' \subseteq Redeeming(i)
    PROVE  AdmissionInv'
<1>1. AdmissionsOK'
  BY DEF AdmissionInv, AdmissionsOK
<1>2. LateComersOverlap'
  <2>1. SUFFICES ASSUME NEW i \in Invites, admitted[i] # {}
                 PROVE  Cardinality(admitted[i]) + Cardinality(Redeeming(i)') <= Cardinality(Clients)
    BY DEF LateComersOverlap
  <2>2. /\ Cardinality(admitted[i]) + Cardinality(Redeeming(i)) <= Cardinality(Clients)
        /\ Cardinality(admitted[i]) \in Nat
    BY <2>1, FS_CardinalityType DEF AdmissionInv, AdmissionsOK, LateComersOverlap
  <2>3. /\ Cardinality(Redeeming(i)') \in Nat
        /\ Cardinality(Redeeming(i)') <= Cardinality(Redeeming(i))
    BY <2>1, RedeemingFinite, FS_Subset, FS_CardinalityType
  <2> QED BY <2>2, <2>3, RedeemingFinite
<1> QED BY <1>1, <1>2 DEF AdmissionInv

(* The steps that have nothing to do with invites.                         *)
LEMMA OtherRequest ==
    ASSUME IInv, AdmissionInv, NEW c \in Clients, NEW r, Serve(c, r),
           r # NULL => r.op \notin {"register", "accept"},
           UNCHANGED <<invites, admitted>>, issued \subseteq issued'
    PROVE  AdmissionInv'
<1>1. \A i \in Invites : Redeeming(i)' \subseteq Redeeming(i)
  BY RedeemingKept
<1> QED BY <1>1, NobodyAdmitted DEF Usable

LEMMA AnswerOther ==
    ASSUME IInv, AdmissionInv, NEW c \in Clients, Answer(c),
           UNCHANGED <<invites, admitted>>, issued \subseteq issued'
    PROVE  AdmissionInv'
<1>1. Serve(c, NULL)
  BY DEF Answer, Serve
<1> QED BY <1>1, OtherRequest

LEMMA AnsweredAdmissions ==
    ASSUME IInv, AdmissionInv, NEW c \in Clients,
           \/ commitLogin(c) \/ commitRemove(c) \/ commitRevoke(c) \/ commitChange(c)
           \/ promoteMemberToOwner(c) \/ adminSetHouseholdStatus(c) \/ commitReset(c)
           \/ refuse(c)
    PROVE  AdmissionInv'
<1>1. Answer(c) /\ UNCHANGED <<invites, admitted>> /\ issued \subseteq issued'
  BY DEF commitLogin, commitRemove, commitRevoke, commitChange, promoteMemberToOwner,
         adminSetHouseholdStatus, commitReset, refuse, tables
<1> QED BY <1>1, AnswerOther

LEMMA LogoutAdmissions ==
    ASSUME IInv, AdmissionInv, NEW c \in Clients, logout(c)
    PROVE  AdmissionInv'
<1>1. Serve(c, NULL)
  BY DEF logout, Serve, Idle, IInv, TypeOK
<1>2. UNCHANGED <<invites, admitted, issued>>
  BY DEF logout
<1> QED BY <1>1, <1>2, OtherRequest

LEMMA CheckedAdmissions ==
    ASSUME IInv, AdmissionInv, NEW c \in Clients,
           deleteMember(c) \/ deleteSession(c) \/ changePassword(c) \/ adminResetPassword(c)
    PROVE  AdmissionInv'
<1>1. /\ req[c] # NULL /\ req[c] \in Request /\ req[c].op \notin {"register", "accept"}
      /\ req[c].pc = "handle" /\ UNCHANGED <<invites, admitted, issued>>
  BY DEF deleteMember, deleteSession, changePassword, adminResetPassword, At, Idle, tables,
         IInv, TypeOK
<1>2. req[c].actor # NULL /\ req[c].actor \in Actor
  BY <1>1 DEF IInv, RequestsOK, ActorOK, Request
<1>3. \E t \in Users \cup Sessions, p \in Passwords \cup {NULL} : GoOn(c, t, p)
  <2>1. CASE deleteMember(c)
    BY <2>1 DEF deleteMember
  <2>2. CASE deleteSession(c)
    BY <2>2 DEF deleteSession
  <2>3. CASE changePassword(c)
    <3>1. req[c].actor.user \in Users
      BY <1>2 DEF Actor
    <3>2. users[req[c].actor.user] \in User
      BY <2>3, <3>1 DEF changePassword, IInv, TypeOK
    <3> QED BY <2>3, <3>1, <3>2 DEF changePassword, User, UserRow
  <2>4. CASE adminResetPassword(c)
    BY <2>4 DEF adminResetPassword
  <2> QED BY <2>1, <2>2, <2>3, <2>4
<1>4. PICK r \in Request : Serve(c, r) /\ r.op = req[c].op
  BY <1>1, <1>3, GoOnRequest
<1> QED BY <1>1, <1>4, OtherRequest

LEMMA AuthenticateAdmissions ==
    ASSUME IInv, AdmissionInv, NEW c \in Clients, authenticate(c)
    PROVE  AdmissionInv'
<1>1. PICK s \in Sessions, op \in Ops :
        /\ Admissible(op, actorOf(sessions[s]))
        /\ Serve(c, [op |-> op, pc |-> "handle", actor |-> actorOf(sessions[s]),
                     target |-> NULL, password |-> NULL])
  BY DEF authenticate
<1>2. op \notin {"register", "accept"}
  BY <1>1 DEF Admissible
<1>3. UNCHANGED <<invites, admitted, issued>>
  BY DEF authenticate, tables
<1> QED BY <1>1, <1>2, <1>3, OtherRequest

-----------------------------------------------------------------------------
(* The steps of an invite.                                                 *)

(* A request may start with an invite only while it has let in nobody.     *)
LEMMA BeginAdmissions ==
    ASSUME IInv, AdmissionInv, NEW c \in Clients, NEW op, NEW t, NEW p, Begin(c, op, t, p),
           t \in Invites => Usable(t)
    PROVE  AdmissionInv'
<1> DEFINE r == [op |-> op, pc |-> "write", actor |-> NULL, target |-> t, password |-> p]
<1>1. Serve(c, r) /\ r.target = t /\ UNCHANGED <<invites, admitted, issued>>
  BY DEF Begin, tables
<1> HIDE DEF r
<1>2. ASSUME NEW i \in Invites, admitted[i] # {}
      PROVE  Redeeming(i)' \subseteq Redeeming(i)
  <2>1. t # i
    BY <1>2 DEF AdmissionInv, AdmissionsOK
  <2> QED BY <1>1, <2>1, RedeemingKept
<1> QED BY <1>1, <1>2, NobodyAdmitted DEF Usable

LEMMA StartAdmissions ==
    ASSUME IInv, AdmissionInv, NEW c \in Clients,
           login(c) \/ registerHousehold(c) \/ acceptHouseholdInvite(c)
    PROVE  AdmissionInv'
<1>1. CASE login(c)
  <2>1. PICK u \in Users : Begin(c, "login", u, users[u].password)
    BY <1>1 DEF login
  <2>2. /\ Serve(c, [op |-> "login", pc |-> "write", actor |-> NULL, target |-> u,
                     password |-> users[u].password])
        /\ UNCHANGED <<invites, admitted, issued>>
    BY <2>1 DEF Begin, tables
  <2> QED BY <2>2, OtherRequest
<1>2. CASE registerHousehold(c)
  BY <1>2, BeginAdmissions DEF registerHousehold
<1>3. CASE acceptHouseholdInvite(c)
  BY <1>3, BeginAdmissions DEF acceptHouseholdInvite
<1> QED BY <1>1, <1>2, <1>3

LEMMA NewInviteAdmissions ==
    ASSUME IInv, AdmissionInv, NEW c \in Clients,
           createHouseholdInvite(c) \/ adminCreateSignupCode(c)
    PROVE  AdmissionInv'
<1>1. PICK h : NewInvite(c, h)
  BY DEF createHouseholdInvite, adminCreateSignupCode
<1>2. PICK j \in Invites \ issued :
        /\ invites' = [invites EXCEPT ![j] = [household |-> h, created_by |-> req[c].actor.user,
                                              state |-> "open"]]
        /\ issued' = issued \cup {j}
  BY <1>1 DEF NewInvite
<1>3. Serve(c, NULL) /\ UNCHANGED admitted
  BY <1>1 DEF NewInvite, Answer, Serve
<1>4. \A i \in Invites \cap issued : invites'[i] = invites[i]
  BY <1>2 DEF IInv, TypeOK
<1>5. \A i \in Invites : Redeeming(i)' \subseteq Redeeming(i)
  BY <1>3, RedeemingKept
<1>6. issued \subseteq issued'
  BY <1>2
<1> QED BY <1>3, <1>4, <1>5, <1>6, NobodyAdmitted DEF Usable

LEMMA ExpireAdmissions ==
    ASSUME IInv, AdmissionInv, expire
    PROVE  AdmissionInv'
<1>1. PICK j \in Invites : Usable(j) /\ invites' = [invites EXCEPT ![j].state = "expired"]
  BY DEF expire
<1>2. \A i \in Invites : Usable(i)' => Usable(i)
  BY <1>1 DEF Usable, IInv, TypeOK
<1>3. UNCHANGED <<admitted, issued, req>>
  BY DEF expire
<1>4. \A i \in Invites : Redeeming(i)' = Redeeming(i)
  BY <1>3 DEF Redeeming
<1> QED BY <1>2, <1>3, <1>4, NobodyAdmitted

(* The invite's count gains a user and loses the request.                  *)
LEMMA CountKept ==
    ASSUME IInv, AdmissionInv, NEW i \in Invites, NEW c \in Redeeming(i), NEW u \in Users \ issued
    PROVE  /\ IsFiniteSet(admitted[i] \cup {u})
           /\ Cardinality(admitted[i] \cup {u}) + Cardinality(Redeeming(i) \ {c})
                <= Cardinality(Clients)
<1>1. u \notin admitted[i] /\ IsFiniteSet(admitted[i])
  BY DEF AdmissionInv, AdmissionsOK
<1>2. /\ IsFiniteSet(admitted[i] \cup {u}) /\ Cardinality(admitted[i]) \in Nat
      /\ Cardinality(admitted[i] \cup {u}) = Cardinality(admitted[i]) + 1
  BY <1>1, FS_AddElement, FS_CardinalityType
<1>3. Cardinality(Redeeming(i) \ {c}) = Cardinality(Redeeming(i)) - 1
  BY RedeemingFinite, FS_RemoveElement
<1>4. CASE admitted[i] = {}
  <2>1. Cardinality(admitted[i]) = 0
    BY <1>4, FS_EmptySet
  <2> QED BY <1>2, <1>3, <2>1, RedeemingFinite
<1>5. CASE admitted[i] # {}
  <2>1. Cardinality(admitted[i]) + Cardinality(Redeeming(i)) <= Cardinality(Clients)
    BY <1>5 DEF AdmissionInv, LateComersOverlap
  <2> QED BY <1>2, <1>3, <2>1, RedeemingFinite
<1> QED BY <1>4, <1>5

LEMMA AdmittedAdmissions ==
    ASSUME IInv, AdmissionInv, NEW c \in Clients, commitRegister(c) \/ commitAccept(c)
    PROVE  AdmissionInv'
<1>1. /\ req[c] # NULL /\ req[c].pc = "write" /\ req[c].op \in {"register", "accept"}
      /\ Answer(c)
  BY DEF commitRegister, commitAccept, At, Idle
<1>2. PICK i \in Invites : i = req[c].target /\ invites[i] # NULL /\ i \in issued
  BY <1>1 DEF IInv, RequestsOK, TargetOK, IdsIssued
<1>3. PICK u \in Users \ issued :
        /\ u \in issued' /\ issued \subseteq issued'
        /\ invites' = [invites EXCEPT ![req[c].target].state = "used"]
        /\ admitted' = [admitted EXCEPT ![req[c].target] = @ \cup {u}]
  <2>1. CASE commitRegister(c)
    BY <2>1 DEF commitRegister, Admit
  <2>2. CASE commitAccept(c)
    BY <2>2 DEF commitAccept, Admit
  <2> QED BY <2>1, <2>2
<1>4. /\ invites' = [invites EXCEPT ![i].state = "used"]
      /\ admitted' = [admitted EXCEPT ![i] = @ \cup {u}]
  BY <1>2, <1>3
<1>5. c \in Redeeming(i)
  BY <1>1, <1>2 DEF Redeeming
<1>6. \A j \in Invites : Redeeming(j)' = Redeeming(j) \ {c}
  <2>1. Serve(c, NULL)
    BY <1>1 DEF Answer, Serve
  <2> QED BY <1>1, <2>1, RedeemingKept, MembershipAssumption
<1>7. /\ admitted'[i] = admitted[i] \cup {u}
      /\ \A j \in Invites \ {i} : admitted'[j] = admitted[j]
  BY <1>2, <1>4 DEF IInv, TypeOK
<1>8. /\ \A j \in Invites \ {i} : invites'[j] = invites[j]
      /\ ~Usable(i)'
  <2>1. invites[i] \in Invite
    BY <1>2 DEF IInv, TypeOK
  <2>2. invites'[i].state = "used"
    BY <1>2, <1>4, <2>1 DEF Invite, IInv, TypeOK
  <2> QED BY <1>2, <1>4, <2>2 DEF Usable, IInv, TypeOK
<1>9. AdmissionsOK'
  <2>1. IsFiniteSet(admitted[i] \cup {u})
    BY <1>2, <1>3, <1>5, CountKept
  <2>2. ASSUME NEW j \in Invites
        PROVE  /\ admitted'[j] \subseteq issued' /\ IsFiniteSet(admitted'[j])
               /\ admitted'[j] # {} => j \in issued' /\ ~Usable(j)'
    <3>1. CASE j = i
      <4>1. admitted'[j] \subseteq issued' /\ IsFiniteSet(admitted'[j])
        BY <1>2, <1>3, <1>7, <2>1, <3>1 DEF AdmissionInv, AdmissionsOK
      <4>2. j \in issued' /\ ~Usable(j)'
        BY <1>2, <1>3, <1>8, <3>1 DEF Usable
      <4> QED BY <4>1, <4>2
    <3>2. CASE j # i
      BY <1>3, <1>7, <1>8, <2>2, <3>2 DEF AdmissionInv, AdmissionsOK, Usable
    <3> QED BY <3>1, <3>2
  <2> QED BY <2>2 DEF AdmissionsOK
<1>10. LateComersOverlap'
  <2>1. SUFFICES ASSUME NEW j \in Invites, admitted'[j] # {}
                 PROVE  Cardinality(admitted'[j]) + Cardinality(Redeeming(j)')
                          <= Cardinality(Clients)
    BY DEF LateComersOverlap
  <2>2. CASE j = i
    BY <1>2, <1>3, <1>5, <1>6, <1>7, <2>2, CountKept
  <2>3. CASE j # i
    <3>1. /\ Cardinality(admitted[j]) + Cardinality(Redeeming(j)) <= Cardinality(Clients)
          /\ Cardinality(admitted[j]) \in Nat
      BY <1>7, <2>1, <2>3, FS_CardinalityType DEF AdmissionInv, AdmissionsOK, LateComersOverlap
    <3>2. /\ Cardinality(Redeeming(j) \ {c}) <= Cardinality(Redeeming(j))
          /\ Cardinality(Redeeming(j) \ {c}) \in Nat
      <4>1. IsFiniteSet(Redeeming(j)) /\ Redeeming(j) \ {c} \subseteq Redeeming(j)
        BY RedeemingFinite
      <4> QED BY <4>1, FS_Subset, FS_CardinalityType
    <3>3. /\ admitted'[j] = admitted[j] /\ Redeeming(j)' = Redeeming(j) \ {c}
          /\ Cardinality(Redeeming(j)) \in Nat /\ Cardinality(Clients) \in Nat
      BY <1>6, <1>7, <2>3, RedeemingFinite
    <3> QED BY <3>1, <3>2, <3>3
  <2> QED BY <2>2, <2>3
<1> QED BY <1>9, <1>10 DEF AdmissionInv

-----------------------------------------------------------------------------
LEMMA InitAdmissions == Init => AdmissionInv
<1> SUFFICES ASSUME Init PROVE AdmissionInv
  OBVIOUS
<1>1. \A i \in Invites : admitted[i] = {}
  BY DEF Init
<1> QED BY <1>1, FS_EmptySet DEF AdmissionInv, AdmissionsOK, LateComersOverlap

LEMMA NextAdmissions == IInv /\ AdmissionInv /\ [Next]_vars => AdmissionInv'
<1> SUFFICES ASSUME IInv, AdmissionInv, [Next]_vars PROVE AdmissionInv'
  OBVIOUS
<1>1. CASE UNCHANGED vars
  <2>1. \A i \in Invites : Redeeming(i)' = Redeeming(i)
    BY <1>1 DEF vars, Redeeming
  <2> QED BY <1>1, <2>1, NobodyAdmitted DEF vars, Usable
<1>2. CASE expire
  BY <1>2, ExpireAdmissions
<1>3. ASSUME NEW c \in Clients,
             Public(c) \/ Authenticated(c) \/ Administration(c) \/ refuse(c)
      PROVE  AdmissionInv'
  <2>1. CASE Public(c)
    BY <2>1, StartAdmissions, AnsweredAdmissions, LogoutAdmissions, AdmittedAdmissions DEF Public
  <2>2. CASE Authenticated(c)
    BY <2>2, AuthenticateAdmissions, NewInviteAdmissions, AnsweredAdmissions, CheckedAdmissions
       DEF Authenticated
  <2>3. CASE Administration(c)
    BY <2>3, NewInviteAdmissions, AnsweredAdmissions, CheckedAdmissions DEF Administration
  <2>4. CASE refuse(c)
    BY <2>4, AnsweredAdmissions
  <2> QED BY <1>3, <2>1, <2>2, <2>3, <2>4
<1> QED BY <1>1, <1>2, <1>3 DEF Next

LEMMA AdmissionInvariant == Spec => []AdmissionInv
<1>1. Init => AdmissionInv
  BY InitAdmissions
<1>2. IInv /\ AdmissionInv /\ [Next]_vars => AdmissionInv'
  BY NextAdmissions
<1> QED BY <1>1, <1>2, Invariant, PTL DEF Spec

(* An invite that was looked up before it was used may be used once more,  *)
(* but only by requests that overlapped its first use: it lets in no more  *)
(* users than handlers run at a time.                                      *)
THEOREM InvitesBounded == Spec => []LateComersOverlap
<1>1. AdmissionInv => LateComersOverlap
  BY DEF AdmissionInv
<1> QED BY <1>1, AdmissionInvariant, PTL

(* Invites are one-time as long as the server runs one handler at a time:  *)
(* what breaks the promise is the overlap and nothing else.                *)
THEOREM OneTimeWithoutOverlap ==
    ASSUME Cardinality(Clients) = 1
    PROVE  Spec => []InvitesAreOneTime
<1>1. AdmissionInv => InvitesAreOneTime
  <2>1. SUFFICES ASSUME AdmissionInv, NEW i \in Invites
                 PROVE  Cardinality(admitted[i]) <= 1
    BY DEF InvitesAreOneTime
  <2>2. Cardinality(admitted[i]) \in Nat /\ Cardinality(Redeeming(i)) \in Nat
    BY <2>1, RedeemingFinite, FS_CardinalityType DEF AdmissionInv, AdmissionsOK
  <2>3. CASE admitted[i] = {}
    BY <2>3, FS_EmptySet
  <2>4. CASE admitted[i] # {}
    BY <2>1, <2>2, <2>4 DEF AdmissionInv, LateComersOverlap
  <2> QED BY <2>3, <2>4
<1> QED BY <1>1, AdmissionInvariant, PTL
=============================================================================
