------------------------- MODULE KindlePairingProofs -------------------------
(***************************************************************************)
(* Proofs about KindlePairing: type correctness, that pairings, tokens and *)
(* schedules agree, that devices take only links an owner has claimed and  *)
(* share none, and that pairing codes implement OneTimeCode.               *)
(***************************************************************************)
EXTENDS KindlePairing, TLAPS

LEMMA ServerInit == Init => ServerInv
<1> SUFFICES ASSUME Init PROVE ServerInv
  OBVIOUS
<1>1. TypeOK
  BY KindlePairingAssumption DEF Init, TypeOK, Off, Device
<1> QED BY <1>1 DEF Init, ServerInv, IdsIssued, RequestsOK, PairingsMatchTokens,
                    SchedulesHaveDisplays, Owns

-----------------------------------------------------------------------------
(* Requests.                                                               *)

(* No display that has been handed out comes back or changes hands.        *)
TokensKept ==
    /\ issued \subseteq issued'
    /\ \A t \in Tokens \cap issued : tokens'[t] # NULL =>
         tokens[t] # NULL /\ tokens'[t].household = tokens[t].household

(* A commit makes every claim under way stale, so none can be wrong.       *)
LEMMA CommitKeeps ==
    ASSUME ServerInv, NEW done, Commit(done), TokensKept
    PROVE  RequestsOK' /\ req' \in [Clients -> Request \cup {NULL}]
<1>1. ASSUME NEW c \in Clients
      PROVE  /\ req'[c] \in Request \cup {NULL}
             /\ req'[c] # NULL =>
                  /\ req[c] # NULL
                  /\ req'[c].op = req[c].op /\ req'[c].pairing = req[c].pairing
                  /\ req'[c].token = req[c].token /\ req'[c].current = 0
  BY DEF ServerInv, TypeOK, Commit, Stale, Request
<1>2. req' \in [Clients -> Request \cup {NULL}]
  BY <1>1 DEF Commit
<1>3. ASSUME NEW c \in Clients, req'[c] # NULL
      PROVE  /\ req'[c].op = "claim" => ClaimOK(req[c])'
             /\ req'[c].op = "schedule" => ScheduleOK(c, req[c])'
  <2>1. /\ req[c] # NULL /\ req'[c].op = req[c].op /\ req'[c].pairing = req[c].pairing
        /\ req'[c].token = req[c].token /\ req'[c].current = 0
    BY <1>1, <1>3
  <2>2. CASE req[c].op = "claim"
    <3>1. ClaimOK(req[c])
      BY <2>1, <2>2 DEF ServerInv, RequestsOK
    <3> QED BY <2>1, <2>2, <3>1 DEF ClaimOK
  <2>3. CASE req[c].op = "schedule"
    <3>1. ScheduleOK(c, req[c])
      BY <2>1, <2>3 DEF ServerInv, RequestsOK
    <3> QED BY <2>1, <2>3, <3>1 DEF ScheduleOK, TokensKept
  <2> QED BY <2>1, <2>2, <2>3
<1> QED BY <1>2, <1>3 DEF RequestsOK

(* A handler reads, and the tables stay as they are.                       *)
ReadOnly == UNCHANGED <<pairings, tokens, schedules, issued, shown, holder>>

LEMMA ReadKeeps ==
    ASSUME ServerInv, NEW c \in Clients, NEW q \in Request \cup {NULL},
           req' = [req EXCEPT ![c] = q], ReadOnly,
           q # NULL => (q.op = "claim" => ClaimOK(q)) /\ (q.op = "schedule" => ScheduleOK(c, q)),
           device' = device, link' = link
    PROVE  ServerInv'
<1>1. req' \in [Clients -> Request \cup {NULL}]
  BY DEF ServerInv, TypeOK
<1>2. TypeOK' /\ IdsIssued' /\ PairingsMatchTokens' /\ SchedulesHaveDisplays'
  BY <1>1 DEF ServerInv, TypeOK, IdsIssued, PairingsMatchTokens, SchedulesHaveDisplays, Owns, ReadOnly
<1>3. ASSUME NEW d \in Clients, req'[d] # NULL
      PROVE  /\ req'[d].op = "claim" => ClaimOK(req[d])'
             /\ req'[d].op = "schedule" => ScheduleOK(d, req[d])'
  <2>1. CASE d = c
    BY <1>3, <2>1 DEF ServerInv, TypeOK, ClaimOK, ScheduleOK, ReadOnly
  <2>2. CASE d # c
    BY <1>3, <2>2 DEF ServerInv, TypeOK, RequestsOK, ClaimOK, ScheduleOK, ReadOnly
  <2> QED BY <2>1, <2>2
<1> QED BY <1>2, <1>3 DEF ServerInv, RequestsOK

LEMMA ReadSteps ==
    ASSUME ServerInv, NEW c \in Clients,
           claimKindlePairing(c) \/ putDisplaySchedule(c) \/ refuse(c)
    PROVE  ServerInv'
<1>1. CASE claimKindlePairing(c)
  <2>1. PICK k \in shown :
          /\ Valid(k) /\ pairings[k].claimed = NULL
          /\ req' = [req EXCEPT ![c] = [op |-> "claim", pairing |-> k, token |-> NULL, current |-> 1]]
    BY <1>1 DEF claimKindlePairing
  <2> DEFINE q == [op |-> "claim", pairing |-> k, token |-> NULL, current |-> 1]
  <2>2. q \in Request /\ ClaimOK(q) /\ q.op = "claim"
    BY <2>1 DEF ServerInv, TypeOK, Request, ClaimOK, Valid
  <2>3. req' = [req EXCEPT ![c] = q]
    BY <2>1
  <2> HIDE DEF q
  <2> QED BY <1>1, <2>2, <2>3, ReadKeeps DEF claimKindlePairing, ReadOnly
<1>2. CASE putDisplaySchedule(c)
  <2>1. PICK t \in Tokens :
          /\ tokens[t] # NULL /\ tokens[t].household = HouseholdOf[c]
          /\ req' = [req EXCEPT ![c] = [op |-> "schedule", pairing |-> NULL, token |-> t, current |-> 1]]
    BY <1>2 DEF putDisplaySchedule
  <2> DEFINE q == [op |-> "schedule", pairing |-> NULL, token |-> t, current |-> 1]
  <2>2. q \in Request /\ ScheduleOK(c, q) /\ q.op = "schedule"
    BY <2>1 DEF ServerInv, IdsIssued, Request, ScheduleOK
  <2>3. req' = [req EXCEPT ![c] = q]
    BY <2>1
  <2> HIDE DEF q
  <2> QED BY <1>2, <2>2, <2>3, ReadKeeps DEF putDisplaySchedule, ReadOnly
<1>3. CASE refuse(c)
  BY <1>3, ReadKeeps DEF refuse, ReadOnly
<1> QED BY <1>1, <1>2, <1>3

-----------------------------------------------------------------------------
(* The device.                                                             *)

(* Steps of pair.sh that ask, give up or take the link leave the server be.*)
LEMMA DeviceKeeps ==
    ASSUME ServerInv, ReadOnly, req' = req, device' \in [Devices -> Device],
           link' \in [Devices -> Pairings \cup {NULL}]
    PROVE  ServerInv'
<1>1. TypeOK' /\ IdsIssued' /\ PairingsMatchTokens' /\ SchedulesHaveDisplays'
  BY DEF ServerInv, TypeOK, IdsIssued, PairingsMatchTokens, SchedulesHaveDisplays, Owns, ReadOnly
<1>2. RequestsOK'
  BY DEF ServerInv, RequestsOK, ClaimOK, ScheduleOK, ReadOnly
<1> QED BY <1>1, <1>2 DEF ServerInv

LEMMA Shapes ==
    /\ Off \in Device /\ Starting \in Device
    /\ \A k \in Pairings \cup {NULL} : Ready(k) \in Device
    /\ \A k \in Pairings \cup {NULL}, n \in 0..Polls, w \in 0..Slow : Sleeping(k, n, w) \in Device
  BY KindlePairingAssumption DEF Device, Off, Starting, Ready, Sleeping

LEMMA AskAgainType ==
    ASSUME ServerInv, NEW d \in Devices
    PROVE  \A next \in AskAgain(d) : next \in Device
<1>1. device[d].secret \in Pairings \cup {NULL} /\ device[d].polls \in 0..Polls
  BY DEF ServerInv, TypeOK, Device
<1>2. CASE device[d].polls <= 1
  BY <1>2, Shapes DEF AskAgain
<1>3. CASE device[d].polls > 1
  <2>1. device[d].polls - 1 \in 0..Polls /\ 1..Slow \subseteq 0..Slow
    BY <1>1, <1>3, KindlePairingAssumption
  <2>2. ~(device[d].polls <= 1)
    BY <1>1, <1>3, KindlePairingAssumption
  <2> QED BY <1>1, <2>1, <2>2, Shapes DEF AskAgain
<1> QED BY <1>1, <1>2, <1>3, KindlePairingAssumption

LEMMA DeviceSteps ==
    ASSUME ServerInv, NEW d \in Devices,
           pollKindlePairing(d) \/ pollLost(d) \/ adopt(d) \/ crash(d)
    PROVE  ServerInv'
<1>1. device[d].secret \in Pairings \cup {NULL}
  BY DEF ServerInv, TypeOK, Device
<1>2. ReadOnly /\ req' = req
  BY DEF pollKindlePairing, pollLost, adopt, crash, ReadOnly
<1>3. PICK next \in Device : device' = [device EXCEPT ![d] = next]
  <2>1. CASE pollKindlePairing(d)
    BY <2>1, <1>1, Shapes, AskAgainType DEF pollKindlePairing
  <2>2. CASE pollLost(d)
    BY <2>2, AskAgainType DEF pollLost
  <2>3. CASE adopt(d) \/ crash(d)
    BY <2>3, Shapes DEF adopt, crash
  <2> QED BY <2>1, <2>2, <2>3
<1>4. device' \in [Devices -> Device]
  BY <1>3 DEF ServerInv, TypeOK
<1>5. link' \in [Devices -> Pairings \cup {NULL}]
  BY <1>1 DEF ServerInv, TypeOK, pollKindlePairing, pollLost, adopt, crash
<1> QED BY <1>2, <1>4, <1>5, DeviceKeeps

(* Time changes nothing but ages.                                          *)
LEMMA TickRows ==
    ASSUME ServerInv, Tick, NEW k \in Pairings
    PROVE  /\ pairings'[k] \in Pairing \cup {NULL}
           /\ pairings'[k] = NULL <=> pairings[k] = NULL
           /\ pairings[k] # NULL => pairings'[k].claimed = pairings[k].claimed
  BY KindlePairingAssumption DEF Tick, ServerInv, TypeOK, Pairing

LEMMA TickStep ==
    ASSUME ServerInv, Tick
    PROVE  ServerInv'
<1>1. ASSUME NEW k \in Pairings
      PROVE  /\ pairings'[k] \in Pairing \cup {NULL}
             /\ pairings'[k] = NULL <=> pairings[k] = NULL
             /\ pairings[k] # NULL => pairings'[k].claimed = pairings[k].claimed
  BY TickRows
<1>2. ASSUME NEW d \in Devices
      PROVE  device'[d] \in Device
  <2>1. device[d] \in Device /\ (device[d].pc = "sleeping" => device[d].wait - 1 \in 0..Slow)
    <3>1. device[d] \in Device /\ device[d].wait \in 0..Slow
      BY DEF ServerInv, TypeOK, Device
    <3>2. device[d].pc = "sleeping" => device[d].wait # 0
      BY DEF Tick, Asking
    <3> QED BY <3>1, <3>2, KindlePairingAssumption
  <2>2. device'[d] = IF device[d].pc = "sleeping"
                       THEN Sleeping(device[d].secret, device[d].polls, device[d].wait - 1)
                       ELSE device[d]
    BY DEF Tick
  <2>3. device[d].secret \in Pairings \cup {NULL} /\ device[d].polls \in 0..Polls
    BY <2>1 DEF Device
  <2> QED BY <2>1, <2>2, <2>3, Shapes
<1>3. /\ UNCHANGED <<tokens, schedules, issued, shown, req, link, holder>>
      /\ pairings' \in [Pairings -> Pairing \cup {NULL}]
      /\ device' \in [Devices -> Device]
  BY <1>1, <1>2 DEF Tick
<1>4. TypeOK' /\ SchedulesHaveDisplays'
  BY <1>3 DEF ServerInv, TypeOK, SchedulesHaveDisplays
<1>5. IdsIssued' /\ PairingsMatchTokens'
  BY <1>1, <1>3 DEF ServerInv, IdsIssued, PairingsMatchTokens, Owns
<1>6. RequestsOK'
  BY <1>1, <1>3 DEF ServerInv, RequestsOK, ClaimOK, ScheduleOK
<1> QED BY <1>4, <1>5, <1>6 DEF ServerInv

-----------------------------------------------------------------------------
(* Steps that write.                                                       *)

LEMMA StartStep ==
    ASSUME ServerInv, NEW d \in Devices, startKindlePairing(d)
    PROVE  ServerInv'
<1>1. ASSUME NEW k \in Pairings
      PROVE  pairings'[k] = NULL \/ pairings'[k] = pairings[k]
  BY DEF startKindlePairing
<1>2. /\ UNCHANGED <<tokens, schedules, issued, shown, link, holder>>
      /\ pairings' \in [Pairings -> Pairing \cup {NULL}]
      /\ device' \in [Devices -> Device]
  BY Shapes DEF startKindlePairing, ServerInv, TypeOK
<1>3. RequestsOK' /\ req' \in [Clients -> Request \cup {NULL}]
  <2>1. CASE pairings' = pairings
    BY <2>1, <1>2 DEF startKindlePairing, ServerInv, TypeOK, RequestsOK, ClaimOK, ScheduleOK
  <2>2. CASE pairings' # pairings
    <3>1. Commit({})
      BY <2>2 DEF startKindlePairing
    <3>2. TokensKept
      BY <1>2 DEF TokensKept
    <3> QED BY <3>1, <3>2, CommitKeeps
  <2> QED BY <2>1, <2>2
<1>4. TypeOK' /\ IdsIssued' /\ SchedulesHaveDisplays'
  BY <1>1, <1>2, <1>3 DEF ServerInv, TypeOK, IdsIssued, SchedulesHaveDisplays, Owns
<1>5. PairingsMatchTokens'
  BY <1>1, <1>2 DEF ServerInv, PairingsMatchTokens, Owns
<1> QED BY <1>3, <1>4, <1>5 DEF ServerInv

LEMMA CreateStep ==
    ASSUME ServerInv, NEW d \in Devices, createPairing(d)
    PROVE  ServerInv'
<1>1. PICK k \in Pairings \ issued :
        /\ pairings' = [pairings EXCEPT ![k] = [age |-> 0, claimed |-> NULL]]
        /\ issued' = issued \cup {k}
        /\ \/ /\ \E w \in 1..Slow : device' = [device EXCEPT ![d] = Sleeping(k, Polls, w)]
              /\ shown' = shown \cup {k}
           \/ /\ device' = [device EXCEPT ![d] = Off]
              /\ UNCHANGED shown
  BY DEF createPairing
<1>2. UNCHANGED <<tokens, schedules, link, holder>> /\ Commit({})
  BY DEF createPairing
<1> DEFINE row == [age |-> 0, claimed |-> NULL]
<1>3. row \in Pairing /\ row # NULL /\ row.claimed = NULL
  BY KindlePairingAssumption DEF Pairing
<1>4. /\ pairings' \in [Pairings -> Pairing \cup {NULL}]
      /\ pairings'[k] = row /\ \A m \in Pairings \ {k} : pairings'[m] = pairings[m]
  BY <1>1, <1>3 DEF ServerInv, TypeOK
<1>5. PICK next \in Device : device' = [device EXCEPT ![d] = next]
  <2>1. Polls \in 0..Polls /\ 1..Slow \subseteq 0..Slow
    BY KindlePairingAssumption
  <2> QED BY <1>1, <2>1, Shapes
<1>6. RequestsOK' /\ req' \in [Clients -> Request \cup {NULL}]
  BY <1>1, <1>2, CommitKeeps DEF TokensKept
<1> HIDE DEF row
<1>7. TypeOK'
  BY <1>1, <1>2, <1>4, <1>5, <1>6 DEF ServerInv, TypeOK
<1>8. IdsIssued' /\ SchedulesHaveDisplays'
  BY <1>1, <1>2, <1>4 DEF ServerInv, IdsIssued, SchedulesHaveDisplays, Owns
<1>9. PairingsMatchTokens'
  <2>1. \A t \in Tokens : ~Owns(t, k)
    BY <1>1 DEF ServerInv, IdsIssued
  <2> QED BY <1>2, <1>3, <1>4, <2>1 DEF ServerInv, PairingsMatchTokens, Owns
<1> QED BY <1>6, <1>7, <1>8, <1>9 DEF ServerInv

LEMMA ClaimStep ==
    ASSUME ServerInv, NEW c \in Clients, commitClaim(c)
    PROVE  ServerInv'
<1> DEFINE k == req[c].pairing
<1>1. k \in Pairings /\ pairings[k] # NULL /\ pairings[k].claimed = NULL /\ pairings[k] \in Pairing
  BY DEF commitClaim, Serving, Idle, ServerInv, RequestsOK, ClaimOK, TypeOK
<1>2. PICK t \in Tokens \ issued :
        /\ tokens' = [tokens EXCEPT ![t] = [household |-> HouseholdOf[c], secret |-> k]]
        /\ issued' = issued \cup {t}
        /\ pairings' = [pairings EXCEPT ![k] = [age |-> pairings[k].age, claimed |-> t]]
  BY <1>1 DEF commitClaim, Bind
<1>3. /\ UNCHANGED <<schedules, shown, device, link>> /\ Commit({c})
      /\ holder' = [holder EXCEPT ![k] = HouseholdOf[c]]
      /\ \A s \in Tokens : ~Owns(s, k)
  BY DEF commitClaim, Bind
<1> DEFINE row == [age |-> pairings[k].age, claimed |-> t]
           token == [household |-> HouseholdOf[c], secret |-> k]
<1>4. /\ row \in Pairing /\ row # NULL /\ row.claimed = t /\ t # NULL
      /\ token \in Token /\ token # NULL /\ token.secret = k
      /\ token.household = HouseholdOf[c] /\ HouseholdOf[c] \in Households
  BY <1>1, KindlePairingAssumption DEF Pairing, Token
<1>5. pairings' = [pairings EXCEPT ![k] = row] /\ tokens' = [tokens EXCEPT ![t] = token]
  BY <1>2
<1>6. k \in issued /\ k \in Pairings
  BY <1>1 DEF ServerInv, IdsIssued
<1> HIDE DEF row, token, k
<1>7. RequestsOK' /\ req' \in [Clients -> Request \cup {NULL}]
  <2>1. TokensKept
    BY <1>2, <1>5 DEF TokensKept, ServerInv, TypeOK
  <2> QED BY <1>3, <2>1, CommitKeeps
<1>8. TypeOK'
  BY <1>2, <1>3, <1>4, <1>5, <1>6, <1>7 DEF ServerInv, TypeOK
<1>9. tokens[t] = NULL /\ schedules[t] = NULL
  BY <1>2, KindlePairingAssumption DEF ServerInv, IdsIssued, SchedulesHaveDisplays
<1>10. IdsIssued' /\ SchedulesHaveDisplays'
  BY <1>2, <1>3, <1>4, <1>5, <1>6, <1>9 DEF ServerInv, TypeOK, IdsIssued, SchedulesHaveDisplays, Owns
<1>11. PairingsMatchTokens'
  <2>1. ASSUME NEW m \in Pairings, pairings'[m] # NULL, pairings'[m].claimed # NULL
        PROVE  Owns(pairings[m].claimed, m)'
    <3>1. CASE m = k
      BY <3>1, <1>2, <1>4, <1>5, <1>6 DEF ServerInv, TypeOK, Owns
    <3>2. CASE m # k
      BY <2>1, <3>2, <1>2, <1>5, <1>9 DEF ServerInv, TypeOK, PairingsMatchTokens, Owns
    <3> QED BY <3>1, <3>2
  <2>2. ASSUME NEW s \in Tokens, NEW m \in Pairings, Owns(s, m)'
        PROVE  /\ tokens'[s].household = holder'[m]
               /\ pairings'[m] # NULL => pairings'[m].claimed = s
    <3>1. CASE s = t
      <4>1. m = k
        BY <2>2, <3>1, <1>2, <1>4, <1>5 DEF ServerInv, TypeOK, Owns
      <4> QED BY <3>1, <4>1, <1>2, <1>3, <1>4, <1>5, <1>6 DEF ServerInv, TypeOK
    <3>2. CASE s # t
      <4>1. Owns(s, m) /\ m # k /\ tokens'[s] = tokens[s]
        BY <2>2, <3>2, <1>2, <1>3, <1>5 DEF ServerInv, TypeOK, Owns
      <4>2. holder'[m] = holder[m] /\ pairings'[m] = pairings[m]
        BY <4>1, <1>3, <1>5, <1>6 DEF ServerInv, TypeOK
      <4> QED BY <4>1, <4>2 DEF ServerInv, PairingsMatchTokens
    <3> QED BY <3>1, <3>2
  <2> QED BY <2>1, <2>2 DEF PairingsMatchTokens
<1> QED BY <1>7, <1>8, <1>10, <1>11 DEF ServerInv

LEMMA TokenStep ==
    ASSUME ServerInv, NEW c \in Clients, createDisplayToken(c)
    PROVE  ServerInv'
<1>1. PICK t \in Tokens \ issued :
        /\ tokens' = [tokens EXCEPT ![t] = [household |-> HouseholdOf[c], secret |-> NULL]]
        /\ issued' = issued \cup {t}
  BY DEF createDisplayToken
<1>2. UNCHANGED <<pairings, schedules, shown, device, link, holder>> /\ Commit({})
  BY DEF createDisplayToken
<1> DEFINE token == [household |-> HouseholdOf[c], secret |-> NULL]
<1>3. token \in Token /\ token # NULL /\ \A k \in Pairings : token.secret # k
  BY KindlePairingAssumption DEF Token
<1>4. tokens' = [tokens EXCEPT ![t] = token]
  BY <1>1
<1> HIDE DEF token
<1>5. RequestsOK' /\ req' \in [Clients -> Request \cup {NULL}]
  BY <1>1, <1>2, <1>4, CommitKeeps DEF TokensKept, ServerInv, TypeOK
<1>6. TypeOK' /\ IdsIssued'
  BY <1>1, <1>2, <1>3, <1>4, <1>5 DEF ServerInv, TypeOK, IdsIssued, Owns
<1>7. tokens[t] = NULL
  BY <1>1 DEF ServerInv, IdsIssued
<1>8. SchedulesHaveDisplays' /\ PairingsMatchTokens'
  BY <1>2, <1>3, <1>4, <1>7
     DEF ServerInv, TypeOK, SchedulesHaveDisplays, PairingsMatchTokens, Owns, Pairing
<1> QED BY <1>5, <1>6, <1>8 DEF ServerInv

LEMMA DeleteStep ==
    ASSUME ServerInv, NEW c \in Clients, deleteDisplayToken(c)
    PROVE  ServerInv'
<1>1. PICK t \in Tokens :
        /\ tokens' = [tokens EXCEPT ![t] = NULL]
        /\ schedules' = [schedules EXCEPT ![t] = NULL]
        /\ pairings' = Cascade(t)
  BY DEF deleteDisplayToken
<1>2. UNCHANGED <<issued, shown, device, link, holder>> /\ Commit({})
  BY DEF deleteDisplayToken
<1>3. /\ pairings' \in [Pairings -> Pairing \cup {NULL}]
      /\ \A k \in Pairings : pairings'[k] = NULL \/ (pairings'[k] = pairings[k] /\ pairings[k].claimed # t)
  BY <1>1 DEF Cascade, ServerInv, TypeOK
<1>4. \A s \in Tokens : IF s = t THEN tokens'[s] = NULL ELSE tokens'[s] = tokens[s]
  BY <1>1 DEF ServerInv, TypeOK
<1>5. RequestsOK' /\ req' \in [Clients -> Request \cup {NULL}]
  BY <1>2, <1>4, CommitKeeps DEF TokensKept
<1>6. TypeOK' /\ SchedulesHaveDisplays'
  BY <1>1, <1>2, <1>3, <1>4, <1>5 DEF ServerInv, TypeOK, SchedulesHaveDisplays
<1>7. IdsIssued'
  BY <1>2, <1>3, <1>4 DEF ServerInv, IdsIssued, Owns
<1>8. PairingsMatchTokens'
  <2>1. ASSUME NEW k \in Pairings, pairings'[k] # NULL, pairings'[k].claimed # NULL
        PROVE  Owns(pairings[k].claimed, k)'
    <3>1. pairings'[k] = pairings[k] /\ pairings[k].claimed # t /\ Owns(pairings[k].claimed, k)
      BY <1>3, <2>1 DEF ServerInv, PairingsMatchTokens
    <3>2. pairings[k].claimed \in Tokens
      BY <2>1, <3>1 DEF ServerInv, TypeOK, Pairing
    <3> QED BY <3>1, <3>2, <1>4 DEF Owns
  <2>2. ASSUME NEW s \in Tokens, NEW k \in Pairings, Owns(s, k)'
        PROVE  /\ tokens'[s].household = holder'[k]
               /\ pairings'[k] # NULL => pairings'[k].claimed = s
    BY <2>2, <1>2, <1>3, <1>4 DEF ServerInv, PairingsMatchTokens, Owns
  <2> QED BY <2>1, <2>2 DEF PairingsMatchTokens
<1> QED BY <1>5, <1>6, <1>7, <1>8 DEF ServerInv

LEMMA ScheduleStep ==
    ASSUME ServerInv, NEW c \in Clients, commitSchedule(c)
    PROVE  ServerInv'
<1> DEFINE t == req[c].token
<1>1. /\ schedules' = [schedules EXCEPT ![t] = HouseholdOf[c]]
      /\ UNCHANGED <<pairings, tokens, issued, shown, device, link, holder>> /\ Commit({c})
  BY DEF commitSchedule
<1>2. t \in Tokens /\ tokens[t] # NULL /\ tokens[t].household = HouseholdOf[c]
  BY DEF commitSchedule, Serving, Idle, ServerInv, RequestsOK, ScheduleOK
<1> HIDE DEF t
<1>3. RequestsOK' /\ req' \in [Clients -> Request \cup {NULL}]
  BY <1>1, CommitKeeps DEF TokensKept
<1>4. TypeOK' /\ SchedulesHaveDisplays'
  BY <1>1, <1>2, <1>3, KindlePairingAssumption DEF ServerInv, TypeOK, SchedulesHaveDisplays
<1>5. IdsIssued' /\ PairingsMatchTokens'
  BY <1>1 DEF ServerInv, IdsIssued, PairingsMatchTokens, Owns
<1> QED BY <1>3, <1>4, <1>5 DEF ServerInv

LEMMA ServerNext == ServerInv /\ [Next]_vars => ServerInv'
<1> SUFFICES ASSUME ServerInv, [Next]_vars PROVE ServerInv'
  OBVIOUS
<1>1. CASE UNCHANGED vars
  <2>1. device' \in [Devices -> Device] /\ link' \in [Devices -> Pairings \cup {NULL}]
    BY <1>1 DEF vars, ServerInv, TypeOK
  <2> QED BY <1>1, <2>1, DeviceKeeps DEF vars, ReadOnly
<1>2. ASSUME NEW c \in Clients, Web(c)
      PROVE  ServerInv'
  BY <1>2, ReadSteps, ClaimStep, TokenStep, DeleteStep, ScheduleStep DEF Web
<1>3. ASSUME NEW d \in Devices, startKindlePairing(d) \/ Pair(d) \/ crash(d)
      PROVE  ServerInv'
  BY <1>3, StartStep, CreateStep, DeviceSteps DEF Pair
<1> QED BY <1>1, <1>2, <1>3, TickStep DEF Next

-----------------------------------------------------------------------------
(* What the devices know.                                                  *)

(* Steps of the server leave the devices as they are.                      *)
LEMMA DevicesRest ==
    ASSUME IInv, UNCHANGED <<device, link>>, shown \subseteq shown',
           \A k \in Pairings : holder[k] # NULL => holder'[k] # NULL
    PROVE  DeviceInv'
<1>1. \A d \in Devices : device[d].secret \in Pairings \cup {NULL} /\ link[d] \in Pairings \cup {NULL}
  BY DEF IInv, ServerInv, TypeOK, Device
<1>2. SecretsUnshared'
  BY DEF IInv, DeviceInv, SecretsUnshared, Knows
<1>3. SecretsShown' /\ LinksAreClaimed'
  BY <1>1 DEF IInv, DeviceInv, SecretsShown, LinksAreClaimed
<1> QED BY <1>2, <1>3 DEF DeviceInv

(* pair.sh asks for the secret it has, or forgets it.                      *)
LEMMA SecretKept ==
    ASSUME IInv, NEW d \in Devices, NEW next \in Device,
           device' = [device EXCEPT ![d] = next], UNCHANGED <<link, shown, holder>>,
           next.secret \in {NULL, device[d].secret},
           next.pc \in {"sleeping", "ready"} => next.secret # NULL,
           next.pc = "ready" => holder[next.secret] # NULL
    PROVE  DeviceInv'
<1>1. \A e \in Devices : device'[e] = IF e = d THEN next ELSE device[e]
  BY DEF IInv, ServerInv, TypeOK
<1>2. \A e \in Devices : Knows(e)' \subseteq Knows(e)
  BY <1>1 DEF Knows
<1>3. SecretsUnshared'
  BY <1>2 DEF IInv, DeviceInv, SecretsUnshared
<1>4. SecretsShown' /\ LinksAreClaimed'
  BY <1>1 DEF IInv, DeviceInv, SecretsShown, LinksAreClaimed
<1> QED BY <1>3, <1>4 DEF DeviceInv

LEMMA Fields ==
    /\ Off.secret = NULL /\ Off.pc = "off" /\ Starting.secret = NULL /\ Starting.pc = "starting"
    /\ \A k : Ready(k).secret = k /\ Ready(k).pc = "ready"
    /\ \A k, n, w : Sleeping(k, n, w).secret = k /\ Sleeping(k, n, w).pc = "sleeping"
  BY DEF Off, Starting, Ready, Sleeping

LEMMA AskAgainKeeps ==
    ASSUME IInv, NEW d \in Devices, Asking(d), NEW next \in AskAgain(d),
           device' = [device EXCEPT ![d] = next], UNCHANGED <<link, shown, holder>>
    PROVE  DeviceInv'
<1>1. next \in Device
  BY AskAgainType DEF IInv
<1>2. \/ next = Off
      \/ \E n, w : next = Sleeping(device[d].secret, n, w)
  BY DEF AskAgain
<1>3. device[d].secret # NULL
  BY DEF Asking, IInv, DeviceInv, SecretsShown
<1>4. /\ next.secret \in {NULL, device[d].secret} /\ next.pc # "ready"
      /\ next.pc = "sleeping" => next.secret # NULL
  BY <1>2, <1>3, Fields
<1> QED BY <1>1, <1>4, SecretKept

LEMMA PollKeeps ==
    ASSUME IInv, NEW d \in Devices, pollKindlePairing(d)
    PROVE  DeviceInv'
<1> DEFINE k == device[d].secret
<1>1. UNCHANGED <<link, shown, holder>> /\ Asking(d)
  BY DEF pollKindlePairing
<1>2. k # NULL /\ k \in Pairings
  BY <1>1 DEF Asking, IInv, ServerInv, TypeOK, Device, DeviceInv, SecretsShown
<1>3. CASE device' = [device EXCEPT ![d] = Off]
  BY <1>1, <1>3, Shapes, Fields, SecretKept
<1>4. CASE Valid(k) /\ pairings[k].claimed # NULL /\ device' = [device EXCEPT ![d] = Ready(k)]
  <2>1. pairings[k].claimed \in Tokens /\ Owns(pairings[k].claimed, k)
    BY <1>2, <1>4 DEF Valid, IInv, ServerInv, TypeOK, Pairing, PairingsMatchTokens
  <2>2. holder[k] # NULL
    BY <1>2, <2>1, KindlePairingAssumption
       DEF IInv, ServerInv, TypeOK, Token, PairingsMatchTokens, Owns
  <2> QED BY <1>1, <1>2, <1>4, <2>2, Shapes, Fields, SecretKept
<1>5. CASE \E next \in AskAgain(d) : device' = [device EXCEPT ![d] = next]
  BY <1>1, <1>5, AskAgainKeeps
<1> QED BY <1>3, <1>4, <1>5 DEF pollKindlePairing

LEMMA AdoptKeeps ==
    ASSUME IInv, NEW d \in Devices, adopt(d)
    PROVE  DeviceInv'
<1>1. /\ device[d].pc = "ready" /\ UNCHANGED <<shown, holder>>
      /\ \A e \in Devices : device'[e] = IF e = d THEN Off ELSE device[e]
      /\ \A e \in Devices : link'[e] = IF e = d THEN device[d].secret ELSE link[e]
  BY DEF adopt, IInv, ServerInv, TypeOK
<1>2. \A e \in Devices : Knows(e)' \subseteq Knows(e)
  BY <1>1, Fields DEF Knows
<1>3. SecretsUnshared'
  BY <1>2 DEF IInv, DeviceInv, SecretsUnshared
<1>4. SecretsShown' /\ LinksAreClaimed'
  BY <1>1, Fields DEF IInv, DeviceInv, SecretsShown, LinksAreClaimed
<1> QED BY <1>3, <1>4 DEF DeviceInv

(* A secret that is drawn has not been drawn before.                       *)
LEMMA CreateKeeps ==
    ASSUME IInv, NEW d \in Devices, createPairing(d)
    PROVE  DeviceInv'
<1>1. UNCHANGED <<link, holder>>
  BY DEF createPairing
<1>2. CASE device' = [device EXCEPT ![d] = Off] /\ UNCHANGED shown
  BY <1>1, <1>2, Shapes, Fields, SecretKept
<1>3. ASSUME NEW k \in Pairings \ issued, NEW w \in 1..Slow, shown' = shown \cup {k},
             device' = [device EXCEPT ![d] = Sleeping(k, Polls, w)]
      PROVE  DeviceInv'
  <2>1. \A e \in Devices : device'[e] = IF e = d THEN Sleeping(k, Polls, w) ELSE device[e]
    BY <1>3 DEF IInv, ServerInv, TypeOK
  <2>2. \A e \in Devices : k \notin Knows(e)
    BY DEF Knows, IInv, ServerInv, IdsIssued, DeviceInv, SecretsShown, LinksAreClaimed
  <2>3. k # NULL
    BY KindlePairingAssumption
  <2>4. \A e \in Devices : Knows(e)' \subseteq IF e = d THEN Knows(e) \cup {k} ELSE Knows(e)
    BY <1>1, <2>1, Fields DEF Knows
  <2>5. SecretsUnshared'
    BY <2>2, <2>4 DEF IInv, DeviceInv, SecretsUnshared
  <2>6. SecretsShown' /\ LinksAreClaimed'
    BY <1>1, <1>3, <2>1, <2>3, Fields DEF IInv, DeviceInv, SecretsShown, LinksAreClaimed
  <2> QED BY <2>5, <2>6 DEF DeviceInv
<1> QED BY <1>2, <1>3 DEF createPairing

LEMMA TickKeeps ==
    ASSUME IInv, Tick
    PROVE  DeviceInv'
<1>1. UNCHANGED <<link, shown, holder>>
  BY DEF Tick
<1>2. \A d \in Devices : device'[d].secret = device[d].secret /\ device'[d].pc = device[d].pc
  BY Fields DEF Tick
<1>3. SecretsUnshared'
  BY <1>1, <1>2 DEF IInv, DeviceInv, SecretsUnshared, Knows
<1>4. SecretsShown' /\ LinksAreClaimed'
  BY <1>1, <1>2 DEF IInv, DeviceInv, SecretsShown, LinksAreClaimed
<1> QED BY <1>3, <1>4 DEF DeviceInv

LEMMA WebKeeps ==
    ASSUME IInv, NEW c \in Clients, Web(c)
    PROVE  DeviceInv'
<1>1. UNCHANGED <<device, link, shown>>
  BY DEF Web, claimKindlePairing, commitClaim, Bind, createDisplayToken, deleteDisplayToken,
         putDisplaySchedule, commitSchedule, refuse
<1>2. CASE UNCHANGED holder
  BY <1>1, <1>2, DevicesRest
<1>3. CASE commitClaim(c)
  <2>1. \A k \in Pairings : holder'[k] \in {HouseholdOf[c], holder[k]}
    BY <1>3 DEF commitClaim, Bind, IInv, ServerInv, TypeOK
  <2>2. HouseholdOf[c] # NULL
    BY KindlePairingAssumption
  <2> QED BY <1>1, <2>1, <2>2, DevicesRest
<1> QED
  BY <1>2, <1>3 DEF Web, claimKindlePairing, createDisplayToken, deleteDisplayToken,
                    putDisplaySchedule, commitSchedule, refuse

LEMMA InitInvariant == Init => IInv
<1> SUFFICES ASSUME Init PROVE DeviceInv
  BY ServerInit DEF IInv
<1>1. \A d \in Devices : device[d] = Off /\ link[d] = NULL
  BY DEF Init
<1>2. \A d \in Devices : Knows(d) = {}
  BY <1>1, Fields DEF Knows
<1> QED BY <1>1, <1>2, Fields DEF DeviceInv, SecretsShown, SecretsUnshared, LinksAreClaimed

LEMMA NextInvariant == IInv /\ [Next]_vars => IInv'
<1> SUFFICES ASSUME IInv, [Next]_vars PROVE DeviceInv'
  BY ServerNext DEF IInv
<1>1. CASE UNCHANGED vars
  BY <1>1, DevicesRest DEF vars
<1>2. ASSUME NEW d \in Devices, startKindlePairing(d) \/ crash(d)
      PROVE  DeviceInv'
  BY <1>2, Shapes, Fields, SecretKept DEF startKindlePairing, crash
<1>3. ASSUME NEW d \in Devices, pollLost(d)
      PROVE  DeviceInv'
  BY <1>3, AskAgainKeeps DEF pollLost
<1> QED
  BY <1>1, <1>2, <1>3, WebKeeps, CreateKeeps, PollKeeps, AdoptKeeps, TickKeeps DEF Next, Pair

-----------------------------------------------------------------------------
(* The invariant of every behaviour.                                       *)
THEOREM Invariant == Spec => []IInv
  BY InitInvariant, NextInvariant, PTL DEF Spec

(* Tables, requests and devices hold well-formed rows.                     *)
THEOREM TypeCorrect == Spec => []TypeOK
<1>1. IInv => TypeOK
  BY DEF IInv, ServerInv
<1> QED BY <1>1, Invariant, PTL

(* A claimed pairing has its token, and a code that may still be claimed   *)
(* has none, whatever claims, deletions and expiries overlap.              *)
THEOREM PairingsConsistent == Spec => []PairingsMatchTokens
<1>1. IInv => PairingsMatchTokens
  BY DEF IInv, ServerInv
<1> QED BY <1>1, Invariant, PTL

(* A schedule is of a display that exists, and of its household.           *)
THEOREM SchedulesConsistent == Spec => []SchedulesHaveDisplays
<1>1. IInv => SchedulesHaveDisplays
  BY DEF IInv, ServerInv
<1> QED BY <1>1, Invariant, PTL

(* A device's link was claimed by an owner from a code the device showed.  *)
THEOREM LinksClaimed == Spec => []LinksAreClaimed
<1>1. IInv => LinksAreClaimed
  BY DEF IInv, DeviceInv
<1> QED BY <1>1, Invariant, PTL

(* No two devices ever have the secret of one display.                     *)
THEOREM OneDevicePerSecret == Spec => []SecretsUnshared
<1>1. IInv => SecretsUnshared
  BY DEF IInv, DeviceInv
<1> QED BY <1>1, Invariant, PTL

-----------------------------------------------------------------------------
(* Pairing codes implement OneTimeCode.                                    *)

LEMMA CodeInit == Init => Code!Init
<1> SUFFICES ASSUME Init PROVE Code!Init
  OBVIOUS
<1>1. \A k \in Pairings : Status(k) = "new"
  BY DEF Init, Status
<1> QED BY <1>1 DEF Init, Code!Init

(* A step after which every code has the same status is no step.           *)
LEMMA CodeStutters ==
    ASSUME UNCHANGED holder, \A k \in Pairings : Status(k)' = Status(k)
    PROVE  UNCHANGED Code!vars
  BY DEF Code!vars

LEMMA SameStatus ==
    ASSUME ServerInv, UNCHANGED holder, issued \subseteq issued',
           \A k \in Pairings : k \in issued' => k \in issued,
           \A k \in Pairings : pairings[k] # NULL =>
             /\ pairings[k].claimed = NULL => pairings'[k] # NULL
             /\ pairings'[k] # NULL => pairings'[k].claimed = pairings[k].claimed,
           \A k \in Pairings : pairings[k] = NULL => pairings'[k] = NULL
    PROVE  UNCHANGED Code!vars
<1>1. ASSUME NEW k \in Pairings
      PROVE  Status(k)' = Status(k)
  BY DEF Status
<1> QED BY <1>1, CodeStutters

LEMMA CodeNext == ServerInv /\ [Next]_vars => [Code!Next]_Code!vars
<1> SUFFICES ASSUME ServerInv, [Next]_vars PROVE [Code!Next]_Code!vars
  OBVIOUS
<1>1. CASE UNCHANGED <<pairings, issued, holder>>
  BY <1>1, SameStatus
<1>2. CASE Tick
  BY <1>2, TickRows, SameStatus DEF Tick
<1>3. ASSUME NEW c \in Clients, createDisplayToken(c)
      PROVE  UNCHANGED Code!vars
  <2>1. \A k \in Pairings : k \in issued' => k \in issued
    BY <1>3, KindlePairingAssumption DEF createDisplayToken
  <2> QED BY <1>3, <2>1, SameStatus DEF createDisplayToken
<1>4. ASSUME NEW c \in Clients, deleteDisplayToken(c)
      PROVE  UNCHANGED Code!vars
  <2>1. PICK t \in Tokens : pairings' = Cascade(t)
    BY <1>4 DEF deleteDisplayToken
  <2>2. t # NULL
    BY KindlePairingAssumption
  <2> QED BY <1>4, <2>1, <2>2, SameStatus DEF deleteDisplayToken, Cascade
<1>5. ASSUME NEW d \in Devices, startKindlePairing(d)
      PROVE  Code!Next
  <2> DEFINE K == {k \in Pairings : pairings[k] # NULL /\ pairings[k].age > Lifetime
                                      /\ pairings[k].claimed = NULL}
  <2>1. \A k \in K : Status(k) = "open"
    BY DEF ServerInv, IdsIssued, Status
  <2>2. \A k \in Pairings : Status(k)' = IF k \in K THEN "spent" ELSE Status(k)
    BY <1>5 DEF startKindlePairing, Status, ServerInv, IdsIssued
  <2>3. Code!Clear(K)
    BY <1>5, <2>1, <2>2 DEF Code!Clear, startKindlePairing
  <2>4. K \in SUBSET Pairings
    OBVIOUS
  <2> HIDE DEF K
  <2> QED BY <2>3, <2>4 DEF Code!Next
<1>6. ASSUME NEW d \in Devices, createPairing(d)
      PROVE  Code!Next
  <2>1. PICK k \in Pairings \ issued :
          /\ pairings' = [pairings EXCEPT ![k] = [age |-> 0, claimed |-> NULL]]
          /\ issued' = issued \cup {k}
    BY <1>6 DEF createPairing
  <2>2. [age |-> 0, claimed |-> NULL] # NULL
    BY KindlePairingAssumption DEF Pairing
  <2>3. Status(k) = "new" /\ Status(k)' = "open"
    BY <2>1, <2>2 DEF Status, ServerInv, TypeOK
  <2>4. \A m \in Pairings \ {k} : Status(m)' = Status(m)
    BY <2>1 DEF Status, ServerInv, TypeOK
  <2>5. Code!Issue(k)
    BY <1>6, <2>3, <2>4 DEF Code!Issue, createPairing
  <2> QED BY <2>5 DEF Code!Next
<1>7. ASSUME NEW c \in Clients, commitClaim(c)
      PROVE  Code!Next
  <2>1. PICK k \in Pairings :
          k = req[c].pairing /\ pairings[k] # NULL /\ pairings[k].claimed = NULL
    BY <1>7 DEF commitClaim, Serving, Idle, ServerInv, RequestsOK, ClaimOK
  <2>2. PICK t \in Tokens :
          /\ pairings' = [pairings EXCEPT ![k] = [age |-> pairings[k].age, claimed |-> t]]
          /\ issued' = issued \cup {t}
          /\ holder' = [holder EXCEPT ![k] = HouseholdOf[c]]
    BY <1>7, <2>1 DEF commitClaim, Bind
  <2>3. t # NULL /\ \A m \in Pairings : m # t
    BY KindlePairingAssumption
  <2>4. Status(k) = "open" /\ Status(k)' = "spent"
    BY <2>1, <2>2, <2>3 DEF Status, ServerInv, IdsIssued, TypeOK
  <2>5. \A m \in Pairings \ {k} : Status(m)' = Status(m)
    BY <2>2, <2>3 DEF Status, ServerInv, TypeOK
  <2>6. Code!Claim(k, HouseholdOf[c])
    BY <2>1, <2>2, <2>4, <2>5 DEF Code!Claim
  <2>7. HouseholdOf[c] \in Households
    BY KindlePairingAssumption
  <2> QED BY <2>1, <2>6, <2>7 DEF Code!Next
<1> QED
  BY <1>1, <1>2, <1>3, <1>4, <1>5, <1>6, <1>7
  DEF Next, Web, Pair, vars, claimKindlePairing, putDisplaySchedule, commitSchedule,
      refuse, pollKindlePairing, pollLost, adopt, crash

(* A code is open once, is claimed at most once, for one household, and    *)
(* never opens again.                                                      *)
THEOREM OneTimeCodes == Spec => CodesAreOneTime
<1>1. IInv => ServerInv
  BY DEF IInv
<1> QED BY <1>1, CodeInit, CodeNext, Invariant, PTL DEF Spec, CodesAreOneTime, Code!Spec
=============================================================================
