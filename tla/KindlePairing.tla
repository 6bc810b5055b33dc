---------------------------- MODULE KindlePairing ----------------------------
(***************************************************************************)
(* How a Kindle becomes a household's display: internal/pantry/            *)
(* kindle_pairing.go, the handlers of display tokens and schedules, and    *)
(* deploy/kindle/pair.sh on the device.                                    *)
(*                                                                         *)
(* The device asks for a code and a secret, shows the code and polls with  *)
(* the secret; an owner types the code into the web page, which makes the  *)
(* secret a display token of the household.  A pairing k stands for both   *)
(* code and secret.  Time passes in steps of any length.                   *)
(***************************************************************************)
EXTENDS Naturals

CONSTANTS
    Devices,
    Clients,        \* the handlers of the web page that may run at one time
    Households,
    HouseholdOf,    \* the household of the owner behind each client
    Pairings, Tokens,   \* ids, codes and secrets that may be handed out
    Lifetime,       \* how long a code is valid: ten minutes
    Polls,          \* how often the device asks: 110 times
    Slow,           \* the longest time between two polls: 5 s, 10 s of curl, 30 s if 429
    Failures,       \* {"crash", "loss"}, or fewer: what may go wrong here
    NULL

Pairing == [age : 0..(Lifetime + 1), claimed : Tokens \cup {NULL}]
Token == [household : Households, secret : Pairings \cup {NULL}]

(* current = 1: nothing was committed since the transaction's first read.  *)
Request == [op : {"claim", "schedule"}, pairing : Pairings \cup {NULL},
            token : Tokens \cup {NULL}, current : {0, 1}]

ASSUME KindlePairingAssumption ==
    /\ HouseholdOf \in [Clients -> Households]
    /\ Lifetime \in Nat /\ Polls \in Nat \ {0} /\ Slow \in Nat \ {0}
    /\ NULL \notin Pairings \cup Tokens \cup Households
    /\ Pairings \cap Tokens = {}
    /\ NULL \notin Pairing /\ NULL \notin Token /\ NULL \notin Request

VARIABLES
    pairings,   \* kindle_pairings: age and claimed_id, or NULL
    tokens,     \* display_tokens: household and the pairing whose secret it is
    schedules,  \* display_schedules: the household that set it, or NULL
    issued,     \* pairings and tokens that have been handed out
    shown,      \* codes a device has shown on its screen
    req,        \* req[c]: the request c's handler is serving, or NULL
    device,     \* device[d]: pair.sh
    link,       \* link[d]: image-url.txt, the secret in it, or NULL
    holder      \* holder[k]: the household that claimed k (history)

vars == <<pairings, tokens, schedules, issued, shown, req, device, link, holder>>

(* polls is how often it will still ask, wait the time until it asks.      *)
Device == [pc : {"off", "starting", "sleeping", "ready"}, secret : Pairings \cup {NULL},
           polls : 0..Polls, wait : 0..Slow]

Off == [pc |-> "off", secret |-> NULL, polls |-> 0, wait |-> 0]
Starting == [pc |-> "starting", secret |-> NULL, polls |-> 0, wait |-> 0]
Sleeping(k, n, w) == [pc |-> "sleeping", secret |-> k, polls |-> n, wait |-> w]
Ready(k) == [pc |-> "ready", secret |-> k, polls |-> 0, wait |-> 0]

TypeOK ==
    /\ pairings \in [Pairings -> Pairing \cup {NULL}]
    /\ tokens \in [Tokens -> Token \cup {NULL}]
    /\ schedules \in [Tokens -> Households \cup {NULL}]
    /\ issued \subseteq Pairings \cup Tokens
    /\ shown \subseteq Pairings
    /\ req \in [Clients -> Request \cup {NULL}]
    /\ device \in [Devices -> Device]
    /\ link \in [Devices -> Pairings \cup {NULL}]
    /\ holder \in [Pairings -> Households \cup {NULL}]

Init ==
    /\ pairings = [k \in Pairings |-> NULL]
    /\ tokens = [t \in Tokens |-> NULL]
    /\ schedules = [t \in Tokens |-> NULL]
    /\ issued = {}
    /\ shown = {}
    /\ req = [c \in Clients |-> NULL]
    /\ device = [d \in Devices |-> Off]
    /\ link = [d \in Devices |-> NULL]
    /\ holder = [k \in Pairings |-> NULL]

-----------------------------------------------------------------------------
Idle(c) == req[c] = NULL
Serving(c, op) == ~Idle(c) /\ req[c].op = op

(* A write is committed, and the requests in done are answered: the others *)
(* that are in a transaction have read an older snapshot.                  *)
Stale(q) == IF q = NULL THEN NULL ELSE [q EXCEPT !.current = 0]
Commit(done) == req' = [c \in Clients |-> IF c \in done THEN NULL ELSE Stale(req[c])]

refuse(c) ==
    /\ ~Idle(c)
    /\ req' = [req EXCEPT ![c] = NULL]
    /\ UNCHANGED <<pairings, tokens, schedules, issued, shown, device, link, holder>>

-----------------------------------------------------------------------------
(* startKindlePairing, called by pair.sh: two statements.                  *)

(* DELETE FROM kindle_pairings WHERE expires_at<now                        *)
startKindlePairing(d) ==
    /\ device[d].pc = "off"
    /\ device' = [device EXCEPT ![d] = Starting]
    /\ pairings' = [k \in Pairings |->
         IF pairings[k] # NULL /\ pairings[k].age > Lifetime THEN NULL ELSE pairings[k]]
    /\ IF pairings' = pairings THEN UNCHANGED req ELSE Commit({})
    /\ UNCHANGED <<tokens, schedules, issued, shown, link, holder>>

(* expires_at has not passed.                                              *)
Valid(k) == pairings[k] # NULL /\ pairings[k].age < Lifetime

(* The row is inserted, and the answer reaches the device or does not.     *)
createPairing(d) ==
    /\ device[d].pc = "starting"
    /\ \E k \in Pairings \ issued :
        /\ pairings' = [pairings EXCEPT ![k] = [age |-> 0, claimed |-> NULL]]
        /\ issued' = issued \cup {k}
        /\ \/ /\ \E w \in 1..Slow : device' = [device EXCEPT ![d] = Sleeping(k, Polls, w)]
              /\ shown' = shown \cup {k}
           \/ /\ "loss" \in Failures
              /\ device' = [device EXCEPT ![d] = Off]
              /\ UNCHANGED shown
    /\ Commit({})
    /\ UNCHANGED <<tokens, schedules, link, holder>>

-----------------------------------------------------------------------------
(* claimKindlePairing: a transaction that begins with a read, so it does   *)
(* not hold the write lock until it writes.                                *)

claimKindlePairing(c) ==
    /\ Idle(c)
    /\ \E k \in shown :
        /\ Valid(k) /\ pairings[k].claimed = NULL
        /\ req' = [req EXCEPT ![c] = [op |-> "claim", pairing |-> k, token |-> NULL, current |-> 1]]
    /\ UNCHANGED <<pairings, tokens, schedules, issued, shown, device, link, holder>>

Owns(t, k) == tokens[t] # NULL /\ tokens[t].secret = k

(* INSERT INTO display_tokens, whose token_hash is UNIQUE, and             *)
(* UPDATE kindle_pairings ... WHERE secret_hash=? AND claimed_id IS NULL   *)
Bind(c, k) ==
    /\ \A t \in Tokens : ~Owns(t, k)
    /\ \E t \in Tokens \ issued :
        /\ tokens' = [tokens EXCEPT ![t] = [household |-> HouseholdOf[c], secret |-> k]]
        /\ issued' = issued \cup {t}
        /\ pairings' =
             IF pairings[k] # NULL /\ pairings[k].claimed = NULL
               THEN [pairings EXCEPT ![k] = [age |-> pairings[k].age, claimed |-> t]]
               ELSE pairings
    /\ holder' = [holder EXCEPT ![k] = HouseholdOf[c]]
    /\ Commit({c})
    /\ UNCHANGED <<schedules, shown, device, link>>

(* A faulty variant: read and write are not in one transaction.            *)
bindUnchecked(c) ==
    /\ Serving(c, "claim")
    /\ Bind(c, req[c].pairing)

(* A write in a transaction that has read an older snapshot fails: 409.    *)
commitClaim(c) ==
    /\ Serving(c, "claim")
    /\ req[c].current = 1
    /\ Bind(c, req[c].pairing)

-----------------------------------------------------------------------------
(* Display tokens and schedules.                                           *)

createDisplayToken(c) ==
    /\ Idle(c)
    /\ \E t \in Tokens \ issued :
        /\ tokens' = [tokens EXCEPT ![t] = [household |-> HouseholdOf[c], secret |-> NULL]]
        /\ issued' = issued \cup {t}
    /\ Commit({})
    /\ UNCHANGED <<pairings, schedules, shown, device, link, holder>>

(* A faulty variant: the pairing stays.                                    *)
NoCascade(t) == pairings

(* ON DELETE CASCADE of claimed_id.                                        *)
Cascade(t) ==
    [k \in Pairings |-> IF pairings[k] # NULL /\ pairings[k].claimed = t THEN NULL ELSE pairings[k]]

deleteDisplayToken(c) ==
    /\ Idle(c)
    /\ \E t \in Tokens :
        /\ tokens[t] # NULL /\ tokens[t].household = HouseholdOf[c]
        /\ tokens' = [tokens EXCEPT ![t] = NULL]
        /\ schedules' = [schedules EXCEPT ![t] = NULL]
        /\ pairings' = Cascade(t)
    /\ Commit({})
    /\ UNCHANGED <<issued, shown, device, link, holder>>

(* ownedDisplay looks the display up, the upsert comes later.              *)
putDisplaySchedule(c) ==
    /\ Idle(c)
    /\ \E t \in Tokens :
        /\ tokens[t] # NULL /\ tokens[t].household = HouseholdOf[c]
        /\ req' = [req EXCEPT ![c] = [op |-> "schedule", pairing |-> NULL, token |-> t, current |-> 1]]
    /\ UNCHANGED <<pairings, tokens, schedules, issued, shown, device, link, holder>>

(* A faulty variant: no foreign key.                                       *)
upsertUnchecked(c) ==
    /\ Serving(c, "schedule")
    /\ schedules' = [schedules EXCEPT ![req[c].token] = HouseholdOf[c]]
    /\ Commit({c})
    /\ UNCHANGED <<pairings, tokens, issued, shown, device, link, holder>>

(* display_id is a foreign key.                                            *)
commitSchedule(c) ==
    /\ Serving(c, "schedule")
    /\ tokens[req[c].token] # NULL
    /\ schedules' = [schedules EXCEPT ![req[c].token] = HouseholdOf[c]]
    /\ Commit({c})
    /\ UNCHANGED <<pairings, tokens, issued, shown, device, link, holder>>

-----------------------------------------------------------------------------
(* pair.sh.                                                                *)

(* A faulty variant: nobody counts.                                        *)
Endless(d) == {Sleeping(device[d].secret, device[d].polls - 1, w) : w \in 1..Slow}

(* n has come one closer to 110.                                           *)
AskAgain(d) ==
    IF device[d].polls <= 1 THEN {Off}
    ELSE {Sleeping(device[d].secret, device[d].polls - 1, w) : w \in 1..Slow}

Asking(d) == device[d].pc = "sleeping" /\ device[d].wait = 0

(* A faulty variant: 200 for every code that has not expired.              *)
pollUnclaimed(d) ==
    /\ Asking(d)
    /\ LET k == device[d].secret IN
        device' = [device EXCEPT ![d] = IF Valid(k) THEN Ready(k) ELSE Off]
    /\ UNCHANGED <<pairings, tokens, schedules, issued, shown, req, link, holder>>

(* pollKindlePairing answers 410, 200 or 202; a read that fails is         *)
(* answered 410 as well.                                                   *)
pollKindlePairing(d) ==
    /\ Asking(d)
    /\ LET k == device[d].secret IN
        \/ /\ ~Valid(k) \/ "loss" \in Failures
           /\ device' = [device EXCEPT ![d] = Off]
        \/ /\ Valid(k) /\ pairings[k].claimed # NULL
           /\ device' = [device EXCEPT ![d] = Ready(k)]
        \/ /\ Valid(k) /\ pairings[k].claimed = NULL
           /\ \E next \in AskAgain(d) : device' = [device EXCEPT ![d] = next]
    /\ UNCHANGED <<pairings, tokens, schedules, issued, shown, req, link, holder>>

(* A faulty variant: a poll without an answer does not count.              *)
pollAgain(d) ==
    /\ "loss" \in Failures
    /\ Asking(d)
    /\ \E w \in 1..Slow : device' = [device EXCEPT ![d].wait = w]
    /\ UNCHANGED <<pairings, tokens, schedules, issued, shown, req, link, holder>>

(* curl fails, or the answer is 429.                                       *)
pollLost(d) ==
    /\ "loss" \in Failures
    /\ Asking(d)
    /\ \E next \in AskAgain(d) : device' = [device EXCEPT ![d] = next]
    /\ UNCHANGED <<pairings, tokens, schedules, issued, shown, req, link, holder>>

(* image-url.txt is replaced by one mv.                                    *)
adopt(d) ==
    /\ device[d].pc = "ready"
    /\ link' = [link EXCEPT ![d] = device[d].secret]
    /\ device' = [device EXCEPT ![d] = Off]
    /\ UNCHANGED <<pairings, tokens, schedules, issued, shown, req, holder>>

(* The device is switched off, or its first request failed.                *)
crash(d) ==
    /\ "crash" \in Failures
    /\ device[d].pc # "off"
    /\ device' = [device EXCEPT ![d] = Off]
    /\ UNCHANGED <<pairings, tokens, schedules, issued, shown, req, link, holder>>

(* A device asks when its time has come; ages are counted up to Lifetime+1.*)
Tick ==
    /\ \A d \in Devices : ~Asking(d)
    /\ pairings' = [k \in Pairings |->
         IF pairings[k] # NULL /\ pairings[k].age <= Lifetime
           THEN [age |-> pairings[k].age + 1, claimed |-> pairings[k].claimed]
           ELSE pairings[k]]
    /\ device' = [d \in Devices |->
         IF device[d].pc = "sleeping"
           THEN Sleeping(device[d].secret, device[d].polls, device[d].wait - 1)
           ELSE device[d]]
    /\ UNCHANGED <<tokens, schedules, issued, shown, req, link, holder>>

-----------------------------------------------------------------------------
Web(c) ==
    \/ claimKindlePairing(c) \/ commitClaim(c) \/ createDisplayToken(c)
    \/ deleteDisplayToken(c) \/ putDisplaySchedule(c) \/ commitSchedule(c) \/ refuse(c)

Pair(d) == createPairing(d) \/ pollKindlePairing(d) \/ pollLost(d) \/ adopt(d)

Next ==
    \/ \E c \in Clients : Web(c)
    \/ \E d \in Devices : startKindlePairing(d) \/ Pair(d) \/ crash(d)
    \/ Tick

(* Time passes, and pair.sh goes on.  Nobody has to press a button.        *)
Spec ==
    /\ Init /\ [][Next]_vars
    /\ WF_vars(Tick)
    /\ \A d \in Devices : WF_vars(Pair(d))

-----------------------------------------------------------------------------
(* The table of pairings and the table of tokens agree: a claimed pairing  *)
(* has its token, and a token's pairing is claimed by it or gone, so a     *)
(* code that can still be claimed has not been claimed before.             *)
PairingsMatchTokens ==
    /\ \A k \in Pairings : pairings[k] # NULL /\ pairings[k].claimed # NULL =>
         Owns(pairings[k].claimed, k)
    /\ \A t \in Tokens, k \in Pairings : Owns(t, k) =>
         /\ tokens[t].household = holder[k]
         /\ pairings[k] # NULL => pairings[k].claimed = t

(* A schedule belongs to a display that exists and was set by its          *)
(* household, however a deletion overlaps the setting.                     *)
SchedulesHaveDisplays ==
    \A t \in Tokens : schedules[t] # NULL =>
        tokens[t] # NULL /\ tokens[t].household = schedules[t]

(* What a device takes for its link an owner has claimed, by a code that   *)
(* was on a screen; a Kindle nobody claimed keeps the link it had.         *)
LinksAreClaimed ==
    \A d \in Devices : link[d] # NULL => link[d] \in shown /\ holder[link[d]] # NULL

-----------------------------------------------------------------------------
(* The inductive invariant behind the theorems of KindlePairingProofs.     *)

(* Whatever a table or a request refers to has been handed out.            *)
IdsIssued ==
    /\ \A k \in Pairings : pairings[k] # NULL => k \in issued
    /\ \A t \in Tokens : tokens[t] # NULL => t \in issued
    /\ \A t \in Tokens, k \in Pairings : Owns(t, k) => k \in issued
    /\ shown \subseteq issued

(* As long as nothing was committed since, what a claim has read holds.    *)
ClaimOK(q) ==
    /\ q.pairing \in Pairings
    /\ q.current = 1 => pairings[q.pairing] # NULL /\ pairings[q.pairing].claimed = NULL

(* A display never changes hands.                                          *)
ScheduleOK(c, q) ==
    /\ q.token \in Tokens \cap issued
    /\ tokens[q.token] # NULL => tokens[q.token].household = HouseholdOf[c]

RequestsOK ==
    \A c \in Clients : req[c] # NULL =>
        /\ req[c].op = "claim" => ClaimOK(req[c])
        /\ req[c].op = "schedule" => ScheduleOK(c, req[c])

(* A secret is known to the one device it was given to, for as long as the *)
(* device waits and ever after it has taken the link: two Kindles are      *)
(* never the same display.                                                 *)
Knows(d) == {device[d].secret, link[d]} \ {NULL}
SecretsUnshared == \A d, e \in Devices : d # e => Knows(d) \cap Knows(e) = {}

(* Why LinksAreClaimed holds: a device asks for what it has shown, and is  *)
(* ready only when an owner has claimed it.                                *)
SecretsShown ==
    \A d \in Devices :
        /\ device[d].pc \in {"sleeping", "ready"} => device[d].secret # NULL
        /\ device[d].secret # NULL => device[d].secret \in shown
        /\ device[d].pc = "ready" => holder[device[d].secret] # NULL

ServerInv ==
    /\ TypeOK /\ IdsIssued /\ RequestsOK
    /\ PairingsMatchTokens /\ SchedulesHaveDisplays

DeviceInv == SecretsShown /\ SecretsUnshared /\ LinksAreClaimed

IInv == ServerInv /\ DeviceInv

-----------------------------------------------------------------------------
(* Whatever the network does, pair.sh ends and lets the user start anew.   *)
PairingEnds == \A d \in Devices : device[d].pc = "sleeping" ~> device[d].pc = "off"

(* A code is claimed at most once, by one household, and never opens again.*)
Status(k) ==
    IF k \notin issued THEN "new"
    ELSE IF pairings[k] # NULL /\ pairings[k].claimed = NULL THEN "open" ELSE "spent"

Code == INSTANCE OneTimeCode WITH status <- [k \in Pairings |-> Status(k)]

CodesAreOneTime == Code!Spec

(* What the web page says after a claim: the Kindle will fetch its         *)
(* configuration by itself.                                                *)
Claimed(k) == \E t \in Tokens : Owns(t, k)
ClaimReachesDevice ==
    \A k \in Pairings : Claimed(k) ~> (~Claimed(k) \/ \E d \in Devices : link[d] = k)
=============================================================================
