---------------------------- MODULE ScheduleEditor ----------------------------
(***************************************************************************)
(* The refresh times of one display: the editors of                        *)
(* components/KindleSchedule.vue on its owners' pages, and the handlers of *)
(* internal/pantry/kindle_handlers.go they ask.                            *)
(*                                                                         *)
(* An editor has one request at a time, but its draft may be edited while  *)
(* that is under way.  A handler checks the display, writes and reads the  *)
(* schedule in separate steps.  A request may fail at any of them; one the *)
(* browser has given up may still be written by the server.                *)
(***************************************************************************)
EXTENDS RefreshSchedule, SequencesExt

CONSTANTS
    Editors,
    FormWindows,              \* 32: the windows at which the form offers no more
    Days, Clocks, Intervals,  \* what this instance's users choose
    MaxEdits,                 \* bound on the edits of all drafts
    MaxVersions,              \* bound on the changes of the stored schedule
    MaxLate                   \* bound on the saves given up while the server has them

ASSUME ScheduleEditorAssumption ==
    /\ FormWindows \in Nat /\ FormWindows <= MaxWindows
    /\ Days \subseteq Weekdays /\ Clocks \subseteq 0..1439 /\ Intervals \subseteq Nat
    /\ MaxEdits \in Nat /\ MaxVersions \in Nat /\ MaxLate \in Nat
    /\ NULL \notin Schedule

Answer == [schedule : Schedule, server_time : Week, next : Nat \cup {NULL}, version : Nat]

ASSUME AnswerAssumption == NULL \notin Answer

VARIABLES
    exists,    \* whether display_tokens has the display
    stored,    \* its row of display_schedules, or NULL
    version,   \* how often the schedule has changed (history)
    late,      \* the schedules of abandoned requests the server still has
    schedule,  \* schedule[p]: the draft of editor p, or NULL
    next,      \* next[p]: the next slot it shows, or NULL
    pc,        \* pc[p]: where its request is; it is busy unless "idle"
    body,      \* body[p]: the schedule of its save, or NULL
    answer,    \* answer[p]: the response, or NULL
    wrote,     \* wrote[p]: the version its save has written (history)
    seen,      \* seen[p]: the version its untouched draft shows, or NULL (history)
    edits      \* the number of edits

server == <<exists, stored, version, late>>
editor == <<schedule, next>>
request == <<pc, body, answer, wrote>>
history == <<seen, edits>>
vars == <<server, editor, request, history>>

TypeOK ==
    /\ exists \in BOOLEAN
    /\ stored \in Schedule \cup {NULL}
    /\ version \in Nat
    /\ late \subseteq Schedule
    /\ schedule \in [Editors -> Schedule \cup {NULL}]
    /\ next \in [Editors -> Nat \cup {NULL}]
    /\ pc \in [Editors -> {"idle", "get", "read", "loaded", "put", "write", "reread", "saved"}]
    /\ body \in [Editors -> Schedule \cup {NULL}]
    /\ answer \in [Editors -> Answer \cup {NULL}]
    /\ wrote \in [Editors -> Nat]
    /\ seen \in [Editors -> Nat \cup {NULL}]
    /\ edits \in Nat

Init ==
    /\ exists = TRUE /\ stored = NULL /\ version = 0 /\ late = {}
    /\ schedule = [p \in Editors |-> NULL] /\ next = [p \in Editors |-> NULL]
    /\ pc = [p \in Editors |-> "idle"]
    /\ body = [p \in Editors |-> NULL] /\ answer = [p \in Editors |-> NULL]
    /\ wrote = [p \in Editors |-> 0] /\ seen = [p \in Editors |-> NULL]
    /\ edits = 0

-----------------------------------------------------------------------------
(* The buttons that ask the server.                                        *)

load(p) ==
    /\ schedule[p] = NULL /\ pc[p] = "idle"
    /\ pc' = [pc EXCEPT ![p] = "get"]
    /\ UNCHANGED <<server, schedule, next, body, answer, wrote, history>>

save(p) ==
    /\ schedule[p] # NULL /\ pc[p] = "idle"
    /\ pc' = [pc EXCEPT ![p] = "put"]
    /\ body' = [body EXCEPT ![p] = schedule[p]]
    /\ UNCHANGED <<server, schedule, next, answer, wrote, history>>

-----------------------------------------------------------------------------
(* The fields of the form.                                                 *)

Draft(p, s) ==
    /\ edits < MaxEdits
    /\ edits' = edits + 1
    /\ schedule' = [schedule EXCEPT ![p] = s]
    /\ seen' = [seen EXCEPT ![p] = NULL]
    /\ UNCHANGED <<server, next, request>>

SetWindow(p, i, w) ==
    Draft(p, ScheduleOf(schedule[p].enabled, [schedule[p].windows EXCEPT ![i] = w]))

setEnabled(p) ==
    /\ schedule[p] # NULL
    /\ Draft(p, ScheduleOf(1 - schedule[p].enabled, schedule[p].windows))

(* A faulty variant: one window more than the form offers.                 *)
addWindowTooMany(p) ==
    /\ schedule[p] # NULL /\ Len(schedule[p].windows) <= FormWindows
    /\ Draft(p, ScheduleOf(schedule[p].enabled,
         Append(schedule[p].windows, WindowOf(1..5, 1080, 1440, 30))))

addWindow(p) ==
    /\ schedule[p] # NULL /\ Len(schedule[p].windows) < FormWindows
    /\ Draft(p, ScheduleOf(schedule[p].enabled,
         Append(schedule[p].windows, WindowOf(1..5, 1080, 1440, 30))))

splice(p, i) ==
    /\ schedule[p] # NULL /\ i \in DOMAIN schedule[p].windows
    /\ Draft(p, ScheduleOf(schedule[p].enabled, RemoveAt(schedule[p].windows, i)))

toggle(p, i) ==
    /\ schedule[p] # NULL /\ i \in DOMAIN schedule[p].windows
    /\ \E d \in Days : LET w == schedule[p].windows[i] IN
         SetWindow(p, i, WindowOf(IF d \in w.days THEN w.days \ {d} ELSE w.days \cup {d},
                                  w.start, w.end, w.interval))

(* A faulty variant: what a cleared time input holds is no number.         *)
setStartUnparsed(p, i) ==
    /\ schedule[p] # NULL /\ i \in DOMAIN schedule[p].windows
    /\ LET w == schedule[p].windows[i] IN
         SetWindow(p, i, WindowOf(w.days, NULL, w.end, w.interval))

(* minutes: a time input that is cleared counts as 00:00.                  *)
setStart(p, i) ==
    /\ schedule[p] # NULL /\ i \in DOMAIN schedule[p].windows
    /\ \E m \in Clocks : LET w == schedule[p].windows[i] IN
         SetWindow(p, i, WindowOf(w.days, m, w.end, w.interval))

(* 24:00 and 23:00 are chosen from a list, other ends are typed.           *)
setEnd(p, i) ==
    /\ schedule[p] # NULL /\ i \in DOMAIN schedule[p].windows
    /\ LET w == schedule[p].windows[i] IN
         \E m \in IF w.end = 1440 THEN {1380} ELSE Clocks \cup {1440} :
           SetWindow(p, i, WindowOf(w.days, w.start, m, w.interval))

setInterval(p, i) ==
    /\ schedule[p] # NULL /\ i \in DOMAIN schedule[p].windows
    /\ \E m \in Intervals : LET w == schedule[p].windows[i] IN
         SetWindow(p, i, WindowOf(w.days, w.start, w.end, m))

(* The settings are left and opened again.                                 *)
leave(p) ==
    /\ schedule[p] # NULL /\ pc[p] = "idle"
    /\ schedule' = [schedule EXCEPT ![p] = NULL]
    /\ next' = [next EXCEPT ![p] = NULL]
    /\ seen' = [seen EXCEPT ![p] = NULL]
    /\ UNCHANGED <<server, request, edits>>

-----------------------------------------------------------------------------
(* The server.                                                             *)

(* A faulty variant: every read misses the row.                            *)
StoredMissed == DefaultSchedule

(* readDisplaySchedule, without its error for a schedule that is invalid.  *)
Stored == IF stored = NULL THEN DefaultSchedule ELSE stored

AnswerOf(s, t, n, v) == [schedule |-> s, server_time |-> t, next |-> n, version |-> v]

ownedDisplay(p) ==
    /\ pc[p] \in {"get", "put"} /\ exists
    /\ pc' = [pc EXCEPT ![p] = IF pc[p] = "get" THEN "read" ELSE "write"]
    /\ UNCHANGED <<server, editor, body, answer, wrote, history>>

(* Faulty variants: without Validate, and without the foreign key.         *)
PutUnchecked(s) ==
    /\ exists /\ version < MaxVersions
    /\ stored' = s /\ version' = version + 1
    /\ UNCHANGED exists
PutOrphan(s) ==
    /\ Validate(s)
    /\ version < MaxVersions
    /\ stored' = s /\ version' = version + 1
    /\ UNCHANGED exists

(* The foreign key lets no schedule be inserted without its display.       *)
Put(s) ==
    /\ Validate(s)
    /\ exists /\ version < MaxVersions
    /\ stored' = s /\ version' = version + 1
    /\ UNCHANGED exists

putDisplaySchedule(p) ==
    /\ pc[p] = "write" /\ Put(body[p])
    /\ pc' = [pc EXCEPT ![p] = "reread"]
    /\ wrote' = [wrote EXCEPT ![p] = version + 1]
    /\ UNCHANGED <<late, editor, body, answer, history>>

(* A faulty variant: the schedule is read before it is written.            *)
scheduleResponseEarly(p) ==
    /\ pc[p] \in {"read", "write", "reread"} /\ Validate(Stored)
    /\ IF pc[p] = "reread" /\ answer[p] # NULL
         THEN /\ pc' = [pc EXCEPT ![p] = "saved"] /\ UNCHANGED answer
         ELSE /\ pc' = [pc EXCEPT ![p] = IF pc[p] = "read" THEN "loaded" ELSE pc[p]]
              /\ \E t \in Instants :
                   answer' = [answer EXCEPT ![p] = AnswerOf(Stored, t, NextSlot(Stored, t), version)]
    /\ UNCHANGED <<server, editor, body, wrote, history>>

scheduleResponse(p) ==
    /\ pc[p] \in {"read", "reread"} /\ Validate(Stored)
    /\ pc' = [pc EXCEPT ![p] = IF pc[p] = "read" THEN "loaded" ELSE "saved"]
    /\ \E t \in Instants :
         answer' = [answer EXCEPT ![p] = AnswerOf(Stored, t, NextSlot(Stored, t), version)]
    /\ UNCHANGED <<server, editor, body, wrote, history>>

(* An abandoned save is written or refused.                                *)
putLate(s) ==
    /\ s \in late /\ late' = late \ {s}
    /\ Put(s) \/ UNCHANGED <<exists, stored, version>>
    /\ UNCHANGED <<editor, request, history>>

(* The display is revoked, and its schedule deleted with it.               *)
revokeDisplay ==
    /\ exists /\ version < MaxVersions
    /\ exists' = FALSE /\ stored' = NULL /\ version' = version + 1
    /\ UNCHANGED <<late, editor, request, history>>

-----------------------------------------------------------------------------
(* The editor goes on.                                                     *)

Idle(p) ==
    /\ pc' = [pc EXCEPT ![p] = "idle"]
    /\ body' = [body EXCEPT ![p] = NULL]
    /\ answer' = [answer EXCEPT ![p] = NULL]
    /\ wrote' = [wrote EXCEPT ![p] = 0]

(* A faulty variant: after a save the form stays as it is.                 *)
answeredToLoadOnly(p) ==
    /\ pc[p] \in {"loaded", "saved"} /\ answer[p] # NULL
    /\ schedule' = IF pc[p] = "saved" THEN schedule ELSE [schedule EXCEPT ![p] = answer[p].schedule]
    /\ next' = [next EXCEPT ![p] = answer[p].next]
    /\ seen' = [seen EXCEPT ![p] = answer[p].version]
    /\ Idle(p)
    /\ UNCHANGED <<server, edits>>

answered(p) ==
    /\ pc[p] \in {"loaded", "saved"} /\ answer[p] # NULL
    /\ schedule' = [schedule EXCEPT ![p] = answer[p].schedule]
    /\ next' = [next EXCEPT ![p] = answer[p].next]
    /\ seen' = [seen EXCEPT ![p] = answer[p].version]
    /\ Idle(p)
    /\ UNCHANGED <<server, edits>>

(* Refused, lost, or given up while the server has it.                     *)
fail(p) ==
    /\ pc[p] # "idle"
    /\ \/ UNCHANGED late
       \/ /\ pc[p] \in {"put", "write"} /\ Cardinality(late) < MaxLate
          /\ late' = late \cup {body[p]}
    /\ Idle(p)
    /\ UNCHANGED <<exists, stored, version, schedule, next, history>>

Edit(p) ==
    \/ setEnabled(p) \/ addWindow(p)
    \/ \E i \in 1..MaxWindows :
         splice(p, i) \/ toggle(p, i) \/ setStart(p, i) \/ setEnd(p, i) \/ setInterval(p, i)

Next ==
    \/ \E p \in Editors :
         \/ load(p) \/ save(p) \/ leave(p) \/ Edit(p)
         \/ ownedDisplay(p) \/ putDisplaySchedule(p) \/ scheduleResponse(p)
         \/ answered(p) \/ fail(p)
    \/ \E s \in late : putLate(s)
    \/ revokeDisplay

Spec == Init /\ [][Next]_vars

-----------------------------------------------------------------------------
(* No draft is refused for having too many windows, whether they were      *)
(* added here or came with an answer: the limit of the form                *)
(* (KindleSchedule.vue:33) lies within that of the server (schedule.go:39).*)
DraftFits ==
    \A p \in Editors : schedule[p] # NULL => Len(schedule[p].windows) <= MaxWindows

(* Whatever the editors make of their forms and in whatever order they     *)
(* save, the server can read what it has stored: neither an owner nor the  *)
(* device is ever answered with an error because of the schedule.          *)
StoredIsValid == Validate(Stored)

(* Whoever asks for an enabled schedule, the device or an owner, is told   *)
(* the next slot, soon enough for the device to accept it; for a disabled  *)
(* one, none.                                                              *)
AnswersTellNext ==
    \A p \in Editors : answer[p] # NULL =>
        IF answer[p].schedule.enabled = 1
          THEN IsNext(answer[p].schedule, answer[p].server_time, answer[p].next)
          ELSE answer[p].next = NULL

(* A revoked display leaves no schedule behind, not even when it is        *)
(* revoked between the check of its owner and the write.                   *)
NoOrphan == ~exists => stored = NULL

(* A form that was not touched since the last answer, and that no later    *)
(* change has overtaken, shows what is stored, and says it is paused only  *)
(* when it is.                                                             *)
PageAgrees ==
    \A p \in Editors : seen[p] = version =>
        /\ schedule[p] = Stored
        /\ next[p] = NULL <=> Stored.enabled = 0

(* An editor says "saved" when it was answered with its own save or with   *)
(* what another has made of it since, never with what was there before.    *)
SaidSaved == \A p \in Editors : pc[p] = "saved" => wrote[p] <= answer[p].version

(* The answer to a save that nobody overtook leaves the form as it is, if  *)
(* it was not edited meanwhile.                                            *)
SaveKeepsDraft ==
    [][\A p \in Editors :
         pc[p] = "saved" /\ body[p] = schedule[p] /\ answer[p].version = wrote[p] =>
           schedule'[p] = schedule[p] \/ pc'[p] = "saved"]_vars

-----------------------------------------------------------------------------
(* Why: the versions grow, a save under way has something to send ...      *)
Versions ==
    /\ \A p \in Editors : wrote[p] <= version
    /\ \A p \in Editors : seen[p] # NULL => schedule[p] # NULL /\ seen[p] <= version
    /\ \A p \in Editors : answer[p] # NULL => answer[p].version <= version
    /\ \A p \in Editors : pc[p] \in {"put", "write", "reread", "saved"} => body[p] # NULL

(* ... an answer holds what is stored until that changes ...               *)
AnswersAgree ==
    \A p \in Editors : answer[p] # NULL =>
        /\ answer[p].version = version => answer[p].schedule = Stored
        /\ Len(answer[p].schedule.windows) <= MaxWindows
        /\ answer[p].next = NULL <=> answer[p].schedule.enabled = 0

(* ... and so does a save that has been written, and its answer.           *)
OwnSaves ==
    /\ \A p \in Editors : pc[p] = "reread" /\ wrote[p] = version => body[p] = Stored
    /\ \A p \in Editors : pc[p] = "saved" => answer[p] # NULL
    /\ \A p \in Editors : pc[p] = "saved" /\ answer[p].version = wrote[p] =>
         answer[p].schedule = body[p]

IInv ==
    /\ TypeOK /\ DraftFits /\ StoredIsValid /\ AnswersTellNext /\ NoOrphan
    /\ Versions /\ AnswersAgree /\ OwnSaves /\ PageAgrees /\ SaidSaved
=============================================================================
