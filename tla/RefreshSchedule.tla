---------------------------- MODULE RefreshSchedule ----------------------------
(***************************************************************************)
(* internal/kindle/schedule.go: when a display is to be refreshed.         *)
(*                                                                         *)
(* Time is in minutes since a Monday's midnight in Asia/Shanghai, the only *)
(* time zone a stored schedule has and one without daylight saving: every  *)
(* day has 1440 minutes and every week is like the first.  Slots are whole *)
(* minutes, so a slot is after an instant iff it is after its minute.      *)
(* show_status and orientation are left out, no slot depends on them.      *)
(***************************************************************************)
EXTENDS Integers, Sequences

CONSTANTS
    Instants,       \* the minutes of a week at which the server is asked
    MaxWindows,     \* 32: the most windows a schedule may have
    NULL

Week == 0..10079
Weekdays == 1..7

ASSUME RefreshScheduleAssumption ==
    /\ Instants \subseteq Week
    /\ MaxWindows \in Nat \ {0, 1}
    /\ NULL \notin Nat

(* interval = 0 stands for an input that is empty or no positive integer.  *)
Window == [days : SUBSET Weekdays, start : Nat, end : Nat, interval : Nat]
Schedule == [enabled : {0, 1}, windows : Seq(Window)]

WindowOf(days, start, end, interval) ==
    [days |-> days, start |-> start, end |-> end, interval |-> interval]
ScheduleOf(enabled, windows) == [enabled |-> enabled, windows |-> windows]

DefaultSchedule == ScheduleOf(1, <<WindowOf(1..5, 1080, 1440, 30), WindowOf({6, 7}, 540, 1440, 30)>>)

ValidWindow(w) ==
    /\ w.days # {}
    /\ w.start < w.end /\ w.end <= 1440
    /\ 1 <= w.interval /\ w.interval <= 1440

Validate(s) ==
    /\ Len(s.windows) <= MaxWindows
    /\ s.enabled = 1 => s.windows # <<>>
    /\ \A i \in DOMAIN s.windows : ValidWindow(s.windows[i])

-----------------------------------------------------------------------------
Weekday(day) == (day % 7) + 1

(* The minutes of a day at which w has a slot, and those of a weekday.     *)
Minutes(w) == {w.start + k * w.interval : k \in 0..((w.end - 1 - w.start) \div w.interval)}
Slots(s, d) == UNION {Minutes(s.windows[i]) : i \in {j \in DOMAIN s.windows : d \in s.windows[j].days}}

(* The slots of a day, counted from that Monday.                           *)
SlotsOn(s, day) == {1440 * day + m : m \in Slots(s, Weekday(day))}

(* A faulty variant: the same weekday of next week is forgotten.           *)
FollowingThisWeek(s, t) == {x \in UNION {SlotsOn(s, (t \div 1440) + n) : n \in 0..6} : x > t}

(* The slots of today and the seven days to come that are after t.         *)
Following(s, t) == {x \in UNION {SlotsOn(s, (t \div 1440) + n) : n \in 0..7} : x > t}

(* NULL is the zero time.                                                 *)
First(S) == IF S = {} THEN NULL ELSE CHOOSE x \in S : \A y \in S : x <= y

NextSlot(s, t) == IF s.enabled = 0 THEN NULL ELSE First(Following(s, t))

-----------------------------------------------------------------------------
(* What NextSlot promises, without counting days: the slots of a week come *)
(* again every week, and the next one is the least that is after t.  It is *)
(* at most eight days away, the longest sleep battery-agent.sh accepts.    *)
SlotsOfWeek(s) == UNION {SlotsOn(s, day) : day \in 0..6}

IsNext(s, t, n) ==
    /\ n \in Nat /\ t < n /\ 60 * (n - t) <= 691200
    /\ n % 10080 \in SlotsOfWeek(s)
    /\ \A u \in SlotsOfWeek(s) : (t < u => n <= u) /\ n <= u + 10080
=============================================================================
