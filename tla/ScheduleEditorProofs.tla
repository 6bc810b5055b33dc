-------------------------- MODULE ScheduleEditorProofs --------------------------
(***************************************************************************)
(* For every schedule and every instant of a week NextSlot is what IsNext  *)
(* says, a device that goes from slot to slot misses none, and for every   *)
(* set of editors the invariants of ScheduleEditor hold.                   *)
(***************************************************************************)
EXTENDS ScheduleEditor, WellFoundedInduction, SequenceTheorems, TLAPS

-----------------------------------------------------------------------------
(* The next slot.                                                          *)

LEMMA LeastExists ==
    ASSUME NEW S \in SUBSET Nat, S # {}
    PROVE  \E x \in S : \A y \in S : x <= y
<1> DEFINE R == {ss \in Nat \X Nat : ss[1] < ss[2]}
<1>1. IsWellFoundedOn(R, Nat)
  BY NatLessThanWellFounded, Zenon DEF OpToRel
<1>2. \A x, y \in Nat : y < x => <<y, x>> \in R
  OBVIOUS
<1> HIDE DEF R
<1>3. PICK x \in S : \A y \in S : ~ (<<y, x>> \in R)
  BY <1>1, WFMin, Zenon
<1>4. \A y \in S : ~ (y < x)
  BY <1>2, <1>3
<1> QED
  BY <1>4

LEMMA FirstIsLeast ==
    ASSUME NEW S \in SUBSET Nat, S # {}
    PROVE  First(S) \in S /\ \A y \in S : First(S) <= y
<1>1. First(S) = CHOOSE x \in S : \A y \in S : x <= y
  BY DEF First
<1> QED
  BY <1>1, LeastExists, Zenon

LEMMA StepsInRange ==
    ASSUME NEW a \in Nat, NEW b \in Nat, NEW i \in Nat \ {0}, NEW k \in 0..(b \div i)
    PROVE  k * i \in 0..b
<1>1. b \div i \in Nat /\ (b \div i) * i \in Nat /\ (b \div i) * i <= b
  OBVIOUS
<1> DEFINE q == b \div i
<1>2. q \in Nat /\ k \in Nat /\ k <= q
  BY <1>1
<1> HIDE DEF q
<1>3. k * i \in Nat /\ k * i <= q * i
  BY <1>2
<1> QED
  BY <1>1, <1>3 DEF q

Every(a, b, i) == {a + k * i : k \in 0..((b - 1 - a) \div i)}

LEMMA EveryInDay ==
    ASSUME NEW a \in Nat, NEW b \in Nat, NEW i \in Nat, a < b, b <= 1440, 1 <= i
    PROVE  a \in Every(a, b, i) /\ \A x \in Every(a, b, i) : x \in Nat /\ x <= 1439
<1>1. b - 1 - a \in Nat /\ i \in Nat \ {0}
  OBVIOUS
<1>2. \A k \in 0..((b - 1 - a) \div i) : k * i \in 0..(b - 1 - a)
  BY <1>1, StepsInRange
<1>3. \A x \in 0..(b - 1 - a) : a + x \in 0..1439
  OBVIOUS
<1>4. 0 \in 0..((b - 1 - a) \div i) /\ a = a + 0 * i
  BY <1>1
<1>5. ASSUME NEW x \in Every(a, b, i)
      PROVE  x \in Nat /\ x <= 1439
  <2>1. PICK k \in 0..((b - 1 - a) \div i) : x = a + k * i
    BY DEF Every
  <2>2. k * i \in 0..(b - 1 - a)
    BY <1>2, <2>1
  <2> QED BY <1>3, <2>1, <2>2
<1>6. a \in Every(a, b, i)
  BY <1>4 DEF Every
<1> QED
  BY <1>5, <1>6

(* A valid window has a slot, and all its slots are minutes of a day.      *)
LEMMA MinutesOfWindow ==
    ASSUME NEW w \in Window, ValidWindow(w)
    PROVE  Minutes(w) \subseteq 0..1439 /\ w.start \in Minutes(w)
<1>1. w.start \in Nat /\ w.end \in Nat /\ w.interval \in Nat
  BY DEF Window
<1>2. w.start < w.end /\ w.end <= 1440 /\ 1 <= w.interval
  BY DEF ValidWindow
<1>3. Minutes(w) = Every(w.start, w.end, w.interval)
  BY DEF Minutes, Every
<1>4. PICK a \in Nat : a = w.start
  BY <1>1
<1>5. PICK b \in Nat : b = w.end
  BY <1>1
<1>6. PICK i \in Nat : i = w.interval
  BY <1>1
<1>7. a < b /\ b <= 1440 /\ 1 <= i /\ Minutes(w) = Every(a, b, i)
  BY <1>1, <1>2, <1>3, <1>4, <1>5, <1>6
<1>8. a \in Every(a, b, i) /\ \A x \in Every(a, b, i) : x \in Nat /\ x <= 1439
  BY <1>4, <1>5, <1>6, <1>7, EveryInDay
<1> QED
  BY <1>4, <1>7, <1>8

LEMMA SlotsOfDay ==
    ASSUME NEW s \in Schedule, Validate(s), NEW d \in Weekdays
    PROVE  Slots(s, d) \subseteq 0..1439
<1> DEFINE f == s.windows
<1>1. \A i \in DOMAIN f : f[i] \in Window /\ ValidWindow(f[i])
  BY DEF Validate, Schedule
<1>2. Slots(s, d) = UNION {Minutes(f[i]) : i \in {j \in DOMAIN f : d \in f[j].days}}
  BY DEF Slots
<1> HIDE DEF f
<1>3. \A i \in DOMAIN f : Minutes(f[i]) \subseteq 0..1439
  BY <1>1, MinutesOfWindow
<1>4. \A m \in Slots(s, d) : \E i \in DOMAIN f : m \in Minutes(f[i])
  BY <1>2
<1> QED
  BY <1>3, <1>4

(* Some weekday has a slot.                                                *)
LEMMA SomeSlot ==
    ASSUME NEW s \in Schedule, Validate(s), s.enabled = 1
    PROVE  \E d \in Weekdays : Slots(s, d) # {}
<1>1. s.windows \in Seq(Window) /\ s.windows # <<>>
  BY DEF Schedule, Validate
<1>2. 1 \in DOMAIN s.windows /\ s.windows[1] \in Window /\ ValidWindow(s.windows[1])
  BY <1>1 DEF Validate
<1>3. PICK d \in s.windows[1].days : TRUE
  BY <1>2 DEF ValidWindow
<1>4. d \in Weekdays
  BY <1>2, <1>3 DEF Window
<1>5. s.windows[1].start \in Minutes(s.windows[1])
  BY <1>2, MinutesOfWindow
<1>6. s.windows[1].start \in Slots(s, d)
  BY <1>2, <1>3, <1>5 DEF Slots
<1> QED
  BY <1>4, <1>6

LEMMA DayOfInstant ==
    ASSUME NEW t \in Week
    PROVE  \E q \in 0..6 : q = t \div 1440 /\ 1440 * q <= t /\ t < 1440 * q + 1440
<1>1. t \in Nat /\ t <= 10079
  BY DEF Week
<1>2. \A x \in Nat : x <= 10079 =>
        x \div 1440 \in 0..6 /\ 1440 * (x \div 1440) <= x /\ x < 1440 * (x \div 1440) + 1440
  BY SMT
<1> QED
  BY <1>1, <1>2, SMT

LEMMA SlotsOnIs ==
    ASSUME NEW s \in Schedule, Validate(s), NEW day \in Nat, NEW x \in SlotsOn(s, day)
    PROVE  /\ x \in Nat /\ 1440 * day <= x /\ x < 1440 * day + 1440
           /\ x + 10080 \in SlotsOn(s, day + 7)
           /\ day >= 7 => x - 10080 \in SlotsOn(s, day - 7)
<1>1. PICK m \in Slots(s, Weekday(day)) : x = 1440 * day + m
  BY DEF SlotsOn
<1>2. Weekday(day) \in Weekdays
  BY DEF Weekday, Weekdays
<1>3. m \in 0..1439
  BY <1>1, <1>2, SlotsOfDay
<1>4. x \in Nat /\ 1440 * day <= x /\ x < 1440 * day + 1440
  BY <1>1, <1>3
<1>5. Weekday(day + 7) = Weekday(day) /\ x + 10080 = 1440 * (day + 7) + m
  BY <1>1, <1>3, SMT DEF Weekday
<1>6. x + 10080 \in SlotsOn(s, day + 7)
  BY <1>1, <1>5, SMT DEF SlotsOn
<1>7. ASSUME day >= 7
      PROVE  x - 10080 \in SlotsOn(s, day - 7)
  <2>1. Weekday(day - 7) = Weekday(day) /\ x - 10080 = 1440 * (day - 7) + m
    BY <1>7, <1>1, <1>3, SMT DEF Weekday
  <2> QED BY <1>1, <2>1, SMT DEF SlotsOn
<1> QED
  BY <1>4, <1>6, <1>7, SMT

(* Following has the slots of today and the next seven days after t ...    *)
LEMMA FollowingIs ==
    ASSUME NEW s \in Schedule, Validate(s), NEW t \in Week, NEW q \in 0..6, q = t \div 1440
    PROVE  /\ Following(s, t) \in SUBSET Nat
           /\ \A x \in Following(s, t) : x > t /\ \E n \in 0..7 : x \in SlotsOn(s, q + n)
           /\ \A n \in 0..7 : \A x \in SlotsOn(s, q + n) : x > t => x \in Following(s, t)
<1>1. Following(s, t) = {x \in UNION {SlotsOn(s, q + n) : n \in 0..7} : x > t}
  BY DEF Following
<1>2. \A x \in Following(s, t) : x > t /\ \E n \in 0..7 : x \in SlotsOn(s, q + n)
  BY <1>1
<1>3. \A n \in 0..7 : \A x \in SlotsOn(s, q + n) : x > t => x \in Following(s, t)
  BY <1>1
<1>4. \A n \in 0..7 : \A x \in SlotsOn(s, q + n) : x \in Nat
  BY SlotsOnIs
<1> QED
  BY <1>2, <1>3, <1>4

(* ... and there is one at least if the schedule is enabled.              *)
LEMMA SlotWithinWeek ==
    ASSUME NEW s \in Schedule, Validate(s), s.enabled = 1, NEW q \in 0..6
    PROVE  \E n \in 1..7 : SlotsOn(s, q + n) # {}
<1>1. PICK d \in Weekdays : Slots(s, d) # {}
  BY SomeSlot
<1>2. PICK m \in Slots(s, d) : TRUE
  BY <1>1
<1>3. \E n \in 1..7 : Weekday(q + n) = d
  <2>0. d \in 1..7
    BY <1>1 DEF Weekdays
  <2>1. CASE d - 1 > q
    <3>1. d - 1 - q \in 1..7 /\ Weekday(q + (d - 1 - q)) = d
      BY <2>0, <2>1 DEF Weekday
    <3> QED BY <3>1
  <2>2. CASE d - 1 <= q
    <3>1. d + 6 - q \in 1..7 /\ Weekday(q + (d + 6 - q)) = d
      BY <2>0, <2>2 DEF Weekday
    <3> QED BY <3>1
  <2> QED BY <2>0, <2>1, <2>2
<1>4. PICK n \in 1..7 : Weekday(q + n) = d
  BY <1>3
<1>5. 1440 * (q + n) + m \in SlotsOn(s, q + n)
  BY <1>2, <1>4 DEF SlotsOn
<1> QED
  BY <1>4, <1>5

(* For every valid enabled schedule and every instant, Schedule.Next finds *)
(* the first slot after it, within what the device accepts.  None of a     *)
(* later day than it looks at is missed: that slot was a week before, too. *)
THEOREM NextSlotIsNext ==
    ASSUME NEW s \in Schedule, Validate(s), s.enabled = 1, NEW t \in Week
    PROVE  IsNext(s, t, NextSlot(s, t))
<1>0. PICK q \in 0..6 : q = t \div 1440 /\ 1440 * q <= t /\ t < 1440 * q + 1440
  BY DayOfInstant
<1>1. q \in 0..6 /\ 1440 * q <= t /\ t < 1440 * q + 1440
  BY <1>0
<1> DEFINE F == Following(s, t)  x == NextSlot(s, t)
<1>2. /\ F \in SUBSET Nat
      /\ \A y \in F : y > t /\ \E n \in 0..7 : y \in SlotsOn(s, q + n)
      /\ \A n \in 0..7 : \A y \in SlotsOn(s, q + n) : y > t => y \in F
  <2>1. q = t \div 1440
    BY <1>0
  <2>2. /\ Following(s, t) \in SUBSET Nat
        /\ \A x_1 \in Following(s, t) : x_1 > t /\ \E n \in 0..7 : x_1 \in SlotsOn(s, q + n)
        /\ \A n \in 0..7 : \A x_1 \in SlotsOn(s, q + n) : x_1 > t => x_1 \in Following(s, t)
    BY <2>1, FollowingIs
  <2> QED BY <2>2
<1>10. F # {}
  <2> HIDE DEF F
  <2>1. PICK n \in 1..7 : SlotsOn(s, q + n) # {}
    BY SlotWithinWeek, <1>1
  <2>2. PICK y \in SlotsOn(s, q + n) : TRUE
    BY <2>1
  <2>3. q + n \in Nat /\ n \in 0..7
    BY <2>1, <1>1
  <2>4. y \in Nat /\ 1440 * (q + n) <= y
    BY <2>2, <2>3, SlotsOnIs
  <2>5. y > t
    BY <2>1, <2>4, <1>1, SMT DEF Week
  <2> QED BY <2>2, <2>3, <2>5, <1>2
<1>3. x \in F /\ \A y \in F : x <= y
  BY <1>2, <1>10, FirstIsLeast DEF NextSlot
<1> HIDE DEF F, x
<1>4. PICK n \in 0..7 : x \in SlotsOn(s, q + n)
  BY <1>2, <1>3
<1>5. q + n \in 0..13
  BY <1>4
<1>6. x \in Nat /\ 1440 * (q + n) <= x /\ x < 1440 * (q + n) + 1440
  BY <1>4, <1>5, SlotsOnIs
<1>7. t < x /\ 60 * (x - t) <= 691200
  <2>1. t < x
    BY <1>2, <1>3
  <2> QED BY <2>1, <1>1, <1>4, <1>6, SMT DEF Week
<1>8. x % 10080 \in SlotsOfWeek(s)
  <2>1. CASE q + n <= 6
    <3>1. x % 10080 = x /\ q + n \in 0..6
      BY <2>1, <1>5, <1>6, SMT
    <3> QED BY <3>1, <1>4, SMT DEF SlotsOfWeek
  <2>2. CASE q + n > 6
    <3>1. x % 10080 = x - 10080 /\ q + n - 7 \in 0..6
      BY <2>2, <1>5, <1>6, SMT
    <3>2. x - 10080 \in SlotsOn(s, q + n - 7)
      BY <2>2, <1>4, <1>5, SlotsOnIs, SMT
    <3> QED BY <3>1, <3>2, SMT DEF SlotsOfWeek
  <2> QED BY <2>1, <2>2, <1>5, SMT
<1>9. ASSUME NEW u \in SlotsOfWeek(s)
      PROVE  (t < u => x <= u) /\ x <= u + 10080
  <2>1. PICK e \in 0..6 : u \in SlotsOn(s, e)
    BY SMT DEF SlotsOfWeek
  <2>2. /\ u \in Nat /\ 1440 * e <= u /\ u < 1440 * e + 1440
        /\ u + 10080 \in SlotsOn(s, e + 7)
    BY <2>1, SlotsOnIs, SMT
  <2>3. ASSUME u > t
        PROVE  x <= u
    <3>1. e - q \in 0..7 /\ q + (e - q) = e
      BY <2>1, <2>2, <2>3, <1>1 DEF Week
    <3> QED BY <3>1, <2>1, <2>3, <1>2, <1>3
  <2>4. CASE e > q
    <3>1. u > t
      BY <2>4, <2>1, <2>2, <1>1 DEF Week
    <3> QED BY <3>1, <2>2, <2>3, <1>6, SMT
  <2>5. CASE e <= q
    <3>1. e + 7 - q \in 0..7 /\ q + (e + 7 - q) = e + 7
      BY <2>5, <2>1, SMT
    <3>2. u + 10080 > t
      BY <2>2, SMT DEF Week
    <3>3. x <= u + 10080
      BY <3>1, <3>2, <2>2, <1>2, <1>3, SMT
    <3> QED BY <2>2, <2>3, <3>3, SMT DEF Week
  <2> QED BY <2>1, <2>4, <2>5, SMT
<1> QED
  BY <1>6, <1>7, <1>8, <1>9, SMT DEF IsNext, x

LEMMA SlotsOfWeekAre ==
    ASSUME NEW s \in Schedule, Validate(s)
    PROVE  SlotsOfWeek(s) \subseteq Week
<1>1. ASSUME NEW u \in SlotsOfWeek(s) PROVE u \in Week
  <2>1. PICK e \in 0..6 : u \in SlotsOn(s, e)
    BY SMT DEF SlotsOfWeek
  <2>2. u \in Nat /\ u < 1440 * e + 1440
    BY <2>1, SlotsOnIs, SMT
  <2> QED BY <2>1, <2>2, SMT DEF Week
<1> QED BY <1>1

(* A next slot is a slot of its week or of the next one.                   *)
LEMMA NextIsRepeated ==
    ASSUME NEW s \in Schedule, Validate(s), NEW t \in Week, NEW n, IsNext(s, t, n)
    PROVE  n \in Nat /\ t < n /\ \E u \in SlotsOfWeek(s) : u \in Nat /\ (n = u \/ n = u + 10080)
<1>1. n \in Nat /\ t < n /\ n % 10080 \in SlotsOfWeek(s) /\ n % 10080 \in Week
  BY SlotsOfWeekAre, SMT DEF IsNext
<1> DEFINE u == n % 10080
<1>2. n <= u + 10080
  BY <1>1, SMT DEF IsNext
<1>3. n = u \/ n >= u + 10080
  <2>1. \A m \in Nat : m = m % 10080 \/ m >= (m % 10080) + 10080
    BY SMT
  <2> QED BY <1>1, <2>1, SMT
<1>4. u \in Nat
  BY <1>1, SMT DEF Week
<1> HIDE DEF u
<1>5. n = u \/ n = u + 10080
  BY <1>1, <1>2, <1>3, <1>4, SMT
<1> QED BY <1>1, <1>4, <1>5, SMT DEF u

(* The next slot of one instant is a slot after any instant before it.     *)
LEMMA NextNotLater ==
    ASSUME NEW s \in Schedule, Validate(s), NEW t1 \in Week, NEW t2 \in Week, NEW n1, NEW n2,
           IsNext(s, t1, n1), IsNext(s, t2, n2), t1 < n2
    PROVE  n1 <= n2
<1>1. PICK u \in SlotsOfWeek(s) : u \in Nat /\ (n2 = u \/ n2 = u + 10080)
  BY NextIsRepeated, SMT
<1>2. (t1 < u => n1 <= u) /\ n1 <= u + 10080
  BY SMT DEF IsNext
<1> QED BY <1>1, <1>2, SMT

(* The schedule's slots come in turn and none is skipped: whoever asks     *)
(* again before the slot he was told is told the same slot, and whoever    *)
(* asks later is never told an earlier one.                                *)
THEOREM NoSlotSkipped ==
    ASSUME NEW s \in Schedule, Validate(s), s.enabled = 1,
           NEW t1 \in Week, NEW t2 \in Week, t1 <= t2
    PROVE  /\ NextSlot(s, t1) <= NextSlot(s, t2)
           /\ t2 < NextSlot(s, t1) => NextSlot(s, t2) = NextSlot(s, t1)
<1> DEFINE n1 == NextSlot(s, t1)  n2 == NextSlot(s, t2)
<1>1. IsNext(s, t1, n1) /\ IsNext(s, t2, n2)
  BY NextSlotIsNext
<1> HIDE DEF n1, n2
<1>2. n1 \in Nat /\ n2 \in Nat /\ t2 < n2
  BY <1>1, SMT DEF IsNext
<1>3. n1 <= n2
  <2>1. t1 < n2
    BY <1>2 DEF Week
  <2> QED BY <1>1, <2>1, NextNotLater
<1>4. ASSUME t2 < n1 PROVE n2 <= n1
  BY <1>1, <1>4, NextNotLater
<1> QED BY <1>2, <1>3, <1>4 DEF n1, n2

-----------------------------------------------------------------------------
(* Schedules.                                                              *)

LEMMA ScheduleOfIs ==
    ASSUME NEW e \in {0, 1}, NEW ws \in Seq(Window)
    PROVE  ScheduleOf(e, ws) \in Schedule /\ ScheduleOf(e, ws).windows = ws
BY DEF ScheduleOf, Schedule

LEMMA ScheduleIs ==
    ASSUME NEW s \in Schedule
    PROVE  s.enabled \in {0, 1} /\ s.windows \in Seq(Window)
BY DEF Schedule

LEMMA WindowOfIs ==
    ASSUME NEW days \in SUBSET Weekdays, NEW a \in Nat, NEW b \in Nat, NEW i \in Nat
    PROVE  WindowOf(days, a, b, i) \in Window
BY DEF WindowOf, Window

LEMMA WindowIs ==
    ASSUME NEW w \in Window
    PROVE  w.days \in SUBSET Weekdays /\ w.start \in Nat /\ w.end \in Nat /\ w.interval \in Nat
BY DEF Window

LEMMA AnswerOfIs ==
    ASSUME NEW s \in Schedule, NEW t \in Week, NEW n \in Nat \cup {NULL}, NEW v \in Nat
    PROVE  /\ AnswerOf(s, t, n, v) \in Answer /\ AnswerOf(s, t, n, v) # NULL
           /\ AnswerOf(s, t, n, v).schedule = s /\ AnswerOf(s, t, n, v).server_time = t
           /\ AnswerOf(s, t, n, v).next = n /\ AnswerOf(s, t, n, v).version = v
BY AnswerAssumption DEF AnswerOf, Answer

LEMMA AnswerIs ==
    ASSUME NEW a \in Answer
    PROVE  a.schedule \in Schedule /\ a.next \in Nat \cup {NULL} /\ a.version \in Nat
BY DEF Answer

LEMMA DefaultIsValid == DefaultSchedule \in Schedule /\ Validate(DefaultSchedule)
<1> DEFINE v == WindowOf(1..5, 1080, 1440, 30)  w == WindowOf({6, 7}, 540, 1440, 30)
<1>1. v \in Window /\ w \in Window
  BY WindowOfIs DEF Weekdays
<1>2. ValidWindow(v) /\ ValidWindow(w)
  BY DEF ValidWindow, WindowOf
<1>3. DefaultSchedule = ScheduleOf(1, <<v, w>>)
  BY DEF DefaultSchedule
<1> HIDE DEF v, w
<1>4. <<v, w>> \in Seq(Window) /\ Len(<<v, w>>) = 2 /\ <<v, w>> # <<>>
  BY <1>1
<1>5. \A i \in DOMAIN <<v, w>> : ValidWindow(<<v, w>>[i])
  BY <1>2
<1>6. DefaultSchedule \in Schedule
  BY <1>3, <1>4, ScheduleOfIs
<1>7. DefaultSchedule.windows = <<v, w>>
  BY <1>3, <1>4, ScheduleOfIs
<1>8. 2 <= MaxWindows
  BY RefreshScheduleAssumption
<1> QED
  BY <1>4, <1>5, <1>6, <1>7, <1>8 DEF Validate

LEMMA RemoveAtIs ==
    ASSUME NEW ws \in Seq(Window), NEW i \in DOMAIN ws
    PROVE  RemoveAt(ws, i) \in Seq(Window) /\ Len(RemoveAt(ws, i)) <= Len(ws)
<1>1. i \in 1..Len(ws) /\ Len(ws) \in Nat
  OBVIOUS
<1>2. /\ SubSeq(ws, 1, i - 1) \in Seq(Window)
      /\ Len(SubSeq(ws, 1, i - 1)) = i - 1
  BY <1>1
<1>3. /\ SubSeq(ws, i + 1, Len(ws)) \in Seq(Window)
      /\ Len(SubSeq(ws, i + 1, Len(ws))) = Len(ws) - i
  BY <1>1
<1> QED
  BY <1>1, <1>2, <1>3 DEF RemoveAt

LEMMA NextSlotType ==
    ASSUME NEW s \in Schedule, Validate(s), NEW t \in Week
    PROVE  NextSlot(s, t) \in Nat \cup {NULL} /\ (NextSlot(s, t) = NULL <=> s.enabled = 0)
<1>1. CASE s.enabled = 0
  BY <1>1 DEF NextSlot
<1>2. CASE s.enabled = 1
  <2>1. NextSlot(s, t) \in Nat
    BY <1>2, NextSlotIsNext, SMT DEF IsNext
  <2> QED BY <2>1, <1>2, RefreshScheduleAssumption
<1> QED
  BY <1>1, <1>2, ScheduleIs

(* Whatever is edited, the draft stays a schedule of at most MaxWindows.   *)
LEMMA EditIsDraft ==
    ASSUME TypeOK, DraftFits, NEW p \in Editors, Edit(p)
    PROVE  /\ schedule[p] # NULL
           /\ \E s \in Schedule : Len(s.windows) <= MaxWindows /\ Draft(p, s)
<1> DEFINE d == schedule[p]
<1>1. schedule[p] # NULL
  BY DEF Edit, setEnabled, addWindow, splice, toggle, setStart, setEnd, setInterval
<1>2. d \in Schedule /\ Len(d.windows) <= MaxWindows
  BY <1>1 DEF TypeOK, DraftFits
<1>3. d.enabled \in {0, 1} /\ d.windows \in Seq(Window) /\ Len(d.windows) \in Nat
  BY <1>2, ScheduleIs
<1>4. MaxWindows \in Nat
  BY RefreshScheduleAssumption
<1>5. ASSUME NEW i \in DOMAIN d.windows, NEW w \in Window, SetWindow(p, i, w)
      PROVE  \E s \in Schedule : Len(s.windows) <= MaxWindows /\ Draft(p, s)
  <2> DEFINE ws == [d.windows EXCEPT ![i] = w]
  <2>1. ws \in Seq(Window) /\ Len(ws) = Len(d.windows)
    BY <1>3
  <2> HIDE DEF ws
  <2>2. ScheduleOf(d.enabled, ws) \in Schedule /\ Len(ScheduleOf(d.enabled, ws).windows) <= MaxWindows
    BY <2>1, <1>2, <1>3, ScheduleOfIs
  <2> QED BY <2>2, <1>5 DEF SetWindow, ws
<1>6. \A i \in DOMAIN d.windows : d.windows[i] \in Window
  BY <1>3
<1>7. CASE setEnabled(p)
  <2>1. ScheduleOf(1 - d.enabled, d.windows) \in Schedule
          /\ Len(ScheduleOf(1 - d.enabled, d.windows).windows) <= MaxWindows
    <3>1. 1 - d.enabled \in {0, 1}
      BY <1>3
    <3> QED BY <3>1, <1>2, <1>3, ScheduleOfIs
  <2> QED BY <2>1, <1>7 DEF setEnabled
<1>8. CASE addWindow(p)
  <2> DEFINE ws == Append(d.windows, WindowOf(1..5, 1080, 1440, 30))
  <2>1. WindowOf(1..5, 1080, 1440, 30) \in Window
    BY WindowOfIs DEF Weekdays
  <2>2. ws \in Seq(Window) /\ Len(ws) = Len(d.windows) + 1
    BY <2>1, <1>3
  <2>3. Len(ws) <= MaxWindows
    BY <2>2, <1>3, <1>4, <1>8, ScheduleEditorAssumption DEF addWindow
  <2>4. Draft(p, ScheduleOf(d.enabled, ws))
    BY <1>8 DEF addWindow
  <2> HIDE DEF ws
  <2>5. ScheduleOf(d.enabled, ws) \in Schedule /\ ScheduleOf(d.enabled, ws).windows = ws
    BY <2>2, <1>3, ScheduleOfIs
  <2>6. Len(ScheduleOf(d.enabled, ws).windows) <= MaxWindows
    BY <2>3, <2>5
  <2> QED BY <2>4, <2>5, <2>6, <1>1, Zenon
<1>9. ASSUME NEW i \in 1..MaxWindows, splice(p, i)
      PROVE  \E s \in Schedule : Len(s.windows) <= MaxWindows /\ Draft(p, s)
  <2> DEFINE ws == RemoveAt(d.windows, i)
  <2>1. i \in DOMAIN d.windows /\ Draft(p, ScheduleOf(d.enabled, ws))
    BY <1>9 DEF splice
  <2>2. ws \in Seq(Window) /\ Len(ws) <= Len(d.windows)
    BY <2>1, <1>3, RemoveAtIs
  <2> HIDE DEF ws
  <2>3. Len(ws) <= MaxWindows
    BY <2>2, <1>2, <1>3, <1>4
  <2> QED BY <2>1, <2>2, <2>3, <1>3, ScheduleOfIs
<1>10. ASSUME NEW i \in 1..MaxWindows,
              toggle(p, i) \/ setStart(p, i) \/ setEnd(p, i) \/ setInterval(p, i)
       PROVE  \E s \in Schedule : Len(s.windows) <= MaxWindows /\ Draft(p, s)
  <2>1. i \in DOMAIN d.windows
    BY <1>10 DEF toggle, setStart, setEnd, setInterval
  <2> DEFINE w == d.windows[i]
  <2>2. w \in Window
    BY <2>1, <1>6
  <2>3. w.days \in SUBSET Weekdays /\ w.start \in Nat /\ w.end \in Nat /\ w.interval \in Nat
    BY <2>2, WindowIs
  <2>4. CASE toggle(p, i)
    <3>1. PICK x \in Days : SetWindow(p, i, WindowOf(IF x \in w.days THEN w.days \ {x} ELSE w.days \cup {x},
                                                     w.start, w.end, w.interval))
      BY <2>4, Zenon DEF toggle
    <3>2. (IF x \in w.days THEN w.days \ {x} ELSE w.days \cup {x}) \in SUBSET Weekdays
      BY <2>3, ScheduleEditorAssumption
    <3> QED BY <3>1, <3>2, <2>1, <2>3, <1>5, WindowOfIs, Zenon
  <2>5. CASE setStart(p, i)
    <3>1. PICK m \in Clocks : SetWindow(p, i, WindowOf(w.days, m, w.end, w.interval))
      BY <2>5, Zenon DEF setStart
    <3>2. m \in Nat
      BY ScheduleEditorAssumption
    <3> QED BY <3>1, <3>2, <2>1, <2>3, <1>5, WindowOfIs, Zenon
  <2>6. CASE setEnd(p, i)
    <3> DEFINE ends == IF w.end = 1440 THEN {1380} ELSE Clocks \cup {1440}
    <3>1. \A m \in ends : m \in Nat
      BY ScheduleEditorAssumption, SMT
    <3>2. \E m \in ends : SetWindow(p, i, WindowOf(w.days, w.start, m, w.interval))
      BY <2>6, SMT DEF setEnd
    <3> HIDE DEF ends
    <3>3. PICK m \in ends : SetWindow(p, i, WindowOf(w.days, w.start, m, w.interval))
      BY <3>2, Zenon
    <3>4. m \in Nat
      BY <3>1
    <3> QED BY <3>3, <3>4, <2>1, <2>3, <1>5, WindowOfIs, Zenon
  <2>7. CASE setInterval(p, i)
    <3>1. PICK m \in Intervals : SetWindow(p, i, WindowOf(w.days, w.start, w.end, m))
      BY <2>7, Zenon DEF setInterval
    <3>2. m \in Nat
      BY ScheduleEditorAssumption
    <3> QED BY <3>1, <3>2, <2>1, <2>3, <1>5, WindowOfIs, Zenon
  <2> QED BY <1>10, <2>4, <2>5, <2>6, <2>7
<1> QED
  BY <1>1, <1>7, <1>8, <1>9, <1>10 DEF Edit

-----------------------------------------------------------------------------
(* The editors and the server.                                             *)

LEMMA StoredIs ==
    ASSUME TypeOK
    PROVE  Stored \in Schedule
BY DefaultIsValid DEF TypeOK, Stored

(* What a step can be: the edits are drafts, only three steps store.       *)
LEMMA StepIs ==
    ASSUME TypeOK, DraftFits, [Next]_vars
    PROVE  \/ \E p \in Editors : load(p) \/ save(p) \/ leave(p) \/ ownedDisplay(p) \/ fail(p)
           \/ \E p \in Editors : \E s \in Schedule :
                schedule[p] # NULL /\ Len(s.windows) <= MaxWindows /\ Draft(p, s)
           \/ \E p \in Editors : putDisplaySchedule(p)
           \/ \E p \in Editors : scheduleResponse(p)
           \/ \E p \in Editors : answered(p)
           \/ \E s \in late : putLate(s)
           \/ revokeDisplay
           \/ UNCHANGED vars
<1>1. ASSUME NEW p \in Editors, Edit(p)
      PROVE  \E s \in Schedule : schedule[p] # NULL /\ Len(s.windows) <= MaxWindows /\ Draft(p, s)
  BY <1>1, EditIsDraft
<1> QED
  BY <1>1, Zenon DEF Next

LEMMA TypeOKInit == Init => TypeOK
BY DEF Init, TypeOK

LEMMA TypeOKStep ==
    ASSUME TypeOK, DraftFits, StoredIsValid, Versions, [Next]_vars
    PROVE  TypeOK'
<1> USE DEF TypeOK, server, editor, request, history
<1>1. CASE \E p \in Editors : load(p) \/ save(p) \/ leave(p) \/ ownedDisplay(p)
  BY <1>1 DEF load, save, leave, ownedDisplay
<1>2. CASE \E p \in Editors : fail(p)
  <2>1. PICK p \in Editors : fail(p)
    BY <1>2
  <2>2. late' \subseteq Schedule
    <3>1. CASE UNCHANGED late
      BY <3>1
    <3>2. CASE pc[p] \in {"put", "write"} /\ late' = late \cup {body[p]}
      <4>1. body[p] \in Schedule
        BY <3>2 DEF Versions
      <4> QED BY <3>2, <4>1
    <3> QED BY <2>1, <3>1, <3>2 DEF fail
  <2> QED BY <2>1, <2>2 DEF fail, Idle
<1>3. ASSUME NEW p \in Editors, NEW s \in Schedule, Draft(p, s)
      PROVE  TypeOK'
  BY <1>3 DEF Draft
<1>4. ASSUME NEW p \in Editors, putDisplaySchedule(p)
      PROVE  TypeOK'
  BY <1>4 DEF putDisplaySchedule, Put
<1>5. ASSUME NEW p \in Editors, scheduleResponse(p)
      PROVE  TypeOK'
  <2>1. PICK t \in Instants : answer' = [answer EXCEPT ![p] = AnswerOf(Stored, t, NextSlot(Stored, t), version)]
    BY <1>5, Zenon DEF scheduleResponse
  <2>2. t \in Week /\ Stored \in Schedule /\ Validate(Stored)
    BY RefreshScheduleAssumption, StoredIs DEF StoredIsValid
  <2>3. NextSlot(Stored, t) \in Nat \cup {NULL} /\ version \in Nat
    BY <2>2, NextSlotType
  <2>4. AnswerOf(Stored, t, NextSlot(Stored, t), version) \in Answer
    BY <2>2, <2>3, AnswerOfIs
  <2> QED BY <2>1, <2>4, <1>5 DEF scheduleResponse
<1>6. ASSUME NEW p \in Editors, answered(p)
      PROVE  TypeOK'
  <2>1. answer[p].schedule \in Schedule /\ answer[p].next \in Nat \cup {NULL} /\ answer[p].version \in Nat
    BY <1>6, AnswerIs DEF answered
  <2> QED BY <2>1, <1>6 DEF answered, Idle
<1>7. ASSUME NEW s \in late, putLate(s)
      PROVE  TypeOK'
  BY <1>7 DEF putLate, Put
<1>8. CASE revokeDisplay
  <2>1. exists' \in BOOLEAN
    BY <1>8, Zenon DEF revokeDisplay
  <2>2. version' \in Nat /\ stored' \in Schedule \cup {NULL}
    BY <1>8, SMT DEF revokeDisplay
  <2>3. UNCHANGED <<late, editor, request, history>>
    BY <1>8, Zenon DEF revokeDisplay
  <2> QED BY <2>1, <2>2, <2>3, Zenon
<1>9. CASE UNCHANGED vars
  BY <1>9 DEF vars
<1> QED
  BY StepIs, <1>1, <1>2, <1>3, <1>4, <1>5, <1>6, <1>7, <1>8, <1>9

(* A step leaves the stored schedule alone or gives it a new version.      *)
LEMMA ServerStep ==
    ASSUME TypeOK, DraftFits, Versions, [Next]_vars
    PROVE  \/ stored' = stored /\ version' = version
           \/ version' = version + 1 /\ Validate(Stored')
<1> USE DEF server, editor, request, history
<1>0. NULL \notin Schedule
  BY ScheduleEditorAssumption
<1>1. CASE \E p \in Editors : load(p) \/ save(p) \/ leave(p) \/ ownedDisplay(p) \/ fail(p)
  BY <1>1 DEF load, save, leave, ownedDisplay, fail
<1>2. ASSUME NEW p \in Editors, NEW s \in Schedule, Draft(p, s)
      PROVE  stored' = stored /\ version' = version
  BY <1>2 DEF Draft
<1>3. ASSUME NEW p \in Editors, putDisplaySchedule(p)
      PROVE  version' = version + 1 /\ Validate(Stored')
  <2>1. body[p] \in Schedule /\ body[p] # NULL
    BY <1>3, <1>0 DEF putDisplaySchedule, Versions, TypeOK
  <2>2. stored' = body[p] /\ version' = version + 1 /\ Validate(body[p])
    BY <1>3 DEF putDisplaySchedule, Put
  <2> QED BY <2>1, <2>2 DEF Stored
<1>4. ASSUME NEW p \in Editors, scheduleResponse(p) \/ answered(p)
      PROVE  stored' = stored /\ version' = version
  BY <1>4 DEF scheduleResponse, answered
<1>5. ASSUME NEW s \in late, putLate(s)
      PROVE  \/ stored' = stored /\ version' = version
             \/ version' = version + 1 /\ Validate(Stored')
  <2>1. s \in Schedule /\ s # NULL
    BY <1>0 DEF TypeOK
  <2>2. CASE Put(s)
    <3>1. stored' = s /\ version' = version + 1 /\ Validate(s)
      BY <2>2 DEF Put
    <3> QED BY <2>1, <3>1 DEF Stored
  <2> QED BY <2>2, <1>5 DEF putLate
<1>6. CASE revokeDisplay
  <2>1. stored' = NULL /\ version' = version + 1
    BY <1>6 DEF revokeDisplay
  <2> QED BY <2>1, DefaultIsValid DEF Stored
<1>7. CASE UNCHANGED vars
  BY <1>7 DEF vars
<1> QED
  BY StepIs, <1>1, <1>2, <1>3, <1>4, <1>5, <1>6, <1>7

LEMMA StoredIsValidStep ==
    ASSUME TypeOK, DraftFits, Versions, StoredIsValid, [Next]_vars
    PROVE  StoredIsValid'
<1>1. CASE stored' = stored /\ version' = version
  BY <1>1 DEF StoredIsValid, Stored
<1>2. CASE version' = version + 1 /\ Validate(Stored')
  BY <1>2 DEF StoredIsValid
<1> QED
  BY <1>1, <1>2, ServerStep

LEMMA NoOrphanStep ==
    ASSUME TypeOK, DraftFits, NoOrphan, [Next]_vars
    PROVE  NoOrphan'
<1> USE DEF NoOrphan, server, editor, request, history
<1>1. CASE \E p \in Editors : load(p) \/ save(p) \/ leave(p) \/ ownedDisplay(p) \/ fail(p)
  BY <1>1 DEF load, save, leave, ownedDisplay, fail
<1>2. ASSUME NEW p \in Editors, NEW s \in Schedule, Draft(p, s)
      PROVE  NoOrphan'
  BY <1>2 DEF Draft
<1>3. ASSUME NEW p \in Editors, putDisplaySchedule(p) \/ scheduleResponse(p) \/ answered(p)
      PROVE  NoOrphan'
  BY <1>3 DEF putDisplaySchedule, Put, scheduleResponse, answered
<1>4. ASSUME NEW s \in late, putLate(s)
      PROVE  NoOrphan'
  BY <1>4 DEF putLate, Put
<1>5. CASE revokeDisplay
  BY <1>5 DEF revokeDisplay
<1>6. CASE UNCHANGED vars
  BY <1>6 DEF vars
<1> QED
  BY StepIs, <1>1, <1>2, <1>3, <1>4, <1>5, <1>6

LEMMA DraftFitsStep ==
    ASSUME TypeOK, DraftFits, AnswersAgree, [Next]_vars
    PROVE  DraftFits'
<1> USE DEF DraftFits, server, editor, request, history
<1>1. CASE \E p \in Editors : load(p) \/ save(p) \/ leave(p) \/ ownedDisplay(p) \/ fail(p)
  BY <1>1 DEF TypeOK, load, save, leave, ownedDisplay, fail
<1>2. ASSUME NEW p \in Editors, NEW s \in Schedule, Len(s.windows) <= MaxWindows, Draft(p, s)
      PROVE  DraftFits'
  BY <1>2 DEF TypeOK, Draft
<1>3. ASSUME NEW p \in Editors, putDisplaySchedule(p) \/ scheduleResponse(p)
      PROVE  DraftFits'
  BY <1>3 DEF putDisplaySchedule, Put, scheduleResponse
<1>4. ASSUME NEW p \in Editors, answered(p)
      PROVE  DraftFits'
  BY <1>4 DEF TypeOK, AnswersAgree, answered
<1>5. ASSUME NEW s \in late, putLate(s)
      PROVE  DraftFits'
  BY <1>5 DEF putLate
<1>6. CASE revokeDisplay \/ UNCHANGED vars
  BY <1>6 DEF revokeDisplay, vars
<1> QED
  BY StepIs, <1>1, <1>2, <1>3, <1>4, <1>5, <1>6

(* A new answer tells what is stored, and when it is next.                 *)
LEMMA NewAnswer ==
    ASSUME TypeOK, StoredIsValid, NEW p \in Editors, scheduleResponse(p)
    PROVE  \E t \in Week :
             /\ answer' = [answer EXCEPT ![p] = AnswerOf(Stored, t, NextSlot(Stored, t), version)]
             /\ answer'[p] # NULL /\ answer'[p].schedule = Stored /\ answer'[p].server_time = t
             /\ answer'[p].next = NextSlot(Stored, t) /\ answer'[p].version = version
             /\ answer'[p].next = NULL <=> Stored.enabled = 0
             /\ Stored.enabled = 1 => IsNext(Stored, t, NextSlot(Stored, t))
<1>1. PICK t \in Instants : answer' = [answer EXCEPT ![p] = AnswerOf(Stored, t, NextSlot(Stored, t), version)]
  BY Zenon DEF scheduleResponse
<1>2. t \in Week /\ Stored \in Schedule /\ Validate(Stored) /\ version \in Nat
  BY RefreshScheduleAssumption, StoredIs DEF StoredIsValid, TypeOK
<1>3. NextSlot(Stored, t) \in Nat \cup {NULL} /\ (NextSlot(Stored, t) = NULL <=> Stored.enabled = 0)
  BY <1>2, NextSlotType
<1>4. Stored.enabled = 1 => IsNext(Stored, t, NextSlot(Stored, t))
  BY <1>2, NextSlotIsNext
<1> DEFINE a == AnswerOf(Stored, t, NextSlot(Stored, t), version)
<1>5. /\ a # NULL /\ a.schedule = Stored /\ a.server_time = t
      /\ a.next = NextSlot(Stored, t) /\ a.version = version
  BY <1>2, <1>3, AnswerOfIs
<1>6. answer'[p] = a
  BY <1>1 DEF TypeOK
<1> HIDE DEF a
<1>7. /\ answer'[p] # NULL /\ answer'[p].schedule = Stored /\ answer'[p].server_time = t
      /\ answer'[p].next = NextSlot(Stored, t) /\ answer'[p].version = version
      /\ answer'[p].next = NULL <=> Stored.enabled = 0
  BY <1>3, <1>5, <1>6
<1> QED
  BY <1>1, <1>2, <1>4, <1>7, Zenon

LEMMA AnswersTellNextStep ==
    ASSUME TypeOK, DraftFits, StoredIsValid, AnswersTellNext, [Next]_vars
    PROVE  AnswersTellNext'
<1> DEFINE Tells(a) == IF a.schedule.enabled = 1 THEN IsNext(a.schedule, a.server_time, a.next)
                       ELSE a.next = NULL
<1>0. AnswersTellNext <=> \A p \in Editors : answer[p] # NULL => Tells(answer[p])
  BY Zenon DEF AnswersTellNext
<1>00. AnswersTellNext' <=> \A p \in Editors : answer'[p] # NULL => Tells(answer'[p])
  BY Zenon DEF AnswersTellNext
<1> USE DEF TypeOK, server, editor, request, history
<1>1. ASSUME NEW p \in Editors, scheduleResponse(p)
      PROVE  AnswersTellNext'
  <2>1. PICK t \in Week :
          /\ answer' = [answer EXCEPT ![p] = AnswerOf(Stored, t, NextSlot(Stored, t), version)]
          /\ answer'[p].schedule = Stored /\ answer'[p].server_time = t
          /\ answer'[p].next = NextSlot(Stored, t) /\ (answer'[p].next = NULL <=> Stored.enabled = 0)
          /\ Stored.enabled = 1 => IsNext(Stored, t, NextSlot(Stored, t))
    BY <1>1, NewAnswer, Zenon
  <2>2. Stored.enabled \in {0, 1}
    BY StoredIs, ScheduleIs
  <2>3. Tells(answer'[p])
    BY <2>1, <2>2
  <2>4. \A q \in Editors \ {p} : answer'[q] = answer[q]
    BY <2>1
  <2> HIDE DEF Tells
  <2> QED BY <2>3, <2>4, <1>0, <1>00
<1> HIDE DEF Tells
<1>2. ASSUME NEW p \in Editors, answered(p) \/ fail(p)
      PROVE  AnswersTellNext'
  BY <1>2, <1>0, <1>00 DEF answered, fail, Idle
<1>3. ASSUME UNCHANGED answer
      PROVE  AnswersTellNext'
  BY <1>3, <1>0, <1>00
<1>4. ASSUME NEW p \in Editors, load(p) \/ save(p) \/ leave(p) \/ ownedDisplay(p) \/ putDisplaySchedule(p)
      PROVE  UNCHANGED answer
  BY <1>4 DEF load, save, leave, ownedDisplay, putDisplaySchedule
<1>5. ASSUME NEW p \in Editors, NEW s \in Schedule, Draft(p, s)
      PROVE  UNCHANGED answer
  BY <1>5 DEF Draft
<1>6. ASSUME (\E s \in late : putLate(s)) \/ revokeDisplay \/ UNCHANGED vars
      PROVE  UNCHANGED answer
  BY <1>6 DEF putLate, revokeDisplay, vars
<1> QED
  BY StepIs, <1>1, <1>2, <1>3, <1>4, <1>5, <1>6

LEMMA VersionsStep ==
    ASSUME TypeOK, DraftFits, Versions, [Next]_vars
    PROVE  Versions'
<1> USE DEF TypeOK, Versions, server, editor, request, history
<1>0. NULL \notin Schedule /\ NULL \notin Nat
  BY ScheduleEditorAssumption, RefreshScheduleAssumption
<1>1. ASSUME NEW p \in Editors, load(p) \/ save(p) \/ leave(p) \/ ownedDisplay(p)
      PROVE  Versions'
  BY <1>1 DEF load, save, leave, ownedDisplay
<1>2. ASSUME NEW p \in Editors, fail(p)
      PROVE  Versions'
  BY <1>2 DEF fail, Idle
<1>3. ASSUME NEW p \in Editors, NEW s \in Schedule, schedule[p] # NULL, Draft(p, s)
      PROVE  Versions'
  BY <1>0, <1>3 DEF Draft
<1>4. ASSUME NEW p \in Editors, putDisplaySchedule(p)
      PROVE  Versions'
  <2>1. version' = version + 1 /\ wrote' = [wrote EXCEPT ![p] = version + 1] /\ pc' = [pc EXCEPT ![p] = "reread"]
    BY <1>4, Zenon DEF putDisplaySchedule, Put
  <2>2. pc[p] = "write" /\ UNCHANGED <<schedule, seen, body, answer>>
    BY <1>4, Zenon DEF putDisplaySchedule
  <2> QED BY <1>0, <2>1, <2>2, AnswerIs
<1>5. ASSUME NEW p \in Editors, scheduleResponse(p)
      PROVE  Versions'
  <2>1. \A q \in Editors : answer'[q] = answer[q] \/ answer'[q].version = version
    <3>1. PICK t \in Instants : answer' = [answer EXCEPT ![p] = AnswerOf(Stored, t, NextSlot(Stored, t), version)]
      BY <1>5, Zenon DEF scheduleResponse
    <3> QED BY <3>1 DEF AnswerOf
  <2>2. UNCHANGED <<version, schedule, seen, body, wrote>>
    BY <1>5, Zenon DEF scheduleResponse
  <2>3. pc[p] \in {"read", "reread"} /\ pc' = [pc EXCEPT ![p] = IF pc[p] = "read" THEN "loaded" ELSE "saved"]
    BY <1>5, Zenon DEF scheduleResponse
  <2>4. \A q \in Editors : answer'[q] # NULL => answer'[q].version <= version'
    BY <2>1, <2>2
  <2>5. \A q \in Editors : pc'[q] \in {"put", "write", "reread", "saved"} => body'[q] # NULL
    BY <2>2, <2>3
  <2> QED BY <2>2, <2>4, <2>5, Zenon
<1>6. ASSUME NEW p \in Editors, answered(p)
      PROVE  Versions'
  <2>1. answer[p].schedule # NULL /\ answer[p].version \in Nat
    BY <1>0, <1>6, AnswerIs DEF answered
  <2> QED BY <1>6, <2>1 DEF answered, Idle
<1>7. ASSUME NEW s \in late, putLate(s)
      PROVE  Versions'
  <2>1. version' = version \/ version' = version + 1
    BY <1>7, Zenon DEF putLate, Put
  <2>2. UNCHANGED <<schedule, seen, pc, body, answer, wrote>>
    BY <1>7, Zenon DEF putLate
  <2> QED BY <1>0, <2>1, <2>2, AnswerIs
<1>8. CASE revokeDisplay \/ UNCHANGED vars
  <2>1. version' = version \/ version' = version + 1
    BY <1>8, Zenon DEF revokeDisplay, vars
  <2>2. UNCHANGED <<schedule, seen, pc, body, answer, wrote>>
    BY <1>8, Zenon DEF revokeDisplay, vars
  <2> QED BY <1>0, <2>1, <2>2, AnswerIs
<1> QED
  BY StepIs, <1>1, <1>2, <1>3, <1>4, <1>5, <1>6, <1>7, <1>8

(* An answer is stale as soon as another version is stored.                *)
LEMMA StaleOrSame ==
    ASSUME TypeOK, DraftFits, Versions, [Next]_vars
    PROVE  \/ Stored' = Stored /\ version' = version
           \/ /\ version' = version + 1
              /\ \A q \in Editors : answer[q] # NULL => answer[q].version # version'
              /\ \A q \in Editors : wrote[q] # version'
              /\ \A q \in Editors : seen[q] # version'
<1>1. CASE stored' = stored /\ version' = version
  BY <1>1 DEF Stored
<1>2. CASE version' = version + 1
  <2>1. \A q \in Editors : answer[q] # NULL => answer[q].version \in Nat
    BY AnswerIs DEF TypeOK
  <2>2. /\ \A q \in Editors : wrote[q] <= version /\ wrote[q] \in Nat
        /\ \A q \in Editors : seen[q] # NULL => seen[q] \in Nat /\ seen[q] <= version
        /\ \A q \in Editors : answer[q] # NULL => answer[q].version <= version
    BY DEF TypeOK, Versions
  <2>3. version \in Nat /\ NULL \notin Nat
    BY RefreshScheduleAssumption DEF TypeOK
  <2> QED BY <1>2, <2>1, <2>2, <2>3
<1> QED
  BY <1>1, <1>2, ServerStep

LEMMA AnswersAgreeStep ==
    ASSUME TypeOK, DraftFits, StoredIsValid, Versions, AnswersAgree, [Next]_vars
    PROVE  AnswersAgree'
<1> DEFINE Agrees(a, s, v) == /\ a.version = v => a.schedule = s
                              /\ Len(a.schedule.windows) <= MaxWindows
                              /\ a.next = NULL <=> a.schedule.enabled = 0
<1>0. AnswersAgree => \A p \in Editors : answer[p] # NULL => Agrees(answer[p], Stored, version)
  BY Zenon DEF AnswersAgree
<1>00. (\A p \in Editors : answer'[p] # NULL => Agrees(answer'[p], Stored', version')) => AnswersAgree'
  BY Zenon DEF AnswersAgree
<1>1. ASSUME NEW p \in Editors, scheduleResponse(p)
      PROVE  AnswersAgree'
  <2>1. PICK t \in Week :
          /\ answer' = [answer EXCEPT ![p] = AnswerOf(Stored, t, NextSlot(Stored, t), version)]
          /\ answer'[p].schedule = Stored /\ answer'[p].version = version
          /\ (answer'[p].next = NULL <=> Stored.enabled = 0)
    BY <1>1, NewAnswer, Zenon
  <2>2. Len(Stored.windows) <= MaxWindows
    BY DEF StoredIsValid, Validate
  <2>3. Stored' = Stored /\ version' = version
    BY <1>1, Zenon DEF scheduleResponse, server, Stored
  <2>4. Agrees(answer'[p], Stored', version')
    BY <2>1, <2>2, <2>3
  <2>5. \A q \in Editors \ {p} : answer'[q] = answer[q]
    BY <2>1 DEF TypeOK
  <2> HIDE DEF Agrees
  <2> QED BY <2>3, <2>4, <2>5, <1>0, <1>00
<1>2. ASSUME \A q \in Editors : answer'[q] # NULL => answer'[q] = answer[q]
      PROVE  AnswersAgree'
  <2>1. \A q \in Editors : answer[q] # NULL => Agrees(answer[q], Stored', version')
    BY <1>0, StaleOrSame
  <2> QED BY <1>2, <2>1, <1>00, Zenon
<1> HIDE DEF Agrees
<1>3. ASSUME NEW p \in Editors, answered(p) \/ fail(p)
      PROVE  \A q \in Editors : answer'[q] # NULL => answer'[q] = answer[q]
  BY <1>3 DEF TypeOK, answered, fail, Idle
<1>4. ASSUME NEW p \in Editors, load(p) \/ save(p) \/ leave(p) \/ ownedDisplay(p) \/ putDisplaySchedule(p)
      PROVE  UNCHANGED answer
  BY <1>4 DEF load, save, leave, ownedDisplay, putDisplaySchedule, request
<1>5. ASSUME NEW p \in Editors, NEW s \in Schedule, Draft(p, s)
      PROVE  UNCHANGED answer
  BY <1>5 DEF Draft, request
<1>6. ASSUME (\E s \in late : putLate(s)) \/ revokeDisplay \/ UNCHANGED vars
      PROVE  UNCHANGED answer
  BY <1>6 DEF putLate, revokeDisplay, vars, request
<1> QED
  BY StepIs, <1>1, <1>2, <1>3, <1>4, <1>5, <1>6, Zenon

LEMMA SaidSavedStep ==
    ASSUME TypeOK, DraftFits, StoredIsValid, Versions, SaidSaved, [Next]_vars
    PROVE  SaidSaved'
<1> USE DEF TypeOK, SaidSaved, server, editor, request, history
<1>1. ASSUME NEW p \in Editors, scheduleResponse(p)
      PROVE  SaidSaved'
  <2>1. PICK t \in Week :
          /\ answer' = [answer EXCEPT ![p] = AnswerOf(Stored, t, NextSlot(Stored, t), version)]
          /\ answer'[p].version = version
    BY <1>1, NewAnswer, Zenon
  <2>2. UNCHANGED wrote /\ \A q \in Editors \ {p} : answer'[q] = answer[q] /\ pc'[q] = pc[q]
    BY <1>1, <2>1 DEF scheduleResponse
  <2>3. wrote[p] <= version
    BY DEF Versions
  <2> QED BY <2>1, <2>2, <2>3
<1>2. ASSUME NEW p \in Editors, answered(p) \/ fail(p)
      PROVE  SaidSaved'
  BY <1>2 DEF answered, fail, Idle
<1>3. ASSUME NEW p \in Editors, putDisplaySchedule(p)
      PROVE  SaidSaved'
  BY <1>3 DEF putDisplaySchedule
<1>4. ASSUME NEW p \in Editors, load(p) \/ save(p) \/ leave(p) \/ ownedDisplay(p)
      PROVE  SaidSaved'
  BY <1>4 DEF load, save, leave, ownedDisplay
<1>5. ASSUME NEW p \in Editors, NEW s \in Schedule, Draft(p, s)
      PROVE  SaidSaved'
  BY <1>5 DEF Draft
<1>6. ASSUME (\E s \in late : putLate(s)) \/ revokeDisplay \/ UNCHANGED vars
      PROVE  SaidSaved'
  BY <1>6 DEF putLate, revokeDisplay, vars
<1> QED
  BY StepIs, <1>1, <1>2, <1>3, <1>4, <1>5, <1>6

(* What every save under way is compared with stays as it was.             *)
LEMMA OwnSavesKept ==
    ASSUME TypeOK, DraftFits, Versions, OwnSaves, [Next]_vars, UNCHANGED <<body, wrote, answer>>,
           \A q \in Editors : pc'[q] \in {"reread", "saved"} => pc'[q] = pc[q]
    PROVE  OwnSaves'
<1>1. \A q \in Editors : pc'[q] = "reread" /\ wrote'[q] = version' => body'[q] = Stored'
  BY StaleOrSame DEF OwnSaves
<1> QED
  BY <1>1 DEF OwnSaves

LEMMA OwnSavesStep ==
    ASSUME TypeOK, DraftFits, StoredIsValid, Versions, OwnSaves, [Next]_vars
    PROVE  OwnSaves'
<1>1. ASSUME NEW p \in Editors, scheduleResponse(p)
      PROVE  OwnSaves'
  <2>1. PICK t \in Week :
          /\ answer' = [answer EXCEPT ![p] = AnswerOf(Stored, t, NextSlot(Stored, t), version)]
          /\ answer'[p] # NULL /\ answer'[p].schedule = Stored /\ answer'[p].version = version
    BY <1>1, NewAnswer, Zenon
  <2>2. /\ pc' = [pc EXCEPT ![p] = IF pc[p] = "read" THEN "loaded" ELSE "saved"]
        /\ pc[p] \in {"read", "reread"}
        /\ UNCHANGED <<stored, version, body, wrote>>
    BY <1>1, Zenon DEF scheduleResponse, server
  <2>3. Stored' = Stored
    BY <2>2, Zenon DEF Stored
  <2>4. /\ \A q \in Editors \ {p} : answer'[q] = answer[q] /\ pc'[q] = pc[q]
        /\ pc'[p] = "saved" => pc[p] = "reread"
        /\ pc'[p] # "reread"
    BY <2>1, <2>2 DEF TypeOK
  <2> QED BY <2>1, <2>2, <2>3, <2>4 DEF OwnSaves
<1>2. ASSUME NEW p \in Editors, putDisplaySchedule(p)
      PROVE  OwnSaves'
  <2>1. /\ pc[p] = "write" /\ pc' = [pc EXCEPT ![p] = "reread"]
        /\ wrote' = [wrote EXCEPT ![p] = version + 1]
        /\ stored' = body[p] /\ version' = version + 1
        /\ UNCHANGED <<body, answer>>
    BY <1>2, Zenon DEF putDisplaySchedule, Put
  <2>2. Stored' = body[p]
    BY <2>1 DEF Versions, Stored
  <2>3. /\ \A q \in Editors \ {p} : wrote'[q] = wrote[q] /\ pc'[q] = pc[q]
        /\ pc'[p] = "reread"
    BY <2>1 DEF TypeOK
  <2>4. \A q \in Editors : wrote[q] # version'
    BY <2>1 DEF TypeOK, Versions
  <2> QED BY <2>1, <2>2, <2>3, <2>4 DEF OwnSaves
<1>3. ASSUME NEW p \in Editors, answered(p) \/ fail(p)
      PROVE  OwnSaves'
  <2>1. Idle(p) /\ UNCHANGED <<stored, version>>
    BY <1>3, Zenon DEF answered, fail, server
  <2> QED BY <2>1 DEF TypeOK, OwnSaves, Idle, Stored
<1>4. ASSUME NEW p \in Editors, save(p)
      PROVE  OwnSaves'
  BY <1>4 DEF TypeOK, OwnSaves, Stored, save, server
<1>5. ASSUME NEW p \in Editors, load(p) \/ leave(p) \/ ownedDisplay(p)
      PROVE  OwnSaves'
  <2>1. UNCHANGED <<body, wrote, answer>>
    BY <1>5, Zenon DEF load, leave, ownedDisplay, request
  <2>2. \A q \in Editors : pc'[q] \in {"reread", "saved"} => pc'[q] = pc[q]
    BY <1>5 DEF TypeOK, load, leave, ownedDisplay, request
  <2> QED BY <2>1, <2>2, OwnSavesKept
<1>6. ASSUME NEW p \in Editors, NEW s \in Schedule, Draft(p, s)
      PROVE  OwnSaves'
  BY <1>6, OwnSavesKept DEF Draft, request
<1>7. CASE (\E s \in late : putLate(s)) \/ revokeDisplay \/ UNCHANGED vars
  BY <1>7, OwnSavesKept DEF putLate, revokeDisplay, vars, request
<1> QED
  BY StepIs, <1>1, <1>2, <1>3, <1>4, <1>5, <1>6, <1>7, Zenon

(* A form nobody touches agrees until what is stored has another version.  *)
LEMMA PageAgreesKept ==
    ASSUME TypeOK, DraftFits, Versions, PageAgrees, [Next]_vars,
           \A q \in Editors : \/ seen'[q] = NULL
                              \/ seen'[q] = seen[q] /\ schedule'[q] = schedule[q] /\ next'[q] = next[q]
    PROVE  PageAgrees'
<1>1. version' \in Nat /\ NULL \notin Nat
  BY RefreshScheduleAssumption, StaleOrSame DEF TypeOK
<1>2. ASSUME NEW q \in Editors, seen'[q] = version'
      PROVE  schedule'[q] = Stored' /\ (next'[q] = NULL <=> Stored'.enabled = 0)
  <2>1. seen[q] = version' /\ schedule'[q] = schedule[q] /\ next'[q] = next[q]
    BY <1>1, <1>2
  <2>2. Stored' = Stored /\ version' = version
    BY <2>1, StaleOrSame
  <2> QED BY <2>1, <2>2 DEF PageAgrees
<1> QED
  BY <1>2, Zenon DEF PageAgrees

LEMMA PageAgreesStep ==
    ASSUME TypeOK, DraftFits, Versions, AnswersAgree, PageAgrees, [Next]_vars
    PROVE  PageAgrees'
<1> USE DEF server, editor, request, history
<1>1. ASSUME NEW p \in Editors, answered(p)
      PROVE  PageAgrees'
  <2>1. /\ schedule' = [schedule EXCEPT ![p] = answer[p].schedule]
        /\ next' = [next EXCEPT ![p] = answer[p].next]
        /\ seen' = [seen EXCEPT ![p] = answer[p].version]
        /\ answer[p] # NULL /\ UNCHANGED <<stored, version>>
    BY <1>1, Zenon DEF answered
  <2>2. Stored' = Stored
    BY <2>1, Zenon DEF Stored
  <2>3. answer[p].version = version =>
          answer[p].schedule = Stored /\ (answer[p].next = NULL <=> Stored.enabled = 0)
    BY <2>1 DEF AnswersAgree
  <2>4. /\ schedule'[p] = answer[p].schedule /\ next'[p] = answer[p].next /\ seen'[p] = answer[p].version
        /\ \A q \in Editors \ {p} : seen'[q] = seen[q] /\ schedule'[q] = schedule[q] /\ next'[q] = next[q]
    BY <2>1 DEF TypeOK
  <2> QED BY <2>1, <2>2, <2>3, <2>4 DEF PageAgrees
<1>2. ASSUME NEW p \in Editors, NEW s \in Schedule, Draft(p, s)
      PROVE  PageAgrees'
  BY <1>2, PageAgreesKept DEF TypeOK, Draft
<1>3. ASSUME NEW p \in Editors, leave(p)
      PROVE  PageAgrees'
  BY <1>3, PageAgreesKept DEF TypeOK, leave
<1>4. ASSUME UNCHANGED <<seen, schedule, next>>
      PROVE  PageAgrees'
  BY <1>4, PageAgreesKept
<1>5. ASSUME NEW p \in Editors,
             load(p) \/ save(p) \/ ownedDisplay(p) \/ fail(p) \/ putDisplaySchedule(p) \/ scheduleResponse(p)
      PROVE  UNCHANGED <<seen, schedule, next>>
  BY <1>5 DEF load, save, ownedDisplay, fail, putDisplaySchedule, scheduleResponse
<1>6. ASSUME (\E s \in late : putLate(s)) \/ revokeDisplay \/ UNCHANGED vars
      PROVE  UNCHANGED <<seen, schedule, next>>
  BY <1>6 DEF putLate, revokeDisplay, vars
<1> QED
  BY StepIs, <1>1, <1>2, <1>3, <1>4, <1>5, <1>6, Zenon

-----------------------------------------------------------------------------
LEMMA InitIInv == Init => IInv
<1> SUFFICES ASSUME Init PROVE IInv
  OBVIOUS
<1>1. TypeOK
  BY TypeOKInit
<1>2. StoredIsValid
  BY DefaultIsValid DEF Init, StoredIsValid, Stored
<1>3. PageAgrees
  BY RefreshScheduleAssumption DEF Init, PageAgrees
<1>4. DraftFits /\ AnswersTellNext /\ NoOrphan /\ Versions /\ AnswersAgree /\ OwnSaves /\ SaidSaved
  BY DEF Init, DraftFits, AnswersTellNext, NoOrphan, Versions, AnswersAgree, OwnSaves, SaidSaved
<1> QED
  BY <1>1, <1>2, <1>3, <1>4 DEF IInv

LEMMA IInvStep ==
    ASSUME IInv, [Next]_vars
    PROVE  IInv'
<1>1. TypeOK' /\ DraftFits' /\ StoredIsValid'
  BY TypeOKStep, DraftFitsStep, StoredIsValidStep DEF IInv
<1>2. AnswersTellNext' /\ NoOrphan' /\ Versions'
  BY AnswersTellNextStep, NoOrphanStep, VersionsStep DEF IInv
<1>3. AnswersAgree' /\ OwnSaves' /\ PageAgrees' /\ SaidSaved'
  BY AnswersAgreeStep, OwnSavesStep, PageAgreesStep, SaidSavedStep DEF IInv
<1> QED
  BY <1>1, <1>2, <1>3 DEF IInv

LEMMA Invariance == Spec => []IInv
BY InitIInv, IInvStep, PTL DEF Spec

(* Whatever the drafts, requests and answers become, they are schedules    *)
(* the form can show and the server can store.                             *)
THEOREM TypeCorrect == Spec => []TypeOK
BY Invariance, PTL DEF IInv

(* The form never makes a draft of more windows than the server takes.     *)
THEOREM EveryDraftFits == Spec => []DraftFits
BY Invariance, PTL DEF IInv

(* The server can always read what it has stored, in whatever order owners *)
(* edit, save, abandon and repeat.                                         *)
THEOREM StoredStaysValid == Spec => []StoredIsValid
BY Invariance, PTL DEF IInv

(* Every answer for an enabled schedule tells the first slot after the     *)
(* instant it was given at, at most eight days away.                       *)
THEOREM DeviceIsToldNext == Spec => []AnswersTellNext
BY Invariance, PTL DEF IInv

(* Revoking a display at any time, also between the check of its owner and *)
(* the write, leaves no schedule without a display.                        *)
THEOREM NoOrphanSchedule == Spec => []NoOrphan
BY Invariance, PTL DEF IInv

(* A form nobody touched since an answer shows the stored schedule for as  *)
(* long as that stays the same.                                            *)
THEOREM PageAgreesWithServer == Spec => []PageAgrees
BY Invariance, PTL DEF IInv

(* An editor says "saved" only of its own save or of a later change.       *)
THEOREM SavedMeansSaved == Spec => []SaidSaved
BY Invariance, PTL DEF IInv

LEMMA SaveKeepsDraftStep ==
    ASSUME IInv, [Next]_vars, NEW p \in Editors,
           pc[p] = "saved", body[p] = schedule[p], answer[p].version = wrote[p]
    PROVE  schedule'[p] = schedule[p] \/ pc'[p] = "saved"
<1> USE DEF IInv, TypeOK, server, editor, request, history
<1>1. ASSUME NEW q \in Editors, answered(q)
      PROVE  schedule'[p] = schedule[p]
  <2>1. schedule' = [schedule EXCEPT ![q] = answer[q].schedule]
    BY <1>1, Zenon DEF answered
  <2>2. answer[p].schedule = body[p]
    BY DEF OwnSaves
  <2> QED BY <2>1, <2>2
<1>2. ASSUME NEW q \in Editors, NEW s \in Schedule, Draft(q, s)
      PROVE  pc'[p] = "saved"
  BY <1>2 DEF Draft
<1>3. ASSUME NEW q \in Editors, leave(q)
      PROVE  schedule'[p] = schedule[p]
  BY <1>3 DEF leave
<1>4. ASSUME NEW q \in Editors,
             load(q) \/ save(q) \/ ownedDisplay(q) \/ fail(q) \/ putDisplaySchedule(q) \/ scheduleResponse(q)
      PROVE  UNCHANGED schedule
  BY <1>4 DEF load, save, ownedDisplay, fail, putDisplaySchedule, scheduleResponse
<1>5. ASSUME (\E s \in late : putLate(s)) \/ revokeDisplay \/ UNCHANGED vars
      PROVE  UNCHANGED schedule
  BY <1>5 DEF putLate, revokeDisplay, vars
<1>6. TypeOK /\ DraftFits
  OBVIOUS
<1> QED
  BY StepIs, <1>1, <1>2, <1>3, <1>4, <1>5, <1>6, Zenon

(* The answer to a save that nobody overtook leaves an untouched form as   *)
(* it is.                                                                  *)
THEOREM SavingKeepsTheForm == Spec => SaveKeepsDraft
<1>1. IInv /\ [Next]_vars =>
        [\A p \in Editors :
           pc[p] = "saved" /\ body[p] = schedule[p] /\ answer[p].version = wrote[p] =>
             schedule'[p] = schedule[p] \/ pc'[p] = "saved"]_vars
  BY SaveKeepsDraftStep
<1> QED
  BY <1>1, Invariance, PTL DEF Spec, SaveKeepsDraft
=============================================================================
