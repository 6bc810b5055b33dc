----------------------------- MODULE BatteryAgent -----------------------------
(***************************************************************************)
(* The battery dashboard on the Kindle: battery-agent.sh with its guard    *)
(* and its worker, the refresh.sh and wake-test.sh the worker runs, and    *)
(* what the owner may start from the menu meanwhile: START and STOP, a     *)
(* refresh, a wake test and exclusive-test.sh cycle.                       *)
(*                                                                         *)
(* Every process is a sequence of steps, with any step of another between  *)
(* two of its own.  They share files: the directory RUN, two directories   *)
(* that are locks, the alarm of the clock, and the status bar's service.   *)
(*                                                                         *)
(* Sleeps are not counted, and what happens meanwhile is any step of the   *)
(* others.  Only the guard's first look comes after the worker has written *)
(* its pid, for which it has five seconds.                                 *)
(***************************************************************************)
CONSTANTS
    Refreshers,  \* the processes of refresh.sh from the menu
    Testers      \* the processes of the tests from the menu

ASSUME ProcessesAssumption ==
    /\ Refreshers \cap Testers = {}
    /\ {"none", "agent", "marked"} \cap (Refreshers \cup Testers) = {}

VARIABLES
    run,       \* whether the directory /tmp/eatby-agent exists
    files,     \* those of stop, restore-statusbar and rtc-target it has
    bar,       \* whether the status bar is running
    shown,     \* whether it was before anybody stopped it (history)
    wakeLock,    \* /tmp/eatby-wake-test: "none", a tester's, the agent's
                 \* without agent-owned ("agent") or with it ("marked")
    refreshLock, \* /tmp/eatby-refresh.lock: as above, or a refresher's
    alarm,     \* who has set the alarm of RTC1, or "none"
    starter,   \* battery-agent.sh start
    stopper,   \* battery-agent.sh stop
    guard,     \* battery-agent.sh guard
    worker,    \* battery-agent.sh worker
    child,     \* the refresh.sh or wake-test.sh it runs
    manual,    \* manual[r]: refresh.sh from the menu
    tester,    \* tester[t]: a test from the menu
    mode,      \* mode[t]: wake-test.sh ("wake"), exclusive-test.sh ("bar") or its cycle
    testDir,   \* whether /tmp/eatby-exclusive-test exists
    testFlag   \* whether it has stop-requested-statusbar

state == <<run, files>>
service == <<bar, shown>>
locks == <<wakeLock, refreshLock>>
menu == <<starter, stopper, manual>>
agent == <<guard, worker, child>>
test == <<tester, mode, testDir, testFlag>>
vars == <<state, service, locks, alarm, menu, agent, test>>

Refreshing == {"lock", "own", "fetch", "disown", "unlock"}
Waking == {"check", "arm", "asleep", "clear", "zero", "unmark", "rmdir"}

TypeOK ==
    /\ run \in BOOLEAN
    /\ files \subseteq {"stop", "restore-statusbar", "rtc-target"}
    /\ bar \in BOOLEAN /\ shown \in BOOLEAN
    /\ wakeLock \in {"none", "agent", "marked"} \cup Testers
    /\ refreshLock \in {"none", "agent", "marked"} \cup Refreshers \cup Testers
    /\ alarm \in {"none", "agent"} \cup Testers
    /\ starter \in {"idle", "checked", "made"}
    /\ stopper \in {"idle", "touch"}
    /\ guard \in {"none", "born", "sleep", "signal", "wait", "rtc", "rtcZero", "statusbar",
                  "verify", "locks", "locksOnly", "rm", "rmdir"}
    /\ worker \in {"none", "born", "wait", "bar", "flag", "stopBar", "loop", "refresh",
                   "retry", "due", "mark", "wake", "dying"}
    /\ child \in {"none"} \cup Refreshing \cup Waking
    /\ manual \in [Refreshers -> {"idle", "run"}]
    /\ tester \in [Testers -> {"idle", "checked", "made", "wake", "arm", "bar", "flag", "stopBar",
                               "asleep", "refresh", "clear", "release", "restore", "start", "rm"}]
    /\ mode \in [Testers -> {"wake", "bar", "cycle"}]
    /\ testDir \in BOOLEAN /\ testFlag \in BOOLEAN

Init ==
    /\ run = FALSE /\ files = {}
    /\ bar \in BOOLEAN /\ shown = bar
    /\ wakeLock = "none" /\ refreshLock = "none" /\ alarm = "none"
    /\ starter = "idle" /\ stopper = "idle"
    /\ guard = "none" /\ worker = "none" /\ child = "none"
    /\ manual = [r \in Refreshers |-> "idle"]
    /\ tester = [t \in Testers |-> "idle"] /\ mode = [t \in Testers |-> "wake"]
    /\ testDir = FALSE /\ testFlag = FALSE

Touch(f) == files' = IF run THEN files \cup {f} ELSE files

-----------------------------------------------------------------------------
(* START and STOP.                                                         *)

startCheck ==
    /\ starter = "idle" /\ ~testDir /\ wakeLock = "none"
    /\ starter' = "checked"
    /\ UNCHANGED <<state, service, locks, alarm, stopper, manual, agent, test>>

startMkdir ==
    /\ starter = "checked"
    /\ IF run THEN starter' = "idle" /\ UNCHANGED state
              ELSE starter' = "made" /\ run' = TRUE /\ files' = {}
    /\ UNCHANGED <<service, locks, alarm, stopper, manual, agent, test>>

startSpawn ==
    /\ starter = "made"
    /\ starter' = "idle"
    /\ guard' = "born" /\ worker' = "born"
    /\ UNCHANGED <<state, service, locks, alarm, stopper, manual, child, test>>

stopCheck ==
    /\ stopper = "idle" /\ run
    /\ stopper' = "touch"
    /\ UNCHANGED <<state, service, locks, alarm, starter, manual, agent, test>>

(* A faulty variant: a file nobody looks for.                              *)
stopTouchOther ==
    /\ stopper = "touch"
    /\ stopper' = "idle"
    /\ Touch("stopped")
    /\ UNCHANGED <<run, service, locks, alarm, starter, manual, agent, test>>

stopTouch ==
    /\ stopper = "touch"
    /\ stopper' = "idle"
    /\ Touch("stop")
    /\ UNCHANGED <<run, service, locks, alarm, starter, manual, agent, test>>

-----------------------------------------------------------------------------
(* The guard.                                                              *)

(* The worker whose pid and birth were recorded still runs.                *)
identity == worker \notin {"none", "born"}

guardStart ==
    /\ guard = "born"
    /\ guard' = "sleep"
    /\ UNCHANGED <<state, service, locks, alarm, menu, worker, child, test>>

(* A faulty variant: a worker that has exited is not noticed.              *)
guardLookStop ==
    /\ guard = "sleep" /\ worker # "born" /\ "stop" \in files
    /\ guard' = "signal"
    /\ UNCHANGED <<state, service, locks, alarm, menu, worker, child, test>>

guardLook ==
    /\ guard = "sleep" /\ worker # "born"
    /\ "stop" \in files \/ ~identity
    /\ guard' = "signal"
    /\ UNCHANGED <<state, service, locks, alarm, menu, worker, child, test>>

(* A worker may hang anywhere for longer than its lease.                   *)
leaseExceeded ==
    /\ guard = "sleep" /\ identity
    /\ guard' = "signal"
    /\ UNCHANGED <<state, service, locks, alarm, menu, worker, child, test>>

(* What TERM makes of the child: its trap, but one that has none yet dies. *)
Trapped(c) ==
    CASE c \in {"lock", "own"} -> "none"
      [] c = "fetch" -> "disown"
      [] c \in {"check", "arm", "asleep"} -> "clear"
      [] OTHER -> c

guardTerm ==
    /\ guard = "signal"
    /\ IF identity
         THEN guard' = "wait" /\ worker' = "dying" /\ child' = Trapped(child)
         ELSE guard' = "rtc" /\ UNCHANGED <<worker, child>>
    /\ UNCHANGED <<state, service, locks, alarm, menu, test>>

(* A faulty variant: TERM is trusted.                                      *)
guardWaitOnly ==
    /\ guard = "wait"
    /\ guard' = "rtc"
    /\ UNCHANGED <<state, service, locks, alarm, menu, worker, child, test>>

guardKill ==
    /\ guard = "wait"
    /\ guard' = "rtc" /\ worker' = "none" /\ child' = "none"
    /\ UNCHANGED <<state, service, locks, alarm, menu, test>>

(* A faulty variant: whoever has set the alarm.                            *)
restoreRtcOfAll ==
    /\ guard = "rtc"
    /\ guard' = IF "rtc-target" \in files THEN "rtcZero" ELSE "statusbar"
    /\ UNCHANGED <<state, service, locks, alarm, menu, worker, child, test>>

restoreRtc ==
    /\ guard = "rtc"
    /\ guard' = IF "rtc-target" \in files /\ alarm = "agent" THEN "rtcZero" ELSE "statusbar"
    /\ UNCHANGED <<state, service, locks, alarm, menu, worker, child, test>>

restoreRtcZero ==
    /\ guard = "rtcZero"
    /\ guard' = "statusbar" /\ alarm' = "none"
    /\ UNCHANGED <<state, service, locks, menu, worker, child, test>>

(* Three starts may fail.                                                  *)
restoreStatusbar ==
    /\ guard = "statusbar"
    /\ guard' = "verify"
    /\ IF "restore-statusbar" \in files /\ ~bar THEN bar' \in BOOLEAN ELSE UNCHANGED bar
    /\ UNCHANGED <<state, shown, locks, alarm, menu, worker, child, test>>

restoreVerify ==
    /\ guard = "verify"
    /\ guard' = IF "restore-statusbar" \in files /\ ~bar THEN "locksOnly" ELSE "locks"
    /\ UNCHANGED <<state, service, locks, alarm, menu, worker, child, test>>

(* A faulty variant: removes the locks of anybody.                         *)
restoreLocksOfAll ==
    /\ guard \in {"locks", "locksOnly"}
    /\ wakeLock' = "none" /\ refreshLock' = "none"
    /\ guard' = IF guard = "locks" THEN "rm" ELSE "none"
    /\ UNCHANGED <<state, service, alarm, menu, worker, child, test>>

restoreLocks ==
    /\ guard \in {"locks", "locksOnly"}
    /\ wakeLock' = IF wakeLock = "marked" THEN "none" ELSE wakeLock
    /\ refreshLock' = IF refreshLock = "marked" THEN "none" ELSE refreshLock
    /\ guard' = IF guard = "locks" THEN "rm" ELSE "none"
    /\ UNCHANGED <<state, service, alarm, menu, worker, child, test>>

(* rm -rf: a file that STOP makes meanwhile keeps the directory.           *)
restoreRm ==
    /\ guard = "rm"
    /\ guard' = "rmdir" /\ files' = {}
    /\ UNCHANGED <<run, service, locks, alarm, menu, worker, child, test>>

restoreRmdir ==
    /\ guard = "rmdir"
    /\ guard' = "none" /\ run' = (files # {})
    /\ UNCHANGED <<files, service, locks, alarm, menu, worker, child, test>>

-----------------------------------------------------------------------------
(* The worker.  Its leases are left out, a lease may be exceeded anyway.   *)

workerStart ==
    /\ worker = "born"
    /\ worker' = "wait"
    /\ UNCHANGED <<state, service, locks, alarm, menu, guard, child, test>>

(* A guard that is late is no guard.                                       *)
workerWait ==
    /\ worker = "wait"
    /\ worker' = IF guard \in {"none", "born"} THEN "dying" ELSE "bar"
    /\ UNCHANGED <<state, service, locks, alarm, menu, guard, child, test>>

workerBar ==
    /\ worker = "bar"
    /\ worker' = IF bar THEN "flag" ELSE "loop"
    /\ UNCHANGED <<state, service, locks, alarm, menu, guard, child, test>>

(* A faulty variant: nothing says that the bar is to be restored.          *)
workerFlagForgotten ==
    /\ worker = "flag"
    /\ worker' = "stopBar"
    /\ UNCHANGED <<state, service, locks, alarm, menu, guard, child, test>>

workerFlag ==
    /\ worker = "flag"
    /\ worker' = "stopBar" /\ Touch("restore-statusbar")
    /\ UNCHANGED <<run, service, locks, alarm, menu, guard, child, test>>

(* It fails if the bar is not running, and may fail whatever it did.       *)
workerStopBar ==
    /\ worker = "stopBar"
    /\ bar' = FALSE \/ UNCHANGED bar
    /\ \/ bar /\ ~bar' /\ worker' = "loop"
       \/ worker' = "dying"
    /\ UNCHANGED <<state, shown, locks, alarm, menu, guard, child, test>>

workerLoop ==
    /\ worker = "loop"
    /\ IF "stop" \in files THEN worker' = "dying" /\ UNCHANGED child
                           ELSE worker' = "refresh" /\ child' = "lock"
    /\ UNCHANGED <<state, service, locks, alarm, menu, guard, test>>

(* A short interval is waited for awake, a long one asleep.                *)
workerShort ==
    /\ worker = "due"
    /\ worker' = IF "stop" \in files THEN "dying" ELSE "loop"
    /\ UNCHANGED <<state, service, locks, alarm, menu, guard, child, test>>

(* A faulty variant: mkdir -p, which does not mind that a test has it.      *)
workerMkdirP ==
    /\ worker = "due"
    /\ wakeLock' = "agent" /\ worker' = "mark"
    /\ UNCHANGED <<state, service, refreshLock, alarm, menu, guard, child, test>>

workerMkdir ==
    /\ worker = "due"
    /\ IF wakeLock = "none" THEN wakeLock' = "agent" /\ worker' = "mark"
                            ELSE worker' = "dying" /\ UNCHANGED wakeLock
    /\ UNCHANGED <<state, service, refreshLock, alarm, menu, guard, child, test>>

workerMark ==
    /\ worker = "mark"
    /\ wakeLock' = "marked"
    /\ worker' = "wake" /\ child' = "check"
    /\ UNCHANGED <<state, service, refreshLock, alarm, menu, guard, test>>

workerExit ==
    /\ worker = "dying" /\ child = "none"
    /\ worker' = "none"
    /\ UNCHANGED <<state, service, locks, alarm, menu, guard, child, test>>

-----------------------------------------------------------------------------
(* refresh.sh, run by the worker.                                          *)

(* A faulty variant: mkdir -p.                                             *)
refreshMkdirP ==
    /\ child = "lock"
    /\ refreshLock' = "agent" /\ child' = "own"
    /\ UNCHANGED <<state, service, wakeLock, alarm, worker, menu, guard, test>>

refreshMkdir ==
    /\ child = "lock"
    /\ IF refreshLock = "none"
         THEN refreshLock' = "agent" /\ child' = "own" /\ UNCHANGED worker
         ELSE child' = "none" /\ worker' = "dying" /\ UNCHANGED refreshLock
    /\ UNCHANGED <<state, service, wakeLock, alarm, menu, guard, test>>

refreshOwn ==
    /\ child = "own"
    /\ refreshLock' = "marked" /\ child' = "fetch"
    /\ UNCHANGED <<state, service, wakeLock, alarm, menu, guard, worker, test>>

(* An image, a failure that may pass, or one that will not.                *)
refreshFetch ==
    /\ child = "fetch"
    /\ child' = "disown"
    /\ worker' \in {worker, "dying"}
    /\ UNCHANGED <<state, service, locks, alarm, menu, guard, test>>

refreshDisown ==
    /\ child = "disown"
    /\ refreshLock' = "agent" /\ child' = "unlock"
    /\ UNCHANGED <<state, service, wakeLock, alarm, menu, guard, worker, test>>

(* After it the worker goes on with a new image or the cached one, tries   *)
(* once more, or exits: paused, told no usable time, nothing cached.       *)
refreshRmdir ==
    /\ child = "unlock"
    /\ refreshLock' = "none"
    /\ \/ worker = "refresh" /\ worker' = "retry" /\ child' = "lock"
       \/ worker # "dying" /\ worker' = "due" /\ child' = "none"
       \/ worker' = "dying" /\ child' = "none"
    /\ UNCHANGED <<state, service, wakeLock, alarm, menu, guard, test>>

-----------------------------------------------------------------------------
(* wake-test.sh, run by the worker.                                        *)

(* A faulty variant: the guard is not told of the alarm.                   *)
wakeCheckUnrecorded ==
    /\ child = "check"
    /\ \/ alarm = "none" /\ child' = "arm" /\ UNCHANGED worker
       \/ child' = "clear" /\ worker' = "dying"
    /\ UNCHANGED <<state, service, locks, alarm, menu, guard, test>>

(* No alarm may be set, the device must fall asleep.                       *)
wakeCheck ==
    /\ child = "check"
    /\ \/ alarm = "none" /\ child' = "arm" /\ Touch("rtc-target") /\ UNCHANGED worker
       \/ child' = "clear" /\ worker' = "dying" /\ UNCHANGED files
    /\ UNCHANGED <<run, service, locks, alarm, menu, guard, test>>

wakeArm ==
    /\ child = "arm"
    /\ \/ alarm' = "agent" /\ child' = "asleep" /\ UNCHANGED worker
       \/ child' = "clear" /\ worker' = "dying" /\ UNCHANGED alarm
    /\ UNCHANGED <<state, service, locks, menu, guard, test>>

(* The slot has come, or the clock has changed.                            *)
wakeAwake ==
    /\ child = "asleep"
    /\ child' = "clear" /\ worker' \in {worker, "dying"}
    /\ UNCHANGED <<state, service, locks, alarm, menu, guard, test>>

wakeClear ==
    /\ child = "clear"
    /\ child' = IF alarm = "agent" THEN "zero" ELSE "unmark"
    /\ UNCHANGED <<state, service, locks, alarm, menu, guard, worker, test>>

wakeZero ==
    /\ child = "zero"
    /\ child' = "unmark" /\ alarm' = "none"
    /\ UNCHANGED <<state, service, locks, menu, guard, worker, test>>

wakeUnmark ==
    /\ child = "unmark"
    /\ wakeLock' = "agent" /\ child' = "rmdir"
    /\ UNCHANGED <<state, service, refreshLock, alarm, menu, guard, worker, test>>

wakeRmdir ==
    /\ child = "rmdir"
    /\ wakeLock' = "none" /\ child' = "none"
    /\ worker' = IF worker = "dying" THEN "dying" ELSE "loop"
    /\ UNCHANGED <<state, service, refreshLock, alarm, menu, guard, test>>

(* The alarm goes off.                                                     *)
ring ==
    /\ alarm # "none"
    /\ alarm' = "none"
    /\ UNCHANGED <<state, service, locks, menu, agent, test>>

-----------------------------------------------------------------------------
(* From the menu: refresh.sh ...                                           *)

manualMkdir(r) ==
    /\ manual[r] = "idle" /\ refreshLock = "none"
    /\ manual' = [manual EXCEPT ![r] = "run"]
    /\ refreshLock' = r
    /\ UNCHANGED <<state, service, wakeLock, alarm, starter, stopper, agent, test>>

manualExit(r) ==
    /\ manual[r] = "run"
    /\ manual' = [manual EXCEPT ![r] = "idle"]
    /\ refreshLock' = "none"
    /\ UNCHANGED <<state, service, wakeLock, alarm, starter, stopper, agent, test>>

(* ... a test of waking (wake-test.sh), of hiding the bar                  *)
(* (exclusive-test.sh), or of a cycle of both and a refresh.               *)
Goto(t, pc) == tester' = [tester EXCEPT ![t] = pc]

testCheck(t) ==
    /\ tester[t] = "idle" /\ ~run
    /\ Goto(t, "checked")
    /\ \E m \in {"wake", "bar", "cycle"} : mode' = [mode EXCEPT ![t] = m]
    /\ UNCHANGED <<state, service, locks, alarm, menu, agent, testDir, testFlag>>

exclusiveMkdir(t) ==
    /\ tester[t] = "checked" /\ mode[t] # "wake"
    /\ IF testDir THEN Goto(t, "idle") /\ UNCHANGED testDir
                  ELSE Goto(t, IF mode[t] = "bar" THEN "bar" ELSE "made") /\ testDir' = TRUE
    /\ UNCHANGED <<state, service, locks, alarm, menu, agent, mode, testFlag>>

wakeTestMkdir(t) ==
    /\ tester[t] = IF mode[t] = "wake" THEN "checked" ELSE "made"
    /\ IF wakeLock = "none"
         THEN Goto(t, "wake") /\ wakeLock' = t
         ELSE Goto(t, IF mode[t] = "wake" THEN "idle" ELSE "restore") /\ UNCHANGED wakeLock
    /\ UNCHANGED <<state, service, refreshLock, alarm, menu, agent, mode, testDir, testFlag>>

testWake(t) ==
    /\ tester[t] = "wake"
    /\ \/ alarm = "none" /\ Goto(t, "arm")
       \/ Goto(t, "release")
    /\ UNCHANGED <<state, service, locks, alarm, menu, agent, mode, testDir, testFlag>>

testArm(t) ==
    /\ tester[t] = "arm"
    /\ \/ alarm' = t /\ Goto(t, IF mode[t] = "wake" THEN "asleep" ELSE "bar")
       \/ Goto(t, "release") /\ UNCHANGED alarm
    /\ UNCHANGED <<state, service, locks, menu, agent, mode, testDir, testFlag>>

takeDisplay(t) ==
    /\ tester[t] = "bar"
    /\ Goto(t, IF bar THEN "flag" ELSE "asleep")
    /\ UNCHANGED <<state, service, locks, alarm, menu, agent, mode, testDir, testFlag>>

takeDisplayFlag(t) ==
    /\ tester[t] = "flag"
    /\ Goto(t, "stopBar") /\ testFlag' = TRUE
    /\ UNCHANGED <<state, service, locks, alarm, menu, agent, mode, testDir>>

(* Where a test goes on that fails, or is over.                            *)
Over(t) == IF mode[t] = "bar" THEN "restore" ELSE "clear"

takeDisplayStop(t) ==
    /\ tester[t] = "stopBar"
    /\ bar' = FALSE \/ UNCHANGED bar
    /\ \/ ~bar' /\ Goto(t, "asleep")
       \/ Goto(t, Over(t))
    /\ UNCHANGED <<state, shown, locks, alarm, menu, agent, mode, testDir, testFlag>>

testAwake(t) ==
    /\ tester[t] = "asleep"
    /\ IF mode[t] = "cycle" /\ refreshLock = "none"
         THEN Goto(t, "refresh") /\ refreshLock' = t
         ELSE Goto(t, Over(t)) /\ UNCHANGED refreshLock
    /\ UNCHANGED <<state, service, wakeLock, alarm, menu, agent, mode, testDir, testFlag>>

testRefreshed(t) ==
    /\ tester[t] = "refresh"
    /\ Goto(t, "clear") /\ refreshLock' = "none"
    /\ UNCHANGED <<state, service, wakeLock, alarm, menu, agent, mode, testDir, testFlag>>

testClear(t) ==
    /\ tester[t] = "clear"
    /\ Goto(t, "release")
    /\ alarm' = IF alarm = t THEN "none" ELSE alarm
    /\ UNCHANGED <<state, service, locks, menu, agent, mode, testDir, testFlag>>

(* A directory that holds agent-owned is not empty.                        *)
testRelease(t) ==
    /\ tester[t] = "release"
    /\ Goto(t, IF mode[t] = "wake" THEN "idle" ELSE "restore")
    /\ wakeLock' = IF wakeLock = "marked" THEN wakeLock ELSE "none"
    /\ UNCHANGED <<state, service, refreshLock, alarm, menu, agent, mode, testDir, testFlag>>

(* A failed restoration leaves the directory behind.                       *)
testRestore(t) ==
    /\ tester[t] = "restore"
    /\ Goto(t, IF testFlag /\ ~bar THEN "start" ELSE "rm")
    /\ UNCHANGED <<state, service, locks, alarm, menu, agent, mode, testDir, testFlag>>

testStart(t) ==
    /\ tester[t] = "start"
    /\ \/ bar' = TRUE /\ Goto(t, "rm")
       \/ ~bar /\ Goto(t, "idle") /\ UNCHANGED bar
    /\ UNCHANGED <<state, shown, locks, alarm, menu, agent, mode, testDir, testFlag>>

testRm(t) ==
    /\ tester[t] = "rm"
    /\ Goto(t, "idle") /\ testDir' = FALSE /\ testFlag' = FALSE
    /\ UNCHANGED <<state, service, locks, alarm, menu, agent, mode>>

-----------------------------------------------------------------------------
Start == startCheck \/ startMkdir \/ startSpawn
Stop == stopCheck \/ stopTouch
Guard ==
    \/ guardStart \/ guardLook \/ guardTerm \/ guardKill
    \/ restoreRtc \/ restoreRtcZero \/ restoreStatusbar \/ restoreVerify \/ restoreLocks
    \/ restoreRm \/ restoreRmdir
Worker ==
    \/ workerStart \/ workerWait \/ workerBar \/ workerFlag \/ workerStopBar
    \/ workerLoop \/ workerShort \/ workerMkdir \/ workerMark \/ workerExit
Refresh == refreshMkdir \/ refreshOwn \/ refreshFetch \/ refreshDisown \/ refreshRmdir
Wake == wakeCheck \/ wakeArm \/ wakeAwake \/ wakeClear \/ wakeZero \/ wakeUnmark \/ wakeRmdir
Menu(r) == manualMkdir(r) \/ manualExit(r)
Test(t) ==
    \/ testCheck(t) \/ exclusiveMkdir(t) \/ wakeTestMkdir(t) \/ testWake(t) \/ testArm(t)
    \/ takeDisplay(t) \/ takeDisplayFlag(t) \/ takeDisplayStop(t) \/ testAwake(t)
    \/ testRefreshed(t) \/ testClear(t) \/ testRelease(t) \/ testRestore(t) \/ testStart(t)
    \/ testRm(t)

Next ==
    \/ Start \/ Stop \/ Guard \/ leaseExceeded
    \/ Worker \/ Refresh \/ Wake \/ ring
    \/ \E r \in Refreshers : Menu(r)
    \/ \E t \in Testers : Test(t)

(* The guard and a worker that has just been spawned are scheduled.        *)
Spec == Init /\ [][Next]_vars /\ WF_vars(Guard) /\ WF_vars(workerStart)

-----------------------------------------------------------------------------
(* The status bar is as it was before, unless somebody still has to        *)
(* restore it: not even an agent and a test that have started together and *)
(* both stop and restore it leave it stopped.                              *)
BarRestored == bar # shown => run \/ testDir

(* An agent that is gone leaves neither its alarm nor a lock marked as its *)
(* own behind, wherever it was terminated or killed.                       *)
AgentCleared == ~run => alarm # "agent" /\ wakeLock # "marked" /\ refreshLock # "marked"

(* A test that is to have the wake lock.                                   *)
Asleep(t) ==
    /\ mode[t] # "bar"
    /\ tester[t] \in {"wake", "arm", "bar", "flag", "stopBar", "asleep", "refresh", "clear", "release"}

(* Whoever has a lock from the menu keeps it until he releases it, no      *)
(* matter what guards clear meanwhile; so nothing refreshes twice at once. *)
OthersKeepLocks ==
    /\ \A r \in Refreshers : manual[r] = "run" => refreshLock = r
    /\ \A t \in Testers : tester[t] = "refresh" => refreshLock = t
    /\ \A t \in Testers : Asleep(t) => wakeLock = t

(* Nobody refreshes the picture, and nobody sets the alarm and sleeps,     *)
(* while somebody else does: agent, refreshes and tests exclude each other *)
(* although a killed agent leaves its locks to its guard to remove.        *)
RefreshingNow ==
    {r \in Refreshers : manual[r] = "run"} \cup {t \in Testers : tester[t] = "refresh"}
        \cup {a \in {"agent"} : child \in Refreshing \ {"lock"}}
WakingNow ==
    {t \in Testers : Asleep(t)} \cup {a \in {"agent"} : worker = "mark" \/ child \in Waking}

Everybody == Refreshers \cup Testers \cup {"agent"}
Refreshes == INSTANCE OneAtATime WITH Processes <- Everybody, inside <- RefreshingNow
Wakes == INSTANCE OneAtATime WITH Processes <- Everybody, inside <- WakingNow

RefreshesExclude == Refreshes!Spec
WakesExclude == Wakes!Spec

(* When START may make a new agent nothing of the last one is left: there  *)
(* is never a second worker or a guard of another agent.                   *)
NobodyLeft == ~run => guard = "none" /\ worker = "none" /\ child = "none"

(* The agent clears the alarm of no test, though it looks at the alarm and *)
(* clears it in two steps.                                                 *)
OthersKeepAlarms ==
    [][(alarm \in Testers /\ alarm' # alarm) => UNCHANGED <<guard, child>>]_vars

(* A stopped agent, and one whose worker has exited, comes to its end,     *)
(* even if the worker hangs.                                               *)
AgentEnds ==
    guard # "none" /\ ("stop" \in files \/ worker = "none") ~>
        guard = "none" /\ worker = "none"
-----------------------------------------------------------------------------
(* Why: the agent's processes live in RUN, the guard longest ...           *)
Alive == {"born", "sleep", "signal", "wait"}

Lives ==
    /\ guard # "none" => run
    /\ worker # "none" => guard \in Alive
    /\ worker = "born" => guard \in {"born", "sleep"}
    /\ child \in Refreshing => worker \in {"refresh", "retry", "dying"}
    /\ child \in Waking => worker \in {"wake", "dying"}
    /\ starter = "made" => run /\ guard = "none"

(* ... one exclusive test at most has its directory ...                    *)
Exclusive(t) == mode[t] # "wake" /\ tester[t] \notin {"idle", "checked"}

Tests ==
    /\ \A t \in Testers : Exclusive(t) => testDir
    /\ \A t, u \in Testers : Exclusive(t) /\ Exclusive(u) => t = u
    /\ \A t \in Testers :
         /\ tester[t] \in {"bar", "flag", "stopBar", "restore", "start", "rm"} => mode[t] # "wake"
         /\ tester[t] \in {"wake", "arm", "refresh", "clear", "release"} => mode[t] # "bar"
         /\ tester[t] = "made" => mode[t] = "cycle"
    /\ \A t \in Testers : tester[t] \in {"stopBar", "start"} => testFlag
    /\ testFlag => testDir

(* ... the agent's locks tell how far its worker is ...                    *)
Held ==
    /\ worker = "mark" => wakeLock = "agent"
    /\ child \in Waking \ {"rmdir"} => wakeLock = "marked"
    /\ child = "rmdir" => wakeLock = "agent"
    /\ child \in {"own", "unlock"} => refreshLock = "agent"
    /\ child \in {"fetch", "disown"} => refreshLock = "marked"
    /\ wakeLock = "marked" \/ refreshLock = "marked" => guard \notin {"none", "rm", "rmdir"}

(* ... only who has the wake lock sets an alarm, and the guard is told ... *)
Alarms ==
    /\ alarm \in Testers =>
         /\ wakeLock = alarm /\ mode[alarm] # "bar"
         /\ tester[alarm] \in {"bar", "flag", "stopBar", "asleep", "refresh", "clear"}
    /\ alarm = "agent" =>
         /\ wakeLock = "marked" /\ "rtc-target" \in files
         /\ guard \in Alive \cup {"rtc", "rtcZero"}
    /\ child = "arm" => "rtc-target" \in files
    /\ child = "unmark" => alarm # "agent"
    /\ guard = "rtcZero" => wakeLock = "marked"

(* ... and whoever stops the bar has said so before, and looks at it once  *)
(* more after that.                                                        *)
Bar ==
    /\ bar => shown
    /\ worker = "flag" \/ "restore-statusbar" \in files \/ testFlag => shown
    /\ \A t \in Testers : tester[t] = "flag" => shown
    /\ worker = "stopBar" => "restore-statusbar" \in files
    /\ bar # shown =>
         \/ run /\ "restore-statusbar" \in files /\ guard \notin {"locks", "rm", "rmdir"}
         \/ testDir /\ testFlag /\ \A t \in Testers : tester[t] # "rm"

IInv == TypeOK /\ Lives /\ Tests /\ Held /\ Alarms /\ Bar /\ OthersKeepLocks
=============================================================================
