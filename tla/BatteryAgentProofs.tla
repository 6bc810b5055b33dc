--------------------------- MODULE BatteryAgentProofs ---------------------------
(***************************************************************************)
(* Whatever the processes of the menu are and whoever terminates whom, the *)
(* agent gives back what it has taken: the invariants of BatteryAgent from *)
(* the inductive one, IInv.  A lemma for every process of the module, with *)
(* a step for every action of it, and one for every part of IInv that the  *)
(* action touches.  At the end, the lock of the refresh and that of the    *)
(* wake test each implement OneAtATime.                                    *)
(***************************************************************************)
EXTENDS BatteryAgent, TLAPS

-----------------------------------------------------------------------------

LEMMA StartKeeps ==
    ASSUME IInv, Start
    PROVE  IInv'
<1> USE DEF state, service, locks, menu, agent, test, Alive, Refreshing, Waking
<1>1. CASE startCheck
  <2>1. TypeOK'
    BY <1>1 DEF IInv, TypeOK, startCheck
  <2>2. Lives'
    BY <1>1 DEF IInv, TypeOK, Lives, startCheck
  <2>3. Tests' /\ Held' /\ Alarms' /\ Bar' /\ OthersKeepLocks'
    BY <1>1 DEF IInv, Tests, Held, Alarms, Bar, OthersKeepLocks, Exclusive, Asleep, startCheck
  <2> QED BY <2>1, <2>2, <2>3 DEF IInv
<1>2. CASE startMkdir
  <2>1. run' \in BOOLEAN
    BY <1>2, Zenon DEF IInv, TypeOK, startMkdir
  <2>2. files' \subseteq {"stop", "restore-statusbar", "rtc-target"} /\ starter' \in {"idle", "made"}
    BY <1>2 DEF IInv, TypeOK, startMkdir
  <2>3. UNCHANGED <<service, locks, alarm, stopper, manual, agent, test>>
    BY <1>2 DEF startMkdir
  <2>4. TypeOK'
    BY <2>1, <2>2, <2>3 DEF IInv, TypeOK
  <2>5. Lives'
    BY <1>2 DEF IInv, TypeOK, Lives, startMkdir
  <2>6. Alarms'
    BY <1>2, ProcessesAssumption DEF IInv, TypeOK, Lives, Held, Alarms, OthersKeepLocks, Tests, Asleep, Exclusive, startMkdir
  <2>7. Bar'
    BY <1>2 DEF IInv, TypeOK, Lives, Tests, Bar, Exclusive, startMkdir
  <2>8. Tests' /\ Held' /\ OthersKeepLocks'
    BY <1>2 DEF IInv, Tests, Held, OthersKeepLocks, Exclusive, Asleep, startMkdir
  <2> QED BY <2>1, <2>2, <2>3, <2>4, <2>5, <2>6, <2>7, <2>8 DEF IInv
<1>3. CASE startSpawn
  <2>1. TypeOK'
    BY <1>3 DEF IInv, TypeOK, startSpawn
  <2>2. Lives'
    BY <1>3 DEF IInv, TypeOK, Lives, startSpawn
  <2>3. Held'
    BY <1>3, ProcessesAssumption DEF IInv, TypeOK, Lives, Held, OthersKeepLocks, Tests, Asleep, Exclusive, startSpawn
  <2>4. Alarms'
    BY <1>3, ProcessesAssumption DEF IInv, TypeOK, Lives, Held, Alarms, OthersKeepLocks, Tests, Asleep, Exclusive, startSpawn
  <2>5. Bar'
    BY <1>3 DEF IInv, TypeOK, Lives, Tests, Bar, Exclusive, startSpawn
  <2>6. Tests' /\ OthersKeepLocks'
    BY <1>3 DEF IInv, Tests, OthersKeepLocks, Exclusive, Asleep, startSpawn
  <2> QED BY <2>1, <2>2, <2>3, <2>4, <2>5, <2>6 DEF IInv
<1> QED BY <1>1, <1>2, <1>3 DEF Start

LEMMA StopKeeps ==
    ASSUME IInv, Stop
    PROVE  IInv'
<1> USE DEF state, service, locks, menu, agent, test, Alive, Refreshing, Waking
<1>1. CASE stopCheck
  <2>1. TypeOK'
    BY <1>1 DEF IInv, TypeOK, stopCheck
  <2>2. Lives' /\ Tests' /\ Held' /\ Alarms' /\ Bar' /\ OthersKeepLocks'
    BY <1>1 DEF IInv, Lives, Tests, Held, Alarms, Bar, OthersKeepLocks, Exclusive, Asleep, stopCheck
  <2> QED BY <2>1, <2>2 DEF IInv
<1>2. CASE stopTouch
  <2>1. TypeOK'
    BY <1>2 DEF IInv, TypeOK, stopTouch, Touch
  <2>2. Alarms'
    BY <1>2, ProcessesAssumption DEF IInv, TypeOK, Lives, Held, Alarms, OthersKeepLocks, Tests, Asleep, Exclusive, stopTouch, Touch
  <2>3. Bar'
    BY <1>2 DEF IInv, TypeOK, Lives, Tests, Bar, Exclusive, stopTouch, Touch
  <2>4. Lives' /\ Tests' /\ Held' /\ OthersKeepLocks'
    BY <1>2 DEF IInv, Lives, Tests, Held, OthersKeepLocks, Exclusive, Asleep, stopTouch, Touch
  <2> QED BY <2>1, <2>2, <2>3, <2>4 DEF IInv
<1> QED BY <1>1, <1>2 DEF Stop

LEMMA GuardKeeps ==
    ASSUME IInv, Guard
    PROVE  IInv'
<1> USE DEF state, service, locks, menu, agent, test, Alive, Refreshing, Waking
<1>1. CASE guardStart
  <2>1. TypeOK'
    BY <1>1 DEF IInv, TypeOK, guardStart
  <2>2. Lives'
    BY <1>1 DEF IInv, TypeOK, Lives, guardStart
  <2>3. Held'
    BY <1>1, ProcessesAssumption DEF IInv, TypeOK, Lives, Held, OthersKeepLocks, Tests, Asleep, Exclusive, guardStart
  <2>4. Alarms'
    BY <1>1, ProcessesAssumption DEF IInv, TypeOK, Lives, Held, Alarms, OthersKeepLocks, Tests, Asleep, Exclusive, guardStart
  <2>5. Bar'
    BY <1>1 DEF IInv, TypeOK, Lives, Tests, Bar, Exclusive, guardStart
  <2>6. Tests' /\ OthersKeepLocks'
    BY <1>1 DEF IInv, Tests, OthersKeepLocks, Exclusive, Asleep, guardStart
  <2> QED BY <2>1, <2>2, <2>3, <2>4, <2>5, <2>6 DEF IInv
<1>2. CASE guardLook
  <2>1. TypeOK'
    BY <1>2 DEF IInv, TypeOK, guardLook, identity
  <2>2. Lives'
    BY <1>2 DEF IInv, TypeOK, Lives, guardLook, identity
  <2>3. Held'
    BY <1>2, ProcessesAssumption DEF IInv, TypeOK, Lives, Held, OthersKeepLocks, Tests, Asleep, Exclusive, guardLook, identity
  <2>4. Alarms'
    BY <1>2, ProcessesAssumption DEF IInv, TypeOK, Lives, Held, Alarms, OthersKeepLocks, Tests, Asleep, Exclusive, guardLook, identity
  <2>5. Bar'
    BY <1>2 DEF IInv, TypeOK, Lives, Tests, Bar, Exclusive, guardLook, identity
  <2>6. Tests' /\ OthersKeepLocks'
    BY <1>2 DEF IInv, Tests, OthersKeepLocks, Exclusive, Asleep, guardLook, identity
  <2> QED BY <2>1, <2>2, <2>3, <2>4, <2>5, <2>6 DEF IInv
<1>3. CASE guardTerm
  <2>1. TypeOK'
    BY <1>3 DEF IInv, TypeOK, guardTerm, identity, Trapped
  <2>2. Lives'
    BY <1>3 DEF IInv, TypeOK, Lives, guardTerm, identity, Trapped
  <2>3. Held'
    BY <1>3, ProcessesAssumption DEF IInv, TypeOK, Lives, Held, OthersKeepLocks, Tests, Asleep, Exclusive, guardTerm, identity, Trapped
  <2>4. Alarms'
    BY <1>3, ProcessesAssumption DEF IInv, TypeOK, Lives, Held, Alarms, OthersKeepLocks, Tests, Asleep, Exclusive, guardTerm, identity, Trapped
  <2>5. Bar'
    BY <1>3 DEF IInv, TypeOK, Lives, Tests, Bar, Exclusive, guardTerm, identity, Trapped
  <2>6. Tests' /\ OthersKeepLocks'
    BY <1>3 DEF IInv, Tests, OthersKeepLocks, Exclusive, Asleep, guardTerm, identity, Trapped
  <2> QED BY <2>1, <2>2, <2>3, <2>4, <2>5, <2>6 DEF IInv
<1>4. CASE guardKill
  <2>1. TypeOK'
    BY <1>4 DEF IInv, TypeOK, guardKill
  <2>2. Lives'
    BY <1>4 DEF IInv, TypeOK, Lives, guardKill
  <2>3. Held'
    BY <1>4, ProcessesAssumption DEF IInv, TypeOK, Lives, Held, OthersKeepLocks, Tests, Asleep, Exclusive, guardKill
  <2>4. Alarms'
    BY <1>4, ProcessesAssumption DEF IInv, TypeOK, Lives, Held, Alarms, OthersKeepLocks, Tests, Asleep, Exclusive, guardKill
  <2>5. Bar'
    BY <1>4 DEF IInv, TypeOK, Lives, Tests, Bar, Exclusive, guardKill
  <2>6. Tests' /\ OthersKeepLocks'
    BY <1>4 DEF IInv, Tests, OthersKeepLocks, Exclusive, Asleep, guardKill
  <2> QED BY <2>1, <2>2, <2>3, <2>4, <2>5, <2>6 DEF IInv
<1>5. CASE restoreRtc
  <2>1. TypeOK'
    BY <1>5 DEF IInv, TypeOK, restoreRtc
  <2>2. Lives'
    BY <1>5 DEF IInv, TypeOK, Lives, restoreRtc
  <2>3. Held'
    BY <1>5, ProcessesAssumption DEF IInv, TypeOK, Lives, Held, OthersKeepLocks, Tests, Asleep, Exclusive, restoreRtc
  <2>4. Alarms'
    BY <1>5, ProcessesAssumption DEF IInv, TypeOK, Lives, Held, Alarms, OthersKeepLocks, Tests, Asleep, Exclusive, restoreRtc
  <2>5. Bar'
    BY <1>5 DEF IInv, TypeOK, Lives, Tests, Bar, Exclusive, restoreRtc
  <2>6. Tests' /\ OthersKeepLocks'
    BY <1>5 DEF IInv, Tests, OthersKeepLocks, Exclusive, Asleep, restoreRtc
  <2> QED BY <2>1, <2>2, <2>3, <2>4, <2>5, <2>6 DEF IInv
<1>6. CASE restoreRtcZero
  <2>1. TypeOK'
    BY <1>6 DEF IInv, TypeOK, restoreRtcZero
  <2>2. Lives'
    BY <1>6 DEF IInv, TypeOK, Lives, restoreRtcZero
  <2>3. Held'
    BY <1>6, ProcessesAssumption DEF IInv, TypeOK, Lives, Held, OthersKeepLocks, Tests, Asleep, Exclusive, restoreRtcZero
  <2>4. Alarms'
    BY <1>6, ProcessesAssumption DEF IInv, TypeOK, Lives, Held, Alarms, OthersKeepLocks, Tests, Asleep, Exclusive, restoreRtcZero
  <2>5. Bar'
    BY <1>6 DEF IInv, TypeOK, Lives, Tests, Bar, Exclusive, restoreRtcZero
  <2>6. Tests' /\ OthersKeepLocks'
    BY <1>6 DEF IInv, Tests, OthersKeepLocks, Exclusive, Asleep, restoreRtcZero
  <2> QED BY <2>1, <2>2, <2>3, <2>4, <2>5, <2>6 DEF IInv
<1>7. CASE restoreStatusbar
  <2>1. bar' \in BOOLEAN
    BY <1>7, Zenon DEF IInv, TypeOK, restoreStatusbar
  <2>2. TypeOK'
    BY <1>7, <2>1 DEF IInv, TypeOK, restoreStatusbar
  <2>3. Lives'
    BY <1>7 DEF IInv, TypeOK, Lives, restoreStatusbar
  <2>4. Held'
    BY <1>7, ProcessesAssumption DEF IInv, TypeOK, Lives, Held, OthersKeepLocks, Tests, Asleep, Exclusive, restoreStatusbar
  <2>5. Alarms'
    BY <1>7, ProcessesAssumption DEF IInv, TypeOK, Lives, Held, Alarms, OthersKeepLocks, Tests, Asleep, Exclusive, restoreStatusbar
  <2>6. Bar'
    BY <1>7 DEF IInv, TypeOK, Lives, Tests, Bar, Exclusive, restoreStatusbar
  <2>7. Tests' /\ OthersKeepLocks'
    BY <1>7 DEF IInv, Tests, OthersKeepLocks, Exclusive, Asleep, restoreStatusbar
  <2> QED BY <2>1, <2>2, <2>3, <2>4, <2>5, <2>6, <2>7 DEF IInv
<1>8. CASE restoreVerify
  <2>1. TypeOK'
    BY <1>8 DEF IInv, TypeOK, restoreVerify
  <2>2. Lives'
    BY <1>8 DEF IInv, TypeOK, Lives, restoreVerify
  <2>3. Held'
    BY <1>8, ProcessesAssumption DEF IInv, TypeOK, Lives, Held, OthersKeepLocks, Tests, Asleep, Exclusive, restoreVerify
  <2>4. Alarms'
    BY <1>8, ProcessesAssumption DEF IInv, TypeOK, Lives, Held, Alarms, OthersKeepLocks, Tests, Asleep, Exclusive, restoreVerify
  <2>5. Bar'
    BY <1>8 DEF IInv, TypeOK, Lives, Tests, Bar, Exclusive, restoreVerify
  <2>6. Tests' /\ OthersKeepLocks'
    BY <1>8 DEF IInv, Tests, OthersKeepLocks, Exclusive, Asleep, restoreVerify
  <2> QED BY <2>1, <2>2, <2>3, <2>4, <2>5, <2>6 DEF IInv
<1>9. CASE restoreLocks
  <2>1. TypeOK'
    BY <1>9 DEF IInv, TypeOK, restoreLocks
  <2>2. Lives'
    BY <1>9 DEF IInv, TypeOK, Lives, restoreLocks
  <2>3. Held'
    BY <1>9, ProcessesAssumption DEF IInv, TypeOK, Lives, Held, OthersKeepLocks, Tests, Asleep, Exclusive, restoreLocks
  <2>4. Alarms'
    BY <1>9, ProcessesAssumption DEF IInv, TypeOK, Lives, Held, Alarms, OthersKeepLocks, Tests, Asleep, Exclusive, restoreLocks
  <2>5. Bar'
    BY <1>9 DEF IInv, TypeOK, Lives, Tests, Bar, Exclusive, restoreLocks
  <2>6. OthersKeepLocks'
    BY <1>9, ProcessesAssumption DEF IInv, TypeOK, Held, Tests, OthersKeepLocks, Exclusive, Asleep, restoreLocks
  <2>7. Tests'
    BY <1>9 DEF IInv, Tests, Exclusive, restoreLocks
  <2> QED BY <2>1, <2>2, <2>3, <2>4, <2>5, <2>6, <2>7 DEF IInv
<1>10. CASE restoreRm
  <2>1. TypeOK'
    BY <1>10 DEF IInv, TypeOK, restoreRm
  <2>2. Lives'
    BY <1>10 DEF IInv, TypeOK, Lives, restoreRm
  <2>3. Held'
    BY <1>10, ProcessesAssumption DEF IInv, TypeOK, Lives, Held, OthersKeepLocks, Tests, Asleep, Exclusive, restoreRm
  <2>4. Alarms'
    BY <1>10, ProcessesAssumption DEF IInv, TypeOK, Lives, Held, Alarms, OthersKeepLocks, Tests, Asleep, Exclusive, restoreRm
  <2>5. Bar'
    BY <1>10 DEF IInv, TypeOK, Lives, Tests, Bar, Exclusive, restoreRm
  <2>6. Tests' /\ OthersKeepLocks'
    BY <1>10 DEF IInv, Tests, OthersKeepLocks, Exclusive, Asleep, restoreRm
  <2> QED BY <2>1, <2>2, <2>3, <2>4, <2>5, <2>6 DEF IInv
<1>11. CASE restoreRmdir
  <2>1. run' \in BOOLEAN
    BY <1>11, Zenon DEF IInv, TypeOK, restoreRmdir
  <2>2. TypeOK'
    BY <1>11, <2>1 DEF IInv, TypeOK, restoreRmdir
  <2>3. Lives'
    BY <1>11 DEF IInv, TypeOK, Lives, restoreRmdir
  <2>4. Held'
    BY <1>11, ProcessesAssumption DEF IInv, TypeOK, Lives, Held, OthersKeepLocks, Tests, Asleep, Exclusive, restoreRmdir
  <2>5. Alarms'
    BY <1>11, ProcessesAssumption DEF IInv, TypeOK, Lives, Held, Alarms, OthersKeepLocks, Tests, Asleep, Exclusive, restoreRmdir
  <2>6. Bar'
    BY <1>11 DEF IInv, TypeOK, Lives, Tests, Bar, Exclusive, restoreRmdir
  <2>7. Tests' /\ OthersKeepLocks'
    BY <1>11 DEF IInv, Tests, OthersKeepLocks, Exclusive, Asleep, restoreRmdir
  <2> QED BY <2>1, <2>2, <2>3, <2>4, <2>5, <2>6, <2>7 DEF IInv
<1> QED BY <1>1, <1>2, <1>3, <1>4, <1>5, <1>6, <1>7, <1>8, <1>9, <1>10, <1>11 DEF Guard

LEMMA WorkerKeeps ==
    ASSUME IInv, Worker
    PROVE  IInv'
<1> USE DEF state, service, locks, menu, agent, test, Alive, Refreshing, Waking
<1>1. CASE workerStart
  <2>1. TypeOK'
    BY <1>1 DEF IInv, TypeOK, workerStart
  <2>2. Lives'
    BY <1>1 DEF IInv, TypeOK, Lives, workerStart
  <2>3. Held'
    BY <1>1, ProcessesAssumption DEF IInv, TypeOK, Lives, Held, OthersKeepLocks, Tests, Asleep, Exclusive, workerStart
  <2>4. Bar'
    BY <1>1 DEF IInv, TypeOK, Lives, Tests, Bar, Exclusive, workerStart
  <2>5. Tests' /\ Alarms' /\ OthersKeepLocks'
    BY <1>1 DEF IInv, Tests, Alarms, OthersKeepLocks, Exclusive, Asleep, workerStart
  <2> QED BY <2>1, <2>2, <2>3, <2>4, <2>5 DEF IInv
<1>2. CASE workerWait
  <2>1. TypeOK'
    BY <1>2 DEF IInv, TypeOK, workerWait
  <2>2. Lives'
    BY <1>2 DEF IInv, TypeOK, Lives, workerWait
  <2>3. Held'
    BY <1>2, ProcessesAssumption DEF IInv, TypeOK, Lives, Held, OthersKeepLocks, Tests, Asleep, Exclusive, workerWait
  <2>4. Bar'
    BY <1>2 DEF IInv, TypeOK, Lives, Tests, Bar, Exclusive, workerWait
  <2>5. Tests' /\ Alarms' /\ OthersKeepLocks'
    BY <1>2 DEF IInv, Tests, Alarms, OthersKeepLocks, Exclusive, Asleep, workerWait
  <2> QED BY <2>1, <2>2, <2>3, <2>4, <2>5 DEF IInv
<1>3. CASE workerBar
  <2>1. TypeOK'
    BY <1>3 DEF IInv, TypeOK, workerBar
  <2>2. Lives'
    BY <1>3 DEF IInv, TypeOK, Lives, workerBar
  <2>3. Held'
    BY <1>3, ProcessesAssumption DEF IInv, TypeOK, Lives, Held, OthersKeepLocks, Tests, Asleep, Exclusive, workerBar
  <2>4. Bar'
    BY <1>3 DEF IInv, TypeOK, Lives, Tests, Bar, Exclusive, workerBar
  <2>5. Tests' /\ Alarms' /\ OthersKeepLocks'
    BY <1>3 DEF IInv, Tests, Alarms, OthersKeepLocks, Exclusive, Asleep, workerBar
  <2> QED BY <2>1, <2>2, <2>3, <2>4, <2>5 DEF IInv
<1>4. CASE workerFlag
  <2>1. TypeOK'
    BY <1>4 DEF IInv, TypeOK, workerFlag, Touch
  <2>2. Lives'
    BY <1>4 DEF IInv, TypeOK, Lives, workerFlag, Touch
  <2>3. Held'
    BY <1>4, ProcessesAssumption DEF IInv, TypeOK, Lives, Held, OthersKeepLocks, Tests, Asleep, Exclusive, workerFlag, Touch
  <2>4. Alarms'
    BY <1>4, ProcessesAssumption DEF IInv, TypeOK, Lives, Held, Alarms, OthersKeepLocks, Tests, Asleep, Exclusive, workerFlag, Touch
  <2>5. Bar'
    BY <1>4 DEF IInv, TypeOK, Lives, Tests, Bar, Exclusive, workerFlag, Touch
  <2>6. Tests' /\ OthersKeepLocks'
    BY <1>4 DEF IInv, Tests, OthersKeepLocks, Exclusive, Asleep, workerFlag, Touch
  <2> QED BY <2>1, <2>2, <2>3, <2>4, <2>5, <2>6 DEF IInv
<1>5. CASE workerStopBar
  <2>1. bar' \in BOOLEAN
    BY <1>5, Zenon DEF IInv, TypeOK, workerStopBar
  <2>2. TypeOK'
    BY <1>5, <2>1 DEF IInv, TypeOK, workerStopBar
  <2>3. Lives'
    BY <1>5 DEF IInv, TypeOK, Lives, workerStopBar
  <2>4. Held'
    BY <1>5, ProcessesAssumption DEF IInv, TypeOK, Lives, Held, OthersKeepLocks, Tests, Asleep, Exclusive, workerStopBar
  <2>5. Bar'
    BY <1>5 DEF IInv, TypeOK, Lives, Tests, Bar, Exclusive, workerStopBar
  <2>6. Tests' /\ Alarms' /\ OthersKeepLocks'
    BY <1>5 DEF IInv, Tests, Alarms, OthersKeepLocks, Exclusive, Asleep, workerStopBar
  <2> QED BY <2>1, <2>2, <2>3, <2>4, <2>5, <2>6 DEF IInv
<1>6. CASE workerLoop
  <2>1. TypeOK'
    BY <1>6 DEF IInv, TypeOK, workerLoop
  <2>2. Lives'
    BY <1>6 DEF IInv, TypeOK, Lives, workerLoop
  <2>3. Held'
    BY <1>6, ProcessesAssumption DEF IInv, TypeOK, Lives, Held, OthersKeepLocks, Tests, Asleep, Exclusive, workerLoop
  <2>4. Alarms'
    BY <1>6, ProcessesAssumption DEF IInv, TypeOK, Lives, Held, Alarms, OthersKeepLocks, Tests, Asleep, Exclusive, workerLoop
  <2>5. Bar'
    BY <1>6 DEF IInv, TypeOK, Lives, Tests, Bar, Exclusive, workerLoop
  <2>6. Tests' /\ OthersKeepLocks'
    BY <1>6 DEF IInv, Tests, OthersKeepLocks, Exclusive, Asleep, workerLoop
  <2> QED BY <2>1, <2>2, <2>3, <2>4, <2>5, <2>6 DEF IInv
<1>7. CASE workerShort
  <2>1. TypeOK'
    BY <1>7 DEF IInv, TypeOK, workerShort
  <2>2. Lives'
    BY <1>7 DEF IInv, TypeOK, Lives, workerShort
  <2>3. Held'
    BY <1>7, ProcessesAssumption DEF IInv, TypeOK, Lives, Held, OthersKeepLocks, Tests, Asleep, Exclusive, workerShort
  <2>4. Bar'
    BY <1>7 DEF IInv, TypeOK, Lives, Tests, Bar, Exclusive, workerShort
  <2>5. Tests' /\ Alarms' /\ OthersKeepLocks'
    BY <1>7 DEF IInv, Tests, Alarms, OthersKeepLocks, Exclusive, Asleep, workerShort
  <2> QED BY <2>1, <2>2, <2>3, <2>4, <2>5 DEF IInv
<1>8. CASE workerMkdir
  <2>1. TypeOK'
    BY <1>8 DEF IInv, TypeOK, workerMkdir
  <2>2. Lives'
    BY <1>8 DEF IInv, TypeOK, Lives, workerMkdir
  <2>3. Held'
    BY <1>8, ProcessesAssumption DEF IInv, TypeOK, Lives, Held, OthersKeepLocks, Tests, Asleep, Exclusive, workerMkdir
  <2>4. Alarms'
    BY <1>8, ProcessesAssumption DEF IInv, TypeOK, Lives, Held, Alarms, OthersKeepLocks, Tests, Asleep, Exclusive, workerMkdir
  <2>5. Bar'
    BY <1>8 DEF IInv, TypeOK, Lives, Tests, Bar, Exclusive, workerMkdir
  <2>6. OthersKeepLocks'
    BY <1>8, ProcessesAssumption DEF IInv, TypeOK, Held, Tests, OthersKeepLocks, Exclusive, Asleep, workerMkdir
  <2>7. Tests'
    BY <1>8 DEF IInv, Tests, Exclusive, workerMkdir
  <2> QED BY <2>1, <2>2, <2>3, <2>4, <2>5, <2>6, <2>7 DEF IInv
<1>9. CASE workerMark
  <2>1. TypeOK'
    BY <1>9 DEF IInv, TypeOK, workerMark
  <2>2. Lives'
    BY <1>9 DEF IInv, TypeOK, Lives, workerMark
  <2>3. Held'
    BY <1>9, ProcessesAssumption DEF IInv, TypeOK, Lives, Held, OthersKeepLocks, Tests, Asleep, Exclusive, workerMark
  <2>4. Alarms'
    BY <1>9, ProcessesAssumption DEF IInv, TypeOK, Lives, Held, Alarms, OthersKeepLocks, Tests, Asleep, Exclusive, workerMark
  <2>5. Bar'
    BY <1>9 DEF IInv, TypeOK, Lives, Tests, Bar, Exclusive, workerMark
  <2>6. OthersKeepLocks'
    BY <1>9, ProcessesAssumption DEF IInv, TypeOK, Held, Tests, OthersKeepLocks, Exclusive, Asleep, workerMark
  <2>7. Tests'
    BY <1>9 DEF IInv, Tests, Exclusive, workerMark
  <2> QED BY <2>1, <2>2, <2>3, <2>4, <2>5, <2>6, <2>7 DEF IInv
<1>10. CASE workerExit
  <2>1. TypeOK'
    BY <1>10 DEF IInv, TypeOK, workerExit
  <2>2. Lives'
    BY <1>10 DEF IInv, TypeOK, Lives, workerExit
  <2>3. Held'
    BY <1>10, ProcessesAssumption DEF IInv, TypeOK, Lives, Held, OthersKeepLocks, Tests, Asleep, Exclusive, workerExit
  <2>4. Bar'
    BY <1>10 DEF IInv, TypeOK, Lives, Tests, Bar, Exclusive, workerExit
  <2>5. Tests' /\ Alarms' /\ OthersKeepLocks'
    BY <1>10 DEF IInv, Tests, Alarms, OthersKeepLocks, Exclusive, Asleep, workerExit
  <2> QED BY <2>1, <2>2, <2>3, <2>4, <2>5 DEF IInv
<1> QED BY <1>1, <1>2, <1>3, <1>4, <1>5, <1>6, <1>7, <1>8, <1>9, <1>10 DEF Worker

LEMMA RefreshKeeps ==
    ASSUME IInv, Refresh
    PROVE  IInv'
<1> USE DEF state, service, locks, menu, agent, test, Alive, Refreshing, Waking
<1>1. CASE refreshMkdir
  <2>1. TypeOK'
    BY <1>1 DEF IInv, TypeOK, refreshMkdir
  <2>2. Lives'
    BY <1>1 DEF IInv, TypeOK, Lives, refreshMkdir
  <2>3. Held'
    BY <1>1, ProcessesAssumption DEF IInv, TypeOK, Lives, Held, OthersKeepLocks, Tests, Asleep, Exclusive, refreshMkdir
  <2>4. Alarms'
    BY <1>1, ProcessesAssumption DEF IInv, TypeOK, Lives, Held, Alarms, OthersKeepLocks, Tests, Asleep, Exclusive, refreshMkdir
  <2>5. Bar'
    BY <1>1 DEF IInv, TypeOK, Lives, Tests, Bar, Exclusive, refreshMkdir
  <2>6. OthersKeepLocks'
    BY <1>1, ProcessesAssumption DEF IInv, TypeOK, Held, Tests, OthersKeepLocks, Exclusive, Asleep, refreshMkdir
  <2>7. Tests'
    BY <1>1 DEF IInv, Tests, Exclusive, refreshMkdir
  <2> QED BY <2>1, <2>2, <2>3, <2>4, <2>5, <2>6, <2>7 DEF IInv
<1>2. CASE refreshOwn
  <2>1. TypeOK'
    BY <1>2 DEF IInv, TypeOK, refreshOwn
  <2>2. Lives'
    BY <1>2 DEF IInv, TypeOK, Lives, refreshOwn
  <2>3. Held'
    BY <1>2, ProcessesAssumption DEF IInv, TypeOK, Lives, Held, OthersKeepLocks, Tests, Asleep, Exclusive, refreshOwn
  <2>4. Alarms'
    BY <1>2, ProcessesAssumption DEF IInv, TypeOK, Lives, Held, Alarms, OthersKeepLocks, Tests, Asleep, Exclusive, refreshOwn
  <2>5. OthersKeepLocks'
    BY <1>2, ProcessesAssumption DEF IInv, TypeOK, Held, Tests, OthersKeepLocks, Exclusive, Asleep, refreshOwn
  <2>6. Tests' /\ Bar'
    BY <1>2 DEF IInv, Tests, Bar, Exclusive, refreshOwn
  <2> QED BY <2>1, <2>2, <2>3, <2>4, <2>5, <2>6 DEF IInv
<1>3. CASE refreshFetch
  <2>1. TypeOK'
    BY <1>3 DEF IInv, TypeOK, refreshFetch
  <2>2. Lives'
    BY <1>3 DEF IInv, TypeOK, Lives, refreshFetch
  <2>3. Held'
    BY <1>3, ProcessesAssumption DEF IInv, TypeOK, Lives, Held, OthersKeepLocks, Tests, Asleep, Exclusive, refreshFetch
  <2>4. Alarms'
    BY <1>3, ProcessesAssumption DEF IInv, TypeOK, Lives, Held, Alarms, OthersKeepLocks, Tests, Asleep, Exclusive, refreshFetch
  <2>5. Bar'
    BY <1>3 DEF IInv, TypeOK, Lives, Tests, Bar, Exclusive, refreshFetch
  <2>6. Tests' /\ OthersKeepLocks'
    BY <1>3 DEF IInv, Tests, OthersKeepLocks, Exclusive, Asleep, refreshFetch
  <2> QED BY <2>1, <2>2, <2>3, <2>4, <2>5, <2>6 DEF IInv
<1>4. CASE refreshDisown
  <2>1. TypeOK'
    BY <1>4 DEF IInv, TypeOK, refreshDisown
  <2>2. Lives'
    BY <1>4 DEF IInv, TypeOK, Lives, refreshDisown
  <2>3. Held'
    BY <1>4, ProcessesAssumption DEF IInv, TypeOK, Lives, Held, OthersKeepLocks, Tests, Asleep, Exclusive, refreshDisown
  <2>4. Alarms'
    BY <1>4, ProcessesAssumption DEF IInv, TypeOK, Lives, Held, Alarms, OthersKeepLocks, Tests, Asleep, Exclusive, refreshDisown
  <2>5. OthersKeepLocks'
    BY <1>4, ProcessesAssumption DEF IInv, TypeOK, Held, Tests, OthersKeepLocks, Exclusive, Asleep, refreshDisown
  <2>6. Tests' /\ Bar'
    BY <1>4 DEF IInv, Tests, Bar, Exclusive, refreshDisown
  <2> QED BY <2>1, <2>2, <2>3, <2>4, <2>5, <2>6 DEF IInv
<1>5. CASE refreshRmdir
  <2>1. TypeOK'
    BY <1>5 DEF IInv, TypeOK, refreshRmdir
  <2>2. Lives'
    BY <1>5 DEF IInv, TypeOK, Lives, refreshRmdir
  <2>3. Held'
    BY <1>5, ProcessesAssumption DEF IInv, TypeOK, Lives, Held, OthersKeepLocks, Tests, Asleep, Exclusive, refreshRmdir
  <2>4. Alarms'
    BY <1>5, ProcessesAssumption DEF IInv, TypeOK, Lives, Held, Alarms, OthersKeepLocks, Tests, Asleep, Exclusive, refreshRmdir
  <2>5. Bar'
    BY <1>5 DEF IInv, TypeOK, Lives, Tests, Bar, Exclusive, refreshRmdir
  <2>6. OthersKeepLocks'
    BY <1>5, ProcessesAssumption DEF IInv, TypeOK, Held, Tests, OthersKeepLocks, Exclusive, Asleep, refreshRmdir
  <2>7. Tests'
    BY <1>5 DEF IInv, Tests, Exclusive, refreshRmdir
  <2> QED BY <2>1, <2>2, <2>3, <2>4, <2>5, <2>6, <2>7 DEF IInv
<1> QED BY <1>1, <1>2, <1>3, <1>4, <1>5 DEF Refresh

LEMMA WakeKeeps ==
    ASSUME IInv, Wake
    PROVE  IInv'
<1> USE DEF state, service, locks, menu, agent, test, Alive, Refreshing, Waking
<1>1. CASE wakeCheck
  <2>1. files' \subseteq {"stop", "restore-statusbar", "rtc-target"}
    BY <1>1 DEF IInv, TypeOK, wakeCheck, Touch
  <2>2. child' \in {"arm", "clear"} /\ worker' \in {worker, "dying"}
    BY <1>1 DEF wakeCheck
  <2>3. TypeOK'
    BY <1>1, <2>1, <2>2 DEF IInv, TypeOK, wakeCheck
  <2>4. Lives'
    BY <1>1 DEF IInv, TypeOK, Lives, wakeCheck, Touch
  <2>5. Held'
    BY <1>1, ProcessesAssumption DEF IInv, TypeOK, Lives, Held, OthersKeepLocks, Tests, Asleep, Exclusive, wakeCheck, Touch
  <2>6. Alarms'
    BY <1>1, ProcessesAssumption DEF IInv, TypeOK, Lives, Held, Alarms, OthersKeepLocks, Tests, Asleep, Exclusive, wakeCheck, Touch
  <2>7. Bar'
    BY <1>1 DEF IInv, TypeOK, Lives, Tests, Bar, Exclusive, wakeCheck, Touch
  <2>8. Tests' /\ OthersKeepLocks'
    BY <1>1 DEF IInv, Tests, OthersKeepLocks, Exclusive, Asleep, wakeCheck, Touch
  <2> QED BY <2>1, <2>2, <2>3, <2>4, <2>5, <2>6, <2>7, <2>8 DEF IInv
<1>2. CASE wakeArm
  <2>1. TypeOK'
    BY <1>2 DEF IInv, TypeOK, wakeArm
  <2>2. Lives'
    BY <1>2 DEF IInv, TypeOK, Lives, wakeArm
  <2>3. Held'
    BY <1>2, ProcessesAssumption DEF IInv, TypeOK, Lives, Held, OthersKeepLocks, Tests, Asleep, Exclusive, wakeArm
  <2>4. Alarms'
    BY <1>2, ProcessesAssumption DEF IInv, TypeOK, Lives, Held, Alarms, OthersKeepLocks, Tests, Asleep, Exclusive, wakeArm
  <2>5. Bar'
    BY <1>2 DEF IInv, TypeOK, Lives, Tests, Bar, Exclusive, wakeArm
  <2>6. Tests' /\ OthersKeepLocks'
    BY <1>2 DEF IInv, Tests, OthersKeepLocks, Exclusive, Asleep, wakeArm
  <2> QED BY <2>1, <2>2, <2>3, <2>4, <2>5, <2>6 DEF IInv
<1>3. CASE wakeAwake
  <2>1. TypeOK'
    BY <1>3 DEF IInv, TypeOK, wakeAwake
  <2>2. Lives'
    BY <1>3 DEF IInv, TypeOK, Lives, wakeAwake
  <2>3. Held'
    BY <1>3, ProcessesAssumption DEF IInv, TypeOK, Lives, Held, OthersKeepLocks, Tests, Asleep, Exclusive, wakeAwake
  <2>4. Alarms'
    BY <1>3, ProcessesAssumption DEF IInv, TypeOK, Lives, Held, Alarms, OthersKeepLocks, Tests, Asleep, Exclusive, wakeAwake
  <2>5. Bar'
    BY <1>3 DEF IInv, TypeOK, Lives, Tests, Bar, Exclusive, wakeAwake
  <2>6. Tests' /\ OthersKeepLocks'
    BY <1>3 DEF IInv, Tests, OthersKeepLocks, Exclusive, Asleep, wakeAwake
  <2> QED BY <2>1, <2>2, <2>3, <2>4, <2>5, <2>6 DEF IInv
<1>4. CASE wakeClear
  <2>1. TypeOK'
    BY <1>4 DEF IInv, TypeOK, wakeClear
  <2>2. Lives'
    BY <1>4 DEF IInv, TypeOK, Lives, wakeClear
  <2>3. Held'
    BY <1>4, ProcessesAssumption DEF IInv, TypeOK, Lives, Held, OthersKeepLocks, Tests, Asleep, Exclusive, wakeClear
  <2>4. Alarms'
    BY <1>4, ProcessesAssumption DEF IInv, TypeOK, Lives, Held, Alarms, OthersKeepLocks, Tests, Asleep, Exclusive, wakeClear
  <2>5. Tests' /\ Bar' /\ OthersKeepLocks'
    BY <1>4 DEF IInv, Tests, Bar, OthersKeepLocks, Exclusive, Asleep, wakeClear
  <2> QED BY <2>1, <2>2, <2>3, <2>4, <2>5 DEF IInv
<1>5. CASE wakeZero
  <2>1. TypeOK'
    BY <1>5 DEF IInv, TypeOK, wakeZero
  <2>2. Lives'
    BY <1>5 DEF IInv, TypeOK, Lives, wakeZero
  <2>3. Held'
    BY <1>5, ProcessesAssumption DEF IInv, TypeOK, Lives, Held, OthersKeepLocks, Tests, Asleep, Exclusive, wakeZero
  <2>4. Alarms'
    BY <1>5, ProcessesAssumption DEF IInv, TypeOK, Lives, Held, Alarms, OthersKeepLocks, Tests, Asleep, Exclusive, wakeZero
  <2>5. Tests' /\ Bar' /\ OthersKeepLocks'
    BY <1>5 DEF IInv, Tests, Bar, OthersKeepLocks, Exclusive, Asleep, wakeZero
  <2> QED BY <2>1, <2>2, <2>3, <2>4, <2>5 DEF IInv
<1>6. CASE wakeUnmark
  <2>1. TypeOK'
    BY <1>6 DEF IInv, TypeOK, wakeUnmark
  <2>2. Lives'
    BY <1>6 DEF IInv, TypeOK, Lives, wakeUnmark
  <2>3. Held'
    BY <1>6, ProcessesAssumption DEF IInv, TypeOK, Lives, Held, OthersKeepLocks, Tests, Asleep, Exclusive, wakeUnmark
  <2>4. Alarms'
    BY <1>6, ProcessesAssumption DEF IInv, TypeOK, Lives, Held, Alarms, OthersKeepLocks, Tests, Asleep, Exclusive, wakeUnmark
  <2>5. OthersKeepLocks'
    BY <1>6, ProcessesAssumption DEF IInv, TypeOK, Held, Tests, OthersKeepLocks, Exclusive, Asleep, wakeUnmark
  <2>6. Tests' /\ Bar'
    BY <1>6 DEF IInv, Tests, Bar, Exclusive, wakeUnmark
  <2> QED BY <2>1, <2>2, <2>3, <2>4, <2>5, <2>6 DEF IInv
<1>7. CASE wakeRmdir
  <2>1. TypeOK'
    BY <1>7 DEF IInv, TypeOK, wakeRmdir
  <2>2. Lives'
    BY <1>7 DEF IInv, TypeOK, Lives, wakeRmdir
  <2>3. Held'
    BY <1>7, ProcessesAssumption DEF IInv, TypeOK, Lives, Held, OthersKeepLocks, Tests, Asleep, Exclusive, wakeRmdir
  <2>4. Alarms'
    BY <1>7, ProcessesAssumption DEF IInv, TypeOK, Lives, Held, Alarms, OthersKeepLocks, Tests, Asleep, Exclusive, wakeRmdir
  <2>5. Bar'
    BY <1>7 DEF IInv, TypeOK, Lives, Tests, Bar, Exclusive, wakeRmdir
  <2>6. OthersKeepLocks'
    BY <1>7, ProcessesAssumption DEF IInv, TypeOK, Held, Tests, OthersKeepLocks, Exclusive, Asleep, wakeRmdir
  <2>7. Tests'
    BY <1>7 DEF IInv, Tests, Exclusive, wakeRmdir
  <2> QED BY <2>1, <2>2, <2>3, <2>4, <2>5, <2>6, <2>7 DEF IInv
<1> QED BY <1>1, <1>2, <1>3, <1>4, <1>5, <1>6, <1>7 DEF Wake

LEMMA MenuKeeps ==
    ASSUME IInv, NEW r \in Refreshers, Menu(r)
    PROVE  IInv'
<1> USE DEF state, service, locks, menu, agent, test, Alive, Refreshing, Waking
<1>1. CASE manualMkdir(r)
  <2>1. TypeOK'
    BY <1>1 DEF IInv, TypeOK, manualMkdir
  <2>2. Held'
    BY <1>1, ProcessesAssumption DEF IInv, TypeOK, Lives, Held, OthersKeepLocks, Tests, Asleep, Exclusive, manualMkdir
  <2>3. OthersKeepLocks'
    BY <1>1, ProcessesAssumption DEF IInv, TypeOK, Held, Tests, OthersKeepLocks, Exclusive, Asleep, manualMkdir
  <2>4. Lives' /\ Tests' /\ Alarms' /\ Bar'
    BY <1>1 DEF IInv, Lives, Tests, Alarms, Bar, Exclusive, manualMkdir
  <2> QED BY <2>1, <2>2, <2>3, <2>4 DEF IInv
<1>2. CASE manualExit(r)
  <2>1. TypeOK'
    BY <1>2 DEF IInv, TypeOK, manualExit
  <2>2. Held'
    BY <1>2, ProcessesAssumption DEF IInv, TypeOK, Lives, Held, OthersKeepLocks, Tests, Asleep, Exclusive, manualExit
  <2>3. OthersKeepLocks'
    BY <1>2, ProcessesAssumption DEF IInv, TypeOK, Held, Tests, OthersKeepLocks, Exclusive, Asleep, manualExit
  <2>4. Lives' /\ Tests' /\ Alarms' /\ Bar'
    BY <1>2 DEF IInv, Lives, Tests, Alarms, Bar, Exclusive, manualExit
  <2> QED BY <2>1, <2>2, <2>3, <2>4 DEF IInv
<1> QED BY <1>1, <1>2 DEF Menu

LEMMA TestKeeps ==
    ASSUME IInv, NEW t \in Testers, Test(t)
    PROVE  IInv'
<1> USE DEF state, service, locks, menu, agent, test, Alive, Refreshing, Waking
<1>1. CASE testCheck(t)
  <2>1. TypeOK'
    BY <1>1 DEF IInv, TypeOK, testCheck, Goto
  <2>2. Tests'
    BY <1>1 DEF IInv, TypeOK, Tests, Exclusive, testCheck, Goto
  <2>3. Alarms'
    BY <1>1, ProcessesAssumption DEF IInv, TypeOK, Lives, Held, Alarms, OthersKeepLocks, Tests, Asleep, Exclusive, testCheck, Goto
  <2>4. Bar'
    BY <1>1 DEF IInv, TypeOK, Lives, Tests, Bar, Exclusive, testCheck, Goto
  <2>5. OthersKeepLocks'
    BY <1>1, ProcessesAssumption DEF IInv, TypeOK, Held, Tests, OthersKeepLocks, Exclusive, Asleep, testCheck, Goto
  <2>6. Lives' /\ Held'
    BY <1>1 DEF IInv, Lives, Held, testCheck, Goto
  <2> QED BY <2>1, <2>2, <2>3, <2>4, <2>5, <2>6 DEF IInv
<1>2. CASE exclusiveMkdir(t)
  <2>1. testDir' \in BOOLEAN
    BY <1>2, Zenon DEF IInv, TypeOK, exclusiveMkdir, Goto
  <2>2. TypeOK'
    BY <1>2, <2>1 DEF IInv, TypeOK, exclusiveMkdir, Goto
  <2>3. Tests'
    BY <1>2 DEF IInv, TypeOK, Tests, Exclusive, exclusiveMkdir, Goto
  <2>4. Alarms'
    BY <1>2, ProcessesAssumption DEF IInv, TypeOK, Lives, Held, Alarms, OthersKeepLocks, Tests, Asleep, Exclusive, exclusiveMkdir, Goto
  <2>5. Bar'
    BY <1>2 DEF IInv, TypeOK, Lives, Tests, Bar, Exclusive, exclusiveMkdir, Goto
  <2>6. OthersKeepLocks'
    BY <1>2, ProcessesAssumption DEF IInv, TypeOK, Held, Tests, OthersKeepLocks, Exclusive, Asleep, exclusiveMkdir, Goto
  <2>7. Lives' /\ Held'
    BY <1>2 DEF IInv, Lives, Held, exclusiveMkdir, Goto
  <2> QED BY <2>1, <2>2, <2>3, <2>4, <2>5, <2>6, <2>7 DEF IInv
<1>3. CASE wakeTestMkdir(t)
  <2>1. TypeOK'
    BY <1>3 DEF IInv, TypeOK, wakeTestMkdir, Goto
  <2>2. Tests'
    BY <1>3 DEF IInv, TypeOK, Tests, Exclusive, wakeTestMkdir, Goto
  <2>3. Held'
    BY <1>3, ProcessesAssumption DEF IInv, TypeOK, Lives, Held, OthersKeepLocks, Tests, Asleep, Exclusive, wakeTestMkdir, Goto
  <2>4. Alarms'
    BY <1>3, ProcessesAssumption DEF IInv, TypeOK, Lives, Held, Alarms, OthersKeepLocks, Tests, Asleep, Exclusive, wakeTestMkdir, Goto
  <2>5. Bar'
    BY <1>3 DEF IInv, TypeOK, Lives, Tests, Bar, Exclusive, wakeTestMkdir, Goto
  <2>6. OthersKeepLocks'
    BY <1>3, ProcessesAssumption DEF IInv, TypeOK, Held, Tests, OthersKeepLocks, Exclusive, Asleep, wakeTestMkdir, Goto
  <2>7. Lives'
    BY <1>3 DEF IInv, Lives, wakeTestMkdir, Goto
  <2> QED BY <2>1, <2>2, <2>3, <2>4, <2>5, <2>6, <2>7 DEF IInv
<1>4. CASE testWake(t)
  <2>1. TypeOK'
    BY <1>4 DEF IInv, TypeOK, testWake, Goto
  <2>2. Tests'
    BY <1>4 DEF IInv, TypeOK, Tests, Exclusive, testWake, Goto
  <2>3. Alarms'
    BY <1>4, ProcessesAssumption DEF IInv, TypeOK, Lives, Held, Alarms, OthersKeepLocks, Tests, Asleep, Exclusive, testWake, Goto
  <2>4. Bar'
    BY <1>4 DEF IInv, TypeOK, Lives, Tests, Bar, Exclusive, testWake, Goto
  <2>5. OthersKeepLocks'
    BY <1>4, ProcessesAssumption DEF IInv, TypeOK, Held, Tests, OthersKeepLocks, Exclusive, Asleep, testWake, Goto
  <2>6. Lives' /\ Held'
    BY <1>4 DEF IInv, Lives, Held, testWake, Goto
  <2> QED BY <2>1, <2>2, <2>3, <2>4, <2>5, <2>6 DEF IInv
<1>5. CASE testArm(t)
  <2>1. TypeOK'
    BY <1>5 DEF IInv, TypeOK, testArm, Goto
  <2>2. Tests'
    BY <1>5 DEF IInv, TypeOK, Tests, Exclusive, testArm, Goto
  <2>3. Alarms'
    BY <1>5, ProcessesAssumption DEF IInv, TypeOK, Lives, Held, Alarms, OthersKeepLocks, Tests, Asleep, Exclusive, testArm, Goto
  <2>4. Bar'
    BY <1>5 DEF IInv, TypeOK, Lives, Tests, Bar, Exclusive, testArm, Goto
  <2>5. OthersKeepLocks'
    BY <1>5, ProcessesAssumption DEF IInv, TypeOK, Held, Tests, OthersKeepLocks, Exclusive, Asleep, testArm, Goto
  <2>6. Lives' /\ Held'
    BY <1>5 DEF IInv, Lives, Held, testArm, Goto
  <2> QED BY <2>1, <2>2, <2>3, <2>4, <2>5, <2>6 DEF IInv
<1>6. CASE takeDisplay(t)
  <2>1. TypeOK'
    BY <1>6 DEF IInv, TypeOK, takeDisplay, Goto
  <2>2. Tests'
    BY <1>6 DEF IInv, TypeOK, Tests, Exclusive, takeDisplay, Goto
  <2>3. Alarms'
    BY <1>6, ProcessesAssumption DEF IInv, TypeOK, Lives, Held, Alarms, OthersKeepLocks, Tests, Asleep, Exclusive, takeDisplay, Goto
  <2>4. Bar'
    BY <1>6 DEF IInv, TypeOK, Lives, Tests, Bar, Exclusive, takeDisplay, Goto
  <2>5. OthersKeepLocks'
    BY <1>6, ProcessesAssumption DEF IInv, TypeOK, Held, Tests, OthersKeepLocks, Exclusive, Asleep, takeDisplay, Goto
  <2>6. Lives' /\ Held'
    BY <1>6 DEF IInv, Lives, Held, takeDisplay, Goto
  <2> QED BY <2>1, <2>2, <2>3, <2>4, <2>5, <2>6 DEF IInv
<1>7. CASE takeDisplayFlag(t)
  <2>1. testFlag' \in BOOLEAN
    BY <1>7, Zenon DEF IInv, TypeOK, takeDisplayFlag, Goto
  <2>2. TypeOK'
    BY <1>7, <2>1 DEF IInv, TypeOK, takeDisplayFlag, Goto
  <2>3. Tests'
    BY <1>7 DEF IInv, TypeOK, Tests, Exclusive, takeDisplayFlag, Goto
  <2>4. Alarms'
    BY <1>7, ProcessesAssumption DEF IInv, TypeOK, Lives, Held, Alarms, OthersKeepLocks, Tests, Asleep, Exclusive, takeDisplayFlag, Goto
  <2>5. Bar'
    BY <1>7 DEF IInv, TypeOK, Lives, Tests, Bar, Exclusive, takeDisplayFlag, Goto
  <2>6. OthersKeepLocks'
    BY <1>7, ProcessesAssumption DEF IInv, TypeOK, Held, Tests, OthersKeepLocks, Exclusive, Asleep, takeDisplayFlag, Goto
  <2>7. Lives' /\ Held'
    BY <1>7 DEF IInv, Lives, Held, takeDisplayFlag, Goto
  <2> QED BY <2>1, <2>2, <2>3, <2>4, <2>5, <2>6, <2>7 DEF IInv
<1>8. CASE takeDisplayStop(t)
  <2>1. bar' \in BOOLEAN
    BY <1>8, Zenon DEF IInv, TypeOK, takeDisplayStop, Goto, Over
  <2>2. TypeOK'
    BY <1>8, <2>1 DEF IInv, TypeOK, takeDisplayStop, Goto, Over
  <2>3. Tests'
    BY <1>8 DEF IInv, TypeOK, Tests, Exclusive, takeDisplayStop, Goto, Over
  <2>4. Alarms'
    BY <1>8, ProcessesAssumption DEF IInv, TypeOK, Lives, Held, Alarms, OthersKeepLocks, Tests, Asleep, Exclusive, takeDisplayStop, Goto, Over
  <2>5. Bar'
    BY <1>8 DEF IInv, TypeOK, Lives, Tests, Bar, Exclusive, takeDisplayStop, Goto, Over
  <2>6. OthersKeepLocks'
    BY <1>8, ProcessesAssumption DEF IInv, TypeOK, Held, Tests, OthersKeepLocks, Exclusive, Asleep, takeDisplayStop, Goto, Over
  <2>7. Lives' /\ Held'
    BY <1>8 DEF IInv, Lives, Held, takeDisplayStop, Goto, Over
  <2> QED BY <2>1, <2>2, <2>3, <2>4, <2>5, <2>6, <2>7 DEF IInv
<1>9. CASE testAwake(t)
  <2>1. TypeOK'
    BY <1>9 DEF IInv, TypeOK, testAwake, Goto, Over
  <2>2. Tests'
    BY <1>9 DEF IInv, TypeOK, Tests, Exclusive, testAwake, Goto, Over
  <2>3. Held'
    BY <1>9, ProcessesAssumption DEF IInv, TypeOK, Lives, Held, OthersKeepLocks, Tests, Asleep, Exclusive, testAwake, Goto, Over
  <2>4. Alarms'
    BY <1>9, ProcessesAssumption DEF IInv, TypeOK, Lives, Held, Alarms, OthersKeepLocks, Tests, Asleep, Exclusive, testAwake, Goto, Over
  <2>5. Bar'
    BY <1>9 DEF IInv, TypeOK, Lives, Tests, Bar, Exclusive, testAwake, Goto, Over
  <2>6. OthersKeepLocks'
    BY <1>9, ProcessesAssumption DEF IInv, TypeOK, Held, Tests, OthersKeepLocks, Exclusive, Asleep, testAwake, Goto, Over
  <2>7. Lives'
    BY <1>9 DEF IInv, Lives, testAwake, Goto, Over
  <2> QED BY <2>1, <2>2, <2>3, <2>4, <2>5, <2>6, <2>7 DEF IInv
<1>10. CASE testRefreshed(t)
  <2>1. TypeOK'
    BY <1>10 DEF IInv, TypeOK, testRefreshed, Goto
  <2>2. Tests'
    BY <1>10 DEF IInv, TypeOK, Tests, Exclusive, testRefreshed, Goto
  <2>3. Held'
    BY <1>10, ProcessesAssumption DEF IInv, TypeOK, Lives, Held, OthersKeepLocks, Tests, Asleep, Exclusive, testRefreshed, Goto
  <2>4. Alarms'
    BY <1>10, ProcessesAssumption DEF IInv, TypeOK, Lives, Held, Alarms, OthersKeepLocks, Tests, Asleep, Exclusive, testRefreshed, Goto
  <2>5. Bar'
    BY <1>10 DEF IInv, TypeOK, Lives, Tests, Bar, Exclusive, testRefreshed, Goto
  <2>6. OthersKeepLocks'
    BY <1>10, ProcessesAssumption DEF IInv, TypeOK, Held, Tests, OthersKeepLocks, Exclusive, Asleep, testRefreshed, Goto
  <2>7. Lives'
    BY <1>10 DEF IInv, Lives, testRefreshed, Goto
  <2> QED BY <2>1, <2>2, <2>3, <2>4, <2>5, <2>6, <2>7 DEF IInv
<1>11. CASE testClear(t)
  <2>1. TypeOK'
    BY <1>11 DEF IInv, TypeOK, testClear, Goto
  <2>2. Tests'
    BY <1>11 DEF IInv, TypeOK, Tests, Exclusive, testClear, Goto
  <2>3. Alarms'
    BY <1>11, ProcessesAssumption DEF IInv, TypeOK, Lives, Held, Alarms, OthersKeepLocks, Tests, Asleep, Exclusive, testClear, Goto
  <2>4. Bar'
    BY <1>11 DEF IInv, TypeOK, Lives, Tests, Bar, Exclusive, testClear, Goto
  <2>5. OthersKeepLocks'
    BY <1>11, ProcessesAssumption DEF IInv, TypeOK, Held, Tests, OthersKeepLocks, Exclusive, Asleep, testClear, Goto
  <2>6. Lives' /\ Held'
    BY <1>11 DEF IInv, Lives, Held, testClear, Goto
  <2> QED BY <2>1, <2>2, <2>3, <2>4, <2>5, <2>6 DEF IInv
<1>12. CASE testRelease(t)
  <2>1. TypeOK'
    BY <1>12 DEF IInv, TypeOK, testRelease, Goto
  <2>2. Tests'
    BY <1>12 DEF IInv, TypeOK, Tests, Exclusive, testRelease, Goto
  <2>3. Held'
    BY <1>12, ProcessesAssumption DEF IInv, TypeOK, Lives, Held, OthersKeepLocks, Tests, Asleep, Exclusive, testRelease, Goto
  <2>4. Alarms'
    BY <1>12, ProcessesAssumption DEF IInv, TypeOK, Lives, Held, Alarms, OthersKeepLocks, Tests, Asleep, Exclusive, testRelease, Goto
  <2>5. Bar'
    BY <1>12 DEF IInv, TypeOK, Lives, Tests, Bar, Exclusive, testRelease, Goto
  <2>6. OthersKeepLocks'
    BY <1>12, ProcessesAssumption DEF IInv, TypeOK, Held, Tests, OthersKeepLocks, Exclusive, Asleep, testRelease, Goto
  <2>7. Lives'
    BY <1>12 DEF IInv, Lives, testRelease, Goto
  <2> QED BY <2>1, <2>2, <2>3, <2>4, <2>5, <2>6, <2>7 DEF IInv
<1>13. CASE testRestore(t)
  <2>1. TypeOK'
    BY <1>13 DEF IInv, TypeOK, testRestore, Goto
  <2>2. Tests'
    BY <1>13 DEF IInv, TypeOK, Tests, Exclusive, testRestore, Goto
  <2>3. Alarms'
    BY <1>13, ProcessesAssumption DEF IInv, TypeOK, Lives, Held, Alarms, OthersKeepLocks, Tests, Asleep, Exclusive, testRestore, Goto
  <2>4. Bar'
    BY <1>13 DEF IInv, TypeOK, Lives, Tests, Bar, Exclusive, testRestore, Goto
  <2>5. OthersKeepLocks'
    BY <1>13, ProcessesAssumption DEF IInv, TypeOK, Held, Tests, OthersKeepLocks, Exclusive, Asleep, testRestore, Goto
  <2>6. Lives' /\ Held'
    BY <1>13 DEF IInv, Lives, Held, testRestore, Goto
  <2> QED BY <2>1, <2>2, <2>3, <2>4, <2>5, <2>6 DEF IInv
<1>14. CASE testStart(t)
  <2>1. bar' \in BOOLEAN
    BY <1>14, Zenon DEF IInv, TypeOK, testStart, Goto
  <2>2. TypeOK'
    BY <1>14, <2>1 DEF IInv, TypeOK, testStart, Goto
  <2>3. Tests'
    BY <1>14 DEF IInv, TypeOK, Tests, Exclusive, testStart, Goto
  <2>4. Alarms'
    BY <1>14, ProcessesAssumption DEF IInv, TypeOK, Lives, Held, Alarms, OthersKeepLocks, Tests, Asleep, Exclusive, testStart, Goto
  <2>5. Bar'
    BY <1>14 DEF IInv, TypeOK, Lives, Tests, Bar, Exclusive, testStart, Goto
  <2>6. OthersKeepLocks'
    BY <1>14, ProcessesAssumption DEF IInv, TypeOK, Held, Tests, OthersKeepLocks, Exclusive, Asleep, testStart, Goto
  <2>7. Lives' /\ Held'
    BY <1>14 DEF IInv, Lives, Held, testStart, Goto
  <2> QED BY <2>1, <2>2, <2>3, <2>4, <2>5, <2>6, <2>7 DEF IInv
<1>15. CASE testRm(t)
  <2>1. testDir' \in BOOLEAN /\ testFlag' \in BOOLEAN
    BY <1>15, Zenon DEF IInv, TypeOK, testRm, Goto
  <2>2. TypeOK'
    BY <1>15, <2>1 DEF IInv, TypeOK, testRm, Goto
  <2>3. Tests'
    BY <1>15 DEF IInv, TypeOK, Tests, Exclusive, testRm, Goto
  <2>4. Alarms'
    BY <1>15, ProcessesAssumption DEF IInv, TypeOK, Lives, Held, Alarms, OthersKeepLocks, Tests, Asleep, Exclusive, testRm, Goto
  <2>5. Bar'
    BY <1>15 DEF IInv, TypeOK, Lives, Tests, Bar, Exclusive, testRm, Goto
  <2>6. OthersKeepLocks'
    BY <1>15, ProcessesAssumption DEF IInv, TypeOK, Held, Tests, OthersKeepLocks, Exclusive, Asleep, testRm, Goto
  <2>7. Lives' /\ Held'
    BY <1>15 DEF IInv, Lives, Held, testRm, Goto
  <2> QED BY <2>1, <2>2, <2>3, <2>4, <2>5, <2>6, <2>7 DEF IInv
<1> QED BY <1>1, <1>2, <1>3, <1>4, <1>5, <1>6, <1>7, <1>8, <1>9, <1>10, <1>11, <1>12, <1>13, <1>14, <1>15 DEF Test

LEMMA leaseExceededKeeps ==
    ASSUME IInv, leaseExceeded
    PROVE  IInv'
<1> USE DEF state, service, locks, menu, agent, test, Alive, Refreshing, Waking
<1>1. CASE leaseExceeded
  <2>1. TypeOK'
    BY <1>1 DEF IInv, TypeOK, leaseExceeded, identity
  <2>2. Lives'
    BY <1>1 DEF IInv, TypeOK, Lives, leaseExceeded, identity
  <2>3. Held'
    BY <1>1, ProcessesAssumption DEF IInv, TypeOK, Lives, Held, OthersKeepLocks, Tests, Asleep, Exclusive, leaseExceeded, identity
  <2>4. Alarms'
    BY <1>1, ProcessesAssumption DEF IInv, TypeOK, Lives, Held, Alarms, OthersKeepLocks, Tests, Asleep, Exclusive, leaseExceeded, identity
  <2>5. Bar'
    BY <1>1 DEF IInv, TypeOK, Lives, Tests, Bar, Exclusive, leaseExceeded, identity
  <2>6. Tests' /\ OthersKeepLocks'
    BY <1>1 DEF IInv, Tests, OthersKeepLocks, Exclusive, Asleep, leaseExceeded, identity
  <2> QED BY <2>1, <2>2, <2>3, <2>4, <2>5, <2>6 DEF IInv
<1> QED BY <1>1

LEMMA ringKeeps ==
    ASSUME IInv, ring
    PROVE  IInv'
<1> USE DEF state, service, locks, menu, agent, test, Alive, Refreshing, Waking
<1>1. CASE ring
  <2>1. TypeOK'
    BY <1>1 DEF IInv, TypeOK, ring
  <2>2. Alarms'
    BY <1>1, ProcessesAssumption DEF IInv, TypeOK, Lives, Held, Alarms, OthersKeepLocks, Tests, Asleep, Exclusive, ring
  <2>3. Lives' /\ Tests' /\ Held' /\ Bar' /\ OthersKeepLocks'
    BY <1>1 DEF IInv, Lives, Tests, Held, Bar, OthersKeepLocks, Exclusive, Asleep, ring
  <2> QED BY <2>1, <2>2, <2>3 DEF IInv
<1> QED BY <1>1

LEMMA InitHolds == Init => IInv
<1> SUFFICES ASSUME Init PROVE IInv
  OBVIOUS
<1> USE DEF Init
<1>1. bar \in BOOLEAN /\ shown \in BOOLEAN /\ bar = shown
  BY Zenon
<1>2. TypeOK
  BY <1>1 DEF TypeOK
<1>3. Lives /\ Held /\ OthersKeepLocks
  BY DEF Lives, Held, OthersKeepLocks, Refreshing, Waking, Asleep
<1>4. Tests
  BY DEF Tests, Exclusive
<1>5. Alarms
  BY ProcessesAssumption DEF Alarms
<1>6. Bar
  BY <1>1 DEF Bar
<1> QED
  BY <1>2, <1>3, <1>4, <1>5, <1>6 DEF IInv

LEMMA StutterKeeps ==
    ASSUME IInv, UNCHANGED vars
    PROVE  IInv'
<1> USE DEF vars, state, service, locks, menu, agent, test
<1>1. TypeOK'
  BY DEF IInv, TypeOK
<1>2. Lives' /\ Held' /\ OthersKeepLocks'
  BY DEF IInv, Lives, Held, OthersKeepLocks, Asleep
<1>3. Tests' /\ Alarms' /\ Bar'
  BY DEF IInv, Tests, Exclusive, Alarms, Bar
<1> QED
  BY <1>1, <1>2, <1>3 DEF IInv

LEMMA NextKeeps ==
    ASSUME IInv, [Next]_vars
    PROVE  IInv'
<1>1. CASE Start BY <1>1, StartKeeps
<1>2. CASE Stop BY <1>2, StopKeeps
<1>3. CASE Guard BY <1>3, GuardKeeps
<1>4. CASE leaseExceeded BY <1>4, leaseExceededKeeps
<1>5. CASE Worker BY <1>5, WorkerKeeps
<1>6. CASE Refresh BY <1>6, RefreshKeeps
<1>7. CASE Wake BY <1>7, WakeKeeps
<1>8. CASE ring BY <1>8, ringKeeps
<1>9. CASE \E r \in Refreshers : Menu(r) BY <1>9, MenuKeeps
<1>10. CASE \E t \in Testers : Test(t) BY <1>10, TestKeeps
<1>11. CASE UNCHANGED vars BY <1>11, StutterKeeps
<1> QED
  BY <1>1, <1>2, <1>3, <1>4, <1>5, <1>6, <1>7, <1>8, <1>9, <1>10, <1>11 DEF Next

LEMMA Invariance == Spec => []IInv
<1>1. Init => IInv
  BY InitHolds
<1>2. IInv /\ [Next]_vars => IInv'
  BY NextKeeps
<1> QED
  BY <1>1, <1>2, PTL DEF Spec

(* Files, locks, and the steps of every script are the ones listed.        *)
THEOREM TypeCorrect == Spec => []TypeOK
<1>1. IInv => TypeOK
  BY DEF IInv
<1> QED
  BY <1>1, Invariance, PTL

(* The status bar is stopped only while somebody is to start it again.     *)
THEOREM StatusBarRestored == Spec => []BarRestored
<1>1. IInv => BarRestored
  BY DEF IInv, Bar, BarRestored
<1> QED
  BY <1>1, Invariance, PTL

(* A removed agent leaves no alarm and no marked lock.                     *)
THEOREM AgentLeavesNothing == Spec => []AgentCleared
<1>1. IInv => AgentCleared
  BY DEF IInv, TypeOK, Lives, Held, Alarms, Alive, AgentCleared
<1> QED
  BY <1>1, Invariance, PTL

(* A refresh or a test from the menu keeps the lock it has made.           *)
THEOREM LocksAreKept == Spec => []OthersKeepLocks
<1>1. IInv => OthersKeepLocks
  BY DEF IInv
<1> QED
  BY <1>1, Invariance, PTL

(* No process of an agent outlives its directory.                          *)
THEOREM NoProcessLeft == Spec => []NobodyLeft
<1>1. IInv => NobodyLeft
  BY DEF IInv, Lives, Alive, Refreshing, Waking, NobodyLeft, TypeOK
<1> QED
  BY <1>1, Invariance, PTL

(* The guard and the worker's wake-test.sh clear no alarm of a test: they  *)
(* are in the step that clears one only while the agent has the lock.      *)
THEOREM AlarmsAreKept == Spec => OthersKeepAlarms
<1> DEFINE Kept == (alarm \in Testers /\ alarm' # alarm) => UNCHANGED <<guard, child>>
<1>1. ASSUME IInv, [Next]_vars PROVE Kept
  <2> SUFFICES ASSUME alarm \in Testers, alarm' # alarm
               PROVE  UNCHANGED <<guard, child>>
    OBVIOUS
  <2> USE DEF state, service, locks, menu, agent, test
  <2>1. wakeLock = alarm /\ alarm # "none"
    BY <1>1, ProcessesAssumption DEF IInv, Alarms
  <2>2. ~restoreRtcZero
    BY <1>1, <2>1, ProcessesAssumption DEF IInv, Alarms, restoreRtcZero
  <2>3. ~wakeZero
    BY <1>1, <2>1, ProcessesAssumption DEF IInv, Held, Waking, wakeZero
  <2>4. ~wakeArm
    BY <1>1, <2>1, ProcessesAssumption DEF IInv, Held, Waking, wakeArm
  <2>5. ~Guard
    BY <2>2 DEF Guard, guardStart, guardLook, guardTerm, guardKill, restoreRtc, restoreStatusbar,
                restoreVerify, restoreLocks, restoreRm, restoreRmdir
  <2>6. ~(Start \/ Stop \/ leaseExceeded \/ Worker)
    BY DEF Start, startCheck, startMkdir, startSpawn, Stop, stopCheck, stopTouch, leaseExceeded,
           Worker, workerStart, workerWait, workerBar, workerFlag, workerStopBar, workerLoop,
           workerShort, workerMkdir, workerMark, workerExit
  <2>7. ~(Refresh \/ Wake)
    BY <2>3, <2>4 DEF Refresh, refreshMkdir, refreshOwn, refreshFetch, refreshDisown, refreshRmdir,
                      Wake, wakeCheck, wakeAwake, wakeClear, wakeUnmark, wakeRmdir
  <2>8. CASE ring
    BY <2>8 DEF ring
  <2>9. CASE \E r \in Refreshers : Menu(r)
    BY <2>9 DEF Menu, manualMkdir, manualExit
  <2>10. CASE \E t \in Testers : Test(t)
    BY <2>10 DEF Test, testCheck, exclusiveMkdir, wakeTestMkdir, testWake, testArm, takeDisplay,
                 takeDisplayFlag, takeDisplayStop, testAwake, testRefreshed, testClear,
                 testRelease, testRestore, testStart, testRm
  <2>11. CASE UNCHANGED vars
    BY <2>11 DEF vars
  <2> QED
    BY <1>1, <2>5, <2>6, <2>7, <2>8, <2>9, <2>10, <2>11 DEF Next
<1>2. IInv /\ [Next]_vars => [Kept]_vars
  BY <1>1
<1> QED
  BY <1>2, Invariance, PTL DEF Spec, OthersKeepAlarms
-----------------------------------------------------------------------------
(* The locks exclude: a step of BatteryAgent lets nobody in, or somebody   *)
(* where nobody is, or takes out the only one there.                       *)

LEMMA RefresherHasLock ==
    ASSUME IInv, NEW p \in RefreshingNow
    PROVE  /\ p \in Everybody
           /\ p = "agent" => refreshLock \in {"agent", "marked"}
           /\ p # "agent" => refreshLock = p
BY ProcessesAssumption DEF IInv, TypeOK, Held, OthersKeepLocks, RefreshingNow, Refreshing, Everybody

LEMMA RefreshBegins ==
    ASSUME IInv, refreshLock = "none", NEW p \in Everybody, RefreshingNow' = RefreshingNow \cup {p}
    PROVE  Refreshes!Next
<1>1. RefreshingNow = {}
  BY RefresherHasLock, ProcessesAssumption DEF Everybody
<1> QED
  BY <1>1 DEF Refreshes!Next, Refreshes!Enter

LEMMA RefreshEnds ==
    ASSUME IInv, NEW p \in Everybody, RefreshingNow' = RefreshingNow \ {p}
    PROVE  [Refreshes!Next]_RefreshingNow
<1>1. CASE p \in RefreshingNow
  <2>1. RefreshingNow = {p}
    BY <1>1, RefresherHasLock, ProcessesAssumption DEF Everybody
  <2> QED
    BY <2>1 DEF Refreshes!Next, Refreshes!Leave
<1>2. CASE p \notin RefreshingNow
  BY <1>2
<1> QED
  BY <1>1, <1>2

LEMMA AgentRefreshSteps ==
    ASSUME IInv, Guard \/ Worker \/ Refresh \/ Wake
    PROVE  [Refreshes!Next]_RefreshingNow
<1> USE DEF state, service, locks, menu, agent, test
<1>1. UNCHANGED <<manual, tester>>
  BY DEF Guard, guardStart, guardLook, guardTerm, guardKill, restoreRtc, restoreRtcZero,
         restoreStatusbar, restoreVerify, restoreLocks, restoreRm, restoreRmdir,
         Worker, workerStart, workerWait, workerBar, workerFlag, workerStopBar, workerLoop,
         workerShort, workerMkdir, workerMark, workerExit,
         Refresh, refreshMkdir, refreshOwn, refreshFetch, refreshDisown, refreshRmdir,
         Wake, wakeCheck, wakeArm, wakeAwake, wakeClear, wakeZero, wakeUnmark, wakeRmdir
<1> DEFINE A == {"own", "fetch", "disown", "unlock"}
<1>2. CASE child' \in A /\ child \notin A
  <2>1. refreshMkdir /\ refreshLock = "none"
    BY <1>2, ProcessesAssumption DEF IInv, Lives, Trapped,
         Guard, guardStart, guardLook, guardTerm, guardKill, restoreRtc, restoreRtcZero,
         restoreStatusbar, restoreVerify, restoreLocks, restoreRm, restoreRmdir,
         Worker, workerStart, workerWait, workerBar, workerFlag, workerStopBar, workerLoop,
         workerShort, workerMkdir, workerMark, workerExit,
         Refresh, refreshMkdir, refreshOwn, refreshFetch, refreshDisown, refreshRmdir,
         Wake, wakeCheck, wakeArm, wakeAwake, wakeClear, wakeZero, wakeUnmark, wakeRmdir
  <2>2. RefreshingNow' = RefreshingNow \cup {"agent"}
    BY <1>1, <1>2 DEF RefreshingNow, Refreshing
  <2> QED
    BY <2>1, <2>2, RefreshBegins DEF Everybody
<1>3. CASE child' \notin A
  <2>1. RefreshingNow' = RefreshingNow \ {"agent"}
    BY <1>1, <1>3, ProcessesAssumption DEF RefreshingNow, Refreshing
  <2> QED
    BY <2>1, RefreshEnds DEF Everybody
<1>4. CASE child' \in A /\ child \in A
  BY <1>1, <1>4 DEF RefreshingNow, Refreshing
<1> QED
  BY <1>2, <1>3, <1>4

LEMMA MenuRefreshSteps ==
    ASSUME IInv, NEW r \in Refreshers, Menu(r)
    PROVE  [Refreshes!Next]_RefreshingNow
<1> USE DEF state, service, locks, agent, test
<1>1. CASE manualMkdir(r)
  <2>1. RefreshingNow' = RefreshingNow \cup {r}
    BY <1>1 DEF IInv, TypeOK, manualMkdir, RefreshingNow
  <2> QED
    BY <1>1, <2>1, RefreshBegins DEF manualMkdir, Everybody
<1>2. CASE manualExit(r)
  <2>1. RefreshingNow' = RefreshingNow \ {r}
    BY <1>2, ProcessesAssumption DEF IInv, TypeOK, manualExit, RefreshingNow
  <2> QED
    BY <2>1, RefreshEnds DEF Everybody
<1> QED
  BY <1>1, <1>2 DEF Menu

LEMMA TestRefreshSteps ==
    ASSUME IInv, NEW t \in Testers, Test(t)
    PROVE  [Refreshes!Next]_RefreshingNow
<1> USE DEF state, service, locks, menu, agent
<1>1. UNCHANGED <<manual, child>> /\ \E pc : tester' = [tester EXCEPT ![t] = pc]
  BY DEF Goto, Test, testCheck, exclusiveMkdir, wakeTestMkdir, testWake, testArm, takeDisplay,
         takeDisplayFlag, takeDisplayStop, testAwake, testRefreshed, testClear,
         testRelease, testRestore, testStart, testRm
<1>2. CASE tester'[t] = "refresh"
  <2>1. refreshLock = "none"
    BY <1>2, <1>1 DEF IInv, TypeOK, Goto, Over, Test, testCheck, exclusiveMkdir, wakeTestMkdir, testWake, testArm, takeDisplay,
         takeDisplayFlag, takeDisplayStop, testAwake, testRefreshed, testClear,
         testRelease, testRestore, testStart, testRm
  <2>2. RefreshingNow' = RefreshingNow \cup {t}
    BY <1>1, <1>2 DEF IInv, TypeOK, RefreshingNow
  <2> QED
    BY <2>1, <2>2, RefreshBegins DEF Everybody
<1>3. CASE tester'[t] # "refresh"
  <2>1. RefreshingNow' = RefreshingNow \ {t}
    BY <1>1, <1>3, ProcessesAssumption DEF IInv, TypeOK, RefreshingNow
  <2> QED
    BY <2>1, RefreshEnds DEF Everybody
<1> QED
  BY <1>2, <1>3

(* One process at a time refreshes the picture: the agent's, those of the  *)
(* menu and those of the tests.                                            *)
THEOREM RefreshesAreExclusive == Spec => RefreshesExclude
<1>1. Init => Refreshes!Init
  BY DEF Init, Refreshes!Init, RefreshingNow, Refreshing
<1>2. ASSUME IInv, [Next]_vars PROVE [Refreshes!Next]_RefreshingNow
  <2>1. CASE Guard \/ Worker \/ Refresh \/ Wake
    BY <1>2, <2>1, AgentRefreshSteps
  <2>2. CASE \E r \in Refreshers : Menu(r)
    BY <1>2, <2>2, MenuRefreshSteps
  <2>3. CASE \E t \in Testers : Test(t)
    BY <1>2, <2>3, TestRefreshSteps
  <2>4. CASE Start \/ Stop \/ leaseExceeded \/ ring \/ UNCHANGED vars
    BY <2>4 DEF RefreshingNow, Start, startCheck, startMkdir, startSpawn, Stop, stopCheck,
                stopTouch, leaseExceeded, ring, vars, state, service, locks, menu, agent, test
  <2> QED
    BY <1>2, <2>1, <2>2, <2>3, <2>4 DEF Next
<1> QED
  BY <1>1, <1>2, Invariance, PTL DEF Spec, RefreshesExclude, Refreshes!Spec

LEMMA WakerHasLock ==
    ASSUME IInv, NEW p \in WakingNow
    PROVE  /\ p \in Everybody
           /\ p = "agent" => wakeLock \in {"agent", "marked"}
           /\ p # "agent" => wakeLock = p
BY ProcessesAssumption DEF IInv, TypeOK, Held, OthersKeepLocks, WakingNow, Waking, Everybody

LEMMA WakeBegins ==
    ASSUME IInv, wakeLock = "none", NEW p \in Everybody, WakingNow' = WakingNow \cup {p}
    PROVE  Wakes!Next
<1>1. WakingNow = {}
  BY WakerHasLock, ProcessesAssumption DEF Everybody
<1> QED
  BY <1>1 DEF Wakes!Next, Wakes!Enter

LEMMA WakeEnds ==
    ASSUME IInv, NEW p \in Everybody, WakingNow' = WakingNow \ {p}
    PROVE  [Wakes!Next]_WakingNow
<1>1. CASE p \in WakingNow
  <2>1. WakingNow = {p}
    BY <1>1, WakerHasLock, ProcessesAssumption DEF Everybody
  <2> QED
    BY <2>1 DEF Wakes!Next, Wakes!Leave
<1>2. CASE p \notin WakingNow
  BY <1>2
<1> QED
  BY <1>1, <1>2

LEMMA AgentWakeSteps ==
    ASSUME IInv, Start \/ Guard \/ Worker \/ Refresh \/ Wake
    PROVE  [Wakes!Next]_WakingNow
<1> USE DEF state, service, locks, menu, agent, test, Asleep
<1>1. UNCHANGED <<mode, tester>>
  BY DEF Start, startCheck, startMkdir, startSpawn,
         Guard, guardStart, guardLook, guardTerm, guardKill, restoreRtc, restoreRtcZero,
         restoreStatusbar, restoreVerify, restoreLocks, restoreRm, restoreRmdir,
         Worker, workerStart, workerWait, workerBar, workerFlag, workerStopBar, workerLoop,
         workerShort, workerMkdir, workerMark, workerExit,
         Refresh, refreshMkdir, refreshOwn, refreshFetch, refreshDisown, refreshRmdir,
         Wake, wakeCheck, wakeArm, wakeAwake, wakeClear, wakeZero, wakeUnmark, wakeRmdir
<1> DEFINE A == worker = "mark" \/ child \in Waking
<1>2. CASE A' /\ ~A
  <2>1. workerMkdir /\ wakeLock = "none"
    BY <1>2 DEF IInv, Lives, Refreshing, Waking, Trapped,
         Start, startCheck, startMkdir, startSpawn,
         Guard, guardStart, guardLook, guardTerm, guardKill, restoreRtc, restoreRtcZero,
         restoreStatusbar, restoreVerify, restoreLocks, restoreRm, restoreRmdir,
         Worker, workerStart, workerWait, workerBar, workerFlag, workerStopBar, workerLoop,
         workerShort, workerMkdir, workerMark, workerExit,
         Refresh, refreshMkdir, refreshOwn, refreshFetch, refreshDisown, refreshRmdir,
         Wake, wakeCheck, wakeArm, wakeAwake, wakeClear, wakeZero, wakeUnmark, wakeRmdir
  <2>2. WakingNow' = WakingNow \cup {"agent"}
    BY <1>1, <1>2 DEF WakingNow
  <2> QED
    BY <2>1, <2>2, WakeBegins DEF Everybody
<1>3. CASE ~A'
  <2>1. WakingNow' = WakingNow \ {"agent"}
    BY <1>1, <1>3, ProcessesAssumption DEF WakingNow
  <2> QED
    BY <2>1, WakeEnds DEF Everybody
<1>4. CASE A' /\ A
  BY <1>1, <1>4 DEF WakingNow
<1> QED
  BY <1>2, <1>3, <1>4

LEMMA TestWakeSteps ==
    ASSUME IInv, NEW t \in Testers, Test(t)
    PROVE  [Wakes!Next]_WakingNow
<1> USE DEF state, service, locks, menu, agent
<1>1. UNCHANGED <<worker, child>>
  BY DEF Goto, Test, testCheck, exclusiveMkdir, wakeTestMkdir, testWake, testArm, takeDisplay,
         takeDisplayFlag, takeDisplayStop, testAwake, testRefreshed, testClear,
         testRelease, testRestore, testStart, testRm
<1>2. \A u \in Testers \ {t} : Asleep(u)' <=> Asleep(u)
  BY DEF IInv, TypeOK, Asleep, Goto, Test, testCheck, exclusiveMkdir, wakeTestMkdir, testWake, testArm, takeDisplay,
         takeDisplayFlag, takeDisplayStop, testAwake, testRefreshed, testClear,
         testRelease, testRestore, testStart, testRm
<1>3. CASE Asleep(t)' /\ ~Asleep(t)
  <2>1. wakeLock = "none"
    BY <1>3 DEF IInv, TypeOK, Tests, Asleep, Over, Goto, Test, testCheck, exclusiveMkdir, wakeTestMkdir, testWake, testArm, takeDisplay,
         takeDisplayFlag, takeDisplayStop, testAwake, testRefreshed, testClear,
         testRelease, testRestore, testStart, testRm
  <2>2. WakingNow' = WakingNow \cup {t}
    BY <1>1, <1>2, <1>3 DEF WakingNow
  <2> QED
    BY <2>1, <2>2, WakeBegins DEF Everybody
<1>4. CASE ~Asleep(t)'
  <2>1. WakingNow' = WakingNow \ {t}
    BY <1>1, <1>2, <1>4, ProcessesAssumption DEF WakingNow
  <2> QED
    BY <2>1, WakeEnds DEF Everybody
<1>5. CASE Asleep(t)' /\ Asleep(t)
  <2>1. WakingNow' = WakingNow
    BY <1>1, <1>2, <1>5 DEF WakingNow
  <2> QED
    BY <2>1
<1> QED
  BY <1>3, <1>4, <1>5

(* One process at a time sets the alarm and sleeps, the agent's or a test. *)
THEOREM WakesAreExclusive == Spec => WakesExclude
<1>1. Init => Wakes!Init
  BY DEF Init, Wakes!Init, WakingNow, Waking, Asleep
<1>2. ASSUME IInv, [Next]_vars PROVE [Wakes!Next]_WakingNow
  <2>1. CASE Start \/ Guard \/ Worker \/ Refresh \/ Wake
    BY <1>2, <2>1, AgentWakeSteps
  <2>2. CASE \E t \in Testers : Test(t)
    BY <1>2, <2>2, TestWakeSteps
  <2>3. CASE Stop \/ leaseExceeded \/ ring \/ (\E r \in Refreshers : Menu(r)) \/ UNCHANGED vars
    BY <2>3 DEF WakingNow, Asleep, Stop, stopCheck, stopTouch, leaseExceeded, ring, Menu,
                manualMkdir, manualExit, vars, state, service, locks, menu, agent, test
  <2> QED
    BY <1>2, <2>1, <2>2, <2>3 DEF Next
<1> QED
  BY <1>1, <1>2, Invariance, PTL DEF Spec, WakesExclude, Wakes!Spec
=================================================================================
