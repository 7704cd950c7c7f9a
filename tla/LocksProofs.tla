---------------------------- MODULE LocksProofs ----------------------------
(***************************************************************************)
(* The Python, Rust and C# locks implement RestartLock, for any number of  *)
(* calls of release, any capacity of the channel and every bound.  Each    *)
(* client has its invariant and its step lemma; the last section joins     *)
(* them to the properties of MCLocks.                                      *)
(***************************************************************************)
EXTENDS MCLocks, TLAPS

\* Of the calls of release only the first one does more than return.
OnlyOne(working) ==
  \A r, s \in Releasers : rel[r] \in working /\ rel[s] \in working => r = s

Untouched == ~released => \A r \in Releasers : rel[r] = "idle"
-----------------------------------------------------------------------------
(* Python *)

\* How far the call is, and what exists because of it.
PyCallInv ==
  /\ acq = "idle" => stream = "none" /\ recv = "none"
  /\ recv = "none" => ~lostError /\ ~lostEvent
  /\ released => acq = "held"

\* The receive thread signals once, on a stream that is over, and never after a
\* clean release.
PyLossInv ==
  /\ lostEvent => lostError /\ Over
  /\ recv = "signal" =>
       /\ lostError /\ ~lostEvent /\ Over
       /\ released => ~leftClean

PyReleaseInv == Untouched /\ OnlyOne({"marked", "waiting", "returned"})

PyInv ==
  /\ Python!TypeOK
  /\ PyCallInv
  /\ PyLossInv
  /\ PyReleaseInv

PyContract == INSTANCE RestartLock
  WITH phase <- Python!phaseBar, broken <- Python!brokenBar, reported <- Python!reportedBar
-----------------------------------------------------------------------------
(* Rust *)

\* The task lives with a held lock, and is alone to half-close the stream.
RsTaskInv ==
  /\ acq = "idle" => stream = "none"
  /\ acq = "held" <=> task # "none"
  /\ sendClosed => task \in {"closing", "exited"}
  /\ task = "closing" => sendClosed
  /\ task = "exited" /\ stream = "open" => released \/ sendClosed
  /\ stream # "none" /\ ~body => Over
  /\ stream = "none" => acq \in {"idle", "failed"}

\* A report is the last thing the task does, and only of a stream that is over.
RsLossInv ==
  /\ lost => task = "exited"
  /\ task = "reporting" =>
       /\ Over
       /\ released => ~leftClean

\* A lock is released or dropped, and only either makes the release arm ready.
RsReleaseInv ==
  /\ released => acq = "held"
  /\ dropped => acq = "held" /\ ~released
  /\ signal => released \/ dropped
  /\ sendClosed => released \/ dropped
  /\ Untouched
  /\ OnlyOne({"marked", "waiting", "returned"})

RsInv ==
  /\ Rust!TypeOK
  /\ RsTaskInv
  /\ RsLossInv
  /\ RsReleaseInv

RsContract == INSTANCE RestartLock
  WITH phase <- Rust!phaseBar, broken <- Rust!brokenBar, reported <- Rust!reportedBar
-----------------------------------------------------------------------------
(* C# *)

CsCallInv ==
  /\ acq = "idle" => stream = "none"
  /\ released => acq = "held"
  /\ heartbeatCts => released

\* Both tasks report what broke before the release, and only that.
CsLossInv ==
  /\ lost => Over
  /\ recv = "reporting" \/ hb = "reporting" =>
       /\ Over
       /\ released => ~leftClean
  /\ lost /\ released => ~leftClean

CsReleaseInv == Untouched /\ OnlyOne({"marked", "stopping", "waiting", "returned"})

CsInv ==
  /\ CSharp!TypeOK
  /\ CsCallInv
  /\ CsLossInv
  /\ CsReleaseInv

CsContract == INSTANCE RestartLock
  WITH phase <- CSharp!phaseBar, broken <- CSharp!brokenBar, reported <- CSharp!reportedBar
-----------------------------------------------------------------------------
\* The invariant of the client that runs.
IInv ==
  \/ client = "Python" /\ PyInv
  \/ client = "Rust" /\ RsInv
  \/ client = "C#" /\ CsInv

-----------------------------------------------------------------------------
(* Python: the invariant *)

LEMMA PyInit == Python!Init => PyInv
<1> SUFFICES ASSUME Python!Init PROVE PyInv
  OBVIOUS
<1>1. /\ rel \in [Releasers -> {"idle", "marked", "waiting", "returned", "noop"}]
      /\ sendQueue \in Seq({"request", "heartbeat", "close"})
  BY DEF Python!Init
<1>2. inbox \in Seq(Python!Responses) /\ heartbeats \in Nat
  BY DEF Python!Init, Python!StreamInit
<1>3. Python!TypeOK
  BY <1>1, <1>2, Zenon DEF Python!Init, Python!StreamInit, Python!TypeOK, Python!StreamTypeOK
<1>4. PyCallInv /\ PyLossInv /\ PyReleaseInv
  BY DEF Python!Init, Python!StreamInit, PyCallInv, PyLossInv, PyReleaseInv,
         Untouched, OnlyOne
<1> QED
  BY <1>3, <1>4 DEF PyInv

LEMMA PyTypes == Python!TypeOK /\ [Python!Next]_(Python!vars) => Python!TypeOK'
<1> SUFFICES ASSUME Python!TypeOK, [Python!Next]_(Python!vars)
             PROVE  Python!TypeOK'
  OBVIOUS
<1> USE DEF Python!TypeOK, Python!StreamTypeOK, Python!callVars, Python!hbVars,
        Python!queueVars, Python!relVars, Python!lossVars, Python!streamVars
<1>1. CASE Python!Refuse
  BY <1>1 DEF Python!Refuse
<1>2. CASE Python!Call
  BY <1>2 DEF Python!Call, Python!Open
<1>3. CASE Python!Caller
  BY <1>3 DEF Python!Caller, Python!ReturnLock, Python!RaiseError
<1>4. CASE Python!RecvAcquired
  BY <1>4 DEF Python!RecvAcquired, Python!Arrived, Python!Take
<1>5. CASE Python!RecvOther
  BY <1>5 DEF Python!RecvOther, Python!Arrived, Python!Take
<1>6. CASE Python!RecvFailsBefore
  BY <1>6 DEF Python!RecvFailsBefore
<1>7. CASE Python!RecvFails
  <2>1. lostError' \in BOOLEAN
    BY <1>7, Zenon DEF Python!RecvFails
  <2> QED
    BY <1>7, <2>1 DEF Python!RecvFails
<1>8. CASE Python!SignalLost
  BY <1>8 DEF Python!SignalLost
<1>9. CASE Python!HeartbeatLoop
  <2>1. CASE Python!HeartbeatDue
    BY <2>1 DEF Python!HeartbeatDue
  <2>2. CASE Python!HeartbeatSend
    BY <2>2 DEF Python!HeartbeatSend
  <2>3. CASE Python!HeartbeatStop
    BY <2>3 DEF Python!HeartbeatStop
  <2> QED
    BY <1>9, <2>1, <2>2, <2>3 DEF Python!HeartbeatLoop
<1>10. CASE Python!IteratorYields
  <2>1. sendQueue' \in Seq({"request", "heartbeat", "close"})
    BY <1>10 DEF Python!IteratorYields
  <2>2. iterator' \in {"none", "running", "returned", "abandoned"}
    BY <1>10 DEF Python!IteratorYields
  <2>3. Python!StreamTypeOK'
    <3>1. CASE Python!Enqueue
      BY <3>1 DEF Python!Enqueue
    <3>2. CASE Python!Beat
      BY <3>2 DEF Python!Beat
    <3>3. CASE Python!HalfClose
      BY <3>3 DEF Python!HalfClose
    <3> QED
      BY <1>10, <3>1, <3>2, <3>3 DEF Python!IteratorYields
  <2> QED
    BY <1>10, <2>1, <2>2, <2>3 DEF Python!IteratorYields
<1>11. ASSUME NEW r \in Releasers, Python!ReleaseMark(r)
       PROVE  Python!TypeOK'
  <2>1. leftClean' \in BOOLEAN
    BY <1>11, Zenon DEF Python!ReleaseMark
  <2> QED
    BY <1>11, <2>1 DEF Python!ReleaseMark
<1>12. ASSUME NEW r \in Releasers, Python!ReleaseAgain(r)
       PROVE  Python!TypeOK'
  BY <1>12 DEF Python!ReleaseAgain
<1>13. ASSUME NEW r \in Releasers, Python!Release(r)
       PROVE  Python!TypeOK'
  <2>1. CASE Python!ReleaseClose(r)
    BY <2>1 DEF Python!ReleaseClose
  <2>2. CASE Python!ReleaseReturn(r)
    BY <2>2 DEF Python!ReleaseReturn
  <2> QED
    BY <1>13, <2>1, <2>2 DEF Python!Release
<1>14. CASE Python!Env
  <2>1. CASE Python!StreamEnds
    BY <1>14, <2>1 DEF Python!Env, Python!StreamEnds
  <2>2. CASE Python!ServerDrops
    BY <1>14, <2>2 DEF Python!Env, Python!ServerDrops
  <2>3. ASSUME NEW m \in Python!Responses, Python!ServerSend(m)
        PROVE  Python!TypeOK'
    BY <1>14, <2>3 DEF Python!Env, Python!ServerSend, Python!Responses
  <2> QED
    BY <1>14, <2>1, <2>2, <2>3 DEF Python!Env, Python!StreamEnv
<1>15. CASE UNCHANGED Python!vars
  BY <1>15 DEF Python!vars
<1> QED
  BY <1>1, <1>2, <1>3, <1>4, <1>5, <1>6, <1>7, <1>8, <1>9, <1>10,
     <1>11, <1>12, <1>13, <1>14, <1>15
     DEF Python!Next, Python!RecvLoop

LEMMA PyStep == PyInv /\ [Python!Next]_(Python!vars) => PyInv'
<1> SUFFICES ASSUME PyInv, [Python!Next]_(Python!vars)
             PROVE  PyInv'
  OBVIOUS
<1>0. Python!TypeOK /\ Python!TypeOK'
  BY PyTypes DEF PyInv
<1>a. /\ rel \in [Releasers -> {"idle", "marked", "waiting", "returned", "noop"}]
      /\ lostError \in BOOLEAN /\ lostEvent \in BOOLEAN
  BY <1>0 DEF Python!TypeOK
<1>b. SUFFICES PyCallInv' /\ PyLossInv' /\ PyReleaseInv'
  BY <1>0 DEF PyInv
<1> USE <1>a DEF PyInv, PyCallInv, PyLossInv, PyReleaseInv, Untouched, OnlyOne, Over,
        Python!callVars, Python!hbVars, Python!queueVars, Python!relVars,
        Python!lossVars, Python!streamVars
<1>1. CASE Python!Refuse
  BY <1>1 DEF Python!Refuse
<1>2. CASE Python!Call
  BY <1>2 DEF Python!Call, Python!Open
<1>3. CASE Python!Caller
  BY <1>3 DEF Python!Caller, Python!ReturnLock, Python!RaiseError
<1>4. CASE Python!RecvAcquired
  BY <1>4 DEF Python!RecvAcquired, Python!Take
<1>5. CASE Python!RecvOther
  BY <1>5 DEF Python!RecvOther, Python!Take
<1>6. CASE Python!RecvFailsBefore
  BY <1>6 DEF Python!RecvFailsBefore, Python!RecvError
<1>7. CASE Python!RecvFails
  BY <1>7 DEF Python!RecvFails, Python!RecvError
<1>8. CASE Python!SignalLost
  BY <1>8 DEF Python!SignalLost
<1>9. CASE Python!HeartbeatLoop
  BY <1>9 DEF Python!HeartbeatLoop, Python!HeartbeatDue, Python!HeartbeatSend, Python!HeartbeatStop
<1>10. CASE Python!IteratorYields
  BY <1>10 DEF Python!IteratorYields, Python!Enqueue, Python!Beat, Python!HalfClose
<1>11. ASSUME NEW r \in Releasers, Python!ReleaseMark(r)
       PROVE  PyCallInv' /\ PyLossInv' /\ PyReleaseInv'
  BY <1>11 DEF Python!ReleaseMark
<1>12. ASSUME NEW r \in Releasers, Python!ReleaseAgain(r)
       PROVE  PyCallInv' /\ PyLossInv' /\ PyReleaseInv'
  BY <1>12 DEF Python!ReleaseAgain
<1>13. ASSUME NEW r \in Releasers, Python!Release(r)
       PROVE  PyCallInv' /\ PyLossInv' /\ PyReleaseInv'
  BY <1>13 DEF Python!Release, Python!ReleaseClose, Python!ReleaseReturn
<1>14. CASE Python!Env
  BY <1>14 DEF Python!Env, Python!StreamEnv, Python!StreamEnds, Python!ServerDrops,
               Python!ServerSend
<1>15. CASE UNCHANGED Python!vars
  BY <1>15 DEF Python!vars
<1> QED
  BY <1>1, <1>2, <1>3, <1>4, <1>5, <1>6, <1>7, <1>8, <1>9, <1>10,
     <1>11, <1>12, <1>13, <1>14, <1>15
     DEF Python!Next, Python!RecvLoop
-----------------------------------------------------------------------------
(* Python: the contract *)

\* One step per action: the step of the contract it implements, if any.
LEMMA PyImplements ==
  PyInv /\ [Python!Next]_(Python!vars) => [PyContract!Next]_(PyContract!vars)
<1> SUFFICES ASSUME PyInv, [Python!Next]_(Python!vars)
             PROVE  [PyContract!Next]_(PyContract!vars)
  OBVIOUS
<1>0. /\ rel \in [Releasers -> {"idle", "marked", "waiting", "returned", "noop"}]
      /\ acq \in {"idle", "waiting", "held", "failed"}
      /\ lostEvent \in BOOLEAN
  BY DEF PyInv, Python!TypeOK
<1> USE <1>0 DEF PyInv, PyCallInv, PyLossInv, PyReleaseInv, Untouched, OnlyOne, Over,
        Python!callVars, Python!hbVars, Python!queueVars, Python!relVars,
        Python!lossVars, Python!streamVars,
        Python!phaseBar, Python!brokenBar, Python!reportedBar, PyContract!vars
<1>1. ASSUME Python!Refuse
      PROVE  PyContract!Start
  BY <1>1 DEF Python!Refuse, PyContract!Start
<1>2. ASSUME Python!Call
      PROVE  PyContract!Start
  BY <1>2 DEF Python!Call, Python!Open, PyContract!Start
<1>3. ASSUME Python!ReturnLock
      PROVE  PyContract!Acquire
  BY <1>3 DEF Python!ReturnLock, PyContract!Acquire
<1>4. ASSUME Python!RaiseError
      PROVE  PyContract!Fail
  BY <1>4 DEF Python!RaiseError, PyContract!Fail
<1>5. ASSUME Python!RecvAcquired \/ Python!RecvOther
      PROVE  UNCHANGED PyContract!vars
  BY <1>5 DEF Python!RecvAcquired, Python!RecvOther, Python!Take
<1>6. ASSUME Python!RecvFailsBefore \/ Python!RecvFails
      PROVE  UNCHANGED PyContract!vars
  BY <1>6 DEF Python!RecvFailsBefore, Python!RecvFails
<1>7. ASSUME Python!SignalLost
      PROVE  PyContract!ReportLost \/ UNCHANGED PyContract!vars
  BY <1>7 DEF Python!SignalLost, PyContract!ReportLost
<1>8. ASSUME Python!HeartbeatLoop
      PROVE  UNCHANGED PyContract!vars
  BY <1>8 DEF Python!HeartbeatLoop, Python!HeartbeatDue, Python!HeartbeatSend, Python!HeartbeatStop
<1>9. ASSUME Python!IteratorYields
      PROVE  UNCHANGED PyContract!vars
  BY <1>9 DEF Python!IteratorYields, Python!Enqueue, Python!Beat, Python!HalfClose
<1>10. ASSUME NEW r \in Releasers, Python!ReleaseMark(r)
       PROVE  PyContract!BeginRelease
  BY <1>10 DEF Python!ReleaseMark, PyContract!BeginRelease
<1>11. ASSUME NEW r \in Releasers, Python!ReleaseAgain(r)
       PROVE  UNCHANGED PyContract!vars
  BY <1>11 DEF Python!ReleaseAgain
<1>12. ASSUME NEW r \in Releasers, Python!ReleaseClose(r)
       PROVE  UNCHANGED PyContract!vars
  BY <1>12 DEF Python!ReleaseClose
<1>13. ASSUME NEW r \in Releasers, Python!ReleaseReturn(r)
       PROVE  PyContract!EndRelease
  BY <1>13 DEF Python!ReleaseReturn, PyContract!EndRelease
<1>14. ASSUME Python!Env
       PROVE  PyContract!Break \/ UNCHANGED PyContract!vars
  BY <1>14 DEF Python!Env, Python!StreamEnv, Python!StreamEnds, Python!ServerDrops,
               Python!ServerSend, PyContract!Break
<1>15. CASE UNCHANGED Python!vars
  BY <1>15 DEF Python!vars
<1> QED
  BY <1>1, <1>2, <1>3, <1>4, <1>5, <1>6, <1>7, <1>8, <1>9, <1>10,
     <1>11, <1>12, <1>13, <1>14, <1>15
     DEF Python!Next, Python!Caller, Python!RecvLoop, Python!Release, PyContract!Next
-----------------------------------------------------------------------------
(* Rust: the invariant *)

LEMMA RsInit == Rust!Init => RsInv
<1> SUFFICES ASSUME Rust!Init PROVE RsInv
  OBVIOUS
<1>1. /\ rel \in [Releasers -> {"idle", "marked", "waiting", "returned", "noop"}]
      /\ outbox \in Seq({"request", "heartbeat"}) /\ Len(outbox) <= Capacity
  BY CapacityAssumption DEF Rust!Init
<1>2. inbox \in Seq(Rust!Responses) /\ heartbeats \in Nat
  BY DEF Rust!Init, Rust!StreamInit
<1>3. Rust!TypeOK
  BY <1>1, <1>2, Zenon DEF Rust!Init, Rust!StreamInit, Rust!TypeOK, Rust!StreamTypeOK
<1>4. RsTaskInv /\ RsLossInv /\ RsReleaseInv
  BY DEF Rust!Init, Rust!StreamInit, RsTaskInv, RsLossInv, RsReleaseInv,
         Untouched, OnlyOne
<1> QED
  BY <1>3, <1>4 DEF RsInv

LEMMA RsTypes == Rust!TypeOK /\ [Rust!Next]_(Rust!vars) => Rust!TypeOK'
<1> SUFFICES ASSUME Rust!TypeOK, [Rust!Next]_(Rust!vars)
             PROVE  Rust!TypeOK'
  OBVIOUS
<1> USE CapacityAssumption
    DEF Rust!TypeOK, Rust!StreamTypeOK, Rust!taskVars, Rust!relVars, Rust!streamVars
<1>1. CASE Rust!Refuse
  BY <1>1 DEF Rust!Refuse
<1>2. CASE Rust!Call
  BY <1>2 DEF Rust!Call, Rust!Open
<1>3. CASE Rust!CallResolves
  <2>1. outbox' \in Seq({"request", "heartbeat"}) /\ Len(outbox') <= Capacity
    BY <1>3 DEF Rust!CallResolves
  <2> QED
    BY <1>3, <2>1 DEF Rust!CallResolves
<1>4. CASE Rust!RecvAcquired
  BY <1>4 DEF Rust!RecvAcquired, Rust!Arrived, Rust!Take
<1>5. CASE Rust!RecvWhileQueued
  BY <1>5 DEF Rust!RecvWhileQueued, Rust!Arrived, Rust!Take
<1>6. CASE Rust!AcquireFails
  BY <1>6 DEF Rust!AcquireFails
<1>7. CASE Rust!DropFuture
  BY <1>7 DEF Rust!DropFuture, Rust!Abort
<1>8. CASE Rust!CloseSend
  <2>1. leftClean' \in BOOLEAN
    BY <1>8, Zenon DEF Rust!CloseSend
  <2> QED
    BY <1>8, <2>1 DEF Rust!CloseSend, Rust!HalfClose
<1>9. CASE Rust!SendDone \/ Rust!Poll \/ Rust!AllPending \/ Rust!Tick
  BY <1>9 DEF Rust!SendDone, Rust!Poll, Rust!AllPending, Rust!Tick
<1>10. CASE Rust!DropStream
  BY <1>10 DEF Rust!DropStream, Rust!Abort
<1>11. CASE Rust!SendHeartbeat
  <2>1. outbox' \in Seq({"request", "heartbeat"}) /\ Len(outbox') <= Capacity
    BY <1>11 DEF Rust!SendHeartbeat
  <2>2. task' \in {"select", "exited", "reporting"}
    BY <1>11 DEF Rust!SendHeartbeat, Rust!LoadReleased
  <2> QED
    BY <1>11, <2>1, <2>2 DEF Rust!SendHeartbeat
<1>12. CASE Rust!RecvAny
  BY <1>12 DEF Rust!RecvAny, Rust!Take
<1>13. CASE Rust!RecvFails
  BY <1>13 DEF Rust!RecvFails, Rust!LoadReleased
<1>14. CASE Rust!ReportLost
  BY <1>14 DEF Rust!ReportLost
<1>15. ASSUME NEW r \in Releasers, Rust!ReleaseMark(r)
       PROVE  Rust!TypeOK'
  <2>1. leftClean' \in BOOLEAN
    BY <1>15, Zenon DEF Rust!ReleaseMark
  <2> QED
    BY <1>15, <2>1 DEF Rust!ReleaseMark
<1>16. ASSUME NEW r \in Releasers, Rust!ReleaseAgain(r)
       PROVE  Rust!TypeOK'
  BY <1>16 DEF Rust!ReleaseAgain
<1>17. ASSUME NEW r \in Releasers, Rust!ReleaseSignal(r)
       PROVE  Rust!TypeOK'
  BY <1>17 DEF Rust!ReleaseSignal
<1>18. ASSUME NEW r \in Releasers, Rust!ReleaseReturn(r)
       PROVE  Rust!TypeOK'
  BY <1>18 DEF Rust!ReleaseReturn
<1>19. CASE Rust!DropLock
  BY <1>19 DEF Rust!DropLock
<1>20. CASE Rust!Transport
  <2>1. outbox' \in Seq({"request", "heartbeat"}) /\ Len(outbox') <= Capacity
    BY <1>20 DEF Rust!Transport
  <2>2. Rust!StreamTypeOK'
    <3>1. CASE Rust!Enqueue
      BY <3>1 DEF Rust!Enqueue
    <3>2. CASE Rust!Beat
      BY <3>2 DEF Rust!Beat
    <3> QED
      BY <1>20, <3>1, <3>2 DEF Rust!Transport
  <2> QED
    BY <1>20, <2>1, <2>2 DEF Rust!Transport
<1>21. CASE Rust!BodyDropped
  <2>1. outbox' \in Seq({"request", "heartbeat"}) /\ Len(outbox') <= Capacity
    BY <1>21 DEF Rust!BodyDropped
  <2>2. body' \in BOOLEAN
    BY <1>21, Zenon DEF Rust!BodyDropped
  <2>3. UNCHANGED <<acq, task, Rust!relVars, lost, Rust!streamVars>>
    BY <1>21 DEF Rust!BodyDropped
  <2> QED
    BY <2>1, <2>2, <2>3
<1>22. CASE Rust!Env
  <2>1. UNCHANGED <<acq, Rust!taskVars, Rust!relVars, lost>>
    BY <1>22 DEF Rust!Env
  <2>2. Rust!StreamTypeOK'
    <3>1. CASE Rust!StreamEnds
      BY <3>1 DEF Rust!StreamEnds
    <3>2. CASE Rust!ServerDrops
      BY <3>2 DEF Rust!ServerDrops
    <3>3. ASSUME NEW m \in Rust!Responses, Rust!ServerSend(m)
          PROVE  Rust!StreamTypeOK'
      BY <3>3 DEF Rust!ServerSend, Rust!Responses
    <3> QED
      BY <1>22, <3>1, <3>2, <3>3 DEF Rust!Env, Rust!StreamEnv
  <2> QED
    BY <2>1, <2>2
<1>23. CASE UNCHANGED Rust!vars
  BY <1>23 DEF Rust!vars
<1> QED
  BY <1>1, <1>2, <1>3, <1>4, <1>5, <1>6, <1>7, <1>8, <1>9, <1>10, <1>11, <1>12, <1>13,
     <1>14, <1>15, <1>16, <1>17, <1>18, <1>19, <1>20, <1>21, <1>22, <1>23
     DEF Rust!Next, Rust!Acquire, Rust!LockLoop, Rust!Release

LEMMA RsStep == RsInv /\ [Rust!Next]_(Rust!vars) => RsInv'
<1> SUFFICES ASSUME RsInv, [Rust!Next]_(Rust!vars)
             PROVE  RsInv'
  OBVIOUS
<1>0. Rust!TypeOK /\ Rust!TypeOK'
  BY RsTypes DEF RsInv
<1>a. /\ rel \in [Releasers -> {"idle", "marked", "waiting", "returned", "noop"}]
      /\ stream \in {"none", "open", "ended", "aborted"}
      /\ body \in BOOLEAN /\ sendClosed \in BOOLEAN
  BY <1>0 DEF Rust!TypeOK, Rust!StreamTypeOK
<1>b. SUFFICES RsTaskInv' /\ RsLossInv' /\ RsReleaseInv'
  BY <1>0 DEF RsInv
<1> USE <1>a DEF RsInv, RsTaskInv, RsLossInv, RsReleaseInv, Untouched, OnlyOne,
        Over, Rust!Over, Rust!taskVars, Rust!relVars, Rust!streamVars
<1>1. CASE Rust!Refuse
  BY <1>1 DEF Rust!Refuse
<1>2. CASE Rust!Call
  BY <1>2 DEF Rust!Call, Rust!Open
<1>3. CASE Rust!CallResolves
  BY <1>3 DEF Rust!CallResolves
<1>4. CASE Rust!RecvAcquired
  BY <1>4 DEF Rust!RecvAcquired, Rust!Take
<1>5. CASE Rust!RecvWhileQueued
  BY <1>5 DEF Rust!RecvWhileQueued, Rust!Take
<1>6. CASE Rust!AcquireFails
  BY <1>6 DEF Rust!AcquireFails
<1>7. CASE Rust!DropFuture
  BY <1>7 DEF Rust!DropFuture, Rust!Abort
<1>8. CASE Rust!CloseSend
  BY <1>8 DEF Rust!CloseSend, Rust!HalfClose
<1>9. CASE Rust!SendDone \/ Rust!Poll \/ Rust!AllPending \/ Rust!Tick
  BY <1>9 DEF Rust!SendDone, Rust!Poll, Rust!AllPending, Rust!Tick
<1>10. CASE Rust!DropStream
  BY <1>10 DEF Rust!DropStream, Rust!Abort
<1>11. CASE Rust!SendHeartbeat
  BY <1>11 DEF Rust!SendHeartbeat, Rust!LoadReleased
<1>12. CASE Rust!RecvAny
  BY <1>12 DEF Rust!RecvAny, Rust!Take
<1>13. CASE Rust!RecvFails
  BY <1>13 DEF Rust!RecvFails, Rust!LoadReleased, Rust!RecvError
<1>14. CASE Rust!ReportLost
  BY <1>14 DEF Rust!ReportLost
<1>15. ASSUME NEW r \in Releasers, Rust!ReleaseMark(r)
       PROVE  RsTaskInv' /\ RsLossInv' /\ RsReleaseInv'
  BY <1>15 DEF Rust!ReleaseMark
<1>16. ASSUME NEW r \in Releasers, Rust!ReleaseAgain(r)
       PROVE  RsTaskInv' /\ RsLossInv' /\ RsReleaseInv'
  BY <1>16 DEF Rust!ReleaseAgain
<1>17. ASSUME NEW r \in Releasers, Rust!ReleaseSignal(r)
       PROVE  RsTaskInv' /\ RsLossInv' /\ RsReleaseInv'
  BY <1>17 DEF Rust!ReleaseSignal
<1>18. ASSUME NEW r \in Releasers, Rust!ReleaseReturn(r)
       PROVE  RsTaskInv' /\ RsLossInv' /\ RsReleaseInv'
  BY <1>18 DEF Rust!ReleaseReturn
<1>19. CASE Rust!DropLock
  BY <1>19 DEF Rust!DropLock
<1>20. CASE Rust!Transport
  BY <1>20 DEF Rust!Transport, Rust!Enqueue, Rust!Beat
<1>21. CASE Rust!BodyDropped
  BY <1>21 DEF Rust!BodyDropped
<1>22. CASE Rust!Env
  BY <1>22 DEF Rust!Env, Rust!StreamEnv, Rust!StreamEnds, Rust!ServerDrops, Rust!ServerSend
<1>23. CASE UNCHANGED Rust!vars
  BY <1>23 DEF Rust!vars
<1> QED
  BY <1>1, <1>2, <1>3, <1>4, <1>5, <1>6, <1>7, <1>8, <1>9, <1>10, <1>11, <1>12, <1>13,
     <1>14, <1>15, <1>16, <1>17, <1>18, <1>19, <1>20, <1>21, <1>22, <1>23
     DEF Rust!Next, Rust!Acquire, Rust!LockLoop, Rust!Release
-----------------------------------------------------------------------------
(* Rust: the contract *)

\* The task that closes the stream of a dropped lock begins and ends a release; the
\* task of a released lock only answers the one that its caller began.
LEMMA RsImplements ==
  RsInv /\ [Rust!Next]_(Rust!vars) => [RsContract!Next]_(RsContract!vars)
<1> SUFFICES ASSUME RsInv, [Rust!Next]_(Rust!vars)
             PROVE  [RsContract!Next]_(RsContract!vars)
  OBVIOUS
<1>0. /\ rel \in [Releasers -> {"idle", "marked", "waiting", "returned", "noop"}]
      /\ acq \in {"idle", "opening", "waiting", "held", "failed"}
      /\ lost \in BOOLEAN
  BY DEF RsInv, Rust!TypeOK
<1> USE <1>0 DEF RsInv, RsTaskInv, RsLossInv, RsReleaseInv, Untouched, OnlyOne, Over,
        Rust!Over, Rust!taskVars, Rust!relVars, Rust!streamVars,
        Rust!phaseBar, Rust!brokenBar, Rust!reportedBar, RsContract!vars
<1>1. ASSUME Rust!Refuse
      PROVE  RsContract!Start
  BY <1>1 DEF Rust!Refuse, RsContract!Start
<1>2. ASSUME Rust!Call
      PROVE  RsContract!Start
  BY <1>2 DEF Rust!Call, Rust!Open, RsContract!Start
<1>3. ASSUME Rust!CallResolves \/ Rust!RecvWhileQueued
      PROVE  UNCHANGED RsContract!vars
  BY <1>3 DEF Rust!CallResolves, Rust!RecvWhileQueued, Rust!Take
<1>4. ASSUME Rust!RecvAcquired
      PROVE  RsContract!Acquire
  BY <1>4 DEF Rust!RecvAcquired, Rust!Take, RsContract!Acquire
<1>5. ASSUME Rust!AcquireFails
      PROVE  RsContract!Fail
  BY <1>5 DEF Rust!AcquireFails, RsContract!Fail
<1>6. ASSUME Rust!DropFuture
      PROVE  RsContract!Fail
  BY <1>6 DEF Rust!DropFuture, Rust!Abort, RsContract!Fail
<1>7. ASSUME Rust!CloseSend
      PROVE  RsContract!BeginRelease \/ UNCHANGED RsContract!vars
  BY <1>7 DEF Rust!CloseSend, Rust!HalfClose, RsContract!BeginRelease
<1>8. ASSUME Rust!SendDone
      PROVE  RsContract!EndRelease \/ UNCHANGED RsContract!vars
  BY <1>8 DEF Rust!SendDone, RsContract!EndRelease
<1>9. ASSUME Rust!DropStream
      PROVE  UNCHANGED RsContract!vars
  BY <1>9 DEF Rust!DropStream, Rust!Abort
<1>10. ASSUME Rust!Poll \/ Rust!AllPending \/ Rust!Tick \/ Rust!RecvAny
       PROVE  UNCHANGED RsContract!vars
  BY <1>10 DEF Rust!Poll, Rust!AllPending, Rust!Tick, Rust!RecvAny, Rust!Take
<1>11. ASSUME Rust!SendHeartbeat \/ Rust!RecvFails
       PROVE  UNCHANGED RsContract!vars
  BY <1>11 DEF Rust!SendHeartbeat, Rust!RecvFails, Rust!LoadReleased
<1>12. ASSUME Rust!ReportLost
       PROVE  RsContract!ReportLost
  BY <1>12 DEF Rust!ReportLost, RsContract!ReportLost
<1>13. ASSUME NEW r \in Releasers, Rust!ReleaseMark(r)
       PROVE  RsContract!BeginRelease
  BY <1>13 DEF Rust!ReleaseMark, RsContract!BeginRelease
<1>14. ASSUME NEW r \in Releasers, Rust!ReleaseAgain(r)
       PROVE  UNCHANGED RsContract!vars
  BY <1>14 DEF Rust!ReleaseAgain
<1>15. ASSUME NEW r \in Releasers, Rust!ReleaseSignal(r)
       PROVE  UNCHANGED RsContract!vars
  BY <1>15 DEF Rust!ReleaseSignal
<1>16. ASSUME NEW r \in Releasers, Rust!ReleaseReturn(r)
       PROVE  RsContract!EndRelease
  BY <1>16 DEF Rust!ReleaseReturn, RsContract!EndRelease
<1>17. ASSUME Rust!DropLock
       PROVE  UNCHANGED RsContract!vars
  BY <1>17 DEF Rust!DropLock
<1>18. ASSUME Rust!Transport \/ Rust!BodyDropped
       PROVE  UNCHANGED RsContract!vars
  BY <1>18 DEF Rust!Transport, Rust!BodyDropped, Rust!Enqueue, Rust!Beat
<1>19. ASSUME Rust!Env
       PROVE  RsContract!Break \/ UNCHANGED RsContract!vars
  BY <1>19 DEF Rust!Env, Rust!StreamEnv, Rust!StreamEnds, Rust!ServerDrops,
               Rust!ServerSend, RsContract!Break
<1>20. CASE UNCHANGED Rust!vars
  BY <1>20 DEF Rust!vars
<1> QED
  BY <1>1, <1>2, <1>3, <1>4, <1>5, <1>6, <1>7, <1>8, <1>9, <1>10,
     <1>11, <1>12, <1>13, <1>14, <1>15, <1>16, <1>17, <1>18, <1>19, <1>20
     DEF Rust!Next, Rust!Acquire, Rust!LockLoop, Rust!Release, RsContract!Next
-----------------------------------------------------------------------------
(* C#: the invariant *)

LEMMA CsInit == CSharp!Init => CsInv
<1> SUFFICES ASSUME CSharp!Init PROVE CsInv
  OBVIOUS
<1>1. rel \in [Releasers -> {"idle", "marked", "stopping", "waiting", "returned", "noop"}]
  BY DEF CSharp!Init
<1>2. inbox \in Seq(CSharp!Responses) /\ heartbeats \in Nat
  BY DEF CSharp!Init, CSharp!StreamInit
<1>3. CSharp!TypeOK
  BY <1>1, <1>2, Zenon DEF CSharp!Init, CSharp!StreamInit, CSharp!TypeOK, CSharp!StreamTypeOK
<1>4. CsCallInv /\ CsLossInv /\ CsReleaseInv
  BY DEF CSharp!Init, CSharp!StreamInit, CsCallInv, CsLossInv, CsReleaseInv,
         Untouched, OnlyOne
<1> QED
  BY <1>3, <1>4 DEF CsInv

LEMMA CsTypes == CSharp!TypeOK /\ [CSharp!Next]_(CSharp!vars) => CSharp!TypeOK'
<1> SUFFICES ASSUME CSharp!TypeOK, [CSharp!Next]_(CSharp!vars)
             PROVE  CSharp!TypeOK'
  OBVIOUS
<1> USE DEF CSharp!TypeOK, CSharp!StreamTypeOK, CSharp!callVars, CSharp!recvVars,
        CSharp!hbVars, CSharp!relVars, CSharp!streamVars
<1>1. CASE CSharp!Refuse
  BY <1>1 DEF CSharp!Refuse
<1>2. CASE CSharp!Call
  BY <1>2 DEF CSharp!Call, CSharp!Open
<1>3. CASE CSharp!Sent
  BY <1>3 DEF CSharp!Sent, CSharp!Enqueue
<1>4. CASE CSharp!SendFails \/ CSharp!ReturnLock \/ CSharp!ThrowFailure
  BY <1>4 DEF CSharp!SendFails, CSharp!ReturnLock, CSharp!ThrowFailure
<1>5. CASE CSharp!CancelToken
  BY <1>5 DEF CSharp!CancelToken
<1>6. CASE CSharp!TokenCallback
  BY <1>6 DEF CSharp!TokenCallback, CSharp!TrySetAcquired
<1>7. CASE CSharp!CallCancelled
  BY <1>7 DEF CSharp!CallCancelled, CSharp!Abort
<1>8. CASE CSharp!RecvAcquired
  BY <1>8 DEF CSharp!RecvAcquired, CSharp!TrySetAcquired, CSharp!Arrived, CSharp!Take
<1>9. CASE CSharp!RecvOther
  BY <1>9 DEF CSharp!RecvOther, CSharp!Arrived, CSharp!Take
<1>10. CASE CSharp!RecvFailsBefore
  BY <1>10 DEF CSharp!RecvFailsBefore, CSharp!TrySetAcquired
<1>11. CASE CSharp!RecvFails
  BY <1>11 DEF CSharp!RecvFails, CSharp!AfterLoss
<1>12. CASE CSharp!RecvReports
  BY <1>12 DEF CSharp!RecvReports
<1>13. CASE CSharp!HeartbeatDue
  BY <1>13 DEF CSharp!HeartbeatDue
<1>14. CASE CSharp!HeartbeatSent
  BY <1>14 DEF CSharp!HeartbeatSent, CSharp!Beat
<1>15. CASE CSharp!HeartbeatFails
  BY <1>15 DEF CSharp!HeartbeatFails, CSharp!AfterLoss
<1>16. CASE CSharp!HeartbeatReports
  BY <1>16 DEF CSharp!HeartbeatReports
<1>17. CASE CSharp!HeartbeatStops
  BY <1>17 DEF CSharp!HeartbeatStops, CSharp!Abort
<1>18. ASSUME NEW r \in Releasers, CSharp!ReleaseMark(r)
       PROVE  CSharp!TypeOK'
  <2>1. leftClean' \in BOOLEAN
    BY <1>18, Zenon DEF CSharp!ReleaseMark
  <2> QED
    BY <1>18, <2>1 DEF CSharp!ReleaseMark
<1>19. ASSUME NEW r \in Releasers, CSharp!ReleaseAgain(r)
       PROVE  CSharp!TypeOK'
  BY <1>19 DEF CSharp!ReleaseAgain
<1>20. ASSUME NEW r \in Releasers, CSharp!ReleaseStop(r)
       PROVE  CSharp!TypeOK'
  BY <1>20 DEF CSharp!ReleaseStop
<1>21. ASSUME NEW r \in Releasers, CSharp!ReleaseClose(r)
       PROVE  CSharp!TypeOK'
  BY <1>21 DEF CSharp!ReleaseClose, CSharp!HalfClose
<1>22. ASSUME NEW r \in Releasers, CSharp!ReleaseReturn(r)
       PROVE  CSharp!TypeOK'
  BY <1>22 DEF CSharp!ReleaseReturn
<1>23. CASE CSharp!Env
  <2>1. CASE CSharp!StreamEnds
    BY <1>23, <2>1 DEF CSharp!Env, CSharp!StreamEnds
  <2>2. CASE CSharp!ServerDrops
    BY <1>23, <2>2 DEF CSharp!Env, CSharp!ServerDrops
  <2>3. ASSUME NEW m \in CSharp!Responses, CSharp!ServerSend(m)
        PROVE  CSharp!TypeOK'
    BY <1>23, <2>3 DEF CSharp!Env, CSharp!ServerSend, CSharp!Responses
  <2> QED
    BY <1>23, <2>1, <2>2, <2>3 DEF CSharp!Env, CSharp!StreamEnv
<1>24. CASE UNCHANGED CSharp!vars
  BY <1>24 DEF CSharp!vars
<1> QED
  BY <1>1, <1>2, <1>3, <1>4, <1>5, <1>6, <1>7, <1>8, <1>9, <1>10, <1>11, <1>12, <1>13,
     <1>14, <1>15, <1>16, <1>17, <1>18, <1>19, <1>20, <1>21, <1>22, <1>23, <1>24
     DEF CSharp!Next, CSharp!Acquire, CSharp!RecvLoop, CSharp!HeartbeatLoop, CSharp!Release

LEMMA CsStep == CsInv /\ [CSharp!Next]_(CSharp!vars) => CsInv'
<1> SUFFICES ASSUME CsInv, [CSharp!Next]_(CSharp!vars)
             PROVE  CsInv'
  OBVIOUS
<1>0. CSharp!TypeOK /\ CSharp!TypeOK'
  BY CsTypes DEF CsInv
<1>a. rel \in [Releasers -> {"idle", "marked", "stopping", "waiting", "returned", "noop"}]
  BY <1>0 DEF CSharp!TypeOK
<1>b. SUFFICES CsCallInv' /\ CsLossInv' /\ CsReleaseInv'
  BY <1>0 DEF CsInv
<1> USE <1>a DEF CsInv, CsCallInv, CsLossInv, CsReleaseInv, Untouched, OnlyOne, Over,
        CSharp!Over, CSharp!callVars, CSharp!recvVars, CSharp!hbVars, CSharp!relVars,
        CSharp!streamVars
<1>1. CASE CSharp!Refuse
  BY <1>1 DEF CSharp!Refuse
<1>2. CASE CSharp!Call
  BY <1>2 DEF CSharp!Call, CSharp!Open
<1>3. CASE CSharp!Sent
  BY <1>3 DEF CSharp!Sent, CSharp!Enqueue
<1>4. CASE CSharp!SendFails \/ CSharp!ReturnLock \/ CSharp!ThrowFailure
  BY <1>4 DEF CSharp!SendFails, CSharp!ReturnLock, CSharp!ThrowFailure
<1>5. CASE CSharp!CancelToken
  BY <1>5 DEF CSharp!CancelToken
<1>6. CASE CSharp!TokenCallback
  BY <1>6 DEF CSharp!TokenCallback
<1>7. CASE CSharp!CallCancelled
  BY <1>7 DEF CSharp!CallCancelled, CSharp!Abort
<1>8. CASE CSharp!RecvAcquired
  BY <1>8 DEF CSharp!RecvAcquired, CSharp!Take
<1>9. CASE CSharp!RecvOther
  BY <1>9 DEF CSharp!RecvOther, CSharp!Take
<1>10. CASE CSharp!RecvFailsBefore
  BY <1>10 DEF CSharp!RecvFailsBefore
<1>11. CASE CSharp!RecvFails
  BY <1>11 DEF CSharp!RecvFails, CSharp!AfterLoss, CSharp!RecvError
<1>12. CASE CSharp!RecvReports
  BY <1>12 DEF CSharp!RecvReports
<1>13. CASE CSharp!HeartbeatDue
  BY <1>13 DEF CSharp!HeartbeatDue
<1>14. CASE CSharp!HeartbeatSent
  BY <1>14 DEF CSharp!HeartbeatSent, CSharp!Beat
<1>15. CASE CSharp!HeartbeatFails
  BY <1>15 DEF CSharp!HeartbeatFails, CSharp!AfterLoss
<1>16. CASE CSharp!HeartbeatReports
  BY <1>16 DEF CSharp!HeartbeatReports
<1>17. CASE CSharp!HeartbeatStops
  BY <1>17 DEF CSharp!HeartbeatStops, CSharp!Abort
<1>18. ASSUME NEW r \in Releasers, CSharp!ReleaseMark(r)
       PROVE  CsCallInv' /\ CsLossInv' /\ CsReleaseInv'
  BY <1>18 DEF CSharp!ReleaseMark
<1>19. ASSUME NEW r \in Releasers, CSharp!ReleaseAgain(r)
       PROVE  CsCallInv' /\ CsLossInv' /\ CsReleaseInv'
  BY <1>19 DEF CSharp!ReleaseAgain
<1>20. ASSUME NEW r \in Releasers, CSharp!ReleaseStop(r)
       PROVE  CsCallInv' /\ CsLossInv' /\ CsReleaseInv'
  BY <1>20 DEF CSharp!ReleaseStop
<1>21. ASSUME NEW r \in Releasers, CSharp!ReleaseClose(r)
       PROVE  CsCallInv' /\ CsLossInv' /\ CsReleaseInv'
  BY <1>21 DEF CSharp!ReleaseClose, CSharp!HalfClose
<1>22. ASSUME NEW r \in Releasers, CSharp!ReleaseReturn(r)
       PROVE  CsCallInv' /\ CsLossInv' /\ CsReleaseInv'
  BY <1>22 DEF CSharp!ReleaseReturn
<1>23. CASE CSharp!Env
  BY <1>23 DEF CSharp!Env, CSharp!StreamEnv, CSharp!StreamEnds, CSharp!ServerDrops,
               CSharp!ServerSend
<1>24. CASE UNCHANGED CSharp!vars
  BY <1>24 DEF CSharp!vars
<1> QED
  BY <1>1, <1>2, <1>3, <1>4, <1>5, <1>6, <1>7, <1>8, <1>9, <1>10, <1>11, <1>12, <1>13,
     <1>14, <1>15, <1>16, <1>17, <1>18, <1>19, <1>20, <1>21, <1>22, <1>23, <1>24
     DEF CSharp!Next, CSharp!Acquire, CSharp!RecvLoop, CSharp!HeartbeatLoop, CSharp!Release
-----------------------------------------------------------------------------
(* C#: the contract *)

\* Of the two tasks that may find the stream broken, the second reports nothing new.
LEMMA CsImplements ==
  CsInv /\ [CSharp!Next]_(CSharp!vars) => [CsContract!Next]_(CsContract!vars)
<1> SUFFICES ASSUME CsInv, [CSharp!Next]_(CSharp!vars)
             PROVE  [CsContract!Next]_(CsContract!vars)
  OBVIOUS
<1>0. /\ rel \in [Releasers -> {"idle", "marked", "stopping", "waiting", "returned", "noop"}]
      /\ acq \in {"idle", "sending", "waiting", "held", "failed"}
      /\ lost \in BOOLEAN
  BY DEF CsInv, CSharp!TypeOK
<1> USE <1>0 DEF CsInv, CsCallInv, CsLossInv, CsReleaseInv, Untouched, OnlyOne, Over,
        CSharp!Over, CSharp!callVars, CSharp!recvVars, CSharp!hbVars, CSharp!relVars,
        CSharp!streamVars,
        CSharp!phaseBar, CSharp!brokenBar, CSharp!reportedBar, CsContract!vars
<1>1. ASSUME CSharp!Refuse
      PROVE  CsContract!Start
  BY <1>1 DEF CSharp!Refuse, CsContract!Start
<1>2. ASSUME CSharp!Call
      PROVE  CsContract!Start
  BY <1>2 DEF CSharp!Call, CSharp!Open, CsContract!Start
<1>3. ASSUME CSharp!Sent
      PROVE  UNCHANGED CsContract!vars
  BY <1>3 DEF CSharp!Sent, CSharp!Enqueue
<1>4. ASSUME CSharp!SendFails \/ CSharp!ThrowFailure
      PROVE  CsContract!Fail
  BY <1>4 DEF CSharp!SendFails, CSharp!ThrowFailure, CsContract!Fail
<1>5. ASSUME CSharp!ReturnLock
      PROVE  CsContract!Acquire
  BY <1>5 DEF CSharp!ReturnLock, CsContract!Acquire
<1>6. ASSUME CSharp!CancelToken \/ CSharp!TokenCallback
      PROVE  UNCHANGED CsContract!vars
  BY <1>6 DEF CSharp!CancelToken, CSharp!TokenCallback
<1>7. ASSUME CSharp!CallCancelled
      PROVE  CsContract!Break \/ UNCHANGED CsContract!vars
  BY <1>7 DEF CSharp!CallCancelled, CSharp!Abort, CsContract!Break
<1>8. ASSUME CSharp!RecvAcquired \/ CSharp!RecvOther
      PROVE  UNCHANGED CsContract!vars
  BY <1>8 DEF CSharp!RecvAcquired, CSharp!RecvOther, CSharp!Take
<1>9. ASSUME CSharp!RecvFailsBefore \/ CSharp!RecvFails
      PROVE  UNCHANGED CsContract!vars
  BY <1>9 DEF CSharp!RecvFailsBefore, CSharp!RecvFails
<1>10. ASSUME CSharp!RecvReports
       PROVE  CsContract!ReportLost \/ UNCHANGED CsContract!vars
  BY <1>10 DEF CSharp!RecvReports, CsContract!ReportLost
<1>11. ASSUME CSharp!HeartbeatReports
       PROVE  CsContract!ReportLost \/ UNCHANGED CsContract!vars
  BY <1>11 DEF CSharp!HeartbeatReports, CsContract!ReportLost
<1>12. ASSUME CSharp!HeartbeatDue \/ CSharp!HeartbeatSent \/ CSharp!HeartbeatFails
       PROVE  UNCHANGED CsContract!vars
  BY <1>12 DEF CSharp!HeartbeatDue, CSharp!HeartbeatSent, CSharp!HeartbeatFails, CSharp!Beat
<1>13. ASSUME CSharp!HeartbeatStops
       PROVE  UNCHANGED CsContract!vars
  BY <1>13 DEF CSharp!HeartbeatStops, CSharp!Abort
<1>14. ASSUME NEW r \in Releasers, CSharp!ReleaseMark(r)
       PROVE  CsContract!BeginRelease
  BY <1>14 DEF CSharp!ReleaseMark, CsContract!BeginRelease
<1>15. ASSUME NEW r \in Releasers, CSharp!ReleaseAgain(r)
       PROVE  UNCHANGED CsContract!vars
  BY <1>15 DEF CSharp!ReleaseAgain
<1>16. ASSUME NEW r \in Releasers, CSharp!ReleaseStop(r)
       PROVE  UNCHANGED CsContract!vars
  BY <1>16 DEF CSharp!ReleaseStop
<1>17. ASSUME NEW r \in Releasers, CSharp!ReleaseClose(r)
       PROVE  UNCHANGED CsContract!vars
  BY <1>17 DEF CSharp!ReleaseClose, CSharp!HalfClose
<1>18. ASSUME NEW r \in Releasers, CSharp!ReleaseReturn(r)
       PROVE  CsContract!EndRelease
  BY <1>18 DEF CSharp!ReleaseReturn, CsContract!EndRelease
<1>19. ASSUME CSharp!Env
       PROVE  CsContract!Break \/ UNCHANGED CsContract!vars
  BY <1>19 DEF CSharp!Env, CSharp!StreamEnv, CSharp!StreamEnds, CSharp!ServerDrops,
               CSharp!ServerSend, CsContract!Break
<1>20. CASE UNCHANGED CSharp!vars
  BY <1>20 DEF CSharp!vars
<1> QED
  BY <1>1, <1>2, <1>3, <1>4, <1>5, <1>6, <1>7, <1>8, <1>9, <1>10,
     <1>11, <1>12, <1>13, <1>14, <1>15, <1>16, <1>17, <1>18, <1>19, <1>20
     DEF CSharp!Next, CSharp!Acquire, CSharp!RecvLoop, CSharp!HeartbeatLoop,
         CSharp!Release, CsContract!Next
-----------------------------------------------------------------------------
(* The three together *)

LEMMA InitIInv == Init => IInv
  BY PyInit, RsInit, CsInit DEF Init, IInv

\* A step is one of the client that runs.
LEMMA Runs ==
  ASSUME IInv, [Next]_vars
  PROVE  /\ client' = client
         /\ client = "Python" => PyInv /\ [Python!Next]_(Python!vars)
         /\ client = "Rust" => RsInv /\ [Rust!Next]_(Rust!vars)
         /\ client = "C#" => CsInv /\ [CSharp!Next]_(CSharp!vars)
<1>1. client' = client
  BY DEF Next, vars
<1> USE DEF Next, vars, shared, loopVars, streamVars
<1>2. client = "Python" => [Python!Next]_(Python!vars)
  BY DEF pyVars, Python!vars, Python!callVars, Python!hbVars, Python!queueVars,
         Python!relVars, Python!lossVars, Python!streamVars
<1>3. client = "Rust" => [Rust!Next]_(Rust!vars)
  BY DEF rsVars, Rust!vars, Rust!taskVars, Rust!relVars, Rust!streamVars
<1>4. client = "C#" => [CSharp!Next]_(CSharp!vars)
  BY DEF csVars, CSharp!vars, CSharp!callVars, CSharp!recvVars, CSharp!hbVars,
         CSharp!relVars, CSharp!streamVars
<1> QED
  BY <1>1, <1>2, <1>3, <1>4 DEF IInv

LEMMA StepIInv == IInv /\ [Next]_vars => IInv'
  BY Runs, PyStep, RsStep, CsStep DEF IInv

LEMMA Invariance == Spec => []IInv
  BY InitIInv, StepIInv, PTL DEF Spec

\* Every variable of the client that runs keeps its type
\* (python/src/signet_client/restart.py:107-320, rust/src/restart.rs:236-440,
\* csharp/Lock.cs:86-314).
THEOREM TypeCorrect == Spec => []TypeOK
<1>1. IInv => TypeOK
  BY DEF IInv, PyInv, RsInv, CsInv, TypeOK
<1> QED
  BY <1>1, Invariance, PTL

LEMMA InitContract == Init => Contract!Init
<1>1. ASSUME Python!Init, client = "Python"
      PROVE  Contract!Init
  BY <1>1 DEF Contract!Init, OfClient, Python!Init, Python!phaseBar, Python!brokenBar,
     Python!reportedBar
<1>2. ASSUME Rust!Init, client = "Rust"
      PROVE  Contract!Init
  BY <1>2 DEF Contract!Init, OfClient, Rust!Init, Rust!phaseBar, Rust!brokenBar,
     Rust!reportedBar
<1>3. ASSUME CSharp!Init, client = "C#"
      PROVE  Contract!Init
  BY <1>3 DEF Contract!Init, OfClient, CSharp!Init, CSharp!phaseBar, CSharp!brokenBar,
     CSharp!reportedBar
<1> QED
  BY <1>1, <1>2, <1>3 DEF Init

LEMMA StepContract == IInv /\ [Next]_vars => [Contract!Next]_(Contract!vars)
<1> SUFFICES ASSUME IInv, [Next]_vars
             PROVE  [Contract!Next]_(Contract!vars)
  OBVIOUS
<1>1. client' = client
  BY Runs
<1> USE <1>1
    DEF OfClient, Contract!vars, Contract!Next, Contract!Start, Contract!Acquire,
        Contract!Fail, Contract!Break, Contract!ReportLost, Contract!BeginRelease,
        Contract!EndRelease
<1>2. CASE client = "Python"
  <2>1. PyInv /\ [Python!Next]_(Python!vars)
    BY <1>2, Runs
  <2>2. [PyContract!Next]_(PyContract!vars)
    BY <2>1, PyImplements
  <2> QED
    BY <1>2, <2>2
       DEF PyContract!vars, PyContract!Next, PyContract!Start, PyContract!Acquire,
           PyContract!Fail, PyContract!Break, PyContract!ReportLost,
           PyContract!BeginRelease, PyContract!EndRelease
<1>3. CASE client = "Rust"
  <2>1. RsInv /\ [Rust!Next]_(Rust!vars)
    BY <1>3, Runs
  <2>2. [RsContract!Next]_(RsContract!vars)
    BY <2>1, RsImplements
  <2> QED
    BY <1>3, <2>2
       DEF RsContract!vars, RsContract!Next, RsContract!Start, RsContract!Acquire,
           RsContract!Fail, RsContract!Break, RsContract!ReportLost,
           RsContract!BeginRelease, RsContract!EndRelease
<1>4. CASE client = "C#"
  <2>1. CsInv /\ [CSharp!Next]_(CSharp!vars)
    BY <1>4, Runs
  <2>2. [CsContract!Next]_(CsContract!vars)
    BY <2>1, CsImplements
  <2> QED
    BY <1>4, <2>2
       DEF CsContract!vars, CsContract!Next, CsContract!Start, CsContract!Acquire,
           CsContract!Fail, CsContract!Break, CsContract!ReportLost,
           CsContract!BeginRelease, CsContract!EndRelease
<1> QED
  BY <1>2, <1>3, <1>4 DEF IInv

\* With any number of threads or tasks calling release, whatever the order of network
\* events, heartbeats, cancellations and drops, the application sees the lock that
\* go/restart.go documents (python/src/signet_client/restart.py:107-320,
\* rust/src/restart.rs:236-440, csharp/Lock.cs:86-314).
THEOREM Implementation == Spec => ImplementsContract
<1>1. IInv /\ [Next]_vars => [Contract!Next]_(Contract!vars)
  BY StepContract
<1> QED
  BY InitContract, Invariance, <1>1, PTL DEF Spec, ImplementsContract, Contract!Spec

=============================================================================
