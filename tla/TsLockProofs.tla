---------------------------- MODULE TsLockProofs ----------------------------
(***************************************************************************)
(* Safety of the TypeScript restart lock for any number of calls of        *)
(* release and every bound, and its implementation of RestartLock.         *)
(***************************************************************************)
EXTENDS TsLock, TLAPS

\* How far the call is, and what exists because of it.
CallInv ==
  /\ acq = "idle" => stream = "none" /\ recv = "none" /\ race = "pending"
  /\ acq \in {"waiting", "held"} => recv # "none"
  /\ recv = "none" => ~gotAcquired /\ acquired = "pending" /\ ~lostReported
  /\ acquired = "rejected" => recv = "exited"
  /\ recv # "none" => stream # "none"
  /\ race \in {"resolved", "rejected"} => acquired = race
  /\ acq = "held" => race = "resolved"
  /\ released => acq = "held"

\* The promise, the flag and the token tell what the server did.
GrantInv ==
  /\ acquired = "resolved" => gotAcquired
  /\ gotAcquired => acquired = "resolved"
  /\ gotAcquired => token /\ srv \in {"granted", "gone"}
  /\ \A i \in 1 .. Len(inbox) :
       inbox[i] = "acquired" => srv \in {"granted", "gone"}
  /\ stream = "none" => inbox = << >>
  /\ acq = "held" => gotAcquired

\* Only release or a failed call closes the stream, and release stops the timer.
CloseInv ==
  /\ sendClosed => acq = "failed" \/ released
  /\ released => ~timer
  /\ timer => gotAcquired
  /\ recv = "exited" => Over
  /\ \A r \in Releasers : rel[r] = "returned" => recv = "exited"
  /\ \A r \in Releasers : rel[r] # "idle" => released

\* A report on the caller's lock means that its stream is over.
LossInv ==
  /\ ~lostReported => reports = 0
  /\ acq \in {"waiting", "held"} /\ reports > 0 => Over
  /\ releasedClean => released /\ reports = 0

\* Of the calls of release only the first one waits.
Releasing == {"waiting", "returned"}
ReleaseInv ==
  \A r, s \in Releasers :
    rel[r] \in Releasing /\ rel[s] \in Releasing => r = s

IInv ==
  /\ TypeOK
  /\ CallInv
  /\ GrantInv
  /\ CloseInv
  /\ LossInv
  /\ ReleaseInv
-----------------------------------------------------------------------------
LEMMA TypeInit == Init => TypeOK
<1> SUFFICES ASSUME Init PROVE TypeOK
  OBVIOUS
<1>1. rel \in [Releasers -> {"idle", "waiting", "returned", "noop"}]
  BY DEF Init
<1>2. inbox \in Seq(Responses) /\ heartbeats \in Nat
  BY DEF Init, StreamInit
<1>3. StreamTypeOK
  BY <1>2, Zenon DEF Init, StreamInit, StreamTypeOK
<1>4. reports \in 0 .. 1
  BY DEF Init
<1> QED
  BY <1>1, <1>3, <1>4, Zenon DEF Init, TypeOK

LEMMA TypeStep == TypeOK /\ LossInv /\ [Next]_vars => TypeOK'
<1> SUFFICES ASSUME TypeOK, LossInv, [Next]_vars
             PROVE  TypeOK'
  OBVIOUS
<1> USE DEF TypeOK, LossInv, StreamTypeOK, callVars, loopVars, relVars, lossVars, streamVars
<1>1. CASE Refuse
  BY <1>1 DEF Refuse
<1>2. CASE Call
  BY <1>2 DEF Call, OpenWithRequest
<1>3. CASE RaceSettles
  BY <1>3 DEF RaceSettles
<1>4. CASE ReturnLock
  BY <1>4 DEF ReturnLock
<1>5. CASE Throw
  BY <1>5 DEF Throw
<1>6. CASE RecvAcquired
  BY <1>6 DEF RecvAcquired, Arrived, Take
<1>7. CASE RecvOther
  BY <1>7 DEF RecvOther, Arrived, Take
<1>8. CASE RecvFails
  <2>1. lostReported' \in BOOLEAN
    BY <1>8, Zenon DEF RecvFails, ReportLost
  <2>2. reports' \in 0 .. 1
    BY <1>8 DEF RecvFails, ReportLost
  <2>3. QED
    BY <1>8, <2>1, <2>2 DEF RecvFails
<1>9. CASE TickSends
  BY <1>9 DEF TickSends
<1>10. CASE TickThrows
  <2>1. lostReported' \in BOOLEAN /\ timer' \in BOOLEAN
    BY <1>10, Zenon DEF TickThrows, ReportLost
  <2>2. reports' \in 0 .. 1
    BY <1>10 DEF TickThrows, ReportLost
  <2>3. QED
    BY <1>10, <2>1, <2>2 DEF TickThrows
<1>11. ASSUME NEW r \in Releasers, ReleaseFirst(r)
      PROVE  TypeOK'
  <2>1. /\ releasedClean' \in BOOLEAN /\ released' \in BOOLEAN
        /\ timer' \in BOOLEAN /\ sendClosed' \in BOOLEAN
    BY <1>11, Zenon DEF ReleaseFirst, HalfClose
  <2>2. QED
    BY <1>11, <2>1 DEF ReleaseFirst, HalfClose
<1>12. ASSUME NEW r \in Releasers, ReleaseAgain(r)
      PROVE  TypeOK'
  BY <1>12 DEF ReleaseAgain
<1>13. ASSUME NEW r \in Releasers, ReleaseReturn(r)
      PROVE  TypeOK'
  BY <1>13 DEF ReleaseReturn
<1>14. CASE SignalAborts
  BY <1>14 DEF SignalAborts
<1>15. ASSUME StreamEnds, UNCHANGED <<callVars, loopVars, relVars, lossVars>>
      PROVE  TypeOK'
  BY <1>15 DEF StreamEnds
<1>16. ASSUME ServerDrops, UNCHANGED <<callVars, loopVars, relVars, lossVars>>
      PROVE  TypeOK'
  BY <1>16 DEF ServerDrops
<1>17. ASSUME NEW m \in Responses, ServerSend(m), UNCHANGED <<callVars, loopVars, relVars, lossVars>>
      PROVE  TypeOK'
  BY <1>17 DEF ServerSend, Responses
<1>18. CASE UNCHANGED vars
  BY <1>18 DEF vars
<1> QED
  BY <1>1, <1>2, <1>3, <1>4, <1>5, <1>6, <1>7, <1>8, <1>9, <1>10,
     <1>11, <1>12, <1>13, <1>14, <1>15, <1>16, <1>17, <1>18
     DEF Next, Caller, RecvLoop, Env, StreamEnv

LEMMA InitIInv == Init => IInv
<1> SUFFICES ASSUME Init PROVE IInv
  OBVIOUS
<1>1. CallInv /\ CloseInv /\ LossInv /\ ReleaseInv
  BY DEF Init, StreamInit, CallInv, CloseInv, LossInv, ReleaseInv, Releasing
<1>2. GrantInv
  BY DEF Init, StreamInit, GrantInv
<1> QED
  BY TypeInit, <1>1, <1>2 DEF IInv

LEMMA StepIInv == IInv /\ [Next]_vars => IInv'
<1> SUFFICES ASSUME IInv, [Next]_vars
             PROVE  IInv'
  OBVIOUS
<1>0. TypeOK /\ TypeOK'
  BY TypeStep DEF IInv
<1> USE <1>0
    DEF IInv, TypeOK, StreamTypeOK, CallInv, GrantInv, CloseInv, LossInv,
        ReleaseInv, Releasing, Over, callVars, loopVars, relVars, lossVars, streamVars
<1>1. CASE Refuse
  BY <1>1 DEF Refuse
<1>2. CASE Call
  <2>1. race' \in {"pending", "aborted"}
    BY <1>2 DEF Call
  <2>2. CallInv'
    BY <1>2, <2>1 DEF Call, OpenWithRequest
  <2>3. GrantInv'
    BY <1>2 DEF Call, OpenWithRequest
  <2>4. CloseInv' /\ LossInv'
    BY <1>2 DEF Call, OpenWithRequest
  <2>5. ReleaseInv'
    BY <1>2 DEF Call
  <2>6. QED
    BY <2>2, <2>3, <2>4, <2>5
<1>3. CASE RaceSettles
  BY <1>3 DEF RaceSettles
<1>4. CASE ReturnLock
  BY <1>4 DEF ReturnLock
<1>5. CASE Throw
  BY <1>5 DEF Throw
<1>6. CASE RecvAcquired
  <2>1. CallInv' /\ ReleaseInv'
    BY <1>6 DEF RecvAcquired, Arrived, Take
  <2>0. CloseInv' /\ LossInv'
    BY <1>6 DEF RecvAcquired, Arrived, Take
  <2>2. \A i \in 1 .. Len(inbox') :
          inbox'[i] = "acquired" => srv' \in {"granted", "gone"}
    BY <1>6 DEF RecvAcquired, Arrived, Take
  <2>3. gotAcquired' /\ token' /\ acquired' = "resolved" /\ srv' \in {"granted", "gone"}
    BY <1>6 DEF RecvAcquired, Arrived, Take
  <2>4. QED
    BY <2>0, <2>1, <2>2, <2>3
<1>7. CASE RecvOther
  BY <1>7 DEF RecvOther, Arrived, Take
<1>8. CASE RecvFails
  BY <1>8 DEF RecvFails, RecvError, ReportLost
<1>9. CASE TickSends
  BY <1>9 DEF TickSends
<1>10. CASE TickThrows
  <2>1. CallInv' /\ CloseInv' /\ LossInv'
    BY <1>10 DEF TickThrows, ReportLost
  <2>2. GrantInv' /\ ReleaseInv'
    BY <1>10 DEF TickThrows, ReportLost
  <2>3. QED
    BY <2>1, <2>2
<1>11. ASSUME NEW r \in Releasers, ReleaseFirst(r)
      PROVE  IInv'
  BY <1>11 DEF ReleaseFirst, HalfClose
<1>12. ASSUME NEW r \in Releasers, ReleaseAgain(r)
      PROVE  IInv'
  BY <1>12 DEF ReleaseAgain
<1>13. ASSUME NEW r \in Releasers, ReleaseReturn(r)
      PROVE  IInv'
  BY <1>13 DEF ReleaseReturn
<1>14. CASE SignalAborts
  BY <1>14 DEF SignalAborts
<1>15. ASSUME StreamEnds, UNCHANGED <<callVars, loopVars, relVars, lossVars>>
      PROVE  IInv'
  BY <1>15 DEF StreamEnds
<1>16. ASSUME ServerDrops, UNCHANGED <<callVars, loopVars, relVars, lossVars>>
      PROVE  IInv'
  BY <1>16 DEF ServerDrops
<1>17. ASSUME NEW m \in Responses, ServerSend(m), UNCHANGED <<callVars, loopVars, relVars, lossVars>>
      PROVE  IInv'
  BY <1>17 DEF ServerSend, Responses
<1>18. CASE UNCHANGED vars
  BY <1>18 DEF vars
<1> QED
  BY <1>1, <1>2, <1>3, <1>4, <1>5, <1>6, <1>7, <1>8, <1>9, <1>10,
     <1>11, <1>12, <1>13, <1>14, <1>15, <1>16, <1>17, <1>18
     DEF Next, Caller, RecvLoop, Env, StreamEnv

LEMMA Invariance == Spec => []IInv
  BY InitIInv, StepIInv, PTL DEF Spec
-----------------------------------------------------------------------------
\* Every variable of the lock keeps its type, and 'lost' is emitted at most once
\* (typescript/src/restart.ts:309-319, 377-382).
THEOREM TypeCorrect == Spec => []TypeOK
<1>1. IInv => TypeOK
  BY DEF IInv
<1> QED
  BY <1>1, Invariance, PTL

\* A lock released over a healthy stream is never reported lost
\* (typescript/src/restart.ts:342-382).
THEOREM CleanRelease == Spec => []CleanReleaseNeverLost
<1>1. IInv => CleanReleaseNeverLost
  BY DEF IInv, LossInv, CleanReleaseNeverLost
<1> QED
  BY <1>1, Invariance, PTL

\* acquireLock resolves only for what the server granted
\* (typescript/src/restart.ts:456-465).
THEOREM Granted == Spec => []HeldWasGranted
<1>1. IInv => HeldWasGranted
  BY DEF IInv, GrantInv, HeldWasGranted
<1> QED
  BY <1>1, Invariance, PTL

\* The releasing call resolves only after the stream ended
\* (typescript/src/restart.ts:354-363).
THEOREM ReleaseIsComplete == Spec => []ReleaseEndsStream
<1>1. IInv => ReleaseEndsStream
  BY DEF IInv, CloseInv, ReleaseEndsStream
<1> QED
  BY <1>1, Invariance, PTL

\* No heartbeat timer runs from release on (typescript/src/restart.ts:357).
THEOREM TimerEnds == Spec => []NoTimerOnceReleased
<1>1. IInv => NoTimerOnceReleased
  BY DEF IInv, CloseInv, NoTimerOnceReleased
<1> QED
  BY <1>1, Invariance, PTL
-----------------------------------------------------------------------------
LEMMA InitContract == Init => Contract!Init
  BY DEF Init, Contract!Init, phaseBar, brokenBar, reportedBar

\* One step per action: the step of the contract it implements, if any.
LEMMA StepContract ==
  IInv /\ IInv' /\ [Next]_vars => [Contract!Next]_(Contract!vars)
<1> SUFFICES ASSUME IInv, IInv', [Next]_vars
             PROVE  [Contract!Next]_(Contract!vars)
  OBVIOUS
<1> USE DEF IInv, TypeOK, StreamTypeOK, CallInv, GrantInv, CloseInv, LossInv,
        ReleaseInv, Releasing, Over, callVars, loopVars, relVars, lossVars, streamVars,
        phaseBar, brokenBar, reportedBar, Contract!vars
<1>1. ASSUME Refuse
      PROVE  Contract!Start
  BY <1>1 DEF Refuse, Contract!Start
<1>2. ASSUME Call
      PROVE  Contract!Start
  BY <1>2 DEF Call, OpenWithRequest, Contract!Start
<1>3. ASSUME RaceSettles
      PROVE  UNCHANGED Contract!vars
  BY <1>3 DEF RaceSettles
<1>4. ASSUME ReturnLock
      PROVE  Contract!Acquire
  BY <1>4 DEF ReturnLock, Contract!Acquire
<1>5. ASSUME Throw
      PROVE  Contract!Fail
  BY <1>5 DEF Throw, Contract!Fail
<1>6. ASSUME RecvAcquired
      PROVE  UNCHANGED Contract!vars
  BY <1>6 DEF RecvAcquired, Arrived, Take
<1>7. ASSUME RecvOther
      PROVE  UNCHANGED Contract!vars
  BY <1>7 DEF RecvOther, Arrived, Take
<1>8. ASSUME RecvFails
      PROVE  Contract!ReportLost \/ UNCHANGED Contract!vars
  BY <1>8 DEF RecvFails, RecvError, ReportLost, Contract!ReportLost
<1>9. ASSUME TickSends
      PROVE  UNCHANGED Contract!vars
  BY <1>9 DEF TickSends
<1>10. ASSUME TickThrows
      PROVE  UNCHANGED Contract!vars
  BY <1>10 DEF TickThrows, ReportLost
<1>11. ASSUME NEW r \in Releasers, ReleaseFirst(r)
      PROVE  Contract!BeginRelease
  BY <1>11 DEF ReleaseFirst, HalfClose, Contract!BeginRelease
<1>12. ASSUME NEW r \in Releasers, ReleaseAgain(r)
      PROVE  UNCHANGED Contract!vars
  BY <1>12 DEF ReleaseAgain
<1>13. ASSUME NEW r \in Releasers, ReleaseReturn(r)
      PROVE  Contract!EndRelease
  BY <1>13 DEF ReleaseReturn, Contract!EndRelease
<1>14. ASSUME SignalAborts
      PROVE  UNCHANGED Contract!vars
  BY <1>14 DEF SignalAborts
<1>15. ASSUME StreamEnds, UNCHANGED <<callVars, loopVars, relVars, lossVars>>
      PROVE  Contract!Break \/ UNCHANGED Contract!vars
  BY <1>15 DEF StreamEnds, Contract!Break
<1>16. ASSUME ServerDrops, UNCHANGED <<callVars, loopVars, relVars, lossVars>>
      PROVE  UNCHANGED Contract!vars
  BY <1>16 DEF ServerDrops
<1>17. ASSUME NEW m \in Responses, ServerSend(m), UNCHANGED <<callVars, loopVars, relVars, lossVars>>
      PROVE  UNCHANGED Contract!vars
  BY <1>17 DEF ServerSend, Responses
<1>18. CASE UNCHANGED vars
  BY <1>18 DEF vars
<1> QED
  BY <1>1, <1>2, <1>3, <1>4, <1>5, <1>6, <1>7, <1>8, <1>9, <1>10,
     <1>11, <1>12, <1>13, <1>14, <1>15, <1>16, <1>17, <1>18
     DEF Next, Caller, RecvLoop, Env, StreamEnv, Contract!Next

\* Whatever the order of network events, timers, aborts and calls, the
\* application sees the lock that typescript/src/restart.ts documents.
THEOREM Implementation == Spec => ImplementsContract
<1>1. IInv /\ IInv' /\ [Next]_vars => [Contract!Next]_(Contract!vars)
  BY StepContract
<1> QED
  BY InitContract, Invariance, <1>1, PTL DEF Spec, ImplementsContract, Contract!Spec

=============================================================================
