---------------------------- MODULE GoLockProofs ----------------------------
(***************************************************************************)
(* Safety of the Go restart lock for every set of releasing goroutines and *)
(* every bound, and its implementation of the contract of RestartLock.     *)
(***************************************************************************)
EXTENDS GoLock, TLAPS

\* How far the call of AcquireLock is, and what exists because of it.
CallInv ==
  /\ acq = "idle" => stream = "none"
  /\ acq \in {"sending", "waiting", "held"} => stream # "none"
  /\ pc["recvLoop"] # "none" => acq \in {"waiting", "held", "failed"}
  /\ pc["heartbeatLoop"] # "none" => acq = "held"
  /\ pc["heartbeatLoop"] \notin {"sendNil", "sendErr"}
  /\ acq \in {"idle", "sending"} => ~gotAcquired /\ pc["recvLoop"] = "none"
  /\ released => acq = "held"

\* recvLoop leaves its loop, and reports, only after the stream ended.
StreamInv ==
  /\ pc["recvLoop"] \in {"sendErr", "check", "push", "exited"}
       => Over
  /\ pc["heartbeatLoop"] \in {"check", "push"} => Over
  /\ lost + delivered > 0 => Over

\* recvLoop signals acquireLock at most once.
SignalInv ==
  /\ pc["recvLoop"] = "sendErr" => ~gotAcquired
  /\ pc["recvLoop"] \in {"sendNil", "check", "push"} => gotAcquired
  /\ pc["recvLoop"] \in {"sendNil", "sendErr"} => acquired = "empty"
  /\ pc["recvLoop"] \in {"none", "loop"} /\ ~gotAcquired => acquired = "empty"
  /\ acquired = "nil" => gotAcquired

\* What recvLoop has seen, the server did.
GrantInv ==
  /\ gotAcquired => token /\ srv \in {"granted", "gone"}
  /\ \A i \in 1 .. Len(inbox) :
       inbox[i] = "acquired" => srv \in {"granted", "gone"}
  /\ acq = "held" => gotAcquired

\* lostOnce counts the reports; a clean release forbids them.
LostInv ==
  /\ lost + delivered <= 1
  /\ ~lostOnce => lost + delivered = 0
  /\ releasedClean =>
       /\ released
       /\ lost + delivered = 0
       /\ \A g \in Goroutines : pc[g] # "push"

\* One caller releases the lock; it has done its steps in order.
Releasing == {"marked", "cancelled", "waiting", "returned"}
ReleaseInv ==
  /\ \A r, s \in Releasers :
       rel[r] \in Releasing /\ rel[s] \in Releasing => r = s
  /\ \A r \in Releasers : rel[r] # "idle" => released
  /\ \A r \in Releasers : rel[r] \in {"cancelled", "waiting", "returned"} => hbCancelled
  /\ \A r \in Releasers : rel[r] = "returned" => pc["recvLoop"] = "exited"

IInv ==
  /\ TypeOK
  /\ CallInv
  /\ StreamInv
  /\ SignalInv
  /\ GrantInv
  /\ LostInv
  /\ ReleaseInv

-----------------------------------------------------------------------------
LEMMA TypeInit == Init => TypeOK
<1> SUFFICES ASSUME Init PROVE TypeOK
  OBVIOUS
<1>1. /\ pc \in [Goroutines -> {"none", "loop", "sendNil", "sendErr",
                               "check", "push", "exited"}]
      /\ rel \in [Releasers -> {"idle", "marked", "cancelled", "waiting",
                                "returned", "noop"}]
  BY DEF Init
<1>2. inbox \in Seq(Responses) /\ heartbeats \in Nat
  BY DEF Init, StreamInit
<1>3. StreamTypeOK
  BY <1>2, Zenon DEF Init, StreamInit, StreamTypeOK
<1>4. lost \in 0 .. LostCap /\ delivered \in Nat
  BY DEF Init, LostCap
<1> QED
  BY <1>1, <1>3, <1>4, Zenon DEF Init, TypeOK

\* Types are preserved by every action on its own.
LEMMA TypeStep == TypeOK /\ [Next]_vars => TypeOK'
<1> SUFFICES ASSUME TypeOK, [Next]_vars
             PROVE  TypeOK'
  OBVIOUS
<1> USE DEF TypeOK, StreamTypeOK, LostCap, Goroutines, callVars, goVars, lockVars, lossVars,
        streamVars
<1>1. CASE Refuse
  BY <1>1 DEF Refuse
<1>2. CASE OpenStream
  BY <1>2 DEF OpenStream, Open
<1>3. CASE SendRequest
  BY <1>3 DEF SendRequest, Enqueue, Goto
<1>4. CASE SendRequestFails
  BY <1>4 DEF SendRequestFails, Abort
<1>5. CASE ReturnLock
  BY <1>5 DEF ReturnLock, Goto
<1>6. CASE ReturnError
  BY <1>6 DEF ReturnError
<1>7. CASE ReturnCtxErr
  BY <1>7 DEF ReturnCtxErr
<1>8. CASE RecvAcquired
  BY <1>8 DEF RecvAcquired, Arrived, Take, Goto
<1>9. CASE RecvOther
  BY <1>9 DEF RecvOther, Arrived, Take
<1>10. CASE RecvFails
  BY <1>10 DEF RecvFails, RecvError, Goto
<1>11. CASE SignalAcquired
  BY <1>11 DEF SignalAcquired, ChannelReady, Goto
<1>12. ASSUME NEW g \in Goroutines, ReportCheck(g)
      PROVE  TypeOK'
  BY <1>12 DEF ReportCheck, Goto
<1>13. ASSUME NEW g \in Goroutines, ReportPush(g)
      PROVE  TypeOK'
  BY <1>13 DEF ReportPush, Goto
<1>14. CASE HeartbeatSend
  BY <1>14 DEF HeartbeatSend, Beat, CanBeat
<1>15. CASE HeartbeatFails
  BY <1>15 DEF HeartbeatFails, CanBeat, Abort, Goto
<1>16. CASE HeartbeatStop
  BY <1>16 DEF HeartbeatStop, Goto
<1>17. ASSUME NEW r \in Releasers, ReleaseMark(r)
      PROVE  TypeOK'
  <2>1. rel' \in [Releasers -> {"idle", "marked", "cancelled", "waiting",
                                "returned", "noop"}]
    BY <1>17 DEF ReleaseMark, Advance
  <2>2. releasedClean' \in BOOLEAN /\ released' \in BOOLEAN
    BY <1>17, Zenon DEF ReleaseMark
  <2>3. QED
    BY <1>17, <2>1, <2>2 DEF ReleaseMark
<1>18. ASSUME NEW r \in Releasers, ReleaseCancelHB(r)
      PROVE  TypeOK'
  BY <1>18 DEF ReleaseCancelHB, Advance
<1>19. ASSUME NEW r \in Releasers, ReleaseCloseSend(r)
      PROVE  TypeOK'
  BY <1>19 DEF ReleaseCloseSend, Advance, HalfClose
<1>20. ASSUME NEW r \in Releasers, ReleaseReturn(r)
      PROVE  TypeOK'
  BY <1>20 DEF ReleaseReturn, Advance
<1>21. CASE CancelCtx
  BY <1>21 DEF CancelCtx
<1>22. CASE CtxAbortsStream
  BY <1>22 DEF CtxAbortsStream, Abort
<1>23. CASE ReadLost
  BY <1>23 DEF ReadLost
<1>24. ASSUME StreamEnds,
             UNCHANGED <<callVars, goVars, lockVars, lossVars>>
      PROVE  TypeOK'
  BY <1>24 DEF StreamEnds
<1>25. ASSUME ServerDrops,
             UNCHANGED <<callVars, goVars, lockVars, lossVars>>
      PROVE  TypeOK'
  BY <1>25 DEF ServerDrops
<1>26. ASSUME NEW m \in Responses, ServerSend(m),
             UNCHANGED <<callVars, goVars, lockVars, lossVars>>
      PROVE  TypeOK'
  BY <1>26 DEF ServerSend, Responses
<1>27. CASE UNCHANGED vars
  BY <1>27 DEF vars
<1> QED
  BY <1>1, <1>2, <1>3, <1>4, <1>5, <1>6, <1>7, <1>8, <1>9, <1>10, <1>11,
     <1>12, <1>13, <1>14, <1>15, <1>16, <1>17, <1>18, <1>19, <1>20, <1>21,
     <1>22, <1>23, <1>24, <1>25, <1>26, <1>27
     DEF Next, Caller, RecvLoop, HeartbeatLoop, Release, Env, StreamEnv

LEMMA InitIInv == Init => IInv
<1> SUFFICES ASSUME Init PROVE IInv
  OBVIOUS
<1>1. CallInv /\ StreamInv /\ SignalInv /\ LostInv /\ ReleaseInv
  BY DEF Init, StreamInit, CallInv, StreamInv, SignalInv, LostInv, ReleaseInv,
         Releasing, Goroutines
<1>2. GrantInv
  BY DEF Init, StreamInit, GrantInv
<1> QED
  BY TypeInit, <1>1, <1>2 DEF IInv

LEMMA StepIInv == IInv /\ [Next]_vars => IInv'
<1> SUFFICES ASSUME IInv, [Next]_vars
             PROVE  IInv'
  OBVIOUS
<1>0. TypeOK /\ TypeOK'
  BY TypeStep DEF IInv
<1> USE <1>0
    DEF IInv, TypeOK, StreamTypeOK, CallInv, StreamInv, SignalInv, GrantInv,
        LostInv, ReleaseInv, Releasing, Goroutines, Over, callVars, goVars,
        lockVars, lossVars, streamVars
<1>1. CASE Refuse
  BY <1>1 DEF Refuse
<1>2. CASE OpenStream
  BY <1>2 DEF OpenStream, Open
<1>3. CASE SendRequest
  BY <1>3 DEF SendRequest, Enqueue, Goto
<1>4. CASE SendRequestFails
  BY <1>4 DEF SendRequestFails, Abort
<1>5. CASE ReturnLock
  BY <1>5 DEF ReturnLock, Goto
<1>6. CASE ReturnError
  BY <1>6 DEF ReturnError
<1>7. CASE ReturnCtxErr
  BY <1>7 DEF ReturnCtxErr
<1>8. CASE RecvAcquired
  BY <1>8 DEF RecvAcquired, Arrived, Take, Goto
<1>9. CASE RecvOther
  BY <1>9 DEF RecvOther, Arrived, Take
<1>10. CASE RecvFails
  BY <1>10 DEF RecvFails, RecvError, Goto
<1>11. CASE SignalAcquired
  BY <1>11 DEF SignalAcquired, ChannelReady, Goto
<1>12. ASSUME NEW g \in Goroutines, ReportCheck(g)
      PROVE  IInv'
  BY <1>12 DEF ReportCheck, Goto
<1>13. ASSUME NEW g \in Goroutines, ReportPush(g)
      PROVE  IInv'
  BY <1>13 DEF ReportPush, Goto
<1>14. CASE HeartbeatSend
  BY <1>14 DEF HeartbeatSend, Beat, CanBeat
<1>15. CASE HeartbeatFails
  BY <1>15 DEF HeartbeatFails, CanBeat, Abort, Goto
<1>16. CASE HeartbeatStop
  BY <1>16 DEF HeartbeatStop, Goto
<1>17. ASSUME NEW r \in Releasers, ReleaseMark(r)
      PROVE  IInv'
  \* A healthy stream has no reporter on its way and nothing reported.
  <2>1. LostInv'
    BY <1>17 DEF ReleaseMark, Advance
  \* The first caller is the only one releasing: before it, none was.
  <2>2. ReleaseInv'
    <3>1. released => \A s \in Releasers : rel'[s] \in Releasing => rel[s] \in Releasing
      BY <1>17 DEF ReleaseMark, Advance
    <3>2. ~released => \A s \in Releasers : rel'[s] # "idle" => s = r
      BY <1>17 DEF ReleaseMark, Advance
    <3>3. \A s \in Releasers : rel'[s] \in {"cancelled", "waiting", "returned"}
             => rel[s] = rel'[s]
      BY <1>17 DEF ReleaseMark, Advance
    <3>4. QED
      BY <1>17, <3>1, <3>2, <3>3 DEF ReleaseMark
  <2>3. (CallInv /\ StreamInv /\ SignalInv /\ GrantInv)'
    BY <1>17 DEF ReleaseMark
  <2>4. QED
    BY <2>1, <2>2, <2>3
<1>18. ASSUME NEW r \in Releasers, ReleaseCancelHB(r)
      PROVE  IInv'
  BY <1>18 DEF ReleaseCancelHB, Advance
<1>19. ASSUME NEW r \in Releasers, ReleaseCloseSend(r)
      PROVE  IInv'
  BY <1>19 DEF ReleaseCloseSend, Advance, HalfClose
<1>20. ASSUME NEW r \in Releasers, ReleaseReturn(r)
      PROVE  IInv'
  BY <1>20 DEF ReleaseReturn, Advance
<1>21. CASE CancelCtx
  BY <1>21 DEF CancelCtx
<1>22. CASE CtxAbortsStream
  BY <1>22 DEF CtxAbortsStream, Abort
<1>23. CASE ReadLost
  BY <1>23 DEF ReadLost
<1>24. ASSUME StreamEnds,
             UNCHANGED <<callVars, goVars, lockVars, lossVars>>
      PROVE  IInv'
  BY <1>24 DEF StreamEnds
<1>25. ASSUME ServerDrops,
             UNCHANGED <<callVars, goVars, lockVars, lossVars>>
      PROVE  IInv'
  BY <1>25 DEF ServerDrops
<1>26. ASSUME NEW m \in Responses, ServerSend(m),
             UNCHANGED <<callVars, goVars, lockVars, lossVars>>
      PROVE  IInv'
  BY <1>26 DEF ServerSend, Responses
<1>27. CASE UNCHANGED vars
  BY <1>27 DEF vars
<1> QED
  BY <1>1, <1>2, <1>3, <1>4, <1>5, <1>6, <1>7, <1>8, <1>9, <1>10, <1>11,
     <1>12, <1>13, <1>14, <1>15, <1>16, <1>17, <1>18, <1>19, <1>20, <1>21,
     <1>22, <1>23, <1>24, <1>25, <1>26, <1>27
     DEF Next, Caller, RecvLoop, HeartbeatLoop, Release, Env, StreamEnv

LEMMA Invariance == Spec => []IInv
  BY InitIInv, StepIInv, PTL DEF Spec
-----------------------------------------------------------------------------
\* Every variable of the lock keeps its type (go/restart.go:116-128).
THEOREM TypeCorrect == Spec => []TypeOK
<1>1. IInv => TypeOK
  BY DEF IInv
<1> QED
  BY <1>1, Invariance, PTL

\* A lock released while its stream was healthy is never reported lost
\* (go/restart.go:155-183).
THEOREM CleanRelease == Spec => []CleanReleaseNeverLost
<1>1. IInv => CleanReleaseNeverLost
  BY DEF IInv, LostInv, CleanReleaseNeverLost
<1> QED
  BY <1>1, Invariance, PTL

\* Two reporters and a draining application still see one report
\* (go/restart.go:145, 176-182).
THEOREM LostOnce == Spec => []LostAtMostOnce
<1>1. IInv => LostAtMostOnce
  BY DEF IInv, LostInv, LostAtMostOnce
<1> QED
  BY <1>1, Invariance, PTL

\* recvLoop is never stuck on a channel nobody receives from
\* (go/restart.go:223, 250-281).
THEOREM SignalFree == Spec => []SignalNeverBlocks
<1>1. IInv => SignalNeverBlocks
  BY DEF IInv, SignalInv, SignalNeverBlocks, ChannelReady
<1> QED
  BY <1>1, Invariance, PTL

\* AcquireLock returns only what the server granted (go/restart.go:226-236).
THEOREM Granted == Spec => []HeldWasGranted
<1>1. IInv => HeldWasGranted
  BY DEF IInv, GrantInv, HeldWasGranted
<1> QED
  BY <1>1, Invariance, PTL

\* Release returns only after the stream ended (go/restart.go:155-168).
THEOREM ReleaseIsComplete == Spec => []ReleaseEndsStream
<1>1. IInv => ReleaseEndsStream
  BY DEF IInv, StreamInv, ReleaseInv, Over, ReleaseEndsStream
<1> QED
  BY <1>1, Invariance, PTL
-----------------------------------------------------------------------------
LEMMA InitContract == Init => Contract!Init
  BY DEF Init, Contract!Init, phaseBar, brokenBar, reportedBar

\* One step per action: the step of the contract it implements, if any.
LEMMA StepContract ==
  IInv /\ IInv' /\ [Next]_vars => [Contract!Next]_(Contract!vars)
<1> SUFFICES ASSUME IInv, IInv', [Next]_vars
             PROVE  [Contract!Next]_(Contract!vars)
  OBVIOUS
<1> USE DEF IInv, TypeOK, StreamTypeOK, CallInv, StreamInv, SignalInv, GrantInv,
        LostInv, ReleaseInv, Releasing, Goroutines, LostCap, Over, callVars,
        goVars, lockVars, lossVars, streamVars, phaseBar, brokenBar,
        reportedBar, Contract!vars
<1>1. ASSUME Refuse
      PROVE  Contract!Start
  BY <1>1 DEF Refuse, Contract!Start
<1>2. ASSUME OpenStream
      PROVE  Contract!Start
  BY <1>2 DEF OpenStream, Open, Contract!Start
<1>3. ASSUME SendRequest
      PROVE  UNCHANGED Contract!vars
  BY <1>3 DEF SendRequest, Enqueue, Goto
<1>4. ASSUME SendRequestFails
      PROVE  Contract!Fail
  BY <1>4 DEF SendRequestFails, Abort, Contract!Fail
<1>5. ASSUME ReturnLock
      PROVE  Contract!Acquire
  <2>1. phaseBar = "acquiring" /\ phaseBar' = "held"
    BY <1>5 DEF ReturnLock
  \* What was reported before the caller saw the lock, broke before.
  <2>2. reportedBar' => brokenBar'
    BY <1>5 DEF ReturnLock
  <2>3. brokenBar' \in BOOLEAN /\ reportedBar' \in BOOLEAN
    BY Zenon DEF brokenBar, reportedBar
  <2>4. QED
    BY <2>1, <2>2, <2>3 DEF Contract!Acquire
<1>6. ASSUME ReturnError
      PROVE  Contract!Fail
  BY <1>6 DEF ReturnError, Contract!Fail
<1>7. ASSUME ReturnCtxErr
      PROVE  Contract!Fail
  BY <1>7 DEF ReturnCtxErr, Contract!Fail
<1>8. ASSUME RecvAcquired
      PROVE  UNCHANGED Contract!vars
  BY <1>8 DEF RecvAcquired, Arrived, Take, Goto
<1>9. ASSUME RecvOther
      PROVE  UNCHANGED Contract!vars
  BY <1>9 DEF RecvOther, Arrived, Take
<1>10. ASSUME RecvFails
      PROVE  UNCHANGED Contract!vars
  BY <1>10 DEF RecvFails, RecvError, Goto
<1>11. ASSUME SignalAcquired
      PROVE  UNCHANGED Contract!vars
  BY <1>11 DEF SignalAcquired, ChannelReady, Goto
<1>12. ASSUME NEW g \in Goroutines, ReportCheck(g)
      PROVE  UNCHANGED Contract!vars
  BY <1>12 DEF ReportCheck, Goto
<1>13. ASSUME NEW g \in Goroutines, ReportPush(g)
      PROVE  Contract!ReportLost \/ UNCHANGED Contract!vars
  BY <1>13 DEF ReportPush, Goto, Contract!ReportLost
<1>14. ASSUME HeartbeatSend
      PROVE  UNCHANGED Contract!vars
  BY <1>14 DEF HeartbeatSend, Beat, CanBeat
<1>15. ASSUME HeartbeatFails
      PROVE  Contract!Break \/ UNCHANGED Contract!vars
  BY <1>15 DEF HeartbeatFails, CanBeat, Abort, Goto, Contract!Break
<1>16. ASSUME HeartbeatStop
      PROVE  UNCHANGED Contract!vars
  BY <1>16 DEF HeartbeatStop, Goto
<1>17. ASSUME NEW r \in Releasers, ReleaseMark(r)
      PROVE  Contract!BeginRelease \/ UNCHANGED Contract!vars
  BY <1>17 DEF ReleaseMark, Advance, Contract!BeginRelease
<1>18. ASSUME NEW r \in Releasers, ReleaseCancelHB(r)
      PROVE  UNCHANGED Contract!vars
  BY <1>18 DEF ReleaseCancelHB, Advance
<1>19. ASSUME NEW r \in Releasers, ReleaseCloseSend(r)
      PROVE  UNCHANGED Contract!vars
  BY <1>19 DEF ReleaseCloseSend, Advance, HalfClose
<1>20. ASSUME NEW r \in Releasers, ReleaseReturn(r)
      PROVE  Contract!EndRelease
  BY <1>20 DEF ReleaseReturn, Advance, Contract!EndRelease
<1>21. ASSUME CancelCtx
      PROVE  UNCHANGED Contract!vars
  BY <1>21 DEF CancelCtx
<1>22. ASSUME CtxAbortsStream
      PROVE  Contract!Break \/ UNCHANGED Contract!vars
  BY <1>22 DEF CtxAbortsStream, Abort, Contract!Break
<1>23. ASSUME ReadLost
      PROVE  UNCHANGED Contract!vars
  BY <1>23 DEF ReadLost
<1>24. ASSUME StreamEnds,
             UNCHANGED <<callVars, goVars, lockVars, lossVars>>
      PROVE  Contract!Break \/ UNCHANGED Contract!vars
  BY <1>24 DEF StreamEnds, Contract!Break
<1>25. ASSUME ServerDrops,
             UNCHANGED <<callVars, goVars, lockVars, lossVars>>
      PROVE  UNCHANGED Contract!vars
  BY <1>25 DEF ServerDrops
<1>26. ASSUME NEW m \in Responses, ServerSend(m),
             UNCHANGED <<callVars, goVars, lockVars, lossVars>>
      PROVE  UNCHANGED Contract!vars
  BY <1>26 DEF ServerSend, Responses
<1>27. CASE UNCHANGED vars
  BY <1>27 DEF vars
<1> QED
  BY <1>1, <1>2, <1>3, <1>4, <1>5, <1>6, <1>7, <1>8, <1>9, <1>10, <1>11,
     <1>12, <1>13, <1>14, <1>15, <1>16, <1>17, <1>18, <1>19, <1>20, <1>21,
     <1>22, <1>23, <1>24, <1>25, <1>26, <1>27
     DEF Next, Caller, RecvLoop, HeartbeatLoop, Release, Env, StreamEnv, Contract!Next

\* Whatever the interleaving of the goroutines, the callers of Release and the
\* stream, the application sees the lock that go/restart.go documents.
THEOREM Implementation == Spec => ImplementsContract
  BY InitContract, StepContract, Invariance, PTL
     DEF Spec, ImplementsContract, Contract!Spec

=============================================================================
