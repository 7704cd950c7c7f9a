------------------------------- MODULE CsLock -------------------------------
(***************************************************************************)
(* The C# restart lock (csharp/Lock.cs, csharp/Restart.cs): AcquireAsync,  *)
(* the receive and heartbeat tasks of the thread pool, ReleaseAsync, and   *)
(* the caller's cancellation token, over the stream of LockStream.         *)
(*                                                                         *)
(* The token is given to the call, whose gRPC runtime aborts the stream    *)
(* when it is cancelled, also after the acquisition, and registered with   *)
(* the TaskCompletionSource that AcquireAsync awaits.                      *)
(***************************************************************************)
EXTENDS LockStream

CONSTANT Releasers   \* tasks that may call ReleaseAsync

VARIABLES
  acq,          \* where AcquireAsync is, and what became of it
  acquired,     \* its TaskCompletionSource: empty, ok, err or canceled
  cancelled,    \* the caller's token
  recv,         \* where RecvLoopAsync is
  gotAcquired,  \* its local flag
  hb,           \* where HeartbeatLoopAsync is
  heartbeatCts, \* _heartbeatCts is cancelled
  released,     \* _released
  rel,          \* where each caller of ReleaseAsync is
  leftClean,    \* history: the stream was up when _released was set
  lost          \* _lostTcs has its result

callVars == <<acq, acquired>>
recvVars == <<recv, gotAcquired>>
hbVars   == <<hb, heartbeatCts>>
relVars  == <<released, rel, leftClean>>
vars == <<callVars, cancelled, recvVars, hbVars, relVars, lost, streamVars>>

TypeOK ==
  /\ acq \in {"idle", "sending", "waiting", "held", "failed"}
  /\ acquired \in {"empty", "ok", "err", "canceled"}
  /\ cancelled \in BOOLEAN
  /\ recv \in {"none", "loop", "reporting", "exited"}
  /\ gotAcquired \in BOOLEAN
  /\ hb \in {"none", "wait", "sending", "reporting", "exited"}
  /\ heartbeatCts \in BOOLEAN
  /\ released \in BOOLEAN
  /\ rel \in [Releasers -> {"idle", "marked", "stopping", "waiting", "returned", "noop"}]
  /\ leftClean \in BOOLEAN
  /\ lost \in BOOLEAN
  /\ StreamTypeOK

Init ==
  /\ acq = "idle"
  /\ acquired = "empty"
  /\ cancelled = FALSE
  /\ recv = "none"
  /\ gotAcquired = FALSE
  /\ hb = "none"
  /\ heartbeatCts = FALSE
  /\ released = FALSE
  /\ rel = [r \in Releasers |-> "idle"]
  /\ leftClean = FALSE
  /\ lost = FALSE
  /\ StreamInit

\* TaskCompletionSource.TrySetResult: the first result stays.
TrySetAcquired(result) == acquired' = IF acquired = "empty" THEN result ELSE acquired
-----------------------------------------------------------------------------
(* AcquireLockAsync and Lock.AcquireAsync *)

\* ttl <= 0, or the call cannot be made.
Refuse ==
  /\ acq = "idle"
  /\ acq' = "failed"
  /\ UNCHANGED <<acquired, cancelled, recvVars, hbVars, relVars, lost, streamVars>>

Call ==
  /\ acq = "idle"
  /\ acq' = "sending"
  /\ Open
  /\ UNCHANGED <<acquired, cancelled, recvVars, hbVars, relVars, lost>>

Sent ==
  /\ acq = "sending"
  /\ Enqueue
  /\ acq' = "waiting"
  /\ recv' = "loop"
  /\ UNCHANGED <<acquired, cancelled, gotAcquired, hbVars, relVars, lost>>

SendFails ==
  /\ acq = "sending"
  /\ Over
  /\ acq' = "failed"
  /\ UNCHANGED <<acquired, cancelled, recvVars, hbVars, relVars, lost, streamVars>>

\* acquired.Task is awaited; the heartbeats start if it has no exception.
ReturnLock ==
  /\ acq = "waiting"
  /\ acquired = "ok"
  /\ acq' = "held"
  /\ hb' = "wait"
  /\ UNCHANGED <<acquired, cancelled, recvVars, heartbeatCts, relVars, lost, streamVars>>

ThrowFailure ==
  /\ acq = "waiting"
  /\ acquired \in {"err", "canceled"}
  /\ acq' = "failed"
  /\ UNCHANGED <<acquired, cancelled, recvVars, hbVars, relVars, lost, streamVars>>

Acquire == Sent \/ SendFails \/ ReturnLock \/ ThrowFailure
-----------------------------------------------------------------------------
(* The token: its two registrations run some time after it is cancelled *)

CancelToken ==
  /\ ~cancelled
  /\ cancelled' = TRUE
  /\ UNCHANGED <<callVars, recvVars, hbVars, relVars, lost, streamVars>>

\* The registration lives as long as AcquireAsync awaits acquired.Task.
TokenCallback ==
  /\ cancelled
  /\ acq = "waiting"
  /\ acquired = "empty"
  /\ TrySetAcquired("canceled")
  /\ UNCHANGED <<acq, cancelled, recvVars, hbVars, relVars, lost, streamVars>>

\* Mutant: the call is made without the token.
CallIgnoresToken ==
  /\ cancelled
  /\ UNCHANGED vars

CallCancelled ==
  /\ cancelled
  /\ stream = "open"
  /\ Abort
  /\ UNCHANGED <<callVars, cancelled, recvVars, hbVars, relVars, lost>>
-----------------------------------------------------------------------------
(* RecvLoopAsync *)

RecvAcquired ==
  /\ recv = "loop"
  /\ Arrived("acquired")
  /\ Take
  /\ gotAcquired' = TRUE
  /\ IF gotAcquired THEN UNCHANGED acquired ELSE TrySetAcquired("ok")
  /\ UNCHANGED <<acq, cancelled, recv, hbVars, relVars, lost>>

RecvOther ==
  /\ recv = "loop"
  /\ Arrived("queuePosition") \/ Arrived("ttlExtended")
  /\ Take
  /\ UNCHANGED <<callVars, cancelled, recvVars, hbVars, relVars, lost>>

RecvFailsBefore ==
  /\ recv = "loop"
  /\ RecvError
  /\ ~gotAcquired
  /\ TrySetAcquired("err")
  /\ recv' = "exited"
  /\ UNCHANGED <<acq, cancelled, gotAcquired, hbVars, relVars, lost, streamVars>>

\* ReportLost reads _released inside the gate, and completes Lost outside of it.
AfterLoss == IF released THEN "exited" ELSE "reporting"

\* Mutant: Lost is completed whoever closed the stream.
RecvFailsUnchecked ==
  /\ recv = "loop"
  /\ RecvError
  /\ gotAcquired
  /\ recv' = "reporting"
  /\ UNCHANGED <<callVars, cancelled, gotAcquired, hbVars, relVars, lost, streamVars>>

RecvFails ==
  /\ recv = "loop"
  /\ RecvError
  /\ gotAcquired
  /\ recv' = AfterLoss
  /\ UNCHANGED <<callVars, cancelled, gotAcquired, hbVars, relVars, lost, streamVars>>

RecvReports ==
  /\ recv = "reporting"
  /\ lost' = TRUE
  /\ recv' = "exited"
  /\ UNCHANGED <<callVars, cancelled, gotAcquired, hbVars, relVars, streamVars>>

RecvLoop == RecvAcquired \/ RecvOther \/ RecvFailsBefore \/ RecvFails \/ RecvReports
-----------------------------------------------------------------------------
(* HeartbeatLoopAsync *)

\* The cancellation may come right behind the tick.
HeartbeatDue ==
  /\ hb = "wait"
  /\ ~heartbeatCts
  /\ hb' = "sending"
  /\ UNCHANGED <<callVars, cancelled, recvVars, heartbeatCts, relVars, lost, streamVars>>

HeartbeatSent ==
  /\ hb = "sending"
  /\ stream = "open"
  /\ \/ Beat
     \/ heartbeats = MaxInFlight /\ UNCHANGED streamVars
  /\ hb' = "wait"
  /\ UNCHANGED <<callVars, cancelled, recvVars, heartbeatCts, relVars, lost>>

HeartbeatFails ==
  /\ hb = "sending"
  /\ Over
  /\ hb' = AfterLoss
  /\ UNCHANGED <<callVars, cancelled, recvVars, heartbeatCts, relVars, lost, streamVars>>

HeartbeatReports ==
  /\ hb = "reporting"
  /\ lost' = TRUE
  /\ hb' = "exited"
  /\ UNCHANGED <<callVars, cancelled, recvVars, heartbeatCts, relVars, streamVars>>

\* The runtime may abort the call whose write is cancelled.
HeartbeatStops ==
  /\ hb \in {"wait", "sending"}
  /\ heartbeatCts
  /\ hb' = "exited"
  /\ \/ UNCHANGED streamVars
     \/ hb = "sending" /\ Abort
  /\ UNCHANGED <<callVars, cancelled, recvVars, heartbeatCts, relVars, lost>>

HeartbeatLoop == HeartbeatSent \/ HeartbeatFails \/ HeartbeatReports \/ HeartbeatStops
-----------------------------------------------------------------------------
(* ReleaseAsync, also as DisposeAsync *)

ReleaseMark(r) ==
  /\ acq = "held"
  /\ rel[r] = "idle"
  /\ ~released
  /\ released' = TRUE
  /\ leftClean' = (stream = "open")
  /\ rel' = [rel EXCEPT ![r] = "marked"]
  /\ UNCHANGED <<callVars, cancelled, recvVars, hbVars, lost, streamVars>>

ReleaseAgain(r) ==
  /\ acq = "held"
  /\ rel[r] = "idle"
  /\ released
  /\ rel' = [rel EXCEPT ![r] = "noop"]
  /\ UNCHANGED <<callVars, cancelled, recvVars, hbVars, released, leftClean, lost, streamVars>>

\* Mutant: the heartbeat task is awaited without being cancelled.
ReleaseAwaitsHeartbeats(r) ==
  /\ rel[r] = "marked"
  /\ rel' = [rel EXCEPT ![r] = "stopping"]
  /\ UNCHANGED <<callVars, cancelled, recvVars, hbVars, released, leftClean, lost, streamVars>>

ReleaseStop(r) ==
  /\ rel[r] = "marked"
  /\ rel' = [rel EXCEPT ![r] = "stopping"]
  /\ heartbeatCts' = TRUE
  /\ UNCHANGED <<callVars, cancelled, recvVars, hb, released, leftClean, lost, streamVars>>

ReleaseClose(r) ==
  /\ rel[r] = "stopping"
  /\ hb = "exited"
  /\ rel' = [rel EXCEPT ![r] = "waiting"]
  /\ HalfClose
  /\ UNCHANGED <<callVars, cancelled, recvVars, hbVars, released, leftClean, lost>>

ReleaseReturn(r) ==
  /\ rel[r] = "waiting"
  /\ recv = "exited"
  /\ rel' = [rel EXCEPT ![r] = "returned"]
  /\ UNCHANGED <<callVars, cancelled, recvVars, hbVars, released, leftClean, lost, streamVars>>

Release(r) == ReleaseStop(r) \/ ReleaseClose(r) \/ ReleaseReturn(r)
-----------------------------------------------------------------------------
Env == StreamEnv /\ UNCHANGED <<callVars, cancelled, recvVars, hbVars, relVars, lost>>

Next ==
  \/ Refuse \/ Call \/ Acquire
  \/ CancelToken \/ TokenCallback \/ CallCancelled
  \/ RecvLoop
  \/ HeartbeatDue \/ HeartbeatLoop
  \/ \E r \in Releasers : ReleaseMark(r) \/ ReleaseAgain(r) \/ Release(r)
  \/ Env

Spec == Init /\ [][Next]_vars

\* Tasks and callbacks run; the server ends a stream that was half-closed or is over.
Fairness ==
  /\ WF_vars(Acquire)
  /\ WF_vars(TokenCallback)
  /\ WF_vars(CallCancelled)
  /\ WF_vars(RecvLoop)
  /\ WF_vars(HeartbeatLoop)
  /\ \A r \in Releasers : WF_vars(Release(r))
  /\ WF_vars(srv = "gone" /\ StreamEnds /\ Env)
  /\ WF_vars((sendClosed \/ Over) /\ ServerDrops /\ Env)

FairSpec == Spec /\ Fairness
-----------------------------------------------------------------------------
(* What the lock is in the terms of RestartLock *)

phaseBar ==
  CASE acq = "idle" -> "idle"
    [] acq \in {"sending", "waiting"} -> "acquiring"
    [] acq = "failed" -> "failed"
    [] acq = "held" ->
         IF ~released THEN "held"
         ELSE IF \E r \in Releasers : rel[r] = "returned" THEN "released"
         ELSE "releasing"

brokenBar ==
  acq = "held" /\ IF released THEN ~leftClean ELSE stream # "open"

reportedBar == acq = "held" /\ lost

=============================================================================
