------------------------------- MODULE PyLock -------------------------------
(***************************************************************************)
(* The Python restart lock (python/src/signet_client/restart.py):          *)
(* acquire_lock, the receive and heartbeat threads, Lock.release, and the  *)
(* queue-backed request iterator of _GrpcLockStream, which a thread of     *)
(* grpc-python consumes, over the stream of LockStream.                    *)
(*                                                                         *)
(* send() puts into an unbounded queue and therefore never fails: the      *)
(* except branches around it (175-179, 274-278) are unreachable with       *)
(* _GrpcLockStream and not modelled.  No call of this module can be        *)
(* cancelled.                                                              *)
(***************************************************************************)
EXTENDS LockStream

CONSTANT Releasers   \* threads that may call Lock.release

VARIABLES
  acq,           \* where acquire_lock is, and what it returned
  acquired,      \* its queue of one place: empty, ok or err
  recv,          \* where the receive thread is
  gotAcquired,   \* its local flag
  hb,            \* where the heartbeat thread is
  heartbeatStop, \* the event lock._heartbeat_stop
  sendQueue,     \* the queue of _GrpcLockStream
  iterator,      \* _request_iterator, in a thread of grpc-python
  released,      \* lock._released
  rel,           \* where each caller of release is
  leftClean, \* history: the stream was healthy when _released was set
  lostError,     \* lock.lost_error is set
  lostEvent      \* lock.lost_event is set

callVars  == <<acq, acquired, recv, gotAcquired>>
hbVars    == <<hb, heartbeatStop>>
queueVars == <<sendQueue, iterator>>
relVars   == <<released, rel, leftClean>>
lossVars  == <<lostError, lostEvent>>
vars == <<callVars, hbVars, queueVars, relVars, lossVars, streamVars>>

TypeOK ==
  /\ acq \in {"idle", "waiting", "held", "failed"}
  /\ acquired \in {"empty", "ok", "err"}
  /\ recv \in {"none", "loop", "signal", "exited"}
  /\ gotAcquired \in BOOLEAN
  /\ hb \in {"none", "wait", "due", "exited"}
  /\ heartbeatStop \in BOOLEAN
  /\ sendQueue \in Seq({"request", "heartbeat", "close"})
  /\ iterator \in {"none", "running", "returned", "abandoned"}
  /\ released \in BOOLEAN
  /\ rel \in [Releasers -> {"idle", "marked", "waiting", "returned", "noop"}]
  /\ leftClean \in BOOLEAN
  /\ lostError \in BOOLEAN
  /\ lostEvent \in BOOLEAN
  /\ StreamTypeOK

Init ==
  /\ acq = "idle"
  /\ acquired = "empty"
  /\ recv = "none"
  /\ gotAcquired = FALSE
  /\ hb = "none"
  /\ heartbeatStop = FALSE
  /\ sendQueue = << >>
  /\ iterator = "none"
  /\ released = FALSE
  /\ rel = [r \in Releasers |-> "idle"]
  /\ leftClean = FALSE
  /\ lostError = FALSE
  /\ lostEvent = FALSE
  /\ StreamInit
-----------------------------------------------------------------------------
(* acquire_lock *)

\* ttl_seconds <= 0, or the call cannot be made.
Refuse ==
  /\ acq = "idle"
  /\ acq' = "failed"
  /\ UNCHANGED <<acquired, recv, gotAcquired, hbVars, queueVars, relVars, lossVars, streamVars>>

\* The call is made with the iterator, the request queued, the thread started.
Call ==
  /\ acq = "idle"
  /\ acq' = "waiting"
  /\ recv' = "loop"
  /\ iterator' = "running"
  /\ sendQueue' = <<"request">>
  /\ Open
  /\ UNCHANGED <<acquired, gotAcquired, hbVars, relVars, lossVars>>

\* acquired.get() returns None: start the heartbeat thread.
ReturnLock ==
  /\ acq = "waiting"
  /\ acquired = "ok"
  /\ acq' = "held"
  /\ acquired' = "empty"
  /\ hb' = "wait"
  /\ UNCHANGED <<recv, gotAcquired, heartbeatStop, queueVars, relVars, lossVars, streamVars>>

RaiseError ==
  /\ acq = "waiting"
  /\ acquired = "err"
  /\ acq' = "failed"
  /\ acquired' = "empty"
  /\ UNCHANGED <<recv, gotAcquired, hbVars, queueVars, relVars, lossVars, streamVars>>

Caller == ReturnLock \/ RaiseError
-----------------------------------------------------------------------------
(* _recv_loop *)

RecvAcquired ==
  /\ recv = "loop"
  /\ Arrived("acquired")
  /\ Take
  /\ gotAcquired' = TRUE
  /\ acquired' = IF gotAcquired THEN acquired ELSE "ok"
  /\ UNCHANGED <<acq, recv, hbVars, queueVars, relVars, lossVars>>

RecvOther ==
  /\ recv = "loop"
  /\ Arrived("queuePosition") \/ Arrived("ttlExtended")
  /\ Take
  /\ UNCHANGED <<callVars, hbVars, queueVars, relVars, lossVars>>

RecvFailsBefore ==
  /\ recv = "loop"
  /\ RecvError
  /\ ~gotAcquired
  /\ acquired' = "err"
  /\ recv' = "exited"
  /\ UNCHANGED <<acq, gotAcquired, hbVars, queueVars, relVars, lossVars, streamVars>>

\* Mutant: _report_lost does not ask whether the lock was released.
ReportUnchecked ==
  /\ recv = "loop"
  /\ RecvError
  /\ gotAcquired
  /\ lostError' = TRUE
  /\ recv' = IF lostError THEN "exited" ELSE "signal"
  /\ UNCHANGED <<acq, acquired, gotAcquired, hbVars, queueVars, relVars, lostEvent, streamVars>>

\* _report_lost, while it holds the mutex
RecvFails ==
  /\ recv = "loop"
  /\ RecvError
  /\ gotAcquired
  /\ lostError' = (lostError \/ ~released)
  /\ recv' = IF released \/ lostError THEN "exited" ELSE "signal"
  /\ UNCHANGED <<acq, acquired, gotAcquired, hbVars, queueVars, relVars, lostEvent, streamVars>>

\* lost_event.set(), without the mutex; the finally block then sets _recv_done.
SignalLost ==
  /\ recv = "signal"
  /\ lostEvent' = TRUE
  /\ recv' = "exited"
  /\ UNCHANGED <<acq, acquired, gotAcquired, hbVars, queueVars, relVars, lostError, streamVars>>

RecvLoop == RecvAcquired \/ RecvOther \/ RecvFailsBefore \/ RecvFails \/ SignalLost
-----------------------------------------------------------------------------
(* _heartbeat_loop: Event.wait can time out just before the event is set *)

\* A loss does not end the thread: only release sets the event.
HeartbeatDue ==
  /\ hb = "wait"
  /\ ~heartbeatStop
  /\ hb' = "due"
  /\ UNCHANGED <<callVars, heartbeatStop, queueVars, relVars, lossVars, streamVars>>

\* The queue is unbounded; the model's is MaxInFlight.
HeartbeatSend ==
  /\ hb = "due"
  /\ hb' = "wait"
  /\ sendQueue' = IF Len(sendQueue) + heartbeats < MaxInFlight
                  THEN Append(sendQueue, "heartbeat") ELSE sendQueue
  /\ UNCHANGED <<callVars, heartbeatStop, iterator, relVars, lossVars, streamVars>>

HeartbeatStop ==
  /\ hb = "wait"
  /\ heartbeatStop
  /\ hb' = "exited"
  /\ UNCHANGED <<callVars, heartbeatStop, queueVars, relVars, lossVars, streamVars>>

HeartbeatLoop == HeartbeatDue \/ HeartbeatSend \/ HeartbeatStop
-----------------------------------------------------------------------------
(* _request_iterator, in the thread of grpc-python that sends what it yields *)

\* Mutant: the iterator yields the CLOSE mark instead of returning.
IteratorGoesOn ==
  /\ iterator = "running"
  /\ sendQueue # << >>
  /\ sendQueue' = Tail(sendQueue)
  /\ \/ stream = "open" /\ Head(sendQueue) = "request" /\ Enqueue
     \/ stream = "open" /\ Head(sendQueue) = "heartbeat" /\ Beat
     \/ stream = "open" /\ Head(sendQueue) = "close" /\ UNCHANGED streamVars
  /\ UNCHANGED <<iterator, callVars, hbVars, relVars, lossVars>>

IteratorYields ==
  /\ iterator = "running"
  /\ sendQueue # << >>
  /\ sendQueue' = Tail(sendQueue)
  /\ \/ stream = "open" /\ Head(sendQueue) = "request" /\ Enqueue /\ UNCHANGED iterator
     \/ stream = "open" /\ Head(sendQueue) = "heartbeat" /\ Beat /\ UNCHANGED iterator
     \/ Head(sendQueue) = "close" /\ HalfClose /\ iterator' = "returned"
     \/ Over /\ Head(sendQueue) # "close" /\ iterator' = "abandoned" /\ UNCHANGED streamVars
  /\ UNCHANGED <<callVars, hbVars, relVars, lossVars>>
-----------------------------------------------------------------------------
(* Lock.release *)

ReleaseMark(r) ==
  /\ acq = "held"
  /\ rel[r] = "idle"
  /\ ~released
  /\ released' = TRUE
  /\ leftClean' = (stream = "open")
  /\ rel' = [rel EXCEPT ![r] = "marked"]
  /\ UNCHANGED <<callVars, hbVars, queueVars, lossVars, streamVars>>

ReleaseAgain(r) ==
  /\ acq = "held"
  /\ rel[r] = "idle"
  /\ released
  /\ rel' = [rel EXCEPT ![r] = "noop"]
  /\ UNCHANGED <<callVars, hbVars, queueVars, released, leftClean, lossVars, streamVars>>

\* _heartbeat_stop.set() and close_send(): neither can block.
ReleaseClose(r) ==
  /\ rel[r] = "marked"
  /\ rel' = [rel EXCEPT ![r] = "waiting"]
  /\ heartbeatStop' = TRUE
  /\ sendQueue' = Append(sendQueue, "close")
  /\ UNCHANGED <<callVars, hb, iterator, released, leftClean, lossVars, streamVars>>

\* _recv_done.wait()
ReleaseReturn(r) ==
  /\ rel[r] = "waiting"
  /\ recv = "exited"
  /\ rel' = [rel EXCEPT ![r] = "returned"]
  /\ UNCHANGED <<callVars, hbVars, queueVars, released, leftClean, lossVars, streamVars>>

Release(r) == ReleaseClose(r) \/ ReleaseReturn(r)
-----------------------------------------------------------------------------
Env == StreamEnv /\ UNCHANGED <<callVars, hbVars, queueVars, relVars, lossVars>>

Next ==
  \/ Refuse \/ Call \/ Caller
  \/ RecvLoop \/ HeartbeatLoop \/ IteratorYields
  \/ \E r \in Releasers : ReleaseMark(r) \/ ReleaseAgain(r) \/ Release(r)
  \/ Env

Spec == Init /\ [][Next]_vars

\* Threads run; the server ends a stream that was half-closed or is over.
Fairness ==
  /\ WF_vars(Caller)
  /\ WF_vars(RecvLoop)
  /\ WF_vars(HeartbeatSend \/ HeartbeatStop)
  /\ WF_vars(IteratorYields)
  /\ \A r \in Releasers : WF_vars(Release(r))
  /\ WF_vars(srv = "gone" /\ StreamEnds /\ Env)
  /\ WF_vars((sendClosed \/ Over) /\ ServerDrops /\ Env)

FairSpec == Spec /\ Fairness
-----------------------------------------------------------------------------
(* What the lock is in the terms of RestartLock *)

phaseBar ==
  CASE acq = "idle" -> "idle"
    [] acq = "waiting" -> "acquiring"
    [] acq = "failed" -> "failed"
    [] acq = "held" ->
         IF ~released THEN "held"
         ELSE IF \E r \in Releasers : rel[r] = "returned" THEN "released"
         ELSE "releasing"

brokenBar ==
  acq = "held" /\ IF released THEN ~leftClean ELSE stream # "open"

reportedBar == acq = "held" /\ lostEvent

=============================================================================
