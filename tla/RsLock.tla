------------------------------- MODULE RsLock -------------------------------
(***************************************************************************)
(* The Rust restart lock (rust/src/restart.rs): acquire_lock in the        *)
(* caller's own future, run_lock_loop in a task with one biased select,    *)
(* Lock::release, and what dropping the future or the lock does, over the  *)
(* stream of LockStream.                                                   *)
(*                                                                         *)
(* Requests go through a bounded channel whose other end tonic owns.  The  *)
(* call itself resolves when the server's headers arrive, and the first    *)
(* request is sent only then.                                              *)
(***************************************************************************)
EXTENDS LockStream

CONSTANTS
  Releasers,   \* tasks that may call Lock::release
  Capacity     \* of the channel of requests

VARIABLES
  acq,           \* where acquire_lock is, and what became of it
  task,          \* where run_lock_loop is; "polled" is past the release arm
  outbox,        \* the channel of requests
  body,          \* its receiver, the body of the call, exists
  released,      \* Lock::released
  signal,        \* release_rx is ready: sent, or its sender dropped with the lock
  rel,           \* where each caller of release is
  dropped,       \* the application dropped the lock without releasing it
  leftClean,     \* history: the stream was up when the lock was given up
  lost           \* the watch channel holds an error

taskVars == <<task, outbox, body>>
relVars  == <<released, signal, rel, dropped, leftClean>>
vars == <<acq, taskVars, relVars, lost, streamVars>>

TypeOK ==
  /\ acq \in {"idle", "opening", "waiting", "held", "failed"}
  /\ task \in {"none", "select", "polled", "sending", "reporting", "closing", "exited"}
  /\ outbox \in Seq({"request", "heartbeat"}) /\ Len(outbox) <= Capacity
  /\ body \in BOOLEAN
  /\ released \in BOOLEAN
  /\ signal \in BOOLEAN
  /\ rel \in [Releasers -> {"idle", "marked", "waiting", "returned", "noop"}]
  /\ dropped \in BOOLEAN
  /\ leftClean \in BOOLEAN
  /\ lost \in BOOLEAN
  /\ StreamTypeOK

Init ==
  /\ acq = "idle"
  /\ task = "none"
  /\ outbox = << >>
  /\ body = FALSE
  /\ released = FALSE
  /\ signal = FALSE
  /\ rel = [r \in Releasers |-> "idle"]
  /\ dropped = FALSE
  /\ leftClean = FALSE
  /\ lost = FALSE
  /\ StreamInit
-----------------------------------------------------------------------------
(* acquire_lock *)

\* validate_ttl refuses, or the call is made.
Refuse ==
  /\ acq = "idle"
  /\ acq' = "failed"
  /\ UNCHANGED <<taskVars, relVars, lost, streamVars>>

Call ==
  /\ acq = "idle"
  /\ acq' = "opening"
  /\ body' = TRUE
  /\ Open
  /\ UNCHANGED <<task, outbox, relVars, lost>>

\* The headers are here; the channel has room for the request.
CallResolves ==
  /\ acq = "opening"
  /\ stream = "open"
  /\ acq' = "waiting"
  /\ outbox' = <<"request">>
  /\ UNCHANGED <<task, body, relVars, lost, streamVars>>

\* Nothing suspends between the ACQUIRED that arrives and the task that is spawned.
RecvAcquired ==
  /\ acq = "waiting"
  /\ Arrived("acquired")
  /\ Take
  /\ acq' = "held"
  /\ task' = "select"
  /\ UNCHANGED <<outbox, body, relVars, lost>>

RecvWhileQueued ==
  /\ acq = "waiting"
  /\ Arrived("queuePosition") \/ Arrived("ttlExtended")
  /\ Take
  /\ UNCHANGED <<acq, taskVars, relVars, lost>>

\* The call, the first send or a recv fails, or the stream ends.
AcquireFails ==
  /\ \/ acq = "opening" /\ Over
     \/ acq = "waiting" /\ RecvError
  /\ acq' = "failed"
  /\ UNCHANGED <<taskVars, relVars, lost, streamVars>>

\* Mutant: a task of its own waits for ACQUIRED and goes on without the caller.
DropFutureOnly ==
  /\ acq \in {"opening", "waiting"}
  /\ acq' = "failed"
  /\ UNCHANGED <<taskVars, relVars, lost, streamVars>>

\* The caller drops the future, at any of its awaits, and the stream with it.
DropFuture ==
  /\ acq \in {"opening", "waiting"}
  /\ acq' = "failed"
  /\ Abort
  /\ UNCHANGED <<taskVars, relVars, lost>>

Acquire == RecvAcquired \/ RecvWhileQueued \/ AcquireFails
-----------------------------------------------------------------------------
(* run_lock_loop: each turn polls release_rx first, then the ticker, then the stream *)

\* close_send drops the sender of the requests, which ends them.
CloseSend ==
  /\ task = "select"
  /\ signal
  /\ task' = "closing"
  /\ HalfClose
  /\ leftClean' = IF released THEN leftClean ELSE stream = "open"
  /\ UNCHANGED <<acq, outbox, body, released, signal, rel, dropped, lost>>

\* done_tx is sent before the stream, the first parameter, is dropped.
SendDone ==
  /\ task = "closing"
  /\ task' = "exited"
  /\ UNCHANGED <<acq, outbox, body, relVars, lost, streamVars>>

DropStream ==
  /\ task = "exited"
  /\ stream = "open"
  /\ Abort
  /\ UNCHANGED <<acq, taskVars, relVars, lost>>

\* The release arm is pending, whatever comes of it while the others are polled.
Poll ==
  /\ task = "select"
  /\ ~signal
  /\ task' = "polled"
  /\ UNCHANGED <<acq, outbox, body, relVars, lost, streamVars>>

AllPending ==
  /\ task = "polled"
  /\ inbox = << >> /\ ~RecvError
  /\ task' = "select"
  /\ UNCHANGED <<acq, outbox, body, relVars, lost, streamVars>>

\* report_lost loads released, and sends the error later.
LoadReleased == task' = IF released THEN "exited" ELSE "reporting"

Tick ==
  /\ task = "polled"
  /\ task' = "sending"
  /\ UNCHANGED <<acq, outbox, body, relVars, lost, streamVars>>

\* Mutant: a failed heartbeat ends the task without a report.
HeartbeatUnreported ==
  /\ task = "sending"
  /\ \/ /\ body /\ Len(outbox) < Capacity
        /\ outbox' = Append(outbox, "heartbeat")
        /\ task' = "select"
     \/ ~body /\ task' = "exited" /\ UNCHANGED outbox
  /\ UNCHANGED <<acq, body, relVars, lost, streamVars>>

\* The send waits while the channel is full: nothing else is polled then.
SendHeartbeat ==
  /\ task = "sending"
  /\ \/ /\ body /\ Len(outbox) < Capacity
        /\ outbox' = Append(outbox, "heartbeat")
        /\ task' = "select"
     \/ ~body /\ LoadReleased /\ UNCHANGED outbox
  /\ UNCHANGED <<acq, body, relVars, lost, streamVars>>

RecvAny ==
  /\ task = "polled"
  /\ inbox # << >>
  /\ Take
  /\ task' = "select"
  /\ UNCHANGED <<acq, outbox, body, relVars, lost>>

\* Mutant: report_lost does not ask whether the lock was released.
RecvFailsUnchecked ==
  /\ task = "polled"
  /\ RecvError
  /\ task' = "reporting"
  /\ UNCHANGED <<acq, outbox, body, relVars, lost, streamVars>>

RecvFails ==
  /\ task = "polled"
  /\ RecvError
  /\ LoadReleased
  /\ UNCHANGED <<acq, outbox, body, relVars, lost, streamVars>>

ReportLost ==
  /\ task = "reporting"
  /\ lost' = TRUE
  /\ task' = "exited"
  /\ UNCHANGED <<acq, outbox, body, relVars, streamVars>>

LockLoop ==
  \/ CloseSend \/ SendDone \/ DropStream \/ Poll \/ AllPending
  \/ Tick \/ SendHeartbeat \/ RecvAny \/ RecvFails \/ ReportLost
-----------------------------------------------------------------------------
(* Lock::release, and the drop of a lock that nobody is releasing *)

ReleaseMark(r) ==
  /\ acq = "held" /\ ~dropped
  /\ rel[r] = "idle"
  /\ ~released
  /\ released' = TRUE
  /\ leftClean' = (stream = "open")
  /\ rel' = [rel EXCEPT ![r] = "marked"]
  /\ UNCHANGED <<acq, taskVars, signal, dropped, lost, streamVars>>

ReleaseAgain(r) ==
  /\ acq = "held" /\ ~dropped
  /\ rel[r] = "idle"
  /\ released
  /\ rel' = [rel EXCEPT ![r] = "noop"]
  /\ UNCHANGED <<acq, taskVars, released, signal, dropped, leftClean, lost, streamVars>>

ReleaseSignal(r) ==
  /\ rel[r] = "marked"
  /\ rel' = [rel EXCEPT ![r] = "waiting"]
  /\ signal' = TRUE
  /\ UNCHANGED <<acq, taskVars, released, dropped, leftClean, lost, streamVars>>

\* done_rx resolves, though the task may not have dropped the stream yet.
ReleaseReturn(r) ==
  /\ rel[r] = "waiting"
  /\ task = "exited"
  /\ rel' = [rel EXCEPT ![r] = "returned"]
  /\ UNCHANGED <<acq, taskVars, released, signal, dropped, leftClean, lost, streamVars>>

Release(r) == ReleaseSignal(r) \/ ReleaseReturn(r)

\* The release sender goes with the lock, which makes the arm of the select ready.
DropLock ==
  /\ acq = "held" /\ ~dropped /\ ~released
  /\ dropped' = TRUE
  /\ signal' = TRUE
  /\ UNCHANGED <<acq, taskVars, released, rel, leftClean, lost, streamVars>>
-----------------------------------------------------------------------------
(* tonic, the network and the server *)

\* The call takes a request from the channel.
Transport ==
  /\ body /\ stream = "open"
  /\ outbox # << >>
  /\ outbox' = Tail(outbox)
  /\ \/ Head(outbox) = "request" /\ Enqueue
     \/ Head(outbox) = "heartbeat" /\ Beat
     \/ Head(outbox) = "heartbeat" /\ heartbeats = MaxInFlight /\ UNCHANGED streamVars
  /\ UNCHANGED <<acq, task, body, relVars, lost>>

\* A call that is over drops the channel's receiver.
BodyDropped ==
  /\ body /\ Over
  /\ body' = FALSE
  /\ outbox' = << >>
  /\ UNCHANGED <<acq, task, relVars, lost, streamVars>>

Env == StreamEnv /\ UNCHANGED <<acq, taskVars, relVars, lost>>

Next ==
  \/ Refuse \/ Call \/ CallResolves \/ Acquire \/ DropFuture
  \/ LockLoop
  \/ \E r \in Releasers : ReleaseMark(r) \/ ReleaseAgain(r) \/ Release(r)
  \/ DropLock
  \/ Transport \/ BodyDropped \/ Env

Spec == Init /\ [][Next]_vars

\* Tasks run, a stream that is ready is received from between two ticks, and tonic
\* moves the requests.  A server that has the request answers
\* it; it ends a stream that was half-closed or is over.
Fairness ==
  /\ WF_vars(Acquire)
  /\ WF_vars(srv # "none" /\ CallResolves)
  /\ WF_vars(LockLoop)
  /\ SF_vars(RecvAny \/ RecvFails)
  /\ \A r \in Releasers : WF_vars(Release(r))
  /\ WF_vars(Transport \/ BodyDropped)
  /\ WF_vars(srv = "gone" /\ StreamEnds /\ Env)
  /\ WF_vars((sendClosed \/ Over) /\ ServerDrops /\ Env)

FairSpec == Spec /\ Fairness
-----------------------------------------------------------------------------
(* What the lock is in the terms of RestartLock *)

\* The task that closes the stream of a dropped lock counts as a release.
phaseBar ==
  CASE acq = "idle" -> "idle"
    [] acq \in {"opening", "waiting"} -> "acquiring"
    [] acq = "failed" -> "failed"
    [] acq = "held" ->
         IF ~released /\ ~sendClosed THEN "held"
         ELSE IF \/ \E r \in Releasers : rel[r] = "returned"
                 \/ ~released /\ task = "exited"
              THEN "released"
         ELSE "releasing"

brokenBar ==
  acq = "held" /\ IF released \/ sendClosed THEN ~leftClean ELSE stream # "open"

reportedBar == lost

=============================================================================
