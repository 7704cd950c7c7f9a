------------------------------- MODULE GoLock -------------------------------
(***************************************************************************)
(* The Go restart lock (go/restart.go): AcquireLock, the recvLoop and      *)
(* heartbeatLoop goroutines it starts, and Lock.Release called from any    *)
(* number of goroutines, over the stream of LockStream.                    *)
(*                                                                         *)
(* Every step between two synchronisation points is an action of its own:  *)
(* the read of l.released in reportLost and the push on l.lost that follows*)
(* it, and the four steps of Release.  Durations are abstracted: a tick of *)
(* the heartbeat ticker may come at any moment.  The payload of the        *)
(* responses (position, expiresAt) is abstracted to the kind of response.  *)
(***************************************************************************)
EXTENDS LockStream

CONSTANT Releasers   \* goroutines of the application that may call Lock.Release

VARIABLES
  acq,           \* where AcquireLock is, and what it returned
  acquired,      \* what the channel from recvLoop to acquireLock holds
  ctxDone,       \* the caller's ctx is done
  pc,            \* where recvLoop and heartbeatLoop are
  gotAcquired,   \* recvLoop's local: the first ACQUIRED was seen
  hbCancelled,   \* cancelHB() was called
  token,         \* l.token has been set
  released,      \* l.released
  rel,           \* where each caller of Release is
  releasedClean, \* history: the stream was healthy when Release was called
  lost,          \* number of errors in the channel l.lost
  lostOnce,      \* l.lostOnce has run
  delivered      \* number of errors the application received from Lost()

callVars == <<acq, acquired, ctxDone>>
goVars   == <<pc, gotAcquired, hbCancelled>>
lockVars == <<token, released, rel, releasedClean>>
lossVars == <<lost, lostOnce, delivered>>
vars == <<callVars, goVars, lockVars, lossVars, streamVars>>

Goroutines == {"recvLoop", "heartbeatLoop"}

\* Mutant: an unbuffered channel, whose non-blocking push finds no receiver.
LostUnbuffered == 0

\* lost: make(chan error, 1)
LostCap == 1

TypeOK ==
  /\ acq \in {"idle", "sending", "waiting", "held", "failed"}
  /\ acquired \in {"empty", "nil", "err"}
  /\ ctxDone \in BOOLEAN
  /\ pc \in [Goroutines -> {"none", "loop", "sendNil", "sendErr",
                            "check", "push", "exited"}]
  /\ gotAcquired \in BOOLEAN
  /\ hbCancelled \in BOOLEAN
  /\ token \in BOOLEAN
  /\ released \in BOOLEAN
  /\ rel \in [Releasers -> {"idle", "marked", "cancelled", "waiting",
                            "returned", "noop"}]
  /\ releasedClean \in BOOLEAN
  /\ lost \in 0 .. LostCap
  /\ lostOnce \in BOOLEAN
  /\ delivered \in Nat
  /\ StreamTypeOK

Init ==
  /\ acq = "idle"
  /\ acquired = "empty"
  /\ ctxDone = FALSE
  /\ pc = [g \in Goroutines |-> "none"]
  /\ gotAcquired = FALSE
  /\ hbCancelled = FALSE
  /\ token = FALSE
  /\ released = FALSE
  /\ rel = [r \in Releasers |-> "idle"]
  /\ releasedClean = FALSE
  /\ lost = 0
  /\ lostOnce = FALSE
  /\ delivered = 0
  /\ StreamInit

Goto(g, l) == pc' = [pc EXCEPT ![g] = l]
Advance(r, l) == rel' = [rel EXCEPT ![r] = l]
-----------------------------------------------------------------------------
(* AcquireLock *)

\* ttl <= 0, or the stream cannot be opened: nothing was started.
Refuse ==
  /\ acq = "idle"
  /\ acq' = "failed"
  /\ UNCHANGED <<acquired, ctxDone, goVars, lockVars, lossVars, streamVars>>

OpenStream ==
  /\ acq = "idle"
  /\ acq' = "sending"
  /\ Open
  /\ UNCHANGED <<acquired, ctxDone, goVars, lockVars, lossVars>>

\* stream.Send of the initial request, the Lock, and go recvLoop.
SendRequest ==
  /\ acq = "sending"
  /\ acq' = "waiting"
  /\ Enqueue
  /\ Goto("recvLoop", "loop")
  /\ UNCHANGED <<acquired, ctxDone, gotAcquired, hbCancelled, lockVars, lossVars>>

SendRequestFails ==
  /\ acq = "sending"
  /\ acq' = "failed"
  /\ Abort
  /\ UNCHANGED <<acquired, ctxDone, goVars, lockVars, lossVars>>

\* case err := <-acquired, no error: go heartbeatLoop, and return the lock.
ReturnLock ==
  /\ acq = "waiting"
  /\ acquired = "nil"
  /\ acquired' = "empty"
  /\ acq' = "held"
  /\ Goto("heartbeatLoop", "loop")
  /\ UNCHANGED <<ctxDone, gotAcquired, hbCancelled, lockVars, lossVars, streamVars>>

\* case err := <-acquired, with an error.
ReturnError ==
  /\ acq = "waiting"
  /\ acquired = "err"
  /\ acquired' = "empty"
  /\ acq' = "failed"
  /\ hbCancelled' = TRUE
  /\ UNCHANGED <<ctxDone, pc, gotAcquired, lockVars, lossVars, streamVars>>

\* case <-ctx.Done(): the select may take it though acquired is ready too.
ReturnCtxErr ==
  /\ acq = "waiting"
  /\ ctxDone
  /\ acq' = "failed"
  /\ hbCancelled' = TRUE
  /\ UNCHANGED <<acquired, ctxDone, pc, gotAcquired, lockVars, lossVars, streamVars>>

Caller ==
  \/ SendRequest \/ SendRequestFails
  \/ ReturnLock \/ ReturnError \/ ReturnCtxErr
-----------------------------------------------------------------------------
(* recvLoop *)

\* Recv returned ACQUIRED: set the token, then signal the caller, once.
RecvAcquired ==
  /\ pc["recvLoop"] = "loop"
  /\ Arrived("acquired")
  /\ Take
  /\ token' = TRUE
  /\ gotAcquired' = TRUE
  /\ Goto("recvLoop", IF gotAcquired THEN "loop" ELSE "sendNil")
  /\ UNCHANGED <<callVars, hbCancelled, released, rel, releasedClean, lossVars>>

\* TTL_EXTENDED updates expiresAt, QUEUE_POSITION nothing.
RecvOther ==
  /\ pc["recvLoop"] = "loop"
  /\ Arrived("queuePosition") \/ Arrived("ttlExtended")
  /\ Take
  /\ UNCHANGED <<callVars, goVars, lockVars, lossVars>>

RecvFails ==
  /\ pc["recvLoop"] = "loop"
  /\ RecvError
  /\ Goto("recvLoop", IF gotAcquired THEN "check" ELSE "sendErr")
  /\ UNCHANGED <<callVars, gotAcquired, hbCancelled, lockVars, lossVars, streamVars>>

\* Mutant: make(chan error), an unbuffered channel.
ChannelUnbuffered == acquired = "empty" /\ acq = "waiting"

\* acquired := make(chan error, 1): a send needs no receiver, but it blocks
\* while the channel holds an element.
ChannelReady == acquired = "empty"

\* acquired <- nil, or acquired <- err and return.
SignalAcquired ==
  /\ ChannelReady
  /\ \/ /\ pc["recvLoop"] = "sendNil"
        /\ acquired' = "nil"
        /\ Goto("recvLoop", "loop")
     \/ /\ pc["recvLoop"] = "sendErr"
        /\ acquired' = "err"
        /\ Goto("recvLoop", "exited")
  /\ UNCHANGED <<acq, ctxDone, gotAcquired, hbCancelled, lockVars, lossVars, streamVars>>
-----------------------------------------------------------------------------
(* reportLost, called by both goroutines *)

\* Mutant: the caller of Release is not spared the report.
ReportUnchecked(g) ==
  /\ pc[g] = "check"
  /\ Goto(g, "push")
  /\ UNCHANGED <<callVars, gotAcquired, hbCancelled, lockVars, lossVars, streamVars>>

\* released := l.released, under l.mu
ReportCheck(g) ==
  /\ pc[g] = "check"
  /\ Goto(g, IF released THEN "exited" ELSE "push")
  /\ UNCHANGED <<callVars, gotAcquired, hbCancelled, lockVars, lossVars, streamVars>>

\* lostOnce.Do: a push that gives up when the channel is full.
ReportPush(g) ==
  /\ pc[g] = "push"
  /\ lost' = IF ~lostOnce /\ lost < LostCap THEN lost + 1 ELSE lost
  /\ lostOnce' = TRUE
  /\ Goto(g, "exited")
  /\ UNCHANGED <<callVars, gotAcquired, hbCancelled, lockVars, delivered, streamVars>>

RecvLoop ==
  \/ RecvAcquired \/ RecvOther \/ RecvFails \/ SignalAcquired
  \/ ReportCheck("recvLoop") \/ ReportPush("recvLoop")
-----------------------------------------------------------------------------
(* heartbeatLoop *)

HeartbeatSend ==
  /\ pc["heartbeatLoop"] = "loop"
  /\ Beat
  /\ UNCHANGED <<callVars, goVars, lockVars, lossVars>>

\* Mutant: a failed heartbeat is ignored and the loop goes on ticking.
HeartbeatFailIgnored ==
  /\ pc["heartbeatLoop"] = "loop"
  /\ ~CanBeat
  /\ Abort
  /\ UNCHANGED <<callVars, goVars, lockVars, lossVars>>

\* Send fails on a stream that is over, and after CloseSend: the goroutine is
\* not joined by Release, and its select may take a tick though hbCtx is done.
HeartbeatFails ==
  /\ pc["heartbeatLoop"] = "loop"
  /\ ~CanBeat
  /\ Abort
  /\ Goto("heartbeatLoop", "check")
  /\ UNCHANGED <<callVars, gotAcquired, hbCancelled, lockVars, lossVars>>

\* case <-ctx.Done() of hbCtx, which is also done when its parent is.
HeartbeatStop ==
  /\ pc["heartbeatLoop"] = "loop"
  /\ ctxDone \/ hbCancelled
  /\ Goto("heartbeatLoop", "exited")
  /\ UNCHANGED <<callVars, gotAcquired, hbCancelled, lockVars, lossVars, streamVars>>

HeartbeatLoop ==
  \/ HeartbeatFails \/ HeartbeatStop
  \/ ReportCheck("heartbeatLoop") \/ ReportPush("heartbeatLoop")
-----------------------------------------------------------------------------
(* Lock.Release *)

\* Under l.mu: the first caller sets released, any other returns nil at once.
ReleaseMark(r) ==
  /\ acq = "held"
  /\ rel[r] = "idle"
  /\ Advance(r, IF released THEN "noop" ELSE "marked")
  /\ released' = TRUE
  /\ releasedClean' = IF released THEN releasedClean ELSE stream = "open"
  /\ UNCHANGED <<callVars, goVars, token, lossVars, streamVars>>

ReleaseCancelHB(r) ==
  /\ rel[r] = "marked"
  /\ Advance(r, "cancelled")
  /\ hbCancelled' = TRUE
  /\ UNCHANGED <<callVars, pc, gotAcquired, token, released, releasedClean, lossVars, streamVars>>

ReleaseCloseSend(r) ==
  /\ rel[r] = "cancelled"
  /\ Advance(r, "waiting")
  /\ HalfClose
  /\ UNCHANGED <<callVars, goVars, token, released, releasedClean, lossVars>>

\* Mutant: Release does not wait for recvLoop.
ReleaseWithoutWait(r) ==
  /\ rel[r] = "waiting"
  /\ Advance(r, "returned")
  /\ UNCHANGED <<callVars, goVars, token, released, releasedClean, lossVars, streamVars>>

\* <-l.recvDoneCh
ReleaseReturn(r) ==
  /\ rel[r] = "waiting"
  /\ pc["recvLoop"] = "exited"
  /\ Advance(r, "returned")
  /\ UNCHANGED <<callVars, goVars, token, released, releasedClean, lossVars, streamVars>>

Release(r) == ReleaseCancelHB(r) \/ ReleaseCloseSend(r) \/ ReleaseReturn(r)
-----------------------------------------------------------------------------
(* The application and its context *)

CancelCtx ==
  /\ ~ctxDone
  /\ ctxDone' = TRUE
  /\ UNCHANGED <<acq, acquired, goVars, lockVars, lossVars, streamVars>>

\* The stream was opened with ctx: gRPC aborts it once ctx is done.
CtxAbortsStream ==
  /\ ctxDone
  /\ stream = "open"
  /\ Abort
  /\ UNCHANGED <<callVars, goVars, lockVars, lossVars>>

\* The application receives from Lost().
ReadLost ==
  /\ acq = "held"
  /\ lost > 0
  /\ lost' = lost - 1
  /\ delivered' = delivered + 1
  /\ UNCHANGED <<callVars, goVars, lockVars, lostOnce, streamVars>>

Env == StreamEnv /\ UNCHANGED <<callVars, goVars, lockVars, lossVars>>

Next ==
  \/ Refuse \/ OpenStream \/ Caller
  \/ RecvLoop
  \/ HeartbeatSend \/ HeartbeatLoop
  \/ \E r \in Releasers : ReleaseMark(r) \/ Release(r)
  \/ CancelCtx \/ CtxAbortsStream \/ ReadLost
  \/ Env

Spec == Init /\ [][Next]_vars

(* Every goroutine that can run does.  The select of heartbeatLoop chooses   *)
(* at random among ready cases and ticks are rare, so a done hbCtx is seen.  *)
(* gRPC notices a done ctx and the server's end of the stream; the server    *)
(* ends a stream its client closed or aborted.  Nothing makes the server     *)
(* grant, the application call Release, or a healthy stream break.           *)
Fairness ==
  /\ WF_vars(Caller)
  /\ WF_vars(RecvLoop)
  /\ WF_vars(HeartbeatLoop)
  /\ \A r \in Releasers : WF_vars(Release(r))
  /\ WF_vars(CtxAbortsStream)
  /\ WF_vars(srv = "gone" /\ StreamEnds /\ Env)
  /\ WF_vars((sendClosed \/ Over) /\ ServerDrops /\ Env)

FairSpec == Spec /\ Fairness
-----------------------------------------------------------------------------
(* Properties *)

\* A loss is never reported for a lock whose stream was healthy when Release
\* was called, whatever the stream then does: reportLost reads l.released
\* before it pushes, and Release sets it before it closes the stream
\* (go/restart.go:155-183, "before Release is called" at 145-148).
CleanReleaseNeverLost == releasedClean => lost + delivered = 0

\* recvLoop and heartbeatLoop may both fail and both pass the check of
\* l.released, and the application may drain the channel between their
\* pushes: Lost still reports at most once (go/restart.go:145, lostOnce).
LostAtMostOnce == lost + delivered <= 1

\* recvLoop never blocks on its channel to acquireLock, even when acquireLock
\* has left through ctx.Done() and nobody will ever receive: the channel holds
\* one element and gotAcquired admits one send (go/restart.go:223, 250-281).
SignalNeverBlocks ==
  pc["recvLoop"] \in {"sendNil", "sendErr"} => ChannelReady

\* AcquireLock returns a lock only after the server granted it, with its token
\* already set by recvLoop (go/restart.go:268-281 before 226-236).
HeldWasGranted == acq = "held" => token /\ srv \in {"granted", "gone"}

\* When the caller that released the lock returns, recvLoop has seen the
\* stream end: nobody still reads a stream the caller believes closed, and the
\* heartbeat goroutine has been told to stop (go/restart.go:164-167).
ReleaseEndsStream ==
  \A r \in Releasers : rel[r] = "returned" =>
     stream \in {"ended", "aborted"} /\ pc["recvLoop"] = "exited" /\ hbCancelled

\* heartbeatLoop ends once Release was called, ctx is done or the stream broke:
\* no goroutine keeps ticking for a lock that is gone (go/restart.go:188-191).
HeartbeatLoopStops ==
  (pc["heartbeatLoop"] = "loop" /\ (released \/ ctxDone \/ stream # "open"))
     ~> pc["heartbeatLoop"] = "exited"

\* An AcquireLock that failed leaves nothing behind: no goroutine, and no place
\* in the server's queue or hold on its lock (go/restart.go:204-243).
FailureLeavesNothing ==
  acq = "failed" ~> [](/\ pc["recvLoop"] \in {"none", "exited"}
                       /\ pc["heartbeatLoop"] = "none"
                       /\ srv \in {"none", "gone"})
-----------------------------------------------------------------------------
(* GoLock implements the contract of RestartLock. *)

phaseBar ==
  CASE acq = "idle" -> "idle"
    [] acq \in {"sending", "waiting"} -> "acquiring"
    [] acq = "failed" -> "failed"
    [] acq = "held" ->
         IF ~released THEN "held"
         ELSE IF \E r \in Releasers : rel[r] = "returned" THEN "released"
         ELSE "releasing"

brokenBar ==
  acq = "held" /\ IF released THEN ~releasedClean ELSE stream # "open"

reportedBar == acq = "held" /\ lost + delivered > 0

Contract == INSTANCE RestartLock
  WITH phase <- phaseBar, broken <- brokenBar, reported <- reportedBar

\* Every step of the two goroutines, the callers of Release and the stream is
\* a step of the documented lock or changes nothing the application sees
\* (go/restart.go:112-168, 186-192).
ImplementsContract == Contract!Spec

\* Broken locks are reported and releases end, as the contract owes them.
ImplementsContractFairness == Contract!Fairness

=============================================================================
