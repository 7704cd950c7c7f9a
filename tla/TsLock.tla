------------------------------- MODULE TsLock -------------------------------
(***************************************************************************)
(* The TypeScript restart lock (typescript/src/restart.ts): acquireLock,   *)
(* the receive loop and the heartbeat timer it starts, and Lock.release,   *)
(* over the stream of LockStream.                                          *)
(*                                                                         *)
(* One event loop runs it all: an action is what runs between two awaits,  *)
(* from a network event, a timer, a settled promise or a call of the       *)
(* application.  inbox stands for the network and the AsyncMailbox behind  *)
(* the stream together.  The stream is only ever half-closed, never        *)
(* cancelled.  A tick of the heartbeat timer may come at any moment.       *)
(***************************************************************************)
EXTENDS LockStream

CONSTANT Releasers   \* calls of Lock.release the application may make

VARIABLES
  hasSignal,     \* opts.signal was given
  aborted,       \* signal.aborted
  acq,           \* where acquireLock is, and what it returned
  acquired,      \* the promise that the receive loop settles
  race,          \* the promise raceAbort(acquired, signal)
  recv,          \* the receive loop
  gotAcquired,   \* its flag: the first ACQUIRED was seen
  token,         \* lock._token was set
  timer,         \* lock.heartbeatTimer is running
  released,      \* lock.released
  rel,           \* where each call of release is
  releasedClean, \* history: the stream was healthy when release was called
  lostReported,  \* lock.lostReported
  reports        \* history: how often 'lost' was emitted

callVars == <<hasSignal, aborted, acq, acquired, race>>
loopVars == <<recv, gotAcquired, token, timer>>
relVars  == <<released, rel, releasedClean>>
lossVars == <<lostReported, reports>>
vars == <<callVars, loopVars, relVars, lossVars, streamVars>>

TypeOK ==
  /\ hasSignal \in BOOLEAN
  /\ aborted \in BOOLEAN
  /\ acq \in {"idle", "waiting", "held", "failed"}
  /\ acquired \in {"pending", "resolved", "rejected"}
  /\ race \in {"pending", "resolved", "rejected", "aborted"}
  /\ recv \in {"none", "loop", "exited"}
  /\ gotAcquired \in BOOLEAN
  /\ token \in BOOLEAN
  /\ timer \in BOOLEAN
  /\ released \in BOOLEAN
  /\ rel \in [Releasers -> {"idle", "waiting", "returned", "noop"}]
  /\ releasedClean \in BOOLEAN
  /\ lostReported \in BOOLEAN
  /\ reports \in 0 .. 1
  /\ StreamTypeOK

Init ==
  /\ hasSignal \in BOOLEAN
  /\ aborted = FALSE
  /\ acq = "idle"
  /\ acquired = "pending"
  /\ race = "pending"
  /\ recv = "none"
  /\ gotAcquired = FALSE
  /\ token = FALSE
  /\ timer = FALSE
  /\ released = FALSE
  /\ rel = [r \in Releasers |-> "idle"]
  /\ releasedClean = FALSE
  /\ lostReported = FALSE
  /\ reports = 0
  /\ StreamInit
-----------------------------------------------------------------------------
(* Lock._reportLost, whose 'lost' event calls its listeners at once *)

\* Mutant: a released lock is reported too.
ReportReleased ==
  /\ lostReported' = TRUE
  /\ reports' = IF lostReported THEN reports ELSE reports + 1

ReportLost ==
  /\ lostReported' = (lostReported \/ ~released)
  /\ reports' = IF released \/ lostReported THEN reports ELSE reports + 1
-----------------------------------------------------------------------------
(* acquireLock *)

\* ttlSeconds is not a positive number, or the stream cannot be created or
\* written to: nothing was started.
Refuse ==
  /\ acq = "idle"
  /\ acq' = "failed"
  /\ UNCHANGED <<hasSignal, aborted, acquired, race, loopVars, relVars, lossVars, streamVars>>

\* The call runs to its first await: the stream is created, the request
\* written, the receive loop started; raceAbort rejects for an aborted signal.
Call ==
  /\ acq = "idle"
  /\ acq' = "waiting"
  /\ race' = IF hasSignal /\ aborted THEN "aborted" ELSE race
  /\ recv' = "loop"
  /\ OpenWithRequest
  /\ UNCHANGED <<hasSignal, aborted, acquired, gotAcquired, token, timer, relVars, lossVars>>

\* raceAbort, or the await itself without a signal, follows acquired.
RaceSettles ==
  /\ acq = "waiting"
  /\ race = "pending"
  /\ acquired # "pending"
  /\ race' = acquired
  /\ UNCHANGED <<hasSignal, aborted, acq, acquired, loopVars, relVars, lossVars, streamVars>>

ReturnLock ==
  /\ acq = "waiting"
  /\ race = "resolved"
  /\ acq' = "held"
  /\ UNCHANGED <<hasSignal, aborted, acquired, race, loopVars, relVars, lossVars, streamVars>>

\* Mutant: an aborted call leaves its stream open.
ThrowWithoutClose ==
  /\ acq = "waiting"
  /\ race \in {"rejected", "aborted"}
  /\ acq' = "failed"
  /\ UNCHANGED <<hasSignal, aborted, acquired, race, loopVars, relVars, lossVars, streamVars>>

\* With a signal, the catch block half-closes the stream before it throws.
Throw ==
  /\ acq = "waiting"
  /\ race \in {"rejected", "aborted"}
  /\ acq' = "failed"
  /\ sendClosed' = (sendClosed \/ hasSignal)
  /\ UNCHANGED <<hasSignal, aborted, acquired, race, loopVars, relVars, lossVars,
                 stream, inbox, heartbeats, srv>>

Caller == RaceSettles \/ ReturnLock \/ Throw
-----------------------------------------------------------------------------
(* The receive loop *)

RecvAcquired ==
  /\ recv = "loop"
  /\ Arrived("acquired")
  /\ Take
  /\ token' = TRUE
  /\ gotAcquired' = TRUE
  /\ timer' = (timer \/ ~gotAcquired)
  /\ acquired' = IF gotAcquired THEN acquired ELSE "resolved"
  /\ UNCHANGED <<hasSignal, aborted, acq, race, recv, relVars, lossVars>>

RecvOther ==
  /\ recv = "loop"
  /\ Arrived("queuePosition") \/ Arrived("ttlExtended")
  /\ Take
  /\ UNCHANGED <<callVars, loopVars, relVars, lossVars>>

\* Mutant: the loop leaves without resolving recvDone when it reports.
RecvFailsUnfinished ==
  /\ recv = "loop"
  /\ stream = "ended" /\ inbox = << >>
  /\ IF gotAcquired
     THEN ReportLost /\ UNCHANGED <<acquired, recv>>
     ELSE /\ acquired' = "rejected"
          /\ recv' = "exited"
          /\ UNCHANGED lossVars
  /\ UNCHANGED <<hasSignal, aborted, acq, race, gotAcquired, token, timer, relVars, streamVars>>

\* recv() rejects: reject acquired, or report; then resolve recvDone.
RecvFails ==
  /\ recv = "loop"
  /\ RecvError
  /\ recv' = "exited"
  /\ IF gotAcquired
     THEN ReportLost /\ UNCHANGED acquired
     ELSE acquired' = "rejected" /\ UNCHANGED lossVars
  /\ UNCHANGED <<hasSignal, aborted, acq, race, gotAcquired, token, timer, relVars, streamVars>>

RecvLoop == RecvAcquired \/ RecvOther \/ RecvFails
-----------------------------------------------------------------------------
(* The heartbeat timer *)

\* write() on a stream that is over is swallowed by grpc-js.
TickSends ==
  /\ timer
  /\ ~sendClosed
  /\ heartbeats < MaxInFlight
  /\ heartbeats' = IF stream = "open" THEN heartbeats + 1 ELSE heartbeats
  /\ UNCHANGED <<callVars, loopVars, relVars, lossVars, stream, sendClosed, inbox, srv>>

\* send() throws after closeSend(): stop the timer and report.
TickThrows ==
  /\ timer
  /\ sendClosed
  /\ timer' = FALSE
  /\ ReportLost
  /\ UNCHANGED <<callVars, recv, gotAcquired, token, relVars, streamVars>>
-----------------------------------------------------------------------------
(* Lock.release *)

\* Mutant: release does not stop the timer.
ReleaseKeepsTimer(r) ==
  /\ acq = "held"
  /\ rel[r] = "idle"
  /\ ~released
  /\ released' = TRUE
  /\ releasedClean' = (stream = "open")
  /\ rel' = [rel EXCEPT ![r] = "waiting"]
  /\ HalfClose
  /\ UNCHANGED <<callVars, loopVars, lossVars>>

\* The synchronous part of release, which also a 'lost' listener may call.
ReleaseFirst(r) ==
  /\ acq = "held"
  /\ rel[r] = "idle"
  /\ ~released
  /\ released' = TRUE
  /\ releasedClean' = (stream = "open")
  /\ rel' = [rel EXCEPT ![r] = "waiting"]
  /\ timer' = FALSE
  /\ HalfClose
  /\ UNCHANGED <<callVars, recv, gotAcquired, token, lossVars>>

\* if (this.released) return
ReleaseAgain(r) ==
  /\ acq = "held"
  /\ rel[r] = "idle"
  /\ released
  /\ rel' = [rel EXCEPT ![r] = "noop"]
  /\ UNCHANGED <<callVars, loopVars, released, releasedClean, lossVars, streamVars>>

\* Mutant: release does not wait for the loop.
ReleaseWithoutWait(r) ==
  /\ rel[r] = "waiting"
  /\ rel' = [rel EXCEPT ![r] = "returned"]
  /\ UNCHANGED <<callVars, loopVars, released, releasedClean, lossVars, streamVars>>

\* await this.recvDone
ReleaseReturn(r) ==
  /\ rel[r] = "waiting"
  /\ recv = "exited"
  /\ rel' = [rel EXCEPT ![r] = "returned"]
  /\ UNCHANGED <<callVars, loopVars, released, releasedClean, lossVars, streamVars>>
-----------------------------------------------------------------------------
\* controller.abort(): the listener of raceAbort rejects at once, if it is there.
SignalAborts ==
  /\ hasSignal
  /\ ~aborted
  /\ aborted' = TRUE
  /\ race' = IF acq = "waiting" /\ race = "pending" THEN "aborted" ELSE race
  /\ UNCHANGED <<hasSignal, acq, acquired, loopVars, relVars, lossVars, streamVars>>

Env == StreamEnv /\ UNCHANGED <<callVars, loopVars, relVars, lossVars>>

Next ==
  \/ Refuse \/ Call \/ Caller
  \/ RecvLoop
  \/ TickSends \/ TickThrows
  \/ \E r \in Releasers : ReleaseFirst(r) \/ ReleaseAgain(r) \/ ReleaseReturn(r)
  \/ SignalAborts
  \/ Env

Spec == Init /\ [][Next]_vars

\* Continuations and timers run; the server ends a stream its client closed or
\* that is over, and grpc-js delivers that end.  Nothing makes the server
\* grant, the application call release, or a healthy stream break.
Fairness ==
  /\ WF_vars(Caller)
  /\ WF_vars(RecvLoop)
  /\ WF_vars(TickThrows)
  /\ \A r \in Releasers : WF_vars(ReleaseReturn(r))
  /\ WF_vars(srv = "gone" /\ StreamEnds /\ Env)
  /\ WF_vars((sendClosed \/ Over) /\ ServerDrops /\ Env)

FairSpec == Spec /\ Fairness
-----------------------------------------------------------------------------
(* Properties *)

\* "Never settles if release() completes first" (typescript/src/restart.ts:
\* 342-348): a lock whose stream was healthy when release was called is never
\* reported lost, though its loop then sees the stream end.
CleanReleaseNeverLost == releasedClean => reports = 0

\* acquireLock resolves only for a lock the server granted, its token set
\* (typescript/src/restart.ts:456-465).
HeldWasGranted == acq = "held" => token /\ srv \in {"granted", "gone"}

\* When the releasing call resolves, the receive loop has seen the stream end
\* (typescript/src/restart.ts:354-363).
ReleaseEndsStream ==
  \A r \in Releasers : rel[r] = "returned" => Over /\ recv = "exited"

\* From release on no timer runs (typescript/src/restart.ts:357, 403-408): the
\* receive loop cannot start one any more.
NoTimerOnceReleased == released => ~timer

\* A call that failed, for whatever reason and however late ACQUIRED comes,
\* leaves no loop, no timer and no place at the server behind
\* (typescript/src/restart.ts:487-502).
FailureLeavesNothing ==
  acq = "failed" ~> [](/\ recv \in {"none", "exited"}
                       /\ ~timer
                       /\ srv \in {"none", "gone"})

\* "Heartbeats are sent automatically ... until release() is called, the signal
\* is aborted, or the lock is lost" (typescript/src/restart.ts:511-514).  The
\* code does the first only: after ACQUIRED nothing listens to the signal, and a
\* loss that the receive loop reports does not stop the timer.
HeartbeatsStopAsDocumented ==
  (acq = "held" /\ (released \/ aborted \/ reports > 0)) ~> ~timer
-----------------------------------------------------------------------------
(* TsLock implements the contract of RestartLock. *)

phaseBar ==
  CASE acq = "idle" -> "idle"
    [] acq = "waiting" -> "acquiring"
    [] acq = "failed" -> "failed"
    [] acq = "held" ->
         IF ~released THEN "held"
         ELSE IF \E r \in Releasers : rel[r] = "returned" THEN "released"
         ELSE "releasing"

brokenBar ==
  acq = "held" /\ IF released THEN ~releasedClean ELSE stream # "open"

reportedBar == acq = "held" /\ reports > 0

Contract == INSTANCE RestartLock
  WITH phase <- phaseBar, broken <- brokenBar, reported <- reportedBar

\* The promises, the timer and the calls of release together are the lock that
\* the Go client documents too (typescript/src/restart.ts:297-308, 507-515).
ImplementsContract == Contract!Spec

\* Broken locks are reported and releases end, as the contract owes them.
ImplementsContractFairness == Contract!Fairness

=============================================================================
