-------------------------- MODULE CsWaitForRestart --------------------------
(***************************************************************************)
(* WaitForRestartAsync of the C# client (csharp/Restart.cs): the watch of  *)
(* CsWatch, the race of a delay with the next change, and AcquireLockAsync *)
(* with the token, known here by the contract RestartLock that CsLock is   *)
(* shown to implement.                                                     *)
(***************************************************************************)
EXTENDS CsWatch

CONSTANT Debounce   \* the debounce argument, in ticks of the timer

VARIABLES
  wait,       \* where WaitForRestartAsync is
  thrown,     \* what it threw
  timer,      \* ticks left to debounceElapsed
  quiet,      \* history: ticks since the last change was read, up to Debounce
  phase, broken, reported   \* the lock

lockVars == <<phase, broken, reported>>
waitVars == <<wait, thrown, timer, quiet>>
vars == <<watchVars, waitVars, lockVars>>

Lock == INSTANCE RestartLock

Exceptions == {"OperationCanceledException", "LockAcquisitionException"}

TypeOK ==
  /\ WatchTypeOK
  /\ wait \in {"first", "debounce", "acquire", "returned", "failed"}
  /\ thrown \in Exceptions \cup {"none"}
  /\ timer \in 0 .. Debounce
  /\ quiet \in 0 .. Debounce
  /\ Lock!TypeOK

Init ==
  /\ WatchInit
  /\ wait = "first"
  /\ thrown = "none"
  /\ timer = 0
  /\ quiet = 0
  /\ Lock!Init

Done == wait \in {"returned", "failed"}

Throw(e) == wait' = "failed" /\ thrown' = e
-----------------------------------------------------------------------------
FirstChange ==
  /\ wait = "first"
  /\ ReadChange
  /\ wait' = IF Debounce > 0 THEN "debounce" ELSE "acquire"
  /\ timer' = Debounce
  /\ quiet' = 0
  /\ UNCHANGED <<thrown, lockVars>>

\* The wait or the read throws for the token; a watch that ended completes the
\* channel, and did so for the token.
WaitCanceled ==
  /\ wait \in {"first", "debounce"}
  /\ cancelled
  /\ Throw("OperationCanceledException")
  /\ UNCHANGED <<watchVars, timer, quiet, lockVars>>

\* Mutant: one delay for all the changes.
MoreChangeWithoutReset ==
  /\ wait = "debounce"
  /\ ReadChange
  /\ quiet' = 0
  /\ UNCHANGED <<wait, thrown, timer, lockVars>>

\* nextChange wins the race; each turn makes a delay of its own.
MoreChange ==
  /\ wait = "debounce"
  /\ ReadChange
  /\ timer' = Debounce
  /\ quiet' = 0
  /\ UNCHANGED <<wait, thrown, lockVars>>

\* debounceElapsed wins the race: it is complete when the time is over, and when
\* the token is cancelled.  nextChange is awaited for its exception only.
DebounceElapsed ==
  /\ wait = "debounce"
  /\ timer = 0 \/ cancelled
  /\ wait' = "acquire"
  /\ UNCHANGED <<watchVars, thrown, timer, quiet, lockVars>>

\* With a cancelled token the first request cannot be sent, for which the runtime
\* has an RpcException.
CallAcquireLock ==
  /\ wait = "acquire"
  /\ Lock!Start
  /\ IF cancelled
     THEN phase' = "failed" /\ Throw("LockAcquisitionException")
     ELSE UNCHANGED <<wait, thrown>>
  /\ UNCHANGED <<watchVars, timer, quiet>>

LockReturned ==
  /\ wait = "acquire"
  /\ \/ Lock!Acquire /\ wait' = "returned" /\ UNCHANGED thrown
     \/ Lock!Fail /\ Throw("LockAcquisitionException")
     \/ phase = "failed" /\ Throw("LockAcquisitionException") /\ UNCHANGED lockVars
  /\ UNCHANGED <<watchVars, timer, quiet>>

\* Mutant: the lock is acquired without the token.
LockIgnoresToken ==
  /\ wait = "acquire"
  /\ cancelled
  /\ UNCHANGED vars

\* The callback of the token and the end of the call race in AcquireAsync.
LockCanceled ==
  /\ wait = "acquire"
  /\ cancelled
  /\ Lock!Fail
  /\ \E e \in Exceptions : Throw(e)
  /\ UNCHANGED <<watchVars, timer, quiet>>

WaitStep ==
  \/ FirstChange \/ WaitCanceled \/ MoreChange \/ DebounceElapsed \/ CallAcquireLock

Tick ==
  /\ wait = "debounce"
  /\ timer > 0
  /\ timer' = timer - 1
  /\ quiet' = IF quiet < Debounce THEN quiet + 1 ELSE quiet
  /\ UNCHANGED <<watchVars, wait, thrown, lockVars>>

\* The application holds the returned lock, drains, and releases it; the token
\* that is cancelled now breaks it.
Holding ==
  /\ wait = "returned"
  /\ Lock!Break \/ Lock!ReportLost \/ Lock!BeginRelease \/ Lock!EndRelease
  /\ UNCHANGED <<watchVars, waitVars>>

Next ==
  \/ WaitStep \/ LockReturned \/ LockCanceled \/ Tick \/ Holding
  \/ (WatchLoop \/ WatchEnv) /\ UNCHANGED <<waitVars, lockVars>>

Spec == Init /\ [][Next]_vars

\* Time passes, tasks and the callbacks of the token run.  Nothing makes the
\* server grant the lock.
Fairness ==
  /\ WF_vars(WaitStep)
  /\ WF_vars(Tick)
  /\ WF_vars(phase = "failed" /\ LockReturned)
  /\ WF_vars(LockCanceled)
  /\ WF_vars(WatchLoop /\ UNCHANGED <<waitVars, lockVars>>)
  /\ WF_vars(ReceiveCancelled /\ UNCHANGED <<waitVars, lockVars>>)

FairSpec == Spec /\ Fairness
-----------------------------------------------------------------------------
(* Properties *)

\* A change that reached the stream leads to the request of the lock, even if the
\* stream broke right behind it (csharp/Watch.cs:101-133, csharp/Restart.cs:113-164).
SentLeadsToLock ==
  (\E i \in 1 .. Len(inbox) : inbox[i] = "changed")
    ~> (phase # "idle" \/ Done \/ cancelled)

\* A cancelled token ends the wait for a change, the debounce and the queueing for
\* the lock (csharp/Restart.cs:115-164).
CancelReturns == cancelled ~> Done

\* OperationCanceledException is thrown if "cancellationToken was canceled first"
\* (csharp/Restart.cs:86).  But the token also completes debounceElapsed, which may
\* then win the race as if the time was over.
CancelThrowsCanceled ==
  [][cancelled /\ phase = "idle" /\ wait' = "failed"
       => thrown' = "OperationCanceledException"]_vars

=============================================================================
