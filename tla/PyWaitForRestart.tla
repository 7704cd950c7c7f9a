-------------------------- MODULE PyWaitForRestart --------------------------
(***************************************************************************)
(* wait_for_restart (python/src/signet_client/restart.py): it waits for a  *)
(* change on the watch of PyWatch, debounces, acquires the lock, known by  *)
(* the contract RestartLock that PyLock implements, and closes the watch   *)
(* in a finally block before the application gets to see the lock.         *)
(***************************************************************************)
EXTENDS PyWatch

CONSTANTS
  waiter,     \* the thread in wait_for_restart
  Debounce    \* debounce_seconds, in ticks

VARIABLES
  wait,      \* where wait_for_restart is, and what it returned
  timer,     \* ticks left of the timeout of wait_for_change
  quiet,     \* history: ticks since the last change was told, up to Debounce
  phase, broken, reported   \* the lock

lockVars == <<phase, broken, reported>>
waitVars == <<wait, timer, quiet>>
vars == <<watchVars, waitVars, lockVars>>

Lock == INSTANCE RestartLock

TypeOK ==
  /\ WatchTypeOK
  /\ wait \in {"first", "debounce", "acquire", "finally", "returned", "raised"}
  /\ timer \in 0 .. Debounce
  /\ quiet \in 0 .. Debounce
  /\ Lock!TypeOK

Init ==
  /\ WatchInit
  /\ wait = "first"
  /\ timer = 0
  /\ quiet = 0
  /\ Lock!Init
-----------------------------------------------------------------------------
\* wait_for_change(), and wait_for_change(timeout=debounce_seconds)
Ask ==
  /\ wait \in {"first", "debounce"}
  /\ WaitForChange
  /\ timer' = IF wait = "debounce" THEN Debounce ELSE timer
  /\ UNCHANGED <<wait, quiet, lockVars>>

GotChange ==
  /\ wait \in {"first", "debounce"}
  /\ GetChange
  /\ wait' = IF Debounce > 0 THEN "debounce" ELSE "acquire"
  /\ quiet' = 0
  /\ UNCHANGED <<timer, lockVars>>

\* Mutant: a change inside the window is taken and the window not restarted.
DebounceOnce ==
  /\ wait = "debounce"
  /\ asked
  /\ timer = 0 \/ changes = 1
  /\ wait' = "acquire"
  /\ asked' = FALSE
  /\ changes' = 0
  /\ UNCHANGED <<loopVars, closeVars, serverVars, timer, quiet, lockVars>>

\* Queue.get times out only on an empty queue.
TimesOut ==
  /\ wait = "debounce"
  /\ asked
  /\ timer = 0
  /\ changes = 0
  /\ wait' = "acquire"
  /\ asked' = FALSE
  /\ UNCHANGED <<loopVars, closeVars, changes, serverVars, timer, quiet, lockVars>>

CallAcquireLock ==
  /\ wait = "acquire"
  /\ Lock!Start
  /\ UNCHANGED <<watchVars, waitVars>>

\* acquire_lock returned or raised; either way the finally block runs.
LockReturned ==
  /\ wait = "acquire"
  /\ wait' = "finally"
  /\ \/ Lock!Acquire \/ Lock!Fail
     \/ phase = "failed" /\ UNCHANGED lockVars
  /\ UNCHANGED <<watchVars, timer, quiet>>

\* watch.close()
Finally ==
  /\ wait = "finally"
  /\ CloseStop(waiter) \/ CloseSteps(waiter)
  /\ wait' = IF closing'[waiter] # "returned" THEN wait
             ELSE IF phase = "failed" THEN "raised" ELSE "returned"
  /\ UNCHANGED <<timer, quiet, lockVars>>

WaitForRestart ==
  \/ Ask \/ GotChange \/ TimesOut
  \/ CallAcquireLock \/ Finally

Tick ==
  /\ wait = "debounce"
  /\ asked
  /\ timer > 0
  /\ timer' = timer - 1
  /\ quiet' = IF quiet < Debounce THEN quiet + 1 ELSE quiet
  /\ UNCHANGED <<watchVars, wait, lockVars>>

\* The lock's own threads run as soon as it is acquired; the application can
\* release it only once it is returned.
Holding ==
  /\ \/ Lock!Break \/ Lock!ReportLost
     \/ wait = "returned" /\ (Lock!BeginRelease \/ Lock!EndRelease)
  /\ UNCHANGED <<watchVars, waitVars>>

Next ==
  \/ WaitForRestart \/ LockReturned \/ Tick \/ Holding
  \/ (WatchLoop \/ WatchEnv) /\ UNCHANGED <<waitVars, lockVars>>

Spec == Init /\ [][Next]_vars

\* Time passes and the threads run; a server that can be reached accepts the
\* watch in the end and registers it.  Nothing makes it grant the lock.
Fairness ==
  /\ WF_vars(WaitForRestart)
  /\ WF_vars(Tick)
  /\ WF_vars(phase = "failed" /\ LockReturned)
  /\ WF_vars(WatchLoop /\ UNCHANGED <<waitVars, lockVars>>)
  /\ SF_vars(OpenSucceeds /\ UNCHANGED <<waitVars, lockVars>>)
  /\ WF_vars(Registers /\ WatchEnv /\ UNCHANGED <<waitVars, lockVars>>)

FairSpec == Spec /\ Fairness
-----------------------------------------------------------------------------
(* Properties *)

\* A change that reached the client leads to the request of the lock, whatever
\* the stream does behind it (python/src/signet_client/restart.py:376-395, 512-518).
SentLeadsToLock ==
  (\E i \in 1 .. Len(inbox) : inbox[i] = "changed") ~> phase # "idle"

\* wait_for_restart "acquires the restart lock, returning once held"
\* (python/src/signet_client/restart.py:495-496).  The code may not: it closes
\* the watch first, and that close can wait for a stream that was being
\* reopened, with the lock held and its heartbeats running.
ReturnsOnceHeld == (phase = "held") ~> wait = "returned"

=============================================================================
