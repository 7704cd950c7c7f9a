-------------------------- MODULE RsWaitForRestart --------------------------
(***************************************************************************)
(* wait_for_restart of the Rust client (rust/src/restart.rs): the watch of *)
(* RsWatch, the debounce select, and the restart lock it acquires without  *)
(* the token, known here by the contract RestartLock that RsLock is shown  *)
(* to implement.                                                           *)
(***************************************************************************)
EXTENDS RsWatch

CONSTANT Debounce   \* the debounce argument, in ticks of the timer

VARIABLES
  wait,       \* where wait_for_restart is, and what became of its future
  timer,      \* ticks left to the pinned sleep
  quiet,      \* history: ticks since the last signal was received, up to Debounce
  phase, broken, reported   \* the lock

lockVars == <<phase, broken, reported>>
waitVars == <<wait, timer, quiet>>
vars == <<watchVars, waitVars, lockVars>>

Lock == INSTANCE RestartLock

TypeOK ==
  /\ WatchTypeOK
  /\ wait \in {"first", "debounce", "acquire", "returned", "failed", "dropped"}
  /\ timer \in 0 .. Debounce
  /\ quiet \in 0 .. Debounce
  /\ Lock!TypeOK

Init ==
  /\ WatchInit
  /\ wait = "first"
  /\ timer = 0
  /\ quiet = 0
  /\ Lock!Init

Done == wait \in {"returned", "failed", "dropped"}
-----------------------------------------------------------------------------
FirstChange ==
  /\ wait = "first"
  /\ ReceiveChange
  /\ wait' = IF Debounce > 0 THEN "debounce" ELSE "acquire"
  /\ timer' = Debounce
  /\ quiet' = 0
  /\ UNCHANGED lockVars

\* Mutant: the sleep is not reset.
MoreChangeWithoutReset ==
  /\ wait = "debounce"
  /\ ReceiveChange
  /\ quiet' = 0
  /\ UNCHANGED <<wait, timer, lockVars>>

MoreChange ==
  /\ wait = "debounce"
  /\ ReceiveChange
  /\ timer' = Debounce
  /\ quiet' = 0
  /\ UNCHANGED <<wait, lockVars>>

\* The select takes any arm that is ready.
SleepEnds ==
  /\ wait = "debounce"
  /\ timer = 0
  /\ wait' = "acquire"
  /\ UNCHANGED <<watchVars, timer, quiet, lockVars>>

\* WatchStopped, or Cancelled from the select: the receiver goes with the future.
WaitFails ==
  /\ \/ wait = "first" /\ ChannelClosed
     \/ wait = "debounce" /\ (ChannelClosed \/ cancelled)
  /\ wait' = "failed"
  /\ DropReceiver
  /\ UNCHANGED <<timer, quiet, lockVars>>

\* acquire_lock takes no token.
CallAcquireLock ==
  /\ wait = "acquire"
  /\ Lock!Start
  /\ UNCHANGED <<watchVars, waitVars>>

LockReturned ==
  /\ wait = "acquire"
  /\ \/ Lock!Acquire /\ wait' = "returned"
     \/ Lock!Fail /\ wait' = "failed"
     \/ phase = "failed" /\ wait' = "failed" /\ UNCHANGED lockVars
  /\ DropReceiver
  /\ UNCHANGED <<timer, quiet>>

\* The caller drops the future, and with it the one of acquire_lock.
DropFuture ==
  /\ ~Done
  /\ wait' = "dropped"
  /\ IF phase = "acquiring" THEN Lock!Fail ELSE UNCHANGED lockVars
  /\ DropReceiver
  /\ UNCHANGED <<timer, quiet>>

WaitStep ==
  \/ FirstChange \/ MoreChange \/ SleepEnds \/ WaitFails
  \/ CallAcquireLock

Tick ==
  /\ wait = "debounce"
  /\ timer > 0
  /\ timer' = timer - 1
  /\ quiet' = IF quiet < Debounce THEN quiet + 1 ELSE quiet
  /\ UNCHANGED <<watchVars, wait, lockVars>>

\* The application holds the returned lock, drains, and releases it.
Holding ==
  /\ wait = "returned"
  /\ Lock!Break \/ Lock!ReportLost \/ Lock!BeginRelease \/ Lock!EndRelease
  /\ UNCHANGED <<watchVars, waitVars>>

Next ==
  \/ WaitStep \/ LockReturned \/ DropFuture \/ Tick \/ Holding
  \/ (WatchLoop \/ WatchEnv) /\ UNCHANGED <<waitVars, lockVars>>

Spec == Init /\ [][Next]_vars

\* Time passes and the tasks run.  Nothing makes the server answer the call of
\* open() or grant the lock.  The select of the watch picks among ready arms at
\* random, so a cancelled token wins over a stream of events in the end.
Fairness ==
  /\ WF_vars(WaitStep)
  /\ WF_vars(Tick)
  /\ WF_vars(phase = "failed" /\ LockReturned)
  /\ WF_vars(WatchRuns /\ UNCHANGED <<waitVars, lockVars>>)
  /\ WF_vars(RecvCancelled /\ UNCHANGED <<waitVars, lockVars>>)

FairSpec == Spec /\ Fairness
-----------------------------------------------------------------------------
(* Properties *)

\* A change that reached the stream leads to the request of the lock, even if the
\* stream broke right behind it (rust/src/restart.rs:537-552, 627-649).
SentLeadsToLock ==
  (\E i \in 1 .. Len(inbox) : inbox[i] = "changed")
    ~> (phase # "idle" \/ Done \/ cancelled)

=============================================================================
