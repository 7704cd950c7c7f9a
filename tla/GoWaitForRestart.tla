-------------------------- MODULE GoWaitForRestart --------------------------
(***************************************************************************)
(* WaitForRestart (go/restart.go): the bundle watch of GoWatch, whose      *)
(* channel it receives from, its debounce timer, and the restart lock it   *)
(* acquires, known here by the contract RestartLock that GoLock is shown   *)
(* to implement.                                                           *)
(***************************************************************************)
EXTENDS GoWatch

CONSTANT Debounce   \* the debounce argument, in ticks of the timer

ASSUME DebounceAssumption == Debounce \in Nat

VARIABLES
  wait,      \* where WaitForRestart is, and what it returned
  timer,     \* ticks left before timer.C fires
  quiet,     \* history: ticks since the last signal was received, up to Debounce
  phase, broken, reported   \* the lock

lockVars == <<phase, broken, reported>>
waitVars == <<wait, timer, quiet>>
vars == <<watchVars, waitVars, lockVars>>

Lock == INSTANCE RestartLock

TypeOK ==
  /\ WatchTypeOK
  /\ wait \in {"first", "debounce", "acquire", "returned", "failed"}
  /\ timer \in 0 .. Debounce
  /\ quiet \in 0 .. Debounce
  /\ Lock!TypeOK

Init ==
  /\ WatchInit
  /\ wait = "first"
  /\ timer = 0
  /\ quiet = 0
  /\ Lock!Init
-----------------------------------------------------------------------------
\* _, ok := <-changes, with ok: the timer is created unless debounce is 0.
FirstChange ==
  /\ wait = "first"
  /\ ReceiveChange
  /\ wait' = IF Debounce > 0 THEN "debounce" ELSE "acquire"
  /\ timer' = Debounce
  /\ quiet' = 0
  /\ UNCHANGED lockVars

\* Mutant: the second result of the receive is ignored.
ClosedIsAChange ==
  /\ wait = "first"
  /\ ChannelClosed
  /\ wait' = "acquire"
  /\ quiet' = Debounce
  /\ UNCHANGED <<watchVars, timer, lockVars>>

\* Mutant: the wait goes on when the channel is closed.
ClosedIsIgnored ==
  /\ wait = "first"
  /\ ChannelClosed
  /\ UNCHANGED vars

\* _, ok := <-changes, not ok: return ctx.Err().
FirstClosed ==
  /\ wait = "first"
  /\ ChannelClosed
  /\ wait' = "failed"
  /\ UNCHANGED <<watchVars, timer, quiet, lockVars>>

\* Mutant: the timer is not reset.
MoreChangeWithoutReset ==
  /\ wait = "debounce"
  /\ ReceiveChange
  /\ quiet' = 0
  /\ UNCHANGED <<wait, timer, lockVars>>

\* Another change while debouncing: stop, drain and reset the timer.  The three
\* are one step, for with the channels of go.mod's Go version a timer that comes
\* due before Stop leaves nothing behind it in timer.C.
MoreChange ==
  /\ wait = "debounce"
  /\ ReceiveChange
  /\ timer' = Debounce
  /\ quiet' = 0
  /\ UNCHANGED <<wait, lockVars>>

\* The select may take timer.C though a change or ctx.Done() is ready too.
TimerFires ==
  /\ wait = "debounce"
  /\ timer = 0
  /\ wait' = "acquire"
  /\ UNCHANGED <<watchVars, timer, quiet, lockVars>>

\* The channel is closed, or ctx.Done() is taken: return ctx.Err().
DebounceEnds ==
  /\ wait = "debounce"
  /\ ChannelClosed \/ ctxDone
  /\ wait' = "failed"
  /\ UNCHANGED <<watchVars, timer, quiet, lockVars>>

CallAcquireLock ==
  /\ wait = "acquire"
  /\ Lock!Start
  /\ UNCHANGED <<watchVars, waitVars>>

LockReturned ==
  /\ wait = "acquire"
  /\ \/ Lock!Acquire /\ wait' = "returned"
     \/ Lock!Fail /\ wait' = "failed"
     \/ phase = "failed" /\ wait' = "failed" /\ UNCHANGED lockVars
  /\ UNCHANGED <<watchVars, timer, quiet>>

WaitForRestart ==
  \/ FirstChange \/ FirstClosed
  \/ MoreChange \/ TimerFires \/ DebounceEnds
  \/ CallAcquireLock

Tick ==
  /\ wait = "debounce"
  /\ timer > 0
  /\ timer' = timer - 1
  /\ quiet' = IF quiet < Debounce THEN quiet + 1 ELSE quiet
  /\ UNCHANGED <<watchVars, wait, lockVars>>

\* The application holds the returned lock, drains, and releases it.
Holding ==
  /\ wait = "returned"
  /\ \/ Lock!Break \/ Lock!ReportLost \/ Lock!BeginRelease \/ Lock!EndRelease
  /\ UNCHANGED <<watchVars, waitVars>>

Next ==
  \/ WaitForRestart \/ LockReturned \/ Tick \/ Holding
  \/ (WatchLoop \/ WatchEnv) /\ UNCHANGED <<waitVars, lockVars>>

Spec == Init /\ [][Next]_vars

\* Time passes and the goroutines run.  AcquireLock answers a done ctx (GoLock);
\* otherwise it may stay queued for ever.  Once the server is reachable a
\* reconnecting watch gets its stream: the attempts do not all fail.
Fairness ==
  /\ WF_vars(WaitForRestart)
  /\ WF_vars(Tick)
  /\ WF_vars((ctxDone \/ phase = "failed") /\ LockReturned)
  /\ WF_vars(WatchLoop /\ UNCHANGED <<waitVars, lockVars>>)
  /\ SF_vars(OpenSucceeds /\ UNCHANGED <<waitVars, lockVars>>)
  /\ WF_vars(ctxDone /\ StreamEnds /\ UNCHANGED <<waitVars, lockVars>>)
  /\ WF_vars(ServerRegisters /\ UNCHANGED <<waitVars, lockVars>>)

FairSpec == Spec /\ Fairness
-----------------------------------------------------------------------------
(* Properties *)

\* The lock is asked for only because the bundle changed: a channel closed by a
\* done ctx while WaitForRestart receives from it is never taken for a change
\* (go/restart.go:327-329, 337-340).
RestartHasReason == phase # "idle" => published > 0

\* The lock is asked for only after a full debounce period without a signal,
\* however the changes and the timer interleave (go/restart.go:331-352).
DebounceIsQuiet == phase # "idle" => quiet = Debounce

\* A done ctx ends WaitForRestart, in whichever of its three waits it is
\* (go/restart.go:327-329, 349-350, 354).
CancelReturns == ctxDone ~> wait \in {"returned", "failed"}

\* A change the server sent to the registered watcher leads to the request of the
\* lock, even if the stream breaks right behind it, if other changes coalesce with
\* it and if more of them restart the debounce timer (go/restart.go:68-82, 318-352).
SentLeadsToLock ==
  (\E i \in 1 .. Len(inbox) : inbox[i] = "changed")
    ~> (phase # "idle" \/ wait = "failed" \/ ctxDone)

\* "it waits for the next bundle change" (go/restart.go:313): a change published
\* while WaitForRestart waits wakes it.  The code does not do this: a change
\* published while the watch reconnects, or before the server registered it, is
\* never sent, and the loop does not ask for the state it may have missed.
NextChangeIsSeen ==
  \A n \in 1 .. MaxChanges :
    (wait = "first" /\ published = n) ~> (wait # "first" \/ ctxDone)

=============================================================================
