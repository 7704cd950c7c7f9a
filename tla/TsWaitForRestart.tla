-------------------------- MODULE TsWaitForRestart ---------------------------
(***************************************************************************)
(* waitForRestart of the TypeScript client (typescript/src/restart.ts):    *)
(* the private watch of TsWatch, of which it is the only caller of next(), *)
(* debounceUntilQuiet, and the restart lock it acquires, known here by the *)
(* contract RestartLock that TsLock is shown to implement.                 *)
(***************************************************************************)
EXTENDS TsWatch

CONSTANTS
  Caller,     \* waitForRestart, as a caller of next()
  Debounce    \* debounceMs, in ticks of the timer

ASSUME WaitAssumption == Consumers = {Caller} /\ Debounce \in Nat

VARIABLES
  wait,       \* where waitForRestart is, and what became of it
  timer,      \* ticks left to the timer of this round of the loop
  quiet,      \* history: ticks since next() last told of a change, up to Debounce
  phase, broken, reported   \* the lock

lockVars == <<phase, broken, reported>>
waitVars == <<wait, timer, quiet>>

Lock == INSTANCE RestartLock

WaitInit ==
  /\ WatchInit
  /\ wait = "not called"
  /\ timer = 0
  /\ quiet = 0
  /\ Lock!Init

\* the promise of the last next(), settled first in the race
Told == asked[Caller]
-----------------------------------------------------------------------------
WaitCall ==
  /\ wait = "not called"
  /\ wait' = "first"
  /\ NextCall(Caller)
  /\ UNCHANGED <<timer, quiet, lockVars>>

\* debounceUntilQuiet calls next() again, and starts a timer for this round.
StartRound ==
  /\ NextCall(Caller)
  /\ wait' = "debounce"
  /\ timer' = Debounce
  /\ quiet' = 0

FirstResolved ==
  /\ wait = "first" /\ Told # "waiting"
  /\ \/ Told = "stopped" /\ wait' = "failed" /\ UNCHANGED <<watchVars, timer, quiet>>
     \/ Told = "changed" /\ Debounce > 0 /\ StartRound
     \/ Told = "changed" /\ Debounce = 0 /\ wait' = "acquire" /\ UNCHANGED <<watchVars, timer, quiet>>
  /\ UNCHANGED lockVars

\* Mutant: the first timer runs on.
RoundKeepsTimer ==
  /\ wait = "debounce" /\ Told = "changed"
  /\ NextCall(Caller)
  /\ quiet' = 0
  /\ UNCHANGED <<wait, timer, lockVars>>

\* winner.kind = "change" with ok
RoundChanged ==
  /\ wait = "debounce" /\ Told = "changed"
  /\ StartRound
  /\ UNCHANGED lockVars

\* The timer wins only while next() has not settled, whose call is abandoned.
TimerFires ==
  /\ wait = "debounce" /\ Told = "waiting" /\ ~aborted
  /\ timer = 0
  /\ wait' = "acquire"
  /\ UNCHANGED <<watchVars, timer, quiet, lockVars>>

\* The watch was closed, or sleepOrAborted resolved false.
RoundAborted ==
  /\ wait = "debounce"
  /\ \/ Told = "stopped"
     \/ Told = "waiting" /\ aborted
  /\ wait' = "failed"
  /\ UNCHANGED <<watchVars, timer, quiet, lockVars>>

\* acquireLock, with the same signal
CallAcquireLock ==
  /\ wait = "acquire"
  /\ Lock!Start
  /\ UNCHANGED <<watchVars, waitVars>>

\* raceAbort lets no lock through once the signal is aborted.
LockSettled ==
  /\ wait = "acquire"
  /\ \/ ~aborted /\ Lock!Acquire /\ wait' = "returned"
     \/ Lock!Fail /\ wait' = "failed"
     \/ phase = "failed" /\ wait' = "failed" /\ UNCHANGED lockVars
  /\ UNCHANGED <<watchVars, timer, quiet>>

WaitStep == FirstResolved \/ RoundChanged \/ TimerFires \/ RoundAborted \/ CallAcquireLock

\* time passes for the timer of the round
Tick ==
  /\ wait = "debounce"
  /\ timer > 0
  /\ timer' = timer - 1
  /\ quiet' = IF quiet < Debounce THEN quiet + 1 ELSE quiet
  /\ UNCHANGED <<watchVars, wait, lockVars>>
-----------------------------------------------------------------------------
\* The lock is asked for only after a change, and after a full debounce period in
\* which next() told of none, whichever promise wins each round of the race
\* (typescript/src/restart.ts:565-588).
DebounceIsQuiet == phase # "idle" => received > 0 /\ quiet = Debounce

=============================================================================
