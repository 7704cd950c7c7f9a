------------------------------ MODULE TsWatch ------------------------------
(***************************************************************************)
(* The TypeScript bundle watch (typescript/src/restart.ts): runWatchLoop   *)
(* with its backoff, raceAbort and sleepOrAborted, and the BundleWatch     *)
(* whose next() the application calls, over the stream of WatchStream.     *)
(*                                                                         *)
(* One event loop runs it all.  The watch loop is at one of four awaits;   *)
(* race is the promise it awaits there, settled some time before the loop  *)
(* continues, and the abort of the signal may come in between.  A watch    *)
(* without a signal is one whose signal is never aborted.                  *)
(***************************************************************************)
EXTENDS WatchStream

CONSTANTS
  Consumers,             \* callers of BundleWatch.next, one call each at a time
  backoffMin, backoffMax

ASSUME WatchAssumption ==
  /\ backoffMin \in Nat \ {0}
  /\ backoffMax \in Nat
  /\ backoffMin <= backoffMax

VARIABLES
  aborted,   \* signal.aborted
  loop,      \* the await runWatchLoop is at
  race,      \* the promise awaited there
  backoff,   \* runWatchLoop's local
  pending, closed, waiters,   \* the fields of BundleWatch
  asked,     \* each consumer's promise from next()
  received,  \* history: CHANGED events received
  told       \* history: received, when next() last resolved true

loopVars  == <<loop, race, backoff>>
chanVars  == <<pending, closed, waiters, asked, told>>
watchVars == <<aborted, loopVars, chanVars, received, serverVars>>

WatchTypeOK ==
  /\ aborted \in BOOLEAN
  /\ loop \in {"start", "opened", "unopened", "recv", "sleep", "exited"}
  /\ race \in {"pending", "value", "failed", "aborted"}
  /\ backoff \in backoffMin .. backoffMax
  /\ pending \in BOOLEAN
  /\ closed \in BOOLEAN
  /\ waiters \in Seq(Consumers)
  /\ asked \in [Consumers -> {"idle", "waiting", "changed", "stopped"}]
  /\ received \in 0 .. MaxChanges
  /\ told \in 0 .. MaxChanges
  /\ StreamTypeOK

WatchInit ==
  /\ aborted \in BOOLEAN
  /\ loop = "start"
  /\ race = "pending"
  /\ backoff = backoffMin
  /\ pending = FALSE
  /\ closed = FALSE
  /\ waiters = << >>
  /\ asked = [c \in Consumers |-> "idle"]
  /\ received = 0
  /\ told = 0
  /\ StreamInit
-----------------------------------------------------------------------------
(* BundleWatch *)

\* Mutant: the signal stays pending though a waiter took it.
SignalTwice ==
  /\ pending' = ~closed
  /\ IF waiters # << >>
     THEN /\ asked' = [asked EXCEPT ![Head(waiters)] = "changed"]
          /\ waiters' = Tail(waiters)
          /\ told' = received'
     ELSE UNCHANGED <<asked, waiters, told>>
  /\ UNCHANGED closed

\* _signalChange: the first waiter takes it, or it stays pending.
SignalChange ==
  /\ IF closed \/ pending THEN UNCHANGED <<pending, asked, waiters, told>>
     ELSE IF waiters # << >>
     THEN /\ asked' = [asked EXCEPT ![Head(waiters)] = "changed"]
          /\ waiters' = Tail(waiters)
          /\ told' = received'
          /\ UNCHANGED pending
     ELSE pending' = TRUE /\ UNCHANGED <<asked, waiters, told>>
  /\ UNCHANGED closed

\* _close: every waiter gets false.
Close ==
  /\ closed' = TRUE
  /\ waiters' = << >>
  /\ asked' = [c \in Consumers |->
                IF asked[c] = "waiting" THEN "stopped" ELSE asked[c]]
  /\ UNCHANGED <<pending, told>>

\* next(): a pending change first, then the end, then wait.
NextCall(c) ==
  /\ asked[c] # "waiting"
  /\ \/ /\ pending
        /\ pending' = FALSE
        /\ asked' = [asked EXCEPT ![c] = "changed"]
        /\ told' = received
        /\ UNCHANGED waiters
     \/ /\ ~pending /\ closed
        /\ asked' = [asked EXCEPT ![c] = "stopped"]
        /\ UNCHANGED <<pending, waiters, told>>
     \/ /\ ~pending /\ ~closed
        /\ waiters' = Append(waiters, c)
        /\ asked' = [asked EXCEPT ![c] = "waiting"]
        /\ UNCHANGED <<pending, told>>
  /\ UNCHANGED <<aborted, loopVars, closed, received, serverVars>>
-----------------------------------------------------------------------------
(* runWatchLoop *)

nextBackoff(current) ==
  IF current * 2 < backoffMax THEN current * 2 ELSE backoffMax

\* raceAbort and sleepOrAborted settle at once for an aborted signal.
Await(l) ==
  /\ loop' = l
  /\ race' = IF aborted THEN "aborted" ELSE "pending"

\* return, with _close in the finally block
Exit ==
  /\ loop' = "exited"
  /\ Close
  /\ UNCHANGED <<aborted, race, received, serverVars>>

\* The top of the loop: open() makes a stream, or throws.
Attempt ==
  \/ aborted /\ Exit
  \/ /\ ~aborted
     /\ \/ Await("opened") /\ Open
        \/ Await("unopened") /\ UNCHANGED serverVars
     /\ UNCHANGED <<aborted, chanVars, received>>

Start ==
  /\ loop = "start"
  /\ Attempt
  /\ UNCHANGED backoff

\* Mutant: a stream that is over fails its recv() with values still buffered.
TerminalFirst ==
  /\ race = "pending"
  /\ \/ loop \in {"opened", "sleep"} /\ race' = "value"
     \/ loop = "unopened" /\ race' = "failed"
     \/ loop = "recv" /\ streamUp /\ inbox # << >> /\ race' = "value"
     \/ loop = "recv" /\ ~streamUp /\ race' = "failed"
  /\ UNCHANGED <<aborted, loop, backoff, chanVars, received, serverVars>>

\* The promise settles.  The mailbox of recv() holds back the end of the stream
\* until its values are taken.
Settle ==
  /\ race = "pending"
  /\ \/ loop \in {"opened", "sleep"} /\ race' = "value"
     \/ loop = "unopened" /\ race' = "failed"
     \/ loop = "recv" /\ inbox # << >> /\ race' = "value"
     \/ loop = "recv" /\ inbox = << >> /\ ~streamUp /\ race' = "failed"
  /\ UNCHANGED <<aborted, loop, backoff, chanVars, received, serverVars>>

OpenFailed ==
  /\ loop = "unopened" /\ race = "failed"
  /\ Await("sleep")
  /\ UNCHANGED <<aborted, backoff, chanVars, received, serverVars>>

Opened ==
  /\ loop = "opened" /\ race = "value"
  /\ Await("recv")
  /\ UNCHANGED <<aborted, backoff, chanVars, received, serverVars>>

Received ==
  /\ loop = "recv" /\ race = "value"
  /\ Take
  /\ Await("recv")
  /\ backoff' = backoffMin
  /\ IF Head(inbox) = "changed"
     THEN received' = received + 1 /\ SignalChange
     ELSE UNCHANGED <<received, chanVars>>
  /\ UNCHANGED aborted

RecvFailed ==
  /\ loop = "recv" /\ race = "failed"
  /\ \/ aborted /\ Exit
     \/ ~aborted /\ Await("sleep") /\ UNCHANGED <<aborted, chanVars, received, serverVars>>
  /\ UNCHANGED backoff

Slept ==
  /\ loop = "sleep" /\ race = "value"
  /\ backoff' = nextBackoff(backoff)
  /\ Attempt

\* AbortRaceError, or sleepOrAborted's false
AbortSeen ==
  /\ loop # "exited" /\ race = "aborted"
  /\ Exit
  /\ UNCHANGED backoff

WatchLoop ==
  \/ Start \/ Settle
  \/ OpenFailed \/ Opened \/ Received \/ RecvFailed \/ Slept \/ AbortSeen
-----------------------------------------------------------------------------
\* Mutant: no listener hears the abort.
AbortUnheard ==
  /\ ~aborted
  /\ aborted' = TRUE
  /\ UNCHANGED <<loopVars, chanVars, received, serverVars>>

\* controller.abort() calls the listeners: every stream is cancelled, and the
\* await is settled unless it already was.
AbortSignal ==
  /\ ~aborted
  /\ aborted' = TRUE
  /\ race' = IF race = "pending" /\ loop # "start" THEN "aborted" ELSE race
  /\ Cancel
  /\ UNCHANGED <<loop, backoff, chanVars, received>>

-----------------------------------------------------------------------------
\* A signal is pending exactly when a change came since next() last resolved
\* true, whoever asked: no change is lost, none is told twice
\* (typescript/src/restart.ts:109-114, 121-154).
CoalescingIsExact == pending <=> told < received

=============================================================================
