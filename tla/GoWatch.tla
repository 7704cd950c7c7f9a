------------------------------ MODULE GoWatch ------------------------------
(***************************************************************************)
(* The Go bundle watch (go/restart.go): WatchBundle, the watchLoop         *)
(* goroutine with its reconnection backoff, and the coalescing channel the *)
(* application receives from, over the stream of WatchStream.              *)
(***************************************************************************)
EXTENDS WatchStream

CONSTANTS
  watchBackoffMin, watchBackoffMax,  \* seconds
  MaxFailures    \* bound: where the history variable failures stops counting

ASSUME WatchAssumption ==
  /\ watchBackoffMin \in Nat \ {0}
  /\ watchBackoffMax \in Nat
  /\ watchBackoffMin <= watchBackoffMax
  /\ MaxFailures \in Nat
  /\ watchBackoffMin * 2^MaxFailures >= watchBackoffMax

\* What a power of two is, which no prover of TLAPS knows of a variable exponent.
ASSUME PowersOfTwo ==
  \A n \in 0 .. MaxFailures : 2^n \in Nat /\ 2^(n + 1) = 2 * 2^n

VARIABLES
  ctxDone,    \* the caller's ctx is done
  loop,       \* where watchLoop is
  backoff,    \* watchLoop's local, in seconds
  failures,   \* history: sleeps since the last successful receive
  changes,    \* signals in the channel: 0 or 1
  closed,     \* the channel is closed
  unread      \* history: a change was received since the application last was told

loopVars   == <<loop, backoff, failures>>
chanVars   == <<changes, closed, unread>>
watchVars  == <<ctxDone, loopVars, chanVars, serverVars>>

WatchTypeOK ==
  /\ ctxDone \in BOOLEAN
  /\ loop \in {"top", "opening", "recv", "sleep", "exited"}
  /\ backoff \in watchBackoffMin .. watchBackoffMax
  /\ failures \in 0 .. MaxFailures
  /\ changes \in 0 .. 1
  /\ closed \in BOOLEAN
  /\ unread \in BOOLEAN
  /\ StreamTypeOK

WatchInit ==
  /\ ctxDone = FALSE
  /\ loop = "top"
  /\ backoff = watchBackoffMin
  /\ failures = 0
  /\ changes = 0
  /\ closed = FALSE
  /\ unread = FALSE
  /\ StreamInit
-----------------------------------------------------------------------------
(* watchLoop *)

nextBackoff(cur) ==
  LET next == cur * 2
  IN  IF next > watchBackoffMax THEN watchBackoffMax ELSE next

\* return, with the deferred close(changes)
Exit ==
  /\ loop' = "exited"
  /\ closed' = TRUE
  /\ UNCHANGED <<ctxDone, backoff, failures, changes, unread, serverVars>>

LoopTop ==
  /\ loop = "top"
  /\ \/ ctxDone /\ Exit
     \/ /\ ~ctxDone
        /\ loop' = "opening"
        /\ UNCHANGED <<ctxDone, backoff, failures, chanVars, serverVars>>

OpenFails ==
  /\ loop = "opening"
  /\ loop' = "sleep"
  /\ UNCHANGED <<ctxDone, backoff, failures, chanVars, serverVars>>

OpenSucceeds ==
  /\ loop = "opening"
  /\ loop' = "recv"
  /\ Open
  /\ UNCHANGED <<ctxDone, backoff, failures, chanVars>>

\* Mutant: an event of any type is signalled.
RecvAnyEvent ==
  /\ loop = "recv"
  /\ Take
  /\ backoff' = watchBackoffMin
  /\ failures' = 0
  /\ changes' = 1
  /\ unread' = (unread \/ Head(inbox) = "changed")
  /\ UNCHANGED <<ctxDone, loop, closed>>

\* Mutant: a successful receive does not reset the backoff.
RecvWithoutReset ==
  /\ loop = "recv"
  /\ Take
  /\ failures' = 0
  /\ IF Head(inbox) = "changed"
     THEN changes' = 1 /\ unread' = TRUE
     ELSE UNCHANGED <<changes, unread>>
  /\ UNCHANGED <<ctxDone, loop, backoff, closed>>

\* Any event resets the backoff; a CHANGED event is pushed, or coalesced with
\* the signal the application has not received yet.
Recv ==
  /\ loop = "recv"
  /\ Take
  /\ backoff' = watchBackoffMin
  /\ failures' = 0
  /\ IF Head(inbox) = "changed"
     THEN changes' = 1 /\ unread' = TRUE
     ELSE UNCHANGED <<changes, unread>>
  /\ UNCHANGED <<ctxDone, loop, closed>>

\* Mutant: a broken stream is left with events still unread.
RecvFailsEarly ==
  /\ loop = "recv"
  /\ ~streamUp
  /\ \/ ctxDone /\ Exit
     \/ /\ ~ctxDone
        /\ loop' = "sleep"
        /\ UNCHANGED <<ctxDone, backoff, failures, chanVars, serverVars>>

\* Recv fails after what the server sent, or at once when ctx is done; the
\* loop then checks ctx before it sleeps.
RecvFails ==
  /\ loop = "recv"
  /\ ~streamUp
  /\ inbox = << >> \/ ctxDone
  /\ \/ ctxDone /\ Exit
     \/ /\ ~ctxDone
        /\ loop' = "sleep"
        /\ UNCHANGED <<ctxDone, backoff, failures, chanVars, serverVars>>

\* sleepOrDone returns true: its select may take the timer though ctx is done.
Slept ==
  /\ loop = "sleep"
  /\ loop' = "top"
  /\ backoff' = nextBackoff(backoff)
  /\ failures' = IF failures < MaxFailures THEN failures + 1 ELSE failures
  /\ UNCHANGED <<ctxDone, chanVars, serverVars>>

SleepCancelled ==
  /\ loop = "sleep"
  /\ ctxDone
  /\ Exit

WatchLoop ==
  \/ LoopTop \/ OpenFails \/ OpenSucceeds
  \/ Recv \/ RecvFails \/ Slept \/ SleepCancelled
-----------------------------------------------------------------------------
(* The application, the gRPC runtime and the server *)

\* The application receives a signal.
ReceiveChange ==
  /\ changes = 1
  /\ changes' = 0
  /\ unread' = FALSE
  /\ UNCHANGED <<ctxDone, loopVars, closed, serverVars>>

\* The application receives from the closed and drained channel.
ChannelClosed == closed /\ changes = 0

CancelCtx ==
  /\ ~ctxDone
  /\ ctxDone' = TRUE
  /\ UNCHANGED <<loopVars, chanVars, serverVars>>

StreamEnds == StreamBreaks /\ UNCHANGED <<ctxDone, loopVars, chanVars>>
ServerRegisters == Registers /\ UNCHANGED <<ctxDone, loopVars, chanVars>>
Publish == Publishes /\ UNCHANGED <<ctxDone, loopVars, chanVars>>
ServerSendsOther == SendsOther /\ UNCHANGED <<ctxDone, loopVars, chanVars>>

WatchEnv ==
  \/ CancelCtx \/ StreamEnds \/ ServerRegisters
  \/ Publish \/ ServerSendsOther

-----------------------------------------------------------------------------
(* Properties *)

\* The channel holds a signal exactly when a change was received and the
\* application was not told since: coalescing loses no news and makes none up
\* (go/restart.go:33-37, 74-81).
CoalescingIsExact == unread <=> changes = 1

\* The delay before the next attempt is 1s doubled for every attempt since the
\* last successful receive and capped at 30s, although the loop only ever
\* doubles its previous value (go/restart.go:34-36, 73, 87, 92-98).
BackoffSchedule ==
  LET uncapped == watchBackoffMin * 2^failures
  IN  backoff = IF uncapped > watchBackoffMax THEN watchBackoffMax ELSE uncapped

\* The channel is closed only for a done ctx: an application that sees it closed
\* may return ctx.Err() knowing it is not nil (go/restart.go:37, 327-329).
ClosedMeansDone == closed => ctxDone

=============================================================================
