------------------------------ MODULE PyWatch ------------------------------
(***************************************************************************)
(* The Python bundle watch (python/src/signet_client/restart.py): the      *)
(* thread of _watch_loop, the Watch handle with wait_for_change and close, *)
(* and the _StreamHolder through which close cancels the stream, over the  *)
(* stream of WatchStream.  There is no cancellation but close.             *)
(***************************************************************************)
EXTENDS WatchStream

CONSTANTS
  Closers,             \* threads that may call close, once each
  backoffMin, backoffMax

VARIABLES
  loop,     \* where _watch_loop is
  backoff,  \* its local
  holder,   \* holder._stream: none, the current stream, or one that is over
  stop,     \* the event watch._stop
  closing,  \* where each caller of close is
  changes,  \* signals in the queue: 0 or 1
  asked     \* the consumer is blocked in wait_for_change

loopVars  == <<loop, backoff, holder>>
closeVars == <<stop, closing>>
chanVars  == <<changes, asked>>
watchVars == <<loopVars, closeVars, chanVars, serverVars>>

WatchTypeOK ==
  /\ loop \in {"top", "opening", "unheld", "recv", "sleep", "exited"}
  /\ backoff \in backoffMin .. backoffMax
  /\ holder \in {"none", "old", "current"}
  /\ stop \in BOOLEAN
  /\ closing \in [Closers -> {"idle", "stopped", "joining", "returned"}]
  /\ changes \in 0 .. 1
  /\ asked \in BOOLEAN
  /\ StreamTypeOK

WatchInit ==
  /\ loop = "top"
  /\ backoff = backoffMin
  /\ holder = "none"
  /\ stop = FALSE
  /\ closing = [c \in Closers |-> "idle"]
  /\ changes = 0
  /\ asked = FALSE
  /\ StreamInit
-----------------------------------------------------------------------------
(* _watch_loop *)

_next_backoff(current) ==
  LET nxt == current * 2
  IN  IF nxt > backoffMax THEN backoffMax ELSE nxt

\* while not stop_event.is_set()
LoopTop ==
  /\ loop = "top"
  /\ loop' = IF stop THEN "exited" ELSE "opening"
  /\ UNCHANGED <<backoff, holder, closeVars, chanVars, serverVars>>

OpenFails ==
  /\ loop = "opening"
  /\ loop' = "sleep"
  /\ UNCHANGED <<backoff, holder, closeVars, chanVars, serverVars>>

\* open_stream: the call is made ...
OpenSucceeds ==
  /\ loop = "opening"
  /\ loop' = "unheld"
  /\ holder' = IF holder = "none" THEN "none" ELSE "old"
  /\ Open
  /\ UNCHANGED <<backoff, closeVars, chanVars>>

\* ... and only then given to the holder.
HolderSet ==
  /\ loop = "unheld"
  /\ loop' = "recv"
  /\ holder' = "current"
  /\ UNCHANGED <<backoff, closeVars, chanVars, serverVars>>

\* An event: put it or coalesce it, then look at the stop event.
Recv ==
  /\ loop = "recv"
  /\ Take
  /\ backoff' = backoffMin
  /\ changes' = IF Head(inbox) = "changed" THEN 1 ELSE changes
  /\ loop' = IF stop THEN "exited" ELSE "recv"
  /\ UNCHANGED <<holder, closeVars, asked>>

\* Mutant: a stream that broke is left with events still unread.
RecvFailsEarly ==
  /\ loop = "recv"
  /\ ~streamUp
  /\ loop' = IF stop THEN "exited" ELSE "sleep"
  /\ UNCHANGED <<backoff, holder, closeVars, chanVars, serverVars>>

\* recv() raises: after what the server sent, or at once for a cancelled call.
RecvFails ==
  /\ loop = "recv"
  /\ ~streamUp
  /\ inbox = << >> \/ stop
  /\ loop' = IF stop THEN "exited" ELSE "sleep"
  /\ UNCHANGED <<backoff, holder, closeVars, chanVars, serverVars>>

\* stop_event.wait(backoff) times out, or is woken by the event.
Slept ==
  /\ loop = "sleep"
  /\ ~stop
  /\ loop' = "top"
  /\ backoff' = _next_backoff(backoff)
  /\ UNCHANGED <<holder, closeVars, chanVars, serverVars>>

SleepStopped ==
  /\ loop = "sleep"
  /\ stop
  /\ loop' = "exited"
  /\ UNCHANGED <<backoff, holder, closeVars, chanVars, serverVars>>

WatchLoop ==
  \/ LoopTop \/ OpenFails \/ OpenSucceeds \/ HolderSet
  \/ Recv \/ RecvFails \/ Slept \/ SleepStopped
-----------------------------------------------------------------------------
(* Watch.close *)

CloseStop(c) ==
  /\ closing[c] = "idle"
  /\ closing' = [closing EXCEPT ![c] = "stopped"]
  /\ stop' = TRUE
  /\ UNCHANGED <<loopVars, chanVars, serverVars>>

\* Mutant: close leaves it to the stop event to end the loop.
CloseWithoutCancel(c) ==
  /\ closing[c] = "stopped"
  /\ closing' = [closing EXCEPT ![c] = "joining"]
  /\ UNCHANGED <<loopVars, stop, chanVars, serverVars>>

\* holder.cancel(): a call that is over, or not there yet, is not cancelled.
CloseCancel(c) ==
  /\ closing[c] = "stopped"
  /\ closing' = [closing EXCEPT ![c] = "joining"]
  /\ IF holder = "current" THEN Cancel ELSE UNCHANGED serverVars
  /\ UNCHANGED <<loopVars, stop, chanVars>>

\* self._thread.join()
CloseReturn(c) ==
  /\ closing[c] = "joining"
  /\ loop = "exited"
  /\ closing' = [closing EXCEPT ![c] = "returned"]
  /\ UNCHANGED <<loopVars, stop, chanVars, serverVars>>

CloseSteps(c) == CloseCancel(c) \/ CloseReturn(c)
-----------------------------------------------------------------------------
(* wait_for_change, without a timeout *)

WaitForChange ==
  /\ ~asked
  /\ asked' = TRUE
  /\ UNCHANGED <<loopVars, closeVars, changes, serverVars>>

GetChange ==
  /\ asked
  /\ changes = 1
  /\ changes' = 0
  /\ asked' = FALSE
  /\ UNCHANGED <<loopVars, closeVars, serverVars>>
-----------------------------------------------------------------------------
WatchEnv ==
  /\ StreamBreaks \/ ServerEnv
  /\ UNCHANGED <<loopVars, closeVars, chanVars>>
-----------------------------------------------------------------------------
(* Properties *)

\* A close that finds the loop anywhere but between its look at the stop event
\* and the hand-over of the new stream returns: on a stream that says nothing,
\* in a backoff, and next to another close
\* (python/src/signet_client/restart.py:333-352, 388-394, 449-454).
CloseReturns ==
  \A c \in Closers :
    (closing[c] = "stopped" /\ loop \notin {"opening", "unheld"})
      ~> closing[c] = "returned"

=============================================================================
