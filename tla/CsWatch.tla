------------------------------ MODULE CsWatch ------------------------------
(***************************************************************************)
(* The C# bundle watch (csharp/Watch.cs): WatchLoopAsync and the channel   *)
(* of one place it writes to, over the stream of WatchStream. The call is  *)
(* made with the token, so cancelling it ends the stream as well.          *)
(***************************************************************************)
EXTENDS WatchStream

CONSTANTS WatchBackoffMin, WatchBackoffMax   \* seconds

VARIABLES
  cancelled,  \* the CancellationToken
  loop,       \* where WatchLoopAsync is
  backoff,    \* its local, in seconds
  changes     \* signals in the channel: 0 or 1

loopVars  == <<loop, backoff>>
watchVars == <<cancelled, loopVars, changes, serverVars>>

WatchTypeOK ==
  /\ cancelled \in BOOLEAN
  /\ loop \in {"top", "opening", "recv", "delay", "exited"}
  /\ backoff \in WatchBackoffMin .. WatchBackoffMax
  /\ changes \in 0 .. 1
  /\ StreamTypeOK

WatchInit ==
  /\ cancelled = FALSE
  /\ loop = "top"
  /\ backoff = WatchBackoffMin
  /\ changes = 0
  /\ StreamInit
-----------------------------------------------------------------------------
(* WatchLoopAsync *)

NextBackoff(current) ==
  LET next == current + current
  IN  IF next > WatchBackoffMax THEN WatchBackoffMax ELSE next

LoopTop ==
  /\ loop = "top"
  /\ loop' = IF cancelled THEN "exited" ELSE "opening"
  /\ UNCHANGED <<cancelled, backoff, changes, serverVars>>

\* The call object is there at once, whatever becomes of the call.
OpenCall ==
  /\ loop = "opening"
  /\ loop' = "recv"
  /\ Open
  /\ UNCHANGED <<cancelled, backoff, changes>>

\* The channel is shut down.
OpenFails ==
  /\ loop = "opening"
  /\ loop' = "delay"
  /\ UNCHANGED <<cancelled, backoff, changes, serverVars>>

\* DropWrite: a signal that nobody has read takes the next one in.
Receive ==
  /\ loop = "recv"
  /\ Take
  /\ backoff' = WatchBackoffMin
  /\ changes' = IF Head(inbox) = "changed" THEN 1 ELSE changes
  /\ UNCHANGED <<cancelled, loop>>

\* Mutant: the end of the stream is looked at before what it brought.
ReceiveFailsEarly ==
  /\ loop = "recv"
  /\ ~streamUp
  /\ loop' = IF cancelled THEN "exited" ELSE "delay"
  /\ UNCHANGED <<cancelled, backoff, changes, serverVars>>

\* break, and the token is checked before the delay
ReceiveFails ==
  /\ loop = "recv"
  /\ ~streamUp /\ inbox = << >>
  /\ loop' = IF cancelled THEN "exited" ELSE "delay"
  /\ UNCHANGED <<cancelled, backoff, changes, serverVars>>

\* Mutant: the token is not passed to the reads.
ReceiveIgnoresToken ==
  /\ loop = "recv"
  /\ cancelled
  /\ UNCHANGED watchVars

\* The read throws for the token, and the runtime ends the call.
ReceiveCancelled ==
  /\ loop = "recv"
  /\ cancelled
  /\ loop' = "exited"
  /\ Cancel
  /\ UNCHANGED <<cancelled, backoff, changes>>

DelayEnds ==
  /\ loop = "delay"
  /\ loop' = "top"
  /\ backoff' = NextBackoff(backoff)
  /\ UNCHANGED <<cancelled, changes, serverVars>>

DelayCancelled ==
  /\ loop = "delay"
  /\ cancelled
  /\ loop' = "exited"
  /\ UNCHANGED <<cancelled, backoff, changes, serverVars>>

WatchLoop ==
  \/ LoopTop \/ OpenCall \/ OpenFails \/ Receive \/ ReceiveFails \/ ReceiveCancelled
  \/ DelayEnds \/ DelayCancelled
-----------------------------------------------------------------------------
(* The application, the network and the server *)

\* WaitToReadAsync, and ReadAsync behind it: both throw for a cancelled token.
ReadChange ==
  /\ ~cancelled
  /\ changes = 1
  /\ changes' = 0
  /\ UNCHANGED <<cancelled, loopVars, serverVars>>

CancelToken ==
  /\ ~cancelled
  /\ cancelled' = TRUE
  /\ UNCHANGED <<loopVars, changes, serverVars>>

WatchEnv ==
  \/ CancelToken
  \/ (StreamBreaks \/ ServerEnv) /\ UNCHANGED <<cancelled, loopVars, changes>>
-----------------------------------------------------------------------------
(* Properties *)

\* A cancelled token ends the watch, and with it the call, wherever it is
\* (csharp/Watch.cs:83-139): a replica that no longer wants to be told is not
\* left among the server's watchers.
CancelEndsWatch == cancelled ~> loop = "exited" /\ ~registered

=============================================================================
