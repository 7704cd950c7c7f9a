------------------------------ MODULE RsWatch ------------------------------
(***************************************************************************)
(* The Rust bundle watch (rust/src/restart.rs): the task that runs         *)
(* watch_loop, and the channel of one place it signals changes through,    *)
(* over the stream of WatchStream. The channel is closed when the task     *)
(* ends, and its receiver may be dropped before that.                      *)
(***************************************************************************)
EXTENDS WatchStream

CONSTANTS WATCH_BACKOFF_MIN, WATCH_BACKOFF_MAX   \* seconds

VARIABLES
  cancelled,  \* the CancellationToken
  loop,       \* where watch_loop is
  backoff,    \* its local, in seconds
  changes,    \* signals in the channel: 0 or 1
  receiver    \* the channel's receiver exists

loopVars  == <<loop, backoff>>
chanVars  == <<changes, receiver>>
watchVars == <<cancelled, loopVars, chanVars, serverVars>>

WatchTypeOK ==
  /\ cancelled \in BOOLEAN
  /\ loop \in {"top", "opening", "recv", "sleep", "exited"}
  /\ backoff \in WATCH_BACKOFF_MIN .. WATCH_BACKOFF_MAX
  /\ changes \in 0 .. 1
  /\ receiver \in BOOLEAN
  /\ StreamTypeOK

WatchInit ==
  /\ cancelled = FALSE
  /\ loop = "top"
  /\ backoff = WATCH_BACKOFF_MIN
  /\ changes = 0
  /\ receiver = TRUE
  /\ StreamInit
-----------------------------------------------------------------------------
(* watch_loop *)

next_backoff(current) ==
  LET doubled == current * 2
  IN  IF doubled > WATCH_BACKOFF_MAX THEN WATCH_BACKOFF_MAX ELSE doubled

LoopTop ==
  /\ loop = "top"
  /\ loop' = IF cancelled THEN "exited" ELSE "opening"
  /\ UNCHANGED <<cancelled, backoff, chanVars, serverVars>>

\* open().await ends with the call, which nothing races with the token.
OpenFails ==
  /\ loop = "opening"
  /\ loop' = "sleep"
  /\ UNCHANGED <<cancelled, backoff, chanVars, serverVars>>

OpenSucceeds ==
  /\ loop = "opening"
  /\ loop' = "recv"
  /\ Open
  /\ UNCHANGED <<cancelled, backoff, chanVars>>

\* try_send fails on a full channel, or one without a receiver.
Recv ==
  /\ loop = "recv"
  /\ Take
  /\ backoff' = WATCH_BACKOFF_MIN
  /\ changes' = IF Head(inbox) = "changed" /\ receiver THEN 1 ELSE changes
  /\ UNCHANGED <<cancelled, loop, receiver>>

\* Mutant: the end of the stream is looked at before what it brought.
RecvFailsEarly ==
  /\ loop = "recv"
  /\ ~streamUp
  /\ loop' = IF cancelled THEN "exited" ELSE "sleep"
  /\ UNCHANGED <<cancelled, backoff, chanVars, serverVars>>

\* break, and the token is checked before the sleep
RecvFails ==
  /\ loop = "recv"
  /\ ~streamUp /\ inbox = << >>
  /\ loop' = IF cancelled THEN "exited" ELSE "sleep"
  /\ UNCHANGED <<cancelled, backoff, chanVars, serverVars>>

\* The arm of the token returns, which drops the stream and the channel's sender.
RecvCancelled ==
  /\ loop = "recv"
  /\ cancelled
  /\ loop' = "exited"
  /\ Cancel
  /\ UNCHANGED <<cancelled, backoff, chanVars>>

\* Mutant: the token wakes nobody from the backoff, and nobody looks at it after.
SleptThenOpens ==
  /\ loop = "sleep"
  /\ loop' = "opening"
  /\ backoff' = next_backoff(backoff)
  /\ UNCHANGED <<cancelled, chanVars, serverVars>>

\* The select may take the timer though the token was cancelled.
Slept ==
  /\ loop = "sleep"
  /\ loop' = "top"
  /\ backoff' = next_backoff(backoff)
  /\ UNCHANGED <<cancelled, chanVars, serverVars>>

SleepCancelled ==
  /\ loop = "sleep"
  /\ cancelled
  /\ loop' = "exited"
  /\ UNCHANGED <<cancelled, backoff, chanVars, serverVars>>

\* what the task does without waiting for the call of open()
WatchRuns == LoopTop \/ Recv \/ RecvFails \/ RecvCancelled \/ Slept \/ SleepCancelled

WatchLoop == WatchRuns \/ OpenFails \/ OpenSucceeds
-----------------------------------------------------------------------------
(* The application, the network and the server *)

\* changes.recv().await returns Some(()), or None.
ReceiveChange ==
  /\ changes = 1
  /\ changes' = 0
  /\ UNCHANGED <<cancelled, loopVars, receiver, serverVars>>

ChannelClosed == loop = "exited" /\ changes = 0

DropReceiver ==
  /\ receiver' = FALSE
  /\ changes' = 0
  /\ UNCHANGED <<cancelled, loopVars, serverVars>>

CancelToken ==
  /\ ~cancelled
  /\ cancelled' = TRUE
  /\ UNCHANGED <<loopVars, chanVars, serverVars>>

WatchEnv ==
  \/ CancelToken
  \/ (StreamBreaks \/ ServerEnv) /\ UNCHANGED <<cancelled, loopVars, chanVars>>
-----------------------------------------------------------------------------
(* Properties *)

\* A cancelled token ends the watch in each of its awaits but one, whoever still
\* holds the receiver: in open() the loop waits for the server
\* (rust/src/restart.rs:477-478, 526, 537-561).
CancelEndsWatch == (cancelled /\ loop # "opening") ~> loop = "exited"

=============================================================================
