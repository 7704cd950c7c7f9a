---------------------------- MODULE WatchStream ----------------------------
(***************************************************************************)
(* The WatchServiceBundle stream, from the client's gRPC runtime to the    *)
(* signet server: neither is code of this repository.  The server is known *)
(* by the protocol its generated stubs document: it notifies the watchers  *)
(* registered at the moment of a change, and sends no initial event, so a  *)
(* change published while a watcher is away is never sent.  The clients'   *)
(* watch modules extend this one.                                          *)
(***************************************************************************)
EXTENDS Naturals, Sequences

CONSTANTS
  MaxChanges,    \* bound: bundle changes published
  MaxInbox       \* bound: events of other types sent and not yet received

ASSUME WatchStreamAssumption == MaxChanges \in Nat /\ MaxInbox \in Nat

VARIABLES
  streamUp,   \* the current stream, as the client's gRPC runtime sees it
  registered, \* the server has registered the stream as a watcher
  inbox,      \* events on their way to the watch loop
  published   \* number of bundle changes so far

serverVars == <<streamUp, registered, inbox, published>>

Events == {"changed", "unspecified"}

StreamTypeOK ==
  /\ streamUp \in BOOLEAN
  /\ registered \in BOOLEAN
  /\ inbox \in Seq(Events)
  /\ published \in 0 .. MaxChanges

StreamInit ==
  /\ streamUp = FALSE
  /\ registered = FALSE
  /\ inbox = << >>
  /\ published = 0

\* The client opens a stream; the server registers it some time later.
Open ==
  /\ streamUp' = TRUE
  /\ registered' = FALSE
  /\ inbox' = << >>
  /\ UNCHANGED published

\* The client takes the next event off the stream.
Take ==
  /\ inbox # << >>
  /\ inbox' = Tail(inbox)
  /\ UNCHANGED <<streamUp, registered, published>>

\* The client cancels the call, whatever became of it.
Cancel ==
  /\ streamUp' = FALSE
  /\ registered' = FALSE
  /\ UNCHANGED <<inbox, published>>

\* The connection breaks or the server ends the stream, or gRPC does for a done context.
StreamBreaks ==
  /\ streamUp
  /\ streamUp' = FALSE
  /\ registered' = FALSE
  /\ UNCHANGED <<inbox, published>>

Registers ==
  /\ streamUp
  /\ ~registered
  /\ registered' = TRUE
  /\ UNCHANGED <<streamUp, inbox, published>>

\* Somebody changes the bundle: the watchers of the moment are notified.
Publishes ==
  /\ published < MaxChanges
  /\ published' = published + 1
  /\ inbox' = IF registered THEN Append(inbox, "changed") ELSE inbox
  /\ UNCHANGED <<streamUp, registered>>

\* An event of another type, which no client of today acts upon.
SendsOther ==
  /\ registered
  /\ Len(inbox) < MaxInbox
  /\ inbox' = Append(inbox, "unspecified")
  /\ UNCHANGED <<streamUp, registered, published>>

ServerEnv == Registers \/ Publishes \/ SendsOther

=============================================================================
