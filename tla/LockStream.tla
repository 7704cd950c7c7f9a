----------------------------- MODULE LockStream -----------------------------
(***************************************************************************)
(* The bidirectional AcquireRestartLock stream, from the client's gRPC     *)
(* runtime to the signet server: neither is code of this repository.  The  *)
(* server is known by the protocol its generated stubs document: the first *)
(* request enters a queue, QUEUE_POSITION updates may follow, ACQUIRED     *)
(* comes once, TTL_EXTENDED answers a heartbeat, and the lock is held while*)
(* the stream is open.  The clients' lock modules extend this one.         *)
(***************************************************************************)
EXTENDS Naturals, Sequences

CONSTANTS
  MaxInbox,    \* bound: responses sent by the server and not yet received
  MaxInFlight  \* bound: heartbeats sent and not yet answered

ASSUME StreamAssumption ==
  /\ MaxInbox \in Nat \ {0}
  /\ MaxInFlight \in Nat \ {0}

VARIABLES
  stream,      \* as the client's runtime sees it; "aborted" by the client itself
  sendClosed,  \* the client half-closed the stream
  inbox,       \* responses on their way to the client
  heartbeats,  \* heartbeats the server has not answered
  srv          \* the server's side: where this client is with the lock

streamVars == <<stream, sendClosed, inbox, heartbeats, srv>>

Responses == {"queuePosition", "acquired", "ttlExtended"}

StreamTypeOK ==
  /\ stream \in {"none", "open", "ended", "aborted"}
  /\ sendClosed \in BOOLEAN
  /\ inbox \in Seq(Responses)
  /\ heartbeats \in Nat
  /\ srv \in {"none", "queued", "granted", "gone"}

StreamInit ==
  /\ stream = "none"
  /\ sendClosed = FALSE
  /\ inbox = << >>
  /\ heartbeats = 0
  /\ srv = "none"

Over == stream \in {"ended", "aborted"}
-----------------------------------------------------------------------------
(* Calls of the client *)

Open ==
  /\ stream = "none"
  /\ stream' = "open"
  /\ UNCHANGED <<sendClosed, inbox, heartbeats, srv>>

Enqueue ==
  /\ stream = "open"
  /\ srv' = IF srv = "none" THEN "queued" ELSE srv
  /\ UNCHANGED <<stream, sendClosed, inbox, heartbeats>>

\* Open and Enqueue in one, for a client that does not wait in between.
OpenWithRequest ==
  /\ stream = "none"
  /\ stream' = "open"
  /\ srv' = "queued"
  /\ UNCHANGED <<sendClosed, inbox, heartbeats>>

CanBeat == stream = "open" /\ ~sendClosed

Beat ==
  /\ CanBeat
  /\ heartbeats < MaxInFlight
  /\ heartbeats' = heartbeats + 1
  /\ UNCHANGED <<stream, sendClosed, inbox, srv>>

HalfClose ==
  /\ sendClosed' = TRUE
  /\ UNCHANGED <<stream, inbox, heartbeats, srv>>

\* The client cancels the call, or gRPC finishes it after a failed Send.
Abort ==
  /\ stream' = IF stream = "open" THEN "aborted" ELSE stream
  /\ UNCHANGED <<sendClosed, inbox, heartbeats, srv>>

\* A receive returns the oldest response ...
Arrived(m) == inbox # << >> /\ Head(inbox) = m

Take ==
  /\ inbox' = Tail(inbox)
  /\ UNCHANGED <<stream, sendClosed, heartbeats, srv>>

\* ... or fails: after all of them, or at once on a stream its client aborted.
RecvError ==
  \/ stream = "aborted"
  \/ stream = "ended" /\ inbox = << >>
-----------------------------------------------------------------------------
(* The network and the server *)

\* The connection breaks, or the server's end of the stream arrives.
StreamEnds ==
  /\ stream = "open"
  /\ stream' = "ended"
  /\ UNCHANGED <<sendClosed, inbox, heartbeats, srv>>

ServerSend(m) ==
  /\ stream = "open"
  /\ Len(inbox) < MaxInbox
  /\ inbox' = Append(inbox, m)
  /\ \/ m = "queuePosition" /\ srv = "queued" /\ UNCHANGED <<srv, heartbeats>>
     \/ m = "acquired" /\ srv = "queued" /\ srv' = "granted"
        /\ UNCHANGED heartbeats
     \/ m = "ttlExtended" /\ srv = "granted" /\ heartbeats > 0
        /\ heartbeats' = heartbeats - 1 /\ UNCHANGED srv
  /\ UNCHANGED <<stream, sendClosed>>

\* The server ends its side: an error, an exhausted ttl, or because the client
\* closed or aborted the stream.
ServerDrops ==
  /\ stream # "none"
  /\ srv # "gone"
  /\ srv' = "gone"
  /\ UNCHANGED <<stream, sendClosed, inbox, heartbeats>>

StreamEnv ==
  \/ StreamEnds \/ ServerDrops
  \/ \E m \in Responses : ServerSend(m)

=============================================================================
