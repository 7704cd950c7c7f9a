---------------------------- MODULE FleetRestart ----------------------------
(***************************************************************************)
(* A fleet of replicas of one service that restart one at a time: each     *)
(* runs a restart lock client (go/restart.go, seen through the contract    *)
(* RestartLock plus its heartbeats), all against the signet server.        *)
(*                                                                         *)
(* The server is not in this repository.  It is modelled from the protocol *)
(* its generated stubs document: requests queue in order, the head of the  *)
(* queue is granted the lock for ttl, a heartbeat renews the ttl, and the  *)
(* lock is given up when the stream closes or the ttl is exhausted.        *)
(*                                                                         *)
(* Time is discrete.  What is due happens before time goes on: messages    *)
(* arrive within MaxDelay ticks and a heartbeat is sent on its tick, except*)
(* that the environment may suppress MaxMissed heartbeats in a row.        *)
(***************************************************************************)
EXTENDS Naturals, Sequences, FiniteSets, SequencesExt

CONSTANTS
  Replicas,
  MaxDelay,   \* bound: ticks a message may take
  Fleets      \* the fleets considered, each a record:
              \*   replicas  those of Replicas that run
              \*   ttl       the ttl every replica asks for, in ticks
              \*   missed    bound: consecutive heartbeats that may fail to be sent
              \*   faults    streams may break and replicas crash

ASSUME FleetAssumption ==
  /\ IsFiniteSet(Replicas)
  /\ MaxDelay \in Nat
  /\ \A f \in Fleets :
       /\ f.replicas \subseteq Replicas
       /\ f.ttl \in Nat \ {0} /\ f.ttl % 4 = 0
       /\ f.missed \in Nat
       /\ f.faults \in BOOLEAN

VARIABLES
  fleet,     \* one of Fleets
  phase,     \* [Replicas -> where the client is with its lock]
  reported,  \* [Replicas -> Lost was signalled]
  clientUp,  \* [Replicas -> the client believes its stream is open]
  serverUp,  \* [Replicas -> the server has the stream open]
  hbTimer,   \* [Replicas -> ticks to the next heartbeat]
  missed,    \* [Replicas -> heartbeats suppressed in a row]
  inFlight,  \* [Replicas -> the message on the wire, with its age]
  queue,     \* the server's queue
  granted,   \* the head of the queue holds the lock
  deadline   \* ticks left to the holder

clientVars == <<phase, reported, clientUp, hbTimer, missed>>
lockVars   == <<queue, granted, deadline>>
runVars == <<phase, reported, clientUp, serverUp, hbTimer, missed, inFlight,
             queue, granted, deadline>>
vars == <<fleet, runVars>>

TTL == fleet.ttl
MaxMissed == fleet.missed
Faults == fleet.faults

\* interval := ttl / 4
HeartbeatInterval == TTL \div 4

Nothing == [kind |-> "none", age |-> 0]
Sent(k) == [kind |-> k, age |-> 0]

TypeOK ==
  /\ fleet \in Fleets
  /\ phase \in [Replicas -> {"idle", "acquiring", "held", "failed",
                             "releasing", "released", "crashed"}]
  /\ reported \in [Replicas -> BOOLEAN]
  /\ clientUp \in [Replicas -> BOOLEAN]
  /\ serverUp \in [Replicas -> BOOLEAN]
  /\ hbTimer \in [Replicas -> 0 .. TTL]
  /\ missed \in [Replicas -> 0 .. MaxMissed]
  /\ inFlight \in [Replicas -> [kind : {"none", "acquired", "heartbeat"},
                                age : 0 .. MaxDelay]]
  /\ queue \in Seq(Replicas)
  /\ granted \in BOOLEAN
  /\ deadline \in 0 .. TTL

Init ==
  /\ fleet \in Fleets
  /\ phase = [c \in Replicas |-> "idle"]
  /\ reported = [c \in Replicas |-> FALSE]
  /\ clientUp = [c \in Replicas |-> FALSE]
  /\ serverUp = [c \in Replicas |-> FALSE]
  /\ hbTimer = [c \in Replicas |-> 0]
  /\ missed = [c \in Replicas |-> 0]
  /\ inFlight = [c \in Replicas |-> Nothing]
  /\ queue = << >>
  /\ granted = FALSE
  /\ deadline = 0

Holder(c) == granted /\ queue # << >> /\ Head(queue) = c

\* The server ends c's stream: c leaves the queue, and the lock if it held it.
Dequeue(c) ==
  /\ serverUp' = [serverUp EXCEPT ![c] = FALSE]
  /\ \E i \in 1 .. Len(queue) : queue[i] = c /\ queue' = RemoveAt(queue, i)
  /\ granted' = (granted /\ ~Holder(c))
  /\ UNCHANGED deadline
-----------------------------------------------------------------------------
(* A replica *)

\* WaitForRestart calls AcquireLock; the request enters the queue.
Request(c) ==
  /\ c \in fleet.replicas
  /\ phase[c] = "idle"
  /\ phase' = [phase EXCEPT ![c] = "acquiring"]
  /\ clientUp' = [clientUp EXCEPT ![c] = TRUE]
  /\ serverUp' = [serverUp EXCEPT ![c] = TRUE]
  /\ queue' = Append(queue, c)
  /\ UNCHANGED <<reported, hbTimer, missed, inFlight, granted, deadline>>

\* Mutant: any answer of the server, a queue position too, counts as the lock.
ReceiveAnything(c) ==
  /\ phase[c] = "acquiring"
  /\ clientUp[c]
  /\ phase' = [phase EXCEPT ![c] = "held"]
  /\ inFlight' = [inFlight EXCEPT ![c] = Nothing]
  /\ hbTimer' = [hbTimer EXCEPT ![c] = HeartbeatInterval]
  /\ UNCHANGED <<reported, clientUp, serverUp, missed, lockVars>>

\* Mutant: the first heartbeat is due a whole ttl after ACQUIRED.
ReceiveAcquiredLate(c) ==
  /\ phase[c] = "acquiring"
  /\ clientUp[c]
  /\ inFlight[c].kind = "acquired"
  /\ phase' = [phase EXCEPT ![c] = "held"]
  /\ inFlight' = [inFlight EXCEPT ![c] = Nothing]
  /\ hbTimer' = [hbTimer EXCEPT ![c] = TTL]
  /\ UNCHANGED <<reported, clientUp, serverUp, missed, lockVars>>

\* ACQUIRED arrives: AcquireLock returns and the heartbeat ticker starts.
ReceiveAcquired(c) ==
  /\ phase[c] = "acquiring"
  /\ clientUp[c]
  /\ inFlight[c].kind = "acquired"
  /\ phase' = [phase EXCEPT ![c] = "held"]
  /\ inFlight' = [inFlight EXCEPT ![c] = Nothing]
  /\ hbTimer' = [hbTimer EXCEPT ![c] = HeartbeatInterval]
  /\ UNCHANGED <<reported, clientUp, serverUp, missed, lockVars>>

Beating(c) == phase[c] = "held" /\ clientUp[c]

\* A tick of heartbeatLoop.
SendHeartbeat(c) ==
  /\ Beating(c)
  /\ hbTimer[c] = 0
  /\ inFlight[c] = Nothing
  /\ inFlight' = [inFlight EXCEPT ![c] = Sent("heartbeat")]
  /\ hbTimer' = [hbTimer EXCEPT ![c] = HeartbeatInterval]
  /\ missed' = [missed EXCEPT ![c] = 0]
  /\ UNCHANGED <<phase, reported, clientUp, serverUp, lockVars>>

\* The process is paused or the ticker drops a tick.
MissHeartbeat(c) ==
  /\ Beating(c)
  /\ hbTimer[c] = 0
  /\ missed[c] < MaxMissed
  /\ missed' = [missed EXCEPT ![c] = @ + 1]
  /\ hbTimer' = [hbTimer EXCEPT ![c] = HeartbeatInterval]
  /\ UNCHANGED <<phase, reported, clientUp, serverUp, inFlight, lockVars>>

\* Mutant: only a held lock notices the end of its stream.
StreamEndsHeldOnly(c) ==
  /\ clientUp[c]
  /\ ~serverUp[c]
  /\ phase[c] = "held"
  /\ clientUp' = [clientUp EXCEPT ![c] = FALSE]
  /\ inFlight' = [inFlight EXCEPT ![c] = Nothing]
  /\ reported' = [reported EXCEPT ![c] = TRUE]
  /\ UNCHANGED <<phase, serverUp, hbTimer, missed, lockVars>>

\* The stream's end reaches a client: a queued AcquireLock fails, and a held
\* lock is reported lost.
StreamEnds(c) ==
  /\ clientUp[c]
  /\ ~serverUp[c]
  /\ phase[c] \in {"acquiring", "held"}
  /\ clientUp' = [clientUp EXCEPT ![c] = FALSE]
  /\ inFlight' = [inFlight EXCEPT ![c] = Nothing]
  /\ phase' = [phase EXCEPT ![c] = IF @ = "acquiring" THEN "failed" ELSE @]
  /\ reported' = [reported EXCEPT ![c] = phase[c] = "held"]
  /\ UNCHANGED <<serverUp, hbTimer, missed, lockVars>>

\* Drained: Release cancels the heartbeats and half-closes the stream.
BeginRelease(c) ==
  /\ phase[c] = "held"
  /\ phase' = [phase EXCEPT ![c] = "releasing"]
  /\ UNCHANGED <<reported, clientUp, serverUp, hbTimer, missed, inFlight, lockVars>>

\* Mutant: Release waits for the stream to end without having half-closed it.
EndReleaseUnclosed(c) ==
  /\ phase[c] = "releasing"
  /\ ~clientUp[c]
  /\ phase' = [phase EXCEPT ![c] = "released"]
  /\ inFlight' = [inFlight EXCEPT ![c] = Nothing]
  /\ UNCHANGED <<reported, clientUp, serverUp, hbTimer, missed, lockVars>>

\* Release returns once recvLoop saw the stream end; the process exits.
EndRelease(c) ==
  /\ phase[c] = "releasing"
  /\ ~serverUp[c] \/ ~clientUp[c]
  /\ phase' = [phase EXCEPT ![c] = "released"]
  /\ clientUp' = [clientUp EXCEPT ![c] = FALSE]
  /\ inFlight' = [inFlight EXCEPT ![c] = Nothing]
  /\ UNCHANGED <<reported, serverUp, hbTimer, missed, lockVars>>

\* The connection breaks on the client's side only, or its process dies: no
\* word of it reaches the server.
BreakConnection(c) ==
  /\ Faults
  /\ clientUp[c]
  /\ phase[c] \in {"acquiring", "held"}
  /\ clientUp' = [clientUp EXCEPT ![c] = FALSE]
  /\ inFlight' = [inFlight EXCEPT ![c] = Nothing]
  /\ \/ /\ phase' = [phase EXCEPT ![c] = IF @ = "acquiring" THEN "failed" ELSE @]
        /\ reported' = [reported EXCEPT ![c] = phase[c] = "held"]
     \/ /\ phase' = [phase EXCEPT ![c] = "crashed"]
        /\ UNCHANGED reported
  /\ UNCHANGED <<serverUp, hbTimer, missed, lockVars>>
-----------------------------------------------------------------------------
(* The server (external) *)

Grant ==
  /\ ~granted
  /\ queue # << >>
  /\ granted' = TRUE
  /\ deadline' = TTL
  /\ inFlight' = [inFlight EXCEPT ![Head(queue)] =
                    IF clientUp[Head(queue)] THEN Sent("acquired") ELSE Nothing]
  /\ UNCHANGED <<clientVars, serverUp, queue>>

HeartbeatArrives(c) ==
  /\ inFlight[c].kind = "heartbeat"
  /\ inFlight' = [inFlight EXCEPT ![c] = Nothing]
  /\ deadline' = IF Holder(c) THEN TTL ELSE deadline
  /\ UNCHANGED <<clientVars, serverUp, queue, granted>>

\* The holder's ttl is exhausted.
Expire ==
  /\ granted
  /\ deadline = 0
  /\ Dequeue(Head(queue))
  /\ UNCHANGED <<clientVars, inFlight>>

\* The half-close arrives, or the server notices the break.
SeeClose(c) ==
  /\ serverUp[c]
  /\ phase[c] = "releasing" \/ ~clientUp[c]
  /\ Dequeue(c)
  /\ UNCHANGED <<clientVars, inFlight>>

\* The server loses the stream: an error, a restart, a broken connection.
ServerDrops(c) ==
  /\ Faults
  /\ serverUp[c]
  /\ Dequeue(c)
  /\ UNCHANGED <<clientVars, inFlight>>
-----------------------------------------------------------------------------
Urgent ==
  \E c \in Replicas :
    \/ inFlight[c] # Nothing /\ inFlight[c].age = MaxDelay
    \/ Beating(c) /\ hbTimer[c] = 0

Tick ==
  /\ ~Urgent
  /\ granted
  /\ deadline' = IF deadline > 0 THEN deadline - 1 ELSE 0
  /\ hbTimer' = [c \in Replicas |->
                   IF Beating(c) THEN hbTimer[c] - 1 ELSE hbTimer[c]]
  /\ inFlight' = [c \in Replicas |->
                    IF inFlight[c] = Nothing THEN Nothing
                    ELSE [inFlight[c] EXCEPT !.age = @ + 1]]
  /\ UNCHANGED <<phase, reported, clientUp, serverUp, missed, queue, granted>>

Replica(c) ==
  \/ Request(c) \/ ReceiveAcquired(c)
  \/ SendHeartbeat(c) \/ MissHeartbeat(c)
  \/ StreamEnds(c) \/ BeginRelease(c) \/ EndRelease(c)
  \/ BreakConnection(c)

Server ==
  \/ Grant \/ Expire
  \/ \E c \in Replicas : HeartbeatArrives(c) \/ SeeClose(c) \/ ServerDrops(c)

Next ==
  /\ UNCHANGED fleet
  /\ Tick \/ Server \/ \E c \in Replicas : Replica(c)

Spec == Init /\ [][Next]_vars

\* Time passes, messages arrive, the goroutines run, a holder finishes its
\* shutdown, and the server grants, expires and sees half-closes.  A break that
\* nobody told the server about is covered by the ttl alone.
Fairness ==
  /\ WF_runVars(Tick)
  /\ WF_runVars(Grant)
  /\ WF_runVars(Expire)
  /\ \A c \in Replicas :
       /\ WF_runVars(ReceiveAcquired(c))
       /\ WF_runVars(SendHeartbeat(c))
       /\ WF_runVars(HeartbeatArrives(c))
       /\ WF_runVars(StreamEnds(c))
       /\ WF_runVars(BeginRelease(c))
       /\ WF_runVars(EndRelease(c))
       /\ WF_runVars(phase[c] = "releasing" /\ SeeClose(c))

FairSpec == Spec /\ Fairness
-----------------------------------------------------------------------------
(* Properties *)

\* Of two replicas that both hold the lock by their own account, one has lost
\* its stream and is about to be told (go/restart.go:145-148): over streams
\* that are up, one replica holds the lock.
ExclusiveUnlessBroken ==
  \A c, d \in Replicas :
    phase[c] = "held" /\ phase[d] = "held" /\ c # d =>
      \E e \in {c, d} : ~clientUp[e] \/ ~serverUp[e]

\* The heartbeats come in time: the last one that the environment lets through
\* reaches the server before the ttl it renews is exhausted.
Timely ==
  /\ ~Faults
  /\ (MaxMissed + 1) * HeartbeatInterval + 2 * MaxDelay < TTL

\* Heartbeats at ttl/4 that come in time keep the lock: the server never expires a
\* replica that holds it (go/restart.go:186-192, 291-310).
HeldIsNotExpired ==
  Timely => \A c \in Replicas : phase[c] = "held" => serverUp[c] /\ Holder(c)

\* Everybody who asked for the lock gets it and restarts, if its heartbeats come in
\* time (go/restart.go:186-192, README.md).
EveryoneRestarts ==
  \A c \in Replicas : (Timely /\ phase[c] = "acquiring") ~> phase[c] = "released"

\* A replica that dies silently while it queues or holds never blocks the fleet:
\* who waits gets the lock, or an error (go/restart.go:186-192).
NobodyIsStuck ==
  \A c \in Replicas : phase[c] = "acquiring" ~> phase[c] # "acquiring"

=============================================================================
