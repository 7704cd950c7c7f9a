----------------------------- MODULE FleetProofs -----------------------------
(***************************************************************************)
(* Safety of the fleet for every number of replicas, every ttl, every      *)
(* delay of the messages and every number of heartbeats that may be        *)
(* missed: one replica holds the lock over streams that are up, and        *)
(* heartbeats that come in time keep it.                                   *)
(***************************************************************************)
EXTENDS FleetRestart, SequenceTheorems, TLAPS

\* Whose stream is up is in the queue, once, and nobody else is.
QueueInv ==
  /\ \A i, j \in 1 .. Len(queue) : queue[i] = queue[j] => i = j
  /\ \A c \in Replicas : serverUp[c] <=> \E i \in 1 .. Len(queue) : queue[i] = c
  /\ granted => queue # << >>

\* A stream is up for a client that waits for the lock, holds it or gives it back,
\* and ACQUIRED travels only to one that waits.
StreamInv ==
  \A c \in Replicas :
    /\ clientUp[c] => phase[c] \in {"acquiring", "held", "releasing"}
    /\ phase[c] = "idle" => ~serverUp[c] /\ inFlight[c] = Nothing
    /\ inFlight[c].kind = "acquired" => phase[c] = "acquiring"

\* Who holds the lock by its own account, or is about to, holds it by the server's,
\* unless the server has given up its stream.
GrantInv ==
  \A c \in Replicas :
    serverUp[c] /\ (phase[c] \in {"held", "releasing"} \/ inFlight[c].kind = "acquired")
      => Holder(c)

SafeInv == TypeOK /\ QueueInv /\ StreamInv /\ GrantInv

\* Without faults a stream stays up until its client gives the lock back, and who is
\* at the head of the queue has ACQUIRED under way or has received it.
UpInv ==
  \A c \in Replicas :
    /\ phase[c] \in {"acquiring", "held"} => clientUp[c] /\ serverUp[c]
    /\ phase[c] = "acquiring" /\ Holder(c) => inFlight[c].kind = "acquired"

\* The time that may pass since the last heartbeat but those missed was sent until the
\* next one is due, and the longest that ever does.
Since(c) == (missed[c] + 1) * HeartbeatInterval
Longest  == (MaxMissed + 1) * HeartbeatInterval

\* The ttl was full when the server granted the lock or took the last heartbeat, which
\* is at most a message's delay before the holder's timer was set.
DeadlineInv ==
  \A c \in Replicas : Holder(c) /\ phase[c] \in {"acquiring", "held"} =>
    /\ inFlight[c].kind = "none" => deadline + MaxDelay + Since(c) >= TTL + hbTimer[c]
    /\ inFlight[c].kind = "acquired" => deadline + inFlight[c].age >= TTL
    /\ inFlight[c].kind = "heartbeat" =>
         deadline + MaxDelay + inFlight[c].age + Longest >= TTL

TimerInv == \A c \in Replicas : hbTimer[c] <= HeartbeatInterval

TimelyInv == Timely => UpInv /\ DeadlineInv /\ TimerInv
-----------------------------------------------------------------------------
(* The constants, and the queue *)

\* A ttl is four heartbeat intervals (go/restart.go:186-192, 292).
LEMMA Interval ==
  ASSUME fleet \in Fleets
  PROVE  /\ MaxDelay \in Nat /\ TTL \in Nat \ {0} /\ MaxMissed \in Nat
         /\ Faults \in BOOLEAN /\ fleet.replicas \subseteq Replicas
         /\ HeartbeatInterval \in Nat \ {0} /\ TTL = 4 * HeartbeatInterval
<1>1. /\ MaxDelay \in Nat /\ TTL \in Nat \ {0} /\ TTL % 4 = 0 /\ MaxMissed \in Nat
      /\ Faults \in BOOLEAN /\ fleet.replicas \subseteq Replicas
  BY FleetAssumption DEF TTL, MaxMissed, Faults
<1>2. \A n \in Nat : n % 4 = 0 => n \div 4 \in Nat /\ n = 4 * (n \div 4)
  OBVIOUS
<1> QED
  BY <1>1, <1>2 DEF HeartbeatInterval

\* Without its i-th element a sequence is one shorter, and what was behind moves up.
LEMMA RemoveAtProperties ==
  ASSUME NEW S, NEW q \in Seq(S), NEW i \in 1 .. Len(q)
  PROVE  /\ RemoveAt(q, i) \in Seq(S)
         /\ Len(RemoveAt(q, i)) = Len(q) - 1
         /\ \A j \in 1 .. Len(q) - 1 :
              RemoveAt(q, i)[j] = IF j < i THEN q[j] ELSE q[j + 1]
<1> DEFINE front == SubSeq(q, 1, i - 1)
           back  == SubSeq(q, i + 1, Len(q))
<1>1. Len(q) \in Nat /\ \A j \in 1 .. Len(q) : q[j] \in S
  OBVIOUS
<1>2. /\ front \in Seq(S) /\ Len(front) = i - 1
      /\ \A j \in 1 .. i - 1 : front[j] = q[j]
  BY <1>1, SubSeqProperties
<1>3. /\ back \in Seq(S) /\ Len(back) = Len(q) - i
      /\ \A j \in 1 .. Len(q) - i : back[j] = q[j + i]
  BY <1>1, SubSeqProperties
<1> HIDE DEF front, back
<1>4. /\ front \o back \in Seq(S)
      /\ Len(front \o back) = Len(front) + Len(back)
      /\ \A j \in 1 .. Len(front) + Len(back) :
           (front \o back)[j] = IF j <= Len(front) THEN front[j] ELSE back[j - Len(front)]
  BY <1>2, <1>3, ConcatProperties
<1> DEFINE rest == RemoveAt(q, i)
<1>5. /\ rest \in Seq(S) /\ Len(rest) = Len(front) + Len(back)
      /\ \A j \in 1 .. Len(front) + Len(back) :
           rest[j] = IF j <= Len(front) THEN front[j] ELSE back[j - Len(front)]
  BY <1>4, Zenon DEF RemoveAt, front, back
<1> HIDE DEF rest
<1>6. Len(front) + Len(back) = Len(q) - 1 /\ Len(rest) = Len(q) - 1
  BY <1>1, <1>2, <1>3, <1>5
<1>7. ASSUME NEW j \in 1 .. Len(q) - 1
      PROVE  rest[j] = IF j < i THEN q[j] ELSE q[j + 1]
  <2>1. j \in 1 .. Len(front) + Len(back)
    BY <1>6
  <2>2. rest[j] = IF j <= Len(front) THEN front[j] ELSE back[j - Len(front)]
    BY <1>5, <2>1, Zenon
  <2>3. CASE j < i
    <3>1. j <= Len(front) /\ j \in 1 .. i - 1
      BY <1>1, <1>2, <2>3
    <3> QED
      BY <1>2, <2>2, <2>3, <3>1, Zenon
  <2>4. CASE ~(j < i)
    <3>1. ~(j <= Len(front)) /\ j - Len(front) \in 1 .. Len(q) - i /\ j - Len(front) + i = j + 1
      BY <1>1, <1>2, <2>4
    <3> QED
      BY <1>3, <2>2, <2>4, <3>1, Zenon
  <2> QED
    BY <2>3, <2>4
<1> QED
  BY <1>5, <1>6, <1>7, Zenon DEF rest

\* Leaving keeps the others' order and takes the lock from nobody else.
LEMMA LeaveQueue ==
  ASSUME TypeOK, QueueInv, NEW c \in Replicas, Dequeue(c)
  PROVE  /\ queue' \in Seq(Replicas)
         /\ QueueInv'
         /\ serverUp' = [serverUp EXCEPT ![c] = FALSE]
         /\ deadline' = deadline
         /\ granted' \in BOOLEAN
         /\ \A d \in Replicas : d # c => (Holder(d)' <=> Holder(d))
<1>1. PICK i \in 1 .. Len(queue) : queue[i] = c /\ queue' = RemoveAt(queue, i)
  BY DEF Dequeue
<1>2. queue \in Seq(Replicas) /\ Len(queue) \in Nat
  BY DEF TypeOK
<1>3. /\ queue' \in Seq(Replicas)
      /\ Len(queue') = Len(queue) - 1
      /\ \A j \in 1 .. Len(queue) - 1 :
           queue'[j] = IF j < i THEN queue[j] ELSE queue[j + 1]
  BY <1>1, <1>2, RemoveAtProperties
<1>4. \A j, k \in 1 .. Len(queue') : queue'[j] = queue'[k] => j = k
  BY <1>1, <1>2, <1>3 DEF QueueInv
<1>5. \A d \in Replicas :
        (\E j \in 1 .. Len(queue') : queue'[j] = d) <=>
        d # c /\ \E j \in 1 .. Len(queue) : queue[j] = d
  <2> TAKE d \in Replicas
  <2>1. ASSUME NEW j \in 1 .. Len(queue'), queue'[j] = d
        PROVE  d # c /\ \E k \in 1 .. Len(queue) : queue[k] = d
    <3>1. CASE j < i
      BY <1>1, <1>2, <1>3, <2>1, <3>1 DEF QueueInv
    <3>2. CASE j >= i
      <4>1. j + 1 \in 1 .. Len(queue) /\ queue[j + 1] = d /\ j + 1 # i
        BY <1>1, <1>2, <1>3, <2>1, <3>2
      <4> QED
        BY <1>1, <1>2, <4>1 DEF QueueInv
    <3> QED
      BY <1>2, <1>3, <3>1, <3>2
  <2>2. ASSUME d # c, NEW j \in 1 .. Len(queue), queue[j] = d
        PROVE  \E k \in 1 .. Len(queue') : queue'[k] = d
    <3>1. CASE j < i
      BY <1>1, <1>2, <1>3, <2>2, <3>1
    <3>2. CASE j > i
      <4>1. j - 1 \in 1 .. Len(queue') /\ queue'[j - 1] = d
        BY <1>1, <1>2, <1>3, <2>2, <3>2
      <4> QED
        BY <4>1
    <3> QED
      BY <1>1, <1>2, <2>2, <3>1, <3>2
  <2> QED
    BY <2>1, <2>2
<1>6. /\ serverUp' = [serverUp EXCEPT ![c] = FALSE]
      /\ granted' = (granted /\ ~Holder(c))
      /\ deadline' = deadline
  BY DEF Dequeue
<1>7. \A d \in Replicas : serverUp'[d] <=> \E j \in 1 .. Len(queue') : queue'[j] = d
  BY <1>5, <1>6 DEF QueueInv, TypeOK
<1>8. granted /\ ~Holder(c) => i # 1 /\ queue' # << >> /\ Head(queue') = Head(queue)
  <2> SUFFICES ASSUME granted, ~Holder(c)
               PROVE  i # 1 /\ queue' # << >> /\ Head(queue') = Head(queue)
    OBVIOUS
  <2>1. queue # << >> /\ Head(queue) = queue[1] /\ queue[1] # c
    BY <1>2 DEF QueueInv, Holder
  <2>2. i # 1 /\ Len(queue') > 0 /\ queue'[1] = queue[1]
    BY <1>1, <1>2, <1>3, <2>1
  <2> QED
    BY <1>3, <2>1, <2>2
<1>9. \A d \in Replicas : d # c => (Holder(d)' <=> Holder(d))
  BY <1>6, <1>8 DEF Holder, QueueInv
<1> QED
  BY <1>3, <1>4, <1>6, <1>7, <1>8, <1>9 DEF QueueInv, TypeOK
-----------------------------------------------------------------------------
(* Types *)

Messages == [kind : {"none", "acquired", "heartbeat"}, age : 0 .. MaxDelay]

LEMMA NewMessage ==
  ASSUME fleet \in Fleets
  PROVE  /\ Nothing \in Messages
         /\ \A k \in {"acquired", "heartbeat"} : Sent(k) \in Messages
  BY Interval DEF Nothing, Sent, Messages

LEMMA OlderMessage ==
  ASSUME NEW m \in Messages, m.age # MaxDelay, MaxDelay \in Nat
  PROVE  /\ [m EXCEPT !.age = @ + 1] \in Messages
         /\ [m EXCEPT !.age = @ + 1].kind = m.kind
         /\ [m EXCEPT !.age = @ + 1].age = m.age + 1
<1>1. m.age + 1 \in 0 .. MaxDelay /\ m.kind \in {"none", "acquired", "heartbeat"}
  BY DEF Messages
<1>2. m = [kind |-> m.kind, age |-> m.age]
  BY DEF Messages
<1>3. [m EXCEPT !.age = @ + 1] = [kind |-> m.kind, age |-> m.age + 1]
  BY <1>2
<1> QED
  BY <1>1, <1>3 DEF Messages

LEMMA TypeInit == Init => TypeOK
<1> SUFFICES ASSUME Init PROVE TypeOK
  OBVIOUS
<1>1. inFlight \in [Replicas -> Messages]
  BY NewMessage DEF Init
<1>2. /\ hbTimer \in [Replicas -> 0 .. TTL] /\ missed \in [Replicas -> 0 .. MaxMissed]
      /\ deadline \in 0 .. TTL
  BY Interval DEF Init
<1>3. /\ fleet \in Fleets /\ queue \in Seq(Replicas)
      /\ phase \in [Replicas -> {"idle", "acquiring", "held", "failed",
                                "releasing", "released", "crashed"}]
  BY DEF Init
<1>4. /\ granted \in BOOLEAN /\ reported \in [Replicas -> BOOLEAN] /\ clientUp \in [Replicas -> BOOLEAN]
      /\ serverUp \in [Replicas -> BOOLEAN]
  BY Zenon DEF Init
<1> QED
  BY <1>1, <1>2, <1>3, <1>4, Zenon DEF TypeOK, Messages

LEMMA TypeStep == TypeOK /\ QueueInv /\ [Next]_vars => TypeOK'
<1> SUFFICES ASSUME TypeOK, QueueInv, [Next]_vars
             PROVE  TypeOK'
  OBVIOUS
<1>1. /\ fleet' \in Fleets /\ fleet \in Fleets /\ TTL' = TTL /\ MaxMissed' = MaxMissed
      /\ HeartbeatInterval' = HeartbeatInterval
  BY DEF Next, vars, TypeOK, TTL, MaxMissed, HeartbeatInterval
<1>2. /\ HeartbeatInterval \in 0 .. TTL /\ TTL \in Nat /\ MaxMissed \in Nat
      /\ MaxDelay \in Nat
  BY <1>1, Interval
<1> USE <1>1, <1>2, NewMessage DEF TypeOK, clientVars, lockVars
<1>3. ASSUME NEW c \in Replicas, Dequeue(c), UNCHANGED <<clientVars, inFlight>>
      PROVE  TypeOK'
  BY <1>3, LeaveQueue
<1>4. ASSUME NEW c \in Replicas, Replica(c)
      PROVE  TypeOK'
  <2>1. CASE Request(c)
    <3>1. queue' \in Seq(Replicas)
      BY <2>1 DEF Request
    <3> QED
      BY <2>1, <3>1 DEF Request
  <2>2. CASE ReceiveAcquired(c)
    BY <2>2 DEF ReceiveAcquired, Messages
  <2>3. CASE SendHeartbeat(c)
    BY <2>3 DEF SendHeartbeat, Messages
  <2>4. CASE MissHeartbeat(c)
    BY <2>4 DEF MissHeartbeat
  <2>5. CASE StreamEnds(c)
    BY <2>5 DEF StreamEnds, Messages
  <2>6. CASE BeginRelease(c)
    BY <2>6 DEF BeginRelease
  <2>7. CASE EndRelease(c)
    BY <2>7 DEF EndRelease, Messages
  <2>8. CASE BreakConnection(c)
    BY <2>8 DEF BreakConnection, Messages
  <2> QED
    BY <1>4, <2>1, <2>2, <2>3, <2>4, <2>5, <2>6, <2>7, <2>8 DEF Replica
<1>5. CASE Server
  <2>1. CASE Grant
    <3>1. Head(queue) \in Replicas
      BY <2>1 DEF Grant
    <3> QED
      BY <2>1, <3>1 DEF Grant, Messages
  <2>2. CASE Expire
    <3>1. Head(queue) \in Replicas
      BY <2>2 DEF Expire, QueueInv
    <3> QED
      BY <1>3, <2>2, <3>1 DEF Expire
  <2>3. ASSUME NEW c \in Replicas, HeartbeatArrives(c)
        PROVE  TypeOK'
    BY <2>3 DEF HeartbeatArrives, Messages
  <2>4. ASSUME NEW c \in Replicas, SeeClose(c) \/ ServerDrops(c)
        PROVE  TypeOK'
    BY <1>3, <2>4 DEF SeeClose, ServerDrops
  <2> QED
    BY <1>5, <2>1, <2>2, <2>3, <2>4 DEF Server
<1>6. CASE Tick
  <2>1. \A c \in Replicas : ~(inFlight[c] # Nothing /\ inFlight[c].age = MaxDelay)
    BY <1>6 DEF Tick, Urgent
  <2>2. \A c \in Replicas : ~(Beating(c) /\ hbTimer[c] = 0)
    BY <1>6 DEF Tick, Urgent
  <2>3. inFlight' \in [Replicas -> Messages]
    <3>1. ASSUME NEW c \in Replicas, inFlight[c] # Nothing
          PROVE  [inFlight[c] EXCEPT !.age = @ + 1] \in Messages
      BY <2>1, <3>1, OlderMessage DEF Messages
    <3> QED
      BY <1>6, <3>1, NewMessage DEF Tick
  <2>4. hbTimer' \in [Replicas -> 0 .. TTL]
    BY <1>6, <2>2 DEF Tick
  <2> QED
    BY <1>6, <2>3, <2>4 DEF Tick, Messages
<1>7. CASE UNCHANGED vars
  BY <1>7 DEF vars, runVars
<1> QED
  BY <1>4, <1>5, <1>6, <1>7 DEF Next
-----------------------------------------------------------------------------
(* One holder *)

\* A new request goes to the end of the queue and takes the lock from nobody.
LEMMA JoinQueue ==
  ASSUME TypeOK, QueueInv, StreamInv, NEW c \in Replicas, Request(c)
  PROVE  /\ QueueInv'
         /\ \A d \in Replicas : Holder(d)' <=> Holder(d)
<1>1. /\ queue \in Seq(Replicas) /\ Len(queue) \in Nat
      /\ queue' = Append(queue, c) /\ granted' = granted
      /\ serverUp' = [serverUp EXCEPT ![c] = TRUE] /\ serverUp \in [Replicas -> BOOLEAN]
  BY DEF TypeOK, Request
<1>2. /\ Len(queue') = Len(queue) + 1 /\ queue'[Len(queue) + 1] = c
      /\ \A i \in 1 .. Len(queue) : queue'[i] = queue[i]
  BY <1>1
<1>3. \A i \in 1 .. Len(queue) : queue[i] # c
  BY DEF QueueInv, StreamInv, Request
<1>4. \A i, j \in 1 .. Len(queue') : queue'[i] = queue'[j] => i = j
  BY <1>1, <1>2, <1>3 DEF QueueInv
<1>5. ASSUME NEW d \in Replicas
      PROVE  serverUp'[d] <=> \E i \in 1 .. Len(queue') : queue'[i] = d
  <2>1. CASE d = c
    BY <1>1, <1>2, <2>1
  <2>2. CASE d # c
    BY <1>1, <1>2, <2>2 DEF QueueInv
  <2> QED
    BY <2>1, <2>2
<1>6. granted => queue # << >> /\ queue' # << >> /\ Head(queue') = Head(queue)
  BY <1>1, <1>2 DEF QueueInv
<1> QED
  BY <1>1, <1>4, <1>5, <1>6 DEF QueueInv, Holder

\* What the remaining actions leave alone.
LEMMA KeepQueue ==
  ASSUME UNCHANGED <<queue, granted, serverUp>>
  PROVE  /\ QueueInv => QueueInv'
         /\ \A d \in Replicas : Holder(d)' <=> Holder(d)
  BY DEF QueueInv, Holder

LEMMA SafeInit == Init => QueueInv /\ StreamInv /\ GrantInv
<1> SUFFICES ASSUME Init PROVE QueueInv /\ StreamInv /\ GrantInv
  OBVIOUS
<1>1. Len(queue) = 0 /\ ~granted /\ \A c \in Replicas : ~serverUp[c] /\ ~clientUp[c] /\ inFlight[c] = Nothing
  BY DEF Init
<1>2. Nothing.kind = "none"
  BY DEF Nothing
<1> QED
  BY <1>1, <1>2 DEF QueueInv, StreamInv, GrantInv

\* One step for each action, and under it the parts of the invariant.
LEMMA SafeStep == SafeInv /\ [Next]_vars => QueueInv' /\ StreamInv' /\ GrantInv'
<1> SUFFICES ASSUME TypeOK, QueueInv, StreamInv, GrantInv, [Next]_vars
             PROVE  QueueInv' /\ StreamInv' /\ GrantInv'
  BY DEF SafeInv
<1> USE DEF TypeOK, clientVars, lockVars
<1>1. ASSUME NEW c \in Replicas, serverUp[c], Dequeue(c), UNCHANGED <<clientVars, inFlight>>
      PROVE  QueueInv' /\ StreamInv' /\ GrantInv'
  <2>1. /\ QueueInv'
        /\ serverUp' = [serverUp EXCEPT ![c] = FALSE]
        /\ \A d \in Replicas : d # c => (Holder(d)' <=> Holder(d))
    BY <1>1, LeaveQueue
  <2>2. StreamInv'
    BY <1>1, <2>1 DEF StreamInv
  <2>3. GrantInv'
    BY <1>1, <2>1 DEF GrantInv
  <2> QED
    BY <2>1, <2>2, <2>3
<1>2. ASSUME NEW c \in Replicas, Replica(c)
      PROVE  QueueInv' /\ StreamInv' /\ GrantInv'
  <2>1. CASE Request(c)
    <3>1. QueueInv' /\ \A d \in Replicas : Holder(d)' <=> Holder(d)
      BY <2>1, JoinQueue
    <3>2. StreamInv' /\ GrantInv'
      BY <2>1, <3>1 DEF Request, StreamInv, GrantInv, Nothing
    <3> QED
      BY <3>1, <3>2
  <2>2. ASSUME UNCHANGED <<queue, granted, serverUp>>, StreamInv',
               \A d \in Replicas : d # c =>
                 phase'[d] = phase[d] /\ inFlight'[d] = inFlight[d],
               serverUp[c] /\ (phase'[c] \in {"held", "releasing"}
                               \/ inFlight'[c].kind = "acquired") => Holder(c)
        PROVE  QueueInv' /\ StreamInv' /\ GrantInv'
    <3>1. QueueInv' /\ \A d \in Replicas : Holder(d)' <=> Holder(d)
      BY <2>2, KeepQueue
    <3>2. GrantInv'
      BY <2>2, <3>1 DEF GrantInv
    <3> QED
      BY <2>2, <3>1, <3>2
  <2>3. CASE ReceiveAcquired(c)
    BY <2>2, <2>3 DEF ReceiveAcquired, StreamInv, GrantInv, Nothing
  <2>4. CASE SendHeartbeat(c)
    BY <2>2, <2>4 DEF SendHeartbeat, Beating, StreamInv, GrantInv, Sent
  <2>5. CASE MissHeartbeat(c)
    BY <2>2, <2>5 DEF MissHeartbeat, StreamInv, GrantInv
  <2>6. CASE StreamEnds(c)
    BY <2>2, <2>6 DEF StreamEnds, StreamInv, GrantInv, Nothing
  <2>7. CASE BeginRelease(c)
    BY <2>2, <2>7 DEF BeginRelease, StreamInv, GrantInv
  <2>8. CASE EndRelease(c)
    BY <2>2, <2>8 DEF EndRelease, StreamInv, GrantInv, Nothing
  <2>9. CASE BreakConnection(c)
    BY <2>2, <2>9 DEF BreakConnection, StreamInv, GrantInv, Nothing
  <2> QED
    BY <1>2, <2>1, <2>3, <2>4, <2>5, <2>6, <2>7, <2>8, <2>9 DEF Replica
<1>3. CASE Server
  <2>1. CASE Grant
    <3> DEFINE h == Head(queue)
    <3>1. h \in Replicas /\ serverUp[h] /\ Len(queue) \in Nat /\ queue[1] = h
      BY <2>1 DEF Grant, QueueInv
    <3>2. \A d \in Replicas : ~Holder(d) /\ (Holder(d)' <=> d = h)
      BY <2>1 DEF Grant, Holder
    <3>3. QueueInv'
      BY <2>1 DEF Grant, QueueInv
    <3>4. phase[h] \notin {"idle", "held", "releasing"}
      BY <3>1, <3>2 DEF GrantInv, StreamInv
    <3>5. StreamInv'
      BY <2>1, <3>1, <3>4 DEF Grant, StreamInv, Sent, Nothing
    <3>6. GrantInv'
      BY <2>1, <3>1, <3>2, <3>4 DEF Grant, GrantInv, Sent, Nothing
    <3> QED
      BY <3>3, <3>5, <3>6
  <2>2. CASE Expire
    <3>1. Head(queue) \in Replicas /\ serverUp[Head(queue)]
      BY <2>2 DEF Expire, QueueInv
    <3> QED
      BY <1>1, <2>2, <3>1 DEF Expire
  <2>3. ASSUME NEW c \in Replicas, HeartbeatArrives(c)
        PROVE  QueueInv' /\ StreamInv' /\ GrantInv'
    <3>1. QueueInv' /\ \A d \in Replicas : Holder(d)' <=> Holder(d)
      BY <2>3, KeepQueue DEF HeartbeatArrives
    <3>2. StreamInv' /\ GrantInv'
      BY <2>3, <3>1 DEF HeartbeatArrives, StreamInv, GrantInv, Nothing
    <3> QED
      BY <3>1, <3>2
  <2>4. ASSUME NEW c \in Replicas, SeeClose(c) \/ ServerDrops(c)
        PROVE  QueueInv' /\ StreamInv' /\ GrantInv'
    BY <1>1, <2>4 DEF SeeClose, ServerDrops
  <2> QED
    BY <1>3, <2>1, <2>2, <2>3, <2>4 DEF Server
<1>4. CASE Tick
  <2>1. QueueInv' /\ \A d \in Replicas : Holder(d)' <=> Holder(d)
    BY <1>4, KeepQueue DEF Tick
  <2>2. \A c \in Replicas : /\ inFlight'[c].kind = inFlight[c].kind
                           /\ inFlight[c] = Nothing => inFlight'[c] = Nothing
    BY <1>4 DEF Tick, Nothing
  <2>3. StreamInv' /\ GrantInv'
    BY <1>4, <2>1, <2>2 DEF Tick, StreamInv, GrantInv
  <2> QED
    BY <2>1, <2>3
<1>5. CASE UNCHANGED vars
  BY <1>5 DEF vars, runVars, QueueInv, StreamInv, GrantInv, Holder
<1> QED
  BY <1>2, <1>3, <1>4, <1>5 DEF Next

LEMMA SafeInvariant == Spec => []SafeInv
<1>1. Init => SafeInv
  BY TypeInit, SafeInit DEF SafeInv
<1>2. SafeInv /\ [Next]_vars => SafeInv'
  BY TypeStep, SafeStep DEF SafeInv
<1> QED
  BY <1>1, <1>2, PTL DEF Spec

\* The variables keep their types: a message is never older than the delay allows
\* and no heartbeat overdue (go/restart.go:291-310).
THEOREM TypeCorrect == Spec => []TypeOK
<1>1. SafeInv => TypeOK
  BY DEF SafeInv
<1> QED
  BY <1>1, SafeInvariant, PTL

\* However many replicas there are, and however connections break and processes
\* die, two of them hold the lock at once only if a stream of one is broken
\* (go/restart.go:145-148).
THEOREM Exclusive == Spec => []ExclusiveUnlessBroken
<1>1. SafeInv => ExclusiveUnlessBroken
  <2> SUFFICES ASSUME SafeInv, NEW c \in Replicas, NEW d \in Replicas,
                      phase[c] = "held", phase[d] = "held", c # d,
                      serverUp[c], serverUp[d]
               PROVE  FALSE
    BY DEF ExclusiveUnlessBroken
  <2>1. Holder(c) /\ Holder(d)
    BY DEF SafeInv, GrantInv
  <2> QED
    BY <2>1 DEF Holder
<1> QED
  BY <1>1, SafeInvariant, PTL
-----------------------------------------------------------------------------
(* Heartbeats that come in time *)

LEMMA Times ==
  ASSUME TypeOK
  PROVE  /\ Longest \in Nat
         /\ \A c \in Replicas : /\ Since(c) \in Nat
                               /\ HeartbeatInterval <= Since(c)
                               /\ Since(c) <= Longest
<1>1. HeartbeatInterval \in Nat /\ MaxMissed \in Nat
  BY Interval DEF TypeOK
<1>2. ASSUME NEW i \in Nat, NEW m \in Nat, NEW n \in Nat, n <= m
      PROVE  (n + 1) * i \in Nat /\ i <= (n + 1) * i /\ (n + 1) * i <= (m + 1) * i
  <2>1. PICK k \in Nat : m = n + k
    BY <1>2
  <2>2. n * i \in Nat /\ k * i \in Nat
    OBVIOUS
  <2>3. (n + 1) * i = n * i + i /\ (m + 1) * i = n * i + k * i + i
    BY <2>1
  <2> QED
    BY <2>2, <2>3
<1>3. \A c \in Replicas : missed[c] \in Nat /\ missed[c] <= MaxMissed
  BY <1>1 DEF TypeOK
<1> QED
  BY <1>1, <1>2, <1>3 DEF Since, Longest

\* A holder that beats in time has not used up its ttl.
LEMMA InTime ==
  ASSUME SafeInv, UpInv, DeadlineInv, Timely,
         NEW c \in Replicas, Holder(c), phase[c] \in {"acquiring", "held"}
  PROVE  deadline > 0
<1>1. /\ TTL \in Nat /\ MaxDelay \in Nat /\ HeartbeatInterval \in Nat
      /\ deadline \in Nat /\ hbTimer[c] \in Nat
      /\ inFlight[c].age \in 0 .. MaxDelay
      /\ inFlight[c].kind \in {"none", "acquired", "heartbeat"}
  BY Interval DEF SafeInv, TypeOK
<1>2. Longest \in Nat /\ Since(c) \in Nat /\ Since(c) <= Longest
  BY Times DEF SafeInv
<1>3. Longest + 2 * MaxDelay < TTL
  BY DEF Timely, Longest
<1>4. CASE inFlight[c].kind = "none"
  BY <1>1, <1>2, <1>3, <1>4 DEF DeadlineInv
<1>5. CASE inFlight[c].kind = "acquired"
  BY <1>1, <1>2, <1>3, <1>5 DEF DeadlineInv
<1>6. CASE inFlight[c].kind = "heartbeat"
  BY <1>1, <1>2, <1>3, <1>6 DEF DeadlineInv
<1> QED
  BY <1>1, <1>4, <1>5, <1>6

LEMMA TimelyInit == Init => TimelyInv
<1> SUFFICES ASSUME Init PROVE UpInv /\ DeadlineInv /\ TimerInv
  BY DEF TimelyInv
<1>1. fleet \in Fleets /\ ~granted /\ \A c \in Replicas : phase[c] = "idle" /\ hbTimer[c] = 0
  BY DEF Init
<1> QED
  BY <1>1, Interval DEF UpInv, DeadlineInv, TimerInv, Holder

LEMMA TimelyStep == SafeInv /\ TimelyInv /\ [Next]_vars => TimelyInv'
<1>1. SUFFICES ASSUME SafeInv, TimelyInv, [Next]_vars, Timely'
               PROVE  UpInv' /\ DeadlineInv' /\ TimerInv'
  BY DEF TimelyInv
<1>2. /\ fleet' = fleet /\ TTL' = TTL /\ HeartbeatInterval' = HeartbeatInterval
      /\ Longest' = Longest /\ Timely
  BY <1>1 DEF Next, vars, TTL, MaxMissed, HeartbeatInterval, Longest, Timely, Faults
<1>3. TypeOK /\ QueueInv /\ StreamInv /\ GrantInv /\ UpInv /\ DeadlineInv /\ TimerInv
  BY <1>1, <1>2 DEF SafeInv, TimelyInv
<1>4. /\ TTL \in Nat \ {0} /\ MaxDelay \in Nat /\ MaxMissed \in Nat /\ ~Faults
      /\ HeartbeatInterval \in Nat \ {0} /\ HeartbeatInterval <= TTL
  BY <1>2, <1>3, Interval DEF Timely, TypeOK
<1>5. /\ Longest \in Nat
      /\ \A c \in Replicas : Since(c) \in Nat /\ HeartbeatInterval <= Since(c)
                            /\ Since(c) <= Longest
  BY <1>3, Times
<1>6. \A c \in Replicas : Holder(c) => serverUp[c]
  BY <1>3 DEF Holder, QueueInv, TypeOK
<1>7. \A c \in Replicas : Holder(c) /\ phase[c] \in {"acquiring", "held"} => deadline > 0
  BY <1>1, <1>2, <1>3, InTime
<1>8. /\ deadline \in Nat /\ deadline <= TTL
      /\ \A c \in Replicas : /\ hbTimer[c] \in Nat /\ missed[c] \in Nat
                            /\ inFlight[c].age \in Nat /\ inFlight[c].age <= MaxDelay
                            /\ inFlight[c].kind \in {"none", "acquired", "heartbeat"}
  BY <1>3, <1>4 DEF TypeOK
<1> USE <1>2 DEF clientVars, lockVars
<1>10. ASSUME NEW c \in Replicas, phase[c] \notin {"acquiring", "held"}, Dequeue(c),
              UNCHANGED <<clientVars, inFlight>>
       PROVE  UpInv' /\ DeadlineInv' /\ TimerInv'
  <2>1. /\ serverUp' = [serverUp EXCEPT ![c] = FALSE] /\ deadline' = deadline
        /\ \A d \in Replicas : d # c => (Holder(d)' <=> Holder(d))
    BY <1>3, <1>10, LeaveQueue
  <2>2. \A d \in Replicas : Since(d)' = Since(d)
    BY <1>10 DEF Since
  <2>3. UpInv'
    BY <1>3, <1>10, <2>1 DEF UpInv, TypeOK
  <2>4. DeadlineInv'
    BY <1>3, <1>10, <2>1, <2>2 DEF DeadlineInv
  <2>5. TimerInv'
    BY <1>3, <1>10 DEF TimerInv
  <2> QED
    BY <2>3, <2>4, <2>5
\* An action of one replica c that leaves the queue and the deadline alone.
<1>11. ASSUME NEW c \in Replicas,
              UNCHANGED <<serverUp, lockVars>>,
              \A d \in Replicas : d # c =>
                /\ phase'[d] = phase[d] /\ clientUp'[d] = clientUp[d]
                /\ inFlight'[d] = inFlight[d]
                /\ hbTimer'[d] = hbTimer[d] /\ missed'[d] = missed[d],
              hbTimer'[c] <= HeartbeatInterval,
              phase'[c] \in {"acquiring", "held"} => clientUp'[c] /\ serverUp[c],
              phase'[c] = "acquiring" /\ Holder(c) => inFlight'[c].kind = "acquired",
              Holder(c) /\ phase'[c] \in {"acquiring", "held"} =>
                /\ inFlight'[c].kind = "none" =>
                     deadline + MaxDelay + Since(c)' >= TTL + hbTimer'[c]
                /\ inFlight'[c].kind = "acquired" => deadline + inFlight'[c].age >= TTL
                /\ inFlight'[c].kind = "heartbeat" =>
                     deadline + MaxDelay + inFlight'[c].age + Longest >= TTL
       PROVE  UpInv' /\ DeadlineInv' /\ TimerInv'
  <2>1. \A d \in Replicas : Holder(d)' <=> Holder(d)
    BY <1>11 DEF Holder
  <2>2. \A d \in Replicas : d # c => Since(d)' = Since(d)
    BY <1>11 DEF Since
  <2>3. UpInv'
    BY <1>3, <1>11, <2>1 DEF UpInv
  <2>4. DeadlineInv'
    BY <1>3, <1>11, <2>1, <2>2 DEF DeadlineInv
  <2>5. TimerInv'
    BY <1>3, <1>11 DEF TimerInv
  <2> QED
    BY <2>3, <2>4, <2>5
<1>12. ASSUME NEW c \in Replicas, Replica(c)
       PROVE  UpInv' /\ DeadlineInv' /\ TimerInv'
  <2>1. CASE Request(c)
    <3>1. QueueInv' /\ \A d \in Replicas : Holder(d)' <=> Holder(d)
      BY <1>3, <2>1, JoinQueue
    <3>2. ~Holder(c) /\ \A d \in Replicas : Since(d)' = Since(d)
      BY <1>3, <1>6, <2>1 DEF Request, StreamInv, Since
    <3>3. UpInv'
      BY <1>3, <2>1, <3>1, <3>2 DEF Request, UpInv, TypeOK
    <3>4. DeadlineInv'
      BY <1>3, <2>1, <3>1, <3>2 DEF Request, DeadlineInv, TypeOK
    <3>5. TimerInv'
      BY <1>3, <2>1 DEF Request, TimerInv
    <3> QED
      BY <3>3, <3>4, <3>5
  <2>2. CASE ReceiveAcquired(c)
    <3>1. Holder(c) => deadline + inFlight[c].age >= TTL
      BY <1>3, <2>2 DEF ReceiveAcquired, DeadlineInv
    <3>2. /\ phase' = [phase EXCEPT ![c] = "held"] /\ inFlight'[c].kind = "none"
          /\ hbTimer'[c] = HeartbeatInterval /\ Since(c)' = Since(c)
      BY <1>3, <2>2 DEF ReceiveAcquired, Nothing, Since, TypeOK
    <3>3. Holder(c) => deadline + MaxDelay + Since(c)' >= TTL + hbTimer'[c]
      BY <1>4, <1>5, <1>8, <3>1, <3>2
    <3> QED
      BY <1>3, <1>4, <1>11, <2>2, <3>2, <3>3 DEF ReceiveAcquired, UpInv, TypeOK
  <2>3. CASE SendHeartbeat(c)
    <3>1. phase[c] = "held" /\ hbTimer[c] = 0 /\ inFlight[c].kind = "none"
      BY <2>3 DEF SendHeartbeat, Beating, Nothing
    <3>2. Holder(c) => deadline + MaxDelay + Since(c) >= TTL
      BY <1>3, <1>4, <1>5, <1>8, <3>1 DEF DeadlineInv
    <3>3. inFlight'[c].kind = "heartbeat" /\ inFlight'[c].age = 0
      BY <1>3, <2>3 DEF SendHeartbeat, Sent, TypeOK
    <3>4. Holder(c) => deadline + MaxDelay + inFlight'[c].age + Longest >= TTL
      BY <1>4, <1>5, <1>8, <3>2, <3>3
    <3> QED
      BY <1>3, <1>4, <1>11, <2>3, <3>1, <3>3, <3>4 DEF SendHeartbeat, UpInv, TypeOK
  <2>4. CASE MissHeartbeat(c)
    <3>1. phase[c] = "held" /\ hbTimer[c] = 0
      BY <2>4 DEF MissHeartbeat, Beating
    <3>2. missed'[c] = missed[c] + 1 /\ hbTimer'[c] = HeartbeatInterval
      BY <1>3, <2>4 DEF MissHeartbeat, TypeOK
    <3>3. Since(c)' = Since(c) + HeartbeatInterval
      BY <1>4, <1>8, <3>2 DEF Since
    <3>4. Holder(c) /\ inFlight[c].kind = "none" =>
            deadline + MaxDelay + Since(c)' >= TTL + hbTimer'[c]
      BY <1>3, <1>4, <1>5, <1>8, <3>1, <3>2, <3>3 DEF DeadlineInv
    <3>5. StreamInv /\ DeadlineInv
      BY <1>3
    <3> QED
      BY <1>3, <1>4, <1>11, <2>4, <3>1, <3>2, <3>4
      DEF MissHeartbeat, UpInv, StreamInv, DeadlineInv, TypeOK
  <2>5. ~StreamEnds(c) /\ ~BreakConnection(c)
    BY <1>3, <1>4 DEF StreamEnds, BreakConnection, UpInv
  <2>6. CASE BeginRelease(c)
    BY <1>3, <1>11, <2>6 DEF BeginRelease, TimerInv, TypeOK
  <2>7. CASE EndRelease(c)
    BY <1>3, <1>11, <2>7 DEF EndRelease, TimerInv, TypeOK
  <2> QED
    BY <1>12, <2>1, <2>2, <2>3, <2>4, <2>5, <2>6, <2>7 DEF Replica
<1>13. CASE Server
  <2>1. CASE Grant
    <3> DEFINE h == Head(queue)
    <3>1. h \in Replicas /\ serverUp[h]
      BY <1>3, <2>1 DEF Grant, QueueInv, TypeOK
    <3>2. \A d \in Replicas : ~Holder(d) /\ (Holder(d)' <=> d = h)
      BY <2>1 DEF Grant, Holder
    <3>3. phase[h] # "held"
      BY <1>3, <3>1, <3>2 DEF GrantInv
    <3>4. \A d \in Replicas : d # h => inFlight'[d] = inFlight[d]
      BY <1>3, <2>1, <3>1 DEF Grant, TypeOK
    <3>5. phase[h] = "acquiring" => inFlight'[h] = Sent("acquired")
      BY <1>3, <2>1, <3>1 DEF Grant, UpInv, TypeOK
    <3>6. UpInv'
      BY <1>3, <2>1, <3>2, <3>5 DEF Grant, UpInv, Sent
    <3>7. DeadlineInv'
      BY <1>4, <2>1, <3>2, <3>3, <3>5 DEF Grant, DeadlineInv, Sent
    <3>8. TimerInv'
      BY <1>3, <2>1 DEF Grant, TimerInv
    <3> QED
      BY <3>6, <3>7, <3>8
  <2>2. CASE Expire
    <3>1. Head(queue) \in Replicas /\ Holder(Head(queue))
      BY <1>3, <2>2 DEF Expire, QueueInv, Holder, TypeOK
    <3>2. phase[Head(queue)] \notin {"acquiring", "held"}
      BY <1>7, <2>2, <3>1 DEF Expire
    <3> QED
      BY <1>10, <2>2, <3>1, <3>2 DEF Expire
  <2>3. ASSUME NEW c \in Replicas, HeartbeatArrives(c)
        PROVE  UpInv' /\ DeadlineInv' /\ TimerInv'
    <3>1. /\ \A d \in Replicas : (Holder(d)' <=> Holder(d)) /\ Since(d)' = Since(d)
          /\ \A d \in Replicas : d # c => inFlight'[d] = inFlight[d]
          /\ inFlight'[c].kind = "none"
      BY <1>3, <2>3, KeepQueue DEF HeartbeatArrives, Since, Nothing, TypeOK
    <3>2. UpInv'
      BY <1>3, <2>3, <3>1 DEF HeartbeatArrives, UpInv
    <3>3. TimerInv'
      BY <1>3, <2>3 DEF HeartbeatArrives, TimerInv
    <3>4. ASSUME Holder(c)
          PROVE  DeadlineInv'
      <4>1. \A d \in Replicas : Holder(d)' => d = c
        BY <3>1, <3>4 DEF Holder
      <4>2. deadline' = TTL /\ hbTimer' = hbTimer
        BY <2>3, <3>4 DEF HeartbeatArrives
      <4>3. deadline' + MaxDelay + Since(c)' >= TTL + hbTimer'[c]
        <5>1. hbTimer[c] <= HeartbeatInterval
          BY <1>3 DEF TimerInv
        <5> QED
          BY <1>4, <1>5, <1>8, <3>1, <4>2, <5>1
      <4> QED
        BY <3>1, <4>1, <4>3 DEF DeadlineInv
    <3>5. ASSUME ~Holder(c)
          PROVE  DeadlineInv'
      BY <1>3, <2>3, <3>1, <3>5 DEF HeartbeatArrives, DeadlineInv
    <3> QED
      BY <3>2, <3>3, <3>4, <3>5
  <2>4. ASSUME NEW c \in Replicas, SeeClose(c)
        PROVE  UpInv' /\ DeadlineInv' /\ TimerInv'
    <3>1. phase[c] \notin {"acquiring", "held"}
      BY <1>3, <2>4 DEF SeeClose, UpInv
    <3> QED
      BY <1>10, <2>4, <3>1 DEF SeeClose
  <2>5. \A c \in Replicas : ~ServerDrops(c)
    BY <1>4 DEF ServerDrops
  <2> QED
    BY <1>13, <2>1, <2>2, <2>3, <2>4, <2>5 DEF Server
<1>14. CASE Tick
  <2>1. \A d \in Replicas : (Holder(d)' <=> Holder(d)) /\ Since(d)' = Since(d)
    BY <1>14, KeepQueue DEF Tick, Since
  <2>2. \A d \in Replicas : ~(inFlight[d] # Nothing /\ inFlight[d].age = MaxDelay)
    BY <1>14 DEF Tick, Urgent
  <2>3. \A d \in Replicas : ~(Beating(d) /\ hbTimer[d] = 0)
    BY <1>14 DEF Tick, Urgent
  <2>4. ASSUME NEW d \in Replicas
        PROVE  /\ inFlight'[d].kind = inFlight[d].kind
               /\ inFlight[d].kind # "none" => inFlight'[d].age = inFlight[d].age + 1
    <3>1. inFlight'[d] = IF inFlight[d] = Nothing THEN Nothing
                         ELSE [inFlight[d] EXCEPT !.age = @ + 1]
      BY <1>14 DEF Tick
    <3>2. CASE inFlight[d] = Nothing
      BY <3>1, <3>2 DEF Nothing
    <3>3. CASE inFlight[d] # Nothing
      <4>1. inFlight[d] \in Messages /\ inFlight[d].age # MaxDelay
        BY <1>3, <2>2, <3>3 DEF TypeOK, Messages
      <4> QED
        BY <1>4, <3>1, <3>3, <4>1, OlderMessage
    <3> QED
      BY <3>2, <3>3
  <2>5. ASSUME NEW d \in Replicas
        PROVE  /\ hbTimer'[d] <= HeartbeatInterval
               /\ phase[d] = "held" => hbTimer'[d] = hbTimer[d] - 1
    <3>1. hbTimer'[d] = IF Beating(d) THEN hbTimer[d] - 1 ELSE hbTimer[d]
      BY <1>14 DEF Tick
    <3>2. phase[d] = "held" => Beating(d)
      BY <1>3 DEF UpInv, Beating
    <3>3. hbTimer[d] <= HeartbeatInterval /\ hbTimer[d] \in Nat
      BY <1>3, <1>8 DEF TimerInv
    <3> QED
      BY <1>4, <3>1, <3>2, <3>3
  <2>6. UpInv'
    BY <1>3, <1>14, <2>1, <2>4 DEF Tick, UpInv
  <2>7. TimerInv'
    BY <2>5 DEF TimerInv
  <2>8. ASSUME NEW d \in Replicas, Holder(d), phase[d] \in {"acquiring", "held"}
        PROVE  /\ inFlight'[d].kind = "none" =>
                    deadline' + MaxDelay + Since(d)' >= TTL + hbTimer'[d]
               /\ inFlight'[d].kind = "acquired" => deadline' + inFlight'[d].age >= TTL
               /\ inFlight'[d].kind = "heartbeat" =>
                    deadline' + MaxDelay + inFlight'[d].age + Longest >= TTL
    <3>1. deadline > 0 /\ deadline' = deadline - 1
      BY <1>7, <1>14, <2>8 DEF Tick
    <3>2. phase[d] = "acquiring" => inFlight[d].kind = "acquired"
      BY <1>3, <2>8 DEF UpInv
    <3>3. /\ inFlight[d].kind = "none" => deadline + MaxDelay + Since(d) >= TTL + hbTimer[d]
          /\ inFlight[d].kind = "acquired" => deadline + inFlight[d].age >= TTL
          /\ inFlight[d].kind = "heartbeat" =>
               deadline + MaxDelay + inFlight[d].age + Longest >= TTL
      BY <1>3, <2>8 DEF DeadlineInv
    <3>4. /\ inFlight'[d].kind = inFlight[d].kind
          /\ inFlight[d].kind # "none" => inFlight'[d].age = inFlight[d].age + 1
          /\ phase[d] = "held" => hbTimer'[d] = hbTimer[d] - 1
          /\ Since(d)' = Since(d) /\ Since(d) \in Nat
          /\ hbTimer[d] \in Nat /\ inFlight[d].age \in Nat
      BY <1>5, <1>8, <2>1, <2>4, <2>5
    <3>5. CASE inFlight[d].kind = "none"
      BY <1>4, <1>8, <2>8, <3>1, <3>2, <3>3, <3>4, <3>5
    <3>6. CASE inFlight[d].kind = "acquired"
      BY <1>4, <1>8, <3>1, <3>3, <3>4, <3>6
    <3>7. CASE inFlight[d].kind = "heartbeat"
      BY <1>4, <1>5, <1>8, <3>1, <3>3, <3>4, <3>7
    <3> QED
      BY <1>8, <3>4, <3>5, <3>6, <3>7
  <2>9. DeadlineInv'
    BY <1>14, <2>1, <2>8 DEF Tick, DeadlineInv
  <2> QED
    BY <2>6, <2>7, <2>9
<1>15. CASE UNCHANGED vars
  BY <1>3, <1>15 DEF vars, runVars, UpInv, DeadlineInv, TimerInv, Since, Holder
<1> QED
  BY <1>1, <1>12, <1>13, <1>14, <1>15 DEF Next

\* Heartbeats at a quarter of the ttl that come in time keep the lock: the server
\* never expires a replica that holds it (go/restart.go:186-192, 291-310).
THEOREM Kept == Spec => []HeldIsNotExpired
<1>1. Init => SafeInv /\ TimelyInv
  BY TypeInit, SafeInit, TimelyInit DEF SafeInv
<1>2. SafeInv /\ TimelyInv /\ [Next]_vars => (SafeInv /\ TimelyInv)'
  BY TypeStep, SafeStep, TimelyStep DEF SafeInv
<1>3. SafeInv /\ TimelyInv => HeldIsNotExpired
  BY DEF SafeInv, TimelyInv, UpInv, GrantInv, HeldIsNotExpired
<1> QED
  BY <1>1, <1>2, <1>3, PTL DEF Spec
=============================================================================
