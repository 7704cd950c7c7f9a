------------------------------ MODULE MCLocks -------------------------------
(***************************************************************************)
(* The locks of the Python, Rust and C# clients side by side, each on small*)
(* sets: a behaviour is one of one client, and the properties are asked of *)
(* all three.  A variable a client does not have keeps its first value.    *)
(***************************************************************************)
EXTENDS LockStream

CONSTANTS Releasers, Capacity   \* see PyLock, RsLock and CsLock

ASSUME CapacityAssumption == Capacity \in Nat \ {0}

VARIABLES
  client,                                              \* "Python", "Rust" or "C#"
  acq, released, rel, leftClean,                       \* of all three
  acquired, recv, gotAcquired, hb,                     \* of Python and C#
  lost,                                                \* of Rust and C#
  heartbeatStop, sendQueue, iterator, lostError, lostEvent,
  task, outbox, body, signal, dropped,
  cancelled, heartbeatCts

shared  == <<acq, released, rel, leftClean, streamVars>>
loopVars == <<acquired, recv, gotAcquired, hb>>
pyVars  == <<heartbeatStop, sendQueue, iterator, lostError, lostEvent>>
rsVars  == <<task, outbox, body, signal, dropped>>
csVars  == <<cancelled, heartbeatCts>>
vars == <<client, shared, loopVars, lost, pyVars, rsVars, csVars>>

Python == INSTANCE PyLock
Rust   == INSTANCE RsLock
CSharp == INSTANCE CsLock

NoLoops  == acquired = "empty" /\ recv = "none" /\ gotAcquired = FALSE /\ hb = "none"
NoPython == /\ heartbeatStop = FALSE /\ sendQueue = << >> /\ iterator = "none"
            /\ lostError = FALSE /\ lostEvent = FALSE
NoRust   == task = "none" /\ outbox = << >> /\ body = FALSE /\ signal = FALSE /\ dropped = FALSE
NoCSharp == cancelled = FALSE /\ heartbeatCts = FALSE

Init ==
  \/ client = "Python" /\ Python!Init /\ lost = FALSE /\ NoRust /\ NoCSharp
  \/ client = "Rust" /\ Rust!Init /\ NoLoops /\ NoPython /\ NoCSharp
  \/ client = "C#" /\ CSharp!Init /\ NoPython /\ NoRust

Next ==
  /\ UNCHANGED client
  /\ \/ client = "Python" /\ Python!Next /\ UNCHANGED <<lost, rsVars, csVars>>
     \/ client = "Rust" /\ Rust!Next /\ UNCHANGED <<loopVars, pyVars, csVars>>
     \/ client = "C#" /\ CSharp!Next /\ UNCHANGED <<pyVars, rsVars>>

Spec == Init /\ [][Next]_vars

FairSpec ==
  /\ Spec
  /\ client = "Python" => Python!Fairness
  /\ client = "Rust" => Rust!Fairness
  /\ client = "C#" => CSharp!Fairness
-----------------------------------------------------------------------------
(* Properties *)

TypeOK ==
  \/ client = "Python" /\ Python!TypeOK
  \/ client = "Rust" /\ Rust!TypeOK
  \/ client = "C#" /\ CSharp!TypeOK

OfClient(python, rust, csharp) ==
  CASE client = "Python" -> python
    [] client = "Rust" -> rust
    [] client = "C#" -> csharp

Contract == INSTANCE RestartLock
  WITH phase <- OfClient(Python!phaseBar, Rust!phaseBar, CSharp!phaseBar),
       broken <- OfClient(Python!brokenBar, Rust!brokenBar, CSharp!brokenBar),
       reported <- OfClient(Python!reportedBar, Rust!reportedBar, CSharp!reportedBar)

\* Each of the three is the lock that is documented: three threads, a queue and a
\* mutex (python/src/signet_client/restart.py:107-320), one task with a biased
\* select (rust/src/restart.rs:236-440), two tasks, a gate and a token
\* (csharp/Lock.cs:86-314).  A clean release, above all, is never reported as a loss.
ImplementsContract == Contract!Spec

\* A broken lock is reported, and release returns: though its CLOSE waits in a queue
\* behind heartbeats (python/src/signet_client/restart.py:297-320), though the task
\* waits for room in the channel of requests (rust/src/restart.rs:374-418), through
\* the heartbeat task, the half-close and the receive task (csharp/Lock.cs:274-314).
ImplementsContractFairness == Contract!Fairness

\* An acquisition that was cancelled, dropped or failed otherwise leaves no place in
\* the queue and no lock with the server: "works for free before acquisition
\* succeeds" (rust/src/restart.rs:19-23), though ACQUIRED may race the cancellation
\* (csharp/Lock.cs:105-144, csharp/Restart.cs:61-69).
FailureLeavesNothing == acq = "failed" ~> srv \in {"none", "gone"}

=============================================================================
