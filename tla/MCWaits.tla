------------------------------ MODULE MCWaits -------------------------------
(***************************************************************************)
(* The waits for a restart of the Python, Rust and C# clients side by side,*)
(* each over its watch and the contract of its lock: a behaviour is one of *)
(* one client, and the properties are asked of all three.  A variable a    *)
(* client does not have keeps its first value.                             *)
(***************************************************************************)
EXTENDS WatchStream

CONSTANTS
  waiter,                  \* the thread in wait_for_restart
  BackoffMin, BackoffMax,  \* seconds, of each client
  Debounce                 \* in ticks

ASSUME WaitsAssumption ==
  /\ BackoffMin \in Nat \ {0} /\ BackoffMax \in Nat /\ BackoffMin <= BackoffMax
  /\ Debounce \in Nat

VARIABLES
  client,                                    \* "Python", "Rust" or "C#"
  loop, backoff, changes,                    \* of all three
  wait, timer, quiet,
  phase, broken, reported,
  cancelled,                                 \* of Rust and C#
  holder, stop, closing, asked,              \* of Python
  receiver,                                  \* of Rust
  thrown                                     \* of C#

shared == <<loop, backoff, changes, wait, timer, quiet, phase, broken, reported, serverVars>>
pyVars == <<holder, stop, closing, asked>>
vars == <<client, shared, cancelled, pyVars, receiver, thrown>>

Python == INSTANCE PyWaitForRestart
            WITH backoffMin <- BackoffMin, backoffMax <- BackoffMax, Closers <- {waiter}
Rust   == INSTANCE RsWaitForRestart
            WITH WATCH_BACKOFF_MIN <- BackoffMin, WATCH_BACKOFF_MAX <- BackoffMax
CSharp == INSTANCE CsWaitForRestart
            WITH WatchBackoffMin <- BackoffMin, WatchBackoffMax <- BackoffMax

NoPython == /\ holder = "none" /\ stop = FALSE /\ asked = FALSE
            /\ closing = [c \in {waiter} |-> "idle"]

Init ==
  \/ client = "Python" /\ Python!Init /\ cancelled = FALSE /\ receiver = FALSE /\ thrown = "none"
  \/ client = "Rust" /\ Rust!Init /\ NoPython /\ thrown = "none"
  \/ client = "C#" /\ CSharp!Init /\ NoPython /\ receiver = FALSE

Next ==
  /\ UNCHANGED client
  /\ \/ client = "Python" /\ Python!Next /\ UNCHANGED <<cancelled, receiver, thrown>>
     \/ client = "Rust" /\ Rust!Next /\ UNCHANGED <<pyVars, thrown>>
     \/ client = "C#" /\ CSharp!Next /\ UNCHANGED <<pyVars, receiver>>

Spec == Init /\ [][Next]_vars

FairSpec ==
  /\ Spec
  /\ (client = "Python" => Python!Fairness)
  /\ (client = "Rust" => Rust!Fairness)
  /\ (client = "C#" => CSharp!Fairness)
-----------------------------------------------------------------------------
(* Properties *)

TypeOK ==
  \/ client = "Python" /\ Python!TypeOK
  \/ client = "Rust" /\ Rust!TypeOK
  \/ client = "C#" /\ CSharp!TypeOK

\* The state in which the lock may be asked for.
DebounceOver ==
  \/ quiet = Debounce /\ (client = "Python" => changes = 0)
  \/ client = "C#" /\ cancelled

\* The lock is asked for only after a full debounce period without a change that was
\* read; in Python not with one in the queue either, and in C# earlier only if the
\* token was cancelled (python/src/signet_client/restart.py:511-518,
\* rust/src/restart.rs:627-649, csharp/Restart.cs:121-162).
DebounceIsQuiet ==
  [][wait' = "acquire" /\ wait # "acquire" => DebounceOver']_vars

\* A change that reached the client leads to the request of the lock, even if the
\* stream broke right behind it, unless the wait was given up
\* (python/src/signet_client/restart.py:376-395, 512-518,
\* rust/src/restart.rs:537-552, 627-649, csharp/Watch.cs:101-133).
SentLeadsToLock ==
  /\ client = "Python" => Python!SentLeadsToLock
  /\ client = "Rust" => Rust!SentLeadsToLock
  /\ client = "C#" => CSharp!SentLeadsToLock

\* Whoever stops a watch ends it: close in Python, but for the stream that is being
\* reopened (python/src/signet_client/restart.py:333-352, 388-394, 449-454); the
\* token in Rust, but in open() (rust/src/restart.rs:526, 537-561); the token in C#
\* everywhere, and WaitForRestartAsync with it (csharp/Watch.cs:83-139,
\* csharp/Restart.cs:115-164).
StopIsHeard ==
  /\ client = "Python" => Python!CloseReturns
  /\ client = "Rust" => Rust!CancelEndsWatch
  /\ client = "C#" => CSharp!CancelEndsWatch /\ CSharp!CancelReturns

=============================================================================
