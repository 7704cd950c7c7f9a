------------------------------ MODULE MCCalls -------------------------------
(***************************************************************************)
(* Connections and calls: an application of the TypeScript client, or one  *)
(* dial of another client. A behaviour is one or the other.                *)
(***************************************************************************)
EXTENDS TsCalls

CONSTANT Backoff   \* the waits between the probes of a dial, in seconds

ASSUME BackoffAssumption == Backoff \in Seq(Nat)

VARIABLES client, domain, dial, cancelled, apiChannel, source, answers, slept

dialVars == <<client, domain, dial, cancelled, apiChannel, source, answers, slept>>

Dials == INSTANCE WorkloadDial

MCInit ==
  /\ Init
  /\ Dials!Init \/ (client = "TypeScript" /\ Dials!NotCalled)

MCNext ==
  \/ client = "TypeScript" /\ Next /\ UNCHANGED dialVars
  \/ client # "TypeScript" /\ Dials!Next /\ UNCHANGED vars

MCSpec == MCInit /\ [][MCNext]_<<vars, dialVars>>

\* The dial of a workload in every language with a retry: five attempts, the
\* documented waits, no other error retried, and nothing left open when it fails
\* (go/client.go:97-165, rust/src/client.rs:442-626,
\* csharp/WorkloadConnection.cs:113-251, python/src/signet_client/workload.py:94-148).
DialsAsPromised == Dials!RetrySchedule /\ Dials!NothingLeftOpen

=============================================================================
