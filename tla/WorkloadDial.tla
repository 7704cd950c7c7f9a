---------------------------- MODULE WorkloadDial ----------------------------
(***************************************************************************)
(* How the Go, Rust, C# and Python clients dial the workload listener: a   *)
(* probe of the SPIFFE Workload API that is repeated while no identity is  *)
(* issued, then an X.509 source that lives as long as the connection, then *)
(* the channel. Python does without the probe. (TypeScript: TsWorkload.)   *)
(* The Workload API, and what the SPIFFE libraries do, is external.        *)
(***************************************************************************)
EXTENDS Naturals, Sequences, SequencesExt

CONSTANT Backoff   \* workloadDialBackoff, WORKLOAD_DIAL_BACKOFF, WorkloadDialRetry.Backoff

VARIABLES
  client,      \* whose dial this is
  domain,      \* "valid" or "malformed": the argument trustDomain
  dial,        \* where it is
  cancelled,   \* the ctx of Go, the token of C#
  apiChannel,  \* C#: the channel to the Workload API exists
  source,      \* the X509Source exists
  answers,     \* history: what each probe came to
  slept        \* history: the waits between them

Clients == {"Go", "Rust", "C#", "Python"}

\* Rust and C# look at the trust domain only when they have a source.
ValidatesFirst == {"Go", "Python"}
Cancellable    == {"Go", "C#"}

NotCalled ==
  /\ domain = "valid"
  /\ dial = "not called"
  /\ cancelled = FALSE
  /\ apiChannel = FALSE
  /\ source = FALSE
  /\ answers = << >>
  /\ slept = << >>

\* No dial with a malformed trust domain, with a socket that makes no channel (C#),
\* or without the package spiffe (Python).
Refused ==
  \/ client \in ValidatesFirst /\ domain' = "malformed"
  \/ client \in {"C#", "Python"}

Dial ==
  /\ dial = "not called"
  /\ domain' \in {"valid", "malformed"}
  /\ \/ Refused /\ dial' = "failed" /\ UNCHANGED apiChannel
     \/ /\ ~(client \in ValidatesFirst /\ domain' = "malformed")
        /\ dial' = IF client = "Python" THEN "source" ELSE "probing"
        /\ apiChannel' = (client = "C#")
  /\ UNCHANGED <<cancelled, source, answers, slept>>

\* Whatever the dial has opened is closed again.
Fail ==
  /\ dial' = "failed"
  /\ apiChannel' = FALSE
  /\ source' = FALSE
-----------------------------------------------------------------------------
(* The probe *)

ProbeSucceeds ==
  /\ dial = "probing"
  /\ dial' = "source"
  /\ answers' = Append(answers, "SVID")
  /\ UNCHANGED <<domain, cancelled, apiChannel, source, slept>>

\* Mutant: the last wait of the schedule is left out.
DeniedGivesUpEarly ==
  /\ dial = "probing"
  /\ answers' = Append(answers, "permission denied")
  /\ IF Len(slept) + 1 >= Len(Backoff)
     THEN Fail /\ UNCHANGED slept
     ELSE /\ dial' = "sleeping"
          /\ slept' = Append(slept, Backoff[Len(slept) + 1])
          /\ UNCHANGED <<apiChannel, source>>
  /\ UNCHANGED <<domain, cancelled>>

\* "No identity issued": wait, unless this was the last attempt.
ProbeDenied ==
  /\ dial = "probing"
  /\ answers' = Append(answers, "permission denied")
  /\ IF Len(slept) = Len(Backoff)
     THEN Fail /\ UNCHANGED slept
     ELSE /\ dial' = "sleeping"
          /\ slept' = Append(slept, Backoff[Len(slept) + 1])
          /\ UNCHANGED <<apiChannel, source>>
  /\ UNCHANGED <<domain, cancelled>>

\* Any other error, that of a cancelled ctx or token among them.
ProbeFails ==
  /\ dial = "probing"
  /\ answers' = Append(answers, "other error")
  /\ Fail
  /\ UNCHANGED <<domain, cancelled, slept>>

Slept ==
  /\ dial = "sleeping"
  /\ dial' = "probing"
  /\ UNCHANGED <<domain, cancelled, apiChannel, source, answers, slept>>

SleepCancelled ==
  /\ dial = "sleeping"
  /\ cancelled
  /\ Fail
  /\ UNCHANGED <<domain, cancelled, answers, slept>>

CancelCtx ==
  /\ client \in Cancellable
  /\ ~cancelled
  /\ cancelled' = TRUE
  /\ UNCHANGED <<domain, dial, apiChannel, source, answers, slept>>
-----------------------------------------------------------------------------
(* The source and the channel *)

SourceCreated ==
  /\ dial = "source"
  /\ dial' = "connecting"
  /\ source' = TRUE
  /\ UNCHANGED <<domain, cancelled, apiChannel, answers, slept>>

SourceFails ==
  /\ dial = "source"
  /\ Fail
  /\ UNCHANGED <<domain, cancelled, answers, slept>>

Connects ==
  /\ dial = "connecting"
  /\ domain = "valid"
  /\ dial' = "dialled"
  /\ UNCHANGED <<domain, cancelled, apiChannel, source, answers, slept>>

\* Mutant: the error path forgets the source.
ConnectFailsOnly ==
  /\ dial = "connecting"
  /\ dial' = "failed"
  /\ UNCHANGED <<domain, cancelled, apiChannel, source, answers, slept>>

\* A malformed trust domain, none of its bundle, an address that makes no channel.
ConnectFails ==
  /\ dial = "connecting"
  /\ Fail
  /\ UNCHANGED <<domain, cancelled, answers, slept>>

\* conn.Close and closer, DisposeAsync, channel.close and source.close, the drop
Close ==
  /\ dial = "dialled"
  /\ dial' = "closed"
  /\ apiChannel' = FALSE
  /\ source' = FALSE
  /\ UNCHANGED <<domain, cancelled, answers, slept>>

DialNext ==
  \/ Dial \/ ProbeSucceeds \/ ProbeDenied \/ ProbeFails \/ Slept \/ SleepCancelled
  \/ CancelCtx \/ SourceCreated \/ SourceFails \/ Connects \/ ConnectFails \/ Close

vars == <<client, domain, dial, cancelled, apiChannel, source, answers, slept>>

\* One dial, of one client.
Init == client \in Clients /\ NotCalled
Next == UNCHANGED client /\ DialNext
Spec == Init /\ [][Next]_vars
-----------------------------------------------------------------------------
(* What a dial promises *)

\* Every probe but the first follows a denied one and the wait the schedule has for
\* it, no other error is retried, and "no identity issued" is given up on only when
\* the schedule is used up, or while waiting, when the caller does.
RetrySchedule ==
  /\ IsPrefix(slept, Backoff)
  /\ \A i \in 1 .. Len(answers) - 1 : answers[i] = "permission denied"
  /\ dial = "failed" /\ answers # << >> /\ Last(answers) = "permission denied" =>
       Len(answers) = Len(Backoff) + 1 \/ (cancelled /\ Len(answers) = Len(slept))

\* A dial that failed leaves no source that watches the Workload API, and no
\* channel to it.
NothingLeftOpen == dial = "failed" => ~source /\ ~apiChannel

=============================================================================
