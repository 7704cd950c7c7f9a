----------------------------- MODULE TsWorkload ------------------------------
(***************************************************************************)
(* dialWorkload of the TypeScript client (typescript/src/workload.ts): it  *)
(* asks the SPIFFE Workload API for an SVID, again while none is issued,   *)
(* and builds a client whose server must be a member of the trust domain.  *)
(* The Workload API and the server are external.                           *)
(*                                                                         *)
(* Nothing but the interval keepAlive keeps Node's event loop from         *)
(* draining while the Workload API is asked: its socket and the timer of   *)
(* the backoff are unref'd.                                                *)
(***************************************************************************)
EXTENDS Naturals, Sequences, SequencesExt

CONSTANTS
  TrustDomain,     \* DialWorkloadOptions.trustDomain as it is written
  workloadDialBackoff

ASSUME BackoffAssumption == workloadDialBackoff \in Seq(Nat)

VARIABLES
  dial,       \* where dialWorkload is
  keepAlive,  \* the interval exists
  attempt,    \* the loop variable of retryUntilIdentityIssued
  answers,    \* history: what each probe came to
  slept       \* history: the waits between them

dialVars == <<dial, keepAlive, attempt, answers, slept>>

workloadDialMaxAttempts == Len(workloadDialBackoff) + 1

Answers == {"SVID", "permission denied", "other error", "no SVIDs", "closed"}

DialInit ==
  /\ dial = "not called"
  /\ keepAlive = FALSE
  /\ attempt = 0
  /\ answers = << >>
  /\ slept = << >>
-----------------------------------------------------------------------------
(* authorizeTrustDomainMember. A trust domain is written as a record: what
   white space and scheme it carries is trimmed, a path is an error. *)

normalizeTrustDomain(td) == IF td.name = "" \/ td.path THEN "throws" ELSE td.name

\* A certificate is the sequence of its alternative names: the trust domain of a
\* SPIFFE ID, or "not SPIFFE".  The first SPIFFE ID counts.
extractSpiffeId(cert) == SelectSeq(cert, LAMBDA san : san # "not SPIFFE")

authorized(cert) ==
  LET ids == extractSpiffeId(cert)
  IN ids # << >> /\ Head(ids) = normalizeTrustDomain(TrustDomain)
-----------------------------------------------------------------------------
(* workloadChannelCredentials *)

\* Mutant: nothing holds the event loop.
DialUnheld ==
  /\ dial = "not called"
  /\ \/ dial' = "failed"
     \/ normalizeTrustDomain(TrustDomain) # "throws" /\ dial' = "probing"
  /\ UNCHANGED <<keepAlive, attempt, answers, slept>>

\* The trust domain is checked and createClient called before the interval is set.
Dial ==
  /\ dial = "not called"
  /\ \/ dial' = "failed" /\ UNCHANGED keepAlive
     \/ /\ normalizeTrustDomain(TrustDomain) # "throws"
        /\ dial' = "probing"
        /\ keepAlive' = TRUE
  /\ UNCHANGED <<attempt, answers, slept>>

\* The finally block clears the interval whatever happened.
Settled(outcome) ==
  /\ dial' = outcome
  /\ keepAlive' = FALSE
  /\ UNCHANGED <<attempt, slept>>

\* fetchFirstX509SVID resolves, and credentialsFromSVID may throw on what it got.
ProbeSucceeds ==
  /\ dial = "probing"
  /\ answers' = Append(answers, "SVID")
  /\ Settled("dialled") \/ Settled("failed")

\* Mutant: the last wait of the schedule is left out.
GivesUpEarly ==
  /\ dial = "probing"
  /\ answers' = Append(answers, "permission denied")
  /\ IF attempt + 1 >= Len(workloadDialBackoff) THEN Settled("failed")
     ELSE /\ dial' = "sleeping"
          /\ slept' = Append(slept, workloadDialBackoff[attempt + 1])
          /\ UNCHANGED <<keepAlive, attempt>>

\* isNoIdentityIssuedErr: wait, unless this was the last attempt.
ProbeDenied ==
  /\ dial = "probing"
  /\ answers' = Append(answers, "permission denied")
  /\ IF attempt = Len(workloadDialBackoff) THEN Settled("failed")
     ELSE /\ dial' = "sleeping"
          /\ slept' = Append(slept, workloadDialBackoff[attempt + 1])
          /\ UNCHANGED <<keepAlive, attempt>>

ProbeFails ==
  /\ dial = "probing"
  /\ \E answer \in Answers \ {"SVID", "permission denied"} : answers' = Append(answers, answer)
  /\ Settled("failed")

DialSlept ==
  /\ dial = "sleeping"
  /\ dial' = "probing"
  /\ attempt' = attempt + 1
  /\ UNCHANGED <<keepAlive, answers, slept>>

DialStep == Dial \/ ProbeSucceeds \/ ProbeDenied \/ ProbeFails \/ DialSlept
-----------------------------------------------------------------------------
\* Every probe but the first follows a denied one and the wait the schedule has
\* for it, no other error is retried, and "no identity issued" is given up on
\* only when the schedule is used up (typescript/src/workload.ts:203-213,
\* 303-316).
RetrySchedule ==
  /\ IsPrefix(slept, workloadDialBackoff)
  /\ dial \in {"dialled", "failed"} /\ answers # << >> =>
       /\ Len(answers) = Len(slept) + 1
       /\ \A i \in 1 .. Len(answers) - 1 : answers[i] = "permission denied"
       /\ Last(answers) = "permission denied" => Len(answers) = workloadDialMaxAttempts

=============================================================================
