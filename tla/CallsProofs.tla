----------------------------- MODULE CallsProofs -----------------------------
(***************************************************************************)
(* What a dial and a call promise, for every set of hosts, tokens, methods *)
(* and messages, whatever the codec does and whatever the schedule of      *)
(* waits.                                                                  *)
(***************************************************************************)
EXTENDS MCCalls, SequenceTheorems, TLAPS

-----------------------------------------------------------------------------
(* The dial of a workload: Go, Rust, C#, Python *)

\* A step of such a dial, or one that leaves it alone.
DialStep == Dials!Next \/ UNCHANGED dialVars

Answers == {"SVID", "permission denied", "other error"}

DialTypeOK ==
  /\ client \in {"TypeScript"} \cup Dials!Clients
  /\ domain \in {"valid", "malformed"}
  /\ dial \in {"not called", "probing", "sleeping", "source", "connecting", "dialled",
               "closed", "failed"}
  /\ cancelled \in BOOLEAN
  /\ apiChannel \in BOOLEAN
  /\ source \in BOOLEAN
  /\ answers \in Seq(Answers)
  /\ slept \in Seq(Nat)

\* The waits are those of the schedule, as far as the dial has come.
SleptInv ==
  /\ Len(slept) <= Len(Backoff)
  /\ \A i \in 1 .. Len(slept) : slept[i] = Backoff[i]

\* One answer for each wait and, once the probing is over, one more: only that one may
\* be anything but a denial.
AnswersInv ==
  /\ dial = "not called" => answers = << >> /\ Len(slept) = 0
  /\ dial \in {"probing", "sleeping"} =>
       /\ Len(answers) = Len(slept)
       /\ \A i \in 1 .. Len(answers) : answers[i] = "permission denied"
  /\ dial \in {"source", "connecting", "dialled", "closed", "failed"} =>
       \/ answers = << >>
       \/ /\ \A i \in 1 .. Len(answers) - 1 : answers[i] = "permission denied"
          /\ Dials!Last(answers) = "permission denied" =>
               /\ dial = "failed"
               /\ Len(answers) = Len(Backoff) + 1 \/ (cancelled /\ Len(answers) = Len(slept))

\* The source lives from its creation to the end of the connection, the channel to
\* the Workload API through the whole dial, and only in C#.
OpenInv ==
  /\ dial \notin {"connecting", "dialled"} => source = FALSE
  /\ client # "C#" \/ dial \in {"not called", "closed", "failed"} => apiChannel = FALSE

DialInv == DialTypeOK /\ SleptInv /\ AnswersInv /\ OpenInv
-----------------------------------------------------------------------------
\* Nothing is open before the call, and nothing was tried.
LEMMA DialInit == MCInit => DialInv
<1> SUFFICES ASSUME MCInit PROVE DialInv
  OBVIOUS
<1>1. answers \in Seq(Answers) /\ slept \in Seq(Nat) /\ Len(slept) = 0 /\ 0 <= Len(Backoff)
  <2>1. answers = << >> /\ slept = << >>
    BY DEF MCInit, Dials!Init, Dials!NotCalled
  <2>2. Len(Backoff) \in Nat
    BY BackoffAssumption, LenProperties
  <2> QED
    BY <2>1, <2>2
<1>2. DialTypeOK
  BY <1>1 DEF DialTypeOK, MCInit, Dials!Init, Dials!NotCalled
<1>3. SleptInv
  BY <1>1 DEF SleptInv
<1>4. AnswersInv /\ OpenInv
  BY <1>1 DEF AnswersInv, OpenInv, MCInit, Dials!Init, Dials!NotCalled
<1> QED
  BY <1>2, <1>3, <1>4 DEF DialInv

\* The wait that follows a denial is there while the schedule is not used up.
LEMMA NextWait ==
  ASSUME DialTypeOK, SleptInv, Len(slept) # Len(Backoff)
  PROVE  /\ Len(slept) + 1 \in 1 .. Len(Backoff)
         /\ Backoff[Len(slept) + 1] \in Nat
<1>1. Len(slept) \in Nat /\ Len(Backoff) \in Nat
  BY BackoffAssumption, LenProperties DEF DialTypeOK
<1>2. Len(slept) + 1 \in 1 .. Len(Backoff)
  BY <1>1 DEF SleptInv
<1> QED
  BY <1>2, BackoffAssumption

LEMMA TypesStep == DialTypeOK /\ SleptInv /\ DialStep => DialTypeOK'
<1> SUFFICES ASSUME DialTypeOK, SleptInv, DialStep
             PROVE  DialTypeOK'
  OBVIOUS
<1>1. ASSUME NEW a \in Answers PROVE Append(answers, a) \in Seq(Answers)
  BY AppendProperties DEF DialTypeOK
<1>2. ASSUME Len(slept) # Len(Backoff)
      PROVE  Append(slept, Backoff[Len(slept) + 1]) \in Seq(Nat)
  BY <1>2, NextWait, AppendProperties DEF DialTypeOK
<1>3. "SVID" \in Answers /\ "permission denied" \in Answers /\ "other error" \in Answers
  BY DEF Answers
<1>4. client' = client
  BY DEF DialStep, Dials!Next, dialVars
<1> USE DEF DialTypeOK
<1>5. CASE Dials!Dial
  <2>1. apiChannel' \in BOOLEAN
    BY <1>5 DEF Dials!Dial
  <2> QED
    BY <1>4, <1>5, <2>1 DEF Dials!Dial
<1>6. CASE Dials!ProbeSucceeds
  BY <1>1, <1>3, <1>4, <1>6 DEF Dials!ProbeSucceeds
<1>7. CASE Dials!ProbeDenied
  <2>1. answers' \in Seq(Answers)
    BY <1>1, <1>3, <1>7 DEF Dials!ProbeDenied
  <2>2. slept' \in Seq(Nat)
    BY <1>2, <1>7 DEF Dials!ProbeDenied
  <2> QED
    BY <1>4, <1>7, <2>1, <2>2 DEF Dials!ProbeDenied, Dials!Fail
<1>8. CASE Dials!ProbeFails
  BY <1>1, <1>3, <1>4, <1>8 DEF Dials!ProbeFails, Dials!Fail
<1>9. CASE Dials!Slept \/ Dials!SleepCancelled \/ Dials!CancelCtx
  BY <1>4, <1>9 DEF Dials!Slept, Dials!SleepCancelled, Dials!CancelCtx, Dials!Fail
<1>10. CASE Dials!SourceCreated \/ Dials!SourceFails \/ Dials!Connects \/ Dials!ConnectFails \/ Dials!Close
  BY <1>4, <1>10 DEF Dials!SourceCreated, Dials!SourceFails, Dials!Connects, Dials!ConnectFails, Dials!Close, Dials!Fail
<1>11. CASE UNCHANGED dialVars
  BY <1>11 DEF dialVars
<1> QED
  BY <1>5, <1>6, <1>7, <1>8, <1>9, <1>10, <1>11 DEF DialStep, Dials!Next, Dials!DialNext

\* A wait is appended by the denial alone, and it is the next one of the schedule.
LEMMA SleptStep == DialTypeOK /\ SleptInv /\ DialStep => SleptInv'
<1> SUFFICES ASSUME DialTypeOK, SleptInv, DialStep
             PROVE  SleptInv'
  OBVIOUS
<1>1. CASE UNCHANGED slept
  BY <1>1 DEF SleptInv
<1>2. CASE Len(slept) # Len(Backoff) /\ slept' = Append(slept, Backoff[Len(slept) + 1])
  <2>1. Len(slept) + 1 \in 1 .. Len(Backoff) /\ Backoff[Len(slept) + 1] \in Nat
    BY <1>2, NextWait
  <2>2. slept \in Seq(Nat) /\ Len(slept) \in Nat /\ Len(Backoff) \in Nat
    BY BackoffAssumption, LenProperties DEF DialTypeOK
  <2>3. /\ Len(slept') = Len(slept) + 1 /\ slept'[Len(slept) + 1] = Backoff[Len(slept) + 1]
        /\ \A i \in 1 .. Len(slept) : slept'[i] = slept[i]
    BY <1>2, <2>1, <2>2, AppendProperties
  <2>4. Len(slept) + 1 <= Len(Backoff)
    BY <2>1, <2>2
  <2>5. \A i \in 1 .. Len(slept) + 1 : i = Len(slept) + 1 \/ i \in 1 .. Len(slept)
    BY <2>2
  <2> QED
    BY <2>3, <2>4, <2>5, Zenon DEF SleptInv
<1>3. UNCHANGED slept \/ (Len(slept) # Len(Backoff) /\ slept' = Append(slept, Backoff[Len(slept) + 1]))
  BY DEF DialStep, Dials!Next, Dials!DialNext, dialVars, Dials!Dial, Dials!ProbeSucceeds, Dials!ProbeDenied, Dials!ProbeFails, Dials!Slept, Dials!SleepCancelled,
         Dials!CancelCtx, Dials!SourceCreated, Dials!SourceFails, Dials!Connects, Dials!ConnectFails, Dials!Close
<1> QED
  BY <1>1, <1>2, <1>3

\* An answer joins those before it, which were all denials.
LEMMA NextAnswer ==
  ASSUME DialTypeOK, AnswersInv, dial = "probing", NEW a \in Answers, answers' = Append(answers, a)
  PROVE  /\ Len(answers') = Len(slept) + 1
         /\ \A i \in 1 .. Len(slept) : answers'[i] = "permission denied"
         /\ answers'[Len(slept) + 1] = a
         /\ Dials!Last(answers') = a
<1>1. answers \in Seq(Answers) /\ Len(answers) \in Nat /\ Len(answers) = Len(slept)
  BY BackoffAssumption, LenProperties DEF DialTypeOK, AnswersInv
<1>2. /\ Len(answers') = Len(answers) + 1 /\ answers'[Len(answers) + 1] = a
      /\ \A i \in 1 .. Len(answers) : answers'[i] = answers[i]
  BY <1>1, AppendProperties
<1>3. Dials!Last(answers') = a
  BY <1>2 DEF Dials!Last
<1>4. \A i \in 1 .. Len(answers) : answers[i] = "permission denied"
  BY DEF AnswersInv
<1> QED
  BY <1>1, <1>2, <1>3, <1>4

\* All answers but the last are as many as the waits.
LEMMA OneLess == \A n \in Nat : (n + 1) - 1 = n
OBVIOUS

\* The answer that ends the probing: a success, an error, or the denial of the last attempt.
LEMMA LastAnswer ==
  ASSUME DialTypeOK, AnswersInv, dial = "probing", NEW a \in Answers, answers' = Append(answers, a),
         dial' \in {"source", "failed"}, UNCHANGED slept,
         a = "permission denied" => dial' = "failed" /\ Len(slept) = Len(Backoff)
  PROVE  AnswersInv'
<1>1. Len(slept) \in Nat
  BY BackoffAssumption, LenProperties DEF DialTypeOK
<1>2. /\ Len(answers') = Len(slept) + 1 /\ Dials!Last(answers') = a
      /\ \A i \in 1 .. Len(slept) : answers'[i] = "permission denied"
  BY NextAnswer
<1>3. Len(answers') - 1 = Len(slept)
  <2>1. Len(answers') = Len(slept) + 1
    BY <1>2
  <2> QED
    BY <1>1, <2>1, OneLess, Zenon
<1>4. dial' \notin {"not called", "probing", "sleeping"}
  OBVIOUS
<1> QED
  BY <1>2, <1>3, <1>4, Zenon DEF AnswersInv

LEMMA AnswersStep ==
  DialTypeOK /\ SleptInv /\ AnswersInv /\ DialStep => AnswersInv'
<1> SUFFICES ASSUME DialTypeOK, SleptInv, AnswersInv, DialStep
             PROVE  AnswersInv'
  OBVIOUS
<1>1. "SVID" \in Answers /\ "permission denied" \in Answers /\ "other error" \in Answers
  BY DEF Answers
<1>2. CASE Dials!Dial
  <2>1. answers' = << >> /\ Len(answers') = 0 /\ Len(slept') = 0
    BY <1>2 DEF Dials!Dial, AnswersInv
  <2>2. \A i \in 1 .. 0 : FALSE
    OBVIOUS
  <2>3. dial' \in {"failed", "source", "probing"}
    BY <1>2 DEF Dials!Dial
  <2> QED
    BY <2>1, <2>2, <2>3 DEF AnswersInv
<1>3. CASE Dials!ProbeSucceeds
  BY <1>1, <1>3, LastAnswer DEF Dials!ProbeSucceeds
<1>4. CASE Dials!ProbeFails
  BY <1>1, <1>4, LastAnswer DEF Dials!ProbeFails, Dials!Fail
<1>5. CASE Dials!ProbeDenied
  <2>1. CASE Len(slept) = Len(Backoff)
    BY <1>1, <1>5, <2>1, LastAnswer DEF Dials!ProbeDenied, Dials!Fail
  <2>2. CASE Len(slept) # Len(Backoff)
    <3>1. /\ dial = "probing" /\ dial' = "sleeping"
          /\ answers' = Append(answers, "permission denied")
          /\ slept' = Append(slept, Backoff[Len(slept) + 1])
      BY <1>5, <2>2 DEF Dials!ProbeDenied
    <3>2. Len(slept) \in Nat /\ Len(slept') = Len(slept) + 1
      BY <2>2, <3>1, NextWait, BackoffAssumption, LenProperties, AppendProperties DEF DialTypeOK
    <3>3. /\ Len(answers') = Len(slept) + 1
          /\ answers'[Len(slept) + 1] = "permission denied"
          /\ \A i \in 1 .. Len(slept) : answers'[i] = "permission denied"
      BY <1>1, <3>1, NextAnswer
    <3>4. \A i \in 1 .. Len(slept) + 1 : i = Len(slept) + 1 \/ i \in 1 .. Len(slept)
      BY <3>2
    <3> QED
      BY <3>1, <3>2, <3>3, <3>4, Zenon DEF AnswersInv
  <2> QED
    BY <2>1, <2>2
<1>6. CASE Dials!Slept
  BY <1>6 DEF Dials!Slept, AnswersInv
<1>7. CASE Dials!SleepCancelled
  <2>1. /\ dial' = "failed" /\ cancelled' /\ answers' = answers /\ slept' = slept
        /\ Len(answers) = Len(slept)
        /\ \A i \in 1 .. Len(answers) : answers[i] = "permission denied"
    BY <1>7 DEF Dials!SleepCancelled, Dials!Fail, AnswersInv
  <2>2. \A i \in 1 .. Len(answers) - 1 : i \in 1 .. Len(answers)
    <3>1. Len(answers) \in Nat
      BY BackoffAssumption, LenProperties DEF DialTypeOK
    <3> QED
      BY <3>1
  <2> QED
    BY <2>1, <2>2, Zenon DEF AnswersInv
<1>8. CASE Dials!CancelCtx
  BY <1>8 DEF Dials!CancelCtx, AnswersInv, Dials!Last
<1>9. CASE Dials!SourceCreated \/ Dials!SourceFails \/ Dials!Connects \/ Dials!ConnectFails \/ Dials!Close
  <2>1. /\ dial \in {"source", "connecting", "dialled"}
        /\ dial' \in {"connecting", "dialled", "closed", "failed"}
        /\ answers' = answers /\ slept' = slept /\ cancelled' = cancelled
    BY <1>9 DEF Dials!SourceCreated, Dials!SourceFails, Dials!Connects, Dials!ConnectFails, Dials!Close, Dials!Fail
  <2> QED
    BY <2>1 DEF AnswersInv, Dials!Last
<1>10. CASE UNCHANGED dialVars
  BY <1>10 DEF dialVars, AnswersInv, Dials!Last
<1> QED
  BY <1>2, <1>3, <1>4, <1>5, <1>6, <1>7, <1>8, <1>9, <1>10 DEF DialStep, Dials!Next, Dials!DialNext

LEMMA OpenStep == DialTypeOK /\ OpenInv /\ DialStep => OpenInv'
<1> SUFFICES ASSUME DialTypeOK, OpenInv, DialStep
             PROVE  OpenInv'
  OBVIOUS
<1>1. client' = client
  BY DEF DialStep, Dials!Next, dialVars
<1> USE DEF OpenInv
<1>2. CASE Dials!Dial
  BY <1>1, <1>2 DEF Dials!Dial
<1>3. CASE Dials!ProbeSucceeds
  BY <1>1, <1>3 DEF Dials!ProbeSucceeds
<1>4. CASE Dials!ProbeDenied
  BY <1>1, <1>4 DEF Dials!ProbeDenied, Dials!Fail
<1>5. CASE Dials!ProbeFails
  BY <1>1, <1>5 DEF Dials!ProbeFails, Dials!Fail
<1>6. CASE Dials!Slept
  BY <1>1, <1>6 DEF Dials!Slept
<1>7. CASE Dials!SleepCancelled
  BY <1>1, <1>7 DEF Dials!SleepCancelled, Dials!Fail
<1>8. CASE Dials!CancelCtx
  BY <1>1, <1>8 DEF Dials!CancelCtx
<1>9. CASE Dials!SourceCreated
  BY <1>1, <1>9 DEF Dials!SourceCreated
<1>10. CASE Dials!SourceFails
  BY <1>1, <1>10 DEF Dials!SourceFails, Dials!Fail
<1>11. CASE Dials!Connects
  BY <1>1, <1>11 DEF Dials!Connects
<1>12. CASE Dials!ConnectFails
  BY <1>1, <1>12 DEF Dials!ConnectFails, Dials!Fail
<1>13. CASE Dials!Close
  BY <1>1, <1>13 DEF Dials!Close
<1>14. CASE UNCHANGED dialVars
  BY <1>14 DEF dialVars
<1> QED
  BY <1>2, <1>3, <1>4, <1>5, <1>6, <1>7, <1>8, <1>9, <1>10, <1>11, <1>12, <1>13, <1>14 DEF DialStep, Dials!Next, Dials!DialNext
-----------------------------------------------------------------------------
LEMMA DialInvariance == MCSpec => []DialInv
<1>1. MCInit => DialInv
  BY DialInit
<1>2. [MCNext]_<<vars, dialVars>> => DialStep
  BY DEF MCNext, DialStep
<1>3. DialInv /\ DialStep => DialInv'
  BY TypesStep, SleptStep, AnswersStep, OpenStep DEF DialInv
<1> QED
  BY <1>1, <1>2, <1>3, PTL DEF MCSpec

\* Whatever the schedule, and whichever of the four clients dials: the waits are the
\* schedule's, only a denial is retried, "no identity issued" is given up on only after
\* the last wait or a cancelled one, and a failed dial leaves nothing open
\* (go/client.go:97-165, rust/src/client.rs:442-626, csharp/WorkloadConnection.cs:113-251,
\* python/src/signet_client/workload.py:94-148).
THEOREM WorkloadDials == MCSpec => []DialsAsPromised
<1>1. DialInv => DialsAsPromised
  <2> SUFFICES ASSUME DialInv PROVE DialsAsPromised
    OBVIOUS
  <2>1. /\ slept \in Seq(Nat) /\ Len(slept) <= Len(Backoff)
        /\ \A i \in 1 .. Len(slept) : slept[i] = Backoff[i]
    BY DEF DialInv, DialTypeOK, SleptInv
  <2>2. Dials!IsPrefix(slept, Backoff)
    BY <2>1 DEF Dials!IsPrefix
  <2>3. \A i \in 1 .. Len(answers) - 1 : answers[i] = "permission denied"
    <3>1. Len(answers) \in Nat
      BY BackoffAssumption, LenProperties DEF DialInv, DialTypeOK
    <3>2. \A i \in 1 .. Len(answers) - 1 : i \in 1 .. Len(answers)
      BY <3>1
    <3>3. answers # << >> \/ ~ \E i \in 1 .. Len(answers) - 1 : TRUE
      OBVIOUS
    <3> QED
      BY <3>2, <3>3 DEF DialInv, DialTypeOK, AnswersInv
  <2>4. Dials!RetrySchedule
    BY <2>2, <2>3 DEF Dials!RetrySchedule, DialInv, AnswersInv
  <2>5. Dials!NothingLeftOpen
    BY DEF Dials!NothingLeftOpen, DialInv, OpenInv
  <2> QED
    BY <2>4, <2>5 DEF DialsAsPromised
<1> QED
  BY <1>1, DialInvariance, PTL
-----------------------------------------------------------------------------
(* The choice of a transport *)

\* Plaintext is for a loopback host or on request, and only without a bundle.
LEMMA DecisionTs ==
  ASSUME NEW o \in DialAdminOptions
  PROVE  /\ adminChannelCredentials(o) = "plaintext" =>
              (o.plaintext \/ isLoopbackHost(hostOf(o.address))) /\ ~NotEmpty(o.caPem)
         /\ adminChannelCredentials(o) = "TLS" => ~o.plaintext
<1>1. /\ adminTransportMode(o) = "plaintext" =>
           (o.plaintext \/ isLoopbackHost(hostOf(o.address))) /\ ~NotEmpty(o.caPem)
      /\ adminTransportMode(o) = "TLS" => ~o.plaintext
  BY DEF adminTransportMode, NotEmpty
<1>2. adminChannelCredentials(o) \in {"throws", adminTransportMode(o)}
  BY DEF adminChannelCredentials
<1> QED
  BY <1>1, <1>2

\* No language takes another host for loopback than the loopback hosts, nor an address
\* that it cannot split.
LEMMA LoopbackHosts ==
  /\ GoLoopback \cup PythonLoopback \cup RustLoopback \cup CSharpLoopback \subseteq Loopback
  /\ {"localhost", "::1"} \cup (IPv4 \cap Begins127) \subseteq Loopback
  /\ NoHost \notin Loopback
BY HostAssumption DEF GoLoopback, PythonLoopback, RustLoopback, CSharpLoopback, LoopbackIP

\* Whichever way an address is taken apart, what comes out as loopback was.
LEMMA SplitsToLoopback ==
  ASSUME NEW a \in Addresses
  PROVE  /\ SplitHostPort(a) \in GoLoopback => a.host \in Loopback
         /\ _split_host(a) \in PythonLoopback => a.host \in Loopback
         /\ host_of(a) \in RustLoopback => a.host \in Loopback
         /\ ExtractHost(a) \in CSharpLoopback => a.host \in Loopback
         /\ isLoopbackHost(hostOf(a)) => a.host \in Loopback
BY LoopbackHosts DEF SplitHostPort, _split_host, host_of, ExtractHost, hostOf, isLoopbackHost

\* Each of the five is one of the two decisions, or none.
LEMMA TransportIsMeant ==
  ASSUME NEW o \in DialAdminOptions, NEW language \in DOMAIN Transports(o)
  PROVE  /\ Transports(o)[language] = "plaintext" =>
              (o.plaintext \/ o.address.host \in Loopback) /\ ~NotEmpty(o.caPem)
         /\ Transports(o)[language] = "TLS" => ~o.plaintext
<1>1. o.address \in Addresses
  BY DEF DialAdminOptions
<1>2. \/ Transports(o)[language] = "throws"
      \/ Transports(o)[language] = adminChannelCredentials(o)
      \/ Transports(o)[language] = adminTransportCreds(o)
      \/ Transports(o)[language] = _admin_transport_credentials(o)
      \/ Transports(o)[language] = admin_transport_decision(o)
      \/ Transports(o)[language] = Resolve(o)
  <2>1. Transports(o)[language] \in {adminChannelCredentials(o), DialsAs(o)[language]}
    BY DEF Transports
  <2>2. CASE language = "TypeScript"
    BY <2>2 DEF Transports
  <2>3. CASE language \in DOMAIN DialsAs(o)
    <3>1. /\ DOMAIN DialsAs(o) = {"Go", "Python", "Rust", "CSharp"}
          /\ DialsAs(o)["Go"] \in {"throws", adminTransportCreds(o)}
          /\ DialsAs(o)["Python"] \in {"throws", _admin_transport_credentials(o)}
          /\ DialsAs(o)["Rust"] \in {"throws", admin_transport_decision(o)}
          /\ DialsAs(o)["CSharp"] \in {"throws", Resolve(o)}
      BY DEF DialsAs
    <3> QED
      BY <2>1, <2>3, <3>1
  <2> QED
    BY <2>2, <2>3 DEF Transports
<1>3. CASE Transports(o)[language] = "throws"
  BY <1>3
<1>4. CASE Transports(o)[language] = adminChannelCredentials(o)
  BY <1>1, <1>4, DecisionTs, SplitsToLoopback
<1>5. CASE Transports(o)[language] = adminTransportCreds(o)
  <2>1. /\ adminTransportCreds(o) = "plaintext" =>
             (o.plaintext \/ SplitHostPort(o.address) \in GoLoopback) /\ ~NotEmpty(o.caPem)
        /\ adminTransportCreds(o) = "TLS" => ~o.plaintext
    BY DEF adminTransportCreds, Transport
  <2> QED
    BY <1>1, <1>5, <2>1, SplitsToLoopback
<1>6. CASE Transports(o)[language] = _admin_transport_credentials(o)
  <2>1. /\ _admin_transport_credentials(o) = "plaintext" =>
             (o.plaintext \/ _split_host(o.address) \in PythonLoopback) /\ ~NotEmpty(o.caPem)
        /\ _admin_transport_credentials(o) = "TLS" => ~o.plaintext
    BY DEF _admin_transport_credentials, Transport
  <2> QED
    BY <1>1, <1>6, <2>1, SplitsToLoopback
<1>7. CASE Transports(o)[language] = admin_transport_decision(o)
  <2>1. /\ admin_transport_decision(o) = "plaintext" =>
             (o.plaintext \/ host_of(o.address) \in RustLoopback) /\ ~NotEmpty(o.caPem)
        /\ admin_transport_decision(o) = "TLS" => ~o.plaintext
    BY DEF admin_transport_decision, Transport
  <2> QED
    BY <1>1, <1>7, <2>1, SplitsToLoopback
<1>8. CASE Transports(o)[language] = Resolve(o)
  <2>1. /\ Resolve(o) = "plaintext" =>
             (o.plaintext \/ ExtractHost(o.address) \in CSharpLoopback) /\ ~NotEmpty(o.caPem)
        /\ Resolve(o) = "TLS" => ~o.plaintext
    BY DEF Resolve, Transport
  <2> QED
    BY <1>1, <1>8, <2>1, SplitsToLoopback
<1> QED
  BY <1>2, <1>3, <1>4, <1>5, <1>6, <1>7, <1>8
-----------------------------------------------------------------------------
(* The header of a call *)

LEMMA OneInterceptor ==
  ASSUME NEW a, NEW all, all = <<a>> \o << >>
  PROVE  DOMAIN all = {1} /\ all[1] = a /\ Range(all) = {a}
<1>1. all = <<a>>
  OBVIOUS
<1>2. DOMAIN all = {1} /\ all[1] = a
  BY <1>1
<1> QED
  BY <1>2 DEF Range

LEMMA TwoInterceptors ==
  ASSUME NEW a, NEW b, NEW all, all = <<a>> \o <<b>>
  PROVE  DOMAIN all = {1, 2} /\ all[1] = a /\ all[2] = b
<1>1. <<a>> \in Seq({a, b}) /\ <<b>> \in Seq({a, b}) /\ Len(<<a>>) = 1 /\ Len(<<b>>) = 1
  OBVIOUS
<1>2. Len(all) = 2 /\ all \in Seq({a, b})
  BY <1>1, ConcatProperties
<1>3. DOMAIN all = {1, 2}
  BY <1>2
<1>4. all[1] = a /\ all[2] = b
  BY <1>1
<1> QED
  BY <1>3, <1>4

\* The last interceptor that sets the header decides what it is.
LEMMA FirstSets ==
  ASSUME NEW all, 1 \in DOMAIN all, DOMAIN all \subseteq {1, 2}, all[1].sets,
         2 \in DOMAIN all => ~all[2].sets
  PROVE  Intercepted(all) = all[1].authorization
<1> DEFINE setting == {i \in DOMAIN all : all[i].sets}
<1>1. setting = {1}
  OBVIOUS
<1>2. Max(setting) = 1
  BY <1>1 DEF Max
<1> QED
  BY <1>1, <1>2 DEF Intercepted

LEMMA SecondSets ==
  ASSUME NEW all, DOMAIN all = {1, 2}, all[2].sets
  PROVE  Intercepted(all) = all[2].authorization
<1> DEFINE setting == {i \in DOMAIN all : all[i].sets}
<1>1. 2 \in setting /\ setting \subseteq {1, 2}
  OBVIOUS
<1>2. Max(setting) = 2
  BY <1>1 DEF Max
<1> QED
  BY <1>1, <1>2 DEF Intercepted

LEMMA Interceptor ==
  /\ ~trace.sets
  /\ \A token : authInterceptor(token).sets /\ authInterceptor(token).authorization = token
BY DEF trace, authInterceptor

\* The token, unless the one interceptor of the caller that sets a header follows it.
LEMMA HeaderSent ==
  ASSUME NEW token, NEW given \in Interceptors,
         NEW all, all = <<authInterceptor(token)>> \o given
  PROVE  Intercepted(all) = IF authInterceptor("own") \in Range(all) THEN "own" ELSE token
<1>1. CASE given = << >>
  <2>1. DOMAIN all = {1} /\ all[1] = authInterceptor(token) /\ Range(all) = {authInterceptor(token)}
    BY <1>1, OneInterceptor
  <2>2. Intercepted(all) = token
    <3>1. 1 \in DOMAIN all /\ DOMAIN all \subseteq {1, 2} /\ all[1].sets /\ all[1].authorization = token
      BY <2>1, Interceptor
    <3>2. 2 \in DOMAIN all => ~all[2].sets
      BY <2>1, Interceptor
    <3> QED
      BY <2>1, <3>1, <3>2, FirstSets
  <2>3. authInterceptor("own") = authInterceptor(token) => token = "own"
    BY Interceptor
  <2> QED
    BY <2>1, <2>2, <2>3
<1>2. CASE given = <<trace>>
  <2>1. /\ DOMAIN all = {1, 2} /\ all[1] = authInterceptor(token) /\ all[2] = trace
        /\ Range(all) = {authInterceptor(token), trace}
    <3>1. all = <<authInterceptor(token)>> \o <<trace>>
      BY <1>2
    <3>2. DOMAIN all = {1, 2} /\ all[1] = authInterceptor(token) /\ all[2] = trace
      BY ONLY <3>1, TwoInterceptors
    <3> QED
      BY <3>2 DEF Range
  <2>2. Intercepted(all) = token
    <3>1. 1 \in DOMAIN all /\ DOMAIN all \subseteq {1, 2} /\ all[1].sets /\ all[1].authorization = token
      BY <2>1, Interceptor
    <3>2. 2 \in DOMAIN all => ~all[2].sets
      BY <2>1, Interceptor
    <3> QED
      BY <2>1, <3>1, <3>2, FirstSets
  <2>3. /\ authInterceptor("own") = authInterceptor(token) => token = "own"
        /\ authInterceptor("own") # trace
    BY Interceptor
  <2> QED
    BY <2>1, <2>2, <2>3
<1>3. CASE given = <<authInterceptor("own")>>
  <2>1. /\ DOMAIN all = {1, 2} /\ all[2] = authInterceptor("own")
        /\ authInterceptor("own") \in Range(all)
    <3>1. all = <<authInterceptor(token)>> \o <<authInterceptor("own")>>
      BY <1>3
    <3>2. DOMAIN all = {1, 2} /\ all[2] = authInterceptor("own")
      BY ONLY <3>1, TwoInterceptors
    <3> QED
      BY <3>2 DEF Range
  <2>2. Intercepted(all) = "own"
    <3>1. 2 \in DOMAIN all /\ all[2].sets /\ all[2].authorization = "own"
      BY <2>1, Interceptor
    <3> QED
      BY <2>1, <3>1, SecondSets
  <2> QED
    BY <2>1, <2>2
<1> QED
  BY <1>1, <1>2, <1>3 DEF Interceptors
-----------------------------------------------------------------------------
(* The documents for sops *)

\* Formatting an instant in whole seconds anew changes nothing.
LEMMA WholeSecondsOnce ==
  ASSUME NEW ms \in Nat
  PROVE  wholeSeconds(wholeSeconds(ms)) = wholeSeconds(ms)
BY DEF wholeSeconds

LEMMA Seal ==
  \A key, plaintext, aad :
    /\ Sealed(key, plaintext, aad).key = key
    /\ Sealed(key, plaintext, aad).plaintext = plaintext
    /\ Sealed(key, plaintext, aad).aad = aad
BY DEF Sealed

\* What is sealed for a recipient opens with its identity.
LEMMA DocumentOpens ==
  ASSUME NEW publicKey, NEW value, NEW ms \in Nat,
         NEW document, document = encryptForSecret(publicKey, value, ms), ~document.thrown
  PROVE  sopsDecrypts(document, "age1") /\ document.value.plaintext = value
<1>1. trim(publicKey) = "age1"
  BY DEF encryptForSecret
<1>2. /\ document.value = Sealed("datakey", value, "value")
      /\ document.sops.enc = Sealed("age1", "datakey", "age")
      /\ document.sops.lastmodified = wholeSeconds(ms)
      /\ document.sops.mac = Sealed("datakey", <<"SHA512", value>>, wholeSeconds(ms))
  BY <1>1 DEF encryptForSecret
<1>3. /\ document.value.key = "datakey" /\ document.value.plaintext = value
      /\ document.value.aad = "value"
  BY <1>2, Seal
<1>4. document.sops.enc.key = "age1" /\ document.sops.enc.plaintext = "datakey"
  BY <1>2, Seal
<1>5. /\ document.sops.mac.key = "datakey" /\ document.sops.mac.aad = wholeSeconds(ms)
      /\ document.sops.mac.plaintext = <<"SHA512", value>>
  BY <1>2, Seal
<1>6. document.sops.mac.aad = wholeSeconds(document.sops.lastmodified)
  BY <1>2, <1>5, WholeSecondsOnce
<1> QED
  BY <1>3, <1>4, <1>5, <1>6 DEF sopsDecrypts
-----------------------------------------------------------------------------
(* The application of the TypeScript client *)

\* A connection was given its credentials by the caller, or is one that dialAdmin made
\* for a token and the interceptors of the caller.
ConnInv ==
  \/ conn = NoConn
  \/ conn.open /\ conn.transport = "given"
  \/ /\ conn.open
     /\ \E given \in Interceptors :
          conn.interceptors = <<authInterceptor(trim(conn.token))>> \o given

\* What a step has made known was made by the connection there is, and from the options
\* and the secret there were.
OpInv ==
  /\ op.step = "dialled" => op.opts \in DialAdminOptions /\ op.transports = Transports(op.opts)
  /\ op.step \in {"sent", "received", "refused", "parsed"} => conn.open
  /\ op.step = "sent" /\ op.sender = "client" =>
       op.authorization = Intercepted(conn.interceptors)
  /\ op.step = "encrypted" => \E publicKey \in Recipients, ms \in Nat :
       op.document = encryptForSecret(publicKey, op.value, ms)

CallInv == ConnInv /\ OpInv

LEMMA CallInit == MCInit => CallInv
<1> SUFFICES ASSUME MCInit PROVE CallInv
  OBVIOUS
<1>1. conn = NoConn /\ op.step = "idle"
  BY DEF MCInit, Init, Idle
<1> QED
  BY <1>1 DEF CallInv, ConnInv, OpInv

\* What a call is sent with, whatever is sent.
LEMMA SendStep ==
  ASSUME NEW method, Send(method)
  PROVE  op'.step = "sent" /\ op'.authorization = Intercepted(conn.interceptors)
BY DEF Send

LEMMA ReceivedStep ==
  ASSUME NEW o, NEW limit
  PROVE  Received(o, limit).step \in {"received", "refused"}
BY DEF Received

\* The steps that make a connection or end one happen between the calls.
LEMMA ConnStep ==
  ASSUME ConnInv, [Next]_vars
  PROVE  ConnInv' /\ (UNCHANGED conn \/ op'.step \in {"idle", "dialled"})
<1>1. CASE UNCHANGED conn
  BY <1>1 DEF ConnInv
<1>2. ASSUME NEW o \in DialAdminOptions, DialAdmin(o)
      PROVE  ConnInv' /\ op'.step = "dialled"
  <2>1. op'.step = "dialled"
    BY <1>2 DEF DialAdmin
  <2>2. CASE conn' = NoConn
    BY <2>1, <2>2 DEF ConnInv, NoConn
  <2>3. ASSUME NEW service,
               conn' = [open |-> TRUE, service |-> service,
                        transport |-> adminChannelCredentials(o),
                        interceptors |-> mergeAuthInterceptor(o), token |-> o.token]
        PROVE  ConnInv'
    <3>1. conn'.open /\ conn'.token = o.token /\ conn'.interceptors = mergeAuthInterceptor(o)
      BY <2>3
    <3>2. mergeAuthInterceptor(o) = <<authInterceptor(trim(o.token))>> \o o.interceptors
      BY DEF mergeAuthInterceptor
    <3>3. o.interceptors \in Interceptors
      BY DEF DialAdminOptions
    <3> QED
      BY <3>1, <3>2, <3>3 DEF ConnInv
  <2> QED
    BY <1>2, <2>1, <2>2, <2>3 DEF DialAdmin
<1>3. CASE ClientWithCredentials
  <2>1. conn'.open /\ conn'.transport = "given" /\ op'.step = "idle"
    BY <1>3 DEF ClientWithCredentials, Idle
  <2> QED
    BY <2>1 DEF ConnInv
<1>4. CASE Close
  BY <1>4 DEF Close, ConnInv, Idle
<1>5. CASE DialReturned \/ Invoke \/ Write \/ ServerReceives \/ Respond \/ ClientReceives
  BY <1>1, <1>5 DEF DialReturned, Invoke, Write, ServerReceives, Respond, ClientReceives
<1>6. CASE PrintAsJSON \/ CallEnds \/ Encrypt \/ EncryptReturned \/ UNCHANGED vars
  BY <1>1, <1>6 DEF PrintAsJSON, CallEnds, Encrypt, EncryptReturned, vars
<1> QED
  BY <1>2, <1>3, <1>4, <1>5, <1>6 DEF Next

LEMMA OpStep == CallInv /\ [Next]_vars => OpInv'
<1> SUFFICES ASSUME CallInv, [Next]_vars
             PROVE  OpInv'
  OBVIOUS
<1> USE DEF OpInv
<1>1. OpInv
  BY DEF CallInv
<1>2. CASE op'.step = "idle"
  BY <1>2
<1>3. ASSUME NEW o \in DialAdminOptions, DialAdmin(o)
      PROVE  OpInv'
  <2>1. op'.step = "dialled" /\ op'.opts = o /\ op'.transports = Transports(o)
    BY <1>3 DEF DialAdmin
  <2> QED
    BY <2>1
<1>4. CASE DialReturned \/ CallEnds \/ EncryptReturned
  BY <1>2, <1>4 DEF DialReturned, CallEnds, EncryptReturned, Idle
<1>5. CASE ClientWithCredentials \/ Close
  BY <1>2, <1>5 DEF ClientWithCredentials, Close, Idle
<1>6. CASE Invoke \/ Write
  <2>1. conn.open /\ conn' = conn /\ \E method : Send(method)
    BY <1>1, <1>6 DEF Invoke, Write
  <2>2. op'.step = "sent" /\ op'.authorization = Intercepted(conn.interceptors)
    BY <2>1, SendStep
  <2> QED
    BY <2>1, <2>2
<1>7. CASE ServerReceives \/ ClientReceives
  <2>1. conn.open /\ conn' = conn
    BY <1>1, <1>7 DEF ServerReceives, ClientReceives
  <2>2. op'.step \in {"received", "refused"}
    BY <1>7, ReceivedStep DEF ServerReceives, ClientReceives
  <2> QED
    BY <2>1, <2>2
<1>8. CASE Respond
  <2>1. conn.open /\ conn' = conn /\ op'.step = "sent" /\ op'.sender = "server"
    BY <1>1, <1>8 DEF Respond
  <2> QED
    BY <2>1
<1>9. CASE PrintAsJSON
  <2>1. conn.open /\ conn' = conn /\ op'.step = "parsed"
    BY <1>1, <1>9 DEF PrintAsJSON
  <2> QED
    BY <2>1
<1>10. CASE Encrypt
  <2>1. PICK publicKey \in Recipients, value \in {<< >>, <<1>>}, ms \in Instants :
          op' = [step |-> "encrypted", value |-> value,
                 document |-> encryptForSecret(publicKey, value, ms)]
    BY <1>10 DEF Encrypt
  <2>2. /\ op'.step = "encrypted" /\ op'.value = value
        /\ op'.document = encryptForSecret(publicKey, value, ms)
    BY <2>1
  <2>3. ms \in Nat
    BY InputAssumption
  <2> QED
    BY <2>2, <2>3
<1>11. CASE UNCHANGED vars
  BY <1>1, <1>11 DEF vars
<1> QED
  BY <1>3, <1>4, <1>5, <1>6, <1>7, <1>8, <1>9, <1>10, <1>11 DEF Next

LEMMA CallInvariance == MCSpec => []CallInv
<1>1. MCInit => CallInv
  BY CallInit
<1>2. [MCNext]_<<vars, dialVars>> => [Next]_vars
  BY DEF MCNext
<1>3. CallInv /\ [Next]_vars => CallInv'
  BY ConnStep, OpStep DEF CallInv
<1> QED
  BY <1>1, <1>2, <1>3, PTL DEF MCSpec

\* Whatever hosts there are and whatever an address looks like, no client sends a token
\* in plaintext but to this machine or on request, none past a bundle that was given, and
\* none answers a request for plaintext with TLS (go/client.go:246-284,
\* python/src/signet_client/admin.py:129-202, rust/src/client.rs:319-378,
\* csharp/AdminConnection.cs:118-230, typescript/src/client.ts:181-244).
THEOREM PlaintextOnRequest == MCSpec => []PlaintextIsMeant
<1>1. CallInv => PlaintextIsMeant
  <2> SUFFICES ASSUME CallInv, op.step = "dialled", NEW language \in DOMAIN op.transports
               PROVE  /\ op.transports[language] = "plaintext" =>
                           op.opts.plaintext \/ op.opts.address.host \in Loopback
                      /\ op.transports[language] = "TLS" => ~op.opts.plaintext
                      /\ NotEmpty(op.opts.caPem) => op.transports[language] # "plaintext"
    BY DEF PlaintextIsMeant
  <2>1. op.opts \in DialAdminOptions /\ op.transports = Transports(op.opts)
    BY DEF CallInv, OpInv
  <2> QED
    BY <2>1, TransportIsMeant
<1> QED
  BY <1>1, CallInvariance, PTL

\* Whatever tokens there are, every message that an admin client sends carries the trimmed
\* token, or what an interceptor of the caller put in its place
\* (typescript/src/client.ts:117-143).
THEOREM TokenOnEveryCall == MCSpec => []AdminCallsCarryToken
<1>1. CallInv => AdminCallsCarryToken
  <2> SUFFICES ASSUME CallInv, op.step = "sent", op.sender = "client", conn.transport # "given"
               PROVE  op.authorization = IF authInterceptor("own") \in Range(conn.interceptors)
                                         THEN "own" ELSE trim(conn.token)
    BY DEF AdminCallsCarryToken
  <2>1. conn.open /\ op.authorization = Intercepted(conn.interceptors)
    BY DEF CallInv, OpInv
  <2>2. PICK given \in Interceptors :
          conn.interceptors = <<authInterceptor(trim(conn.token))>> \o given
    BY <2>1 DEF CallInv, ConnInv, NoConn
  <2>3. Intercepted(conn.interceptors) = IF authInterceptor("own") \in Range(conn.interceptors)
                                         THEN "own" ELSE trim(conn.token)
    BY ONLY <2>2, HeaderSent
  <2> QED
    BY <2>1, <2>3
<1> QED
  BY <1>1, CallInvariance, PTL

\* At whatever instant a secret is encrypted, sops opens the document with the recipient's
\* identity and finds the value (typescript/src/sopsEncrypt.ts:34-94).
THEOREM DocumentsOpen == MCSpec => []SopsOpens
<1>1. CallInv => SopsOpens
  <2> SUFFICES ASSUME CallInv, op.step = "encrypted", ~op.document.thrown
               PROVE  sopsDecrypts(op.document, "age1") /\ op.document.value.plaintext = op.value
    BY DEF SopsOpens
  <2>1. PICK publicKey \in Recipients, ms \in Nat :
          op.document = encryptForSecret(publicKey, op.value, ms)
    BY DEF CallInv, OpInv
  <2> QED
    BY <2>1, DocumentOpens
<1> QED
  BY <1>1, CallInvariance, PTL

=============================================================================
