----------------------------- MODULE EchoProofs -----------------------------
(***************************************************************************)
(* Safety of a run of the TypeScript echo example, and with it of          *)
(* dialWorkload, the bundle watch and waitForRestart, for every retry      *)
(* schedule, backoff, debounce period and number of changes.               *)
(***************************************************************************)
EXTENDS TsEcho, SequenceTheorems, TLAPS

MainTypes ==
  /\ main \in {"config", "dial", "fetch", "fetch shared", "wait", "release", "exited"}
  /\ exitCode \in {"none", "0", "1", "drained"}

DialTypes ==
  /\ dial \in {"not called", "probing", "sleeping", "dialled", "failed"}
  /\ keepAlive \in BOOLEAN
  /\ attempt \in Nat
  /\ answers \in Seq(Answers)
  /\ slept \in Seq(Nat)

\* As WatchTypeOK, but for the bound of the model on what was received and told.
WatchTypes ==
  /\ aborted \in BOOLEAN
  /\ loop \in {"start", "opened", "unopened", "recv", "sleep", "exited"}
  /\ race \in {"pending", "value", "failed", "aborted"}
  /\ backoff \in backoffMin .. backoffMax
  /\ pending \in BOOLEAN /\ closed \in BOOLEAN
  /\ waiters \in Seq(Consumers)
  /\ asked \in [Consumers -> {"idle", "waiting", "changed", "stopped"}]
  /\ received \in Nat /\ told \in Nat
  /\ StreamTypeOK

WaitTypes ==
  /\ wait \in {"not called", "first", "debounce", "acquire", "returned", "failed"}
  /\ timer \in 0 .. Debounce
  /\ quiet \in 0 .. Debounce
  /\ Lock!TypeOK

Types == MainTypes /\ DialTypes /\ WatchTypes /\ WaitTypes

\* A signal is pending only while nobody waits for one, and the loop closes the watch
\* when it ends: no change comes after.
ChanInv ==
  /\ CoalescingIsExact
  /\ told <= received
  /\ waiters # << >> => ~pending /\ ~closed
  /\ loop = "exited" <=> closed
  /\ closed => Told # "waiting"
  /\ Told = "changed" => received > 0

\* The ticks of the timer and the quiet ticks before it make one debounce period.
QuietInv ==
  /\ wait = "debounce" => timer + quiet = Debounce
  /\ wait = "acquire" => quiet = Debounce
  /\ wait \in {"debounce", "acquire"} => received > 0
  /\ phase # "idle" => /\ received > 0 /\ quiet = Debounce
                       /\ wait \in {"acquire", "returned", "failed"}

\* Where the dial is in its schedule: the probes it made were denied and the waits it
\* slept are those of the schedule, up to here.
DialInv ==
  /\ Len(slept) <= Len(workloadDialBackoff)
  /\ \A i \in 1 .. Len(slept) : slept[i] = workloadDialBackoff[i]
  /\ dial = "not called" => answers = << >> /\ Len(slept) = 0 /\ attempt = 0
  /\ dial \in {"probing", "sleeping"} =>
       /\ keepAlive
       /\ Len(answers) = Len(slept)
       /\ \A i \in 1 .. Len(answers) : answers[i] = "permission denied"
       /\ Len(slept) = IF dial = "probing" THEN attempt ELSE attempt + 1
  /\ dial \in {"dialled", "failed"} /\ answers # << >> =>
       /\ Len(answers) = Len(slept) + 1
       /\ \A i \in 1 .. Len(answers) - 1 : answers[i] = "permission denied"
       /\ Last(answers) = "permission denied" => Len(slept) = Len(workloadDialBackoff)

\* main is where its calls have brought it, and the process ends but once.
MainInv ==
  /\ main \in {"config", "dial"} => wait = "not called" /\ phase = "idle"
  /\ main \in {"fetch", "fetch shared", "wait", "release"} => dial = "dialled"
  /\ exitCode = "none" <=> main # "exited"
  /\ ExitsAreExplained

IInv == Types /\ ChanInv /\ QuietInv /\ DialInv /\ MainInv
-----------------------------------------------------------------------------
(* Who moves what *)

LEMMA Bounds ==
  /\ Consumers = {Caller} /\ Debounce \in Nat /\ MaxChanges \in Nat
  /\ backoffMin \in Nat \ {0} /\ backoffMax \in Nat /\ backoffMin <= backoffMax
  /\ Len(workloadDialBackoff) \in Nat
  /\ \A i \in 1 .. Len(workloadDialBackoff) : workloadDialBackoff[i] \in Nat
<1>1. workloadDialBackoff \in Seq(Nat)
  BY BackoffAssumption
<1>2. /\ Len(workloadDialBackoff) \in Nat
      /\ \A i \in 1 .. Len(workloadDialBackoff) : workloadDialBackoff[i] \in Nat
  BY <1>1
<1> QED
  BY <1>2, WatchStreamAssumption, WatchAssumption, WaitAssumption

\* The watch is moved by its loop, by waitForRestart calling next(), by the signal and
\* by the stream.
LEMMA WatchMoves ==
  ASSUME [Next]_vars
  PROVE  \/ WatchLoop \/ NextCall(Caller) \/ AbortSignal
         \/ /\ ServerEnv \/ StreamBreaks
            /\ UNCHANGED <<aborted, loopVars, chanVars, received>>
         \/ UNCHANGED watchVars
<1> USE DEF wholeWait
<1>1. CASE Main
  BY <1>1 DEF Main, LoadConfig, DialReturns, CallWaitForRestart, WaitCall, WaitReturns, ReleaseReturns
<1>2. CASE FetchReturns
  BY <1>2 DEF FetchReturns
<1>3. CASE WaitRuns
  BY <1>3 DEF WaitRuns, WaitStep, Tick, FirstResolved, StartRound, RoundChanged, TimerFires,
              RoundAborted, CallAcquireLock
<1>4. CASE Network
  BY <1>4 DEF Network
<1> QED
  BY <1>1, <1>2, <1>3, <1>4
  DEF Next, vars, Drain, SIGTERM, DialRuns, WatchRuns, LockRuns, LockSettled, LockIsLost

\* The dial is moved by itself, while main awaits it.
LEMMA DialMoves ==
  ASSUME [Next]_vars
  PROVE  (main = "dial" /\ DialStep /\ UNCHANGED <<mainVars, wholeWait>>) \/ UNCHANGED dialVars
BY DEF Next, vars, Main, LoadConfig, DialReturns, CallWaitForRestart, WaitReturns, ReleaseReturns,
       FetchReturns, Drain, SIGTERM, DialRuns, WatchRuns, WaitRuns, LockRuns, LockIsLost, Network

\* The wait and its lock are moved by waitForRestart, which the lock answers, and by
\* main, which releases the lock.
WaitMove ==
  \/ WaitCall \/ WaitStep \/ Tick \/ LockSettled
  \/ /\ wait = "returned" /\ Lock!BeginRelease
     /\ UNCHANGED <<watchVars, waitVars>>
  \/ /\ Lock!EndRelease \/ Lock!Break \/ Lock!ReportLost
     /\ UNCHANGED <<watchVars, waitVars>>

LEMMA WaitMoves ==
  ASSUME [Next]_vars
  PROVE  WaitMove \/ UNCHANGED <<waitVars, lockVars>>
<1> USE DEF WaitMove, wholeWait
<1>1. CASE Main
  BY <1>1 DEF Main, LoadConfig, DialReturns, CallWaitForRestart, WaitReturns, ReleaseReturns
<1> QED
  BY <1>1 DEF Next, vars, FetchReturns, Drain, SIGTERM, DialRuns, WatchRuns, WaitRuns, LockRuns,
              LockIsLost, Network
-----------------------------------------------------------------------------
(* Types *)

LEMMA TypesInit == Init => Types
<1> SUFFICES ASSUME Init PROVE Types
  OBVIOUS
<1>1. MainTypes
  BY DEF Init, MainTypes
<1>2. DialTypes
  <2>1. DialInit
    BY DEF Init
  <2>2. << >> \in Seq(Answers) /\ << >> \in Seq(Nat)
    OBVIOUS
  <2> QED
    BY <2>1, <2>2 DEF DialInit, DialTypes
<1>3. WatchTypes
  <2>1. WatchInit /\ StreamInit
    BY DEF Init, WaitInit, WatchInit
  <2>2. << >> \in Seq(Events) /\ << >> \in Seq(Consumers)
    OBVIOUS
  <2>3. 0 \in 0 .. MaxChanges /\ backoffMin \in backoffMin .. backoffMax
    BY Bounds
  <2>4. StreamTypeOK
    BY <2>1, <2>2, <2>3, Zenon DEF StreamInit, StreamTypeOK
  <2>5. asked \in [Consumers -> {"idle", "waiting", "changed", "stopped"}]
    BY <2>1 DEF WatchInit
  <2>6. 0 \in Nat
    OBVIOUS
  <2> QED
    BY <2>1, <2>2, <2>3, <2>4, <2>5, <2>6, Zenon DEF WatchInit, WatchTypes
<1>4. WaitTypes
  <2>1. wait = "not called" /\ timer = 0 /\ quiet = 0 /\ Lock!Init
    BY DEF Init, WaitInit
  <2>2. 0 \in 0 .. Debounce
    BY Bounds
  <2> QED
    BY <2>1, <2>2 DEF WaitTypes, Lock!Init, Lock!TypeOK, Lock!Phases
<1> QED
  BY <1>1, <1>2, <1>3, <1>4 DEF Types

\* Unless it is the last, an attempt has a wait behind it.
LEMMA NextWait ==
  ASSUME attempt \in Nat, attempt <= Len(workloadDialBackoff), attempt # Len(workloadDialBackoff)
  PROVE  /\ attempt + 1 \in 1 .. Len(workloadDialBackoff)
         /\ workloadDialBackoff[attempt + 1] \in Nat
<1>1. Len(workloadDialBackoff) \in Nat
  BY Bounds
<1>2. attempt + 1 \in 1 .. Len(workloadDialBackoff)
  BY <1>1
<1> QED
  BY <1>2, Bounds

LEMMA DialTypesStep == DialTypes /\ DialInv /\ [Next]_vars => DialTypes'
<1> SUFFICES ASSUME DialTypes, DialInv, [Next]_vars
             PROVE  DialTypes'
  OBVIOUS
<1> USE Bounds DEF DialTypes
<1>1. CASE Dial
  BY <1>1 DEF Dial
<1>2. /\ \A a \in Answers : Append(answers, a) \in Seq(Answers)
      /\ \A n \in Nat : Append(slept, n) \in Seq(Nat)
  <2>1. answers \in Seq(Answers) /\ slept \in Seq(Nat)
    OBVIOUS
  <2> HIDE DEF DialTypes
  <2> QED
    BY <2>1, AppendProperties
<1>3. CASE ProbeSucceeds
  BY <1>2, <1>3 DEF ProbeSucceeds, Settled, Answers
<1>4. CASE ProbeDenied
  <2>1. answers' \in Seq(Answers)
    BY <1>2, <1>4 DEF ProbeDenied, Answers
  <2>2. CASE attempt = Len(workloadDialBackoff)
    BY <1>4, <2>1, <2>2 DEF ProbeDenied, Settled
  <2>3. CASE attempt # Len(workloadDialBackoff)
    <3>1. attempt <= Len(workloadDialBackoff)
      BY <1>4 DEF ProbeDenied, DialInv
    <3>2. workloadDialBackoff[attempt + 1] \in Nat
      BY <2>3, <3>1, NextWait
    <3>3. slept' \in Seq(Nat)
      BY <1>2, <1>4, <2>3, <3>2 DEF ProbeDenied
    <3> QED
      BY <1>4, <2>1, <2>3, <3>3 DEF ProbeDenied
  <2> QED
    BY <2>2, <2>3
<1>5. CASE ProbeFails
  BY <1>2, <1>5 DEF ProbeFails, Settled
<1>6. CASE DialSlept
  BY <1>6 DEF DialSlept
<1>7. CASE UNCHANGED dialVars
  BY <1>7 DEF dialVars
<1> QED
  BY <1>1, <1>3, <1>4, <1>5, <1>6, <1>7, DialMoves DEF DialStep

LEMMA WatchTypesStep == WatchTypes /\ [Next]_vars => WatchTypes'
<1> SUFFICES ASSUME WatchTypes, [Next]_vars
             PROVE  WatchTypes'
  OBVIOUS
<1> USE Bounds DEF WatchTypes, loopVars, chanVars, serverVars
<1>1. ASSUME Exit PROVE aborted' \in BOOLEAN /\ loop' = "exited" /\ race' = race /\ closed' = TRUE
                        /\ pending' \in BOOLEAN /\ waiters' \in Seq(Consumers)
                        /\ asked' \in [Consumers -> {"idle", "waiting", "changed", "stopped"}]
                        /\ received' \in Nat /\ told' \in Nat /\ StreamTypeOK'
  BY <1>1 DEF Exit, Close, StreamTypeOK
<1>2. ASSUME NEW l \in {"opened", "unopened", "recv", "sleep"}, Await(l)
      PROVE  /\ loop' \in {"start", "opened", "unopened", "recv", "sleep", "exited"}
             /\ race' \in {"pending", "value", "failed", "aborted"}
  BY <1>2 DEF Await
<1>3. ASSUME Attempt, backoff' \in backoffMin .. backoffMax
      PROVE  WatchTypes'
  <2>1. CASE aborted /\ Exit
    BY <1>1, <1>3, <2>1
  <2>2. CASE ~aborted /\ Await("opened") /\ Open
    <3>1. inbox' \in Seq(Events)
      BY <2>2 DEF Open
    <3>2. StreamTypeOK'
      BY <2>2, <3>1 DEF Open, StreamTypeOK
    <3> QED
      BY <1>2, <1>3, <2>2, <3>2 DEF Attempt, Open, Exit
  <2>3. CASE ~aborted /\ Await("unopened") /\ UNCHANGED serverVars
    BY <1>2, <1>3, <2>3 DEF Attempt, StreamTypeOK, Exit
  <2> QED
    BY <1>3, <2>1, <2>2, <2>3 DEF Attempt
<1>4. CASE Start
  BY <1>3, <1>4 DEF Start
<1>5. CASE Settle
  BY <1>5 DEF Settle, StreamTypeOK
<1>6. CASE OpenFailed
  BY <1>2, <1>6 DEF OpenFailed, StreamTypeOK
<1>7. CASE Opened
  BY <1>2, <1>7 DEF Opened, StreamTypeOK
<1>8. CASE Received
  <2>1. StreamTypeOK' /\ backoff' = backoffMin
    BY <1>8 DEF Received, Take, StreamTypeOK
  <2>2. received' \in Nat /\ told' \in Nat
    BY <1>8 DEF Received, SignalChange
  <2>3. waiters' \in Seq(Consumers) /\ pending' \in BOOLEAN /\ closed' \in BOOLEAN
    <3>1. waiters' \in {waiters, Tail(waiters)} /\ (waiters' = Tail(waiters) => waiters' = waiters \/ waiters # << >>)
      BY <1>8 DEF Received, SignalChange
    <3>2. waiters' \in Seq(Consumers)
      BY <3>1
    <3> QED
      BY <1>8, <3>2, Zenon DEF Received, SignalChange
  <2>4. asked' \in [Consumers -> {"idle", "waiting", "changed", "stopped"}]
    BY <1>8 DEF Received, SignalChange
  <2> QED
    BY <1>2, <1>8, <2>1, <2>2, <2>3, <2>4 DEF Received
<1>9. CASE RecvFailed
  BY <1>1, <1>2, <1>9 DEF RecvFailed, StreamTypeOK
<1>10. CASE Slept
  <2>1. backoff' \in backoffMin .. backoffMax
    BY <1>10 DEF Slept, nextBackoff
  <2> QED
    BY <1>3, <1>10, <2>1 DEF Slept
<1>11. CASE AbortSeen
  BY <1>1, <1>11 DEF AbortSeen
<1>12. CASE NextCall(Caller)
  <2>1. waiters' \in Seq(Consumers)
    BY <1>12 DEF NextCall
  <2>2. asked' \in [Consumers -> {"idle", "waiting", "changed", "stopped"}]
    BY <1>12 DEF NextCall
  <2>3. pending' \in BOOLEAN /\ told' \in Nat
    BY <1>12 DEF NextCall
  <2>4. UNCHANGED <<aborted, loopVars, closed, received, serverVars>>
    BY <1>12 DEF NextCall
  <2> QED
    BY <2>1, <2>2, <2>3, <2>4 DEF StreamTypeOK
<1>13. CASE AbortSignal
  BY <1>13 DEF AbortSignal, Cancel, StreamTypeOK
<1>14. CASE (ServerEnv \/ StreamBreaks) /\ UNCHANGED <<aborted, loopVars, chanVars, received>>
  <2>1. StreamTypeOK'
    <3>1. \A e \in Events : Append(inbox, e) \in Seq(Events)
      BY DEF StreamTypeOK
    <3>2. CASE StreamBreaks \/ Registers
      BY <3>2 DEF StreamBreaks, Registers, StreamTypeOK
    <3>3. CASE Publishes
      BY <3>1, <3>3 DEF Publishes, StreamTypeOK, Events
    <3>4. CASE SendsOther
      BY <3>1, <3>4 DEF SendsOther, StreamTypeOK, Events
    <3> QED
      BY <1>14, <3>2, <3>3, <3>4 DEF ServerEnv
  <2> QED
    BY <1>14, <2>1
<1>15. CASE UNCHANGED watchVars
  BY <1>15 DEF watchVars, StreamTypeOK
<1> QED
  BY <1>4, <1>5, <1>6, <1>7, <1>8, <1>9, <1>10, <1>11, <1>12, <1>13, <1>14, <1>15, WatchMoves
  DEF WatchLoop

LEMMA WaitTypesStep == WaitTypes /\ [Next]_vars => WaitTypes'
<1> SUFFICES ASSUME WaitTypes, [Next]_vars
             PROVE  WaitTypes'
  OBVIOUS
<1> USE Bounds DEF WaitTypes, Lock!TypeOK, Lock!Phases, waitVars, lockVars
<1>1. CASE WaitCall
  BY <1>1 DEF WaitCall
<1>2. CASE WaitStep
  <2>1. CASE FirstResolved
    <3>1. timer' \in 0 .. Debounce /\ quiet' \in 0 .. Debounce
      BY <2>1 DEF FirstResolved, StartRound
    <3>2. wait' \in {"debounce", "acquire", "failed"} /\ UNCHANGED lockVars
      BY <2>1, Zenon DEF FirstResolved, StartRound
    <3> QED
      BY <3>1, <3>2
  <2>2. CASE RoundChanged
    BY <2>2 DEF RoundChanged, StartRound
  <2>3. CASE TimerFires \/ RoundAborted
    BY <2>3 DEF TimerFires, RoundAborted
  <2>4. CASE CallAcquireLock
    BY <2>4 DEF CallAcquireLock, Lock!Start
  <2> QED
    BY <1>2, <2>1, <2>2, <2>3, <2>4 DEF WaitStep
<1>3. CASE Tick
  BY <1>3 DEF Tick
<1>4. CASE LockSettled
  BY <1>4 DEF LockSettled, Lock!Acquire, Lock!Fail
<1>5. CASE (Lock!BeginRelease \/ Lock!EndRelease \/ Lock!Break \/ Lock!ReportLost)
           /\ UNCHANGED waitVars
  BY <1>5 DEF Lock!BeginRelease, Lock!EndRelease, Lock!Break, Lock!ReportLost
<1>6. CASE UNCHANGED <<waitVars, lockVars>>
  BY <1>6
<1> QED
  BY <1>1, <1>2, <1>3, <1>4, <1>5, <1>6, WaitMoves DEF WaitMove

LEMMA TypesStep == Types /\ DialInv /\ [Next]_vars => Types'
<1>1. MainTypes /\ [Next]_vars => MainTypes'
  BY DEF MainTypes, Next, vars, mainVars, Main, LoadConfig, DialReturns, CallWaitForRestart, WaitReturns,
         ReleaseReturns, FetchReturns, Caught, Exits, Drain, SIGTERM, DialRuns, WatchRuns, WaitRuns,
         LockRuns, LockIsLost, Network
<1> QED
  BY <1>1, DialTypesStep, WatchTypesStep, WaitTypesStep DEF Types
-----------------------------------------------------------------------------
(* The watch *)

\* One step for each of the watch's own, and the others by who moves it.
LEMMA ChanStep == WatchTypes /\ ChanInv /\ [Next]_vars => ChanInv'
<1> SUFFICES ASSUME WatchTypes, ChanInv, [Next]_vars
             PROVE  ChanInv'
  OBVIOUS
<1> USE DEF ChanInv, CoalescingIsExact, Told
<1>1. /\ Consumers = {Caller} /\ Caller \in Consumers
      /\ asked \in [Consumers -> {"idle", "waiting", "changed", "stopped"}]
      /\ received \in Nat /\ told \in Nat
      /\ waiters \in Seq(Consumers)
      /\ pending \in BOOLEAN /\ closed \in BOOLEAN
  BY Bounds DEF WatchTypes
<1>2. ASSUME Exit
      PROVE  ChanInv'
  <2>1. asked'[Caller] = IF asked[Caller] = "waiting" THEN "stopped" ELSE asked[Caller]
    BY <1>1, <1>2 DEF Exit, Close
  <2>2. waiters' = << >> /\ loop' = "exited" /\ closed' = TRUE
        /\ pending' = pending /\ told' = told /\ received' = received
    BY <1>2 DEF Exit, Close
  <2> QED
    BY <1>1, <2>1, <2>2
<1>3. ASSUME loop # "exited", loop' # "exited", UNCHANGED <<chanVars, received>>
      PROVE  ChanInv'
  BY <1>3 DEF chanVars
<1>4. ASSUME Attempt, loop # "exited"
      PROVE  ChanInv'
  <2>1. CASE aborted /\ Exit
    BY <1>2, <2>1
  <2>2. CASE ~aborted
    BY <1>3, <1>4, <2>2 DEF Attempt, Await
  <2> QED
    BY <1>4, <2>1, <2>2 DEF Attempt
<1>5. CASE Start \/ Slept
  BY <1>4, <1>5 DEF Start, Slept
<1>6. CASE Settle
  BY <1>6 DEF Settle, chanVars
<1>7. CASE OpenFailed \/ Opened
  BY <1>3, <1>7 DEF OpenFailed, Opened, Await
<1>8. CASE Received
  <2>1. loop = "recv" /\ loop' = "recv" /\ ~closed
    BY <1>8 DEF Received, Await
  <2>2. CASE Head(inbox) # "changed"
    BY <1>3, <1>8, <2>1, <2>2 DEF Received
  <2>3. CASE Head(inbox) = "changed"
    <3>1. received' = received + 1 /\ SignalChange
      BY <1>8, <2>3 DEF Received
    <3>2. CASE pending
      BY <1>1, <2>1, <3>1, <3>2 DEF SignalChange
    <3>3. CASE ~pending /\ waiters # << >>
      <4>1. Head(waiters) = Caller
        BY <1>1, <3>3
      <4>2. asked'[Caller] = "changed" /\ told' = received' /\ pending' = pending /\ closed' = closed
        BY <1>1, <2>1, <3>1, <3>3, <4>1 DEF SignalChange
      <4> QED
        BY <1>1, <2>1, <3>1, <3>3, <4>2
    <3>4. CASE ~pending /\ waiters = << >>
      BY <1>1, <2>1, <3>1, <3>4 DEF SignalChange
    <3> QED
      BY <3>2, <3>3, <3>4
  <2> QED
    BY <2>2, <2>3
<1>9. CASE RecvFailed
  BY <1>2, <1>3, <1>9 DEF RecvFailed, Await
<1>10. CASE AbortSeen
  BY <1>2, <1>10 DEF AbortSeen
<1>11. CASE NextCall(Caller)
  <2>1. received' = received /\ loop' = loop /\ closed' = closed
    BY <1>11 DEF NextCall, loopVars
  <2>2. CASE pending
    <3>1. waiters = << >>
      BY <1>11, <2>2
    <3>2. asked'[Caller] = "changed" /\ told' = received /\ pending' = FALSE /\ waiters' = waiters
      BY <1>1, <1>11, <2>2 DEF NextCall
    <3> QED
      BY <1>1, <2>1, <2>2, <3>1, <3>2
  <2>3. CASE ~pending /\ closed
    <3>1. asked'[Caller] = "stopped" /\ UNCHANGED <<told, pending, waiters>>
      BY <1>1, <1>11, <2>3 DEF NextCall
    <3> QED
      BY <1>1, <2>1, <2>3, <3>1
  <2>4. CASE ~pending /\ ~closed
    <3>1. asked'[Caller] = "waiting" /\ UNCHANGED <<told, pending>>
      BY <1>1, <1>11, <2>4 DEF NextCall
    <3> QED
      BY <1>1, <2>1, <2>4, <3>1
  <2> QED
    BY <2>2, <2>3, <2>4
<1>12. CASE AbortSignal
  BY <1>12 DEF AbortSignal, chanVars
<1>13. CASE UNCHANGED <<loopVars, chanVars, received>>
  BY <1>13 DEF chanVars, loopVars
<1> QED
  BY <1>5, <1>6, <1>7, <1>8, <1>9, <1>10, <1>11, <1>12, <1>13, WatchMoves DEF WatchLoop, watchVars

\* What waitForRestart has waited for stays received.
LEMMA ReceivedGrows ==
  ASSUME WatchTypes, [Next]_vars
  PROVE  received' >= received
<1>1. received \in Nat
  BY DEF WatchTypes
<1>2. received' \in {received, received + 1}
  BY <1>1, WatchMoves
  DEF watchVars, WatchLoop, Start, Attempt, Exit, Settle, OpenFailed, Opened, Received, RecvFailed,
      Slept, AbortSeen, NextCall, AbortSignal
<1> QED
  BY <1>1, <1>2

LEMMA QuietStep == Types /\ ChanInv /\ QuietInv /\ [Next]_vars => QuietInv'
<1> SUFFICES ASSUME Types, ChanInv, QuietInv, [Next]_vars
             PROVE  QuietInv'
  OBVIOUS
<1>1. /\ timer \in Nat /\ quiet \in Nat /\ quiet <= Debounce /\ Debounce \in Nat
      /\ received' >= received /\ received \in Nat /\ received' \in Nat
  <2>1. WatchTypes /\ WatchTypes' /\ WaitTypes
    BY WatchTypesStep DEF Types
  <2>2. received' >= received /\ received \in Nat /\ received' \in Nat
    BY <2>1, ReceivedGrows DEF WatchTypes
  <2>3. timer \in 0 .. Debounce /\ quiet \in 0 .. Debounce /\ Debounce \in Nat
    BY <2>1, Bounds DEF WaitTypes
  <2> QED
    BY <2>2, <2>3
<1> USE <1>1 DEF QuietInv, waitVars, lockVars
<1>2. CASE WaitCall
  BY <1>2 DEF WaitCall
<1>3. CASE FirstResolved
  BY <1>3 DEF FirstResolved, StartRound, ChanInv
<1>4. CASE RoundChanged
  BY <1>4 DEF RoundChanged, StartRound
<1>5. CASE TimerFires
  BY <1>5 DEF TimerFires
<1>6. CASE RoundAborted
  BY <1>6 DEF RoundAborted
<1>7. CASE CallAcquireLock
  BY <1>7 DEF CallAcquireLock, Lock!Start
<1>8. CASE Tick
  BY <1>8 DEF Tick
<1>9. CASE LockSettled
  BY <1>9 DEF LockSettled, Lock!Acquire, Lock!Fail
<1>10. CASE (Lock!BeginRelease \/ Lock!EndRelease \/ Lock!Break \/ Lock!ReportLost)
            /\ (wait = "returned" \/ phase' = phase \/ phase = "releasing") /\ UNCHANGED waitVars
  BY <1>10 DEF Lock!BeginRelease, Lock!EndRelease, Lock!Break, Lock!ReportLost
<1>11. CASE UNCHANGED <<waitVars, lockVars>>
  BY <1>11
<1> QED
  BY <1>2, <1>3, <1>4, <1>5, <1>6, <1>7, <1>8, <1>9, <1>10, <1>11, WaitMoves
  DEF WaitMove, WaitStep, Lock!EndRelease, Lock!Break, Lock!ReportLost
-----------------------------------------------------------------------------
(* The dial *)

LEMMA DialInvInit == Init => DialInv
<1> SUFFICES ASSUME Init PROVE DialInv
  OBVIOUS
<1>1. dial = "not called" /\ answers = << >> /\ Len(slept) = 0 /\ attempt = 0
  BY DEF Init, DialInit
<1>2. 0 <= Len(workloadDialBackoff) /\ \A i \in 1 .. 0 : FALSE
  BY Bounds
<1> QED
  BY <1>1, <1>2 DEF DialInv

LEMMA DialInvStep == DialTypes /\ DialInv /\ [Next]_vars => DialInv'
<1> SUFFICES ASSUME DialTypes, DialInv, [Next]_vars
             PROVE  DialInv'
  OBVIOUS
<1> DEFINE B == workloadDialBackoff
<1>1. /\ Len(B) \in Nat /\ Len(slept) \in Nat /\ Len(answers) \in Nat /\ attempt \in Nat
      /\ answers \in Seq(Answers) /\ slept \in Seq(Nat)
  <2>1. answers \in Seq(Answers) /\ slept \in Seq(Nat) /\ attempt \in Nat
    BY DEF DialTypes
  <2>2. Len(slept) \in Nat /\ Len(answers) \in Nat
    BY <2>1
  <2> QED
    BY <2>1, <2>2, Bounds
<1> HIDE DEF B
<1>2. ASSUME NEW a \in Answers, answers' = Append(answers, a)
      PROVE  /\ answers' # << >> /\ Len(answers') = Len(answers) + 1 /\ Last(answers') = a
             /\ \A i \in 1 .. Len(answers) : answers'[i] = answers[i]
  BY <1>1, <1>2, AppendProperties DEF Last
<1>3. ASSUME dial = "probing", dial' \in {"dialled", "failed"}, slept' = slept,
             NEW a \in Answers, answers' = Append(answers, a),
             a = "permission denied" => attempt = Len(B)
      PROVE  DialInv'
  <2>1. /\ answers' # << >> /\ Len(answers') = Len(answers) + 1 /\ Last(answers') = a
        /\ \A i \in 1 .. Len(answers) : answers'[i] = answers[i]
    BY <1>2, <1>3
  <2>2. /\ Len(answers) = Len(slept) /\ Len(slept) = attempt
        /\ \A i \in 1 .. Len(answers) : answers[i] = "permission denied"
    BY <1>3 DEF DialInv
  <2>3. Len(answers') - 1 = Len(answers)
    BY <1>1, <2>1
  <2>4. /\ Len(answers') = Len(slept') + 1
        /\ \A i \in 1 .. Len(answers') - 1 : answers'[i] = "permission denied"
        /\ Last(answers') = "permission denied" => Len(slept') = Len(B)
    BY <1>3, <2>1, <2>2, <2>3
  <2>5. Len(slept') <= Len(B) /\ \A i \in 1 .. Len(slept') : slept'[i] = B[i]
    BY <1>3 DEF DialInv, B
  <2>6. dial' \notin {"not called", "probing", "sleeping"}
    BY <1>3
  <2> QED
    BY <2>4, <2>5, <2>6, Zenon DEF DialInv, B
<1>4. CASE Dial
  <2>1. /\ answers = << >> /\ Len(slept) = 0 /\ attempt = 0
        /\ dial' \in {"failed", "probing"} /\ (dial' = "probing" => keepAlive')
        /\ UNCHANGED <<attempt, answers, slept>>
    BY <1>4 DEF Dial, DialInv
  <2>2. Len(answers) = 0 /\ \A i \in 1 .. Len(answers) : FALSE
    BY <2>1
  <2> QED
    BY <2>1, <2>2 DEF DialInv
<1>5. CASE ProbeSucceeds
  BY <1>3, <1>5 DEF ProbeSucceeds, Settled, Answers
<1>6. CASE ProbeFails
  BY <1>3, <1>6 DEF ProbeFails, Settled
<1>7. CASE ProbeDenied
  <2>1. CASE attempt = Len(B)
    BY <1>3, <1>7, <2>1 DEF ProbeDenied, Settled, Answers, B
  <2>2. CASE attempt # Len(B)
    <3>1. /\ dial = "probing" /\ dial' = "sleeping" /\ keepAlive' = keepAlive /\ attempt' = attempt
          /\ answers' = Append(answers, "permission denied")
          /\ slept' = Append(slept, B[attempt + 1])
      BY <1>7, <2>2 DEF ProbeDenied, B
    <3>2. /\ Len(answers) = Len(slept) /\ Len(slept) = attempt /\ Len(slept) <= Len(B) /\ keepAlive
          /\ \A i \in 1 .. Len(answers) : answers[i] = "permission denied"
          /\ \A i \in 1 .. Len(slept) : slept[i] = B[i]
      BY <3>1 DEF DialInv, B
    <3>3. attempt + 1 \in 1 .. Len(B) /\ B[attempt + 1] \in Nat
      BY <1>1, <2>2, <3>2, NextWait, Zenon DEF B
    <3>4. /\ Len(slept') = Len(slept) + 1 /\ slept'[Len(slept) + 1] = B[attempt + 1]
          /\ \A i \in 1 .. Len(slept) : slept'[i] = slept[i]
      <4>1. PICK w \in Nat : w = B[attempt + 1]
        BY <3>3, Zenon
      <4>2. slept' = Append(slept, w)
        BY <3>1, <4>1, Zenon
      <4>3. /\ Len(Append(slept, w)) = Len(slept) + 1 /\ Append(slept, w)[Len(slept) + 1] = w
            /\ \A i \in 1 .. Len(slept) : Append(slept, w)[i] = slept[i]
        <5>1. slept \in Seq(Nat)
          BY <1>1
        <5> QED
          BY <5>1
      <4> QED
        BY <4>1, <4>2, <4>3, Zenon
    <3>5. /\ Len(answers') = Len(answers) + 1 /\ answers'[Len(answers) + 1] = "permission denied"
          /\ \A i \in 1 .. Len(answers) : answers'[i] = answers[i]
      <4>1. "permission denied" \in Answers
        BY DEF Answers
      <4>2. /\ Len(answers') = Len(answers) + 1 /\ Last(answers') = "permission denied"
            /\ \A i \in 1 .. Len(answers) : answers'[i] = answers[i]
        BY <1>2, <3>1, <4>1, Zenon
      <4>3. Last(answers') = answers'[Len(answers')]
        BY DEF Last
      <4> QED
        BY <4>2, <4>3, Zenon
    <3>6. \A i \in 1 .. attempt + 1 : i = attempt + 1 \/ i \in 1 .. attempt
      BY <1>1
    <3>7. Len(slept') = attempt + 1 /\ \A i \in 1 .. Len(slept') : slept'[i] = B[i]
      BY <3>2, <3>4, <3>6, Zenon
    <3>8. Len(answers') = Len(slept') /\ \A i \in 1 .. Len(answers') : answers'[i] = "permission denied"
      BY <3>2, <3>4, <3>5, <3>6, Zenon
    <3>9. attempt + 1 <= Len(B)
      BY <1>1, <3>3
    <3> QED
      BY <3>1, <3>2, <3>7, <3>8, <3>9 DEF DialInv, B
  <2> QED
    BY <2>1, <2>2
<1>8. CASE DialSlept
  BY <1>1, <1>8 DEF DialSlept, DialInv
<1>9. CASE UNCHANGED dialVars
  BY <1>9 DEF dialVars, DialInv, Last
<1> QED
  BY <1>4, <1>5, <1>6, <1>7, <1>8, <1>9, DialMoves DEF DialStep
-----------------------------------------------------------------------------
(* main *)

LEMMA MainStep == Types /\ ChanInv /\ QuietInv /\ DialInv /\ MainInv /\ [Next]_vars => MainInv'
<1> SUFFICES ASSUME Types, ChanInv, QuietInv, DialInv, MainInv, [Next]_vars
             PROVE  MainInv'
  OBVIOUS
<1> USE DEF MainInv, ExitsAreExplained, mainVars, wholeWait, dialVars, watchVars, waitVars, lockVars
<1>1. main \in {"config", "dial", "fetch", "fetch shared", "wait", "release", "exited"}
  BY DEF Types, MainTypes
<1>2. CASE LoadConfig
  BY <1>2 DEF LoadConfig, Exits
<1>3. CASE DialReturns
  BY <1>3 DEF DialReturns, Exits
<1>4. CASE CallWaitForRestart
  BY <1>4 DEF CallWaitForRestart, WaitCall
<1>5. CASE WaitReturns
  BY <1>5 DEF WaitReturns, Caught, Exits, Lock!BeginRelease
<1>6. CASE ReleaseReturns
  BY <1>6 DEF ReleaseReturns, Exits, Lock!EndRelease
<1>7. CASE FetchReturns
  BY <1>7 DEF FetchReturns, Caught, Exits
<1>8. CASE Drain
  <2>1. main # "dial"
    BY <1>8 DEF Drain, Held, DialInv
  <2>2. main = "wait" /\ dial = "dialled"
    BY <1>1, <1>8, <2>1 DEF Drain, Held, Running
  <2>3. loop \in {"sleep", "exited"} /\ wait \in {"first", "debounce"} /\ Told = "waiting"
    BY <1>8, <2>2 DEF Drain, Held
  <2>4. loop = "sleep"
    BY <2>3 DEF ChanInv
  <2>5. phase = "idle"
    BY <2>3 DEF QuietInv
  <2>6. main' = "exited" /\ exitCode' = "drained" /\ UNCHANGED <<dial, loop, phase, wait, aborted>>
    BY <1>8, Zenon DEF Drain, Exits, loopVars
  <2> QED
    BY <2>2, <2>4, <2>5, <2>6
<1>9. CASE SIGTERM
  BY <1>9 DEF SIGTERM, Running, AbortSignal
<1>10. CASE DialRuns
  BY <1>10 DEF DialRuns
<1>11. ASSUME Waiting, UNCHANGED <<mainVars, dialVars>>
       PROVE  MainInv'
  BY <1>11 DEF Waiting
<1>12. CASE WatchRuns \/ WaitRuns \/ LockRuns \/ LockIsLost \/ Network
  BY <1>11, <1>12 DEF WatchRuns, WaitRuns, LockRuns, LockIsLost, Network
<1>13. CASE UNCHANGED vars
  <2>1. UNCHANGED <<main, exitCode, dial, loop, phase, wait, aborted>>
    BY <1>13 DEF vars, loopVars
  <2> QED
    BY <2>1
<1> QED
  BY <1>2, <1>3, <1>4, <1>5, <1>6, <1>7, <1>8, <1>9, <1>10, <1>12, <1>13 DEF Next, Main
-----------------------------------------------------------------------------
LEMMA Invariance == Spec => []IInv
<1>1. Init => IInv
  <2> SUFFICES ASSUME Init PROVE IInv
    OBVIOUS
  <2>1. ChanInv
    <3>1. WatchInit /\ Caller \in Consumers
      BY Bounds DEF Init, WaitInit
    <3> QED
      BY <3>1 DEF WatchInit, ChanInv, CoalescingIsExact, Told
  <2>2. QuietInv /\ MainInv
    BY DEF Init, WaitInit, Lock!Init, QuietInv, MainInv, ExitsAreExplained
  <2> QED
    BY <2>1, <2>2, TypesInit, DialInvInit DEF IInv
<1>2. IInv /\ [Next]_vars => IInv'
  BY TypesStep, ChanStep, QuietStep, DialInvStep, MainStep DEF IInv, Types
<1> QED
  BY <1>1, <1>2, PTL DEF Spec

\* The variables of main, of the dial, of the watch and of the wait keep their types,
\* however many changes there are: the backoff, above all, stays in its bounds
\* (typescript/src/restart.ts:177-264).
THEOREM TypeCorrect == Spec => []Types
<1>1. IInv => Types
  BY DEF IInv
<1> QED
  BY <1>1, Invariance, PTL

\* No change is lost and none told twice, whatever breaks the stream and whenever the
\* signal is aborted (typescript/src/restart.ts:109-114, 121-154).
THEOREM Coalescing == Spec => []CoalescingIsExact
<1>1. IInv => CoalescingIsExact
  BY DEF IInv, ChanInv
<1> QED
  BY <1>1, Invariance, PTL

\* No lock is asked for but for a change, and after a whole debounce period in which
\* next() told of none (typescript/src/restart.ts:565-588).
THEOREM Debounced == Spec => []DebounceIsQuiet
<1>1. IInv => DebounceIsQuiet
  BY DEF IInv, QuietInv, DebounceIsQuiet
<1> QED
  BY <1>1, Invariance, PTL

\* Whatever the schedule of the waits is, the dial keeps it: it probes again only what
\* was denied, and gives up when the schedule is used up
\* (typescript/src/workload.ts:203-213, 303-316).
THEOREM Retries == Spec => []RetrySchedule
<1>1. IInv => RetrySchedule
  <2> SUFFICES ASSUME IInv PROVE RetrySchedule
    OBVIOUS
  <2>1. /\ slept \in Seq(Nat) /\ workloadDialBackoff \in Seq(Nat)
        /\ Len(slept) <= Len(workloadDialBackoff)
        /\ \A i \in 1 .. Len(slept) : slept[i] = workloadDialBackoff[i]
    BY BackoffAssumption DEF IInv, Types, DialTypes, DialInv
  <2>2. IsPrefix(slept, workloadDialBackoff)
    BY <2>1 DEF IsPrefix
  <2> QED
    BY <2>1, <2>2 DEF IInv, DialInv, RetrySchedule, workloadDialMaxAttempts
<1> QED
  BY <1>1, Invariance, PTL

\* The process ends with code 0 for a signal or after a release, and the event loop
\* never drains under a dial: only under waitForRestart, while the watch sits out its
\* backoff (typescript/src/workload.ts:104-134, typescript/src/restart.ts:246,
\* typescript/examples/echo/index.ts:158-187).
THEOREM ExitsExplained == Spec => []ExitsAreExplained
<1>1. IInv => ExitsAreExplained
  BY DEF IInv, MainInv
<1> QED
  BY <1>1, Invariance, PTL

=============================================================================
