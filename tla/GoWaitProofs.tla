---------------------------- MODULE GoWaitProofs ----------------------------
(***************************************************************************)
(* Safety of WaitForRestart and of the watch it receives from, for every   *)
(* backoff, debounce period and number of changes.                         *)
(***************************************************************************)
EXTENDS GoWaitForRestart, TLAPS

\* The channel holds what was received and not told, and is closed only for a
\* done ctx: who finds it closed and drained may return ctx.Err().
ChanInv ==
  /\ CoalescingIsExact
  /\ ClosedMeansDone

\* A change is on its way, in the channel, or known to WaitForRestart.
SomeChange ==
  \/ \E i \in 1 .. Len(inbox) : inbox[i] = "changed"
  \/ changes = 1
  \/ wait \in {"debounce", "acquire"}
  \/ phase # "idle"

ReasonInv == SomeChange => published > 0

\* The ticks of the timer and the quiet ticks before it make one debounce period.
QuietInv ==
  /\ wait = "debounce" => timer + quiet = Debounce
  /\ wait = "acquire" => quiet = Debounce
  /\ phase # "idle" => quiet = Debounce /\ wait \notin {"first", "debounce"}

IInv == TypeOK /\ ChanInv /\ ReasonInv /\ QuietInv /\ BackoffSchedule
-----------------------------------------------------------------------------
LEMMA Bounds ==
  /\ MaxChanges \in Nat /\ Debounce \in Nat /\ MaxFailures \in Nat
  /\ watchBackoffMin \in Nat \ {0} /\ watchBackoffMax \in Nat
  /\ watchBackoffMin <= watchBackoffMax
  BY WatchStreamAssumption, WatchAssumption, DebounceAssumption

LEMMA TypeInit == Init => TypeOK
<1> SUFFICES ASSUME Init PROVE TypeOK
  OBVIOUS
<1> USE Bounds DEF Init, WatchInit
<1>1. inbox \in Seq(Events) /\ published \in 0 .. MaxChanges
  BY DEF StreamInit
<1>2. StreamTypeOK
  BY <1>1, Zenon DEF StreamInit, StreamTypeOK
<1>3. backoff \in watchBackoffMin .. watchBackoffMax /\ failures \in 0 .. MaxFailures
  OBVIOUS
<1>4. changes \in 0 .. 1
  OBVIOUS
<1>5. WatchTypeOK
  BY <1>2, <1>3, <1>4, Zenon DEF WatchTypeOK
<1>6. timer \in 0 .. Debounce /\ quiet \in 0 .. Debounce
  OBVIOUS
<1>7. Lock!TypeOK
  BY DEF Lock!Init, Lock!TypeOK, Lock!Phases
<1> QED
  BY <1>5, <1>6, <1>7, Zenon DEF TypeOK

LEMMA TypeStep == TypeOK /\ [Next]_vars => TypeOK'
<1> SUFFICES ASSUME TypeOK, [Next]_vars
             PROVE  TypeOK'
  OBVIOUS
<1> USE Bounds DEF TypeOK, WatchTypeOK, StreamTypeOK, Lock!TypeOK, Lock!Phases,
           watchVars, waitVars, lockVars, loopVars, chanVars, serverVars
<1>1. CASE FirstChange
  <2>1. changes' \in 0 .. 1 /\ StreamTypeOK'
    BY <1>1 DEF FirstChange, ReceiveChange
  <2>2. WatchTypeOK'
    BY <1>1, <2>1, Zenon DEF FirstChange, ReceiveChange
  <2>3. timer' \in 0 .. Debounce /\ quiet' \in 0 .. Debounce
    BY <1>1 DEF FirstChange
  <2>4. wait' \in {"debounce", "acquire"} /\ Lock!TypeOK'
    BY <1>1 DEF FirstChange
  <2> QED
    BY <2>2, <2>3, <2>4
<1>2. CASE FirstClosed
  BY <1>2 DEF FirstClosed, ChannelClosed
<1>3. CASE MoreChange
  <2>1. changes' \in 0 .. 1 /\ StreamTypeOK'
    BY <1>3 DEF MoreChange, ReceiveChange
  <2>2. WatchTypeOK'
    BY <1>3, <2>1, Zenon DEF MoreChange, ReceiveChange
  <2>3. timer' \in 0 .. Debounce /\ quiet' \in 0 .. Debounce
    BY <1>3 DEF MoreChange
  <2>4. wait' = wait /\ Lock!TypeOK'
    BY <1>3 DEF MoreChange
  <2> QED
    BY <2>2, <2>3, <2>4
<1>4. CASE TimerFires
  BY <1>4 DEF TimerFires
<1>5. CASE DebounceEnds
  BY <1>5 DEF DebounceEnds, ChannelClosed
<1>6. CASE CallAcquireLock
  BY <1>6 DEF CallAcquireLock, Lock!Start
<1>7. CASE LockReturned
  BY <1>7 DEF LockReturned, Lock!Acquire, Lock!Fail
<1>8. CASE Tick
  BY <1>8 DEF Tick
<1>9. CASE Holding
  <2>1. WatchTypeOK' /\ wait' = wait /\ timer' = timer /\ quiet' = quiet
    BY <1>9, Zenon DEF Holding
  <2>2. Lock!TypeOK'
    BY <1>9 DEF Holding, Lock!Break, Lock!ReportLost, Lock!BeginRelease, Lock!EndRelease
  <2> QED
    BY <2>1, <2>2, Zenon
<1>10. CASE (WatchLoop \/ WatchEnv) /\ UNCHANGED <<waitVars, lockVars>>
  <2> USE <1>10
  <2>1. CASE LoopTop
    <3>1. loop' \in {"opening", "exited"} /\ closed' \in BOOLEAN
      BY <2>1, Zenon DEF LoopTop, Exit
    <3>2. UNCHANGED <<ctxDone, backoff, failures, changes, unread, serverVars>>
      BY <2>1, Zenon DEF LoopTop, Exit
    <3>3. WatchTypeOK'
      BY <3>1, <3>2
    <3> QED
      BY <3>3
  <2>2. CASE OpenFails
    BY <2>2 DEF OpenFails
  <2>3. CASE OpenSucceeds
    <3>1. inbox' \in Seq(Events)
      BY <2>3 DEF OpenSucceeds, Open
    <3>2. StreamTypeOK'
      BY <2>3, <3>1 DEF OpenSucceeds, Open
    <3> QED
      BY <2>3, <3>2 DEF OpenSucceeds
  <2>4. CASE Recv
    <3>1. inbox' \in Seq(Events)
      BY <2>4 DEF Recv, Take
    <3>2. StreamTypeOK'
      BY <2>4, <3>1 DEF Recv, Take
    <3>3. backoff' \in watchBackoffMin .. watchBackoffMax /\ failures' \in 0 .. MaxFailures
      BY <2>4 DEF Recv
    <3>4. changes' \in 0 .. 1
      BY <2>4 DEF Recv
    <3>5. unread' \in BOOLEAN
      BY <2>4, Zenon DEF Recv
    <3>6. ctxDone' \in BOOLEAN /\ closed' \in BOOLEAN /\ loop' = loop
      BY <2>4, Zenon DEF Recv
    <3>7. WatchTypeOK'
      BY <3>2, <3>3, <3>4, <3>5, <3>6, Zenon
    <3> QED
      BY <2>4, <3>7
  <2>5. CASE RecvFails
    <3>1. loop' \in {"sleep", "exited"} /\ closed' \in BOOLEAN
      BY <2>5, Zenon DEF RecvFails, Exit
    <3>2. UNCHANGED <<ctxDone, backoff, failures, changes, unread, serverVars>>
      BY <2>5, Zenon DEF RecvFails, Exit
    <3>3. WatchTypeOK'
      BY <3>1, <3>2
    <3> QED
      BY <3>3
  <2>6. CASE Slept
    BY <2>6 DEF Slept, nextBackoff
  <2>7. CASE SleepCancelled
    BY <2>7 DEF SleepCancelled, Exit
  <2>8. CASE CancelCtx
    BY <2>8 DEF CancelCtx
  <2>9. CASE StreamEnds
    <3>1. StreamTypeOK'
      BY <2>9 DEF StreamEnds, StreamBreaks
    <3>2. UNCHANGED <<ctxDone, loop, backoff, failures, chanVars>>
      BY <2>9, Zenon DEF StreamEnds
    <3>3. WatchTypeOK'
      BY <3>1, <3>2, Zenon
    <3> QED
      BY <3>3, Zenon
  <2>10. CASE ServerRegisters
    BY <2>10 DEF ServerRegisters, Registers
  <2>11. CASE Publish
    <3>1. Append(inbox, "changed") \in Seq(Events)
      BY DEF Events
    <3>2. inbox' \in Seq(Events)
      BY <2>11, <3>1, Zenon DEF Publish, Publishes
    <3>3. published' \in 0 .. MaxChanges
      BY <2>11 DEF Publish, Publishes
    <3>4. StreamTypeOK'
      BY <2>11, <3>2, <3>3, Zenon DEF Publish, Publishes
    <3> QED
      BY <2>11, <3>4 DEF Publish
  <2>12. CASE ServerSendsOther
    <3>1. Append(inbox, "unspecified") \in Seq(Events)
      BY DEF Events
    <3>2. inbox' \in Seq(Events)
      BY <2>12, <3>1, Zenon DEF ServerSendsOther, SendsOther
    <3>3. StreamTypeOK'
      BY <2>12, <3>2, Zenon DEF ServerSendsOther, SendsOther
    <3> QED
      BY <2>12, <3>3 DEF ServerSendsOther
  <2> QED
    BY <2>1, <2>2, <2>3, <2>4, <2>5, <2>6, <2>7, <2>8, <2>9, <2>10, <2>11, <2>12 DEF WatchLoop, WatchEnv
<1>11. CASE UNCHANGED vars
  BY <1>11 DEF vars
<1> QED
  BY <1>1, <1>2, <1>3, <1>4, <1>5, <1>6, <1>7, <1>8, <1>9, <1>10, <1>11 DEF Next, WaitForRestart

LEMMA ChanStep == TypeOK /\ ChanInv /\ [Next]_vars => ChanInv'
<1> SUFFICES ASSUME TypeOK, ChanInv, [Next]_vars
             PROVE  ChanInv'
  OBVIOUS
<1> USE Bounds DEF TypeOK, WatchTypeOK, ChanInv, CoalescingIsExact, ClosedMeansDone,
           watchVars, waitVars, lockVars, loopVars, chanVars, serverVars
<1>1. CASE FirstChange
  BY <1>1 DEF FirstChange, ReceiveChange
<1>2. CASE FirstClosed
  BY <1>2 DEF FirstClosed, ChannelClosed
<1>3. CASE MoreChange
  BY <1>3 DEF MoreChange, ReceiveChange
<1>4. CASE TimerFires
  BY <1>4 DEF TimerFires
<1>5. CASE DebounceEnds
  BY <1>5 DEF DebounceEnds, ChannelClosed
<1>6. CASE CallAcquireLock
  BY <1>6 DEF CallAcquireLock, Lock!Start
<1>7. CASE LockReturned
  BY <1>7 DEF LockReturned, Lock!Acquire, Lock!Fail
<1>8. CASE Tick
  BY <1>8 DEF Tick
<1>9. CASE Holding
  BY <1>9 DEF Holding, Lock!Break, Lock!ReportLost, Lock!BeginRelease, Lock!EndRelease
<1>10. CASE (WatchLoop \/ WatchEnv) /\ UNCHANGED <<waitVars, lockVars>>
  <2> USE <1>10
  <2>1. CASE LoopTop
    BY <2>1 DEF LoopTop, Exit
  <2>2. CASE OpenFails
    BY <2>2 DEF OpenFails
  <2>3. CASE OpenSucceeds
    BY <2>3 DEF OpenSucceeds, Open
  <2>4. CASE Recv
    BY <2>4 DEF Recv, Take
  <2>5. CASE RecvFails
    BY <2>5 DEF RecvFails, Exit
  <2>6. CASE Slept
    BY <2>6 DEF Slept, nextBackoff
  <2>7. CASE SleepCancelled
    BY <2>7 DEF SleepCancelled, Exit
  <2>8. CASE CancelCtx
    BY <2>8 DEF CancelCtx
  <2>9. CASE StreamEnds
    BY <2>9 DEF StreamEnds, StreamBreaks
  <2>10. CASE ServerRegisters
    BY <2>10 DEF ServerRegisters, Registers
  <2>11. CASE Publish
    BY <2>11 DEF Publish, Publishes
  <2>12. CASE ServerSendsOther
    BY <2>12 DEF ServerSendsOther, SendsOther
  <2> QED
    BY <2>1, <2>2, <2>3, <2>4, <2>5, <2>6, <2>7, <2>8, <2>9, <2>10, <2>11, <2>12 DEF WatchLoop, WatchEnv
<1>11. CASE UNCHANGED vars
  BY <1>11 DEF vars
<1> QED
  BY <1>1, <1>2, <1>3, <1>4, <1>5, <1>6, <1>7, <1>8, <1>9, <1>10, <1>11 DEF Next, WaitForRestart

LEMMA ReasonStep == TypeOK /\ ChanInv /\ ReasonInv /\ QuietInv /\ [Next]_vars => ReasonInv'
<1> SUFFICES ASSUME TypeOK, ChanInv, ReasonInv, QuietInv, [Next]_vars
             PROVE  ReasonInv'
  OBVIOUS
<1> USE Bounds DEF ReasonInv, SomeChange, QuietInv, TypeOK, WatchTypeOK, StreamTypeOK, Events,
           watchVars, waitVars, lockVars, loopVars, chanVars, serverVars
<1>1. CASE FirstChange
  BY <1>1 DEF FirstChange, ReceiveChange
<1>2. CASE FirstClosed
  BY <1>2 DEF FirstClosed, ChannelClosed
<1>3. CASE MoreChange
  BY <1>3 DEF MoreChange, ReceiveChange
<1>4. CASE TimerFires
  BY <1>4 DEF TimerFires
<1>5. CASE DebounceEnds
  BY <1>5 DEF DebounceEnds, ChannelClosed
<1>6. CASE CallAcquireLock
  BY <1>6 DEF CallAcquireLock, Lock!Start
<1>7. CASE LockReturned
  BY <1>7 DEF LockReturned, Lock!Acquire, Lock!Fail
<1>8. CASE Tick
  BY <1>8 DEF Tick
<1>9. CASE Holding
  BY <1>9 DEF Holding, Lock!Break, Lock!ReportLost, Lock!BeginRelease, Lock!EndRelease
<1>10. CASE (WatchLoop \/ WatchEnv) /\ UNCHANGED <<waitVars, lockVars>>
  <2> USE <1>10
  <2>1. CASE LoopTop
    BY <2>1 DEF LoopTop, Exit
  <2>2. CASE OpenFails
    BY <2>2 DEF OpenFails
  <2>3. CASE OpenSucceeds
    BY <2>3 DEF OpenSucceeds, Open
  <2>4. CASE Recv
    BY <2>4 DEF Recv, Take
  <2>5. CASE RecvFails
    BY <2>5 DEF RecvFails, Exit
  <2>6. CASE Slept
    BY <2>6 DEF Slept, nextBackoff
  <2>7. CASE SleepCancelled
    BY <2>7 DEF SleepCancelled, Exit
  <2>8. CASE CancelCtx
    BY <2>8 DEF CancelCtx
  <2>9. CASE StreamEnds
    BY <2>9 DEF StreamEnds, StreamBreaks
  <2>10. CASE ServerRegisters
    BY <2>10 DEF ServerRegisters, Registers
  <2>11. CASE Publish
    BY <2>11 DEF Publish, Publishes
  <2>12. CASE ServerSendsOther
    BY <2>12 DEF ServerSendsOther, SendsOther
  <2> QED
    BY <2>1, <2>2, <2>3, <2>4, <2>5, <2>6, <2>7, <2>8, <2>9, <2>10, <2>11, <2>12 DEF WatchLoop, WatchEnv
<1>11. CASE UNCHANGED vars
  BY <1>11 DEF vars
<1> QED
  BY <1>1, <1>2, <1>3, <1>4, <1>5, <1>6, <1>7, <1>8, <1>9, <1>10, <1>11 DEF Next, WaitForRestart

LEMMA QuietStep == TypeOK /\ QuietInv /\ [Next]_vars => QuietInv'
<1> SUFFICES ASSUME TypeOK, QuietInv, [Next]_vars
             PROVE  QuietInv'
  OBVIOUS
<1> USE Bounds DEF QuietInv, TypeOK,
           watchVars, waitVars, lockVars, loopVars, chanVars, serverVars
<1>1. CASE FirstChange
  BY <1>1 DEF FirstChange, ReceiveChange
<1>2. CASE FirstClosed
  BY <1>2 DEF FirstClosed, ChannelClosed
<1>3. CASE MoreChange
  BY <1>3 DEF MoreChange, ReceiveChange
<1>4. CASE TimerFires
  BY <1>4 DEF TimerFires
<1>5. CASE DebounceEnds
  BY <1>5 DEF DebounceEnds, ChannelClosed
<1>6. CASE CallAcquireLock
  BY <1>6 DEF CallAcquireLock, Lock!Start
<1>7. CASE LockReturned
  BY <1>7 DEF LockReturned, Lock!Acquire, Lock!Fail
<1>8. CASE Tick
  BY <1>8 DEF Tick
<1>9. CASE Holding
  BY <1>9 DEF Holding, Lock!Break, Lock!ReportLost, Lock!BeginRelease, Lock!EndRelease
<1>10. CASE (WatchLoop \/ WatchEnv) /\ UNCHANGED <<waitVars, lockVars>>
  BY <1>10
<1>11. CASE UNCHANGED vars
  BY <1>11 DEF vars
<1> QED
  BY <1>1, <1>2, <1>3, <1>4, <1>5, <1>6, <1>7, <1>8, <1>9, <1>10, <1>11 DEF Next, WaitForRestart

LEMMA BackoffInit == Init => BackoffSchedule
  BY Bounds DEF Init, WatchInit, BackoffSchedule

\* Doubling what is already capped gives what is capped after one doubling more.
LEMMA BackoffStep == TypeOK /\ BackoffSchedule /\ [Next]_vars => BackoffSchedule'
<1> SUFFICES ASSUME TypeOK, BackoffSchedule, [Next]_vars
             PROVE  BackoffSchedule'
  OBVIOUS
<1> USE DEF watchVars, waitVars, lockVars, loopVars, chanVars, serverVars
<1> DEFINE capped(n) == IF n > watchBackoffMax THEN watchBackoffMax ELSE n
           delay(f) == capped(watchBackoffMin * 2^f)
<1>1. backoff = delay(failures) /\ failures \in 0 .. MaxFailures
  BY DEF BackoffSchedule, TypeOK, WatchTypeOK
<1>2. \A n \in 0 .. MaxFailures : capped(2 * delay(n)) = delay(n + 1)
  <2> TAKE n \in 0 .. MaxFailures
  <2>1. PICK p \in Nat : p = 2^n /\ 2^(n + 1) = 2 * p
    BY PowersOfTwo
  <2>2. PICK q \in Nat : q = watchBackoffMin * p
    BY Bounds
  <2>3. watchBackoffMin * (2 * p) = 2 * q
    BY Bounds, <2>2
  <2>4. capped(2 * capped(q)) = capped(2 * q)
    BY Bounds
  <2> QED
    BY <2>1, <2>2, <2>3, <2>4
<1>3. delay(MaxFailures) = watchBackoffMax /\ delay(0) = watchBackoffMin
  <2>1. watchBackoffMin * 2^MaxFailures >= watchBackoffMax /\ 2^MaxFailures \in Nat
    BY Bounds, WatchAssumption, PowersOfTwo
  <2>2. watchBackoffMin * 2^0 = watchBackoffMin
    BY Bounds
  <2> QED
    BY Bounds, <2>1, <2>2
<1>4. SUFFICES backoff' = delay(failures')
  BY DEF BackoffSchedule
<1> HIDE DEF delay
<1>5. CASE Slept
  <2>1. backoff' = capped(2 * backoff)
    BY Bounds, <1>5 DEF Slept, nextBackoff, TypeOK, WatchTypeOK
  <2>2. CASE failures < MaxFailures
    BY <1>1, <1>2, <1>5, <2>1, <2>2 DEF Slept
  <2>3. CASE ~(failures < MaxFailures)
    <3>1. failures = MaxFailures /\ failures' = MaxFailures /\ backoff = watchBackoffMax
      BY Bounds, <1>1, <1>3, <1>5, <2>3 DEF Slept
    <3> QED
      BY Bounds, <1>3, <2>1, <3>1
  <2> QED
    BY <2>2, <2>3
<1>6. CASE Recv
  BY <1>3, <1>6 DEF Recv
<1>7. CASE UNCHANGED <<backoff, failures>>
  BY <1>1, <1>7
<1>8. ASSUME (WatchLoop \/ WatchEnv) /\ UNCHANGED <<waitVars, lockVars>>
      PROVE  Slept \/ Recv \/ UNCHANGED <<backoff, failures>>
  BY <1>8 DEF WatchLoop, WatchEnv, LoopTop, OpenFails, OpenSucceeds, RecvFails, SleepCancelled, Exit,
              CancelCtx, StreamEnds, ServerRegisters, Publish, ServerSendsOther
<1>9. ASSUME WaitForRestart \/ LockReturned \/ Tick \/ Holding \/ UNCHANGED vars
      PROVE  UNCHANGED <<backoff, failures>>
  BY <1>9 DEF vars, WaitForRestart, FirstChange, ReceiveChange, FirstClosed, MoreChange, TimerFires,
              DebounceEnds, CallAcquireLock, LockReturned, Tick, Holding
<1> QED
  BY <1>5, <1>6, <1>7, <1>8, <1>9 DEF Next

LEMMA Invariance == Spec => []IInv
<1>1. Init => IInv
  BY TypeInit, BackoffInit DEF Init, WatchInit, StreamInit, Lock!Init, IInv, ChanInv,
       CoalescingIsExact, ClosedMeansDone, ReasonInv, QuietInv, SomeChange
<1>2. IInv /\ [Next]_vars => IInv'
  BY TypeStep, ChanStep, ReasonStep, QuietStep, BackoffStep DEF IInv
<1> QED
  BY <1>1, <1>2, PTL DEF Spec

\* The variables of the watch, of the wait and of the lock keep their types: the
\* channel never holds two signals and the backoff stays in its bounds.
THEOREM TypeCorrect == Spec => []TypeOK
<1>1. IInv => TypeOK
  BY DEF IInv, TypeOK
<1> QED
  BY <1>1, Invariance, PTL

\* The channel holds a signal exactly when a change was received and not told
\* (go/restart.go:33-37, 74-81).
THEOREM Coalescing == Spec => []CoalescingIsExact
<1>1. IInv => CoalescingIsExact
  BY DEF IInv, ChanInv
<1> QED
  BY <1>1, Invariance, PTL

\* watchLoop closes the channel only for a done ctx, so that the error
\* WaitForRestart returns for a closed channel is not nil (go/restart.go:327-329).
THEOREM ClosedOnlyWhenDone == Spec => []ClosedMeansDone
<1>1. IInv => ClosedMeansDone
  BY DEF IInv, ChanInv
<1> QED
  BY <1>1, Invariance, PTL

\* No lock is asked for unless somebody changed the bundle
\* (go/restart.go:327-340).
THEOREM Reason == Spec => []RestartHasReason
<1>1. IInv => RestartHasReason
  BY DEF IInv, ReasonInv, SomeChange, RestartHasReason
<1> QED
  BY <1>1, Invariance, PTL

\* No lock is asked for before a whole debounce period without a signal, however
\* long it is and however many changes restart it (go/restart.go:331-352).
THEOREM Debounced == Spec => []DebounceIsQuiet
<1>1. IInv => DebounceIsQuiet
  BY DEF IInv, QuietInv, DebounceIsQuiet
<1> QED
  BY <1>1, Invariance, PTL

\* The loop, which only ever doubles its last delay and caps it, waits 1s doubled for
\* every attempt since the last successful receive and capped at 30s
\* (go/restart.go:34-36, 73, 87, 92-98).
THEOREM Backoff == Spec => []BackoffSchedule
<1>1. IInv => BackoffSchedule
  BY DEF IInv
<1> QED
  BY <1>1, Invariance, PTL

=============================================================================
