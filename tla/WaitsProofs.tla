---------------------------- MODULE WaitsProofs ----------------------------
(***************************************************************************)
(* Safety of the Python, Rust and C# waits for a restart, for every        *)
(* debounce period and all bounds of the backoff.  Each client has its     *)
(* invariant and its step lemma; the last section joins them.              *)
(***************************************************************************)
EXTENDS MCWaits, TLAPS

\* The debounce period is over when nothing is left of it.
Counting == quiet + timer = Debounce
-----------------------------------------------------------------------------
(* Python *)

\* The timeout runs while the thread is blocked, from a queue it found empty.
PyQuietInv ==
  /\ wait = "debounce" => IF asked THEN Counting ELSE quiet = 0
  /\ wait = "acquire" => quiet = Debounce

\* Only the finally block stops the watch, and it lets go of the lock last.
PyOrderInv ==
  /\ phase # "idle" => wait \notin {"first", "debounce"}
  /\ wait = "acquire" => phase \in {"idle", "acquiring", "failed"}
  /\ wait \in {"finally", "returned", "raised"} => phase \notin {"idle", "acquiring"}
  /\ wait = "raised" => phase = "failed"
  /\ wait = "returned" => phase # "failed"
  /\ wait \in {"returned", "raised"} => closing[waiter] = "returned"
  /\ closing[waiter] = "returned" => loop = "exited"

PyInv ==
  /\ Python!TypeOK
  /\ PyQuietInv
  /\ PyOrderInv
-----------------------------------------------------------------------------
(* Rust *)

RsQuietInv ==
  /\ wait = "debounce" => Counting
  /\ wait = "acquire" => quiet = Debounce

\* A future that is gone took its receiver and its place in the queue along.
RsOrderInv ==
  /\ phase # "idle" => wait \notin {"first", "debounce"}
  /\ wait = "acquire" => phase \in {"idle", "acquiring", "failed"}
  /\ wait = "returned" => phase \in {"held", "releasing", "released"}
  /\ wait \in {"failed", "dropped"} => phase \in {"idle", "failed"}
  /\ Rust!Done => ~receiver

RsInv ==
  /\ Rust!TypeOK
  /\ RsQuietInv
  /\ RsOrderInv
-----------------------------------------------------------------------------
(* C# *)

CsQuietInv ==
  /\ wait = "debounce" => Counting
  /\ wait = "acquire" => quiet = Debounce \/ cancelled

CsOrderInv ==
  /\ phase # "idle" => wait \notin {"first", "debounce"}
  /\ wait = "acquire" => phase \in {"idle", "acquiring", "failed"}
  /\ wait = "returned" => phase \in {"held", "releasing", "released"}
  /\ wait = "failed" => phase \in {"idle", "failed"}
  /\ wait = "failed" <=> thrown # "none"

CsInv ==
  /\ CSharp!TypeOK
  /\ CsQuietInv
  /\ CsOrderInv
-----------------------------------------------------------------------------
\* The invariant of the client that runs.
IInv ==
  \/ client = "Python" /\ PyInv
  \/ client = "Rust" /\ RsInv
  \/ client = "C#" /\ CsInv
-----------------------------------------------------------------------------
(* The stream, which the three have in common *)

LEMMA StreamTypes ==
  ASSUME StreamTypeOK,
         \/ Open \/ Take \/ Cancel \/ StreamBreaks \/ ServerEnv \/ UNCHANGED serverVars
  PROVE  StreamTypeOK'
<1> USE WatchStreamAssumption DEF StreamTypeOK, serverVars
<1>1. CASE Open
  <2>1. inbox' \in Seq(Events)
    BY <1>1 DEF Open
  <2> QED
    BY <1>1, <2>1, Zenon DEF Open
<1>2. CASE Take
  BY <1>2 DEF Take
<1>3. CASE Cancel
  BY <1>3 DEF Cancel
<1>4. CASE StreamBreaks
  BY <1>4 DEF StreamBreaks
<1>5. CASE Registers
  BY <1>5 DEF Registers
<1>6. CASE Publishes
  <2>1. inbox' \in Seq(Events)
    BY <1>6 DEF Publishes, Events
  <2>2. published' \in 0 .. MaxChanges
    BY <1>6 DEF Publishes
  <2> QED
    BY <1>6, <2>1, <2>2 DEF Publishes
<1>7. CASE SendsOther
  <2>1. inbox' \in Seq(Events)
    BY <1>7 DEF SendsOther, Events
  <2> QED
    BY <1>7, <2>1 DEF SendsOther
<1>8. CASE UNCHANGED serverVars
  BY <1>8
<1> QED
  BY <1>1, <1>2, <1>3, <1>4, <1>5, <1>6, <1>7, <1>8 DEF ServerEnv
-----------------------------------------------------------------------------
(* Python *)

LEMMA PyInit == Python!Init => PyInv
<1> SUFFICES ASSUME Python!Init PROVE PyInv
  OBVIOUS
<1>a. inbox \in Seq(Python!Events) /\ published \in 0 .. MaxChanges
  BY WatchStreamAssumption DEF Python!Init, Python!WatchInit, Python!StreamInit
<1>1. Python!StreamTypeOK
  BY <1>a, Zenon DEF Python!Init, Python!WatchInit, Python!StreamInit, Python!StreamTypeOK
<1>2. /\ closing \in [{waiter} -> {"idle", "stopped", "joining", "returned"}]
      /\ backoff \in BackoffMin .. BackoffMax /\ changes \in 0 .. 1
      /\ timer \in 0 .. Debounce /\ quiet \in 0 .. Debounce
  BY WaitsAssumption DEF Python!Init, Python!WatchInit
<1>3. Python!Lock!TypeOK
  BY DEF Python!Init, Python!Lock!Init, Python!Lock!TypeOK, Python!Lock!Phases
<1>4. Python!TypeOK
  BY <1>1, <1>2, <1>3, Zenon DEF Python!Init, Python!WatchInit, Python!TypeOK, Python!WatchTypeOK
<1>5. PyQuietInv /\ PyOrderInv
  BY DEF Python!Init, Python!WatchInit, Python!Lock!Init, PyQuietInv, PyOrderInv
<1> QED
  BY <1>4, <1>5 DEF PyInv

LEMMA PyLockTypes ==
  ASSUME Python!Lock!TypeOK, [Python!Lock!Next]_(Python!lockVars)
  PROVE  Python!Lock!TypeOK'
<1> USE DEF Python!Lock!TypeOK, Python!Lock!Phases
<1>1. CASE Python!Lock!Next
  BY <1>1 DEF Python!Lock!Next, Python!Lock!Start, Python!Lock!Acquire, Python!Lock!Fail,
     Python!Lock!Break, Python!Lock!ReportLost, Python!Lock!BeginRelease,
     Python!Lock!EndRelease
<1>2. CASE UNCHANGED Python!lockVars
  BY <1>2 DEF Python!lockVars
<1> QED
  BY <1>1, <1>2

LEMMA PyBackoff ==
  ASSUME NEW b \in BackoffMin .. BackoffMax
  PROVE  Python!_next_backoff(b) \in BackoffMin .. BackoffMax
  BY WaitsAssumption DEF Python!_next_backoff

LEMMA PyStreamTypes ==
  ASSUME Python!StreamTypeOK,
         \/ Python!Open \/ Python!Take \/ Python!Cancel
         \/ Python!StreamBreaks \/ Python!ServerEnv \/ UNCHANGED Python!serverVars
  PROVE  Python!StreamTypeOK'
  BY StreamTypes
     DEF StreamTypeOK, Events, Open, Take, Cancel, StreamBreaks, ServerEnv, Registers,
         Publishes, SendsOther, serverVars,
         Python!StreamTypeOK, Python!Events, Python!Open, Python!Take, Python!Cancel,
         Python!StreamBreaks, Python!ServerEnv, Python!Registers, Python!Publishes,
         Python!SendsOther, Python!serverVars

\* What each step does to the watch keeps its types ...
LEMMA PyWatchTypes ==
  ASSUME Python!WatchTypeOK,
         \/ Python!WatchLoop \/ Python!WatchEnv
         \/ Python!WaitForChange \/ Python!GetChange \/ Python!TimesOut
         \/ Python!CloseStop(waiter) \/ Python!CloseSteps(waiter)
         \/ UNCHANGED Python!watchVars
  PROVE  Python!WatchTypeOK'
<1> USE WaitsAssumption, WatchStreamAssumption
    DEF Python!WatchTypeOK, Python!StreamTypeOK, Python!loopVars, Python!closeVars,
        Python!chanVars, Python!serverVars
<1>1. CASE Python!LoopTop \/ Python!OpenFails \/ Python!RecvFails \/ Python!SleepStopped
  BY <1>1 DEF Python!LoopTop, Python!OpenFails, Python!RecvFails, Python!SleepStopped
<1>2. CASE Python!OpenSucceeds
  <2>1. Python!StreamTypeOK'
    BY <1>2, PyStreamTypes DEF Python!OpenSucceeds
  <2>2. holder' \in {"none", "old", "current"}
    BY <1>2 DEF Python!OpenSucceeds
  <2> QED
    BY <1>2, <2>1, <2>2 DEF Python!OpenSucceeds
<1>3. CASE Python!HolderSet
  BY <1>3 DEF Python!HolderSet
<1>4. CASE Python!Recv
  BY <1>4 DEF Python!Recv, Python!Take
<1>5. CASE Python!Slept
  <2>1. backoff' \in BackoffMin .. BackoffMax
    BY <1>5, PyBackoff DEF Python!Slept
  <2> QED
    BY <1>5, <2>1 DEF Python!Slept
<1>6. CASE Python!WatchEnv
  <2>1. UNCHANGED <<Python!loopVars, Python!closeVars, Python!chanVars>>
    BY <1>6 DEF Python!WatchEnv
  <2>2. Python!StreamTypeOK'
    BY <1>6, PyStreamTypes DEF Python!WatchEnv
  <2> QED
    BY <2>1, <2>2
<1>7. CASE Python!WaitForChange
  BY <1>7 DEF Python!WaitForChange
<1>8. CASE Python!GetChange
  <2>1. changes' \in 0 .. 1
    BY <1>8 DEF Python!GetChange
  <2>2. asked' \in BOOLEAN
    BY <1>8, Zenon DEF Python!GetChange
  <2> QED
    BY <1>8, <2>1, <2>2 DEF Python!GetChange
<1>9. CASE Python!TimesOut
  BY <1>9 DEF Python!TimesOut
<1>10. CASE Python!CloseStop(waiter)
  BY <1>10 DEF Python!CloseStop
<1>11. CASE Python!CloseCancel(waiter)
  BY <1>11 DEF Python!CloseCancel, Python!Cancel
<1>12. CASE Python!CloseReturn(waiter)
  BY <1>12 DEF Python!CloseReturn
<1>13. CASE UNCHANGED Python!watchVars
  BY <1>13 DEF Python!watchVars
<1> QED
  BY <1>1, <1>2, <1>3, <1>4, <1>5, <1>6, <1>7, <1>8, <1>9, <1>10, <1>11, <1>12, <1>13
     DEF Python!WatchLoop, Python!CloseSteps

LEMMA PyTypes == Python!TypeOK /\ [Python!Next]_(Python!vars) => Python!TypeOK'
<1> SUFFICES ASSUME Python!TypeOK, [Python!Next]_(Python!vars)
             PROVE  Python!TypeOK'
  OBVIOUS
<1>1. Python!WatchTypeOK'
  <2>1. \/ Python!WatchLoop \/ Python!WatchEnv
        \/ Python!WaitForChange \/ Python!GetChange \/ Python!TimesOut
        \/ Python!CloseStop(waiter) \/ Python!CloseSteps(waiter)
        \/ UNCHANGED Python!watchVars
    BY Zenon DEF Python!Next, Python!vars, Python!WaitForRestart, Python!Ask,
       Python!GotChange, Python!CallAcquireLock, Python!Finally, Python!LockReturned,
       Python!Tick, Python!Holding
  <2> QED
    BY <2>1, PyWatchTypes DEF Python!TypeOK
<1>2. Python!Lock!TypeOK'
  <2>1. [Python!Lock!Next]_(Python!lockVars)
    BY Zenon DEF Python!Next, Python!vars, Python!WaitForRestart, Python!Ask,
       Python!GotChange, Python!TimesOut, Python!CallAcquireLock, Python!Finally,
       Python!LockReturned, Python!Tick, Python!Holding, Python!Lock!Next
  <2> QED
    BY <2>1, PyLockTypes DEF Python!TypeOK
<1>3. /\ wait' \in {"first", "debounce", "acquire", "finally", "returned", "raised"}
      /\ timer' \in 0 .. Debounce /\ quiet' \in 0 .. Debounce
  <2>1. /\ wait \in {"first", "debounce", "acquire", "finally", "returned", "raised"}
        /\ timer \in 0 .. Debounce /\ quiet \in 0 .. Debounce
    BY DEF Python!TypeOK
  <2> QED
    BY <2>1, WaitsAssumption
       DEF Python!Next, Python!vars, Python!waitVars, Python!WaitForRestart, Python!Ask,
           Python!GotChange, Python!TimesOut, Python!CallAcquireLock, Python!Finally,
           Python!LockReturned, Python!Tick, Python!Holding
<1> QED
  BY <1>1, <1>2, <1>3 DEF Python!TypeOK

LEMMA PyStep == PyInv /\ [Python!Next]_(Python!vars) => PyInv'
<1> SUFFICES ASSUME PyInv, [Python!Next]_(Python!vars)
             PROVE  PyInv'
  OBVIOUS
<1>0. Python!TypeOK /\ Python!TypeOK'
  BY PyTypes DEF PyInv
<1>a. /\ timer \in 0 .. Debounce /\ quiet \in 0 .. Debounce /\ Debounce \in Nat
      /\ closing \in [{waiter} -> {"idle", "stopped", "joining", "returned"}]
      /\ wait \in {"first", "debounce", "acquire", "finally", "returned", "raised"}
      /\ phase \in {"idle", "acquiring", "held", "failed", "releasing", "released"}
      /\ asked \in BOOLEAN
  BY <1>0, WaitsAssumption
     DEF Python!TypeOK, Python!WatchTypeOK, Python!Lock!TypeOK, Python!Lock!Phases
<1>b. SUFFICES PyQuietInv' /\ PyOrderInv'
  BY <1>0 DEF PyInv
<1> USE <1>a DEF PyInv, PyQuietInv, PyOrderInv, Counting, Python!watchVars,
        Python!loopVars, Python!closeVars, Python!chanVars, Python!serverVars,
        Python!waitVars, Python!lockVars
<1>1. CASE Python!Ask
  BY <1>1 DEF Python!Ask, Python!WaitForChange
<1>2. CASE Python!GotChange
  BY <1>2 DEF Python!GotChange, Python!GetChange
<1>3. CASE Python!TimesOut
  BY <1>3 DEF Python!TimesOut
<1>4. CASE Python!CallAcquireLock
  BY <1>4 DEF Python!CallAcquireLock, Python!Lock!Start
<1>5. CASE Python!LockReturned
  BY <1>5 DEF Python!LockReturned, Python!Lock!Acquire, Python!Lock!Fail
<1>6. CASE Python!Finally
  BY <1>6 DEF Python!Finally, Python!CloseStop, Python!CloseSteps, Python!CloseCancel,
     Python!CloseReturn
<1>7. CASE Python!Tick
  BY <1>7 DEF Python!Tick
<1>8. CASE Python!Holding
  BY <1>8 DEF Python!Holding, Python!Lock!Break, Python!Lock!ReportLost,
     Python!Lock!BeginRelease, Python!Lock!EndRelease
<1>9. CASE (Python!WatchLoop \/ Python!WatchEnv) /\ UNCHANGED <<Python!waitVars, Python!lockVars>>
  <2>1. UNCHANGED <<Python!closeVars, asked>>
    BY <1>9 DEF Python!WatchLoop, Python!WatchEnv, Python!LoopTop, Python!OpenFails,
       Python!OpenSucceeds, Python!HolderSet, Python!Recv, Python!RecvFails,
       Python!Slept, Python!SleepStopped
  <2>2. loop = "exited" => loop' = "exited"
    BY <1>9 DEF Python!WatchLoop, Python!WatchEnv, Python!LoopTop, Python!OpenFails,
       Python!OpenSucceeds, Python!HolderSet, Python!Recv, Python!RecvFails,
       Python!Slept, Python!SleepStopped
  <2> QED
    BY <1>9, <2>1, <2>2
<1>10. CASE UNCHANGED Python!vars
  BY <1>10 DEF Python!vars
<1> QED
  BY <1>1, <1>2, <1>3, <1>4, <1>5, <1>6, <1>7, <1>8, <1>9, <1>10
     DEF Python!Next, Python!WaitForRestart
-----------------------------------------------------------------------------
(* Rust *)

LEMMA RsInit == Rust!Init => RsInv
<1> SUFFICES ASSUME Rust!Init PROVE RsInv
  OBVIOUS
<1>1. inbox \in Seq(Rust!Events) /\ published \in 0 .. MaxChanges
  BY WatchStreamAssumption DEF Rust!Init, Rust!WatchInit, Rust!StreamInit
<1>2. Rust!StreamTypeOK
  BY <1>1, Zenon DEF Rust!Init, Rust!WatchInit, Rust!StreamInit, Rust!StreamTypeOK
<1>3. /\ backoff \in BackoffMin .. BackoffMax /\ changes \in 0 .. 1
      /\ timer \in 0 .. Debounce /\ quiet \in 0 .. Debounce
  BY WaitsAssumption DEF Rust!Init, Rust!WatchInit
<1>4. Rust!Lock!TypeOK
  BY DEF Rust!Init, Rust!Lock!Init, Rust!Lock!TypeOK, Rust!Lock!Phases
<1>5. Rust!TypeOK
  BY <1>2, <1>3, <1>4, Zenon DEF Rust!Init, Rust!WatchInit, Rust!TypeOK, Rust!WatchTypeOK
<1>6. RsQuietInv /\ RsOrderInv
  BY DEF Rust!Init, Rust!WatchInit, Rust!Lock!Init, Rust!Done, RsQuietInv, RsOrderInv
<1> QED
  BY <1>5, <1>6 DEF RsInv

LEMMA RsLockTypes ==
  ASSUME Rust!Lock!TypeOK, [Rust!Lock!Next]_(Rust!lockVars)
  PROVE  Rust!Lock!TypeOK'
<1> USE DEF Rust!Lock!TypeOK, Rust!Lock!Phases
<1>1. CASE Rust!Lock!Next
  BY <1>1 DEF Rust!Lock!Next, Rust!Lock!Start, Rust!Lock!Acquire, Rust!Lock!Fail,
     Rust!Lock!Break, Rust!Lock!ReportLost, Rust!Lock!BeginRelease,
     Rust!Lock!EndRelease
<1>2. CASE UNCHANGED Rust!lockVars
  BY <1>2 DEF Rust!lockVars
<1> QED
  BY <1>1, <1>2

LEMMA RsStreamTypes ==
  ASSUME Rust!StreamTypeOK,
         \/ Rust!Open \/ Rust!Take \/ Rust!Cancel
         \/ Rust!StreamBreaks \/ Rust!ServerEnv \/ UNCHANGED Rust!serverVars
  PROVE  Rust!StreamTypeOK'
  BY StreamTypes
     DEF StreamTypeOK, Events, Open, Take, Cancel, StreamBreaks, ServerEnv, Registers,
         Publishes, SendsOther, serverVars,
         Rust!StreamTypeOK, Rust!Events, Rust!Open, Rust!Take, Rust!Cancel,
         Rust!StreamBreaks, Rust!ServerEnv, Rust!Registers, Rust!Publishes,
         Rust!SendsOther, Rust!serverVars

LEMMA RsWatchTypes ==
  ASSUME Rust!WatchTypeOK,
         \/ Rust!WatchLoop \/ Rust!WatchEnv
         \/ Rust!ReceiveChange \/ Rust!DropReceiver
         \/ UNCHANGED Rust!watchVars
  PROVE  Rust!WatchTypeOK'
<1> USE WaitsAssumption DEF Rust!WatchTypeOK, Rust!loopVars, Rust!chanVars
<1>a. UNCHANGED Rust!serverVars => Rust!StreamTypeOK'
  BY RsStreamTypes
<1>1. CASE Rust!LoopTop \/ Rust!OpenFails \/ Rust!RecvFails \/ Rust!SleepCancelled
  BY <1>1, <1>a DEF Rust!LoopTop, Rust!OpenFails, Rust!RecvFails, Rust!SleepCancelled
<1>2. CASE Rust!OpenSucceeds
  BY <1>2, RsStreamTypes DEF Rust!OpenSucceeds
<1>3. CASE Rust!Recv
  BY <1>3, RsStreamTypes DEF Rust!Recv
<1>4. CASE Rust!RecvCancelled
  BY <1>4, RsStreamTypes DEF Rust!RecvCancelled
<1>5. CASE Rust!Slept
  <2>1. backoff' \in BackoffMin .. BackoffMax
    BY <1>5 DEF Rust!Slept, Rust!next_backoff
  <2> QED
    BY <1>5, <1>a, <2>1 DEF Rust!Slept
<1>6. CASE Rust!WatchEnv
  <2>1. UNCHANGED <<Rust!loopVars, Rust!chanVars>> /\ cancelled' \in BOOLEAN
    BY <1>6 DEF Rust!WatchEnv, Rust!CancelToken
  <2>2. Rust!StreamTypeOK'
    BY <1>6, RsStreamTypes DEF Rust!WatchEnv, Rust!CancelToken
  <2> QED
    BY <2>1, <2>2
<1>7. CASE Rust!ReceiveChange
  BY <1>7, <1>a DEF Rust!ReceiveChange
<1>8. CASE Rust!DropReceiver
  <2>1. changes' \in 0 .. 1
    BY <1>8 DEF Rust!DropReceiver
  <2>2. receiver' \in BOOLEAN
    BY <1>8, Zenon DEF Rust!DropReceiver
  <2> QED
    BY <1>8, <1>a, <2>1, <2>2 DEF Rust!DropReceiver
<1>9. CASE UNCHANGED Rust!watchVars
  BY <1>9, <1>a DEF Rust!watchVars
<1> QED
  BY <1>1, <1>2, <1>3, <1>4, <1>5, <1>6, <1>7, <1>8, <1>9
     DEF Rust!WatchLoop, Rust!WatchRuns

LEMMA RsTypes == Rust!TypeOK /\ [Rust!Next]_(Rust!vars) => Rust!TypeOK'
<1> SUFFICES ASSUME Rust!TypeOK, [Rust!Next]_(Rust!vars)
             PROVE  Rust!TypeOK'
  OBVIOUS
<1>1. Rust!WatchTypeOK'
  <2>1. \/ Rust!WatchLoop \/ Rust!WatchEnv
        \/ Rust!ReceiveChange \/ Rust!DropReceiver
        \/ UNCHANGED Rust!watchVars
    BY Zenon DEF Rust!Next, Rust!vars, Rust!WaitStep, Rust!FirstChange, Rust!MoreChange,
       Rust!SleepEnds, Rust!WaitFails, Rust!CallAcquireLock, Rust!LockReturned,
       Rust!DropFuture, Rust!Tick, Rust!Holding
  <2> QED
    BY <2>1, RsWatchTypes DEF Rust!TypeOK
<1>2. Rust!Lock!TypeOK'
  <2>1. [Rust!Lock!Next]_(Rust!lockVars)
    BY Zenon DEF Rust!Next, Rust!vars, Rust!WaitStep, Rust!FirstChange, Rust!MoreChange,
       Rust!SleepEnds, Rust!WaitFails, Rust!CallAcquireLock, Rust!LockReturned,
       Rust!DropFuture, Rust!Tick, Rust!Holding, Rust!Lock!Next
  <2> QED
    BY <2>1, RsLockTypes DEF Rust!TypeOK
<1>3. /\ wait' \in {"first", "debounce", "acquire", "returned", "failed", "dropped"}
      /\ timer' \in 0 .. Debounce /\ quiet' \in 0 .. Debounce
  <2>1. /\ wait \in {"first", "debounce", "acquire", "returned", "failed", "dropped"}
        /\ timer \in 0 .. Debounce /\ quiet \in 0 .. Debounce
    BY DEF Rust!TypeOK
  <2> QED
    BY <2>1, WaitsAssumption
       DEF Rust!Next, Rust!vars, Rust!waitVars, Rust!WaitStep, Rust!FirstChange,
           Rust!MoreChange, Rust!SleepEnds, Rust!WaitFails, Rust!CallAcquireLock,
           Rust!LockReturned, Rust!DropFuture, Rust!Tick, Rust!Holding
<1> QED
  BY <1>1, <1>2, <1>3 DEF Rust!TypeOK

LEMMA RsStep == RsInv /\ [Rust!Next]_(Rust!vars) => RsInv'
<1> SUFFICES ASSUME RsInv, [Rust!Next]_(Rust!vars)
             PROVE  RsInv'
  OBVIOUS
<1>0. Rust!TypeOK /\ Rust!TypeOK'
  BY RsTypes DEF RsInv
<1>a. /\ timer \in 0 .. Debounce /\ quiet \in 0 .. Debounce /\ Debounce \in Nat
      /\ wait \in {"first", "debounce", "acquire", "returned", "failed", "dropped"}
      /\ phase \in {"idle", "acquiring", "held", "failed", "releasing", "released"}
  BY <1>0, WaitsAssumption
     DEF Rust!TypeOK, Rust!Lock!TypeOK, Rust!Lock!Phases
<1>b. SUFFICES RsQuietInv' /\ RsOrderInv'
  BY <1>0 DEF RsInv
<1> USE <1>a DEF RsInv, RsQuietInv, RsOrderInv, Counting, Rust!Done, Rust!watchVars,
        Rust!loopVars, Rust!chanVars, Rust!serverVars, Rust!waitVars, Rust!lockVars
<1>1. CASE Rust!FirstChange
  BY <1>1 DEF Rust!FirstChange, Rust!ReceiveChange
<1>2. CASE Rust!MoreChange
  BY <1>2 DEF Rust!MoreChange, Rust!ReceiveChange
<1>3. CASE Rust!SleepEnds
  BY <1>3 DEF Rust!SleepEnds
<1>4. CASE Rust!WaitFails
  BY <1>4 DEF Rust!WaitFails, Rust!DropReceiver
<1>5. CASE Rust!CallAcquireLock
  BY <1>5 DEF Rust!CallAcquireLock, Rust!Lock!Start
<1>6. CASE Rust!LockReturned
  BY <1>6 DEF Rust!LockReturned, Rust!DropReceiver, Rust!Lock!Acquire, Rust!Lock!Fail
<1>7. CASE Rust!DropFuture
  BY <1>7 DEF Rust!DropFuture, Rust!DropReceiver, Rust!Lock!Fail
<1>8. CASE Rust!Tick
  BY <1>8 DEF Rust!Tick
<1>9. CASE Rust!Holding
  BY <1>9 DEF Rust!Holding, Rust!Lock!Break, Rust!Lock!ReportLost,
     Rust!Lock!BeginRelease, Rust!Lock!EndRelease
<1>10. CASE (Rust!WatchLoop \/ Rust!WatchEnv) /\ UNCHANGED <<Rust!waitVars, Rust!lockVars>>
  <2>1. receiver' = receiver
    BY <1>10 DEF Rust!WatchLoop, Rust!WatchRuns, Rust!WatchEnv, Rust!CancelToken,
       Rust!LoopTop, Rust!OpenFails, Rust!OpenSucceeds, Rust!Recv, Rust!RecvFails,
       Rust!RecvCancelled, Rust!Slept, Rust!SleepCancelled
  <2> QED
    BY <1>10, <2>1
<1>11. CASE UNCHANGED Rust!vars
  BY <1>11 DEF Rust!vars
<1> QED
  BY <1>1, <1>2, <1>3, <1>4, <1>5, <1>6, <1>7, <1>8, <1>9, <1>10, <1>11
     DEF Rust!Next, Rust!WaitStep
-----------------------------------------------------------------------------
(* C# *)

LEMMA CsInit == CSharp!Init => CsInv
<1> SUFFICES ASSUME CSharp!Init PROVE CsInv
  OBVIOUS
<1>1. inbox \in Seq(CSharp!Events) /\ published \in 0 .. MaxChanges
  BY WatchStreamAssumption DEF CSharp!Init, CSharp!WatchInit, CSharp!StreamInit
<1>2. CSharp!StreamTypeOK
  BY <1>1, Zenon DEF CSharp!Init, CSharp!WatchInit, CSharp!StreamInit, CSharp!StreamTypeOK
<1>3. /\ backoff \in BackoffMin .. BackoffMax /\ changes \in 0 .. 1
      /\ timer \in 0 .. Debounce /\ quiet \in 0 .. Debounce
  BY WaitsAssumption DEF CSharp!Init, CSharp!WatchInit
<1>4. CSharp!Lock!TypeOK
  BY DEF CSharp!Init, CSharp!Lock!Init, CSharp!Lock!TypeOK, CSharp!Lock!Phases
<1>5. CSharp!TypeOK
  BY <1>2, <1>3, <1>4, Zenon
     DEF CSharp!Init, CSharp!WatchInit, CSharp!TypeOK, CSharp!WatchTypeOK
<1>6. CsQuietInv /\ CsOrderInv
  BY DEF CSharp!Init, CSharp!WatchInit, CSharp!Lock!Init, CsQuietInv, CsOrderInv
<1> QED
  BY <1>5, <1>6 DEF CsInv

LEMMA CsLockTypes ==
  ASSUME CSharp!Lock!TypeOK, [CSharp!Lock!Next]_(CSharp!lockVars)
  PROVE  CSharp!Lock!TypeOK'
<1> USE DEF CSharp!Lock!TypeOK, CSharp!Lock!Phases
<1>1. CASE CSharp!Lock!Next
  BY <1>1 DEF CSharp!Lock!Next, CSharp!Lock!Start, CSharp!Lock!Acquire, CSharp!Lock!Fail,
     CSharp!Lock!Break, CSharp!Lock!ReportLost, CSharp!Lock!BeginRelease,
     CSharp!Lock!EndRelease
<1>2. CASE UNCHANGED CSharp!lockVars
  BY <1>2 DEF CSharp!lockVars
<1> QED
  BY <1>1, <1>2

LEMMA CsStreamTypes ==
  ASSUME CSharp!StreamTypeOK,
         \/ CSharp!Open \/ CSharp!Take \/ CSharp!Cancel
         \/ CSharp!StreamBreaks \/ CSharp!ServerEnv \/ UNCHANGED CSharp!serverVars
  PROVE  CSharp!StreamTypeOK'
  BY StreamTypes
     DEF StreamTypeOK, Events, Open, Take, Cancel, StreamBreaks, ServerEnv, Registers,
         Publishes, SendsOther, serverVars,
         CSharp!StreamTypeOK, CSharp!Events, CSharp!Open, CSharp!Take, CSharp!Cancel,
         CSharp!StreamBreaks, CSharp!ServerEnv, CSharp!Registers, CSharp!Publishes,
         CSharp!SendsOther, CSharp!serverVars

LEMMA CsWatchTypes ==
  ASSUME CSharp!WatchTypeOK,
         \/ CSharp!WatchLoop \/ CSharp!WatchEnv
         \/ CSharp!ReadChange
         \/ UNCHANGED CSharp!watchVars
  PROVE  CSharp!WatchTypeOK'
<1> USE WaitsAssumption DEF CSharp!WatchTypeOK, CSharp!loopVars
<1>a. UNCHANGED CSharp!serverVars => CSharp!StreamTypeOK'
  BY CsStreamTypes
<1>1. CASE CSharp!LoopTop \/ CSharp!OpenFails \/ CSharp!ReceiveFails \/ CSharp!DelayCancelled
  BY <1>1, <1>a
     DEF CSharp!LoopTop, CSharp!OpenFails, CSharp!ReceiveFails, CSharp!DelayCancelled
<1>2. CASE CSharp!OpenCall
  BY <1>2, CsStreamTypes DEF CSharp!OpenCall
<1>3. CASE CSharp!Receive
  BY <1>3, CsStreamTypes DEF CSharp!Receive
<1>4. CASE CSharp!ReceiveCancelled
  BY <1>4, CsStreamTypes DEF CSharp!ReceiveCancelled
<1>5. CASE CSharp!DelayEnds
  <2>1. backoff' \in BackoffMin .. BackoffMax
    BY <1>5 DEF CSharp!DelayEnds, CSharp!NextBackoff
  <2> QED
    BY <1>5, <1>a, <2>1 DEF CSharp!DelayEnds
<1>6. CASE CSharp!WatchEnv
  <2>1. UNCHANGED <<CSharp!loopVars, changes>> /\ cancelled' \in BOOLEAN
    BY <1>6 DEF CSharp!WatchEnv, CSharp!CancelToken
  <2>2. CSharp!StreamTypeOK'
    BY <1>6, CsStreamTypes DEF CSharp!WatchEnv, CSharp!CancelToken
  <2> QED
    BY <2>1, <2>2
<1>7. CASE CSharp!ReadChange
  BY <1>7, <1>a DEF CSharp!ReadChange
<1>8. CASE UNCHANGED CSharp!watchVars
  BY <1>8, <1>a DEF CSharp!watchVars
<1> QED
  BY <1>1, <1>2, <1>3, <1>4, <1>5, <1>6, <1>7, <1>8 DEF CSharp!WatchLoop

LEMMA CsTypes == CSharp!TypeOK /\ [CSharp!Next]_(CSharp!vars) => CSharp!TypeOK'
<1> SUFFICES ASSUME CSharp!TypeOK, [CSharp!Next]_(CSharp!vars)
             PROVE  CSharp!TypeOK'
  OBVIOUS
<1>1. CSharp!WatchTypeOK'
  <2>1. \/ CSharp!WatchLoop \/ CSharp!WatchEnv
        \/ CSharp!ReadChange
        \/ UNCHANGED CSharp!watchVars
    BY Zenon DEF CSharp!Next, CSharp!vars, CSharp!WaitStep, CSharp!FirstChange,
       CSharp!WaitCanceled, CSharp!MoreChange, CSharp!DebounceElapsed,
       CSharp!CallAcquireLock, CSharp!LockReturned, CSharp!LockCanceled,
       CSharp!Tick, CSharp!Holding
  <2> QED
    BY <2>1, CsWatchTypes DEF CSharp!TypeOK
<1>2. CSharp!Lock!TypeOK'
  <2>1. [CSharp!Lock!Next]_(CSharp!lockVars)
    BY Zenon DEF CSharp!Next, CSharp!vars, CSharp!WaitStep, CSharp!FirstChange,
       CSharp!WaitCanceled, CSharp!MoreChange, CSharp!DebounceElapsed,
       CSharp!CallAcquireLock, CSharp!LockReturned, CSharp!LockCanceled,
       CSharp!Tick, CSharp!Holding, CSharp!Lock!Next
  <2> QED
    BY <2>1, CsLockTypes DEF CSharp!TypeOK
<1>3. /\ wait' \in {"first", "debounce", "acquire", "returned", "failed"}
      /\ thrown' \in CSharp!Exceptions \cup {"none"}
      /\ timer' \in 0 .. Debounce /\ quiet' \in 0 .. Debounce
  <2>1. /\ wait \in {"first", "debounce", "acquire", "returned", "failed"}
        /\ thrown \in CSharp!Exceptions \cup {"none"}
        /\ timer \in 0 .. Debounce /\ quiet \in 0 .. Debounce
    BY DEF CSharp!TypeOK
  <2> QED
    BY <2>1, WaitsAssumption
       DEF CSharp!Next, CSharp!vars, CSharp!waitVars, CSharp!WaitStep, CSharp!FirstChange,
           CSharp!WaitCanceled, CSharp!MoreChange, CSharp!DebounceElapsed,
           CSharp!CallAcquireLock, CSharp!LockReturned, CSharp!LockCanceled,
           CSharp!Tick, CSharp!Holding, CSharp!Throw, CSharp!Exceptions
<1> QED
  BY <1>1, <1>2, <1>3 DEF CSharp!TypeOK

LEMMA CsStep == CsInv /\ [CSharp!Next]_(CSharp!vars) => CsInv'
<1> SUFFICES ASSUME CsInv, [CSharp!Next]_(CSharp!vars)
             PROVE  CsInv'
  OBVIOUS
<1>0. CSharp!TypeOK /\ CSharp!TypeOK'
  BY CsTypes DEF CsInv
<1>a. /\ timer \in 0 .. Debounce /\ quiet \in 0 .. Debounce /\ Debounce \in Nat
      /\ wait \in {"first", "debounce", "acquire", "returned", "failed"}
      /\ phase \in {"idle", "acquiring", "held", "failed", "releasing", "released"}
  BY <1>0, WaitsAssumption
     DEF CSharp!TypeOK, CSharp!Lock!TypeOK, CSharp!Lock!Phases
<1>b. SUFFICES CsQuietInv' /\ CsOrderInv'
  BY <1>0 DEF CsInv
<1> USE <1>a DEF CsInv, CsQuietInv, CsOrderInv, Counting, CSharp!watchVars,
        CSharp!loopVars, CSharp!serverVars, CSharp!waitVars, CSharp!lockVars,
        CSharp!Throw, CSharp!Exceptions
<1>1. CASE CSharp!FirstChange
  BY <1>1 DEF CSharp!FirstChange, CSharp!ReadChange
<1>2. CASE CSharp!WaitCanceled
  BY <1>2 DEF CSharp!WaitCanceled
<1>3. CASE CSharp!MoreChange
  BY <1>3 DEF CSharp!MoreChange, CSharp!ReadChange
<1>4. CASE CSharp!DebounceElapsed
  BY <1>4 DEF CSharp!DebounceElapsed
<1>5. CASE CSharp!CallAcquireLock
  BY <1>5 DEF CSharp!CallAcquireLock, CSharp!Lock!Start
<1>6. CASE CSharp!LockReturned
  BY <1>6 DEF CSharp!LockReturned, CSharp!Lock!Acquire, CSharp!Lock!Fail
<1>7. CASE CSharp!LockCanceled
  BY <1>7 DEF CSharp!LockCanceled, CSharp!Lock!Fail
<1>8. CASE CSharp!Tick
  BY <1>8 DEF CSharp!Tick
<1>9. CASE CSharp!Holding
  BY <1>9 DEF CSharp!Holding, CSharp!Lock!Break, CSharp!Lock!ReportLost,
     CSharp!Lock!BeginRelease, CSharp!Lock!EndRelease
<1>10. CASE (CSharp!WatchLoop \/ CSharp!WatchEnv)
            /\ UNCHANGED <<CSharp!waitVars, CSharp!lockVars>>
  <2>1. cancelled => cancelled'
    BY <1>10 DEF CSharp!WatchLoop, CSharp!WatchEnv, CSharp!CancelToken,
       CSharp!LoopTop, CSharp!OpenCall, CSharp!OpenFails, CSharp!Receive,
       CSharp!ReceiveFails, CSharp!ReceiveCancelled, CSharp!DelayEnds, CSharp!DelayCancelled
  <2> QED
    BY <1>10, <2>1
<1>11. CASE UNCHANGED CSharp!vars
  BY <1>11 DEF CSharp!vars
<1> QED
  BY <1>1, <1>2, <1>3, <1>4, <1>5, <1>6, <1>7, <1>8, <1>9, <1>10, <1>11
     DEF CSharp!Next, CSharp!WaitStep
-----------------------------------------------------------------------------
(* The three together *)

LEMMA InitIInv == Init => IInv
  BY PyInit, RsInit, CsInit DEF Init, IInv

\* A step is one of the client that runs.
LEMMA Runs ==
  ASSUME IInv, [Next]_vars
  PROVE  /\ client' = client
         /\ client = "Python" => PyInv /\ [Python!Next]_(Python!vars)
         /\ client = "Rust" => RsInv /\ [Rust!Next]_(Rust!vars)
         /\ client = "C#" => CsInv /\ [CSharp!Next]_(CSharp!vars)
<1>1. client' = client
  BY DEF Next, vars
<1> USE DEF Next, vars, shared, serverVars
<1>2. client = "Python" => [Python!Next]_(Python!vars)
  BY DEF pyVars, Python!vars, Python!watchVars, Python!loopVars, Python!closeVars,
         Python!chanVars, Python!serverVars, Python!waitVars, Python!lockVars
<1>3. client = "Rust" => [Rust!Next]_(Rust!vars)
  BY DEF Rust!vars, Rust!watchVars, Rust!loopVars, Rust!chanVars, Rust!serverVars,
         Rust!waitVars, Rust!lockVars
<1>4. client = "C#" => [CSharp!Next]_(CSharp!vars)
  BY DEF CSharp!vars, CSharp!watchVars, CSharp!loopVars, CSharp!serverVars,
         CSharp!waitVars, CSharp!lockVars
<1> QED
  BY <1>1, <1>2, <1>3, <1>4 DEF IInv

LEMMA StepIInv == IInv /\ [Next]_vars => IInv'
  BY Runs, PyStep, RsStep, CsStep DEF IInv

LEMMA Invariance == Spec => []IInv
  BY InitIInv, StepIInv, PTL DEF Spec
-----------------------------------------------------------------------------
\* Every variable of the client that runs keeps its type; above all the backoff of
\* the watch stays between its bounds and the channel holds one signal at most
\* (python/src/signet_client/restart.py:365-435, rust/src/restart.rs:499-565,
\* csharp/Watch.cs:83-139).
THEOREM TypeCorrect == Spec => []TypeOK
<1>1. IInv => TypeOK
  BY DEF IInv, PyInv, RsInv, CsInv, TypeOK
<1> QED
  BY <1>1, Invariance, PTL

\* A wait that failed leaves no lock behind, nor a request for one; and the Python
\* wait hands its result over only when the thread of its watch is gone
\* (python/src/signet_client/restart.py:509-524, rust/src/restart.rs:612-655,
\* csharp/Restart.cs:113-164).
NothingLeftBehind ==
  /\ wait \in {"raised", "failed", "dropped"} => phase \in {"idle", "failed"}
  /\ client = "Python" /\ wait \in {"returned", "raised"} => loop = "exited"

\* In all three clients, for every debounce and backoff
\* (python/src/signet_client/restart.py:509-524, rust/src/restart.rs:612-655,
\* csharp/Restart.cs:113-164).
THEOREM CleanFailure == Spec => []NothingLeftBehind
<1>1. IInv => NothingLeftBehind
  <2> USE DEF NothingLeftBehind
  <2>1. CASE client = "Python" /\ PyInv
    BY <2>1 DEF PyInv, PyOrderInv, Python!TypeOK
  <2>2. CASE client = "Rust" /\ RsInv
    BY <2>2 DEF RsInv, RsOrderInv, Rust!TypeOK
  <2>3. CASE client = "C#" /\ CsInv
    BY <2>3 DEF CsInv, CsOrderInv, CSharp!TypeOK
  <2> QED
    BY <2>1, <2>2, <2>3 DEF IInv
<1> QED
  BY <1>1, Invariance, PTL

\* No request for the lock is made, and none is pending, before the first change and
\* the debounce are over (python/src/signet_client/restart.py:511-520,
\* rust/src/restart.rs:622-653, csharp/Restart.cs:115-164).
LockComesLast == wait \in {"first", "debounce"} => phase = "idle"

\* In all three clients: their only call of acquire_lock comes after both waits
\* (python/src/signet_client/restart.py:518, rust/src/restart.rs:649,
\* csharp/Restart.cs:164).
THEOREM Ordered == Spec => []LockComesLast
<1>1. IInv => LockComesLast
  BY DEF IInv, PyInv, PyOrderInv, RsInv, RsOrderInv, CsInv, CsOrderInv, LockComesLast
<1> QED
  BY <1>1, Invariance, PTL

\* For every debounce period, zero included, the lock is asked for only after a full
\* period without a change that was read; in Python not with one in the queue either,
\* in C# earlier only with a cancelled token
\* (python/src/signet_client/restart.py:511-518, rust/src/restart.rs:627-649,
\* csharp/Restart.cs:121-162).
THEOREM Debounced == Spec => DebounceIsQuiet
<1>1. ASSUME IInv, IInv', [Next]_vars, wait' = "acquire", wait # "acquire"
      PROVE  DebounceOver'
  <2>1. client' = client
    BY <1>1, Runs
  <2>2. CASE client = "Python"
    <3>1. quiet' = Debounce
      BY <1>1, <2>1, <2>2 DEF IInv, PyInv, PyQuietInv
    <3>2. [Python!Next]_(Python!vars)
      BY <1>1, <2>2, Runs
    <3>3. Python!GotChange \/ Python!TimesOut
      BY <1>1, <3>2
         DEF Python!Next, Python!vars, Python!waitVars, Python!WaitForRestart, Python!Ask,
             Python!CallAcquireLock, Python!Finally, Python!LockReturned, Python!Tick,
             Python!Holding
    <3>4. changes' = 0
      BY <3>3 DEF Python!GotChange, Python!GetChange, Python!TimesOut
    <3> QED
      BY <3>1, <3>4 DEF DebounceOver
  <2>3. CASE client = "Rust"
    BY <1>1, <2>1, <2>3 DEF IInv, RsInv, RsQuietInv, DebounceOver
  <2>4. CASE client = "C#"
    BY <1>1, <2>1, <2>4 DEF IInv, CsInv, CsQuietInv, DebounceOver
  <2> QED
    BY <1>1, <2>2, <2>3, <2>4 DEF IInv
<1>2. IInv /\ IInv' /\ [Next]_vars =>
        [wait' = "acquire" /\ wait # "acquire" => DebounceOver']_vars
  BY <1>1
<1> QED
  BY <1>2, Invariance, PTL DEF Spec, DebounceIsQuiet

=============================================================================
