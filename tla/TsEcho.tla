------------------------------- MODULE TsEcho --------------------------------
(***************************************************************************)
(* One run of typescript/examples/echo/index.ts in a pod: it dials signet, *)
(* fetches its bundle, waits for a change and the restart lock, releases   *)
(* the lock and exits. SIGTERM aborts the wait.                            *)
(*                                                                         *)
(* The event loop of Node ends the process when nothing holds it: all the  *)
(* timers of the library are unref'd, so only calls in flight and the      *)
(* interval of dialWorkload do.                                            *)
(***************************************************************************)
EXTENDS TsWaitForRestart, TsWorkload

CONSTANTS
  Certificates,   \* what the server may present
  SharedBundle    \* SIGNET_SHARED_NAMESPACE and SIGNET_SHARED_SERVICE are set

ASSUME EchoAssumption == SharedBundle \in BOOLEAN

VARIABLES
  main,        \* where main is
  exitCode,    \* of process.exit; "drained" is 0, without a call of it
  connected    \* the channel has not been closed

mainVars == <<main, exitCode, connected>>
vars == <<mainVars, dialVars, watchVars, waitVars, lockVars>>
wholeWait == <<watchVars, waitVars, lockVars>>

Init ==
  /\ main = "config"
  /\ exitCode = "none"
  /\ connected = FALSE
  /\ DialInit
  /\ WaitInit
  /\ aborted = FALSE

Running == main # "exited"

\* process.exit; close() has closed the channel
Exits(code) ==
  /\ main' = "exited"
  /\ exitCode' = code
  /\ connected' = FALSE
-----------------------------------------------------------------------------
(* main *)

\* requireEnv throws, or the handlers of the signals are installed.
LoadConfig ==
  /\ main = "config"
  /\ \/ Exits("1")
     \/ main' = "dial" /\ UNCHANGED <<exitCode, connected>>
  /\ UNCHANGED <<dialVars, wholeWait>>

\* dialWorkload throws outside the try block: exit 1, whatever signal came.
DialReturns ==
  /\ main = "dial"
  /\ \/ dial = "failed" /\ Exits("1")
     \/ /\ dial = "dialled"
        /\ main' = "fetch"
        /\ connected' = TRUE
        /\ UNCHANGED exitCode
  /\ UNCHANGED <<dialVars, wholeWait>>

\* the catch block: a shutdown is no failure
Caught == Exits(IF aborted THEN "0" ELSE "1")

\* getServiceBundle, and a second time for the shared bundle
FetchReturns ==
  /\ main \in {"fetch", "fetch shared"}
  /\ \E cert \in Certificates :
       \/ /\ authorized(cert)
          /\ main' = IF main = "fetch" /\ SharedBundle THEN "fetch shared" ELSE "wait"
          /\ UNCHANGED <<exitCode, connected>>
       \/ Caught
  /\ UNCHANGED <<dialVars, wholeWait>>

CallWaitForRestart ==
  /\ main = "wait"
  /\ WaitCall
  /\ UNCHANGED <<mainVars, dialVars>>

\* waitForRestart returns a lock, which is released, or throws.
WaitReturns ==
  /\ main = "wait"
  /\ \/ /\ wait = "returned"
        /\ main' = "release"
        /\ Lock!BeginRelease
        /\ UNCHANGED <<exitCode, connected>>
     \/ wait = "failed" /\ Caught /\ UNCHANGED lockVars
  /\ UNCHANGED <<dialVars, watchVars, waitVars>>

ReleaseReturns ==
  /\ main = "release"
  /\ Lock!EndRelease
  /\ Exits("0")
  /\ UNCHANGED <<dialVars, watchVars, waitVars>>

Main == LoadConfig \/ DialReturns \/ CallWaitForRestart \/ WaitReturns \/ ReleaseReturns
-----------------------------------------------------------------------------
\* A call in flight or the interval holds the event loop, or there is something
\* for it to run: the loop of the watch holds it except in its backoff.
Held ==
  \/ main \in {"config", "fetch", "fetch shared", "release"}
  \/ main = "dial" /\ (keepAlive \/ dial \notin {"probing", "sleeping"})
  \/ main = "wait" /\ (loop \notin {"sleep", "exited"} \/ race # "pending")
  \/ main = "wait" /\ wait \notin {"first", "debounce"}
  \/ main = "wait" /\ (Told # "waiting" \/ aborted)

\* Node ends the process, with code 0 and without a word.
Drain ==
  /\ Running /\ ~Held
  /\ Exits("drained")
  /\ UNCHANGED <<dialVars, wholeWait>>

\* The first SIGTERM or SIGINT; a later one changes nothing.
SIGTERM ==
  /\ Running /\ main # "config"
  /\ AbortSignal
  /\ UNCHANGED <<mainVars, dialVars, waitVars, lockVars>>

\* What the library does while main awaits it.
DialRuns == main = "dial" /\ DialStep /\ UNCHANGED <<mainVars, wholeWait>>

Waiting == main \in {"wait", "release"} /\ wait # "not called"

\* The watch outlives waitForRestart: only the end of the process stops it.
WatchRuns == Waiting /\ WatchLoop /\ UNCHANGED <<mainVars, dialVars, waitVars, lockVars>>

WaitRuns == Waiting /\ (WaitStep \/ Tick) /\ UNCHANGED <<mainVars, dialVars>>

LockRuns == Waiting /\ LockSettled /\ UNCHANGED <<mainVars, dialVars>>

LockIsLost ==
  /\ Waiting
  /\ Lock!Break \/ Lock!ReportLost
  /\ UNCHANGED <<mainVars, dialVars, watchVars, waitVars>>

Network ==
  /\ Waiting
  /\ ServerEnv \/ StreamBreaks
  /\ UNCHANGED <<mainVars, aborted, loopVars, chanVars, received>>
  /\ UNCHANGED <<dialVars, waitVars, lockVars>>

Next ==
  \/ Main \/ FetchReturns \/ Drain \/ SIGTERM
  \/ DialRuns \/ WatchRuns \/ WaitRuns \/ LockRuns \/ LockIsLost
  \/ Network

Spec == Init /\ [][Next]_vars

\* The event loop runs what is due.  acquireLock answers an aborted signal and a
\* release ends (TsLock); nothing makes the Workload API or a fetch answer, the
\* server grant the lock, or an event loop that drained stay.
Fairness ==
  /\ WF_vars(Main)
  /\ WF_vars(WatchRuns)
  /\ WF_vars(WaitRuns)
  /\ WF_vars((aborted \/ phase = "failed") /\ LockRuns)

FairSpec == Spec /\ Fairness
-----------------------------------------------------------------------------
(* Properties *)

\* The process ends with code 0 after a release or for a shutdown signal, and
\* never because the event loop drained while it dialled; it may still drain in
\* waitForRestart, but only while the watch sits out its backoff
\* (typescript/src/workload.ts:104-134, typescript/src/restart.ts:246,
\* typescript/examples/echo/index.ts:158-187).
ExitsAreExplained ==
  /\ exitCode = "0" => aborted \/ phase = "released"
  /\ exitCode = "drained" =>
       dial = "dialled" /\ loop = "sleep" /\ phase = "idle"

\* A change that reached the stream of the watch leads to the request of the
\* lock, even if the stream broke right behind it and more changes follow while
\* debouncing, unless the process ends
\* (typescript/src/async-mailbox.ts:17-43, typescript/src/restart.ts:572-588).
SentLeadsToLock ==
  (\E i \in 1 .. Len(inbox) : inbox[i] = "changed")
    ~> (phase # "idle" \/ main = "exited")

\* A shutdown signal ends the process in whichever await waitForRestart is
\* (typescript/examples/echo/index.ts:120-131, 158-185).
ShutdownEnds == (aborted /\ main = "wait") ~> main = "exited"

=============================================================================
