----------------------------- MODULE RestartLock -----------------------------
(***************************************************************************)
(* What one restart lock promises the application that asked for it: the   *)
(* contract documented on Lock, Lost, Release and AcquireLock in           *)
(* go/restart.go, which every client of this repository implements.        *)
(*                                                                         *)
(*   - AcquireLock either returns a lock or fails, once;                   *)
(*   - a held lock may break (stream error, server close, ctx done);       *)
(*   - a loss is reported at most once, and only if the lock broke before  *)
(*     Release was called: a clean release is never misreported;           *)
(*   - Release ends in "released", whether or not the lock broke.          *)
(***************************************************************************)
VARIABLES
  phase,    \* where the application is with its lock
  broken,   \* the lock broke while the application held it unreleased
  reported  \* Lost has been signalled

vars == <<phase, broken, reported>>

Phases == {"idle", "acquiring", "held", "failed", "releasing", "released"}

TypeOK ==
  /\ phase \in Phases
  /\ broken \in BOOLEAN
  /\ reported \in BOOLEAN

Init ==
  /\ phase = "idle"
  /\ broken = FALSE
  /\ reported = FALSE

Start ==
  /\ phase = "idle"
  /\ phase' \in {"acquiring", "failed"}
  /\ UNCHANGED <<broken, reported>>

\* The stream may already be down, and the loss already queued, when the
\* caller gets to see the lock.
Acquire ==
  /\ phase = "acquiring"
  /\ phase' = "held"
  /\ broken' \in BOOLEAN
  /\ reported' \in BOOLEAN
  /\ reported' => broken'

Fail ==
  /\ phase = "acquiring"
  /\ phase' = "failed"
  /\ UNCHANGED <<broken, reported>>

Break ==
  /\ phase = "held"
  /\ broken' = TRUE
  /\ UNCHANGED <<phase, reported>>

ReportLost ==
  /\ broken
  /\ ~reported
  /\ reported' = TRUE
  /\ UNCHANGED <<phase, broken>>

BeginRelease ==
  /\ phase = "held"
  /\ phase' = "releasing"
  /\ UNCHANGED <<broken, reported>>

EndRelease ==
  /\ phase = "releasing"
  /\ phase' = "released"
  /\ UNCHANGED <<broken, reported>>

Next ==
  \/ Start \/ Acquire \/ Fail
  \/ Break \/ ReportLost
  \/ BeginRelease \/ EndRelease

Spec == Init /\ [][Next]_vars

\* A broken lock nobody released is reported; a release that began ends.
\* Once Release was called the report is no longer owed.
Fairness ==
  /\ WF_vars(phase = "held" /\ ReportLost)
  /\ WF_vars(EndRelease)

FairSpec == Spec /\ Fairness

=============================================================================
