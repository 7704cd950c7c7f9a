------------------------------ MODULE MCTsLock ------------------------------
(* A small instance of TsLock. *)
EXTENDS TsLock

CONSTANTS r1, r2

MCReleasers == {r1, r2}

=============================================================================
