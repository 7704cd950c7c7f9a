------------------------------ MODULE MCGoLock ------------------------------
(* Small instance of GoLock: two goroutines race in Release. *)
EXTENDS GoLock

CONSTANTS r1, r2

MCReleasers == {r1, r2}

=============================================================================
