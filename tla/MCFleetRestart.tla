--------------------------- MODULE MCFleetRestart ---------------------------
(* Small instances of FleetRestart. *)
EXTENDS FleetRestart

CONSTANTS a, b, c3

Three == {a, b, c3}

\* Without faults: three replicas whose heartbeats are all sent, and two that may
\* miss two in a row, both to within a tick of the ttl.  With every fault: two that
\* may miss so many that the ttl runs out.
MCFleets ==
  { [replicas |-> Three,  ttl |-> 4,  missed |-> 0, faults |-> FALSE],
    [replicas |-> {a, b}, ttl |-> 12, missed |-> 2, faults |-> FALSE],
    [replicas |-> {a, b}, ttl |-> 4,  missed |-> 4, faults |-> TRUE] }

=============================================================================
