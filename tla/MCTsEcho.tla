------------------------------ MODULE MCTsEcho ------------------------------
(* A small instance of TsEcho, with the real schedule of the dial in seconds. *)
EXTENDS TsEcho

CONSTANTS w

MCConsumers == {w}
MCTrustDomain == [name |-> "example.org", path |-> FALSE]
MCBackoff == <<1, 2, 4, 8>>
MCCertificates == {<<"not SPIFFE", "example.org">>, <<"evil.org", "example.org">>, << >>}

=============================================================================
