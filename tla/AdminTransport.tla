--------------------------- MODULE AdminTransport ---------------------------
(***************************************************************************)
(* How the Go, Python, Rust and C# clients dial the admin listener: one    *)
(* decision between TLS and plaintext, taken four times (a fifth version,  *)
(* that of TypeScript, is in TsCalls). They differ in what they take for   *)
(* the host of an address, and in which hosts they take for loopback.      *)
(*                                                                         *)
(* An address is how it is written and the host in it; what cannot be      *)
(* split is taken whole, or cut in the wrong place, and is no host. A      *)
(* token is its text and whether white space surrounds it.                 *)
(***************************************************************************)
CONSTANTS
  Hosts,       \* the hosts an operator may name
  IPv4, IPv6,  \* those that are literal addresses, in their usual notation
  ShortIPv4,   \* those that only .NET takes for an address, such as 127.1
  Begins127,   \* those whose name begins with 127.
  Loopback,    \* those that are this machine
  Texts        \* what tokens consist of

NoHost == "not a host"

\* localhost, in any case, is this machine, as is all of 127.0.0.0/8; of the IPv6
\* addresses ::1 alone.
ASSUME HostAssumption ==
  /\ NoHost \notin Loopback
  /\ {"localhost", "LOCALHOST"} \subseteq Loopback
  /\ IPv4 \cap Loopback = IPv4 \cap Begins127
  /\ IPv6 \cap Loopback = {"::1"}

Addresses == [form : {"host", "host:port", "host:name", "[host]:port", "[host]"}, host : Hosts]
Tokens    == [text : Texts, padded : BOOLEAN]
\* "not a certificate": a well-formed PEM block of something else
CABundles == {"none", "empty string", "empty buffer", "not PEM", "not a certificate", "valid"}

trim(token) == token.text
-----------------------------------------------------------------------------
(* The host of an address *)

\* net.SplitHostPort, and the address if that fails
SplitHostPort(a) ==
  IF a.form = "[host]" \/ (a.form \in {"host:port", "host:name"} /\ a.host \in IPv6)
  THEN NoHost ELSE a.host

\* what precedes the last colon is the host, unless no number follows
_split_host(a) ==
  IF a.form = "host:name" \/ (a.form = "host" /\ a.host \in IPv6) THEN NoHost ELSE a.host

\* the same, and brackets only around a host with a port
host_of(a) ==
  IF a.form \in {"host:name", "[host]"} \/ (a.form = "host" /\ a.host \in IPv6)
  THEN NoHost ELSE a.host

\* what brackets enclose, or what precedes the last colon
ExtractHost(a) == IF a.form = "host" /\ a.host \in IPv6 THEN NoHost ELSE a.host
-----------------------------------------------------------------------------
(* The hosts taken for loopback *)

LoopbackIP == (IPv4 \cup IPv6) \cap Loopback

GoLoopback     == {"localhost"} \cup LoopbackIP
PythonLoopback == {"localhost"} \cup LoopbackIP
RustLoopback   == {"localhost", "LOCALHOST"} \cup LoopbackIP
CSharpLoopback == {"localhost"} \cup LoopbackIP \cup (ShortIPv4 \cap Loopback)
-----------------------------------------------------------------------------
(* The decision *)

NotEmpty(caPem) == caPem \notin {"none", "empty string", "empty buffer"}

\* a bundle is read only for TLS; which ones are refused is up to the parser
Transport(o, loopback, refused) ==
  IF o.plaintext
  THEN IF o.forceTLS \/ NotEmpty(o.caPem) THEN "throws" ELSE "plaintext"
  ELSE IF o.forceTLS \/ NotEmpty(o.caPem) \/ ~loopback
       THEN IF o.caPem \in refused THEN "throws" ELSE "TLS"
       ELSE "plaintext"

\* Go, Python and C# parse the certificates; Rust only decodes their PEM blocks
Unparsable  == {"not PEM", "not a certificate"}
Undecodable == {"not PEM"}

adminTransportCreds(o) ==
  Transport(o, SplitHostPort(o.address) \in GoLoopback, Unparsable)
_admin_transport_credentials(o) ==
  Transport(o, _split_host(o.address) \in PythonLoopback, Unparsable)
admin_transport_decision(o) ==
  Transport(o, host_of(o.address) \in RustLoopback, Undecodable)
Resolve(o) ==
  Transport(o, ExtractHost(o.address) \in CSharpLoopback, Unparsable)

\* no dial without a token
DialsAs(o) ==
  LET Dial(transport) == IF trim(o.token) = "" THEN "throws" ELSE transport
  IN [Go     |-> Dial(adminTransportCreds(o)),
      Python |-> Dial(_admin_transport_credentials(o)),
      Rust   |-> Dial(admin_transport_decision(o)),
      CSharp |-> Dial(Resolve(o))]

=============================================================================
