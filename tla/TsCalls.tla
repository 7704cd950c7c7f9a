------------------------------- MODULE TsCalls -------------------------------
(***************************************************************************)
(* One application of the TypeScript client: it dials a listener of signet *)
(* (typescript/src/client.ts), calls the methods of a service one after    *)
(* the other, prints what it gets as JSON and reads that back, and         *)
(* encrypts secrets for SOPS (typescript/src/sopsEncrypt.ts).              *)
(*                                                                         *)
(* conn is the client it holds, op what it is doing. gRPC, TLS, the server *)
(* and the sops program are external.                                      *)
(***************************************************************************)
EXTENDS ProtoFields, AdminTransport, Integers, Sequences, FiniteSetsExt, Functions

CONSTANTS
  PeerLimit,            \* messages the server lets be nested: 10000 in Go
  Instants,             \* the milliseconds since 1970 at which secrets are encrypted
  AnyValues,            \* the values of a JSON patch
  Messages(_),          \* of a type, those that are sent
  Encode(_, _),         \* the codec of the generated code (ProtoCodec): of a message,
  Decode(_, _, _),      \*   of the tokens of one, at a depth,
  ToJSON(_, _),         \*   to a document
  FromJSON(_, _),       \*   and from one,
  Create(_, _)          \*   and of the message that a literal stands for

ASSUME LimitAssumption == RecursionLimit \in Nat /\ PeerLimit \in Nat /\ PeerLimit >= RecursionLimit
ASSUME InputAssumption == Instants \subseteq Nat

VARIABLES conn, op
vars == <<conn, op>>

Secrets == INSTANCE SecretsProto
Admin   == INSTANCE AdminProto

Services == [SecretsService |-> Secrets!SecretsServiceService,
             AdminService   |-> Admin!AdminServiceService,
             GitOpsService  |-> Admin!GitOpsServiceService]

NoConn == [open |-> FALSE]
Idle   == [step |-> "idle"]

Init == conn = NoConn /\ op = Idle

------------------------------------------------------------------------------
(* The connection *)

\* an interceptor sets the authorization header or leaves it alone
authInterceptor(token) == [sets |-> TRUE, authorization |-> token]
trace        == [sets |-> FALSE]
Interceptors == {<<>>, <<trace>>, <<authInterceptor("own")>>}

DialAdminOptions ==
  [address : Addresses, token : Tokens, caPem : CABundles, forceTLS : BOOLEAN,
   plaintext : BOOLEAN, interceptors : Interceptors]

\* what cannot be split into a host and a port is taken whole
hostOf(address) ==
  IF \/ address.form = "[host]"
     \/ address.form \in {"host:port", "host:name"} /\ address.host \in IPv6
  THEN NoHost ELSE address.host

\* Mutant: a host name that begins with 127. counts as loopback.
LoopbackByPrefix(host) == host \in {"localhost", "::1"} \cup Begins127

isLoopbackHost(host) == host \in {"localhost", "::1"} \cup (IPv4 \cap Begins127)

Throws(mode) == mode = "throws"

adminTransportMode(o) ==
  LET hasCAPem == o.caPem \notin {"none", "empty string"}
  IN CASE o.plaintext /\ (o.forceTLS \/ hasCAPem) -> "throws"
       [] o.plaintext /\ ~(o.forceTLS \/ hasCAPem) -> "plaintext"
       [] OTHER -> IF o.forceTLS \/ hasCAPem \/ ~isLoopbackHost(hostOf(o.address))
                   THEN "TLS" ELSE "plaintext"

normalizeCAPem(caPem) ==
  CASE caPem \in {"none", "empty string"} -> "system"
    [] caPem = "valid" -> "given"
    [] OTHER -> "throws"

adminChannelCredentials(o) ==
  IF trim(o.token) = "" \/ Throws(adminTransportMode(o)) THEN "throws"
  ELSE IF adminTransportMode(o) = "TLS" /\ Throws(normalizeCAPem(o.caPem)) THEN "throws"
  ELSE adminTransportMode(o)

\* Mutant: the token is set before the interceptors of the caller.
AuthLast(o) == o.interceptors \o <<authInterceptor(trim(o.token))>>

mergeAuthInterceptor(o) == <<authInterceptor(trim(o.token))>> \o o.interceptors

\* what each of the five clients does with the same options
Transports(o) ==
  [language \in {"TypeScript"} \cup DOMAIN DialsAs(o) |->
     IF language = "TypeScript" THEN adminChannelCredentials(o) ELSE DialsAs(o)[language]]

\* dialAdmin and gitOpsClient; token is history
DialAdmin(o) ==
  /\ conn = NoConn /\ op = Idle
  /\ op' = [step |-> "dialled", opts |-> o, transports |-> Transports(o)]
  /\ \E service \in {"AdminService", "GitOpsService"} :
       conn' = IF Throws(adminChannelCredentials(o)) THEN NoConn
               ELSE [open |-> TRUE, service |-> service, transport |-> adminChannelCredentials(o),
                     interceptors |-> mergeAuthInterceptor(o), token |-> o.token]

DialReturned == op.step = "dialled" /\ op' = Idle /\ UNCHANGED conn

\* secretsClient, and the clients of dialWorkload and dialWorkloadGitOps
ClientWithCredentials ==
  /\ conn = NoConn /\ op = Idle
  /\ \E service \in {"SecretsService", "GitOpsService"} :
       conn' = [open |-> TRUE, service |-> service, transport |-> "given", interceptors |-> <<>>]
  /\ UNCHANGED op

Close == conn.open /\ op = Idle /\ conn' = NoConn /\ UNCHANGED op

------------------------------------------------------------------------------
(***************************************************************************)
(* The patches that the constructors of typescript/src/jsonpatch.ts make.  *)
(***************************************************************************)
Operation(name, path, value) == [op |-> name, path |-> path, from |-> "", value |-> value]

jsonPatchAppend(path, value)  == Operation("add", path \o "/-", value)
jsonPatchAdd(path, value)     == Operation("add", path, value)
jsonPatchReplace(path, value) == Operation("replace", path, value)
jsonPatchRemove(path)         == Operation("remove", path, Undefined)
jsonPatchTest(path, value)    == Operation("test", path, value)

Patches ==
  {jsonPatchRemove("/p")} \cup
  UNION {{jsonPatchAppend("/p", v), jsonPatchAdd("/p", v), jsonPatchReplace("/p", v),
          jsonPatchTest("/p", v)} : v \in AnyValues}

Requests(service, method) ==
  Messages(Services[service][method].request) \cup
  IF method # "patchServiceConfig" THEN {}
  ELSE {[namespace |-> "n", service |-> "s", operations |-> <<p>>] : p \in Patches}

------------------------------------------------------------------------------
(***************************************************************************)
(* A call. The caller passes a literal or the result of create; the fields *)
(* of op are those the step has made known.                                *)
(***************************************************************************)
Type(o) == IF o.sender = "client" THEN Services[o.service][o.method].request
           ELSE Services[o.service][o.method].response

\* the header that reaches the wire: each interceptor hands it to the next
Intercepted(interceptors) ==
  LET setting == {i \in DOMAIN interceptors : interceptors[i].sets}
  IN IF setting = {} THEN "" ELSE interceptors[Max(setting)].authorization

Send(method) ==
  \E literal \in BOOLEAN, m \in Requests(conn.service, method) :
    LET T == Services[conn.service][method].request
        sent == IF literal THEN m ELSE Create(T, m)
    IN op' = [step |-> "sent", sender |-> "client", service |-> conn.service, method |-> method,
              asked |-> m, literal |-> literal, message |-> sent, wire |-> Encode(T, sent),
              authorization |-> Intercepted(conn.interceptors)]

Invoke ==
  /\ conn.open /\ op = Idle
  /\ \E method \in DOMAIN Services[conn.service] : Send(method)
  /\ UNCHANGED conn

\* the next message of a stream of requests
Write ==
  /\ op.step = "received" /\ op.sender = "client"
  /\ Services[op.service][op.method].requestStream
  /\ Send(op.method)
  /\ UNCHANGED conn

\* limit: the messages the receiver lets be nested
Received(o, limit) ==
  LET r == Decode(Type(o), RecursionLimit - limit, o.wire)
  IN IF r.thrown THEN [step |-> "refused", sender |-> o.sender, service |-> o.service,
                        method |-> o.method, message |-> o.message]
     ELSE [step |-> "received", sender |-> o.sender, service |-> o.service, method |-> o.method,
           sent |-> o.message, message |-> r.message]

ServerReceives ==
  /\ op.step = "sent" /\ op.sender = "client"
  /\ op' = Received(op, PeerLimit)
  /\ UNCHANGED conn

\* a newer server adds a field, or has given a number a field of another type
Newer(tokens) == <<Token(99, Varint, 1)>> \o tokens \o <<Token(1, Fixed64, 1)>>

\* the response, or the next of a stream of responses
Respond ==
  /\ op.step = "received"
  /\ op.sender = "client" \/ Services[op.service][op.method].responseStream
  /\ LET T == Services[op.service][op.method].response
     IN \E m \in Messages(T), newer \in BOOLEAN :
          op' = [step |-> "sent", sender |-> "server", service |-> op.service,
                 method |-> op.method, message |-> m,
                 wire |-> IF newer THEN Newer(Encode(T, m)) ELSE Encode(T, m)]
  /\ UNCHANGED conn

ClientReceives ==
  /\ op.step = "sent" /\ op.sender = "server"
  /\ op' = Received(op, RecursionLimit)
  /\ UNCHANGED conn

PrintAsJSON ==
  /\ op.step = "received"
  /\ op' = [step |-> "parsed", sender |-> op.sender, service |-> op.service, method |-> op.method,
            message |-> op.message, parsed |-> FromJSON(Type(op), ToJSON(Type(op), op.message))]
  /\ UNCHANGED conn

CallEnds == op.step \in {"received", "refused", "parsed"} /\ op' = Idle /\ UNCHANGED conn

------------------------------------------------------------------------------
(***************************************************************************)
(* encryptForSecret, and what sops makes of its document. An encrypted     *)
(* leaf opens only with the key and the additional data it was sealed      *)
(* with. lastmodified is in milliseconds.                                  *)
(***************************************************************************)
Sealed(key, plaintext, aad) == [key |-> key, plaintext |-> plaintext, aad |-> aad]

Recipients == [text : {"", "age1", "not a recipient"}, padded : BOOLEAN]

wholeSeconds(ms) == ms - (ms % 1000)

\* Mutant: the instant with its milliseconds
EncryptedToTheMillisecond(publicKey, value, ms) ==
  IF trim(publicKey) # "age1" THEN [thrown |-> TRUE]
  ELSE [thrown |-> FALSE, value |-> Sealed("datakey", value, "value"),
        sops |-> [enc |-> Sealed(trim(publicKey), "datakey", "age"), lastmodified |-> ms,
                  mac |-> Sealed("datakey", <<"SHA512", value>>, ms)]]

encryptForSecret(publicKey, value, ms) ==
  IF trim(publicKey) # "age1" THEN [thrown |-> TRUE]
  ELSE [thrown |-> FALSE, value |-> Sealed("datakey", value, "value"),
        sops |-> [enc |-> Sealed(trim(publicKey), "datakey", "age"),
                  lastmodified |-> wholeSeconds(ms),
                  mac |-> Sealed("datakey", <<"SHA512", value>>, wholeSeconds(ms))]]

\* sops formats lastmodified anew, in whole seconds
sopsDecrypts(document, identity) ==
  /\ document.sops.enc.key = identity
  /\ document.value.key = document.sops.enc.plaintext
  /\ document.value.aad = "value"
  /\ document.sops.mac.key = document.sops.enc.plaintext
  /\ document.sops.mac.aad = wholeSeconds(document.sops.lastmodified)
  /\ document.sops.mac.plaintext = <<"SHA512", document.value.plaintext>>

Encrypt ==
  /\ op = Idle
  /\ \E publicKey \in Recipients, value \in {<<>>, <<1>>}, ms \in Instants :
       op' = [step |-> "encrypted", value |-> value,
              document |-> encryptForSecret(publicKey, value, ms)]
  /\ UNCHANGED conn

EncryptReturned == op.step = "encrypted" /\ op' = Idle /\ UNCHANGED conn

------------------------------------------------------------------------------
Next ==
  \/ \E o \in DialAdminOptions : DialAdmin(o)
  \/ DialReturned
  \/ ClientWithCredentials
  \/ Close
  \/ Invoke
  \/ Write
  \/ ServerReceives
  \/ Respond
  \/ ClientReceives
  \/ PrintAsJSON
  \/ CallEnds
  \/ Encrypt
  \/ EncryptReturned

Spec == Init /\ [][Next]_vars

------------------------------------------------------------------------------
(***************************************************************************)
(* Whatever an address looks like, and whichever client reads it, a bearer *)
(* token is sent in plaintext only to this machine or on request, never    *)
(* past a CA bundle that was given, and a request for plaintext is never   *)
(* answered with TLS (go/client.go:246-284,                                *)
(* python/src/signet_client/admin.py:129-202, rust/src/client.rs:319-378,  *)
(* csharp/AdminConnection.cs:118-230, typescript/src/client.ts:181-244).   *)
(* Of an IPv6 host with a port and no brackets the host that is meant      *)
(* counts.                                                                 *)
(***************************************************************************)
PlaintextIsMeant ==
  op.step = "dialled" => \A language \in DOMAIN op.transports :
    LET transport == op.transports[language]
    IN /\ transport = "plaintext" => op.opts.plaintext \/ op.opts.address.host \in Loopback
       /\ transport = "TLS" => ~op.opts.plaintext
       /\ NotEmpty(op.opts.caPem) => transport # "plaintext"

(***************************************************************************)
(* Every call of an admin client carries the token without its white       *)
(* space, unless an interceptor of the caller replaced it                  *)
(* (mergeAuthInterceptor).                                                 *)
(***************************************************************************)
AdminCallsCarryToken ==
  op.step = "sent" /\ op.sender = "client" /\ conn.transport # "given" =>
    op.authorization = IF authInterceptor("own") \in Range(conn.interceptors)
                       THEN "own" ELSE trim(conn.token)

(***************************************************************************)
(* sops opens with the recipient's identity every document that            *)
(* encryptForSecret returns, at whatever instant it was made, and finds    *)
(* the caller's value in it.                                               *)
(***************************************************************************)
SopsOpens ==
  op.step = "encrypted" /\ ~op.document.thrown =>
    /\ sopsDecrypts(op.document, "age1")
    /\ op.document.value.plaintext = op.value
==============================================================================
