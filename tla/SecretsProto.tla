---------------------------- MODULE SecretsProto -----------------------------
(***************************************************************************)
(* The messages and the methods of signet.v1.SecretsService, as            *)
(* typescript/src/gen/signet/v1/secrets.ts encodes and decodes them: one   *)
(* table for each enum, message and service. Every definition stands for   *)
(* the constant of its name; the methods that all of them have are those   *)
(* of ProtoCodec.                                                          *)
(***************************************************************************)
EXTENDS ProtoFields

WatchSecretResponse_EventType ==
  [EVENT_TYPE_UNSPECIFIED |-> 0, EVENT_TYPE_UPDATED |-> 1, EVENT_TYPE_DELETED |-> 2]

WatchServiceBundleResponse_EventType == [EVENT_TYPE_UNSPECIFIED |-> 0, EVENT_TYPE_CHANGED |-> 1]

AcquireRestartLockResponse_MessageType ==
  [MESSAGE_TYPE_UNSPECIFIED |-> 0, MESSAGE_TYPE_QUEUE_POSITION |-> 1,
   MESSAGE_TYPE_ACQUIRED |-> 2, MESSAGE_TYPE_TTL_EXTENDED |-> 3]

WatchServiceConfigResponse_EventType ==
  [EVENT_TYPE_UNSPECIFIED |-> 0, EVENT_TYPE_UPDATED |-> 1, EVENT_TYPE_DELETED |-> 2]

GetSecretRequest == [namespace |-> String(1), service |-> String(2), name |-> String(3)]

GetSecretResponse == [value |-> Bytes(1), version |-> Int32(2)]

WatchSecretRequest == [namespace |-> String(1), service |-> String(2), name |-> String(3)]

WatchSecretResponse ==
  [eventType |-> Enum(1, WatchSecretResponse_EventType), namespace |-> String(2),
   service |-> String(3), name |-> String(4), value |-> Bytes(5), version |-> Int32(6)]

GetConfigRequest == [namespace |-> String(1), service |-> String(2), key |-> String(3)]

GetConfigResponse == [value |-> AnyValue(1), version |-> Int32(2)]

GetServiceConfigRequest == [namespace |-> String(1), service |-> String(2)]

GetServiceConfigResponse == [values |-> StructOf(1), version |-> Int32(2)]

WatchServiceConfigRequest == [namespace |-> String(1), service |-> String(2)]

GetServiceBundleRequest == [namespace |-> String(1), service |-> String(2)]

GetServiceBundleResponse == [bundle |-> StructOf(1), configVersion |-> Int32(2)]

WatchServiceBundleRequest == [namespace |-> String(1), service |-> String(2)]

WatchServiceBundleResponse ==
  [eventType |-> Enum(1, WatchServiceBundleResponse_EventType), namespace |-> String(2),
   service |-> String(3)]

AcquireRestartLockRequest ==
  [namespace |-> String(1), service |-> String(2), ttlSeconds |-> Int32(3),
   heartbeat |-> Bool(4)]

AcquireRestartLockResponse ==
  [messageType |-> Enum(1, AcquireRestartLockResponse_MessageType), position |-> Int32(2),
   token |-> String(3), expiresAt |-> Date(4)]

WatchServiceConfigResponse ==
  [eventType |-> Enum(1, WatchServiceConfigResponse_EventType), namespace |-> String(2),
   service |-> String(3), values |-> StructOf(4), version |-> Int32(5)]

------------------------------------------------------------------------------
SecretsServiceService ==
  [getSecret |-> Unary(GetSecretRequest, GetSecretResponse),
   watchSecret |-> ServerStream(WatchSecretRequest, WatchSecretResponse),
   getConfig |-> Unary(GetConfigRequest, GetConfigResponse),
   getServiceConfig |-> Unary(GetServiceConfigRequest, GetServiceConfigResponse),
   watchServiceConfig |-> ServerStream(WatchServiceConfigRequest, WatchServiceConfigResponse),
   getServiceBundle |-> Unary(GetServiceBundleRequest, GetServiceBundleResponse),
   watchServiceBundle |-> ServerStream(WatchServiceBundleRequest, WatchServiceBundleResponse),
   acquireRestartLock |-> Duplex(AcquireRestartLockRequest, AcquireRestartLockResponse)]
==============================================================================
