----------------------------- MODULE AdminProto ------------------------------
(***************************************************************************)
(* The messages and the methods of admin.v1.AdminService and               *)
(* admin.v1.GitOpsService, as typescript/src/gen/admin/v1/admin.ts encodes *)
(* and decodes them. JsonPatchOperation is the type of what the            *)
(* constructors of typescript/src/jsonpatch.ts return.                     *)
(***************************************************************************)
EXTENDS ProtoFields

StatusResponse_State ==
  [STATE_UNSPECIFIED |-> 0, STATE_SEALED |-> 1, STATE_UNSEALING |-> 2, STATE_UNSEALED |-> 3]

UnsealKeyRequest == [key |-> Bytes(1)]

UnsealKeyResponse ==
  [unsealed |-> Bool(1), sharesReceived |-> Int32(2), sharesRequired |-> Int32(3),
   message |-> String(4)]

UnsealShareRequest == [share |-> Bytes(1)]

UnsealShareResponse ==
  [unsealed |-> Bool(1), sharesReceived |-> Int32(2), sharesRequired |-> Int32(3),
   message |-> String(4)]

SealRequest == NoFields

SealResponse == [message |-> String(1)]

StatusRequest == NoFields

StatusResponse ==
  [state |-> Enum(1, StatusResponse_State), sharesReceived |-> Int32(2),
   sharesRequired |-> Int32(3), version |-> String(4)]

RotateKEKRequest == NoFields

RotateKEKResponse ==
  [newKekId |-> String(1), oldKekId |-> String(2), secretsRewrapped |-> Int32(3)]

ListKEKsRequest == NoFields

KEKInfo ==
  [id |-> String(1), isActive |-> Bool(2), createdAt |-> String(3),
   deactivatedAt |-> String(4)]

ListKEKsResponse == [keks |-> Repeated(Message(1, KEKInfo))]

PruneKEKRequest == [id |-> String(1)]

PruneKEKResponse == [message |-> String(1)]

RotateMasterKeyRequest == [newKey |-> Bytes(1)]

RotateMasterKeyResponse == [message |-> String(1), keksRewrapped |-> Int32(2)]

CreatePolicyRequest ==
  [spiffeId |-> String(1), namespace |-> String(2), service |-> String(3),
   secretName |-> String(4), permissions |-> Repeated(String(5))]

CreatePolicyResponse == [id |-> String(1)]

ListPoliciesRequest == NoFields

PolicyInfo ==
  [id |-> String(1), spiffeId |-> String(2), namespace |-> String(3), pattern |-> String(4),
   permissions |-> Repeated(String(5)), createdAt |-> String(6)]

ListPoliciesResponse == [policies |-> Repeated(Message(1, PolicyInfo))]

DeletePolicyRequest == [id |-> String(1)]

DeletePolicyResponse == [message |-> String(1)]

DeleteSecretRequest ==
  [namespace |-> String(1), service |-> String(2), secretName |-> String(3)]

DeleteSecretResponse == [message |-> String(1)]

DeleteConfigRequest == [namespace |-> String(1), service |-> String(2)]

DeleteConfigResponse == [message |-> String(1)]

GetSOPSPublicKeyRequest == NoFields

GetSOPSPublicKeyResponse ==
  [publicKey |-> String(1), fingerprint |-> String(2), createdAt |-> String(3),
   environment |-> String(4)]

RotateSOPSKeyRequest == NoFields

RotateSOPSKeyResponse ==
  [newPublicKey |-> String(1), newFingerprint |-> String(2), oldPublicKey |-> String(3),
   newEnvironment |-> String(4)]

ListSOPSKeysRequest == NoFields

SOPSKeyInfo ==
  [publicKey |-> String(1), fingerprint |-> String(2), isActive |-> Bool(3),
   createdAt |-> String(4), deactivatedAt |-> String(5), environment |-> String(6)]

ListSOPSKeysResponse == [keys |-> Repeated(Message(1, SOPSKeyInfo))]

PruneSOPSKeyRequest == [publicKey |-> String(1)]

PruneSOPSKeyResponse == [message |-> String(1)]

RegisterRepositoryRequest ==
  [name |-> String(1), repoUrl |-> String(2), branch |-> String(3),
   secretsPath |-> String(4), deployKey |-> Bytes(5), configPath |-> String(6)]

RegisterRepositoryResponse ==
  [id |-> String(1), webhookUrl |-> String(2), webhookSecret |-> String(3)]

ListRepositoriesRequest == NoFields

RepositoryInfo ==
  [id |-> String(1), name |-> String(2), repoUrl |-> String(3), branch |-> String(4),
   secretsPath |-> String(5), lastSyncSha |-> String(6), lastSyncAt |-> String(7),
   configPath |-> String(8)]

ListRepositoriesResponse == [repositories |-> Repeated(Message(1, RepositoryInfo))]

RemoveRepositoryRequest == [id |-> String(1)]

RemoveRepositoryResponse == [message |-> String(1)]

TriggerSyncRequest == [id |-> String(1), force |-> Bool(2)]

TriggerSyncResponse ==
  [secretsAdded |-> Int32(1), secretsUpdated |-> Int32(2), secretsDeleted |-> Int32(3),
   syncSha |-> String(4), errors |-> Repeated(String(5)), configsSynced |-> Int32(6),
   configsConflicted |-> Int32(7)]

SyncBundleHeader == [secretsPath |-> String(1), headSha |-> String(2), configPath |-> String(3)]

SyncBundleChunk == [header |-> Message(1, SyncBundleHeader), data |-> Optional(Bytes(2))]

SyncBundleResponse ==
  [secretsAdded |-> Int32(1), secretsUpdated |-> Int32(2), secretsDeleted |-> Int32(3),
   syncSha |-> String(4), errors |-> Repeated(String(5)), configsSynced |-> Int32(6)]

JsonPatchOperation ==
  [op |-> String(1), path |-> String(2), from |-> String(3), value |-> AnyValue(4)]

PatchServiceConfigRequest ==
  [namespace |-> String(1), service |-> String(2),
   operations |-> Repeated(Message(3, JsonPatchOperation))]

PatchServiceConfigResponse == [version |-> Int32(1)]

GetServiceConfigRequest == [namespace |-> String(1), service |-> String(2)]

GetServiceConfigResponse == [content |-> AnyValue(1), version |-> Int32(2)]

PutServiceConfigRequest ==
  [namespace |-> String(1), service |-> String(2), content |-> AnyValue(3),
   expectedVersion |-> Int32(4)]

PutServiceConfigResponse == [version |-> Int32(1)]

------------------------------------------------------------------------------
AdminServiceService ==
  [unsealKey |-> Unary(UnsealKeyRequest, UnsealKeyResponse),
   unsealShare |-> Unary(UnsealShareRequest, UnsealShareResponse),
   seal |-> Unary(SealRequest, SealResponse),
   status |-> Unary(StatusRequest, StatusResponse),
   rotateKek |-> Unary(RotateKEKRequest, RotateKEKResponse),
   listKeKs |-> Unary(ListKEKsRequest, ListKEKsResponse),
   pruneKek |-> Unary(PruneKEKRequest, PruneKEKResponse),
   rotateMasterKey |-> Unary(RotateMasterKeyRequest, RotateMasterKeyResponse),
   createPolicy |-> Unary(CreatePolicyRequest, CreatePolicyResponse),
   listPolicies |-> Unary(ListPoliciesRequest, ListPoliciesResponse),
   deletePolicy |-> Unary(DeletePolicyRequest, DeletePolicyResponse),
   deleteSecret |-> Unary(DeleteSecretRequest, DeleteSecretResponse),
   deleteConfig |-> Unary(DeleteConfigRequest, DeleteConfigResponse)]

GitOpsServiceService ==
  [getSopsPublicKey |-> Unary(GetSOPSPublicKeyRequest, GetSOPSPublicKeyResponse),
   rotateSopsKey |-> Unary(RotateSOPSKeyRequest, RotateSOPSKeyResponse),
   listSopsKeys |-> Unary(ListSOPSKeysRequest, ListSOPSKeysResponse),
   pruneSopsKey |-> Unary(PruneSOPSKeyRequest, PruneSOPSKeyResponse),
   registerRepository |-> Unary(RegisterRepositoryRequest, RegisterRepositoryResponse),
   listRepositories |-> Unary(ListRepositoriesRequest, ListRepositoriesResponse),
   removeRepository |-> Unary(RemoveRepositoryRequest, RemoveRepositoryResponse),
   triggerSync |-> Unary(TriggerSyncRequest, TriggerSyncResponse),
   syncBundle |-> ClientStream(SyncBundleChunk, SyncBundleResponse),
   patchServiceConfig |-> Unary(PatchServiceConfigRequest, PatchServiceConfigResponse),
   getServiceConfig |-> Unary(GetServiceConfigRequest, GetServiceConfigResponse),
   putServiceConfig |-> Unary(PutServiceConfigRequest, PutServiceConfigResponse)]
==============================================================================
