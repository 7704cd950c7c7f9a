------------------------------- MODULE MCCodec -------------------------------
(***************************************************************************)
(* The calls with the generated codec, over every message of the services. *)
(***************************************************************************)
EXTENDS MCCalls, ProtoMessages

MCBackoff == <<1, 2, 4, 8>>
------------------------------------------------------------------------------
(***************************************************************************)
(* What a reader is given is what the writer meant, whatever newer fields  *)
(* the message carries: zero values inside a value of any type arrive,     *)
(* the undefined entries of an object alone do not (encode and decode of   *)
(* typescript/src/gen).                                                    *)
(***************************************************************************)
ArrivesAsSent ==
  op.step = "received" => op.message = EachAny(Meaning, Type(op), op.sent)

(***************************************************************************)
(* decode refuses a configuration exactly when its objects are nested      *)
(* deeper than it can recurse, and a document of that depth can be written *)
(* but not read back: three messages for each level, 100 for the client,   *)
(* 10000 for the server.                                                   *)
(***************************************************************************)
DeepDocumentsRefused ==
  LET limit == IF op.sender = "client" THEN PeerLimit ELSE RecursionLimit
  IN /\ op.step = "received" => Nesting(Type(op), op.sent) <= limit
     /\ op.step = "refused" => Nesting(Type(op), op.message) > limit

(***************************************************************************)
(* toJSON then fromJSON, and create, give the same message back unless a   *)
(* field of any type is null, which both drop, or an enum has a number     *)
(* from a newer server, which becomes UNRECOGNIZED.                        *)
(***************************************************************************)
LosesOnlyNulls ==
  /\ op.step = "parsed" =>
       (op.parsed = op.message <=> ~HasNull(Type(op), op.message) /\ ~IsNewer(Type(op), op.message))
  /\ op.step = "sent" /\ op.sender = "client" =>
       (op.message = op.asked <=> op.literal \/ ~HasNull(Type(op), op.asked))
==============================================================================
