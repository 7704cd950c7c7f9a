----------------------------- MODULE ProtoFields -----------------------------
(***************************************************************************)
(* The vocabulary in which SecretsProto and AdminProto state the messages  *)
(* of signet. A message type is a function from its field names to field   *)
(* descriptors; a message of that type is a function from the same names   *)
(* to values. The generated TypeScript (typescript/src/gen) repeats the    *)
(* same seven functions for each message; here the table of a message is   *)
(* what distinguishes it, and ProtoCodec is what they have in common.      *)
(***************************************************************************)
CONSTANTS
  Undefined,      \* JavaScript's undefined: a field that is absent
  RecursionLimit  \* messages that a reader lets be nested in one another: 100

(***************************************************************************)
(* A descriptor: the field number, the wire type that the generated tag    *)
(* number carries, the kind of its value and the value that is not sent.   *)
(***************************************************************************)
Varint   == 0
Fixed64  == 1
Chunk    == 2           \* length-delimited
EndGroup == 4

\* What is on the wire for a field.
Token(num, wire, value) == [num |-> num, wire |-> wire, value |-> value]

Field(num, wire, kind, default) ==
  [num |-> num, wire |-> wire, kind |-> kind, default |-> default]

String(num) == Field(num, Chunk,  "string", "")
Bytes(num)  == Field(num, Chunk,  "bytes",  <<>>)
Int32(num)  == Field(num, Varint, "number", 0)
Int64(num)  == Int32(num)       \* read as a number; beyond 2^53 it would throw
Bool(num)   == Field(num, Varint, "boolean", FALSE)

\* of: the function from the names of an enum to their numbers
Enum(num, of) == [num |-> num, wire |-> Varint, kind |-> "enum", default |-> 0, of |-> of]

\* the fields that are undefined until they are set
Double(num)      == Field(num, Fixed64, "number", Undefined)
Date(num)        == Field(num, Chunk,   "date",   Undefined)
AnyValue(num)    == Field(num, Chunk,   "any",    Undefined)
StructOf(num)    == Field(num, Chunk,   "struct", Undefined)
ListOf(num)      == Field(num, Chunk,   "list",   Undefined)
Message(num, of) == [num |-> num, wire |-> Chunk, kind |-> "message", default |-> Undefined, of |-> of]
Optional(field)  == [field EXCEPT !.default = Undefined]

\* the fields that are sequences, and the map of a Struct
Repeated(field) ==
  [num |-> field.num, wire |-> field.wire, kind |-> "repeated", default |-> <<>>, of |-> field]
Entries(num)    == Field(num, Chunk, "entries", <<>>)

NoFields == <<>>        \* the message without fields

(***************************************************************************)
(* A method of a service: the types it sends and receives, and which of    *)
(* them are streams.                                                       *)
(***************************************************************************)
Method(request, response, requestStream, responseStream) ==
  [request |-> request, response |-> response,
   requestStream |-> requestStream, responseStream |-> responseStream]

Unary(request, response)        == Method(request, response, FALSE, FALSE)
ServerStream(request, response) == Method(request, response, FALSE, TRUE)
ClientStream(request, response) == Method(request, response, TRUE, FALSE)
Duplex(request, response)       == Method(request, response, TRUE, TRUE)

------------------------------------------------------------------------------
(***************************************************************************)
(* The well-known types that the others are built from.                    *)
(***************************************************************************)
NullValue == [NULL_VALUE |-> 0]

Value ==
  [nullValue   |-> Optional(Enum(1, NullValue)), numberValue |-> Double(2),
   stringValue |-> Optional(String(3)),          boolValue   |-> Optional(Bool(4)),
   structValue |-> StructOf(5),                  listValue   |-> ListOf(6)]

Struct == [fields |-> Entries(1)]

Struct_FieldsEntry == [key |-> String(1), value |-> AnyValue(2)]

ListValue == [values |-> Repeated(AnyValue(1))]

Timestamp == [seconds |-> Int64(1), nanos |-> Int32(2)]
==============================================================================
