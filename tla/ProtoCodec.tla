----------------------------- MODULE ProtoCodec ------------------------------
(***************************************************************************)
(* The seven functions that every message of typescript/src/gen has -      *)
(* encode, decode, fromJSON, toJSON, create, fromPartial and, for the      *)
(* well-known types, wrap and unwrap - as operators over the tables of     *)
(* ProtoFields.                                                            *)
(*                                                                         *)
(* An encoded message is a sequence of tokens: a field number, a wire type *)
(* and a value, which is again a sequence of tokens when the field is a    *)
(* message. What the @bufbuild/protobuf reader and writer do below that,   *)
(* varints and lengths, is abstracted. Bytes are sequences, dates are      *)
(* milliseconds since 1970, doubles are integers.                          *)
(*                                                                         *)
(* A JavaScript value of type any is a tagged tuple: its tag is its typeof.*)
(***************************************************************************)
EXTENDS ProtoFields, Integers, Sequences, FiniteSets, SequencesExt

Null           == <<"null">>
Boolean(b)     == <<"boolean", b>>
Number(n)      == <<"number", n>>
Text(s)        == <<"string", s>>
Array(values)  == <<"array", values>>
Object(fields) == <<"object", fields>>

createBase(T) == [f \in DOMAIN T |-> T[f].default]

\* the names of the fields in the order in which encode writes them
InOrder(T) ==
  [i \in 1..Cardinality(DOMAIN T) |->
     CHOOSE f \in DOMAIN T : Cardinality({g \in DOMAIN T : T[g].num < T[f].num}) = i - 1]

------------------------------------------------------------------------------
(***************************************************************************)
(* Conversions between what the application sees and the well-known types. *)
(***************************************************************************)
Truncate(n, by) == IF n >= 0 THEN n \div by ELSE -((-n) \div by)

toTimestamp(ms) ==
  LET seconds == Truncate(ms, 1000)
  IN [seconds |-> seconds, nanos |-> (ms - 1000 * seconds) * 1000000]

\* a Date has no fraction of a millisecond: the sum is truncated
fromTimestamp(t) == t.seconds * 1000 + Truncate(t.nanos, 1000000)

\* Mutant: null taken for undefined.
NullUnset(v) ==
  LET As(member, x) == [createBase(Value) EXCEPT ![member] = x]
  IN CASE v = Undefined \/ v = Null -> createBase(Value)
       [] v[1] = "boolean" -> As("boolValue", v[2])
       [] v[1] = "number" -> As("numberValue", v[2])
       [] v[1] = "string" -> As("stringValue", v[2])
       [] v[1] = "array" -> As("listValue", v[2])
       [] v[1] = "object" -> As("structValue", v[2])

wrap(v) ==
  LET As(member, x) == [createBase(Value) EXCEPT ![member] = x]
  IN CASE v = Undefined -> createBase(Value)
       [] v = Null -> As("nullValue", NullValue.NULL_VALUE)
       [] v[1] = "boolean" -> As("boolValue", v[2])
       [] v[1] = "number" -> As("numberValue", v[2])
       [] v[1] = "string" -> As("stringValue", v[2])
       [] v[1] = "array" -> As("listValue", v[2])
       [] v[1] = "object" -> As("structValue", v[2])

\* the first member that is set, in the order in which unwrap asks
unwrap(m) ==
  LET members == <<"stringValue", "numberValue", "boolValue", "structValue", "listValue",
                   "nullValue">>
      present == SelectSeq(members, LAMBDA f : m[f] # Undefined)
      As == [stringValue |-> "string", numberValue |-> "number", boolValue |-> "boolean",
             structValue |-> "object", listValue |-> "array"]
  IN CASE present = <<>> -> Undefined
       [] present = <<"nullValue">> -> Null
       [] OTHER -> <<As[Head(present)], m[Head(present)]>>

------------------------------------------------------------------------------
RECURSIVE encode(_, _)

\* the value that follows a tag
Payload(d, v) ==
  CASE d.kind = "message" -> encode(d.of, v)
    [] d.kind = "date" -> encode(Timestamp, toTimestamp(v))
    [] d.kind = "any" -> encode(Value, wrap(v))
    [] d.kind = "struct" -> encode(Struct, [fields |-> v])
    [] d.kind = "list" -> encode(ListValue, [values |-> v])
    [] OTHER -> v

encodeField(d, v) ==
  CASE d.kind = "repeated" ->
         [i \in DOMAIN v |-> Token(d.num, d.wire, Payload(d.of, v[i]))]
    [] d.kind = "entries" ->
         LET keys == SetToSeq({k \in DOMAIN v : v[k] # Undefined})
         IN [i \in DOMAIN keys |->
               Token(d.num, d.wire,
                     encode(Struct_FieldsEntry, [key |-> keys[i], value |-> v[keys[i]]]))]
    [] OTHER -> IF v = d.default THEN <<>> ELSE <<Token(d.num, d.wire, Payload(d, v))>>

encode(T, m) ==
  FlattenSeq([i \in DOMAIN InOrder(T) |-> encodeField(T[InOrder(T)[i]], m[InOrder(T)[i]])])

------------------------------------------------------------------------------
(***************************************************************************)
(* decode returns the message and the tokens it left unread: an end of a   *)
(* group or a zero tag ends the message early, and the caller reads on     *)
(* from there. It throws when messages are nested too deep.                *)
(***************************************************************************)
Decoded(m, rest) == [thrown |-> FALSE, message |-> m, rest |-> rest]
Thrown           == [thrown |-> TRUE]

RECURSIVE decode(_, _, _)

\* the value of a field from what decode made of its payload
Unwrapped(d, m) ==
  CASE d.kind = "message" -> m
    [] d.kind = "date" -> fromTimestamp(m)
    [] d.kind = "any" -> unwrap(m)
    [] d.kind = "struct" -> m.fields
    [] d.kind = "list" -> m.values
    [] d.kind = "entries" -> m

Payloads == [date |-> Timestamp, any |-> Value, struct |-> Struct, list |-> ListValue,
             entries |-> Struct_FieldsEntry]

readValue(d, depth, value) ==
  IF d.kind \in {"string", "bytes", "number", "boolean", "enum"}
  THEN Decoded(value, <<>>)
  ELSE LET r == decode(IF d.kind = "message" THEN d.of ELSE Payloads[d.kind], depth, value)
       IN IF r.thrown THEN Thrown ELSE Decoded(Unwrapped(d, r.message), r.rest)

\* what the case of a field does with the value it read
store(d, old, new) ==
  CASE d.kind = "repeated" -> Append(old, new)
    [] d.kind = "entries" -> IF new.value = Undefined THEN old
                             ELSE [k \in DOMAIN old \cup {new.key} |->
                                     IF k = new.key THEN new.value ELSE old[k]]
    [] OTHER -> new

RECURSIVE readFields(_, _, _, _)
readFields(T, depth, m, tokens) ==
  IF tokens = <<>> THEN Decoded(m, <<>>)
  ELSE LET t == Head(tokens)
           known == {f \in DOMAIN T : T[f].num = t.num /\ T[f].wire = t.wire}
       IN IF known # {}
          THEN LET f == CHOOSE f \in known : TRUE
                   d == IF T[f].kind = "repeated" THEN T[f].of ELSE T[f]
                   r == readValue(d, depth, t.value)
               IN IF r.thrown THEN Thrown
                  ELSE readFields(T, depth, [m EXCEPT ![f] = store(T[f], @, r.message)],
                                  r.rest \o Tail(tokens))
          ELSE IF t.wire = EndGroup \/ t.num = 0 THEN Decoded(m, Tail(tokens))
          ELSE readFields(T, depth, m, Tail(tokens))

\* Mutant: an off-by-one in the limit.
DecodeOneMore(T, depth, tokens) ==
  IF depth > RecursionLimit THEN Thrown
  ELSE readFields(T, depth + 1, createBase(T), tokens)

decode(T, depth, tokens) ==
  IF depth >= RecursionLimit THEN Thrown
  ELSE readFields(T, depth + 1, createBase(T), tokens)

------------------------------------------------------------------------------
(***************************************************************************)
(* JSON. A document is a value of type any. Keys are the camelCase names:  *)
(* fromJSON takes a snake_case key for the same field, which is the same   *)
(* key here.                                                               *)
(***************************************************************************)
Unrecognized == -1

EnumFromJSON(E, v) ==
  CASE v[1] = "string" -> IF v[2] \in DOMAIN E THEN E[v[2]] ELSE Unrecognized
    [] v[1] = "number" -> IF \E name \in DOMAIN E : E[name] = v[2] THEN v[2] ELSE Unrecognized

EnumToJSON(E, n) ==
  IF \E name \in DOMAIN E : E[name] = n
  THEN Text(CHOOSE name \in DOMAIN E : E[name] = n)
  ELSE Text("UNRECOGNIZED")

\* Mutant: || where the code has ??.
SetIfTrue(d, object, f) ==
  /\ f \in DOMAIN object /\ object[f] # Undefined
  /\ d.kind = "any" => object[f] \notin {Null, Boolean(FALSE), Number(0), Text("")}

\* a field of an object is there, and neither undefined nor null
isSet(d, object, f) ==
  f \in DOMAIN object /\ object[f] # Undefined /\ (d.kind = "any" => object[f] # Null)

RECURSIVE toJSON(_, _)
JSONOf(d, v) ==
  CASE d.kind = "string" -> Text(v)
    [] d.kind = "number" -> Number(v)
    [] d.kind = "boolean" -> Boolean(v)
    [] d.kind = "bytes" -> <<"base64", v>>
    [] d.kind = "date" -> <<"ISO 8601", v>>
    [] d.kind = "enum" -> EnumToJSON(d.of, v)
    [] d.kind = "any" -> v
    [] d.kind = "struct" -> Object(v)
    [] d.kind = "list" -> Array(v)
    [] d.kind = "message" -> toJSON(d.of, v)

toJSON(T, m) ==
  Object([f \in {f \in DOMAIN T : m[f] # T[f].default} |->
            IF T[f].kind = "repeated"
            THEN Array([i \in DOMAIN m[f] |-> JSONOf(T[f].of, m[f][i])])
            ELSE JSONOf(T[f], m[f])])

RECURSIVE fromJSON(_, _)
OfJSON(d, v) ==
  CASE d.kind = "enum" -> EnumFromJSON(d.of, v)
    [] d.kind = "any" -> v
    [] d.kind = "message" -> fromJSON(d.of, v)
    [] OTHER -> v[2]

fromJSON(T, object) ==
  [f \in DOMAIN T |->
     LET given == isSet(T[f], object[2], f)
     IN CASE ~given -> T[f].default
          [] given /\ T[f].kind = "repeated" ->
               [i \in DOMAIN object[2][f][2] |-> OfJSON(T[f].of, object[2][f][2][i])]
          [] OTHER -> OfJSON(T[f], object[2][f])]

------------------------------------------------------------------------------
(***************************************************************************)
(* create and fromPartial: a field that is missing, null or undefined      *)
(* takes its default, which for a field of type any loses a null.          *)
(***************************************************************************)
RECURSIVE fromPartial(_, _)
fromPartial(T, object) ==
  [f \in DOMAIN T |->
     LET given == isSet(T[f], object, f)
     IN CASE ~given -> T[f].default
          [] given /\ T[f].kind = "message" -> fromPartial(T[f].of, object[f])
          [] given /\ T[f].kind = "repeated" /\ T[f].of.kind = "message" ->
               [i \in DOMAIN object[f] |-> fromPartial(T[f].of.of, object[f][i])]
          [] OTHER -> object[f]]

create(T, base) == fromPartial(T, base)
==============================================================================
