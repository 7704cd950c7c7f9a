---------------------------- MODULE ProtoMessages ----------------------------
(***************************************************************************)
(* The messages that are sent, and what a message means: how deep it is    *)
(* nested, what it loses, all without a codec.                             *)
(***************************************************************************)
EXTENDS ProtoCodec

CONSTANT Depths  \* how deep the objects of a configuration are nested

ASSUME DepthAssumption == Depths \subseteq Nat

(***************************************************************************)
(* Messages to send: the empty one, one with every field set, and one for  *)
(* each value of each field.                                               *)
(***************************************************************************)
RECURSIVE Nested(_)
Nested(depth) == Object(IF depth <= 1 THEN <<>> ELSE [k |-> Nested(depth - 1)])

JSONValues ==
  {Null, Boolean(FALSE), Number(0), Text(""), Array(<<Null, Number(1), Array(<<>>)>>),
   Object([a |-> Text("x"), b |-> Undefined, c |-> Null])} \cup {Nested(d) : d \in Depths}

RECURSIVE Full(_)
\* a value for a field of each kind, and the message with a value in each field
Sample(d) ==
  CASE d.kind = "string" -> "s"
    [] d.kind = "bytes" -> <<1, 2>>
    [] d.kind = "number" -> 7
    [] d.kind = "boolean" -> TRUE
    [] d.kind = "enum" -> 1
    [] d.kind = "date" -> 1500
    [] d.kind = "any" -> Object([a |-> Number(1)])
    [] d.kind = "struct" -> [a |-> Null]
    [] d.kind = "message" -> Full(d.of)
    [] d.kind = "repeated" -> IF d.of.kind = "string" THEN <<"s", "">>
                              ELSE <<Full(d.of.of), createBase(d.of.of)>>
Full(T) == [f \in DOMAIN T |-> Sample(T[f])]

\* 99 is the number of an enum value that a newer server knows
Values(d) ==
  CASE d.kind = "enum" -> {n : n \in {1, 99}}
    [] d.kind = "date" -> {0, 1, 1999, -1500}
    [] d.kind = "number" -> {7, -1}
    [] d.kind = "any" -> JSONValues
    [] d.kind = "struct" -> {<<>>} \cup {Nested(n)[2] : n \in Depths}
    [] OTHER -> {Sample(d)}

SampleMessages(T) ==
  {createBase(T), Full(T)}
  \cup UNION {{[createBase(T) EXCEPT ![f] = v] : v \in Values(T[f])} : f \in DOMAIN T}
------------------------------------------------------------------------------
(***************************************************************************)
(* What a message means, and how deep it is nested, without a codec.       *)
(***************************************************************************)
RECURSIVE Meaning(_)
Meaning(v) ==
  CASE v = Undefined -> Undefined
    [] v # Undefined /\ v[1] = "array" -> Array([i \in DOMAIN v[2] |-> Meaning(v[2][i])])
    [] v # Undefined /\ v[1] = "object" ->
         Object([k \in {k \in DOMAIN v[2] : v[2][k] # Undefined} |-> Meaning(v[2][k])])
    [] OTHER -> v

\* each value of kind any in a message, replaced by F of it
RECURSIVE EachAny(_, _, _)
EachAny(F(_), T, m) ==
  [f \in DOMAIN T |->
     CASE T[f].kind = "any" -> F(m[f])
       [] T[f].kind = "struct" /\ m[f] # Undefined -> F(Object(m[f]))[2]
       [] T[f].kind = "message" /\ m[f] # Undefined -> EachAny(F, T[f].of, m[f])
       [] T[f].kind = "repeated" /\ T[f].of.kind = "message" ->
            [i \in DOMAIN m[f] |-> EachAny(F, T[f].of.of, m[f][i])]
       [] OTHER -> m[f]]

\* messages in one another: an object is a Struct of entries of values
Most(numbers) == FoldSet(LAMBDA n, most : IF n > most THEN n ELSE most, 0, numbers)

RECURSIVE Depth(_)
Depth(v) ==
  CASE v = Undefined -> 1
    [] v # Undefined /\ v[1] = "array" -> 2 + Most({Depth(v[2][i]) : i \in DOMAIN v[2]})
    [] v # Undefined /\ v[1] = "object" ->
         LET members == {v[2][k] : k \in DOMAIN v[2]} \ {Undefined}
         IN IF members = {} THEN 2 ELSE 3 + Most({Depth(x) : x \in members})
    [] OTHER -> 1

\* a message in another, or the messages of a sequence
Within(d, v) ==
  CASE d.kind = "message" /\ v # Undefined -> {v}
    [] d.kind = "repeated" /\ d.of.kind = "message" -> {v[i] : i \in DOMAIN v}
    [] OTHER -> {}
TypeOf(d) == IF d.kind = "repeated" THEN d.of.of ELSE d.of

RECURSIVE Nesting(_, _)
Nesting(T, m) ==
  LET Inside(d, v) == CASE v = Undefined -> 0
                        [] v # Undefined /\ d.kind = "any" -> Depth(v)
                        [] v # Undefined /\ d.kind = "struct" -> Depth(Object(v)) - 1
                        [] v # Undefined /\ d.kind = "date" -> 1
                        [] OTHER -> Most({Nesting(TypeOf(d), n) : n \in Within(d, v)})
  IN 1 + Most({Inside(T[f], m[f]) : f \in DOMAIN T})

\* a field of any type that is null, in a message or in those it contains
RECURSIVE HasNull(_, _)
HasNull(T, m) ==
  \E f \in DOMAIN T :
    \/ T[f].kind = "any" /\ m[f] = Null
    \/ \E n \in Within(T[f], m[f]) : HasNull(TypeOf(T[f]), n)

\* a number that the enum of a field does not have
IsNewer(T, m) ==
  \E f \in DOMAIN T : T[f].kind = "enum" /\ ~\E name \in DOMAIN T[f].of : T[f].of[name] = m[f]
==============================================================================
