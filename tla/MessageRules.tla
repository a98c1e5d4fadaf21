---------------------------- MODULE MessageRules ----------------------------
(* What the declaration of a message type says of its messages, given what it  *)
(* says of the messages that are its fields: the constants named ...In.  A     *)
(* message is a function from the names of the fields it holds to their        *)
(* values, the value of a repeated field being a sequence.                     *)
EXTENDS WireFormat, SequencesExt

CONSTANTS Schemas,        \* the fields of each type, in the order of their numbers
          CompleteIn(_, _), EncodeIn(_, _), JoinIn(_, _, _), FilledIn(_, _), LackingIn(_)

FieldsOf(k) == Range(Schemas[k])
FieldNamed(k, n) == CHOOSE x \in FieldsOf(k) : x.name = n
IsMessage(type) == type \notin Scalars

\* Every required field is there, in the message and in the messages it holds.
Complete(k, w) ==
  \A x \in FieldsOf(k) :
    /\ x.label = "required" => x.name \in DOMAIN w
    /\ IsMessage(x.type) /\ x.name \in DOMAIN w =>
         IF x.label = "repeated"
         THEN \A i \in DOMAIN w[x.name] : CompleteIn(x.type, w[x.name][i])
         ELSE CompleteIn(x.type, w[x.name])

\* The wire format: the fields by number, each as its tag and its payload.
Payload(type, v) ==
  CASE type = "bool" -> IF v THEN <<1>> ELSE <<0>>
    [] type \in VarintTypes \ {"bool"} -> Varint(v)
    [] type = "string" -> Varint(Len(v)) \o v
    [] OTHER -> LET b == EncodeIn(type, v) IN Varint(Len(b)) \o b
\* The values of field x: one if it is there and not repeated.
ValuesOf(x, w) ==
  IF x.name \notin DOMAIN w THEN <<>>
  ELSE IF x.label = "repeated" THEN w[x.name] ELSE <<w[x.name]>>
EncodeAll(x, values) ==
  FlattenSeq([i \in DOMAIN values |-> Tag(x.number, x.type) \o Payload(x.type, values[i])])
Encode(k, w) ==
  FlattenSeq([i \in DOMAIN Schemas[k] |-> EncodeAll(Schemas[k][i], ValuesOf(Schemas[k][i], w))])

\* Message w after message z was merged into it: fields of z win, lists are
\* appended, a field that is a message is merged.
Join(k, w, z) ==
  [n \in DOMAIN w \cup DOMAIN z |->
    LET x == FieldNamed(k, n)
    IN  IF n \notin DOMAIN z THEN w[n]
        ELSE IF n \notin DOMAIN w THEN z[n]
        ELSE IF x.label = "repeated" THEN w[n] \o z[n]
        ELSE IF IsMessage(x.type) THEN JoinIn(x.type, w[n], z[n])
        ELSE z[n]]

(***************************************************************************)
(* Values to fill messages with: `small` ones take one byte, `wide` ones    *)
(* more, `zero` ones are zero, false or empty and still present.            *)
(***************************************************************************)
Value(x, how) ==
  CASE x.type = "bool" -> how # "zero"
    [] x.type = "string" -> CASE how = "zero" -> <<>>
                              [] how = "small" -> <<96 + x.number>>
                              [] OTHER -> <<65, 200, x.number>>
    [] IsMessage(x.type) -> FilledIn(x.type, how)
    [] OTHER -> CASE how = "zero" -> 0
                  [] how = "small" -> x.number
                  [] OTHER -> 300 + x.number
Fill(k, how, fields) ==
  [n \in {x.name : x \in fields} |->
    LET x == FieldNamed(k, n)
        v == Value(x, how)
    IN  IF x.label = "repeated" THEN <<v>> ELSE v]
Filled(k, how) == Fill(k, how, FieldsOf(k))

\* A message that lacks its last required field; empty if it requires none.
Lacking(k) ==
  LET required == {x \in FieldsOf(k) : x.label = "required"}
  IN  Fill(k, "small", {x \in required : \E y \in required : y.number > x.number})

\* What can be appended to a repeated field.
Items(x) == {Value(x, "small")} \cup IF IsMessage(x.type) THEN {LackingIn(x.type)} ELSE {}

\* The messages that are merged, assigned and parsed: complete ones, and one that is not.
Samples(k) == {Filled(k, "wide"), Lacking(k),
               Fill(k, "zero", {x \in FieldsOf(k) : x.label = "required"})}
=============================================================================
