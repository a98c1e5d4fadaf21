----------------------------- MODULE WireFormat -----------------------------
(* The part of the protocol buffer runtime that the generated classes call:    *)
(* varints, tags and length-delimited fields over sequences of bytes.  Numbers *)
(* are naturals; a string is the sequence of its bytes.                        *)
EXTENDS Integers, Sequences

Bytes == Seq(Nat)

varint[n \in Nat] ==
  IF n < 128 THEN <<n>> ELSE <<128 + (n % 128)>> \o varint[n \div 128]
Varint(n) == varint[n]

\* WireFormatLite::Int32Size, Int64Size, UInt32Size
varintSize[n \in Nat] == IF n < 128 THEN 1 ELSE 1 + varintSize[n \div 128]
VarintSize(n) == varintSize[n]

varintValue[b \in Bytes] ==
  IF b = <<>> THEN 0
  ELSE (b[1] % 128) + IF b[1] < 128 THEN 0 ELSE 128 * varintValue[Tail(b)]
VarintValue(b) == varintValue[b]

Drop(b, n) == SubSeq(b, n + 1, Len(b))

(***************************************************************************)
(* What a read finds at the start of b is a set: {} where it fails, of one  *)
(* element otherwise, with the bytes that follow as `rest`.                 *)
(***************************************************************************)
EndsVarint(b, i) == b[i] < 128 /\ \A j \in 1 .. i - 1 : b[j] >= 128
ReadVarint(b) ==
  {[value |-> VarintValue(b), rest |-> Drop(b, i)] : i \in {j \in DOMAIN b : EndsVarint(b, j)}}

VarintTypes == {"int32", "int64", "uint32", "bool"}
Scalars == VarintTypes \cup {"string"}
WireType(type) == IF type \in VarintTypes THEN 0 ELSE 2
Tag(number, type) == Varint(8 * number + WireType(type))

Nothing == <<>>

\* After a tag, a field of wire type 0 is a varint, one of type 2 has a varint with the
\* number of its bytes before them.  Both keep `raw`, what SkipField saves.
PayloadField(tag, b, v, size) ==
  [tag |-> tag, value |-> v.value, bytes |-> SubSeq(v.rest, 1, size),
   raw |-> SubSeq(b, 1, Len(b) - Len(v.rest) + size), rest |-> Drop(v.rest, size)]
ReadPayload(tag, b) ==
  LET Size(v) == IF tag % 8 = 2 THEN v.value ELSE 0
  IN  IF tag % 8 \notin {0, 2} THEN {}
      ELSE {PayloadField(tag, b, v, Size(v)) : v \in {x \in ReadVarint(b) : Size(x) <= Len(x.rest)}}
ReadField(b) == UNION {ReadPayload(t.value, t.rest) : t \in ReadVarint(b)}

\* The fields of a message, up to the end of its bytes; {} if a read fails.
fieldsIn[b \in Bytes] ==
  IF b = <<>> THEN {<<>>}
  ELSE UNION {{<<p>> \o fields : fields \in fieldsIn[p.rest]} : p \in ReadField(b)}
FieldsIn(b) == fieldsIn[b]

\* A packed list.
varintsIn[b \in Bytes] ==
  IF b = <<>> THEN {<<>>}
  ELSE UNION {{<<v.value>> \o list : list \in varintsIn[v.rest]} : v \in ReadVarint(b)}
Varints(b) == varintsIn[b]
=============================================================================
