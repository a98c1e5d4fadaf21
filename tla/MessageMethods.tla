--------------------------- MODULE MessageMethods ---------------------------
(* What the methods of a generated class do, from its tables and from what the  *)
(* methods of the classes of its fields do, which is the constant CallIn.       *)
(* An object is its has-bits, its members and the unknown fields kept in        *)
(* _internal_metadata_.  A member that points to a message and is NULL reads as *)
(* the default message.                                                         *)
EXTENDS MessageClass, SequencesExt, Sums

CONSTANTS Classes,            \* the tables, as MessageClass describes them
          CallIn(_, _, _, _)  \* a method of the class of a field: its name, the class
                              \* and the arguments, <<>> where the method has none

NewIn(k) == CallIn("New", k, <<>>, <<>>)
MergeFromIn(k, to, from) == CallIn("MergeFrom", k, to, from)
CopyIn(k, from) == CallIn("Copy", k, from, <<>>)
ClearIn(k, m) == CallIn("Clear", k, m, <<>>)
IsInitializedIn(k, m) == CallIn("IsInitialized", k, m, <<>>)
ByteSizeIn(k, m) == CallIn("ByteSize", k, m, <<>>)
SerializeIn(k, m) == CallIn("Serialize", k, m, <<>>)
ParseIn(k, m, b) == CallIn("Parse", k, m, b)
BuildIn(k, w) == CallIn("Build", k, w, <<>>)
MeaningIn(k, m) == CallIn("Meaning", k, m, <<>>)

Members(k) == DOMAIN Classes[k].type
TypeOf(k, f) == Classes[k].type[f]
IsList(k, f) == f \in Classes[k].lists
HoldsMessage(k, f) == TypeOf(k, f) \notin Scalars

\* A new object: SharedCtor.
ZeroOf(type) ==
  CASE type = "bool" -> FALSE
    [] type = "string" -> <<>>
    [] type \in VarintTypes \ {"bool"} -> 0
    [] OTHER -> NewIn(type)
Zero(k, f) == IF IsList(k, f) THEN <<>> ELSE ZeroOf(TypeOf(k, f))
New(k) == [bits |-> {}, val |-> [f \in Members(k) |-> Zero(k, f)], unknown |-> <<>>]

\* The accessors has_x, set_x (mutable_x) and add_x.
Has(k, m, f) == Classes[k].has[f] \in m.bits
Set(k, m, f, v) == [m EXCEPT !.bits = @ \cup {Classes[k].has[f]}, !.val[f] = v]
Add(m, f, v) == [m EXCEPT !.val[f] = Append(@, v)]

\* Here and below, t is the table of the method.
MergedValue(type, to, from) == IF type \in Scalars THEN from ELSE MergeFromIn(type, to, from)
MergedList(type, to, from) ==
  to \o [i \in DOMAIN from |->
    IF type \in Scalars THEN from[i] ELSE MergeFromIn(type, NewIn(type), from[i])]
MergeBy(t, k, to, from) ==
  LET bits == {b \in from.bits : t.guard \cap from.bits # {}}
      Merged(f) ==
        IF f \in t.lists THEN MergedList(TypeOf(k, f), to.val[f], from.val[f])
        ELSE IF f \notin DOMAIN t.fields \/ t.fields[f] \notin bits THEN to.val[f]
        ELSE MergedValue(TypeOf(k, f), to.val[f], from.val[f])
  IN  [bits |-> to.bits \cup bits, val |-> [f \in Members(k) |-> Merged(f)],
       unknown |-> to.unknown \o from.unknown]
MergeFrom(k, to, from) == MergeBy(Classes[k].merge, k, to, from)

\* The copy constructor.
CopiedValue(type, v) == IF type \in Scalars THEN v ELSE CopyIn(type, v)
CopyBy(t, k, from) ==
  LET Copied(f) == f \in t.plain \/ (f \in t.guarded /\ Has(k, from, f))
      Of(f, v) == IF IsList(k, f)
                  THEN [i \in DOMAIN v |-> CopiedValue(TypeOf(k, f), v[i])]
                  ELSE CopiedValue(TypeOf(k, f), v)
  IN  [from EXCEPT !.val = [f \in Members(k) |->
         IF Copied(f) THEN Of(f, from.val[f]) ELSE Zero(k, f)]]
Copy(k, from) == CopyBy(Classes[k].copy, k, from)

\* The move constructor: a new object swapped with the old one.
Move(k, from) ==
  [from EXCEPT !.val = [f \in Members(k) |->
     IF f \in Classes[k].swap THEN from.val[f] ELSE Zero(k, f)]]

ClearBy(t, k, m) ==
  LET Reset(f) == f \in t.always \/ \E g \in t.guarded : f \in g[2] /\ g[1] \cap m.bits # {}
      Cleared(f) == IF HoldsMessage(k, f) /\ ~IsList(k, f) THEN ClearIn(TypeOf(k, f), m.val[f])
                    ELSE Zero(k, f)
  IN  [bits |-> {}, unknown |-> <<>>,
       val |-> [f \in Members(k) |-> IF Reset(f) THEN Cleared(f) ELSE m.val[f]]]
Clear(k, m) == ClearBy(Classes[k].clear, k, m)

\* operator= and CopyFrom.
CopyFrom(k, to, from) == MergeFrom(k, Clear(k, to), from)

IsInitialized(k, m) ==
  LET t == Classes[k].init
  IN  /\ t.bits \subseteq m.bits
      /\ \A f \in t.nested :
           IF IsList(k, f)
           THEN \A i \in DOMAIN m.val[f] : IsInitializedIn(TypeOf(k, f), m.val[f][i])
           ELSE Has(k, m, f) => IsInitializedIn(TypeOf(k, f), m.val[f])

Delimited(n) == VarintSize(n) + n
PayloadSize(type, class, v) ==
  CASE type = "bool" -> 1
    [] type = "string" -> Delimited(Len(v))
    [] type = "message" -> Delimited(ByteSizeIn(class, v))
    [] OTHER -> VarintSize(v)
\* The bytes of field f, tags of one byte included.
FieldSize(k, m, type, f) ==
  LET One(v) == 1 + PayloadSize(type, TypeOf(k, f), v)
  IN  IF IsList(k, f)
      THEN SumOver(DOMAIN m.val[f], [i \in DOMAIN m.val[f] |-> One(m.val[f][i])])
      ELSE One(m.val[f])
SizeBy(t, k, m) ==
  LET counted == {f \in DOMAIN t.needs : t.required \subseteq m.bits \/ Has(k, m, f)}
      options == {f \in DOMAIN t.options : t.guard \cap m.bits # {} /\ Has(k, m, f)}
      fields == counted \cup options \cup DOMAIN t.lists
  IN  Len(m.unknown)
      + SumOver(fields, [f \in fields |-> FieldSize(k, m, SizeType(t, f), f)])
ByteSize(k, m) == SizeBy(Classes[k].size, k, m)

WritePayload(type, class, v) ==
  CASE type = "bool" -> IF v THEN <<1>> ELSE <<0>>
    [] type = "string" -> Varint(Len(v)) \o v
    [] type = "message" -> Varint(ByteSizeIn(class, v)) \o SerializeIn(class, v)
    [] OTHER -> Varint(v)
\* The values that row t writes.
Written(m, t) ==
  IF t.bit = Always THEN m.val[t.field]
  ELSE IF t.bit \in m.bits THEN <<m.val[t.field]>>
  ELSE <<>>
WriteAll(k, t, values) ==
  FlattenSeq([i \in DOMAIN values |->
    Tag(t.number, t.type) \o WritePayload(t.type, TypeOf(k, t.field), values[i])])
WriteRows(k, m, rows) ==
  FlattenSeq([i \in DOMAIN rows |-> WriteAll(k, rows[i], Written(m, rows[i]))])
Serialize(k, m) == WriteRows(k, m, Classes[k].serialize) \o m.unknown

(***************************************************************************)
(* MergePartialFromCodedStream: field by field until the bytes end, {} if a *)
(* read fails.  A field whose tag the switch does not know is kept, tag and *)
(* payload, among the unknown fields.                                       *)
(***************************************************************************)
Store(k, m, f, v) == IF IsList(k, f) THEN Add(m, f, v) ELSE Set(k, m, f, v)
\* The object a nested message is read into: add_x() or mutable_x().
Target(k, m, f) == IF IsList(k, f) THEN NewIn(TypeOf(k, f)) ELSE m.val[f]
\* The case of the switch for tag t, with the payload p.
ReadCase(k, m, t, p) ==
  CASE t.type = "message" ->
         {Store(k, m, t.field, v) :
            v \in ParseIn(TypeOf(k, t.field), Target(k, m, t.field), p.bytes)}
    [] t.type = "packed" -> {[m EXCEPT !.val[t.field] = @ \o list] : list \in Varints(p.bytes)}
    [] t.type = "string" -> {Store(k, m, t.field, p.bytes)}
    [] t.type = "bool" -> {Store(k, m, t.field, p.value # 0)}
    [] OTHER -> {Store(k, m, t.field, p.value)}
KeepUnknown(m, p) == [m EXCEPT !.unknown = @ \o Varint(p.tag) \o p.raw]
ReadInto(k, m, p) ==
  LET cases == {t \in Classes[k].parse : t.tag = p.tag}
  IN  IF cases = {} THEN {KeepUnknown(m, p)} ELSE UNION {ReadCase(k, m, t, p) : t \in cases}
ReadAll(k, m, fields) ==
  LET after[i \in 0 .. Len(fields)] ==
        IF i = 0 THEN {m} ELSE UNION {ReadInto(k, n, fields[i]) : n \in after[i - 1]}
  IN  after[Len(fields)]
Parse(k, m, b) == UNION {ReadAll(k, m, fields) : fields \in FieldsIn(b)}

(***************************************************************************)
(* message.hpp: a message is preceded by its size.  recvMesgFrom needs the  *)
(* whole frame, and parses it as a message that must be complete.           *)
(***************************************************************************)
sendMesgTo(k, m) == Varint(ByteSize(k, m)) \o Serialize(k, m)

recvMesgFrom(k, b) ==
  UNION {{m \in Parse(k, New(k), SubSeq(size.rest, 1, size.value)) : IsInitialized(k, m)} :
           size \in ReadVarint(b)}

-----------------------------------------------------------------------------
(* Between an object and the message it stands for, a function from the fields *)
(* that are there to their values.                                             *)

\* What the accessors of field f are given for v, and what they give back.
Made(k, f, v) == IF HoldsMessage(k, f) THEN BuildIn(TypeOf(k, f), v) ELSE v
Shown(k, f, v) == IF HoldsMessage(k, f) THEN MeaningIn(TypeOf(k, f), v) ELSE v

\* The object with the fields of w set, made with the accessors.
Build(k, w) ==
  [bits |-> {Classes[k].has[f] : f \in DOMAIN w \ Classes[k].lists},
   val |-> [f \in Members(k) |->
             IF f \notin DOMAIN w THEN Zero(k, f)
             ELSE IF IsList(k, f) THEN [i \in DOMAIN w[f] |-> Made(k, f, w[f][i])]
             ELSE Made(k, f, w[f])],
   unknown |-> <<>>]

\* What the accessors read: the abstract message.
Meaning(k, m) ==
  [f \in {g \in Members(k) : IF IsList(k, g) THEN m.val[g] # <<>> ELSE Has(k, m, g)} |->
    IF IsList(k, f) THEN [i \in DOMAIN m.val[f] |-> Shown(k, f, m.val[f][i])]
    ELSE Shown(k, f, m.val[f])]

-----------------------------------------------------------------------------
\* The methods by name: the CallIn of the classes with fields of these classes.
Call(method, k, x, y) ==
  CASE method = "New" -> New(k)
    [] method = "MergeFrom" -> MergeFrom(k, x, y)
    [] method = "Copy" -> Copy(k, x)
    [] method = "Clear" -> Clear(k, x)
    [] method = "IsInitialized" -> IsInitialized(k, x)
    [] method = "ByteSize" -> ByteSize(k, x)
    [] method = "Serialize" -> Serialize(k, x)
    [] method = "Parse" -> Parse(k, x, y)
    [] method = "Build" -> Build(k, x)
    [] method = "Meaning" -> Meaning(k, x)
=============================================================================
