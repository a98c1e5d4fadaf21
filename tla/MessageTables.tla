---------------------------- MODULE MessageTables ---------------------------
(* What the tables c of a generated class owe each other and the declaration s *)
(* of its messages in the .proto file: the rules that the code protoc writes   *)
(* keeps, and that the methods of the class rely on.                           *)
EXTENDS MessageClass

\* The members are lists or have a bit of their own.
FitsMembers(c) ==
  /\ c.lists \subseteq DOMAIN c.type
  /\ DOMAIN c.has = DOMAIN c.type \ c.lists
  /\ \A f, g \in DOMAIN c.has : c.has[f] = c.has[g] => f = g
  /\ \A f \in DOMAIN c.has : c.has[f] # Always

\* The constructors reach every member.
FitsCopy(c) ==
  /\ DOMAIN c.type \subseteq c.copy.plain \cup c.copy.guarded
  /\ c.copy.guarded \subseteq DOMAIN c.has
  /\ DOMAIN c.type \subseteq c.swap

\* Clear resets every list, and every other member whose bit is set.
FitsClear(c) ==
  /\ c.lists \subseteq c.clear.always
  /\ \A f \in DOMAIN c.has \ c.clear.always :
       \E g \in c.clear.guarded : f \in g[2] /\ c.has[f] \in g[1]

\* MergeFrom appends every list and copies every member under its bit.
FitsMerge(c) ==
  /\ c.merge.lists = c.lists
  /\ c.merge.fields = c.has
  /\ \A f \in DOMAIN c.has : c.has[f] \in c.merge.guard

\* Row t of the writers is for field x, and the parser has one case for what it writes.
FitsRow(c, t, x) ==
  /\ t.field = x.name /\ t.number = x.number /\ x.number \in 1 .. 14
  /\ c.type[x.name] = x.type
  /\ t.type = IF x.type \in Scalars THEN x.type ELSE "message"
  /\ t.bit = IF x.name \in c.lists THEN Always ELSE c.has[x.name]
  /\ x.label = "repeated" <=> x.name \in c.lists
  /\ {r \in c.parse : r.tag = 8 * x.number + WireType(t.type)}
       = {Reads(8 * x.number + WireType(t.type), x.name, t.type)}

\* The rows of the writers are the fields of the declaration, in its order.
FitsRows(c, s) ==
  /\ Len(s) \in Nat /\ DOMAIN s = 1 .. Len(s) /\ DOMAIN c.serialize = DOMAIN s
  /\ \A i \in DOMAIN s : FitsRow(c, c.serialize[i], s[i])
  /\ DOMAIN c.type = {s[i].name : i \in DOMAIN s}
  /\ \A i, j \in DOMAIN s : s[i].name = s[j].name => i = j
  /\ \A r \in c.parse : r.tag < 120

\* IsInitialized asks for the required fields, and asks the messages in the message.
FitsInit(c, s) ==
  /\ c.init.bits = {c.has[s[i].name] : i \in {j \in DOMAIN s : s[j].label = "required"}}
  /\ c.init.nested = {f \in DOMAIN c.type : c.type[f] \notin Scalars}

\* ByteSizeLong counts every field that is there, as what the writers write.
FitsSize(c) ==
  /\ DOMAIN c.size.lists = c.lists
  /\ DOMAIN c.size.needs \cup DOMAIN c.size.options = DOMAIN c.has
  /\ \A f \in DOMAIN c.size.needs : c.has[f] \in c.size.required
  /\ \A f \in DOMAIN c.size.options : c.has[f] \in c.size.guard
FitsSizes(c, s) == \A i \in DOMAIN s : SizeType(c.size, s[i].name) = c.serialize[i].type

Fits(c, s) ==
  /\ FitsMembers(c) /\ FitsCopy(c) /\ FitsClear(c) /\ FitsMerge(c) /\ FitsSize(c)
  /\ FitsRows(c, s) /\ FitsInit(c, s) /\ FitsSizes(c, s)
=============================================================================
