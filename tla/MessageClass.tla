---------------------------- MODULE MessageClass ----------------------------
(* How the modules AmazonMessages and WorldMessages write down a class that    *)
(* protoc generated: one table per method.                                     *)
(*   Members        the data members in the order of the class, with the type  *)
(*                  of the field or of the elements of the list                *)
(*   HasBits        the bit of _has_bits_[0] the accessors of a field use; a   *)
(*                  member without one is a repeated field                     *)
(*   Copy           members the copy constructor copies, and the ones it only  *)
(*                  copies when the source has them                            *)
(*   Clear          members always reset, and members reset if a bit is set    *)
(*   Parse          the tags the switch of MergePartialFromCodedStream knows   *)
(*   Serialize      the writes in their order, each under its bit; both        *)
(*                  writers make the same ones                                 *)
(*   ByteSize       required: the bits under which every field in `needs` is   *)
(*                  counted without a look at its own; the others are counted  *)
(*                  if present, `options` only if a bit of `guard` is set      *)
(*   MergeFrom      lists that are appended, fields copied under their bit, if *)
(*                  a bit of `guard` is set in the source                      *)
(*   IsInitialized  bits that must be set, fields whose messages are asked     *)
(*   Swap           members that InternalSwap exchanges                        *)
EXTENDS WireFormat

\* The members that lie from `first` to `last`: what one memcpy or memset covers.
At(members, f) == CHOOSE i \in DOMAIN members : members[i][1] = f
Span(members, first, last) ==
  UNION {{m[i][1] : i \in At(m, first) .. At(m, last)} : m \in {members}}

Reads(tag, field, type) == [tag |-> tag, field |-> field, type |-> type]

Always == -1
If(bit, number, field, type) ==
  [bit |-> bit, number |-> number, field |-> field, type |-> type]
Each(number, field, type) == If(Always, number, field, type)

\* The type as which ByteSizeLong, table t, counts field f.
SizeType(t, f) ==
  IF f \in DOMAIN t.needs THEN t.needs[f]
  ELSE IF f \in DOMAIN t.options THEN t.options[f] ELSE t.lists[f]

Names(members) == {members[i][1] : i \in DOMAIN members}
Class(members, hasBits, copy, clear, parse, serialize, size, merge, init, swap) ==
  [type |-> [f \in Names(members) |-> members[At(members, f)][2]],
   has |-> hasBits, lists |-> Names(members) \ DOMAIN hasBits,
   copy |-> copy, clear |-> clear, parse |-> parse, serialize |-> serialize,
   size |-> size, merge |-> merge, init |-> init, swap |-> swap]
=============================================================================
