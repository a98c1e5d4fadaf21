-------------------------- MODULE AbstractMessage ---------------------------
(* What an object of a generated class promises its user: it is the function   *)
(* from fields to values that the .proto file declares, whatever bits, members *)
(* and bytes it is made of.                                                    *)

CONSTANTS Kinds,          \* the message types
          FieldsOf(_),    \* the fields of a type, each with its name and label
          Value(_, _),    \* what a field is set to
          Items(_),       \* what is appended to a repeated field
          Samples(_),     \* the messages that are merged and assigned
          Join(_, _, _)   \* a message after another one was merged into it

VARIABLES kind, fields

NoField == <<>>

Init == kind \in Kinds /\ fields = NoField

With(w, n, v) == [m \in DOMAIN w \cup {n} |-> IF m = n THEN v ELSE w[m]]

SetField == \E x \in FieldsOf(kind) :
  /\ x.label # "repeated"
  /\ fields' = With(fields, x.name, Value(x, "small"))

AddItem == \E x \in FieldsOf(kind) : \E v \in Items(x) :
  /\ x.label = "repeated"
  /\ fields' = Join(kind, fields, With(NoField, x.name, <<v>>))

MergeWith == \E z \in Samples(kind) : fields' = Join(kind, fields, z)

Assign == fields' \in Samples(kind)

\* A message is sent and the next one begun.
Renew == fields' = NoField

Next == /\ SetField \/ AddItem \/ MergeWith \/ Assign \/ Renew
        /\ UNCHANGED kind

Spec == Init /\ [][Next]_<<kind, fields>>
=============================================================================
