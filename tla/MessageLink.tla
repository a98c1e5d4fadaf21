----------------------------- MODULE MessageLink ----------------------------
(* A sender fills an object of a generated class, with the accessors or from    *)
(* other messages, and sends it; the loop of handleReceive reads the socket and *)
(* gives what it parsed to a handler thread.  One class is used in a behaviour. *)
EXTENDS ProtocolBuffers, MessageSchema

CONSTANTS Kinds,         \* the classes used
          MaxItems,      \* elements of repeated fields that are added or merged into
          Talkative,     \* the classes of which MaxSent messages are sent, one of the others
          MaxSent,
          Stray,         \* whatever was parsed from bytes that begin inside a frame
          MaxStray       \* bound: how often that is handed over

ASSUME LinkAssumption ==
  /\ Kinds \subseteq DOMAIN Classes /\ Talkative \subseteq Kinds
  /\ MaxItems \in Nat \ {0} /\ MaxSent \in Nat \ {0}
  /\ MaxStray \in Nat

VARIABLES kind,       \* the class
          msg,        \* the object that is being filled
          sent,       \* the messages sent, ghost: in the order of their frames
          stream,     \* frames that were written and not read, each by one write()
          torn,       \* ghost: the first of them has lost its beginning to a read
          read,       \* ghost: the indices in sent of the frames that were parsed, and 0
          received    \* the messages given to handler threads

vars == <<kind, msg, sent, stream, torn, read, received>>

\* Elements of the repeated fields, the ones of a message that is a field included.
Listed(k, m) == MapThenSumSet(LAMBDA f : Len(m.val[f]), Classes[k].lists)
Elements(k, m) ==
  Listed(k, m) + MapThenSumSet(LAMBDA f : Listed(TypeOf(k, f), m.val[f]),
                               {f \in Members(k) \ Classes[k].lists : HoldsMessage(k, f)})

\* The bound of the model on messages.
Room == Elements(kind, msg) < MaxItems

\* A field that a peer with a later .proto may send: number 15, varint 7.
Foreign == Tag(15, "int32") \o <<7>>

Limit == IF kind \in Talkative THEN MaxSent ELSE 1
Filling == Len(sent) < Limit /\ UNCHANGED <<kind, sent, stream, torn, read, received>>

Init ==
  /\ kind \in Kinds
  /\ msg = New(kind)
  /\ sent = <<>> /\ stream = <<>> /\ torn = FALSE /\ read = <<>> /\ received = <<>>

SetField ==
  /\ Filling
  /\ \E x \in FieldsOf(kind) :
       /\ x.label # "repeated"
       /\ msg' = Set(kind, msg, x.name, Made(kind, x.name, Value(x, "small")))

AddItem ==
  /\ Filling /\ Room
  /\ \E x \in FieldsOf(kind) : \E v \in Items(x) :
       /\ x.label = "repeated"
       /\ msg' = Add(msg, x.name, Made(kind, x.name, v))

Merge ==
  /\ Filling /\ Room
  /\ \E w \in Samples(kind) : msg' = MergeFrom(kind, msg, Build(kind, w))

Assign ==
  /\ Filling
  /\ \E w \in Samples(kind) : msg' = CopyFrom(kind, msg, Build(kind, w))

\* MergeFromCodedStream on an object that holds something already.
ParseMore ==
  /\ Filling /\ Room
  /\ \E w \in Samples(kind), more \in {<<>>, Foreign} :
       /\ more = <<>> \/ msg.unknown = <<>>
       /\ msg' \in Parse(kind, msg, Serialize(kind, Build(kind, w)) \o more)

Send ==
  /\ Len(sent) < Limit
  /\ sent' = Append(sent, msg)
  /\ stream' = Append(stream, sendMesgTo(kind, msg))
  /\ msg' = New(kind)
  /\ UNCHANGED <<kind, torn, read, received>>

(***************************************************************************)
(* One round of handleReceive.  Its stream object is new, fills a buffer with *)
(* what has arrived, the first n frames and m bytes of the next one, parses  *)
(* one message and is thrown away with the rest of the buffer.               *)
(***************************************************************************)
Inside(n) == 0 .. IF n < Len(stream) THEN Len(stream[n + 1]) - 1 ELSE 0
Buffer(n, m) ==
  FlattenSeq(SubSeq(stream, 1, n)) \o (IF m = 0 THEN <<>> ELSE SubSeq(stream[n + 1], 1, m))
Consume(n, m) ==
  /\ stream' = Drop([i \in DOMAIN stream |->
                       IF i = n + 1 THEN Drop(stream[i], m) ELSE stream[i]], n)
  /\ torn' = (m > 0)

\* A frame in full: read() is repeated until it is there.  The message is
\* copied for the thread and moved into its parameter.
Receive ==
  /\ ~torn
  /\ \E n \in DOMAIN stream : \E m \in Inside(n) :
       LET found == recvMesgFrom(kind, Buffer(n, m))
       IN  /\ received' = received \o SetToSeq({Move(kind, Copy(kind, o)) : o \in found})
           /\ Consume(n, m)
  /\ read' = Append(read, Len(sent) - Len(stream) + 1)
  /\ UNCHANGED <<kind, msg, sent>>

\* A read that begins inside a frame takes some bytes for the size and some for
\* the message, and may end anywhere.  What these bytes parse to is not followed.
ReceiveTorn ==
  /\ torn
  /\ \E n \in 0 .. Len(stream) : \E m \in Inside(n) : n + m > 0 /\ Consume(n, m)
  /\ \/ UNCHANGED <<read, received>>
     \/ /\ Cardinality({i \in DOMAIN read : read[i] = 0}) < MaxStray
        /\ read' = Append(read, 0) /\ received' = received \o <<Stray>>
  /\ UNCHANGED <<kind, msg, sent>>

Next == SetField \/ AddItem \/ Merge \/ Assign \/ ParseMore \/ Send \/ Receive \/ ReceiveTorn

Spec == Init /\ [][Next]_vars

-----------------------------------------------------------------------------
(* Properties. *)

\* The object keeps to its class: known bits, values of the types of the .proto file, and
\* the default value in every member whose bit is clear, which Clear, the constructors and
\* the parser leave behind and the accessors rely on.
Typed(type, v) == CASE type = "bool" -> v \in BOOLEAN
                    [] type = "string" -> \A i \in DOMAIN v : v[i] \in 0 .. 255
                    [] IsMessage(type) -> DOMAIN v.val = Members(type)
                    [] OTHER -> v \in Nat
TypeOK ==
  /\ kind \in Kinds
  /\ {x.name : x \in FieldsOf(kind)} = Members(kind)
  /\ msg.bits \subseteq {Classes[kind].has[f] : f \in DOMAIN Classes[kind].has}
  /\ \A x \in FieldsOf(kind) :
       IF x.label = "repeated"
       THEN \A i \in DOMAIN msg.val[x.name] : Typed(x.type, msg.val[x.name][i])
       ELSE Typed(x.type, msg.val[x.name])
  /\ \A f \in DOMAIN Classes[kind].has : ~Has(kind, msg, f) => msg.val[f] = Zero(kind, f)
  /\ \A i \in DOMAIN read : read[i] \in DOMAIN sent \cup {0}

\* Whatever was done to the object, it writes the bytes that the .proto file gives to the
\* message its accessors show, and the unknown fields after them (SerializeWithCachedSizes).
EncodesSchema == Serialize(kind, msg) = Encode(kind, Meaning(kind, msg)) \o msg.unknown

\* ByteSizeLong, computed apart from the writers, is the length of what they write: the
\* size before a frame, and before every nested message, delimits it (message.hpp:15-20).
SizeIsLength == ByteSize(kind, msg) = Len(Serialize(kind, msg))

\* Parsing what was written gives the object back, has-bits and unknown fields included.
RoundTrip == Parse(kind, New(kind), Serialize(kind, msg)) = {msg}

\* IsInitialized, which decides whether recvMesgFrom accepts a message, holds when every
\* required field of the message and of the messages in it is there.
InitializedIsComplete == IsInitialized(kind, msg) <=> Complete(kind, Meaning(kind, msg))

\* What handler threads get from the reads that begin where a frame begins: in the order of
\* sending and none twice, the messages that were sent complete, equal to what was sent;
\* nothing of a frame that is dropped or refused shows up in a later message
\* (main.cpp:48-63).  Reads that begin inside a frame may add anything in between.
ReceivedWasSent ==
  /\ received = FlattenSeq([i \in DOMAIN read |->
       IF read[i] = 0 THEN <<Stray>>
       ELSE IF Complete(kind, Meaning(kind, sent[read[i]])) THEN <<sent[read[i]]>> ELSE <<>>])
  /\ \A i, j \in DOMAIN read : i < j /\ 0 < read[i] /\ 0 < read[j] => read[i] < read[j]

\* Filling, merging, assigning and parsing act on the object as on the message of the
\* .proto file: the class implements the abstract message.
Abstract == INSTANCE AbstractMessage WITH fields <- Meaning(kind, msg)
ActsAsMessage == Abstract!Spec
=============================================================================
