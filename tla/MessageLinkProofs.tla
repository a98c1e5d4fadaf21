-------------------------- MODULE MessageLinkProofs --------------------------
(* The properties of MessageLink, for every class, every number and size of     *)
(* messages.  MessageMethodsProofs shows what the methods of a class do from     *)
(* what is known of the classes of its fields; MessageTablesProofs, that the     *)
(* tables fit and how deep the classes nest.  So the theorems of P0 are about    *)
(* the classes without messages in them, the ones of P1 about the classes over   *)
(* those, up to P3, which is about all of them.                                  *)
EXTENDS MessageLink, MessageTablesProofs, SequenceTheorems, FiniteSetTheorems

P0 == INSTANCE MessageMethodsProofs WITH
  CallIn <- LAMBDA method, k, x, y : Nothing,
  CompleteIn <- LAMBDA k, w : FALSE,
  EncodeIn <- LAMBDA k, w : Nothing,
  JoinIn <- LAMBDA k, w, z : Nothing,
  FilledIn <- LAMBDA k, how : Nothing,
  LackingIn <- LAMBDA k : Nothing,
  ObjectIn <- LAMBDA k, m : FALSE,
  WordIn <- LAMBDA k, w : FALSE
P1 == INSTANCE MessageMethodsProofs WITH
  CallIn <- FlatMethods!Call,
  CompleteIn <- FlatRules!Complete,
  EncodeIn <- FlatRules!Encode,
  JoinIn <- FlatRules!Join,
  FilledIn <- FlatRules!Filled,
  LackingIn <- FlatRules!Lacking,
  ObjectIn <- P0!Plain,
  WordIn <- P0!Word
P2 == INSTANCE MessageMethodsProofs WITH
  CallIn <- Methods1!Call,
  CompleteIn <- Rules1!Complete,
  EncodeIn <- Rules1!Encode,
  JoinIn <- Rules1!Join,
  FilledIn <- Rules1!Filled,
  LackingIn <- Rules1!Lacking,
  ObjectIn <- P1!Plain,
  WordIn <- P1!Word
P3 == INSTANCE MessageMethodsProofs WITH
  CallIn <- Methods2!Call,
  CompleteIn <- Rules2!Complete,
  EncodeIn <- Rules2!Encode,
  JoinIn <- Rules2!Join,
  FilledIn <- Rules2!Filled,
  LackingIn <- Rules2!Lacking,
  ObjectIn <- P2!Plain,
  WordIn <- P2!Word

-----------------------------------------------------------------------------
(* The operators that the theorems are about are the ones of the methods and rules *)

LEMMA Same0 ==
    \A k, x, y :
        /\ P0!New(k) = FlatMethods!New(k)
        /\ P0!MergeFrom(k, x, y) = FlatMethods!MergeFrom(k, x, y)
        /\ P0!Copy(k, x) = FlatMethods!Copy(k, x)
        /\ P0!Clear(k, x) = FlatMethods!Clear(k, x)
        /\ P0!IsInitialized(k, x) <=> FlatMethods!IsInitialized(k, x)
        /\ P0!ByteSize(k, x) = FlatMethods!ByteSize(k, x)
        /\ P0!Serialize(k, x) = FlatMethods!Serialize(k, x)
        /\ P0!Parse(k, x, y) = FlatMethods!Parse(k, x, y)
        /\ P0!Build(k, x) = FlatMethods!Build(k, x)
        /\ P0!Meaning(k, x) = FlatMethods!Meaning(k, x)
        /\ P0!Complete(k, x) <=> FlatRules!Complete(k, x)
        /\ P0!Encode(k, x) = FlatRules!Encode(k, x)
        /\ P0!Join(k, x, y) = FlatRules!Join(k, x, y)
        /\ P0!Filled(k, x) = FlatRules!Filled(k, x)
        /\ P0!Lacking(k) = FlatRules!Lacking(k)
<1> TAKE k, x, y
<1>1. P0!New(k) = FlatMethods!New(k)
    BY DEF P0!New, FlatMethods!New, P0!Members, FlatMethods!Members, P0!Zero,
        FlatMethods!Zero, P0!IsList, FlatMethods!IsList, P0!ZeroOf, FlatMethods!ZeroOf,
        P0!TypeOf, FlatMethods!TypeOf, P0!VarintTypes, FlatMethods!VarintTypes, P0!NewIn,
        FlatMethods!NewIn
<1>2. P0!MergeFrom(k, x, y) = FlatMethods!MergeFrom(k, x, y)
    BY DEF P0!MergeFrom, FlatMethods!MergeFrom, P0!MergeBy, FlatMethods!MergeBy,
        P0!MergedList, FlatMethods!MergedList, P0!TypeOf, FlatMethods!TypeOf,
        P0!MergedValue, FlatMethods!MergedValue, P0!Members, FlatMethods!Members,
        P0!Scalars, FlatMethods!Scalars, P0!VarintTypes, FlatMethods!VarintTypes,
        P0!MergeFromIn, FlatMethods!MergeFromIn, P0!NewIn, FlatMethods!NewIn
<1>3. P0!Copy(k, x) = FlatMethods!Copy(k, x)
    BY DEF P0!Copy, FlatMethods!Copy, P0!CopyBy, FlatMethods!CopyBy, P0!Has,
        FlatMethods!Has, P0!IsList, FlatMethods!IsList, P0!CopiedValue,
        FlatMethods!CopiedValue, P0!TypeOf, FlatMethods!TypeOf, P0!Members,
        FlatMethods!Members, P0!Zero, FlatMethods!Zero, P0!Scalars, FlatMethods!Scalars,
        P0!ZeroOf, FlatMethods!ZeroOf, P0!VarintTypes, FlatMethods!VarintTypes, P0!CopyIn,
        FlatMethods!CopyIn, P0!NewIn, FlatMethods!NewIn
<1>4. P0!Clear(k, x) = FlatMethods!Clear(k, x)
    BY DEF P0!Clear, FlatMethods!Clear, P0!ClearBy, FlatMethods!ClearBy, P0!HoldsMessage,
        FlatMethods!HoldsMessage, P0!IsList, FlatMethods!IsList, P0!TypeOf,
        FlatMethods!TypeOf, P0!Zero, FlatMethods!Zero, P0!Members, FlatMethods!Members,
        P0!Scalars, FlatMethods!Scalars, P0!ZeroOf, FlatMethods!ZeroOf, P0!VarintTypes,
        FlatMethods!VarintTypes, P0!ClearIn, FlatMethods!ClearIn, P0!NewIn,
        FlatMethods!NewIn
<1>5. P0!IsInitialized(k, x) <=> FlatMethods!IsInitialized(k, x)
    BY DEF P0!IsInitialized, FlatMethods!IsInitialized, P0!IsList, FlatMethods!IsList,
        P0!TypeOf, FlatMethods!TypeOf, P0!Has, FlatMethods!Has, P0!IsInitializedIn,
        FlatMethods!IsInitializedIn
<1>6. P0!ByteSize(k, x) = FlatMethods!ByteSize(k, x)
    BY DEF P0!ByteSize, FlatMethods!ByteSize, P0!SizeBy, FlatMethods!SizeBy, P0!Has,
        FlatMethods!Has, P0!SumOver, FlatMethods!SumOver, P0!FieldSize,
        FlatMethods!FieldSize, P0!SizeType, FlatMethods!SizeType, P0!MapThenSumSet,
        FlatMethods!MapThenSumSet, P0!PayloadSize, FlatMethods!PayloadSize, P0!TypeOf,
        FlatMethods!TypeOf, P0!IsList, FlatMethods!IsList, P0!MapThenFoldSet,
        FlatMethods!MapThenFoldSet, P0!Delimited, FlatMethods!Delimited, P0!VarintSize,
        FlatMethods!VarintSize, P0!varintSize, FlatMethods!varintSize, P0!ByteSizeIn,
        FlatMethods!ByteSizeIn
<1>7. P0!Serialize(k, x) = FlatMethods!Serialize(k, x)
    BY ZenonT(60) DEF P0!Serialize, FlatMethods!Serialize, P0!WriteRows,
        FlatMethods!WriteRows, P0!FlattenSeq, FlatMethods!FlattenSeq, P0!WriteAll,
        FlatMethods!WriteAll, P0!Written, FlatMethods!Written, P0!Tag, FlatMethods!Tag,
        P0!WritePayload, FlatMethods!WritePayload, P0!TypeOf, FlatMethods!TypeOf, P0!Always,
        FlatMethods!Always, P0!Varint, FlatMethods!Varint, P0!WireType,
        FlatMethods!WireType, P0!varint, FlatMethods!varint, P0!VarintTypes,
        FlatMethods!VarintTypes, P0!ByteSizeIn, FlatMethods!ByteSizeIn, P0!SerializeIn,
        FlatMethods!SerializeIn
<1>8. P0!Parse(k, x, y) = FlatMethods!Parse(k, x, y)
    BY DEF P0!Parse, FlatMethods!Parse, P0!ReadAll, FlatMethods!ReadAll, P0!FieldsIn,
        FlatMethods!FieldsIn, P0!ReadInto, FlatMethods!ReadInto, P0!fieldsIn,
        FlatMethods!fieldsIn, P0!KeepUnknown, FlatMethods!KeepUnknown, P0!ReadCase,
        FlatMethods!ReadCase, P0!ReadField, FlatMethods!ReadField, P0!Varint,
        FlatMethods!Varint, P0!Store, FlatMethods!Store, P0!TypeOf, FlatMethods!TypeOf,
        P0!Target, FlatMethods!Target, P0!Varints, FlatMethods!Varints, P0!ReadPayload,
        FlatMethods!ReadPayload, P0!ReadVarint, FlatMethods!ReadVarint, P0!varint,
        FlatMethods!varint, P0!IsList, FlatMethods!IsList, P0!Add, FlatMethods!Add, P0!Set,
        FlatMethods!Set, P0!varintsIn, FlatMethods!varintsIn, P0!PayloadField,
        FlatMethods!PayloadField, P0!VarintValue, FlatMethods!VarintValue, P0!Drop,
        FlatMethods!Drop, P0!EndsVarint, FlatMethods!EndsVarint, P0!varintValue,
        FlatMethods!varintValue, P0!Bytes, FlatMethods!Bytes, P0!ParseIn,
        FlatMethods!ParseIn, P0!NewIn, FlatMethods!NewIn
<1>9. P0!Build(k, x) = FlatMethods!Build(k, x)
    BY DEF P0!Build, FlatMethods!Build, P0!Members, FlatMethods!Members, P0!Zero,
        FlatMethods!Zero, P0!IsList, FlatMethods!IsList, P0!Made, FlatMethods!Made,
        P0!ZeroOf, FlatMethods!ZeroOf, P0!TypeOf, FlatMethods!TypeOf, P0!HoldsMessage,
        FlatMethods!HoldsMessage, P0!VarintTypes, FlatMethods!VarintTypes, P0!Scalars,
        FlatMethods!Scalars, P0!BuildIn, FlatMethods!BuildIn, P0!NewIn, FlatMethods!NewIn
<1>10. P0!Meaning(k, x) = FlatMethods!Meaning(k, x)
    BY DEF P0!Meaning, FlatMethods!Meaning, P0!Members, FlatMethods!Members, P0!IsList,
        FlatMethods!IsList, P0!Has, FlatMethods!Has, P0!Shown, FlatMethods!Shown,
        P0!HoldsMessage, FlatMethods!HoldsMessage, P0!TypeOf, FlatMethods!TypeOf,
        P0!Scalars, FlatMethods!Scalars, P0!VarintTypes, FlatMethods!VarintTypes,
        P0!MeaningIn, FlatMethods!MeaningIn
<1>11. P0!Complete(k, x) <=> FlatRules!Complete(k, x)
    BY DEF P0!Complete, FlatRules!Complete, P0!FieldsOf, FlatRules!FieldsOf, P0!IsMessage,
        FlatRules!IsMessage, P0!Range, FlatRules!Range, P0!Scalars,
        FlatRules!Scalars, P0!VarintTypes, FlatRules!VarintTypes
<1>12. P0!Encode(k, x) = FlatRules!Encode(k, x)
    BY ZenonT(60) DEF P0!Encode, FlatRules!Encode, P0!FlattenSeq, FlatRules!FlattenSeq, P0!EncodeAll,
        FlatRules!EncodeAll, P0!ValuesOf, FlatRules!ValuesOf, P0!Tag,
        FlatRules!Tag, P0!Payload, FlatRules!Payload, P0!Varint,
        FlatRules!Varint, P0!WireType, FlatRules!WireType, P0!VarintTypes,
        FlatRules!VarintTypes, P0!varint, FlatRules!varint
<1>13. P0!Join(k, x, y) = FlatRules!Join(k, x, y)
    BY DEF P0!Join, FlatRules!Join, P0!FieldNamed, FlatRules!FieldNamed, P0!IsMessage,
        FlatRules!IsMessage, P0!FieldsOf, FlatRules!FieldsOf, P0!Scalars,
        FlatRules!Scalars, P0!Range, FlatRules!Range, P0!VarintTypes,
        FlatRules!VarintTypes
<1>14. P0!Filled(k, x) = FlatRules!Filled(k, x)
    BY DEF P0!Filled, FlatRules!Filled, P0!Fill, FlatRules!Fill, P0!FieldsOf,
        FlatRules!FieldsOf, P0!FieldNamed, FlatRules!FieldNamed, P0!Value,
        FlatRules!Value, P0!Range, FlatRules!Range, P0!IsMessage,
        FlatRules!IsMessage, P0!Scalars, FlatRules!Scalars, P0!VarintTypes,
        FlatRules!VarintTypes
<1>15. P0!Lacking(k) = FlatRules!Lacking(k)
    BY DEF P0!Lacking, FlatRules!Lacking, P0!FieldsOf, FlatRules!FieldsOf, P0!Fill,
        FlatRules!Fill, P0!Range, FlatRules!Range, P0!FieldNamed,
        FlatRules!FieldNamed, P0!Value, FlatRules!Value, P0!IsMessage,
        FlatRules!IsMessage, P0!Scalars, FlatRules!Scalars, P0!VarintTypes,
        FlatRules!VarintTypes
<1> QED
    BY <1>1, <1>2, <1>3, <1>4, <1>5, <1>6, <1>7, <1>8, <1>9, <1>10, <1>11, <1>12, <1>13, <1>14, <1>15

LEMMA Same1 ==
    \A k, x, y :
        /\ P1!New(k) = Methods1!New(k)
        /\ P1!MergeFrom(k, x, y) = Methods1!MergeFrom(k, x, y)
        /\ P1!Copy(k, x) = Methods1!Copy(k, x)
        /\ P1!Clear(k, x) = Methods1!Clear(k, x)
        /\ P1!IsInitialized(k, x) <=> Methods1!IsInitialized(k, x)
        /\ P1!ByteSize(k, x) = Methods1!ByteSize(k, x)
        /\ P1!Serialize(k, x) = Methods1!Serialize(k, x)
        /\ P1!Parse(k, x, y) = Methods1!Parse(k, x, y)
        /\ P1!Build(k, x) = Methods1!Build(k, x)
        /\ P1!Meaning(k, x) = Methods1!Meaning(k, x)
        /\ P1!Complete(k, x) <=> Rules1!Complete(k, x)
        /\ P1!Encode(k, x) = Rules1!Encode(k, x)
        /\ P1!Join(k, x, y) = Rules1!Join(k, x, y)
        /\ P1!Filled(k, x) = Rules1!Filled(k, x)
        /\ P1!Lacking(k) = Rules1!Lacking(k)
<1> TAKE k, x, y
<1>1. P1!New(k) = Methods1!New(k)
    BY DEF P1!New, Methods1!New, P1!Members, Methods1!Members, P1!Zero, Methods1!Zero,
        P1!IsList, Methods1!IsList, P1!ZeroOf, Methods1!ZeroOf, P1!TypeOf, Methods1!TypeOf,
        P1!VarintTypes, Methods1!VarintTypes, P1!NewIn, Methods1!NewIn
<1>2. P1!MergeFrom(k, x, y) = Methods1!MergeFrom(k, x, y)
    BY DEF P1!MergeFrom, Methods1!MergeFrom, P1!MergeBy, Methods1!MergeBy, P1!MergedList,
        Methods1!MergedList, P1!TypeOf, Methods1!TypeOf, P1!MergedValue,
        Methods1!MergedValue, P1!Members, Methods1!Members, P1!Scalars, Methods1!Scalars,
        P1!VarintTypes, Methods1!VarintTypes, P1!MergeFromIn, Methods1!MergeFromIn,
        P1!NewIn, Methods1!NewIn
<1>3. P1!Copy(k, x) = Methods1!Copy(k, x)
    BY DEF P1!Copy, Methods1!Copy, P1!CopyBy, Methods1!CopyBy, P1!Has, Methods1!Has,
        P1!IsList, Methods1!IsList, P1!CopiedValue, Methods1!CopiedValue, P1!TypeOf,
        Methods1!TypeOf, P1!Members, Methods1!Members, P1!Zero, Methods1!Zero, P1!Scalars,
        Methods1!Scalars, P1!ZeroOf, Methods1!ZeroOf, P1!VarintTypes, Methods1!VarintTypes,
        P1!CopyIn, Methods1!CopyIn, P1!NewIn, Methods1!NewIn
<1>4. P1!Clear(k, x) = Methods1!Clear(k, x)
    BY DEF P1!Clear, Methods1!Clear, P1!ClearBy, Methods1!ClearBy, P1!HoldsMessage,
        Methods1!HoldsMessage, P1!IsList, Methods1!IsList, P1!TypeOf, Methods1!TypeOf,
        P1!Zero, Methods1!Zero, P1!Members, Methods1!Members, P1!Scalars, Methods1!Scalars,
        P1!ZeroOf, Methods1!ZeroOf, P1!VarintTypes, Methods1!VarintTypes, P1!ClearIn,
        Methods1!ClearIn, P1!NewIn, Methods1!NewIn
<1>5. P1!IsInitialized(k, x) <=> Methods1!IsInitialized(k, x)
    BY DEF P1!IsInitialized, Methods1!IsInitialized, P1!IsList, Methods1!IsList, P1!TypeOf,
        Methods1!TypeOf, P1!Has, Methods1!Has, P1!IsInitializedIn, Methods1!IsInitializedIn
<1>6. P1!ByteSize(k, x) = Methods1!ByteSize(k, x)
    BY DEF P1!ByteSize, Methods1!ByteSize, P1!SizeBy, Methods1!SizeBy, P1!Has, Methods1!Has,
        P1!SumOver, Methods1!SumOver, P1!FieldSize, Methods1!FieldSize, P1!SizeType,
        Methods1!SizeType, P1!MapThenSumSet, Methods1!MapThenSumSet, P1!PayloadSize,
        Methods1!PayloadSize, P1!TypeOf, Methods1!TypeOf, P1!IsList, Methods1!IsList,
        P1!MapThenFoldSet, Methods1!MapThenFoldSet, P1!Delimited, Methods1!Delimited,
        P1!VarintSize, Methods1!VarintSize, P1!varintSize, Methods1!varintSize,
        P1!ByteSizeIn, Methods1!ByteSizeIn
<1>7. P1!Serialize(k, x) = Methods1!Serialize(k, x)
    BY ZenonT(60) DEF P1!Serialize, Methods1!Serialize, P1!WriteRows, Methods1!WriteRows,
        P1!FlattenSeq, Methods1!FlattenSeq, P1!WriteAll, Methods1!WriteAll, P1!Written,
        Methods1!Written, P1!Tag, Methods1!Tag, P1!WritePayload, Methods1!WritePayload,
        P1!TypeOf, Methods1!TypeOf, P1!Always, Methods1!Always, P1!Varint, Methods1!Varint,
        P1!WireType, Methods1!WireType, P1!varint, Methods1!varint, P1!VarintTypes,
        Methods1!VarintTypes, P1!ByteSizeIn, Methods1!ByteSizeIn, P1!SerializeIn,
        Methods1!SerializeIn
<1>8. P1!Parse(k, x, y) = Methods1!Parse(k, x, y)
    BY DEF P1!Parse, Methods1!Parse, P1!ReadAll, Methods1!ReadAll, P1!FieldsIn,
        Methods1!FieldsIn, P1!ReadInto, Methods1!ReadInto, P1!fieldsIn, Methods1!fieldsIn,
        P1!KeepUnknown, Methods1!KeepUnknown, P1!ReadCase, Methods1!ReadCase, P1!ReadField,
        Methods1!ReadField, P1!Varint, Methods1!Varint, P1!Store, Methods1!Store, P1!TypeOf,
        Methods1!TypeOf, P1!Target, Methods1!Target, P1!Varints, Methods1!Varints,
        P1!ReadPayload, Methods1!ReadPayload, P1!ReadVarint, Methods1!ReadVarint, P1!varint,
        Methods1!varint, P1!IsList, Methods1!IsList, P1!Add, Methods1!Add, P1!Set,
        Methods1!Set, P1!varintsIn, Methods1!varintsIn, P1!PayloadField,
        Methods1!PayloadField, P1!VarintValue, Methods1!VarintValue, P1!Drop, Methods1!Drop,
        P1!EndsVarint, Methods1!EndsVarint, P1!varintValue, Methods1!varintValue, P1!Bytes,
        Methods1!Bytes, P1!ParseIn, Methods1!ParseIn, P1!NewIn, Methods1!NewIn
<1>9. P1!Build(k, x) = Methods1!Build(k, x)
    BY DEF P1!Build, Methods1!Build, P1!Members, Methods1!Members, P1!Zero, Methods1!Zero,
        P1!IsList, Methods1!IsList, P1!Made, Methods1!Made, P1!ZeroOf, Methods1!ZeroOf,
        P1!TypeOf, Methods1!TypeOf, P1!HoldsMessage, Methods1!HoldsMessage, P1!VarintTypes,
        Methods1!VarintTypes, P1!Scalars, Methods1!Scalars, P1!BuildIn, Methods1!BuildIn,
        P1!NewIn, Methods1!NewIn
<1>10. P1!Meaning(k, x) = Methods1!Meaning(k, x)
    BY DEF P1!Meaning, Methods1!Meaning, P1!Members, Methods1!Members, P1!IsList,
        Methods1!IsList, P1!Has, Methods1!Has, P1!Shown, Methods1!Shown, P1!HoldsMessage,
        Methods1!HoldsMessage, P1!TypeOf, Methods1!TypeOf, P1!Scalars, Methods1!Scalars,
        P1!VarintTypes, Methods1!VarintTypes, P1!MeaningIn, Methods1!MeaningIn
<1>11. P1!Complete(k, x) <=> Rules1!Complete(k, x)
    BY DEF P1!Complete, Rules1!Complete, P1!FieldsOf, Rules1!FieldsOf, P1!IsMessage,
        Rules1!IsMessage, P1!Range, Rules1!Range, P1!Scalars, Rules1!Scalars,
        P1!VarintTypes, Rules1!VarintTypes
<1>12. P1!Encode(k, x) = Rules1!Encode(k, x)
    BY ZenonT(60) DEF P1!Encode, Rules1!Encode, P1!FlattenSeq, Rules1!FlattenSeq, P1!EncodeAll,
        Rules1!EncodeAll, P1!ValuesOf, Rules1!ValuesOf, P1!Tag, Rules1!Tag,
        P1!Payload, Rules1!Payload, P1!Varint, Rules1!Varint, P1!WireType,
        Rules1!WireType, P1!VarintTypes, Rules1!VarintTypes, P1!varint,
        Rules1!varint
<1>13. P1!Join(k, x, y) = Rules1!Join(k, x, y)
    BY DEF P1!Join, Rules1!Join, P1!FieldNamed, Rules1!FieldNamed, P1!IsMessage,
        Rules1!IsMessage, P1!FieldsOf, Rules1!FieldsOf, P1!Scalars,
        Rules1!Scalars, P1!Range, Rules1!Range, P1!VarintTypes,
        Rules1!VarintTypes
<1>14. P1!Filled(k, x) = Rules1!Filled(k, x)
    BY DEF P1!Filled, Rules1!Filled, P1!Fill, Rules1!Fill, P1!FieldsOf, Rules1!FieldsOf,
        P1!FieldNamed, Rules1!FieldNamed, P1!Value, Rules1!Value, P1!Range,
        Rules1!Range, P1!IsMessage, Rules1!IsMessage, P1!Scalars,
        Rules1!Scalars, P1!VarintTypes, Rules1!VarintTypes
<1>15. P1!Lacking(k) = Rules1!Lacking(k)
    BY DEF P1!Lacking, Rules1!Lacking, P1!FieldsOf, Rules1!FieldsOf, P1!Fill, Rules1!Fill,
        P1!Range, Rules1!Range, P1!FieldNamed, Rules1!FieldNamed, P1!Value,
        Rules1!Value, P1!IsMessage, Rules1!IsMessage, P1!Scalars,
        Rules1!Scalars, P1!VarintTypes, Rules1!VarintTypes
<1> QED
    BY <1>1, <1>2, <1>3, <1>4, <1>5, <1>6, <1>7, <1>8, <1>9, <1>10, <1>11, <1>12, <1>13, <1>14, <1>15

LEMMA Same2 ==
    \A k, x, y :
        /\ P2!New(k) = Methods2!New(k)
        /\ P2!MergeFrom(k, x, y) = Methods2!MergeFrom(k, x, y)
        /\ P2!Copy(k, x) = Methods2!Copy(k, x)
        /\ P2!Clear(k, x) = Methods2!Clear(k, x)
        /\ P2!IsInitialized(k, x) <=> Methods2!IsInitialized(k, x)
        /\ P2!ByteSize(k, x) = Methods2!ByteSize(k, x)
        /\ P2!Serialize(k, x) = Methods2!Serialize(k, x)
        /\ P2!Parse(k, x, y) = Methods2!Parse(k, x, y)
        /\ P2!Build(k, x) = Methods2!Build(k, x)
        /\ P2!Meaning(k, x) = Methods2!Meaning(k, x)
        /\ P2!Complete(k, x) <=> Rules2!Complete(k, x)
        /\ P2!Encode(k, x) = Rules2!Encode(k, x)
        /\ P2!Join(k, x, y) = Rules2!Join(k, x, y)
        /\ P2!Filled(k, x) = Rules2!Filled(k, x)
        /\ P2!Lacking(k) = Rules2!Lacking(k)
<1> TAKE k, x, y
<1>1. P2!New(k) = Methods2!New(k)
    BY DEF P2!New, Methods2!New, P2!Members, Methods2!Members, P2!Zero, Methods2!Zero,
        P2!IsList, Methods2!IsList, P2!ZeroOf, Methods2!ZeroOf, P2!TypeOf, Methods2!TypeOf,
        P2!VarintTypes, Methods2!VarintTypes, P2!NewIn, Methods2!NewIn
<1>2. P2!MergeFrom(k, x, y) = Methods2!MergeFrom(k, x, y)
    BY DEF P2!MergeFrom, Methods2!MergeFrom, P2!MergeBy, Methods2!MergeBy, P2!MergedList,
        Methods2!MergedList, P2!TypeOf, Methods2!TypeOf, P2!MergedValue,
        Methods2!MergedValue, P2!Members, Methods2!Members, P2!Scalars, Methods2!Scalars,
        P2!VarintTypes, Methods2!VarintTypes, P2!MergeFromIn, Methods2!MergeFromIn,
        P2!NewIn, Methods2!NewIn
<1>3. P2!Copy(k, x) = Methods2!Copy(k, x)
    BY DEF P2!Copy, Methods2!Copy, P2!CopyBy, Methods2!CopyBy, P2!Has, Methods2!Has,
        P2!IsList, Methods2!IsList, P2!CopiedValue, Methods2!CopiedValue, P2!TypeOf,
        Methods2!TypeOf, P2!Members, Methods2!Members, P2!Zero, Methods2!Zero, P2!Scalars,
        Methods2!Scalars, P2!ZeroOf, Methods2!ZeroOf, P2!VarintTypes, Methods2!VarintTypes,
        P2!CopyIn, Methods2!CopyIn, P2!NewIn, Methods2!NewIn
<1>4. P2!Clear(k, x) = Methods2!Clear(k, x)
    BY DEF P2!Clear, Methods2!Clear, P2!ClearBy, Methods2!ClearBy, P2!HoldsMessage,
        Methods2!HoldsMessage, P2!IsList, Methods2!IsList, P2!TypeOf, Methods2!TypeOf,
        P2!Zero, Methods2!Zero, P2!Members, Methods2!Members, P2!Scalars, Methods2!Scalars,
        P2!ZeroOf, Methods2!ZeroOf, P2!VarintTypes, Methods2!VarintTypes, P2!ClearIn,
        Methods2!ClearIn, P2!NewIn, Methods2!NewIn
<1>5. P2!IsInitialized(k, x) <=> Methods2!IsInitialized(k, x)
    BY DEF P2!IsInitialized, Methods2!IsInitialized, P2!IsList, Methods2!IsList, P2!TypeOf,
        Methods2!TypeOf, P2!Has, Methods2!Has, P2!IsInitializedIn, Methods2!IsInitializedIn
<1>6. P2!ByteSize(k, x) = Methods2!ByteSize(k, x)
    BY DEF P2!ByteSize, Methods2!ByteSize, P2!SizeBy, Methods2!SizeBy, P2!Has, Methods2!Has,
        P2!SumOver, Methods2!SumOver, P2!FieldSize, Methods2!FieldSize, P2!SizeType,
        Methods2!SizeType, P2!MapThenSumSet, Methods2!MapThenSumSet, P2!PayloadSize,
        Methods2!PayloadSize, P2!TypeOf, Methods2!TypeOf, P2!IsList, Methods2!IsList,
        P2!MapThenFoldSet, Methods2!MapThenFoldSet, P2!Delimited, Methods2!Delimited,
        P2!VarintSize, Methods2!VarintSize, P2!varintSize, Methods2!varintSize,
        P2!ByteSizeIn, Methods2!ByteSizeIn
<1>7. P2!Serialize(k, x) = Methods2!Serialize(k, x)
    BY ZenonT(60) DEF P2!Serialize, Methods2!Serialize, P2!WriteRows, Methods2!WriteRows,
        P2!FlattenSeq, Methods2!FlattenSeq, P2!WriteAll, Methods2!WriteAll, P2!Written,
        Methods2!Written, P2!Tag, Methods2!Tag, P2!WritePayload, Methods2!WritePayload,
        P2!TypeOf, Methods2!TypeOf, P2!Always, Methods2!Always, P2!Varint, Methods2!Varint,
        P2!WireType, Methods2!WireType, P2!varint, Methods2!varint, P2!VarintTypes,
        Methods2!VarintTypes, P2!ByteSizeIn, Methods2!ByteSizeIn, P2!SerializeIn,
        Methods2!SerializeIn
<1>8. P2!Parse(k, x, y) = Methods2!Parse(k, x, y)
    BY DEF P2!Parse, Methods2!Parse, P2!ReadAll, Methods2!ReadAll, P2!FieldsIn,
        Methods2!FieldsIn, P2!ReadInto, Methods2!ReadInto, P2!fieldsIn, Methods2!fieldsIn,
        P2!KeepUnknown, Methods2!KeepUnknown, P2!ReadCase, Methods2!ReadCase, P2!ReadField,
        Methods2!ReadField, P2!Varint, Methods2!Varint, P2!Store, Methods2!Store, P2!TypeOf,
        Methods2!TypeOf, P2!Target, Methods2!Target, P2!Varints, Methods2!Varints,
        P2!ReadPayload, Methods2!ReadPayload, P2!ReadVarint, Methods2!ReadVarint, P2!varint,
        Methods2!varint, P2!IsList, Methods2!IsList, P2!Add, Methods2!Add, P2!Set,
        Methods2!Set, P2!varintsIn, Methods2!varintsIn, P2!PayloadField,
        Methods2!PayloadField, P2!VarintValue, Methods2!VarintValue, P2!Drop, Methods2!Drop,
        P2!EndsVarint, Methods2!EndsVarint, P2!varintValue, Methods2!varintValue, P2!Bytes,
        Methods2!Bytes, P2!ParseIn, Methods2!ParseIn, P2!NewIn, Methods2!NewIn
<1>9. P2!Build(k, x) = Methods2!Build(k, x)
    BY DEF P2!Build, Methods2!Build, P2!Members, Methods2!Members, P2!Zero, Methods2!Zero,
        P2!IsList, Methods2!IsList, P2!Made, Methods2!Made, P2!ZeroOf, Methods2!ZeroOf,
        P2!TypeOf, Methods2!TypeOf, P2!HoldsMessage, Methods2!HoldsMessage, P2!VarintTypes,
        Methods2!VarintTypes, P2!Scalars, Methods2!Scalars, P2!BuildIn, Methods2!BuildIn,
        P2!NewIn, Methods2!NewIn
<1>10. P2!Meaning(k, x) = Methods2!Meaning(k, x)
    BY DEF P2!Meaning, Methods2!Meaning, P2!Members, Methods2!Members, P2!IsList,
        Methods2!IsList, P2!Has, Methods2!Has, P2!Shown, Methods2!Shown, P2!HoldsMessage,
        Methods2!HoldsMessage, P2!TypeOf, Methods2!TypeOf, P2!Scalars, Methods2!Scalars,
        P2!VarintTypes, Methods2!VarintTypes, P2!MeaningIn, Methods2!MeaningIn
<1>11. P2!Complete(k, x) <=> Rules2!Complete(k, x)
    BY DEF P2!Complete, Rules2!Complete, P2!FieldsOf, Rules2!FieldsOf, P2!IsMessage,
        Rules2!IsMessage, P2!Range, Rules2!Range, P2!Scalars, Rules2!Scalars,
        P2!VarintTypes, Rules2!VarintTypes
<1>12. P2!Encode(k, x) = Rules2!Encode(k, x)
    BY ZenonT(60) DEF P2!Encode, Rules2!Encode, P2!FlattenSeq, Rules2!FlattenSeq, P2!EncodeAll,
        Rules2!EncodeAll, P2!ValuesOf, Rules2!ValuesOf, P2!Tag, Rules2!Tag,
        P2!Payload, Rules2!Payload, P2!Varint, Rules2!Varint, P2!WireType,
        Rules2!WireType, P2!VarintTypes, Rules2!VarintTypes, P2!varint,
        Rules2!varint
<1>13. P2!Join(k, x, y) = Rules2!Join(k, x, y)
    BY DEF P2!Join, Rules2!Join, P2!FieldNamed, Rules2!FieldNamed, P2!IsMessage,
        Rules2!IsMessage, P2!FieldsOf, Rules2!FieldsOf, P2!Scalars,
        Rules2!Scalars, P2!Range, Rules2!Range, P2!VarintTypes,
        Rules2!VarintTypes
<1>14. P2!Filled(k, x) = Rules2!Filled(k, x)
    BY DEF P2!Filled, Rules2!Filled, P2!Fill, Rules2!Fill, P2!FieldsOf, Rules2!FieldsOf,
        P2!FieldNamed, Rules2!FieldNamed, P2!Value, Rules2!Value, P2!Range,
        Rules2!Range, P2!IsMessage, Rules2!IsMessage, P2!Scalars,
        Rules2!Scalars, P2!VarintTypes, Rules2!VarintTypes
<1>15. P2!Lacking(k) = Rules2!Lacking(k)
    BY DEF P2!Lacking, Rules2!Lacking, P2!FieldsOf, Rules2!FieldsOf, P2!Fill, Rules2!Fill,
        P2!Range, Rules2!Range, P2!FieldNamed, Rules2!FieldNamed, P2!Value,
        Rules2!Value, P2!IsMessage, Rules2!IsMessage, P2!Scalars,
        Rules2!Scalars, P2!VarintTypes, Rules2!VarintTypes
<1> QED
    BY <1>1, <1>2, <1>3, <1>4, <1>5, <1>6, <1>7, <1>8, <1>9, <1>10, <1>11, <1>12, <1>13, <1>14, <1>15

LEMMA Same3 ==
    \A k, x, y :
        /\ P3!New(k) = New(k)
        /\ P3!Copy(k, x) = Copy(k, x)
        /\ P3!IsInitialized(k, x) <=> IsInitialized(k, x)
        /\ P3!ByteSize(k, x) = ByteSize(k, x)
        /\ P3!Serialize(k, x) = Serialize(k, x)
        /\ P3!Parse(k, x, y) = Parse(k, x, y)
        /\ P3!Build(k, x) = Build(k, x)
        /\ P3!Meaning(k, x) = Meaning(k, x)
        /\ P3!MergeFrom(k, x, y) = MergeFrom(k, x, y)
        /\ P3!Complete(k, x) <=> Complete(k, x)
        /\ P3!Encode(k, x) = Encode(k, x)
        /\ P3!Join(k, x, y) = Join(k, x, y)
<1> TAKE k, x, y
<1>1. P3!New(k) = New(k)
    BY DEF New, P3!New, Methods!New, P3!Members, Methods!Members, P3!Zero, Methods!Zero,
        P3!IsList, Methods!IsList, P3!ZeroOf, Methods!ZeroOf, P3!TypeOf, Methods!TypeOf,
        P3!VarintTypes, Methods!VarintTypes, P3!NewIn, Methods!NewIn
<1>2. P3!Copy(k, x) = Copy(k, x)
    BY DEF Copy, P3!Copy, Methods!Copy, P3!CopyBy, Methods!CopyBy, P3!Has, Methods!Has,
        P3!IsList, Methods!IsList, P3!CopiedValue, Methods!CopiedValue, P3!TypeOf,
        Methods!TypeOf, P3!Members, Methods!Members, P3!Zero, Methods!Zero, P3!Scalars,
        Methods!Scalars, P3!ZeroOf, Methods!ZeroOf, P3!VarintTypes, Methods!VarintTypes,
        P3!CopyIn, Methods!CopyIn, P3!NewIn, Methods!NewIn
<1>3. P3!IsInitialized(k, x) <=> IsInitialized(k, x)
    BY DEF IsInitialized, P3!IsInitialized, Methods!IsInitialized, P3!IsList,
        Methods!IsList, P3!TypeOf, Methods!TypeOf, P3!Has, Methods!Has, P3!IsInitializedIn,
        Methods!IsInitializedIn
<1>4. P3!ByteSize(k, x) = ByteSize(k, x)
    BY DEF ByteSize, P3!ByteSize, Methods!ByteSize, P3!SizeBy, Methods!SizeBy, P3!Has,
        Methods!Has, P3!SumOver, Methods!SumOver, P3!FieldSize, Methods!FieldSize,
        P3!SizeType, Methods!SizeType, P3!MapThenSumSet, Methods!MapThenSumSet,
        P3!PayloadSize, Methods!PayloadSize, P3!TypeOf, Methods!TypeOf, P3!IsList,
        Methods!IsList, P3!MapThenFoldSet, Methods!MapThenFoldSet, P3!Delimited,
        Methods!Delimited, P3!VarintSize, Methods!VarintSize, P3!varintSize,
        Methods!varintSize, P3!ByteSizeIn, Methods!ByteSizeIn
<1>5. P3!Serialize(k, x) = Serialize(k, x)
    BY ZenonT(60) DEF Serialize, P3!Serialize, Methods!Serialize, P3!WriteRows,
        Methods!WriteRows, P3!FlattenSeq, Methods!FlattenSeq, P3!WriteAll, Methods!WriteAll,
        P3!Written, Methods!Written, P3!Tag, Methods!Tag, P3!WritePayload,
        Methods!WritePayload, P3!TypeOf, Methods!TypeOf, P3!Always, Methods!Always,
        P3!Varint, Methods!Varint, P3!WireType, Methods!WireType, P3!varint, Methods!varint,
        P3!VarintTypes, Methods!VarintTypes, P3!ByteSizeIn, Methods!ByteSizeIn,
        P3!SerializeIn, Methods!SerializeIn
<1>6. P3!Parse(k, x, y) = Parse(k, x, y)
    BY DEF Parse, P3!Parse, Methods!Parse, P3!ReadAll, Methods!ReadAll, P3!FieldsIn,
        Methods!FieldsIn, P3!ReadInto, Methods!ReadInto, P3!fieldsIn, Methods!fieldsIn,
        P3!KeepUnknown, Methods!KeepUnknown, P3!ReadCase, Methods!ReadCase, P3!ReadField,
        Methods!ReadField, P3!Varint, Methods!Varint, P3!Store, Methods!Store, P3!TypeOf,
        Methods!TypeOf, P3!Target, Methods!Target, P3!Varints, Methods!Varints,
        P3!ReadPayload, Methods!ReadPayload, P3!ReadVarint, Methods!ReadVarint, P3!varint,
        Methods!varint, P3!IsList, Methods!IsList, P3!Add, Methods!Add, P3!Set, Methods!Set,
        P3!varintsIn, Methods!varintsIn, P3!PayloadField, Methods!PayloadField,
        P3!VarintValue, Methods!VarintValue, P3!Drop, Methods!Drop, P3!EndsVarint,
        Methods!EndsVarint, P3!varintValue, Methods!varintValue, P3!Bytes, Methods!Bytes,
        P3!ParseIn, Methods!ParseIn, P3!NewIn, Methods!NewIn
<1>7. P3!Build(k, x) = Build(k, x)
    BY DEF Build, P3!Build, Methods!Build, P3!Members, Methods!Members, P3!Zero,
        Methods!Zero, P3!IsList, Methods!IsList, P3!Made, Methods!Made, P3!ZeroOf,
        Methods!ZeroOf, P3!TypeOf, Methods!TypeOf, P3!HoldsMessage, Methods!HoldsMessage,
        P3!VarintTypes, Methods!VarintTypes, P3!Scalars, Methods!Scalars, P3!BuildIn,
        Methods!BuildIn, P3!NewIn, Methods!NewIn
<1>8. P3!Meaning(k, x) = Meaning(k, x)
    BY DEF Meaning, P3!Meaning, Methods!Meaning, P3!Members, Methods!Members, P3!IsList,
        Methods!IsList, P3!Has, Methods!Has, P3!Shown, Methods!Shown, P3!HoldsMessage,
        Methods!HoldsMessage, P3!TypeOf, Methods!TypeOf, P3!Scalars, Methods!Scalars,
        P3!VarintTypes, Methods!VarintTypes, P3!MeaningIn, Methods!MeaningIn
<1>9. P3!MergeFrom(k, x, y) = MergeFrom(k, x, y)
    BY DEF MergeFrom, P3!MergeFrom, Methods!MergeFrom, P3!MergeBy, Methods!MergeBy,
        P3!MergedList, Methods!MergedList, P3!TypeOf, Methods!TypeOf, P3!MergedValue,
        Methods!MergedValue, P3!Members, Methods!Members, P3!Scalars, Methods!Scalars,
        P3!VarintTypes, Methods!VarintTypes, P3!MergeFromIn, Methods!MergeFromIn, P3!NewIn,
        Methods!NewIn
<1>10. P3!Complete(k, x) <=> Complete(k, x)
    BY DEF Complete, P3!Complete, Rules!Complete, P3!FieldsOf, Rules!FieldsOf,
        P3!IsMessage, Rules!IsMessage, P3!Range, Rules!Range, P3!Scalars,
        Rules!Scalars, P3!VarintTypes, Rules!VarintTypes
<1>11. P3!Encode(k, x) = Encode(k, x)
    BY Zenon DEF Encode, P3!Encode, Rules!Encode, P3!FlattenSeq, Rules!FlattenSeq, P3!EncodeAll,
        Rules!EncodeAll, P3!ValuesOf, Rules!ValuesOf, P3!Tag, Rules!Tag,
        P3!Payload, Rules!Payload, P3!Varint, Rules!Varint, P3!WireType,
        Rules!WireType, P3!VarintTypes, Rules!VarintTypes, P3!varint,
        Rules!varint
<1>12. P3!Join(k, x, y) = Join(k, x, y)
    BY DEF Join, P3!Join, Rules!Join, P3!FieldNamed, Rules!FieldNamed, P3!IsMessage,
        Rules!IsMessage, P3!FieldsOf, Rules!FieldsOf, P3!Scalars, Rules!Scalars,
        P3!Range, Rules!Range, P3!VarintTypes, Rules!VarintTypes
<1> QED
    BY <1>1, <1>2, <1>3, <1>4, <1>5, <1>6, <1>7, <1>8, <1>9, <1>10, <1>11, <1>12

LEMMA SameUse ==
    \A k, x, y, z :
        /\ P3!Set(k, x, y, z) = Set(k, x, y, z)
        /\ P3!Add(x, y, z) = Add(x, y, z)
        /\ P3!Made(k, x, y) = Made(k, x, y)
        /\ P3!Move(k, x) = Move(k, x)
        /\ P3!CopyFrom(k, x, y) = CopyFrom(k, x, y)
        /\ P3!sendMesgTo(k, x) = sendMesgTo(k, x)
        /\ P3!recvMesgFrom(k, x) = recvMesgFrom(k, x)
        /\ P3!Zero(k, x) = Zero(k, x)
        /\ P3!Has(k, x, y) <=> Has(k, x, y)
        /\ P3!Members(k) = Members(k)
        /\ P3!TypeOf(k, x) = TypeOf(k, x)
        /\ P3!IsList(k, x) <=> IsList(k, x)
        /\ P3!Items(x) = Items(x)
        /\ P3!Samples(k) = Samples(k)
        /\ P3!Value(x, y) = Value(x, y)
        /\ P3!FieldsOf(k) = FieldsOf(k)
<1> TAKE k, x, y, z
<1>1. P3!Set(k, x, y, z) = Set(k, x, y, z)
    BY DEF Set, P3!Set, Methods!Set
<1>2. P3!Add(x, y, z) = Add(x, y, z)
    BY DEF Add, P3!Add, Methods!Add
<1>3. P3!Made(k, x, y) = Made(k, x, y)
    BY DEF Made, P3!Made, Methods!Made, P3!HoldsMessage, Methods!HoldsMessage, P3!TypeOf,
        Methods!TypeOf, P3!Scalars, Methods!Scalars, P3!VarintTypes, Methods!VarintTypes,
        P3!BuildIn, Methods!BuildIn
<1>4. P3!Move(k, x) = Move(k, x)
    BY DEF Move, P3!Move, Methods!Move, P3!Members, Methods!Members, P3!Zero, Methods!Zero,
        P3!IsList, Methods!IsList, P3!ZeroOf, Methods!ZeroOf, P3!TypeOf, Methods!TypeOf,
        P3!VarintTypes, Methods!VarintTypes, P3!NewIn, Methods!NewIn
<1>5. P3!CopyFrom(k, x, y) = CopyFrom(k, x, y)
    BY DEF CopyFrom, P3!CopyFrom, Methods!CopyFrom, P3!MergeFrom, Methods!MergeFrom,
        P3!Clear, Methods!Clear, P3!MergeBy, Methods!MergeBy, P3!ClearBy, Methods!ClearBy,
        P3!MergedList, Methods!MergedList, P3!TypeOf, Methods!TypeOf, P3!MergedValue,
        Methods!MergedValue, P3!Members, Methods!Members, P3!HoldsMessage,
        Methods!HoldsMessage, P3!IsList, Methods!IsList, P3!Zero, Methods!Zero, P3!Scalars,
        Methods!Scalars, P3!ZeroOf, Methods!ZeroOf, P3!VarintTypes, Methods!VarintTypes,
        P3!NewIn, Methods!NewIn, P3!MergeFromIn, Methods!MergeFromIn, P3!ClearIn,
        Methods!ClearIn
<1>6. P3!sendMesgTo(k, x) = sendMesgTo(k, x)
    BY ZenonT(60) DEF sendMesgTo, P3!sendMesgTo, Methods!sendMesgTo, P3!Varint,
        Methods!Varint, P3!ByteSize, Methods!ByteSize, P3!Serialize, Methods!Serialize,
        P3!varint, Methods!varint, P3!SizeBy, Methods!SizeBy, P3!WriteRows,
        Methods!WriteRows, P3!Has, Methods!Has, P3!SumOver, Methods!SumOver, P3!FieldSize,
        Methods!FieldSize, P3!SizeType, Methods!SizeType, P3!FlattenSeq, Methods!FlattenSeq,
        P3!WriteAll, Methods!WriteAll, P3!Written, Methods!Written, P3!MapThenSumSet,
        Methods!MapThenSumSet, P3!PayloadSize, Methods!PayloadSize, P3!TypeOf,
        Methods!TypeOf, P3!IsList, Methods!IsList, P3!Tag, Methods!Tag, P3!WritePayload,
        Methods!WritePayload, P3!Always, Methods!Always, P3!MapThenFoldSet,
        Methods!MapThenFoldSet, P3!Delimited, Methods!Delimited, P3!VarintSize,
        Methods!VarintSize, P3!WireType, Methods!WireType, P3!varintSize,
        Methods!varintSize, P3!VarintTypes, Methods!VarintTypes, P3!ByteSizeIn,
        Methods!ByteSizeIn, P3!SerializeIn, Methods!SerializeIn
<1>7. P3!recvMesgFrom(k, x) = recvMesgFrom(k, x)
    BY DEF recvMesgFrom, P3!recvMesgFrom, Methods!recvMesgFrom, P3!Parse, Methods!Parse,
        P3!New, Methods!New, P3!IsInitialized, Methods!IsInitialized, P3!ReadVarint,
        Methods!ReadVarint, P3!ReadAll, Methods!ReadAll, P3!FieldsIn, Methods!FieldsIn,
        P3!Members, Methods!Members, P3!Zero, Methods!Zero, P3!IsList, Methods!IsList,
        P3!TypeOf, Methods!TypeOf, P3!Has, Methods!Has, P3!VarintValue, Methods!VarintValue,
        P3!Drop, Methods!Drop, P3!EndsVarint, Methods!EndsVarint, P3!ReadInto,
        Methods!ReadInto, P3!fieldsIn, Methods!fieldsIn, P3!ZeroOf, Methods!ZeroOf,
        P3!varintValue, Methods!varintValue, P3!KeepUnknown, Methods!KeepUnknown,
        P3!ReadCase, Methods!ReadCase, P3!ReadField, Methods!ReadField, P3!VarintTypes,
        Methods!VarintTypes, P3!Varint, Methods!Varint, P3!Store, Methods!Store, P3!Target,
        Methods!Target, P3!Varints, Methods!Varints, P3!ReadPayload, Methods!ReadPayload,
        P3!varint, Methods!varint, P3!Add, Methods!Add, P3!Set, Methods!Set, P3!varintsIn,
        Methods!varintsIn, P3!PayloadField, Methods!PayloadField, P3!Bytes, Methods!Bytes,
        P3!ParseIn, Methods!ParseIn, P3!NewIn, Methods!NewIn, P3!IsInitializedIn,
        Methods!IsInitializedIn
<1>8. P3!Zero(k, x) = Zero(k, x)
    BY DEF Zero, P3!Zero, Methods!Zero, P3!IsList, Methods!IsList, P3!ZeroOf,
        Methods!ZeroOf, P3!TypeOf, Methods!TypeOf, P3!VarintTypes, Methods!VarintTypes,
        P3!NewIn, Methods!NewIn
<1>9. P3!Has(k, x, y) <=> Has(k, x, y)
    BY DEF Has, P3!Has, Methods!Has
<1>10. P3!Members(k) = Members(k)
    BY DEF Members, P3!Members, Methods!Members
<1>11. P3!TypeOf(k, x) = TypeOf(k, x)
    BY DEF TypeOf, P3!TypeOf, Methods!TypeOf
<1>12. P3!IsList(k, x) <=> IsList(k, x)
    BY DEF IsList, P3!IsList, Methods!IsList
<1>13. P3!Items(x) = Items(x)
    BY DEF Items, P3!Items, Rules!Items, P3!Value, Rules!Value, P3!IsMessage,
        Rules!IsMessage, P3!Scalars, Rules!Scalars, P3!VarintTypes,
        Rules!VarintTypes
<1>14. P3!Samples(k) = Samples(k)
    BY DEF Samples, P3!Samples, Rules!Samples, P3!Filled, Rules!Filled, P3!Lacking,
        Rules!Lacking, P3!Fill, Rules!Fill, P3!FieldsOf, Rules!FieldsOf,
        P3!FieldNamed, Rules!FieldNamed, P3!Value, Rules!Value, P3!Range,
        Rules!Range, P3!IsMessage, Rules!IsMessage, P3!Scalars, Rules!Scalars,
        P3!VarintTypes, Rules!VarintTypes
<1>15. P3!Value(x, y) = Value(x, y)
    BY DEF Value, P3!Value, Rules!Value, P3!IsMessage, Rules!IsMessage, P3!Scalars,
        Rules!Scalars, P3!VarintTypes, Rules!VarintTypes
<1>16. P3!FieldsOf(k) = FieldsOf(k)
    BY DEF FieldsOf, P3!FieldsOf, Rules!FieldsOf, P3!Range, Rules!Range
<1> QED
    BY <1>1, <1>2, <1>3, <1>4, <1>5, <1>6, <1>7, <1>8, <1>9, <1>10, <1>11, <1>12, <1>13, <1>14, <1>15, <1>16

-----------------------------------------------------------------------------
(* What the theorems of a level give to the next one *)

LEMMA FitsAt0 == \A c, s : P0!Fits(c, s) <=> Fits(c, s)
BY DEF P0!Fits, Fits, P0!FitsMembers, FitsMembers, P0!FitsCopy, FitsCopy, P0!FitsClear,
    FitsClear, P0!FitsMerge, FitsMerge, P0!FitsSize, FitsSize, P0!FitsRows,
    FitsRows, P0!FitsInit, FitsInit, P0!FitsSizes, FitsSizes, P0!Always, Always,
    P0!FitsRow, FitsRow, P0!Scalars, Scalars, P0!SizeType, SizeType, P0!WireType,
    WireType, P0!Reads, Reads, P0!VarintTypes, VarintTypes

\* The methods of the classes of the fields are the methods of the level below.
LEMMA Called0 ==
    \A k, x, y :
        /\ P1!NewIn(k) = P0!New(k)
        /\ P1!MergeFromIn(k, x, y) = P0!MergeFrom(k, x, y)
        /\ P1!CopyIn(k, x) = P0!Copy(k, x)
        /\ P1!ClearIn(k, x) = P0!Clear(k, x)
        /\ P1!IsInitializedIn(k, x) <=> P0!IsInitialized(k, x)
        /\ P1!ByteSizeIn(k, x) = P0!ByteSize(k, x)
        /\ P1!SerializeIn(k, x) = P0!Serialize(k, x)
        /\ P1!ParseIn(k, x, y) = P0!Parse(k, x, y)
        /\ P1!BuildIn(k, x) = P0!Build(k, x)
        /\ P1!MeaningIn(k, x) = P0!Meaning(k, x)
<1> TAKE k, x, y
<1>1. P1!NewIn(k) = P0!New(k)
    BY Same0 DEF P1!NewIn, FlatMethods!Call
<1>2. P1!MergeFromIn(k, x, y) = P0!MergeFrom(k, x, y)
    BY Same0 DEF P1!MergeFromIn, FlatMethods!Call
<1>3. P1!CopyIn(k, x) = P0!Copy(k, x)
    BY Same0 DEF P1!CopyIn, FlatMethods!Call
<1>4. P1!ClearIn(k, x) = P0!Clear(k, x)
    BY Same0 DEF P1!ClearIn, FlatMethods!Call
<1>5. P1!IsInitializedIn(k, x) <=> P0!IsInitialized(k, x)
    BY Same0 DEF P1!IsInitializedIn, FlatMethods!Call
<1>6. P1!ByteSizeIn(k, x) = P0!ByteSize(k, x)
    BY Same0 DEF P1!ByteSizeIn, FlatMethods!Call
<1>7. P1!SerializeIn(k, x) = P0!Serialize(k, x)
    BY Same0 DEF P1!SerializeIn, FlatMethods!Call
<1>8. P1!ParseIn(k, x, y) = P0!Parse(k, x, y)
    BY Same0 DEF P1!ParseIn, FlatMethods!Call
<1>9. P1!BuildIn(k, x) = P0!Build(k, x)
    BY Same0 DEF P1!BuildIn, FlatMethods!Call
<1>10. P1!MeaningIn(k, x) = P0!Meaning(k, x)
    BY Same0 DEF P1!MeaningIn, FlatMethods!Call
<1> QED
    BY <1>1, <1>2, <1>3, <1>4, <1>5, <1>6, <1>7, <1>8, <1>9, <1>10

LEMMA Carry0 == \A c : P0!Good(c) /\ P0!Expressed(c) => P1!GoodIn(c) /\ P1!Expressible(c)
<1> TAKE c
<1>1. P0!Good(c) => P1!GoodIn(c)
    BY Same0, Called0 DEF P0!Good, P1!GoodIn, P0!Byte, P1!Byte
<1>2. P0!Expressed(c) => P1!Expressible(c)
    BY Same0, Called0 DEF P0!Expressed, P1!Expressible
<1> QED
    BY <1>1, <1>2

LEMMA Sound0 == \A k \in Level0 : P0!Sound(k)
<1> TAKE k \in Level0
<1>1. Fits(Classes[k], Schemas[k]) /\ TypesIn(Classes[k], {})
    BY TablesFit, ClassesNest, Nesting0 DEF Level3, Level2, Level1
<1>2. \A f \in DOMAIN Classes[k].type : Classes[k].type[f] \in Scalars
    BY <1>1 DEF TypesIn
<1> QED
    BY <1>1, <1>2, FitsAt0 DEF P0!Sound, P0!Members, P0!TypeOf, P0!Scalars, P0!VarintTypes,
        Scalars, VarintTypes

LEMMA FitsAt1 == \A c, s : P1!Fits(c, s) <=> Fits(c, s)
BY DEF P1!Fits, Fits, P1!FitsMembers, FitsMembers, P1!FitsCopy, FitsCopy, P1!FitsClear,
    FitsClear, P1!FitsMerge, FitsMerge, P1!FitsSize, FitsSize, P1!FitsRows,
    FitsRows, P1!FitsInit, FitsInit, P1!FitsSizes, FitsSizes, P1!Always, Always,
    P1!FitsRow, FitsRow, P1!Scalars, Scalars, P1!SizeType, SizeType, P1!WireType,
    WireType, P1!Reads, Reads, P1!VarintTypes, VarintTypes

\* The methods of the classes of the fields are the methods of the level below.
LEMMA Called1 ==
    \A k, x, y :
        /\ P2!NewIn(k) = P1!New(k)
        /\ P2!MergeFromIn(k, x, y) = P1!MergeFrom(k, x, y)
        /\ P2!CopyIn(k, x) = P1!Copy(k, x)
        /\ P2!ClearIn(k, x) = P1!Clear(k, x)
        /\ P2!IsInitializedIn(k, x) <=> P1!IsInitialized(k, x)
        /\ P2!ByteSizeIn(k, x) = P1!ByteSize(k, x)
        /\ P2!SerializeIn(k, x) = P1!Serialize(k, x)
        /\ P2!ParseIn(k, x, y) = P1!Parse(k, x, y)
        /\ P2!BuildIn(k, x) = P1!Build(k, x)
        /\ P2!MeaningIn(k, x) = P1!Meaning(k, x)
<1> TAKE k, x, y
<1>1. P2!NewIn(k) = P1!New(k)
    BY Same1 DEF P2!NewIn, Methods1!Call
<1>2. P2!MergeFromIn(k, x, y) = P1!MergeFrom(k, x, y)
    BY Same1 DEF P2!MergeFromIn, Methods1!Call
<1>3. P2!CopyIn(k, x) = P1!Copy(k, x)
    BY Same1 DEF P2!CopyIn, Methods1!Call
<1>4. P2!ClearIn(k, x) = P1!Clear(k, x)
    BY Same1 DEF P2!ClearIn, Methods1!Call
<1>5. P2!IsInitializedIn(k, x) <=> P1!IsInitialized(k, x)
    BY Same1 DEF P2!IsInitializedIn, Methods1!Call
<1>6. P2!ByteSizeIn(k, x) = P1!ByteSize(k, x)
    BY Same1 DEF P2!ByteSizeIn, Methods1!Call
<1>7. P2!SerializeIn(k, x) = P1!Serialize(k, x)
    BY Same1 DEF P2!SerializeIn, Methods1!Call
<1>8. P2!ParseIn(k, x, y) = P1!Parse(k, x, y)
    BY Same1 DEF P2!ParseIn, Methods1!Call
<1>9. P2!BuildIn(k, x) = P1!Build(k, x)
    BY Same1 DEF P2!BuildIn, Methods1!Call
<1>10. P2!MeaningIn(k, x) = P1!Meaning(k, x)
    BY Same1 DEF P2!MeaningIn, Methods1!Call
<1> QED
    BY <1>1, <1>2, <1>3, <1>4, <1>5, <1>6, <1>7, <1>8, <1>9, <1>10

LEMMA Carry1 == \A c : P1!Good(c) /\ P1!Expressed(c) => P2!GoodIn(c) /\ P2!Expressible(c)
<1> TAKE c
<1>1. P1!Good(c) => P2!GoodIn(c)
    BY Same1, Called1 DEF P1!Good, P2!GoodIn, P1!Byte, P2!Byte
<1>2. P1!Expressed(c) => P2!Expressible(c)
    BY Same1, Called1 DEF P1!Expressed, P2!Expressible
<1> QED
    BY <1>1, <1>2

LEMMA Sound1 == \A k \in Level1 : P1!Sound(k)
<1> TAKE k \in Level1
<1>1. Fits(Classes[k], Schemas[k]) /\ TypesIn(Classes[k], Level0)
    BY TablesFit, ClassesNest, Nesting1 DEF Level3, Level2, Level1
<1>2. ASSUME NEW c \in Level0 PROVE P1!GoodIn(c) /\ P1!Expressible(c)
    <2>1. P0!Sound(c)
        BY Sound0
    <2>2. P0!Good(c) /\ P0!Expressed(c)
        BY <2>1, P0!Level
    <2> QED
        BY <2>2, Carry0
<1>3. \A f \in DOMAIN Classes[k].type : Classes[k].type[f] \in Scalars \cup Level0
    BY <1>1 DEF TypesIn
<1> QED
    BY <1>1, <1>2, <1>3, FitsAt1 DEF P1!Sound, P1!Members, P1!TypeOf, P1!Scalars,
        P1!VarintTypes, Scalars, VarintTypes

LEMMA FitsAt2 == \A c, s : P2!Fits(c, s) <=> Fits(c, s)
BY DEF P2!Fits, Fits, P2!FitsMembers, FitsMembers, P2!FitsCopy, FitsCopy, P2!FitsClear,
    FitsClear, P2!FitsMerge, FitsMerge, P2!FitsSize, FitsSize, P2!FitsRows,
    FitsRows, P2!FitsInit, FitsInit, P2!FitsSizes, FitsSizes, P2!Always, Always,
    P2!FitsRow, FitsRow, P2!Scalars, Scalars, P2!SizeType, SizeType, P2!WireType,
    WireType, P2!Reads, Reads, P2!VarintTypes, VarintTypes

\* The methods of the classes of the fields are the methods of the level below.
LEMMA Called2 ==
    \A k, x, y :
        /\ P3!NewIn(k) = P2!New(k)
        /\ P3!MergeFromIn(k, x, y) = P2!MergeFrom(k, x, y)
        /\ P3!CopyIn(k, x) = P2!Copy(k, x)
        /\ P3!ClearIn(k, x) = P2!Clear(k, x)
        /\ P3!IsInitializedIn(k, x) <=> P2!IsInitialized(k, x)
        /\ P3!ByteSizeIn(k, x) = P2!ByteSize(k, x)
        /\ P3!SerializeIn(k, x) = P2!Serialize(k, x)
        /\ P3!ParseIn(k, x, y) = P2!Parse(k, x, y)
        /\ P3!BuildIn(k, x) = P2!Build(k, x)
        /\ P3!MeaningIn(k, x) = P2!Meaning(k, x)
<1> TAKE k, x, y
<1>1. P3!NewIn(k) = P2!New(k)
    BY Same2 DEF P3!NewIn, Methods2!Call
<1>2. P3!MergeFromIn(k, x, y) = P2!MergeFrom(k, x, y)
    BY Same2 DEF P3!MergeFromIn, Methods2!Call
<1>3. P3!CopyIn(k, x) = P2!Copy(k, x)
    BY Same2 DEF P3!CopyIn, Methods2!Call
<1>4. P3!ClearIn(k, x) = P2!Clear(k, x)
    BY Same2 DEF P3!ClearIn, Methods2!Call
<1>5. P3!IsInitializedIn(k, x) <=> P2!IsInitialized(k, x)
    BY Same2 DEF P3!IsInitializedIn, Methods2!Call
<1>6. P3!ByteSizeIn(k, x) = P2!ByteSize(k, x)
    BY Same2 DEF P3!ByteSizeIn, Methods2!Call
<1>7. P3!SerializeIn(k, x) = P2!Serialize(k, x)
    BY Same2 DEF P3!SerializeIn, Methods2!Call
<1>8. P3!ParseIn(k, x, y) = P2!Parse(k, x, y)
    BY Same2 DEF P3!ParseIn, Methods2!Call
<1>9. P3!BuildIn(k, x) = P2!Build(k, x)
    BY Same2 DEF P3!BuildIn, Methods2!Call
<1>10. P3!MeaningIn(k, x) = P2!Meaning(k, x)
    BY Same2 DEF P3!MeaningIn, Methods2!Call
<1> QED
    BY <1>1, <1>2, <1>3, <1>4, <1>5, <1>6, <1>7, <1>8, <1>9, <1>10

LEMMA Carry2 == \A c : P2!Good(c) /\ P2!Expressed(c) => P3!GoodIn(c) /\ P3!Expressible(c)
<1> TAKE c
<1>1. P2!Good(c) => P3!GoodIn(c)
    BY Same2, Called2 DEF P2!Good, P3!GoodIn, P2!Byte, P3!Byte
<1>2. P2!Expressed(c) => P3!Expressible(c)
    BY Same2, Called2 DEF P2!Expressed, P3!Expressible
<1> QED
    BY <1>1, <1>2

LEMMA Sound2 == \A k \in Level2 : P2!Sound(k)
<1> TAKE k \in Level2
<1>1. Fits(Classes[k], Schemas[k]) /\ TypesIn(Classes[k], Level1)
    BY TablesFit, ClassesNest, Nesting2 DEF Level3, Level2, Level1
<1>2. ASSUME NEW c \in Level1 PROVE P2!GoodIn(c) /\ P2!Expressible(c)
    <2>1. P1!Sound(c)
        BY Sound1
    <2>2. P1!Good(c) /\ P1!Expressed(c)
        BY <2>1, P1!Level
    <2> QED
        BY <2>2, Carry1
<1>3. \A f \in DOMAIN Classes[k].type : Classes[k].type[f] \in Scalars \cup Level1
    BY <1>1 DEF TypesIn
<1> QED
    BY <1>1, <1>2, <1>3, FitsAt2 DEF P2!Sound, P2!Members, P2!TypeOf, P2!Scalars,
        P2!VarintTypes, Scalars, VarintTypes

LEMMA FitsAt3 == \A c, s : P3!Fits(c, s) <=> Fits(c, s)
BY DEF P3!Fits, Fits, P3!FitsMembers, FitsMembers, P3!FitsCopy, FitsCopy, P3!FitsClear,
    FitsClear, P3!FitsMerge, FitsMerge, P3!FitsSize, FitsSize, P3!FitsRows,
    FitsRows, P3!FitsInit, FitsInit, P3!FitsSizes, FitsSizes, P3!Always, Always,
    P3!FitsRow, FitsRow, P3!Scalars, Scalars, P3!SizeType, SizeType, P3!WireType,
    WireType, P3!Reads, Reads, P3!VarintTypes, VarintTypes

LEMMA Sound3 == \A k \in Level3 : P3!Sound(k)
<1> TAKE k \in Level3
<1>1. Fits(Classes[k], Schemas[k]) /\ TypesIn(Classes[k], Level2)
    BY TablesFit, ClassesNest, Nesting3 DEF Level3, Level2, Level1
<1>2. ASSUME NEW c \in Level2 PROVE P3!GoodIn(c) /\ P3!Expressible(c)
    <2>1. P2!Sound(c)
        BY Sound2
    <2>2. P2!Good(c) /\ P2!Expressed(c)
        BY <2>1, P2!Level
    <2> QED
        BY <2>2, Carry2
<1>3. \A f \in DOMAIN Classes[k].type : Classes[k].type[f] \in Scalars \cup Level2
    BY <1>1 DEF TypesIn
<1> QED
    BY <1>1, <1>2, <1>3, FitsAt3 DEF P3!Sound, P3!Members, P3!TypeOf, P3!Scalars,
        P3!VarintTypes, Scalars, VarintTypes

-----------------------------------------------------------------------------
(* The classes of the program *)

IsObject(k, m) == P3!Object(k, m)

LEMMA SoundClasses == \A k \in DOMAIN Classes : P3!Sound(k)
BY ClassesNest, Sound3

LEMMA NewActs ==
    ASSUME NEW k \in DOMAIN Classes
    PROVE  IsObject(k, New(k)) /\ Meaning(k, New(k)) = <<>>
<1>1. P3!Sound(k)
    BY SoundClasses
<1>2. P3!Plain(k, P3!New(k)) /\ P3!Meaning(k, P3!New(k)) = <<>>
    BY <1>1, P3!NewIsPlain, P3!NewMeansNothing
<1> QED
    BY <1>2, Same3 DEF IsObject, P3!Plain

\* What the link builds objects from are messages.
LEMMA LinkWords ==
    ASSUME NEW k \in DOMAIN Classes
    PROVE  /\ \A w \in Samples(k) : P3!Word(k, w)
           /\ \A x \in FieldsOf(k) : \A v \in Items(x) : P3!IsWordValue(x.type, v)
<1>1. P3!Sound(k)
    BY SoundClasses
<1>2. /\ \A w \in P3!Samples(k) : P3!Word(k, w)
      /\ \A x \in P3!FieldsOf(k) : \A v \in P3!Items(x) : P3!IsWordValue(x.type, v)
    BY <1>1, P3!WordsAre
<1>3. P3!Samples(k) = Samples(k) /\ P3!FieldsOf(k) = FieldsOf(k)
    BY SameUse
<1>4. \A x : P3!Items(x) = Items(x)
    BY SameUse
<1> QED
    BY <1>2, <1>3, <1>4

LEMMA SetActs ==
    ASSUME NEW k \in DOMAIN Classes, NEW m, IsObject(k, m),
           NEW x \in FieldsOf(k), x.label # "repeated", NEW v \in Items(x)
    PROVE  LET n == Set(k, m, x.name, Made(k, x.name, v))
           IN  /\ IsObject(k, n)
               /\ Meaning(k, n) = Abstract!With(Meaning(k, m), x.name, v)
<1>1. P3!Sound(k) /\ P3!IsWordValue(x.type, v) /\ x \in P3!FieldsOf(k)
    BY SoundClasses, LinkWords, SameUse
<1> DEFINE n == P3!Set(k, m, x.name, P3!Made(k, x.name, v))
           w == P3!Meaning(k, m)
<1>2. /\ P3!Object(k, n)
      /\ P3!Meaning(k, n) = [f \in DOMAIN w \cup {x.name} |-> IF f = x.name THEN v ELSE w[f]]
    BY <1>1, P3!SetSets DEF IsObject
<1>3. n = Set(k, m, x.name, Made(k, x.name, v))
    BY SameUse
<1>4. w = Meaning(k, m) /\ P3!Meaning(k, n) = Meaning(k, n)
    BY Same3
<1> HIDE DEF n, w
<1> QED
    BY <1>2, <1>3, <1>4 DEF IsObject, Abstract!With

LEMMA AddActs ==
    ASSUME NEW k \in DOMAIN Classes, NEW m, IsObject(k, m),
           NEW x \in FieldsOf(k), x.label = "repeated", NEW v \in Items(x)
    PROVE  LET n == Add(m, x.name, Made(k, x.name, v))
           IN  /\ IsObject(k, n)
               /\ Meaning(k, n) = Join(k, Meaning(k, m),
                                       Abstract!With(Abstract!NoField, x.name, <<v>>))
<1>1. P3!Sound(k) /\ P3!IsWordValue(x.type, v) /\ x \in P3!FieldsOf(k)
    BY SoundClasses, LinkWords, SameUse
<1> DEFINE n == P3!Add(m, x.name, P3!Made(k, x.name, v))
           z == P3!Alone(x.name, <<v>>)
<1>2. P3!Object(k, n) /\ P3!Meaning(k, n) = P3!Join(k, P3!Meaning(k, m), z)
    BY <1>1, P3!AddJoins DEF IsObject
<1>3. n = Add(m, x.name, Made(k, x.name, v))
    BY SameUse
<1>4. P3!Meaning(k, n) = Meaning(k, n) /\ P3!Meaning(k, m) = Meaning(k, m)
    BY Same3
<1>5. P3!Join(k, Meaning(k, m), z) = Join(k, Meaning(k, m), z)
    BY Same3
<1>6. z = Abstract!With(Abstract!NoField, x.name, <<v>>)
    BY DEF P3!Alone, Abstract!With, Abstract!NoField
<1> HIDE DEF n, z
<1> QED
    BY <1>2, <1>3, <1>4, <1>5, <1>6 DEF IsObject

LEMMA BuildActs ==
    ASSUME NEW k \in DOMAIN Classes, NEW w \in Samples(k)
    PROVE  /\ IsObject(k, Build(k, w)) /\ Build(k, w).unknown = <<>>
           /\ Meaning(k, Build(k, w)) = w
<1>1. P3!Sound(k) /\ P3!Word(k, w)
    BY SoundClasses, LinkWords
<1>2. P3!Plain(k, P3!Build(k, w)) /\ P3!Meaning(k, P3!Build(k, w)) = w
    BY <1>1, P3!BuildIs
<1> QED
    BY <1>2, Same3 DEF IsObject, P3!Plain

LEMMA MergeActs ==
    ASSUME NEW k \in DOMAIN Classes, NEW m, IsObject(k, m), NEW w \in Samples(k)
    PROVE  LET n == MergeFrom(k, m, Build(k, w))
           IN  IsObject(k, n) /\ Meaning(k, n) = Join(k, Meaning(k, m), w)
<1> DEFINE b == Build(k, w)
<1>1. P3!Sound(k) /\ P3!Object(k, m) /\ P3!Object(k, b) /\ b.unknown = <<>>
    BY SoundClasses, BuildActs DEF IsObject
<1>2. Meaning(k, b) = w
    BY BuildActs
<1> HIDE DEF b
<1>3. P3!Object(k, P3!MergeFrom(k, m, b))
    BY <1>1, P3!MergeIsObject
<1>4. P3!Meaning(k, P3!MergeFrom(k, m, b)) = P3!Join(k, P3!Meaning(k, m), P3!Meaning(k, b))
    BY <1>1, P3!MergeJoins
<1>5. P3!MergeFrom(k, m, b) = MergeFrom(k, m, b)
    BY Same3
<1>6. Meaning(k, MergeFrom(k, m, b)) = Join(k, Meaning(k, m), Meaning(k, b))
    BY <1>4, <1>5, Same3
<1> QED
    BY <1>2, <1>3, <1>5, <1>6 DEF IsObject, b

LEMMA AssignActs ==
    ASSUME NEW k \in DOMAIN Classes, NEW m, IsObject(k, m), NEW w \in Samples(k)
    PROVE  LET n == CopyFrom(k, m, Build(k, w))
           IN  IsObject(k, n) /\ Meaning(k, n) = w
<1> DEFINE b == Build(k, w)
<1>1. P3!Sound(k) /\ P3!Object(k, m) /\ P3!Object(k, b)
    BY SoundClasses, BuildActs DEF IsObject
<1>2. Meaning(k, b) = w
    BY BuildActs
<1> HIDE DEF b
<1>3. P3!CopyFrom(k, m, b) = b
    BY <1>1, P3!CopyFromCopies
<1>4. CopyFrom(k, m, b) = b
    BY <1>3, SameUse
<1> QED
    BY <1>1, <1>2, <1>4 DEF IsObject, b

LEMMA ForeignIs == P3!Stranger = Foreign
BY DEF P3!Stranger, Foreign, Tag, P3!Tag, Varint, P3!Varint, varint, P3!varint, WireType,
    P3!WireType, VarintTypes, P3!VarintTypes

LEMMA ParseActs ==
    ASSUME NEW k \in DOMAIN Classes, NEW m, IsObject(k, m), NEW w \in Samples(k),
           NEW more \in {<<>>, Foreign}, more = <<>> \/ m.unknown = <<>>,
           NEW n \in Parse(k, m, Serialize(k, Build(k, w)) \o more)
    PROVE  IsObject(k, n) /\ Meaning(k, n) = Join(k, Meaning(k, m), w)
<1>1. P3!Sound(k) /\ P3!Object(k, m) /\ P3!Word(k, w) /\ more \in {<<>>, P3!Stranger}
    BY SoundClasses, LinkWords, ForeignIs DEF IsObject
<1> DEFINE o == P3!Parsed(k, m, w, more)
<1>2. P3!Object(k, o) /\ P3!Meaning(k, o) = P3!Join(k, P3!Meaning(k, m), w)
    BY <1>1, P3!ParsedIs
<1> HIDE DEF o
<1>3. P3!Parse(k, m, P3!Serialize(k, P3!Build(k, w)) \o more) = {o}
    BY <1>1, P3!ParsedIs, Zenon DEF o
<1>4. P3!Build(k, w) = Build(k, w)
    BY Same3
<1>5. P3!Serialize(k, Build(k, w)) = Serialize(k, Build(k, w))
    BY Same3
<1>6. Parse(k, m, Serialize(k, Build(k, w)) \o more) = {o}
    BY <1>3, <1>4, <1>5, Same3
<1>7. n = o
    BY <1>6
<1>8. Meaning(k, n) = Join(k, Meaning(k, m), w)
    BY <1>2, <1>7, Same3
<1> QED
    BY <1>2, <1>7, <1>8 DEF IsObject

LEMMA ObjectActs ==
    ASSUME NEW k \in DOMAIN Classes, NEW m, IsObject(k, m)
    PROVE  /\ Serialize(k, m) = Encode(k, Meaning(k, m)) \o m.unknown
           /\ ByteSize(k, m) = Len(Serialize(k, m))
           /\ Parse(k, New(k), Serialize(k, m)) = {m}
           /\ IsInitialized(k, m) <=> Complete(k, Meaning(k, m))
           /\ Move(k, Copy(k, m)) = m
<1>1. P3!Sound(k) /\ P3!Object(k, m)
    BY SoundClasses DEF IsObject
<1>2. P3!Serialize(k, m) = P3!Encode(k, P3!Meaning(k, m)) \o m.unknown
    BY <1>1, P3!SerializeEncodes
<1>3. P3!ByteSize(k, m) = Len(P3!Serialize(k, m))
    BY <1>1, P3!ByteSizeIsLength
<1>4. P3!Parse(k, P3!New(k), P3!Serialize(k, m)) = {m}
    BY <1>1, P3!RoundTrips
<1>5. P3!IsInitialized(k, m) <=> P3!Complete(k, P3!Meaning(k, m))
    BY <1>1, P3!InitializedIs
<1>6. P3!Copy(k, m) = m /\ P3!Move(k, m) = m
    BY <1>1, P3!CopyIsSame
<1>7. Serialize(k, m) = Encode(k, Meaning(k, m)) \o m.unknown
    BY <1>2, Same3
<1>8. ByteSize(k, m) = Len(Serialize(k, m))
    BY <1>3, Same3
<1>9. Parse(k, New(k), Serialize(k, m)) = {m}
    BY <1>4, Same3
<1>10. IsInitialized(k, m) <=> Complete(k, Meaning(k, m))
    BY <1>5, Same3
<1>11. Copy(k, m) = m /\ Move(k, m) = m
    BY <1>6, Same3, SameUse
<1> QED
    BY <1>7, <1>8, <1>9, <1>10, <1>11

LEMMA FrameActs ==
    ASSUME NEW k \in DOMAIN Classes, NEW m, IsObject(k, m), NEW r \in Bytes
    PROVE  /\ sendMesgTo(k, m) \in Bytes
           /\ recvMesgFrom(k, sendMesgTo(k, m) \o r)
                = IF Complete(k, Meaning(k, m)) THEN {m} ELSE {}
<1>1. P3!Sound(k) /\ P3!Object(k, m) /\ r \in P3!Bytes
    BY SoundClasses DEF IsObject, Bytes, P3!Bytes
<1>2. /\ P3!sendMesgTo(k, m) \in P3!Bytes
      /\ P3!recvMesgFrom(k, P3!sendMesgTo(k, m) \o r)
           = IF P3!IsInitialized(k, m) THEN {m} ELSE {}
    BY <1>1, P3!FrameIsRead
<1>3. P3!sendMesgTo(k, m) = sendMesgTo(k, m)
    BY SameUse
<1>4. P3!IsInitialized(k, m) <=> Complete(k, Meaning(k, m))
    BY ObjectActs, Same3
<1>5. recvMesgFrom(k, sendMesgTo(k, m) \o r)
        = IF Complete(k, Meaning(k, m)) THEN {m} ELSE {}
    BY <1>2, <1>3, <1>4, SameUse
<1> QED
    BY <1>2, <1>3, <1>5 DEF Bytes, P3!Bytes

-----------------------------------------------------------------------------
(* Sequences *)

IsSeq(s) == s \in Seq({s[i] : i \in DOMAIN s})

LEMMA SeqAppend ==
    ASSUME NEW s, IsSeq(s), NEW x
    PROVE  /\ IsSeq(Append(s, x)) /\ Len(Append(s, x)) = Len(s) + 1 /\ Len(s) \in Nat
           /\ \A i \in DOMAIN s : i \in DOMAIN Append(s, x) /\ Append(s, x)[i] = s[i]
           /\ DOMAIN Append(s, x) = DOMAIN s \cup {Len(s) + 1}
           /\ Append(s, x)[Len(s) + 1] = x
<1> DEFINE R == {s[i] : i \in DOMAIN s}
           T == R \cup {x}
           a == Append(s, x)
<1>1. s \in Seq(R) /\ s \in Seq(T)
    <2>1. s \in Seq(R)
        BY DEF IsSeq
    <2>2. R \subseteq T
        OBVIOUS
    <2> HIDE DEF R, T
    <2> QED
        BY <2>1, <2>2, SeqMonotonic
<1> HIDE DEF R
<1>2. /\ a \in Seq(T) /\ Len(a) = Len(s) + 1 /\ Len(s) \in Nat /\ DOMAIN s = 1 .. Len(s)
      /\ \A i \in 1 .. Len(s) : a[i] = s[i]
      /\ a[Len(s) + 1] = x
    BY <1>1, AppendProperties, LenProperties
<1>3. DOMAIN a = 1 .. Len(s) + 1
    BY <1>2, LenProperties
<1> HIDE DEF a, T
<1>4. DOMAIN a = DOMAIN s \cup {Len(s) + 1}
    BY <1>2, <1>3
<1>5. a \in Seq({a[i] : i \in DOMAIN a})
    BY <1>2, <1>3, SeqOfRange, RangeEquality
<1> QED
    BY <1>2, <1>4, <1>5 DEF IsSeq, a

LEMMA ConcatBytes ==
    ASSUME NEW a \in Bytes, NEW b \in Bytes, NEW c \in Bytes
    PROVE  (a \o b) \o c = a \o (b \o c) /\ b \o c \in Bytes
<1>1. (a \o b) \o c = a \o (b \o c)
    BY ConcatAssociative DEF Bytes
<1>2. b \o c \in Bytes
    BY ConcatProperties DEF Bytes
<1> QED
    BY <1>1, <1>2

LEMMA DropIs ==
    ASSUME NEW T, NEW s \in Seq(T), NEW n \in 0 .. Len(s)
    PROVE  /\ Drop(s, n) \in Seq(T) /\ Len(Drop(s, n)) = Len(s) - n
           /\ Len(s) \in Nat
           /\ \A i \in DOMAIN Drop(s, n) : i + n \in DOMAIN s /\ Drop(s, n)[i] = s[i + n]
<1>1. Len(s) \in Nat /\ DOMAIN s = 1 .. Len(s) /\ n \in Nat /\ n <= Len(s)
    BY LenProperties
<1> DEFINE d == SubSeq(s, n + 1, Len(s))
<1>2. d \in Seq(T) /\ Len(d) = Len(s) - n /\ \A i \in 1 .. Len(s) - n : d[i] = s[i + n]
    <2>1. CASE n = Len(s)
        <3>1. d = <<>>
            BY <1>1, <2>1, SubSeqEmpty
        <3> QED
            BY <1>1, <2>1, <3>1, EmptySeq
    <2>2. CASE n # Len(s)
        <3>1. \A i \in n + 1 .. Len(s) : i \in 1 .. Len(s)
            BY <1>1
        <3>2. \A i \in n + 1 .. Len(s) : s[i] \in T
            BY <3>1, ElementOfSeq
        <3> DEFINE lo == n + 1
                   hi == Len(s)
        <3>3. lo \in Int /\ hi \in Int /\ d = SubSeq(s, lo, hi)
            BY <1>1
        <3> HIDE DEF d, lo, hi
        <3>4. /\ d \in Seq(T) /\ Len(d) = IF lo <= hi THEN hi - lo + 1 ELSE 0
              /\ \A i \in 1 .. hi - lo + 1 : d[i] = s[lo + i - 1]
            <4>1. \A i \in lo .. hi : s[i] \in T
                BY <3>2 DEF lo, hi
            <4> QED
                BY <3>3, <4>1, SubSeqProperties
        <3>5. lo <= hi /\ hi - lo + 1 = Len(s) - n
            <4> DEFINE l == Len(s)
            <4>1. l \in Nat /\ n \in Nat /\ n <= l /\ n # l
                BY <1>1, <2>2
            <4>2. lo = n + 1 /\ hi = l
                BY DEF lo, hi
            <4> HIDE DEF l
            <4>3. lo <= hi /\ hi - lo + 1 = l - n
                BY <4>1, <4>2
            <4> QED
                BY <4>3 DEF l
        <3>6. ASSUME NEW i \in 1 .. Len(s) - n PROVE d[i] = s[i + n]
            <4>1. lo + i - 1 = i + n
                BY <1>1 DEF lo
            <4>2. d[i] = s[lo + i - 1]
                BY <3>4, <3>5
            <4> QED
                BY <4>1, <4>2
        <3> QED
            BY <3>4, <3>5, <3>6
    <2> QED
        BY <2>1, <2>2
<1>3. DOMAIN d = 1 .. Len(s) - n
    BY <1>2, LenProperties
<1> HIDE DEF d
<1>4. \A i \in DOMAIN d : i + n \in DOMAIN s /\ d[i] = s[i + n]
    BY <1>1, <1>2, <1>3
<1>5. Drop(s, n) = d
    BY DEF Drop, d
<1> QED
    BY <1>1, <1>2, <1>4, <1>5

LEMMA SetToSeqIs ==
    /\ SetToSeq({}) = <<>>
    /\ \A x : SetToSeq({x}) = <<x>>
<1>1. SetToSeq({}) = <<>>
    <2>1. Cardinality({}) = 0
        BY FS_EmptySet
    <2>2. 1 .. 0 = {}
        OBVIOUS
    <2>3. <<>> \in [1 .. 0 -> {}] /\ IsInjective(<<>>)
        BY <2>2 DEF IsInjective
    <2>4. \A f \in [1 .. 0 -> {}] : f = <<>>
        BY <2>2
    <2> QED
        BY <2>1, <2>3, <2>4 DEF SetToSeq
<1>2. ASSUME NEW x PROVE SetToSeq({x}) = <<x>>
    <2>1. Cardinality({x}) = 1
        BY FS_Singleton
    <2>2. 1 .. 1 = {1}
        OBVIOUS
    <2>3. <<x>> \in [1 .. 1 -> {x}] /\ IsInjective(<<x>>)
        BY <2>2 DEF IsInjective
    <2>4. \A f \in [1 .. 1 -> {x}] : f = <<x>>
        BY <2>2
    <2> QED
        BY <2>1, <2>3, <2>4 DEF SetToSeq
<1> QED
    BY <1>1, <1>2

-----------------------------------------------------------------------------
(* The link *)

\* What handler threads get of the message m.
Delivered(m) == IF Complete(kind, Meaning(kind, m)) THEN <<m>> ELSE <<>>
\* What they get of the parsed frame j, or of a read that began inside a frame.
Handed(j) == IF j = 0 THEN <<Stray>> ELSE Delivered(sent[j])

\* The object in hand and the messages sent are objects of the class; the stream has the
\* frames of the last messages sent, the first of them whole unless it is torn; what was
\* received is what ReceivedWasSent says, of frames before the ones in the stream.
Messages ==
  /\ kind \in Kinds /\ IsObject(kind, msg)
  /\ IsSeq(sent) /\ \A i \in DOMAIN sent : IsObject(kind, sent[i])
Frames ==
  /\ stream \in Seq(Bytes) /\ Len(stream) <= Len(sent)
  /\ \A i \in DOMAIN stream :
       1 < i \/ ~torn => stream[i] = sendMesgTo(kind, sent[Len(sent) - Len(stream) + i])
Ascending == \A i, j \in DOMAIN read : i < j /\ 0 < read[i] /\ 0 < read[j] => read[i] < read[j]
Handled ==
  /\ read \in Seq(Nat) /\ \A i \in DOMAIN read : read[i] <= Len(sent) - Len(stream)
  /\ Ascending
  /\ received = FlattenSeq([i \in DOMAIN read |-> Handed(read[i])])
IInv == Messages /\ Frames /\ Handled

LEMMA FlattenSame == \A s : P3!FlattenSeq(s) = FlattenSeq(s)
BY DEF P3!FlattenSeq, FlattenSeq

LEMMA KindIsClass == ASSUME Messages PROVE kind \in DOMAIN Classes
BY LinkAssumption DEF Messages

LEMMA InitInv == Init => IInv
<1> SUFFICES ASSUME Init PROVE IInv
    OBVIOUS
<1>1. kind \in DOMAIN Classes /\ DOMAIN <<>> = {}
    BY LinkAssumption DEF Init
<1>2. Messages
    <2>1. IsObject(kind, msg)
        BY <1>1, NewActs DEF Init
    <2>2. IsSeq(sent)
        BY EmptySeq DEF Init, IsSeq
    <2> QED
        BY <1>1, <2>1, <2>2 DEF Messages, Init
<1>3. Frames
    BY <1>1, EmptySeq DEF Frames, Init
<1>4. Handled
    <2>1. [i \in DOMAIN read |-> Handed(read[i])] = <<>>
        BY <1>1 DEF Init
    <2>2. FlattenSeq(<<>>) = <<>>
        BY P3!FlattenNothing, FlattenSame
    <2> QED
        BY <1>1, <2>1, <2>2, EmptySeq DEF Handled, Ascending, Init
<1> QED
    BY <1>2, <1>3, <1>4 DEF IInv

\* The steps that fill the object leave the rest of the link alone.
LEMMA FillStep ==
    ASSUME IInv, UNCHANGED <<kind, sent, stream, torn, read, received>>, IsObject(kind, msg')
    PROVE  IInv'
<1>1. Messages'
    BY DEF IInv, Messages
<1>2. Frames'
    BY DEF IInv, Frames
<1>3. Handled'
    <2>1. \A i \in DOMAIN read : Handed(read[i])' = Handed(read[i])
        BY DEF Handed, Delivered
    <2> QED
        BY <2>1 DEF IInv, Handled, Ascending, Handed, Delivered
<1> QED
    BY <1>1, <1>2, <1>3 DEF IInv

LEMMA SetFieldStep == ASSUME IInv, SetField PROVE IInv' /\ Abstract!Next
<1>1. PICK x \in FieldsOf(kind) :
        x.label # "repeated" /\ msg' = Set(kind, msg, x.name, Made(kind, x.name, Value(x, "small")))
    BY DEF SetField
<1>2. kind \in DOMAIN Classes /\ IsObject(kind, msg)
    BY KindIsClass DEF IInv, Messages
<1>3. Value(x, "small") \in Items(x)
    BY DEF Items, Rules!Items, Value
<1>4. /\ IsObject(kind, msg')
      /\ Meaning(kind, msg') = Abstract!With(Meaning(kind, msg), x.name, Value(x, "small"))
    BY <1>1, <1>2, <1>3, SetActs
<1>5. UNCHANGED <<kind, sent, stream, torn, read, received>>
    BY DEF SetField, Filling
<1>6. Abstract!SetField
    BY <1>1, <1>4, <1>5 DEF Abstract!SetField
<1> QED
    BY <1>4, <1>5, <1>6, FillStep DEF Abstract!Next

LEMMA AddItemStep == ASSUME IInv, AddItem PROVE IInv' /\ Abstract!Next
<1>0. PICK x \in FieldsOf(kind) : \E v \in Items(x) :
        x.label = "repeated" /\ msg' = Add(msg, x.name, Made(kind, x.name, v))
    BY DEF AddItem
<1>1. PICK v \in Items(x) :
        x.label = "repeated" /\ msg' = Add(msg, x.name, Made(kind, x.name, v))
    BY <1>0
<1>2. kind \in DOMAIN Classes /\ IsObject(kind, msg)
    BY KindIsClass DEF IInv, Messages
<1>3. /\ IsObject(kind, msg')
      /\ Meaning(kind, msg') = Join(kind, Meaning(kind, msg),
                                    Abstract!With(Abstract!NoField, x.name, <<v>>))
    BY <1>1, <1>2, AddActs
<1>4. UNCHANGED <<kind, sent, stream, torn, read, received>>
    BY DEF AddItem, Filling
<1>5. Abstract!AddItem
    BY <1>1, <1>3, <1>4 DEF Abstract!AddItem
<1> QED
    BY <1>3, <1>4, <1>5, FillStep DEF Abstract!Next

LEMMA MergeStep == ASSUME IInv, Merge PROVE IInv' /\ Abstract!Next
<1>1. PICK w \in Samples(kind) : msg' = MergeFrom(kind, msg, Build(kind, w))
    BY DEF Merge
<1>2. kind \in DOMAIN Classes /\ IsObject(kind, msg)
    BY KindIsClass DEF IInv, Messages
<1>3. IsObject(kind, msg') /\ Meaning(kind, msg') = Join(kind, Meaning(kind, msg), w)
    BY <1>1, <1>2, MergeActs
<1>4. UNCHANGED <<kind, sent, stream, torn, read, received>>
    BY DEF Merge, Filling
<1>5. Abstract!MergeWith
    BY <1>3, <1>4 DEF Abstract!MergeWith
<1> QED
    BY <1>3, <1>4, <1>5, FillStep DEF Abstract!Next

LEMMA AssignStep == ASSUME IInv, Assign PROVE IInv' /\ Abstract!Next
<1>1. PICK w \in Samples(kind) : msg' = CopyFrom(kind, msg, Build(kind, w))
    BY DEF Assign
<1>2. kind \in DOMAIN Classes /\ IsObject(kind, msg)
    BY KindIsClass DEF IInv, Messages
<1>3. IsObject(kind, msg') /\ Meaning(kind, msg') = w
    BY <1>1, <1>2, AssignActs
<1>4. UNCHANGED <<kind, sent, stream, torn, read, received>>
    BY DEF Assign, Filling
<1>5. Abstract!Assign
    BY <1>3, <1>4 DEF Abstract!Assign
<1> QED
    BY <1>3, <1>4, <1>5, FillStep DEF Abstract!Next

LEMMA ParseMoreStep == ASSUME IInv, ParseMore PROVE IInv' /\ Abstract!Next
<1>1. PICK w \in Samples(kind), more \in {<<>>, Foreign} :
        /\ more = <<>> \/ msg.unknown = <<>>
        /\ msg' \in Parse(kind, msg, Serialize(kind, Build(kind, w)) \o more)
    BY DEF ParseMore
<1>2. kind \in DOMAIN Classes /\ IsObject(kind, msg)
    BY KindIsClass DEF IInv, Messages
<1>3. IsObject(kind, msg') /\ Meaning(kind, msg') = Join(kind, Meaning(kind, msg), w)
    BY <1>1, <1>2, ParseActs
<1>4. UNCHANGED <<kind, sent, stream, torn, read, received>>
    BY DEF ParseMore, Filling
<1>5. Abstract!MergeWith
    BY <1>3, <1>4 DEF Abstract!MergeWith
<1> QED
    BY <1>3, <1>4, <1>5, FillStep DEF Abstract!Next

LEMMA SendStep == ASSUME IInv, Send PROVE IInv' /\ Abstract!Next
<1> DEFINE frame == sendMesgTo(kind, msg)
<1>1. /\ sent' = Append(sent, msg) /\ stream' = Append(stream, frame) /\ msg' = New(kind)
      /\ kind' = kind /\ torn' = torn /\ read' = read /\ received' = received
    BY DEF Send
<1>2. /\ kind \in DOMAIN Classes /\ IsObject(kind, msg) /\ IsSeq(sent)
      /\ \A i \in DOMAIN sent : IsObject(kind, sent[i])
    BY KindIsClass DEF IInv, Messages
<1>3. IsObject(kind, msg') /\ Meaning(kind, msg') = <<>>
    BY <1>1, <1>2, NewActs
<1>4. frame \in Bytes
    <2>1. <<>> \in Bytes
        BY EmptySeq DEF Bytes
    <2> QED
        BY <1>2, <2>1, FrameActs
<1>5. /\ IsSeq(sent') /\ Len(sent') = Len(sent) + 1 /\ Len(sent) \in Nat
      /\ \A i \in DOMAIN sent : i \in DOMAIN sent' /\ sent'[i] = sent[i]
      /\ DOMAIN sent' = DOMAIN sent \cup {Len(sent) + 1}
      /\ sent'[Len(sent) + 1] = msg
      /\ DOMAIN sent = 1 .. Len(sent)
    <2>1. DOMAIN sent = 1 .. Len(sent)
        BY <1>2, LenProperties DEF IsSeq
    <2> HIDE DEF frame
    <2> QED
        BY <1>1, <1>2, <2>1, SeqAppend
<1>6. Messages'
    BY <1>1, <1>2, <1>3, <1>5 DEF IInv, Messages
<1>7. Frames'
    <2> HIDE DEF frame
    <2>1. /\ stream \in Seq(Bytes) /\ Len(stream) <= Len(sent)
          /\ \A i \in DOMAIN stream : 1 < i \/ ~torn =>
               stream[i] = sendMesgTo(kind, sent[Len(sent) - Len(stream) + i])
        BY DEF IInv, Frames
    <2>2. /\ stream' \in Seq(Bytes) /\ Len(stream') = Len(stream) + 1 /\ Len(stream) \in Nat
          /\ \A i \in 1 .. Len(stream) : stream'[i] = stream[i]
          /\ stream'[Len(stream) + 1] = frame
          /\ DOMAIN stream' = 1 .. Len(stream) + 1 /\ DOMAIN stream = 1 .. Len(stream)
        BY <1>1, <1>4, <2>1, AppendProperties, LenProperties
    <2>3. ASSUME NEW i \in DOMAIN stream', 1 < i \/ ~torn
          PROVE  stream'[i] = sendMesgTo(kind, sent'[Len(sent') - Len(stream') + i])
        <3>1. Len(sent') - Len(stream') + i = Len(sent) - Len(stream) + i
            BY <1>5, <2>2
        <3>2. CASE i \in 1 .. Len(stream)
            <4>1. Len(sent) - Len(stream) + i \in DOMAIN sent
                BY <1>5, <2>1, <2>2, <3>2
            <4> QED
                BY <1>5, <2>1, <2>2, <2>3, <3>1, <3>2, <4>1
        <3>3. CASE i = Len(stream) + 1
            <4>1. Len(sent) - Len(stream) + i = Len(sent) + 1
                BY <1>5, <2>2, <3>3
            <4> QED
                BY <1>5, <2>2, <3>1, <3>3, <4>1 DEF frame
        <3> QED
            BY <2>2, <3>2, <3>3
    <2> QED
        BY <1>1, <1>5, <2>1, <2>2, <2>3 DEF Frames
<1>8. Handled'
    <2>1. /\ read \in Seq(Nat) /\ \A i \in DOMAIN read : read[i] <= Len(sent) - Len(stream)
          /\ Ascending /\ received = FlattenSeq([i \in DOMAIN read |-> Handed(read[i])])
        BY DEF IInv, Handled
    <2>2. Len(sent') - Len(stream') = Len(sent) - Len(stream) /\ Len(stream) \in Nat
        <3> HIDE DEF frame
        <3>1. stream \in Seq(Bytes)
            BY DEF IInv, Frames
        <3>2. Len(stream') = Len(stream) + 1 /\ Len(stream) \in Nat
            BY <1>1, <1>4, <3>1, AppendProperties, LenProperties
        <3> QED
            BY <1>5, <3>2
    <2>3. \A i \in DOMAIN read : read[i] # 0 => sent'[read[i]] = sent[read[i]]
        <3>1. \A i \in DOMAIN read : read[i] # 0 => read[i] \in DOMAIN sent
            <4>1. \A i \in DOMAIN read : read[i] \in Nat
                BY <2>1, ElementOfSeq, LenProperties
            <4> QED
                BY <1>5, <2>1, <2>2, <4>1
        <3> QED
            BY <1>5, <3>1
    <2>4. [i \in DOMAIN read |-> Handed(read[i])] = [i \in DOMAIN read' |-> Handed(read[i])']
        BY <1>1, <2>3 DEF Handed, Delivered
    <2> QED
        BY <1>1, <2>1, <2>2, <2>4 DEF Handled, Ascending
<1>9. Abstract!Renew
    BY <1>3, <1>1 DEF Abstract!Renew, Abstract!NoField
<1> QED
    BY <1>1, <1>6, <1>7, <1>8, <1>9 DEF IInv, Abstract!Next

\* One more entry of read is one more step of what handler threads get.
LEMMA HandledAppend ==
    ASSUME IInv, NEW j \in DOMAIN sent \cup {0}
    PROVE  FlattenSeq([i \in DOMAIN Append(read, j) |-> Handed(Append(read, j)[i])])
             = FlattenSeq([i \in DOMAIN read |-> Handed(read[i])]) \o Handed(j)
<1> DEFINE T == {sent[i] : i \in DOMAIN sent} \cup {Stray}
           x == Handed(j)
           r == Append(read, j)
           D == [i \in DOMAIN read |-> Handed(read[i])]
           E == [i \in DOMAIN r |-> Handed(r[i])]
<1>1. read \in Seq(Nat) /\ (\A i \in DOMAIN read : read[i] \in DOMAIN sent \cup {0}) /\ j \in Nat
    <2>1. DOMAIN sent = 1 .. Len(sent) /\ Len(sent) \in Nat /\ Len(stream) \in Nat
        BY LenProperties DEF IInv, Messages, Frames, IsSeq
    <2>2. read \in Seq(Nat) /\ \A i \in DOMAIN read : read[i] <= Len(sent) - Len(stream)
        BY DEF IInv, Handled
    <2>3. \A i \in DOMAIN read : read[i] \in Nat
        BY <2>2, ElementOfSeq, LenProperties
    <2> QED
        BY <2>1, <2>2, <2>3
<1>2. \A i \in DOMAIN sent \cup {0} : Handed(i) \in Seq(T)
    <2>1. Stray \in T /\ \A i \in DOMAIN sent : sent[i] \in T
        OBVIOUS
    <2> HIDE DEF T
    <2>2. <<>> \in Seq(T) /\ \A m \in T : <<m>> \in Seq(T)
        BY EmptySeq
    <2> QED
        BY <2>1, <2>2 DEF Handed, Delivered
<1>3. /\ Len(r) = Len(read) + 1 /\ Len(read) \in Nat /\ DOMAIN read = 1 .. Len(read)
      /\ DOMAIN r = 1 .. Len(read) + 1
      /\ (\A i \in 1 .. Len(read) : r[i] = read[i]) /\ r[Len(read) + 1] = j
    BY <1>1, AppendProperties, LenProperties
<1> HIDE DEF T, r
<1>4. D \in Seq(Seq(T)) /\ Len(D) = Len(read)
    <2>1. D \in [1 .. Len(read) -> Seq(T)]
        BY <1>1, <1>2, <1>3
    <2> HIDE DEF D
    <2> QED
        BY <1>3, <2>1, SeqDef
<1>5. E \in Seq(Seq(T)) /\ Len(E) = Len(read) + 1
    <2>1. \A i \in 1 .. Len(read) + 1 : r[i] \in DOMAIN sent \cup {0}
        BY <1>1, <1>3
    <2>2. E \in [1 .. Len(read) + 1 -> Seq(T)]
        BY <1>2, <1>3, <2>1
    <2> HIDE DEF E
    <2> QED
        BY <1>3, <2>2, SeqDef
<1>6. x \in Seq(T)
    BY <1>2
<1>7. (\A i \in 1 .. Len(read) : E[i] = D[i]) /\ E[Len(read) + 1] = x
    BY <1>3
<1> HIDE DEF D, E, x
<1>8. E = Append(D, x)
    <2>1. /\ Append(D, x) \in Seq(Seq(T)) /\ Len(Append(D, x)) = Len(D) + 1
          /\ (\A i \in 1 .. Len(D) : Append(D, x)[i] = D[i]) /\ Append(D, x)[Len(D) + 1] = x
        BY <1>4, <1>6, AppendProperties
    <2>2. \A i \in 1 .. Len(E) : E[i] = Append(D, x)[i]
        BY <1>3, <1>4, <1>5, <1>7, <2>1
    <2> QED
        BY <1>4, <1>5, <2>1, <2>2, SeqEqual
<1>9. P3!FlattenSeq(Append(D, x)) = P3!FlattenSeq(D) \o x
    BY <1>4, <1>6, P3!FlattenAppend
<1>10. FlattenSeq(E) = FlattenSeq(D) \o x
    BY <1>8, <1>9, FlattenSame
<1> QED
    BY <1>10 DEF D, E, x, r

\* A read takes away whole frames, and may tear the one after them.
LEMMA ConsumeStep ==
    ASSUME IInv, UNCHANGED <<kind, sent>>,
           NEW n \in 0 .. Len(stream), NEW m \in Inside(n), n + m > 0, Consume(n, m)
    PROVE  Frames' /\ Len(stream') = Len(stream) - n /\ Len(stream) \in Nat
<1> DEFINE cut == [i \in DOMAIN stream |-> IF i = n + 1 THEN Drop(stream[i], m) ELSE stream[i]]
<1>1. /\ stream \in Seq(Bytes) /\ Len(stream) <= Len(sent)
      /\ \A i \in DOMAIN stream : 1 < i \/ ~torn =>
           stream[i] = sendMesgTo(kind, sent[Len(sent) - Len(stream) + i])
    BY DEF IInv, Frames
<1>2. Len(stream) \in Nat /\ DOMAIN stream = 1 .. Len(stream) /\ n \in Nat
    BY <1>1, LenProperties
<1>3. Len(sent) \in Nat
    BY LenProperties DEF IInv, Messages, IsSeq
<1>4. ASSUME NEW i \in DOMAIN stream
      PROVE  m \in Nat /\ stream[i] \in Bytes /\ (i = n + 1 => Drop(stream[i], m) \in Bytes)
    <2>1. stream[i] \in Bytes
        BY <1>1, <1>2, ElementOfSeq
    <2>2. Len(stream[i]) \in Nat
        BY <2>1, LenProperties DEF Bytes
    <2>3. CASE i = n + 1
        <3>1. n < Len(stream)
            BY <1>2, <2>3
        <3>2. m \in 0 .. Len(stream[i])
            BY <2>2, <2>3, <3>1 DEF Inside
        <3> QED
            BY <2>1, <3>2, DropIs DEF Bytes
    <2>4. CASE i # n + 1
        <3>1. m \in Nat
            BY DEF Inside
        <3> QED
            BY <2>1, <2>4, <3>1
    <2> QED
        BY <2>3, <2>4
<1>5. cut \in Seq(Bytes) /\ Len(cut) = Len(stream) /\ DOMAIN cut = DOMAIN stream
    <2>1. cut \in [1 .. Len(stream) -> Bytes]
        BY <1>2, <1>4
    <2>2. DOMAIN cut = DOMAIN stream
        OBVIOUS
    <2> HIDE DEF cut
    <2> QED
        BY <1>2, <2>1, <2>2, SeqDef
<1>6. \A i \in DOMAIN stream : i # n + 1 => cut[i] = stream[i]
    OBVIOUS
<1>7. ASSUME m = 0, NEW i \in DOMAIN stream PROVE cut[i] = stream[i]
    <2>1. stream[i] \in Bytes
        BY <1>4
    <2>2. Drop(stream[i], 0) = stream[i]
        BY <2>1, SubSeqFull DEF Drop, Bytes
    <2> QED
        BY <1>7, <2>2
<1>8. stream' = Drop(cut, n) /\ torn' = (m > 0)
    BY DEF Consume
<1> HIDE DEF cut
<1>9. /\ stream' \in Seq(Bytes) /\ Len(stream') = Len(stream) - n
      /\ \A i \in DOMAIN stream' : i + n \in DOMAIN stream /\ stream'[i] = cut[i + n]
    <2>1. n \in 0 .. Len(cut)
        BY <1>5
    <2>2. /\ Drop(cut, n) \in Seq(Bytes) /\ Len(Drop(cut, n)) = Len(cut) - n
          /\ \A i \in DOMAIN Drop(cut, n) : i + n \in DOMAIN cut /\ Drop(cut, n)[i] = cut[i + n]
        BY <1>5, <2>1, DropIs
    <2> QED
        BY <1>5, <1>8, <2>2
<1>10. DOMAIN stream' = 1 .. Len(stream')
    BY <1>9, LenProperties
<1>11. ASSUME NEW i \in DOMAIN stream', 1 < i \/ ~torn'
       PROVE  stream'[i] = sendMesgTo(kind, sent[Len(sent) - Len(stream') + i])
    <2>1. i \in Nat /\ 0 < i /\ i + n \in DOMAIN stream
        BY <1>2, <1>9, <1>10
    <2>2. Len(sent) - Len(stream') + i = Len(sent) - Len(stream) + (i + n)
        BY <1>2, <1>3, <1>9, <2>1
    <2>3. m \in Nat
        BY <1>4, <2>1
    <2>4. cut[i + n] = stream[i + n]
        <3>1. CASE 1 < i
            BY <1>2, <1>6, <2>1, <3>1
        <3>2. CASE ~torn'
            <4>0. ~(m > 0)
                BY <1>8, <3>2, Zenon
            <4>1. m = 0
                BY <2>3, <4>0
            <4> QED
                BY <1>7, <2>1, <4>1
        <3> QED
            BY <1>11, <3>1, <3>2
    <2>5. 1 < i + n
        <3>1. CASE 1 < i
            BY <1>2, <2>1, <3>1
        <3>2. CASE ~torn'
            <4>0. ~(m > 0)
                BY <1>8, <3>2, Zenon
            <4>1. m = 0
                BY <2>3, <4>0
            <4>2. n > 0
                BY <1>2, <4>1
            <4> QED
                BY <1>2, <2>1, <4>2
        <3> QED
            BY <1>11, <3>1, <3>2
    <2>6. stream[i + n] = sendMesgTo(kind, sent[Len(sent) - Len(stream) + (i + n)])
        BY <1>1, <2>1, <2>5
    <2> QED
        BY <1>9, <2>2, <2>4, <2>6
<1>12. Len(stream') <= Len(sent)
    BY <1>1, <1>2, <1>3, <1>9
<1> QED
    BY <1>2, <1>9, <1>11, <1>12 DEF Frames

\* What a read brings is parsed as its first frame, whatever follows it in the buffer.
LEMMA FrameOfRead ==
    ASSUME IInv, ~torn, NEW n \in DOMAIN stream, NEW m \in Inside(n)
    PROVE  LET j == Len(sent) - Len(stream) + 1
               found == recvMesgFrom(kind, Buffer(n, m))
           IN  /\ j \in DOMAIN sent
               /\ SetToSeq({Move(kind, Copy(kind, p)) : p \in found}) = Delivered(sent[j])
<1> DEFINE j == Len(sent) - Len(stream) + 1
           o == sent[j]
           rest == SubSeq(stream, 2, n)
           part == IF m = 0 THEN <<>> ELSE SubSeq(stream[n + 1], 1, m)
           found == recvMesgFrom(kind, Buffer(n, m))
<1>1. /\ stream \in Seq(Bytes) /\ Len(stream) <= Len(sent)
      /\ \A i \in DOMAIN stream : stream[i] = sendMesgTo(kind, sent[Len(sent) - Len(stream) + i])
    BY DEF IInv, Frames
<1>2. /\ Len(stream) \in Nat /\ DOMAIN stream = 1 .. Len(stream) /\ n \in 1 .. Len(stream)
      /\ 1 \in 1 .. Len(stream)
    BY <1>1, LenProperties
<1>3. DOMAIN sent = 1 .. Len(sent) /\ Len(sent) \in Nat
    BY LenProperties DEF IInv, Messages, IsSeq
<1>4. j \in DOMAIN sent
    BY <1>1, <1>2, <1>3
<1>5. kind \in DOMAIN Classes /\ IsObject(kind, o)
    BY <1>4, KindIsClass DEF IInv, Messages
<1>6. stream[1] = sendMesgTo(kind, o)
    BY <1>1, <1>2
<1> HIDE DEF o
<1>7. stream[1] \in Bytes /\ rest \in Seq(Bytes) /\ part \in Bytes
    <2>1. stream[1] \in Bytes
        BY <1>1, <1>2, ElementOfSeq
    <2>2. rest \in Seq(Bytes)
        <3>1. \A i \in 2 .. n : stream[i] \in Bytes
            BY <1>1, <1>2, ElementOfSeq
        <3> QED
            BY <1>2, <3>1, SubSeqProperties
    <2>3. CASE m = 0
        BY <2>1, <2>2, <2>3, EmptySeq DEF Bytes
    <2>4. CASE m # 0
        <3>1. n < Len(stream)
            BY <1>2, <2>4 DEF Inside
        <3>2. stream[n + 1] \in Bytes
            BY <1>1, <1>2, <3>1, ElementOfSeq
        <3>3. Len(stream[n + 1]) \in Nat /\ DOMAIN stream[n + 1] = 1 .. Len(stream[n + 1])
            BY <3>2, LenProperties DEF Bytes
        <3>4. m \in 1 .. Len(stream[n + 1])
            BY <2>4, <3>1, <3>3 DEF Inside
        <3>5. \A i \in 1 .. m : stream[n + 1][i] \in Nat
            BY <3>2, <3>3, <3>4, ElementOfSeq DEF Bytes
        <3>6. SubSeq(stream[n + 1], 1, m) \in Bytes
            BY <3>3, <3>4, <3>5, SubSeqProperties DEF Bytes
        <3> QED
            BY <2>1, <2>2, <2>4, <3>6
    <2> QED
        BY <2>3, <2>4
<1>8. SubSeq(stream, 1, n) = <<stream[1]>> \o rest
    BY <1>1, <1>2, SubSeqRecursiveFirst
<1> HIDE DEF rest
<1>9. FlattenSeq(SubSeq(stream, 1, n)) = stream[1] \o FlattenSeq(rest) /\ FlattenSeq(rest) \in Bytes
    <2>1. P3!FlattenSeq(<<stream[1]>> \o rest) = stream[1] \o P3!FlattenSeq(rest)
        BY <1>7, P3!FlattenFirst DEF Bytes
    <2>2. P3!FlattenSeq(rest) \in Seq(Nat)
        BY <1>7, P3!FlattenType DEF Bytes
    <2> QED
        BY <1>8, <2>1, <2>2, FlattenSame DEF Bytes
<1>10. found = IF Complete(kind, Meaning(kind, o)) THEN {o} ELSE {}
    <2> DEFINE more == FlattenSeq(rest) \o part
    <2>1. Buffer(n, m) = (stream[1] \o FlattenSeq(rest)) \o part
        BY <1>9 DEF Buffer
    <2> HIDE DEF part
    <2>2. Buffer(n, m) = stream[1] \o more /\ more \in Bytes
        BY <1>7, <1>9, <2>1, ConcatBytes
    <2> HIDE DEF more
    <2> QED
        BY <1>5, <1>6, <2>2, FrameActs
<1> HIDE DEF found
<1>11. {Move(kind, Copy(kind, p)) : p \in found} = found
    <2>1. Move(kind, Copy(kind, o)) = o
        BY <1>5, ObjectActs
    <2> QED
        BY <1>10, <2>1
<1>12. SetToSeq(found) = Delivered(o)
    BY <1>10, SetToSeqIs DEF Delivered
<1> QED
    BY <1>4, <1>11, <1>12 DEF found, o

\* A read that handed over what Handed says of j, later in the order than what was read.
LEMMA HandedStep ==
    ASSUME IInv, UNCHANGED <<kind, sent>>, Frames', Len(stream') <= Len(stream),
           NEW j \in Nat, j <= Len(sent) - Len(stream'), j = 0 \/ j > Len(sent) - Len(stream),
           read' = Append(read, j), received' = received \o Handed(j)
    PROVE  Handled'
<1>1. /\ read \in Seq(Nat) /\ \A i \in DOMAIN read : read[i] <= Len(sent) - Len(stream)
      /\ Ascending /\ received = FlattenSeq([i \in DOMAIN read |-> Handed(read[i])])
    BY DEF IInv, Handled
<1>2. /\ Len(sent) \in Nat /\ DOMAIN sent = 1 .. Len(sent)
      /\ Len(stream) \in Nat /\ Len(stream') \in Nat
    BY LenProperties DEF IInv, Messages, Frames, IsSeq
<1>3. /\ read' \in Seq(Nat) /\ DOMAIN read' = 1 .. Len(read) + 1 /\ Len(read) \in Nat
      /\ DOMAIN read = 1 .. Len(read)
      /\ (\A i \in 1 .. Len(read) : read'[i] = read[i]) /\ read'[Len(read) + 1] = j
    BY <1>1, AppendProperties, LenProperties
<1>4. \A i \in 1 .. Len(read) : read[i] \in Nat
    BY <1>1, <1>3, ElementOfSeq
<1>5. \A i \in DOMAIN read' : read'[i] <= Len(sent) - Len(stream')
    BY <1>1, <1>2, <1>3, <1>4
<1>6. Ascending'
    <2> SUFFICES ASSUME NEW a \in DOMAIN read', NEW b \in DOMAIN read',
                        a < b, 0 < read'[a], 0 < read'[b]
                 PROVE  read'[a] < read'[b]
        BY DEF Ascending
    <2>1. a \in 1 .. Len(read) /\ read'[a] = read[a]
        BY <1>3
    <2>2. CASE b \in 1 .. Len(read)
        BY <1>1, <1>3, <2>1, <2>2 DEF Ascending
    <2>3. CASE b = Len(read) + 1
        <3>1. read'[b] = j /\ j # 0
            BY <1>3, <2>3
        <3>2. read[a] \in Nat /\ read[a] <= Len(sent) - Len(stream)
            BY <1>1, <1>3, <1>4, <2>1
        <3> QED
            BY <1>2, <2>1, <3>1, <3>2
    <2> QED
        BY <1>3, <2>2, <2>3
<1>7. received' = FlattenSeq([i \in DOMAIN read' |-> Handed(read'[i])])
    <2>1. j \in DOMAIN sent \cup {0}
        BY <1>2
    <2> QED
        BY <1>1, <2>1, HandledAppend
<1>8. [i \in DOMAIN read' |-> Handed(read'[i])] = [i \in DOMAIN read' |-> Handed(read[i])']
    BY DEF Handed, Delivered
<1> QED
    BY <1>3, <1>5, <1>6, <1>7, <1>8 DEF Handled

LEMMA ReceiveStep == ASSUME IInv, Receive PROVE IInv' /\ UNCHANGED <<kind, msg>>
<1> DEFINE j == Len(sent) - Len(stream) + 1
<1>0. PICK n \in DOMAIN stream : \E m \in Inside(n) :
        /\ received' = received \o SetToSeq({Move(kind, Copy(kind, o)) :
                         o \in recvMesgFrom(kind, Buffer(n, m))})
        /\ Consume(n, m)
    BY DEF Receive
<1>1. PICK m \in Inside(n) :
        /\ received' = received \o SetToSeq({Move(kind, Copy(kind, o)) :
                         o \in recvMesgFrom(kind, Buffer(n, m))})
        /\ Consume(n, m)
    BY <1>0
<1>2. kind' = kind /\ msg' = msg /\ sent' = sent /\ ~torn /\ read' = Append(read, j)
    BY DEF Receive
<1>3. j \in DOMAIN sent /\ received' = received \o Delivered(sent[j])
    BY <1>1, <1>2, FrameOfRead
<1>4. DOMAIN sent = 1 .. Len(sent) /\ Len(sent) \in Nat
    BY LenProperties DEF IInv, Messages, IsSeq
<1>5. Messages'
    BY <1>2 DEF IInv, Messages
<1>6. Len(stream) \in Nat /\ n \in 1 .. Len(stream) /\ m \in Nat
    <2>1. Len(stream) \in Nat /\ DOMAIN stream = 1 .. Len(stream)
        BY LenProperties DEF IInv, Frames
    <2>2. m \in Nat
        BY DEF Inside
    <2> QED
        BY <2>1, <2>2
<1>7. Frames' /\ Len(stream') = Len(stream) - n
    <2>1. n \in 0 .. Len(stream) /\ n + m > 0
        BY <1>6
    <2> QED
        BY <1>1, <1>2, <2>1, ConsumeStep
<1>8. Handled'
    <2>1. /\ j \in Nat /\ j # 0 /\ j <= Len(sent) - Len(stream') /\ j > Len(sent) - Len(stream)
          /\ Len(stream') <= Len(stream)
        BY <1>3, <1>4, <1>6, <1>7
    <2> HIDE DEF j
    <2>2. received' = received \o Handed(j)
        BY <1>3, <2>1 DEF Handed
    <2> QED
        BY <1>2, <1>7, <2>1, <2>2, HandedStep
<1> QED
    BY <1>2, <1>5, <1>7, <1>8 DEF IInv

LEMMA ReceiveTornStep == ASSUME IInv, ReceiveTorn PROVE IInv' /\ UNCHANGED <<kind, msg>>
<1>0. PICK n \in 0 .. Len(stream) : \E m \in Inside(n) : n + m > 0 /\ Consume(n, m)
    BY DEF ReceiveTorn
<1>1. PICK m \in Inside(n) : n + m > 0 /\ Consume(n, m)
    BY <1>0
<1>2. kind' = kind /\ msg' = msg /\ sent' = sent
    BY DEF ReceiveTorn
<1>3. Messages'
    BY <1>2 DEF IInv, Messages
<1>4. Frames' /\ Len(stream') = Len(stream) - n /\ Len(stream) \in Nat
    BY <1>1, <1>2, ConsumeStep
<1>5. Len(sent) \in Nat /\ Len(stream') \in Nat /\ Len(stream') <= Len(stream)
      /\ Len(stream') <= Len(sent)
    <2>1. Len(sent) \in Nat /\ Len(stream') \in Nat
        BY <1>4, LenProperties DEF IInv, Messages, Frames, IsSeq
    <2>2. Len(stream') <= Len(sent)
        BY <1>2, <1>4 DEF Frames
    <2>3. n \in Nat
        BY <1>4
    <2> QED
        BY <1>4, <2>1, <2>2, <2>3
<1>6. CASE UNCHANGED <<read, received>>
    <2>1. /\ read \in Seq(Nat) /\ \A i \in DOMAIN read : read[i] <= Len(sent) - Len(stream)
          /\ Ascending /\ received = FlattenSeq([i \in DOMAIN read |-> Handed(read[i])])
        BY DEF IInv, Handled
    <2>2. \A i \in DOMAIN read : read[i] \in Nat
        BY <2>1, ElementOfSeq, LenProperties
    <2>3. \A i \in DOMAIN read : read[i] <= Len(sent) - Len(stream')
        BY <1>4, <1>5, <2>1, <2>2
    <2>4. [i \in DOMAIN read |-> Handed(read[i])] = [i \in DOMAIN read' |-> Handed(read[i])']
        BY <1>2, <1>6 DEF Handed, Delivered
    <2>5. Handled'
        BY <1>2, <1>6, <2>1, <2>3, <2>4 DEF Handled, Ascending
    <2> QED
        BY <1>2, <1>3, <1>4, <2>5 DEF IInv
<1>7. CASE read' = Append(read, 0) /\ received' = received \o <<Stray>>
    <2>1. received' = received \o Handed(0)
        BY <1>7 DEF Handed
    <2>2. 0 \in Nat /\ 0 <= Len(sent) - Len(stream')
        BY <1>5
    <2>3. Handled'
        BY <1>2, <1>4, <1>5, <1>7, <2>1, <2>2, HandedStep
    <2> QED
        BY <1>2, <1>3, <1>4, <2>3 DEF IInv
<1> QED
    BY <1>6, <1>7 DEF ReceiveTorn

LEMMA Inductive == IInv /\ [Next]_vars => IInv'
<1> SUFFICES ASSUME IInv, [Next]_vars PROVE IInv'
    OBVIOUS
<1>1. CASE UNCHANGED vars
    <2>1. UNCHANGED <<kind, sent, stream, torn, read, received>> /\ IsObject(kind, msg')
        BY <1>1 DEF vars, IInv, Messages
    <2> QED
        BY <2>1, FillStep
<1>2. CASE Next
    BY <1>2, SetFieldStep, AddItemStep, MergeStep, AssignStep, ParseMoreStep, SendStep,
        ReceiveStep, ReceiveTornStep DEF Next
<1> QED
    BY <1>1, <1>2

LEMMA Invariance == Spec => []IInv
BY InitInv, Inductive, PTL DEF Spec

-----------------------------------------------------------------------------
(* The properties *)

LEMMA RowsOfClass ==
    ASSUME NEW k \in DOMAIN Classes
    PROVE  /\ {x.name : x \in FieldsOf(k)} = Members(k)
           /\ \A x \in FieldsOf(k) : /\ x.name \in Members(k) /\ TypeOf(k, x.name) = x.type
                                     /\ x.label = "repeated" <=> IsList(k, x.name)
<1>1. P3!Sound(k)
    BY SoundClasses
<1>2. P3!FieldsOf(k) = FieldsOf(k) /\ P3!Members(k) = Members(k)
    BY SameUse
<1>3. \A f : P3!TypeOf(k, f) = TypeOf(k, f) /\ (P3!IsList(k, f) <=> IsList(k, f))
    BY SameUse
<1>4. \A x \in FieldsOf(k) : /\ x.name \in Members(k) /\ TypeOf(k, x.name) = x.type
                             /\ x.label = "repeated" <=> IsList(k, x.name)
    BY <1>1, <1>2, <1>3, P3!FieldIsRow
<1>5. Members(k) = {P3!NameOf(k, i) : i \in P3!Rows(k)}
    BY <1>1, <1>2, P3!RowsAre
<1>6. FieldsOf(k) = {P3!FieldOf(k, i) : i \in P3!Rows(k)}
    BY DEF FieldsOf, Rules!FieldsOf, Rules!Range, P3!FieldOf, P3!Rows
<1>7. \A i : P3!NameOf(k, i) = P3!FieldOf(k, i).name
    BY DEF P3!NameOf
<1> QED
    BY <1>4, <1>5, <1>6, <1>7

\* A value that the proofs of the methods know is one that TypeOK knows.
LEMMA ValueIsTyped ==
    ASSUME NEW type, NEW v, P3!IsValue(type, v)
    PROVE  Typed(type, v)
<1>1. /\ IsMessage(type) <=> type \notin Scalars
      /\ P3!VarintTypes = VarintTypes
    BY DEF IsMessage, Rules!IsMessage, Scalars, VarintTypes, Rules!Scalars, Rules!VarintTypes,
        P3!VarintTypes
<1>2. CASE type = "bool"
    BY <1>1, <1>2 DEF P3!IsValue, Typed, Scalars, VarintTypes
<1>3. CASE type = "string"
    <2>1. v \in Seq(0 .. 255)
        BY <1>1, <1>3 DEF P3!IsValue, P3!Byte, VarintTypes
    <2>2. \A i \in DOMAIN v : v[i] \in 0 .. 255
        BY <2>1, LenProperties, ElementOfSeq
    <2> QED
        BY <1>1, <1>3, <2>2 DEF Typed, Scalars, VarintTypes
<1>4. CASE type \in VarintTypes \ {"bool"}
    BY <1>1, <1>4 DEF P3!IsValue, Typed, Scalars, VarintTypes
<1>5. CASE type \notin Scalars
    <2>1. P2!Object(type, v)
        BY <1>1, <1>5 DEF P3!IsValue, VarintTypes, Scalars, P2!Plain
    <2>2. DOMAIN v.val = P2!Members(type)
        BY <2>1 DEF P2!Object
    <2>3. P2!Members(type) = Members(type)
        BY DEF P2!Members, Members, Methods!Members
    <2> QED
        BY <1>1, <1>5, <2>2, <2>3 DEF Typed, Scalars, VarintTypes
<1> QED
    BY <1>2, <1>3, <1>4, <1>5 DEF Scalars, VarintTypes

LEMMA ObjectIsTyped ==
    ASSUME NEW k \in DOMAIN Classes, NEW m, IsObject(k, m)
    PROVE  /\ m.bits \subseteq {Classes[k].has[f] : f \in DOMAIN Classes[k].has}
           /\ \A x \in FieldsOf(k) :
                IF x.label = "repeated"
                THEN \A i \in DOMAIN m.val[x.name] : Typed(x.type, m.val[x.name][i])
                ELSE Typed(x.type, m.val[x.name])
           /\ \A f \in DOMAIN Classes[k].has : ~Has(k, m, f) => m.val[f] = Zero(k, f)
<1>1. /\ m.bits \subseteq {Classes[k].has[f] : f \in DOMAIN Classes[k].has}
      /\ \A f \in P3!Members(k) : P3!IsMember(k, f, m.val[f])
      /\ \A f \in DOMAIN Classes[k].has :
           Classes[k].has[f] \notin m.bits => m.val[f] = P3!Zero(k, f)
    BY DEF IsObject, P3!Object
<1>2. /\ \A f : P3!Zero(k, f) = Zero(k, f) /\ (Has(k, m, f) <=> Classes[k].has[f] \in m.bits)
      /\ P3!Members(k) = Members(k)
    BY SameUse DEF Has, Methods!Has
<1>3. \A f : P3!TypeOf(k, f) = TypeOf(k, f) /\ (P3!IsList(k, f) <=> IsList(k, f))
    BY SameUse
<1>4. ASSUME NEW x \in FieldsOf(k)
      PROVE  IF x.label = "repeated"
             THEN \A i \in DOMAIN m.val[x.name] : Typed(x.type, m.val[x.name][i])
             ELSE Typed(x.type, m.val[x.name])
    <2> DEFINE f == x.name
               v == m.val[f]
    <2>1. P3!IsMember(k, f, v) /\ P3!TypeOf(k, f) = x.type
          /\ (x.label = "repeated" <=> P3!IsList(k, f))
        BY <1>1, <1>2, <1>3, RowsOfClass
    <2> HIDE DEF f, v
    <2>2. CASE x.label = "repeated"
        <3>1. \A i \in DOMAIN v : P3!IsValue(x.type, v[i])
            BY <2>1, <2>2 DEF P3!IsMember
        <3> QED
            BY <2>2, <3>1, ValueIsTyped DEF v, f
    <2>3. CASE x.label # "repeated"
        <3>1. P3!IsValue(x.type, v)
            BY <2>1, <2>3 DEF P3!IsMember
        <3> QED
            BY <2>3, <3>1, ValueIsTyped DEF v, f
    <2> QED
        BY <2>2, <2>3
<1> QED
    BY <1>1, <1>2, <1>4

\* The objects keep to their classes.
THEOREM TypeCorrect == Spec => []TypeOK
<1>1. IInv => TypeOK
    <2> SUFFICES ASSUME IInv PROVE TypeOK
        OBVIOUS
    <2>1. kind \in DOMAIN Classes /\ kind \in Kinds /\ IsObject(kind, msg)
        BY KindIsClass DEF IInv, Messages
    <2>2. \A i \in DOMAIN read : read[i] \in DOMAIN sent \cup {0}
        <3>1. \A i \in DOMAIN read : read[i] \in Nat /\ read[i] <= Len(sent) - Len(stream)
            BY ElementOfSeq, LenProperties DEF IInv, Handled
        <3>2. Len(stream) \in Nat /\ DOMAIN sent = 1 .. Len(sent) /\ Len(sent) \in Nat
            BY LenProperties DEF IInv, Frames, Messages, IsSeq
        <3> QED
            BY <3>1, <3>2
    <2> QED
        BY <2>1, <2>2, RowsOfClass, ObjectIsTyped DEF TypeOK
<1> QED
    BY <1>1, Invariance, PTL

\* Objects write what the .proto file says, and the unknown fields after it.
THEOREM Encodes == Spec => []EncodesSchema
<1>1. IInv => EncodesSchema
    BY KindIsClass, ObjectActs DEF IInv, Messages, EncodesSchema
<1> QED
    BY <1>1, Invariance, PTL

\* ByteSizeLong is the length of what the writers write.
THEOREM Sizes == Spec => []SizeIsLength
<1>1. IInv => SizeIsLength
    BY KindIsClass, ObjectActs DEF IInv, Messages, SizeIsLength
<1> QED
    BY <1>1, Invariance, PTL

\* What is written is parsed back.
THEOREM ParsesBack == Spec => []RoundTrip
<1>1. IInv => RoundTrip
    BY KindIsClass, ObjectActs DEF IInv, Messages, RoundTrip
<1> QED
    BY <1>1, Invariance, PTL

\* IsInitialized is the completeness that the .proto file asks for.
THEOREM Initialized == Spec => []InitializedIsComplete
<1>1. IInv => InitializedIsComplete
    BY KindIsClass, ObjectActs DEF IInv, Messages, InitializedIsComplete
<1> QED
    BY <1>1, Invariance, PTL

\* Handler threads get the complete ones of the messages whose frames were parsed, in the
\* order of sending, and besides them only what reads inside a frame made of it.
THEOREM Receives == Spec => []ReceivedWasSent
<1>1. IInv => ReceivedWasSent
    <2> SUFFICES ASSUME IInv PROVE ReceivedWasSent
        OBVIOUS
    <2>1. received = FlattenSeq([i \in DOMAIN read |-> Handed(read[i])]) /\ Ascending
        BY DEF IInv, Handled
    <2> QED
        BY <2>1 DEF ReceivedWasSent, Handed, Delivered, Ascending
<1> QED
    BY <1>1, Invariance, PTL

\* Every step on the object is a step of the abstract message, or shows nothing of it.
THEOREM Implements == Spec => ActsAsMessage
<1>1. Init => Abstract!Init
    BY LinkAssumption, NewActs DEF Init, Abstract!Init, Abstract!NoField
<1>2. IInv /\ [Next]_vars => [Abstract!Next]_<<kind, Meaning(kind, msg)>>
    <2> SUFFICES ASSUME IInv, [Next]_vars
                 PROVE  Abstract!Next \/ (kind' = kind /\ Meaning(kind, msg)' = Meaning(kind, msg))
        OBVIOUS
    <2>1. CASE kind' = kind /\ msg' = msg
        BY <2>1
    <2>2. CASE Next
        BY <2>1, <2>2, SetFieldStep, AddItemStep, MergeStep, AssignStep, ParseMoreStep, SendStep,
            ReceiveStep, ReceiveTornStep DEF Next
    <2> QED
        BY <2>1, <2>2 DEF vars
<1> QED
    BY <1>1, <1>2, Invariance, PTL DEF Spec, ActsAsMessage, Abstract!Spec
==============================================================================
