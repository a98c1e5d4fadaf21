--------------------------- MODULE MessageSchema ----------------------------
(* The messages as amazon_ups.proto and world_ups.proto declare them.          *)
EXTENDS WireFormat, SequencesExt

Field(label, number, name, type) ==
  [label |-> label, number |-> number, name |-> name, type |-> type]
Required(number, name, type) == Field("required", number, name, type)
Optional(number, name, type) == Field("optional", number, name, type)
Repeated(number, name, type) == Field("repeated", number, name, type)

\* amazon_ups.proto

Product_Proto ==
    <<Required(1, "id", "int64"), Required(2, "description", "string"),
      Required(3, "count", "int32")>>

Pack_Proto ==
    <<Required(1, "wh_id", "int32"), Repeated(2, "things", "Product"),
      Required(4, "trackingid", "string"), Required(5, "packageid", "int64"),
      Optional(6, "upsaccount", "int32"), Required(7, "amazonaccount", "int32"),
      Required(8, "dest_x", "int32"), Required(9, "dest_y", "int32")>>

UAInitConnect_Proto == <<Required(1, "worldid", "int64")>>

AUConfirmConnect_Proto == <<Required(1, "worldid", "int64"), Required(2, "connected", "bool")>>

AUNeedATruck_Proto == <<Required(1, "pack", "Pack"), Required(2, "seqnum", "int64")>>

AUTruckCanGo_Proto == <<Required(1, "truckid", "int32"), Required(2, "seqnum", "int64")>>

UATruckArrived_Proto ==
    <<Required(1, "truckid", "int32"), Required(2, "trackingid", "string"),
      Required(3, "wh_id", "int32"), Required(4, "seqnum", "int64")>>

UADelivered_Proto ==
    <<Required(1, "trackingid", "string"), Required(2, "truckid", "int32"),
      Required(3, "seqnum", "int64")>>

UAChangeAddr_Proto ==
    <<Required(1, "trackingid", "string"), Required(2, "dest_x", "int32"),
      Required(3, "dest_y", "int32"), Required(4, "seqnum", "int64")>>

Err_Proto ==
    <<Required(1, "msg", "string"), Required(2, "originseqnum", "int64"),
      Required(3, "seqnum", "int64")>>

AUCommands_Proto ==
    <<Repeated(1, "need", "AUNeedATruck"), Repeated(2, "go", "AUTruckCanGo"),
      Repeated(3, "errors", "Err"), Repeated(4, "acks", "int64")>>

UACommands_Proto ==
    <<Repeated(1, "arrived", "UATruckArrived"), Repeated(2, "delivered", "UADelivered"),
      Repeated(3, "changeAddr", "UAChangeAddr"), Repeated(4, "errors", "Err"),
      Repeated(5, "acks", "int64")>>

\* world_ups.proto

UInitTruck_Proto ==
    <<Required(1, "id", "int32"), Required(2, "x", "int32"), Required(3, "y", "int32")>>

UConnect_Proto ==
    <<Optional(1, "worldid", "int64"), Repeated(2, "trucks", "UInitTruck"),
      Required(3, "isAmazon", "bool")>>

UConnected_Proto == <<Required(1, "worldid", "int64"), Required(2, "result", "string")>>

UGoPickup_Proto ==
    <<Required(1, "truckid", "int32"), Required(2, "whid", "int32"),
      Required(3, "seqnum", "int64")>>

UFinished_Proto ==
    <<Required(1, "truckid", "int32"), Required(2, "x", "int32"), Required(3, "y", "int32"),
      Required(4, "status", "string"), Required(5, "seqnum", "int64")>>

UDeliveryMade_Proto ==
    <<Required(1, "truckid", "int32"), Required(2, "packageid", "int64"),
      Required(3, "seqnum", "int64")>>

UDeliveryLocation_Proto ==
    <<Required(1, "packageid", "int64"), Required(2, "x", "int32"), Required(3, "y", "int32")>>

UGoDeliver_Proto ==
    <<Required(1, "truckid", "int32"), Repeated(2, "packages", "UDeliveryLocation"),
      Required(3, "seqnum", "int64")>>

UErr_Proto ==
    <<Required(1, "err", "string"), Required(2, "originseqnum", "int64"),
      Required(3, "seqnum", "int64")>>

UQuery_Proto == <<Required(1, "truckid", "int32"), Required(2, "seqnum", "int64")>>

UTruck_Proto ==
    <<Required(1, "truckid", "int32"), Required(2, "status", "string"),
      Required(3, "x", "int32"), Required(4, "y", "int32"), Required(5, "seqnum", "int64")>>

UCommands_Proto ==
    <<Repeated(1, "pickups", "UGoPickup"), Repeated(2, "deliveries", "UGoDeliver"),
      Optional(3, "simspeed", "uint32"), Optional(4, "disconnect", "bool"),
      Repeated(5, "queries", "UQuery"), Repeated(6, "acks", "int64")>>

UResponses_Proto ==
    <<Repeated(1, "completions", "UFinished"), Repeated(2, "delivered", "UDeliveryMade"),
      Optional(3, "finished", "bool"), Repeated(4, "acks", "int64"),
      Repeated(5, "truckstatus", "UTruck"), Repeated(6, "error", "UErr")>>

Schemas == [
    Product |-> Product_Proto,
    Pack |-> Pack_Proto,
    UAInitConnect |-> UAInitConnect_Proto,
    AUConfirmConnect |-> AUConfirmConnect_Proto,
    AUNeedATruck |-> AUNeedATruck_Proto,
    AUTruckCanGo |-> AUTruckCanGo_Proto,
    UATruckArrived |-> UATruckArrived_Proto,
    UADelivered |-> UADelivered_Proto,
    UAChangeAddr |-> UAChangeAddr_Proto,
    Err |-> Err_Proto,
    AUCommands |-> AUCommands_Proto,
    UACommands |-> UACommands_Proto,
    UInitTruck |-> UInitTruck_Proto,
    UConnect |-> UConnect_Proto,
    UConnected |-> UConnected_Proto,
    UGoPickup |-> UGoPickup_Proto,
    UFinished |-> UFinished_Proto,
    UDeliveryMade |-> UDeliveryMade_Proto,
    UDeliveryLocation |-> UDeliveryLocation_Proto,
    UGoDeliver |-> UGoDeliver_Proto,
    UErr |-> UErr_Proto,
    UQuery |-> UQuery_Proto,
    UTruck |-> UTruck_Proto,
    UCommands |-> UCommands_Proto,
    UResponses |-> UResponses_Proto]

-----------------------------------------------------------------------------
(* MessageRules, for messages that hold none, for those that hold such messages, *)
(* and so on: AUCommands, AUNeedATruck, Pack, Product is the deepest nesting.    *)

FlatRules == INSTANCE MessageRules WITH
  CompleteIn <- LAMBDA k, w : FALSE,
  EncodeIn <- LAMBDA k, w : Nothing,
  JoinIn <- LAMBDA k, w, z : Nothing,
  FilledIn <- LAMBDA k, how : Nothing,
  LackingIn <- LAMBDA k : Nothing
Rules1 == INSTANCE MessageRules WITH
  CompleteIn <- FlatRules!Complete,
  EncodeIn <- FlatRules!Encode,
  JoinIn <- FlatRules!Join,
  FilledIn <- FlatRules!Filled,
  LackingIn <- FlatRules!Lacking
Rules2 == INSTANCE MessageRules WITH
  CompleteIn <- Rules1!Complete,
  EncodeIn <- Rules1!Encode,
  JoinIn <- Rules1!Join,
  FilledIn <- Rules1!Filled,
  LackingIn <- Rules1!Lacking
Rules == INSTANCE MessageRules WITH
  CompleteIn <- Rules2!Complete,
  EncodeIn <- Rules2!Encode,
  JoinIn <- Rules2!Join,
  FilledIn <- Rules2!Filled,
  LackingIn <- Rules2!Lacking

FieldsOf(k) == Rules!FieldsOf(k)
IsMessage(type) == Rules!IsMessage(type)
Complete(k, w) == Rules!Complete(k, w)
Encode(k, w) == Rules!Encode(k, w)
Join(k, w, z) == Rules!Join(k, w, z)
Value(x, how) == Rules!Value(x, how)
Items(x) == Rules!Items(x)
Samples(k) == Rules!Samples(k)
=============================================================================
