-------------------------- MODULE ProtocolBuffers ---------------------------
(* The generated classes and message.hpp: the methods of MessageMethods, for   *)
(* the tables of every class.                                                  *)
EXTENDS AmazonMessages, WorldMessages, SequencesExt, FiniteSetsExt

Classes ==
    [Product |-> Product, Pack |-> Pack, UAInitConnect |-> UAInitConnect,
     AUConfirmConnect |-> AUConfirmConnect, AUNeedATruck |-> AUNeedATruck,
     AUTruckCanGo |-> AUTruckCanGo, UATruckArrived |-> UATruckArrived,
     UADelivered |-> UADelivered, UAChangeAddr |-> UAChangeAddr, Err |-> Err,
     AUCommands |-> AUCommands, UACommands |-> UACommands, UInitTruck |-> UInitTruck,
     UConnect |-> UConnect, UConnected |-> UConnected, UGoPickup |-> UGoPickup,
     UFinished |-> UFinished, UDeliveryMade |-> UDeliveryMade,
     UDeliveryLocation |-> UDeliveryLocation, UGoDeliver |-> UGoDeliver, UErr |-> UErr,
     UQuery |-> UQuery, UTruck |-> UTruck, UCommands |-> UCommands, UResponses |-> UResponses]

(* The classes without members that are messages come first, then the classes *)
(* over them, and so on: AUCommands, AUNeedATruck, Pack, Product is the        *)
(* deepest nesting.                                                            *)

FlatMethods == INSTANCE MessageMethods WITH CallIn <- LAMBDA method, k, x, y : Nothing
Methods1 == INSTANCE MessageMethods WITH CallIn <- FlatMethods!Call
Methods2 == INSTANCE MessageMethods WITH CallIn <- Methods1!Call
Methods == INSTANCE MessageMethods WITH CallIn <- Methods2!Call

Members(k) == Methods!Members(k)
TypeOf(k, f) == Methods!TypeOf(k, f)
IsList(k, f) == Methods!IsList(k, f)
HoldsMessage(k, f) == Methods!HoldsMessage(k, f)
Zero(k, f) == Methods!Zero(k, f)
New(k) == Methods!New(k)
Has(k, m, f) == Methods!Has(k, m, f)
Set(k, m, f, v) == Methods!Set(k, m, f, v)
Add(m, f, v) == Methods!Add(m, f, v)
MergeFrom(k, to, from) == Methods!MergeFrom(k, to, from)
Copy(k, m) == Methods!Copy(k, m)
Move(k, m) == Methods!Move(k, m)
CopyFrom(k, to, from) == Methods!CopyFrom(k, to, from)
IsInitialized(k, m) == Methods!IsInitialized(k, m)
ByteSize(k, m) == Methods!ByteSize(k, m)
Serialize(k, m) == Methods!Serialize(k, m)
Parse(k, m, b) == Methods!Parse(k, m, b)
sendMesgTo(k, m) == Methods!sendMesgTo(k, m)
recvMesgFrom(k, b) == Methods!recvMesgFrom(k, b)
Made(k, f, v) == Methods!Made(k, f, v)
Build(k, w) == Methods!Build(k, w)
Meaning(k, m) == Methods!Meaning(k, m)
=============================================================================
