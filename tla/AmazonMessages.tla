--------------------------- MODULE AmazonMessages ---------------------------
(* The classes of amazon_ups.pb.h and amazon_ups.pb.cc, one table per method.  *)
(* MessageClass says what each table is; ProtocolBuffers gives the methods      *)
(* their meaning.                                                              *)
EXTENDS MessageClass

-----------------------------------------------------------------------------
\* Product

Product_Members == <<<<"description", "string">>, <<"id", "int64">>, <<"count", "int32">>>>
Product_HasBits == [description |-> 0, id |-> 1, count |-> 2]
Product_Copy == [plain |-> Span(Product_Members, "id", "count"), guarded |-> {"description"}]
Product_Clear ==
    [always |-> {}, guarded |-> {<<{0}, {"description"}>>, <<{1, 2}, Span(Product_Members,
     "id", "count")>>}]
Product_Parse ==
    {Reads(8, "id", "int64"), Reads(18, "description", "string"), Reads(24, "count", "int32")}
Product_Serialize ==
    <<If(1, 1, "id", "int64"), If(0, 2, "description", "string"), If(2, 3, "count", "int32")>>
Product_ByteSize ==
    [required |-> {0, 1, 2}, needs |-> [description |-> "string", id |-> "int64",
     count |-> "int32"], guard |-> {}, options |-> Nothing, lists |-> Nothing]
Product_MergeFrom ==
    [lists |-> {}, guard |-> {0, 1, 2}, fields |-> [description |-> 0, id |-> 1, count |-> 2]]
Product_IsInitialized == [bits |-> {0, 1, 2}, nested |-> {}]
Product_Swap == {"description", "id", "count"}
Product == Class
    (Product_Members, Product_HasBits, Product_Copy, Product_Clear, Product_Parse,
     Product_Serialize, Product_ByteSize, Product_MergeFrom, Product_IsInitialized,
     Product_Swap)

-----------------------------------------------------------------------------
\* Pack

Pack_Members ==
    <<<<"things", "Product">>, <<"trackingid", "string">>, <<"wh_id", "int32">>,
      <<"upsaccount", "int32">>, <<"packageid", "int64">>, <<"amazonaccount", "int32">>,
      <<"dest_x", "int32">>, <<"dest_y", "int32">>>>
Pack_HasBits ==
    [trackingid |-> 0, wh_id |-> 1, upsaccount |-> 2, packageid |-> 3, amazonaccount |-> 4,
     dest_x |-> 5, dest_y |-> 6]
Pack_Copy ==
    [plain |-> {"things"} \cup Span(Pack_Members, "wh_id", "dest_y"),
     guarded |-> {"trackingid"}]
Pack_Clear ==
    [always |-> {"things"}, guarded |-> {<<{0}, {"trackingid"}>>, <<{1, 2, 3, 4, 5, 6},
     Span(Pack_Members, "wh_id", "dest_y")>>}]
Pack_Parse ==
    {Reads(8, "wh_id", "int32"), Reads(18, "things", "message"),
     Reads(34, "trackingid", "string"), Reads(40, "packageid", "int64"),
     Reads(48, "upsaccount", "int32"), Reads(56, "amazonaccount", "int32"),
     Reads(64, "dest_x", "int32"), Reads(72, "dest_y", "int32")}
Pack_Serialize ==
    <<If(1, 1, "wh_id", "int32"), Each(2, "things", "message"),
      If(0, 4, "trackingid", "string"), If(3, 5, "packageid", "int64"),
      If(2, 6, "upsaccount", "int32"), If(4, 7, "amazonaccount", "int32"),
      If(5, 8, "dest_x", "int32"), If(6, 9, "dest_y", "int32")>>
\* A faulty variant: the mask of the required fields lacks the one of dest_y.
Pack_ByteSizeShortMask ==
    [required |-> {0, 1, 3, 4, 5}, needs |-> [trackingid |-> "string", wh_id |-> "int32",
     packageid |-> "int64", amazonaccount |-> "int32", dest_x |-> "int32", dest_y |-> "int32"],
     guard |-> {2}, options |-> [upsaccount |-> "int32"], lists |-> [things |-> "message"]]
Pack_ByteSize ==
    [required |-> {0, 1, 3, 4, 5, 6}, needs |-> [trackingid |-> "string", wh_id |-> "int32",
     packageid |-> "int64", amazonaccount |-> "int32", dest_x |-> "int32", dest_y |-> "int32"],
     guard |-> {2}, options |-> [upsaccount |-> "int32"], lists |-> [things |-> "message"]]
Pack_MergeFrom ==
    [lists |-> {"things"}, guard |-> {0, 1, 2, 3, 4, 5, 6}, fields |-> [trackingid |-> 0,
     wh_id |-> 1, upsaccount |-> 2, packageid |-> 3, amazonaccount |-> 4, dest_x |-> 5,
     dest_y |-> 6]]
Pack_IsInitialized == [bits |-> {0, 1, 3, 4, 5, 6}, nested |-> {"things"}]
Pack_Swap ==
    {"things", "trackingid", "wh_id", "upsaccount", "packageid", "amazonaccount", "dest_x",
     "dest_y"}
Pack == Class
    (Pack_Members, Pack_HasBits, Pack_Copy, Pack_Clear, Pack_Parse, Pack_Serialize,
     Pack_ByteSize, Pack_MergeFrom, Pack_IsInitialized, Pack_Swap)

-----------------------------------------------------------------------------
\* UAInitConnect

UAInitConnect_Members == <<<<"worldid", "int64">>>>
UAInitConnect_HasBits == [worldid |-> 0]
UAInitConnect_Copy == [plain |-> {"worldid"}, guarded |-> {}]
UAInitConnect_Clear == [always |-> {"worldid"}, guarded |-> {}]
UAInitConnect_Parse == {Reads(8, "worldid", "int64")}
UAInitConnect_Serialize == <<If(0, 1, "worldid", "int64")>>
UAInitConnect_ByteSize ==
    [required |-> {}, needs |-> Nothing, guard |-> {0}, options |-> [worldid |-> "int64"],
     lists |-> Nothing]
UAInitConnect_MergeFrom == [lists |-> {}, guard |-> {0}, fields |-> [worldid |-> 0]]
UAInitConnect_IsInitialized == [bits |-> {0}, nested |-> {}]
UAInitConnect_Swap == {"worldid"}
UAInitConnect == Class
    (UAInitConnect_Members, UAInitConnect_HasBits, UAInitConnect_Copy, UAInitConnect_Clear,
     UAInitConnect_Parse, UAInitConnect_Serialize, UAInitConnect_ByteSize,
     UAInitConnect_MergeFrom, UAInitConnect_IsInitialized, UAInitConnect_Swap)

-----------------------------------------------------------------------------
\* AUConfirmConnect

AUConfirmConnect_Members == <<<<"worldid", "int64">>, <<"connected", "bool">>>>
AUConfirmConnect_HasBits == [worldid |-> 0, connected |-> 1]
AUConfirmConnect_Copy ==
    [plain |-> Span(AUConfirmConnect_Members, "worldid", "connected"), guarded |-> {}]
AUConfirmConnect_Clear ==
    [always |-> {}, guarded |-> {<<{0, 1}, Span(AUConfirmConnect_Members, "worldid",
     "connected")>>}]
AUConfirmConnect_Parse == {Reads(8, "worldid", "int64"), Reads(16, "connected", "bool")}
AUConfirmConnect_Serialize == <<If(0, 1, "worldid", "int64"), If(1, 2, "connected", "bool")>>
AUConfirmConnect_ByteSize ==
    [required |-> {0, 1}, needs |-> [worldid |-> "int64", connected |-> "bool"], guard |-> {},
     options |-> Nothing, lists |-> Nothing]
AUConfirmConnect_MergeFrom ==
    [lists |-> {}, guard |-> {0, 1}, fields |-> [worldid |-> 0, connected |-> 1]]
AUConfirmConnect_IsInitialized == [bits |-> {0, 1}, nested |-> {}]
AUConfirmConnect_Swap == {"worldid", "connected"}
AUConfirmConnect == Class
    (AUConfirmConnect_Members, AUConfirmConnect_HasBits, AUConfirmConnect_Copy,
     AUConfirmConnect_Clear, AUConfirmConnect_Parse, AUConfirmConnect_Serialize,
     AUConfirmConnect_ByteSize, AUConfirmConnect_MergeFrom, AUConfirmConnect_IsInitialized,
     AUConfirmConnect_Swap)

-----------------------------------------------------------------------------
\* AUNeedATruck

AUNeedATruck_Members == <<<<"pack", "Pack">>, <<"seqnum", "int64">>>>
AUNeedATruck_HasBits == [pack |-> 0, seqnum |-> 1]
AUNeedATruck_Copy == [plain |-> {"seqnum"}, guarded |-> {"pack"}]
AUNeedATruck_Clear == [always |-> {"seqnum"}, guarded |-> {<<{0}, {"pack"}>>}]
AUNeedATruck_Parse == {Reads(10, "pack", "message"), Reads(16, "seqnum", "int64")}
AUNeedATruck_Serialize == <<If(0, 1, "pack", "message"), If(1, 2, "seqnum", "int64")>>
AUNeedATruck_ByteSize ==
    [required |-> {0, 1}, needs |-> [pack |-> "message", seqnum |-> "int64"], guard |-> {},
     options |-> Nothing, lists |-> Nothing]
AUNeedATruck_MergeFrom ==
    [lists |-> {}, guard |-> {0, 1}, fields |-> [pack |-> 0, seqnum |-> 1]]
AUNeedATruck_IsInitialized == [bits |-> {0, 1}, nested |-> {"pack"}]
AUNeedATruck_Swap == {"pack", "seqnum"}
AUNeedATruck == Class
    (AUNeedATruck_Members, AUNeedATruck_HasBits, AUNeedATruck_Copy, AUNeedATruck_Clear,
     AUNeedATruck_Parse, AUNeedATruck_Serialize, AUNeedATruck_ByteSize, AUNeedATruck_MergeFrom,
     AUNeedATruck_IsInitialized, AUNeedATruck_Swap)

-----------------------------------------------------------------------------
\* AUTruckCanGo

AUTruckCanGo_Members == <<<<"seqnum", "int64">>, <<"truckid", "int32">>>>
AUTruckCanGo_HasBits == [seqnum |-> 0, truckid |-> 1]
AUTruckCanGo_Copy == [plain |-> Span(AUTruckCanGo_Members, "seqnum", "truckid"), guarded |-> {}]
AUTruckCanGo_Clear ==
    [always |-> {}, guarded |-> {<<{0, 1}, Span(AUTruckCanGo_Members, "seqnum", "truckid")>>}]
AUTruckCanGo_Parse == {Reads(8, "truckid", "int32"), Reads(16, "seqnum", "int64")}
AUTruckCanGo_Serialize == <<If(1, 1, "truckid", "int32"), If(0, 2, "seqnum", "int64")>>
AUTruckCanGo_ByteSize ==
    [required |-> {0, 1}, needs |-> [seqnum |-> "int64", truckid |-> "int32"], guard |-> {},
     options |-> Nothing, lists |-> Nothing]
AUTruckCanGo_MergeFrom ==
    [lists |-> {}, guard |-> {0, 1}, fields |-> [seqnum |-> 0, truckid |-> 1]]
AUTruckCanGo_IsInitialized == [bits |-> {0, 1}, nested |-> {}]
AUTruckCanGo_Swap == {"seqnum", "truckid"}
AUTruckCanGo == Class
    (AUTruckCanGo_Members, AUTruckCanGo_HasBits, AUTruckCanGo_Copy, AUTruckCanGo_Clear,
     AUTruckCanGo_Parse, AUTruckCanGo_Serialize, AUTruckCanGo_ByteSize, AUTruckCanGo_MergeFrom,
     AUTruckCanGo_IsInitialized, AUTruckCanGo_Swap)

-----------------------------------------------------------------------------
\* UATruckArrived

UATruckArrived_Members ==
    <<<<"trackingid", "string">>, <<"truckid", "int32">>, <<"wh_id", "int32">>,
      <<"seqnum", "int64">>>>
UATruckArrived_HasBits == [trackingid |-> 0, truckid |-> 1, wh_id |-> 2, seqnum |-> 3]
UATruckArrived_Copy ==
    [plain |-> Span(UATruckArrived_Members, "truckid", "seqnum"), guarded |-> {"trackingid"}]
UATruckArrived_Clear ==
    [always |-> {}, guarded |-> {<<{0}, {"trackingid"}>>, <<{1, 2, 3},
     Span(UATruckArrived_Members, "truckid", "seqnum")>>}]
UATruckArrived_Parse ==
    {Reads(8, "truckid", "int32"), Reads(18, "trackingid", "string"),
     Reads(24, "wh_id", "int32"), Reads(32, "seqnum", "int64")}
UATruckArrived_Serialize ==
    <<If(1, 1, "truckid", "int32"), If(0, 2, "trackingid", "string"),
      If(2, 3, "wh_id", "int32"), If(3, 4, "seqnum", "int64")>>
UATruckArrived_ByteSize ==
    [required |-> {0, 1, 2, 3}, needs |-> [trackingid |-> "string", truckid |-> "int32",
     wh_id |-> "int32", seqnum |-> "int64"], guard |-> {}, options |-> Nothing,
     lists |-> Nothing]
UATruckArrived_MergeFrom ==
    [lists |-> {}, guard |-> {0, 1, 2, 3}, fields |-> [trackingid |-> 0, truckid |-> 1,
     wh_id |-> 2, seqnum |-> 3]]
UATruckArrived_IsInitialized == [bits |-> {0, 1, 2, 3}, nested |-> {}]
UATruckArrived_Swap == {"trackingid", "truckid", "wh_id", "seqnum"}
UATruckArrived == Class
    (UATruckArrived_Members, UATruckArrived_HasBits, UATruckArrived_Copy, UATruckArrived_Clear,
     UATruckArrived_Parse, UATruckArrived_Serialize, UATruckArrived_ByteSize,
     UATruckArrived_MergeFrom, UATruckArrived_IsInitialized, UATruckArrived_Swap)

-----------------------------------------------------------------------------
\* UADelivered

UADelivered_Members ==
    <<<<"trackingid", "string">>, <<"seqnum", "int64">>, <<"truckid", "int32">>>>
UADelivered_HasBits == [trackingid |-> 0, seqnum |-> 1, truckid |-> 2]
UADelivered_Copy ==
    [plain |-> Span(UADelivered_Members, "seqnum", "truckid"), guarded |-> {"trackingid"}]
UADelivered_Clear ==
    [always |-> {}, guarded |-> {<<{0}, {"trackingid"}>>, <<{1, 2}, Span(UADelivered_Members,
     "seqnum", "truckid")>>}]
UADelivered_Parse ==
    {Reads(10, "trackingid", "string"), Reads(16, "truckid", "int32"),
     Reads(24, "seqnum", "int64")}
UADelivered_Serialize ==
    <<If(0, 1, "trackingid", "string"), If(2, 2, "truckid", "int32"),
      If(1, 3, "seqnum", "int64")>>
UADelivered_ByteSize ==
    [required |-> {0, 1, 2}, needs |-> [trackingid |-> "string", seqnum |-> "int64",
     truckid |-> "int32"], guard |-> {}, options |-> Nothing, lists |-> Nothing]
UADelivered_MergeFrom ==
    [lists |-> {}, guard |-> {0, 1, 2}, fields |-> [trackingid |-> 0, seqnum |-> 1,
     truckid |-> 2]]
UADelivered_IsInitialized == [bits |-> {0, 1, 2}, nested |-> {}]
UADelivered_Swap == {"trackingid", "seqnum", "truckid"}
UADelivered == Class
    (UADelivered_Members, UADelivered_HasBits, UADelivered_Copy, UADelivered_Clear,
     UADelivered_Parse, UADelivered_Serialize, UADelivered_ByteSize, UADelivered_MergeFrom,
     UADelivered_IsInitialized, UADelivered_Swap)

-----------------------------------------------------------------------------
\* UAChangeAddr

UAChangeAddr_Members ==
    <<<<"trackingid", "string">>, <<"dest_x", "int32">>, <<"dest_y", "int32">>,
      <<"seqnum", "int64">>>>
UAChangeAddr_HasBits == [trackingid |-> 0, dest_x |-> 1, dest_y |-> 2, seqnum |-> 3]
UAChangeAddr_Copy ==
    [plain |-> Span(UAChangeAddr_Members, "dest_x", "seqnum"), guarded |-> {"trackingid"}]
UAChangeAddr_Clear ==
    [always |-> {}, guarded |-> {<<{0}, {"trackingid"}>>, <<{1, 2, 3},
     Span(UAChangeAddr_Members, "dest_x", "seqnum")>>}]
UAChangeAddr_Parse ==
    {Reads(10, "trackingid", "string"), Reads(16, "dest_x", "int32"),
     Reads(24, "dest_y", "int32"), Reads(32, "seqnum", "int64")}
UAChangeAddr_Serialize ==
    <<If(0, 1, "trackingid", "string"), If(1, 2, "dest_x", "int32"),
      If(2, 3, "dest_y", "int32"), If(3, 4, "seqnum", "int64")>>
UAChangeAddr_ByteSize ==
    [required |-> {0, 1, 2, 3}, needs |-> [trackingid |-> "string", dest_x |-> "int32",
     dest_y |-> "int32", seqnum |-> "int64"], guard |-> {}, options |-> Nothing,
     lists |-> Nothing]
UAChangeAddr_MergeFrom ==
    [lists |-> {}, guard |-> {0, 1, 2, 3}, fields |-> [trackingid |-> 0, dest_x |-> 1,
     dest_y |-> 2, seqnum |-> 3]]
UAChangeAddr_IsInitialized == [bits |-> {0, 1, 2, 3}, nested |-> {}]
UAChangeAddr_Swap == {"trackingid", "dest_x", "dest_y", "seqnum"}
UAChangeAddr == Class
    (UAChangeAddr_Members, UAChangeAddr_HasBits, UAChangeAddr_Copy, UAChangeAddr_Clear,
     UAChangeAddr_Parse, UAChangeAddr_Serialize, UAChangeAddr_ByteSize, UAChangeAddr_MergeFrom,
     UAChangeAddr_IsInitialized, UAChangeAddr_Swap)

-----------------------------------------------------------------------------
\* Err

Err_Members == <<<<"msg", "string">>, <<"originseqnum", "int64">>, <<"seqnum", "int64">>>>
Err_HasBits == [msg |-> 0, originseqnum |-> 1, seqnum |-> 2]
Err_Copy == [plain |-> Span(Err_Members, "originseqnum", "seqnum"), guarded |-> {"msg"}]
Err_Clear ==
    [always |-> {}, guarded |-> {<<{0}, {"msg"}>>, <<{1, 2}, Span(Err_Members, "originseqnum",
     "seqnum")>>}]
Err_Parse ==
    {Reads(10, "msg", "string"), Reads(16, "originseqnum", "int64"),
     Reads(24, "seqnum", "int64")}
Err_Serialize ==
    <<If(0, 1, "msg", "string"), If(1, 2, "originseqnum", "int64"),
      If(2, 3, "seqnum", "int64")>>
Err_ByteSize ==
    [required |-> {0, 1, 2}, needs |-> [msg |-> "string", originseqnum |-> "int64",
     seqnum |-> "int64"], guard |-> {}, options |-> Nothing, lists |-> Nothing]
Err_MergeFrom ==
    [lists |-> {}, guard |-> {0, 1, 2}, fields |-> [msg |-> 0, originseqnum |-> 1,
     seqnum |-> 2]]
Err_IsInitialized == [bits |-> {0, 1, 2}, nested |-> {}]
Err_Swap == {"msg", "originseqnum", "seqnum"}
Err == Class
    (Err_Members, Err_HasBits, Err_Copy, Err_Clear, Err_Parse, Err_Serialize, Err_ByteSize,
     Err_MergeFrom, Err_IsInitialized, Err_Swap)

-----------------------------------------------------------------------------
\* AUCommands

AUCommands_Members ==
    <<<<"need", "AUNeedATruck">>, <<"go", "AUTruckCanGo">>, <<"errors", "Err">>,
      <<"acks", "int64">>>>
AUCommands_HasBits == Nothing
AUCommands_Copy == [plain |-> {"need", "go", "errors", "acks"}, guarded |-> {}]
AUCommands_Clear == [always |-> {"need", "go", "errors", "acks"}, guarded |-> {}]
AUCommands_Parse ==
    {Reads(10, "need", "message"), Reads(18, "go", "message"), Reads(26, "errors", "message"),
     Reads(32, "acks", "int64"), Reads(34, "acks", "packed")}
AUCommands_Serialize ==
    <<Each(1, "need", "message"), Each(2, "go", "message"), Each(3, "errors", "message"),
      Each(4, "acks", "int64")>>
AUCommands_ByteSize ==
    [required |-> {}, needs |-> Nothing, guard |-> {}, options |-> Nothing,
     lists |-> [need |-> "message", go |-> "message", errors |-> "message", acks |-> "int64"]]
AUCommands_MergeFrom ==
    [lists |-> {"need", "go", "errors", "acks"}, guard |-> {}, fields |-> Nothing]
AUCommands_IsInitialized == [bits |-> {}, nested |-> {"need", "go", "errors"}]
AUCommands_Swap == {"need", "go", "errors", "acks"}
AUCommands == Class
    (AUCommands_Members, AUCommands_HasBits, AUCommands_Copy, AUCommands_Clear,
     AUCommands_Parse, AUCommands_Serialize, AUCommands_ByteSize, AUCommands_MergeFrom,
     AUCommands_IsInitialized, AUCommands_Swap)

-----------------------------------------------------------------------------
\* UACommands

UACommands_Members ==
    <<<<"arrived", "UATruckArrived">>, <<"delivered", "UADelivered">>,
      <<"changeAddr", "UAChangeAddr">>, <<"errors", "Err">>, <<"acks", "int64">>>>
UACommands_HasBits == Nothing
UACommands_Copy ==
    [plain |-> {"arrived", "delivered", "changeAddr", "errors", "acks"}, guarded |-> {}]
UACommands_Clear ==
    [always |-> {"arrived", "delivered", "changeAddr", "errors", "acks"}, guarded |-> {}]
\* A faulty variant: only packed acks are understood.
UACommands_ParsePacked ==
    {Reads(10, "arrived", "message"), Reads(18, "delivered", "message"),
     Reads(26, "changeAddr", "message"), Reads(34, "errors", "message"),
     Reads(42, "acks", "packed")}
UACommands_Parse ==
    {Reads(10, "arrived", "message"), Reads(18, "delivered", "message"),
     Reads(26, "changeAddr", "message"), Reads(34, "errors", "message"),
     Reads(40, "acks", "int64"), Reads(42, "acks", "packed")}
UACommands_Serialize ==
    <<Each(1, "arrived", "message"), Each(2, "delivered", "message"),
      Each(3, "changeAddr", "message"), Each(4, "errors", "message"), Each(5, "acks", "int64")>>
UACommands_ByteSize ==
    [required |-> {}, needs |-> Nothing, guard |-> {}, options |-> Nothing,
     lists |-> [arrived |-> "message", delivered |-> "message", changeAddr |-> "message",
     errors |-> "message", acks |-> "int64"]]
UACommands_MergeFrom ==
    [lists |-> {"arrived", "delivered", "changeAddr", "errors", "acks"}, guard |-> {},
     fields |-> Nothing]
UACommands_IsInitialized ==
    [bits |-> {}, nested |-> {"arrived", "delivered", "changeAddr", "errors"}]
UACommands_Swap == {"arrived", "delivered", "changeAddr", "errors", "acks"}
UACommands == Class
    (UACommands_Members, UACommands_HasBits, UACommands_Copy, UACommands_Clear,
     UACommands_Parse, UACommands_Serialize, UACommands_ByteSize, UACommands_MergeFrom,
     UACommands_IsInitialized, UACommands_Swap)

==============================================================================
