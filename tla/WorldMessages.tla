---------------------------- MODULE WorldMessages ----------------------------
(* The classes of world_ups.pb.h and world_ups.pb.cc, one table per method.    *)
(* MessageClass says what each table is; ProtocolBuffers gives the methods      *)
(* their meaning.                                                              *)
EXTENDS MessageClass

-----------------------------------------------------------------------------
\* UInitTruck

UInitTruck_Members == <<<<"id", "int32">>, <<"x", "int32">>, <<"y", "int32">>>>
UInitTruck_HasBits == [id |-> 0, x |-> 1, y |-> 2]
UInitTruck_Copy == [plain |-> Span(UInitTruck_Members, "id", "y"), guarded |-> {}]
UInitTruck_Clear ==
    [always |-> {}, guarded |-> {<<{0, 1, 2}, Span(UInitTruck_Members, "id", "y")>>}]
UInitTruck_Parse == {Reads(8, "id", "int32"), Reads(16, "x", "int32"), Reads(24, "y", "int32")}
UInitTruck_Serialize ==
    <<If(0, 1, "id", "int32"), If(1, 2, "x", "int32"), If(2, 3, "y", "int32")>>
UInitTruck_ByteSize ==
    [required |-> {0, 1, 2}, needs |-> [id |-> "int32", x |-> "int32", y |-> "int32"],
     guard |-> {}, options |-> Nothing, lists |-> Nothing]
UInitTruck_MergeFrom ==
    [lists |-> {}, guard |-> {0, 1, 2}, fields |-> [id |-> 0, x |-> 1, y |-> 2]]
UInitTruck_IsInitialized == [bits |-> {0, 1, 2}, nested |-> {}]
UInitTruck_Swap == {"id", "x", "y"}
UInitTruck == Class
    (UInitTruck_Members, UInitTruck_HasBits, UInitTruck_Copy, UInitTruck_Clear,
     UInitTruck_Parse, UInitTruck_Serialize, UInitTruck_ByteSize, UInitTruck_MergeFrom,
     UInitTruck_IsInitialized, UInitTruck_Swap)

-----------------------------------------------------------------------------
\* UConnect

UConnect_Members ==
    <<<<"trucks", "UInitTruck">>, <<"worldid", "int64">>, <<"isAmazon", "bool">>>>
UConnect_HasBits == [worldid |-> 0, isAmazon |-> 1]
UConnect_Copy ==
    [plain |-> {"trucks"} \cup Span(UConnect_Members, "worldid", "isAmazon"), guarded |-> {}]
UConnect_Clear ==
    [always |-> {"trucks"}, guarded |-> {<<{0, 1}, Span(UConnect_Members, "worldid",
     "isAmazon")>>}]
UConnect_Parse ==
    {Reads(8, "worldid", "int64"), Reads(18, "trucks", "message"),
     Reads(24, "isAmazon", "bool")}
UConnect_Serialize ==
    <<If(0, 1, "worldid", "int64"), Each(2, "trucks", "message"), If(1, 3, "isAmazon", "bool")>>
UConnect_ByteSize ==
    [required |-> {}, needs |-> Nothing, guard |-> {1, 0}, options |-> [isAmazon |-> "bool",
     worldid |-> "int64"], lists |-> [trucks |-> "message"]]
\* A faulty variant: each field is copied under the bit of the other.
UConnect_MergeFromSwapped ==
    [lists |-> {"trucks"}, guard |-> {0, 1}, fields |-> [worldid |-> 1, isAmazon |-> 0]]
UConnect_MergeFrom ==
    [lists |-> {"trucks"}, guard |-> {0, 1}, fields |-> [worldid |-> 0, isAmazon |-> 1]]
UConnect_IsInitialized == [bits |-> {1}, nested |-> {"trucks"}]
UConnect_Swap == {"trucks", "worldid", "isAmazon"}
UConnect == Class
    (UConnect_Members, UConnect_HasBits, UConnect_Copy, UConnect_Clear, UConnect_Parse,
     UConnect_Serialize, UConnect_ByteSize, UConnect_MergeFrom, UConnect_IsInitialized,
     UConnect_Swap)

-----------------------------------------------------------------------------
\* UConnected

UConnected_Members == <<<<"result", "string">>, <<"worldid", "int64">>>>
UConnected_HasBits == [result |-> 0, worldid |-> 1]
UConnected_Copy == [plain |-> {"worldid"}, guarded |-> {"result"}]
UConnected_Clear == [always |-> {"worldid"}, guarded |-> {<<{0}, {"result"}>>}]
UConnected_Parse == {Reads(8, "worldid", "int64"), Reads(18, "result", "string")}
UConnected_Serialize == <<If(1, 1, "worldid", "int64"), If(0, 2, "result", "string")>>
UConnected_ByteSize ==
    [required |-> {0, 1}, needs |-> [result |-> "string", worldid |-> "int64"], guard |-> {},
     options |-> Nothing, lists |-> Nothing]
UConnected_MergeFrom ==
    [lists |-> {}, guard |-> {0, 1}, fields |-> [result |-> 0, worldid |-> 1]]
UConnected_IsInitialized == [bits |-> {0, 1}, nested |-> {}]
UConnected_Swap == {"result", "worldid"}
UConnected == Class
    (UConnected_Members, UConnected_HasBits, UConnected_Copy, UConnected_Clear,
     UConnected_Parse, UConnected_Serialize, UConnected_ByteSize, UConnected_MergeFrom,
     UConnected_IsInitialized, UConnected_Swap)

-----------------------------------------------------------------------------
\* UGoPickup

UGoPickup_Members == <<<<"truckid", "int32">>, <<"whid", "int32">>, <<"seqnum", "int64">>>>
UGoPickup_HasBits == [truckid |-> 0, whid |-> 1, seqnum |-> 2]
UGoPickup_Copy == [plain |-> Span(UGoPickup_Members, "truckid", "seqnum"), guarded |-> {}]
UGoPickup_Clear ==
    [always |-> {}, guarded |-> {<<{0, 1, 2}, Span(UGoPickup_Members, "truckid", "seqnum")>>}]
UGoPickup_Parse ==
    {Reads(8, "truckid", "int32"), Reads(16, "whid", "int32"), Reads(24, "seqnum", "int64")}
UGoPickup_Serialize ==
    <<If(0, 1, "truckid", "int32"), If(1, 2, "whid", "int32"), If(2, 3, "seqnum", "int64")>>
UGoPickup_ByteSize ==
    [required |-> {0, 1, 2}, needs |-> [truckid |-> "int32", whid |-> "int32",
     seqnum |-> "int64"], guard |-> {}, options |-> Nothing, lists |-> Nothing]
UGoPickup_MergeFrom ==
    [lists |-> {}, guard |-> {0, 1, 2}, fields |-> [truckid |-> 0, whid |-> 1, seqnum |-> 2]]
UGoPickup_IsInitialized == [bits |-> {0, 1, 2}, nested |-> {}]
UGoPickup_Swap == {"truckid", "whid", "seqnum"}
UGoPickup == Class
    (UGoPickup_Members, UGoPickup_HasBits, UGoPickup_Copy, UGoPickup_Clear, UGoPickup_Parse,
     UGoPickup_Serialize, UGoPickup_ByteSize, UGoPickup_MergeFrom, UGoPickup_IsInitialized,
     UGoPickup_Swap)

-----------------------------------------------------------------------------
\* UFinished

UFinished_Members ==
    <<<<"status", "string">>, <<"truckid", "int32">>, <<"x", "int32">>, <<"seqnum", "int64">>,
      <<"y", "int32">>>>
UFinished_HasBits == [status |-> 0, truckid |-> 1, x |-> 2, seqnum |-> 3, y |-> 4]
UFinished_Copy == [plain |-> Span(UFinished_Members, "truckid", "y"), guarded |-> {"status"}]
UFinished_Clear ==
    [always |-> {}, guarded |-> {<<{0}, {"status"}>>, <<{1, 2, 3, 4}, Span(UFinished_Members,
     "truckid", "y")>>}]
UFinished_Parse ==
    {Reads(8, "truckid", "int32"), Reads(16, "x", "int32"), Reads(24, "y", "int32"),
     Reads(34, "status", "string"), Reads(40, "seqnum", "int64")}
UFinished_Serialize ==
    <<If(1, 1, "truckid", "int32"), If(2, 2, "x", "int32"), If(4, 3, "y", "int32"),
      If(0, 4, "status", "string"), If(3, 5, "seqnum", "int64")>>
UFinished_ByteSize ==
    [required |-> {0, 1, 2, 3, 4}, needs |-> [status |-> "string", truckid |-> "int32",
     x |-> "int32", seqnum |-> "int64", y |-> "int32"], guard |-> {}, options |-> Nothing,
     lists |-> Nothing]
UFinished_MergeFrom ==
    [lists |-> {}, guard |-> {0, 1, 2, 3, 4}, fields |-> [status |-> 0, truckid |-> 1, x |-> 2,
     seqnum |-> 3, y |-> 4]]
UFinished_IsInitialized == [bits |-> {0, 1, 2, 3, 4}, nested |-> {}]
UFinished_Swap == {"status", "truckid", "x", "seqnum", "y"}
UFinished == Class
    (UFinished_Members, UFinished_HasBits, UFinished_Copy, UFinished_Clear, UFinished_Parse,
     UFinished_Serialize, UFinished_ByteSize, UFinished_MergeFrom, UFinished_IsInitialized,
     UFinished_Swap)

-----------------------------------------------------------------------------
\* UDeliveryMade

UDeliveryMade_Members ==
    <<<<"packageid", "int64">>, <<"seqnum", "int64">>, <<"truckid", "int32">>>>
UDeliveryMade_HasBits == [packageid |-> 0, seqnum |-> 1, truckid |-> 2]
UDeliveryMade_Copy ==
    [plain |-> Span(UDeliveryMade_Members, "packageid", "truckid"), guarded |-> {}]
UDeliveryMade_Clear ==
    [always |-> {}, guarded |-> {<<{0, 1, 2}, Span(UDeliveryMade_Members, "packageid",
     "truckid")>>}]
UDeliveryMade_Parse ==
    {Reads(8, "truckid", "int32"), Reads(16, "packageid", "int64"),
     Reads(24, "seqnum", "int64")}
\* A faulty variant: the fields in the order of the members.
UDeliveryMade_SerializeMembers ==
    <<If(0, 2, "packageid", "int64"), If(2, 1, "truckid", "int32"),
      If(1, 3, "seqnum", "int64")>>
UDeliveryMade_Serialize ==
    <<If(2, 1, "truckid", "int32"), If(0, 2, "packageid", "int64"),
      If(1, 3, "seqnum", "int64")>>
UDeliveryMade_ByteSize ==
    [required |-> {0, 1, 2}, needs |-> [packageid |-> "int64", seqnum |-> "int64",
     truckid |-> "int32"], guard |-> {}, options |-> Nothing, lists |-> Nothing]
UDeliveryMade_MergeFrom ==
    [lists |-> {}, guard |-> {0, 1, 2}, fields |-> [packageid |-> 0, seqnum |-> 1,
     truckid |-> 2]]
UDeliveryMade_IsInitialized == [bits |-> {0, 1, 2}, nested |-> {}]
UDeliveryMade_Swap == {"packageid", "seqnum", "truckid"}
UDeliveryMade == Class
    (UDeliveryMade_Members, UDeliveryMade_HasBits, UDeliveryMade_Copy, UDeliveryMade_Clear,
     UDeliveryMade_Parse, UDeliveryMade_Serialize, UDeliveryMade_ByteSize,
     UDeliveryMade_MergeFrom, UDeliveryMade_IsInitialized, UDeliveryMade_Swap)

-----------------------------------------------------------------------------
\* UDeliveryLocation

UDeliveryLocation_Members == <<<<"packageid", "int64">>, <<"x", "int32">>, <<"y", "int32">>>>
UDeliveryLocation_HasBits == [packageid |-> 0, x |-> 1, y |-> 2]
UDeliveryLocation_Copy ==
    [plain |-> Span(UDeliveryLocation_Members, "packageid", "y"), guarded |-> {}]
UDeliveryLocation_Clear ==
    [always |-> {}, guarded |-> {<<{0, 1, 2}, Span(UDeliveryLocation_Members, "packageid",
     "y")>>}]
UDeliveryLocation_Parse ==
    {Reads(8, "packageid", "int64"), Reads(16, "x", "int32"), Reads(24, "y", "int32")}
UDeliveryLocation_Serialize ==
    <<If(0, 1, "packageid", "int64"), If(1, 2, "x", "int32"), If(2, 3, "y", "int32")>>
UDeliveryLocation_ByteSize ==
    [required |-> {0, 1, 2}, needs |-> [packageid |-> "int64", x |-> "int32", y |-> "int32"],
     guard |-> {}, options |-> Nothing, lists |-> Nothing]
UDeliveryLocation_MergeFrom ==
    [lists |-> {}, guard |-> {0, 1, 2}, fields |-> [packageid |-> 0, x |-> 1, y |-> 2]]
UDeliveryLocation_IsInitialized == [bits |-> {0, 1, 2}, nested |-> {}]
UDeliveryLocation_Swap == {"packageid", "x", "y"}
UDeliveryLocation == Class
    (UDeliveryLocation_Members, UDeliveryLocation_HasBits, UDeliveryLocation_Copy,
     UDeliveryLocation_Clear, UDeliveryLocation_Parse, UDeliveryLocation_Serialize,
     UDeliveryLocation_ByteSize, UDeliveryLocation_MergeFrom, UDeliveryLocation_IsInitialized,
     UDeliveryLocation_Swap)

-----------------------------------------------------------------------------
\* UGoDeliver

UGoDeliver_Members ==
    <<<<"packages", "UDeliveryLocation">>, <<"seqnum", "int64">>, <<"truckid", "int32">>>>
UGoDeliver_HasBits == [seqnum |-> 0, truckid |-> 1]
UGoDeliver_Copy ==
    [plain |-> {"packages"} \cup Span(UGoDeliver_Members, "seqnum", "truckid"), guarded |-> {}]
UGoDeliver_Clear ==
    [always |-> {"packages"}, guarded |-> {<<{0, 1}, Span(UGoDeliver_Members, "seqnum",
     "truckid")>>}]
UGoDeliver_Parse ==
    {Reads(8, "truckid", "int32"), Reads(18, "packages", "message"),
     Reads(24, "seqnum", "int64")}
UGoDeliver_Serialize ==
    <<If(1, 1, "truckid", "int32"), Each(2, "packages", "message"),
      If(0, 3, "seqnum", "int64")>>
UGoDeliver_ByteSize ==
    [required |-> {0, 1}, needs |-> [seqnum |-> "int64", truckid |-> "int32"], guard |-> {},
     options |-> Nothing, lists |-> [packages |-> "message"]]
UGoDeliver_MergeFrom ==
    [lists |-> {"packages"}, guard |-> {0, 1}, fields |-> [seqnum |-> 0, truckid |-> 1]]
\* A faulty variant: the locations are not asked.
UGoDeliver_IsInitializedFlat == [bits |-> {0, 1}, nested |-> {}]
UGoDeliver_IsInitialized == [bits |-> {0, 1}, nested |-> {"packages"}]
UGoDeliver_Swap == {"packages", "seqnum", "truckid"}
UGoDeliver == Class
    (UGoDeliver_Members, UGoDeliver_HasBits, UGoDeliver_Copy, UGoDeliver_Clear,
     UGoDeliver_Parse, UGoDeliver_Serialize, UGoDeliver_ByteSize, UGoDeliver_MergeFrom,
     UGoDeliver_IsInitialized, UGoDeliver_Swap)

-----------------------------------------------------------------------------
\* UErr

UErr_Members == <<<<"err", "string">>, <<"originseqnum", "int64">>, <<"seqnum", "int64">>>>
UErr_HasBits == [err |-> 0, originseqnum |-> 1, seqnum |-> 2]
UErr_Copy == [plain |-> Span(UErr_Members, "originseqnum", "seqnum"), guarded |-> {"err"}]
UErr_Clear ==
    [always |-> {}, guarded |-> {<<{0}, {"err"}>>, <<{1, 2}, Span(UErr_Members, "originseqnum",
     "seqnum")>>}]
UErr_Parse ==
    {Reads(10, "err", "string"), Reads(16, "originseqnum", "int64"),
     Reads(24, "seqnum", "int64")}
UErr_Serialize ==
    <<If(0, 1, "err", "string"), If(1, 2, "originseqnum", "int64"),
      If(2, 3, "seqnum", "int64")>>
UErr_ByteSize ==
    [required |-> {0, 1, 2}, needs |-> [err |-> "string", originseqnum |-> "int64",
     seqnum |-> "int64"], guard |-> {}, options |-> Nothing, lists |-> Nothing]
UErr_MergeFrom ==
    [lists |-> {}, guard |-> {0, 1, 2}, fields |-> [err |-> 0, originseqnum |-> 1,
     seqnum |-> 2]]
UErr_IsInitialized == [bits |-> {0, 1, 2}, nested |-> {}]
UErr_Swap == {"err", "originseqnum", "seqnum"}
UErr == Class
    (UErr_Members, UErr_HasBits, UErr_Copy, UErr_Clear, UErr_Parse, UErr_Serialize,
     UErr_ByteSize, UErr_MergeFrom, UErr_IsInitialized, UErr_Swap)

-----------------------------------------------------------------------------
\* UQuery

UQuery_Members == <<<<"seqnum", "int64">>, <<"truckid", "int32">>>>
UQuery_HasBits == [seqnum |-> 0, truckid |-> 1]
UQuery_Copy == [plain |-> Span(UQuery_Members, "seqnum", "truckid"), guarded |-> {}]
UQuery_Clear ==
    [always |-> {}, guarded |-> {<<{0, 1}, Span(UQuery_Members, "seqnum", "truckid")>>}]
UQuery_Parse == {Reads(8, "truckid", "int32"), Reads(16, "seqnum", "int64")}
UQuery_Serialize == <<If(1, 1, "truckid", "int32"), If(0, 2, "seqnum", "int64")>>
UQuery_ByteSize ==
    [required |-> {0, 1}, needs |-> [seqnum |-> "int64", truckid |-> "int32"], guard |-> {},
     options |-> Nothing, lists |-> Nothing]
UQuery_MergeFrom == [lists |-> {}, guard |-> {0, 1}, fields |-> [seqnum |-> 0, truckid |-> 1]]
UQuery_IsInitialized == [bits |-> {0, 1}, nested |-> {}]
UQuery_Swap == {"seqnum", "truckid"}
UQuery == Class
    (UQuery_Members, UQuery_HasBits, UQuery_Copy, UQuery_Clear, UQuery_Parse, UQuery_Serialize,
     UQuery_ByteSize, UQuery_MergeFrom, UQuery_IsInitialized, UQuery_Swap)

-----------------------------------------------------------------------------
\* UTruck

UTruck_Members ==
    <<<<"status", "string">>, <<"truckid", "int32">>, <<"x", "int32">>, <<"seqnum", "int64">>,
      <<"y", "int32">>>>
UTruck_HasBits == [status |-> 0, truckid |-> 1, x |-> 2, seqnum |-> 3, y |-> 4]
\* A faulty variant: the memcpy ends one member early.
UTruck_CopyShort == [plain |-> Span(UTruck_Members, "truckid", "x"), guarded |-> {"status"}]
UTruck_Copy == [plain |-> Span(UTruck_Members, "truckid", "y"), guarded |-> {"status"}]
UTruck_Clear ==
    [always |-> {}, guarded |-> {<<{0}, {"status"}>>, <<{1, 2, 3, 4}, Span(UTruck_Members,
     "truckid", "y")>>}]
UTruck_Parse ==
    {Reads(8, "truckid", "int32"), Reads(18, "status", "string"), Reads(24, "x", "int32"),
     Reads(32, "y", "int32"), Reads(40, "seqnum", "int64")}
UTruck_Serialize ==
    <<If(1, 1, "truckid", "int32"), If(0, 2, "status", "string"), If(2, 3, "x", "int32"),
      If(4, 4, "y", "int32"), If(3, 5, "seqnum", "int64")>>
UTruck_ByteSize ==
    [required |-> {0, 1, 2, 3, 4}, needs |-> [status |-> "string", truckid |-> "int32",
     x |-> "int32", seqnum |-> "int64", y |-> "int32"], guard |-> {}, options |-> Nothing,
     lists |-> Nothing]
UTruck_MergeFrom ==
    [lists |-> {}, guard |-> {0, 1, 2, 3, 4}, fields |-> [status |-> 0, truckid |-> 1, x |-> 2,
     seqnum |-> 3, y |-> 4]]
UTruck_IsInitialized == [bits |-> {0, 1, 2, 3, 4}, nested |-> {}]
UTruck_Swap == {"status", "truckid", "x", "seqnum", "y"}
UTruck == Class
    (UTruck_Members, UTruck_HasBits, UTruck_Copy, UTruck_Clear, UTruck_Parse, UTruck_Serialize,
     UTruck_ByteSize, UTruck_MergeFrom, UTruck_IsInitialized, UTruck_Swap)

-----------------------------------------------------------------------------
\* UCommands

UCommands_Members ==
    <<<<"pickups", "UGoPickup">>, <<"deliveries", "UGoDeliver">>, <<"queries", "UQuery">>,
      <<"acks", "int64">>, <<"simspeed", "uint32">>, <<"disconnect", "bool">>>>
UCommands_HasBits == [simspeed |-> 0, disconnect |-> 1]
UCommands_Copy ==
    [plain |-> {"pickups", "deliveries", "queries", "acks"} \cup Span(UCommands_Members,
     "simspeed", "disconnect"), guarded |-> {}]
UCommands_Clear ==
    [always |-> {"pickups", "deliveries", "queries", "acks"}, guarded |-> {<<{0, 1},
     Span(UCommands_Members, "simspeed", "disconnect")>>}]
UCommands_Parse ==
    {Reads(10, "pickups", "message"), Reads(18, "deliveries", "message"),
     Reads(24, "simspeed", "uint32"), Reads(32, "disconnect", "bool"),
     Reads(42, "queries", "message"), Reads(48, "acks", "int64"), Reads(50, "acks", "packed")}
UCommands_Serialize ==
    <<Each(1, "pickups", "message"), Each(2, "deliveries", "message"),
      If(0, 3, "simspeed", "uint32"), If(1, 4, "disconnect", "bool"),
      Each(5, "queries", "message"), Each(6, "acks", "int64")>>
UCommands_ByteSize ==
    [required |-> {}, needs |-> Nothing, guard |-> {0, 1}, options |-> [simspeed |-> "uint32",
     disconnect |-> "bool"], lists |-> [pickups |-> "message", deliveries |-> "message",
     queries |-> "message", acks |-> "int64"]]
UCommands_MergeFrom ==
    [lists |-> {"pickups", "deliveries", "queries", "acks"}, guard |-> {0, 1},
     fields |-> [simspeed |-> 0, disconnect |-> 1]]
UCommands_IsInitialized == [bits |-> {}, nested |-> {"pickups", "deliveries", "queries"}]
UCommands_Swap == {"pickups", "deliveries", "queries", "acks", "simspeed", "disconnect"}
UCommands == Class
    (UCommands_Members, UCommands_HasBits, UCommands_Copy, UCommands_Clear, UCommands_Parse,
     UCommands_Serialize, UCommands_ByteSize, UCommands_MergeFrom, UCommands_IsInitialized,
     UCommands_Swap)

-----------------------------------------------------------------------------
\* UResponses

UResponses_Members ==
    <<<<"completions", "UFinished">>, <<"delivered", "UDeliveryMade">>, <<"acks", "int64">>,
      <<"truckstatus", "UTruck">>, <<"error", "UErr">>, <<"finished", "bool">>>>
UResponses_HasBits == [finished |-> 0]
UResponses_Copy ==
    [plain |-> {"completions", "delivered", "acks", "truckstatus", "error", "finished"},
     guarded |-> {}]
\* A faulty variant: finished_ is not reset.
UResponses_ClearStale ==
    [always |-> {"completions", "delivered", "acks", "truckstatus", "error"},
     guarded |-> {}]
UResponses_Clear ==
    [always |-> {"completions", "delivered", "acks", "truckstatus", "error", "finished"},
     guarded |-> {}]
UResponses_Parse ==
    {Reads(10, "completions", "message"), Reads(18, "delivered", "message"),
     Reads(24, "finished", "bool"), Reads(32, "acks", "int64"), Reads(34, "acks", "packed"),
     Reads(42, "truckstatus", "message"), Reads(50, "error", "message")}
UResponses_Serialize ==
    <<Each(1, "completions", "message"), Each(2, "delivered", "message"),
      If(0, 3, "finished", "bool"), Each(4, "acks", "int64"),
      Each(5, "truckstatus", "message"), Each(6, "error", "message")>>
UResponses_ByteSize ==
    [required |-> {}, needs |-> Nothing, guard |-> {0}, options |-> [finished |-> "bool"],
     lists |-> [completions |-> "message", delivered |-> "message", acks |-> "int64",
     truckstatus |-> "message", error |-> "message"]]
UResponses_MergeFrom ==
    [lists |-> {"completions", "delivered", "acks", "truckstatus", "error"}, guard |-> {0},
     fields |-> [finished |-> 0]]
UResponses_IsInitialized ==
    [bits |-> {}, nested |-> {"completions", "delivered", "truckstatus", "error"}]
UResponses_Swap == {"completions", "delivered", "acks", "truckstatus", "error", "finished"}
UResponses == Class
    (UResponses_Members, UResponses_HasBits, UResponses_Copy, UResponses_Clear,
     UResponses_Parse, UResponses_Serialize, UResponses_ByteSize, UResponses_MergeFrom,
     UResponses_IsInitialized, UResponses_Swap)

==============================================================================
