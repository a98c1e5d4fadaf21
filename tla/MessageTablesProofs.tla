------------------------- MODULE MessageTablesProofs -------------------------
(* The tables of the 25 generated classes keep the rules of MessageTables, and  *)
(* nest three deep at most.  For each class: what its members, types and lists  *)
(* come to, what its memcpy and memset calls span, and the rules one by one.    *)
EXTENDS ProtocolBuffers, MessageSchema, MessageTables, TLAPS

USE DEF Field, Required, Optional, Repeated, If, Each, Reads, Always, Nothing, Class, Scalars,
        VarintTypes, WireType

LEMMA NoFields == DOMAIN Nothing = {}
OBVIOUS

-----------------------------------------------------------------------------
LEMMA ProductTable ==
    /\ Classes["Product"] = Product /\ Schemas["Product"] = Product_Proto
    /\ Product.type = [description |-> "string", id |-> "int64", count |-> "int32"]
    /\ Product.lists = {}
<1> DEFINE m == Product_Members
<1>1. At(m, "description") = 1 /\ At(m, "id") = 2 /\ At(m, "count") = 3
    BY DEF At, Product_Members
<1>2. Names(m) = {"description", "id", "count"}
    BY DEF Names, Product_Members
<1>3. Product.type = [f \in Names(m) |-> m[At(m, f)][2]]
    BY DEF Product
<1>4. Product.lists = {}
    BY <1>2 DEF Product, Product_HasBits
<1>5. Classes["Product"] = Product /\ Schemas["Product"] = Product_Proto
    BY DEF Classes, Schemas
<1> QED
    BY <1>1, <1>2, <1>3, <1>4, <1>5 DEF Product_Members

LEMMA ProductSpan == Span(Product_Members, "id", "count") = {"id", "count"}
<1> DEFINE m == Product_Members
<1>1. At(m, "id") = 2 /\ At(m, "count") = 3
    BY DEF At, Product_Members
<1>2. Span(m, "id", "count") = {m[i][1] : i \in 2 .. 3}
    BY <1>1 DEF Span
<1>3. 2 .. 3 = {2, 3}
    OBVIOUS
<1> QED
    BY <1>2, <1>3 DEF Product_Members

LEMMA ProductFits == Fits(Product, Product_Proto)
<1>1. FitsMembers(Product)
    BY ProductTable DEF FitsMembers, Product, Product_HasBits
<1>2. FitsCopy(Product)
    BY ProductTable, ProductSpan DEF FitsCopy, Product, Product_HasBits, Product_Copy,
        Product_Swap
<1>3. FitsClear(Product)
    <2> DEFINE g1 == <<{0}, {"description"}>>
               g2 == <<{1, 2}, {"id", "count"}>>
    <2>1. Product.clear.guarded = {g1, g2} /\ Product.clear.always = {}
        BY ProductTable, ProductSpan DEF Product, Product_Clear
    <2>2. g1[1] = {0} /\ g1[2] = {"description"} /\ g2[1] = {1, 2} /\ g2[2] = {"id", "count"}
        OBVIOUS
    <2> HIDE DEF g1, g2
    <2> QED
        BY <2>1, <2>2, ProductTable DEF FitsClear, Product, Product_HasBits
<1>4. FitsMerge(Product)
    <2>1. Product.merge.lists = Product.lists /\ Product.merge.fields = Product.has
        BY ProductTable DEF Product, Product_MergeFrom, Product_HasBits
    <2>2. \A f \in DOMAIN Product.has : Product.has[f] \in Product.merge.guard
        BY ProductTable, NoFields DEF Product, Product_MergeFrom, Product_HasBits
    <2> QED
        BY <2>1, <2>2, ProductTable, Zenon DEF FitsMerge
<1>5. FitsInit(Product, Product_Proto)
    BY ProductTable DEF FitsInit, Product, Product_HasBits, Product_IsInitialized, Product_Proto
<1>6. FitsSize(Product)
    <2>1. DOMAIN Product.size.lists = Product.lists
        BY ProductTable, NoFields DEF Product, Product_ByteSize, Product_HasBits
    <2>2. DOMAIN Product.size.needs \cup DOMAIN Product.size.options = DOMAIN Product.has
        BY ProductTable, NoFields DEF Product, Product_ByteSize, Product_HasBits
    <2>3. \A f \in DOMAIN Product.size.needs : Product.has[f] \in Product.size.required
        BY ProductTable, NoFields DEF Product, Product_ByteSize, Product_HasBits
    <2>4. \A f \in DOMAIN Product.size.options : Product.has[f] \in Product.size.guard
        BY ProductTable, NoFields DEF Product, Product_ByteSize, Product_HasBits
    <2> QED
        BY <2>1, <2>2, <2>3, <2>4, ProductTable, Zenon DEF FitsSize
<1>7. FitsSizes(Product, Product_Proto)
    BY ProductTable, NoFields DEF FitsSizes, SizeType, Product, Product_HasBits,
        Product_ByteSize, Product_Serialize, Product_Proto
<1>8. FitsRows(Product, Product_Proto)
    BY ProductTable DEF FitsRows, FitsRow, Product, Product_HasBits, Product_Parse,
        Product_Serialize, Product_Proto
<1> QED
    BY <1>1, <1>2, <1>3, <1>4, <1>5, <1>6, <1>7, <1>8 DEF Fits

-----------------------------------------------------------------------------
LEMMA PackTable ==
    /\ Classes["Pack"] = Pack /\ Schemas["Pack"] = Pack_Proto
    /\ Pack.type = [things |-> "Product", trackingid |-> "string", wh_id |-> "int32",
            upsaccount |-> "int32", packageid |-> "int64", amazonaccount |-> "int32",
            dest_x |-> "int32", dest_y |-> "int32"]
    /\ Pack.lists = {"things"}
<1> DEFINE m == Pack_Members
<1>1. At(m, "things") = 1 /\ At(m, "trackingid") = 2 /\ At(m, "wh_id") = 3 /\
      At(m, "upsaccount") = 4 /\ At(m, "packageid") = 5 /\ At(m, "amazonaccount") = 6 /\
      At(m, "dest_x") = 7 /\ At(m, "dest_y") = 8
    BY DEF At, Pack_Members
<1>2. Names(m) = {"things", "trackingid", "wh_id", "upsaccount", "packageid", "amazonaccount", "dest_x", "dest_y"}
    BY DEF Names, Pack_Members
<1>3. Pack.type = [f \in Names(m) |-> m[At(m, f)][2]]
    BY DEF Pack
<1>4. Pack.lists = {"things"}
    BY <1>2 DEF Pack, Pack_HasBits
<1>5. Classes["Pack"] = Pack /\ Schemas["Pack"] = Pack_Proto
    BY DEF Classes, Schemas
<1> QED
    BY <1>1, <1>2, <1>3, <1>4, <1>5 DEF Pack_Members

LEMMA PackSpan == Span(Pack_Members, "wh_id", "dest_y") = {"wh_id", "upsaccount", "packageid", "amazonaccount", "dest_x", "dest_y"}
<1> DEFINE m == Pack_Members
<1>1. At(m, "wh_id") = 3 /\ At(m, "dest_y") = 8
    BY DEF At, Pack_Members
<1>2. Span(m, "wh_id", "dest_y") = {m[i][1] : i \in 3 .. 8}
    BY <1>1 DEF Span
<1>3. 3 .. 8 = {3, 4, 5, 6, 7, 8}
    OBVIOUS
<1> QED
    BY <1>2, <1>3 DEF Pack_Members

LEMMA PackFits == Fits(Pack, Pack_Proto)
<1>1. FitsMembers(Pack)
    BY PackTable DEF FitsMembers, Pack, Pack_HasBits
<1>2. FitsCopy(Pack)
    BY PackTable, PackSpan DEF FitsCopy, Pack, Pack_HasBits, Pack_Copy, Pack_Swap
<1>3. FitsClear(Pack)
    <2> DEFINE g1 == <<{0}, {"trackingid"}>>
               g2 == <<{1, 2, 3, 4, 5, 6}, {"wh_id", "upsaccount", "packageid", "amazonaccount", "dest_x", "dest_y"}>>
    <2>1. Pack.clear.guarded = {g1, g2} /\ Pack.clear.always = {"things"}
        BY PackTable, PackSpan DEF Pack, Pack_Clear
    <2>2. g1[1] = {0} /\ g1[2] = {"trackingid"} /\ g2[1] = {1, 2, 3, 4, 5, 6} /\ g2[2] = {"wh_id", "upsaccount", "packageid", "amazonaccount", "dest_x", "dest_y"}
        OBVIOUS
    <2> HIDE DEF g1, g2
    <2> QED
        BY <2>1, <2>2, PackTable DEF FitsClear, Pack, Pack_HasBits
<1>4. FitsMerge(Pack)
    <2>1. Pack.merge.lists = Pack.lists /\ Pack.merge.fields = Pack.has
        BY PackTable DEF Pack, Pack_MergeFrom, Pack_HasBits
    <2>2. \A f \in DOMAIN Pack.has : Pack.has[f] \in Pack.merge.guard
        BY PackTable, NoFields DEF Pack, Pack_MergeFrom, Pack_HasBits
    <2> QED
        BY <2>1, <2>2, PackTable, Zenon DEF FitsMerge
<1>5. FitsInit(Pack, Pack_Proto)
    BY PackTable DEF FitsInit, Pack, Pack_HasBits, Pack_IsInitialized, Pack_Proto
<1>6. FitsSize(Pack)
    <2>1. DOMAIN Pack.size.lists = Pack.lists
        BY PackTable, NoFields DEF Pack, Pack_ByteSize, Pack_HasBits
    <2>2. DOMAIN Pack.size.needs \cup DOMAIN Pack.size.options = DOMAIN Pack.has
        BY PackTable, NoFields DEF Pack, Pack_ByteSize, Pack_HasBits
    <2>3. \A f \in DOMAIN Pack.size.needs : Pack.has[f] \in Pack.size.required
        BY PackTable, NoFields DEF Pack, Pack_ByteSize, Pack_HasBits
    <2>4. \A f \in DOMAIN Pack.size.options : Pack.has[f] \in Pack.size.guard
        BY PackTable, NoFields DEF Pack, Pack_ByteSize, Pack_HasBits
    <2> QED
        BY <2>1, <2>2, <2>3, <2>4, PackTable, Zenon DEF FitsSize
<1>7. FitsSizes(Pack, Pack_Proto)
    BY PackTable, NoFields, SMTT(120) DEF FitsSizes, SizeType, Pack, Pack_HasBits, Pack_ByteSize,
        Pack_Serialize, Pack_Proto
<1>8. FitsRows(Pack, Pack_Proto)
    BY PackTable, SMTT(60) DEF FitsRows, FitsRow, Pack, Pack_HasBits, Pack_Parse, Pack_Serialize,
        Pack_Proto
<1> QED
    BY <1>1, <1>2, <1>3, <1>4, <1>5, <1>6, <1>7, <1>8 DEF Fits

-----------------------------------------------------------------------------
LEMMA UAInitConnectTable ==
    /\ Classes["UAInitConnect"] = UAInitConnect /\ Schemas["UAInitConnect"] = UAInitConnect_Proto
    /\ UAInitConnect.type = [worldid |-> "int64"]
    /\ UAInitConnect.lists = {}
<1> DEFINE m == UAInitConnect_Members
<1>1. At(m, "worldid") = 1
    BY DEF At, UAInitConnect_Members
<1>2. Names(m) = {"worldid"}
    BY DEF Names, UAInitConnect_Members
<1>3. UAInitConnect.type = [f \in Names(m) |-> m[At(m, f)][2]]
    BY DEF UAInitConnect
<1>4. UAInitConnect.lists = {}
    BY <1>2 DEF UAInitConnect, UAInitConnect_HasBits
<1>5. Classes["UAInitConnect"] = UAInitConnect /\ Schemas["UAInitConnect"] = UAInitConnect_Proto
    BY DEF Classes, Schemas
<1> QED
    BY <1>1, <1>2, <1>3, <1>4, <1>5 DEF UAInitConnect_Members

LEMMA UAInitConnectFits == Fits(UAInitConnect, UAInitConnect_Proto)
<1>1. FitsMembers(UAInitConnect)
    BY UAInitConnectTable DEF FitsMembers, UAInitConnect, UAInitConnect_HasBits
<1>2. FitsCopy(UAInitConnect)
    BY UAInitConnectTable DEF FitsCopy, UAInitConnect, UAInitConnect_HasBits,
        UAInitConnect_Copy, UAInitConnect_Swap
<1>3. FitsClear(UAInitConnect)
    BY UAInitConnectTable DEF FitsClear, UAInitConnect, UAInitConnect_HasBits,
        UAInitConnect_Clear
<1>4. FitsMerge(UAInitConnect)
    <2>1. UAInitConnect.merge.lists = UAInitConnect.lists /\ UAInitConnect.merge.fields = UAInitConnect.has
        BY UAInitConnectTable DEF UAInitConnect, UAInitConnect_MergeFrom, UAInitConnect_HasBits
    <2>2. \A f \in DOMAIN UAInitConnect.has : UAInitConnect.has[f] \in UAInitConnect.merge.guard
        BY UAInitConnectTable, NoFields DEF UAInitConnect, UAInitConnect_MergeFrom, UAInitConnect_HasBits
    <2> QED
        BY <2>1, <2>2, UAInitConnectTable, Zenon DEF FitsMerge
<1>5. FitsInit(UAInitConnect, UAInitConnect_Proto)
    BY UAInitConnectTable DEF FitsInit, UAInitConnect, UAInitConnect_HasBits,
        UAInitConnect_IsInitialized, UAInitConnect_Proto
<1>6. FitsSize(UAInitConnect)
    <2>1. DOMAIN UAInitConnect.size.lists = UAInitConnect.lists
        BY UAInitConnectTable, NoFields DEF UAInitConnect, UAInitConnect_ByteSize, UAInitConnect_HasBits
    <2>2. DOMAIN UAInitConnect.size.needs \cup DOMAIN UAInitConnect.size.options = DOMAIN UAInitConnect.has
        BY UAInitConnectTable, NoFields DEF UAInitConnect, UAInitConnect_ByteSize, UAInitConnect_HasBits
    <2>3. \A f \in DOMAIN UAInitConnect.size.needs : UAInitConnect.has[f] \in UAInitConnect.size.required
        BY UAInitConnectTable, NoFields DEF UAInitConnect, UAInitConnect_ByteSize, UAInitConnect_HasBits
    <2>4. \A f \in DOMAIN UAInitConnect.size.options : UAInitConnect.has[f] \in UAInitConnect.size.guard
        BY UAInitConnectTable, NoFields DEF UAInitConnect, UAInitConnect_ByteSize, UAInitConnect_HasBits
    <2> QED
        BY <2>1, <2>2, <2>3, <2>4, UAInitConnectTable, Zenon DEF FitsSize
<1>7. FitsSizes(UAInitConnect, UAInitConnect_Proto)
    BY UAInitConnectTable, NoFields DEF FitsSizes, SizeType, UAInitConnect,
        UAInitConnect_HasBits, UAInitConnect_ByteSize, UAInitConnect_Serialize,
        UAInitConnect_Proto
<1>8. FitsRows(UAInitConnect, UAInitConnect_Proto)
    BY UAInitConnectTable DEF FitsRows, FitsRow, UAInitConnect, UAInitConnect_HasBits,
        UAInitConnect_Parse, UAInitConnect_Serialize, UAInitConnect_Proto
<1> QED
    BY <1>1, <1>2, <1>3, <1>4, <1>5, <1>6, <1>7, <1>8 DEF Fits

-----------------------------------------------------------------------------
LEMMA AUConfirmConnectTable ==
    /\ Classes["AUConfirmConnect"] = AUConfirmConnect /\ Schemas["AUConfirmConnect"] = AUConfirmConnect_Proto
    /\ AUConfirmConnect.type = [worldid |-> "int64", connected |-> "bool"]
    /\ AUConfirmConnect.lists = {}
<1> DEFINE m == AUConfirmConnect_Members
<1>1. At(m, "worldid") = 1 /\ At(m, "connected") = 2
    BY DEF At, AUConfirmConnect_Members
<1>2. Names(m) = {"worldid", "connected"}
    BY DEF Names, AUConfirmConnect_Members
<1>3. AUConfirmConnect.type = [f \in Names(m) |-> m[At(m, f)][2]]
    BY DEF AUConfirmConnect
<1>4. AUConfirmConnect.lists = {}
    BY <1>2 DEF AUConfirmConnect, AUConfirmConnect_HasBits
<1>5. Classes["AUConfirmConnect"] = AUConfirmConnect /\ Schemas["AUConfirmConnect"] = AUConfirmConnect_Proto
    BY DEF Classes, Schemas
<1> QED
    BY <1>1, <1>2, <1>3, <1>4, <1>5 DEF AUConfirmConnect_Members

LEMMA AUConfirmConnectSpan == Span(AUConfirmConnect_Members, "worldid", "connected") = {"worldid", "connected"}
<1> DEFINE m == AUConfirmConnect_Members
<1>1. At(m, "worldid") = 1 /\ At(m, "connected") = 2
    BY DEF At, AUConfirmConnect_Members
<1>2. Span(m, "worldid", "connected") = {m[i][1] : i \in 1 .. 2}
    BY <1>1 DEF Span
<1>3. 1 .. 2 = {1, 2}
    OBVIOUS
<1> QED
    BY <1>2, <1>3 DEF AUConfirmConnect_Members

LEMMA AUConfirmConnectFits == Fits(AUConfirmConnect, AUConfirmConnect_Proto)
<1>1. FitsMembers(AUConfirmConnect)
    BY AUConfirmConnectTable DEF FitsMembers, AUConfirmConnect, AUConfirmConnect_HasBits
<1>2. FitsCopy(AUConfirmConnect)
    BY AUConfirmConnectTable, AUConfirmConnectSpan DEF FitsCopy, AUConfirmConnect,
        AUConfirmConnect_HasBits, AUConfirmConnect_Copy, AUConfirmConnect_Swap
<1>3. FitsClear(AUConfirmConnect)
    <2> DEFINE g1 == <<{0, 1}, {"worldid", "connected"}>>
    <2>1. AUConfirmConnect.clear.guarded = {g1} /\ AUConfirmConnect.clear.always = {}
        BY AUConfirmConnectTable, AUConfirmConnectSpan DEF AUConfirmConnect, AUConfirmConnect_Clear
    <2>2. g1[1] = {0, 1} /\ g1[2] = {"worldid", "connected"}
        OBVIOUS
    <2> HIDE DEF g1
    <2> QED
        BY <2>1, <2>2, AUConfirmConnectTable DEF FitsClear, AUConfirmConnect, AUConfirmConnect_HasBits
<1>4. FitsMerge(AUConfirmConnect)
    <2>1. AUConfirmConnect.merge.lists = AUConfirmConnect.lists /\ AUConfirmConnect.merge.fields = AUConfirmConnect.has
        BY AUConfirmConnectTable DEF AUConfirmConnect, AUConfirmConnect_MergeFrom, AUConfirmConnect_HasBits
    <2>2. \A f \in DOMAIN AUConfirmConnect.has : AUConfirmConnect.has[f] \in AUConfirmConnect.merge.guard
        BY AUConfirmConnectTable, NoFields DEF AUConfirmConnect, AUConfirmConnect_MergeFrom, AUConfirmConnect_HasBits
    <2> QED
        BY <2>1, <2>2, AUConfirmConnectTable, Zenon DEF FitsMerge
<1>5. FitsInit(AUConfirmConnect, AUConfirmConnect_Proto)
    BY AUConfirmConnectTable DEF FitsInit, AUConfirmConnect, AUConfirmConnect_HasBits,
        AUConfirmConnect_IsInitialized, AUConfirmConnect_Proto
<1>6. FitsSize(AUConfirmConnect)
    <2>1. DOMAIN AUConfirmConnect.size.lists = AUConfirmConnect.lists
        BY AUConfirmConnectTable, NoFields DEF AUConfirmConnect, AUConfirmConnect_ByteSize, AUConfirmConnect_HasBits
    <2>2. DOMAIN AUConfirmConnect.size.needs \cup DOMAIN AUConfirmConnect.size.options = DOMAIN AUConfirmConnect.has
        BY AUConfirmConnectTable, NoFields DEF AUConfirmConnect, AUConfirmConnect_ByteSize, AUConfirmConnect_HasBits
    <2>3. \A f \in DOMAIN AUConfirmConnect.size.needs : AUConfirmConnect.has[f] \in AUConfirmConnect.size.required
        BY AUConfirmConnectTable, NoFields DEF AUConfirmConnect, AUConfirmConnect_ByteSize, AUConfirmConnect_HasBits
    <2>4. \A f \in DOMAIN AUConfirmConnect.size.options : AUConfirmConnect.has[f] \in AUConfirmConnect.size.guard
        BY AUConfirmConnectTable, NoFields DEF AUConfirmConnect, AUConfirmConnect_ByteSize, AUConfirmConnect_HasBits
    <2> QED
        BY <2>1, <2>2, <2>3, <2>4, AUConfirmConnectTable, Zenon DEF FitsSize
<1>7. FitsSizes(AUConfirmConnect, AUConfirmConnect_Proto)
    BY AUConfirmConnectTable, NoFields DEF FitsSizes, SizeType, AUConfirmConnect,
        AUConfirmConnect_HasBits, AUConfirmConnect_ByteSize, AUConfirmConnect_Serialize,
        AUConfirmConnect_Proto
<1>8. FitsRows(AUConfirmConnect, AUConfirmConnect_Proto)
    BY AUConfirmConnectTable DEF FitsRows, FitsRow, AUConfirmConnect, AUConfirmConnect_HasBits,
        AUConfirmConnect_Parse, AUConfirmConnect_Serialize, AUConfirmConnect_Proto
<1> QED
    BY <1>1, <1>2, <1>3, <1>4, <1>5, <1>6, <1>7, <1>8 DEF Fits

-----------------------------------------------------------------------------
LEMMA AUNeedATruckTable ==
    /\ Classes["AUNeedATruck"] = AUNeedATruck /\ Schemas["AUNeedATruck"] = AUNeedATruck_Proto
    /\ AUNeedATruck.type = [pack |-> "Pack", seqnum |-> "int64"]
    /\ AUNeedATruck.lists = {}
<1> DEFINE m == AUNeedATruck_Members
<1>1. At(m, "pack") = 1 /\ At(m, "seqnum") = 2
    BY DEF At, AUNeedATruck_Members
<1>2. Names(m) = {"pack", "seqnum"}
    BY DEF Names, AUNeedATruck_Members
<1>3. AUNeedATruck.type = [f \in Names(m) |-> m[At(m, f)][2]]
    BY DEF AUNeedATruck
<1>4. AUNeedATruck.lists = {}
    BY <1>2 DEF AUNeedATruck, AUNeedATruck_HasBits
<1>5. Classes["AUNeedATruck"] = AUNeedATruck /\ Schemas["AUNeedATruck"] = AUNeedATruck_Proto
    BY DEF Classes, Schemas
<1> QED
    BY <1>1, <1>2, <1>3, <1>4, <1>5 DEF AUNeedATruck_Members

LEMMA AUNeedATruckFits == Fits(AUNeedATruck, AUNeedATruck_Proto)
<1>1. FitsMembers(AUNeedATruck)
    BY AUNeedATruckTable DEF FitsMembers, AUNeedATruck, AUNeedATruck_HasBits
<1>2. FitsCopy(AUNeedATruck)
    BY AUNeedATruckTable DEF FitsCopy, AUNeedATruck, AUNeedATruck_HasBits, AUNeedATruck_Copy,
        AUNeedATruck_Swap
<1>3. FitsClear(AUNeedATruck)
    <2> DEFINE g1 == <<{0}, {"pack"}>>
    <2>1. AUNeedATruck.clear.guarded = {g1} /\ AUNeedATruck.clear.always = {"seqnum"}
        BY AUNeedATruckTable DEF AUNeedATruck, AUNeedATruck_Clear
    <2>2. g1[1] = {0} /\ g1[2] = {"pack"}
        OBVIOUS
    <2> HIDE DEF g1
    <2> QED
        BY <2>1, <2>2, AUNeedATruckTable DEF FitsClear, AUNeedATruck, AUNeedATruck_HasBits
<1>4. FitsMerge(AUNeedATruck)
    <2>1. AUNeedATruck.merge.lists = AUNeedATruck.lists /\ AUNeedATruck.merge.fields = AUNeedATruck.has
        BY AUNeedATruckTable DEF AUNeedATruck, AUNeedATruck_MergeFrom, AUNeedATruck_HasBits
    <2>2. \A f \in DOMAIN AUNeedATruck.has : AUNeedATruck.has[f] \in AUNeedATruck.merge.guard
        BY AUNeedATruckTable, NoFields DEF AUNeedATruck, AUNeedATruck_MergeFrom, AUNeedATruck_HasBits
    <2> QED
        BY <2>1, <2>2, AUNeedATruckTable, Zenon DEF FitsMerge
<1>5. FitsInit(AUNeedATruck, AUNeedATruck_Proto)
    BY AUNeedATruckTable DEF FitsInit, AUNeedATruck, AUNeedATruck_HasBits,
        AUNeedATruck_IsInitialized, AUNeedATruck_Proto
<1>6. FitsSize(AUNeedATruck)
    <2>1. DOMAIN AUNeedATruck.size.lists = AUNeedATruck.lists
        BY AUNeedATruckTable, NoFields DEF AUNeedATruck, AUNeedATruck_ByteSize, AUNeedATruck_HasBits
    <2>2. DOMAIN AUNeedATruck.size.needs \cup DOMAIN AUNeedATruck.size.options = DOMAIN AUNeedATruck.has
        BY AUNeedATruckTable, NoFields DEF AUNeedATruck, AUNeedATruck_ByteSize, AUNeedATruck_HasBits
    <2>3. \A f \in DOMAIN AUNeedATruck.size.needs : AUNeedATruck.has[f] \in AUNeedATruck.size.required
        BY AUNeedATruckTable, NoFields DEF AUNeedATruck, AUNeedATruck_ByteSize, AUNeedATruck_HasBits
    <2>4. \A f \in DOMAIN AUNeedATruck.size.options : AUNeedATruck.has[f] \in AUNeedATruck.size.guard
        BY AUNeedATruckTable, NoFields DEF AUNeedATruck, AUNeedATruck_ByteSize, AUNeedATruck_HasBits
    <2> QED
        BY <2>1, <2>2, <2>3, <2>4, AUNeedATruckTable, Zenon DEF FitsSize
<1>7. FitsSizes(AUNeedATruck, AUNeedATruck_Proto)
    BY AUNeedATruckTable, NoFields DEF FitsSizes, SizeType, AUNeedATruck, AUNeedATruck_HasBits,
        AUNeedATruck_ByteSize, AUNeedATruck_Serialize, AUNeedATruck_Proto
<1>8. FitsRows(AUNeedATruck, AUNeedATruck_Proto)
    BY AUNeedATruckTable DEF FitsRows, FitsRow, AUNeedATruck, AUNeedATruck_HasBits,
        AUNeedATruck_Parse, AUNeedATruck_Serialize, AUNeedATruck_Proto
<1> QED
    BY <1>1, <1>2, <1>3, <1>4, <1>5, <1>6, <1>7, <1>8 DEF Fits

-----------------------------------------------------------------------------
LEMMA AUTruckCanGoTable ==
    /\ Classes["AUTruckCanGo"] = AUTruckCanGo /\ Schemas["AUTruckCanGo"] = AUTruckCanGo_Proto
    /\ AUTruckCanGo.type = [seqnum |-> "int64", truckid |-> "int32"]
    /\ AUTruckCanGo.lists = {}
<1> DEFINE m == AUTruckCanGo_Members
<1>1. At(m, "seqnum") = 1 /\ At(m, "truckid") = 2
    BY DEF At, AUTruckCanGo_Members
<1>2. Names(m) = {"seqnum", "truckid"}
    BY DEF Names, AUTruckCanGo_Members
<1>3. AUTruckCanGo.type = [f \in Names(m) |-> m[At(m, f)][2]]
    BY DEF AUTruckCanGo
<1>4. AUTruckCanGo.lists = {}
    BY <1>2 DEF AUTruckCanGo, AUTruckCanGo_HasBits
<1>5. Classes["AUTruckCanGo"] = AUTruckCanGo /\ Schemas["AUTruckCanGo"] = AUTruckCanGo_Proto
    BY DEF Classes, Schemas
<1> QED
    BY <1>1, <1>2, <1>3, <1>4, <1>5 DEF AUTruckCanGo_Members

LEMMA AUTruckCanGoSpan == Span(AUTruckCanGo_Members, "seqnum", "truckid") = {"seqnum", "truckid"}
<1> DEFINE m == AUTruckCanGo_Members
<1>1. At(m, "seqnum") = 1 /\ At(m, "truckid") = 2
    BY DEF At, AUTruckCanGo_Members
<1>2. Span(m, "seqnum", "truckid") = {m[i][1] : i \in 1 .. 2}
    BY <1>1 DEF Span
<1>3. 1 .. 2 = {1, 2}
    OBVIOUS
<1> QED
    BY <1>2, <1>3 DEF AUTruckCanGo_Members

LEMMA AUTruckCanGoFits == Fits(AUTruckCanGo, AUTruckCanGo_Proto)
<1>1. FitsMembers(AUTruckCanGo)
    BY AUTruckCanGoTable DEF FitsMembers, AUTruckCanGo, AUTruckCanGo_HasBits
<1>2. FitsCopy(AUTruckCanGo)
    BY AUTruckCanGoTable, AUTruckCanGoSpan DEF FitsCopy, AUTruckCanGo, AUTruckCanGo_HasBits,
        AUTruckCanGo_Copy, AUTruckCanGo_Swap
<1>3. FitsClear(AUTruckCanGo)
    <2> DEFINE g1 == <<{0, 1}, {"seqnum", "truckid"}>>
    <2>1. AUTruckCanGo.clear.guarded = {g1} /\ AUTruckCanGo.clear.always = {}
        BY AUTruckCanGoTable, AUTruckCanGoSpan DEF AUTruckCanGo, AUTruckCanGo_Clear
    <2>2. g1[1] = {0, 1} /\ g1[2] = {"seqnum", "truckid"}
        OBVIOUS
    <2> HIDE DEF g1
    <2> QED
        BY <2>1, <2>2, AUTruckCanGoTable DEF FitsClear, AUTruckCanGo, AUTruckCanGo_HasBits
<1>4. FitsMerge(AUTruckCanGo)
    <2>1. AUTruckCanGo.merge.lists = AUTruckCanGo.lists /\ AUTruckCanGo.merge.fields = AUTruckCanGo.has
        BY AUTruckCanGoTable DEF AUTruckCanGo, AUTruckCanGo_MergeFrom, AUTruckCanGo_HasBits
    <2>2. \A f \in DOMAIN AUTruckCanGo.has : AUTruckCanGo.has[f] \in AUTruckCanGo.merge.guard
        BY AUTruckCanGoTable, NoFields DEF AUTruckCanGo, AUTruckCanGo_MergeFrom, AUTruckCanGo_HasBits
    <2> QED
        BY <2>1, <2>2, AUTruckCanGoTable, Zenon DEF FitsMerge
<1>5. FitsInit(AUTruckCanGo, AUTruckCanGo_Proto)
    BY AUTruckCanGoTable DEF FitsInit, AUTruckCanGo, AUTruckCanGo_HasBits,
        AUTruckCanGo_IsInitialized, AUTruckCanGo_Proto
<1>6. FitsSize(AUTruckCanGo)
    <2>1. DOMAIN AUTruckCanGo.size.lists = AUTruckCanGo.lists
        BY AUTruckCanGoTable, NoFields DEF AUTruckCanGo, AUTruckCanGo_ByteSize, AUTruckCanGo_HasBits
    <2>2. DOMAIN AUTruckCanGo.size.needs \cup DOMAIN AUTruckCanGo.size.options = DOMAIN AUTruckCanGo.has
        BY AUTruckCanGoTable, NoFields DEF AUTruckCanGo, AUTruckCanGo_ByteSize, AUTruckCanGo_HasBits
    <2>3. \A f \in DOMAIN AUTruckCanGo.size.needs : AUTruckCanGo.has[f] \in AUTruckCanGo.size.required
        BY AUTruckCanGoTable, NoFields DEF AUTruckCanGo, AUTruckCanGo_ByteSize, AUTruckCanGo_HasBits
    <2>4. \A f \in DOMAIN AUTruckCanGo.size.options : AUTruckCanGo.has[f] \in AUTruckCanGo.size.guard
        BY AUTruckCanGoTable, NoFields DEF AUTruckCanGo, AUTruckCanGo_ByteSize, AUTruckCanGo_HasBits
    <2> QED
        BY <2>1, <2>2, <2>3, <2>4, AUTruckCanGoTable, Zenon DEF FitsSize
<1>7. FitsSizes(AUTruckCanGo, AUTruckCanGo_Proto)
    BY AUTruckCanGoTable, NoFields DEF FitsSizes, SizeType, AUTruckCanGo, AUTruckCanGo_HasBits,
        AUTruckCanGo_ByteSize, AUTruckCanGo_Serialize, AUTruckCanGo_Proto
<1>8. FitsRows(AUTruckCanGo, AUTruckCanGo_Proto)
    BY AUTruckCanGoTable DEF FitsRows, FitsRow, AUTruckCanGo, AUTruckCanGo_HasBits,
        AUTruckCanGo_Parse, AUTruckCanGo_Serialize, AUTruckCanGo_Proto
<1> QED
    BY <1>1, <1>2, <1>3, <1>4, <1>5, <1>6, <1>7, <1>8 DEF Fits

-----------------------------------------------------------------------------
LEMMA UATruckArrivedTable ==
    /\ Classes["UATruckArrived"] = UATruckArrived /\ Schemas["UATruckArrived"] = UATruckArrived_Proto
    /\ UATruckArrived.type = [trackingid |-> "string", truckid |-> "int32", wh_id |-> "int32",
            seqnum |-> "int64"]
    /\ UATruckArrived.lists = {}
<1> DEFINE m == UATruckArrived_Members
<1>1. At(m, "trackingid") = 1 /\ At(m, "truckid") = 2 /\ At(m, "wh_id") = 3 /\ At(m, "seqnum") = 4
    BY DEF At, UATruckArrived_Members
<1>2. Names(m) = {"trackingid", "truckid", "wh_id", "seqnum"}
    BY DEF Names, UATruckArrived_Members
<1>3. UATruckArrived.type = [f \in Names(m) |-> m[At(m, f)][2]]
    BY DEF UATruckArrived
<1>4. UATruckArrived.lists = {}
    BY <1>2 DEF UATruckArrived, UATruckArrived_HasBits
<1>5. Classes["UATruckArrived"] = UATruckArrived /\ Schemas["UATruckArrived"] = UATruckArrived_Proto
    BY DEF Classes, Schemas
<1> QED
    BY <1>1, <1>2, <1>3, <1>4, <1>5 DEF UATruckArrived_Members

LEMMA UATruckArrivedSpan == Span(UATruckArrived_Members, "truckid", "seqnum") = {"truckid", "wh_id", "seqnum"}
<1> DEFINE m == UATruckArrived_Members
<1>1. At(m, "truckid") = 2 /\ At(m, "seqnum") = 4
    BY DEF At, UATruckArrived_Members
<1>2. Span(m, "truckid", "seqnum") = {m[i][1] : i \in 2 .. 4}
    BY <1>1 DEF Span
<1>3. 2 .. 4 = {2, 3, 4}
    OBVIOUS
<1> QED
    BY <1>2, <1>3 DEF UATruckArrived_Members

LEMMA UATruckArrivedFits == Fits(UATruckArrived, UATruckArrived_Proto)
<1>1. FitsMembers(UATruckArrived)
    BY UATruckArrivedTable DEF FitsMembers, UATruckArrived, UATruckArrived_HasBits
<1>2. FitsCopy(UATruckArrived)
    BY UATruckArrivedTable, UATruckArrivedSpan DEF FitsCopy, UATruckArrived,
        UATruckArrived_HasBits, UATruckArrived_Copy, UATruckArrived_Swap
<1>3. FitsClear(UATruckArrived)
    <2> DEFINE g1 == <<{0}, {"trackingid"}>>
               g2 == <<{1, 2, 3}, {"truckid", "wh_id", "seqnum"}>>
    <2>1. UATruckArrived.clear.guarded = {g1, g2} /\ UATruckArrived.clear.always = {}
        BY UATruckArrivedTable, UATruckArrivedSpan DEF UATruckArrived, UATruckArrived_Clear
    <2>2. g1[1] = {0} /\ g1[2] = {"trackingid"} /\ g2[1] = {1, 2, 3} /\ g2[2] = {"truckid", "wh_id", "seqnum"}
        OBVIOUS
    <2> HIDE DEF g1, g2
    <2> QED
        BY <2>1, <2>2, UATruckArrivedTable DEF FitsClear, UATruckArrived, UATruckArrived_HasBits
<1>4. FitsMerge(UATruckArrived)
    <2>1. UATruckArrived.merge.lists = UATruckArrived.lists /\ UATruckArrived.merge.fields = UATruckArrived.has
        BY UATruckArrivedTable DEF UATruckArrived, UATruckArrived_MergeFrom, UATruckArrived_HasBits
    <2>2. \A f \in DOMAIN UATruckArrived.has : UATruckArrived.has[f] \in UATruckArrived.merge.guard
        BY UATruckArrivedTable, NoFields DEF UATruckArrived, UATruckArrived_MergeFrom, UATruckArrived_HasBits
    <2> QED
        BY <2>1, <2>2, UATruckArrivedTable, Zenon DEF FitsMerge
<1>5. FitsInit(UATruckArrived, UATruckArrived_Proto)
    BY UATruckArrivedTable DEF FitsInit, UATruckArrived, UATruckArrived_HasBits,
        UATruckArrived_IsInitialized, UATruckArrived_Proto
<1>6. FitsSize(UATruckArrived)
    <2>1. DOMAIN UATruckArrived.size.lists = UATruckArrived.lists
        BY UATruckArrivedTable, NoFields DEF UATruckArrived, UATruckArrived_ByteSize, UATruckArrived_HasBits
    <2>2. DOMAIN UATruckArrived.size.needs \cup DOMAIN UATruckArrived.size.options = DOMAIN UATruckArrived.has
        BY UATruckArrivedTable, NoFields DEF UATruckArrived, UATruckArrived_ByteSize, UATruckArrived_HasBits
    <2>3. \A f \in DOMAIN UATruckArrived.size.needs : UATruckArrived.has[f] \in UATruckArrived.size.required
        BY UATruckArrivedTable, NoFields DEF UATruckArrived, UATruckArrived_ByteSize, UATruckArrived_HasBits
    <2>4. \A f \in DOMAIN UATruckArrived.size.options : UATruckArrived.has[f] \in UATruckArrived.size.guard
        BY UATruckArrivedTable, NoFields DEF UATruckArrived, UATruckArrived_ByteSize, UATruckArrived_HasBits
    <2> QED
        BY <2>1, <2>2, <2>3, <2>4, UATruckArrivedTable, Zenon DEF FitsSize
<1>7. FitsSizes(UATruckArrived, UATruckArrived_Proto)
    BY UATruckArrivedTable, NoFields DEF FitsSizes, SizeType, UATruckArrived,
        UATruckArrived_HasBits, UATruckArrived_ByteSize, UATruckArrived_Serialize,
        UATruckArrived_Proto
<1>8. FitsRows(UATruckArrived, UATruckArrived_Proto)
    BY UATruckArrivedTable DEF FitsRows, FitsRow, UATruckArrived, UATruckArrived_HasBits,
        UATruckArrived_Parse, UATruckArrived_Serialize, UATruckArrived_Proto
<1> QED
    BY <1>1, <1>2, <1>3, <1>4, <1>5, <1>6, <1>7, <1>8 DEF Fits

-----------------------------------------------------------------------------
LEMMA UADeliveredTable ==
    /\ Classes["UADelivered"] = UADelivered /\ Schemas["UADelivered"] = UADelivered_Proto
    /\ UADelivered.type = [trackingid |-> "string", seqnum |-> "int64", truckid |-> "int32"]
    /\ UADelivered.lists = {}
<1> DEFINE m == UADelivered_Members
<1>1. At(m, "trackingid") = 1 /\ At(m, "seqnum") = 2 /\ At(m, "truckid") = 3
    BY DEF At, UADelivered_Members
<1>2. Names(m) = {"trackingid", "seqnum", "truckid"}
    BY DEF Names, UADelivered_Members
<1>3. UADelivered.type = [f \in Names(m) |-> m[At(m, f)][2]]
    BY DEF UADelivered
<1>4. UADelivered.lists = {}
    BY <1>2 DEF UADelivered, UADelivered_HasBits
<1>5. Classes["UADelivered"] = UADelivered /\ Schemas["UADelivered"] = UADelivered_Proto
    BY DEF Classes, Schemas
<1> QED
    BY <1>1, <1>2, <1>3, <1>4, <1>5 DEF UADelivered_Members

LEMMA UADeliveredSpan == Span(UADelivered_Members, "seqnum", "truckid") = {"seqnum", "truckid"}
<1> DEFINE m == UADelivered_Members
<1>1. At(m, "seqnum") = 2 /\ At(m, "truckid") = 3
    BY DEF At, UADelivered_Members
<1>2. Span(m, "seqnum", "truckid") = {m[i][1] : i \in 2 .. 3}
    BY <1>1 DEF Span
<1>3. 2 .. 3 = {2, 3}
    OBVIOUS
<1> QED
    BY <1>2, <1>3 DEF UADelivered_Members

LEMMA UADeliveredFits == Fits(UADelivered, UADelivered_Proto)
<1>1. FitsMembers(UADelivered)
    BY UADeliveredTable DEF FitsMembers, UADelivered, UADelivered_HasBits
<1>2. FitsCopy(UADelivered)
    BY UADeliveredTable, UADeliveredSpan DEF FitsCopy, UADelivered, UADelivered_HasBits,
        UADelivered_Copy, UADelivered_Swap
<1>3. FitsClear(UADelivered)
    <2> DEFINE g1 == <<{0}, {"trackingid"}>>
               g2 == <<{1, 2}, {"seqnum", "truckid"}>>
    <2>1. UADelivered.clear.guarded = {g1, g2} /\ UADelivered.clear.always = {}
        BY UADeliveredTable, UADeliveredSpan DEF UADelivered, UADelivered_Clear
    <2>2. g1[1] = {0} /\ g1[2] = {"trackingid"} /\ g2[1] = {1, 2} /\ g2[2] = {"seqnum", "truckid"}
        OBVIOUS
    <2> HIDE DEF g1, g2
    <2> QED
        BY <2>1, <2>2, UADeliveredTable DEF FitsClear, UADelivered, UADelivered_HasBits
<1>4. FitsMerge(UADelivered)
    <2>1. UADelivered.merge.lists = UADelivered.lists /\ UADelivered.merge.fields = UADelivered.has
        BY UADeliveredTable DEF UADelivered, UADelivered_MergeFrom, UADelivered_HasBits
    <2>2. \A f \in DOMAIN UADelivered.has : UADelivered.has[f] \in UADelivered.merge.guard
        BY UADeliveredTable, NoFields DEF UADelivered, UADelivered_MergeFrom, UADelivered_HasBits
    <2> QED
        BY <2>1, <2>2, UADeliveredTable, Zenon DEF FitsMerge
<1>5. FitsInit(UADelivered, UADelivered_Proto)
    BY UADeliveredTable DEF FitsInit, UADelivered, UADelivered_HasBits,
        UADelivered_IsInitialized, UADelivered_Proto
<1>6. FitsSize(UADelivered)
    <2>1. DOMAIN UADelivered.size.lists = UADelivered.lists
        BY UADeliveredTable, NoFields DEF UADelivered, UADelivered_ByteSize, UADelivered_HasBits
    <2>2. DOMAIN UADelivered.size.needs \cup DOMAIN UADelivered.size.options = DOMAIN UADelivered.has
        BY UADeliveredTable, NoFields DEF UADelivered, UADelivered_ByteSize, UADelivered_HasBits
    <2>3. \A f \in DOMAIN UADelivered.size.needs : UADelivered.has[f] \in UADelivered.size.required
        BY UADeliveredTable, NoFields DEF UADelivered, UADelivered_ByteSize, UADelivered_HasBits
    <2>4. \A f \in DOMAIN UADelivered.size.options : UADelivered.has[f] \in UADelivered.size.guard
        BY UADeliveredTable, NoFields DEF UADelivered, UADelivered_ByteSize, UADelivered_HasBits
    <2> QED
        BY <2>1, <2>2, <2>3, <2>4, UADeliveredTable, Zenon DEF FitsSize
<1>7. FitsSizes(UADelivered, UADelivered_Proto)
    BY UADeliveredTable, NoFields DEF FitsSizes, SizeType, UADelivered, UADelivered_HasBits,
        UADelivered_ByteSize, UADelivered_Serialize, UADelivered_Proto
<1>8. FitsRows(UADelivered, UADelivered_Proto)
    BY UADeliveredTable DEF FitsRows, FitsRow, UADelivered, UADelivered_HasBits,
        UADelivered_Parse, UADelivered_Serialize, UADelivered_Proto
<1> QED
    BY <1>1, <1>2, <1>3, <1>4, <1>5, <1>6, <1>7, <1>8 DEF Fits

-----------------------------------------------------------------------------
LEMMA UAChangeAddrTable ==
    /\ Classes["UAChangeAddr"] = UAChangeAddr /\ Schemas["UAChangeAddr"] = UAChangeAddr_Proto
    /\ UAChangeAddr.type = [trackingid |-> "string", dest_x |-> "int32", dest_y |-> "int32",
            seqnum |-> "int64"]
    /\ UAChangeAddr.lists = {}
<1> DEFINE m == UAChangeAddr_Members
<1>1. At(m, "trackingid") = 1 /\ At(m, "dest_x") = 2 /\ At(m, "dest_y") = 3 /\ At(m, "seqnum") = 4
    BY DEF At, UAChangeAddr_Members
<1>2. Names(m) = {"trackingid", "dest_x", "dest_y", "seqnum"}
    BY DEF Names, UAChangeAddr_Members
<1>3. UAChangeAddr.type = [f \in Names(m) |-> m[At(m, f)][2]]
    BY DEF UAChangeAddr
<1>4. UAChangeAddr.lists = {}
    BY <1>2 DEF UAChangeAddr, UAChangeAddr_HasBits
<1>5. Classes["UAChangeAddr"] = UAChangeAddr /\ Schemas["UAChangeAddr"] = UAChangeAddr_Proto
    BY DEF Classes, Schemas
<1> QED
    BY <1>1, <1>2, <1>3, <1>4, <1>5 DEF UAChangeAddr_Members

LEMMA UAChangeAddrSpan == Span(UAChangeAddr_Members, "dest_x", "seqnum") = {"dest_x", "dest_y", "seqnum"}
<1> DEFINE m == UAChangeAddr_Members
<1>1. At(m, "dest_x") = 2 /\ At(m, "seqnum") = 4
    BY DEF At, UAChangeAddr_Members
<1>2. Span(m, "dest_x", "seqnum") = {m[i][1] : i \in 2 .. 4}
    BY <1>1 DEF Span
<1>3. 2 .. 4 = {2, 3, 4}
    OBVIOUS
<1> QED
    BY <1>2, <1>3 DEF UAChangeAddr_Members

LEMMA UAChangeAddrFits == Fits(UAChangeAddr, UAChangeAddr_Proto)
<1>1. FitsMembers(UAChangeAddr)
    BY UAChangeAddrTable DEF FitsMembers, UAChangeAddr, UAChangeAddr_HasBits
<1>2. FitsCopy(UAChangeAddr)
    BY UAChangeAddrTable, UAChangeAddrSpan DEF FitsCopy, UAChangeAddr, UAChangeAddr_HasBits,
        UAChangeAddr_Copy, UAChangeAddr_Swap
<1>3. FitsClear(UAChangeAddr)
    <2> DEFINE g1 == <<{0}, {"trackingid"}>>
               g2 == <<{1, 2, 3}, {"dest_x", "dest_y", "seqnum"}>>
    <2>1. UAChangeAddr.clear.guarded = {g1, g2} /\ UAChangeAddr.clear.always = {}
        BY UAChangeAddrTable, UAChangeAddrSpan DEF UAChangeAddr, UAChangeAddr_Clear
    <2>2. g1[1] = {0} /\ g1[2] = {"trackingid"} /\ g2[1] = {1, 2, 3} /\ g2[2] = {"dest_x", "dest_y", "seqnum"}
        OBVIOUS
    <2> HIDE DEF g1, g2
    <2> QED
        BY <2>1, <2>2, UAChangeAddrTable DEF FitsClear, UAChangeAddr, UAChangeAddr_HasBits
<1>4. FitsMerge(UAChangeAddr)
    <2>1. UAChangeAddr.merge.lists = UAChangeAddr.lists /\ UAChangeAddr.merge.fields = UAChangeAddr.has
        BY UAChangeAddrTable DEF UAChangeAddr, UAChangeAddr_MergeFrom, UAChangeAddr_HasBits
    <2>2. \A f \in DOMAIN UAChangeAddr.has : UAChangeAddr.has[f] \in UAChangeAddr.merge.guard
        BY UAChangeAddrTable, NoFields DEF UAChangeAddr, UAChangeAddr_MergeFrom, UAChangeAddr_HasBits
    <2> QED
        BY <2>1, <2>2, UAChangeAddrTable, Zenon DEF FitsMerge
<1>5. FitsInit(UAChangeAddr, UAChangeAddr_Proto)
    BY UAChangeAddrTable DEF FitsInit, UAChangeAddr, UAChangeAddr_HasBits,
        UAChangeAddr_IsInitialized, UAChangeAddr_Proto
<1>6. FitsSize(UAChangeAddr)
    <2>1. DOMAIN UAChangeAddr.size.lists = UAChangeAddr.lists
        BY UAChangeAddrTable, NoFields DEF UAChangeAddr, UAChangeAddr_ByteSize, UAChangeAddr_HasBits
    <2>2. DOMAIN UAChangeAddr.size.needs \cup DOMAIN UAChangeAddr.size.options = DOMAIN UAChangeAddr.has
        BY UAChangeAddrTable, NoFields DEF UAChangeAddr, UAChangeAddr_ByteSize, UAChangeAddr_HasBits
    <2>3. \A f \in DOMAIN UAChangeAddr.size.needs : UAChangeAddr.has[f] \in UAChangeAddr.size.required
        BY UAChangeAddrTable, NoFields DEF UAChangeAddr, UAChangeAddr_ByteSize, UAChangeAddr_HasBits
    <2>4. \A f \in DOMAIN UAChangeAddr.size.options : UAChangeAddr.has[f] \in UAChangeAddr.size.guard
        BY UAChangeAddrTable, NoFields DEF UAChangeAddr, UAChangeAddr_ByteSize, UAChangeAddr_HasBits
    <2> QED
        BY <2>1, <2>2, <2>3, <2>4, UAChangeAddrTable, Zenon DEF FitsSize
<1>7. FitsSizes(UAChangeAddr, UAChangeAddr_Proto)
    BY UAChangeAddrTable, NoFields DEF FitsSizes, SizeType, UAChangeAddr, UAChangeAddr_HasBits,
        UAChangeAddr_ByteSize, UAChangeAddr_Serialize, UAChangeAddr_Proto
<1>8. FitsRows(UAChangeAddr, UAChangeAddr_Proto)
    BY UAChangeAddrTable DEF FitsRows, FitsRow, UAChangeAddr, UAChangeAddr_HasBits,
        UAChangeAddr_Parse, UAChangeAddr_Serialize, UAChangeAddr_Proto
<1> QED
    BY <1>1, <1>2, <1>3, <1>4, <1>5, <1>6, <1>7, <1>8 DEF Fits

-----------------------------------------------------------------------------
LEMMA ErrTable ==
    /\ Classes["Err"] = Err /\ Schemas["Err"] = Err_Proto
    /\ Err.type = [msg |-> "string", originseqnum |-> "int64", seqnum |-> "int64"]
    /\ Err.lists = {}
<1> DEFINE m == Err_Members
<1>1. At(m, "msg") = 1 /\ At(m, "originseqnum") = 2 /\ At(m, "seqnum") = 3
    BY DEF At, Err_Members
<1>2. Names(m) = {"msg", "originseqnum", "seqnum"}
    BY DEF Names, Err_Members
<1>3. Err.type = [f \in Names(m) |-> m[At(m, f)][2]]
    BY DEF Err
<1>4. Err.lists = {}
    BY <1>2 DEF Err, Err_HasBits
<1>5. Classes["Err"] = Err /\ Schemas["Err"] = Err_Proto
    BY DEF Classes, Schemas
<1> QED
    BY <1>1, <1>2, <1>3, <1>4, <1>5 DEF Err_Members

LEMMA ErrSpan == Span(Err_Members, "originseqnum", "seqnum") = {"originseqnum", "seqnum"}
<1> DEFINE m == Err_Members
<1>1. At(m, "originseqnum") = 2 /\ At(m, "seqnum") = 3
    BY DEF At, Err_Members
<1>2. Span(m, "originseqnum", "seqnum") = {m[i][1] : i \in 2 .. 3}
    BY <1>1 DEF Span
<1>3. 2 .. 3 = {2, 3}
    OBVIOUS
<1> QED
    BY <1>2, <1>3 DEF Err_Members

LEMMA ErrFits == Fits(Err, Err_Proto)
<1>1. FitsMembers(Err)
    BY ErrTable DEF FitsMembers, Err, Err_HasBits
<1>2. FitsCopy(Err)
    BY ErrTable, ErrSpan DEF FitsCopy, Err, Err_HasBits, Err_Copy, Err_Swap
<1>3. FitsClear(Err)
    <2> DEFINE g1 == <<{0}, {"msg"}>>
               g2 == <<{1, 2}, {"originseqnum", "seqnum"}>>
    <2>1. Err.clear.guarded = {g1, g2} /\ Err.clear.always = {}
        BY ErrTable, ErrSpan DEF Err, Err_Clear
    <2>2. g1[1] = {0} /\ g1[2] = {"msg"} /\ g2[1] = {1, 2} /\ g2[2] = {"originseqnum", "seqnum"}
        OBVIOUS
    <2> HIDE DEF g1, g2
    <2> QED
        BY <2>1, <2>2, ErrTable DEF FitsClear, Err, Err_HasBits
<1>4. FitsMerge(Err)
    <2>1. Err.merge.lists = Err.lists /\ Err.merge.fields = Err.has
        BY ErrTable DEF Err, Err_MergeFrom, Err_HasBits
    <2>2. \A f \in DOMAIN Err.has : Err.has[f] \in Err.merge.guard
        BY ErrTable, NoFields DEF Err, Err_MergeFrom, Err_HasBits
    <2> QED
        BY <2>1, <2>2, ErrTable, Zenon DEF FitsMerge
<1>5. FitsInit(Err, Err_Proto)
    BY ErrTable DEF FitsInit, Err, Err_HasBits, Err_IsInitialized, Err_Proto
<1>6. FitsSize(Err)
    <2>1. DOMAIN Err.size.lists = Err.lists
        BY ErrTable, NoFields DEF Err, Err_ByteSize, Err_HasBits
    <2>2. DOMAIN Err.size.needs \cup DOMAIN Err.size.options = DOMAIN Err.has
        BY ErrTable, NoFields DEF Err, Err_ByteSize, Err_HasBits
    <2>3. \A f \in DOMAIN Err.size.needs : Err.has[f] \in Err.size.required
        BY ErrTable, NoFields DEF Err, Err_ByteSize, Err_HasBits
    <2>4. \A f \in DOMAIN Err.size.options : Err.has[f] \in Err.size.guard
        BY ErrTable, NoFields DEF Err, Err_ByteSize, Err_HasBits
    <2> QED
        BY <2>1, <2>2, <2>3, <2>4, ErrTable, Zenon DEF FitsSize
<1>7. FitsSizes(Err, Err_Proto)
    BY ErrTable, NoFields DEF FitsSizes, SizeType, Err, Err_HasBits, Err_ByteSize,
        Err_Serialize, Err_Proto
<1>8. FitsRows(Err, Err_Proto)
    BY ErrTable DEF FitsRows, FitsRow, Err, Err_HasBits, Err_Parse, Err_Serialize, Err_Proto
<1> QED
    BY <1>1, <1>2, <1>3, <1>4, <1>5, <1>6, <1>7, <1>8 DEF Fits

-----------------------------------------------------------------------------
LEMMA AUCommandsTable ==
    /\ Classes["AUCommands"] = AUCommands /\ Schemas["AUCommands"] = AUCommands_Proto
    /\ AUCommands.type = [need |-> "AUNeedATruck", go |-> "AUTruckCanGo", errors |-> "Err",
            acks |-> "int64"]
    /\ AUCommands.lists = {"need", "go", "errors", "acks"}
<1> DEFINE m == AUCommands_Members
<1>1. At(m, "need") = 1 /\ At(m, "go") = 2 /\ At(m, "errors") = 3 /\ At(m, "acks") = 4
    BY DEF At, AUCommands_Members
<1>2. Names(m) = {"need", "go", "errors", "acks"}
    BY DEF Names, AUCommands_Members
<1>3. AUCommands.type = [f \in Names(m) |-> m[At(m, f)][2]]
    BY DEF AUCommands
<1>4. AUCommands.lists = {"need", "go", "errors", "acks"}
    BY <1>2 DEF AUCommands, AUCommands_HasBits
<1>5. Classes["AUCommands"] = AUCommands /\ Schemas["AUCommands"] = AUCommands_Proto
    BY DEF Classes, Schemas
<1> QED
    BY <1>1, <1>2, <1>3, <1>4, <1>5 DEF AUCommands_Members

LEMMA AUCommandsFits == Fits(AUCommands, AUCommands_Proto)
<1>1. FitsMembers(AUCommands)
    BY AUCommandsTable DEF FitsMembers, AUCommands, AUCommands_HasBits
<1>2. FitsCopy(AUCommands)
    BY AUCommandsTable DEF FitsCopy, AUCommands, AUCommands_HasBits, AUCommands_Copy,
        AUCommands_Swap
<1>3. FitsClear(AUCommands)
    BY AUCommandsTable DEF FitsClear, AUCommands, AUCommands_HasBits, AUCommands_Clear
<1>4. FitsMerge(AUCommands)
    <2>1. AUCommands.merge.lists = AUCommands.lists /\ AUCommands.merge.fields = AUCommands.has
        BY AUCommandsTable DEF AUCommands, AUCommands_MergeFrom, AUCommands_HasBits
    <2>2. \A f \in DOMAIN AUCommands.has : AUCommands.has[f] \in AUCommands.merge.guard
        BY AUCommandsTable, NoFields DEF AUCommands, AUCommands_MergeFrom, AUCommands_HasBits
    <2> QED
        BY <2>1, <2>2, AUCommandsTable, Zenon DEF FitsMerge
<1>5. FitsInit(AUCommands, AUCommands_Proto)
    BY AUCommandsTable DEF FitsInit, AUCommands, AUCommands_HasBits, AUCommands_IsInitialized,
        AUCommands_Proto
<1>6. FitsSize(AUCommands)
    <2>1. DOMAIN AUCommands.size.lists = AUCommands.lists
        BY AUCommandsTable, NoFields DEF AUCommands, AUCommands_ByteSize, AUCommands_HasBits
    <2>2. DOMAIN AUCommands.size.needs \cup DOMAIN AUCommands.size.options = DOMAIN AUCommands.has
        BY AUCommandsTable, NoFields DEF AUCommands, AUCommands_ByteSize, AUCommands_HasBits
    <2>3. \A f \in DOMAIN AUCommands.size.needs : AUCommands.has[f] \in AUCommands.size.required
        BY AUCommandsTable, NoFields DEF AUCommands, AUCommands_ByteSize, AUCommands_HasBits
    <2>4. \A f \in DOMAIN AUCommands.size.options : AUCommands.has[f] \in AUCommands.size.guard
        BY AUCommandsTable, NoFields DEF AUCommands, AUCommands_ByteSize, AUCommands_HasBits
    <2> QED
        BY <2>1, <2>2, <2>3, <2>4, AUCommandsTable, Zenon DEF FitsSize
<1>7. FitsSizes(AUCommands, AUCommands_Proto)
    BY AUCommandsTable, NoFields DEF FitsSizes, SizeType, AUCommands, AUCommands_HasBits,
        AUCommands_ByteSize, AUCommands_Serialize, AUCommands_Proto
<1>8. FitsRows(AUCommands, AUCommands_Proto)
    BY AUCommandsTable DEF FitsRows, FitsRow, AUCommands, AUCommands_HasBits, AUCommands_Parse,
        AUCommands_Serialize, AUCommands_Proto
<1> QED
    BY <1>1, <1>2, <1>3, <1>4, <1>5, <1>6, <1>7, <1>8 DEF Fits

-----------------------------------------------------------------------------
LEMMA UACommandsTable ==
    /\ Classes["UACommands"] = UACommands /\ Schemas["UACommands"] = UACommands_Proto
    /\ UACommands.type = [arrived |-> "UATruckArrived", delivered |-> "UADelivered",
            changeAddr |-> "UAChangeAddr", errors |-> "Err", acks |-> "int64"]
    /\ UACommands.lists = {"arrived", "delivered", "changeAddr", "errors", "acks"}
<1> DEFINE m == UACommands_Members
<1>1. At(m, "arrived") = 1 /\ At(m, "delivered") = 2 /\ At(m, "changeAddr") = 3 /\
      At(m, "errors") = 4 /\ At(m, "acks") = 5
    BY DEF At, UACommands_Members
<1>2. Names(m) = {"arrived", "delivered", "changeAddr", "errors", "acks"}
    BY DEF Names, UACommands_Members
<1>3. UACommands.type = [f \in Names(m) |-> m[At(m, f)][2]]
    BY DEF UACommands
<1>4. UACommands.lists = {"arrived", "delivered", "changeAddr", "errors", "acks"}
    BY <1>2 DEF UACommands, UACommands_HasBits
<1>5. Classes["UACommands"] = UACommands /\ Schemas["UACommands"] = UACommands_Proto
    BY DEF Classes, Schemas
<1> QED
    BY <1>1, <1>2, <1>3, <1>4, <1>5 DEF UACommands_Members

LEMMA UACommandsFits == Fits(UACommands, UACommands_Proto)
<1>1. FitsMembers(UACommands)
    BY UACommandsTable DEF FitsMembers, UACommands, UACommands_HasBits
<1>2. FitsCopy(UACommands)
    BY UACommandsTable DEF FitsCopy, UACommands, UACommands_HasBits, UACommands_Copy,
        UACommands_Swap
<1>3. FitsClear(UACommands)
    BY UACommandsTable DEF FitsClear, UACommands, UACommands_HasBits, UACommands_Clear
<1>4. FitsMerge(UACommands)
    <2>1. UACommands.merge.lists = UACommands.lists /\ UACommands.merge.fields = UACommands.has
        BY UACommandsTable DEF UACommands, UACommands_MergeFrom, UACommands_HasBits
    <2>2. \A f \in DOMAIN UACommands.has : UACommands.has[f] \in UACommands.merge.guard
        BY UACommandsTable, NoFields DEF UACommands, UACommands_MergeFrom, UACommands_HasBits
    <2> QED
        BY <2>1, <2>2, UACommandsTable, Zenon DEF FitsMerge
<1>5. FitsInit(UACommands, UACommands_Proto)
    BY UACommandsTable DEF FitsInit, UACommands, UACommands_HasBits, UACommands_IsInitialized,
        UACommands_Proto
<1>6. FitsSize(UACommands)
    <2>1. DOMAIN UACommands.size.lists = UACommands.lists
        BY UACommandsTable, NoFields DEF UACommands, UACommands_ByteSize, UACommands_HasBits
    <2>2. DOMAIN UACommands.size.needs \cup DOMAIN UACommands.size.options = DOMAIN UACommands.has
        BY UACommandsTable, NoFields DEF UACommands, UACommands_ByteSize, UACommands_HasBits
    <2>3. \A f \in DOMAIN UACommands.size.needs : UACommands.has[f] \in UACommands.size.required
        BY UACommandsTable, NoFields DEF UACommands, UACommands_ByteSize, UACommands_HasBits
    <2>4. \A f \in DOMAIN UACommands.size.options : UACommands.has[f] \in UACommands.size.guard
        BY UACommandsTable, NoFields DEF UACommands, UACommands_ByteSize, UACommands_HasBits
    <2> QED
        BY <2>1, <2>2, <2>3, <2>4, UACommandsTable, Zenon DEF FitsSize
<1>7. FitsSizes(UACommands, UACommands_Proto)
    BY UACommandsTable, NoFields, SMTT(60) DEF FitsSizes, SizeType, UACommands, UACommands_HasBits,
        UACommands_ByteSize, UACommands_Serialize, UACommands_Proto
<1>8. FitsRows(UACommands, UACommands_Proto)
    BY UACommandsTable, SMTT(60) DEF FitsRows, FitsRow, UACommands, UACommands_HasBits, UACommands_Parse,
        UACommands_Serialize, UACommands_Proto
<1> QED
    BY <1>1, <1>2, <1>3, <1>4, <1>5, <1>6, <1>7, <1>8 DEF Fits

-----------------------------------------------------------------------------
LEMMA UInitTruckTable ==
    /\ Classes["UInitTruck"] = UInitTruck /\ Schemas["UInitTruck"] = UInitTruck_Proto
    /\ UInitTruck.type = [id |-> "int32", x |-> "int32", y |-> "int32"]
    /\ UInitTruck.lists = {}
<1> DEFINE m == UInitTruck_Members
<1>1. At(m, "id") = 1 /\ At(m, "x") = 2 /\ At(m, "y") = 3
    BY DEF At, UInitTruck_Members
<1>2. Names(m) = {"id", "x", "y"}
    BY DEF Names, UInitTruck_Members
<1>3. UInitTruck.type = [f \in Names(m) |-> m[At(m, f)][2]]
    BY DEF UInitTruck
<1>4. UInitTruck.lists = {}
    BY <1>2 DEF UInitTruck, UInitTruck_HasBits
<1>5. Classes["UInitTruck"] = UInitTruck /\ Schemas["UInitTruck"] = UInitTruck_Proto
    BY DEF Classes, Schemas
<1> QED
    BY <1>1, <1>2, <1>3, <1>4, <1>5 DEF UInitTruck_Members

LEMMA UInitTruckSpan == Span(UInitTruck_Members, "id", "y") = {"id", "x", "y"}
<1> DEFINE m == UInitTruck_Members
<1>1. At(m, "id") = 1 /\ At(m, "y") = 3
    BY DEF At, UInitTruck_Members
<1>2. Span(m, "id", "y") = {m[i][1] : i \in 1 .. 3}
    BY <1>1 DEF Span
<1>3. 1 .. 3 = {1, 2, 3}
    OBVIOUS
<1> QED
    BY <1>2, <1>3 DEF UInitTruck_Members

LEMMA UInitTruckFits == Fits(UInitTruck, UInitTruck_Proto)
<1>1. FitsMembers(UInitTruck)
    BY UInitTruckTable DEF FitsMembers, UInitTruck, UInitTruck_HasBits
<1>2. FitsCopy(UInitTruck)
    BY UInitTruckTable, UInitTruckSpan DEF FitsCopy, UInitTruck, UInitTruck_HasBits,
        UInitTruck_Copy, UInitTruck_Swap
<1>3. FitsClear(UInitTruck)
    <2> DEFINE g1 == <<{0, 1, 2}, {"id", "x", "y"}>>
    <2>1. UInitTruck.clear.guarded = {g1} /\ UInitTruck.clear.always = {}
        BY UInitTruckTable, UInitTruckSpan DEF UInitTruck, UInitTruck_Clear
    <2>2. g1[1] = {0, 1, 2} /\ g1[2] = {"id", "x", "y"}
        OBVIOUS
    <2> HIDE DEF g1
    <2> QED
        BY <2>1, <2>2, UInitTruckTable DEF FitsClear, UInitTruck, UInitTruck_HasBits
<1>4. FitsMerge(UInitTruck)
    <2>1. UInitTruck.merge.lists = UInitTruck.lists /\ UInitTruck.merge.fields = UInitTruck.has
        BY UInitTruckTable DEF UInitTruck, UInitTruck_MergeFrom, UInitTruck_HasBits
    <2>2. \A f \in DOMAIN UInitTruck.has : UInitTruck.has[f] \in UInitTruck.merge.guard
        BY UInitTruckTable, NoFields DEF UInitTruck, UInitTruck_MergeFrom, UInitTruck_HasBits
    <2> QED
        BY <2>1, <2>2, UInitTruckTable, Zenon DEF FitsMerge
<1>5. FitsInit(UInitTruck, UInitTruck_Proto)
    BY UInitTruckTable DEF FitsInit, UInitTruck, UInitTruck_HasBits, UInitTruck_IsInitialized,
        UInitTruck_Proto
<1>6. FitsSize(UInitTruck)
    <2>1. DOMAIN UInitTruck.size.lists = UInitTruck.lists
        BY UInitTruckTable, NoFields DEF UInitTruck, UInitTruck_ByteSize, UInitTruck_HasBits
    <2>2. DOMAIN UInitTruck.size.needs \cup DOMAIN UInitTruck.size.options = DOMAIN UInitTruck.has
        BY UInitTruckTable, NoFields DEF UInitTruck, UInitTruck_ByteSize, UInitTruck_HasBits
    <2>3. \A f \in DOMAIN UInitTruck.size.needs : UInitTruck.has[f] \in UInitTruck.size.required
        BY UInitTruckTable, NoFields DEF UInitTruck, UInitTruck_ByteSize, UInitTruck_HasBits
    <2>4. \A f \in DOMAIN UInitTruck.size.options : UInitTruck.has[f] \in UInitTruck.size.guard
        BY UInitTruckTable, NoFields DEF UInitTruck, UInitTruck_ByteSize, UInitTruck_HasBits
    <2> QED
        BY <2>1, <2>2, <2>3, <2>4, UInitTruckTable, Zenon DEF FitsSize
<1>7. FitsSizes(UInitTruck, UInitTruck_Proto)
    BY UInitTruckTable, NoFields DEF FitsSizes, SizeType, UInitTruck, UInitTruck_HasBits,
        UInitTruck_ByteSize, UInitTruck_Serialize, UInitTruck_Proto
<1>8. FitsRows(UInitTruck, UInitTruck_Proto)
    BY UInitTruckTable DEF FitsRows, FitsRow, UInitTruck, UInitTruck_HasBits, UInitTruck_Parse,
        UInitTruck_Serialize, UInitTruck_Proto
<1> QED
    BY <1>1, <1>2, <1>3, <1>4, <1>5, <1>6, <1>7, <1>8 DEF Fits

-----------------------------------------------------------------------------
LEMMA UConnectTable ==
    /\ Classes["UConnect"] = UConnect /\ Schemas["UConnect"] = UConnect_Proto
    /\ UConnect.type = [trucks |-> "UInitTruck", worldid |-> "int64", isAmazon |-> "bool"]
    /\ UConnect.lists = {"trucks"}
<1> DEFINE m == UConnect_Members
<1>1. At(m, "trucks") = 1 /\ At(m, "worldid") = 2 /\ At(m, "isAmazon") = 3
    BY DEF At, UConnect_Members
<1>2. Names(m) = {"trucks", "worldid", "isAmazon"}
    BY DEF Names, UConnect_Members
<1>3. UConnect.type = [f \in Names(m) |-> m[At(m, f)][2]]
    BY DEF UConnect
<1>4. UConnect.lists = {"trucks"}
    BY <1>2 DEF UConnect, UConnect_HasBits
<1>5. Classes["UConnect"] = UConnect /\ Schemas["UConnect"] = UConnect_Proto
    BY DEF Classes, Schemas
<1> QED
    BY <1>1, <1>2, <1>3, <1>4, <1>5 DEF UConnect_Members

LEMMA UConnectSpan == Span(UConnect_Members, "worldid", "isAmazon") = {"worldid", "isAmazon"}
<1> DEFINE m == UConnect_Members
<1>1. At(m, "worldid") = 2 /\ At(m, "isAmazon") = 3
    BY DEF At, UConnect_Members
<1>2. Span(m, "worldid", "isAmazon") = {m[i][1] : i \in 2 .. 3}
    BY <1>1 DEF Span
<1>3. 2 .. 3 = {2, 3}
    OBVIOUS
<1> QED
    BY <1>2, <1>3 DEF UConnect_Members

LEMMA UConnectFits == Fits(UConnect, UConnect_Proto)
<1>1. FitsMembers(UConnect)
    BY UConnectTable DEF FitsMembers, UConnect, UConnect_HasBits
<1>2. FitsCopy(UConnect)
    BY UConnectTable, UConnectSpan DEF FitsCopy, UConnect, UConnect_HasBits, UConnect_Copy,
        UConnect_Swap
<1>3. FitsClear(UConnect)
    <2> DEFINE g1 == <<{0, 1}, {"worldid", "isAmazon"}>>
    <2>1. UConnect.clear.guarded = {g1} /\ UConnect.clear.always = {"trucks"}
        BY UConnectTable, UConnectSpan DEF UConnect, UConnect_Clear
    <2>2. g1[1] = {0, 1} /\ g1[2] = {"worldid", "isAmazon"}
        OBVIOUS
    <2> HIDE DEF g1
    <2> QED
        BY <2>1, <2>2, UConnectTable DEF FitsClear, UConnect, UConnect_HasBits
<1>4. FitsMerge(UConnect)
    <2>1. UConnect.merge.lists = UConnect.lists /\ UConnect.merge.fields = UConnect.has
        BY UConnectTable DEF UConnect, UConnect_MergeFrom, UConnect_HasBits
    <2>2. \A f \in DOMAIN UConnect.has : UConnect.has[f] \in UConnect.merge.guard
        BY UConnectTable, NoFields DEF UConnect, UConnect_MergeFrom, UConnect_HasBits
    <2> QED
        BY <2>1, <2>2, UConnectTable, Zenon DEF FitsMerge
<1>5. FitsInit(UConnect, UConnect_Proto)
    BY UConnectTable DEF FitsInit, UConnect, UConnect_HasBits, UConnect_IsInitialized,
        UConnect_Proto
<1>6. FitsSize(UConnect)
    <2>1. DOMAIN UConnect.size.lists = UConnect.lists
        BY UConnectTable, NoFields DEF UConnect, UConnect_ByteSize, UConnect_HasBits
    <2>2. DOMAIN UConnect.size.needs \cup DOMAIN UConnect.size.options = DOMAIN UConnect.has
        BY UConnectTable, NoFields DEF UConnect, UConnect_ByteSize, UConnect_HasBits
    <2>3. \A f \in DOMAIN UConnect.size.needs : UConnect.has[f] \in UConnect.size.required
        BY UConnectTable, NoFields DEF UConnect, UConnect_ByteSize, UConnect_HasBits
    <2>4. \A f \in DOMAIN UConnect.size.options : UConnect.has[f] \in UConnect.size.guard
        BY UConnectTable, NoFields DEF UConnect, UConnect_ByteSize, UConnect_HasBits
    <2> QED
        BY <2>1, <2>2, <2>3, <2>4, UConnectTable, Zenon DEF FitsSize
<1>7. FitsSizes(UConnect, UConnect_Proto)
    BY UConnectTable, NoFields DEF FitsSizes, SizeType, UConnect, UConnect_HasBits,
        UConnect_ByteSize, UConnect_Serialize, UConnect_Proto
<1>8. FitsRows(UConnect, UConnect_Proto)
    BY UConnectTable DEF FitsRows, FitsRow, UConnect, UConnect_HasBits, UConnect_Parse,
        UConnect_Serialize, UConnect_Proto
<1> QED
    BY <1>1, <1>2, <1>3, <1>4, <1>5, <1>6, <1>7, <1>8 DEF Fits

-----------------------------------------------------------------------------
LEMMA UConnectedTable ==
    /\ Classes["UConnected"] = UConnected /\ Schemas["UConnected"] = UConnected_Proto
    /\ UConnected.type = [result |-> "string", worldid |-> "int64"]
    /\ UConnected.lists = {}
<1> DEFINE m == UConnected_Members
<1>1. At(m, "result") = 1 /\ At(m, "worldid") = 2
    BY DEF At, UConnected_Members
<1>2. Names(m) = {"result", "worldid"}
    BY DEF Names, UConnected_Members
<1>3. UConnected.type = [f \in Names(m) |-> m[At(m, f)][2]]
    BY DEF UConnected
<1>4. UConnected.lists = {}
    BY <1>2 DEF UConnected, UConnected_HasBits
<1>5. Classes["UConnected"] = UConnected /\ Schemas["UConnected"] = UConnected_Proto
    BY DEF Classes, Schemas
<1> QED
    BY <1>1, <1>2, <1>3, <1>4, <1>5 DEF UConnected_Members

LEMMA UConnectedFits == Fits(UConnected, UConnected_Proto)
<1>1. FitsMembers(UConnected)
    BY UConnectedTable DEF FitsMembers, UConnected, UConnected_HasBits
<1>2. FitsCopy(UConnected)
    BY UConnectedTable DEF FitsCopy, UConnected, UConnected_HasBits, UConnected_Copy,
        UConnected_Swap
<1>3. FitsClear(UConnected)
    <2> DEFINE g1 == <<{0}, {"result"}>>
    <2>1. UConnected.clear.guarded = {g1} /\ UConnected.clear.always = {"worldid"}
        BY UConnectedTable DEF UConnected, UConnected_Clear
    <2>2. g1[1] = {0} /\ g1[2] = {"result"}
        OBVIOUS
    <2> HIDE DEF g1
    <2> QED
        BY <2>1, <2>2, UConnectedTable DEF FitsClear, UConnected, UConnected_HasBits
<1>4. FitsMerge(UConnected)
    <2>1. UConnected.merge.lists = UConnected.lists /\ UConnected.merge.fields = UConnected.has
        BY UConnectedTable DEF UConnected, UConnected_MergeFrom, UConnected_HasBits
    <2>2. \A f \in DOMAIN UConnected.has : UConnected.has[f] \in UConnected.merge.guard
        BY UConnectedTable, NoFields DEF UConnected, UConnected_MergeFrom, UConnected_HasBits
    <2> QED
        BY <2>1, <2>2, UConnectedTable, Zenon DEF FitsMerge
<1>5. FitsInit(UConnected, UConnected_Proto)
    BY UConnectedTable DEF FitsInit, UConnected, UConnected_HasBits, UConnected_IsInitialized,
        UConnected_Proto
<1>6. FitsSize(UConnected)
    <2>1. DOMAIN UConnected.size.lists = UConnected.lists
        BY UConnectedTable, NoFields DEF UConnected, UConnected_ByteSize, UConnected_HasBits
    <2>2. DOMAIN UConnected.size.needs \cup DOMAIN UConnected.size.options = DOMAIN UConnected.has
        BY UConnectedTable, NoFields DEF UConnected, UConnected_ByteSize, UConnected_HasBits
    <2>3. \A f \in DOMAIN UConnected.size.needs : UConnected.has[f] \in UConnected.size.required
        BY UConnectedTable, NoFields DEF UConnected, UConnected_ByteSize, UConnected_HasBits
    <2>4. \A f \in DOMAIN UConnected.size.options : UConnected.has[f] \in UConnected.size.guard
        BY UConnectedTable, NoFields DEF UConnected, UConnected_ByteSize, UConnected_HasBits
    <2> QED
        BY <2>1, <2>2, <2>3, <2>4, UConnectedTable, Zenon DEF FitsSize
<1>7. FitsSizes(UConnected, UConnected_Proto)
    BY UConnectedTable, NoFields DEF FitsSizes, SizeType, UConnected, UConnected_HasBits,
        UConnected_ByteSize, UConnected_Serialize, UConnected_Proto
<1>8. FitsRows(UConnected, UConnected_Proto)
    BY UConnectedTable DEF FitsRows, FitsRow, UConnected, UConnected_HasBits, UConnected_Parse,
        UConnected_Serialize, UConnected_Proto
<1> QED
    BY <1>1, <1>2, <1>3, <1>4, <1>5, <1>6, <1>7, <1>8 DEF Fits

-----------------------------------------------------------------------------
LEMMA UGoPickupTable ==
    /\ Classes["UGoPickup"] = UGoPickup /\ Schemas["UGoPickup"] = UGoPickup_Proto
    /\ UGoPickup.type = [truckid |-> "int32", whid |-> "int32", seqnum |-> "int64"]
    /\ UGoPickup.lists = {}
<1> DEFINE m == UGoPickup_Members
<1>1. At(m, "truckid") = 1 /\ At(m, "whid") = 2 /\ At(m, "seqnum") = 3
    BY DEF At, UGoPickup_Members
<1>2. Names(m) = {"truckid", "whid", "seqnum"}
    BY DEF Names, UGoPickup_Members
<1>3. UGoPickup.type = [f \in Names(m) |-> m[At(m, f)][2]]
    BY DEF UGoPickup
<1>4. UGoPickup.lists = {}
    BY <1>2 DEF UGoPickup, UGoPickup_HasBits
<1>5. Classes["UGoPickup"] = UGoPickup /\ Schemas["UGoPickup"] = UGoPickup_Proto
    BY DEF Classes, Schemas
<1> QED
    BY <1>1, <1>2, <1>3, <1>4, <1>5 DEF UGoPickup_Members

LEMMA UGoPickupSpan == Span(UGoPickup_Members, "truckid", "seqnum") = {"truckid", "whid", "seqnum"}
<1> DEFINE m == UGoPickup_Members
<1>1. At(m, "truckid") = 1 /\ At(m, "seqnum") = 3
    BY DEF At, UGoPickup_Members
<1>2. Span(m, "truckid", "seqnum") = {m[i][1] : i \in 1 .. 3}
    BY <1>1 DEF Span
<1>3. 1 .. 3 = {1, 2, 3}
    OBVIOUS
<1> QED
    BY <1>2, <1>3 DEF UGoPickup_Members

LEMMA UGoPickupFits == Fits(UGoPickup, UGoPickup_Proto)
<1>1. FitsMembers(UGoPickup)
    BY UGoPickupTable DEF FitsMembers, UGoPickup, UGoPickup_HasBits
<1>2. FitsCopy(UGoPickup)
    BY UGoPickupTable, UGoPickupSpan DEF FitsCopy, UGoPickup, UGoPickup_HasBits, UGoPickup_Copy,
        UGoPickup_Swap
<1>3. FitsClear(UGoPickup)
    <2> DEFINE g1 == <<{0, 1, 2}, {"truckid", "whid", "seqnum"}>>
    <2>1. UGoPickup.clear.guarded = {g1} /\ UGoPickup.clear.always = {}
        BY UGoPickupTable, UGoPickupSpan DEF UGoPickup, UGoPickup_Clear
    <2>2. g1[1] = {0, 1, 2} /\ g1[2] = {"truckid", "whid", "seqnum"}
        OBVIOUS
    <2> HIDE DEF g1
    <2> QED
        BY <2>1, <2>2, UGoPickupTable DEF FitsClear, UGoPickup, UGoPickup_HasBits
<1>4. FitsMerge(UGoPickup)
    <2>1. UGoPickup.merge.lists = UGoPickup.lists /\ UGoPickup.merge.fields = UGoPickup.has
        BY UGoPickupTable DEF UGoPickup, UGoPickup_MergeFrom, UGoPickup_HasBits
    <2>2. \A f \in DOMAIN UGoPickup.has : UGoPickup.has[f] \in UGoPickup.merge.guard
        BY UGoPickupTable, NoFields DEF UGoPickup, UGoPickup_MergeFrom, UGoPickup_HasBits
    <2> QED
        BY <2>1, <2>2, UGoPickupTable, Zenon DEF FitsMerge
<1>5. FitsInit(UGoPickup, UGoPickup_Proto)
    BY UGoPickupTable DEF FitsInit, UGoPickup, UGoPickup_HasBits, UGoPickup_IsInitialized,
        UGoPickup_Proto
<1>6. FitsSize(UGoPickup)
    <2>1. DOMAIN UGoPickup.size.lists = UGoPickup.lists
        BY UGoPickupTable, NoFields DEF UGoPickup, UGoPickup_ByteSize, UGoPickup_HasBits
    <2>2. DOMAIN UGoPickup.size.needs \cup DOMAIN UGoPickup.size.options = DOMAIN UGoPickup.has
        BY UGoPickupTable, NoFields DEF UGoPickup, UGoPickup_ByteSize, UGoPickup_HasBits
    <2>3. \A f \in DOMAIN UGoPickup.size.needs : UGoPickup.has[f] \in UGoPickup.size.required
        BY UGoPickupTable, NoFields DEF UGoPickup, UGoPickup_ByteSize, UGoPickup_HasBits
    <2>4. \A f \in DOMAIN UGoPickup.size.options : UGoPickup.has[f] \in UGoPickup.size.guard
        BY UGoPickupTable, NoFields DEF UGoPickup, UGoPickup_ByteSize, UGoPickup_HasBits
    <2> QED
        BY <2>1, <2>2, <2>3, <2>4, UGoPickupTable, Zenon DEF FitsSize
<1>7. FitsSizes(UGoPickup, UGoPickup_Proto)
    BY UGoPickupTable, NoFields DEF FitsSizes, SizeType, UGoPickup, UGoPickup_HasBits,
        UGoPickup_ByteSize, UGoPickup_Serialize, UGoPickup_Proto
<1>8. FitsRows(UGoPickup, UGoPickup_Proto)
    BY UGoPickupTable DEF FitsRows, FitsRow, UGoPickup, UGoPickup_HasBits, UGoPickup_Parse,
        UGoPickup_Serialize, UGoPickup_Proto
<1> QED
    BY <1>1, <1>2, <1>3, <1>4, <1>5, <1>6, <1>7, <1>8 DEF Fits

-----------------------------------------------------------------------------
LEMMA UFinishedTable ==
    /\ Classes["UFinished"] = UFinished /\ Schemas["UFinished"] = UFinished_Proto
    /\ UFinished.type = [status |-> "string", truckid |-> "int32", x |-> "int32",
            seqnum |-> "int64", y |-> "int32"]
    /\ UFinished.lists = {}
<1> DEFINE m == UFinished_Members
<1>1. At(m, "status") = 1 /\ At(m, "truckid") = 2 /\ At(m, "x") = 3 /\ At(m, "seqnum") = 4 /\
      At(m, "y") = 5
    BY DEF At, UFinished_Members
<1>2. Names(m) = {"status", "truckid", "x", "seqnum", "y"}
    BY DEF Names, UFinished_Members
<1>3. UFinished.type = [f \in Names(m) |-> m[At(m, f)][2]]
    BY DEF UFinished
<1>4. UFinished.lists = {}
    BY <1>2 DEF UFinished, UFinished_HasBits
<1>5. Classes["UFinished"] = UFinished /\ Schemas["UFinished"] = UFinished_Proto
    BY DEF Classes, Schemas
<1> QED
    BY <1>1, <1>2, <1>3, <1>4, <1>5 DEF UFinished_Members

LEMMA UFinishedSpan == Span(UFinished_Members, "truckid", "y") = {"truckid", "x", "seqnum", "y"}
<1> DEFINE m == UFinished_Members
<1>1. At(m, "truckid") = 2 /\ At(m, "y") = 5
    BY DEF At, UFinished_Members
<1>2. Span(m, "truckid", "y") = {m[i][1] : i \in 2 .. 5}
    BY <1>1 DEF Span
<1>3. 2 .. 5 = {2, 3, 4, 5}
    OBVIOUS
<1> QED
    BY <1>2, <1>3 DEF UFinished_Members

LEMMA UFinishedFits == Fits(UFinished, UFinished_Proto)
<1>1. FitsMembers(UFinished)
    BY UFinishedTable DEF FitsMembers, UFinished, UFinished_HasBits
<1>2. FitsCopy(UFinished)
    BY UFinishedTable, UFinishedSpan DEF FitsCopy, UFinished, UFinished_HasBits, UFinished_Copy,
        UFinished_Swap
<1>3. FitsClear(UFinished)
    <2> DEFINE g1 == <<{0}, {"status"}>>
               g2 == <<{1, 2, 3, 4}, {"truckid", "x", "seqnum", "y"}>>
    <2>1. UFinished.clear.guarded = {g1, g2} /\ UFinished.clear.always = {}
        BY UFinishedTable, UFinishedSpan DEF UFinished, UFinished_Clear
    <2>2. g1[1] = {0} /\ g1[2] = {"status"} /\ g2[1] = {1, 2, 3, 4} /\ g2[2] = {"truckid", "x", "seqnum", "y"}
        OBVIOUS
    <2> HIDE DEF g1, g2
    <2> QED
        BY <2>1, <2>2, UFinishedTable DEF FitsClear, UFinished, UFinished_HasBits
<1>4. FitsMerge(UFinished)
    <2>1. UFinished.merge.lists = UFinished.lists /\ UFinished.merge.fields = UFinished.has
        BY UFinishedTable DEF UFinished, UFinished_MergeFrom, UFinished_HasBits
    <2>2. \A f \in DOMAIN UFinished.has : UFinished.has[f] \in UFinished.merge.guard
        BY UFinishedTable, NoFields DEF UFinished, UFinished_MergeFrom, UFinished_HasBits
    <2> QED
        BY <2>1, <2>2, UFinishedTable, Zenon DEF FitsMerge
<1>5. FitsInit(UFinished, UFinished_Proto)
    BY UFinishedTable DEF FitsInit, UFinished, UFinished_HasBits, UFinished_IsInitialized,
        UFinished_Proto
<1>6. FitsSize(UFinished)
    <2>1. DOMAIN UFinished.size.lists = UFinished.lists
        BY UFinishedTable, NoFields DEF UFinished, UFinished_ByteSize, UFinished_HasBits
    <2>2. DOMAIN UFinished.size.needs \cup DOMAIN UFinished.size.options = DOMAIN UFinished.has
        BY UFinishedTable, NoFields DEF UFinished, UFinished_ByteSize, UFinished_HasBits
    <2>3. \A f \in DOMAIN UFinished.size.needs : UFinished.has[f] \in UFinished.size.required
        BY UFinishedTable, NoFields DEF UFinished, UFinished_ByteSize, UFinished_HasBits
    <2>4. \A f \in DOMAIN UFinished.size.options : UFinished.has[f] \in UFinished.size.guard
        BY UFinishedTable, NoFields DEF UFinished, UFinished_ByteSize, UFinished_HasBits
    <2> QED
        BY <2>1, <2>2, <2>3, <2>4, UFinishedTable, Zenon DEF FitsSize
<1>7. FitsSizes(UFinished, UFinished_Proto)
    BY UFinishedTable, NoFields DEF FitsSizes, SizeType, UFinished, UFinished_HasBits,
        UFinished_ByteSize, UFinished_Serialize, UFinished_Proto
<1>8. FitsRows(UFinished, UFinished_Proto)
    BY UFinishedTable DEF FitsRows, FitsRow, UFinished, UFinished_HasBits, UFinished_Parse,
        UFinished_Serialize, UFinished_Proto
<1> QED
    BY <1>1, <1>2, <1>3, <1>4, <1>5, <1>6, <1>7, <1>8 DEF Fits

-----------------------------------------------------------------------------
LEMMA UDeliveryMadeTable ==
    /\ Classes["UDeliveryMade"] = UDeliveryMade /\ Schemas["UDeliveryMade"] = UDeliveryMade_Proto
    /\ UDeliveryMade.type = [packageid |-> "int64", seqnum |-> "int64", truckid |-> "int32"]
    /\ UDeliveryMade.lists = {}
<1> DEFINE m == UDeliveryMade_Members
<1>1. At(m, "packageid") = 1 /\ At(m, "seqnum") = 2 /\ At(m, "truckid") = 3
    BY DEF At, UDeliveryMade_Members
<1>2. Names(m) = {"packageid", "seqnum", "truckid"}
    BY DEF Names, UDeliveryMade_Members
<1>3. UDeliveryMade.type = [f \in Names(m) |-> m[At(m, f)][2]]
    BY DEF UDeliveryMade
<1>4. UDeliveryMade.lists = {}
    BY <1>2 DEF UDeliveryMade, UDeliveryMade_HasBits
<1>5. Classes["UDeliveryMade"] = UDeliveryMade /\ Schemas["UDeliveryMade"] = UDeliveryMade_Proto
    BY DEF Classes, Schemas
<1> QED
    BY <1>1, <1>2, <1>3, <1>4, <1>5 DEF UDeliveryMade_Members

LEMMA UDeliveryMadeSpan == Span(UDeliveryMade_Members, "packageid", "truckid") = {"packageid", "seqnum", "truckid"}
<1> DEFINE m == UDeliveryMade_Members
<1>1. At(m, "packageid") = 1 /\ At(m, "truckid") = 3
    BY DEF At, UDeliveryMade_Members
<1>2. Span(m, "packageid", "truckid") = {m[i][1] : i \in 1 .. 3}
    BY <1>1 DEF Span
<1>3. 1 .. 3 = {1, 2, 3}
    OBVIOUS
<1> QED
    BY <1>2, <1>3 DEF UDeliveryMade_Members

LEMMA UDeliveryMadeFits == Fits(UDeliveryMade, UDeliveryMade_Proto)
<1>1. FitsMembers(UDeliveryMade)
    BY UDeliveryMadeTable DEF FitsMembers, UDeliveryMade, UDeliveryMade_HasBits
<1>2. FitsCopy(UDeliveryMade)
    BY UDeliveryMadeTable, UDeliveryMadeSpan DEF FitsCopy, UDeliveryMade, UDeliveryMade_HasBits,
        UDeliveryMade_Copy, UDeliveryMade_Swap
<1>3. FitsClear(UDeliveryMade)
    <2> DEFINE g1 == <<{0, 1, 2}, {"packageid", "seqnum", "truckid"}>>
    <2>1. UDeliveryMade.clear.guarded = {g1} /\ UDeliveryMade.clear.always = {}
        BY UDeliveryMadeTable, UDeliveryMadeSpan DEF UDeliveryMade, UDeliveryMade_Clear
    <2>2. g1[1] = {0, 1, 2} /\ g1[2] = {"packageid", "seqnum", "truckid"}
        OBVIOUS
    <2> HIDE DEF g1
    <2> QED
        BY <2>1, <2>2, UDeliveryMadeTable DEF FitsClear, UDeliveryMade, UDeliveryMade_HasBits
<1>4. FitsMerge(UDeliveryMade)
    <2>1. UDeliveryMade.merge.lists = UDeliveryMade.lists /\ UDeliveryMade.merge.fields = UDeliveryMade.has
        BY UDeliveryMadeTable DEF UDeliveryMade, UDeliveryMade_MergeFrom, UDeliveryMade_HasBits
    <2>2. \A f \in DOMAIN UDeliveryMade.has : UDeliveryMade.has[f] \in UDeliveryMade.merge.guard
        BY UDeliveryMadeTable, NoFields DEF UDeliveryMade, UDeliveryMade_MergeFrom, UDeliveryMade_HasBits
    <2> QED
        BY <2>1, <2>2, UDeliveryMadeTable, Zenon DEF FitsMerge
<1>5. FitsInit(UDeliveryMade, UDeliveryMade_Proto)
    BY UDeliveryMadeTable DEF FitsInit, UDeliveryMade, UDeliveryMade_HasBits,
        UDeliveryMade_IsInitialized, UDeliveryMade_Proto
<1>6. FitsSize(UDeliveryMade)
    <2>1. DOMAIN UDeliveryMade.size.lists = UDeliveryMade.lists
        BY UDeliveryMadeTable, NoFields DEF UDeliveryMade, UDeliveryMade_ByteSize, UDeliveryMade_HasBits
    <2>2. DOMAIN UDeliveryMade.size.needs \cup DOMAIN UDeliveryMade.size.options = DOMAIN UDeliveryMade.has
        BY UDeliveryMadeTable, NoFields DEF UDeliveryMade, UDeliveryMade_ByteSize, UDeliveryMade_HasBits
    <2>3. \A f \in DOMAIN UDeliveryMade.size.needs : UDeliveryMade.has[f] \in UDeliveryMade.size.required
        BY UDeliveryMadeTable, NoFields DEF UDeliveryMade, UDeliveryMade_ByteSize, UDeliveryMade_HasBits
    <2>4. \A f \in DOMAIN UDeliveryMade.size.options : UDeliveryMade.has[f] \in UDeliveryMade.size.guard
        BY UDeliveryMadeTable, NoFields DEF UDeliveryMade, UDeliveryMade_ByteSize, UDeliveryMade_HasBits
    <2> QED
        BY <2>1, <2>2, <2>3, <2>4, UDeliveryMadeTable, Zenon DEF FitsSize
<1>7. FitsSizes(UDeliveryMade, UDeliveryMade_Proto)
    BY UDeliveryMadeTable, NoFields DEF FitsSizes, SizeType, UDeliveryMade,
        UDeliveryMade_HasBits, UDeliveryMade_ByteSize, UDeliveryMade_Serialize,
        UDeliveryMade_Proto
<1>8. FitsRows(UDeliveryMade, UDeliveryMade_Proto)
    BY UDeliveryMadeTable DEF FitsRows, FitsRow, UDeliveryMade, UDeliveryMade_HasBits,
        UDeliveryMade_Parse, UDeliveryMade_Serialize, UDeliveryMade_Proto
<1> QED
    BY <1>1, <1>2, <1>3, <1>4, <1>5, <1>6, <1>7, <1>8 DEF Fits

-----------------------------------------------------------------------------
LEMMA UDeliveryLocationTable ==
    /\ Classes["UDeliveryLocation"] = UDeliveryLocation /\ Schemas["UDeliveryLocation"] = UDeliveryLocation_Proto
    /\ UDeliveryLocation.type = [packageid |-> "int64", x |-> "int32", y |-> "int32"]
    /\ UDeliveryLocation.lists = {}
<1> DEFINE m == UDeliveryLocation_Members
<1>1. At(m, "packageid") = 1 /\ At(m, "x") = 2 /\ At(m, "y") = 3
    BY DEF At, UDeliveryLocation_Members
<1>2. Names(m) = {"packageid", "x", "y"}
    BY DEF Names, UDeliveryLocation_Members
<1>3. UDeliveryLocation.type = [f \in Names(m) |-> m[At(m, f)][2]]
    BY DEF UDeliveryLocation
<1>4. UDeliveryLocation.lists = {}
    BY <1>2 DEF UDeliveryLocation, UDeliveryLocation_HasBits
<1>5. Classes["UDeliveryLocation"] = UDeliveryLocation /\ Schemas["UDeliveryLocation"] = UDeliveryLocation_Proto
    BY DEF Classes, Schemas
<1> QED
    BY <1>1, <1>2, <1>3, <1>4, <1>5 DEF UDeliveryLocation_Members

LEMMA UDeliveryLocationSpan == Span(UDeliveryLocation_Members, "packageid", "y") = {"packageid", "x", "y"}
<1> DEFINE m == UDeliveryLocation_Members
<1>1. At(m, "packageid") = 1 /\ At(m, "y") = 3
    BY DEF At, UDeliveryLocation_Members
<1>2. Span(m, "packageid", "y") = {m[i][1] : i \in 1 .. 3}
    BY <1>1 DEF Span
<1>3. 1 .. 3 = {1, 2, 3}
    OBVIOUS
<1> QED
    BY <1>2, <1>3 DEF UDeliveryLocation_Members

LEMMA UDeliveryLocationFits == Fits(UDeliveryLocation, UDeliveryLocation_Proto)
<1>1. FitsMembers(UDeliveryLocation)
    BY UDeliveryLocationTable DEF FitsMembers, UDeliveryLocation, UDeliveryLocation_HasBits
<1>2. FitsCopy(UDeliveryLocation)
    BY UDeliveryLocationTable, UDeliveryLocationSpan DEF FitsCopy, UDeliveryLocation,
        UDeliveryLocation_HasBits, UDeliveryLocation_Copy, UDeliveryLocation_Swap
<1>3. FitsClear(UDeliveryLocation)
    <2> DEFINE g1 == <<{0, 1, 2}, {"packageid", "x", "y"}>>
    <2>1. UDeliveryLocation.clear.guarded = {g1} /\ UDeliveryLocation.clear.always = {}
        BY UDeliveryLocationTable, UDeliveryLocationSpan DEF UDeliveryLocation, UDeliveryLocation_Clear
    <2>2. g1[1] = {0, 1, 2} /\ g1[2] = {"packageid", "x", "y"}
        OBVIOUS
    <2> HIDE DEF g1
    <2> QED
        BY <2>1, <2>2, UDeliveryLocationTable DEF FitsClear, UDeliveryLocation, UDeliveryLocation_HasBits
<1>4. FitsMerge(UDeliveryLocation)
    <2>1. UDeliveryLocation.merge.lists = UDeliveryLocation.lists /\ UDeliveryLocation.merge.fields = UDeliveryLocation.has
        BY UDeliveryLocationTable DEF UDeliveryLocation, UDeliveryLocation_MergeFrom, UDeliveryLocation_HasBits
    <2>2. \A f \in DOMAIN UDeliveryLocation.has : UDeliveryLocation.has[f] \in UDeliveryLocation.merge.guard
        BY UDeliveryLocationTable, NoFields DEF UDeliveryLocation, UDeliveryLocation_MergeFrom, UDeliveryLocation_HasBits
    <2> QED
        BY <2>1, <2>2, UDeliveryLocationTable, Zenon DEF FitsMerge
<1>5. FitsInit(UDeliveryLocation, UDeliveryLocation_Proto)
    BY UDeliveryLocationTable DEF FitsInit, UDeliveryLocation, UDeliveryLocation_HasBits,
        UDeliveryLocation_IsInitialized, UDeliveryLocation_Proto
<1>6. FitsSize(UDeliveryLocation)
    <2>1. DOMAIN UDeliveryLocation.size.lists = UDeliveryLocation.lists
        BY UDeliveryLocationTable, NoFields DEF UDeliveryLocation, UDeliveryLocation_ByteSize, UDeliveryLocation_HasBits
    <2>2. DOMAIN UDeliveryLocation.size.needs \cup DOMAIN UDeliveryLocation.size.options = DOMAIN UDeliveryLocation.has
        BY UDeliveryLocationTable, NoFields DEF UDeliveryLocation, UDeliveryLocation_ByteSize, UDeliveryLocation_HasBits
    <2>3. \A f \in DOMAIN UDeliveryLocation.size.needs : UDeliveryLocation.has[f] \in UDeliveryLocation.size.required
        BY UDeliveryLocationTable, NoFields DEF UDeliveryLocation, UDeliveryLocation_ByteSize, UDeliveryLocation_HasBits
    <2>4. \A f \in DOMAIN UDeliveryLocation.size.options : UDeliveryLocation.has[f] \in UDeliveryLocation.size.guard
        BY UDeliveryLocationTable, NoFields DEF UDeliveryLocation, UDeliveryLocation_ByteSize, UDeliveryLocation_HasBits
    <2> QED
        BY <2>1, <2>2, <2>3, <2>4, UDeliveryLocationTable, Zenon DEF FitsSize
<1>7. FitsSizes(UDeliveryLocation, UDeliveryLocation_Proto)
    BY UDeliveryLocationTable, NoFields DEF FitsSizes, SizeType, UDeliveryLocation,
        UDeliveryLocation_HasBits, UDeliveryLocation_ByteSize, UDeliveryLocation_Serialize,
        UDeliveryLocation_Proto
<1>8. FitsRows(UDeliveryLocation, UDeliveryLocation_Proto)
    BY UDeliveryLocationTable DEF FitsRows, FitsRow, UDeliveryLocation,
        UDeliveryLocation_HasBits, UDeliveryLocation_Parse, UDeliveryLocation_Serialize,
        UDeliveryLocation_Proto
<1> QED
    BY <1>1, <1>2, <1>3, <1>4, <1>5, <1>6, <1>7, <1>8 DEF Fits

-----------------------------------------------------------------------------
LEMMA UGoDeliverTable ==
    /\ Classes["UGoDeliver"] = UGoDeliver /\ Schemas["UGoDeliver"] = UGoDeliver_Proto
    /\ UGoDeliver.type = [packages |-> "UDeliveryLocation", seqnum |-> "int64",
            truckid |-> "int32"]
    /\ UGoDeliver.lists = {"packages"}
<1> DEFINE m == UGoDeliver_Members
<1>1. At(m, "packages") = 1 /\ At(m, "seqnum") = 2 /\ At(m, "truckid") = 3
    BY DEF At, UGoDeliver_Members
<1>2. Names(m) = {"packages", "seqnum", "truckid"}
    BY DEF Names, UGoDeliver_Members
<1>3. UGoDeliver.type = [f \in Names(m) |-> m[At(m, f)][2]]
    BY DEF UGoDeliver
<1>4. UGoDeliver.lists = {"packages"}
    BY <1>2 DEF UGoDeliver, UGoDeliver_HasBits
<1>5. Classes["UGoDeliver"] = UGoDeliver /\ Schemas["UGoDeliver"] = UGoDeliver_Proto
    BY DEF Classes, Schemas
<1> QED
    BY <1>1, <1>2, <1>3, <1>4, <1>5 DEF UGoDeliver_Members

LEMMA UGoDeliverSpan == Span(UGoDeliver_Members, "seqnum", "truckid") = {"seqnum", "truckid"}
<1> DEFINE m == UGoDeliver_Members
<1>1. At(m, "seqnum") = 2 /\ At(m, "truckid") = 3
    BY DEF At, UGoDeliver_Members
<1>2. Span(m, "seqnum", "truckid") = {m[i][1] : i \in 2 .. 3}
    BY <1>1 DEF Span
<1>3. 2 .. 3 = {2, 3}
    OBVIOUS
<1> QED
    BY <1>2, <1>3 DEF UGoDeliver_Members

LEMMA UGoDeliverFits == Fits(UGoDeliver, UGoDeliver_Proto)
<1>1. FitsMembers(UGoDeliver)
    BY UGoDeliverTable DEF FitsMembers, UGoDeliver, UGoDeliver_HasBits
<1>2. FitsCopy(UGoDeliver)
    BY UGoDeliverTable, UGoDeliverSpan DEF FitsCopy, UGoDeliver, UGoDeliver_HasBits,
        UGoDeliver_Copy, UGoDeliver_Swap
<1>3. FitsClear(UGoDeliver)
    <2> DEFINE g1 == <<{0, 1}, {"seqnum", "truckid"}>>
    <2>1. UGoDeliver.clear.guarded = {g1} /\ UGoDeliver.clear.always = {"packages"}
        BY UGoDeliverTable, UGoDeliverSpan DEF UGoDeliver, UGoDeliver_Clear
    <2>2. g1[1] = {0, 1} /\ g1[2] = {"seqnum", "truckid"}
        OBVIOUS
    <2> HIDE DEF g1
    <2> QED
        BY <2>1, <2>2, UGoDeliverTable DEF FitsClear, UGoDeliver, UGoDeliver_HasBits
<1>4. FitsMerge(UGoDeliver)
    <2>1. UGoDeliver.merge.lists = UGoDeliver.lists /\ UGoDeliver.merge.fields = UGoDeliver.has
        BY UGoDeliverTable DEF UGoDeliver, UGoDeliver_MergeFrom, UGoDeliver_HasBits
    <2>2. \A f \in DOMAIN UGoDeliver.has : UGoDeliver.has[f] \in UGoDeliver.merge.guard
        BY UGoDeliverTable, NoFields DEF UGoDeliver, UGoDeliver_MergeFrom, UGoDeliver_HasBits
    <2> QED
        BY <2>1, <2>2, UGoDeliverTable, Zenon DEF FitsMerge
<1>5. FitsInit(UGoDeliver, UGoDeliver_Proto)
    BY UGoDeliverTable DEF FitsInit, UGoDeliver, UGoDeliver_HasBits, UGoDeliver_IsInitialized,
        UGoDeliver_Proto
<1>6. FitsSize(UGoDeliver)
    <2>1. DOMAIN UGoDeliver.size.lists = UGoDeliver.lists
        BY UGoDeliverTable, NoFields DEF UGoDeliver, UGoDeliver_ByteSize, UGoDeliver_HasBits
    <2>2. DOMAIN UGoDeliver.size.needs \cup DOMAIN UGoDeliver.size.options = DOMAIN UGoDeliver.has
        BY UGoDeliverTable, NoFields DEF UGoDeliver, UGoDeliver_ByteSize, UGoDeliver_HasBits
    <2>3. \A f \in DOMAIN UGoDeliver.size.needs : UGoDeliver.has[f] \in UGoDeliver.size.required
        BY UGoDeliverTable, NoFields DEF UGoDeliver, UGoDeliver_ByteSize, UGoDeliver_HasBits
    <2>4. \A f \in DOMAIN UGoDeliver.size.options : UGoDeliver.has[f] \in UGoDeliver.size.guard
        BY UGoDeliverTable, NoFields DEF UGoDeliver, UGoDeliver_ByteSize, UGoDeliver_HasBits
    <2> QED
        BY <2>1, <2>2, <2>3, <2>4, UGoDeliverTable, Zenon DEF FitsSize
<1>7. FitsSizes(UGoDeliver, UGoDeliver_Proto)
    BY UGoDeliverTable, NoFields DEF FitsSizes, SizeType, UGoDeliver, UGoDeliver_HasBits,
        UGoDeliver_ByteSize, UGoDeliver_Serialize, UGoDeliver_Proto
<1>8. FitsRows(UGoDeliver, UGoDeliver_Proto)
    BY UGoDeliverTable DEF FitsRows, FitsRow, UGoDeliver, UGoDeliver_HasBits, UGoDeliver_Parse,
        UGoDeliver_Serialize, UGoDeliver_Proto
<1> QED
    BY <1>1, <1>2, <1>3, <1>4, <1>5, <1>6, <1>7, <1>8 DEF Fits

-----------------------------------------------------------------------------
LEMMA UErrTable ==
    /\ Classes["UErr"] = UErr /\ Schemas["UErr"] = UErr_Proto
    /\ UErr.type = [err |-> "string", originseqnum |-> "int64", seqnum |-> "int64"]
    /\ UErr.lists = {}
<1> DEFINE m == UErr_Members
<1>1. At(m, "err") = 1 /\ At(m, "originseqnum") = 2 /\ At(m, "seqnum") = 3
    BY DEF At, UErr_Members
<1>2. Names(m) = {"err", "originseqnum", "seqnum"}
    BY DEF Names, UErr_Members
<1>3. UErr.type = [f \in Names(m) |-> m[At(m, f)][2]]
    BY DEF UErr
<1>4. UErr.lists = {}
    BY <1>2 DEF UErr, UErr_HasBits
<1>5. Classes["UErr"] = UErr /\ Schemas["UErr"] = UErr_Proto
    BY DEF Classes, Schemas
<1> QED
    BY <1>1, <1>2, <1>3, <1>4, <1>5 DEF UErr_Members

LEMMA UErrSpan == Span(UErr_Members, "originseqnum", "seqnum") = {"originseqnum", "seqnum"}
<1> DEFINE m == UErr_Members
<1>1. At(m, "originseqnum") = 2 /\ At(m, "seqnum") = 3
    BY DEF At, UErr_Members
<1>2. Span(m, "originseqnum", "seqnum") = {m[i][1] : i \in 2 .. 3}
    BY <1>1 DEF Span
<1>3. 2 .. 3 = {2, 3}
    OBVIOUS
<1> QED
    BY <1>2, <1>3 DEF UErr_Members

LEMMA UErrFits == Fits(UErr, UErr_Proto)
<1>1. FitsMembers(UErr)
    BY UErrTable DEF FitsMembers, UErr, UErr_HasBits
<1>2. FitsCopy(UErr)
    BY UErrTable, UErrSpan DEF FitsCopy, UErr, UErr_HasBits, UErr_Copy, UErr_Swap
<1>3. FitsClear(UErr)
    <2> DEFINE g1 == <<{0}, {"err"}>>
               g2 == <<{1, 2}, {"originseqnum", "seqnum"}>>
    <2>1. UErr.clear.guarded = {g1, g2} /\ UErr.clear.always = {}
        BY UErrTable, UErrSpan DEF UErr, UErr_Clear
    <2>2. g1[1] = {0} /\ g1[2] = {"err"} /\ g2[1] = {1, 2} /\ g2[2] = {"originseqnum", "seqnum"}
        OBVIOUS
    <2> HIDE DEF g1, g2
    <2> QED
        BY <2>1, <2>2, UErrTable DEF FitsClear, UErr, UErr_HasBits
<1>4. FitsMerge(UErr)
    <2>1. UErr.merge.lists = UErr.lists /\ UErr.merge.fields = UErr.has
        BY UErrTable DEF UErr, UErr_MergeFrom, UErr_HasBits
    <2>2. \A f \in DOMAIN UErr.has : UErr.has[f] \in UErr.merge.guard
        BY UErrTable, NoFields DEF UErr, UErr_MergeFrom, UErr_HasBits
    <2> QED
        BY <2>1, <2>2, UErrTable, Zenon DEF FitsMerge
<1>5. FitsInit(UErr, UErr_Proto)
    BY UErrTable DEF FitsInit, UErr, UErr_HasBits, UErr_IsInitialized, UErr_Proto
<1>6. FitsSize(UErr)
    <2>1. DOMAIN UErr.size.lists = UErr.lists
        BY UErrTable, NoFields DEF UErr, UErr_ByteSize, UErr_HasBits
    <2>2. DOMAIN UErr.size.needs \cup DOMAIN UErr.size.options = DOMAIN UErr.has
        BY UErrTable, NoFields DEF UErr, UErr_ByteSize, UErr_HasBits
    <2>3. \A f \in DOMAIN UErr.size.needs : UErr.has[f] \in UErr.size.required
        BY UErrTable, NoFields DEF UErr, UErr_ByteSize, UErr_HasBits
    <2>4. \A f \in DOMAIN UErr.size.options : UErr.has[f] \in UErr.size.guard
        BY UErrTable, NoFields DEF UErr, UErr_ByteSize, UErr_HasBits
    <2> QED
        BY <2>1, <2>2, <2>3, <2>4, UErrTable, Zenon DEF FitsSize
<1>7. FitsSizes(UErr, UErr_Proto)
    BY UErrTable, NoFields DEF FitsSizes, SizeType, UErr, UErr_HasBits, UErr_ByteSize,
        UErr_Serialize, UErr_Proto
<1>8. FitsRows(UErr, UErr_Proto)
    BY UErrTable DEF FitsRows, FitsRow, UErr, UErr_HasBits, UErr_Parse, UErr_Serialize,
        UErr_Proto
<1> QED
    BY <1>1, <1>2, <1>3, <1>4, <1>5, <1>6, <1>7, <1>8 DEF Fits

-----------------------------------------------------------------------------
LEMMA UQueryTable ==
    /\ Classes["UQuery"] = UQuery /\ Schemas["UQuery"] = UQuery_Proto
    /\ UQuery.type = [seqnum |-> "int64", truckid |-> "int32"]
    /\ UQuery.lists = {}
<1> DEFINE m == UQuery_Members
<1>1. At(m, "seqnum") = 1 /\ At(m, "truckid") = 2
    BY DEF At, UQuery_Members
<1>2. Names(m) = {"seqnum", "truckid"}
    BY DEF Names, UQuery_Members
<1>3. UQuery.type = [f \in Names(m) |-> m[At(m, f)][2]]
    BY DEF UQuery
<1>4. UQuery.lists = {}
    BY <1>2 DEF UQuery, UQuery_HasBits
<1>5. Classes["UQuery"] = UQuery /\ Schemas["UQuery"] = UQuery_Proto
    BY DEF Classes, Schemas
<1> QED
    BY <1>1, <1>2, <1>3, <1>4, <1>5 DEF UQuery_Members

LEMMA UQuerySpan == Span(UQuery_Members, "seqnum", "truckid") = {"seqnum", "truckid"}
<1> DEFINE m == UQuery_Members
<1>1. At(m, "seqnum") = 1 /\ At(m, "truckid") = 2
    BY DEF At, UQuery_Members
<1>2. Span(m, "seqnum", "truckid") = {m[i][1] : i \in 1 .. 2}
    BY <1>1 DEF Span
<1>3. 1 .. 2 = {1, 2}
    OBVIOUS
<1> QED
    BY <1>2, <1>3 DEF UQuery_Members

LEMMA UQueryFits == Fits(UQuery, UQuery_Proto)
<1>1. FitsMembers(UQuery)
    BY UQueryTable DEF FitsMembers, UQuery, UQuery_HasBits
<1>2. FitsCopy(UQuery)
    BY UQueryTable, UQuerySpan DEF FitsCopy, UQuery, UQuery_HasBits, UQuery_Copy, UQuery_Swap
<1>3. FitsClear(UQuery)
    <2> DEFINE g1 == <<{0, 1}, {"seqnum", "truckid"}>>
    <2>1. UQuery.clear.guarded = {g1} /\ UQuery.clear.always = {}
        BY UQueryTable, UQuerySpan DEF UQuery, UQuery_Clear
    <2>2. g1[1] = {0, 1} /\ g1[2] = {"seqnum", "truckid"}
        OBVIOUS
    <2> HIDE DEF g1
    <2> QED
        BY <2>1, <2>2, UQueryTable DEF FitsClear, UQuery, UQuery_HasBits
<1>4. FitsMerge(UQuery)
    <2>1. UQuery.merge.lists = UQuery.lists /\ UQuery.merge.fields = UQuery.has
        BY UQueryTable DEF UQuery, UQuery_MergeFrom, UQuery_HasBits
    <2>2. \A f \in DOMAIN UQuery.has : UQuery.has[f] \in UQuery.merge.guard
        BY UQueryTable, NoFields DEF UQuery, UQuery_MergeFrom, UQuery_HasBits
    <2> QED
        BY <2>1, <2>2, UQueryTable, Zenon DEF FitsMerge
<1>5. FitsInit(UQuery, UQuery_Proto)
    BY UQueryTable DEF FitsInit, UQuery, UQuery_HasBits, UQuery_IsInitialized, UQuery_Proto
<1>6. FitsSize(UQuery)
    <2>1. DOMAIN UQuery.size.lists = UQuery.lists
        BY UQueryTable, NoFields DEF UQuery, UQuery_ByteSize, UQuery_HasBits
    <2>2. DOMAIN UQuery.size.needs \cup DOMAIN UQuery.size.options = DOMAIN UQuery.has
        BY UQueryTable, NoFields DEF UQuery, UQuery_ByteSize, UQuery_HasBits
    <2>3. \A f \in DOMAIN UQuery.size.needs : UQuery.has[f] \in UQuery.size.required
        BY UQueryTable, NoFields DEF UQuery, UQuery_ByteSize, UQuery_HasBits
    <2>4. \A f \in DOMAIN UQuery.size.options : UQuery.has[f] \in UQuery.size.guard
        BY UQueryTable, NoFields DEF UQuery, UQuery_ByteSize, UQuery_HasBits
    <2> QED
        BY <2>1, <2>2, <2>3, <2>4, UQueryTable, Zenon DEF FitsSize
<1>7. FitsSizes(UQuery, UQuery_Proto)
    BY UQueryTable, NoFields DEF FitsSizes, SizeType, UQuery, UQuery_HasBits, UQuery_ByteSize,
        UQuery_Serialize, UQuery_Proto
<1>8. FitsRows(UQuery, UQuery_Proto)
    BY UQueryTable DEF FitsRows, FitsRow, UQuery, UQuery_HasBits, UQuery_Parse,
        UQuery_Serialize, UQuery_Proto
<1> QED
    BY <1>1, <1>2, <1>3, <1>4, <1>5, <1>6, <1>7, <1>8 DEF Fits

-----------------------------------------------------------------------------
LEMMA UTruckTable ==
    /\ Classes["UTruck"] = UTruck /\ Schemas["UTruck"] = UTruck_Proto
    /\ UTruck.type = [status |-> "string", truckid |-> "int32", x |-> "int32",
            seqnum |-> "int64", y |-> "int32"]
    /\ UTruck.lists = {}
<1> DEFINE m == UTruck_Members
<1>1. At(m, "status") = 1 /\ At(m, "truckid") = 2 /\ At(m, "x") = 3 /\ At(m, "seqnum") = 4 /\
      At(m, "y") = 5
    BY DEF At, UTruck_Members
<1>2. Names(m) = {"status", "truckid", "x", "seqnum", "y"}
    BY DEF Names, UTruck_Members
<1>3. UTruck.type = [f \in Names(m) |-> m[At(m, f)][2]]
    BY DEF UTruck
<1>4. UTruck.lists = {}
    BY <1>2 DEF UTruck, UTruck_HasBits
<1>5. Classes["UTruck"] = UTruck /\ Schemas["UTruck"] = UTruck_Proto
    BY DEF Classes, Schemas
<1> QED
    BY <1>1, <1>2, <1>3, <1>4, <1>5 DEF UTruck_Members

LEMMA UTruckSpan == Span(UTruck_Members, "truckid", "y") = {"truckid", "x", "seqnum", "y"}
<1> DEFINE m == UTruck_Members
<1>1. At(m, "truckid") = 2 /\ At(m, "y") = 5
    BY DEF At, UTruck_Members
<1>2. Span(m, "truckid", "y") = {m[i][1] : i \in 2 .. 5}
    BY <1>1 DEF Span
<1>3. 2 .. 5 = {2, 3, 4, 5}
    OBVIOUS
<1> QED
    BY <1>2, <1>3 DEF UTruck_Members

LEMMA UTruckFits == Fits(UTruck, UTruck_Proto)
<1>1. FitsMembers(UTruck)
    BY UTruckTable DEF FitsMembers, UTruck, UTruck_HasBits
<1>2. FitsCopy(UTruck)
    BY UTruckTable, UTruckSpan DEF FitsCopy, UTruck, UTruck_HasBits, UTruck_Copy, UTruck_Swap
<1>3. FitsClear(UTruck)
    <2> DEFINE g1 == <<{0}, {"status"}>>
               g2 == <<{1, 2, 3, 4}, {"truckid", "x", "seqnum", "y"}>>
    <2>1. UTruck.clear.guarded = {g1, g2} /\ UTruck.clear.always = {}
        BY UTruckTable, UTruckSpan DEF UTruck, UTruck_Clear
    <2>2. g1[1] = {0} /\ g1[2] = {"status"} /\ g2[1] = {1, 2, 3, 4} /\ g2[2] = {"truckid", "x", "seqnum", "y"}
        OBVIOUS
    <2> HIDE DEF g1, g2
    <2> QED
        BY <2>1, <2>2, UTruckTable DEF FitsClear, UTruck, UTruck_HasBits
<1>4. FitsMerge(UTruck)
    <2>1. UTruck.merge.lists = UTruck.lists /\ UTruck.merge.fields = UTruck.has
        BY UTruckTable DEF UTruck, UTruck_MergeFrom, UTruck_HasBits
    <2>2. \A f \in DOMAIN UTruck.has : UTruck.has[f] \in UTruck.merge.guard
        BY UTruckTable, NoFields DEF UTruck, UTruck_MergeFrom, UTruck_HasBits
    <2> QED
        BY <2>1, <2>2, UTruckTable, Zenon DEF FitsMerge
<1>5. FitsInit(UTruck, UTruck_Proto)
    BY UTruckTable DEF FitsInit, UTruck, UTruck_HasBits, UTruck_IsInitialized, UTruck_Proto
<1>6. FitsSize(UTruck)
    <2>1. DOMAIN UTruck.size.lists = UTruck.lists
        BY UTruckTable, NoFields DEF UTruck, UTruck_ByteSize, UTruck_HasBits
    <2>2. DOMAIN UTruck.size.needs \cup DOMAIN UTruck.size.options = DOMAIN UTruck.has
        BY UTruckTable, NoFields DEF UTruck, UTruck_ByteSize, UTruck_HasBits
    <2>3. \A f \in DOMAIN UTruck.size.needs : UTruck.has[f] \in UTruck.size.required
        BY UTruckTable, NoFields DEF UTruck, UTruck_ByteSize, UTruck_HasBits
    <2>4. \A f \in DOMAIN UTruck.size.options : UTruck.has[f] \in UTruck.size.guard
        BY UTruckTable, NoFields DEF UTruck, UTruck_ByteSize, UTruck_HasBits
    <2> QED
        BY <2>1, <2>2, <2>3, <2>4, UTruckTable, Zenon DEF FitsSize
<1>7. FitsSizes(UTruck, UTruck_Proto)
    BY UTruckTable, NoFields DEF FitsSizes, SizeType, UTruck, UTruck_HasBits, UTruck_ByteSize,
        UTruck_Serialize, UTruck_Proto
<1>8. FitsRows(UTruck, UTruck_Proto)
    BY UTruckTable DEF FitsRows, FitsRow, UTruck, UTruck_HasBits, UTruck_Parse,
        UTruck_Serialize, UTruck_Proto
<1> QED
    BY <1>1, <1>2, <1>3, <1>4, <1>5, <1>6, <1>7, <1>8 DEF Fits

-----------------------------------------------------------------------------
LEMMA UCommandsTable ==
    /\ Classes["UCommands"] = UCommands /\ Schemas["UCommands"] = UCommands_Proto
    /\ UCommands.type = [pickups |-> "UGoPickup", deliveries |-> "UGoDeliver",
            queries |-> "UQuery", acks |-> "int64", simspeed |-> "uint32", disconnect |-> "bool"]
    /\ UCommands.lists = {"pickups", "deliveries", "queries", "acks"}
<1> DEFINE m == UCommands_Members
<1>1. At(m, "pickups") = 1 /\ At(m, "deliveries") = 2 /\ At(m, "queries") = 3 /\ At(m, "acks") = 4 /\
      At(m, "simspeed") = 5 /\ At(m, "disconnect") = 6
    BY DEF At, UCommands_Members
<1>2. Names(m) = {"pickups", "deliveries", "queries", "acks", "simspeed", "disconnect"}
    BY DEF Names, UCommands_Members
<1>3. UCommands.type = [f \in Names(m) |-> m[At(m, f)][2]]
    BY DEF UCommands
<1>4. UCommands.lists = {"pickups", "deliveries", "queries", "acks"}
    BY <1>2 DEF UCommands, UCommands_HasBits
<1>5. Classes["UCommands"] = UCommands /\ Schemas["UCommands"] = UCommands_Proto
    BY DEF Classes, Schemas
<1> QED
    BY <1>1, <1>2, <1>3, <1>4, <1>5 DEF UCommands_Members

LEMMA UCommandsSpan == Span(UCommands_Members, "simspeed", "disconnect") = {"simspeed", "disconnect"}
<1> DEFINE m == UCommands_Members
<1>1. At(m, "simspeed") = 5 /\ At(m, "disconnect") = 6
    BY DEF At, UCommands_Members
<1>2. Span(m, "simspeed", "disconnect") = {m[i][1] : i \in 5 .. 6}
    BY <1>1 DEF Span
<1>3. 5 .. 6 = {5, 6}
    OBVIOUS
<1> QED
    BY <1>2, <1>3 DEF UCommands_Members

LEMMA UCommandsFits == Fits(UCommands, UCommands_Proto)
<1>1. FitsMembers(UCommands)
    BY UCommandsTable DEF FitsMembers, UCommands, UCommands_HasBits
<1>2. FitsCopy(UCommands)
    BY UCommandsTable, UCommandsSpan DEF FitsCopy, UCommands, UCommands_HasBits, UCommands_Copy,
        UCommands_Swap
<1>3. FitsClear(UCommands)
    <2> DEFINE g1 == <<{0, 1}, {"simspeed", "disconnect"}>>
    <2>1. UCommands.clear.guarded = {g1} /\ UCommands.clear.always = {"pickups", "deliveries", "queries", "acks"}
        BY UCommandsTable, UCommandsSpan DEF UCommands, UCommands_Clear
    <2>2. g1[1] = {0, 1} /\ g1[2] = {"simspeed", "disconnect"}
        OBVIOUS
    <2> HIDE DEF g1
    <2> QED
        BY <2>1, <2>2, UCommandsTable DEF FitsClear, UCommands, UCommands_HasBits
<1>4. FitsMerge(UCommands)
    <2>1. UCommands.merge.lists = UCommands.lists /\ UCommands.merge.fields = UCommands.has
        BY UCommandsTable DEF UCommands, UCommands_MergeFrom, UCommands_HasBits
    <2>2. \A f \in DOMAIN UCommands.has : UCommands.has[f] \in UCommands.merge.guard
        BY UCommandsTable, NoFields DEF UCommands, UCommands_MergeFrom, UCommands_HasBits
    <2> QED
        BY <2>1, <2>2, UCommandsTable, Zenon DEF FitsMerge
<1>5. FitsInit(UCommands, UCommands_Proto)
    BY UCommandsTable DEF FitsInit, UCommands, UCommands_HasBits, UCommands_IsInitialized,
        UCommands_Proto
<1>6. FitsSize(UCommands)
    <2>1. DOMAIN UCommands.size.lists = UCommands.lists
        BY UCommandsTable, NoFields DEF UCommands, UCommands_ByteSize, UCommands_HasBits
    <2>2. DOMAIN UCommands.size.needs \cup DOMAIN UCommands.size.options = DOMAIN UCommands.has
        BY UCommandsTable, NoFields DEF UCommands, UCommands_ByteSize, UCommands_HasBits
    <2>3. \A f \in DOMAIN UCommands.size.needs : UCommands.has[f] \in UCommands.size.required
        BY UCommandsTable, NoFields DEF UCommands, UCommands_ByteSize, UCommands_HasBits
    <2>4. \A f \in DOMAIN UCommands.size.options : UCommands.has[f] \in UCommands.size.guard
        BY UCommandsTable, NoFields DEF UCommands, UCommands_ByteSize, UCommands_HasBits
    <2> QED
        BY <2>1, <2>2, <2>3, <2>4, UCommandsTable, Zenon DEF FitsSize
<1>7. FitsSizes(UCommands, UCommands_Proto)
    BY UCommandsTable, NoFields DEF FitsSizes, SizeType, UCommands, UCommands_HasBits,
        UCommands_ByteSize, UCommands_Serialize, UCommands_Proto
<1>8. FitsRows(UCommands, UCommands_Proto)
    BY UCommandsTable DEF FitsRows, FitsRow, UCommands, UCommands_HasBits, UCommands_Parse,
        UCommands_Serialize, UCommands_Proto
<1> QED
    BY <1>1, <1>2, <1>3, <1>4, <1>5, <1>6, <1>7, <1>8 DEF Fits

-----------------------------------------------------------------------------
LEMMA UResponsesTable ==
    /\ Classes["UResponses"] = UResponses /\ Schemas["UResponses"] = UResponses_Proto
    /\ UResponses.type = [completions |-> "UFinished", delivered |-> "UDeliveryMade",
            acks |-> "int64", truckstatus |-> "UTruck", error |-> "UErr", finished |-> "bool"]
    /\ UResponses.lists = {"completions", "delivered", "acks", "truckstatus", "error"}
<1> DEFINE m == UResponses_Members
<1>1. At(m, "completions") = 1 /\ At(m, "delivered") = 2 /\ At(m, "acks") = 3 /\
      At(m, "truckstatus") = 4 /\ At(m, "error") = 5 /\ At(m, "finished") = 6
    BY DEF At, UResponses_Members
<1>2. Names(m) = {"completions", "delivered", "acks", "truckstatus", "error", "finished"}
    BY DEF Names, UResponses_Members
<1>3. UResponses.type = [f \in Names(m) |-> m[At(m, f)][2]]
    BY DEF UResponses
<1>4. UResponses.lists = {"completions", "delivered", "acks", "truckstatus", "error"}
    BY <1>2 DEF UResponses, UResponses_HasBits
<1>5. Classes["UResponses"] = UResponses /\ Schemas["UResponses"] = UResponses_Proto
    BY DEF Classes, Schemas
<1> QED
    BY <1>1, <1>2, <1>3, <1>4, <1>5 DEF UResponses_Members

LEMMA UResponsesFits == Fits(UResponses, UResponses_Proto)
<1>1. FitsMembers(UResponses)
    BY UResponsesTable DEF FitsMembers, UResponses, UResponses_HasBits
<1>2. FitsCopy(UResponses)
    BY UResponsesTable DEF FitsCopy, UResponses, UResponses_HasBits, UResponses_Copy,
        UResponses_Swap
<1>3. FitsClear(UResponses)
    BY UResponsesTable DEF FitsClear, UResponses, UResponses_HasBits, UResponses_Clear
<1>4. FitsMerge(UResponses)
    <2>1. UResponses.merge.lists = UResponses.lists /\ UResponses.merge.fields = UResponses.has
        BY UResponsesTable DEF UResponses, UResponses_MergeFrom, UResponses_HasBits
    <2>2. \A f \in DOMAIN UResponses.has : UResponses.has[f] \in UResponses.merge.guard
        BY UResponsesTable, NoFields DEF UResponses, UResponses_MergeFrom, UResponses_HasBits
    <2> QED
        BY <2>1, <2>2, UResponsesTable, Zenon DEF FitsMerge
<1>5. FitsInit(UResponses, UResponses_Proto)
    BY UResponsesTable DEF FitsInit, UResponses, UResponses_HasBits, UResponses_IsInitialized,
        UResponses_Proto
<1>6. FitsSize(UResponses)
    <2>1. DOMAIN UResponses.size.lists = UResponses.lists
        BY UResponsesTable, NoFields DEF UResponses, UResponses_ByteSize, UResponses_HasBits
    <2>2. DOMAIN UResponses.size.needs \cup DOMAIN UResponses.size.options = DOMAIN UResponses.has
        BY UResponsesTable, NoFields DEF UResponses, UResponses_ByteSize, UResponses_HasBits
    <2>3. \A f \in DOMAIN UResponses.size.needs : UResponses.has[f] \in UResponses.size.required
        BY UResponsesTable, NoFields DEF UResponses, UResponses_ByteSize, UResponses_HasBits
    <2>4. \A f \in DOMAIN UResponses.size.options : UResponses.has[f] \in UResponses.size.guard
        BY UResponsesTable, NoFields DEF UResponses, UResponses_ByteSize, UResponses_HasBits
    <2> QED
        BY <2>1, <2>2, <2>3, <2>4, UResponsesTable, Zenon DEF FitsSize
<1>7. FitsSizes(UResponses, UResponses_Proto)
    BY UResponsesTable, NoFields DEF FitsSizes, SizeType, UResponses, UResponses_HasBits,
        UResponses_ByteSize, UResponses_Serialize, UResponses_Proto
<1>8. FitsRows(UResponses, UResponses_Proto)
    BY UResponsesTable DEF FitsRows, FitsRow, UResponses, UResponses_HasBits, UResponses_Parse,
        UResponses_Serialize, UResponses_Proto
<1> QED
    BY <1>1, <1>2, <1>3, <1>4, <1>5, <1>6, <1>7, <1>8 DEF Fits

-----------------------------------------------------------------------------
(* The nesting of the classes *)

\* Classes without members that are messages, and classes over them
Level0 == {"Product", "UAInitConnect", "AUConfirmConnect", "AUTruckCanGo", "UATruckArrived",
    "UADelivered", "UAChangeAddr", "Err", "UInitTruck", "UConnected", "UGoPickup", "UFinished",
    "UDeliveryMade", "UDeliveryLocation", "UErr", "UQuery", "UTruck"}
Level1 == Level0 \cup {"Pack", "UACommands", "UConnect", "UGoDeliver", "UResponses"}
Level2 == Level1 \cup {"AUNeedATruck", "UCommands"}
Level3 == Level2 \cup {"AUCommands"}

TypesIn(c, S) == \A f \in DOMAIN c.type : c.type[f] \in Scalars \cup S

LEMMA Nesting0 == \A k \in Level0 : TypesIn(Classes[k], {})
<1>1. TypesIn(Product, {})
    BY ProductTable DEF TypesIn
<1>2. TypesIn(UAInitConnect, {})
    BY UAInitConnectTable DEF TypesIn
<1>3. TypesIn(AUConfirmConnect, {})
    BY AUConfirmConnectTable DEF TypesIn
<1>4. TypesIn(AUTruckCanGo, {})
    BY AUTruckCanGoTable DEF TypesIn
<1>5. TypesIn(UATruckArrived, {})
    BY UATruckArrivedTable DEF TypesIn
<1>6. TypesIn(UADelivered, {})
    BY UADeliveredTable DEF TypesIn
<1>7. TypesIn(UAChangeAddr, {})
    BY UAChangeAddrTable DEF TypesIn
<1>8. TypesIn(Err, {})
    BY ErrTable DEF TypesIn
<1>9. TypesIn(UInitTruck, {})
    BY UInitTruckTable DEF TypesIn
<1>10. TypesIn(UConnected, {})
    BY UConnectedTable DEF TypesIn
<1>11. TypesIn(UGoPickup, {})
    BY UGoPickupTable DEF TypesIn
<1>12. TypesIn(UFinished, {})
    BY UFinishedTable DEF TypesIn
<1>13. TypesIn(UDeliveryMade, {})
    BY UDeliveryMadeTable DEF TypesIn
<1>14. TypesIn(UDeliveryLocation, {})
    BY UDeliveryLocationTable DEF TypesIn
<1>15. TypesIn(UErr, {})
    BY UErrTable DEF TypesIn
<1>16. TypesIn(UQuery, {})
    BY UQueryTable DEF TypesIn
<1>17. TypesIn(UTruck, {})
    BY UTruckTable DEF TypesIn
<1> QED
    BY <1>1, <1>2, <1>3, <1>4, <1>5, <1>6, <1>7, <1>8, <1>9, <1>10, <1>11, <1>12, <1>13, <1>14,
        <1>15, <1>16, <1>17, ProductTable, UAInitConnectTable, AUConfirmConnectTable,
        AUTruckCanGoTable, UATruckArrivedTable, UADeliveredTable, UAChangeAddrTable, ErrTable,
        UInitTruckTable, UConnectedTable, UGoPickupTable, UFinishedTable, UDeliveryMadeTable,
        UDeliveryLocationTable, UErrTable, UQueryTable, UTruckTable DEF Level0

LEMMA Nesting1 == \A k \in Level1 : TypesIn(Classes[k], Level0)
<1>1. TypesIn(Pack, Level0)
    BY PackTable DEF TypesIn, Level0
<1>2. TypesIn(UACommands, Level0)
    BY UACommandsTable DEF TypesIn, Level0
<1>3. TypesIn(UConnect, Level0)
    BY UConnectTable DEF TypesIn, Level0
<1>4. TypesIn(UGoDeliver, Level0)
    BY UGoDeliverTable DEF TypesIn, Level0
<1>5. TypesIn(UResponses, Level0)
    BY UResponsesTable DEF TypesIn, Level0
<1>6. \A k \in Level0 : TypesIn(Classes[k], Level0)
    BY Nesting0 DEF TypesIn
<1> QED
    BY <1>1, <1>2, <1>3, <1>4, <1>5, <1>6, PackTable, UACommandsTable, UConnectTable,
        UGoDeliverTable, UResponsesTable DEF Level1

LEMMA Nesting2 == \A k \in Level2 : TypesIn(Classes[k], Level1)
<1>1. TypesIn(AUNeedATruck, Level1)
    BY AUNeedATruckTable DEF TypesIn, Level0, Level1
<1>2. TypesIn(UCommands, Level1)
    BY UCommandsTable DEF TypesIn, Level0, Level1
<1>3. \A k \in Level1 : TypesIn(Classes[k], Level1)
    BY Nesting1 DEF TypesIn, Level1
<1> QED
    BY <1>1, <1>2, <1>3, AUNeedATruckTable, UCommandsTable DEF Level2

LEMMA Nesting3 == \A k \in Level3 : TypesIn(Classes[k], Level2)
<1>1. TypesIn(AUCommands, Level2)
    BY AUCommandsTable DEF TypesIn, Level0, Level1, Level2
<1>2. \A k \in Level2 : TypesIn(Classes[k], Level2)
    BY Nesting2 DEF TypesIn, Level2
<1> QED
    BY <1>1, <1>2, AUCommandsTable DEF Level3

LEMMA ClassesNest == DOMAIN Classes = Level3
BY DEF Classes, Level3, Level2, Level1, Level0

\* Every generated class keeps the rules, with the declaration of its messages.
THEOREM TablesFit == \A k \in DOMAIN Classes : Fits(Classes[k], Schemas[k])
<1>1. DOMAIN Classes = Level3
    BY ClassesNest
<1>2. Fits(Classes["Product"], Schemas["Product"])
    BY ProductTable, ProductFits
<1>3. Fits(Classes["Pack"], Schemas["Pack"])
    BY PackTable, PackFits
<1>4. Fits(Classes["UAInitConnect"], Schemas["UAInitConnect"])
    BY UAInitConnectTable, UAInitConnectFits
<1>5. Fits(Classes["AUConfirmConnect"], Schemas["AUConfirmConnect"])
    BY AUConfirmConnectTable, AUConfirmConnectFits
<1>6. Fits(Classes["AUNeedATruck"], Schemas["AUNeedATruck"])
    BY AUNeedATruckTable, AUNeedATruckFits
<1>7. Fits(Classes["AUTruckCanGo"], Schemas["AUTruckCanGo"])
    BY AUTruckCanGoTable, AUTruckCanGoFits
<1>8. Fits(Classes["UATruckArrived"], Schemas["UATruckArrived"])
    BY UATruckArrivedTable, UATruckArrivedFits
<1>9. Fits(Classes["UADelivered"], Schemas["UADelivered"])
    BY UADeliveredTable, UADeliveredFits
<1>10. Fits(Classes["UAChangeAddr"], Schemas["UAChangeAddr"])
    BY UAChangeAddrTable, UAChangeAddrFits
<1>11. Fits(Classes["Err"], Schemas["Err"])
    BY ErrTable, ErrFits
<1>12. Fits(Classes["AUCommands"], Schemas["AUCommands"])
    BY AUCommandsTable, AUCommandsFits
<1>13. Fits(Classes["UACommands"], Schemas["UACommands"])
    BY UACommandsTable, UACommandsFits
<1>14. Fits(Classes["UInitTruck"], Schemas["UInitTruck"])
    BY UInitTruckTable, UInitTruckFits
<1>15. Fits(Classes["UConnect"], Schemas["UConnect"])
    BY UConnectTable, UConnectFits
<1>16. Fits(Classes["UConnected"], Schemas["UConnected"])
    BY UConnectedTable, UConnectedFits
<1>17. Fits(Classes["UGoPickup"], Schemas["UGoPickup"])
    BY UGoPickupTable, UGoPickupFits
<1>18. Fits(Classes["UFinished"], Schemas["UFinished"])
    BY UFinishedTable, UFinishedFits
<1>19. Fits(Classes["UDeliveryMade"], Schemas["UDeliveryMade"])
    BY UDeliveryMadeTable, UDeliveryMadeFits
<1>20. Fits(Classes["UDeliveryLocation"], Schemas["UDeliveryLocation"])
    BY UDeliveryLocationTable, UDeliveryLocationFits
<1>21. Fits(Classes["UGoDeliver"], Schemas["UGoDeliver"])
    BY UGoDeliverTable, UGoDeliverFits
<1>22. Fits(Classes["UErr"], Schemas["UErr"])
    BY UErrTable, UErrFits
<1>23. Fits(Classes["UQuery"], Schemas["UQuery"])
    BY UQueryTable, UQueryFits
<1>24. Fits(Classes["UTruck"], Schemas["UTruck"])
    BY UTruckTable, UTruckFits
<1>25. Fits(Classes["UCommands"], Schemas["UCommands"])
    BY UCommandsTable, UCommandsFits
<1>26. Fits(Classes["UResponses"], Schemas["UResponses"])
    BY UResponsesTable, UResponsesFits
<1> QED
    BY <1>1, <1>2, <1>3, <1>4, <1>5, <1>6, <1>7, <1>8, <1>9, <1>10, <1>11, <1>12, <1>13, <1>14,
        <1>15, <1>16, <1>17, <1>18, <1>19, <1>20, <1>21, <1>22, <1>23, <1>24, <1>25, <1>26 DEF Level3, Level2, Level1, Level0
=============================================================================
