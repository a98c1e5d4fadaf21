----------------------------- MODULE UPSProofs -----------------------------
(***************************************************************************)
(* Proofs about UPS, for every number of packages, addresses, messages,    *)
(* copies of messages and edits: the type invariant, OnePickupPerPackage,  *)
(* TruckIsExpected, DroppedWhereTold, DeliveredWasDropped, and that the    *)
(* backend and the site follow the PackageJourney.  The numbers of the two *)
(* peers may meet; what holds when they do not is said so.                 *)
(***************************************************************************)
EXTENDS UPS, TLAPS

NeedSteps == {"poll", "takeTruck", "insertPackage", "insertDelivery", "pickup"}
MadeSteps == {"selectDest", "moveTruck", "stampMade", "markDelivered"}

\* A thread is in the handler of the message it was started for.
StepInv ==
    \A t \in Threads :
        /\ pc[t] \in NeedSteps => Part(t).kind = "need"
        /\ pc[t] \in MadeSteps => Part(t).kind = "made"

\* Between the insertion of a package and the pickup nobody else has the package.
Recorded == {"insertDelivery", "pickup"}
PickupInv ==
    /\ \A p \in Packages : p \notin Stored => called[p] = 0
    /\ \A p \in Packages : called[p] <= 1 /\ (called[p] = 1 => "go" \in delivery[p])
    /\ \A t \in Threads :
        /\ pc[t] \in Recorded => Part(t).pkg \in Stored /\ called[Part(t).pkg] = 0
        /\ pc[t] = "pickup" => "go" \in delivery[Part(t).pkg]
    /\ \A t, u \in Threads :
        pc[t] \in Recorded /\ pc[u] \in Recorded /\ Part(t).pkg = Part(u).pkg => t = u

\* A page of the site holds a row that is on record and was not delivered when it was read.
PageInv == \A p \in Packages : page[p] # NoRow => page[p].status \in Editable /\ p \in Stored

\* Rows that were read are on record; a command is only there when its thread is done.
RowInv ==
    \A t \in Threads :
        /\ \A r \in held[t] \cup jobs[t] : r[1] \in Stored
        /\ jobs[t] # {} => pc[t] = "done"

\* What the world was told to deliver is at an address Amazon knows.
ToldInv == \A t \in Threads : \A r \in jobs[t] : r[2] = Home \/ r \in told

\* Only what was dropped is reported as delivered.
MadeInv ==
    \A q \in Peers : \A n \in DOMAIN sent[q] :
        sent[q][n].kind = "made" => \E a \in Addrs : <<sent[q][n].pkg, a>> \in dropped

\* A number is in the set because a thread put it there.
SetInv == \A x \in receivedSeqSet : \E t \in Threads : Seqnum(t) = x /\ Inserted(t)

\* The truck is called, or its arrival was not handled, ignored reports included.
UnhandledArrival == \E n \in Arrivals : ~ArrivalHandled(n)
TruckInv ==
    truck = "go to warehouse" =>
        (\E t \in Threads : Preparing(t)) \/ calls > 0 \/ UnhandledArrival

IInv ==
    /\ TypeOK /\ StepInv /\ PickupInv /\ PageInv /\ RowInv
    /\ ToldInv /\ DroppedWhereTold /\ MadeInv /\ DeliveredWasDropped /\ SetInv /\ TruckInv

-----------------------------------------------------------------------------
\* A thread is <<peer, n, c>>: the c-th copy of the n-th message of a peer.
LEMMA ThreadParts ==
    ASSUME NEW t \in Threads
    PROVE  /\ t[1] \in Peers /\ t[2] \in Nat \ {0} /\ t[2] <= MaxSent(t[1])
           /\ t[3] \in 1..MaxCopies /\ t = <<t[1], t[2], t[3]>>
BY BoundsAreNat DEF Threads, Peers, MaxSent

LEMMA PartTyped ==
    ASSUME TypeOK, NEW t \in Threads, t[2] <= Len(sent[t[1]])
    PROVE  Part(t) \in Parts
<1>1. t[1] \in Peers /\ t[2] \in Nat \ {0}
    BY ThreadParts
<1>2. sent[t[1]] \in Seq(Parts)
    BY <1>1 DEF TypeOK
<1> QED
    BY <1>1, <1>2 DEF Part

\* What a step of thread t to s says of the handler it is in.
Moves(t, s) ==
    /\ s \in Steps \ {"none"} /\ pc' = [pc EXCEPT ![t] = s] /\ t[2] <= Len(sent[t[1]])
    /\ pc[t] # "done"
    /\ s \in NeedSteps => Part(t).kind = "need"
    /\ s \in MadeSteps => Part(t).kind = "made"
    /\ Preparing(t) => s \in Recorded \/ SendPickup(t)
    /\ s = "insertDelivery" => InsertPackage(t)
    /\ s = "pickup" => InsertDelivery(t)
    /\ pc[t] \in {"none", "insert"} /\ Part(t).kind = "arrived" =>
           s \in {"insert", "ignored", "truckArrived"}
    /\ pc[t] = "truckArrived" => TruckArrived(t)
    /\ pc[t] # "ignored"
    /\ s \in {"insert", "ignored"} => pc[t] = "none"

LEMMA HandlerMoves ==
    ASSUME TypeOK, StepInv, NEW t \in Threads, Receive(t) \/ Handle(t)
    PROVE  (pc' = pc /\ (InsertPackage(t) \/ TellAmazon(t))) \/ \E s \in Steps : Moves(t, s)
<1>1. /\ pc[t] # "none" => t[2] <= Len(sent[t[1]])
      /\ pc[t] \in NeedSteps => Part(t).kind = "need"
      /\ pc[t] \in MadeSteps => Part(t).kind = "made"
    BY DEF TypeOK, StepInv
<1>2. CASE Receive(t)
    BY <1>2 DEF Receive, Arrivable, Go, Moves, Steps, NeedSteps, MadeSteps, Preparing
<1>3. CASE InsertAndAck(t)
    <2>1. t[2] <= Len(sent[t[1]]) /\ Part(t).kind \in {"need", "go", "arrived", "made", "idle"}
        BY <1>1, <1>3, PartTyped DEF InsertAndAck, Parts
    <2> DEFINE k == Part(t).kind
    <2>2. /\ k = "need" => FirstStep(k) = "poll"
          /\ k = "go" => FirstStep(k) = "markDelivering"
          /\ k = "arrived" => FirstStep(k) = "truckArrived"
          /\ k = "made" => FirstStep(k) = "selectDest"
          /\ k = "idle" => FirstStep(k) = "truckIdle"
        BY DEF FirstStep
    <2>3. pc[t] = "insert" /\ pc' = [pc EXCEPT ![t] = FirstStep(k)]
        BY <1>3 DEF InsertAndAck, Go
    <2> HIDE DEF k
    <2>4. k = Part(t).kind
        BY DEF k
    <2>5. Moves(t, FirstStep(k)) /\ FirstStep(k) \in Steps
        BY <2>1, <2>2, <2>3, <2>4 DEF Moves, Steps, NeedSteps, MadeSteps, Recorded, Preparing
    <2> QED
        BY <2>5
<1>4. CASE GetTruck(t) \/ TakeTruck(t) \/ InsertPackage(t) \/ InsertDelivery(t) \/ SendPickup(t)
    BY <1>1, <1>4 DEF GetTruck, TakeTruck, InsertPackage, InsertDelivery, SendPickup, Go, Moves,
        Steps, NeedSteps, MadeSteps, Recorded, Preparing
<1>5. CASE \/ MarkDelivering(t) \/ SelectDelivering(t) \/ TruckDelivering(t) \/ StampStart(t)
           \/ SendDeliver(t)
    BY <1>1, <1>5 DEF MarkDelivering, SelectDelivering, TruckDelivering, StampStart, SendDeliver,
        Go, Moves, Steps, NeedSteps, MadeSteps, Recorded, Preparing
<1>6. CASE \/ TruckArrived(t) \/ MarkLoading(t) \/ SelectLoading(t) \/ StampArrive(t)
           \/ NotifyArrived(t)
    BY <1>1, <1>6 DEF TruckArrived, MarkLoading, SelectLoading, StampArrive, NotifyArrived,
        Go, Moves, Steps, NeedSteps, MadeSteps, Recorded, Preparing
<1>7. CASE SelectDest(t) \/ MoveTruck(t) \/ StampMade(t) \/ MarkDelivered(t) \/ TruckIdle(t)
    BY <1>1, <1>7 DEF SelectDest, MoveTruck, StampMade, MarkDelivered, TruckIdle,
        Go, Moves, Steps, NeedSteps, MadeSteps, Recorded, Preparing
<1>8. CASE TellAmazon(t)
    BY <1>8 DEF TellAmazon
<1> QED
    BY <1>2, <1>3, <1>4, <1>5, <1>6, <1>7, <1>8 DEF Handle

LEMMA PcMoves ==
    ASSUME TypeOK, StepInv, UNext
    PROVE  pc' = pc \/ \E t \in Threads, s \in Steps : Moves(t, s)
<1>1. CASE \E t \in Threads : Receive(t) \/ Handle(t)
    BY <1>1, HandlerMoves
<1>2. CASE Collide \/ TearSet \/ PeersStep \/ package_details
    BY <1>2 DEF Collide, TearSet, PeersStep, package_details, ReadPackage, SavePackage, vars
<1> QED
    BY <1>1, <1>2 DEF UNext, Backend

-----------------------------------------------------------------------------
\* Who writes what.
Writes(S) ==  \* S: the threads that take a step
    /\ truck' = truck \/ \E t \in S : TakeTruck(t) \/ TruckDelivering(t) \/ TruckArrived(t)
                                        \/ TruckIdle(t)
    /\ package' = package
         \/ \E t \in S : InsertPackage(t) \/ MarkDelivering(t) \/ MarkLoading(t) \/ MarkDelivered(t)
    /\ delivery' = delivery
         \/ \E t \in S : InsertDelivery(t) \/ StampStart(t) \/ StampArrive(t) \/ StampMade(t)
    /\ receivedSeqSet' = receivedSeqSet \/ \E t \in S : InsertAndAck(t)
    /\ held' = held \/ \E t \in S : SelectDelivering(t) \/ SelectLoading(t) \/ SelectDest(t)
    /\ alive' \in BOOLEAN /\ UNCHANGED sent
    /\ UNCHANGED <<calls, called>> \/ \E t \in S : SendPickup(t)
    /\ UNCHANGED <<jobs, open>> \/ \E t \in S : SendDeliver(t)
    /\ UNCHANGED told \/ \E t \in S : TellAmazon(t)
    /\ UNCHANGED dropped
    /\ UNCHANGED toLoad \/ \E t \in S : NotifyArrived(t)

LEMMA HandlerWrites ==
    ASSUME TypeOK, NEW t \in Threads, Receive(t) \/ Handle(t)
    PROVE  Writes({t})
<1>0. alive \in BOOLEAN
    BY DEF TypeOK
<1>1. CASE Receive(t) \/ InsertAndAck(t)
    BY <1>0, <1>1 DEF Receive, InsertAndAck, Writes, tables, peers, past
<1>2. CASE GetTruck(t) \/ TakeTruck(t) \/ InsertPackage(t) \/ InsertDelivery(t) \/ SendPickup(t)
    BY <1>0, <1>2 DEF GetTruck, TakeTruck, InsertPackage, InsertDelivery, SendPickup,
        Writes, tables, peers, past
<1>3. CASE \/ MarkDelivering(t) \/ SelectDelivering(t) \/ TruckDelivering(t) \/ StampStart(t)
           \/ TellAmazon(t) \/ SendDeliver(t)
    BY <1>0, <1>3 DEF MarkDelivering, SelectDelivering, TruckDelivering, StampStart, TellAmazon,
        SendDeliver, Writes, tables, peers, past
<1>4. CASE \/ TruckArrived(t) \/ MarkLoading(t) \/ SelectLoading(t) \/ StampArrive(t)
           \/ NotifyArrived(t)
    BY <1>0, <1>4 DEF TruckArrived, MarkLoading, SelectLoading, StampArrive, NotifyArrived,
        Writes, tables, peers, past
<1>5. CASE SelectDest(t) \/ MoveTruck(t) \/ StampMade(t) \/ MarkDelivered(t) \/ TruckIdle(t)
    BY <1>0, <1>5 DEF SelectDest, MoveTruck, StampMade, MarkDelivered, TruckIdle,
        Writes, tables, peers, past
<1> QED
    BY <1>1, <1>2, <1>3, <1>4, <1>5 DEF Handle

\* The peers and the site leave the rest alone.
Asks(peer, part) ==
    /\ Say(peer, part) /\ peer \in Peers /\ part \in Parts
    /\ UNCHANGED <<tables, receivedSeqSet, pc, held, alive, called, told>>
    /\ calls' \in Nat /\ toLoad' \in Nat
    /\ calls' = calls \/ (peer = "world" /\ part.kind = "arrived")
    /\ open' \subseteq open /\ \A t \in Threads : jobs'[t] \subseteq jobs[t]
    /\ jobs' \in [Threads -> SUBSET Rows] /\ dropped' \subseteq Rows /\ dropped \subseteq dropped'
    /\ \A r \in dropped' \ dropped : \E t \in Threads : r \in jobs[t]
    /\ \A t \in Threads : \A r \in jobs[t] \ jobs'[t] : r \in dropped'
    /\ part.kind = "made" => \E a \in Addrs : <<part.pkg, a>> \in dropped'

LEMMA PeersAsk ==
    ASSUME TypeOK, PeersStep
    PROVE  \E peer \in Peers, part \in Parts : Asks(peer, part)
<1>1. /\ UNCHANGED <<tables, receivedSeqSet, pc, held, alive>>
      /\ calls \in Nat /\ toLoad \in Nat /\ dropped \subseteq Rows /\ open \subseteq Threads
      /\ jobs \in [Threads -> SUBSET Rows]
    BY DEF PeersStep, TypeOK
<1>2. ASSUME NEW p \in Packages, AmazonOrders(p)
      PROVE  Asks("amazon", [kind |-> "need", pkg |-> p])
    BY <1>1, <1>2 DEF AmazonOrders, Asks, Peers, Parts, past
<1>3. CASE AmazonLoads
    <2>1. Asks("amazon", [kind |-> "go", pkg |-> NoPkg])
        BY <1>1, <1>3 DEF AmazonLoads, Asks, Peers, Parts, past
    <2> QED
        BY <2>1 DEF Asks
<1>4. CASE WorldArrives
    <2>1. Asks("world", [kind |-> "arrived", pkg |-> NoPkg])
        BY <1>1, <1>4 DEF WorldArrives, Asks, Peers, Parts, past
    <2> QED
        BY <2>1 DEF Asks
<1>5. ASSUME NEW t \in Threads, WorldFinishes(t)
      PROVE  Asks("world", [kind |-> "idle", pkg |-> NoPkg])
    BY <1>1, <1>5 DEF WorldFinishes, Asks, Peers, Parts, past
<1>6. ASSUME NEW t \in Threads, NEW r \in jobs[t], WorldDelivers(t, r)
      PROVE  Asks("world", [kind |-> "made", pkg |-> r[1]])
    <2>1. r \in Rows /\ r = <<r[1], r[2]>> /\ r[1] \in Packages /\ r[2] \in Addrs
        BY <1>1 DEF Rows
    <2>2. /\ jobs' = [jobs EXCEPT ![t] = @ \ {r}] /\ dropped' = dropped \cup {r}
          /\ UNCHANGED <<calls, open, toLoad, called, told>>
          /\ Say("world", [kind |-> "made", pkg |-> r[1]])
        BY <1>6 DEF WorldDelivers
    <2>3. /\ jobs' \in [Threads -> SUBSET Rows]
          /\ \A u \in Threads : jobs'[u] \subseteq jobs[u]
          /\ \A u \in Threads : \A x \in jobs[u] \ jobs'[u] : x \in dropped'
        BY <1>1, <2>2
    <2>4. <<r[1], r[2]>> \in dropped'
        BY <2>1, <2>2
    <2>5. [kind |-> "made", pkg |-> r[1]] \in Parts
        BY <2>1 DEF Parts
    <2> QED
        BY <1>1, <2>1, <2>2, <2>3, <2>4, <2>5 DEF Asks, Peers
<1> QED
    BY <1>2, <1>3, <1>4, <1>5, <1>6 DEF PeersStep, Asks

\* What a peer has said stays said.
LEMMA SaidStays ==
    ASSUME TypeOK, NEW peer \in Peers, NEW part \in Parts, Say(peer, part)
    PROVE  /\ sent' \in [Peers -> Seq(Parts)]
           /\ \A q \in Peers : /\ Len(sent'[q]) <= MaxSent(q) /\ Len(sent[q]) <= Len(sent'[q])
                               /\ \A i \in 1..Len(sent[q]) : sent'[q][i] = sent[q][i]
           /\ \A q \in Peers : \A i \in DOMAIN sent'[q] :
                i \in DOMAIN sent[q] \/ sent'[q][i] = part
           /\ Len(sent'[peer]) = Len(sent[peer]) + 1
           /\ sent'[peer][Len(sent[peer]) + 1] = part
<1>1. /\ sent \in [Peers -> Seq(Parts)] /\ sent' = [sent EXCEPT ![peer] = Append(@, part)]
      /\ Len(sent[peer]) < MaxSent(peer) /\ \A q \in Peers : Len(sent[q]) <= MaxSent(q)
      /\ \A q \in Peers : MaxSent(q) \in Nat
    BY BoundsAreNat DEF TypeOK, Say, MaxSent
<1>2. \A q \in Peers : sent[q] \in Seq(Parts) /\ Len(sent[q]) \in Nat
    BY <1>1
<1>3. /\ sent' \in [Peers -> Seq(Parts)] /\ sent'[peer] = Append(sent[peer], part)
      /\ \A q \in Peers \ {peer} : sent'[q] = sent[q]
    BY <1>1, <1>2
<1>4. /\ Len(sent'[peer]) = Len(sent[peer]) + 1
      /\ \A i \in 1..Len(sent[peer]) : sent'[peer][i] = sent[peer][i]
      /\ sent'[peer][Len(sent[peer]) + 1] = part
      /\ DOMAIN sent'[peer] = 1..(Len(sent[peer]) + 1) /\ DOMAIN sent[peer] = 1..Len(sent[peer])
    BY <1>2, <1>3
<1> QED
    BY <1>1, <1>2, <1>3, <1>4

-----------------------------------------------------------------------------
\* The kinds of steps.
Ends == alive' = FALSE
        /\ UNCHANGED <<tables, receivedSeqSet, pc, held, peers, past, page, edits>>
Runs(t) == (Receive(t) \/ Handle(t)) /\ UNCHANGED <<page, edits>>
Hears == \E peer \in Peers, part \in Parts : Asks(peer, part) /\ UNCHANGED <<page, edits>>
Edits == package_details

LEMMA StepCases ==
    ASSUME TypeOK, UNext
    PROVE  Ends \/ (\E t \in Threads : Runs(t)) \/ Hears \/ Edits
<1>1. CASE Collide /\ UNCHANGED web
    BY <1>1 DEF Collide, Ends, web
<1>2. CASE TearSet /\ UNCHANGED web
    BY <1>2 DEF TearSet, Ends, web
<1>3. CASE PeersStep /\ UNCHANGED web
    BY <1>3, PeersAsk DEF Hears, web
<1> QED
    BY <1>1, <1>2, <1>3 DEF UNext, Backend, Runs, Edits, web

LEMMA RowsOfTyped ==
    ASSUME TypeOK, NEW S \in SUBSET Packages
    PROVE  RowsOf(S) \subseteq Rows /\ \A r \in RowsOf(S) : r[1] \in S
<1>1. \A p \in S : package[p].dest \in Addrs
    BY DEF TypeOK, Row
<1> SUFFICES ASSUME NEW r \in RowsOf(S) PROVE r \in Rows /\ r[1] \in S
    OBVIOUS
<1>2. PICK p \in S : r = <<p, package[p].dest>>
    BY DEF RowsOf
<1> QED
    BY <1>1, <1>2 DEF Rows

LEMMA RestatusTyped ==
    ASSUME TypeOK, NEW from, NEW to \in Statuses, Restatus(from, to)
    PROVE  package' \in [Packages -> Row]
<1>1. \A p \in Packages : package[p] \in Row /\ [package[p] EXCEPT !.status = to] \in Row
    BY DEF TypeOK, Row
<1> QED
    BY <1>1 DEF Restatus

LEMMA HandlerTypes ==
    ASSUME TypeOK, StepInv, NEW t \in Threads, Runs(t)
    PROVE  TypeOK'
<1>1. Writes({t}) /\ UNCHANGED <<page, edits>>
    BY HandlerWrites DEF Runs
<1>2. truck' \in {"idle", "go to warehouse", "arrive at warehouse", "delivering"}
    BY <1>1 DEF Writes, TypeOK, TakeTruck, TruckDelivering, TruckArrived, TruckIdle
<1>3. package' \in [Packages -> Row]
    <2>1. {"at warehouse", "loading", "delivering", "delivered"} \subseteq Statuses
        BY DEF Statuses
    <2>2. CASE InsertPackage(t)
        <3>1. [status |-> "at warehouse", dest |-> Home] \in Row
            BY <2>1, HomeIsAddr DEF Row
        <3> QED
            BY <2>2, <3>1 DEF InsertPackage, TypeOK
    <2>3. CASE MarkDelivering(t)
        BY <2>1, <2>3, RestatusTyped DEF MarkDelivering
    <2>4. CASE MarkLoading(t)
        BY <2>1, <2>4, RestatusTyped DEF MarkLoading
    <2>5. CASE MarkDelivered(t)
        <3>1. \A p \in Packages : [package[p] EXCEPT !.status = "delivered"] \in Row
            BY <2>1 DEF TypeOK, Row
        <3>2. package' = package
                \/ \E p \in Packages : package' = [package EXCEPT ![p].status = "delivered"]
            BY <2>5 DEF MarkDelivered, Stored
        <3> QED
            BY <3>1, <3>2 DEF TypeOK
    <2> QED
        BY <1>1, <2>2, <2>3, <2>4, <2>5 DEF Writes, TypeOK
<1>4. delivery' \in [Packages -> SUBSET Stamps]
    <2>1. {"go", "arrive", "start", "made"} = Stamps
        BY DEF Stamps
    <2>0. delivery \in [Packages -> SUBSET Stamps]
        BY DEF TypeOK
    <2>2. CASE InsertDelivery(t) \/ StampStart(t)
        <3>1. \/ delivery' = delivery
              \/ \E p, m : delivery' = [delivery EXCEPT ![p] = @ \cup {m}] /\ m \in Stamps
            BY <2>1, <2>2 DEF InsertDelivery, StampStart
        <3> QED
            BY <2>0, <3>1
    <2>3. CASE StampArrive(t) \/ StampMade(t)
        <3>1. PICK m \in Stamps : StampHeld(t, m)
            BY <2>1, <2>3 DEF StampArrive, StampMade
        <3> QED
            BY <2>0, <3>1 DEF StampHeld
    <2> QED
        BY <1>1, <2>0, <2>2, <2>3 DEF Writes
<1>5. receivedSeqSet' \subseteq Nat
    <2>1. Seqnum(t) \in Nat
        BY ThreadParts, NumbersAreNat DEF Seqnum
    <2> QED
        BY <1>1, <2>1 DEF Writes, TypeOK, InsertAndAck
<1>6. pc' \in [Threads -> Steps] /\ \A u \in Threads : pc'[u] # "none" => u[2] <= Len(sent[u[1]])
    <2>1. pc' = pc \/ \E s \in Steps : Moves(t, s)
        BY HandlerMoves DEF Runs
    <2> QED
        BY <2>1 DEF Moves, TypeOK
<1>7. held' \in [Threads -> SUBSET Rows]
    <2>1. CASE SelectDelivering(t)
        <3>1. RowsOf(InStatus("delivering")) \subseteq Rows
            BY RowsOfTyped DEF InStatus
        <3> QED
            BY <2>1, <3>1 DEF SelectDelivering, TypeOK
    <2>2. CASE SelectLoading(t)
        <3>1. \A p \in InStatus("loading") : RowsOf({p}) \subseteq Rows
            BY RowsOfTyped DEF InStatus
        <3> QED
            BY <2>2, <3>1 DEF SelectLoading, TypeOK
    <2>3. CASE SelectDest(t)
        <3>1. RowsOf({Part(t).pkg} \cap Stored) \subseteq Rows
            BY RowsOfTyped DEF Stored
        <3> QED
            BY <2>3, <3>1 DEF SelectDest, TypeOK
    <2> QED
        BY <1>1, <2>1, <2>2, <2>3 DEF Writes, TypeOK
<1>8. calls' \in Nat /\ called' \in [Packages -> Nat]
    <2>0. calls \in Nat /\ called \in [Packages -> Nat]
        BY DEF TypeOK
    <2>1. CASE SendPickup(t)
        <3>1. calls' = calls + 1 /\ \E x : called' = [called EXCEPT ![x] = called[x] + 1]
            BY <2>1 DEF SendPickup
        <3>2. PICK x : called' = [called EXCEPT ![x] = called[x] + 1]
            BY <3>1
        <3>3. called' \in [Packages -> Nat]
            <4>1. CASE x \in Packages
                <5>1. called[x] + 1 \in Nat
                    BY <2>0, <4>1
                <5> QED
                    BY <2>0, <3>2, <5>1
            <4>2. CASE x \notin Packages
                <5>1. called' = called
                    BY <2>0, <3>2, <4>2
                <5> QED
                    BY <2>0, <5>1
            <4> QED
                BY <4>1, <4>2
        <3>4. calls' \in Nat
            BY <2>0, <3>1
        <3> QED
            BY <3>3, <3>4
    <2> QED
        BY <1>1, <2>0, <2>1 DEF Writes
<1>9. jobs' \in [Threads -> SUBSET Rows] /\ open' \subseteq Threads /\ told' \subseteq Rows
    <2>1. CASE SendDeliver(t)
        BY <1>1, <2>1 DEF SendDeliver, TypeOK, past
    <2>2. CASE TellAmazon(t)
        BY <2>2 DEF TellAmazon, Changed, TypeOK, peers
    <2> QED
        BY <1>1, <2>1, <2>2 DEF Writes, TypeOK
<1>10. toLoad' \in Nat
    <2>0. toLoad \in Nat
        BY DEF TypeOK
    <2>1. CASE NotifyArrived(t)
        BY <2>0, <2>1 DEF NotifyArrived
    <2> QED
        BY <1>1, <2>0, <2>1 DEF Writes
<1>11. alive' \in BOOLEAN /\ UNCHANGED <<sent, dropped, page, edits>>
    BY <1>1 DEF Writes
<1> QED
    BY <1>2, <1>3, <1>4, <1>5, <1>6, <1>7, <1>8, <1>9, <1>10, <1>11 DEF TypeOK

LEMMA EditTypes ==
    ASSUME TypeOK, Edits
    PROVE  TypeOK'
<1> PICK p \in Packages : ReadPackage(p) \/ \E a \in Addrs : SavePackage(p, a)
    BY DEF Edits, package_details
<1>1. CASE ReadPackage(p)
    BY <1>1 DEF ReadPackage, TypeOK, vars, tables, peers, past
<1>2. ASSUME NEW a \in Addrs, SavePackage(p, a) PROVE TypeOK'
    <2>1. [page[p] EXCEPT !.dest = a] \in Row /\ NoRow \in Row
        BY HomeIsAddr DEF TypeOK, Row, NoRow, Statuses
    <2>2. package' \in [Packages -> Row] /\ page' \in [Packages -> Row]
          /\ edits' \in [Packages -> Nat]
        <3>1. /\ package \in [Packages -> Row] /\ page \in [Packages -> Row]
              /\ edits \in [Packages -> Nat]
            BY DEF TypeOK
        <3>2. /\ package' = [package EXCEPT ![p] = [page[p] EXCEPT !.dest = a]]
              /\ page' = [page EXCEPT ![p] = NoRow] /\ edits' = [edits EXCEPT ![p] = @ + 1]
            BY <1>2 DEF SavePackage
        <3>3. edits[p] + 1 \in Nat
            BY <3>1
        <3> QED
            BY <2>1, <3>1, <3>2, <3>3
    <2> QED
        BY <1>2, <2>2 DEF SavePackage, TypeOK, peers, past
<1> QED
    BY <1>1, <1>2

LEMMA TypeStep ==
    ASSUME TypeOK, StepInv, UNext
    PROVE  TypeOK'
<1>1. CASE Ends
    BY <1>1 DEF Ends, TypeOK, tables, peers, past
<1>2. CASE Hears
    <2> PICK peer \in Peers, part \in Parts : Asks(peer, part) /\ UNCHANGED <<page, edits>>
        BY <1>2 DEF Hears
    <2>1. Say(peer, part)
        BY DEF Asks
    <2>2. /\ sent' \in [Peers -> Seq(Parts)]
          /\ \A q \in Peers : Len(sent'[q]) <= MaxSent(q) /\ Len(sent[q]) <= Len(sent'[q])
        BY <2>1, SaidStays
    <2>3. \A t \in Threads : pc'[t] # "none" => t[2] <= Len(sent'[t[1]])
        <3> SUFFICES ASSUME NEW t \in Threads, pc[t] # "none"
                     PROVE  t[2] <= Len(sent'[t[1]])
            BY DEF Asks
        <3>1. t[1] \in Peers /\ t[2] \in Nat /\ t[2] <= Len(sent[t[1]])
            BY ThreadParts DEF TypeOK
        <3>2. sent[t[1]] \in Seq(Parts) /\ sent'[t[1]] \in Seq(Parts)
            BY <2>2, <3>1 DEF TypeOK
        <3>3. Len(sent[t[1]]) \in Nat /\ Len(sent'[t[1]]) \in Nat
            BY <3>2
        <3> QED
            BY <2>2, <3>1, <3>3
    <2> QED
        BY <2>2, <2>3 DEF Asks, TypeOK, tables
<1>3. CASE Edits
    BY <1>3, EditTypes
<1>4. CASE \E t \in Threads : Runs(t)
    BY <1>4, HandlerTypes
<1> QED
    BY <1>1, <1>2, <1>3, <1>4, StepCases

-----------------------------------------------------------------------------
\* A thread's message stays the one it was started for.
LEMMA PartStays ==
    ASSUME TypeOK, UNext
    PROVE  \A t \in Threads : t[2] <= Len(sent[t[1]]) => Part(t)' = Part(t)
<1>1. CASE Ends \/ Edits
    BY <1>1 DEF Ends, Edits, package_details, ReadPackage, SavePackage, peers, vars, Part
<1>2. CASE \E t \in Threads : Runs(t)
    BY <1>2, HandlerWrites DEF Runs, Writes, Part
<1>3. CASE Hears
    <2> PICK peer \in Peers, part \in Parts : Say(peer, part)
        BY <1>3 DEF Hears, Asks
    <2>1. \A q \in Peers : \A i \in 1..Len(sent[q]) : sent'[q][i] = sent[q][i]
        BY SaidStays
    <2> SUFFICES ASSUME NEW t \in Threads, t[2] <= Len(sent[t[1]])
                 PROVE  sent'[t[1]][t[2]] = sent[t[1]][t[2]]
        BY DEF Part
    <2>2. t[1] \in Peers /\ t[2] \in Nat \ {0}
        BY ThreadParts
    <2>3. sent[t[1]] \in Seq(Parts)
        BY <2>2 DEF TypeOK
    <2>4. t[2] \in 1..Len(sent[t[1]])
        BY <2>2, <2>3
    <2> QED
        BY <2>1, <2>2, <2>4
<1> QED
    BY <1>1, <1>2, <1>3, StepCases

LEMMA StepInvStep ==
    ASSUME TypeOK, StepInv, UNext
    PROVE  StepInv'
<1>1. pc' = pc \/ \E t \in Threads, s \in Steps : Moves(t, s)
    BY PcMoves
<1>2. \A t \in Threads : t[2] <= Len(sent[t[1]]) => Part(t)' = Part(t)
    BY PartStays
<1>3. \A t \in Threads : pc[t] # "none" => t[2] <= Len(sent[t[1]])
    BY DEF TypeOK
<1>4. "none" \notin NeedSteps /\ "none" \notin MadeSteps
    BY DEF NeedSteps, MadeSteps
<1> SUFFICES ASSUME NEW u \in Threads
             PROVE  /\ pc'[u] \in NeedSteps => Part(u)'.kind = "need"
                    /\ pc'[u] \in MadeSteps => Part(u)'.kind = "made"
    BY DEF StepInv
<1>5. CASE pc'[u] = pc[u]
    BY <1>2, <1>3, <1>4, <1>5 DEF StepInv
<1>6. CASE pc'[u] # pc[u]
    <2> PICK v \in Threads, s \in Steps : Moves(v, s)
        BY <1>1, <1>6
    <2>0. v = u
        BY <1>6 DEF Moves, TypeOK
    <2>1. pc'[u] = s /\ Part(u)' = Part(u)
        BY <1>2, <2>0 DEF Moves, TypeOK
    <2> QED
        BY <2>0, <2>1 DEF Moves
<1> QED
    BY <1>5, <1>6

-----------------------------------------------------------------------------
\* Packages stay on record, and only InsertPackage puts one there.
LEMMA StoredGrows ==
    ASSUME TypeOK, PageInv, UNext
    PROVE  /\ Stored \subseteq Stored'
           /\ \A p \in Stored' : p \in Stored
                \/ \E t \in Threads : InsertPackage(t) /\ p = Part(t).pkg
<1>0. /\ package \in [Packages -> Row] /\ page \in [Packages -> Row]
      /\ Stored = {p \in Packages : package[p].status # "none"}
      /\ Stored' = {p \in Packages : package'[p].status # "none"}
    BY DEF TypeOK, Stored
<1>1. ASSUME NEW from, NEW to, "none" \notin from, to # "none", Restatus(from, to)
      PROVE  Stored' = Stored
    BY <1>0, <1>1 DEF Restatus, Row
<1>2. CASE package' = package
    BY <1>0, <1>2
<1>3. ASSUME NEW t \in Threads, InsertPackage(t)
      PROVE  Stored \subseteq Stored' /\ \A p \in Stored' : p \in Stored \/ p = Part(t).pkg
    <2> DEFINE at == Part(t).pkg
               row == [status |-> "at warehouse", dest |-> Home]
    <2>0. package' = package \/ package' = [package EXCEPT ![at] = row]
        BY <1>3 DEF InsertPackage
    <2>1. row.status # "none"
        OBVIOUS
    <2>2. ASSUME NEW x, NEW new, package' = [package EXCEPT ![x] = new], new.status # "none",
                 x = Part(t).pkg
          PROVE  Stored \subseteq Stored' /\ \A p \in Stored' : p \in Stored \/ p = x
        BY <1>0, <2>2
    <2>3. package' = package => Stored' = Stored
        BY <1>0
    <2> HIDE DEF row
    <2> QED
        BY <2>0, <2>1, <2>2, <2>3
<1>4. ASSUME NEW t \in Threads, MarkDelivering(t) \/ MarkLoading(t)
      PROVE  Stored' = Stored
    BY <1>1, <1>4 DEF MarkDelivering, MarkLoading
<1>5. ASSUME NEW t \in Threads, MarkDelivered(t)
      PROVE  Stored' = Stored
    <2>1. package' = package
            \/ \E p \in Packages : package' = [package EXCEPT ![p].status = "delivered"]
                                   /\ p \in Stored
        BY <1>5 DEF MarkDelivered, Stored
    <2> QED
        BY <1>0, <2>1 DEF Row
<1>6. ASSUME NEW p \in Packages, NEW a \in Addrs, SavePackage(p, a)
      PROVE  Stored' = Stored
    <2>1. /\ package' = [package EXCEPT ![p] = [page[p] EXCEPT !.dest = a]]
          /\ page[p].status # "none" /\ p \in Stored
        BY <1>6 DEF SavePackage, PageInv, Editable
    <2>2. [page[p] EXCEPT !.dest = a].status # "none"
        BY <1>0, <2>1 DEF Row
    <2> QED
        BY <1>0, <2>1, <2>2
<1>7. CASE Ends \/ Hears
    BY <1>2, <1>7 DEF Ends, Hears, Asks, tables
<1>8. ASSUME NEW t \in Threads, Runs(t)
      PROVE  package' = package \/ InsertPackage(t) \/ MarkDelivering(t) \/ MarkLoading(t)
               \/ MarkDelivered(t)
    BY <1>8, HandlerWrites DEF Runs, Writes
<1>9. CASE Edits
    BY <1>2, <1>6, <1>9 DEF Edits, package_details, ReadPackage, vars, tables
<1> QED
    BY <1>2, <1>3, <1>4, <1>5, <1>7, <1>8, <1>9, StepCases

LEMMA PageInvStep ==
    ASSUME TypeOK, PageInv, UNext
    PROVE  PageInv'
<1>1. Stored \subseteq Stored'
    BY StoredGrows
<1>2. page' = page \/ \E p \in Packages :
        \/ page' = [page EXCEPT ![p] = package[p]] /\ package[p].status \in Editable
        \/ page' = [page EXCEPT ![p] = NoRow]
    BY StepCases DEF Ends, Runs, Hears, Edits, package_details, ReadPackage, SavePackage
<1>3. \A p \in Packages : package[p].status \in Editable => p \in Stored
    BY DEF Editable, Stored
<1> QED
    BY <1>1, <1>2, <1>3 DEF PageInv, TypeOK

LEMMA RowInvStep ==
    ASSUME TypeOK, StepInv, PageInv, RowInv, UNext
    PROVE  RowInv'
<1>1. Stored \subseteq Stored'
    BY StoredGrows
<1>2. CASE Ends \/ Hears \/ Edits
    <2>1. UNCHANGED <<held, pc>> /\ \A t \in Threads : jobs'[t] \subseteq jobs[t]
        BY <1>2 DEF Ends, Hears, Asks, Edits, package_details, ReadPackage, SavePackage, peers,
                    vars
    <2> QED
        BY <1>1, <2>1 DEF RowInv
<1>3. ASSUME NEW t \in Threads, Runs(t)
      PROVE  RowInv'
    <2>1. Writes({t}) /\ held \in [Threads -> SUBSET Rows] /\ jobs \in [Threads -> SUBSET Rows]
        BY <1>3, HandlerWrites DEF Runs, TypeOK
    <2>2. \A u \in Threads : \A r \in held'[u] : r[1] \in Stored
        <3>1. CASE held' = held
            BY <3>1 DEF RowInv
        <3>2. CASE SelectDelivering(t)
            <4>1. \A r \in RowsOf(InStatus("delivering")) : r[1] \in Stored
                BY RowsOfTyped DEF InStatus, Stored
            <4> QED
                BY <2>1, <3>2, <4>1 DEF SelectDelivering, RowInv
        <3>3. CASE SelectLoading(t)
            <4>1. \A p \in InStatus("loading") : \A r \in RowsOf({p}) : r[1] \in Stored
                BY RowsOfTyped DEF InStatus, Stored
            <4> QED
                BY <2>1, <3>3, <4>1 DEF SelectLoading, RowInv
        <3>4. CASE SelectDest(t)
            <4>1. \A r \in RowsOf({Part(t).pkg} \cap Stored) : r[1] \in Stored
                BY RowsOfTyped DEF Stored
            <4> QED
                BY <2>1, <3>4, <4>1 DEF SelectDest, RowInv
        <3> QED
            BY <2>1, <3>1, <3>2, <3>3, <3>4 DEF Writes
    <2>3. \A u \in Threads : \A r \in jobs'[u] : r[1] \in Stored
        BY <2>1 DEF Writes, SendDeliver, RowInv
    <2>4. \A u \in Threads : jobs'[u] # {} => pc'[u] = "done"
        <3>1. CASE SendDeliver(t)
            BY <2>1, <3>1 DEF SendDeliver, Go, RowInv, TypeOK
        <3>2. CASE jobs' = jobs
            <4>1. pc' = pc \/ \E s \in Steps : Moves(t, s)
                BY <1>3, HandlerMoves DEF Runs
            <4> QED
                BY <3>2, <4>1 DEF RowInv, Moves, TypeOK
        <3> QED
            BY <2>1, <3>1, <3>2 DEF Writes
    <2> QED
        BY <1>1, <2>2, <2>3, <2>4 DEF RowInv
<1> QED
    BY <1>2, <1>3, StepCases

-----------------------------------------------------------------------------
LEMMA PickupInvStep ==
    ASSUME TypeOK, StepInv, PickupInv, PageInv, UNext
    PROVE  PickupInv'
<1>1. Stored \subseteq Stored'
    BY StoredGrows
<1>2. \A u \in Threads : pc[u] # "none" => Part(u)' = Part(u)
    BY PartStays DEF TypeOK
<1>3. "none" \notin Recorded
    BY DEF Recorded
<1>4. CASE Ends \/ Hears \/ Edits
    <2>1. UNCHANGED <<pc, called, delivery>>
        BY <1>4 DEF Ends, Hears, Asks, Edits, package_details, ReadPackage, SavePackage,
                    tables, past, vars
    <2> QED
        BY <1>1, <1>2, <1>3, <2>1 DEF PickupInv, TypeOK
<1>5. ASSUME NEW t \in Threads, Runs(t)
      PROVE  PickupInv'
    <2> DEFINE mine == Part(t).pkg
    <2>1. Writes({t}) /\ called \in [Packages -> Nat] /\ delivery \in [Packages -> SUBSET Stamps]
          /\ pc \in [Threads -> Steps]
        BY <1>5, HandlerWrites DEF Runs, TypeOK
    <2>2. pc' = pc \/ \E s \in Steps : Moves(t, s)
        BY <1>5, HandlerMoves DEF Runs
    <2>3. \A u \in Threads \ {t} : pc'[u] = pc[u]
        BY <2>1, <2>2 DEF Moves
    <2>4. pc[t] \in NeedSteps => mine \in Packages
        <3>1. pc[t] # "none" => Part(t) \in Parts
            BY PartTyped DEF TypeOK
        <3> QED
            BY <3>1 DEF StepInv, Parts, NeedSteps
    <2>5. \A p \in Packages : delivery[p] \subseteq delivery'[p]
        BY <2>1 DEF Writes, InsertDelivery, StampStart, StampArrive, StampMade, StampHeld
    <2>6. \/ called' = called
          \/ /\ SendPickup(t) /\ called' = [called EXCEPT ![mine] = @ + 1] /\ pc[t] = "pickup"
             /\ pc'[t] = "done" /\ called[mine] = 0 /\ mine \in Stored /\ "go" \in delivery[mine]
        <3>1. CASE SendPickup(t)
            <4>1. called' = [called EXCEPT ![mine] = @ + 1] /\ pc[t] = "pickup" /\ pc'[t] = "done"
                BY <2>1, <3>1 DEF SendPickup, Go
            <4> QED
                BY <3>1, <4>1 DEF PickupInv, Recorded
        <3> QED
            BY <2>1, <3>1 DEF Writes
    <2>7. \A p \in Packages : p \notin Stored' => called'[p] = 0
        BY <1>1, <2>1, <2>6 DEF PickupInv
    <2>8. \A p \in Packages : called'[p] <= 1 /\ (called'[p] = 1 => "go" \in delivery'[p])
        <3> SUFFICES ASSUME NEW p \in Packages
                     PROVE  called'[p] <= 1 /\ (called'[p] = 1 => "go" \in delivery'[p])
            OBVIOUS
        <3>1. called'[p] = called[p] \/ (called[p] = 0 /\ called'[p] = 1 /\ "go" \in delivery[p])
            BY <2>1, <2>6
        <3> QED
            BY <2>5, <3>1 DEF PickupInv
    <2>9. pc[t] \in Recorded => mine \in Packages
        BY <2>4 DEF Recorded, NeedSteps
    <2>10. pc'[t] \in Recorded =>
             /\ mine \in Packages /\ mine \in Stored' /\ called'[mine] = 0
             /\ pc'[t] = "pickup" => "go" \in delivery'[mine]
             /\ pc[t] \in Recorded \/ mine \notin Stored
        <3>1. CASE pc' = pc
            <4>1. pc'[t] \in Recorded => called' = called
                BY <2>6, <3>1 DEF Recorded
            <4> QED
                BY <1>1, <2>5, <2>9, <3>1, <4>1 DEF PickupInv
        <3>2. ASSUME InsertPackage(t), pc'[t] = "insertDelivery", pc' # pc
              PROVE  mine \in Packages /\ mine \in Stored' /\ called'[mine] = 0
                     /\ mine \notin Stored
            <4>1. /\ mine \notin Stored /\ pc[t] = "insertPackage" /\ called' = called
                  /\ package' = [package EXCEPT ![mine] =
                                   [status |-> "at warehouse", dest |-> Home]]
                BY <3>2 DEF InsertPackage, past
            <4>2. mine \in Packages
                BY <2>4, <4>1 DEF NeedSteps
            <4>3. mine \in Stored'
                BY <4>1, <4>2 DEF Stored, TypeOK
            <4> QED
                BY <4>1, <4>2, <4>3 DEF PickupInv
        <3>3. ASSUME InsertDelivery(t)
              PROVE  /\ mine \in Packages /\ mine \in Stored' /\ called'[mine] = 0
                     /\ "go" \in delivery'[mine] /\ pc[t] \in Recorded
            <4>1. /\ pc[t] = "insertDelivery" /\ called' = called
                  /\ delivery' = [delivery EXCEPT ![mine] = @ \cup {"go"}]
                BY <3>3 DEF InsertDelivery, past
            <4>2. pc[t] \in Recorded
                BY <4>1 DEF Recorded
            <4> QED
                BY <1>1, <2>1, <2>9, <4>1, <4>2 DEF PickupInv
        <3>4. ASSUME pc'[t] \in Recorded, pc' # pc
              PROVE  (InsertPackage(t) /\ pc'[t] = "insertDelivery") \/ InsertDelivery(t)
            BY <2>1, <2>2, <3>4 DEF Moves, Recorded
        <3> QED
            BY <3>1, <3>2, <3>3, <3>4
    <2>11. \A u \in Threads : pc[u] \in Recorded /\ u # t =>
             called'[Part(u).pkg] = called[Part(u).pkg] /\ Part(u).pkg \in Packages
        <3> SUFFICES ASSUME NEW u \in Threads, pc[u] \in Recorded, u # t
                     PROVE  called'[Part(u).pkg] = called[Part(u).pkg] /\ Part(u).pkg \in Packages
            OBVIOUS
        <3>1. Part(u).pkg \in Packages
            <4>1. Part(u) \in Parts
                BY <1>3, PartTyped DEF TypeOK
            <4> QED
                BY <4>1 DEF StepInv, Parts, NeedSteps, Recorded
        <3>2. pc[t] = "pickup" => Part(u).pkg # mine
            BY DEF PickupInv, Recorded
        <3> QED
            BY <2>1, <2>6, <3>1, <3>2
    <2>12. \A u \in Threads : pc'[u] \in Recorded => Part(u)' = Part(u)
        <3>1. pc'[t] \in Recorded => t[2] <= Len(sent[t[1]])
            BY <1>3, <2>1, <2>2 DEF Moves, TypeOK
        <3>2. \A u \in Threads : pc'[u] \in Recorded => u[2] <= Len(sent[u[1]])
            BY <1>3, <2>3, <3>1 DEF TypeOK
        <3> QED
            BY <3>2, PartStays
    <2>13. \A u \in Threads :
             /\ pc'[u] \in Recorded => Part(u).pkg \in Stored' /\ called'[Part(u).pkg] = 0
             /\ pc'[u] = "pickup" => "go" \in delivery'[Part(u).pkg]
        <3> SUFFICES ASSUME NEW u \in Threads, pc'[u] \in Recorded
                     PROVE  /\ Part(u).pkg \in Stored' /\ called'[Part(u).pkg] = 0
                            /\ pc'[u] = "pickup" => "go" \in delivery'[Part(u).pkg]
            BY DEF Recorded
        <3>1. CASE u = t
            BY <2>10, <3>1
        <3>2. CASE u # t
            <4>1. pc'[u] = pc[u]
                BY <2>3, <3>2
            <4> QED
                BY <1>1, <2>5, <2>11, <3>2, <4>1 DEF PickupInv
        <3> QED
            BY <3>1, <3>2
    <2>14. \A u, v \in Threads :
             pc'[u] \in Recorded /\ pc'[v] \in Recorded /\ Part(u).pkg = Part(v).pkg => u = v
        <3>1. \A u \in Threads : pc'[u] \in Recorded =>
                pc[u] \in Recorded \/ (u = t /\ mine \notin Stored)
            BY <2>3, <2>10
        <3>2. \A u \in Threads : pc[u] \in Recorded => Part(u).pkg \in Stored
            BY DEF PickupInv
        <3> QED
            BY <3>1, <3>2 DEF PickupInv
    <2>15. \A u \in Threads :
             /\ pc'[u] \in Recorded => Part(u)'.pkg \in Stored' /\ called'[Part(u)'.pkg] = 0
             /\ pc'[u] = "pickup" => "go" \in delivery'[Part(u)'.pkg]
        BY <2>12, <2>13 DEF Recorded
    <2>16. \A u, v \in Threads :
             pc'[u] \in Recorded /\ pc'[v] \in Recorded /\ Part(u)'.pkg = Part(v)'.pkg => u = v
        BY <2>12, <2>14
    <2> QED
        BY <2>7, <2>8, <2>15, <2>16 DEF PickupInv
<1> QED
    BY <1>4, <1>5, StepCases

-----------------------------------------------------------------------------
LEMMA ToldStep ==
    ASSUME TypeOK, ToldInv, DroppedWhereTold, UNext
    PROVE  ToldInv' /\ DroppedWhereTold'
<1>1. CASE Ends \/ Edits
    BY <1>1 DEF Ends, Edits, package_details, ReadPackage, SavePackage, peers, past, vars,
                ToldInv, DroppedWhereTold
<1>2. CASE Hears
    <2> PICK peer \in Peers, part \in Parts : Asks(peer, part)
        BY <1>2 DEF Hears
    <2>1. /\ told' = told /\ \A t \in Threads : jobs'[t] \subseteq jobs[t]
          /\ \A r \in dropped' : r \in dropped \/ \E t \in Threads : r \in jobs[t]
        BY DEF Asks
    <2> QED
        BY <2>1 DEF ToldInv, DroppedWhereTold
<1>3. ASSUME NEW t \in Threads, Runs(t)
      PROVE  ToldInv' /\ DroppedWhereTold'
    <2>1. Writes({t}) /\ jobs \in [Threads -> SUBSET Rows]
        BY <1>3, HandlerWrites DEF Runs, TypeOK
    <2>2. told \subseteq told' /\ dropped' = dropped
        BY <2>1 DEF Writes, TellAmazon
    <2>3. \A u \in Threads : \A r \in jobs'[u] : r[2] = Home \/ r \in told
        <3>1. CASE SendDeliver(t)
            <4>1. \A r \in held[t] : r[2] = Home \/ r \in told
                BY <3>1 DEF SendDeliver, Changed
            <4> QED
                BY <2>1, <3>1, <4>1 DEF SendDeliver, ToldInv
        <3>2. CASE jobs' = jobs
            BY <3>2 DEF ToldInv
        <3> QED
            BY <2>1, <3>1, <3>2 DEF Writes
    <2> QED
        BY <2>2, <2>3 DEF ToldInv, DroppedWhereTold
<1> QED
    BY <1>1, <1>2, <1>3, StepCases

LEMMA MadeStep ==
    ASSUME TypeOK, StepInv, PageInv, MadeInv, DeliveredWasDropped, UNext
    PROVE  MadeInv' /\ DeliveredWasDropped'
<1>0. /\ package \in [Packages -> Row] /\ page \in [Packages -> Row]
      /\ DeliveredWasDropped <=> \A p \in Packages : package[p].status = "delivered" =>
                                     \E a \in Addrs : <<p, a>> \in dropped
      /\ DeliveredWasDropped' <=> \A p \in Packages : package'[p].status = "delivered" =>
                                     \E a \in Addrs : <<p, a>> \in dropped'
    BY DEF DeliveredWasDropped, InStatus, TypeOK
<1>1. CASE Ends
    BY <1>1, <1>0 DEF Ends, tables, peers, past, MadeInv
<1>2. CASE Hears
    <2> PICK peer \in Peers, part \in Parts : Asks(peer, part)
        BY <1>2 DEF Hears
    <2>1. /\ package' = package /\ dropped \subseteq dropped' /\ Say(peer, part)
          /\ part.kind = "made" => \E a \in Addrs : <<part.pkg, a>> \in dropped'
        BY DEF Asks, tables
    <2>2. \A q \in Peers : \A n \in DOMAIN sent'[q] :
            \/ n \in DOMAIN sent[q] /\ sent'[q][n] = sent[q][n]
            \/ sent'[q][n] = part
        <3>1. \A q \in Peers : sent[q] \in Seq(Parts)
            BY DEF TypeOK
        <3>2. \A q \in Peers : DOMAIN sent[q] = 1..Len(sent[q])
            BY <3>1
        <3> QED
            BY <2>1, <3>2, SaidStays
    <2> QED
        BY <1>0, <2>1, <2>2 DEF MadeInv
<1>3. CASE Edits
    <2>1. UNCHANGED <<sent, dropped>>
        BY <1>3 DEF Edits, package_details, ReadPackage, SavePackage, peers, past, vars
    <2>2. package' = package \/ \E p \in Packages, a \in Addrs :
            package' = [package EXCEPT ![p] = [page[p] EXCEPT !.dest = a]] /\ page[p] # NoRow
        BY <1>3 DEF Edits, package_details, ReadPackage, SavePackage, tables, vars
    <2>3. \A p \in Packages : page[p] # NoRow => page[p].status # "delivered"
        BY DEF PageInv, Editable
    <2>4. \A p \in Packages, a \in Addrs : [page[p] EXCEPT !.dest = a].status = page[p].status
        BY <1>0 DEF Row
    <2> QED
        BY <1>0, <2>1, <2>2, <2>3, <2>4 DEF MadeInv
<1>4. ASSUME NEW t \in Threads, Runs(t)
      PROVE  MadeInv' /\ DeliveredWasDropped'
    <2>1. Writes({t})
        BY <1>4, HandlerWrites DEF Runs
    <2>2. UNCHANGED <<sent, dropped>>
        BY <2>1 DEF Writes
    <2>3. CASE package' = package \/ InsertPackage(t) \/ MarkDelivering(t) \/ MarkLoading(t)
        <3>1. \A p \in Packages : package'[p].status = "delivered" =>
                package[p].status = "delivered"
            <4>1. CASE InsertPackage(t)
                <5> DEFINE row == [status |-> "at warehouse", dest |-> Home]
                <5>1. package' = package \/ package' = [package EXCEPT ![Part(t).pkg] = row]
                    BY <4>1 DEF InsertPackage
                <5>2. row.status # "delivered"
                    OBVIOUS
                <5> HIDE DEF row
                <5> QED
                    BY <1>0, <5>1, <5>2
            <4>2. ASSUME NEW from, NEW to, to # "delivered", Restatus(from, to)
                  PROVE  \A p \in Packages : package'[p].status = "delivered" =>
                           package[p].status = "delivered"
                BY <1>0, <4>2 DEF Restatus, Row
            <4> QED
                BY <2>3, <4>1, <4>2 DEF MarkDelivering, MarkLoading
        <3> QED
            BY <1>0, <2>2, <3>1 DEF MadeInv
    <2>4. CASE MarkDelivered(t)
        <3> DEFINE mine == Part(t).pkg
        <3>1. Part(t).kind = "made" /\ t[2] <= Len(sent[t[1]])
            BY <2>4 DEF MarkDelivered, StepInv, MadeSteps, TypeOK
        <3>3. \E a \in Addrs : <<mine, a>> \in dropped
            <4>1. t[1] \in Peers /\ sent[t[1]] \in Seq(Parts) /\ t[2] \in Nat \ {0}
                BY ThreadParts DEF TypeOK
            <4>2. t[2] \in DOMAIN sent[t[1]]
                BY <3>1, <4>1
            <4> QED
                BY <3>1, <4>1, <4>2 DEF MadeInv, Part
        <3>4. \A p \in Packages : package'[p].status = "delivered" =>
                package[p].status = "delivered" \/ p = mine
            BY <1>0, <2>4 DEF MarkDelivered
        <3> QED
            BY <1>0, <2>2, <3>3, <3>4 DEF MadeInv
    <2> QED
        BY <2>1, <2>3, <2>4 DEF Writes
<1> QED
    BY <1>1, <1>2, <1>3, <1>4, StepCases

-----------------------------------------------------------------------------
LEMMA SeqFacts ==
    ASSUME NEW S, NEW q \in Seq(S)
    PROVE  Len(q) \in Nat /\ DOMAIN q = 1..Len(q)
OBVIOUS

LEMMA AppendFacts ==
    ASSUME NEW S, NEW q \in Seq(S), NEW e \in S
    PROVE  /\ Append(q, e) \in Seq(S) /\ Len(Append(q, e)) = Len(q) + 1
           /\ Append(q, e)[Len(q) + 1] = e
OBVIOUS

LEMMA NumberFacts ==
    ASSUME NEW j \in Nat, NEW k \in Nat
    PROVE  /\ j + 1 \in Nat \ {0} /\ ~(j + 1 <= j) /\ j + 1 \in 1..(j + 1) /\ j + 1 > 0
           /\ j < k => j + 1 <= k
           /\ j <= k => \A i \in 1..j : i \in 1..k /\ i \in Nat \ {0} /\ i <= k
OBVIOUS

LEMMA WorldThread ==
    ASSUME TypeOK, NEW n \in Nat \ {0}, n <= MaxWorld, NEW c \in 1..MaxCopies
    PROVE  /\ <<"world", n, c>> \in Threads
           /\ pc[<<"world", n, c>>] # "none" => n <= Len(sent["world"])
<1>1. n \in 1..MaxWorld
    BY BoundsAreNat
<1>2. <<"world", n, c>> \in Threads
    BY <1>1 DEF Threads
<1> QED
    BY <1>2 DEF TypeOK

LEMMA SetStep ==
    ASSUME TypeOK, StepInv, SetInv, UNext
    PROVE  SetInv'
<1>1. CASE Ends \/ Hears \/ Edits
    BY <1>1 DEF Ends, Hears, Asks, Edits, package_details, ReadPackage, SavePackage, vars,
        SetInv, Inserted, Seqnum
<1>2. ASSUME NEW t \in Threads, Runs(t)
      PROVE  SetInv'
    <2>1. Writes({t})
        BY <1>2, HandlerWrites DEF Runs
    <2>2. (pc' = pc /\ (InsertPackage(t) \/ TellAmazon(t))) \/ \E s \in Steps : Moves(t, s)
        BY <1>2, HandlerMoves DEF Runs
    <2>3. \A u \in Threads : Inserted(u) => Inserted(u)'
        BY <2>2 DEF Moves, Inserted, TypeOK
    <2>4. \A u \in Threads : Seqnum(u)' = Seqnum(u)
        BY DEF Seqnum
    <2>5. CASE InsertAndAck(t)
        <3>1. receivedSeqSet' = receivedSeqSet \cup {Seqnum(t)} /\ pc[t] = "insert"
            BY <2>5 DEF InsertAndAck
        <3>2. Inserted(t)'
            BY <2>2, <3>1 DEF Moves, Inserted, TypeOK, InsertPackage, TellAmazon
        <3> QED
            BY <2>3, <2>4, <3>1, <3>2 DEF SetInv
    <2>6. CASE receivedSeqSet' = receivedSeqSet
        BY <2>3, <2>4, <2>6 DEF SetInv
    <2> QED
        BY <2>1, <2>5, <2>6 DEF Writes
<1> QED
    BY <1>1, <1>2, StepCases

LEMMA TruckStep ==
    ASSUME TypeOK, StepInv, TruckInv, UNext
    PROVE  TruckInv'
<1> SUFFICES ASSUME truck' = "go to warehouse"
             PROVE  \/ \E t \in Threads : pc'[t] \in {"insertPackage", "insertDelivery", "pickup"}
                    \/ calls' > 0
                    \/ UnhandledArrival'
    BY DEF TruckInv, Preparing
<1>a. "world" \in Peers /\ MaxSent("world") = MaxWorld /\ MaxWorld \in Nat
    BY BoundsAreNat DEF Peers, MaxSent
<1>b. sent["world"] \in Seq(Parts) /\ Len(sent["world"]) <= MaxWorld
    BY <1>a DEF TypeOK
<1>c. Len(sent["world"]) \in Nat /\ DOMAIN sent["world"] = 1..Len(sent["world"])
    BY <1>b, SeqFacts
<1>d. calls \in Nat
    BY DEF TypeOK
<1>1. CASE Ends \/ Edits
    <2>1. UNCHANGED <<truck, pc, calls, sent>>
        BY <1>1 DEF Ends, Edits, package_details, ReadPackage, SavePackage, tables, peers, vars
    <2> QED
        BY <2>1 DEF TruckInv, Preparing, UnhandledArrival, Arrivals, ArrivalHandled
<1>2. CASE Hears
    <2> PICK peer \in Peers, part \in Parts : Asks(peer, part)
        BY <1>2 DEF Hears
    <2>1. /\ UNCHANGED <<truck, pc>> /\ Say(peer, part)
          /\ calls' = calls \/ (peer = "world" /\ part.kind = "arrived")
        BY DEF Asks, tables
    <2>2. CASE UnhandledArrival
        <3> PICK n \in DOMAIN sent["world"] :
                sent["world"][n].kind = "arrived" /\ ~ArrivalHandled(n)
            BY <2>2 DEF UnhandledArrival, Arrivals
        <3>1. sent'["world"][n] = sent["world"][n] /\ n \in DOMAIN sent'["world"]
            <4>1. /\ sent'["world"] \in Seq(Parts) /\ Len(sent["world"]) <= Len(sent'["world"])
                  /\ \A i \in 1..Len(sent["world"]) : sent'["world"][i] = sent["world"][i]
                BY <1>a, <2>1, SaidStays
            <4>2. Len(sent'["world"]) \in Nat /\ DOMAIN sent'["world"] = 1..Len(sent'["world"])
                BY <4>1, SeqFacts
            <4>3. n \in 1..Len(sent["world"])
                BY <1>c
            <4>4. n \in 1..Len(sent'["world"])
                BY <1>c, <4>1, <4>2, <4>3, NumberFacts
            <4> QED
                BY <4>1, <4>2, <4>3, <4>4
        <3> QED
            BY <2>1, <3>1 DEF UnhandledArrival, Arrivals, ArrivalHandled
    <2>3. CASE peer = "world" /\ part.kind = "arrived"
        <3> PICK n : n = Len(sent["world"]) + 1
            OBVIOUS
        <3>1. /\ sent'["world"] \in Seq(Parts) /\ Len(sent'["world"]) = n /\ n <= MaxWorld
              /\ sent'["world"][n] = part
            <4>1. sent'["world"] = Append(sent["world"], part) /\ part \in Parts
                BY <1>a, <2>1, <2>3 DEF Say, Asks, TypeOK
            <4>2. Len(sent["world"]) < MaxWorld
                BY <1>a, <2>1, <2>3 DEF Say
            <4>3. /\ sent'["world"] \in Seq(Parts) /\ Len(sent'["world"]) = Len(sent["world"]) + 1
                  /\ sent'["world"][Len(sent["world"]) + 1] = part
                <5>1. LET q == sent["world"] IN
                      /\ Append(q, part) \in Seq(Parts) /\ Len(Append(q, part)) = Len(q) + 1
                      /\ Append(q, part)[Len(q) + 1] = part
                    BY <1>b, <4>1, AppendFacts
                <5> QED
                    BY <4>1, <5>1
            <4>4. Len(sent["world"]) + 1 <= MaxWorld
                BY <1>a, <1>c, <4>2, NumberFacts
            <4> QED
                BY <4>3, <4>4
        <3>2. n \in Nat \ {0} /\ n \in DOMAIN sent'["world"] /\ ~(n <= Len(sent["world"]))
            <4>1. n \in Nat \ {0} /\ ~(n <= Len(sent["world"])) /\ n \in 1..n
                BY <1>c, NumberFacts
            <4>2. DOMAIN sent'["world"] = 1..n
                BY <3>1, SeqFacts
            <4> QED
                BY <4>1, <4>2
        <3>3. \A c \in 1..MaxCopies : pc[<<"world", n, c>>] = "none"
            BY <3>1, <3>2, WorldThread
        <3>4. ~ArrivalHandled(n)'
            BY <2>1, <3>3 DEF ArrivalHandled
        <3> QED
            BY <2>3, <3>1, <3>2, <3>4 DEF UnhandledArrival, Arrivals
    <2>4. truck = "go to warehouse"
        BY <2>1
    <2>5. (\E t \in Threads : Preparing(t)) \/ calls > 0 \/ UnhandledArrival
        BY <2>4 DEF TruckInv
    <2>6. CASE calls > 0
        BY <2>1, <2>3, <2>6
    <2>7. CASE \E t \in Threads : Preparing(t)
        BY <2>1, <2>7 DEF Preparing
    <2> QED
        BY <2>2, <2>5, <2>6, <2>7
<1>3. ASSUME NEW t \in Threads, Runs(t)
      PROVE  \/ \E u \in Threads : pc'[u] \in {"insertPackage", "insertDelivery", "pickup"}
             \/ calls' > 0
             \/ UnhandledArrival'
    <2>1. Writes({t}) /\ sent' = sent
        BY <1>3, HandlerWrites DEF Runs, Writes
    <2>2. pc' = pc \/ \E s \in Steps : Moves(t, s)
        BY <1>3, HandlerMoves DEF Runs
    <2>3. pc \in [Threads -> Steps] /\ \A u \in Threads \ {t} : pc'[u] = pc[u]
        BY <2>2 DEF Moves, TypeOK
    <2>4. CASE TakeTruck(t)
        BY <2>3, <2>4 DEF TakeTruck, Go
    <2>5. CASE SendPickup(t)
        <3>1. calls' = calls + 1
            BY <2>5 DEF SendPickup
        <3> QED
            BY <1>d, <3>1, NumberFacts
    <2>6. CASE ~TakeTruck(t) /\ ~SendPickup(t)
        <3>1. truck' = truck /\ calls' = calls
            BY <2>1, <2>6 DEF Writes, TruckDelivering, TruckArrived, TruckIdle
        <3>2. ASSUME NEW u \in Threads, Preparing(u)
              PROVE  pc'[u] \in {"insertPackage", "insertDelivery", "pickup"}
            <4>1. CASE u = t
                BY <2>2, <2>3, <2>6, <3>2, <4>1 DEF Moves, Preparing, Recorded
            <4>2. CASE u # t
                BY <2>3, <3>2, <4>2 DEF Preparing
            <4> QED
                BY <4>1, <4>2
        <3>3. ASSUME NEW n \in DOMAIN sent["world"], sent["world"][n].kind = "arrived",
                     ~ArrivalHandled(n)
              PROVE  ~ArrivalHandled(n)'
            <4> SUFFICES ASSUME NEW c \in 1..MaxCopies
                         PROVE  pc'[<<"world", n, c>>] \in
                                    {"none", "insert", "ignored", "truckArrived"}
                BY DEF ArrivalHandled
            <4> DEFINE u == <<"world", n, c>>
            <4>1. pc[u] \in {"none", "insert", "ignored", "truckArrived"}
                BY <3>3 DEF ArrivalHandled
            <4>2. u \in Threads
                <5>1. n \in Nat \ {0} /\ n <= MaxWorld
                    BY <1>a, <1>b, <1>c, NumberFacts
                <5> QED
                    BY <5>1, WorldThread
            <4>3. Part(u).kind = "arrived"
                BY <3>3 DEF Part
            <4>4. ~TruckArrived(t)
                BY DEF TruckArrived
            <4> HIDE DEF u
            <4>5. u # t => pc'[u] = pc[u]
                BY <2>3, <4>2
            <4>6. u = t => pc'[u] \in {"none", "insert", "ignored", "truckArrived"}
                BY <2>2, <2>3, <4>1, <4>3, <4>4 DEF Moves
            <4>7. pc'[u] \in {"none", "insert", "ignored", "truckArrived"}
                BY <4>1, <4>5, <4>6
            <4> QED
                BY <4>7 DEF u
        <3> QED
            BY <2>1, <3>1, <3>2, <3>3 DEF TruckInv, UnhandledArrival, Arrivals
    <2> QED
        BY <2>4, <2>5, <2>6
<1> QED
    BY <1>1, <1>2, <1>3, StepCases

-----------------------------------------------------------------------------
LEMMA InitIInv == UInit => IInv
<1> SUFFICES ASSUME UInit PROVE IInv
    OBVIOUS
<1> USE DEF UInit, Init
<1>1. NoRow \in Row /\ NoRow.status = "none"
    BY HomeIsAddr DEF NoRow, Row, Statuses
<1>2. package \in [Packages -> Row] /\ page \in [Packages -> Row]
    BY <1>1
<1>3. sent \in [Peers -> Seq(Parts)] /\ \A peer \in Peers : sent[peer] = <<>>
    OBVIOUS
<1>4. \A peer \in Peers : Len(sent[peer]) <= MaxSent(peer)
    BY <1>3, BoundsAreNat DEF MaxSent
<1>5. TypeOK
    BY <1>2, <1>3, <1>4 DEF TypeOK, Steps
<1>6. StepInv
    BY DEF StepInv, NeedSteps, MadeSteps
<1>7. PickupInv
    BY DEF PickupInv, Recorded
<1>8. PageInv /\ RowInv /\ ToldInv /\ DroppedWhereTold
    BY DEF PageInv, RowInv, ToldInv, DroppedWhereTold
<1>9. MadeInv
    BY <1>3 DEF MadeInv
<1>10. DeliveredWasDropped
    BY <1>1 DEF DeliveredWasDropped, InStatus
<1>11. SetInv /\ TruckInv
    BY DEF SetInv, TruckInv
<1> QED
    BY <1>5, <1>6, <1>7, <1>8, <1>9, <1>10, <1>11 DEF IInv

LEMMA StepIInv == IInv /\ [UNext]_<<vars, web>> => IInv'
<1> SUFFICES ASSUME IInv, [UNext]_<<vars, web>> PROVE IInv'
    OBVIOUS
<1>1. CASE UNext
    BY <1>1, TypeStep, StepInvStep, PickupInvStep, PageInvStep, RowInvStep, ToldStep, MadeStep,
       SetStep, TruckStep DEF IInv
<1>2. CASE UNCHANGED <<vars, web>>
    <2>1. /\ UNCHANGED <<truck, package, delivery, receivedSeqSet, pc, held, alive>>
          /\ UNCHANGED <<sent, calls, jobs, open, toLoad, called, dropped, told, page, edits>>
        BY <1>2 DEF vars, web, tables, peers, past
    <2>2. TypeOK' /\ StepInv' /\ PickupInv' /\ PageInv' /\ RowInv'
        BY <2>1 DEF IInv, TypeOK, StepInv, PickupInv, PageInv, RowInv, Part, Stored
    <2>3. ToldInv' /\ DroppedWhereTold' /\ MadeInv' /\ DeliveredWasDropped'
        BY <2>1 DEF IInv, ToldInv, DroppedWhereTold, MadeInv, DeliveredWasDropped, InStatus
    <2>4. SetInv' /\ TruckInv'
        BY <2>1 DEF IInv, SetInv, Seqnum, Inserted, TruckInv, Preparing, UnhandledArrival,
           Arrivals, ArrivalHandled
    <2> QED
        BY <2>2, <2>3, <2>4 DEF IInv
<1> QED
    BY <1>1, <1>2

(* The inductive invariant holds in every state of the backend and the site. *)
THEOREM Invariant == USpec => []IInv
BY InitIInv, StepIInv, PTL DEF USpec

(* Every table, thread and message keeps its type, and no thread runs without a
   message: what the handlers of handleamazon.cpp and handleworld.cpp read and
   write. *)
THEOREM TypeCorrect == USpec => []TypeOK
<1>1. IInv => TypeOK
    BY DEF IInv
<1> QED
    BY <1>1, Invariant, PTL

(* However often an order is repeated, and however its copies race past
   hasReceivedMessage, the world is told to fetch the package at most once, and
   only when the package and its delivery are on record. *)
THEOREM OnePickup == USpec => []OnePickupPerPackage
<1>1. ASSUME IInv PROVE OnePickupPerPackage
    <2> SUFFICES ASSUME NEW p \in Packages
                 PROVE  /\ called[p] <= 1
                        /\ called[p] = 1 => p \in Stored /\ "go" \in delivery[p]
        BY DEF OnePickupPerPackage
    <2>1. /\ p \notin Stored => called[p] = 0
          /\ called[p] <= 1 /\ (called[p] = 1 => "go" \in delivery[p])
        BY <1>1 DEF IInv, PickupInv
    <2>2. called[p] = 1 => p \in Stored
        BY <2>1
    <2> QED
        BY <2>1, <2>2
<1> QED
    BY <1>1, Invariant, PTL

\* The report of an arrival that was not handled is on its way or lost to Amazon's numbers.
LEMMA UnhandledIsLostOrPending ==
    ASSUME TypeOK, SetInv, UnhandledArrival
    PROVE  ArrivalPending \/ ArrivalLost
<1> PICK n \in Arrivals : ~ArrivalHandled(n)
    BY DEF UnhandledArrival
<1> SUFFICES ASSUME NumberTaken(n) PROVE TakenByAmazon(n)
    BY DEF ArrivalPending, ArrivalLost
<1>1. PICK t \in Threads : Seqnum(t) = WorldFirst + n /\ Inserted(t)
    BY DEF NumberTaken, SetInv
<1>2. t[1] \in Peers /\ t[2] \in Nat /\ t[3] \in 1..MaxCopies /\ t = <<t[1], t[2], t[3]>>
    BY ThreadParts
<1>3. t[1] # "world"
    <2> SUFFICES ASSUME t[1] = "world" PROVE FALSE
        OBVIOUS
    <2>1. n \in Nat
        <3>1. sent["world"] \in Seq(Parts)
            BY DEF TypeOK, Peers
        <3> QED
            BY <3>1, SeqFacts DEF Arrivals
    <2>2. t[2] + WorldFirst = WorldFirst + n
        BY <1>1 DEF Seqnum
    <2>3. t[2] = n
        BY <1>2, <2>1, <2>2, NumbersAreNat
    <2>4. t = <<"world", n, t[3]>>
        BY <1>2, <2>3
    <2>5. pc[t] \in {"none", "ignored"}
        BY <1>2, <2>4 DEF NumberTaken
    <2> QED
        BY <1>1, <2>5 DEF Inserted
<1>4. t[1] = "amazon"
    BY <1>2, <1>3 DEF Peers
<1> QED
    BY <1>1, <1>4 DEF TakenByAmazon

(* The truck is never on its way to the warehouse for nothing, so
   getTruckTopickup does not wait for an arrival nobody is going to report; the
   one exception is a report that handleArrivedWH never sees, because Amazon
   has used its number, and the first numbers of both peers are any numbers. *)
THEOREM TruckExpected == USpec => []TruckIsExpected
<1>1. ASSUME IInv PROVE TruckIsExpected
    BY <1>1, UnhandledIsLostOrPending DEF IInv, TruckInv, TruckIsExpected
<1> QED
    BY <1>1, Invariant, PTL

\* No number of Amazon is a number of the world.
NumbersApart ==
    \A m \in 1..MaxAmazon, n \in 1..MaxWorld : AmazonFirst + m # WorldFirst + n

NothingLost ==
    /\ truck = "go to warehouse" =>
           (\E t \in Threads : Preparing(t)) \/ calls > 0 \/ ArrivalPending
    /\ \A n \in 1..MaxWorld : ~TakenByAmazon(n)

(* The collision of numbers is the only way to lose a report: from peers whose
   numbers never meet, no report of the world is taken for a copy of a message
   of Amazon (handleamazon.cpp:5-11, handleworld.cpp:5-11), and the truck is
   never on its way to the warehouse for nothing. *)
THEOREM ApartNothingLost ==
    ASSUME NumbersApart
    PROVE  USpec => []NothingLost
<1>1. ASSUME NEW n \in 1..MaxWorld, TakenByAmazon(n) PROVE FALSE
    <2> PICK t \in Threads : t[1] = "amazon" /\ Seqnum(t) = WorldFirst + n
        BY <1>1 DEF TakenByAmazon
    <2>1. t[2] \in 1..MaxAmazon
        BY ThreadParts, BoundsAreNat DEF MaxSent
    <2>2. AmazonFirst + t[2] = WorldFirst + n
        BY <2>1, BoundsAreNat, NumbersAreNat DEF Seqnum
    <2> QED
        BY <2>1, <2>2 DEF NumbersApart
<1>2. ASSUME IInv PROVE \A n \in Arrivals : n \in 1..MaxWorld
    <2>1. sent["world"] \in Seq(Parts) /\ Len(sent["world"]) <= MaxWorld
        BY <1>2 DEF IInv, TypeOK, Peers, MaxSent
    <2>2. Len(sent["world"]) \in Nat /\ DOMAIN sent["world"] = 1..Len(sent["world"])
        BY <2>1, SeqFacts
    <2> QED
        BY <2>1, <2>2, BoundsAreNat DEF Arrivals
<1>3. ASSUME IInv PROVE NothingLost
    <2>1. ~ArrivalLost
        BY <1>1, <1>2, <1>3 DEF ArrivalLost
    <2> QED
        BY <1>1, <1>3, <2>1, UnhandledIsLostOrPending DEF IInv, TruckInv, NothingLost
<1> QED
    BY <1>3, Invariant, PTL

(* A package is dropped at the address it was ordered for or at one Amazon was
   told of, whatever pages of the site are saved meanwhile. *)
THEOREM DroppedAtToldAddress == USpec => []DroppedWhereTold
<1>1. IInv => DroppedWhereTold
    BY DEF IInv
<1> QED
    BY <1>1, Invariant, PTL

(* No package is on record as delivered that the world did not drop, although
   package.save() writes old rows back over the handlers' updates. *)
THEOREM DeliveredReported == USpec => []DeliveredWasDropped
<1>1. IInv => DeliveredWasDropped
    BY DEF IInv
<1> QED
    BY <1>1, Invariant, PTL

-----------------------------------------------------------------------------
\* A step that records, calls, sends out and drops nothing is a stutter of the journey.
LEMMA JourneyStutter ==
    ASSUME Stored' = Stored, UNCHANGED <<called, jobs, dropped>>
    PROVE  UNCHANGED Journey!journey
<1>1. DroppedOff' = DroppedOff /\ OnTheWay' = OnTheWay
    BY DEF DroppedOff, OnTheWay
<1> QED
    BY <1>1 DEF Journey!journey

LEMMA JourneyRecord ==
    ASSUME IInv, UNext, NEW t \in Threads, InsertPackage(t)
    PROVE  [Journey!Next]_(Journey!journey)
<1> DEFINE p == Part(t).pkg
<1>1. UNCHANGED <<called, jobs, dropped>>
    BY DEF InsertPackage, past, peers
<1>2. DroppedOff' = DroppedOff /\ OnTheWay' = OnTheWay
    BY <1>1 DEF DroppedOff, OnTheWay
<1>3. /\ Stored \subseteq Stored' /\ Stored' \subseteq Packages
      /\ \A q \in Stored' : q \in Stored \/ q = p
    <2>1. \A u \in Threads : InsertPackage(u) => u = t \/ package' = package
              \/ Part(u).pkg = p
        <3> SUFFICES ASSUME NEW u \in Threads, InsertPackage(u), u # t, package' # package
                     PROVE  FALSE
            OBVIOUS
        <3>1. pc \in [Threads -> Steps] /\ pc[t] = "insertPackage"
            BY DEF IInv, TypeOK, InsertPackage
        <3>2. pc' = [pc EXCEPT ![t] = "insertDelivery"]
            BY DEF InsertPackage, Go
        <3>3. pc' = [pc EXCEPT ![u] = "insertDelivery"]
            BY DEF InsertPackage, Go
        <3> QED
            BY <3>1, <3>2, <3>3
    <2>2. package' = package => Stored' = Stored
        BY DEF Stored
    <2>3. /\ Stored \subseteq Stored'
          /\ \A q \in Stored' : q \in Stored
                \/ \E u \in Threads : InsertPackage(u) /\ q = Part(u).pkg
        BY StoredGrows DEF IInv
    <2>4. Stored' \subseteq Packages
        BY DEF Stored
    <2> QED
        BY <2>1, <2>2, <2>3, <2>4
<1>4. CASE Stored' = Stored
    BY <1>1, <1>4, JourneyStutter
<1>5. CASE Stored' # Stored
    <2>1. p \notin Stored /\ p \in Packages /\ Stored' = Stored \cup {p}
        BY <1>3, <1>5
    <2> HIDE DEF p
    <2>2. Journey!Record(p)
        BY <1>1, <1>2, <2>1 DEF Journey!Record
    <2> QED
        BY <2>1, <2>2 DEF Journey!Next
<1> QED
    BY <1>4, <1>5

LEMMA JourneyCall ==
    ASSUME IInv, UNext, NEW t \in Threads, SendPickup(t)
    PROVE  [Journey!Next]_(Journey!journey)
<1> DEFINE p == Part(t).pkg
<1>1. UNCHANGED <<package, jobs, dropped>> /\ called' = [called EXCEPT ![p] = @ + 1]
    BY DEF SendPickup, tables
<1>2. DroppedOff' = DroppedOff /\ OnTheWay' = OnTheWay /\ Stored' = Stored
    BY <1>1 DEF DroppedOff, OnTheWay, Stored
<1>3. p \in Stored /\ called[p] = 0
    BY DEF IInv, PickupInv, SendPickup, Recorded
<1>4. p \in Packages
    BY <1>3 DEF Stored
<1> HIDE DEF p
<1>5. called' = [called EXCEPT ![p] = 1]
    BY <1>1, <1>3
<1>6. Journey!Call(p)
    BY <1>2, <1>3, <1>5 DEF Journey!Call
<1> QED
    BY <1>4, <1>6 DEF Journey!Next

LEMMA JourneySendOut ==
    ASSUME IInv, UNext, NEW t \in Threads, SendDeliver(t)
    PROVE  [Journey!Next]_(Journey!journey)
<1> DEFINE S == {p \in Packages : \E a \in Addrs : <<p, a>> \in held[t]}
<1>1. UNCHANGED <<package, called, dropped>> /\ jobs' = [jobs EXCEPT ![t] = held[t]]
    BY DEF SendDeliver, tables, past
<1>2. DroppedOff' = DroppedOff /\ Stored' = Stored
    BY <1>1 DEF DroppedOff, Stored
<1>3. jobs \in [Threads -> SUBSET Rows] /\ jobs[t] = {} /\ \A r \in held[t] : r[1] \in Stored
    BY DEF IInv, TypeOK, RowInv, SendDeliver
<1>4. OnTheWay' = OnTheWay \cup S
    <2>1. jobs'[t] = held[t] /\ \A u \in Threads \ {t} : jobs'[u] = jobs[u]
        BY <1>1, <1>3
    <2>2. ASSUME NEW p \in Packages
          PROVE  p \in OnTheWay' <=> p \in OnTheWay \/ p \in S
        BY <1>3, <2>1 DEF OnTheWay
    <2>3. OnTheWay \subseteq Packages /\ OnTheWay' \subseteq Packages /\ S \subseteq Packages
        BY DEF OnTheWay
    <2> QED
        BY <2>2, <2>3
<1>5. S \subseteq Stored /\ S \in SUBSET Packages
    BY <1>3
<1> HIDE DEF S
<1>6. Journey!SendOut(S)
    <2>1. (DroppedOff \cup OnTheWay)' = (DroppedOff \cup OnTheWay) \cup S
        BY <1>2, <1>4
    <2> QED
        BY <1>1, <1>2, <1>5, <2>1 DEF Journey!SendOut
<1> QED
    BY <1>5, <1>6 DEF Journey!Next

LEMMA JourneyDropOff ==
    ASSUME IInv, UNext, NEW t \in Threads, NEW r \in jobs[t], WorldDelivers(t, r),
           UNCHANGED <<tables, called>>
    PROVE  [Journey!Next]_(Journey!journey)
<1>0. jobs \in [Threads -> SUBSET Rows] /\ r \in Rows
    BY DEF IInv, TypeOK
<1> PICK p \in Packages, b \in Addrs : r = <<p, b>>
    BY <1>0 DEF Rows
<1>1. /\ jobs' = [jobs EXCEPT ![t] = @ \ {r}] /\ dropped' = dropped \cup {r}
      /\ UNCHANGED <<package, called>>
    BY DEF WorldDelivers, tables
<1>2. Stored' = Stored
    BY <1>1 DEF Stored
<1>3. jobs'[t] = jobs[t] \ {r} /\ \A u \in Threads \ {t} : jobs'[u] = jobs[u]
    BY <1>0, <1>1
<1>4. DroppedOff' = DroppedOff \cup {p}
    <2>1. ASSUME NEW q \in Packages
          PROVE  q \in DroppedOff' <=> q \in DroppedOff \/ q = p
        BY <1>1 DEF DroppedOff
    <2> QED
        BY <2>1 DEF DroppedOff
<1>5. p \in OnTheWay
    BY DEF OnTheWay
<1>6. (DroppedOff \cup OnTheWay)' = DroppedOff \cup OnTheWay
    <2>1. ASSUME NEW q \in OnTheWay
          PROVE  q = p \/ q \in OnTheWay'
        <3> PICK a \in Addrs, u \in Threads : <<q, a>> \in jobs[u]
            BY DEF OnTheWay
        <3>1. <<q, a>> = r \/ <<q, a>> \in jobs'[u]
            BY <1>3
        <3> QED
            BY <3>1 DEF OnTheWay
    <2>2. OnTheWay' \subseteq OnTheWay
        BY <1>3 DEF OnTheWay
    <2> QED
        BY <1>4, <1>5, <2>1, <2>2
<1>7. Journey!DropOff(p)
    BY <1>1, <1>2, <1>4, <1>5, <1>6 DEF Journey!DropOff
<1> QED
    BY <1>7 DEF Journey!Next

LEMMA JourneyStep ==
    ASSUME IInv, UNext
    PROVE  [Journey!Next]_(Journey!journey)
<1>1. CASE \E t \in Threads : InsertPackage(t) \/ SendPickup(t) \/ SendDeliver(t)
    BY <1>1, JourneyRecord, JourneyCall, JourneySendOut
<1>2. CASE ~\E t \in Threads : InsertPackage(t) \/ SendPickup(t) \/ SendDeliver(t)
    <2>1. Stored' = Stored
        BY <1>2, StoredGrows DEF IInv
    <2>2. ASSUME NEW t \in Threads, Receive(t) \/ Handle(t)
          PROVE  UNCHANGED <<called, jobs, dropped>>
        BY <1>2, <2>2, HandlerWrites DEF IInv, Writes
    <2>3. CASE PeersStep /\ UNCHANGED web
        <3>1. CASE \E t \in Threads : \E r \in jobs[t] : WorldDelivers(t, r)
            <4>1. UNCHANGED <<tables, called>>
                BY <2>3, <3>1 DEF PeersStep, WorldDelivers
            <4> QED
                BY <3>1, <4>1, JourneyDropOff
        <3>2. CASE ~\E t \in Threads : \E r \in jobs[t] : WorldDelivers(t, r)
            <4>1. UNCHANGED <<called, jobs, dropped>>
                BY <2>3, <3>2 DEF PeersStep, AmazonOrders, AmazonLoads, WorldArrives,
                   WorldFinishes, past
            <4> QED
                BY <2>1, <4>1, JourneyStutter
        <3> QED
            BY <3>1, <3>2
    <2>4. CASE Collide \/ TearSet \/ package_details
        <3>1. UNCHANGED <<called, jobs, dropped>>
            BY <2>4 DEF Collide, TearSet, package_details, ReadPackage, SavePackage, vars, peers, past
        <3> QED
            BY <2>1, <3>1, JourneyStutter
    <2>5. CASE \E t \in Threads : Receive(t) \/ Handle(t)
        BY <2>1, <2>2, <2>5, JourneyStutter
    <2> QED
        BY <2>3, <2>4, <2>5 DEF UNext, Backend
<1> QED
    BY <1>1, <1>2

(* The backend and the site implement the journey of a package: it is recorded
   once, called for at most once after that, sent out only when it is on record
   and dropped only after the world was told so, whatever the interleaving. *)
THEOREM JourneyFollowed == USpec => FollowsJourney
<1>1. UInit => Journey!Init
    <2> SUFFICES ASSUME UInit PROVE Journey!Init
        OBVIOUS
    <2>1. Stored = {}
        BY HomeIsAddr DEF UInit, Init, Stored, NoRow
    <2>2. DroppedOff = {} /\ OnTheWay = {}
        BY DEF UInit, Init, DroppedOff, OnTheWay
    <2> QED
        BY <2>1, <2>2 DEF Journey!Init, UInit, Init
<1>2. IInv /\ [UNext]_<<vars, web>> => [Journey!Next]_(Journey!journey)
    <2> SUFFICES ASSUME IInv, [UNext]_<<vars, web>>
                 PROVE  [Journey!Next]_(Journey!journey)
        OBVIOUS
    <2>1. CASE UNCHANGED <<vars, web>>
        <3>1. Stored' = Stored /\ UNCHANGED <<called, jobs, dropped>>
            BY <2>1 DEF vars, tables, peers, past, Stored
        <3> QED
            BY <3>1, JourneyStutter
    <2> QED
        BY <2>1, JourneyStep
<1> QED
    BY <1>1, <1>2, Invariant, PTL DEF USpec, FollowsJourney, Journey!Spec
=============================================================================
