---------------------------- MODULE UPSBackend ----------------------------
(***************************************************************************)
(* The miniUPS backend (project5_miniUPS/docker-deploy/backend).  One      *)
(* detached thread runs the handler of every message that Amazon or the    *)
(* world simulator sends (main.cpp, handleamazon.cpp, handleworld.cpp).    *)
(* The threads share three tables behind ONE database connection, a set of *)
(* the sequence numbers received so far, and the two sockets.              *)
(*                                                                         *)
(* Every SQL statement is one step, because executeCUD and executeRead     *)
(* give each statement a transaction of its own.  A second transaction on  *)
(* a connection that has one open throws usage_error, nothing catches it   *)
(* in a detached thread, and the process ends: Collide.                    *)
(*                                                                         *)
(* initWorld inserts one row into UPS_truck, whatever the number of trucks *)
(* it announces, so `truck` is the status of that row.                     *)
(***************************************************************************)
EXTENDS Naturals, FiniteSets, Sequences

CONSTANTS Packages, NoPkg,   \* tracking numbers, one per order of Amazon; the
                             \* account and the text of an order are valid
          Addrs, Home,   \* destinations; Home is the one an order comes with
          AmazonFirst, WorldFirst,   \* the peers' first sequence numbers
          MaxAmazon, MaxWorld,   \* bounds: messages of the two peers
          MaxCopies,   \* bound: receptions of a message
          MaxResent   \* bound: receptions after the first, of all messages

ASSUME PackagesFinite == IsFiniteSet(Packages)
ASSUME NoPkgIsNone == NoPkg \notin Packages
ASSUME HomeIsAddr == Home \in Addrs
ASSUME NumbersAreNat == AmazonFirst \in Nat /\ WorldFirst \in Nat
ASSUME BoundsAreNat == /\ MaxAmazon \in Nat /\ MaxWorld \in Nat
                       /\ MaxCopies \in Nat /\ MaxResent \in Nat

VARIABLES
    truck,       \* UPS_truck.status of the one row
    package,     \* UPS_package: status and destination by tracking number
    delivery,    \* UPS_delivery: the time columns that are set
    receivedSeqSet,
    pc, held,    \* per thread: next step, rows its SELECT returned
    alive,       \* the process has not terminated
    sent,        \* what each peer has sent so far
    calls,       \* the world: pickups it owes an arrival for
    jobs, open,  \* the world: what is left of each UGoDeliver, those under way
    toLoad,      \* Amazon: UATruckArrived notices it has not answered
    called, dropped, told   \* history: see the properties

tables == <<truck, package, delivery>>
peers  == <<sent, calls, jobs, open, toLoad>>
past   == <<called, dropped, told>>
vars   == <<tables, receivedSeqSet, pc, held, alive, peers, past>>

Peers    == {"amazon", "world"}
Threads  == ({"amazon"} \X (1..MaxAmazon) \X (1..MaxCopies))
            \cup ({"world"} \X (1..MaxWorld) \X (1..MaxCopies))
MaxSent(peer) == IF peer = "amazon" THEN MaxAmazon ELSE MaxWorld
Statuses == {"none", "at warehouse", "loading", "delivering", "delivered"}
NoRow    == [status |-> "none", dest |-> Home]
Waiting  == {"idle", "delivering", "arrive at warehouse"}

Part(t)  == sent[t[1]][t[2]]
Seqnum(t) == t[2] + (IF t[1] = "amazon" THEN AmazonFirst ELSE WorldFirst)
Stored   == {p \in Packages : package[p].status # "none"}
InStatus(s) == {p \in Packages : package[p].status = s}
RowsOf(S) == {<<p, package[p].dest>> : p \in S}

-----------------------------------------------------------------------------
(* Where a handler goes after the check of its sequence number *)
FirstStep(kind) ==
    CASE kind = "need"      -> "poll"
      [] kind = "go"        -> "markDelivering"
      [] kind = "arrived"   -> "truckArrived"
      [] kind = "made"      -> "selectDest"
      [] kind = "idle"      -> "truckIdle"

Go(t, next) == pc' = [pc EXCEPT ![t] = next]

(* handleReceive: a message, or a copy its peer sends again, gets a thread,
   whose first step is the look-up of hasReceivedMessage.  One set serves the
   numbers of both peers; a number that is in it ends the handler. *)
Arrivable(t) ==
    /\ pc[t] = "none" /\ t[2] <= Len(sent[t[1]])
    /\ \A c \in 1..(t[3] - 1) : pc[<<t[1], t[2], c>>] # "none"
    /\ t[3] > 1 => Cardinality({u \in Threads : u[3] > 1 /\ pc[u] # "none"}) < MaxResent

Receive(t) ==
    /\ Arrivable(t)
    /\ Go(t, IF Seqnum(t) \in receivedSeqSet THEN "ignored" ELSE "insert")
    /\ UNCHANGED <<tables, receivedSeqSet, held, alive, peers, past>>

(* The insertion, and the acknowledgement that follows it at once *)
InsertAndAck(t) ==
    /\ pc[t] = "insert"
    /\ receivedSeqSet' = receivedSeqSet \cup {Seqnum(t)}
    /\ Go(t, FirstStep(Part(t).kind))
    /\ UNCHANGED <<tables, held, alive, peers, past>>

-----------------------------------------------------------------------------
(* handleAUNeedATruck *)

(* getTruckTopickup reads until the truck is free; reads change nothing *)
GetTruck(t) ==
    /\ pc[t] = "poll" /\ truck \in Waiting
    /\ Go(t, "takeTruck")
    /\ UNCHANGED <<tables, receivedSeqSet, held, alive, peers, past>>

(* Mutant: the pickup goes out before the rows are inserted *)
TakeAndCall(t) ==
    /\ pc[t] = "takeTruck"
    /\ truck' = "go to warehouse"
    /\ Go(t, "pickup")
    /\ UNCHANGED <<package, delivery, receivedSeqSet, held, alive, peers, past>>

(* ... and then takes it, whatever its status is by now *)
TakeTruck(t) ==
    /\ pc[t] = "takeTruck"
    /\ truck' = "go to warehouse"
    /\ Go(t, "insertPackage")
    /\ UNCHANGED <<package, delivery, receivedSeqSet, held, alive, peers, past>>

(* Mutant: ON CONFLICT DO NOTHING *)
InsertUnlessThere(t) ==
    LET p == Part(t).pkg
    IN  /\ pc[t] = "insertPackage"
        /\ package' = IF p \in Stored THEN package
                      ELSE [package EXCEPT ![p] = [status |-> "at warehouse", dest |-> Home]]
        /\ Go(t, "insertDelivery")
        /\ UNCHANGED <<truck, delivery, receivedSeqSet, held, alive, peers, past>>

(* tracking_number is the primary key: a second INSERT throws *)
InsertPackage(t) ==
    LET p == Part(t).pkg
    IN  /\ pc[t] = "insertPackage"
        /\ IF p \in Stored
           THEN alive' = FALSE /\ UNCHANGED <<package, pc>>
           ELSE /\ package' = [package EXCEPT ![p] =
                                 [status |-> "at warehouse", dest |-> Home]]
                /\ Go(t, "insertDelivery")
                /\ UNCHANGED alive
        /\ UNCHANGED <<truck, delivery, receivedSeqSet, held, peers, past>>

InsertDelivery(t) ==
    /\ pc[t] = "insertDelivery"
    /\ delivery' = [delivery EXCEPT ![Part(t).pkg] = @ \cup {"go"}]
    /\ Go(t, "pickup")
    /\ UNCHANGED <<truck, package, receivedSeqSet, held, alive, peers, past>>

(* Mutant: the command is made and never written to the socket *)
ForgetPickup(t) ==
    /\ pc[t] = "pickup"
    /\ Go(t, "done")
    /\ UNCHANGED <<tables, receivedSeqSet, held, alive, peers, past>>

SendPickup(t) ==
    /\ pc[t] = "pickup"
    /\ calls' = calls + 1
    /\ called' = [called EXCEPT ![Part(t).pkg] = @ + 1]
    /\ Go(t, "done")
    /\ UNCHANGED <<tables, receivedSeqSet, held, alive, sent, jobs, open, toLoad,
                   dropped, told>>

-----------------------------------------------------------------------------
(* handleAUTruckCanGo *)

Restatus(from, to) ==
    package' = [p \in Packages |-> IF package[p].status \in from
                                   THEN [package[p] EXCEPT !.status = to]
                                   ELSE package[p]]

MarkDelivering(t) ==
    /\ pc[t] = "markDelivering"
    /\ Restatus({"loading"}, "delivering")
    /\ Go(t, "selectDelivering")
    /\ UNCHANGED <<truck, delivery, receivedSeqSet, held, alive, peers, past>>

SelectDelivering(t) ==
    /\ pc[t] = "selectDelivering"
    /\ held' = [held EXCEPT ![t] = RowsOf(InStatus("delivering"))]
    /\ Go(t, "truckDelivering")
    /\ UNCHANGED <<tables, receivedSeqSet, alive, peers, past>>

TruckDelivering(t) ==
    /\ pc[t] = "truckDelivering"
    /\ truck' = "delivering"
    /\ Go(t, "stampStart")
    /\ UNCHANGED <<package, delivery, receivedSeqSet, held, alive, peers, past>>

(* The time goes to one package of the truck: SELECT without ORDER BY, row 0 *)
StampStart(t) ==
    /\ pc[t] = "stampStart"
    /\ \/ Stored = {} /\ UNCHANGED delivery
       \/ \E p \in Stored : delivery' = [delivery EXCEPT ![p] = @ \cup {"start"}]
    /\ Go(t, "deliver")
    /\ UNCHANGED <<truck, package, receivedSeqSet, held, alive, peers, past>>

(* sendArrChangeToAmazon, which sleeps before it returns, for one changed
   address after the other, in the order of the rows *)
Changed(t) == {r \in held[t] : r[2] # Home}

TellAmazon(t) ==
    /\ pc[t] = "deliver"
    /\ \E r \in Changed(t) \ told : told' = told \cup {r}
    /\ UNCHANGED <<tables, receivedSeqSet, pc, held, alive, peers, called, dropped>>

(* Mutant: the world gets its command before Amazon knows of every address *)
DeliverUntold(t) ==
    /\ pc[t] = "deliver"
    /\ jobs' = [jobs EXCEPT ![t] = held[t]] /\ open' = open \cup {t}
    /\ Go(t, "done")
    /\ UNCHANGED <<tables, receivedSeqSet, held, alive, sent, calls, toLoad, past>>

(* ... then the world gets UGoDeliver *)
SendDeliver(t) ==
    /\ pc[t] = "deliver" /\ Changed(t) \subseteq told
    /\ jobs' = [jobs EXCEPT ![t] = held[t]] /\ open' = open \cup {t}
    /\ Go(t, "done")
    /\ UNCHANGED <<tables, receivedSeqSet, held, alive, sent, calls, toLoad, past>>

-----------------------------------------------------------------------------
(* handleArrivedWH *)

(* Mutant: the row keeps its status, only the time is set *)
TruckArrivedUnmarked(t) ==
    /\ pc[t] = "truckArrived"
    /\ Go(t, "markLoading")
    /\ UNCHANGED <<tables, receivedSeqSet, held, alive, peers, past>>

TruckArrived(t) ==
    /\ pc[t] = "truckArrived"
    /\ truck' = "arrive at warehouse"
    /\ Go(t, "markLoading")
    /\ UNCHANGED <<package, delivery, receivedSeqSet, held, alive, peers, past>>

(* WHERE truck_id = ...: every package the truck ever had, whatever its status *)
MarkLoading(t) ==
    /\ pc[t] = "markLoading"
    /\ Restatus(Statuses \ {"none"}, "loading")
    /\ Go(t, "selectLoading")
    /\ UNCHANGED <<truck, delivery, receivedSeqSet, held, alive, peers, past>>

SelectLoading(t) ==
    /\ pc[t] = "selectLoading"
    /\ \/ InStatus("loading") = {} /\ UNCHANGED held
       \/ \E p \in InStatus("loading") : held' = [held EXCEPT ![t] = RowsOf({p})]
    /\ Go(t, "stampArrive")
    /\ UNCHANGED <<tables, receivedSeqSet, alive, peers, past>>

StampHeld(t, mark) ==
    delivery' = [p \in Packages |-> IF \E a \in Addrs : <<p, a>> \in held[t]
                                    THEN delivery[p] \cup {mark} ELSE delivery[p]]

StampArrive(t) ==
    /\ pc[t] = "stampArrive"
    /\ StampHeld(t, "arrive")
    /\ Go(t, "notifyArrived")
    /\ UNCHANGED <<truck, package, receivedSeqSet, held, alive, peers, past>>

NotifyArrived(t) ==
    /\ pc[t] = "notifyArrived"
    /\ toLoad' = toLoad + 1
    /\ Go(t, "done")
    /\ UNCHANGED <<tables, receivedSeqSet, held, alive, sent, calls, jobs, open, past>>

-----------------------------------------------------------------------------
(* handleUDeliveryMade and handleFinishAll *)

(* An unknown package skips the truck's position and the delivery row *)
SelectDest(t) ==
    LET p == Part(t).pkg
    IN  /\ pc[t] = "selectDest"
        /\ held' = [held EXCEPT ![t] = RowsOf({p} \cap Stored)]
        /\ Go(t, IF p \in Stored THEN "moveTruck" ELSE "markDelivered")
        /\ UNCHANGED <<tables, receivedSeqSet, alive, peers, past>>

(* Only the position changes, which no property looks at *)
MoveTruck(t) ==
    /\ pc[t] = "moveTruck"
    /\ Go(t, "stampMade")
    /\ UNCHANGED <<tables, receivedSeqSet, held, alive, peers, past>>

StampMade(t) ==
    /\ pc[t] = "stampMade"
    /\ StampHeld(t, "made")
    /\ Go(t, "markDelivered")
    /\ UNCHANGED <<truck, package, receivedSeqSet, held, alive, peers, past>>

(* Mutants: every package of the truck; only a package out for delivery *)
MarkAllDelivered(t) ==
    /\ pc[t] = "markDelivered"
    /\ Restatus(Statuses \ {"none"}, "delivered")
    /\ Go(t, "done")
    /\ UNCHANGED <<truck, delivery, receivedSeqSet, held, alive, peers, past>>

MarkIfDelivering(t) ==
    LET p == Part(t).pkg
    IN  /\ pc[t] = "markDelivered"
        /\ package' = IF package[p].status = "delivering"
                      THEN [package EXCEPT ![p].status = "delivered"] ELSE package
        /\ Go(t, "done")
        /\ UNCHANGED <<truck, delivery, receivedSeqSet, held, alive, peers, past>>

(* UADelivered to Amazon follows and changes nothing here *)
MarkDelivered(t) ==
    LET p == Part(t).pkg
    IN  /\ pc[t] = "markDelivered"
        /\ package' = IF p \in Stored THEN [package EXCEPT ![p].status = "delivered"]
                      ELSE package
        /\ Go(t, "done")
        /\ UNCHANGED <<truck, delivery, receivedSeqSet, held, alive, peers, past>>

(* Mutant: the status as the world words it *)
TruckAsReported(t) ==
    /\ pc[t] = "truckIdle"
    /\ truck' = "IDLE"
    /\ Go(t, "done")
    /\ UNCHANGED <<package, delivery, receivedSeqSet, held, alive, peers, past>>

(* Mutant: an idle truck has delivered all it ever had *)
TruckIdleDelivered(t) ==
    /\ pc[t] = "truckIdle"
    /\ truck' = "idle" /\ Restatus(Statuses \ {"none"}, "delivered")
    /\ Go(t, "done")
    /\ UNCHANGED <<delivery, receivedSeqSet, held, alive, peers, past>>

TruckIdle(t) ==
    /\ pc[t] = "truckIdle"
    /\ truck' = "idle"
    /\ Go(t, "done")
    /\ UNCHANGED <<package, delivery, receivedSeqSet, held, alive, peers, past>>

-----------------------------------------------------------------------------
(* Two threads that may be inside executeCUD or executeRead at once end the
   process.  Writers of a table hold its mutex, readers hold none. *)

Mutex(step) ==
    CASE step \in {"takeTruck", "truckDelivering", "truckArrived", "moveTruck",
                   "truckIdle"} -> "mutexForTruck"
      [] step \in {"insertPackage", "markDelivering", "markLoading",
                   "markDelivered"} -> "mutexForPackage"
      [] step \in {"insertDelivery", "stampStart", "stampArrive",
                   "stampMade"} -> "mutexForDelivery"
      [] step \in {"poll", "selectDelivering", "selectLoading",
                   "selectDest"} -> "none"
      [] OTHER -> "outside"

Excluded(a, b) == a = b /\ a # "none"

(* StampStart's SELECT runs before its mutex is taken, so it is in both places *)
Overlap(t, u) ==
    LET a == Mutex(pc[t])
        b == Mutex(pc[u])
    IN  a # "outside" /\ b # "outside" /\ (pc[t] = "stampStart" \/ ~Excluded(a, b))

Collide ==
    /\ \E t, u \in Threads : t # u /\ Overlap(t, u)
    /\ alive' = FALSE
    /\ UNCHANGED <<tables, receivedSeqSet, pc, held, peers, past>>

(* find or insert of std::set while another thread inserts: no lock, so the
   tree may be torn and the process with it *)
TearSet ==
    /\ \E t, u \in Threads : t # u /\ pc[t] = "insert" /\ (pc[u] = "insert" \/ Arrivable(u))
    /\ alive' = FALSE
    /\ UNCHANGED <<tables, receivedSeqSet, pc, held, peers, past>>

-----------------------------------------------------------------------------
(* The peers, as the handlers and the protocol use them: external *)

Say(peer, part) ==
    /\ Len(sent[peer]) < MaxSent(peer)
    /\ sent' = [sent EXCEPT ![peer] = Append(@, part)]

AmazonOrders(p) ==
    /\ \A i \in DOMAIN sent["amazon"] : sent["amazon"][i] # [kind |-> "need", pkg |-> p]
    /\ Say("amazon", [kind |-> "need", pkg |-> p])
    /\ UNCHANGED <<calls, jobs, open, toLoad, past>>

AmazonLoads ==
    /\ toLoad > 0
    /\ toLoad' = toLoad - 1
    /\ Say("amazon", [kind |-> "go", pkg |-> NoPkg])
    /\ UNCHANGED <<calls, jobs, open, past>>

WorldArrives ==
    /\ calls > 0
    /\ calls' = calls - 1
    /\ Say("world", [kind |-> "arrived", pkg |-> NoPkg])
    /\ UNCHANGED <<jobs, open, toLoad, past>>

WorldDelivers(t, r) ==
    /\ t \in open /\ r \in jobs[t]
    /\ jobs' = [jobs EXCEPT ![t] = @ \ {r}]
    /\ dropped' = dropped \cup {r}
    /\ Say("world", [kind |-> "made", pkg |-> r[1]])
    /\ UNCHANGED <<calls, open, toLoad, called, told>>

WorldFinishes(t) ==
    /\ t \in open /\ jobs[t] = {}
    /\ open' = open \ {t}
    /\ Say("world", [kind |-> "idle", pkg |-> NoPkg])
    /\ UNCHANGED <<calls, jobs, toLoad, past>>

PeersStep ==
    /\ \/ \E p \in Packages : AmazonOrders(p)
       \/ AmazonLoads \/ WorldArrives
       \/ \E t \in Threads : WorldFinishes(t)
       \/ \E t \in Threads : \E r \in jobs[t] : WorldDelivers(t, r)
    /\ UNCHANGED <<tables, receivedSeqSet, pc, held, alive>>

-----------------------------------------------------------------------------
Init ==
    /\ truck = "idle"
    /\ package = [p \in Packages |-> NoRow]
    /\ delivery = [p \in Packages |-> {}]
    /\ receivedSeqSet = {}
    /\ pc = [t \in Threads |-> "none"] /\ held = [t \in Threads |-> {}]
    /\ alive = TRUE
    /\ sent = [peer \in Peers |-> <<>>]
    /\ calls = 0 /\ toLoad = 0
    /\ jobs = [t \in Threads |-> {}] /\ open = {}
    /\ called = [p \in Packages |-> 0] /\ dropped = {} /\ told = {}

Handle(t) ==
    \/ InsertAndAck(t)
    \/ GetTruck(t) \/ TakeTruck(t) \/ InsertPackage(t) \/ InsertDelivery(t) \/ SendPickup(t)
    \/ MarkDelivering(t) \/ SelectDelivering(t) \/ TruckDelivering(t) \/ StampStart(t)
    \/ TellAmazon(t) \/ SendDeliver(t)
    \/ TruckArrived(t) \/ MarkLoading(t) \/ SelectLoading(t) \/ StampArrive(t)
    \/ NotifyArrived(t)
    \/ SelectDest(t) \/ MoveTruck(t) \/ StampMade(t) \/ MarkDelivered(t) \/ TruckIdle(t)

Backend ==
    \/ \E t \in Threads : Receive(t) \/ Handle(t)
    \/ Collide \/ TearSet
    \/ PeersStep

Next == alive /\ Backend

Spec == Init /\ [][Next]_vars
=============================================================================
