------------------------------- MODULE UPS -------------------------------
(***************************************************************************)
(* The miniUPS backend and its Django web application over one database.   *)
(* package_details (web-app/UPS/views.py) reads the row of a package and   *)
(* checks its status; when the user posts a new address, package.save()    *)
(* writes every column of the row back as it was read, but for the         *)
(* address.  Each of the two is one step here.                             *)
(***************************************************************************)
EXTENDS UPSBackend

CONSTANT MaxEdits   \* bound: new addresses posted per package

ASSUME EditsAreNat == MaxEdits \in Nat

VARIABLES page,    \* the row a request holds, NoRow for none
          edits    \* addresses saved per package

web == <<page, edits>>

Editable == {"at warehouse", "loading"}

ReadPackage(p) ==
    /\ page[p] = NoRow /\ edits[p] < MaxEdits
    /\ package[p].status \in Editable
    /\ page' = [page EXCEPT ![p] = package[p]]
    /\ UNCHANGED <<edits, vars>>

SavePackage(p, a) ==
    /\ page[p] # NoRow
    /\ package' = [package EXCEPT ![p] = [page[p] EXCEPT !.dest = a]]
    /\ page' = [page EXCEPT ![p] = NoRow]
    /\ edits' = [edits EXCEPT ![p] = @ + 1]
    /\ UNCHANGED <<truck, delivery, receivedSeqSet, pc, held, alive, peers, past>>

package_details ==
    \E p \in Packages : ReadPackage(p) \/ \E a \in Addrs : SavePackage(p, a)

UInit == Init /\ page = [p \in Packages |-> NoRow] /\ edits = [p \in Packages |-> 0]

(* A dead backend leaves the tables to the web application; nothing more is
   delivered then, so the run ends with it. *)
UNext == alive /\ ((Backend /\ UNCHANGED web) \/ package_details)

USpec == UInit /\ [][UNext]_<<vars, web>>

(* A thread that was started goes on (detached std::thread), every message
   is received in the end (its peer resends it until then), and the peers
   answer (the world's and Amazon's part of the protocol). *)
Fairness ==
    /\ \A t \in Threads : WF_<<vars, web>>(alive /\ Handle(t) /\ UNCHANGED web)
    /\ \A t \in Threads : WF_<<vars, web>>(alive /\ Receive(t) /\ UNCHANGED web)
    /\ WF_<<vars, web>>(alive /\ PeersStep /\ UNCHANGED web)

UFairSpec == USpec /\ Fairness

-----------------------------------------------------------------------------
Stamps   == {"go", "arrive", "start", "made"}
Rows     == Packages \X Addrs
Row      == [status : Statuses, dest : Addrs]
Parts    == [kind : {"need"}, pkg : Packages] \cup [kind : {"made"}, pkg : Packages]
            \cup [kind : {"go", "arrived", "idle"}, pkg : {NoPkg}]
Steps    == {"none", "insert", "ignored", "done", "poll", "takeTruck",
             "insertPackage", "insertDelivery", "pickup", "markDelivering",
             "selectDelivering", "truckDelivering", "stampStart", "deliver",
             "truckArrived", "markLoading", "selectLoading", "stampArrive",
             "notifyArrived", "selectDest", "moveTruck", "stampMade",
             "markDelivered", "truckIdle"}

(* Types of the tables, the threads and the messages, and that a thread only
   exists for a message that was sent. *)
TypeOK ==
    /\ truck \in {"idle", "go to warehouse", "arrive at warehouse", "delivering"}
    /\ package \in [Packages -> Row]
    /\ delivery \in [Packages -> SUBSET Stamps]
    /\ receivedSeqSet \subseteq Nat
    /\ pc \in [Threads -> Steps] /\ held \in [Threads -> SUBSET Rows]
    /\ alive \in BOOLEAN
    /\ sent \in [Peers -> Seq(Parts)] /\ \A peer \in Peers : Len(sent[peer]) <= MaxSent(peer)
    /\ calls \in Nat /\ toLoad \in Nat
    /\ jobs \in [Threads -> SUBSET Rows] /\ open \subseteq Threads
    /\ called \in [Packages -> Nat] /\ dropped \subseteq Rows /\ told \subseteq Rows
    /\ page \in [Packages -> Row] /\ edits \in [Packages -> Nat]
    /\ \A t \in Threads : pc[t] # "none" => t[2] <= Len(sent[t[1]])

(* The world is never told twice to fetch a package, however often Amazon
   repeats the order and however the copies race past hasReceivedMessage: the
   primary key of UPS_package stops the second (handleamazon.cpp:117-163).  And
   a truck is only called for a package that is on record with its delivery. *)
OnePickupPerPackage ==
    \A p \in Packages :
        /\ called[p] <= 1
        /\ called[p] = 1 => p \in Stored /\ "go" \in delivery[p]

(* Message n of the world will be ignored, as the ones before it were: its number
   is in receivedSeqSet and none of its copies put it there.  Amazon did, if one of
   its messages has that number and was not ignored. *)
NumberTaken(n) ==
    /\ WorldFirst + n \in receivedSeqSet
    /\ \A c \in 1..MaxCopies : pc[<<"world", n, c>>] \in {"none", "ignored"}
Inserted(t) == pc[t] \notin {"none", "insert", "ignored"}
TakenByAmazon(n) ==
    /\ NumberTaken(n)
    /\ \E t \in Threads : t[1] = "amazon" /\ Seqnum(t) = WorldFirst + n /\ Inserted(t)

(* The only truck is never "go to warehouse" for nothing: an order is about to
   call it, the world owes its arrival, or the report of an arrival is on its
   way to handleArrivedWH.  Otherwise getTruckTopickup (database.cpp:20-30)
   spins for ever.  It does in one case alone: the report bears a number that
   Amazon has used (handleworld.cpp:5). *)
Preparing(t) == pc[t] \in {"insertPackage", "insertDelivery", "pickup"}
Arrivals == {n \in DOMAIN sent["world"] : sent["world"][n].kind = "arrived"}
ArrivalHandled(n) ==
    \E c \in 1..MaxCopies :
        pc[<<"world", n, c>>] \notin {"none", "insert", "ignored", "truckArrived"}
ArrivalPending == \E n \in Arrivals : ~ArrivalHandled(n) /\ ~NumberTaken(n)
ArrivalLost == \E n \in Arrivals : TakenByAmazon(n)
TruckIsExpected ==
    truck = "go to warehouse" =>
        (\E t \in Threads : Preparing(t)) \/ calls > 0 \/ ArrivalPending \/ ArrivalLost

(* Where the world drops a package is the address of its order or one that
   Amazon was told of before (handleamazon.cpp:269-272, message.cpp:45-75), in
   whatever order the user, the web application and two handlers go. *)
DroppedWhereTold == \A r \in dropped : r[2] = Home \/ r \in told

(* A package is "delivered" only when the world reported it, although the web
   application writes whole rows back (views.py:154-160) and handleArrivedWH
   resets all packages of the truck (handleworld.cpp:167). *)
DeliveredWasDropped ==
    \A p \in InStatus("delivered") : \E a \in Addrs : <<p, a>> \in dropped

(* The rows and commands follow the journey of a package. *)
DroppedOff == {p \in Packages : \E a \in Addrs : <<p, a>> \in dropped}
OnTheWay   == {p \in Packages : \E a \in Addrs, t \in Threads : <<p, a>> \in jobs[t]}
Journey == INSTANCE PackageJourney WITH
    recorded   <- Stored,
    called     <- called,
    sentOut    <- DroppedOff \cup OnTheWay,
    droppedOff <- DroppedOff
FollowsJourney == Journey!Spec

(* An order the backend acknowledged gets its truck (handleamazon.cpp:13-163),
   unless the process dies first or the truck that another order called is never
   known to have arrived, because Amazon has used the number of the report. *)
Acknowledged(p) ==
    \E t \in Threads : /\ t[1] = "amazon" /\ t[2] <= Len(sent["amazon"])
                       /\ Part(t) = [kind |-> "need", pkg |-> p]
                       /\ Inserted(t)
OrderGetsTruck ==
    \A p \in Packages :
        Acknowledged(p) ~> \/ called[p] > 0 \/ ~alive
                           \/ truck = "go to warehouse" /\ ArrivalLost

(* A delivery the world reports reaches the table (handleworld.cpp:12-104),
   unless the process dies first or Amazon has used the number of the report. *)
Made(n) == n <= Len(sent["world"]) /\ sent["world"][n].kind = "made"
Reported(n) == Made(n) /\ \A c \in 1..MaxCopies : pc[<<"world", n, c>>] # "done"
OnRecord(n) == Made(n) /\ package[sent["world"][n].pkg].status = "delivered"
DeliveryIsRecorded ==
    \A n \in 1..MaxWorld : Reported(n) ~> (OnRecord(n) \/ ~alive \/ TakenByAmazon(n))

-----------------------------------------------------------------------------
(* "the package is delivered to the correct updated destination" when a user
   changes its address on the site (writeup.md:52): a package on record as
   delivered was dropped at the address on record. *)
DeliveredWhereAsked ==
    \A p \in InStatus("delivered") : <<p, package[p].dest>> \in dropped
=============================================================================
