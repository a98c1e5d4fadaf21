---------------------------- MODULE RideOrders ----------------------------
(***************************************************************************)
(* The orders of the ride-sharing site (project1_ridesharing, web-app/     *)
(* myUber): the views that change an order, as requests of riders and      *)
(* drivers that run at the same time (runserver has one thread per         *)
(* request, ATOMIC_REQUESTS is not set, so every statement commits alone). *)
(*                                                                         *)
(* A view first reads the row of the order, then works on that copy and    *)
(* saves it.  save() writes every column: UPDATE, and INSERT of the same   *)
(* id when the UPDATE finds no row.  save(update_fields=...) writes those  *)
(* columns and raises when there is no row.  Deleting an order cascades to *)
(* its parties and riders; a party or rider of an order that is gone       *)
(* violates the foreign key.  An exception ends the view and keeps what it *)
(* has committed.                                                          *)
(***************************************************************************)
EXTENDS Integers, FiniteSets, Sums

CONSTANTS Orders,          \* primary keys
          Users, Drivers,  \* riders, and those with an active driver profile
          NoUser, NoOrder,
          Requests,        \* slots for requests under way at the same time
          Sizes,           \* passengers a form or a POST may ask for
          MaxStarts        \* bound: requests of a behaviour

ASSUME DriversAreUsers == Drivers \subseteq Users
ASSUME NoUserIsNone == NoUser \notin Users
ASSUME NoOrderIsNone == NoOrder \notin Orders
ASSUME SizesAreInt == Sizes \subseteq Int
ASSUME StartsAreNat == MaxStarts \in Nat

VARIABLES
    order,      \* Order rows
    riders,     \* Order.riders
    parties, partySeq,   \* RideParty rows [id, ride, rider, passengers], last id
    req,        \* per request: its view, next step, user, order, copy of the row
    starts,     \* requests so far
    accepted, finished,   \* history: drivers whose confirm or complete was saved
    cancelled,  \* history: orders their owner deleted
    overlapped, \* history: orders two requests worked on at the same time
    recounted   \* history: orders joined again, or modified when shared

tables  == <<order, riders, parties, partySeq>>
history == <<accepted, finished, cancelled, overlapped, recounted>>
vars    == <<tables, req, starts, history>>

NoRow == [status |-> "none", owner |-> NoUser, driver |-> NoUser, total |-> 0,
          shareable |-> FALSE]
Idle  == [view |-> "idle", step |-> "idle", user |-> NoUser, ride |-> NoOrder,
          row |-> NoRow, n |-> 0, share |-> FALSE, party |-> 0]

Exists(o) == order[o] # NoRow
PartiesOf(o, u) == {p \in parties : p.ride = o /\ p.rider = u}

-----------------------------------------------------------------------------
Busy(o) == \E r \in Requests : req[r].ride = o

(* The first statement of a view, which finds the row it works on *)
Begin(r, view, step, u, o, n, share) ==
    /\ req[r] = Idle /\ starts < MaxStarts
    /\ req' = [req EXCEPT ![r] = [view |-> view, step |-> step, user |-> u, ride |-> o,
                                  row |-> order[o], n |-> n, share |-> share, party |-> 0]]
    /\ starts' = starts + 1
    /\ overlapped' = IF Busy(o) THEN overlapped \cup {o} ELSE overlapped
    /\ UNCHANGED <<accepted, finished, cancelled, recounted>>

GoTo(r, step) == req' = [req EXCEPT ![r].step = step]
End(r)        == req' = [req EXCEPT ![r] = Idle]

(* request_ride: the new row has an id no order ever had *)
request_ride(r, u, o, n, share) ==
    /\ req[r] = Idle /\ starts < MaxStarts
    /\ ~Exists(o) /\ o \notin cancelled /\ n >= 1
    /\ order' = [order EXCEPT ![o] = [status |-> "open", owner |-> u, driver |-> NoUser,
                                      total |-> n, shareable |-> share]]
    /\ req' = [req EXCEPT ![r] = [view |-> "request", step |-> "createParty", user |-> u,
                                  ride |-> o, row |-> order'[o], n |-> n, share |-> share,
                                  party |-> 0]]
    /\ starts' = starts + 1
    /\ UNCHANGED <<riders, parties, partySeq, history>>

cancel_ride(r, u, o) ==
    /\ Exists(o)
    /\ Begin(r, "cancel", IF order[o].owner = u THEN "delete" ELSE "findParty", u, o, 0, FALSE)
    /\ UNCHANGED tables

modify_ride(r, u, o, n, share) ==
    /\ order[o].owner = u /\ order[o].status = "open" /\ n >= 1
    /\ Begin(r, "modify", "save", u, o, n, share)
    /\ UNCHANGED tables

(* passengers is any int of the POST *)
join_ride(r, u, o, n) ==
    /\ order[o].status = "open" /\ order[o].shareable
    /\ Begin(r, "join", "save", u, o, n, TRUE)
    /\ UNCHANGED tables

(* Mutant: get_object_or_404(Order, id=order_id) *)
confirm_any_order(r, u, o) ==
    /\ Exists(o) /\ u \in Drivers
    /\ Begin(r, "confirm", "save", u, o, 0, FALSE)
    /\ UNCHANGED tables

(* The capacity of the vehicle is a filter of search_ride_driver alone *)
confirm_order(r, u, o) ==
    /\ order[o].status = "open" /\ u \in Drivers
    /\ Begin(r, "confirm", "save", u, o, 0, FALSE)
    /\ UNCHANGED tables

(* Two views complete an order *)
complete_order(u, o) == order[o].driver = u /\ order[o].status = "confirmed"
order_detail(u, o)   == order[o].driver = u /\ order[o].status # "completed"

Complete(r, u, o) ==
    /\ u \in Drivers /\ (complete_order(u, o) \/ order_detail(u, o))
    /\ Begin(r, "complete", "save", u, o, 0, FALSE)
    /\ UNCHANGED tables

-----------------------------------------------------------------------------
(* Mutant: a misspelt status *)
EditedMisspelt(q) ==
    CASE q.view = "modify"   -> [q.row EXCEPT !.total = q.n, !.shareable = q.share]
      [] q.view = "join"     -> [q.row EXCEPT !.total = @ + q.n]
      [] q.view = "confirm"  -> [q.row EXCEPT !.status = "confirmed", !.driver = q.user]
      [] q.view = "complete" -> [q.row EXCEPT !.status = "complete"]

(* What a view makes of its copy of the row *)
Edited(q) ==
    CASE q.view = "modify"   -> [q.row EXCEPT !.total = q.n, !.shareable = q.share]
      [] q.view = "join"     -> [q.row EXCEPT !.total = @ + q.n]
      [] q.view = "confirm"  -> [q.row EXCEPT !.status = "confirmed", !.driver = q.user]
      [] q.view = "complete" -> [q.row EXCEPT !.status = "completed"]

(* Mutant: update_fields, so that the other columns keep what others wrote *)
WrittenColumns(q) ==
    CASE q.view = "modify"   -> [order[q.ride] EXCEPT !.total = q.n, !.shareable = q.share]
      [] q.view = "join"     -> [order[q.ride] EXCEPT !.total = q.row.total + q.n]
      [] q.view = "confirm"  -> [order[q.ride] EXCEPT !.status = "confirmed", !.driver = q.user]
      [] q.view = "complete" -> [order[q.ride] EXCEPT !.status = "completed"]

(* save(): every column, whatever became of the row in the meantime *)
Written(q) == Edited(q)

Recounts(q) ==
    \/ q.view = "join" /\ PartiesOf(q.ride, q.user) # {}
    \/ q.view = "modify" /\ \E p \in parties : p.ride = q.ride /\ p.rider # q.user

Save(r) ==
    LET q == req[r]
        who == {<<q.ride, q.user>>}
    IN  /\ q.step = "save"
        /\ order' = [order EXCEPT ![q.ride] = Written(q)]
        /\ IF q.view \in {"modify", "join"} THEN GoTo(r, "party") ELSE End(r)
        /\ accepted' = accepted \cup (IF q.view = "confirm" THEN who ELSE {})
        /\ finished' = finished \cup (IF q.view = "complete" THEN who ELSE {})
        /\ recounted' = recounted \cup (IF Recounts(q) THEN {q.ride} ELSE {})
        /\ UNCHANGED <<riders, parties, partySeq, starts, cancelled, overlapped>>

(* update_or_create: the row that is there, one to create, or an exception
   when there are two *)
PutParty(r) ==
    LET q == req[r]
        mine == PartiesOf(q.ride, q.user)
    IN  /\ q.step = "party"
        /\ IF mine = {} THEN GoTo(r, "createParty") /\ UNCHANGED parties
           ELSE IF Cardinality(mine) > 1 THEN End(r) /\ UNCHANGED parties
           ELSE /\ parties' = (parties \ mine) \cup {[p EXCEPT !.passengers = q.n] : p \in mine}
                /\ IF q.view = "modify" THEN End(r) ELSE GoTo(r, "rider")
        /\ UNCHANGED <<order, riders, partySeq, starts, history>>

CreateParty(r) ==
    LET q == req[r]
    IN  /\ q.step = "createParty"
        /\ partySeq' = partySeq + 1
        /\ IF Exists(q.ride)
           THEN /\ parties' = parties \cup {[id |-> partySeq + 1, ride |-> q.ride,
                                            rider |-> q.user, passengers |-> q.n]}
                /\ IF q.view = "modify" THEN End(r) ELSE GoTo(r, "rider")
           ELSE End(r) /\ UNCHANGED parties
        /\ UNCHANGED <<order, riders, starts, history>>

AddRider(r) ==
    LET q == req[r]
    IN  /\ q.step = "rider"
        /\ riders' = IF Exists(q.ride) THEN [riders EXCEPT ![q.ride] = @ \cup {q.user}]
                     ELSE riders
        /\ End(r)
        /\ UNCHANGED <<order, parties, partySeq, starts, history>>

-----------------------------------------------------------------------------
(* cancel_ride by the owner: the order, its parties and its riders go *)
DeleteOrder(r) ==
    LET o == req[r].ride
    IN  /\ req[r].step = "delete"
        /\ order' = [order EXCEPT ![o] = NoRow]
        /\ riders' = [riders EXCEPT ![o] = {}]
        /\ parties' = {p \in parties : p.ride # o}
        /\ cancelled' = cancelled \cup {o}
        /\ End(r)
        /\ UNCHANGED <<partySeq, starts, accepted, finished, overlapped, recounted>>

(* ... and by a sharer: first() is the party with the smallest id *)
FindParty(r) ==
    LET q == req[r]
        mine == PartiesOf(q.ride, q.user)
    IN  /\ q.step = "findParty"
        /\ \/ mine = {} /\ End(r)
           \/ \E p \in mine :
                /\ \A other \in mine : p.id <= other.id
                /\ req' = [req EXCEPT ![r].n = p.passengers, ![r].party = p.id,
                                      ![r].step = "deduct"]
        /\ UNCHANGED <<tables, starts, history>>

Deduct(r) ==
    LET q == req[r]
    IN  /\ q.step = "deduct"
        /\ IF Exists(q.ride)
           THEN /\ order' = [order EXCEPT ![q.ride].total = q.row.total - q.n]
                /\ GoTo(r, "removeRider")
           ELSE End(r) /\ UNCHANGED order
        /\ UNCHANGED <<riders, parties, partySeq, starts, history>>

RemoveRider(r) ==
    /\ req[r].step = "removeRider"
    /\ riders' = [riders EXCEPT ![req[r].ride] = @ \ {req[r].user}]
    /\ GoTo(r, "deleteParty")
    /\ UNCHANGED <<order, parties, partySeq, starts, history>>

(* Mutant: the party stays *)
KeepParty(r) ==
    /\ req[r].step = "deleteParty"
    /\ End(r)
    /\ UNCHANGED <<tables, starts, history>>

DeleteParty(r) ==
    /\ req[r].step = "deleteParty"
    /\ parties' = {p \in parties : p.id # req[r].party}
    /\ End(r)
    /\ UNCHANGED <<order, riders, partySeq, starts, history>>

-----------------------------------------------------------------------------
Init ==
    /\ order = [o \in Orders |-> NoRow]
    /\ riders = [o \in Orders |-> {}]
    /\ parties = {} /\ partySeq = 0
    /\ req = [r \in Requests |-> Idle] /\ starts = 0
    /\ accepted = {} /\ finished = {} /\ cancelled = {}
    /\ overlapped = {} /\ recounted = {}

View(r) ==
    \E u \in Users, o \in Orders :
        \/ cancel_ride(r, u, o) \/ confirm_order(r, u, o)
        \/ Complete(r, u, o)
        \/ \E n \in Sizes :
            \/ join_ride(r, u, o, n)
            \/ \E share \in BOOLEAN :
                request_ride(r, u, o, n, share) \/ modify_ride(r, u, o, n, share)

Next == \E r \in Requests :
    \/ View(r)
    \/ Save(r) \/ PutParty(r) \/ CreateParty(r) \/ AddRider(r)
    \/ DeleteOrder(r) \/ FindParty(r) \/ Deduct(r) \/ RemoveRider(r) \/ DeleteParty(r)

Spec == Init /\ [][Next]_vars

-----------------------------------------------------------------------------
Row == [status : {"none", "open", "confirmed", "completed"}, owner : Users \cup {NoUser},
        driver : Users \cup {NoUser}, total : Int, shareable : BOOLEAN]
Party == [id : Nat, ride : Orders, rider : Users, passengers : Int]
Views == {"idle", "request", "cancel", "modify", "join", "confirm", "complete"}
Steps == {"idle", "save", "party", "createParty", "rider", "delete", "findParty",
          "deduct", "removeRider", "deleteParty"}
Request == [view : Views, step : Steps, user : Users \cup {NoUser},
            ride : Orders \cup {NoOrder}, row : Row, n : Int, share : BOOLEAN, party : Nat]

(* Types; a request under way has a user and an order; only a view with a
   save is about to save. *)
TypeOK ==
    /\ order \in [Orders -> Row] /\ riders \in [Orders -> SUBSET Users]
    /\ parties \subseteq Party /\ partySeq \in Nat
    /\ req \in [Requests -> Request] /\ starts \in 0..MaxStarts
    /\ accepted \subseteq Orders \X Users /\ finished \subseteq Orders \X Users
    /\ cancelled \subseteq Orders /\ overlapped \subseteq Orders /\ recounted \subseteq Orders
    /\ \A r \in Requests :
        /\ req[r].step = "idle" <=> req[r] = Idle
        /\ req[r].step # "idle" => req[r].user \in Users /\ req[r].ride \in Orders
        /\ req[r].step = "save" => req[r].view \in {"modify", "join", "confirm", "complete"}

(* The driver of a row is one whose confirmation was saved, an order has a
   driver exactly when it is confirmed or completed, and a completed order was
   completed by the driver it names: whole rows are saved (views.py:228, 342,
   255, 368), so status and confirmed_by never come from different requests,
   however stale each of them is. *)
DriverAnswers ==
    \A o \in Orders :
        LET row == order[o]
        IN  /\ row.driver # NoUser <=> row.status \in {"confirmed", "completed"}
            /\ row.driver # NoUser => <<o, row.driver>> \in accepted
            /\ row.status = "completed" => <<o, row.driver>> \in finished

(* An order on which no two requests overlapped goes from open to confirmed by
   one driver to completed, keeps its owner, and never comes back once it is
   cancelled: the guards of the views are enough then (views.py:142-144, 223,
   334, 363-365). *)
Rank(status) == CASE status = "none" -> 0 [] status = "open" -> 1
                  [] status = "confirmed" -> 2 [] status = "completed" -> 3
Onward(row, next) ==
    \/ next = NoRow
    \/ row = NoRow /\ next.status = "open"
    \/ /\ row # NoRow /\ next.owner = row.owner
       /\ next.status = row.status \/ Rank(next.status) = Rank(row.status) + 1
       /\ row.driver # NoUser => next.driver = row.driver
AloneGoesOnward ==
    [][\A o \in Orders : o \notin overlapped' =>
        Onward(order[o], order'[o]) /\ (o \in cancelled => order'[o] = NoRow)]_vars

(* On such an order, when no request is under way, the riders are the users
   with a party, each has one, and the passengers are counted right unless
   somebody joined again or the owner modified a shared order (danger_log.txt,
   item 5). *)
Passengers(o) == SumOver({p \in parties : p.ride = o}, [p \in parties |-> p.passengers])
AloneAddsUp ==
    \A o \in Orders : (o \notin overlapped /\ ~Busy(o)) =>
        /\ riders[o] = {p.rider : p \in {q \in parties : q.ride = o}}
        /\ \A u \in Users : Cardinality(PartiesOf(o, u)) <= 1
        /\ o \notin recounted => order[o].total = Passengers(o)

=============================================================================
