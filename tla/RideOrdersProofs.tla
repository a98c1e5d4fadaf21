-------------------------- MODULE RideOrdersProofs --------------------------
(***************************************************************************)
(* Proofs about RideOrders, for every set of orders, users, drivers, sizes *)
(* and requests under way: the type invariant, DriverAnswers, and that an  *)
(* order on which no two requests overlapped goes onward and adds up.      *)
(***************************************************************************)
EXTENDS RideOrders, SumTheorems

\* Only a row that does not exist has no status.
RowsExist == \A o \in Orders : Exists(o) => order[o].status # "none"

\* What DriverAnswers says of a row of order o.
Answers(o, row) ==
    /\ row.driver # NoUser <=> row.status \in {"confirmed", "completed"}
    /\ row.driver # NoUser => <<o, row.driver>> \in accepted
    /\ row.status = "completed" => <<o, row.driver>> \in finished

\* The copy a request is about to save was read when the order was open, or, by a
\* view that completes it, when it was confirmed by the same driver.
CopyInv ==
    \A r \in Requests : req[r].step = "save" =>
        /\ Answers(req[r].ride, req[r].row)
        /\ IF req[r].view = "complete"
           THEN req[r].row.status = "confirmed" /\ req[r].row.driver = req[r].user
           ELSE req[r].row.status = "open"

\* A request works on an order that is there or was deleted.
RideInv == \A r \in Requests, o \in Orders :
    req[r].ride = o => Exists(o) \/ o \in cancelled

\* On an order without overlap there is one request at most, what it is about to
\* save was read from the row as it is, and what was deleted is gone.
AloneInv ==
    \A o \in Orders : o \notin overlapped =>
        /\ \A r, s \in Requests : req[r].ride = o /\ req[s].ride = o => r = s
        /\ \A r \in Requests :
             req[r].ride = o /\ req[r].step = "save" => req[r].row = order[o]
        /\ o \in cancelled => ~Exists(o)

IInv == TypeOK /\ RowsExist /\ DriverAnswers /\ CopyInv /\ RideInv /\ AloneInv

-----------------------------------------------------------------------------
LEMMA IdleIsTyped == NoRow \in Row /\ Idle \in Request
BY DEF NoRow, Row, Idle, Request, Views, Steps

LEMMA InitIInv == Init => IInv
<1> SUFFICES ASSUME Init PROVE IInv
    OBVIOUS
<1>1. TypeOK
    BY IdleIsTyped, StartsAreNat DEF Init, TypeOK, Idle
<1>2. RowsExist /\ DriverAnswers
    BY DEF Init, RowsExist, DriverAnswers, Exists, NoRow
<1>3. CopyInv /\ RideInv /\ AloneInv
    BY NoOrderIsNone DEF Init, CopyInv, RideInv, AloneInv, Idle
<1> QED
    BY <1>1, <1>2, <1>3 DEF IInv

\* The invariant that is left when a view begins: the copy it will save must be the
\* one CopyInv asks for.
LEMMA BeginStep ==
    ASSUME IInv,
           NEW r \in Requests, NEW u \in Users, NEW o \in Orders, NEW n \in Int,
           NEW share \in BOOLEAN, NEW view \in Views, NEW step \in Steps \ {"idle"},
           Begin(r, view, step, u, o, n, share), UNCHANGED tables, Exists(o),
           step = "save" => /\ view \in {"modify", "join", "confirm", "complete"}
                            /\ IF view = "complete"
                               THEN order[o].status = "confirmed" /\ order[o].driver = u
                               ELSE order[o].status = "open"
    PROVE  IInv'
<1> DEFINE q == [view |-> view, step |-> step, user |-> u, ride |-> o, row |-> order[o],
                 n |-> n, share |-> share, party |-> 0]
<1>1. /\ UNCHANGED <<order, riders, parties, partySeq>>
      /\ req' = [req EXCEPT ![r] = q] /\ starts' = starts + 1 /\ starts < MaxStarts
      /\ overlapped' = IF Busy(o) THEN overlapped \cup {o} ELSE overlapped
      /\ UNCHANGED <<accepted, finished, cancelled, recounted>>
    BY DEF Begin, tables
<1>2. TypeOK /\ q \in Request /\ q # Idle
    BY DEF IInv, TypeOK, Request, Idle
<1>3. req' \in [Requests -> Request] /\ req'[r] = q
      /\ \A s \in Requests \ {r} : req'[s] = req[s]
    BY <1>1, <1>2 DEF TypeOK
<1> HIDE DEF q
<1>4. q.step = step /\ q.view = view /\ q.user = u /\ q.ride = o /\ q.row = order[o]
    BY DEF q
<1>5. TypeOK'
    <2>1. starts' \in 0..MaxStarts /\ overlapped' \subseteq Orders
        BY <1>1, <1>2, StartsAreNat DEF TypeOK
    <2>2. \A s \in Requests :
            /\ req'[s].step = "idle" <=> req'[s] = Idle
            /\ req'[s].step # "idle" => req'[s].user \in Users /\ req'[s].ride \in Orders
            /\ req'[s].step = "save" =>
                 req'[s].view \in {"modify", "join", "confirm", "complete"}
        BY <1>2, <1>3, <1>4 DEF TypeOK
    <2> QED
        BY <1>1, <1>2, <1>3, <2>1, <2>2 DEF TypeOK
<1>6. RowsExist' /\ DriverAnswers'
    BY <1>1 DEF IInv, RowsExist, DriverAnswers, Exists
<1>7. CopyInv'
    <2>1. Answers(o, order[o])
        BY DEF IInv, DriverAnswers, Answers
    <2> QED
        BY <1>1, <1>3, <1>4, <2>1 DEF IInv, CopyInv, Answers
<1>8. RideInv'
    BY <1>1, <1>3, <1>4 DEF IInv, RideInv, Exists
<1>9. AloneInv'
    <2> SUFFICES ASSUME NEW a \in Orders, a \notin overlapped'
                 PROVE  /\ \A s, t \in Requests :
                             req'[s].ride = a /\ req'[t].ride = a => s = t
                        /\ \A s \in Requests :
                             req'[s].ride = a /\ req'[s].step = "save" => req'[s].row = order[a]
                        /\ a \in cancelled => ~Exists(a)
        BY <1>1 DEF AloneInv, Exists
    <2>1. a \notin overlapped /\ (a = o => ~Busy(o))
        BY <1>1
    <2> QED
        BY <1>3, <1>4, <2>1 DEF IInv, AloneInv, Busy
<1> QED
    BY <1>5, <1>6, <1>7, <1>8, <1>9 DEF IInv

LEMMA RequestRide ==
    ASSUME IInv, SizesAreInt,
           NEW r \in Requests, NEW u \in Users, NEW o \in Orders, NEW n \in Sizes,
           NEW share \in BOOLEAN, request_ride(r, u, o, n, share)
    PROVE  IInv'
<1> DEFINE new == [status |-> "open", owner |-> u, driver |-> NoUser, total |-> n,
                   shareable |-> share]
           q == [view |-> "request", step |-> "createParty", user |-> u, ride |-> o,
                 row |-> order'[o], n |-> n, share |-> share, party |-> 0]
<1>1. /\ ~Exists(o) /\ o \notin cancelled /\ starts < MaxStarts /\ starts' = starts + 1
      /\ order' = [order EXCEPT ![o] = new] /\ req' = [req EXCEPT ![r] = q]
      /\ UNCHANGED <<riders, parties, partySeq, accepted, finished, cancelled, overlapped,
                     recounted>>
    BY DEF request_ride, history
<1>2. TypeOK /\ new \in Row /\ new.status = "open" /\ new.driver = NoUser
    BY SizesAreInt DEF IInv, Row
<1>3. order' \in [Orders -> Row] /\ order'[o] = new
      /\ \A a \in Orders \ {o} : order'[a] = order[a]
    BY <1>1, <1>2 DEF TypeOK
<1> HIDE DEF new
<1>4. q \in Request /\ q.step = "createParty" /\ q.ride = o /\ q.user = u /\ q # Idle
    BY <1>2, <1>3, SizesAreInt DEF Request, Views, Steps, Idle
<1> HIDE DEF q
<1>5. req' \in [Requests -> Request] /\ req'[r] = q
      /\ \A s \in Requests \ {r} : req'[s] = req[s]
    BY <1>1, <1>2, <1>4 DEF TypeOK
<1>6. TypeOK'
    <2>1. starts' \in 0..MaxStarts
        BY <1>1, <1>2, StartsAreNat DEF TypeOK
    <2>2. \A s \in Requests :
            /\ req'[s].step = "idle" <=> req'[s] = Idle
            /\ req'[s].step # "idle" => req'[s].user \in Users /\ req'[s].ride \in Orders
            /\ req'[s].step = "save" =>
                 req'[s].view \in {"modify", "join", "confirm", "complete"}
        BY <1>2, <1>4, <1>5 DEF TypeOK
    <2> QED
        BY <1>1, <1>2, <1>3, <1>5, <2>1, <2>2 DEF TypeOK
<1>7. new # NoRow
    BY <1>2 DEF NoRow
<1>8. RowsExist' /\ DriverAnswers'
    BY <1>1, <1>2, <1>3 DEF IInv, RowsExist, DriverAnswers, Exists
<1>9. CopyInv'
    BY <1>1, <1>4, <1>5 DEF IInv, CopyInv, Answers
<1>10. RideInv'
    BY <1>1, <1>3, <1>4, <1>5, <1>7 DEF IInv, RideInv, Exists
<1>11. AloneInv'
    <2>1. \A s \in Requests : req[s].ride # o
        BY <1>1 DEF IInv, RideInv
    <2> QED
        BY <1>1, <1>3, <1>4, <1>5, <2>1 DEF IInv, AloneInv, Exists
<1> QED
    BY <1>6, <1>8, <1>9, <1>10, <1>11 DEF IInv

\* The views that only read before they work on their copy.
LEMMA ViewStep ==
    ASSUME IInv, SizesAreInt, DriversAreUsers, NoUserIsNone, NEW r \in Requests, View(r)
    PROVE  IInv'
<1> PICK u \in Users, o \in Orders :
        \/ cancel_ride(r, u, o) \/ confirm_order(r, u, o) \/ Complete(r, u, o)
        \/ \E n \in Sizes :
            \/ join_ride(r, u, o, n)
            \/ \E share \in BOOLEAN :
                request_ride(r, u, o, n, share) \/ modify_ride(r, u, o, n, share)
    BY DEF View
<1>a. 0 \in Int /\ FALSE \in BOOLEAN /\ {"save", "delete", "findParty"} \subseteq Steps \ {"idle"}
      /\ {"modify", "join", "confirm", "complete", "cancel"} \subseteq Views
    BY DEF Views, Steps
<1>1. CASE cancel_ride(r, u, o)
    <2>1. PICK step \in {"delete", "findParty"} :
            Begin(r, "cancel", step, u, o, 0, FALSE) /\ UNCHANGED tables /\ Exists(o)
        BY <1>1 DEF cancel_ride
    <2> HIDE DEF Begin
    <2> QED
        BY <1>a, <2>1, BeginStep
<1>2. CASE confirm_order(r, u, o)
    <2>1. Exists(o) /\ order[o].status = "open"
        BY <1>2 DEF confirm_order, Exists, NoRow
    <2>2. Begin(r, "confirm", "save", u, o, 0, FALSE) /\ UNCHANGED tables
        BY <1>2 DEF confirm_order
    <2> QED
        BY <1>a, <2>1, <2>2, BeginStep
<1>3. CASE Complete(r, u, o)
    <2>1. order[o].driver = u /\ order[o].status # "completed" /\ u # NoUser
        BY <1>3, NoUserIsNone DEF Complete, complete_order, order_detail
    <2>2. order[o].status = "confirmed"
        BY <2>1 DEF IInv, DriverAnswers
    <2>3. Exists(o)
        BY <2>2 DEF Exists, NoRow
    <2>4. Begin(r, "complete", "save", u, o, 0, FALSE) /\ UNCHANGED tables
        BY <1>3 DEF Complete
    <2> QED
        BY <1>a, <2>1, <2>2, <2>3, <2>4, BeginStep
<1>4. ASSUME NEW n \in Sizes, join_ride(r, u, o, n) PROVE IInv'
    <2>1. Exists(o)
        BY <1>4 DEF join_ride, Exists, NoRow
    <2> QED
        BY <1>4, <2>1, SizesAreInt, BeginStep DEF join_ride, Views, Steps
<1>5. ASSUME NEW n \in Sizes, NEW share \in BOOLEAN, modify_ride(r, u, o, n, share)
      PROVE  IInv'
    <2>1. Exists(o)
        BY <1>5 DEF modify_ride, Exists, NoRow
    <2> QED
        BY <1>5, <2>1, SizesAreInt, BeginStep, ZenonT(30) DEF modify_ride, Views, Steps
<1>6. ASSUME NEW n \in Sizes, NEW share \in BOOLEAN, request_ride(r, u, o, n, share)
      PROVE  IInv'
    BY <1>6, SizesAreInt, RequestRide
<1> QED
    BY <1>1, <1>2, <1>3, <1>4, <1>5, <1>6

-----------------------------------------------------------------------------
\* Save writes the row the copy was edited to, whoever has written it since.
LEMMA SaveStep ==
    ASSUME IInv, NoUserIsNone, DriversAreUsers, NEW r \in Requests, Save(r)
    PROVE  IInv'
<1> DEFINE q == req[r]
           o == q.ride
           new == Edited(q)
<1>1. /\ q.step = "save" /\ order' = [order EXCEPT ![o] = new]
      /\ IF q.view \in {"modify", "join"} THEN GoTo(r, "party") ELSE End(r)
      /\ accepted' = accepted \cup (IF q.view = "confirm" THEN {<<o, q.user>>} ELSE {})
      /\ finished' = finished \cup (IF q.view = "complete" THEN {<<o, q.user>>} ELSE {})
      /\ recounted' \in {recounted, recounted \cup {o}}
      /\ UNCHANGED <<riders, parties, partySeq, starts, cancelled, overlapped>>
    BY DEF Save, Written
<1>2. /\ TypeOK /\ q \in Request /\ q.user \in Users /\ o \in Orders
      /\ q.view \in {"modify", "join", "confirm", "complete"}
      /\ q.row \in Row /\ q.n \in Int /\ q.share \in BOOLEAN
    BY <1>1 DEF IInv, TypeOK, Request
<1>3. Answers(o, q.row)
      /\ IF q.view = "complete" THEN q.row.status = "confirmed" /\ q.row.driver = q.user
         ELSE q.row.status = "open"
    BY <1>1 DEF IInv, CopyInv
<1>4. /\ new \in Row
      /\ q.view \in {"modify", "join"} => new.status = "open" /\ new.driver = q.row.driver
      /\ q.view = "confirm" => new.status = "confirmed" /\ new.driver = q.user
      /\ q.view = "complete" => new.status = "completed" /\ new.driver = q.user
    <2>1. CASE q.view = "modify"
        <3>1. new = [q.row EXCEPT !.total = q.n, !.shareable = q.share]
            BY <2>1 DEF Edited
        <3> QED
            BY <1>2, <1>3, <2>1, <3>1 DEF Row
    <2>2. CASE q.view = "join"
        <3>1. new = [q.row EXCEPT !.total = @ + q.n]
            BY <2>2 DEF Edited
        <3>2. q.row.total + q.n \in Int
            BY <1>2 DEF Row
        <3> QED
            BY <1>2, <1>3, <2>2, <3>1, <3>2 DEF Row
    <2>3. CASE q.view = "confirm"
        <3>1. new = [q.row EXCEPT !.status = "confirmed", !.driver = q.user]
            BY <2>3 DEF Edited
        <3> QED
            BY <1>2, <2>3, <3>1 DEF Row
    <2>4. CASE q.view = "complete"
        <3>1. new = [q.row EXCEPT !.status = "completed"]
            BY <2>4 DEF Edited
        <3> QED
            BY <1>2, <1>3, <2>4, <3>1 DEF Row
    <2> QED
        BY <1>2, <2>1, <2>2, <2>3, <2>4
<1> HIDE DEF new
<1>5. order' \in [Orders -> Row] /\ order'[o] = new /\ new # NoRow
      /\ \A a \in Orders \ {o} : order'[a] = order[a]
    BY <1>1, <1>2, <1>4 DEF TypeOK, NoRow
<1>6. /\ req' \in [Requests -> Request]
      /\ \A s \in Requests \ {r} : req'[s] = req[s]
      /\ \/ req'[r] = Idle
         \/ req'[r].step = "party" /\ req'[r].ride = o /\ req'[r].user = q.user /\ req'[r] # Idle
    <2>1. CASE q.view \in {"modify", "join"}
        <3>1. req' = [req EXCEPT ![r] = [q EXCEPT !.step = "party"]]
            BY <1>1, <2>1 DEF GoTo
        <3>2. [q EXCEPT !.step = "party"] \in Request
            BY <1>2 DEF Request, Steps
        <3>3. [q EXCEPT !.step = "party"] # Idle
            BY <1>2 DEF Request, Idle
        <3> QED
            BY <1>2, <3>1, <3>2, <3>3 DEF TypeOK, Request
    <2>2. CASE q.view \notin {"modify", "join"}
        BY <1>1, <1>2, <2>2, IdleIsTyped DEF TypeOK, End
    <2> QED
        BY <2>1, <2>2
<1>7. TypeOK'
    <2>1. \A s \in Requests :
            /\ req'[s].step = "idle" <=> req'[s] = Idle
            /\ req'[s].step # "idle" => req'[s].user \in Users /\ req'[s].ride \in Orders
            /\ req'[s].step = "save" =>
                 req'[s].view \in {"modify", "join", "confirm", "complete"}
        BY <1>2, <1>6 DEF TypeOK, Idle
    <2>2. /\ accepted' \subseteq Orders \X Users /\ finished' \subseteq Orders \X Users
          /\ recounted' \subseteq Orders
        BY <1>1, <1>2 DEF TypeOK
    <2> QED
        BY <1>1, <1>2, <1>5, <1>6, <2>1, <2>2 DEF TypeOK
<1>8. RowsExist'
    BY <1>4, <1>2, <1>5 DEF IInv, RowsExist, Exists
<1>9. accepted \subseteq accepted' /\ finished \subseteq finished'
    BY <1>1
<1>10. DriverAnswers'
    <2>1. /\ new.driver # NoUser <=> new.status \in {"confirmed", "completed"}
          /\ new.driver # NoUser => <<o, new.driver>> \in accepted'
          /\ new.status = "completed" => <<o, new.driver>> \in finished'
        BY <1>1, <1>2, <1>3, <1>4, NoUserIsNone DEF Answers
    <2> QED
        BY <1>5, <1>9, <2>1 DEF IInv, DriverAnswers
<1>11. CopyInv'
    BY <1>6, <1>9 DEF IInv, CopyInv, Answers, Idle
<1>12. RideInv'
    BY <1>1, <1>2, <1>5, <1>6, NoOrderIsNone DEF IInv, RideInv, Exists, Idle
<1>13. AloneInv'
    <2> SUFFICES ASSUME NEW a \in Orders, a \notin overlapped
                 PROVE  /\ \A s, t \in Requests :
                             req'[s].ride = a /\ req'[t].ride = a => s = t
                        /\ \A s \in Requests :
                             req'[s].ride = a /\ req'[s].step = "save" =>
                                 req'[s].row = order'[a]
                        /\ a \in cancelled => order'[a] = NoRow
        BY <1>1 DEF AloneInv, Exists
    <2>1. \A s \in Requests : req'[s].ride = a => req[s].ride = a
        BY <1>6, NoOrderIsNone DEF Idle
    <2>2. CASE a = o
        <3>1. q.row = order[o] /\ q.row # NoRow
            BY <1>1, <1>3, <2>2 DEF IInv, AloneInv, NoRow
        <3>2. o \notin cancelled
            BY <2>2, <3>1 DEF IInv, AloneInv, Exists
        <3>3. \A s \in Requests : req'[s].ride = o => s = r
            BY <2>1, <2>2 DEF IInv, AloneInv
        <3>4. req'[r].step # "save"
            BY <1>6 DEF Idle
        <3> QED
            BY <2>2, <3>2, <3>3, <3>4
    <2>3. CASE a # o
        BY <1>5, <1>6, <2>1, <2>3, NoOrderIsNone DEF IInv, AloneInv, Exists, Idle
    <2> QED
        BY <2>2, <2>3
<1> QED
    BY <1>7, <1>8, <1>10, <1>11, <1>12, <1>13 DEF IInv

-----------------------------------------------------------------------------
\* What a step of request r may make of it once its row is saved.
Later(r, x) ==
    \/ x = Idle
    \/ /\ x \in Request /\ x.ride = req[r].ride /\ x.user = req[r].user
       /\ x.step \notin {"idle", "save"}

\* The request of a step after the first is the one that was there, or idle.
LEMMA LaterRequest ==
    ASSUME TypeOK, NEW r \in Requests, NEW x, Later(r, x), req[r].step # "idle",
           req' = [req EXCEPT ![r] = x]
    PROVE  /\ req' \in [Requests -> Request]
           /\ \A s \in Requests \ {r} : req'[s] = req[s]
           /\ \A s \in Requests :
                /\ req'[s].step = "idle" <=> req'[s] = Idle
                /\ req'[s].step # "idle" => req'[s].user \in Users /\ req'[s].ride \in Orders
                /\ req'[s].step = "save" =>
                     s # r /\ req'[s].view \in {"modify", "join", "confirm", "complete"}
                /\ req'[s].ride \in Orders => req'[s].ride = req[s].ride
<1>1. x \in Request /\ Idle.step = "idle" /\ Idle.ride = NoOrder
    BY IdleIsTyped DEF Later, Idle
<1>2. req' \in [Requests -> Request] /\ req'[r] = x
      /\ \A s \in Requests \ {r} : req'[s] = req[s]
    BY <1>1 DEF TypeOK
<1>3. /\ x.step = "idle" <=> x = Idle
      /\ x.step # "idle" => x.user \in Users /\ x.ride \in Orders
      /\ x.step # "save"
      /\ x.ride \in Orders => x.ride = req[r].ride
    BY <1>1, NoOrderIsNone DEF Later, TypeOK
<1> QED
    BY <1>2, <1>3 DEF TypeOK

\* Steps that leave the rows of Order alone.
LEMMA QuietStep ==
    ASSUME IInv, NEW r \in Requests, NEW x, Later(r, x), req[r].step # "idle",
           req' = [req EXCEPT ![r] = x], UNCHANGED <<order, starts, history>>,
           riders' \in [Orders -> SUBSET Users], parties' \subseteq Party, partySeq' \in Nat
    PROVE  IInv'
<1>1. TypeOK
    BY DEF IInv
<1>2. /\ req' \in [Requests -> Request]
      /\ \A s \in Requests \ {r} : req'[s] = req[s]
      /\ \A s \in Requests :
           /\ req'[s].step = "idle" <=> req'[s] = Idle
           /\ req'[s].step # "idle" => req'[s].user \in Users /\ req'[s].ride \in Orders
           /\ req'[s].step = "save" =>
                s # r /\ req'[s].view \in {"modify", "join", "confirm", "complete"}
           /\ req'[s].ride \in Orders => req'[s].ride = req[s].ride
    BY <1>1, LaterRequest
<1>3. UNCHANGED <<order, starts, accepted, finished, cancelled, overlapped, recounted>>
    BY DEF history
<1>4. TypeOK'
    BY <1>1, <1>2, <1>3 DEF TypeOK
<1>5. RowsExist' /\ DriverAnswers'
    BY <1>3 DEF IInv, RowsExist, DriverAnswers, Exists
<1>6. CopyInv'
    BY <1>2, <1>3 DEF IInv, CopyInv, Answers
<1>7. RideInv'
    BY <1>2, <1>3 DEF IInv, RideInv, Exists
<1>8. AloneInv'
    BY <1>2, <1>3 DEF IInv, AloneInv, Exists
<1> QED
    BY <1>4, <1>5, <1>6, <1>7, <1>8 DEF IInv

\* GoTo and End are such steps.
LEMMA GoToIsLater ==
    ASSUME TypeOK, NEW r \in Requests, NEW step \in Steps \ {"idle", "save"}
    PROVE  Later(r, [req[r] EXCEPT !.step = step])
BY DEF TypeOK, Later, Request

\* The steps of the parties and riders.
LEMMA PartyStep ==
    ASSUME IInv, SizesAreInt, NEW r \in Requests,
           PutParty(r) \/ CreateParty(r) \/ AddRider(r) \/ FindParty(r) \/ RemoveRider(r)
             \/ DeleteParty(r)
    PROVE  IInv'
<1> DEFINE q == req[r]
<1>1. TypeOK /\ q \in Request
    BY DEF IInv, TypeOK
<1>2. /\ {"createParty", "rider", "deduct", "deleteParty"} \subseteq Steps \ {"idle", "save"}
      /\ Later(r, Idle)
    BY DEF Steps, Later
<1>3. riders \in [Orders -> SUBSET Users] /\ parties \subseteq Party /\ partySeq \in Nat
    BY <1>1 DEF TypeOK
<1>4. q.step # "idle" => q.ride \in Orders /\ q.user \in Users /\ q.n \in Int
    BY <1>1 DEF TypeOK, Request
<1>5. CASE PutParty(r)
    <2> DEFINE mine == PartiesOf(q.ride, q.user)
    <2>1. /\ q.step = "party" /\ UNCHANGED <<order, riders, partySeq, starts, history>>
          /\ \/ GoTo(r, "createParty") \/ End(r) \/ GoTo(r, "rider")
          /\ \/ parties' = parties
             \/ parties' = (parties \ mine) \cup {[p EXCEPT !.passengers = q.n] : p \in mine}
        BY <1>5 DEF PutParty
    <2>2. parties' \subseteq Party
        <3>1. \A p \in mine : [p EXCEPT !.passengers = q.n] \in Party
            BY <1>3, <1>4, <2>1 DEF PartiesOf, Party
        <3> QED
            BY <1>3, <2>1, <3>1
    <2>3. PICK x : Later(r, x) /\ req' = [req EXCEPT ![r] = x]
        BY <1>1, <1>2, <2>1, GoToIsLater DEF GoTo, End
    <2> QED
        BY <1>3, <2>1, <2>2, <2>3, QuietStep
<1>6. CASE CreateParty(r)
    <2>1. /\ q.step = "createParty" /\ partySeq' = partySeq + 1
          /\ UNCHANGED <<order, riders, starts, history>>
          /\ End(r) \/ GoTo(r, "rider")
          /\ \/ parties' = parties
             \/ parties' = parties \cup {[id |-> partySeq + 1, ride |-> q.ride,
                                          rider |-> q.user, passengers |-> q.n]}
        BY <1>6 DEF CreateParty
    <2>2. parties' \subseteq Party /\ partySeq' \in Nat
        BY <1>3, <1>4, <2>1 DEF Party
    <2>3. PICK x : Later(r, x) /\ req' = [req EXCEPT ![r] = x]
        BY <1>1, <1>2, <2>1, GoToIsLater DEF GoTo, End
    <2> QED
        BY <1>3, <2>1, <2>2, <2>3, QuietStep
<1>7. CASE AddRider(r)
    <2>1. /\ q.step = "rider" /\ End(r) /\ UNCHANGED <<order, parties, partySeq, starts, history>>
          /\ \/ riders' = riders
             \/ riders' = [riders EXCEPT ![q.ride] = @ \cup {q.user}]
        BY <1>7 DEF AddRider
    <2>2. riders' \in [Orders -> SUBSET Users]
        BY <1>3, <1>4, <2>1
    <2> QED
        BY <1>2, <1>3, <2>1, <2>2, QuietStep DEF End
<1>8. CASE FindParty(r)
    <2>1. /\ q.step = "findParty" /\ UNCHANGED <<tables, starts, history>>
          /\ \/ End(r)
             \/ \E p \in parties :
                  req' = [req EXCEPT ![r].n = p.passengers, ![r].party = p.id,
                                     ![r].step = "deduct"]
        BY <1>8 DEF FindParty, PartiesOf
    <2>2. \A p \in parties :
            Later(r, [q EXCEPT !.n = p.passengers, !.party = p.id, !.step = "deduct"])
        BY <1>1, <1>3 DEF Later, Request, Steps, Party
    <2>3. PICK x : Later(r, x) /\ req' = [req EXCEPT ![r] = x]
        BY <1>1, <1>2, <2>1, <2>2, ZenonT(30) DEF End, TypeOK
    <2> QED
        BY <1>3, <2>1, <2>3, QuietStep DEF tables
<1>9. CASE RemoveRider(r)
    <2>1. /\ q.step = "removeRider" /\ UNCHANGED <<order, parties, partySeq, starts, history>>
          /\ riders' = [riders EXCEPT ![q.ride] = @ \ {q.user}]
          /\ req' = [req EXCEPT ![r] = [q EXCEPT !.step = "deleteParty"]]
        BY <1>9 DEF RemoveRider, GoTo
    <2>2. riders' \in [Orders -> SUBSET Users]
        BY <1>3, <1>4, <2>1
    <2> QED
        BY <1>1, <1>2, <1>3, <2>1, <2>2, GoToIsLater, QuietStep
<1>10. CASE DeleteParty(r)
    <2>1. /\ q.step = "deleteParty" /\ End(r) /\ UNCHANGED <<order, riders, partySeq, starts, history>>
          /\ parties' \subseteq parties
        BY <1>10 DEF DeleteParty
    <2> QED
        BY <1>2, <1>3, <2>1, QuietStep DEF End
<1> QED
    BY <1>5, <1>6, <1>7, <1>8, <1>9, <1>10

-----------------------------------------------------------------------------
LEMMA DeleteOrderStep ==
    ASSUME IInv, NEW r \in Requests, DeleteOrder(r)
    PROVE  IInv'
<1> DEFINE o == req[r].ride
<1>1. /\ req[r].step = "delete" /\ req' = [req EXCEPT ![r] = Idle]
      /\ order' = [order EXCEPT ![o] = NoRow] /\ riders' = [riders EXCEPT ![o] = {}]
      /\ parties' \subseteq parties /\ cancelled' = cancelled \cup {o}
      /\ UNCHANGED <<partySeq, starts, accepted, finished, overlapped, recounted>>
    BY DEF DeleteOrder, End
<1>2. TypeOK /\ Later(r, Idle) /\ o \in Orders
    BY <1>1 DEF IInv, TypeOK, Later
<1>3. order' \in [Orders -> Row] /\ order'[o] = NoRow
      /\ \A a \in Orders \ {o} : order'[a] = order[a]
    BY <1>1, <1>2, IdleIsTyped DEF TypeOK
<1>4. /\ req' \in [Requests -> Request]
      /\ \A s \in Requests \ {r} : req'[s] = req[s]
      /\ \A s \in Requests :
           /\ req'[s].step = "idle" <=> req'[s] = Idle
           /\ req'[s].step # "idle" => req'[s].user \in Users /\ req'[s].ride \in Orders
           /\ req'[s].step = "save" =>
                s # r /\ req'[s].view \in {"modify", "join", "confirm", "complete"}
           /\ req'[s].ride \in Orders => req'[s].ride = req[s].ride
    BY <1>1, <1>2, LaterRequest
<1>5. TypeOK'
    <2>1. riders' \in [Orders -> SUBSET Users] /\ parties' \subseteq Party
          /\ cancelled' \subseteq Orders
        BY <1>1, <1>2 DEF TypeOK
    <2> QED
        BY <1>1, <1>2, <1>3, <1>4, <2>1 DEF TypeOK
<1>6. RowsExist' /\ DriverAnswers'
    BY <1>1, <1>3 DEF IInv, RowsExist, DriverAnswers, Exists, NoRow
<1>7. CopyInv'
    BY <1>1, <1>4 DEF IInv, CopyInv, Answers
<1>8. RideInv'
    BY <1>1, <1>3, <1>4 DEF IInv, RideInv, Exists
<1>9. AloneInv'
    <2> SUFFICES ASSUME NEW a \in Orders, a \notin overlapped
                 PROVE  /\ \A s, t \in Requests :
                             req'[s].ride = a /\ req'[t].ride = a => s = t
                        /\ \A s \in Requests :
                             req'[s].ride = a /\ req'[s].step = "save" =>
                                 req'[s].row = order'[a]
                        /\ a \in cancelled' => order'[a] = NoRow
        BY <1>1 DEF AloneInv, Exists
    <2>1. CASE a = o
        BY <1>3, <1>4, <2>1 DEF IInv, AloneInv
    <2>2. CASE a # o
        BY <1>1, <1>3, <1>4, <2>2 DEF IInv, AloneInv, Exists
    <2> QED
        BY <2>1, <2>2
<1> QED
    BY <1>5, <1>6, <1>7, <1>8, <1>9 DEF IInv

\* The row keeps its status and its driver.
LEMMA DeductStep ==
    ASSUME IInv, NEW r \in Requests, Deduct(r)
    PROVE  IInv'
<1> DEFINE q == req[r]
           o == q.ride
           new == [order[o] EXCEPT !.total = q.row.total - q.n]
<1>1. TypeOK /\ q \in Request /\ q.step = "deduct"
    BY DEF IInv, TypeOK, Deduct
<1>2. o \in Orders /\ riders \in [Orders -> SUBSET Users] /\ parties \subseteq Party
      /\ partySeq \in Nat
    BY <1>1 DEF TypeOK
<1>3. CASE ~Exists(o)
    <2>1. Later(r, Idle)
        BY DEF Later
    <2> QED
        BY <1>1, <1>2, <1>3, <2>1, QuietStep DEF Deduct, End
<1>4. CASE Exists(o)
    <2>1. /\ order' = [order EXCEPT ![o] = new]
          /\ req' = [req EXCEPT ![r] = [q EXCEPT !.step = "removeRider"]]
          /\ UNCHANGED <<riders, parties, partySeq, starts, accepted, finished, cancelled,
                         overlapped, recounted>>
        BY <1>1, <1>2, <1>4 DEF Deduct, GoTo, TypeOK, history
    <2>2. Later(r, [q EXCEPT !.step = "removeRider"])
        BY <1>1, GoToIsLater DEF Steps
    <2>3. /\ req' \in [Requests -> Request]
          /\ \A s \in Requests \ {r} : req'[s] = req[s]
          /\ \A s \in Requests :
               /\ req'[s].step = "idle" <=> req'[s] = Idle
               /\ req'[s].step # "idle" => req'[s].user \in Users /\ req'[s].ride \in Orders
               /\ req'[s].step = "save" =>
                    s # r /\ req'[s].view \in {"modify", "join", "confirm", "complete"}
               /\ req'[s].ride \in Orders => req'[s].ride = req[s].ride
        BY <1>1, <2>1, <2>2, LaterRequest
    <2>4. /\ new \in Row /\ new.status = order[o].status /\ new.driver = order[o].driver
          /\ new.status # "none"
        <3>1. order[o] \in Row /\ q.row.total - q.n \in Int
            BY <1>1, <1>2 DEF TypeOK, Request, Row
        <3> QED
            BY <1>2, <1>4, <3>1 DEF IInv, RowsExist, Row
    <2> HIDE DEF new
    <2>5. order' \in [Orders -> Row] /\ order'[o] = new /\ new # NoRow
          /\ \A a \in Orders \ {o} : order'[a] = order[a]
        BY <1>1, <1>2, <2>1, <2>4 DEF TypeOK, NoRow
    <2>6. TypeOK'
        BY <1>1, <2>1, <2>3, <2>5 DEF TypeOK
    <2>7. RowsExist' /\ DriverAnswers'
        BY <2>1, <2>4, <2>5 DEF IInv, RowsExist, DriverAnswers, Exists
    <2>8. CopyInv'
        BY <2>1, <2>3 DEF IInv, CopyInv, Answers
    <2>9. RideInv'
        BY <2>1, <2>3, <2>5 DEF IInv, RideInv, Exists
    <2>10. AloneInv'
        <3> SUFFICES ASSUME NEW a \in Orders, a \notin overlapped
                     PROVE  /\ \A s, t \in Requests :
                                 req'[s].ride = a /\ req'[t].ride = a => s = t
                            /\ \A s \in Requests :
                                 req'[s].ride = a /\ req'[s].step = "save" =>
                                     req'[s].row = order'[a]
                            /\ a \in cancelled => order'[a] = NoRow
            BY <2>1 DEF AloneInv, Exists
        <3>1. CASE a = o
            BY <1>1, <1>4, <2>3, <3>1 DEF IInv, AloneInv, Exists
        <3>2. CASE a # o
            BY <2>3, <2>5, <3>2 DEF IInv, AloneInv, Exists
        <3> QED
            BY <3>1, <3>2
    <2> QED
        BY <2>6, <2>7, <2>8, <2>9, <2>10 DEF IInv
<1> QED
    BY <1>3, <1>4

LEMMA StutterStep == IInv /\ UNCHANGED vars => IInv'
BY DEF IInv, TypeOK, RowsExist, DriverAnswers, CopyInv, RideInv, AloneInv, Answers, Exists,
       vars, tables, history

LEMMA NextIInv == IInv /\ [Next]_vars => IInv'
<1> SUFFICES ASSUME IInv, [Next]_vars PROVE IInv'
    OBVIOUS
<1>1. CASE Next
    <2> PICK r \in Requests :
            \/ View(r)
            \/ Save(r) \/ PutParty(r) \/ CreateParty(r) \/ AddRider(r)
            \/ DeleteOrder(r) \/ FindParty(r) \/ Deduct(r) \/ RemoveRider(r) \/ DeleteParty(r)
        BY <1>1 DEF Next
    <2>1. CASE View(r)
        BY <2>1, ViewStep, SizesAreInt, DriversAreUsers, NoUserIsNone
    <2>2. CASE Save(r)
        BY <2>2, SaveStep, DriversAreUsers, NoUserIsNone
    <2>3. CASE \/ PutParty(r) \/ CreateParty(r) \/ AddRider(r) \/ FindParty(r)
               \/ RemoveRider(r) \/ DeleteParty(r)
        BY <2>3, PartyStep, SizesAreInt
    <2>4. CASE DeleteOrder(r)
        BY <2>4, DeleteOrderStep
    <2>5. CASE Deduct(r)
        BY <2>5, DeductStep
    <2> QED
        BY <2>1, <2>2, <2>3, <2>4, <2>5
<1>2. CASE UNCHANGED vars
    BY <1>2, StutterStep
<1> QED
    BY <1>1, <1>2

\* The inductive invariant holds in every state of the rides, requests in between their
\* reads and writes included.
THEOREM Invariant == Spec => []IInv
BY InitIInv, NextIInv, PTL DEF Spec

-----------------------------------------------------------------------------
\* The rows stay well formed and a request under way has a user and an order, whatever
\* requests overlap (views.py, models.py).
THEOREM TypeCorrect == Spec => []TypeOK
<1>1. IInv => TypeOK
    BY DEF IInv
<1> QED
    BY <1>1, Invariant, PTL

\* Status and driver of a row always come from the same request, and a completed order
\* was completed by the driver it names: stale whole rows are saved, never mixed ones
\* (views.py:228, 342, 255, 368).
THEOREM DriverHasAnswered == Spec => []DriverAnswers
<1>1. IInv => DriverAnswers
    BY DEF IInv
<1> QED
    BY <1>1, Invariant, PTL

\* The four steps that write a row of Order.
LEMMA WhoWrites ==
    ASSUME Next, order \in [Orders -> Row], NEW o \in Orders
    PROVE  /\ overlapped \subseteq overlapped'
           /\ \/ order'[o] = order[o]
              \/ \E r \in Requests :
                   \/ \E u \in Users, n \in Sizes, share \in BOOLEAN :
                        request_ride(r, u, o, n, share)
                   \/ Save(r) /\ req[r].ride = o
                   \/ DeleteOrder(r) /\ req[r].ride = o
                   \/ Deduct(r) /\ req[r].ride = o /\ Exists(o)
<1> PICK r \in Requests :
        \/ View(r)
        \/ Save(r) \/ PutParty(r) \/ CreateParty(r) \/ AddRider(r)
        \/ DeleteOrder(r) \/ FindParty(r) \/ Deduct(r) \/ RemoveRider(r) \/ DeleteParty(r)
    BY DEF Next
<1>1. CASE View(r)
    <2> PICK u \in Users, a \in Orders :
            \/ cancel_ride(r, u, a) \/ confirm_order(r, u, a) \/ Complete(r, u, a)
            \/ \E n \in Sizes :
                \/ join_ride(r, u, a, n)
                \/ \E share \in BOOLEAN :
                    request_ride(r, u, a, n, share) \/ modify_ride(r, u, a, n, share)
        BY <1>1 DEF View
    <2>1. ASSUME NEW n \in Sizes, NEW share \in BOOLEAN, request_ride(r, u, a, n, share)
          PROVE  /\ overlapped' = overlapped
                 /\ a # o => order'[o] = order[o]
        BY <2>1 DEF request_ride, history
    <2>2. CASE \E n \in Sizes, share \in BOOLEAN : request_ride(r, u, a, n, share)
        BY <2>1, <2>2
    <2>3. CASE \/ cancel_ride(r, u, a) \/ confirm_order(r, u, a) \/ Complete(r, u, a)
               \/ \E n \in Sizes : join_ride(r, u, a, n)
               \/ \E n \in Sizes, share \in BOOLEAN : modify_ride(r, u, a, n, share)
        <3>1. order' = order /\ overlapped' \in {overlapped, overlapped \cup {a}}
            BY <2>3 DEF cancel_ride, confirm_order, Complete, join_ride, modify_ride, Begin,
                        tables
        <3> QED
            BY <3>1
    <2> QED
        BY <2>2, <2>3
<1>2. CASE Save(r)
    BY <1>2 DEF Save
<1>3. CASE DeleteOrder(r)
    BY <1>3 DEF DeleteOrder
<1>4. CASE Deduct(r)
    <2>1. /\ overlapped' = overlapped
          /\ order' # order => Exists(req[r].ride)
          /\ o # req[r].ride => order'[o] = order[o]
        BY <1>4 DEF Deduct, history
    <2> QED
        BY <1>4, <2>1
<1>5. CASE \/ PutParty(r) \/ CreateParty(r) \/ AddRider(r) \/ FindParty(r)
           \/ RemoveRider(r) \/ DeleteParty(r)
    BY <1>5 DEF PutParty, CreateParty, AddRider, FindParty, RemoveRider, DeleteParty, tables,
                history
<1> QED
    BY <1>1, <1>2, <1>3, <1>4, <1>5

\* An order on which no two requests overlapped only goes onward.
LEMMA StepOnward ==
    ASSUME IInv, Next, NEW o \in Orders, o \notin overlapped'
    PROVE  Onward(order[o], order'[o]) /\ (o \in cancelled => order'[o] = NoRow)
<1>0. order \in [Orders -> Row]
    BY DEF IInv, TypeOK
<1>1. order \in [Orders -> Row] /\ o \notin overlapped
    BY <1>0, WhoWrites
<1>2. CASE order'[o] = order[o]
    BY <1>1, <1>2 DEF IInv, AloneInv, Exists, Onward
<1>3. CASE order'[o] # order[o]
    <2> PICK r \in Requests :
            \/ \E u \in Users, n \in Sizes, share \in BOOLEAN : request_ride(r, u, o, n, share)
            \/ Save(r) /\ req[r].ride = o
            \/ DeleteOrder(r) /\ req[r].ride = o
            \/ Deduct(r) /\ req[r].ride = o /\ Exists(o)
        BY <1>1, <1>3, WhoWrites
    <2>1. CASE \E u \in Users, n \in Sizes, share \in BOOLEAN : request_ride(r, u, o, n, share)
        BY <1>1, <2>1 DEF request_ride, Onward, Exists
    <2>2. CASE Save(r) /\ req[r].ride = o
        <3> DEFINE q == req[r]
        <3>1. q.row = order[o] /\ q.step = "save" /\ order'[o] = Edited(q)
            BY <1>1, <2>2 DEF Save, Written, IInv, AloneInv
        <3>2. q.view \in {"modify", "join", "confirm", "complete"} /\ q.row \in Row
            BY <3>1 DEF IInv, TypeOK, Request
        <3>3. IF q.view = "complete" THEN q.row.status = "confirmed" /\ q.row.driver = q.user
              ELSE q.row.status = "open" /\ q.row.driver = NoUser
            BY <2>2, <3>1 DEF IInv, CopyInv, Answers
        <3>4. q.row # NoRow
            BY <3>3 DEF NoRow
        <3>5. o \notin cancelled
            BY <1>1, <3>1, <3>4 DEF IInv, AloneInv, Exists
        <3>6. Onward(q.row, Edited(q))
            <4>1. CASE q.view = "modify"
                <5>1. Edited(q) = [q.row EXCEPT !.total = q.n, !.shareable = q.share]
                    BY <4>1 DEF Edited
                <5> QED
                    BY <3>2, <3>4, <5>1 DEF Onward, Row
            <4>2. CASE q.view = "join"
                <5>1. Edited(q) = [q.row EXCEPT !.total = @ + q.n]
                    BY <4>2 DEF Edited
                <5> QED
                    BY <3>2, <3>4, <5>1 DEF Onward, Row
            <4>3. CASE q.view = "confirm"
                <5>1. Edited(q) = [q.row EXCEPT !.status = "confirmed", !.driver = q.user]
                    BY <4>3 DEF Edited
                <5> QED
                    BY <3>2, <3>3, <3>4, <4>3, <5>1 DEF Onward, Rank, Row
            <4>4. CASE q.view = "complete"
                <5>1. Edited(q) = [q.row EXCEPT !.status = "completed"]
                    BY <4>4 DEF Edited
                <5> QED
                    BY <3>2, <3>3, <3>4, <4>4, <5>1 DEF Onward, Rank, Row
            <4> QED
                BY <3>2, <4>1, <4>2, <4>3, <4>4
        <3> QED
            BY <3>1, <3>5, <3>6
    <2>3. CASE DeleteOrder(r) /\ req[r].ride = o
        BY <1>1, <2>3 DEF DeleteOrder, Onward
    <2>4. CASE Deduct(r) /\ req[r].ride = o /\ Exists(o)
        <3>1. order'[o] = [order[o] EXCEPT !.total = req[r].row.total - req[r].n]
            BY <1>1, <2>4 DEF Deduct
        <3>2. o \notin cancelled
            BY <1>1, <2>4 DEF IInv, AloneInv
        <3> QED
            BY <1>1, <2>4, <3>1, <3>2 DEF Onward, Exists, Row
    <2> QED
        BY <2>1, <2>2, <2>3, <2>4
<1> QED
    BY <1>2, <1>3

\* The guards of the views are enough for an order on which no two requests overlapped:
\* it goes from open to confirmed by one driver to completed, and stays away once it is
\* cancelled (views.py:142-144, 223, 334, 363-365).
THEOREM GoesOnwardAlone == Spec => AloneGoesOnward
<1>1. IInv /\ [Next]_vars =>
        [\A o \in Orders : o \notin overlapped' =>
           Onward(order[o], order'[o]) /\ (o \in cancelled => order'[o] = NoRow)]_vars
    BY StepOnward
<1> QED
    BY <1>1, Invariant, PTL DEF Spec, AloneGoesOnward

-----------------------------------------------------------------------------
(***************************************************************************)
(* An order on which no two requests overlapped adds up: AloneAddsUp.  It  *)
(* is not inductive: a view leaves the riders, the parties and the total   *)
(* apart from its first save to its last, so the invariant says how far    *)
(* apart they are at each of its steps.                                    *)
(***************************************************************************)
At(o)      == {p \in parties : p.ride = o}
Riding(S)  == {p.rider : p \in S}
Counted(S) == SumOver(S, [p \in S |-> p.passengers])
Again(o)   == recounted \cap {o}
On(o)      == {req[r] : r \in {s \in Requests : req[s].ride = o}}

\* Riders rs and row of an order agree with its parties S.
Settled(S, rs, row, again) ==
    /\ rs = Riding(S) /\ row.owner \in rs
    /\ again = {} => row.total = Counted(S)

\* The party that a sharer who cancels found is still there.
Leaving(q, S, row) ==
    /\ q.user # row.owner
    /\ \E p \in S : p.id = q.party /\ p.rider = q.user /\ p.passengers = q.n

\* The same before each step of a request q: what the rest of its view makes up for.
\* The owner rides on every order but one whose request_ride is not done, and does
\* not leave as a sharer.
Unsettled(q, S, rs, row, again) ==
    \/ /\ q.step \in {"save", "delete"} /\ Settled(S, rs, row, again)
       /\ q.view = "modify" => q.user = row.owner
    \/ /\ q.step = "party" /\ q.view = "modify" /\ q.user = row.owner
       /\ rs = Riding(S) /\ row.owner \in rs
       /\ again = {} => rs = {q.user} /\ row.total = q.n
    \/ /\ q.step = "party" /\ q.view = "join"
       /\ rs = Riding(S) /\ row.owner \in rs
       /\ again = {} => q.user \notin rs /\ row.total = Counted(S) + q.n
    \/ /\ q.step = "createParty" /\ q.view = "join"
       /\ rs = Riding(S) /\ row.owner \in rs /\ q.user \notin rs
       /\ again = {} => row.total = Counted(S) + q.n
    \/ /\ q.step = "createParty" /\ q.view = "request" /\ q.user = row.owner
       /\ S = {} /\ rs = {}
       /\ again = {} => row.total = q.n
    \/ /\ q.step = "rider"
       /\ Riding(S) = rs \cup {q.user} /\ row.owner \in Riding(S)
       /\ again = {} => row.total = Counted(S)
    \/ /\ q.step = "findParty" /\ Settled(S, rs, row, again)
       /\ q.row = row /\ q.user # row.owner
    \/ /\ q.step = "deduct" /\ Settled(S, rs, row, again)
       /\ q.row = row /\ Leaving(q, S, row)
    \/ /\ q.step = "removeRider" /\ Leaving(q, S, row)
       /\ rs = Riding(S) /\ row.owner \in rs
       /\ again = {} => row.total = Counted(S) - q.n
    \/ /\ q.step = "deleteParty" /\ Leaving(q, S, row)
       /\ rs = Riding(S) \ {q.user} /\ row.owner \in rs
       /\ again = {} => row.total = Counted(S) - q.n

\* ... for the requests Q that work on the order.
Fits(S, rs, row, again, Q) ==
    /\ \A p, other \in S : p.rider = other.rider => p = other
    /\ row = NoRow => S = {} /\ rs = {} /\ Q = {}
    /\ row # NoRow /\ Q = {} => Settled(S, rs, row, again)
    /\ \A q \in Q : Unsettled(q, S, rs, row, again)

AddsUp(o) == Fits(At(o), riders[o], order[o], Again(o), On(o))

\* A sharer who cancels has found a party.
Found(q) == q.step \in {"deduct", "removeRider", "deleteParty"}

\* The id of a party is its own for good, so a party that is deleted late is the one
\* that was found, or none.
PartyIds ==
    /\ IsFiniteSet(parties)
    /\ \A p, other \in parties : p.id = other.id => p = other
    /\ \A p \in parties : p.id <= partySeq
    /\ \A r \in Requests : Found(req[r]) =>
        /\ req[r].party <= partySeq
        /\ \A p \in parties : p.id = req[r].party => p.ride = req[r].ride

AddInv == PartyIds /\ \A o \in Orders : o \notin overlapped => AddsUp(o)

-----------------------------------------------------------------------------
(* Counting passengers *)

LEMMA CountedType ==
    ASSUME NEW S, IsFiniteSet(S), S \subseteq Party
    PROVE  Counted(S) \in Int
<1>1. \A p \in S : [x \in S |-> x.passengers][p] \in Int
    BY DEF Party
<1> QED
    BY <1>1, SumType DEF Counted

LEMMA CountedNone == Counted({}) = 0
BY SumEmpty DEF Counted

LEMMA CountedMore ==
    ASSUME NEW S, IsFiniteSet(S), S \subseteq Party, NEW p \in Party, p \notin S
    PROVE  Counted(S \cup {p}) = Counted(S) + p.passengers
<1> DEFINE f == [x \in S \cup {p} |-> x.passengers]
<1>1. \A x \in S \cup {p} : f[x] \in Int
    BY DEF Party
<1>2. SumOver(S \cup {p}, f) = f[p] + SumOver(S, f)
    <2> HIDE DEF f
    <2> QED
        BY <1>1, SumAdd
<1>3. SumOver(S, f) = Counted(S)
    <2>1. \A x \in S : f[x] = [y \in S |-> y.passengers][x]
        OBVIOUS
    <2> HIDE DEF f
    <2> QED
        BY <2>1, SumSame DEF Counted
<1>4. f[p] = p.passengers /\ p.passengers \in Int
    BY DEF Party
<1> QED
    BY <1>2, <1>3, <1>4, CountedType DEF Counted

LEMMA CountedLess ==
    ASSUME NEW S, IsFiniteSet(S), S \subseteq Party, NEW p \in S
    PROVE  Counted(S \ {p}) = Counted(S) - p.passengers
<1> DEFINE T == S \ {p}
<1>1. IsFiniteSet(T) /\ T \subseteq Party /\ p \in Party /\ p \notin T /\ S = T \cup {p}
    BY FS_Subset
<1> HIDE DEF T
<1>2. Counted(S) = Counted(T) + p.passengers
    BY <1>1, CountedMore
<1>3. p.passengers \in Int /\ Counted(T) \in Int
    BY <1>1, CountedType DEF Party
<1> QED
    BY <1>2, <1>3 DEF T

LEMMA CountedOne == ASSUME NEW p \in Party PROVE Counted({p}) = p.passengers
<1>1. IsFiniteSet({}) /\ {} \cup {p} = {p} /\ p.passengers \in Int
    BY FS_EmptySet DEF Party
<1> QED
    BY <1>1, CountedNone, CountedMore

-----------------------------------------------------------------------------
(* One lemma per step: from what a step finds to what it leaves *)

\* S, row, q of their types.
Typed(S, row, q) == S \subseteq Party /\ IsFiniteSet(S) /\ row \in Row /\ q \in Request

\* Request q at another step.
To(q, step) == [q EXCEPT !.step = step]

LEMMA ToStep ==
    ASSUME NEW q, q \in Request, NEW step
    PROVE  LET x == To(q, step)
           IN  /\ x.step = step /\ x.view = q.view /\ x.user = q.user /\ x.n = q.n
               /\ x.ride = q.ride /\ x.party = q.party /\ x.row = q.row
BY DEF To, Request

LEMMA FitsOne ==
    ASSUME NEW S, NEW rs, NEW row, NEW again, NEW q
    PROVE  Fits(S, rs, row, again, {q}) <=>
             /\ \A p, other \in S : p.rider = other.rider => p = other
             /\ row # NoRow /\ Unsettled(q, S, rs, row, again)
BY DEF Fits

LEMMA FitsNone ==
    ASSUME NEW S, NEW rs, NEW row, NEW again
    PROVE  Fits(S, rs, row, again, {}) <=>
             /\ \A p, other \in S : p.rider = other.rider => p = other
             /\ row = NoRow => S = {} /\ rs = {}
             /\ row # NoRow => Settled(S, rs, row, again)
BY DEF Fits

LEMMA ViewFits ==
    ASSUME NEW S, NEW rs, NEW row, NEW again, NEW q,
           Fits(S, rs, row, again, {}), row # NoRow,
           \/ q.step \in {"save", "delete"} /\ (q.view = "modify" => q.user = row.owner)
           \/ q.step = "findParty" /\ q.row = row /\ q.user # row.owner
    PROVE  Fits(S, rs, row, again, {q})
<1>1. /\ \A p, other \in S : p.rider = other.rider => p = other
      /\ Settled(S, rs, row, again)
    BY FitsNone
<1>2. Unsettled(q, S, rs, row, again)
    BY <1>1 DEF Unsettled
<1> QED
    BY <1>1, <1>2, FitsOne

LEMMA RequestFits ==
    ASSUME NEW S, NEW rs, NEW again, NEW row, NEW q,
           Fits(S, rs, NoRow, again, {}), row # NoRow,
           q.step = "createParty", q.view = "request", q.user = row.owner, row.total = q.n
    PROVE  Fits(S, rs, row, again, {q})
<1>1. S = {} /\ rs = {}
    BY FitsNone
<1>2. Unsettled(q, S, rs, row, again)
    BY <1>1 DEF Unsettled
<1>3. \A p, other \in S : p.rider = other.rider => p = other
    BY <1>1
<1> QED
    BY <1>2, <1>3, FitsOne

\* Save writes what the request read, edited; again is what the order is counted as
\* afterwards.
LEMMA SaveFits ==
    ASSUME NEW S, NEW rs, NEW again, NEW more, NEW q, Typed(S, q.row, q),
           Fits(S, rs, q.row, again, {q}), q.step = "save",
           q.view \in {"modify", "join", "confirm", "complete"},
           more = {} => /\ again = {}
                        /\ q.view = "join" => q.user \notin Riding(S)
                        /\ q.view = "modify" => Riding(S) \subseteq {q.user},
           Edited(q) # NoRow
    PROVE  /\ q.view \in {"modify", "join"} =>
                Fits(S, rs, Edited(q), more, {To(q, "party")})
           /\ q.view \in {"confirm", "complete"} => Fits(S, rs, Edited(q), more, {})
<1> DEFINE row == q.row
           new == Edited(q)
           x == To(q, "party")
<1>1. /\ \A p, other \in S : p.rider = other.rider => p = other
      /\ Unsettled(q, S, rs, row, again)
    BY FitsOne
<1>a. Settled(S, rs, row, again) /\ (q.view = "modify" => q.user = row.owner)
    BY <1>1 DEF Unsettled
<1>2. /\ row.total \in Int /\ q.n \in Int /\ Counted(S) \in Int
      /\ x.step = "party" /\ x.view = q.view /\ x.user = q.user /\ x.n = q.n
    BY CountedType, ToStep DEF Typed, Row, Request
<1>3. row \in Row
    BY DEF Typed
<1>4. CASE q.view = "modify"
    <2>1. new.owner = row.owner /\ new.total = q.n
        BY <1>2, <1>3, <1>4 DEF Edited, Row
    <2> HIDE DEF new, x, row
    <2>2. Unsettled(x, S, rs, new, more)
        BY <1>a, <1>2, <1>4, <2>1 DEF Unsettled, Settled
    <2> QED
        BY <1>1, <1>4, <2>2, FitsOne DEF new, x
<1>5. CASE q.view = "join"
    <2>1. new.owner = row.owner /\ new.total = row.total + q.n
        BY <1>2, <1>3, <1>5 DEF Edited, Row
    <2> HIDE DEF new, x, row
    <2>2. Unsettled(x, S, rs, new, more)
        BY <1>a, <1>2, <1>5, <2>1 DEF Unsettled, Settled
    <2> QED
        BY <1>1, <1>5, <2>2, FitsOne DEF new, x
<1>6. CASE q.view \in {"confirm", "complete"}
    <2>1. new.owner = row.owner /\ new.total = row.total
        BY <1>3, <1>6 DEF Edited, Row
    <2> HIDE DEF new, row
    <2>2. Settled(S, rs, new, more)
        BY <1>a, <1>6, <2>1 DEF Settled
    <2> QED
        BY <1>1, <1>6, <2>2, FitsNone DEF new
<1> QED
    BY <1>4, <1>5, <1>6

\* The parties of user u, and the parties S with those given the size n.
Mine(S, u) == {p \in S : p.rider = u}
Resized(S, mine, n) == (S \ mine) \cup {[p EXCEPT !.passengers = n] : p \in mine}

\* The party of the user, if there is one, is the only one, and takes the new size.
LEMMA PutFits ==
    ASSUME NEW S, NEW rs, NEW row, NEW again, NEW q, Typed(S, row, q),
           Fits(S, rs, row, again, {q}), q.step = "party",
           NEW mine, mine = Mine(S, q.user)
    PROVE  /\ mine = {} => Fits(S, rs, row, again, {To(q, "createParty")})
           /\ mine # {} =>
                /\ Cardinality(mine) = 1
                /\ IF q.view = "modify" THEN Fits(Resized(S, mine, q.n), rs, row, again, {})
                   ELSE Fits(Resized(S, mine, q.n), rs, row, again, {To(q, "rider")})
<1>1. /\ \A p, other \in S : p.rider = other.rider => p = other
      /\ row # NoRow /\ Unsettled(q, S, rs, row, again)
    BY FitsOne
<1>a. /\ rs = Riding(S) /\ row.owner \in rs /\ q.view \in {"modify", "join"}
      /\ q.view = "modify" => q.user = row.owner
      /\ again = {} /\ q.view = "modify" => rs = {q.user} /\ row.total = q.n
      /\ again = {} /\ q.view = "join" => q.user \notin rs /\ row.total = Counted(S) + q.n
    BY <1>1 DEF Unsettled
<1> DEFINE T == Resized(S, mine, q.n)
<1>2. q.user \in rs <=> mine # {}
    BY <1>a DEF Riding, Mine
<1>3. q \in Request /\ S \subseteq Party
    BY DEF Typed
<1>4. CASE mine = {}
    <2> DEFINE x == To(q, "createParty")
    <2>1. q.view = "join" /\ x.step = "createParty" /\ x.view = "join" /\ x.user = q.user
          /\ x.n = q.n
        BY <1>a, <1>2, <1>3, <1>4, ToStep
    <2> HIDE DEF x
    <2>2. Unsettled(x, S, rs, row, again)
        BY <1>1, <1>a, <1>2, <1>4, <2>1 DEF Unsettled
    <2> QED
        BY <1>1, <1>a, <1>4, <2>2, FitsOne DEF x
<1>5. CASE mine # {}
    <2>1. PICK m \in S : mine = {m} /\ m.rider = q.user
        BY <1>1, <1>a, <1>5 DEF Mine
    <2> DEFINE m2 == [m EXCEPT !.passengers = q.n]
    <2>2. /\ T = (S \ {m}) \cup {m2} /\ m2 \in Party /\ m2.rider = q.user
          /\ m2.passengers = q.n
        BY <1>3, <2>1 DEF Party, Request, Resized
    <2>3. Cardinality(mine) = 1
        BY <2>1, FS_Singleton
    <2> HIDE DEF m2, T
    <2>4. /\ \A p, other \in T : p.rider = other.rider => p = other
          /\ Riding(T) = Riding(S)
        BY <1>1, <1>a, <2>1, <2>2 DEF Riding
    <2>5. again = {} => q.view = "modify" /\ row.total = Counted(T)
        <3> SUFFICES ASSUME again = {} PROVE q.view = "modify" /\ row.total = Counted(T)
            OBVIOUS
        <3>1. q.view = "modify" /\ rs = {q.user} /\ row.total = q.n
            BY <1>1, <1>a, <1>2, <1>5
        <3>2. S = {m}
            BY <1>1, <1>a, <2>1, <3>1 DEF Riding
        <3>3. T = {m2}
            BY <2>2, <3>2
        <3> QED
            BY <2>2, <3>1, <3>3, CountedOne
    <2>6. CASE q.view = "modify"
        <3>1. Settled(T, rs, row, again)
            BY <1>1, <1>a, <2>4, <2>5 DEF Settled
        <3> QED
            BY <1>1, <1>a, <1>5, <2>3, <2>4, <2>6, <3>1, FitsNone DEF T
    <2>7. CASE q.view # "modify"
        <3> DEFINE x == To(q, "rider")
        <3>1. x.step = "rider" /\ x.user = q.user
            BY <1>3, ToStep
        <3> HIDE DEF x
        <3>2. Unsettled(x, T, rs, row, again)
            BY <1>1, <1>a, <1>2, <1>5, <2>4, <2>5, <2>7, <3>1 DEF Unsettled
        <3> QED
            BY <1>1, <1>a, <1>5, <2>3, <2>4, <2>7, <3>2, FitsOne DEF x, T
    <2> QED
        BY <2>6, <2>7
<1> QED
    BY <1>4, <1>5

\* The new party is the first of its user.
LEMMA CreateFits ==
    ASSUME NEW S, NEW rs, NEW row, NEW again, NEW q, Typed(S, row, q),
           Fits(S, rs, row, again, {q}), q.step = "createParty",
           NEW p \in Party, p.rider = q.user, p.passengers = q.n, p \notin S
    PROVE  /\ q.view # "modify"
           /\ Fits(S \cup {p}, rs, row, again, {To(q, "rider")})
<1> DEFINE x == To(q, "rider")
           T == S \cup {p}
<1>1. /\ \A m, other \in S : m.rider = other.rider => m = other
      /\ row # NoRow /\ Unsettled(q, S, rs, row, again)
    BY FitsOne
<1>2. /\ q.view \in {"join", "request"} /\ rs = Riding(S) /\ q.user \notin rs
      /\ row.owner \in rs \cup {q.user}
      /\ again = {} => row.total = Counted(S) + q.n
    <2>1. CASE q.view = "join"
        BY <1>1, <2>1 DEF Unsettled
    <2>2. CASE q.view # "join"
        <3>1. /\ q.view = "request" /\ S = {} /\ rs = {} /\ q.user = row.owner
              /\ again = {} => row.total = q.n
            BY <1>1, <2>2 DEF Unsettled
        <3>2. Counted(S) + q.n = q.n
            BY <3>1, CountedNone DEF Typed, Request
        <3>3. Riding(S) = {}
            BY <3>1 DEF Riding
        <3> QED
            BY <3>1, <3>2, <3>3
    <2> QED
        BY <2>1, <2>2
<1>3. Riding(T) = rs \cup {q.user} /\ Counted(T) = Counted(S) + q.n
    <2>1. Counted(T) = Counted(S) + p.passengers
        BY CountedMore DEF Typed
    <2> QED
        BY <1>2, <2>1 DEF Riding
<1>4. \A m, other \in T : m.rider = other.rider => m = other
    BY <1>1, <1>2 DEF Riding
<1>5. x.step = "rider" /\ x.user = q.user
    BY ToStep DEF Typed
<1> HIDE DEF x, T
<1>6. Unsettled(x, T, rs, row, again)
    BY <1>2, <1>3, <1>5 DEF Unsettled
<1> QED
    BY <1>1, <1>2, <1>4, <1>6, FitsOne DEF x, T

LEMMA RiderFits ==
    ASSUME NEW S, NEW rs, NEW row, NEW again, NEW q,
           Fits(S, rs, row, again, {q}), q.step = "rider"
    PROVE  row # NoRow /\ Fits(S, rs \cup {q.user}, row, again, {})
<1>1. /\ \A m, other \in S : m.rider = other.rider => m = other
      /\ row # NoRow /\ Unsettled(q, S, rs, row, again)
    BY FitsOne
<1>2. Settled(S, rs \cup {q.user}, row, again)
    BY <1>1 DEF Unsettled, Settled
<1> QED
    BY <1>1, <1>2, FitsNone

LEMMA DeletedFits == ASSUME NEW again PROVE Fits({}, {}, NoRow, again, {})
BY FitsNone

\* A sharer without a party has nothing to cancel; else the party found is deducted.
LEMMA FindFits ==
    ASSUME NEW S, NEW rs, NEW row, NEW again, NEW q, Typed(S, row, q),
           Fits(S, rs, row, again, {q}), q.step = "findParty"
    PROVE  /\ Fits(S, rs, row, again, {})
           /\ \A p \in S : p.rider = q.user =>
                Fits(S, rs, row, again,
                     {[q EXCEPT !.n = p.passengers, !.party = p.id, !.step = "deduct"]})
<1>1. /\ \A m, other \in S : m.rider = other.rider => m = other
      /\ row # NoRow /\ Unsettled(q, S, rs, row, again)
    BY FitsOne
<1>2. Settled(S, rs, row, again) /\ q.row = row /\ q.user # row.owner
    BY <1>1 DEF Unsettled
<1>3. ASSUME NEW p \in S, p.rider = q.user
      PROVE  Fits(S, rs, row, again,
                  {[q EXCEPT !.n = p.passengers, !.party = p.id, !.step = "deduct"]})
    <2> DEFINE x == [q EXCEPT !.n = p.passengers, !.party = p.id, !.step = "deduct"]
    <2>1. /\ x.step = "deduct" /\ x.n = p.passengers /\ x.party = p.id
          /\ x.user = q.user /\ x.row = q.row
        BY DEF Typed, Request
    <2> HIDE DEF x
    <2>2. Leaving(x, S, row)
        BY <1>2, <1>3, <2>1 DEF Leaving
    <2>3. Unsettled(x, S, rs, row, again)
        BY <1>2, <2>1, <2>2 DEF Unsettled
    <2> QED
        BY <1>1, <2>3, FitsOne DEF x
<1> QED
    BY <1>1, <1>2, <1>3, FitsNone

LEMMA DeductFits ==
    ASSUME NEW S, NEW rs, NEW row, NEW again, NEW q, Typed(S, row, q),
           Fits(S, rs, row, again, {q}), q.step = "deduct",
           NEW new, new = [row EXCEPT !.total = q.row.total - q.n], new # NoRow
    PROVE  row # NoRow /\ Fits(S, rs, new, again, {To(q, "removeRider")})
<1> DEFINE x == To(q, "removeRider")
<1>1. /\ \A m, other \in S : m.rider = other.rider => m = other
      /\ row # NoRow /\ Unsettled(q, S, rs, row, again)
    BY FitsOne
<1>2. Settled(S, rs, row, again) /\ q.row = row /\ Leaving(q, S, row)
    BY <1>1 DEF Unsettled
<1>3. new.owner = row.owner /\ new.total = row.total - q.n
    BY <1>2 DEF Typed, Row
<1>4. x.step = "removeRider" /\ x.user = q.user /\ x.n = q.n /\ x.party = q.party
    BY ToStep DEF Typed
<1> HIDE DEF x
<1>5. Leaving(x, S, new)
    BY <1>2, <1>3, <1>4 DEF Leaving
<1>6. Unsettled(x, S, rs, new, again)
    BY <1>2, <1>3, <1>4, <1>5 DEF Unsettled, Settled
<1> QED
    BY <1>1, <1>6, FitsOne DEF x

LEMMA RemoveFits ==
    ASSUME NEW S, NEW rs, NEW row, NEW again, NEW q, Typed(S, row, q),
           Fits(S, rs, row, again, {q}), q.step = "removeRider"
    PROVE  Fits(S, rs \ {q.user}, row, again, {To(q, "deleteParty")})
<1> DEFINE x == To(q, "deleteParty")
<1>1. /\ \A m, other \in S : m.rider = other.rider => m = other
      /\ row # NoRow /\ Unsettled(q, S, rs, row, again)
    BY FitsOne
<1>2. /\ Leaving(q, S, row) /\ rs = Riding(S) /\ row.owner \in rs
      /\ again = {} => row.total = Counted(S) - q.n
    BY <1>1 DEF Unsettled
<1>3. x.step = "deleteParty" /\ x.user = q.user /\ x.n = q.n /\ x.party = q.party
    BY ToStep DEF Typed
<1> HIDE DEF x
<1>4. Leaving(x, S, row) /\ q.user # row.owner
    BY <1>2, <1>3 DEF Leaving
<1>5. Unsettled(x, S, rs \ {q.user}, row, again)
    BY <1>2, <1>3, <1>4 DEF Unsettled
<1> QED
    BY <1>1, <1>5, FitsOne DEF x

LEMMA DeletePartyFits ==
    ASSUME NEW S, NEW rs, NEW row, NEW again, NEW q, Typed(S, row, q),
           Fits(S, rs, row, again, {q}), q.step = "deleteParty",
           \A p, other \in S : p.id = other.id => p = other
    PROVE  Fits({p \in S : p.id # q.party}, rs, row, again, {})
<1>1. /\ \A m, other \in S : m.rider = other.rider => m = other
      /\ row # NoRow /\ Unsettled(q, S, rs, row, again)
    BY FitsOne
<1>2. /\ Leaving(q, S, row) /\ rs = Riding(S) \ {q.user} /\ row.owner \in rs
      /\ again = {} => row.total = Counted(S) - q.n
    BY <1>1 DEF Unsettled
<1>3. PICK p \in S : p.id = q.party /\ p.rider = q.user /\ p.passengers = q.n
    BY <1>2 DEF Leaving
<1> DEFINE T == S \ {p}
<1>4. {m \in S : m.id # q.party} = T
    BY <1>3
<1>5. Riding(T) = Riding(S) \ {q.user}
    BY <1>1, <1>3 DEF Riding
<1>6. Counted(T) = Counted(S) - q.n
    <2>1. Counted(T) = Counted(S) - p.passengers
        BY CountedLess DEF Typed
    <2> QED
        BY <1>3, <2>1
<1>7. \A m, other \in T : m.rider = other.rider => m = other
    BY <1>1
<1> HIDE DEF T
<1>8. Settled(T, rs, row, again)
    BY <1>2, <1>5, <1>6 DEF Settled
<1> QED
    BY <1>1, <1>4, <1>7, <1>8, FitsNone

-----------------------------------------------------------------------------
(* One lemma per action: orders that request r does not work on keep adding up *)

\* A step of request r, which works on order o and on no other.
Works(r, o) ==
    /\ \A a \in Orders \ {o} : order'[a] = order[a] /\ riders'[a] = riders[a]
    /\ \A p : p \in parties' /\ p.ride # o <=> p \in parties /\ p.ride # o
    /\ \A s \in Requests \ {r} : req'[s] = req[s]
    /\ {req[r].ride, req'[r].ride} \subseteq {o, NoOrder}
    /\ recounted \subseteq recounted' /\ recounted' \subseteq recounted \cup {o}
    /\ overlapped \subseteq overlapped'

LEMMA OthersAddUp ==
    ASSUME AddInv, NoOrderIsNone, NEW r \in Requests, NEW o \in Orders, Works(r, o),
           NEW a \in Orders \ {o}, a \notin overlapped'
    PROVE  AddsUp(a)'
<1>1. AddsUp(a)
    BY DEF AddInv, Works
<1>2. order'[a] = order[a] /\ riders'[a] = riders[a]
    BY DEF Works
<1>3. At(a)' = At(a)
    BY DEF Works, At
<1>4. Again(a)' = Again(a)
    BY DEF Works, Again
<1>5. On(a)' = On(a)
    <2>1. req[r].ride # a /\ req'[r].ride # a /\ \A s \in Requests \ {r} : req'[s] = req[s]
        BY NoOrderIsNone DEF Works
    <2> QED
        BY <2>1 DEF On
<1> QED
    BY <1>1, <1>2, <1>3, <1>4, <1>5 DEF AddsUp

LEMMA WorksAdds ==
    ASSUME AddInv, NoOrderIsNone, NEW r \in Requests, NEW o \in Orders, Works(r, o),
           PartyIds', o \notin overlapped' => AddsUp(o)'
    PROVE  AddInv'
<1>1. ASSUME NEW a \in Orders, a \notin overlapped' PROVE AddsUp(a)'
    <2>1. CASE a = o
        BY <1>1, <2>1
    <2>2. CASE a # o
        BY <1>1, <2>2, OthersAddUp
    <2> QED
        BY <2>1, <2>2
<1> QED
    BY <1>1 DEF AddInv

\* The only request on the order, before and after.
LEMMA OnAlone ==
    ASSUME IInv, NEW r \in Requests, NEW o \in Orders, o \notin overlapped,
           req[r].ride = o, Works(r, o)
    PROVE  /\ On(o) = {req[r]}
           /\ req'[r].ride = o => On(o)' = {req'[r]}
           /\ req'[r].ride # o => On(o)' = {}
<1>1. \A s \in Requests : req[s].ride = o => s = r
    BY DEF IInv, AloneInv
<1>2. \A s \in Requests : s # r => req'[s].ride # o
    BY <1>1 DEF Works
<1> QED
    BY <1>1, <1>2 DEF On

LEMMA TypedAlone ==
    ASSUME TypeOK, PartyIds, NEW r \in Requests, NEW o \in Orders
    PROVE  Typed(At(o), order[o], req[r])
<1>1. IsFiniteSet(At(o))
    BY FS_Subset DEF PartyIds, At
<1> QED
    BY <1>1 DEF Typed, TypeOK, At

\* The step of a request that is alone on its order.
LEMMA AloneFits ==
    ASSUME IInv, AddInv, NEW r \in Requests, req[r].step # "idle", req[r].ride \notin overlapped
    PROVE  LET o == req[r].ride
           IN  /\ Typed(At(o), order[o], req[r])
               /\ Fits(At(o), riders[o], order[o], Again(o), {req[r]})
<1> DEFINE o == req[r].ride
<1>1. o \in Orders
    BY DEF IInv, TypeOK
<1>2. \A s \in Requests : req[s].ride = o => s = r
    BY <1>1 DEF IInv, AloneInv
<1>3. On(o) = {req[r]}
    BY <1>2 DEF On
<1>4. AddsUp(o)
    BY <1>1 DEF AddInv
<1>5. Typed(At(o), order[o], req[r])
    BY <1>1, TypedAlone DEF IInv, AddInv
<1> QED
    BY <1>3, <1>4, <1>5 DEF AddsUp

\* Steps that create no party and find none.
LEMMA QuietIds ==
    ASSUME TypeOK, PartyIds, parties' \subseteq parties, partySeq' \in Nat, partySeq <= partySeq',
           \A s \in Requests : Found(req'[s]) =>
               Found(req[s]) /\ req'[s].party = req[s].party /\ req'[s].ride = req[s].ride
    PROVE  PartyIds'
<1>1. IsFiniteSet(parties')
    BY FS_Subset DEF PartyIds
<1>2. \A p \in parties' : p.id <= partySeq'
    BY DEF TypeOK, PartyIds, Party
<1>3. \A s \in Requests : Found(req'[s]) => req'[s].party <= partySeq'
    BY DEF TypeOK, PartyIds, Request
<1>4. /\ \A p, other \in parties' : p.id = other.id => p = other
      /\ \A s \in Requests : Found(req'[s]) =>
           \A p \in parties' : p.id = req'[s].party => p.ride = req'[s].ride
    BY DEF PartyIds
<1>5. \A s \in Requests : Found(req[s])' <=> Found(req'[s])
    BY DEF Found
<1> QED
    BY <1>1, <1>2, <1>3, <1>4, <1>5 DEF PartyIds

\* A view that begins alone finds the order settled.
LEMMA BeginAdds ==
    ASSUME IInv, AddInv, NoOrderIsNone,
           NEW r \in Requests, NEW u \in Users, NEW o \in Orders, NEW n \in Int,
           NEW share \in BOOLEAN, NEW view \in Views, NEW step,
           Begin(r, view, step, u, o, n, share), UNCHANGED tables, Exists(o),
           \/ step \in {"save", "delete"} /\ (view = "modify" => u = order[o].owner)
           \/ step = "findParty" /\ u # order[o].owner
    PROVE  AddInv'
<1> DEFINE q == [view |-> view, step |-> step, user |-> u, ride |-> o, row |-> order[o],
                 n |-> n, share |-> share, party |-> 0]
<1>1. /\ req[r] = Idle /\ UNCHANGED <<order, riders, parties, partySeq, recounted>>
      /\ req' = [req EXCEPT ![r] = q]
      /\ overlapped' = IF Busy(o) THEN overlapped \cup {o} ELSE overlapped
    BY DEF Begin, tables
<1>2. /\ q.step = step /\ q.view = view /\ q.user = u /\ q.ride = o /\ q.row = order[o]
      /\ step \in {"save", "delete", "findParty"}
    OBVIOUS
<1> HIDE DEF q
<1>3. req'[r] = q /\ \A s \in Requests \ {r} : req'[s] = req[s]
    BY <1>1 DEF IInv, TypeOK
<1>4. Works(r, o)
    BY <1>1, <1>2, <1>3 DEF Works, Idle
<1>5. PartyIds'
    <2>1. \A s \in Requests : Found(req'[s]) =>
            Found(req[s]) /\ req'[s].party = req[s].party /\ req'[s].ride = req[s].ride
        BY <1>2, <1>3 DEF Found
    <2> QED
        BY <1>1, <2>1, QuietIds DEF IInv, TypeOK, AddInv
<1>6. ASSUME o \notin overlapped' PROVE AddsUp(o)'
    <2>1. o \notin overlapped /\ \A s \in Requests : req[s].ride # o
        BY <1>1, <1>6 DEF Busy
    <2>2. On(o) = {} /\ On(o)' = {q}
        BY <1>2, <1>3, <2>1 DEF On
    <2>3. Fits(At(o), riders[o], order[o], Again(o), {})
        BY <2>1, <2>2 DEF AddInv, AddsUp
    <2>4. Fits(At(o), riders[o], order[o], Again(o), {q})
        BY <1>2, <2>3, ViewFits DEF Exists
    <2> QED
        BY <1>1, <2>2, <2>4 DEF AddsUp, At, Again
<1> QED
    BY <1>4, <1>5, <1>6, WorksAdds

\* A new order has no party and no rider yet.
LEMMA RequestAdds ==
    ASSUME IInv, AddInv, NoOrderIsNone,
           NEW r \in Requests, NEW u \in Users, NEW o \in Orders, NEW n \in Sizes,
           NEW share \in BOOLEAN, request_ride(r, u, o, n, share)
    PROVE  AddInv'
<1> DEFINE new == [status |-> "open", owner |-> u, driver |-> NoUser, total |-> n,
                   shareable |-> share]
           q == [view |-> "request", step |-> "createParty", user |-> u, ride |-> o,
                 row |-> order'[o], n |-> n, share |-> share, party |-> 0]
<1>1. /\ req[r] = Idle /\ ~Exists(o) /\ o \notin cancelled
      /\ order' = [order EXCEPT ![o] = new] /\ req' = [req EXCEPT ![r] = q]
      /\ UNCHANGED <<riders, parties, partySeq, overlapped, recounted>>
    BY DEF request_ride, history
<1>2. new.owner = u /\ new.total = n /\ new # NoRow
    BY DEF NoRow
<1> HIDE DEF new
<1>3. order'[o] = new /\ \A a \in Orders \ {o} : order'[a] = order[a]
    BY <1>1 DEF IInv, TypeOK
<1>4. q.step = "createParty" /\ q.view = "request" /\ q.user = u /\ q.ride = o /\ q.n = n
    OBVIOUS
<1> HIDE DEF q
<1>5. req'[r] = q /\ \A s \in Requests \ {r} : req'[s] = req[s]
    BY <1>1 DEF IInv, TypeOK
<1>6. Works(r, o)
    BY <1>1, <1>3, <1>4, <1>5 DEF Works, Idle
<1>7. PartyIds'
    <2>1. \A s \in Requests : Found(req'[s]) =>
            Found(req[s]) /\ req'[s].party = req[s].party /\ req'[s].ride = req[s].ride
        BY <1>4, <1>5 DEF Found
    <2> QED
        BY <1>1, <2>1, QuietIds DEF IInv, TypeOK, AddInv
<1>8. ASSUME o \notin overlapped' PROVE AddsUp(o)'
    <2>1. o \notin overlapped /\ \A s \in Requests : req[s].ride # o
        BY <1>1, <1>8 DEF IInv, RideInv
    <2>2. On(o) = {} /\ On(o)' = {q}
        BY <1>4, <1>5, <2>1 DEF On
    <2>3. Fits(At(o), riders[o], NoRow, Again(o), {})
        BY <1>1, <2>1, <2>2 DEF AddInv, AddsUp, Exists
    <2>4. Fits(At(o), riders[o], new, Again(o), {q})
        BY <1>2, <1>4, <2>3, RequestFits
    <2> QED
        BY <1>1, <1>3, <2>2, <2>4 DEF AddsUp, At, Again
<1> QED
    BY <1>6, <1>7, <1>8, WorksAdds

\* cancel_ride deletes for the owner and leaves for anybody else; only the owner
\* modifies.
LEMMA ViewAdds ==
    ASSUME IInv, AddInv, SizesAreInt, NoUserIsNone, NoOrderIsNone, NEW r \in Requests, View(r)
    PROVE  AddInv'
<1> PICK u \in Users, o \in Orders :
        \/ cancel_ride(r, u, o) \/ confirm_order(r, u, o) \/ Complete(r, u, o)
        \/ \E n \in Sizes :
            \/ join_ride(r, u, o, n)
            \/ \E share \in BOOLEAN :
                request_ride(r, u, o, n, share) \/ modify_ride(r, u, o, n, share)
    BY DEF View
<1>a. 0 \in Int /\ FALSE \in BOOLEAN /\ TRUE \in BOOLEAN
      /\ {"modify", "join", "confirm", "complete", "cancel"} \subseteq Views
    BY DEF Views
<1>1. CASE cancel_ride(r, u, o)
    <2> DEFINE step == IF order[o].owner = u THEN "delete" ELSE "findParty"
    <2>1. Begin(r, "cancel", step, u, o, 0, FALSE) /\ UNCHANGED tables /\ Exists(o)
        BY <1>1 DEF cancel_ride
    <2>2. step \in {"save", "delete"} \/ (step = "findParty" /\ u # order[o].owner)
        OBVIOUS
    <2> HIDE DEF step, Begin
    <2> QED
        BY <1>a, <2>1, <2>2, BeginAdds
<1>2. CASE confirm_order(r, u, o)
    <2>1. Begin(r, "confirm", "save", u, o, 0, FALSE) /\ UNCHANGED tables
        BY <1>2 DEF confirm_order
    <2>2. Exists(o)
        BY <1>2 DEF confirm_order, Exists, NoRow
    <2> HIDE DEF Begin
    <2> QED
        BY <1>a, <2>1, <2>2, BeginAdds
<1>3. CASE Complete(r, u, o)
    <2>1. Exists(o)
        BY <1>3, NoUserIsNone DEF Complete, complete_order, order_detail, Exists, NoRow
    <2>2. Begin(r, "complete", "save", u, o, 0, FALSE) /\ UNCHANGED tables
        BY <1>3 DEF Complete
    <2> HIDE DEF Begin
    <2> QED
        BY <1>a, <2>1, <2>2, BeginAdds
<1>4. ASSUME NEW n \in Sizes, join_ride(r, u, o, n) PROVE AddInv'
    <2>1. Begin(r, "join", "save", u, o, n, TRUE) /\ UNCHANGED tables
        BY <1>4 DEF join_ride
    <2>2. Exists(o) /\ n \in Int
        BY <1>4, SizesAreInt DEF join_ride, Exists, NoRow
    <2> HIDE DEF Begin
    <2> QED
        BY <1>a, <2>1, <2>2, BeginAdds
<1>5. ASSUME NEW n \in Sizes, NEW share \in BOOLEAN, modify_ride(r, u, o, n, share)
      PROVE  AddInv'
    <2>1. Begin(r, "modify", "save", u, o, n, share) /\ UNCHANGED tables
        BY <1>5 DEF modify_ride
    <2>2. Exists(o) /\ n \in Int /\ u = order[o].owner
        BY <1>5, SizesAreInt DEF modify_ride, Exists, NoRow
    <2> HIDE DEF Begin
    <2> QED
        BY <1>a, <2>1, <2>2, BeginAdds
<1>6. ASSUME NEW n \in Sizes, NEW share \in BOOLEAN, request_ride(r, u, o, n, share)
      PROVE  AddInv'
    BY <1>6, RequestAdds
<1> QED
    BY <1>1, <1>2, <1>3, <1>4, <1>5, <1>6

LEMMA EditedExists ==
    ASSUME NEW q, q \in Request, q.row.status # "none",
           q.view \in {"modify", "join", "confirm", "complete"}
    PROVE  Edited(q) # NoRow
<1>1. q.row \in Row
    BY DEF Request
<1>2. CASE q.view = "modify"
    BY <1>1, <1>2 DEF Edited, Row, NoRow
<1>3. CASE q.view = "join"
    BY <1>1, <1>3 DEF Edited, Row, NoRow
<1>4. CASE q.view = "confirm"
    BY <1>1, <1>4 DEF Edited, Row, NoRow
<1>5. CASE q.view = "complete"
    BY <1>1, <1>5 DEF Edited, Row, NoRow
<1> QED
    BY <1>2, <1>3, <1>4, <1>5

LEMMA SaveAdds ==
    ASSUME IInv, AddInv, NoOrderIsNone, NEW r \in Requests, Save(r)
    PROVE  AddInv'
<1>0. PICK q, o : q = req[r] /\ o = q.ride
    OBVIOUS
<1> DEFINE x == IF q.view \in {"modify", "join"} THEN To(q, "party") ELSE Idle
<1>1. /\ q.step = "save" /\ order' = [order EXCEPT ![o] = Edited(q)]
      /\ req' = [req EXCEPT ![r] = x]
      /\ recounted' = recounted \cup (IF Recounts(q) THEN {o} ELSE {})
      /\ UNCHANGED <<riders, parties, partySeq, overlapped>>
    BY <1>0 DEF Save, Written, GoTo, End, To
<1>2. /\ TypeOK /\ q \in Request /\ o \in Orders
      /\ q.view \in {"modify", "join", "confirm", "complete"}
    BY <1>0, <1>1 DEF IInv, TypeOK
<1>3. x.ride \in {o, NoOrder} /\ ~Found(x)
      /\ (q.view \in {"modify", "join"} => x = To(q, "party") /\ x.ride = o)
      /\ (q.view \in {"confirm", "complete"} => x.ride # o)
    BY <1>0, <1>2, NoOrderIsNone, ToStep DEF Idle, Found
<1> HIDE DEF x
<1>4. /\ req'[r] = x /\ \A s \in Requests \ {r} : req'[s] = req[s]
      /\ order'[o] = Edited(q) /\ \A a \in Orders \ {o} : order'[a] = order[a]
    BY <1>0, <1>1, <1>2 DEF TypeOK
<1>5. Works(r, o)
    BY <1>0, <1>1, <1>3, <1>4 DEF Works
<1>6. PartyIds'
    <2>1. \A s \in Requests : Found(req'[s]) =>
            Found(req[s]) /\ req'[s].party = req[s].party /\ req'[s].ride = req[s].ride
        BY <1>0, <1>3, <1>4
    <2> QED
        BY <1>0, <1>1, <1>2, <2>1, QuietIds DEF TypeOK, AddInv
<1>7. ASSUME o \notin overlapped' PROVE AddsUp(o)'
    <2>1. o \notin overlapped
        BY <1>0, <1>1, <1>7
    <2>2. q.row = order[o]
        BY <1>0, <1>1, <1>2, <2>1 DEF IInv, AloneInv
    <2>3. Typed(At(o), q.row, q) /\ Fits(At(o), riders[o], q.row, Again(o), {q})
        BY <1>0, <1>1, <2>1, <2>2, AloneFits
    <2>4. Edited(q) # NoRow
        <3>1. q.row.status # "none"
            BY <1>0, <1>1, <1>2 DEF IInv, CopyInv
        <3> QED
            BY <1>0, <1>2, <3>1, EditedExists
    <2>5. Again(o)' = {} =>
            /\ Again(o) = {}
            /\ q.view = "join" => q.user \notin Riding(At(o))
            /\ q.view = "modify" => Riding(At(o)) \subseteq {q.user}
        <3> SUFFICES ASSUME Again(o)' = {}
                     PROVE  /\ Again(o) = {}
                            /\ q.view = "join" => q.user \notin Riding(At(o))
                            /\ q.view = "modify" => Riding(At(o)) \subseteq {q.user}
            OBVIOUS
        <3>1. o \notin recounted' /\ recounted \subseteq recounted'
            BY <1>1 DEF Again
        <3>2. o \notin recounted /\ ~Recounts(q)
            BY <1>1, <3>1
        <3>3. Again(o) = {}
            BY <3>2 DEF Again
        <3>4. ASSUME q.view = "join" PROVE q.user \notin Riding(At(o))
            BY <1>0, <3>2, <3>4 DEF Recounts, PartiesOf, Riding, At
        <3>5. ASSUME q.view = "modify" PROVE Riding(At(o)) \subseteq {q.user}
            BY <1>0, <3>2, <3>5 DEF Recounts, Riding, At
        <3> QED
            BY <3>3, <3>4, <3>5
    <2>6. /\ q.view \in {"modify", "join"} =>
                Fits(At(o), riders[o], Edited(q), Again(o)', {To(q, "party")})
          /\ q.view \in {"confirm", "complete"} =>
                Fits(At(o), riders[o], Edited(q), Again(o)', {})
        <3> DEFINE more == Again(o)'
        <3> HIDE DEF more
        <3> QED
            BY <1>1, <1>2, <2>3, <2>4, <2>5, SaveFits DEF more
    <2>7. /\ q.view \in {"modify", "join"} => On(o)' = {To(q, "party")}
          /\ q.view \in {"confirm", "complete"} => On(o)' = {}
        BY <1>0, <1>2, <1>3, <1>4, <1>5, <2>1, OnAlone
    <2>8. Fits(At(o), riders[o], order'[o], Again(o)', On(o)')
        BY <1>0, <1>2, <1>4, <2>6, <2>7
    <2> QED
        BY <1>0, <1>1, <2>8 DEF AddsUp, At
<1> QED
    BY <1>0, <1>2, <1>5, <1>6, <1>7, WorksAdds

\* The ids of the parties stay their own when one takes another size.
LEMMA PutIds ==
    ASSUME TypeOK, PartyIds, NEW n, NEW mine, mine \subseteq parties, UNCHANGED partySeq,
           parties' = Resized(parties, mine, n),
           \A s \in Requests : ~Found(req'[s]) \/ req'[s] = req[s]
    PROVE  PartyIds'
<1> DEFINE New(p) == [p EXCEPT !.passengers = n]
<1>1. \A p \in mine : New(p).id = p.id /\ New(p).ride = p.ride
    BY DEF TypeOK, Party
<1>2. parties' = (parties \ mine) \cup {New(p) : p \in mine}
    BY DEF Resized
<1> HIDE DEF New
<1>3. IsFiniteSet(parties')
    <2>1. IsFiniteSet(mine) /\ IsFiniteSet(parties \ mine)
        BY FS_Subset DEF PartyIds
    <2>2. IsFiniteSet({New(p) : p \in mine})
        <3> DEFINE f == [p \in mine |-> New(p)]
        <3>1. f \in Surjection(mine, {New(p) : p \in mine})
            BY DEF Surjection
        <3> HIDE DEF f
        <3> QED
            BY <2>1, <3>1, FS_Surjection
    <2> DEFINE A == parties \ mine
               B == {New(p) : p \in mine}
    <2> HIDE DEF A, B
    <2>3. IsFiniteSet(A) /\ IsFiniteSet(B)
        BY <2>1, <2>2 DEF A, B
    <2>4. IsFiniteSet(A \cup B)
        BY ONLY <2>3, FS_Union
    <2> QED
        BY <1>2, <2>4 DEF A, B
<1>4. \A p \in parties' : \E m \in parties :
        p.id = m.id /\ p.ride = m.ride /\ p = IF m \in mine THEN New(m) ELSE m
    BY <1>1, <1>2
<1>5. \A p, other \in parties' : p.id = other.id => p = other
    BY <1>4 DEF PartyIds
<1>6. \A p \in parties' : p.id <= partySeq'
    BY <1>4 DEF PartyIds
<1>7. \A s \in Requests : Found(req'[s]) =>
        /\ req'[s].party <= partySeq'
        /\ \A p \in parties' : p.id = req'[s].party => p.ride = req'[s].ride
    BY <1>4 DEF PartyIds
<1>8. \A s \in Requests : Found(req[s])' <=> Found(req'[s])
    BY DEF Found
<1> QED
    BY <1>3, <1>5, <1>6, <1>7, <1>8 DEF PartyIds

\* A request that is under way, and what is left of it.
LEMMA GoneOn ==
    ASSUME TypeOK, NoOrderIsNone, NEW r \in Requests, req[r].step # "idle",
           NEW x, req' = [req EXCEPT ![r] = x]
    PROVE  /\ req[r] \in Request /\ req[r].ride \in Orders
           /\ req'[r] = x /\ \A s \in Requests \ {r} : req'[s] = req[s]
           /\ Idle.ride # req[r].ride /\ ~Found(Idle)
           /\ \A step : To(req[r], step).ride = req[r].ride
           /\ \A step \in {"createParty", "rider"} : ~Found(To(req[r], step))
<1>1. req[r] \in Request /\ req[r].ride \in Orders
    BY DEF TypeOK
<1> QED
    BY <1>1, NoOrderIsNone, ToStep DEF TypeOK, Idle, Found

LEMMA PutAdds ==
    ASSUME IInv, AddInv, NoOrderIsNone, NEW r \in Requests, PutParty(r)
    PROVE  AddInv'
<1>0. PICK q, o, mine : q = req[r] /\ o = q.ride /\ mine = PartiesOf(q.ride, q.user)
    OBVIOUS
<1> DEFINE T == Resized(parties, mine, q.n)
           one == IF q.view = "modify" THEN Idle ELSE To(q, "rider")
           x == IF mine = {} THEN To(q, "createParty")
                ELSE IF Cardinality(mine) > 1 THEN Idle ELSE one
           S == Resized(At(o), mine, q.n)
<1>1. /\ q.step = "party" /\ req' = [req EXCEPT ![r] = x]
      /\ parties' = IF mine # {} /\ ~(Cardinality(mine) > 1) THEN T ELSE parties
      /\ UNCHANGED <<order, riders, partySeq, recounted, overlapped>>
    BY <1>0 DEF PutParty, GoTo, End, To, history, Resized
<1>2. TypeOK /\ PartyIds /\ q.step # "idle"
    BY <1>1 DEF IInv, AddInv
<1>3. /\ q \in Request /\ o \in Orders /\ req'[r] = x /\ req[r] = q
      /\ \A s \in Requests \ {r} : req'[s] = req[s]
    <2> HIDE DEF x
    <2> QED
        BY <1>0, <1>1, <1>2, GoneOn
<1>a. /\ Idle.ride # o /\ ~Found(Idle)
      /\ \A step \in {"createParty", "rider"} :
            ~Found(To(q, step)) /\ To(q, step).ride = o
    BY <1>0, <1>3, NoOrderIsNone, ToStep DEF Idle, Found
<1>4. x.ride \in {o, NoOrder} /\ ~Found(x)
    BY <1>a DEF Idle
<1>5. /\ mine \subseteq parties /\ mine = Mine(At(o), q.user)
      /\ \A p \in mine : p.ride = o /\ [p EXCEPT !.passengers = q.n].ride = o
    BY <1>0, <1>2 DEF PartiesOf, At, TypeOK, Party, Mine
<1>6. \A p : p \in T /\ p.ride # o <=> p \in parties /\ p.ride # o
    BY <1>5 DEF Resized
<1>7. S = {p \in T : p.ride = o}
    BY <1>5 DEF At, Resized
<1> HIDE DEF T, x, S
<1>8. Works(r, o)
    BY <1>0, <1>1, <1>3, <1>4, <1>6 DEF Works
<1>9. PartyIds'
    <2>1. \A s \in Requests : ~Found(req'[s]) \/ req'[s] = req[s]
        BY <1>3, <1>4
    <2>2. CASE parties' = parties
        <3>1. partySeq \in Nat
            BY <1>2 DEF TypeOK
        <3> QED
            BY <1>1, <1>2, <2>1, <2>2, <3>1, QuietIds
    <2>3. CASE parties' = T
        BY <1>1, <1>2, <1>5, <2>1, <2>3, PutIds DEF T
    <2> QED
        BY <1>1, <2>2, <2>3
<1>10. ASSUME o \notin overlapped' PROVE AddsUp(o)'
    <2>1. o \notin overlapped
        BY <1>1, <1>10
    <2>2. Typed(At(o), order[o], q) /\ Fits(At(o), riders[o], order[o], Again(o), {q})
        BY <1>0, <1>2, <2>1, AloneFits
    <2>3. /\ mine = {} => Fits(At(o), riders[o], order[o], Again(o),
                               {To(q, "createParty")})
          /\ mine # {} =>
               /\ Cardinality(mine) = 1
               /\ IF q.view = "modify" THEN Fits(S, riders[o], order[o], Again(o), {})
                  ELSE Fits(S, riders[o], order[o], Again(o), {To(q, "rider")})
        <3> DEFINE A == At(o)
                   rs == riders[o]
                   row == order[o]
                   again == Again(o)
        <3>1. /\ mine = Mine(A, q.user) /\ q.step = "party"
              /\ Typed(A, row, q) /\ Fits(A, rs, row, again, {q})
            BY <1>1, <1>5, <2>2
        <3> HIDE DEF A, rs, row, again
        <3>2. /\ mine = {} => Fits(A, rs, row, again, {To(q, "createParty")})
              /\ mine # {} =>
                   /\ Cardinality(mine) = 1
                   /\ IF q.view = "modify" THEN Fits(Resized(A, mine, q.n), rs, row, again, {})
                      ELSE Fits(Resized(A, mine, q.n), rs, row, again, {To(q, "rider")})
            BY ONLY <3>1, PutFits
        <3> QED
            BY <3>2 DEF S, A, rs, row, again
    <2>4. riders'[o] = riders[o] /\ order'[o] = order[o] /\ Again(o)' = Again(o)
        BY <1>1 DEF Again
    <2>5. CASE mine = {}
        <3>1. At(o)' = At(o) /\ x = To(q, "createParty")
            BY <1>1, <2>5 DEF At, x
        <3>2. On(o)' = {To(q, "createParty")}
            BY <1>0, <1>3, <1>a, <1>8, <2>1, <3>1, OnAlone
        <3> QED
            BY <2>3, <2>4, <2>5, <3>1, <3>2 DEF AddsUp
    <2>6. CASE mine # {}
        <3>1. ~(Cardinality(mine) > 1)
            BY <2>3, <2>6
        <3>2. At(o)' = S /\ x = one
            BY <1>1, <1>7, <2>6, <3>1 DEF At, x
        <3>3. CASE q.view = "modify"
            <4>1. On(o)' = {}
                BY <1>0, <1>3, <1>a, <1>8, <2>1, <3>2, <3>3, OnAlone
            <4> QED
                BY <2>3, <2>4, <2>6, <3>2, <3>3, <4>1 DEF AddsUp
        <3>4. CASE q.view # "modify"
            <4>1. On(o)' = {To(q, "rider")}
                BY <1>0, <1>3, <1>a, <1>8, <2>1, <3>2, <3>4, OnAlone
            <4> QED
                BY <2>3, <2>4, <2>6, <3>2, <3>4, <4>1 DEF AddsUp
        <3> QED
            BY <3>3, <3>4
    <2> QED
        BY <2>5, <2>6
<1> QED
    BY <1>3, <1>8, <1>9, <1>10, WorksAdds

\* The new party has an id no party ever had.
LEMMA CreateIds ==
    ASSUME TypeOK, PartyIds, NEW p \in Party, p.id = partySeq + 1, partySeq' = partySeq + 1,
           parties' = parties \cup {p},
           \A s \in Requests : ~Found(req'[s]) \/ req'[s] = req[s]
    PROVE  PartyIds'
<1>1. IsFiniteSet(parties')
    BY FS_AddElement DEF PartyIds
<1>2. partySeq \in Nat /\ \A m \in parties : m.id \in Nat /\ m.id <= partySeq
    BY DEF TypeOK, PartyIds, Party
<1>3. \A m \in parties : m.id # p.id
    BY <1>2
<1>4. \A m, other \in parties' : m.id = other.id => m = other
    BY <1>3 DEF PartyIds
<1>5. \A m \in parties' : m.id <= partySeq'
    BY <1>2
<1>6. \A s \in Requests : Found(req[s]) => req[s].party <= partySeq /\ req[s].party \in Nat
    BY DEF TypeOK, PartyIds, Request
<1>7. \A s \in Requests : Found(req'[s]) =>
        /\ req'[s].party <= partySeq'
        /\ \A m \in parties' : m.id = req'[s].party => m.ride = req'[s].ride
    BY <1>2, <1>6 DEF PartyIds
<1>8. \A s \in Requests : Found(req[s])' <=> Found(req'[s])
    BY DEF Found
<1> QED
    BY <1>1, <1>4, <1>5, <1>7, <1>8 DEF PartyIds

LEMMA CreateAdds ==
    ASSUME IInv, AddInv, NoOrderIsNone, NEW r \in Requests, CreateParty(r)
    PROVE  AddInv'
<1>0. PICK q, o : q = req[r] /\ o = q.ride
    OBVIOUS
<1> DEFINE p == [id |-> partySeq + 1, ride |-> o, rider |-> q.user, passengers |-> q.n]
           x == IF Exists(o) /\ q.view # "modify" THEN To(q, "rider") ELSE Idle
<1>1. /\ q.step = "createParty" /\ req' = [req EXCEPT ![r] = x]
      /\ parties' = IF Exists(o) THEN parties \cup {p} ELSE parties
      /\ partySeq' = partySeq + 1
      /\ UNCHANGED <<order, riders, recounted, overlapped>>
    BY <1>0 DEF CreateParty, GoTo, End, To, history
<1>2. TypeOK /\ PartyIds /\ q.step # "idle"
    BY <1>1 DEF IInv, AddInv
<1>3. /\ q \in Request /\ o \in Orders /\ req'[r] = x /\ req[r] = q
      /\ \A s \in Requests \ {r} : req'[s] = req[s]
    <2> HIDE DEF x
    <2> QED
        BY <1>0, <1>1, <1>2, GoneOn
<1>4. /\ Idle.ride # o /\ Idle.ride = NoOrder /\ ~Found(Idle)
      /\ ~Found(To(q, "rider")) /\ To(q, "rider").ride = o
    BY <1>0, <1>3, NoOrderIsNone, ToStep DEF Idle, Found
<1>5. p \in Party /\ p.id = partySeq + 1 /\ p.ride = o /\ p.rider = q.user
      /\ p.passengers = q.n
    BY <1>0, <1>2, <1>3 DEF TypeOK, Party, Request
<1> HIDE DEF p
<1>6. Works(r, o)
    BY <1>0, <1>1, <1>3, <1>4, <1>5 DEF Works
<1>7. PartyIds'
    <2>1. \A s \in Requests : ~Found(req'[s]) \/ req'[s] = req[s]
        BY <1>3, <1>4
    <2>2. CASE Exists(o)
        BY <1>1, <1>2, <1>5, <2>1, <2>2, CreateIds
    <2>3. CASE ~Exists(o)
        <3>1. partySeq' \in Nat /\ partySeq <= partySeq'
            BY <1>1, <1>2 DEF TypeOK
        <3> QED
            BY <1>1, <1>2, <2>1, <2>3, <3>1, QuietIds
    <2> QED
        BY <2>2, <2>3
<1>8. ASSUME o \notin overlapped' PROVE AddsUp(o)'
    <2>1. o \notin overlapped
        BY <1>1, <1>8
    <2>2. Typed(At(o), order[o], q) /\ Fits(At(o), riders[o], order[o], Again(o), {q})
        BY <1>0, <1>2, <2>1, AloneFits
    <2>3. Exists(o)
        BY <2>2, FitsOne DEF Exists
    <2>4. p \notin At(o)
        <3>1. \A m \in parties : m.id \in Nat /\ m.id <= partySeq /\ partySeq \in Nat
            BY <1>2 DEF TypeOK, PartyIds, Party
        <3> QED
            BY <1>5, <3>1 DEF At
    <2>5. /\ q.view # "modify"
          /\ Fits(At(o) \cup {p}, riders[o], order[o], Again(o), {To(q, "rider")})
        BY <1>1, <1>5, <2>2, <2>4, CreateFits
    <2>6. At(o)' = At(o) \cup {p} /\ x = To(q, "rider")
        BY <1>1, <1>5, <2>3, <2>5 DEF At
    <2>7. On(o)' = {To(q, "rider")}
        BY <1>0, <1>3, <1>4, <1>6, <2>1, <2>6, OnAlone
    <2>8. riders'[o] = riders[o] /\ order'[o] = order[o] /\ Again(o)' = Again(o)
        BY <1>1 DEF Again
    <2> QED
        BY <2>5, <2>6, <2>7, <2>8 DEF AddsUp
<1> QED
    BY <1>3, <1>6, <1>7, <1>8, WorksAdds

LEMMA AddRiderAdds ==
    ASSUME IInv, AddInv, NoOrderIsNone, NEW r \in Requests, AddRider(r)
    PROVE  AddInv'
<1>0. PICK q, o : q = req[r] /\ o = q.ride
    OBVIOUS
<1>1. /\ q.step = "rider" /\ req' = [req EXCEPT ![r] = Idle]
      /\ riders' = IF Exists(o) THEN [riders EXCEPT ![o] = @ \cup {q.user}] ELSE riders
      /\ UNCHANGED <<order, parties, partySeq, recounted, overlapped>>
    BY <1>0 DEF AddRider, End, history
<1>2. TypeOK /\ PartyIds /\ q.step # "idle"
    BY <1>1 DEF IInv, AddInv
<1>3. /\ q \in Request /\ o \in Orders /\ req'[r] = Idle /\ req[r] = q
      /\ \A s \in Requests \ {r} : req'[s] = req[s]
    BY <1>0, <1>1, <1>2, GoneOn
<1>4. Idle.ride # o /\ Idle.ride = NoOrder /\ ~Found(Idle)
    BY <1>3, NoOrderIsNone DEF Idle, Found
<1>5. /\ Exists(o) => riders'[o] = riders[o] \cup {q.user}
      /\ \A a \in Orders \ {o} : riders'[a] = riders[a]
    BY <1>1, <1>2, <1>3 DEF TypeOK
<1>6. Works(r, o)
    BY <1>0, <1>1, <1>3, <1>4, <1>5 DEF Works
<1>7. PartyIds'
    <2>1. \A s \in Requests : Found(req'[s]) =>
            Found(req[s]) /\ req'[s].party = req[s].party /\ req'[s].ride = req[s].ride
        BY <1>3, <1>4
    <2> QED
        BY <1>1, <1>2, <2>1, QuietIds DEF TypeOK
<1>8. ASSUME o \notin overlapped' PROVE AddsUp(o)'
    <2>1. o \notin overlapped
        BY <1>1, <1>8
    <2>2. Fits(At(o), riders[o], order[o], Again(o), {q})
        BY <1>0, <1>2, <2>1, AloneFits
    <2>3. Exists(o) /\ Fits(At(o), riders[o] \cup {q.user}, order[o], Again(o), {})
        BY <1>1, <2>2, RiderFits DEF Exists
    <2>4. On(o)' = {}
        BY <1>0, <1>3, <1>4, <1>6, <2>1, OnAlone
    <2>5. riders'[o] = riders[o] \cup {q.user} /\ order'[o] = order[o] /\ At(o)' = At(o)
          /\ Again(o)' = Again(o)
        BY <1>1, <1>5, <2>3 DEF Again, At
    <2> QED
        BY <2>3, <2>4, <2>5 DEF AddsUp
<1> QED
    BY <1>3, <1>6, <1>7, <1>8, WorksAdds

LEMMA DeleteOrderAdds ==
    ASSUME IInv, AddInv, NoOrderIsNone, NEW r \in Requests, DeleteOrder(r)
    PROVE  AddInv'
<1>0. PICK q, o : q = req[r] /\ o = q.ride
    OBVIOUS
<1>1. /\ q.step = "delete" /\ req' = [req EXCEPT ![r] = Idle]
      /\ order' = [order EXCEPT ![o] = NoRow] /\ riders' = [riders EXCEPT ![o] = {}]
      /\ parties' = {p \in parties : p.ride # o}
      /\ UNCHANGED <<partySeq, recounted, overlapped>>
    BY <1>0 DEF DeleteOrder, End
<1>2. TypeOK /\ PartyIds /\ q.step # "idle"
    BY <1>1 DEF IInv, AddInv
<1>3. /\ q \in Request /\ o \in Orders /\ req'[r] = Idle /\ req[r] = q
      /\ \A s \in Requests \ {r} : req'[s] = req[s]
    BY <1>0, <1>1, <1>2, GoneOn
<1>4. Idle.ride # o /\ Idle.ride = NoOrder /\ ~Found(Idle)
    BY <1>3, NoOrderIsNone DEF Idle, Found
<1>5. /\ riders'[o] = {} /\ order'[o] = NoRow
      /\ \A a \in Orders \ {o} : riders'[a] = riders[a] /\ order'[a] = order[a]
    BY <1>1, <1>2, <1>3 DEF TypeOK
<1>6. Works(r, o)
    BY <1>0, <1>1, <1>3, <1>4, <1>5 DEF Works
<1>7. PartyIds'
    <2>1. \A s \in Requests : Found(req'[s]) =>
            Found(req[s]) /\ req'[s].party = req[s].party /\ req'[s].ride = req[s].ride
        BY <1>3, <1>4
    <2> QED
        BY <1>1, <1>2, <2>1, QuietIds DEF TypeOK
<1>8. ASSUME o \notin overlapped' PROVE AddsUp(o)'
    <2>1. On(o)' = {}
        BY <1>0, <1>1, <1>3, <1>4, <1>6, <1>8, OnAlone
    <2>2. At(o)' = {}
        BY <1>1 DEF At
    <2> QED
        BY <1>5, <2>1, <2>2, DeletedFits DEF AddsUp
<1> QED
    BY <1>3, <1>6, <1>7, <1>8, WorksAdds

LEMMA FindAdds ==
    ASSUME IInv, AddInv, NoOrderIsNone, NEW r \in Requests, FindParty(r)
    PROVE  AddInv'
<1>0. PICK q, o : q = req[r] /\ o = q.ride
    OBVIOUS
<1> DEFINE x(p) == [q EXCEPT !.n = p.passengers, !.party = p.id, !.step = "deduct"]
<1>1. /\ q.step = "findParty"
      /\ UNCHANGED <<order, riders, parties, partySeq, recounted, overlapped>>
    BY <1>0 DEF FindParty, tables, history
<1>2. TypeOK /\ PartyIds /\ q.step # "idle"
    BY <1>1 DEF IInv, AddInv
<1>3. q \in Request /\ o \in Orders /\ req[r] = q
    BY <1>0, <1>2 DEF TypeOK
<1>4. PICK y : /\ req' = [req EXCEPT ![r] = y]
               /\ y = Idle \/ \E p \in At(o) : p.rider = q.user /\ y = x(p)
    <2>1. \/ req' = [req EXCEPT ![r] = Idle]
          \/ \E p \in At(o) : /\ p.rider = q.user
                              /\ req' = [req EXCEPT ![r].n = p.passengers,
                                                    ![r].party = p.id,
                                                    ![r].step = "deduct"]
        BY <1>0 DEF FindParty, End, PartiesOf, At
    <2>2. ASSUME NEW p, req' = [req EXCEPT ![r].n = p.passengers, ![r].party = p.id,
                                           ![r].step = "deduct"]
          PROVE  req' = [req EXCEPT ![r] = x(p)]
        BY <1>2, <1>3, <2>2 DEF TypeOK
    <2> HIDE DEF x
    <2> QED
        BY <2>1, <2>2
<1>5. \A p \in parties : x(p).ride = o /\ x(p).party = p.id
    BY <1>0, <1>3 DEF Request
<1> HIDE DEF x
<1>6. /\ req'[r] = y /\ \A s \in Requests \ {r} : req'[s] = req[s]
      /\ Idle.ride # o /\ Idle.ride = NoOrder /\ ~Found(Idle)
    BY <1>0, <1>2, <1>3, <1>4, NoOrderIsNone DEF TypeOK, Idle, Found
<1>7. Works(r, o)
    BY <1>0, <1>1, <1>4, <1>5, <1>6 DEF Works, At
<1>8. PartyIds'
    <2>1. CASE y = Idle
        <3>1. \A s \in Requests : Found(req'[s]) =>
                Found(req[s]) /\ req'[s].party = req[s].party /\ req'[s].ride = req[s].ride
            BY <1>6, <2>1
        <3> QED
            BY <1>1, <1>2, <3>1, QuietIds DEF TypeOK
    <2>2. ASSUME NEW p \in At(o), y = x(p) PROVE PartyIds'
        <3>1. p \in parties /\ p.ride = o /\ y.ride = o /\ y.party = p.id
            BY <1>5, <2>2 DEF At
        <3>2. y.party <= partySeq /\ \A m \in parties : m.id = y.party => m.ride = y.ride
            BY <1>2, <3>1 DEF PartyIds
        <3>3. \A s \in Requests : Found(req'[s]) =>
                /\ req'[s].party <= partySeq
                /\ \A m \in parties : m.id = req'[s].party => m.ride = req'[s].ride
            BY <1>2, <1>6, <3>2 DEF PartyIds
        <3>4. \A s \in Requests : Found(req[s])' <=> Found(req'[s])
            BY DEF Found
        <3> QED
            BY <1>1, <1>2, <3>3, <3>4 DEF PartyIds
    <2> QED
        BY <1>4, <2>1, <2>2
<1>9. ASSUME o \notin overlapped' PROVE AddsUp(o)'
    <2>1. o \notin overlapped
        BY <1>1, <1>9
    <2>2. Typed(At(o), order[o], q) /\ Fits(At(o), riders[o], order[o], Again(o), {q})
        BY <1>0, <1>2, <2>1, AloneFits
    <2>3. /\ Fits(At(o), riders[o], order[o], Again(o), {})
          /\ \A p \in At(o) : p.rider = q.user =>
               Fits(At(o), riders[o], order[o], Again(o), {x(p)})
        BY <1>1, <2>2, FindFits DEF x
    <2>4. riders'[o] = riders[o] /\ order'[o] = order[o] /\ At(o)' = At(o)
          /\ Again(o)' = Again(o)
        BY <1>1 DEF Again, At
    <2>5. CASE y = Idle
        <3>1. On(o)' = {}
            BY <1>0, <1>3, <1>6, <1>7, <2>1, <2>5, OnAlone
        <3> QED
            BY <2>3, <2>4, <3>1 DEF AddsUp
    <2>6. ASSUME NEW p \in At(o), p.rider = q.user, y = x(p) PROVE AddsUp(o)'
        <3>1. y.ride = o
            BY <1>5, <2>6 DEF At
        <3>2. On(o)' = {y}
            BY <1>0, <1>3, <1>6, <1>7, <2>1, <3>1, OnAlone
        <3> QED
            BY <2>3, <2>4, <2>6, <3>2 DEF AddsUp
    <2> QED
        BY <1>4, <2>5, <2>6
<1> QED
    BY <1>3, <1>7, <1>8, <1>9, WorksAdds

LEMMA DeductAdds ==
    ASSUME IInv, AddInv, NoOrderIsNone, NEW r \in Requests, Deduct(r)
    PROVE  AddInv'
<1>0. PICK q, o : q = req[r] /\ o = q.ride
    OBVIOUS
<1> DEFINE new == [order[o] EXCEPT !.total = q.row.total - q.n]
           x == IF Exists(o) THEN To(q, "removeRider") ELSE Idle
<1>1. /\ q.step = "deduct" /\ req' = [req EXCEPT ![r] = x]
      /\ order' = IF Exists(o) THEN [order EXCEPT ![o].total = q.row.total - q.n] ELSE order
      /\ UNCHANGED <<riders, parties, partySeq, recounted, overlapped>>
    BY <1>0 DEF Deduct, GoTo, End, To, history
<1>2. TypeOK /\ PartyIds /\ q.step # "idle" /\ Found(q)
    BY <1>1 DEF IInv, AddInv, Found
<1>3. /\ q \in Request /\ o \in Orders /\ req'[r] = x /\ req[r] = q
      /\ \A s \in Requests \ {r} : req'[s] = req[s]
    <2> HIDE DEF x
    <2> QED
        BY <1>0, <1>1, <1>2, GoneOn
<1>4. /\ Idle.ride # o /\ Idle.ride = NoOrder /\ ~Found(Idle)
      /\ To(q, "removeRider").ride = o /\ To(q, "removeRider").party = q.party
    BY <1>0, <1>3, NoOrderIsNone, ToStep DEF Idle, Found
<1>5. /\ Exists(o) => order'[o] = new
      /\ \A a \in Orders \ {o} : order'[a] = order[a]
    BY <1>1, <1>2, <1>3 DEF TypeOK
<1>6. Works(r, o)
    BY <1>0, <1>1, <1>3, <1>4, <1>5 DEF Works
<1>7. PartyIds'
    <2>1. \A s \in Requests : Found(req'[s]) =>
            Found(req[s]) /\ req'[s].party = req[s].party /\ req'[s].ride = req[s].ride
        BY <1>0, <1>2, <1>3, <1>4
    <2> QED
        BY <1>1, <1>2, <2>1, QuietIds DEF TypeOK
<1>8. ASSUME o \notin overlapped' PROVE AddsUp(o)'
    <2>1. o \notin overlapped
        BY <1>1, <1>8
    <2>2. Typed(At(o), order[o], q) /\ Fits(At(o), riders[o], order[o], Again(o), {q})
        BY <1>0, <1>2, <2>1, AloneFits
    <2>3. Exists(o)
        BY <2>2, FitsOne DEF Exists
    <2>4. new # NoRow
        <3>1. order[o] \in Row /\ order[o].status # "none"
            BY <1>2, <1>3, <2>3 DEF IInv, RowsExist, TypeOK
        <3> QED
            BY <3>1 DEF Row, NoRow
    <2>5. Fits(At(o), riders[o], new, Again(o), {To(q, "removeRider")})
        <3> DEFINE A == At(o)
                   rs == riders[o]
                   row == order[o]
                   again == Again(o)
        <3>1. /\ new = [row EXCEPT !.total = q.row.total - q.n]
              /\ q.step = "deduct" /\ Typed(A, row, q) /\ Fits(A, rs, row, again, {q})
            BY <1>1, <2>2
        <3> HIDE DEF A, rs, row, again, new
        <3>2. Fits(A, rs, new, again, {To(q, "removeRider")})
            BY <2>4, <3>1, DeductFits
        <3> QED
            BY <3>2 DEF A, rs, again
    <2>6. On(o)' = {To(q, "removeRider")}
        BY <1>0, <1>3, <1>4, <1>6, <2>1, <2>3, OnAlone
    <2>7. riders'[o] = riders[o] /\ order'[o] = new /\ At(o)' = At(o) /\ Again(o)' = Again(o)
        BY <1>1, <1>5, <2>3 DEF Again, At
    <2> QED
        BY <2>5, <2>6, <2>7 DEF AddsUp
<1> QED
    BY <1>3, <1>6, <1>7, <1>8, WorksAdds

LEMMA RemoveRiderAdds ==
    ASSUME IInv, AddInv, NoOrderIsNone, NEW r \in Requests, RemoveRider(r)
    PROVE  AddInv'
<1>0. PICK q, o : q = req[r] /\ o = q.ride
    OBVIOUS
<1> DEFINE x == To(q, "deleteParty")
<1>1. /\ q.step = "removeRider" /\ req' = [req EXCEPT ![r] = x]
      /\ riders' = [riders EXCEPT ![o] = @ \ {q.user}]
      /\ UNCHANGED <<order, parties, partySeq, recounted, overlapped>>
    BY <1>0 DEF RemoveRider, GoTo, To, history
<1>2. TypeOK /\ PartyIds /\ q.step # "idle" /\ Found(q)
    BY <1>1 DEF IInv, AddInv, Found
<1> HIDE DEF x
<1>3. /\ q \in Request /\ o \in Orders /\ req'[r] = x /\ req[r] = q
      /\ \A s \in Requests \ {r} : req'[s] = req[s]
    BY <1>0, <1>1, <1>2, GoneOn
<1>4. x.ride = o /\ x.party = q.party
    BY <1>0, <1>3, ToStep DEF x
<1>5. /\ riders'[o] = riders[o] \ {q.user}
      /\ \A a \in Orders \ {o} : riders'[a] = riders[a]
    BY <1>1, <1>2, <1>3 DEF TypeOK
<1>6. Works(r, o)
    BY <1>0, <1>1, <1>3, <1>4, <1>5 DEF Works
<1>7. PartyIds'
    <2>1. \A s \in Requests : Found(req'[s]) =>
            Found(req[s]) /\ req'[s].party = req[s].party /\ req'[s].ride = req[s].ride
        BY <1>0, <1>2, <1>3, <1>4
    <2> QED
        BY <1>1, <1>2, <2>1, QuietIds DEF TypeOK
<1>8. ASSUME o \notin overlapped' PROVE AddsUp(o)'
    <2>1. o \notin overlapped
        BY <1>1, <1>8
    <2>2. Typed(At(o), order[o], q) /\ Fits(At(o), riders[o], order[o], Again(o), {q})
        BY <1>0, <1>2, <2>1, AloneFits
    <2>3. Fits(At(o), riders[o] \ {q.user}, order[o], Again(o), {x})
        BY <1>1, <2>2, RemoveFits DEF x
    <2>4. On(o)' = {x}
        BY <1>0, <1>3, <1>4, <1>6, <2>1, OnAlone
    <2>5. riders'[o] = riders[o] \ {q.user} /\ order'[o] = order[o] /\ At(o)' = At(o)
          /\ Again(o)' = Again(o)
        BY <1>1, <1>5 DEF Again, At
    <2> QED
        BY <2>3, <2>4, <2>5 DEF AddsUp
<1> QED
    BY <1>3, <1>6, <1>7, <1>8, WorksAdds

\* A party deleted late is one of the order, even when it is deleted a second time.
LEMMA DeletePartyAdds ==
    ASSUME IInv, AddInv, NoOrderIsNone, NEW r \in Requests, DeleteParty(r)
    PROVE  AddInv'
<1>0. PICK q, o : q = req[r] /\ o = q.ride
    OBVIOUS
<1>1. /\ q.step = "deleteParty" /\ req' = [req EXCEPT ![r] = Idle]
      /\ parties' = {p \in parties : p.id # q.party}
      /\ UNCHANGED <<order, riders, partySeq, recounted, overlapped>>
    BY <1>0 DEF DeleteParty, End, history
<1>2. TypeOK /\ PartyIds /\ q.step # "idle" /\ Found(q)
    BY <1>1 DEF IInv, AddInv, Found
<1>3. /\ q \in Request /\ o \in Orders /\ req'[r] = Idle /\ req[r] = q
      /\ \A s \in Requests \ {r} : req'[s] = req[s]
    BY <1>0, <1>1, <1>2, GoneOn
<1>4. Idle.ride # o /\ Idle.ride = NoOrder /\ ~Found(Idle)
    BY <1>3, NoOrderIsNone DEF Idle, Found
<1>5. \A p \in parties : p.id = q.party => p.ride = o
    BY <1>0, <1>2 DEF PartyIds
<1>6. Works(r, o)
    BY <1>0, <1>1, <1>3, <1>4, <1>5 DEF Works
<1>7. PartyIds'
    <2>1. \A s \in Requests : Found(req'[s]) =>
            Found(req[s]) /\ req'[s].party = req[s].party /\ req'[s].ride = req[s].ride
        BY <1>3, <1>4
    <2> QED
        BY <1>1, <1>2, <2>1, QuietIds DEF TypeOK
<1>8. ASSUME o \notin overlapped' PROVE AddsUp(o)'
    <2>1. o \notin overlapped
        BY <1>1, <1>8
    <2>2. Typed(At(o), order[o], q) /\ Fits(At(o), riders[o], order[o], Again(o), {q})
        BY <1>0, <1>2, <2>1, AloneFits
    <2>3. \A p, other \in At(o) : p.id = other.id => p = other
        BY <1>2 DEF PartyIds, At
    <2>4. Fits({p \in At(o) : p.id # q.party}, riders[o], order[o], Again(o), {})
        BY <1>1, <2>2, <2>3, DeletePartyFits
    <2>5. On(o)' = {}
        BY <1>0, <1>3, <1>4, <1>6, <2>1, OnAlone
    <2>6. At(o)' = {p \in At(o) : p.id # q.party}
        BY <1>1 DEF At
    <2>7. riders'[o] = riders[o] /\ order'[o] = order[o] /\ Again(o)' = Again(o)
        BY <1>1 DEF Again
    <2> QED
        BY <2>4, <2>5, <2>6, <2>7 DEF AddsUp
<1> QED
    BY <1>3, <1>6, <1>7, <1>8, WorksAdds

-----------------------------------------------------------------------------
LEMMA InitAddInv == Init => AddInv
<1> SUFFICES ASSUME Init PROVE AddInv
    OBVIOUS
<1>1. PartyIds
    BY FS_EmptySet DEF Init, PartyIds, Found, Idle
<1>2. ASSUME NEW o \in Orders PROVE AddsUp(o)
    <2>1. At(o) = {} /\ On(o) = {} /\ riders[o] = {} /\ order[o] = NoRow
        BY NoOrderIsNone DEF Init, At, On, Idle
    <2> QED
        BY <2>1, DeletedFits DEF AddsUp
<1> QED
    BY <1>1, <1>2 DEF AddInv

LEMMA StutterAdds == AddInv /\ UNCHANGED vars => AddInv'
<1> SUFFICES ASSUME AddInv, UNCHANGED vars PROVE AddInv'
    OBVIOUS
<1>1. UNCHANGED <<order, riders, parties, partySeq, req, overlapped, recounted>>
    BY DEF vars, tables, history
<1>2. PartyIds'
    BY <1>1 DEF AddInv, PartyIds, Found
<1>3. ASSUME NEW o \in Orders, o \notin overlapped PROVE AddsUp(o)'
    <2>1. At(o)' = At(o) /\ On(o)' = On(o) /\ Again(o)' = Again(o)
        BY <1>1 DEF At, On, Again
    <2> QED
        BY <1>1, <1>3, <2>1 DEF AddInv, AddsUp
<1> QED
    BY <1>1, <1>2, <1>3 DEF AddInv

LEMMA NextAddInv == IInv /\ AddInv /\ [Next]_vars => AddInv'
<1> SUFFICES ASSUME IInv, AddInv, [Next]_vars PROVE AddInv'
    OBVIOUS
<1>1. CASE Next
    <2> PICK r \in Requests :
            \/ View(r)
            \/ Save(r) \/ PutParty(r) \/ CreateParty(r) \/ AddRider(r)
            \/ DeleteOrder(r) \/ FindParty(r) \/ Deduct(r) \/ RemoveRider(r) \/ DeleteParty(r)
        BY <1>1 DEF Next
    <2>1. CASE View(r)
        BY <2>1, ViewAdds, SizesAreInt, NoUserIsNone, NoOrderIsNone
    <2>2. CASE Save(r) \/ PutParty(r) \/ CreateParty(r) \/ AddRider(r)
        BY <2>2, SaveAdds, PutAdds, CreateAdds, AddRiderAdds, NoOrderIsNone
    <2>3. CASE \/ DeleteOrder(r) \/ FindParty(r) \/ Deduct(r) \/ RemoveRider(r)
               \/ DeleteParty(r)
        BY <2>3, DeleteOrderAdds, FindAdds, DeductAdds, RemoveRiderAdds, DeletePartyAdds,
           NoOrderIsNone
    <2> QED
        BY <2>1, <2>2, <2>3
<1>2. CASE UNCHANGED vars
    BY <1>2, StutterAdds
<1> QED
    BY <1>1, <1>2

\* How far riders, parties and total of an order are apart at each step of the one
\* request on it (views.py:99-104, 129-137, 149-156, 226-236).
THEOREM AddInvariance == Spec => [](IInv /\ AddInv)
<1>1. Init => IInv /\ AddInv
    BY InitIInv, InitAddInv
<1>2. (IInv /\ AddInv) /\ [Next]_vars => (IInv /\ AddInv)'
    BY NextIInv, NextAddInv
<1> QED
    BY <1>1, <1>2, PTL DEF Spec

\* When no request is under way on an order on which no two ever overlapped, its riders
\* are the users with a party, each has one, and its passengers are counted right unless
\* somebody joined again or the owner modified a shared order (danger_log.txt, item 5).
THEOREM PassengersAddUp == Spec => []AloneAddsUp
<1>1. IInv /\ AddInv => AloneAddsUp
    <2> SUFFICES ASSUME IInv, AddInv, NEW o \in Orders, o \notin overlapped, ~Busy(o)
                 PROVE  /\ riders[o] = {p.rider : p \in {q \in parties : q.ride = o}}
                        /\ \A u \in Users : Cardinality(PartiesOf(o, u)) <= 1
                        /\ o \notin recounted => order[o].total = Passengers(o)
        BY DEF AloneAddsUp
    <2>1. On(o) = {}
        BY DEF On, Busy
    <2>2. Fits(At(o), riders[o], order[o], Again(o), {})
        BY <2>1 DEF AddInv, AddsUp
    <2>3. /\ \A p, other \in At(o) : p.rider = other.rider => p = other
          /\ order[o] = NoRow => At(o) = {} /\ riders[o] = {}
          /\ order[o] # NoRow => Settled(At(o), riders[o], order[o], Again(o))
        BY <2>2, FitsNone
    <2>4. riders[o] = Riding(At(o)) /\ (o \notin recounted => order[o].total = Counted(At(o)))
        <3>1. CASE order[o] = NoRow
            <4>1. At(o) = {} /\ riders[o] = {} /\ order[o].total = 0
                BY <2>3, <3>1 DEF NoRow
            <4> QED
                BY <4>1, CountedNone DEF Riding
        <3>2. CASE order[o] # NoRow
            <4>1. Settled(At(o), riders[o], order[o], Again(o))
                BY <2>3, <3>2
            <4>2. o \notin recounted => Again(o) = {}
                BY DEF Again
            <4> QED
                BY <4>1, <4>2 DEF Settled
        <3> QED
            BY <3>1, <3>2
    <2>5. ASSUME NEW u \in Users PROVE Cardinality(PartiesOf(o, u)) <= 1
        <3>1. PartiesOf(o, u) = {} \/ \E p : PartiesOf(o, u) = {p}
            BY <2>3 DEF PartiesOf, At
        <3>2. CASE PartiesOf(o, u) = {}
            BY <3>2, FS_EmptySet
        <3>3. ASSUME NEW p, PartiesOf(o, u) = {p} PROVE Cardinality(PartiesOf(o, u)) <= 1
            BY <3>3, FS_Singleton
        <3> QED
            BY <3>1, <3>2, <3>3
    <2>6. Counted(At(o)) = Passengers(o)
        <3> DEFINE S == At(o)
                   f == [p \in S |-> p.passengers]
                   g == [p \in parties |-> p.passengers]
        <3>1. IsFiniteSet(S)
            BY FS_Subset DEF AddInv, PartyIds, At
        <3>2. \A p \in S : f[p] = g[p]
            BY DEF At
        <3>3. Counted(S) = SumOver(S, f) /\ Passengers(o) = SumOver(S, g)
            BY DEF Counted, Passengers, At
        <3> HIDE DEF S, f, g
        <3>4. SumOver(S, f) = SumOver(S, g)
            BY <3>1, <3>2, SumSame
        <3> QED
            BY <3>3, <3>4 DEF S
    <2> QED
        BY <2>4, <2>5, <2>6 DEF Riding, At
<1> QED
    BY <1>1, AddInvariance, PTL
=============================================================================
