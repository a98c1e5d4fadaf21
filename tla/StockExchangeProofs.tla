------------------------ MODULE StockExchangeProofs -------------------------
(***************************************************************************)
(* Theorems about the stock exchange, for every value of the constants.    *)
(* About the matching engine, for every set of accounts, symbols, amounts  *)
(* and limits: first what follows from the limits and the status of rows,  *)
(* then, with sums over the rows and the trades of an order, that the rows *)
(* of an order keep its amount, that committed requests implement          *)
(* OrderPromise, and that a crossed book is left by one cause alone.       *)
(* About the server's threads, for any number of clients, each with any    *)
(* number of children in its request: who holds db_mutex, and whom the     *)
(* connection's registration names.                                        *)
(***************************************************************************)
EXTENDS MatchingEngineProperties, ExchangeServer, SumTheorems

-----------------------------------------------------------------------------
(* The inductive invariant *)

\* A row never changes sides, and its LIMIT_PRICE, overwritten or not, stays
\* on the right side of the limit its order was placed with.
RowsKeepLimits(d) ==
    \A u \in Rows(d) :
        LET row == d.orders[u]  want == d.placed[row.order]
        IN  /\ row.amount < 0 <=> want.amount < 0
            /\ row.amount > 0 => row.limit <= want.limit
            /\ row.amount < 0 => row.limit >= want.limit
            /\ row.status = "OPEN" => row.txn = NoTxn

\* A trade refers to a buy row and a sell row that exist.
TradesHaveRows(d) ==
    \A t \in Trades(d) :
        /\ d.trades[t].buyRow \in Rows(d) /\ d.trades[t].sellRow \in Rows(d)
        /\ d.orders[d.trades[t].sellRow].amount < 0

OneOpenSell(d) ==
    \A u, v \in OpenRows(d) :
        u # v /\ d.orders[u].amount < 0 => OrderOf(d, u) # OrderOf(d, v)

\* cancelOrder closes all the rows of an order.
ClosedTogether(d) ==
    \A u, v \in Rows(d) : OrderOf(d, u) = OrderOf(d, v) =>
        (d.orders[u].status = "CLOSED" <=> d.orders[v].status = "CLOSED")

TablesInv(d) ==
    /\ RowsKeepLimits(d) /\ TradesHaveRows(d) /\ OneOpenSell(d) /\ ClosedTogether(d)
    /\ WithinLimits(d) /\ SellSideAgrees(d)

\* What match_orders holds of its two result sets still describes the rows
\* they came from, except the row it is trading on.
FreshSnapshots(S) ==
    \A x \in S : x.uid \in OpenRows(db) /\ x = Snapshot(db, x.uid)
MatchInv ==
    /\ pc \in {"buys", "sells"} =>
         FreshSnapshots(buys) /\ \A b \in buys : b.amount > 0
    /\ pc = "sells" =>
         /\ FreshSnapshots(sells)
         /\ \A s \in sells : s.amount < 0 /\ s.limit <= buy.limit
         /\ \A b \in buys : b.uid # buy.uid
         /\ buy.uid \in Rows(db)
         /\ db.orders[buy.uid].amount > 0 /\ db.orders[buy.uid].status # "CLOSED"
         /\ buy.limit <= db.placed[OrderOf(db, buy.uid)].limit

\* The open transaction has left the orders cancelled before it alone.
Frozen ==
    \A o \in DOMAIN saved.placed : Cancelled(saved, o) =>
        /\ RowsOf(db, o) = RowsOf(saved, o)
        /\ \A u \in RowsOf(saved, o) : db.orders[u] = saved.orders[u]

IInv == TypeOK /\ TablesInv(db) /\ TablesInv(saved) /\ MatchInv /\ Frozen

-----------------------------------------------------------------------------
(* The operators of the model *)

\* Put keeps the type of a table.
LEMMA PutType ==
    ASSUME NEW f, NEW k, NEW v, NEW S, f \in [DOMAIN f -> S], v \in S
    PROVE  Put(f, k, v) \in [DOMAIN Put(f, k, v) -> S]
  BY DEF Put

\* Filling row u for n of its shares keeps every other row, and the rest of
\* the shares, if any, is in the new row: what r is, compared with orders.
FilledRow(r, orders, u, n, price, t, new) ==
    LET unfilled == Magnitude(orders[u].amount) - n
    IN  /\ r \in [DOMAIN r -> OrderRow]
        /\ DOMAIN r = DOMAIN orders \cup (IF unfilled > 0 THEN {new} ELSE {})
        /\ \A v \in DOMAIN orders : v # u => r[v] = orders[v]
        /\ r[u] = Filled(orders[u], n, price, t)
        /\ unfilled > 0 => r[new] = Remainder(orders[u], unfilled)

\* update_order_status does that to a row that has n shares to give.
LEMMA UpdateOrderStatus ==
    ASSUME NEW orders, orders \in [DOMAIN orders -> OrderRow],
           NEW u \in DOMAIN orders, NEW n \in Int, NEW price \in Int,
           NEW t \in Nat, NEW new \in Nat, clock \in Nat,
           new \notin DOMAIN orders, n <= Magnitude(orders[u].amount)
    PROVE  FilledRow(update_order_status(orders, u, n, price, t, new),
                     orders, u, n, price, t, new)
<1> DEFINE row == orders[u]
           unfilled == Magnitude(row.amount) - n
           done == Filled(row, n, price, t)
           rest == Remainder(row, unfilled)
           filled == [orders EXCEPT ![u] = done]
<1>1. row \in OrderRow /\ unfilled \in Nat
  BY DEF Magnitude, OrderRow
<1>2. done \in OrderRow /\ rest \in OrderRow
  <2>1. SameSide(row.amount, n) \in Int /\ SameSide(row.amount, unfilled) \in Int
    BY <1>1 DEF SameSide, OrderRow
  <2> QED
    BY <1>1, <2>1 DEF Filled, Remainder, OrderRow, Statuses, NoTxn
<1> HIDE DEF done, rest
<1>3. /\ filled \in [DOMAIN orders -> OrderRow] /\ DOMAIN filled = DOMAIN orders
      /\ filled[u] = done /\ \A v \in DOMAIN orders : v # u => filled[v] = orders[v]
  BY <1>2
<1>4. CASE unfilled = 0
  <2>1. update_order_status(orders, u, n, price, t, new) = filled
    BY <1>1, <1>4 DEF update_order_status, done
  <2> QED
    BY <2>1, <1>1, <1>3, <1>4 DEF done, FilledRow
<1>5. CASE unfilled > 0
  <2>1. update_order_status(orders, u, n, price, t, new) = Put(filled, new, rest)
    BY <1>1, <1>5 DEF update_order_status, done, rest
  <2> HIDE DEF filled, unfilled
  <2>2. Put(filled, new, rest) \in [DOMAIN Put(filled, new, rest) -> OrderRow]
    BY <1>2, <1>3, PutType
  <2>3. /\ DOMAIN Put(filled, new, rest) = DOMAIN orders \cup {new}
        /\ Put(filled, new, rest)[new] = rest
        /\ \A v \in DOMAIN orders : Put(filled, new, rest)[v] = filled[v]
    BY <1>3 DEF Put
  <2> QED
    BY <2>1, <2>2, <2>3, <1>1, <1>3, <1>5 DEF rest, done, unfilled, FilledRow
<1> QED
  BY <1>1, <1>4, <1>5

\* A step that leaves the tables and their sequences alone keeps all that the
\* invariant says of the tables.
LEMMA TablesUntouched ==
    ASSUME IInv, UNCHANGED <<db, saved, rowSeq, txnSeq>>
    PROVE  /\ TablesOK(db)' /\ TablesOK(saved)'
           /\ TablesInv(db)' /\ TablesInv(saved)' /\ Frozen'
  <1>1. TablesInv(db)' /\ TablesInv(saved)'
    BY DEF IInv
  <1>2. TablesOK(db)' /\ TablesOK(saved)'
    BY DEF IInv, TypeOK, TablesOK, Rows, Trades, OrderOf
  <1>3. Frozen'
    BY DEF IInv, Frozen, RowsOf, Cancelled
  <1> QED
    BY <1>1, <1>2, <1>3

\* The result sets of match_orders are snapshots of open rows.
LEMMA ResultSets ==
    ASSUME NEW d, d.orders \in [Rows(d) -> OrderRow], NEW m \in Nat, Rows(d) \subseteq 1..m,
           NEW s
    PROVE  /\ BuyOrders(d, s) \in SUBSET Snapshots
           /\ \A x \in BuyOrders(d, s) :
                x.uid \in OpenRows(d) /\ x = Snapshot(d, x.uid) /\ x.amount > 0
           /\ \A p : SellOrders(d, s, p) \in SUBSET Snapshots
           /\ \A p : \A x \in SellOrders(d, s, p) :
                /\ x.uid \in OpenRows(d) /\ x = Snapshot(d, x.uid)
                /\ x.amount < 0 /\ x.limit <= p
<1>1. \A u \in Rows(d) : Snapshot(d, u) \in Snapshots /\ Snapshot(d, u).uid = u
                        /\ Snapshot(d, u).amount = d.orders[u].amount
                        /\ Snapshot(d, u).limit = d.orders[u].limit
  BY DEF Snapshot, Snapshots, OrderRow
<1>2. \A u \in OpenRows(d) : u \in Rows(d)
  BY DEF OpenRows, Rows
<1> QED
  BY <1>1, <1>2 DEF BuyOrders, SellOrders

-----------------------------------------------------------------------------
(* The invariant holds initially and every action preserves it *)

LEMMA InitInv == ASSUME Init PROVE IInv
<1>1. TablesOK(db) /\ TablesOK(saved)
  BY DEF Init, TablesOK, EmptyTables, EmptyTable, Rows, Trades, OrderOf
<1>2. TypeOK
  BY <1>1 DEF Init, TypeOK, Snapshots, NoRow, Replies
<1>3. TablesInv(db) /\ TablesInv(saved)
  BY DEF Init, EmptyTables, EmptyTable, Rows, Trades, TablesInv, RowsKeepLimits,
         TradesHaveRows, OneOpenSell, ClosedTogether, WithinLimits,
         SellSideAgrees, OpenRows
<1>4. MatchInv /\ Frozen
  BY DEF Init, MatchInv, Frozen, EmptyTables, EmptyTable
<1> QED
  BY <1>2, <1>3, <1>4 DEF IInv

\* Appending to the response keeps it a response.
LEMMA SayType ==
    ASSUME NEW r, r \in Seq(Replies), NEW e \in Replies
    PROVE  Append(r, e) \in Seq(Replies)
  OBVIOUS

LEMMA ErrorType == Error \in Replies /\ Created \in Replies /\ <<Error>> \in Seq(Replies)
                   /\ <<Created>> \in Seq(Replies) /\ <<>> \in Seq(Replies)
  BY DEF Replies

LEMMA BeginStep ==
    ASSUME IInv, NEW a \in Accounts, Begin(a) PROVE IInv'
<1>1. UNCHANGED <<db, saved, rowSeq, txnSeq>> /\ pc' \in {"idle", "body"}
  BY DEF Begin
<1>2. TypeOK'
  <2>1. /\ account' = a /\ clock' = clock + 1 /\ reply' \in {<<>>, <<Error>>}
        /\ UNCHANGED <<order_id, symbol, buys, sells, buy>>
    BY DEF Begin, matching
  <2>2. reply' \in Seq(Replies)
    BY <2>1, ErrorType
  <2>3. clock' \in Nat
    BY <2>1 DEF IInv, TypeOK
  <2> QED
    BY <1>1, <2>1, <2>2, <2>3, TablesUntouched DEF IInv, TypeOK
<1>3. MatchInv'
  BY <1>1 DEF MatchInv
<1> QED
  BY <1>1, <1>2, <1>3, TablesUntouched DEF IInv

\* The steps that only answer, or only leave a loop
LEMMA AnswerStep ==
    ASSUME IInv,
           \/ \E s \in Symbols, n \in Amounts, p \in Limits : RejectOrder(s, n, p)
           \/ \E id \in OrderIds : cancelUnknown(id) \/ queryAll(id)
           \/ AbortRequest \/ CancelInFailed \/ NoMoreSells \/ NoMoreBuys
    PROVE  IInv'
<1>1. UNCHANGED <<db, saved, rowSeq, txnSeq, clock, order_id, account,
                  symbol, buys, sells, buy>>
  BY DEF RejectOrder, cancelUnknown, queryAll, AbortRequest, CancelInFailed,
         NoMoreSells, NoMoreBuys, matching
<1>2. /\ pc' \in {"idle", "body", "failed", "buys"}
      /\ pc' = "buys" => pc = "sells"
  BY DEF RejectOrder, cancelUnknown, queryAll, AbortRequest, CancelInFailed,
         NoMoreSells, NoMoreBuys, MoreOps
<1>3. reply' \in Seq(Replies)
  <2>1. reply \in Seq(Replies) /\ OrderIds \subseteq Nat /\ rowSeq \in Nat
    BY DEF IInv, TypeOK, OrderIds
  <2>2. ASSUME NEW id \in OrderIds, queryAll(id) PROVE reply' \in Seq(Replies)
    <3>1. Listed(db, id) \subseteq Nat
      BY DEF Listed, RowsOf, IInv, TypeOK, TablesOK, Rows
    <3>2. [kind |-> "status", id |-> id, rows |-> Listed(db, id)] \in Replies
      BY <3>1, <2>1 DEF Replies
    <3> QED
      BY <2>1, <2>2, <3>2, ErrorType, SayType DEF queryAll, Say
  <2> QED
    BY <2>1, <2>2, ErrorType, SayType
       DEF RejectOrder, cancelUnknown, AbortRequest, CancelInFailed,
           NoMoreSells, NoMoreBuys, Say
<1>4. TypeOK'
  BY <1>1, <1>2, <1>3, TablesUntouched DEF IInv, TypeOK
<1>5. MatchInv'
  BY <1>1, <1>2 DEF IInv, MatchInv, FreshSnapshots, OpenRows, Snapshot, Rows, OrderOf
<1> QED
  BY <1>1, <1>4, <1>5, TablesUntouched DEF IInv

LEMMA CommitStep == ASSUME IInv, Commit PROVE IInv'
<1>1. /\ UNCHANGED <<db, rowSeq, txnSeq>> /\ saved' = db /\ pc' = "idle"
  BY DEF Commit
<1>2. TablesOK(db)' /\ TablesOK(saved)'
  BY <1>1 DEF IInv, TypeOK, TablesOK, Rows, Trades, OrderOf
<1>3. TypeOK'
  BY <1>1, <1>2 DEF IInv, TypeOK, Commit, matching
<1>4. TablesInv(db)' /\ TablesInv(saved)'
  BY <1>1 DEF IInv
<1>5. MatchInv' /\ Frozen'
  BY <1>1 DEF MatchInv, Frozen
<1> QED
  BY <1>3, <1>4, <1>5 DEF IInv

LEMMA NextBuyStep == ASSUME IInv, NextBuy PROVE IInv'
<1>1. UNCHANGED <<db, saved, rowSeq, txnSeq, clock, order_id, account, symbol, reply>>
      /\ pc' = "sells"
  BY DEF NextBuy
<1>2. PICK b \in buys : /\ buy' = b /\ buys' = buys \ {b}
                        /\ sells' = SellOrders(db, symbol, b.limit)
  BY DEF NextBuy
<1>3. /\ b \in Snapshots /\ b.uid \in OpenRows(db) /\ b = Snapshot(db, b.uid)
      /\ b.amount > 0 /\ FreshSnapshots(buys)
  BY DEF NextBuy, IInv, MatchInv, FreshSnapshots, TypeOK
<1>4. /\ sells' \in SUBSET Snapshots
      /\ \A s \in sells' : /\ s.uid \in OpenRows(db) /\ s = Snapshot(db, s.uid)
                           /\ s.amount < 0 /\ s.limit <= b.limit
  BY <1>2, ResultSets DEF IInv, TypeOK, TablesOK
<1>5. TypeOK'
  BY <1>1, <1>2, <1>3, <1>4, TablesUntouched DEF IInv, TypeOK
<1>6. MatchInv'
  <2>1. \A o \in buys' : o.uid # buy'.uid
    BY <1>2, <1>3 DEF FreshSnapshots
  <2>2. /\ buy'.uid \in Rows(db) /\ db.orders[buy'.uid].amount > 0
        /\ db.orders[buy'.uid].status = "OPEN"
        /\ buy'.limit <= db.placed[OrderOf(db, buy'.uid)].limit
    BY <1>2, <1>3 DEF OpenRows, Rows, Snapshot, IInv, TablesInv, RowsKeepLimits, OrderOf
  <2>3. FreshSnapshots(buys)' /\ (\A o \in buys' : o.amount > 0) /\ FreshSnapshots(sells)'
    BY <1>1, <1>2, <1>3, <1>4
       DEF FreshSnapshots, OpenRows, Snapshot, NextBuy, IInv, MatchInv
  <2> QED
    BY <1>1, <1>2, <1>4, <2>1, <2>2, <2>3 DEF MatchInv, Rows, OrderOf
<1> QED
  BY <1>1, <1>5, <1>6, TablesUntouched DEF IInv

\* TablesInv looks at orders, trades and placed only.
LEMMA SameOrders ==
    ASSUME NEW d, NEW e, TablesInv(d),
           e.orders = d.orders, e.trades = d.trades, e.placed = d.placed
    PROVE  TablesInv(e)
<1>1. RowsKeepLimits(e) /\ ClosedTogether(e)
  BY DEF TablesInv, RowsKeepLimits, ClosedTogether, Rows, OrderOf
<1>2. TradesHaveRows(e) /\ OneOpenSell(e)
  BY SMTT(40) DEF TablesInv, TradesHaveRows, OneOpenSell, OpenRows, Rows, Trades, OrderOf
<1>3. WithinLimits(e)
  BY DEF TablesInv, WithinLimits, Trades, OrderOf
<1>4. SellSideAgrees(e)
  BY DEF TablesInv, SellSideAgrees, Rows, Trades
<1> QED
  BY <1>1, <1>2, <1>3, <1>4 DEF TablesInv

LEMMA CreateStep == ASSUME IInv, Create PROVE IInv'
<1>1. /\ UNCHANGED <<rowSeq, txnSeq, clock, order_id, pc, account,
                     symbol, buys, sells, buy>>
      /\ saved' = db' /\ pc = "idle" /\ (reply' = <<Error>> \/ reply' = <<Created>>)
  BY DEF Create, insertAccount, insertSymbol, matching
<1>2. /\ db'.orders = db.orders /\ db'.trades = db.trades /\ db'.placed = db.placed
      /\ TablesOK(db)'
  <2>1. CASE UNCHANGED db
    BY <1>1, <2>1 DEF IInv, TypeOK, TablesOK, Rows, Trades, OrderOf
  <2>2. CASE \E a \in Accounts, b \in Balances :
               /\ a \notin DOMAIN db.balance /\ b >= 0
               /\ db' = [db EXCEPT !.balance = Put(@, a, b)]
    <3>1. PICK a \in Accounts, b \in Balances :
            b >= 0 /\ db' = [db EXCEPT !.balance = Put(db.balance, a, b)]
      BY <2>2
    <3>2. b \in Nat
      BY <3>1, ConstantsAssumption
    <3>3. /\ Put(db.balance, a, b) \in [DOMAIN db.balance \cup {a} -> Nat]
          /\ DOMAIN Put(db.balance, a, b) = DOMAIN db.balance \cup {a}
      BY <3>2 DEF Put, IInv, TypeOK, TablesOK
    <3>4. /\ db' = [orders |-> db.orders, trades |-> db.trades, placed |-> db.placed,
                    shares |-> db.shares, balance |-> Put(db.balance, a, b)]
      BY <3>1 DEF IInv, TypeOK, TablesOK
    <3> QED
      BY <1>1, <3>3, <3>4 DEF IInv, TypeOK, TablesOK, Rows, Trades, OrderOf
  <2>3. CASE \E s \in Symbols, a \in Accounts, n \in ShareCounts :
               /\ a \in DOMAIN db.balance /\ n >= 0
               /\ db' = [db EXCEPT !.shares = Put(@, <<s, a>>, n)]
    <3>1. PICK s \in Symbols, a \in Accounts, n \in ShareCounts :
            /\ a \in DOMAIN db.balance /\ n >= 0
            /\ db' = [db EXCEPT !.shares = Put(db.shares, <<s, a>>, n)]
      BY <2>3
    <3>2. n \in Nat
      BY <3>1, ConstantsAssumption
    <3>3. /\ Put(db.shares, <<s, a>>, n) \in [DOMAIN db.shares \cup {<<s, a>>} -> Nat]
          /\ DOMAIN Put(db.shares, <<s, a>>, n) = DOMAIN db.shares \cup {<<s, a>>}
      BY <3>2 DEF Put, IInv, TypeOK, TablesOK
    <3>4. /\ db' = [orders |-> db.orders, trades |-> db.trades, placed |-> db.placed,
                    balance |-> db.balance, shares |-> Put(db.shares, <<s, a>>, n)]
      BY <3>1 DEF IInv, TypeOK, TablesOK
    <3>5. DOMAIN db.shares \cup {<<s, a>>} \subseteq Symbols \X DOMAIN db.balance
      BY <3>1 DEF IInv, TypeOK, TablesOK
    <3> HIDE DEF IInv
    <3>6. TablesOK(db)
      BY DEF IInv, TypeOK
    <3>7. /\ db'.orders = db.orders /\ db'.trades = db.trades /\ db'.placed = db.placed
          /\ db'.balance = db.balance /\ db'.shares = Put(db.shares, <<s, a>>, n)
      BY <3>4
    <3> QED
      BY <1>1, <3>3, <3>4, <3>5, <3>6, <3>7 DEF TablesOK, Rows, Trades, OrderOf
  <2> QED
    BY <2>1, <2>2, <2>3 DEF Create, insertAccount, insertSymbol
<1>3. TypeOK'
  <2>1. TablesOK(saved)'
    BY <1>1, <1>2 DEF TablesOK, Rows, Trades, OrderOf
  <2> QED
    BY <1>1, <1>2, <2>1, ErrorType DEF IInv, TypeOK
<1>4. TablesInv(db)' /\ TablesInv(saved)'
  BY <1>1, <1>2, SameOrders DEF IInv
<1>5. MatchInv' /\ Frozen'
  BY <1>1 DEF MatchInv, Frozen
<1> QED
  BY <1>3, <1>4, <1>5 DEF IInv

LEMMA CancelStep ==
    ASSUME IInv, NEW id \in OrderIds, cancelOrder(id) PROVE IInv'
<1>1. /\ UNCHANGED <<saved, rowSeq, txnSeq, clock, order_id, account,
                     symbol, buys, sells, buy>>
      /\ pc = "body" /\ pc' \in {"body", "failed"}
  BY DEF cancelOrder, matching, MoreOps
<1>2. reply' \in Seq(Replies)
  <2>1. id \in Nat /\ reply \in Seq(Replies)
    BY DEF OrderIds, IInv, TypeOK
  <2>2. [kind |-> "canceled", id |-> id] \in Replies
    BY <2>1 DEF Replies
  <2>3. reply' \in {Append(reply, Error), Append(reply, [kind |-> "canceled", id |-> id])}
    BY DEF cancelOrder, Say
  <2> QED
    BY <2>1, <2>2, <2>3, ErrorType, SayType
<1>3. TablesOK(saved)' /\ TablesInv(saved)'
  BY <1>1 DEF IInv, TypeOK, TablesOK, Rows, Trades, OrderOf
<1>4. SUFFICES TablesOK(db)' /\ TablesInv(db)' /\ Frozen'
  <2>1. TypeOK'
    BY <1>1, <1>2, <1>3, <1>4 DEF IInv, TypeOK
  <2>2. MatchInv'
    BY <1>1 DEF MatchInv
  <2> QED
    BY <1>3, <1>4, <2>1, <2>2 DEF IInv
<1>5. CASE UNCHANGED db
  BY <1>1, <1>5, TablesUntouched
<1>6. CASE db' = saved
  <2>1. TablesOK(db)' /\ TablesInv(db)'
    BY <1>1, <1>6 DEF IInv, TypeOK, TablesOK, Rows, Trades, OrderOf
  <2>2. Frozen'
    BY <1>1, <1>6 DEF Frozen
  <2> QED
    BY <2>1, <2>2
<1>7. CASE \E r \in RowsOf(db, id) :
             LET row     == db.orders[r]
                 balance == db.balance[row.account] + row.amount * row.limit
             IN  /\ row.status = "OPEN" /\ ~(balance < 0)
                 /\ db' = [db EXCEPT !.orders = Close(@, id),
                                     !.balance[row.account] = balance]
  <2>1. PICK r \in RowsOf(db, id) :
          /\ db.orders[r].status = "OPEN"
          /\ LET balance == db.balance[db.orders[r].account]
                            + db.orders[r].amount * db.orders[r].limit
             IN  /\ ~(balance < 0)
                 /\ db' = [db EXCEPT !.orders = Close(db.orders, id),
                             !.balance = [db.balance EXCEPT ![db.orders[r].account] = balance]]
    BY <1>7
  <2> DEFINE acc == db.orders[r].account
             balance == db.balance[acc] + db.orders[r].amount * db.orders[r].limit
             closed == Close(db.orders, id)
             paid == [db.balance EXCEPT ![acc] = balance]
  <2>2. /\ db.orders \in [Rows(db) -> OrderRow] /\ r \in Rows(db)
        /\ acc \in DOMAIN db.balance /\ db.balance \in [DOMAIN db.balance -> Nat]
    BY DEF IInv, TypeOK, TablesOK, RowsOf, Rows
  <2>3. balance \in Nat
    <3>1. db.orders[r].amount \in Int /\ db.orders[r].limit \in Int /\ db.balance[acc] \in Nat
      BY <2>2 DEF OrderRow
    <3>2. db.orders[r].amount * db.orders[r].limit \in Int
      BY <3>1
    <3> QED
      BY <2>1, <3>1, <3>2
  <2>4. paid \in [DOMAIN db.balance -> Nat] /\ DOMAIN paid = DOMAIN db.balance
    BY <2>2, <2>3
  <2>5. /\ closed \in [Rows(db) -> OrderRow] /\ DOMAIN closed = Rows(db)
        /\ \A u \in Rows(db) : db.orders[u].order # id => closed[u] = db.orders[u]
        /\ \A u \in Rows(db) : db.orders[u].order = id =>
             closed[u] = [db.orders[u] EXCEPT !.status = "CLOSED"]
    BY <2>2 DEF Close, OrderRow, Statuses, Rows
  <2> HIDE DEF closed
  <2>6. \A u \in Rows(db) :
          /\ closed[u].order = db.orders[u].order /\ closed[u].account = db.orders[u].account
          /\ closed[u].amount = db.orders[u].amount /\ closed[u].limit = db.orders[u].limit
          /\ closed[u].txn = db.orders[u].txn
          /\ closed[u].status = IF db.orders[u].order = id THEN "CLOSED"
                                ELSE db.orders[u].status
    <3>1. \A row \in OrderRow : LET c == [row EXCEPT !.status = "CLOSED"] IN
            /\ c.order = row.order /\ c.account = row.account /\ c.amount = row.amount
            /\ c.limit = row.limit /\ c.txn = row.txn /\ c.status = "CLOSED"
      BY DEF OrderRow
    <3> SUFFICES ASSUME NEW u \in Rows(db)
                 PROVE  /\ closed[u].order = db.orders[u].order
                        /\ closed[u].account = db.orders[u].account
                        /\ closed[u].amount = db.orders[u].amount
                        /\ closed[u].limit = db.orders[u].limit
                        /\ closed[u].txn = db.orders[u].txn
                        /\ closed[u].status = IF db.orders[u].order = id THEN "CLOSED"
                                              ELSE db.orders[u].status
      OBVIOUS
    <3>2. db.orders[u] \in OrderRow
      BY <2>2
    <3>3. CASE db.orders[u].order = id
      <4>1. closed[u] = [db.orders[u] EXCEPT !.status = "CLOSED"]
        BY <2>5, <3>3
      <4> QED
        BY <3>1, <3>2, <3>3, <4>1
    <3>4. CASE db.orders[u].order # id
      BY <2>5, <3>4
    <3> QED
      BY <3>3, <3>4
  <2>7. db' = [orders |-> closed, trades |-> db.trades, placed |-> db.placed,
               shares |-> db.shares, balance |-> paid]
    BY <2>1 DEF IInv, TypeOK, TablesOK, closed
  <2> HIDE DEF paid
  <2>8. /\ db'.orders = closed /\ db'.trades = db.trades /\ db'.placed = db.placed
        /\ db'.shares = db.shares /\ db'.balance = paid
    BY <2>7
  <2>9. TablesOK(db)'
    BY <1>1, <2>4, <2>5, <2>6, <2>7, <2>8 DEF IInv, TypeOK, TablesOK, Rows, Trades, OrderOf
  <2>10. TablesInv(db)'
    <3>1. RowsKeepLimits(db)' /\ ClosedTogether(db)'
      BY <2>5, <2>6, <2>8 DEF IInv, TablesInv, RowsKeepLimits, ClosedTogether, Rows, OrderOf
    <3>2. TradesHaveRows(db)'
      BY <2>5, <2>6, <2>8 DEF IInv, TablesInv, TradesHaveRows, Rows, Trades
    <3>3. OneOpenSell(db)'
      BY <2>5, <2>6, <2>8 DEF IInv, TablesInv, OneOpenSell, OpenRows, Rows, OrderOf
    <3>4. WithinLimits(db)'
      <4>1. \A t \in Trades(db) :
              /\ OrderOf(db', db.trades[t].buyRow) = OrderOf(db, db.trades[t].buyRow)
              /\ OrderOf(db', db.trades[t].sellRow) = OrderOf(db, db.trades[t].sellRow)
        BY <2>6, <2>8, SMTT(40) DEF IInv, TablesInv, TradesHaveRows, OrderOf
      <4>2. WithinLimits(db)
        BY DEF IInv, TablesInv
      <4> QED
        BY <2>8, <4>1, <4>2 DEF WithinLimits, Trades
    <3>5. SellSideAgrees(db)'
      BY <2>5, <2>6, <2>8
         DEF IInv, TablesInv, SellSideAgrees, TradesHaveRows, Rows, Trades
    <3> QED
      BY <3>1, <3>2, <3>3, <3>4, <3>5 DEF TablesInv
  <2>11. Frozen'
    <3> SUFFICES ASSUME NEW o \in DOMAIN saved.placed, Cancelled(saved, o)
                 PROVE  /\ RowsOf(db', o) = RowsOf(saved, o)
                        /\ \A u \in RowsOf(saved, o) : db'.orders[u] = saved.orders[u]
      BY <1>1 DEF Frozen
    <3>1. /\ RowsOf(db, o) = RowsOf(saved, o)
          /\ \A u \in RowsOf(saved, o) : db.orders[u] = saved.orders[u]
      BY DEF IInv, Frozen
    <3>2. \A u \in RowsOf(saved, o) : saved.orders[u].status = "CLOSED"
      BY DEF Cancelled, RowsOf, IInv, TablesInv, ClosedTogether, Rows, OrderOf
    <3>3. id # o
      BY <2>1, <3>1, <3>2
    <3> QED
      BY <2>5, <2>6, <2>8, <3>1, <3>3 DEF RowsOf, Rows
  <2> QED
    BY <2>9, <2>10, <2>11
<1> QED
  BY <1>5, <1>6, <1>7 DEF cancelOrder

LEMMA PlaceStep ==
    ASSUME IInv, NEW s \in Symbols, NEW n \in Amounts, NEW p \in Limits,
           PlaceOrder(s, n, p)
    PROVE  IInv'
<1> DEFINE u == rowSeq + 1
           row == [order |-> u, account |-> account, symbol |-> s, amount |-> n,
                   limit |-> p, status |-> "OPEN", txn |-> NoTxn, created |-> clock]
           want == [account |-> account, symbol |-> s, amount |-> n, limit |-> p]
           orders == Put(db.orders, u, row)
           placed == Put(db.placed, u, want)
<1>1. /\ UNCHANGED <<saved, txnSeq, clock, account, sells, buy>>
      /\ rowSeq' = u /\ order_id' = order_id + 1 /\ symbol' = s /\ pc' = "buys"
      /\ buys' = BuyOrders(db', s)
      /\ reply' = Append(reply, [kind |-> "opened", id |-> order_id', row |-> u])
      /\ db' = [db EXCEPT !.orders = orders, !.placed = placed]
  BY DEF PlaceOrder, insertOrder, Say
<1>2. account \in DOMAIN db.balance
  BY DEF PlaceOrder, Accepts
<1>3. n \in Int /\ p \in Int
  BY ConstantsAssumption
<1>4. TablesOK(db) /\ TablesInv(db) /\ rowSeq \in Nat /\ clock \in Nat /\ account \in Accounts
  BY DEF IInv, TypeOK
<1>5. row \in OrderRow /\ want \in Request
  BY <1>3, <1>4 DEF OrderRow, Request, Statuses, NoTxn
<1>6. u \notin Rows(db) /\ u \notin DOMAIN db.placed
  BY <1>4 DEF TablesOK
<1>7. db' = [orders |-> orders, placed |-> placed, trades |-> db.trades,
             balance |-> db.balance, shares |-> db.shares]
  BY <1>1, <1>4 DEF TablesOK
<1>8. /\ db'.orders = orders /\ db'.placed = placed /\ db'.trades = db.trades
      /\ db'.balance = db.balance /\ db'.shares = db.shares
  BY <1>7
<1> HIDE DEF row, want
<1>9. /\ DOMAIN orders = Rows(db) \cup {u} /\ orders[u] = row
      /\ \A v \in Rows(db) : orders[v] = db.orders[v]
      /\ DOMAIN placed = DOMAIN db.placed \cup {u} /\ placed[u] = want
      /\ \A o \in DOMAIN db.placed : placed[o] = db.placed[o]
  BY <1>6 DEF Put, Rows
<1>10. /\ orders \in [DOMAIN orders -> OrderRow]
       /\ placed \in [DOMAIN placed -> Request]
  <2>1. db.orders \in [DOMAIN db.orders -> OrderRow]
        /\ db.placed \in [DOMAIN db.placed -> Request]
    BY <1>4 DEF TablesOK, Rows
  <2> QED
    BY <2>1, <1>5, PutType
<1> HIDE DEF orders, placed
<1>11. /\ row.order = u /\ row.account = account /\ row.amount = n /\ row.limit = p
       /\ row.status = "OPEN" /\ row.txn = NoTxn
       /\ want.amount = n /\ want.limit = p
  BY DEF row, want
<1>12. \A v \in Rows(db) : OrderOf(db, v) \in DOMAIN db.placed /\ OrderOf(db, v) # u
  BY <1>4, <1>6 DEF TablesOK
<1>13. TablesOK(db)'
  <2>1. /\ db' = [orders |-> db'.orders, trades |-> db'.trades, balance |-> db'.balance,
                  shares |-> db'.shares, placed |-> db'.placed]
        /\ db'.orders \in [Rows(db') -> OrderRow] /\ Rows(db') \subseteq 1..u
        /\ db'.placed \in [DOMAIN db'.placed -> Request]
    BY <1>4, <1>7, <1>8, <1>9, <1>10 DEF TablesOK, Rows
  <2>2. /\ DOMAIN db'.placed \subseteq Rows(db')
        /\ \A v \in Rows(db') : OrderOf(db', v) \in DOMAIN db'.placed
                               /\ db'.orders[v].account \in DOMAIN db'.balance
    BY <1>2, <1>4, <1>8, <1>9, <1>11 DEF TablesOK, Rows, OrderOf
  <2> QED
    BY <1>1, <1>4, <1>8, <2>1, <2>2 DEF TablesOK, Trades
<1>14. TablesOK(saved)' /\ TablesInv(saved)'
  BY <1>1, <1>4 DEF IInv, TypeOK, TablesOK, Rows, Trades, OrderOf
<1>15. TypeOK'
  <2>1. [kind |-> "opened", id |-> order_id', row |-> u] \in Replies /\ order_id' \in Nat
        /\ reply \in Seq(Replies)
    BY <1>1, <1>4 DEF IInv, TypeOK, Replies
  <2>2. buys' \in SUBSET Snapshots
    <3>1. db'.orders \in [Rows(db') -> OrderRow] /\ Rows(db') \subseteq 1..u /\ u \in Nat
      BY <1>1, <1>4, <1>13 DEF TablesOK
    <3>2. BuyOrders(db', s) \in SUBSET Snapshots
      BY <3>1, ResultSets
    <3> QED
      BY <1>1, <3>2
  <2> QED
    BY <1>1, <1>13, <1>14, <2>1, <2>2, SayType, <1>4 DEF IInv, TypeOK
<1>16. TablesInv(db)'
  <2>1. RowsKeepLimits(db)'
    BY <1>3, <1>4, <1>8, <1>9, <1>11, <1>12 DEF TablesInv, RowsKeepLimits, Rows, OrderOf
  <2>2. TradesHaveRows(db)'
    BY <1>4, <1>8, <1>9 DEF TablesInv, TradesHaveRows, Rows, Trades
  <2>3. OneOpenSell(db)'
    BY <1>4, <1>8, <1>9, <1>11, <1>12 DEF TablesInv, OneOpenSell, OpenRows, Rows, OrderOf
  <2>4. ClosedTogether(db)'
    BY <1>4, <1>8, <1>9, <1>11, <1>12 DEF TablesInv, ClosedTogether, Rows, OrderOf
  <2>5. WithinLimits(db)'
    <3>1. \A t \in Trades(db) :
            /\ OrderOf(db', db.trades[t].buyRow) = OrderOf(db, db.trades[t].buyRow)
            /\ OrderOf(db', db.trades[t].sellRow) = OrderOf(db, db.trades[t].sellRow)
            /\ OrderOf(db, db.trades[t].buyRow) \in DOMAIN db.placed
            /\ OrderOf(db, db.trades[t].sellRow) \in DOMAIN db.placed
      BY <1>4, <1>8, <1>9, <1>12 DEF TablesInv, TradesHaveRows, OrderOf
    <3>2. WithinLimits(db)
      BY <1>4 DEF TablesInv
    <3> QED
      BY <1>8, <1>9, <3>1, <3>2 DEF WithinLimits, Trades
  <2>6. SellSideAgrees(db)'
    BY <1>4, <1>8, <1>9, <1>11 DEF TablesInv, SellSideAgrees, TradesHaveRows, Rows, Trades
  <2> QED
    BY <2>1, <2>2, <2>3, <2>4, <2>5, <2>6 DEF TablesInv
<1>17. MatchInv'
  <2>1. \A x \in BuyOrders(db', s) :
          x.uid \in OpenRows(db') /\ x = Snapshot(db', x.uid) /\ x.amount > 0
    <3>1. db'.orders \in [Rows(db') -> OrderRow] /\ Rows(db') \subseteq 1..u /\ u \in Nat
      BY <1>1, <1>4, <1>13 DEF TablesOK
    <3> QED
      BY <3>1, ResultSets
  <2> QED
    BY <1>1, <2>1 DEF MatchInv, FreshSnapshots
<1>18. Frozen'
  <2> SUFFICES ASSUME NEW o \in DOMAIN saved.placed, Cancelled(saved, o)
               PROVE  /\ RowsOf(db', o) = RowsOf(saved, o)
                      /\ \A v \in RowsOf(saved, o) : db'.orders[v] = saved.orders[v]
    BY <1>1 DEF Frozen
  <2>1. /\ RowsOf(db, o) = RowsOf(saved, o)
        /\ \A v \in RowsOf(saved, o) : db.orders[v] = saved.orders[v]
    BY DEF IInv, Frozen
  <2>2. o # u
    <3>1. o \in 1..rowSeq /\ rowSeq \in Nat /\ u = rowSeq + 1
      <4>1. TablesOK(saved)
        BY DEF IInv, TypeOK
      <4>2. DOMAIN saved.placed \subseteq Rows(saved) /\ Rows(saved) \subseteq 1..rowSeq
        BY <4>1 DEF TablesOK
      <4> QED
        BY <1>4, <4>2
    <3> HIDE DEF u
    <3> QED
      BY <3>1
  <2> QED
    BY <1>8, <1>9, <1>11, <2>1, <2>2 DEF RowsOf, Rows
<1> QED
  BY <1>14, <1>15, <1>16, <1>17, <1>18 DEF IInv

\* One trade: row b of a buy and row a of a sell are filled for n shares.
\* What the two updates leave in the table, row by row.
LEMMA TradeRows ==
    ASSUME IInv, pc = "sells", NEW s \in sells
    PROVE  LET b       == buy.uid
               a       == s.uid
               bought  == db.orders[b].amount
               n       == Lesser(bought, Magnitude(s.amount))
               price   == ExecutionPrice(buy, s)
               t       == txnSeq + 1
               buySeq  == IF bought > n THEN rowSeq + 1 ELSE rowSeq
               first   == update_order_status(db.orders, b, n, price, t, rowSeq + 1)
               new     == update_order_status(first, a, n, price, t, buySeq + 1)
           IN  /\ b \in Rows(db) /\ a \in Rows(db) /\ a # b
               /\ bought \in Int /\ bought > 0 /\ n \in Int /\ n > 0
               /\ price \in Int /\ s.limit <= price /\ price <= buy.limit
               /\ db.orders[a].amount = s.amount /\ db.orders[a].limit = s.limit
               /\ s.amount \in Int /\ s.amount < 0 /\ -s.amount >= n
               /\ new \in [DOMAIN new -> OrderRow]
               /\ DOMAIN new = Rows(db) \cup (IF bought > n THEN {rowSeq + 1} ELSE {})
                                       \cup (IF -s.amount > n THEN {buySeq + 1} ELSE {})
               /\ \A v \in Rows(db) : v # a /\ v # b => new[v] = db.orders[v]
               /\ new[b] = Filled(db.orders[b], n, price, t)
               /\ new[a] = Filled(db.orders[a], n, price, t)
               /\ bought > n =>
                    new[rowSeq + 1] = Remainder(db.orders[b], bought - n)
               /\ -s.amount > n =>
                    new[buySeq + 1] = Remainder(db.orders[a], -s.amount - n)
<1> DEFINE b       == buy.uid
           a       == s.uid
           bought  == db.orders[b].amount
           n       == Lesser(bought, Magnitude(s.amount))
           price   == ExecutionPrice(buy, s)
           t       == txnSeq + 1
           buySeq  == IF bought > n THEN rowSeq + 1 ELSE rowSeq
           first   == update_order_status(db.orders, b, n, price, t, rowSeq + 1)
           new     == update_order_status(first, a, n, price, t, buySeq + 1)
<1>1. /\ TablesOK(db) /\ rowSeq \in Nat /\ txnSeq \in Nat /\ clock \in Nat
      /\ buy \in Snapshots /\ s \in Snapshots
  BY DEF IInv, TypeOK
<1>2. /\ db.orders \in [DOMAIN db.orders -> OrderRow] /\ DOMAIN db.orders = Rows(db)
      /\ Rows(db) \subseteq 1..rowSeq
  BY <1>1 DEF TablesOK, Rows
<1>3. /\ b \in Rows(db) /\ bought > 0 /\ s.amount < 0 /\ s.limit <= buy.limit
      /\ a \in OpenRows(db) /\ s = Snapshot(db, a)
  BY DEF IInv, MatchInv, FreshSnapshots
<1>4. /\ a \in Rows(db) /\ db.orders[a].amount = s.amount /\ db.orders[a].limit = s.limit
      /\ a # b
  <2>1. a \in Rows(db)
    BY <1>3 DEF OpenRows, Rows
  <2>2. db.orders[a].amount = s.amount /\ db.orders[a].limit = s.limit
    BY <1>3 DEF Snapshot
  <2>3. bought \in Int /\ s.amount \in Int
    BY <1>1, <1>2, <1>3 DEF OrderRow, Snapshots
  <2> QED
    BY <2>1, <2>2, <2>3, <1>3
<1>5. /\ bought \in Int /\ s.amount \in Int /\ n \in Int /\ n > 0
      /\ n <= bought /\ n <= -s.amount /\ Magnitude(bought) = bought
      /\ Magnitude(s.amount) = -s.amount
  <2>1. bought \in Int /\ s.amount \in Int
    BY <1>1, <1>2, <1>3 DEF OrderRow, Snapshots
  <2> QED
    BY <2>1, <1>3 DEF Lesser, Magnitude
<1>6. price \in Int /\ s.limit <= price /\ price <= buy.limit
  BY <1>1, <1>3 DEF ExecutionPrice, Snapshots
<1> HIDE DEF n, price
<1>7. /\ first \in [DOMAIN first -> OrderRow]
      /\ DOMAIN first = Rows(db) \cup (IF bought > n THEN {rowSeq + 1} ELSE {})
      /\ \A v \in Rows(db) : v # b => first[v] = db.orders[v]
      /\ first[b] = Filled(db.orders[b], n, price, t)
      /\ bought > n => first[rowSeq + 1] = Remainder(db.orders[b], bought - n)
  <2>1. rowSeq + 1 \notin DOMAIN db.orders /\ rowSeq + 1 \in Nat /\ t \in Nat
    BY <1>1, <1>2
  <2>2. b \in DOMAIN db.orders /\ n <= Magnitude(db.orders[b].amount)
    BY <1>2, <1>3, <1>5
  <2>3. bought - n > 0 <=> bought > n
    BY <1>5
  <2>4. FilledRow(first, db.orders, b, n, price, t, rowSeq + 1)
    BY <1>1, <1>2, <1>5, <1>6, <2>1, <2>2, UpdateOrderStatus
  <2> HIDE DEF first
  <2> QED
    BY <1>2, <1>5, <2>3, <2>4 DEF FilledRow
<1> HIDE DEF first
<1>8. /\ a \in DOMAIN first /\ first[a] = db.orders[a]
      /\ buySeq + 1 \in Nat /\ buySeq + 1 \notin DOMAIN first
  BY <1>1, <1>2, <1>4, <1>5, <1>7
<1>9. /\ new \in [DOMAIN new -> OrderRow]
      /\ DOMAIN new = DOMAIN first \cup (IF -s.amount > n THEN {buySeq + 1} ELSE {})
      /\ \A v \in DOMAIN first : v # a => new[v] = first[v]
      /\ new[a] = Filled(db.orders[a], n, price, t)
      /\ -s.amount > n => new[buySeq + 1] = Remainder(db.orders[a], -s.amount - n)
  <2>1. t \in Nat
    BY <1>1
  <2>2. Magnitude(first[a].amount) = -s.amount /\ n <= Magnitude(first[a].amount)
    BY <1>4, <1>5, <1>8
  <2>3. -s.amount - n > 0 <=> -s.amount > n
    BY <1>5
  <2> HIDE DEF buySeq
  <2>4. FilledRow(new, first, a, n, price, t, buySeq + 1)
    BY <1>1, <1>5, <1>6, <1>7, <1>8, <2>1, <2>2, UpdateOrderStatus
  <2> HIDE DEF new
  <2> QED
    BY <1>8, <2>2, <2>3, <2>4 DEF FilledRow
<1> HIDE DEF new, buySeq
<1>10. /\ \A v \in Rows(db) : v # a /\ v # b => new[v] = db.orders[v]
       /\ new[b] = first[b] /\ (bought > n => new[rowSeq + 1] = first[rowSeq + 1])
  BY <1>1, <1>2, <1>3, <1>4, <1>7, <1>9
<1> QED
  BY <1>3, <1>4, <1>5, <1>6, <1>7, <1>9, <1>10 DEF n, price, first, new, buySeq

\* The columns that filling and splitting a row change.
LEMMA RowFields ==
    ASSUME NEW row \in OrderRow, NEW n, NEW price, NEW t, NEW unfilled
    PROVE  /\ Filled(row, n, price, t).order = row.order
           /\ Filled(row, n, price, t).account = row.account
           /\ Filled(row, n, price, t).status = "EXECUTED"
           /\ Filled(row, n, price, t).amount = SameSide(row.amount, n)
           /\ Filled(row, n, price, t).limit = price
           /\ Filled(row, n, price, t).txn = t
           /\ Remainder(row, unfilled).order = row.order
           /\ Remainder(row, unfilled).account = row.account
           /\ Remainder(row, unfilled).status = "OPEN"
           /\ Remainder(row, unfilled).amount = SameSide(row.amount, unfilled)
           /\ Remainder(row, unfilled).limit = row.limit
           /\ Remainder(row, unfilled).txn = NoTxn
  BY DEF Filled, Remainder, OrderRow

\* The trade, seen as a change of the table: rows b and a are executed, a row
\* w may be added for what is left of one of them, the rest is as it was.
TradeChange(b, a, n, price, t, w, W) ==
    /\ db'.orders \in [DOMAIN db'.orders -> OrderRow]
    /\ DOMAIN db'.orders = Rows(db) \cup W
    /\ W \in {{}, {w}} /\ rowSeq' = (IF W = {} THEN rowSeq ELSE w)
    /\ \A v \in Rows(db) : v # a /\ v # b => db'.orders[v] = db.orders[v]
    /\ \A c \in {a, b} : /\ db'.orders[c].order = db.orders[c].order
                         /\ db'.orders[c].account = db.orders[c].account
                         /\ db'.orders[c].status = "EXECUTED"
                         /\ db'.orders[c].limit = price
                         /\ db'.orders[c].txn = t
    /\ db'.orders[b].amount = n /\ db'.orders[a].amount = -n
    /\ W # {} => \E c \in {a, b} :
          /\ db'.orders[w].order = db.orders[c].order
          /\ db'.orders[w].account = db.orders[c].account
          /\ db'.orders[w].status = "OPEN" /\ db'.orders[w].txn = NoTxn
          /\ db'.orders[w].limit = db.orders[c].limit
          /\ db'.orders[w].amount < 0 <=> c = a
          /\ db'.orders[w].amount > 0 <=> c = b
TradeRecorded(b, a, n, price, t) ==
    /\ \E buyer, seller \in Accounts, sym \in Symbols :
         db'.trades = Put(db.trades, t, [buyer |-> buyer, seller |-> seller,
                          symbol |-> sym, amount |-> n, price |-> price,
                          buyRow |-> b, sellRow |-> a])
    /\ txnSeq' = t
    /\ db' = [orders |-> db'.orders, trades |-> db'.trades, balance |-> db.balance,
              shares |-> db.shares, placed |-> db.placed]
TradeLoop(s) ==
    /\ UNCHANGED <<saved, clock, order_id, account, symbol, buys, buy, reply>>
    /\ \/ pc' = "buys" /\ sells' = {}
       \/ pc' = "sells" /\ sells' = sells \ {s}

\* A trade is for all that is left of the buy or all that is left of the sell.
LEMMA LesserAmount ==
    ASSUME NEW x \in Int, NEW y \in Int, y < 0
    PROVE  /\ Lesser(x, Magnitude(y)) = x \/ Lesser(x, Magnitude(y)) = -y
           /\ Magnitude(y) = -y
  BY DEF Lesser, Magnitude

\* NextSell is one trade of the current buy with a row of sells.
LEMMA NextSellTrade ==
    ASSUME IInv, NextSell
    PROVE  \E s \in sells, n \in Int, price \in Int :
             /\ n > 0 /\ s.limit <= price /\ price <= buy.limit
             /\ buy.uid \in Rows(db) /\ s.uid \in Rows(db) /\ s.uid # buy.uid
             /\ db.orders[s.uid].limit = s.limit /\ db.orders[s.uid].amount < 0
             /\ db.orders[buy.uid].amount > 0
             /\ \E W : TradeChange(buy.uid, s.uid, n, price, txnSeq + 1, rowSeq + 1, W)
             /\ TradeRecorded(buy.uid, s.uid, n, price, txnSeq + 1)
             /\ TradeLoop(s)
<1>1. PICK s \in sells : Trade(s)
  BY DEF NextSell
<1>2. pc = "sells"
  BY SMTT(40) DEF NextSell
<1> DEFINE b       == buy.uid
           a       == s.uid
           bought  == db.orders[b].amount
           n       == Lesser(bought, Magnitude(s.amount))
           price   == ExecutionPrice(buy, s)
           t       == txnSeq + 1
           w       == rowSeq + 1
           buySeq  == IF bought > n THEN rowSeq + 1 ELSE rowSeq
           sellSeq == IF Magnitude(s.amount) > n THEN buySeq + 1 ELSE buySeq
           first   == update_order_status(db.orders, b, n, price, t, rowSeq + 1)
           new     == update_order_status(first, a, n, price, t, buySeq + 1)
<1>3. /\ b \in Rows(db) /\ a \in Rows(db) /\ a # b
      /\ bought \in Int /\ bought > 0 /\ n \in Int /\ n > 0
      /\ price \in Int /\ s.limit <= price /\ price <= buy.limit
      /\ db.orders[a].amount = s.amount /\ db.orders[a].limit = s.limit
      /\ s.amount \in Int /\ s.amount < 0 /\ -s.amount >= n
      /\ new \in [DOMAIN new -> OrderRow]
      /\ DOMAIN new = Rows(db) \cup (IF bought > n THEN {rowSeq + 1} ELSE {})
                              \cup (IF -s.amount > n THEN {buySeq + 1} ELSE {})
      /\ \A v \in Rows(db) : v # a /\ v # b => new[v] = db.orders[v]
      /\ new[b] = Filled(db.orders[b], n, price, t)
      /\ new[a] = Filled(db.orders[a], n, price, t)
      /\ bought > n => new[rowSeq + 1] = Remainder(db.orders[b], bought - n)
      /\ -s.amount > n => new[buySeq + 1] = Remainder(db.orders[a], -s.amount - n)
  BY <1>1, <1>2, TradeRows, ZenonT(90)
<1>4. /\ db' = [db EXCEPT !.trades = execute_trade(db.trades, db.orders, t, b, a, n, price),
                          !.orders = new]
      /\ rowSeq' = sellSeq /\ txnSeq' = t
      /\ \/ pc' = "buys" /\ sells' = {}
         \/ pc' = "sells" /\ sells' = sells \ {s}
  BY <1>1, <1>2 DEF Trade
<1>5. (n = bought \/ n = -s.amount) /\ Magnitude(s.amount) = -s.amount
  <2> HIDE DEF new, first, price, buySeq, sellSeq, t, w
  <2>1. bought \in Int /\ s.amount \in Int /\ s.amount < 0
    BY <1>3
  <2> HIDE DEF bought
  <2> QED
    BY <2>1, LesserAmount DEF n
<1>6. Magnitude(s.amount) = -s.amount
  BY <1>5
<1>7. TablesOK(db) /\ rowSeq \in Nat /\ txnSeq \in Nat
  BY DEF IInv, TypeOK
<1>8. /\ db'.orders = new
      /\ db'.trades = execute_trade(db.trades, db.orders, t, b, a, n, price)
      /\ db' = [orders |-> db'.orders, trades |-> db'.trades, balance |-> db.balance,
                shares |-> db.shares, placed |-> db.placed]
  <2> HIDE DEF new, n, price, t
  <2> QED
    BY <1>4, <1>7 DEF TablesOK
<1> HIDE DEF new, n, price, first
<1>9. db.orders[a] \in OrderRow /\ db.orders[b] \in OrderRow
  BY <1>3, <1>7 DEF TablesOK
<1>10. TradeRecorded(b, a, n, price, t)
  <2>1. /\ db.orders[b].account \in Accounts /\ db.orders[a].account \in Accounts
        /\ db.orders[b].symbol \in Symbols
    BY <1>9 DEF OrderRow
  <2> QED
    BY <1>4, <1>8, <2>1, SMTT(40) DEF TradeRecorded, execute_trade
<1>11. TradeLoop(s)
  BY <1>4 DEF NextSell, TradeLoop
<1>12. \E W : TradeChange(b, a, n, price, t, w, W)
  <2> DEFINE W == IF bought > n \/ -s.amount > n THEN {w} ELSE {}
  <2>1. W \in {{}, {w}} /\ rowSeq' = (IF W = {} THEN rowSeq ELSE w)
    BY <1>3, <1>4, <1>5, <1>6, <1>7
  <2>2. DOMAIN new = Rows(db) \cup W
    BY <1>3, <1>5, SMTT(40)
  <2>3. /\ \A c \in {a, b} : /\ new[c].order = db.orders[c].order
                             /\ new[c].account = db.orders[c].account
                             /\ new[c].status = "EXECUTED"
                             /\ new[c].limit = price
                             /\ new[c].txn = t
        /\ new[b].amount = n /\ new[a].amount = -n
    <3>1. SameSide(bought, n) = n /\ SameSide(s.amount, n) = -n
      BY <1>3 DEF SameSide
    <3> QED
      BY <1>3, <1>9, <3>1, RowFields
  <2>4. ASSUME W # {}
        PROVE  \E c \in {a, b} :
                 /\ new[w].order = db.orders[c].order
                 /\ new[w].account = db.orders[c].account
                 /\ new[w].status = "OPEN" /\ new[w].txn = NoTxn
                 /\ new[w].limit = db.orders[c].limit
                 /\ new[w].amount < 0 <=> c = a
                 /\ new[w].amount > 0 <=> c = b
    <3>1. CASE bought > n
      <4>1. new[w] = Remainder(db.orders[b], bought - n)
            /\ SameSide(bought, bought - n) = bought - n /\ bought - n > 0
        BY <1>3, <3>1 DEF SameSide
      <4>2. /\ new[w].order = db.orders[b].order
            /\ new[w].account = db.orders[b].account
            /\ new[w].status = "OPEN" /\ new[w].txn = NoTxn
            /\ new[w].limit = db.orders[b].limit
            /\ new[w].amount = bought - n
        <5>1. SameSide(db.orders[b].amount, bought - n) = bought - n
          BY <4>1
        <5>2. db.orders[b] \in OrderRow /\ new[w] = Remainder(db.orders[b], bought - n)
          BY <1>9, <4>1
        <5> HIDE DEF w, a, b, t, bought
        <5> QED
          BY <5>1, <5>2, RowFields
      <4>3. new[w].amount > 0 /\ ~(new[w].amount < 0)
        <5> HIDE DEF w, a, b, t, bought
        <5> QED
          BY <1>3, <4>1, <4>2
      <4> HIDE DEF w, a, b, t, bought
      <4> QED
        BY <1>3, <4>2, <4>3
    <3>2. CASE ~(bought > n)
      <4>1. new[w] = Remainder(db.orders[a], -s.amount - n)
            /\ SameSide(s.amount, -s.amount - n) = s.amount + n /\ s.amount + n < 0
        BY <1>3, <1>5, <2>4, <3>2 DEF SameSide
      <4>2. /\ new[w].order = db.orders[a].order
            /\ new[w].account = db.orders[a].account
            /\ new[w].status = "OPEN" /\ new[w].txn = NoTxn
            /\ new[w].limit = db.orders[a].limit
            /\ new[w].amount = s.amount + n
        <5>1. SameSide(db.orders[a].amount, -s.amount - n) = s.amount + n
          BY <1>3, <4>1
        <5>2. db.orders[a] \in OrderRow /\ new[w] = Remainder(db.orders[a], -s.amount - n)
          BY <1>9, <4>1
        <5> HIDE DEF w, a, b, t, bought
        <5> QED
          BY <5>1, <5>2, RowFields
      <4>3. new[w].amount < 0 /\ ~(new[w].amount > 0)
        <5> HIDE DEF w, a, b, t, bought
        <5> QED
          BY <1>3, <4>1, <4>2
      <4> HIDE DEF w, a, b, t, bought
      <4> QED
        BY <1>3, <4>2, <4>3
    <3> QED
      BY <3>1, <3>2
  <2>5. /\ new \in [DOMAIN new -> OrderRow]
        /\ \A v \in Rows(db) : v # a /\ v # b => new[v] = db.orders[v]
    BY <1>3
  <2> HIDE DEF W
  <2>6. TradeChange(b, a, n, price, t, w, W)
    BY <1>8, <2>1, <2>2, <2>3, <2>4, <2>5 DEF TradeChange
  <2> QED
    BY <2>6
<1> QED
  BY <1>3, <1>10, <1>11, <1>12, SMTT(40)

LEMMA NextSellStep == ASSUME IInv, NextSell PROVE IInv'
<1>1. PICK s \in sells, n \in Int, price \in Int :
        /\ n > 0 /\ s.limit <= price /\ price <= buy.limit
        /\ buy.uid \in Rows(db) /\ s.uid \in Rows(db) /\ s.uid # buy.uid
        /\ db.orders[s.uid].limit = s.limit /\ db.orders[s.uid].amount < 0
        /\ db.orders[buy.uid].amount > 0
        /\ \E W : TradeChange(buy.uid, s.uid, n, price, txnSeq + 1, rowSeq + 1, W)
        /\ TradeRecorded(buy.uid, s.uid, n, price, txnSeq + 1)
        /\ TradeLoop(s)
  BY NextSellTrade
<1> DEFINE b == buy.uid  a == s.uid  t == txnSeq + 1  w == rowSeq + 1
<1>2. PICK W : TradeChange(b, a, n, price, t, w, W)
  BY <1>1
<1>3. /\ TablesOK(db) /\ TablesOK(saved) /\ TablesInv(db) /\ TablesInv(saved)
      /\ rowSeq \in Nat /\ txnSeq \in Nat /\ s \in Snapshots /\ buy \in Snapshots
  BY DEF IInv, TypeOK
<1>4. /\ t \in Nat /\ t > 0 /\ t \notin Trades(db) /\ w \in Nat /\ w \notin Rows(db)
  BY <1>3 DEF TablesOK
<1>5. PICK buyer \in Accounts, seller \in Accounts, sym \in Symbols :
        db'.trades = Put(db.trades, t, [buyer |-> buyer, seller |-> seller,
                         symbol |-> sym, amount |-> n, price |-> price,
                         buyRow |-> b, sellRow |-> a])
  BY <1>1 DEF TradeRecorded
<1> DEFINE trade == [buyer |-> buyer, seller |-> seller, symbol |-> sym, amount |-> n,
                     price |-> price, buyRow |-> b, sellRow |-> a]
<1>6. /\ Trades(db') = Trades(db) \cup {t}
      /\ \A x \in Trades(db) : db'.trades[x] = db.trades[x]
      /\ db'.trades[t] = trade
  BY <1>4, <1>5 DEF Put, Trades
<1>7. trade \in TradeRow
  BY <1>1, <1>3, <1>4 DEF TradeRow, Snapshots
<1>8. /\ db'.placed = db.placed /\ db'.balance = db.balance /\ db'.shares = db.shares
      /\ txnSeq' = t
      /\ db' = [orders |-> db'.orders, trades |-> db'.trades, balance |-> db'.balance,
                shares |-> db'.shares, placed |-> db'.placed]
  BY <1>1 DEF TradeRecorded
<1>9. /\ UNCHANGED <<saved, clock, order_id, account, symbol, buys, buy, reply>>
      /\ \/ pc' = "buys" /\ sells' = {}
         \/ pc' = "sells" /\ sells' = sells \ {s}
  BY <1>1 DEF TradeLoop
<1>10. pc = "sells" /\ MatchInv
  BY DEF NextSell, IInv
\* Where the rows stand before the trade
<1>11. /\ db.orders[a].status = "OPEN" /\ db.orders[b].status # "CLOSED"
       /\ a \in OpenRows(db) /\ s = Snapshot(db, a)
       /\ buy.limit <= db.placed[OrderOf(db, b)].limit
  BY <1>10 DEF MatchInv, FreshSnapshots, OpenRows
\* ... and after it
<1>12. /\ Rows(db') = Rows(db) \cup W /\ (W = {} \/ W = {w})
       /\ rowSeq' = (IF W = {} THEN rowSeq ELSE w)
       /\ \A v \in Rows(db) : v # a /\ v # b => db'.orders[v] = db.orders[v]
  BY <1>2 DEF TradeChange, Rows
<1>13. /\ \A c \in {a, b} : /\ db'.orders[c].order = db.orders[c].order
                            /\ db'.orders[c].account = db.orders[c].account
                            /\ db'.orders[c].status = "EXECUTED"
                            /\ db'.orders[c].limit = price
                            /\ db'.orders[c].txn = t
       /\ db'.orders[b].amount > 0 /\ db'.orders[a].amount = -n /\ -n < 0
  BY <1>1, <1>2 DEF TradeChange
<1>14. W # {} => \E c \in {a, b} :
          /\ db'.orders[w].order = db.orders[c].order
          /\ db'.orders[w].account = db.orders[c].account
          /\ db'.orders[w].status = "OPEN" /\ db'.orders[w].txn = NoTxn
          /\ db'.orders[w].limit = db.orders[c].limit
          /\ db'.orders[w].amount < 0 <=> c = a
          /\ db'.orders[w].amount > 0 <=> c = b
  BY <1>2 DEF TradeChange
<1>15. \A v \in Rows(db) :
         /\ OrderOf(db', v) = OrderOf(db, v)
         /\ db'.orders[v].account = db.orders[v].account
         /\ db'.orders[v].amount < 0 <=> db.orders[v].amount < 0
         /\ db'.orders[v].status = "CLOSED" <=> db.orders[v].status = "CLOSED"
         /\ db'.orders[v].status = "OPEN" =>
              v # a /\ v # b /\ db'.orders[v] = db.orders[v]
  <2>1. ASSUME NEW v \in Rows(db), v # a, v # b PROVE db'.orders[v] = db.orders[v]
    BY <1>12, <2>1
  <2>2. ~(db'.orders[b].amount < 0) /\ ~(db.orders[b].amount < 0)
    <3>1. b \in Rows(db) /\ b \in Rows(db')
      BY <1>1, <1>12
    <3>2. db.orders[b].amount \in Int /\ db'.orders[b].amount \in Int
      BY <1>2, <1>3, <3>1 DEF TradeChange, TablesOK, OrderRow, Rows
    <3> QED
      BY <1>1, <1>13, <3>2
  <2>3. db'.orders[a].amount < 0 /\ db.orders[a].amount < 0
    BY <1>1, <1>13
  <2> HIDE DEF a, b
  <2> QED
    BY <1>11, <1>13, <2>1, <2>2, <2>3 DEF OrderOf
<1>16. \A v \in Rows(db) : db.orders[v].amount \in Int /\ db.orders[v].limit \in Int
                          /\ db.placed[OrderOf(db, v)].limit \in Int
                          /\ db.placed[OrderOf(db, v)].amount \in Int
  BY <1>3 DEF TablesOK, OrderRow, Request
<1>17. TablesOK(db)'
  <2>1. /\ db'.orders \in [Rows(db') -> OrderRow]
        /\ Rows(db') \subseteq 1..rowSeq'
    BY <1>2, <1>3, <1>12 DEF TradeChange, Rows, TablesOK
  <2>2. /\ db'.trades \in [Trades(db') -> TradeRow] /\ Trades(db') \subseteq 1..txnSeq'
    <3>1. db.trades \in [DOMAIN db.trades -> TradeRow]
      BY <1>3 DEF TablesOK, Trades
    <3>2. db'.trades \in [DOMAIN db'.trades -> TradeRow]
      BY <1>5, <1>7, <3>1, PutType
    <3> QED
      BY <1>3, <1>4, <1>6, <1>8, <3>2 DEF TablesOK, Trades
  <2>3. /\ DOMAIN db'.placed \subseteq Rows(db')
        /\ \A v \in Rows(db') : OrderOf(db', v) \in DOMAIN db'.placed
                               /\ db'.orders[v].account \in DOMAIN db'.balance
    <3>1. DOMAIN db'.placed \subseteq Rows(db')
      BY <1>3, <1>8, <1>12 DEF TablesOK
    <3>2. ASSUME NEW v \in Rows(db')
          PROVE  OrderOf(db', v) \in DOMAIN db'.placed
                 /\ db'.orders[v].account \in DOMAIN db'.balance
      <4>1. CASE v \in Rows(db)
        BY <1>3, <1>8, <1>15, <4>1 DEF TablesOK
      <4>2. CASE v \notin Rows(db)
        <5>1. v = w /\ W # {}
          BY <1>12, <3>2, <4>2
        <5> QED
          BY <1>1, <1>3, <1>8, <1>14, <5>1 DEF TablesOK, OrderOf
      <4> QED
        BY <4>1, <4>2
    <3> QED
      BY <3>1, <3>2
  <2> QED
    BY <1>3, <1>8, <2>1, <2>2, <2>3 DEF TablesOK
<1>18. TablesOK(saved)' /\ TablesInv(saved)'
  <2>1. rowSeq' \in Nat /\ rowSeq' >= rowSeq /\ txnSeq' >= txnSeq
    BY <1>3, <1>8, <1>12
  <2> QED
    BY <1>3, <1>4, <1>8, <1>9, <2>1 DEF TablesOK, Rows, Trades, OrderOf
<1>19. TypeOK'
  <2>1. rowSeq' \in Nat /\ txnSeq' \in Nat
    BY <1>3, <1>4, <1>8, <1>12
  <2> QED
    BY <1>9, <1>17, <1>18, <2>1 DEF IInv, TypeOK
<1> HIDE DEF a, b, t, w
<1>20. RowsKeepLimits(db)'
  <2>1. RowsKeepLimits(db)
    BY <1>3 DEF TablesInv
  <2>2. price <= db.placed[OrderOf(db, b)].limit /\ price >= db.placed[OrderOf(db, a)].limit
    <3>1. s.limit \in Int /\ buy.limit \in Int /\ db.orders[a].limit = s.limit
      BY <1>1, <1>3 DEF Snapshots, a
    <3>2. db.orders[a].limit >= db.placed[OrderOf(db, a)].limit
      BY <1>1, <2>1 DEF RowsKeepLimits, OrderOf, a
    <3> QED
      BY <1>1, <1>11, <1>16, <3>1, <3>2 DEF a, b
  <2>3. ASSUME NEW v \in Rows(db')
        PROVE  LET row == db'.orders[v]  want == db'.placed[row.order]
               IN  /\ row.amount < 0 <=> want.amount < 0
                   /\ row.amount > 0 => row.limit <= want.limit
                   /\ row.amount < 0 => row.limit >= want.limit
                   /\ row.status = "OPEN" => row.txn = NoTxn
    <3>1. CASE v \in Rows(db) /\ v # a /\ v # b
      BY <1>8, <1>12, <2>1, <3>1 DEF RowsKeepLimits
    <3>2. CASE v \in {a, b}
      <4>1. /\ a \in Rows(db) /\ b \in Rows(db)
            /\ db.orders[a].amount < 0 /\ ~(db.orders[b].amount < 0)
        BY <1>1, <1>16 DEF a, b
      <4>2. /\ db'.orders[b].amount > 0 /\ ~(db'.orders[b].amount < 0)
            /\ db'.orders[a].amount < 0 /\ ~(db'.orders[a].amount > 0)
        <5>1. b \in Rows(db')
          BY <1>12, <4>1
        <5>2. db'.orders[b].amount \in Int
          BY <1>2, <5>1 DEF TradeChange, Rows, OrderRow
        <5> QED
          BY <1>13, <5>2
      <4>3. /\ db.placed[OrderOf(db, a)].amount < 0
            /\ ~(db.placed[OrderOf(db, b)].amount < 0)
        BY <2>1, <4>1 DEF RowsKeepLimits, OrderOf
      <4> QED
        BY <1>8, <1>13, <2>2, <3>2, <4>2, <4>3 DEF OrderOf
    <3>3. CASE v \notin Rows(db)
      <4>1. v = w /\ W # {}
        BY <1>12, <2>3, <3>3
      <4>2. PICK c \in {a, b} :
              /\ db'.orders[w].order = db.orders[c].order
              /\ db'.orders[w].status = "OPEN" /\ db'.orders[w].txn = NoTxn
              /\ db'.orders[w].limit = db.orders[c].limit
              /\ db'.orders[w].amount < 0 <=> c = a
              /\ db'.orders[w].amount > 0 <=> c = b
        BY <1>14, <4>1
      <4>3. /\ a \in Rows(db) /\ b \in Rows(db) /\ a # b
            /\ db.orders[a].amount < 0 /\ db.orders[b].amount > 0
            /\ ~(db.orders[b].amount < 0)
        BY <1>1, <1>16 DEF a, b
      <4>4. /\ db.orders[a].limit >= db.placed[db.orders[a].order].limit
            /\ db.placed[db.orders[a].order].amount < 0
            /\ db.orders[b].limit <= db.placed[db.orders[b].order].limit
            /\ ~(db.placed[db.orders[b].order].amount < 0)
        BY <2>1, <4>3 DEF RowsKeepLimits
      <4> DEFINE row == db'.orders[w]  want == db'.placed[row.order]
      <4>5. CASE c = a
        <5>1. want = db.placed[db.orders[a].order] /\ row.amount < 0 /\ ~(row.amount > 0)
              /\ row.limit = db.orders[a].limit
          BY <1>8, <4>2, <4>3, <4>5
        <5> QED
          BY <4>1, <4>2, <4>4, <5>1
      <4>6. CASE c = b
        <5>1. want = db.placed[db.orders[b].order] /\ ~(row.amount < 0) /\ row.amount > 0
              /\ row.limit = db.orders[b].limit
          BY <1>8, <4>2, <4>3, <4>6
        <5> QED
          BY <4>1, <4>2, <4>4, <5>1
      <4> QED
        BY <4>2, <4>5, <4>6
    <3> QED
      BY <3>1, <3>2, <3>3
  <2> QED
    BY <2>3 DEF RowsKeepLimits
<1>21. TradesHaveRows(db)'
  BY <1>1, <1>3, <1>6, <1>12, <1>13, <1>15 DEF TablesInv, TradesHaveRows, a, b
<1>22. OneOpenSell(db)'
  <2>1. OneOpenSell(db) /\ RowsKeepLimits(db)
    BY <1>3 DEF TablesInv
  <2> SUFFICES ASSUME NEW u \in Rows(db'), NEW v \in Rows(db'),
                      db'.orders[u].status = "OPEN", db'.orders[v].status = "OPEN",
                      u # v, db'.orders[u].amount < 0
               PROVE  OrderOf(db', u) # OrderOf(db', v)
    BY DEF OneOpenSell, OpenRows, Rows
  <2>2. \A x, y \in Rows(db) :
          db.orders[x].status = "OPEN" /\ db.orders[y].status = "OPEN"
            /\ x # y /\ db.orders[x].amount < 0 => OrderOf(db, x) # OrderOf(db, y)
    BY <2>1 DEF OneOpenSell, OpenRows, Rows
  <2>3. CASE u \in Rows(db) /\ v \in Rows(db)
    BY <1>15, <2>2, <2>3
  <2>4. CASE u \notin Rows(db)
    <3>1. /\ u = w /\ v \in Rows(db) /\ OrderOf(db', u) = OrderOf(db, a)
      BY <1>12, <1>14, <2>4 DEF OrderOf
    <3> QED
      BY <1>1, <1>11, <1>15, <2>2, <3>1 DEF a
  <2>5. CASE v \notin Rows(db)
    <3>1. v = w /\ u \in Rows(db) /\ W # {}
      BY <1>12, <2>5
    <3>2. /\ db.orders[u].status = "OPEN" /\ db.orders[u].amount < 0 /\ u # a
          /\ OrderOf(db', u) = OrderOf(db, u)
      BY <1>15, <3>1
    <3>3. OrderOf(db, u) # OrderOf(db, a)
      BY <1>1, <1>11, <2>2, <3>1, <3>2 DEF a
    <3>4. OrderOf(db, u) # OrderOf(db, b)
      BY <1>1, <1>16, <2>1, <3>1, <3>2 DEF RowsKeepLimits, OrderOf, b
    <3> QED
      BY <1>14, <3>1, <3>2, <3>3, <3>4 DEF OrderOf
  <2> QED
    BY <2>3, <2>4, <2>5
<1>23. ClosedTogether(db)'
  <2>1. \A x, y \in Rows(db) : OrderOf(db, x) = OrderOf(db, y) =>
          (db.orders[x].status = "CLOSED" <=> db.orders[y].status = "CLOSED")
    BY <1>3 DEF TablesInv, ClosedTogether
  <2>2. W # {} => \E c \in {a, b} : /\ OrderOf(db', w) = OrderOf(db, c)
                                    /\ db.orders[c].status # "CLOSED"
                                    /\ db'.orders[w].status # "CLOSED"
                                    /\ c \in Rows(db)
    BY <1>1, <1>11, <1>14 DEF OrderOf, a, b
  <2> QED
    BY <1>12, <1>15, <2>1, <2>2 DEF ClosedTogether
<1>24. WithinLimits(db)'
  <2>1. \A x \in Trades(db) :
          /\ OrderOf(db', db.trades[x].buyRow) = OrderOf(db, db.trades[x].buyRow)
          /\ OrderOf(db', db.trades[x].sellRow) = OrderOf(db, db.trades[x].sellRow)
    BY <1>3, <1>15 DEF TablesInv, TradesHaveRows
  <2>2. WithinLimits(db) /\ RowsKeepLimits(db)
    BY <1>3 DEF TablesInv
  <2>3. price <= db.placed[OrderOf(db', b)].limit /\ price >= db.placed[OrderOf(db', a)].limit
    <3>1. s.limit \in Int /\ buy.limit \in Int /\ db.orders[a].limit = s.limit
      BY <1>1, <1>3 DEF Snapshots, a
    <3>2. db.orders[a].limit >= db.placed[OrderOf(db, a)].limit
      BY <1>1, <2>2 DEF RowsKeepLimits, OrderOf, a
    <3>3. OrderOf(db', a) = OrderOf(db, a) /\ OrderOf(db', b) = OrderOf(db, b)
      BY <1>1, <1>15 DEF a, b
    <3> QED
      BY <1>1, <1>11, <1>16, <3>1, <3>2, <3>3 DEF a, b
  <2>4. trade.price = price /\ trade.buyRow = b /\ trade.sellRow = a
    BY DEF trade
  <2> HIDE DEF trade
  <2> QED
    BY <1>6, <1>8, <2>1, <2>2, <2>3, <2>4 DEF WithinLimits
<1>25. SellSideAgrees(db)'
  <2>1. SellSideAgrees(db) /\ TradesHaveRows(db)
    BY <1>3 DEF TablesInv
  <2>2. trade.price = price /\ trade.amount = n /\ trade.sellRow = a
    BY DEF trade
  <2> HIDE DEF trade
  <2>3. ASSUME NEW x \in Trades(db')
        PROVE  LET row == db'.orders[db'.trades[x].sellRow]
               IN  /\ row.txn = x /\ row.status # "OPEN"
                   /\ row.amount = -db'.trades[x].amount /\ row.limit = db'.trades[x].price
    <3>1. CASE x = t
      BY <1>6, <1>13, <2>2, <3>1
    <3>2. CASE x # t
      <4>1. x \in Trades(db) /\ db'.trades[x] = db.trades[x]
        BY <1>6, <2>3, <3>2
      <4>2. /\ db.trades[x].sellRow \in Rows(db) /\ db.trades[x].sellRow # a
            /\ db.trades[x].sellRow # b
        BY <1>1, <1>11, <1>16, <2>1, <4>1 DEF SellSideAgrees, TradesHaveRows, a, b
      <4> QED
        BY <1>12, <2>1, <4>1, <4>2 DEF SellSideAgrees
    <3> QED
      BY <3>1, <3>2
  <2>4. ASSUME NEW u \in Rows(db'), db'.orders[u].amount < 0, db'.orders[u].txn # NoTxn
        PROVE  /\ db'.orders[u].txn \in Trades(db')
               /\ db'.trades[db'.orders[u].txn].sellRow = u
    <3>1. u \in Rows(db)
      BY <1>12, <1>14, <2>4
    <3>2. u # b
      BY <1>13, <1>2, <2>4 DEF TradeChange, OrderRow
    <3>3. CASE u = a
      BY <1>6, <1>13, <2>2, <3>3
    <3>4. CASE u # a
      <4>1. db'.orders[u] = db.orders[u]
        BY <1>12, <3>1, <3>2, <3>4
      <4> QED
        BY <1>6, <2>1, <2>4, <3>1, <4>1 DEF SellSideAgrees
    <3> QED
      BY <3>3, <3>4
  <2> QED
    BY <2>3, <2>4 DEF SellSideAgrees
<1>26. MatchInv'
  <2>1. \A x \in buys : /\ x.uid \in Rows(db) /\ x.uid # a /\ x.uid # b
                        /\ db.orders[x.uid].status = "OPEN" /\ x = Snapshot(db, x.uid)
    <3>1. \A x \in buys : /\ x.uid \in OpenRows(db) /\ x = Snapshot(db, x.uid)
                          /\ x.amount > 0 /\ x.uid # buy.uid /\ x \in Snapshots
      BY <1>10 DEF MatchInv, FreshSnapshots, IInv, TypeOK
    <3>2. \A x \in buys : db.orders[x.uid].amount > 0
      <4>1. \A x \in buys : x.amount = Snapshot(db, x.uid).amount
        BY <3>1
      <4> QED
        BY <3>1, <4>1 DEF Snapshot
    <3> QED
      BY <1>1, <1>16, <3>1, <3>2 DEF OpenRows, Rows, a, b
  <2>2. \A x \in sells : x # s =>
                        /\ x.uid \in Rows(db) /\ x.uid # a /\ x.uid # b
                        /\ db.orders[x.uid].status = "OPEN" /\ x = Snapshot(db, x.uid)
    <3>1. \A x \in sells : /\ x.uid \in OpenRows(db) /\ x = Snapshot(db, x.uid)
                           /\ x.amount < 0
      BY <1>10 DEF MatchInv, FreshSnapshots
    <3>2. \A x \in sells : db.orders[x.uid].amount < 0
      <4>1. \A x \in sells : x.amount = Snapshot(db, x.uid).amount
        BY <3>1
      <4> QED
        BY <3>1, <4>1 DEF Snapshot
    <3>3. \A x \in sells : x.uid = a => x = s
      BY <1>11, <3>1
    <3> QED
      BY <1>1, <1>16, <3>1, <3>2, <3>3 DEF OpenRows, Rows, b
  <2>3. \A x : /\ x.uid \in Rows(db) /\ x.uid # a /\ x.uid # b
               /\ db.orders[x.uid].status = "OPEN" /\ x = Snapshot(db, x.uid)
               => x.uid \in OpenRows(db') /\ x = Snapshot(db', x.uid)
    BY <1>12 DEF OpenRows, Rows, Snapshot
  <2>4. FreshSnapshots(buys)' /\ \A x \in buys' : x.amount > 0
    BY <1>9, <1>10, <2>1, <2>3 DEF FreshSnapshots, MatchInv
  <2>5. ASSUME pc' = "sells"
        PROVE  /\ FreshSnapshots(sells)'
               /\ \A x \in sells' : x.amount < 0 /\ x.limit <= buy.limit
               /\ \A x \in buys' : x.uid # buy.uid
    BY <1>9, <1>10, <2>2, <2>3, <2>5 DEF FreshSnapshots, MatchInv
  <2>6. /\ buy.uid \in Rows(db') /\ db'.orders[buy.uid].amount > 0
        /\ db'.orders[buy.uid].status # "CLOSED"
        /\ buy.limit <= db'.placed[OrderOf(db', buy.uid)].limit
    BY <1>1, <1>8, <1>11, <1>12, <1>13, <1>15 DEF b
  <2> QED
    BY <1>9, <2>4, <2>5, <2>6 DEF MatchInv
<1>27. Frozen'
  <2> SUFFICES ASSUME NEW o \in DOMAIN saved.placed, Cancelled(saved, o)
               PROVE  /\ RowsOf(db', o) = RowsOf(saved, o)
                      /\ \A u \in RowsOf(saved, o) : db'.orders[u] = saved.orders[u]
    BY <1>9 DEF Frozen
  <2>1. /\ RowsOf(db, o) = RowsOf(saved, o)
        /\ \A u \in RowsOf(saved, o) : db.orders[u] = saved.orders[u]
    BY DEF IInv, Frozen
  <2>2. \A u \in RowsOf(saved, o) : saved.orders[u].status = "CLOSED"
    BY <1>3 DEF Cancelled, RowsOf, TablesInv, ClosedTogether, Rows, OrderOf
  <2>3. a \notin RowsOf(db, o) /\ b \notin RowsOf(db, o)
    BY <1>11, <2>1, <2>2
  <2>4. OrderOf(db, a) # o /\ OrderOf(db, b) # o
    BY <1>1, <2>3 DEF RowsOf, Rows, OrderOf, a, b
  <2>5. RowsOf(db', o) = RowsOf(db, o)
    <3>1. w \notin RowsOf(db', o)
      <4>1. CASE W = {}
        BY <1>4, <1>12, <4>1 DEF RowsOf, Rows, w
      <4>2. CASE W # {}
        BY <1>14, <2>4, <4>2 DEF RowsOf, OrderOf
      <4> QED
        BY <4>1, <4>2
    <3> QED
      BY <1>12, <1>15, <3>1 DEF RowsOf, Rows, OrderOf
  <2>6. \A u \in RowsOf(db, o) : db'.orders[u] = db.orders[u]
    BY <1>12, <2>3 DEF RowsOf, Rows
  <2> QED
    BY <2>1, <2>5, <2>6
<1>28. TablesInv(db)'
  BY <1>20, <1>21, <1>22, <1>23, <1>24, <1>25 DEF TablesInv
<1> QED
  BY <1>18, <1>19, <1>26, <1>27, <1>28 DEF IInv

\* A step that changes nothing
LEMMA StutterStep == ASSUME IInv, UNCHANGED vars PROVE IInv'
<1>1. UNCHANGED <<db, saved, rowSeq, txnSeq, clock, order_id, pc, account,
                  symbol, buys, sells, buy, reply>>
  BY DEF vars
<1>2. TypeOK'
  BY <1>1, TablesUntouched DEF IInv, TypeOK
<1>3. MatchInv'
  BY <1>1 DEF IInv, MatchInv, FreshSnapshots, OpenRows, Snapshot, Rows, OrderOf
<1> QED
  BY <1>1, <1>2, <1>3, TablesUntouched DEF IInv

LEMMA NextStep == ASSUME IInv, [Next]_vars PROVE IInv'
<1>1. CASE Create
  BY <1>1, CreateStep
<1>2. CASE \E a \in Accounts : Begin(a)
  BY <1>2, BeginStep
<1>3. CASE \E s \in Symbols, n \in Amounts, p \in Limits : PlaceOrder(s, n, p)
  BY <1>3, PlaceStep
<1>4. CASE \E id \in OrderIds : cancelOrder(id)
  BY <1>4, CancelStep
<1>5. CASE \/ \E s \in Symbols, n \in Amounts, p \in Limits : RejectOrder(s, n, p)
           \/ \E id \in OrderIds : cancelUnknown(id) \/ queryAll(id)
           \/ AbortRequest \/ CancelInFailed \/ NoMoreSells \/ NoMoreBuys
  BY <1>5, AnswerStep
<1>6. CASE NextBuy
  BY <1>6, NextBuyStep
<1>7. CASE NextSell
  BY <1>7, NextSellStep
<1>8. CASE Commit
  BY <1>8, CommitStep
<1>9. CASE UNCHANGED vars
  BY <1>9, StutterStep
<1> QED
  BY <1>1, <1>2, <1>3, <1>4, <1>5, <1>6, <1>7, <1>8, <1>9 DEF Next, Operation, match_orders

-----------------------------------------------------------------------------
(* Theorems *)

\* The inductive invariant holds of every reachable state of the engine.
THEOREM Invariance == Spec => []IInv
<1>1. Init => IInv
  BY InitInv
<1>2. IInv /\ [Next]_vars => IInv'
  BY NextStep
<1> QED
  BY <1>1, <1>2, PTL DEF Spec

\* The tables stay well formed through every <create>, <order>, <cancel> and
\* <query>, commit and rollback: in particular no account's balance and no
\* share count goes below zero (database.cpp:53 and :92), and every row
\* belongs to an order that was placed.
THEOREM TypeCorrect == Spec => []TypeOK
<1>1. IInv => TypeOK
  BY DEF IInv
<1> QED
  BY <1>1, Invariance, PTL

\* Whatever the two sweeps do to LIMIT_PRICE (database.cpp:515-517, 581-645),
\* no order trades beyond the limit its client gave.
THEOREM LimitsRespected == Spec => []TradesWithinLimits
<1>1. IInv => TradesWithinLimits
  BY DEF IInv, TablesInv, TradesWithinLimits
<1> QED
  BY <1>1, Invariance, PTL

\* Every trade in the ledger has its own executed sell row, with its amount
\* and its price, and every sell row with a transaction is that row.
THEOREM SellLedgerAgrees == Spec => []SellSideLedger
<1>1. IInv => SellSideLedger
  BY DEF IInv, TablesInv, SellSideLedger
<1> QED
  BY <1>1, Invariance, PTL

\* A sell order is never open in two rows at a time.
THEOREM SellsOpenOnce == Spec => []OneOpenSellRow
<1>1. IInv => OneOpenSellRow
  BY DEF IInv, TablesInv, OneOpenSell, OneOpenSellRow
<1> QED
  BY <1>1, Invariance, PTL

\* Only the end of a request and a <create> change what is committed, and what
\* they commit agrees on every order that was cancelled.
LEMMA SavedStep ==
    ASSUME IInv, IInv', [Next]_vars
    PROVE  \/ UNCHANGED saved
           \/ saved' = db
           \/ saved'.orders = db.orders
<1>1. CASE Create
  <2>0. db = [orders |-> db.orders, trades |-> db.trades, balance |-> db.balance,
              shares |-> db.shares, placed |-> db.placed]
    <3>1. TablesOK(db)
      BY DEF IInv, TypeOK
    <3> QED
      BY <3>1 DEF TablesOK
  <2>1. ASSUME NEW a \in Accounts, NEW b \in Balances, insertAccount(a, b)
        PROVE  UNCHANGED saved \/ saved' = db \/ saved'.orders = db.orders
    <3>1. CASE db' = [db EXCEPT !.balance = Put(db.balance, a, b)]
      <4>1. db'.orders = db.orders
        BY <2>0, <3>1
      <4> QED
        BY <2>1, <4>1 DEF insertAccount
    <3>2. CASE UNCHANGED db
      BY <2>1, <3>2 DEF insertAccount
    <3> QED
      BY <2>1, <3>1, <3>2 DEF insertAccount
  <2>2. ASSUME NEW s \in Symbols, NEW a \in Accounts, NEW n \in ShareCounts,
               insertSymbol(s, a, n)
        PROVE  UNCHANGED saved \/ saved' = db \/ saved'.orders = db.orders
    <3>1. CASE db' = [db EXCEPT !.shares = Put(db.shares, <<s, a>>, n)]
      <4>1. db'.orders = db.orders
        BY <2>0, <3>1
      <4> QED
        BY <2>2, <4>1 DEF insertSymbol
    <3>2. CASE UNCHANGED db
      BY <2>2, <3>2 DEF insertSymbol
    <3> QED
      BY <2>2, <3>1, <3>2 DEF insertSymbol
  <2> QED
    BY <1>1, <2>1, <2>2 DEF Create
<1>2. CASE Commit
  BY <1>2 DEF Commit
<1>3. CASE (\E a \in Accounts : Begin(a)) \/ Operation
  <2>1. (\E a \in Accounts : Begin(a)) => UNCHANGED saved
    BY DEF Begin
  <2>2. Operation => UNCHANGED saved
    BY DEF Operation, PlaceOrder, RejectOrder, cancelOrder, cancelUnknown,
           queryAll, AbortRequest, CancelInFailed
  <2> QED
    BY <1>3, <2>1, <2>2
<1>4. CASE match_orders
  BY <1>4 DEF match_orders, NextBuy, NextSell, NoMoreSells, NoMoreBuys
<1>5. CASE UNCHANGED vars
  BY <1>5 DEF vars
<1> QED
  BY <1>1, <1>2, <1>3, <1>4, <1>5 DEF Next

\* A committed cancellation is final: no later request, and no rollback,
\* reopens, fills or splits a row of the order.
THEOREM CancelFinal == Spec => CancelledIsFinal
<1> DEFINE Kept == \A o \in DOMAIN saved.placed : Cancelled(saved, o) =>
                     /\ RowsOf(saved', o) = RowsOf(saved, o)
                     /\ \A u \in RowsOf(saved, o) : saved'.orders[u] = saved.orders[u]
<1>1. ASSUME IInv, IInv', [Next]_vars PROVE Kept
  <2>1. CASE UNCHANGED saved
    BY <2>1
  <2>2. CASE saved'.orders = db.orders
    BY <1>1, <2>2 DEF IInv, Frozen, RowsOf
  <2> QED
    BY <1>1, <2>1, <2>2, SavedStep
<1> QED
  BY <1>1, Invariance, PTL DEF Spec, CancelledIsFinal

-----------------------------------------------------------------------------
(* The invariant *)

\* The rows of order o in a table of orders, what they ask for, and the part
\* of it that a transaction has executed
RowsIn(T, o) == {u \in DOMAIN T : T[u].order = o}
Asked(T) == [u \in DOMAIN T |-> T[u].amount]
Done(T) == [u \in DOMAIN T |-> IF T[u].txn = NoTxn THEN 0 ELSE T[u].amount]

Conserves(d) ==
    \A o \in DOMAIN d.placed : SumOver(RowsIn(d.orders, o), Asked(d.orders)) = d.placed[o].amount

\* A row keeps the symbol and the side of its order.
RowsKeepTerms(d) ==
    \A u \in Rows(d) :
        LET row == d.orders[u]  want == d.placed[row.order]
        IN  row.symbol = want.symbol /\ (row.amount > 0 <=> want.amount > 0)

\* A trade has an amount.
TradesCount(d) == \A t \in Trades(d) : d.trades[t].amount > 0

\* What a sell order traded is what its executed rows sold.
SellsTraded(d) ==
    \A o \in DOMAIN d.placed : d.placed[o].amount < 0 =>
        SumOver(RowsIn(d.orders, o), Done(d.orders)) = -Traded(d, o)

\* As many shares of a symbol were bought as were sold.
BuysOf(d) == {o \in DOMAIN d.placed : d.placed[o].amount > 0}
SellsOf(d) == {o \in DOMAIN d.placed : d.placed[o].amount < 0}
TradedOf(d, s) ==
    [o \in DOMAIN d.placed |-> IF d.placed[o].symbol = s THEN Traded(d, o) ELSE 0]
BoughtIsSold(d) ==
    \A s : SumOver(BuysOf(d), TradedOf(d, s)) = SumOver(SellsOf(d), TradedOf(d, s))

LedgerInv(d) ==
    /\ Conserves(d) /\ RowsKeepTerms(d) /\ TradesCount(d)
    /\ SellsTraded(d) /\ BoughtIsSold(d)

\* Nothing of the orders in d is lost in e, and what was cancelled stays so.
Continues(d, e) ==
    /\ DOMAIN d.placed \subseteq DOMAIN e.placed
    /\ \A o \in DOMAIN d.placed :
         /\ e.placed[o] = d.placed[o]
         /\ Traded(e, o) >= Traded(d, o)
         /\ Cancelled(d, o) => Cancelled(e, o) /\ Traded(e, o) = Traded(d, o)

\* The rows match_orders works on are rows of its symbol.
OneSymbol ==
    /\ pc \in {"buys", "sells"} => \A x \in buys : db.orders[x.uid].symbol = symbol
    /\ pc = "sells" =>
         /\ db.orders[buy.uid].symbol = symbol
         /\ \A x \in sells : db.orders[x.uid].symbol = symbol

BookInv == LedgerInv(db) /\ LedgerInv(saved) /\ Continues(saved, db) /\ OneSymbol

-----------------------------------------------------------------------------
(* The operators of the model *)

LEMMA FiniteTables ==
    ASSUME NEW d, TablesOK(d), rowSeq \in Nat, txnSeq \in Nat
    PROVE  IsFiniteSet(Rows(d)) /\ IsFiniteSet(Trades(d)) /\ IsFiniteSet(DOMAIN d.placed)
<1>1. IsFiniteSet(1..rowSeq) /\ IsFiniteSet(1..txnSeq)
  BY FS_Interval
<1>2. Rows(d) \subseteq 1..rowSeq /\ Trades(d) \subseteq 1..txnSeq
      /\ DOMAIN d.placed \subseteq Rows(d)
  BY DEF TablesOK
<1> QED
  BY <1>1, <1>2, FS_Subset

LEMMA RowKeeps ==
    ASSUME NEW row \in OrderRow, NEW n, NEW price, NEW t, NEW unfilled
    PROVE  /\ Filled(row, n, price, t).symbol = row.symbol
           /\ Remainder(row, unfilled).symbol = row.symbol
  BY DEF Filled, Remainder, OrderRow

\* FilledRow, field by field: the filled row u and the row w, if there is one,
\* that keeps the rest of it.
FillEffect(r, T, u, n, price, t, w, W) ==
    /\ W \in {{}, {w}} /\ DOMAIN r = DOMAIN T \cup W /\ r \in [DOMAIN r -> OrderRow]
    /\ \A v \in DOMAIN T : v # u => r[v] = T[v]
    /\ r[u].order = T[u].order /\ r[u].symbol = T[u].symbol
    /\ r[u].txn = t /\ r[u].status = "EXECUTED" /\ r[u].limit = price
    /\ r[u].amount = SameSide(T[u].amount, n)
    /\ W = {} <=> n = Magnitude(T[u].amount)
    /\ \A x \in W :
         /\ r[x].order = T[u].order /\ r[x].symbol = T[u].symbol
         /\ r[x].txn = NoTxn /\ r[x].status = "OPEN" /\ r[x].limit = T[u].limit
         /\ r[x].amount = SameSide(T[u].amount, Magnitude(T[u].amount) - n)

LEMMA FillFields ==
    ASSUME NEW T, T \in [DOMAIN T -> OrderRow], NEW r, NEW u \in DOMAIN T,
           NEW n \in Int, n > 0, n <= Magnitude(T[u].amount),
           NEW price, NEW t, NEW w \in Nat, w \notin DOMAIN T,
           FilledRow(r, T, u, n, price, t, w)
    PROVE  \E W : FillEffect(r, T, u, n, price, t, w, W)
<1> DEFINE unfilled == Magnitude(T[u].amount) - n
           W == IF unfilled > 0 THEN {w} ELSE {}
<1>1. T[u] \in OrderRow /\ T[u].amount \in Int
  BY DEF OrderRow
<1>2. unfilled \in Int /\ unfilled >= 0 /\ (unfilled > 0 <=> n # Magnitude(T[u].amount))
  BY <1>1 DEF Magnitude
<1>3. /\ r \in [DOMAIN r -> OrderRow] /\ DOMAIN r = DOMAIN T \cup W
      /\ \A v \in DOMAIN T : v # u => r[v] = T[v]
      /\ r[u] = Filled(T[u], n, price, t)
      /\ unfilled > 0 => r[w] = Remainder(T[u], unfilled)
  BY DEF FilledRow
<1>4. /\ r[u].order = T[u].order /\ r[u].symbol = T[u].symbol
      /\ r[u].txn = t /\ r[u].status = "EXECUTED" /\ r[u].limit = price
      /\ r[u].amount = SameSide(T[u].amount, n)
  BY <1>1, <1>3, RowFields, RowKeeps
<1>5. ASSUME unfilled > 0
      PROVE  /\ r[w].order = T[u].order /\ r[w].symbol = T[u].symbol
             /\ r[w].txn = NoTxn /\ r[w].status = "OPEN" /\ r[w].limit = T[u].limit
             /\ r[w].amount = SameSide(T[u].amount, unfilled)
  <2> HIDE DEF unfilled
  <2> QED
    BY <1>1, <1>3, <1>5, RowFields, RowKeeps
<1>6. W \in {{}, {w}} /\ (W = {} <=> n = Magnitude(T[u].amount))
      /\ \A x \in W : x = w /\ unfilled > 0
  BY <1>2
<1> HIDE DEF W
<1>7. FillEffect(r, T, u, n, price, t, w, W)
  BY <1>3, <1>4, <1>5, <1>6 DEF FillEffect
<1> QED
  BY <1>7

\* What is filled and what is left add up to what was there.
LEMMA SidesAdd ==
    ASSUME NEW a \in Int, NEW n \in Int, 0 < n, n <= Magnitude(a)
    PROVE  /\ SameSide(a, n) + SameSide(a, Magnitude(a) - n) = a
           /\ n = Magnitude(a) => SameSide(a, n) = a
           /\ SameSide(a, n) \in Int /\ SameSide(a, Magnitude(a) - n) \in Int
           /\ a > 0 <=> SameSide(a, n) > 0
           /\ a < 0 <=> SameSide(a, n) < 0
           /\ n # Magnitude(a) => (a > 0 <=> SameSide(a, Magnitude(a) - n) > 0)
           /\ n # Magnitude(a) => (a < 0 <=> SameSide(a, Magnitude(a) - n) < 0)
  BY DEF SameSide, Magnitude

\* The sums over an order's rows after a row was filled: what the rows ask for
\* stays the same in all, whatever order they belong to.
LEMMA FillAsked ==
    ASSUME NEW T, T \in [DOMAIN T -> OrderRow], IsFiniteSet(DOMAIN T),
           NEW r, NEW u \in DOMAIN T,
           NEW n \in Int, n > 0, n <= Magnitude(T[u].amount),
           NEW price, NEW t, NEW w \in Nat, w \notin DOMAIN T,
           FilledRow(r, T, u, n, price, t, w), NEW o
    PROVE  SumOver(RowsIn(r, o), Asked(r)) = SumOver(RowsIn(T, o), Asked(T))
<1>0. PICK W : FillEffect(r, T, u, n, price, t, w, W)
  BY FillFields, Zenon
<1>1. /\ W \in {{}, {w}} /\ DOMAIN r = DOMAIN T \cup W /\ r \in [DOMAIN r -> OrderRow]
      /\ \A v \in DOMAIN T : v # u => r[v] = T[v]
      /\ r[u].order = T[u].order /\ r[u].txn = t
      /\ r[u].amount = SameSide(T[u].amount, n)
      /\ W = {} <=> n = Magnitude(T[u].amount)
      /\ \A x \in W :
           /\ r[x].order = T[u].order /\ r[x].txn = NoTxn
           /\ r[x].amount = SameSide(T[u].amount, Magnitude(T[u].amount) - n)
  BY <1>0 DEF FillEffect
<1> DEFINE S == RowsIn(T, o)
<1>2. S \subseteq DOMAIN T /\ IsFiniteSet(S) /\ w \notin S
  BY FS_Subset DEF RowsIn
<1>3. T[u].amount \in Int /\ \A v \in DOMAIN T : Asked(T)[v] = T[v].amount /\ T[v].amount \in Int
  BY DEF Asked, OrderRow
<1>4. \A v \in DOMAIN r : Asked(r)[v] = r[v].amount /\ r[v].amount \in Int
  BY <1>1 DEF Asked, OrderRow
<1>5. CASE T[u].order # o
  <2>1. RowsIn(r, o) = S
    BY <1>1, <1>5 DEF RowsIn
  <2>2. \A v \in S : Asked(r)[v] = Asked(T)[v]
    BY <1>1, <1>5, <1>2, <1>3, <1>4 DEF RowsIn
  <2> QED
    BY <1>2, <2>1, <2>2, SumSame
<1>6. CASE T[u].order = o
  <2>1. RowsIn(r, o) = S \cup W /\ u \in S
    BY <1>1, <1>6 DEF RowsIn
  <2>2. /\ \A v \in S : Asked(T)[v] \in Int
        /\ \A v \in S \cup W : Asked(r)[v] \in Int
        /\ \A v \in S : v # u => Asked(r)[v] = Asked(T)[v]
    BY <1>1, <1>2, <1>3, <1>4
  <2> DEFINE rest == IF W = {} THEN 0 ELSE Asked(r)[w]
  <2>3. SumOver(S \cup W, Asked(r))
          = SumOver(S, Asked(T)) - Asked(T)[u] + Asked(r)[u] + rest
    <3>1. IsFiniteSet(S) /\ w \notin S /\ u \in S /\ W \in {{}, {w}}
      BY <1>1, <1>2, <2>1
    <3> HIDE DEF S
    <3>2. Divides(S, Asked(T), Asked(r), u, w, W)
      BY <2>2, <3>1 DEF Divides
    <3> QED
      BY ONLY <3>2, SumDivided
  <2>4. SumOver(S, Asked(T)) \in Int
    BY <1>2, <2>2, SumType
  <2>5. /\ Asked(T)[u] = T[u].amount /\ Asked(r)[u] = SameSide(T[u].amount, n)
        /\ W # {} => rest = SameSide(T[u].amount, Magnitude(T[u].amount) - n)
        /\ W = {} => rest = 0
    BY <1>1, <1>3, <1>4
  <2>6. Asked(T)[u] = Asked(r)[u] + rest /\ Asked(r)[u] \in Int /\ rest \in Int
    BY <1>1, <1>3, <2>5, SidesAdd
  <2> HIDE DEF S, rest
  <2>7. SumOver(S \cup W, Asked(r)) = SumOver(S, Asked(T))
    BY ONLY <2>3, <2>4, <2>6
  <2> QED
    BY <2>1, <2>7 DEF S
<1> QED
  BY <1>5, <1>6

\* What an order has executed grows by what its open row was filled for.
DoneGrows(r, T, u, n, o) ==
    /\ T[u].order # o =>
         SumOver(RowsIn(r, o), Done(r)) = SumOver(RowsIn(T, o), Done(T))
    /\ T[u].order = o /\ T[u].txn = NoTxn =>
         SumOver(RowsIn(r, o), Done(r))
           = SumOver(RowsIn(T, o), Done(T)) + SameSide(T[u].amount, n)

LEMMA FillDone ==
    ASSUME NEW T, T \in [DOMAIN T -> OrderRow], IsFiniteSet(DOMAIN T),
           NEW r, NEW u \in DOMAIN T,
           NEW n \in Int, n > 0, n <= Magnitude(T[u].amount),
           NEW price, NEW t, t # NoTxn, NEW w \in Nat, w \notin DOMAIN T,
           FilledRow(r, T, u, n, price, t, w), NEW o
    PROVE  DoneGrows(r, T, u, n, o)
<1>0. PICK W : FillEffect(r, T, u, n, price, t, w, W)
  BY FillFields, Zenon
<1>1. /\ W \in {{}, {w}} /\ DOMAIN r = DOMAIN T \cup W /\ r \in [DOMAIN r -> OrderRow]
      /\ \A v \in DOMAIN T : v # u => r[v] = T[v]
      /\ r[u].order = T[u].order /\ r[u].txn = t
      /\ r[u].amount = SameSide(T[u].amount, n)
      /\ W = {} <=> n = Magnitude(T[u].amount)
      /\ \A x \in W :
           /\ r[x].order = T[u].order /\ r[x].txn = NoTxn
           /\ r[x].amount = SameSide(T[u].amount, Magnitude(T[u].amount) - n)
  BY <1>0 DEF FillEffect
<1> DEFINE S == RowsIn(T, o)
<1>2. S \subseteq DOMAIN T /\ IsFiniteSet(S) /\ w \notin S
  BY FS_Subset DEF RowsIn
<1>3. \A v \in DOMAIN T : /\ Done(T)[v] = IF T[v].txn = NoTxn THEN 0 ELSE T[v].amount
                          /\ T[v].amount \in Int
  BY DEF Done, OrderRow
<1>4. \A v \in DOMAIN r : /\ Done(r)[v] = IF r[v].txn = NoTxn THEN 0 ELSE r[v].amount
                          /\ r[v].amount \in Int
  BY <1>1 DEF Done, OrderRow
<1>5. CASE T[u].order # o
  <2>1. RowsIn(r, o) = S
    BY <1>1, <1>5 DEF RowsIn
  <2>2. \A v \in S : Done(r)[v] = Done(T)[v]
    BY <1>1, <1>5, <1>2, <1>3, <1>4 DEF RowsIn
  <2> QED
    BY <1>2, <1>5, <2>1, <2>2, SumSame DEF DoneGrows
<1>6. CASE T[u].order = o /\ T[u].txn = NoTxn
  <2>1. RowsIn(r, o) = S \cup W /\ u \in S
    BY <1>1, <1>6 DEF RowsIn
  <2>2. /\ \A v \in S : Done(T)[v] \in Int
        /\ \A v \in S \cup W : Done(r)[v] \in Int
        /\ \A v \in S : v # u => Done(r)[v] = Done(T)[v]
    BY <1>1, <1>2, <1>3, <1>4
  <2> DEFINE rest == IF W = {} THEN 0 ELSE Done(r)[w]
  <2>3. SumOver(S \cup W, Done(r))
          = SumOver(S, Done(T)) - Done(T)[u] + Done(r)[u] + rest
    <3>1. IsFiniteSet(S) /\ w \notin S /\ u \in S /\ W \in {{}, {w}}
      BY <1>1, <1>2, <2>1
    <3> HIDE DEF S
    <3>2. Divides(S, Done(T), Done(r), u, w, W)
      BY <2>2, <3>1 DEF Divides
    <3> QED
      BY ONLY <3>2, SumDivided
  <2>4. SumOver(S, Done(T)) \in Int
    BY <1>2, <2>2, SumType
  <2>5. /\ Done(T)[u] = 0 /\ Done(r)[u] = SameSide(T[u].amount, n) /\ rest = 0
        /\ Done(r)[u] \in Int
    BY <1>1, <1>3, <1>4, <1>6
  <2> HIDE DEF S, rest
  <2>6. SumOver(S \cup W, Done(r)) = SumOver(S, Done(T)) + Done(r)[u]
    BY ONLY <2>3, <2>4, <2>5
  <2> QED
    BY <1>6, <2>1, <2>5, <2>6 DEF S, DoneGrows
<1> QED
  BY <1>5, <1>6 DEF DoneGrows

-----------------------------------------------------------------------------
(* A trade *)

\* One trade of buy row b with sell row a for n shares: two rows are filled,
\* each with a row for its remainder if there is one.
TwoFills(b, a, n, price, T, w1, w2) ==
    /\ b \in Rows(db) /\ a \in Rows(db) /\ a # b
    /\ n > 0 /\ n <= db.orders[b].amount /\ n <= -db.orders[a].amount
    /\ w1 \notin Rows(db) /\ T \in [DOMAIN T -> OrderRow]
    /\ FilledRow(T, db.orders, b, n, price, txnSeq + 1, w1)
    /\ a \in DOMAIN T /\ T[a] = db.orders[a] /\ w2 \notin DOMAIN T
    /\ FilledRow(db'.orders, T, a, n, price, txnSeq + 1, w2)
    /\ db'.trades = execute_trade(db.trades, db.orders, txnSeq + 1, b, a, n, price)
    /\ db'.placed = db.placed

LEMMA NextSellFills ==
    ASSUME IInv, NextSell
    PROVE  \E s \in sells, n \in Int, price \in Int, w1 \in Nat, w2 \in Nat : \E T :
             /\ TwoFills(buy.uid, s.uid, n, price, T, w1, w2)
             /\ IF n = db.orders[buy.uid].amount
                THEN pc' = "buys" /\ sells' = {}
                ELSE pc' = pc /\ sells' = sells \ {s} /\ n = -db.orders[s.uid].amount
<1>1. PICK s \in sells : Trade(s)
  BY DEF NextSell
<1>2. pc = "sells"
  BY SMTT(40) DEF NextSell
<1> DEFINE b       == buy.uid
           a       == s.uid
           bought  == db.orders[b].amount
           n       == Lesser(bought, Magnitude(s.amount))
           price   == ExecutionPrice(buy, s)
           t       == txnSeq + 1
           buySeq  == IF bought > n THEN rowSeq + 1 ELSE rowSeq
           first   == update_order_status(db.orders, b, n, price, t, rowSeq + 1)
           new     == update_order_status(first, a, n, price, t, buySeq + 1)
<1>3. /\ b \in Rows(db) /\ a \in Rows(db) /\ a # b
      /\ bought \in Int /\ bought > 0 /\ n \in Int /\ n > 0 /\ price \in Int
      /\ db.orders[a].amount = s.amount
      /\ s.amount \in Int /\ s.amount < 0 /\ -s.amount >= n
  BY <1>1, <1>2, TradeRows, ZenonT(90)
<1>4. /\ db' = [db EXCEPT !.trades = execute_trade(db.trades, db.orders, t, b, a, n, price),
                          !.orders = new]
      /\ IF bought = n THEN pc' = "buys" /\ sells' = {}
         ELSE pc' = pc /\ sells' = sells \ {s}
  BY <1>1, <1>2 DEF Trade
<1>5. /\ TablesOK(db) /\ rowSeq \in Nat /\ txnSeq \in Nat /\ clock \in Nat /\ t \in Nat
  BY DEF IInv, TypeOK
<1>6. /\ db'.orders = new /\ db'.placed = db.placed
      /\ db'.trades = execute_trade(db.trades, db.orders, t, b, a, n, price)
  <2> HIDE DEF new, n, price, t
  <2> QED
    BY <1>4, <1>5 DEF TablesOK
<1>7. /\ Magnitude(bought) = bought /\ Magnitude(s.amount) = -s.amount
      /\ n <= bought /\ (n = bought \/ n = -s.amount)
  <2>1. Magnitude(bought) = bought
    BY <1>3 DEF Magnitude
  <2> HIDE DEF bought
  <2> QED
    BY <1>3, <2>1 DEF Magnitude, Lesser
<1>8. /\ db.orders \in [DOMAIN db.orders -> OrderRow] /\ DOMAIN db.orders = Rows(db)
      /\ rowSeq + 1 \in Nat /\ rowSeq + 1 \notin Rows(db)
  BY <1>5 DEF TablesOK, Rows
<1> HIDE DEF n, price, t
<1>9. FilledRow(first, db.orders, b, n, price, t, rowSeq + 1)
  BY <1>3, <1>5, <1>7, <1>8, UpdateOrderStatus
<1>10. /\ first \in [DOMAIN first -> OrderRow]
       /\ DOMAIN first = Rows(db) \cup (IF bought > n THEN {rowSeq + 1} ELSE {})
       /\ \A v \in Rows(db) : v # b => first[v] = db.orders[v]
  <2> HIDE DEF first
  <2> QED
    BY <1>3, <1>7, <1>8, <1>9 DEF FilledRow
<1>11. /\ a \in DOMAIN first /\ first[a] = db.orders[a]
       /\ buySeq + 1 \in Nat /\ buySeq + 1 \notin DOMAIN first
  <2> HIDE DEF first
  <2> QED
    BY <1>3, <1>5, <1>10 DEF TablesOK
<1>12. FilledRow(new, first, a, n, price, t, buySeq + 1)
  <2> HIDE DEF first, buySeq
  <2> QED
    BY <1>3, <1>5, <1>7, <1>10, <1>11, UpdateOrderStatus
<1>13. TwoFills(b, a, n, price, first, rowSeq + 1, buySeq + 1)
  <2> HIDE DEF first, new, buySeq
  <2> QED
    BY <1>3, <1>6, <1>7, <1>8, <1>9, <1>10, <1>11, <1>12 DEF TwoFills, t
<1>14. IF n = bought THEN pc' = "buys" /\ sells' = {}
       ELSE pc' = pc /\ sells' = sells \ {s} /\ n = -db.orders[a].amount
  BY <1>3, <1>4, <1>7
<1> HIDE DEF first, buySeq
<1> QED
  BY <1>3, <1>8, <1>11, <1>13, <1>14

\* Every row of r is a row of T or the remainder of one, and keeps its order,
\* its symbol and its side.
RowsKept(T, r) ==
    /\ DOMAIN T \subseteq DOMAIN r
    /\ \A v \in DOMAIN r : \E c \in DOMAIN T :
         /\ v \in DOMAIN T => c = v
         /\ r[v].order = T[c].order /\ r[v].symbol = T[c].symbol
         /\ r[v].amount > 0 <=> T[c].amount > 0

LEMMA FillKeepsRows ==
    ASSUME NEW T, T \in [DOMAIN T -> OrderRow], NEW r, NEW u \in DOMAIN T,
           NEW n \in Int, n > 0, n <= Magnitude(T[u].amount),
           NEW price, NEW t, NEW w \in Nat, w \notin DOMAIN T,
           FilledRow(r, T, u, n, price, t, w)
    PROVE  RowsKept(T, r)
<1>0. PICK W : FillEffect(r, T, u, n, price, t, w, W)
  BY FillFields, Zenon
<1>1. /\ W \in {{}, {w}} /\ DOMAIN r = DOMAIN T \cup W
      /\ \A v \in DOMAIN T : v # u => r[v] = T[v]
      /\ r[u].order = T[u].order /\ r[u].symbol = T[u].symbol
      /\ r[u].amount = SameSide(T[u].amount, n)
      /\ W = {} <=> n = Magnitude(T[u].amount)
      /\ \A x \in W :
           /\ r[x].order = T[u].order /\ r[x].symbol = T[u].symbol
           /\ r[x].amount = SameSide(T[u].amount, Magnitude(T[u].amount) - n)
  BY <1>0 DEF FillEffect
<1>2. T[u].amount \in Int
  BY DEF OrderRow
<1>3. /\ r[u].amount > 0 <=> T[u].amount > 0
      /\ \A x \in W : r[x].amount > 0 <=> T[u].amount > 0
  BY <1>1, <1>2, SidesAdd
<1> QED
  BY <1>1, <1>3 DEF RowsKept

LEMMA TradeKeepsRows ==
    ASSUME IInv, NEW b, NEW a, NEW n \in Int, NEW price, NEW T,
           NEW w1 \in Nat, NEW w2 \in Nat, TwoFills(b, a, n, price, T, w1, w2)
    PROVE  /\ RowsKept(db.orders, db'.orders)
           /\ \A v \in Rows(db) : OrderOf(db', v) = OrderOf(db, v)
<1>1. db.orders \in [DOMAIN db.orders -> OrderRow] /\ DOMAIN db.orders = Rows(db)
  BY DEF IInv, TypeOK, TablesOK, Rows
<1>2. /\ b \in DOMAIN db.orders /\ a \in DOMAIN db.orders /\ n > 0
      /\ n <= db.orders[b].amount /\ n <= -db.orders[a].amount
      /\ w1 \notin DOMAIN db.orders /\ T \in [DOMAIN T -> OrderRow]
      /\ FilledRow(T, db.orders, b, n, price, txnSeq + 1, w1)
      /\ a \in DOMAIN T /\ T[a] = db.orders[a] /\ w2 \notin DOMAIN T
      /\ FilledRow(db'.orders, T, a, n, price, txnSeq + 1, w2)
  BY <1>1 DEF TwoFills
<1>3. n <= Magnitude(db.orders[b].amount) /\ n <= Magnitude(T[a].amount)
  BY <1>1, <1>2 DEF Magnitude, OrderRow
<1>4. RowsKept(db.orders, T)
  BY <1>1, <1>2, <1>3, FillKeepsRows, Zenon
<1>5. RowsKept(T, db'.orders)
  BY <1>2, <1>3, FillKeepsRows, Zenon
<1>6. RowsKept(db.orders, db'.orders)
  BY <1>4, <1>5 DEF RowsKept
<1> QED
  BY <1>1, <1>6 DEF RowsKept, OrderOf

\* The two orders of a trade, and no other, traded n shares more.
LEMMA TradeTraded ==
    ASSUME IInv, NEW b, NEW a, NEW n \in Int, NEW price, NEW T,
           NEW w1 \in Nat, NEW w2 \in Nat, TwoFills(b, a, n, price, T, w1, w2), NEW o
    PROVE  /\ Traded(db, o) \in Int
           /\ Traded(db', o)
                = Traded(db, o) + (IF o \in {OrderOf(db, b), OrderOf(db, a)} THEN n ELSE 0)
<1> DEFINE Of(d) == {t \in Trades(d) : o \in {OrderOf(d, d.trades[t].buyRow),
                                              OrderOf(d, d.trades[t].sellRow)}}
           Size(d) == [t \in Trades(d) |-> d.trades[t].amount]
           new == txnSeq + 1
<1>1. /\ TablesOK(db) /\ TradesHaveRows(db) /\ rowSeq \in Nat /\ txnSeq \in Nat
  BY DEF IInv, TypeOK, TablesInv
<1>2. /\ new \notin Trades(db) /\ IsFiniteSet(Trades(db))
      /\ \A t \in Trades(db) : db.trades[t] \in TradeRow /\ db.trades[t].amount \in Int
  BY <1>1, FiniteTables DEF TablesOK, TradeRow
<1>3. /\ Trades(db') = Trades(db) \cup {new}
      /\ \A t \in Trades(db) : db'.trades[t] = db.trades[t]
      /\ db'.trades[new].amount = n
      /\ db'.trades[new].buyRow = b /\ db'.trades[new].sellRow = a
  BY <1>2 DEF TwoFills, execute_trade, Put, Trades
<1>4. \A v \in Rows(db) : OrderOf(db', v) = OrderOf(db, v)
  BY TradeKeepsRows
<1>5. b \in Rows(db) /\ a \in Rows(db)
  BY DEF TwoFills
<1>6. Of(db') = Of(db) \cup (IF o \in {OrderOf(db, b), OrderOf(db, a)} THEN {new} ELSE {})
  <2>1. ASSUME NEW t \in Trades(db) PROVE t \in Of(db') <=> t \in Of(db)
    <3>1. db.trades[t].buyRow \in Rows(db) /\ db.trades[t].sellRow \in Rows(db)
      BY <1>1 DEF TradesHaveRows
    <3> QED
      BY <1>3, <1>4, <3>1
  <2>2. new \in Of(db') <=> o \in {OrderOf(db, b), OrderOf(db, a)}
    BY <1>3, <1>4, <1>5
  <2>3. Of(db) \subseteq Trades(db) /\ Of(db') \subseteq Trades(db) \cup {new}
    BY <1>3
  <2> HIDE DEF Of, new
  <2> QED
    BY <2>1, <2>2, <2>3
<1>7. /\ Of(db) \subseteq Trades(db) /\ IsFiniteSet(Of(db)) /\ new \notin Of(db)
  BY <1>2, FS_Subset
<1>8. /\ \A t \in Of(db) : Size(db)[t] \in Int /\ Size(db')[t] = Size(db)[t]
      /\ Size(db')[new] = n
  BY <1>2, <1>3
<1>9. Traded(db, o) = SumOver(Of(db), Size(db)) /\ Traded(db', o) = SumOver(Of(db'), Size(db'))
  BY DEF Traded
<1> HIDE DEF Of, Size, new
<1>10. SumOver(Of(db), Size(db)) \in Int
  BY <1>7, <1>8, SumType
<1>11. SumOver(Of(db), Size(db')) = SumOver(Of(db), Size(db))
  BY <1>7, <1>8, SumSame
<1>12. CASE o \in {OrderOf(db, b), OrderOf(db, a)}
  <2>1. SumOver(Of(db) \cup {new}, Size(db')) = Size(db')[new] + SumOver(Of(db), Size(db'))
    <3>1. \A t \in Of(db) \cup {new} : Size(db')[t] \in Int
      BY <1>8
    <3> QED
      BY <1>7, <3>1, SumAdd
  <2> QED
    BY <1>6, <1>8, <1>9, <1>10, <1>11, <1>12, <2>1
<1>13. CASE o \notin {OrderOf(db, b), OrderOf(db, a)}
  BY <1>6, <1>9, <1>10, <1>11, <1>13
<1> QED
  BY <1>9, <1>10, <1>12, <1>13

\* The order bought for, the order sold for, and their terms
LEMMA TradeOrders ==
    ASSUME IInv, BookInv, NEW s \in sells, pc = "sells",
           NEW n \in Int, NEW price, NEW T, NEW w1, NEW w2,
           TwoFills(buy.uid, s.uid, n, price, T, w1, w2)
    PROVE  LET ob == OrderOf(db, buy.uid)  oa == OrderOf(db, s.uid)
           IN  /\ ob \in DOMAIN db.placed /\ oa \in DOMAIN db.placed /\ ob # oa
               /\ db.placed[ob].amount > 0 /\ db.placed[oa].amount < 0
               /\ db.placed[ob].symbol = symbol /\ db.placed[oa].symbol = symbol
               /\ db.orders[s.uid].status = "OPEN" /\ db.orders[s.uid].txn = NoTxn
               /\ db.orders[buy.uid].status # "CLOSED"
<1> DEFINE b == buy.uid  a == s.uid  ob == OrderOf(db, b)  oa == OrderOf(db, a)
<1>1. /\ TablesOK(db) /\ RowsKeepLimits(db) /\ RowsKeepTerms(db)
      /\ db.orders[b].symbol = symbol /\ db.orders[a].symbol = symbol
      /\ a \in OpenRows(db) /\ db.orders[b].status # "CLOSED"
  BY DEF IInv, TypeOK, TablesInv, BookInv, LedgerInv, OneSymbol, MatchInv, FreshSnapshots
<1>2. b \in Rows(db) /\ a \in Rows(db) /\ n > 0 /\ n <= db.orders[b].amount
      /\ n <= -db.orders[a].amount
  BY DEF TwoFills
<1>3. db.orders[b].amount \in Int /\ db.orders[a].amount \in Int
  BY <1>1, <1>2 DEF TablesOK, OrderRow
<1>4. db.orders[b].amount > 0 /\ db.orders[a].amount < 0
  BY <1>2, <1>3
<1>5. ob \in DOMAIN db.placed /\ oa \in DOMAIN db.placed
  BY <1>1, <1>2 DEF TablesOK
<1>6. db.placed[ob].amount \in Int /\ db.placed[oa].amount \in Int
  BY <1>1, <1>5 DEF TablesOK, Request
<1>7. /\ db.placed[ob].amount > 0 /\ db.placed[ob].symbol = symbol
      /\ db.placed[oa].symbol = symbol
  BY <1>1, <1>2, <1>4 DEF RowsKeepTerms, OrderOf
<1>8. db.placed[oa].amount < 0
  BY <1>1, <1>2, <1>4 DEF RowsKeepLimits, OrderOf
<1>9. db.orders[a].status = "OPEN" /\ db.orders[a].txn = NoTxn
  BY <1>1, <1>2 DEF OpenRows, RowsKeepLimits
<1>10. ob # oa
  BY <1>6, <1>7, <1>8
<1> HIDE DEF ob, oa, a, b
<1> QED
  BY <1>1, <1>5, <1>7, <1>8, <1>9, <1>10 DEF ob, oa, a, b

LEMMA TradeConserves ==
    ASSUME IInv, Conserves(db), NEW b, NEW a, NEW n \in Int, NEW price, NEW T,
           NEW w1 \in Nat, NEW w2 \in Nat, TwoFills(b, a, n, price, T, w1, w2)
    PROVE  Conserves(db')
<1>1. db.orders \in [DOMAIN db.orders -> OrderRow] /\ DOMAIN db.orders = Rows(db)
      /\ IsFiniteSet(DOMAIN db.orders)
  BY FiniteTables DEF IInv, TypeOK, TablesOK, Rows
<1>2. /\ b \in DOMAIN db.orders /\ a \in DOMAIN db.orders /\ n > 0
      /\ n <= db.orders[b].amount /\ n <= -db.orders[a].amount
      /\ w1 \notin DOMAIN db.orders /\ T \in [DOMAIN T -> OrderRow]
      /\ FilledRow(T, db.orders, b, n, price, txnSeq + 1, w1)
      /\ a \in DOMAIN T /\ T[a] = db.orders[a] /\ w2 \notin DOMAIN T
      /\ FilledRow(db'.orders, T, a, n, price, txnSeq + 1, w2)
      /\ db'.placed = db.placed
  BY <1>1 DEF TwoFills
<1>3. n <= Magnitude(db.orders[b].amount) /\ n <= Magnitude(T[a].amount)
  BY <1>1, <1>2 DEF Magnitude, OrderRow
<1>4. IsFiniteSet(DOMAIN T)
  <2>1. DOMAIN T \subseteq DOMAIN db.orders \cup {w1}
    BY <1>2 DEF FilledRow
  <2> QED
    BY <1>1, <2>1, FS_AddElement, FS_Subset
<1>5. ASSUME NEW o
      PROVE  SumOver(RowsIn(db'.orders, o), Asked(db'.orders))
               = SumOver(RowsIn(db.orders, o), Asked(db.orders))
  <2>1. SumOver(RowsIn(T, o), Asked(T)) = SumOver(RowsIn(db.orders, o), Asked(db.orders))
    BY <1>1, <1>2, <1>3, FillAsked, Zenon
  <2>2. SumOver(RowsIn(db'.orders, o), Asked(db'.orders)) = SumOver(RowsIn(T, o), Asked(T))
    BY <1>2, <1>3, <1>4, FillAsked, Zenon
  <2> QED
    BY <2>1, <2>2
<1> QED
  BY <1>2, <1>5 DEF Conserves

LEMMA TradeSells ==
    ASSUME IInv, BookInv, NEW s \in sells, pc = "sells",
           NEW n \in Int, NEW price, NEW T, NEW w1 \in Nat, NEW w2 \in Nat,
           TwoFills(buy.uid, s.uid, n, price, T, w1, w2)
    PROVE  SellsTraded(db')
<1> DEFINE b == buy.uid  a == s.uid  ob == OrderOf(db, b)  oa == OrderOf(db, a)
<1>1. /\ db.orders \in [DOMAIN db.orders -> OrderRow] /\ DOMAIN db.orders = Rows(db)
      /\ IsFiniteSet(DOMAIN db.orders)
  BY FiniteTables DEF IInv, TypeOK, TablesOK, Rows
<1>0. txnSeq + 1 # NoTxn
  BY DEF IInv, TypeOK, NoTxn
<1>2. /\ b \in DOMAIN db.orders /\ a \in DOMAIN db.orders /\ n > 0
      /\ n <= db.orders[b].amount /\ n <= -db.orders[a].amount
      /\ w1 \notin DOMAIN db.orders /\ T \in [DOMAIN T -> OrderRow]
      /\ FilledRow(T, db.orders, b, n, price, txnSeq + 1, w1)
      /\ a \in DOMAIN T /\ T[a] = db.orders[a] /\ w2 \notin DOMAIN T
      /\ FilledRow(db'.orders, T, a, n, price, txnSeq + 1, w2)
      /\ db'.placed = db.placed
  BY <1>1 DEF TwoFills
<1>3. n <= Magnitude(db.orders[b].amount) /\ n <= Magnitude(T[a].amount)
      /\ SameSide(T[a].amount, n) = -n
  BY <1>1, <1>2 DEF Magnitude, SameSide, OrderRow
<1>4. IsFiniteSet(DOMAIN T)
  <2>1. DOMAIN T \subseteq DOMAIN db.orders \cup {w1}
    BY <1>2 DEF FilledRow
  <2> QED
    BY <1>1, <2>1, FS_AddElement, FS_Subset
<1>5. /\ ob # oa /\ db.placed[ob].amount > 0 /\ T[a].txn = NoTxn
      /\ ob \in DOMAIN db.placed
      /\ T[a].order = oa /\ db.orders[b].order = ob
  BY <1>2, TradeOrders DEF OrderOf
<1>6. ASSUME NEW o \in DOMAIN db.placed, db.placed[o].amount < 0
      PROVE  SumOver(RowsIn(db'.orders, o), Done(db'.orders)) = -Traded(db', o)
  <2>1. o # ob
    <3>1. db.placed[ob].amount \in Int
      BY <1>5 DEF IInv, TypeOK, TablesOK, Request
    <3> QED
      BY <1>5, <1>6, <3>1
  <2> DEFINE before == SumOver(RowsIn(db.orders, o), Done(db.orders))
             middle == SumOver(RowsIn(T, o), Done(T))
             after  == SumOver(RowsIn(db'.orders, o), Done(db'.orders))
  <2>2. middle = before
    <3>1. DoneGrows(T, db.orders, b, n, o)
      BY <1>0, <1>1, <1>2, <1>3, FillDone, Zenon
    <3> QED
      BY <1>5, <2>1, <3>1 DEF DoneGrows
  <2>3. /\ T[a].order # o => after = middle
        /\ T[a].order = o /\ T[a].txn = NoTxn => after = middle + SameSide(T[a].amount, n)
    <3>1. DoneGrows(db'.orders, T, a, n, o)
      BY <1>0, <1>2, <1>3, <1>4, FillDone, Zenon
    <3> QED
      BY <3>1 DEF DoneGrows
  <2>4. before = -Traded(db, o)
    BY <1>6 DEF BookInv, LedgerInv, SellsTraded
  <2>5. /\ Traded(db, o) \in Int
        /\ Traded(db', o) = Traded(db, o) + (IF o \in {ob, oa} THEN n ELSE 0)
    BY TradeTraded
  <2> HIDE DEF before, middle, after, a, b, ob, oa
  <2>6. after = middle - (IF o = oa THEN n ELSE 0)
    <3>1. middle \in Int
      BY <2>2, <2>4, <2>5
    <3> QED
      BY <1>3, <1>5, <2>3, <3>1
  <2>7. after = -Traded(db', o)
    BY <2>1, <2>2, <2>4, <2>5, <2>6
  <2> QED
    BY <2>7 DEF after
<1> QED
  BY <1>2, <1>6 DEF SellsTraded

LEMMA TradeBalances ==
    ASSUME IInv, BookInv, NEW s \in sells, pc = "sells",
           NEW n \in Int, NEW price, NEW T, NEW w1 \in Nat, NEW w2 \in Nat,
           TwoFills(buy.uid, s.uid, n, price, T, w1, w2)
    PROVE  BoughtIsSold(db')
<1> DEFINE b == buy.uid  a == s.uid  ob == OrderOf(db, b)  oa == OrderOf(db, a)
<1>1. /\ db'.placed = db.placed /\ IsFiniteSet(DOMAIN db.placed)
      /\ \A o \in DOMAIN db.placed : db.placed[o].amount \in Int
  BY FiniteTables DEF IInv, TypeOK, TablesOK, Request, TwoFills
<1>2. /\ ob \in BuysOf(db) /\ oa \in SellsOf(db)
      /\ db.placed[ob].symbol = symbol /\ db.placed[oa].symbol = symbol
  BY TradeOrders DEF BuysOf, SellsOf
<1>3. ob \notin SellsOf(db) /\ oa \notin BuysOf(db)
  <2> HIDE DEF ob, oa
  <2> QED
    BY <1>1, <1>2 DEF BuysOf, SellsOf
<1>4. \A o : /\ Traded(db, o) \in Int
             /\ Traded(db', o) = Traded(db, o) + (IF o \in {ob, oa} THEN n ELSE 0)
  BY TradeTraded
<1>5. /\ BuysOf(db') = BuysOf(db) /\ SellsOf(db') = SellsOf(db)
      /\ IsFiniteSet(BuysOf(db)) /\ IsFiniteSet(SellsOf(db))
  <2>1. BuysOf(db) \subseteq DOMAIN db.placed /\ SellsOf(db) \subseteq DOMAIN db.placed
    BY DEF BuysOf, SellsOf
  <2> QED
    BY <1>1, <2>1, FS_Subset DEF BuysOf, SellsOf
<1> HIDE DEF ob, oa
<1>6. ASSUME NEW y
      PROVE  SumOver(BuysOf(db'), TradedOf(db', y)) = SumOver(SellsOf(db'), TradedOf(db', y))
  <2> DEFINE f == TradedOf(db, y)  g == TradedOf(db', y)
  <2>1. \A o \in DOMAIN db.placed :
          /\ f[o] = (IF db.placed[o].symbol = y THEN Traded(db, o) ELSE 0)
          /\ g[o] = (IF db.placed[o].symbol = y THEN Traded(db', o) ELSE 0)
    BY <1>1 DEF TradedOf
  <2>2. BuysOf(db) \subseteq DOMAIN db.placed /\ SellsOf(db) \subseteq DOMAIN db.placed
    BY DEF BuysOf, SellsOf
  <2> HIDE DEF f, g
  <2>3. \A o \in DOMAIN db.placed : f[o] \in Int /\ g[o] \in Int
    BY <1>4, <2>1
  <2>4. /\ \A o \in BuysOf(db) : o # ob => g[o] = f[o]
        /\ \A o \in SellsOf(db) : o # oa => g[o] = f[o]
    BY <1>3, <1>4, <2>1, <2>2
  <2>5. g[ob] - f[ob] = g[oa] - f[oa]
    BY <1>2, <1>4, <2>1, <2>2
  <2>6. SumOver(BuysOf(db), g) = SumOver(BuysOf(db), f) - f[ob] + g[ob]
    BY <1>2, <1>5, <2>2, <2>3, <2>4, SumChange
  <2>7. SumOver(SellsOf(db), g) = SumOver(SellsOf(db), f) - f[oa] + g[oa]
    BY <1>2, <1>5, <2>2, <2>3, <2>4, SumChange
  <2>8. SumOver(BuysOf(db), f) = SumOver(SellsOf(db), f)
    BY DEF BookInv, LedgerInv, BoughtIsSold, f
  <2>9. SumOver(BuysOf(db), f) \in Int /\ f[ob] \in Int /\ g[ob] \in Int
        /\ f[oa] \in Int /\ g[oa] \in Int
    BY <1>2, <1>5, <2>2, <2>3, SumType
  <2>10. SumOver(BuysOf(db), g) = SumOver(SellsOf(db), g)
    BY <2>5, <2>6, <2>7, <2>8, <2>9
  <2> QED
    BY <1>5, <2>10 DEF g
<1> QED
  BY <1>6 DEF BoughtIsSold

LEMMA TradedInt ==
    ASSUME NEW d, d.trades \in [Trades(d) -> TradeRow], NEW m \in Nat, Trades(d) \subseteq 1..m,
           NEW o
    PROVE  Traded(d, o) \in Int
<1> DEFINE Of == {t \in Trades(d) : o \in {OrderOf(d, d.trades[t].buyRow),
                                           OrderOf(d, d.trades[t].sellRow)}}
           Size == [t \in Trades(d) |-> d.trades[t].amount]
<1>1. IsFiniteSet(Of)
  <2>1. Of \subseteq 1..m
    OBVIOUS
  <2>2. IsFiniteSet(1..m)
    BY FS_Interval
  <2> HIDE DEF Of
  <2> QED
    BY <2>1, <2>2, FS_Subset
<1>2. \A t \in Of : Size[t] \in Int
  BY DEF TradeRow
<1> HIDE DEF Of, Size
<1>3. SumOver(Of, Size) \in Int
  BY <1>1, <1>2, SumType
<1> QED
  BY <1>3 DEF Traded, Of, Size

LEMMA TradedType ==
    ASSUME IInv
    PROVE  \A o : Traded(db, o) \in Int /\ Traded(saved, o) \in Int
<1>1. /\ db.trades \in [Trades(db) -> TradeRow] /\ Trades(db) \subseteq 1..txnSeq
      /\ saved.trades \in [Trades(saved) -> TradeRow] /\ Trades(saved) \subseteq 1..txnSeq
      /\ txnSeq \in Nat
  BY DEF IInv, TypeOK, TablesOK
<1> QED
  BY <1>1, TradedInt, Zenon

LEMMA TradedTypeNext ==
    ASSUME IInv'
    PROVE  \A o : Traded(db', o) \in Int
<1>1. /\ db'.trades \in [Trades(db') -> TradeRow] /\ Trades(db') \subseteq 1..txnSeq'
      /\ txnSeq' \in Nat
  BY DEF IInv, TypeOK, TablesOK, Trades
<1> QED
  BY <1>1, TradedInt, Zenon

LEMMA ContinuesOn ==
    ASSUME NEW d, NEW e, NEW f, Continues(d, e), Continues(e, f),
           \A o : Traded(d, o) \in Int /\ Traded(e, o) \in Int /\ Traded(f, o) \in Int
    PROVE  Continues(d, f)
  BY DEF Continues

\* A row that has been traded on belongs to an order that is not cancelled.
LEMMA TradeContinues ==
    ASSUME IInv, BookInv, NEW s \in sells, pc = "sells",
           NEW n \in Int, NEW price, NEW T, NEW w1 \in Nat, NEW w2 \in Nat,
           TwoFills(buy.uid, s.uid, n, price, T, w1, w2)
    PROVE  Continues(db, db')
<1> DEFINE b == buy.uid  a == s.uid  ob == OrderOf(db, b)  oa == OrderOf(db, a)
<1>1. /\ db'.placed = db.placed /\ n > 0 /\ b \in Rows(db) /\ a \in Rows(db) /\ b # a
      /\ DOMAIN db.orders = Rows(db)
      /\ FilledRow(T, db.orders, b, n, price, txnSeq + 1, w1)
      /\ FilledRow(db'.orders, T, a, n, price, txnSeq + 1, w2)
  BY DEF TwoFills, Rows
<1>2. \A o : /\ Traded(db, o) \in Int
             /\ Traded(db', o) = Traded(db, o) + (IF o \in {ob, oa} THEN n ELSE 0)
  BY TradeTraded
<1>3. db.orders[a].status = "OPEN" /\ db.orders[b].status # "CLOSED" /\ ClosedTogether(db)
  BY TradeOrders DEF IInv, TablesInv
<1>4. ASSUME NEW o \in DOMAIN db.placed, Cancelled(db, o)
      PROVE  o \notin {ob, oa} /\ Cancelled(db', o)
  <2>1. PICK u \in Rows(db) : db.orders[u].order = o /\ db.orders[u].status = "CLOSED"
    BY <1>4 DEF Cancelled, RowsOf, Rows
  <2>2. o # ob /\ o # oa
    BY <1>1, <1>3, <2>1 DEF ClosedTogether, OrderOf
  <2>3. u # a /\ u # b
    BY <1>3, <2>1
  <2>4. u \in DOMAIN db'.orders /\ db'.orders[u] = db.orders[u]
    BY <1>1, <2>1, <2>3 DEF FilledRow
  <2> HIDE DEF a, b, ob, oa
  <2> QED
    BY <2>1, <2>2, <2>4 DEF Cancelled, RowsOf
<1> HIDE DEF a, b, ob, oa
<1>5. ASSUME NEW o \in DOMAIN db.placed
      PROVE  Traded(db', o) >= Traded(db, o)
  BY <1>1, <1>2
<1>6. ASSUME NEW o \in DOMAIN db.placed, Cancelled(db, o)
      PROVE  Traded(db', o) = Traded(db, o)
  BY <1>2, <1>4, <1>6
<1> QED
  BY <1>1, <1>4, <1>5, <1>6 DEF Continues

LEMMA TradeStep ==
    ASSUME IInv, IInv', BookInv, NextSell
    PROVE  LedgerInv(db') /\ Continues(db, db') /\ OneSymbol'
<1>1. PICK s \in sells, n \in Int, price \in Int, w1 \in Nat, w2 \in Nat : \E T :
        /\ TwoFills(buy.uid, s.uid, n, price, T, w1, w2)
        /\ IF n = db.orders[buy.uid].amount
           THEN pc' = "buys" /\ sells' = {}
           ELSE pc' = pc /\ sells' = sells \ {s} /\ n = -db.orders[s.uid].amount
  BY NextSellFills
<1>2. PICK T : TwoFills(buy.uid, s.uid, n, price, T, w1, w2)
  BY <1>1
<1>3. pc = "sells" /\ UNCHANGED <<buys, buy, symbol>>
  BY SMTT(40) DEF NextSell
<1>4. /\ RowsKept(db.orders, db'.orders) /\ db'.placed = db.placed
      /\ DOMAIN db.orders = Rows(db)
  BY <1>2, TradeKeepsRows DEF TwoFills, Rows
<1>5. RowsKeepTerms(db')
  BY <1>4 DEF RowsKept, BookInv, LedgerInv, RowsKeepTerms, Rows
<1>6. TradesCount(db')
  <2>1. n > 0 /\ db'.trades = execute_trade(db.trades, db.orders, txnSeq + 1, buy.uid, s.uid, n, price)
    BY <1>2 DEF TwoFills
  <2> QED
    BY <2>1 DEF BookInv, LedgerInv, TradesCount, Trades, execute_trade, Put
<1>7. LedgerInv(db')
  <2>1. Conserves(db')
    BY <1>2, TradeConserves DEF BookInv, LedgerInv
  <2>2. SellsTraded(db') /\ BoughtIsSold(db')
    BY <1>2, <1>3, TradeSells, TradeBalances
  <2> QED
    BY <1>5, <1>6, <2>1, <2>2 DEF LedgerInv
<1>8. Continues(db, db')
  BY <1>2, <1>3, TradeContinues
<1>9. OneSymbol'
  <2>1. \A v \in Rows(db) : db'.orders[v].symbol = db.orders[v].symbol
    BY <1>4 DEF RowsKept
  <2>2. /\ \A x \in buys : x.uid \in Rows(db) /\ db.orders[x.uid].symbol = symbol
        /\ \A x \in sells : x.uid \in Rows(db) /\ db.orders[x.uid].symbol = symbol
        /\ buy.uid \in Rows(db) /\ db.orders[buy.uid].symbol = symbol
    BY <1>3 DEF BookInv, OneSymbol, IInv, MatchInv, FreshSnapshots, OpenRows, Rows
  <2>3. sells' \subseteq sells
    BY <1>1
  <2> QED
    BY <1>3, <2>1, <2>2, <2>3 DEF OneSymbol
<1> QED
  BY <1>7, <1>8, <1>9

-----------------------------------------------------------------------------
(* The other steps *)

\* Tables with the same orders and trades make the same book.
LEMMA SameBook ==
    ASSUME NEW d, NEW e, e.orders = d.orders, e.trades = d.trades, e.placed = d.placed
    PROVE  /\ \A o : Traded(e, o) = Traded(d, o) /\ (Cancelled(e, o) <=> Cancelled(d, o))
           /\ LedgerInv(d) => LedgerInv(e)
<1>1. \A o : Traded(e, o) = Traded(d, o)
  BY Zenon DEF Traded, Trades, OrderOf
<1>2. \A o : Cancelled(e, o) <=> Cancelled(d, o)
  BY DEF Cancelled, RowsOf
<1>3. Conserves(d) => Conserves(e)
  BY Zenon DEF Conserves
<1>4. RowsKeepTerms(d) => RowsKeepTerms(e)
  BY DEF RowsKeepTerms, Rows
<1>5. TradesCount(d) => TradesCount(e)
  BY DEF TradesCount, Trades
<1>6. SellsTraded(d) => SellsTraded(e)
  BY <1>1 DEF SellsTraded
<1>7. BoughtIsSold(d) => BoughtIsSold(e)
  <2>1. BuysOf(e) = BuysOf(d) /\ SellsOf(e) = SellsOf(d)
    BY DEF BuysOf, SellsOf
  <2>2. \A y : TradedOf(e, y) = TradedOf(d, y)
    BY <1>1 DEF TradedOf
  <2> QED
    BY <2>1, <2>2 DEF BoughtIsSold
<1> QED
  BY <1>1, <1>2, <1>3, <1>4, <1>5, <1>6, <1>7 DEF LedgerInv

\* What PlaceOrder adds to the tables
LEMMA PlaceTables ==
    ASSUME IInv, NEW s \in Symbols, NEW n \in Amounts, NEW p \in Limits, PlaceOrder(s, n, p)
    PROVE  LET u == rowSeq + 1
           IN  /\ u \notin Rows(db) /\ u \notin DOMAIN db.placed /\ n \in Int
               /\ DOMAIN db'.orders = Rows(db) \cup {u}
               /\ \A v \in Rows(db) : db'.orders[v] = db.orders[v]
               /\ db'.orders[u] = [order |-> u, account |-> account, symbol |-> s,
                                   amount |-> n, limit |-> p, status |-> "OPEN",
                                   txn |-> NoTxn, created |-> clock]
               /\ DOMAIN db'.placed = DOMAIN db.placed \cup {u}
               /\ \A o \in DOMAIN db.placed : db'.placed[o] = db.placed[o]
               /\ db'.placed[u] = [account |-> account, symbol |-> s,
                                   amount |-> n, limit |-> p]
               /\ db'.trades = db.trades
               /\ UNCHANGED <<saved, sells, buy>>
               /\ symbol' = s /\ pc' = "buys" /\ buys' = BuyOrders(db', s)
<1> DEFINE u == rowSeq + 1
           row == [order |-> u, account |-> account, symbol |-> s, amount |-> n,
                   limit |-> p, status |-> "OPEN", txn |-> NoTxn, created |-> clock]
           want == [account |-> account, symbol |-> s, amount |-> n, limit |-> p]
           orders == Put(db.orders, u, row)
           placed == Put(db.placed, u, want)
<1>1. /\ UNCHANGED <<saved, sells, buy>>
      /\ symbol' = s /\ pc' = "buys" /\ buys' = BuyOrders(db', s)
      /\ db' = [db EXCEPT !.orders = orders, !.placed = placed]
  BY DEF PlaceOrder, insertOrder
<1>2. TablesOK(db) /\ rowSeq \in Nat
  BY DEF IInv, TypeOK
<1>3. u \notin Rows(db) /\ u \notin DOMAIN db.placed /\ n \in Int
  BY <1>2, ConstantsAssumption DEF TablesOK
<1>4. /\ db'.orders = orders /\ db'.placed = placed /\ db'.trades = db.trades
  <2> HIDE DEF orders, placed
  <2> QED
    BY <1>1, <1>2 DEF TablesOK
<1> HIDE DEF row, want
<1>5. /\ DOMAIN orders = Rows(db) \cup {u} /\ orders[u] = row
      /\ \A v \in Rows(db) : orders[v] = db.orders[v]
      /\ DOMAIN placed = DOMAIN db.placed \cup {u} /\ placed[u] = want
      /\ \A o \in DOMAIN db.placed : placed[o] = db.placed[o]
  BY <1>3 DEF Put, Rows
<1> HIDE DEF orders, placed, u
<1> QED
  BY <1>1, <1>3, <1>4, <1>5 DEF row, want, u

LEMMA PlaceTraded ==
    ASSUME IInv, NEW s \in Symbols, NEW n \in Amounts, NEW p \in Limits, PlaceOrder(s, n, p)
    PROVE  /\ \A o \in DOMAIN db.placed : Traded(db', o) = Traded(db, o)
           /\ Traded(db', rowSeq + 1) = 0
<1> DEFINE u == rowSeq + 1
           Of(d, o) == {t \in Trades(d) : o \in {OrderOf(d, d.trades[t].buyRow),
                                                 OrderOf(d, d.trades[t].sellRow)}}
           Size(d) == [t \in Trades(d) |-> d.trades[t].amount]
<1>1. /\ \A v \in Rows(db) : OrderOf(db', v) = OrderOf(db, v)
      /\ db'.trades = db.trades /\ Trades(db') = Trades(db) /\ u \notin DOMAIN db.placed
  BY PlaceTables DEF OrderOf, Trades
<1>2. \A t \in Trades(db) : /\ db.trades[t].buyRow \in Rows(db)
                            /\ db.trades[t].sellRow \in Rows(db)
  BY DEF IInv, TablesInv, TradesHaveRows
<1>3. \A v \in Rows(db) : OrderOf(db, v) \in DOMAIN db.placed
  BY DEF IInv, TypeOK, TablesOK
<1>4. \A o : Of(db', o) = Of(db, o)
  BY <1>1, <1>2
<1>5. Of(db, u) = {}
  BY <1>1, <1>2, <1>3
<1>6. Size(db') = Size(db)
  BY <1>1
<1>7. \A d, o : Traded(d, o) = SumOver(Of(d, o), Size(d))
  BY DEF Traded
<1> HIDE DEF Of, Size, u
<1>8. SumOver({}, Size(db')) = 0
  BY SumEmpty
<1> QED
  BY <1>4, <1>5, <1>6, <1>7, <1>8 DEF u

LEMMA PlaceBook ==
    ASSUME IInv, BookInv, NEW s \in Symbols, NEW n \in Amounts, NEW p \in Limits,
           PlaceOrder(s, n, p)
    PROVE  LedgerInv(db') /\ Continues(db, db') /\ OneSymbol'
<1> DEFINE u == rowSeq + 1
<1>0. /\ u \notin Rows(db) /\ u \notin DOMAIN db.placed /\ n \in Int
      /\ DOMAIN db'.orders = Rows(db) \cup {u}
      /\ \A v \in Rows(db) : db'.orders[v] = db.orders[v]
      /\ db'.orders[u] = [order |-> u, account |-> account, symbol |-> s,
                          amount |-> n, limit |-> p, status |-> "OPEN",
                          txn |-> NoTxn, created |-> clock]
      /\ DOMAIN db'.placed = DOMAIN db.placed \cup {u}
      /\ \A o \in DOMAIN db.placed : db'.placed[o] = db.placed[o]
      /\ db'.placed[u] = [account |-> account, symbol |-> s, amount |-> n, limit |-> p]
      /\ db'.trades = db.trades /\ pc' = "buys" /\ symbol' = s
      /\ buys' = BuyOrders(db', s)
  BY PlaceTables, Zenon
<1>1. /\ u \notin Rows(db) /\ u \notin DOMAIN db.placed /\ n \in Int
      /\ DOMAIN db'.orders = Rows(db) \cup {u} /\ DOMAIN db.orders = Rows(db)
      /\ \A v \in Rows(db) : db'.orders[v] = db.orders[v]
      /\ db'.orders[u].order = u /\ db'.orders[u].symbol = s
      /\ db'.orders[u].amount = n /\ db'.orders[u].txn = NoTxn
      /\ DOMAIN db'.placed = DOMAIN db.placed \cup {u}
      /\ \A o \in DOMAIN db.placed : db'.placed[o] = db.placed[o]
      /\ db'.placed[u].symbol = s /\ db'.placed[u].amount = n
      /\ db'.trades = db.trades /\ pc' = "buys" /\ symbol' = s
      /\ buys' = BuyOrders(db', s)
  BY <1>0 DEF Rows
<1>2. /\ \A o \in DOMAIN db.placed : Traded(db', o) = Traded(db, o)
      /\ Traded(db', u) = 0
  BY PlaceTraded
<1>3. /\ \A v \in Rows(db) : /\ db.orders[v].order \in DOMAIN db.placed
                             /\ db.orders[v].amount \in Int
      /\ IsFiniteSet(Rows(db)) /\ IsFiniteSet(DOMAIN db.placed)
  BY FiniteTables DEF IInv, TypeOK, TablesOK, OrderOf, OrderRow
<1>4. \A o : Traded(db, o) \in Int
  BY TradedType
<1> HIDE DEF u
<1>5. ASSUME NEW o \in DOMAIN db.placed
      PROVE  RowsIn(db'.orders, o) = RowsIn(db.orders, o) /\ IsFiniteSet(RowsIn(db.orders, o))
             /\ RowsIn(db.orders, o) \subseteq Rows(db)
  <2>1. RowsIn(db'.orders, o) = RowsIn(db.orders, o) /\ RowsIn(db.orders, o) \subseteq Rows(db)
    BY <1>1 DEF RowsIn
  <2> QED
    BY <1>3, <2>1, FS_Subset
<1>6. RowsIn(db'.orders, u) = {u}
  BY <1>1, <1>3 DEF RowsIn
<1>7. \A f : f[u] \in Int => SumOver({u}, f) = f[u]
  <2>1. ASSUME NEW f, f[u] \in Int PROVE SumOver({} \cup {u}, f) = f[u] + SumOver({}, f)
    BY <2>1, FS_EmptySet, SumAdd
  <2> QED
    BY <2>1, SumEmpty
<1>8. Conserves(db')
  <2>1. ASSUME NEW o \in DOMAIN db.placed
        PROVE  SumOver(RowsIn(db'.orders, o), Asked(db'.orders)) = db'.placed[o].amount
    <3>1. \A v \in RowsIn(db.orders, o) : Asked(db'.orders)[v] = Asked(db.orders)[v]
      BY <1>1, <1>5 DEF Asked
    <3>2. SumOver(RowsIn(db.orders, o), Asked(db'.orders))
            = SumOver(RowsIn(db.orders, o), Asked(db.orders))
      BY <1>5, <3>1, SumSame
    <3> QED
      BY <1>1, <1>5, <3>2 DEF BookInv, LedgerInv, Conserves
  <2>2. SumOver(RowsIn(db'.orders, u), Asked(db'.orders)) = n
    <3>1. Asked(db'.orders)[u] = n
      BY <1>1 DEF Asked
    <3> QED
      BY <1>1, <1>6, <1>7, <3>1
  <2> QED
    BY <1>1, <2>1, <2>2 DEF Conserves
<1>9. SellsTraded(db')
  <2>1. ASSUME NEW o \in DOMAIN db.placed, db'.placed[o].amount < 0
        PROVE  SumOver(RowsIn(db'.orders, o), Done(db'.orders)) = -Traded(db', o)
    <3>1. \A v \in RowsIn(db.orders, o) : Done(db'.orders)[v] = Done(db.orders)[v]
      BY <1>1, <1>5 DEF Done
    <3>2. SumOver(RowsIn(db.orders, o), Done(db'.orders))
            = SumOver(RowsIn(db.orders, o), Done(db.orders))
      BY <1>5, <3>1, SumSame
    <3> QED
      BY <1>1, <1>2, <1>5, <2>1, <3>2 DEF BookInv, LedgerInv, SellsTraded
  <2>2. SumOver(RowsIn(db'.orders, u), Done(db'.orders)) = -Traded(db', u)
    <3>1. Done(db'.orders)[u] = 0
      BY <1>1 DEF Done
    <3> QED
      BY <1>2, <1>6, <1>7, <3>1
  <2> QED
    BY <1>1, <2>1, <2>2 DEF SellsTraded
<1>10. BoughtIsSold(db')
  <2>1. ASSUME NEW S \in SUBSET DOMAIN db.placed, NEW y
        PROVE  /\ SumOver(S, TradedOf(db', y)) = SumOver(S, TradedOf(db, y))
               /\ SumOver(S \cup {u}, TradedOf(db', y)) = SumOver(S, TradedOf(db, y))
    <3> DEFINE f == TradedOf(db, y)  g == TradedOf(db', y)
    <3>1. /\ \A o \in DOMAIN db.placed : g[o] = f[o] /\ f[o] \in Int
          /\ g[u] = 0
      BY <1>1, <1>2, <1>4 DEF TradedOf
    <3>2. IsFiniteSet(S) /\ u \notin S
      BY <1>1, <1>3, FS_Subset
    <3> HIDE DEF f, g
    <3>3. SumOver(S, g) = SumOver(S, f) /\ SumOver(S, f) \in Int
      BY <3>1, <3>2, SumSame, SumType
    <3>4. SumOver(S \cup {u}, g) = g[u] + SumOver(S, g)
      <4>1. \A o \in S \cup {u} : g[o] \in Int
        BY <3>1
      <4> QED
        BY ONLY <3>2, <4>1, SumAdd
    <3> QED
      BY <3>1, <3>3, <3>4 DEF f, g
  <2>2. /\ BuysOf(db) \in SUBSET DOMAIN db.placed /\ SellsOf(db) \in SUBSET DOMAIN db.placed
        /\ BuysOf(db') = BuysOf(db) \/ BuysOf(db') = BuysOf(db) \cup {u}
        /\ SellsOf(db') = SellsOf(db) \/ SellsOf(db') = SellsOf(db) \cup {u}
    BY <1>1 DEF BuysOf, SellsOf
  <2>3. \A y : SumOver(BuysOf(db), TradedOf(db, y)) = SumOver(SellsOf(db), TradedOf(db, y))
    BY DEF BookInv, LedgerInv, BoughtIsSold
  <2> QED
    BY <2>1, <2>2, <2>3 DEF BoughtIsSold
<1>11. RowsKeepTerms(db') /\ TradesCount(db')
  BY <1>1, <1>3 DEF BookInv, LedgerInv, RowsKeepTerms, TradesCount, Rows, Trades
<1>12. Continues(db, db')
  <2>1. \A o : Cancelled(db, o) => Cancelled(db', o)
    BY <1>1 DEF Cancelled, RowsOf
  <2> QED
    BY <1>1, <1>2, <1>4, <2>1 DEF Continues
<1>13. OneSymbol'
  <2>1. \A x \in buys' : db'.orders[x.uid].symbol = s
    BY <1>1 DEF BuyOrders, Snapshot
  <2> QED
    BY <1>1, <2>1 DEF OneSymbol
<1> QED
  BY <1>8, <1>9, <1>10, <1>11, <1>12, <1>13 DEF LedgerInv

\* Closing the rows of an order changes nothing but their status.
LEMMA CloseRows ==
    ASSUME NEW T, T \in [DOMAIN T -> OrderRow], NEW id
    PROVE  /\ DOMAIN Close(T, id) = DOMAIN T
           /\ \A u \in DOMAIN T :
                /\ Close(T, id)[u].order = T[u].order
                /\ Close(T, id)[u].symbol = T[u].symbol
                /\ Close(T, id)[u].amount = T[u].amount
                /\ Close(T, id)[u].limit = T[u].limit
                /\ Close(T, id)[u].txn = T[u].txn
                /\ Close(T, id)[u].status = (IF T[u].order = id THEN "CLOSED" ELSE T[u].status)
  BY DEF Close, OrderRow

LEMMA CancelTables ==
    ASSUME IInv, NEW id \in OrderIds, cancelOrder(id)
    PROVE  /\ pc = "body" /\ UNCHANGED <<saved, symbol, buys, sells, buy>>
           /\ \/ UNCHANGED <<db, pc>>
              \/ db' = saved /\ pc' = "failed"
              \/ /\ db'.orders = Close(db.orders, id) /\ db'.trades = db.trades
                 /\ db'.placed = db.placed /\ pc' = "body"
<1>1. /\ pc = "body" /\ UNCHANGED <<saved, symbol, buys, sells, buy>>
  BY DEF cancelOrder, MoreOps, matching
<1>2. PICK r \in RowsOf(db, id) :
        LET row     == db.orders[r]
            balance == db.balance[row.account] + row.amount * row.limit
        IN  IF row.status # "OPEN"
            THEN Say(Error) /\ UNCHANGED <<db, pc>>
            ELSE IF balance < 0
            THEN Say(Error) /\ db' = saved /\ pc' = "failed"
            ELSE /\ db' = [db EXCEPT !.orders = Close(@, id),
                                     !.balance[row.account] = balance]
                 /\ Say([kind |-> "canceled", id |-> id])
                 /\ pc' = pc
  BY DEF cancelOrder
<1> DEFINE row == db.orders[r]
           balance == db.balance[row.account] + row.amount * row.limit
<1>3. ASSUME db' = [db EXCEPT !.orders = Close(@, id), !.balance[row.account] = balance],
             pc' = pc
      PROVE  /\ db'.orders = Close(db.orders, id) /\ db'.trades = db.trades
             /\ db'.placed = db.placed /\ pc' = "body"
  <2>1. db = [orders |-> db.orders, trades |-> db.trades, balance |-> db.balance,
              shares |-> db.shares, placed |-> db.placed]
    BY DEF IInv, TypeOK, TablesOK
  <2> HIDE DEF row, balance
  <2> QED
    BY <1>1, <1>3, <2>1
<1>4. \/ UNCHANGED <<db, pc>>
      \/ db' = saved /\ pc' = "failed"
      \/ /\ db' = [db EXCEPT !.orders = Close(@, id), !.balance[row.account] = balance]
         /\ pc' = pc
  BY <1>2
<1> HIDE DEF row, balance
<1> QED
  BY <1>1, <1>3, <1>4

LEMMA CloseBook ==
    ASSUME IInv, BookInv, NEW id, db'.orders = Close(db.orders, id), db'.trades = db.trades,
           db'.placed = db.placed
    PROVE  LedgerInv(db') /\ Continues(db, db')
<1>1. /\ DOMAIN db'.orders = DOMAIN db.orders /\ DOMAIN db.orders = Rows(db)
      /\ \A u \in DOMAIN db.orders :
           /\ db'.orders[u].order = db.orders[u].order
           /\ db'.orders[u].symbol = db.orders[u].symbol
           /\ db'.orders[u].amount = db.orders[u].amount
           /\ db'.orders[u].txn = db.orders[u].txn
           /\ db.orders[u].status = "CLOSED" => db'.orders[u].status = "CLOSED"
  <2>1. db.orders \in [DOMAIN db.orders -> OrderRow]
    BY DEF IInv, TypeOK, TablesOK, Rows
  <2> QED
    BY <2>1, CloseRows DEF Rows
<1>2. /\ \A o : RowsIn(db'.orders, o) = RowsIn(db.orders, o)
      /\ Asked(db'.orders) = Asked(db.orders) /\ Done(db'.orders) = Done(db.orders)
  BY <1>1 DEF RowsIn, Asked, Done
<1>3. \A o : Traded(db', o) = Traded(db, o)
  <2> DEFINE Of(d, o) == {t \in Trades(d) : o \in {OrderOf(d, d.trades[t].buyRow),
                                                   OrderOf(d, d.trades[t].sellRow)}}
             Size(d) == [t \in Trades(d) |-> d.trades[t].amount]
  <2>1. \A t \in Trades(db) : /\ db.trades[t].buyRow \in Rows(db)
                              /\ db.trades[t].sellRow \in Rows(db)
    BY DEF IInv, TablesInv, TradesHaveRows
  <2>2. \A o : Of(db', o) = Of(db, o)
    BY <1>1, <2>1 DEF OrderOf, Trades
  <2>3. Size(db') = Size(db)
    BY DEF Trades
  <2>4. \A d, o : Traded(d, o) = SumOver(Of(d, o), Size(d))
    BY DEF Traded
  <2> HIDE DEF Of, Size
  <2> QED
    BY <2>2, <2>3, <2>4
<1>4. \A o : Cancelled(db, o) => Cancelled(db', o)
  BY <1>1 DEF Cancelled, RowsOf
<1>5. Conserves(db') /\ SellsTraded(db')
  BY <1>2, <1>3 DEF BookInv, LedgerInv, Conserves, SellsTraded
<1>6. BoughtIsSold(db')
  <2>1. \A y : TradedOf(db', y) = TradedOf(db, y)
    BY <1>3 DEF TradedOf
  <2>2. BuysOf(db') = BuysOf(db) /\ SellsOf(db') = SellsOf(db)
    BY DEF BuysOf, SellsOf
  <2> QED
    BY <2>1, <2>2 DEF BookInv, LedgerInv, BoughtIsSold
<1>7. RowsKeepTerms(db') /\ TradesCount(db')
  BY <1>1 DEF BookInv, LedgerInv, RowsKeepTerms, TradesCount, Rows, Trades
<1>8. \A o : Traded(db, o) \in Int
  BY TradedType
<1>9. Continues(db, db')
  BY <1>3, <1>4, <1>8 DEF Continues
<1> QED
  BY <1>5, <1>6, <1>7, <1>9 DEF LedgerInv

\* The steps that leave the orders and the trades as they are
LEMMA QuietBook ==
    ASSUME IInv, BookInv,
           db'.orders = db.orders, db'.trades = db.trades, db'.placed = db.placed
    PROVE  LedgerInv(db') /\ Continues(db, db')
<1>1. LedgerInv(db)
  BY DEF BookInv
<1>2. /\ \A o : Traded(db', o) = Traded(db, o) /\ (Cancelled(db', o) <=> Cancelled(db, o))
      /\ LedgerInv(db')
  BY <1>1, SameBook, Zenon
<1>3. \A o : Traded(db, o) \in Int
  BY TradedType
<1> QED
  BY <1>2, <1>3 DEF Continues

LEMMA CreateTables ==
    ASSUME IInv, Create
    PROVE  /\ db'.orders = db.orders /\ db'.trades = db.trades /\ db'.placed = db.placed
           /\ saved' = db' /\ pc' = "idle"
<1>1. db = [orders |-> db.orders, trades |-> db.trades, balance |-> db.balance,
            shares |-> db.shares, placed |-> db.placed]
  BY DEF IInv, TypeOK, TablesOK
<1>2. saved' = db' /\ pc' = "idle"
  BY DEF Create, insertAccount, insertSymbol
<1>3. CASE UNCHANGED db
  BY <1>2, <1>3
<1>4. CASE \E balance : db' = [db EXCEPT !.balance = balance]
  BY <1>1, <1>2, <1>4
<1>5. CASE \E shares : db' = [db EXCEPT !.shares = shares]
  BY <1>1, <1>2, <1>5
<1>6. ASSUME NEW a, NEW c, insertAccount(a, c)
      PROVE  UNCHANGED db \/ \E balance : db' = [db EXCEPT !.balance = balance]
  BY <1>6 DEF insertAccount
<1>7. ASSUME NEW s, NEW a, NEW n, insertSymbol(s, a, n)
      PROVE  UNCHANGED db \/ \E shares : db' = [db EXCEPT !.shares = shares]
  BY <1>7 DEF insertSymbol
<1> QED
  BY <1>3, <1>4, <1>5, <1>6, <1>7 DEF Create

\* Every step, as it changes the book of the open transaction and the saved one
LEMMA StepBook ==
    ASSUME IInv, IInv', BookInv, [Next]_vars
    PROVE  /\ LedgerInv(db') /\ OneSymbol'
           /\ \/ saved' = saved /\ (Continues(db, db') \/ db' = saved)
              \/ /\ saved' = db' /\ Continues(db, db')
                 /\ db'.orders = db.orders /\ db'.trades = db.trades /\ db'.placed = db.placed
<1>1. CASE Create
  <2>1. OneSymbol'
    BY <1>1, CreateTables DEF OneSymbol
  <2> QED
    BY <1>1, <2>1, CreateTables, QuietBook
<1>2. CASE \/ \E a \in Accounts : Begin(a)
           \/ \E s \in Symbols, n \in Amounts, p \in Limits : RejectOrder(s, n, p)
           \/ \E id \in OrderIds : cancelUnknown(id) \/ queryAll(id)
           \/ AbortRequest \/ CancelInFailed \/ NoMoreSells \/ NoMoreBuys
           \/ UNCHANGED vars
  <2>1. UNCHANGED <<db, saved, symbol, buys, sells, buy>>
    BY <1>2 DEF Begin, RejectOrder, cancelUnknown, queryAll, AbortRequest, CancelInFailed,
           NoMoreSells, NoMoreBuys, matching, vars
  <2>2. pc' = pc \/ pc' \in {"idle", "body", "failed"} \/ (pc' = "buys" /\ pc = "sells")
    BY <1>2 DEF Begin, RejectOrder, cancelUnknown, queryAll, AbortRequest, CancelInFailed,
           NoMoreSells, NoMoreBuys, MoreOps, matching, vars
  <2>3. OneSymbol'
    BY <2>1, <2>2 DEF BookInv, OneSymbol
  <2> QED
    BY <2>1, <2>3, QuietBook
<1>3. CASE \E s \in Symbols, n \in Amounts, p \in Limits : PlaceOrder(s, n, p)
  BY <1>3, PlaceBook DEF PlaceOrder
<1>4. CASE \E id \in OrderIds : cancelOrder(id)
  <2>1. PICK id \in OrderIds : cancelOrder(id)
    BY <1>4
  <2>2. /\ pc = "body" /\ UNCHANGED <<saved, symbol, buys, sells, buy>>
        /\ \/ UNCHANGED <<db, pc>>
           \/ db' = saved /\ pc' = "failed"
           \/ /\ db'.orders = Close(db.orders, id) /\ db'.trades = db.trades
              /\ db'.placed = db.placed /\ pc' = "body"
    BY <2>1, CancelTables
  <2>3. OneSymbol'
    BY <2>2 DEF OneSymbol
  <2>4. CASE UNCHANGED db
    BY <2>2, <2>3, <2>4, QuietBook
  <2>5. CASE db' = saved
    BY <2>2, <2>3, <2>5 DEF BookInv
  <2>6. CASE /\ db'.orders = Close(db.orders, id) /\ db'.trades = db.trades
             /\ db'.placed = db.placed
    BY <2>2, <2>3, <2>6, CloseBook
  <2> QED
    BY <2>2, <2>4, <2>5, <2>6
<1>5. CASE NextBuy
  <2>1. PICK b \in buys : buy' = b /\ buys' = buys \ {b}
                          /\ sells' = SellOrders(db, symbol, b.limit)
    BY <1>5 DEF NextBuy
  <2>2. pc = "buys" /\ pc' = "sells" /\ UNCHANGED <<db, saved, symbol>>
    BY <1>5 DEF NextBuy
  <2>3. \A x \in sells' : db.orders[x.uid].symbol = symbol
    BY <2>1 DEF SellOrders, Snapshot
  <2>4. OneSymbol'
    BY <2>1, <2>2, <2>3 DEF BookInv, OneSymbol
  <2> QED
    BY <2>2, <2>4, QuietBook
<1>6. CASE NextSell
  <2>1. UNCHANGED saved
    BY <1>6 DEF NextSell
  <2> QED
    BY <1>6, <2>1, TradeStep
<1>7. CASE Commit
  <2>1. UNCHANGED db /\ saved' = db' /\ pc' = "idle"
    BY <1>7 DEF Commit
  <2>2. OneSymbol'
    BY <2>1 DEF OneSymbol
  <2> QED
    BY <2>1, <2>2, QuietBook
<1> QED
  BY <1>1, <1>2, <1>3, <1>4, <1>5, <1>6, <1>7 DEF Next, Operation, match_orders

LEMMA NextBook == ASSUME IInv, IInv', BookInv, [Next]_vars PROVE BookInv'
<1>1. /\ LedgerInv(db') /\ OneSymbol'
      /\ \/ saved' = saved /\ (Continues(db, db') \/ db' = saved)
         \/ saved' = db' /\ Continues(db, db')
  BY StepBook
<1>2. \A o : Traded(db, o) \in Int /\ Traded(saved, o) \in Int /\ Traded(db', o) \in Int
  BY TradedType, TradedTypeNext
<1>3. LedgerInv(saved')
  BY <1>1 DEF BookInv
<1>4. Continues(saved', db')
  <2>1. CASE saved' = db'
    BY <1>2, <2>1 DEF Continues
  <2>2. CASE saved' = saved /\ db' = saved
    BY <1>2, <2>2 DEF Continues
  <2>3. CASE saved' = saved /\ Continues(db, db')
    <3>1. Continues(saved, db)
      BY DEF BookInv
    <3>2. Continues(saved, db')
      BY <1>2, <2>3, <3>1, ContinuesOn
    <3> QED
      BY <2>3, <3>2
  <2> QED
    BY <1>1, <2>1, <2>2, <2>3
<1> QED
  BY <1>1, <1>3, <1>4 DEF BookInv

LEMMA InitBook == ASSUME Init PROVE BookInv
<1>1. /\ db = EmptyTables /\ saved = EmptyTables /\ pc = "idle"
  BY DEF Init
<1>2. /\ DOMAIN EmptyTables.placed = {} /\ DOMAIN EmptyTables.orders = {}
      /\ DOMAIN EmptyTables.trades = {}
  BY DEF EmptyTables, EmptyTable
<1>3. LedgerInv(EmptyTables)
  <2>1. BuysOf(EmptyTables) = {} /\ SellsOf(EmptyTables) = {}
    BY <1>2 DEF BuysOf, SellsOf
  <2>2. BoughtIsSold(EmptyTables)
    BY <2>1 DEF BoughtIsSold
  <2> QED
    BY <1>2, <2>2 DEF LedgerInv, Conserves, RowsKeepTerms, TradesCount, SellsTraded, Rows, Trades
<1>4. Continues(EmptyTables, EmptyTables)
  BY <1>2 DEF Continues
<1> QED
  BY <1>1, <1>3, <1>4 DEF BookInv, OneSymbol

-----------------------------------------------------------------------------
(* Theorems *)

\* The rows and trades agree with each other, committed or not, and the open
\* transaction continues what was committed.
THEOREM BookInvariance == Spec => []BookInv
<1>1. Init => BookInv
  BY InitBook
<1>2. IInv /\ IInv' /\ BookInv /\ [Next]_vars => BookInv'
  BY NextBook
<1> QED
  BY <1>1, <1>2, Invariance, PTL DEF Spec

\* However an order is split, filled, filled again, cancelled or rolled back
\* (database.cpp:493-517, 581-690), the amounts of its rows add up to what the
\* client asked for.
THEOREM AmountsConserved == Spec => []RowsConserveAmount
<1>1. BookInv => RowsConserveAmount
  <2>1. \A o : RowsOf(db, o) = RowsIn(db.orders, o)
    BY DEF RowsOf, RowsIn
  <2>2. Asked(db.orders) = [u \in Rows(db) |-> db.orders[u].amount]
    BY DEF Asked, Rows
  <2> QED
    BY <2>1, <2>2 DEF BookInv, LedgerInv, Conserves, RowsConserveAmount
<1> QED
  BY <1>1, BookInvariance, PTL

-----------------------------------------------------------------------------
(* The committed book implements OrderPromise *)

LEMMA SameSums == ASSUME NEW S, NEW f PROVE Promise!SumOver(S, f) = SumOver(S, f)
  BY DEF SumOver, Promise!SumOver, MapThenSumSet, Promise!MapThenSumSet,
         MapThenFoldSet, Promise!MapThenFoldSet

\* A sell order's executed rows are no more than its rows.
LEMMA SellsCovered ==
    ASSUME IInv, BookInv PROVE Promise!SellsCovered(Book(saved))
<1>1. /\ TablesOK(saved) /\ rowSeq \in Nat /\ txnSeq \in Nat
      /\ RowsKeepLimits(saved) /\ LedgerInv(saved)
  BY DEF IInv, TypeOK, TablesInv, BookInv
<1>2. ASSUME NEW o \in DOMAIN saved.placed, saved.placed[o].amount < 0
      PROVE  Traded(saved, o) <= -saved.placed[o].amount
  <2> DEFINE S == RowsIn(saved.orders, o)  f == Asked(saved.orders)  g == Done(saved.orders)
  <2>1. S \subseteq Rows(saved) /\ IsFiniteSet(S)
    <3>1. S \subseteq Rows(saved)
      BY DEF RowsIn, Rows
    <3> QED
      BY <1>1, <3>1, FiniteTables, FS_Subset
  <2>2. \A u \in S : f[u] \in Int /\ g[u] \in Int /\ f[u] <= g[u]
    <3>1. ASSUME NEW u \in S
          PROVE  saved.orders[u].amount \in Int /\ saved.orders[u].amount < 0
      BY <1>1, <1>2, <2>1 DEF RowsIn, TablesOK, OrderRow, RowsKeepLimits
    <3> QED
      BY <2>1, <3>1 DEF Asked, Done, Rows
  <2> HIDE DEF S, f, g
  <2>3. SumOver(S, f) <= SumOver(S, g) /\ SumOver(S, f) \in Int /\ SumOver(S, g) \in Int
    BY <2>1, <2>2, SumMonotone, SumType
  <2>4. SumOver(S, f) = saved.placed[o].amount /\ SumOver(S, g) = -Traded(saved, o)
    BY <1>1, <1>2 DEF LedgerInv, Conserves, SellsTraded, S, f, g
  <2>5. Traded(saved, o) \in Int
    BY TradedType
  <2> QED
    BY <2>3, <2>4, <2>5
<1> QED
  BY <1>2 DEF Promise!SellsCovered, Promise!Sells, Book

LEMMA SharesMatch ==
    ASSUME BookInv PROVE Promise!SharesMatch(Book(saved))
<1>1. Promise!Buys(Book(saved)) = BuysOf(saved) /\ Promise!Sells(Book(saved)) = SellsOf(saved)
  BY DEF Promise!Buys, Promise!Sells, Book, BuysOf, SellsOf
<1>2. \A S, y : Promise!Volume(Book(saved), S, y) = SumOver(S, TradedOf(saved, y))
  <2>1. ASSUME NEW S, NEW y
        PROVE  Promise!Volume(Book(saved), S, y) = SumOver(S, TradedOf(saved, y))
    <3>1. [o \in DOMAIN Book(saved) |-> IF Book(saved)[o].symbol = y
                                        THEN Book(saved)[o].traded ELSE 0]
            = TradedOf(saved, y)
      BY DEF Book, TradedOf
    <3> QED
      BY <3>1, SameSums DEF Promise!Volume
  <2> QED
    BY <2>1
<1>3. BoughtIsSold(saved)
  BY DEF BookInv, LedgerInv
<1> QED
  BY <1>1, <1>2, <1>3 DEF Promise!SharesMatch, BoughtIsSold

LEMMA PromiseStep ==
    ASSUME IInv, IInv', BookInv, [Next]_vars,
           Promise!SellsCovered(Book(saved))', Promise!SharesMatch(Book(saved))'
    PROVE  [Promise!Next]_(Book(saved))
<1>1. CASE saved' = saved
  <2>1. Book(saved)' = Book(saved)
    BY <1>1 DEF Book, Traded, Cancelled, Trades, OrderOf, RowsOf
  <2> QED
    BY <2>1
<1>2. CASE saved' = db' /\ Continues(db, db')
  <2>1. Continues(saved, db)
    BY DEF BookInv
  <2>2. \A o : Traded(db, o) \in Int /\ Traded(saved, o) \in Int /\ Traded(db', o) \in Int
    BY TradedType, TradedTypeNext
  <2>3. Continues(saved, saved')
    BY <1>2, <2>1, <2>2, ContinuesOn
  <2>4. DOMAIN Book(saved) \subseteq DOMAIN Book(saved')
    BY <2>3 DEF Continues, Book
  <2>5. ASSUME NEW o \in DOMAIN Book(saved)
        PROVE  /\ Promise!TermsKept(Book(saved)[o], Book(saved')[o])
               /\ Promise!TradesFinal(Book(saved)[o], Book(saved')[o])
               /\ Promise!CancelFinal(Book(saved)[o], Book(saved')[o])
    <3>1. /\ o \in DOMAIN saved.placed /\ o \in DOMAIN saved'.placed
          /\ saved'.placed[o] = saved.placed[o]
          /\ Traded(saved', o) >= Traded(saved, o)
          /\ Cancelled(saved, o) => Cancelled(saved', o) /\ Traded(saved', o) = Traded(saved, o)
      BY <2>3 DEF Continues, Book
    <3>2. /\ Book(saved)[o].symbol = saved.placed[o].symbol
          /\ Book(saved)[o].amount = saved.placed[o].amount
          /\ Book(saved)[o].limit = saved.placed[o].limit
          /\ Book(saved)[o].traded = Traded(saved, o)
          /\ Book(saved)[o].cancelled = Cancelled(saved, o)
      BY <3>1 DEF Book
    <3>3. /\ Book(saved')[o].symbol = saved'.placed[o].symbol
          /\ Book(saved')[o].amount = saved'.placed[o].amount
          /\ Book(saved')[o].limit = saved'.placed[o].limit
          /\ Book(saved')[o].traded = Traded(saved', o)
          /\ Book(saved')[o].cancelled = Cancelled(saved', o)
      BY <3>1 DEF Book
    <3> QED
      BY <3>1, <3>2, <3>3 DEF Promise!TermsKept, Promise!TradesFinal, Promise!CancelFinal
  <2>6. Book(saved)' = Book(saved')
    BY DEF Book, Traded, Cancelled, Trades, OrderOf, RowsOf
  <2> QED
    BY <2>4, <2>5, <2>6 DEF Promise!Next
<1>3. saved' = saved \/ (saved' = db' /\ Continues(db, db'))
  BY StepBook
<1> QED
  BY <1>1, <1>2, <1>3

\* Seen from commit to commit, the tables behave as the abstract order book: an
\* order keeps its terms, its trades are final, a cancelled order trades no
\* more, no sell order gives away more shares than it offered, and as many
\* shares of a symbol were bought as were sold.
THEOREM PromiseKept == Spec => KeepsPromise
<1>1. Init => Promise!Init
  BY DEF Init, Promise!Init, Book, EmptyTables, EmptyTable
<1>2. IInv /\ BookInv => Promise!SellsCovered(Book(saved)) /\ Promise!SharesMatch(Book(saved))
  BY SellsCovered, SharesMatch
<1>3. /\ IInv /\ IInv' /\ BookInv /\ [Next]_vars
      /\ (Promise!SellsCovered(Book(saved)) /\ Promise!SharesMatch(Book(saved)))'
      => [Promise!Next]_(Book(saved))
  BY PromiseStep
<1> QED
  BY <1>1, <1>2, <1>3, Invariance, BookInvariance, PTL DEF Spec, KeepsPromise, Promise!Spec

-----------------------------------------------------------------------------
(* Crossed books *)

Retraded(d, s) ==
    \E t1, t2 \in Trades(d) :
        /\ t1 # t2 /\ d.trades[t1].symbol = s
        /\ d.trades[t1].buyRow = d.trades[t2].buyRow

\* An open buy row and an open sell row of symbol s that ought to trade
Crosses(d, s, b, a) ==
    /\ b \in OpenRows(d) /\ a \in OpenRows(d)
    /\ d.orders[b].symbol = s /\ d.orders[a].symbol = s
    /\ d.orders[b].amount > 0 /\ d.orders[a].amount < 0
    /\ d.orders[b].limit >= d.orders[a].limit
Uids(S) == {x.uid : x \in S}

\* The current buy has traded.
Bought == \E t \in Trades(db) : /\ db.trades[t].buyRow = buy.uid
                                /\ db.trades[t].symbol = symbol

\* Unless a row was traded on twice, every pair that ought to trade is one
\* that the sweep still has before it: the buy is to come, or it is the
\* current one, or what is left of it, and the sell is to come.
CrossInv ==
    /\ \A s : Crossing(saved, s) => Retraded(saved, s)
    /\ \A s : (s # symbol \/ pc \notin {"buys", "sells"}) =>
         (Crossing(db, s) => Retraded(db, s))
    /\ pc = "buys" => \/ Retraded(db, symbol)
                      \/ \A b, a : Crosses(db, symbol, b, a) => b \in Uids(buys)
    /\ pc = "sells" =>
         /\ Bought \/ (buy.uid \in OpenRows(db) /\ db.orders[buy.uid].limit = buy.limit)
         /\ \/ Retraded(db, symbol)
            \/ \A b, a : Crosses(db, symbol, b, a) =>
                 \/ b \in Uids(buys)
                 \/ a \in Uids(sells) /\ (b = buy.uid \/ Bought)

\* The open rows after a trade: those that were open and had no part in it, and
\* what is left of its buy or of its sell.
LEMMA OpenAfterTrade ==
    ASSUME IInv, NEW b, NEW a, NEW n \in Int, NEW price, NEW T,
           NEW w1 \in Nat, NEW w2 \in Nat, TwoFills(b, a, n, price, T, w1, w2),
           NEW v \in OpenRows(db')
    PROVE  \/ v \in OpenRows(db) /\ v # a /\ v # b /\ db'.orders[v] = db.orders[v]
           \/ /\ n # db.orders[b].amount /\ db'.orders[v].symbol = db.orders[b].symbol
              /\ db'.orders[v].limit = db.orders[b].limit /\ ~(db'.orders[v].amount < 0)
           \/ /\ n # -db.orders[a].amount /\ db'.orders[v].symbol = db.orders[a].symbol
              /\ db'.orders[v].limit = db.orders[a].limit /\ ~(db'.orders[v].amount > 0)
<1>1. db.orders \in [DOMAIN db.orders -> OrderRow] /\ DOMAIN db.orders = Rows(db)
  BY DEF IInv, TypeOK, TablesOK, Rows
<1>2. /\ b \in DOMAIN db.orders /\ a \in DOMAIN db.orders /\ n > 0 /\ a # b
      /\ n <= db.orders[b].amount /\ n <= -db.orders[a].amount
      /\ w1 \notin DOMAIN db.orders /\ T \in [DOMAIN T -> OrderRow]
      /\ FilledRow(T, db.orders, b, n, price, txnSeq + 1, w1)
      /\ a \in DOMAIN T /\ T[a] = db.orders[a] /\ w2 \notin DOMAIN T
      /\ FilledRow(db'.orders, T, a, n, price, txnSeq + 1, w2)
  BY <1>1 DEF TwoFills
<1>3. db.orders[b].amount \in Int /\ db.orders[a].amount \in Int
  BY <1>1, <1>2 DEF OrderRow
<1>4. /\ Magnitude(db.orders[b].amount) = db.orders[b].amount
      /\ Magnitude(T[a].amount) = -db.orders[a].amount
      /\ n <= Magnitude(db.orders[b].amount) /\ n <= Magnitude(T[a].amount)
      /\ db.orders[b].amount > 0 /\ db.orders[a].amount < 0
  BY <1>2, <1>3 DEF Magnitude
<1>5. PICK W1 : FillEffect(T, db.orders, b, n, price, txnSeq + 1, w1, W1)
  BY <1>1, <1>2, <1>4, FillFields, Zenon
<1>6. PICK W2 : FillEffect(db'.orders, T, a, n, price, txnSeq + 1, w2, W2)
  BY <1>2, <1>4, FillFields, Zenon
<1>7. /\ W1 \in {{}, {w1}} /\ DOMAIN T = DOMAIN db.orders \cup W1
      /\ \A u \in DOMAIN db.orders : u # b => T[u] = db.orders[u]
      /\ T[b].status = "EXECUTED"
      /\ W1 = {} <=> n = db.orders[b].amount
      /\ \A x \in W1 : /\ T[x].symbol = db.orders[b].symbol
                       /\ T[x].limit = db.orders[b].limit
                       /\ T[x].amount = SameSide(db.orders[b].amount, db.orders[b].amount - n)
  BY <1>4, <1>5 DEF FillEffect
<1>8. /\ W2 \in {{}, {w2}} /\ DOMAIN db'.orders = DOMAIN T \cup W2
      /\ \A u \in DOMAIN T : u # a => db'.orders[u] = T[u]
      /\ db'.orders[a].status = "EXECUTED"
      /\ W2 = {} <=> n = -db.orders[a].amount
      /\ \A x \in W2 : /\ db'.orders[x].symbol = db.orders[a].symbol
                       /\ db'.orders[x].limit = db.orders[a].limit
                       /\ db'.orders[x].amount
                            = SameSide(db.orders[a].amount, -db.orders[a].amount - n)
  BY <1>2, <1>4, <1>6 DEF FillEffect
<1>9. /\ SameSide(db.orders[b].amount, db.orders[b].amount - n) = db.orders[b].amount - n
      /\ SameSide(db.orders[a].amount, -db.orders[a].amount - n) = db.orders[a].amount + n
  BY <1>3, <1>4 DEF SameSide
<1>10. v \in DOMAIN db'.orders /\ db'.orders[v].status = "OPEN"
  BY DEF OpenRows
<1>11. CASE v \in W2
  <2>1. ~(db'.orders[v].amount > 0)
    BY <1>2, <1>3, <1>8, <1>9, <1>11
  <2> QED
    BY <1>8, <1>11, <2>1
<1>12. CASE v \in W1
  <2>1. v # a /\ db'.orders[v] = T[v]
    BY <1>2, <1>7, <1>8, <1>12
  <2>2. ~(db'.orders[v].amount < 0)
    BY <1>2, <1>3, <1>7, <1>9, <1>12, <2>1
  <2> QED
    BY <1>7, <1>12, <2>1, <2>2
<1>13. CASE v \in DOMAIN db.orders
  <2>1. v # a
    BY <1>8, <1>10
  <2>2. v # b /\ db'.orders[v] = db.orders[v]
    BY <1>2, <1>7, <1>8, <1>10, <1>13, <2>1
  <2> QED
    BY <1>10, <1>13, <2>1, <2>2 DEF OpenRows
<1> QED
  BY <1>7, <1>8, <1>10, <1>11, <1>12, <1>13

LEMMA TradeCross == ASSUME IInv, BookInv, CrossInv, NextSell PROVE CrossInv'
<1>1. PICK s \in sells, n \in Int, price \in Int, w1 \in Nat, w2 \in Nat : \E T :
        /\ TwoFills(buy.uid, s.uid, n, price, T, w1, w2)
        /\ IF n = db.orders[buy.uid].amount
           THEN pc' = "buys" /\ sells' = {}
           ELSE pc' = pc /\ sells' = sells \ {s} /\ n = -db.orders[s.uid].amount
  BY NextSellFills
<1>2. PICK T : TwoFills(buy.uid, s.uid, n, price, T, w1, w2)
  BY <1>1
<1>3. pc = "sells" /\ UNCHANGED <<saved, buys, buy, symbol>>
  BY SMTT(40) DEF NextSell
<1> DEFINE b == buy.uid  a == s.uid  new == txnSeq + 1
<1>4. /\ a \in OpenRows(db) /\ db.orders[a].symbol = symbol /\ db.orders[b].symbol = symbol
      /\ \A x \in buys : x.uid # b
      /\ db.orders[a].amount < 0 /\ db.orders[b].amount > 0
  <2>1. /\ db.orders[a].amount \in Int /\ db.orders[b].amount \in Int
        /\ n <= db.orders[b].amount /\ n <= -db.orders[a].amount /\ n > 0
    BY <1>2 DEF TwoFills, IInv, TypeOK, TablesOK, OrderRow
  <2>2. /\ a \in OpenRows(db) /\ db.orders[a].symbol = symbol /\ db.orders[b].symbol = symbol
        /\ \A x \in buys : x.uid # b
    BY <1>3 DEF BookInv, OneSymbol, IInv, MatchInv, FreshSnapshots
  <2> QED
    BY <2>1, <2>2
<1>5. /\ new \notin Trades(db) /\ Trades(db') = Trades(db) \cup {new}
      /\ \A t \in Trades(db) : db'.trades[t] = db.trades[t]
      /\ db'.trades[new].symbol = symbol /\ db'.trades[new].buyRow = b
  <2>1. new \notin Trades(db)
    BY DEF IInv, TypeOK, TablesOK
  <2>2. db'.trades = execute_trade(db.trades, db.orders, new, b, a, n, price)
    BY <1>2 DEF TwoFills
  <2> HIDE DEF new, a, b
  <2> QED
    BY <1>4, <2>1, <2>2 DEF execute_trade, Put, Trades
<1>6. \A v \in OpenRows(db') :
        \/ v \in OpenRows(db) /\ v # a /\ v # b /\ db'.orders[v] = db.orders[v]
        \/ /\ n # db.orders[b].amount /\ db'.orders[v].symbol = db.orders[b].symbol
           /\ db'.orders[v].limit = db.orders[b].limit /\ ~(db'.orders[v].amount < 0)
        \/ /\ n # -db.orders[a].amount /\ db'.orders[v].symbol = db.orders[a].symbol
           /\ db'.orders[v].limit = db.orders[a].limit /\ ~(db'.orders[v].amount > 0)
  BY <1>2, OpenAfterTrade
<1> HIDE DEF new, a, b
<1>7. \A y : Retraded(db, y) => Retraded(db', y)
  BY <1>5 DEF Retraded
<1>8. Bought => Retraded(db', symbol)
  BY <1>5 DEF Bought, Retraded, b
<1>9. Bought'
  BY <1>3, <1>5 DEF Bought, b
<1>10. ASSUME NEW y, y # symbol, Crossing(db', y) PROVE Retraded(db', y)
  <2>1. PICK beta \in OpenRows(db'), alpha \in OpenRows(db') :
          /\ db'.orders[beta].symbol = y /\ db'.orders[alpha].symbol = y
          /\ db'.orders[beta].amount > 0 /\ db'.orders[alpha].amount < 0
          /\ db'.orders[beta].limit >= db'.orders[alpha].limit
    BY <1>10 DEF Crossing
  <2>2. /\ beta \in OpenRows(db) /\ db'.orders[beta] = db.orders[beta]
        /\ alpha \in OpenRows(db) /\ db'.orders[alpha] = db.orders[alpha]
    BY <1>4, <1>6, <1>10, <2>1
  <2>3. Crossing(db, y)
    BY <2>1, <2>2 DEF Crossing
  <2> QED
    BY <1>7, <1>10, <2>3 DEF CrossInv
<1>11. ASSUME ~Retraded(db', symbol), NEW beta, NEW alpha, Crosses(db', symbol, beta, alpha)
       PROVE  beta \in Uids(buys) \/ (pc' = "sells" /\ alpha \in Uids(sells'))
  <2>1. /\ ~Bought /\ b \in OpenRows(db) /\ ~Retraded(db, symbol)
        /\ \A v, w : Crosses(db, symbol, v, w) =>
              v \in Uids(buys) \/ (w \in Uids(sells) /\ v = b)
    BY <1>3, <1>7, <1>8, <1>11 DEF CrossInv, b
  <2>2. /\ beta \in OpenRows(db') /\ alpha \in OpenRows(db')
        /\ db'.orders[beta].symbol = symbol /\ db'.orders[alpha].symbol = symbol
        /\ db'.orders[beta].amount > 0 /\ db'.orders[alpha].amount < 0
        /\ db'.orders[beta].limit >= db'.orders[alpha].limit
    BY <1>11 DEF Crosses
  <2>3. \/ /\ beta \in OpenRows(db) /\ beta # b /\ db'.orders[beta] = db.orders[beta]
        \/ n # db.orders[b].amount /\ db'.orders[beta].limit = db.orders[b].limit
    BY <1>6, <2>2
  <2>4. \/ /\ alpha \in OpenRows(db) /\ alpha # a /\ db'.orders[alpha] = db.orders[alpha]
        \/ n # -db.orders[a].amount /\ db'.orders[alpha].limit = db.orders[a].limit
    BY <1>6, <2>2
  <2>5. n = db.orders[b].amount \/ (pc' = "sells" /\ sells' = sells \ {s} /\ n = -db.orders[a].amount)
    BY <1>1, <1>3 DEF a, b
  <2>6. CASE beta \in OpenRows(db) /\ beta # b /\ db'.orders[beta] = db.orders[beta]
    <3>1. CASE alpha \in OpenRows(db) /\ alpha # a /\ db'.orders[alpha] = db.orders[alpha]
      <4>1. Crosses(db, symbol, beta, alpha)
        BY <2>2, <2>6, <3>1 DEF Crosses
      <4> QED
        BY <2>1, <2>6, <4>1
    <3>2. CASE db'.orders[alpha].limit = db.orders[a].limit
      <4>1. Crosses(db, symbol, beta, a)
        BY <1>4, <2>2, <2>6, <3>2 DEF Crosses
      <4> QED
        BY <2>1, <2>6, <4>1
    <3> QED
      BY <2>4, <3>1, <3>2
  <2>7. CASE n # db.orders[b].amount /\ db'.orders[beta].limit = db.orders[b].limit
    <3>1. /\ alpha \in OpenRows(db) /\ alpha # a /\ db'.orders[alpha] = db.orders[alpha]
          /\ pc' = "sells" /\ sells' = sells \ {s}
      BY <2>4, <2>5, <2>7
    <3>2. Crosses(db, symbol, b, alpha)
      BY <1>4, <2>1, <2>2, <2>7, <3>1 DEF Crosses
    <3>3. b \notin Uids(buys)
      BY <1>4 DEF Uids
    <3>4. PICK x \in sells : x.uid = alpha
      BY <2>1, <3>2, <3>3 DEF Uids
    <3>5. x \in sells'
      BY <3>1, <3>4 DEF a
    <3> QED
      BY <3>1, <3>4, <3>5 DEF Uids
  <2> QED
    BY <2>3, <2>6, <2>7
<1>12. pc' \in {"buys", "sells"}
  BY <1>1, <1>3
<1> QED
  BY <1>3, <1>9, <1>10, <1>11, <1>12 DEF CrossInv, Retraded, Crossing

\* A book with the same orders and trades crosses as before.
LEMMA SameCross ==
    ASSUME NEW d, NEW e, e.orders = d.orders, e.trades = d.trades
    PROVE  /\ \A y : (Crossing(e, y) <=> Crossing(d, y)) /\ (Retraded(e, y) <=> Retraded(d, y))
           /\ \A y, b, a : Crosses(e, y, b, a) <=> Crosses(d, y, b, a)
  BY DEF Crossing, Crosses, Retraded, OpenRows, Trades

\* Between sweeps no book is crossed but for a second trade.
LEMMA SettledCross ==
    ASSUME CrossInv, pc \notin {"buys", "sells"}, pc' \notin {"buys", "sells"},
           \/ db'.orders = db.orders /\ db'.trades = db.trades
           \/ db' = saved,
           \/ saved' = saved
           \/ saved'.orders = db.orders /\ saved'.trades = db.trades
    PROVE  CrossInv'
<1>1. /\ \A y : Crossing(saved, y) => Retraded(saved, y)
      /\ \A y : Crossing(db, y) => Retraded(db, y)
  BY DEF CrossInv
<1>2. \A y : Crossing(db', y) => Retraded(db', y)
  BY <1>1, SameCross
<1>3. \A y : Crossing(saved', y) => Retraded(saved', y)
  BY <1>1, SameCross
<1> QED
  BY <1>2, <1>3 DEF CrossInv, Crossing, Retraded

LEMMA PlaceCross ==
    ASSUME IInv, CrossInv, NEW s \in Symbols, NEW n \in Amounts, NEW p \in Limits,
           PlaceOrder(s, n, p)
    PROVE  CrossInv'
<1> DEFINE u == rowSeq + 1
<1>0. /\ u \notin Rows(db)
      /\ DOMAIN db'.orders = Rows(db) \cup {u}
      /\ \A v \in Rows(db) : db'.orders[v] = db.orders[v]
      /\ db'.orders[u] = [order |-> u, account |-> account, symbol |-> s,
                          amount |-> n, limit |-> p, status |-> "OPEN",
                          txn |-> NoTxn, created |-> clock]
      /\ db'.trades = db.trades /\ saved' = saved /\ pc' = "buys" /\ symbol' = s
      /\ buys' = BuyOrders(db', s)
  BY PlaceTables, Zenon
<1>1. pc = "body"
  BY DEF PlaceOrder, MoreOps
<1> HIDE DEF u
<1>2. ASSUME NEW y, y # s, Crossing(db', y) PROVE Retraded(db', y)
  <2>1. PICK b \in OpenRows(db'), a \in OpenRows(db') :
          /\ db'.orders[b].symbol = y /\ db'.orders[a].symbol = y
          /\ db'.orders[b].amount > 0 /\ db'.orders[a].amount < 0
          /\ db'.orders[b].limit >= db'.orders[a].limit
    BY <1>2 DEF Crossing
  <2>2. b # u /\ a # u
    BY <1>0, <1>2, <2>1
  <2>3. /\ b \in OpenRows(db) /\ db'.orders[b] = db.orders[b]
        /\ a \in OpenRows(db) /\ db'.orders[a] = db.orders[a]
    BY <1>0, <2>1, <2>2 DEF OpenRows, Rows
  <2>4. Crossing(db, y)
    BY <2>1, <2>3 DEF Crossing
  <2> QED
    BY <1>0, <1>1, <2>4 DEF CrossInv, Retraded, Trades
<1>3. ASSUME NEW b, NEW a, Crosses(db', s, b, a) PROVE b \in Uids(buys')
  <2>1. Snapshot(db', b) \in BuyOrders(db', s) /\ Snapshot(db', b).uid = b
    BY <1>3 DEF Crosses, BuyOrders, Snapshot
  <2> QED
    BY <1>0, <2>1 DEF Uids
<1> QED
  BY <1>0, <1>2, <1>3 DEF CrossInv, Crossing, Retraded

LEMMA CancelCross ==
    ASSUME IInv, CrossInv, NEW id \in OrderIds, cancelOrder(id) PROVE CrossInv'
<1>1. /\ pc = "body" /\ UNCHANGED <<saved, symbol, buys, sells, buy>>
      /\ \/ UNCHANGED <<db, pc>>
         \/ db' = saved /\ pc' = "failed"
         \/ /\ db'.orders = Close(db.orders, id) /\ db'.trades = db.trades
            /\ db'.placed = db.placed /\ pc' = "body"
  BY CancelTables
<1>2. CASE UNCHANGED <<db, pc>>
  BY <1>1, <1>2, SettledCross
<1>3. CASE db' = saved /\ pc' = "failed"
  BY <1>1, <1>3, SettledCross
<1>4. CASE db'.orders = Close(db.orders, id) /\ db'.trades = db.trades /\ pc' = "body"
  <2>1. /\ DOMAIN db'.orders = DOMAIN db.orders
        /\ \A u \in DOMAIN db.orders :
             /\ db'.orders[u].symbol = db.orders[u].symbol
             /\ db'.orders[u].amount = db.orders[u].amount
             /\ db'.orders[u].limit = db.orders[u].limit
             /\ db'.orders[u].status = "OPEN" => db.orders[u].status = "OPEN"
    <3>1. db.orders \in [DOMAIN db.orders -> OrderRow]
      BY DEF IInv, TypeOK, TablesOK, Rows
    <3> QED
      BY <1>4, <3>1, CloseRows
  <2>2. \A y : Crossing(db', y) => Crossing(db, y)
    BY <2>1 DEF Crossing, OpenRows
  <2>3. \A y : Crossing(db', y) => Retraded(db', y)
    BY <1>1, <1>4, <2>2 DEF CrossInv, Retraded, Trades
  <2> QED
    BY <1>1, <1>4, <2>3 DEF CrossInv, Crossing, Retraded
<1> QED
  BY <1>1, <1>2, <1>3, <1>4

LEMMA NextBuyCross == ASSUME IInv, CrossInv, NextBuy PROVE CrossInv'
<1>1. PICK b \in buys : buy' = b /\ buys' = buys \ {b}
                        /\ sells' = SellOrders(db, symbol, b.limit)
  BY DEF NextBuy
<1>2. pc = "buys" /\ pc' = "sells" /\ UNCHANGED <<db, saved, symbol>>
  BY DEF NextBuy
<1>3. b.uid \in OpenRows(db) /\ db.orders[b.uid].limit = b.limit
  BY <1>2 DEF IInv, MatchInv, FreshSnapshots, Snapshot
<1>4. ASSUME NEW v, NEW w, Crosses(db, symbol, v, w), v \in Uids(buys)
      PROVE  v \in Uids(buys') \/ (w \in Uids(sells') /\ v = b.uid)
  <2>1. PICK x \in buys : x.uid = v
    BY <1>4 DEF Uids
  <2>2. CASE x # b
    BY <1>1, <2>1, <2>2 DEF Uids
  <2>3. CASE x = b
    <3>1. Snapshot(db, w) \in sells' /\ Snapshot(db, w).uid = w
      BY <1>1, <1>3, <1>4, <2>1, <2>3 DEF Crosses, SellOrders, Snapshot
    <3> QED
      BY <2>1, <2>3, <3>1 DEF Uids
  <2> QED
    BY <2>2, <2>3
<1>5. Retraded(db, symbol) \/ \A v, w : Crosses(db, symbol, v, w) => v \in Uids(buys)
  BY <1>2 DEF CrossInv
<1>6. /\ \A y : Crossing(saved, y) => Retraded(saved, y)
      /\ \A y : y # symbol /\ Crossing(db, y) => Retraded(db, y)
  BY DEF CrossInv
<1>7. \/ Retraded(db, symbol)
      \/ \A v, w : Crosses(db, symbol, v, w) =>
           v \in Uids(buys') \/ (w \in Uids(sells') /\ v = buy'.uid)
  BY <1>1, <1>4, <1>5
<1> QED
  BY <1>1, <1>2, <1>3, <1>6, <1>7 DEF CrossInv

LEMMA NoMoreCross == ASSUME CrossInv, NoMoreSells \/ NoMoreBuys PROVE CrossInv'
<1>1. UNCHANGED <<db, saved, symbol, buys, sells, buy>>
  BY DEF NoMoreSells, NoMoreBuys, matching
<1>2. CASE NoMoreSells
  <2>1. pc = "sells" /\ sells = {} /\ pc' = "buys"
    BY <1>2 DEF NoMoreSells
  <2>2. Uids(sells) = {}
    BY <2>1 DEF Uids
  <2> QED
    BY <1>1, <2>1, <2>2 DEF CrossInv
<1>3. CASE NoMoreBuys
  <2>1. pc = "buys" /\ buys = {} /\ pc' = "body"
    BY <1>3 DEF NoMoreBuys
  <2>2. ASSUME Crossing(db, symbol) PROVE Retraded(db, symbol)
    <3>1. Uids(buys) = {}
      BY <2>1 DEF Uids
    <3>2. \E b, a : Crosses(db, symbol, b, a)
      BY <2>2 DEF Crossing, Crosses
    <3> QED
      BY <2>1, <3>1, <3>2 DEF CrossInv
  <2> QED
    BY <1>1, <2>1, <2>2 DEF CrossInv
<1> QED
  BY <1>2, <1>3

LEMMA NextCross == ASSUME IInv, BookInv, CrossInv, [Next]_vars PROVE CrossInv'
<1>1. CASE Create
  <2>1. pc = "idle"
    BY <1>1 DEF Create, insertAccount, insertSymbol
  <2> QED
    BY <1>1, <2>1, CreateTables, SettledCross
<1>2. CASE \/ \E a \in Accounts : Begin(a)
           \/ \E s \in Symbols, n \in Amounts, p \in Limits : RejectOrder(s, n, p)
           \/ \E id \in OrderIds : cancelUnknown(id) \/ queryAll(id)
           \/ AbortRequest \/ CancelInFailed
  <2>1. UNCHANGED <<db, saved>>
    BY <1>2 DEF Begin, RejectOrder, cancelUnknown, queryAll, AbortRequest, CancelInFailed
  <2>2. pc \notin {"buys", "sells"} /\ pc' \notin {"buys", "sells"}
    BY <1>2 DEF Begin, RejectOrder, cancelUnknown, queryAll, AbortRequest, CancelInFailed,
           MoreOps
  <2> QED
    BY <2>1, <2>2, SettledCross
<1>3. CASE \E s \in Symbols, n \in Amounts, p \in Limits : PlaceOrder(s, n, p)
  BY <1>3, PlaceCross
<1>4. CASE \E id \in OrderIds : cancelOrder(id)
  BY <1>4, CancelCross
<1>5. CASE NextBuy
  BY <1>5, NextBuyCross
<1>6. CASE NextSell
  BY <1>6, TradeCross
<1>7. CASE Commit
  <2>1. UNCHANGED db /\ saved' = db /\ pc' = "idle" /\ pc \in {"body", "failed"}
    BY <1>7 DEF Commit
  <2> QED
    BY <2>1, SettledCross
<1>8. CASE NoMoreSells \/ NoMoreBuys
  BY <1>8, NoMoreCross
<1>9. CASE UNCHANGED vars
  BY <1>9 DEF vars, CrossInv, Bought, Crossing, Retraded, Crosses, OpenRows, Trades, Uids
<1> QED
  BY <1>1, <1>2, <1>3, <1>4, <1>5, <1>6, <1>7, <1>8, <1>9 DEF Next, Operation, match_orders

\* A sweep leaves a crossed book behind in one way alone: it traded twice on a
\* buy row that it read again under its old key (database.cpp:493).
THEOREM CrossedByRetrade == Spec => []CrossedOnlyAfterRetrade
<1>1. Init => CrossInv
  <2>1. ASSUME Init PROVE \A y : ~Crossing(db, y) /\ ~Crossing(saved, y)
    BY <2>1 DEF Init, EmptyTables, EmptyTable, Crossing, OpenRows
  <2> QED
    BY <2>1 DEF Init, CrossInv
<1>2. IInv /\ BookInv /\ CrossInv /\ [Next]_vars => CrossInv'
  BY NextCross
<1>3. CrossInv => CrossedOnlyAfterRetrade
  BY DEF CrossInv, CrossedOnlyAfterRetrade, Settled, Retraded
<1> QED
  BY <1>1, <1>2, <1>3, Invariance, BookInvariance, PTL DEF Spec

-----------------------------------------------------------------------------
(* The server's threads *)

\* Who holds db_mutex where: a create all the way through its transaction,
\* a <transactions> only inside a function that locks.
HoldsMutex(c) ==
    \/ at[c] \in {"locked", "traded"}
    \/ kind[c] = "create" /\ at[c] \in {"check", "register", "commit"}
MutexInv == \A c \in Clients : HoldsMutex(c) => mutex = c

\* The request a thread can be serving, from where it is
KindInv ==
    \A c \in Clients :
        /\ at[c] = "next" => kind[c] = "create"
        /\ at[c] = "commit" => kind[c] = "create"
        /\ at[c] \in {"account", "body", "locked", "match", "trade", "traded"}
             => kind[c] = "transactions"
        /\ at[c] \in {"check", "register"} => kind[c] \in {"create", "transactions"}
        /\ at[c] \in {"away", "reading"} => kind[c] = "other"

ServerIInv == ServerTypeOK /\ KindInv /\ MutexInv /\ NoLeakedWork /\ TakenNeedsTransactions

LEMMA ServerInitInv == ASSUME ServerInit PROVE ServerIInv
  BY ServerAssumption
     DEF ServerInit, ServerIInv, ServerTypeOK, KindInv, MutexInv, HoldsMutex, NoLeakedWork,
         TakenNeedsTransactions, Points, Kinds, Fates

\* The end of the process leaves everything else as it is; the one cause that
\* TakenNeedsTransactions speaks of is Terminate's.
LEMMA DyingKeeps ==
    ASSUME ServerIInv, NEW cause \in Fates, Dies(cause)
    PROVE  /\ ServerTypeOK' /\ KindInv' /\ MutexInv' /\ NoLeakedWork'
           /\ cause # "usage_error" => TakenNeedsTransactions'
<1>1. fate' = cause /\ UNCHANGED <<at, kind, left, mutex, guest, refused>>
  BY DEF Dies
<1>2. ServerTypeOK' /\ KindInv'
  BY <1>1 DEF ServerIInv, ServerTypeOK, KindInv
<1>3. MutexInv' /\ NoLeakedWork'
  BY <1>1 DEF ServerIInv, MutexInv, HoldsMutex, NoLeakedWork, InWork
<1>4. cause # "usage_error" => TakenNeedsTransactions'
  BY <1>1 DEF ServerIInv, TakenNeedsTransactions
<1> QED
  BY <1>2, <1>3, <1>4

\* A step of one thread moves that thread only.
LEMMA StepType ==
    ASSUME ServerIInv, NEW c \in Clients, runServer(c) \/ handleClient(c)
    PROVE  /\ ServerTypeOK' /\ KindInv'
           /\ \A d \in Clients \ {c} : at'[d] = at[d] /\ kind'[d] = kind[d]
<1> USE DEF ServerIInv, ServerTypeOK, KindInv, Points, Kinds, Goto, Lock, Unlock, EndWork
<1>1. CASE runServer(c)
  BY <1>1 DEF runServer
<1>2. CASE Receive(c)
  <2>1. CASE Goto(c, "gone") /\ UNCHANGED <<kind, left>>
    BY <1>2, <2>1 DEF Receive
  <2>2. CASE \E k \in Kinds, n \in 0..MaxChildren :
               /\ kind' = [kind EXCEPT ![c] = k] /\ left' = [left EXCEPT ![c] = n]
               /\ Goto(c, CASE k = "create" -> "next" [] k = "transactions" -> "check"
                            [] k = "other" -> "reply")
    BY <1>2, <2>2 DEF Receive
  <2> QED
    BY <1>2, <2>1, <2>2 DEF Receive
<1>3. CASE Construct(c) \/ Register(c) \/ Account(c) \/ (Respond(c) /\ Goto(c, "gone"))
  BY <1>3 DEF Construct, Register, Account, Respond, Dies
<1>4. CASE CreateChild(c) \/ Child(c)
  <2>1. left[c] - 1 \in 0..MaxChildren
    BY <1>4, ServerAssumption DEF CreateChild, Child
  <2> QED
    BY <1>4, <2>1 DEF CreateChild, Child
<1>5. CASE CreateRefused(c) \/ CreateDone(c) \/ CreateEnds(c)
  BY <1>5 DEF CreateRefused, CreateDone, CreateEnds
<1>6. CASE \E cause \in Fates : Dies(cause)
  BY <1>6, DyingKeeps DEF Dies
<1>7. CASE ChildDone(c)
  BY <1>7 DEF ChildDone
<1>8. CASE Match(c) \/ LockTrade(c) \/ TradeDone(c) \/ Finish(c)
  BY <1>8 DEF Match, LockTrade, TradeDone, Finish
<1>9. CASE \/ CreateThrows(c) \/ TransactionsThrow(c) \/ Terminate(c)
           \/ (Respond(c) /\ ~Goto(c, "gone"))
  <2>1. \E cause \in Fates : Dies(cause)
    BY <1>9 DEF CreateThrows, TransactionsThrow, Terminate, Respond, Fates
  <2> QED
    BY <1>6, <2>1
<1> QED
  BY <1>1, <1>2, <1>3, <1>4, <1>5, <1>7, <1>8, <1>9
     DEF handleClient, Serve, handle_creation, handle_transactions

\* db_mutex passes from thread to thread only when it is free.
LEMMA StepMutex ==
    ASSUME ServerIInv, NEW c \in Clients, runServer(c) \/ handleClient(c)
    PROVE  MutexInv'
<1>1. /\ ServerTypeOK /\ \A d \in Clients \ {c} : at'[d] = at[d] /\ kind'[d] = kind[d]
  BY StepType DEF ServerIInv
<1> USE DEF MutexInv, HoldsMutex, Goto, Lock, Unlock
<1>2. CASE /\ UNCHANGED mutex
           /\ HoldsMutex(c)' => HoldsMutex(c)
  BY <1>1, <1>2 DEF ServerIInv
<1>3. CASE mutex = None /\ mutex' = c
  BY <1>1, <1>3, ServerAssumption DEF ServerIInv
<1>4. CASE mutex' = None /\ HoldsMutex(c) /\ ~HoldsMutex(c)'
  BY <1>1, <1>4 DEF ServerIInv
<1>5. CASE \/ runServer(c) \/ Receive(c) \/ Construct(c) \/ Register(c) \/ Respond(c)
           \/ CreateThrows(c) \/ CreateEnds(c) \/ TransactionsThrow(c) \/ Terminate(c)
           \/ Account(c) \/ Match(c) \/ Finish(c)
  <2>1. UNCHANGED mutex /\ (HoldsMutex(c)' => HoldsMutex(c))
    BY <1>1, <1>5
       DEF runServer, Receive, Construct, Register, Respond, CreateThrows,
           CreateEnds, TransactionsThrow, Terminate, Account, Match, Finish, Dies,
           ServerTypeOK, Kinds, ServerIInv, KindInv
  <2> QED
    BY <1>2, <2>1
<1>6. CASE CreateChild(c) \/ Child(c) \/ LockTrade(c)
  BY <1>3, <1>6 DEF CreateChild, Child, LockTrade
<1>7. CASE CreateRefused(c) \/ CreateDone(c) \/ ChildDone(c) \/ TradeDone(c)
  <2>1. mutex' = None /\ HoldsMutex(c) /\ ~HoldsMutex(c)'
    BY <1>1, <1>7 DEF CreateRefused, CreateDone, ChildDone, TradeDone, ServerIInv, KindInv, ServerTypeOK
  <2> QED
    BY <1>4, <2>1
<1> QED
  BY <1>5, <1>6, <1>7 DEF handleClient, Serve, handle_creation, handle_transactions

\* The registration names a thread that is in its transaction.
LEMMA StepGuest ==
    ASSUME ServerIInv, NEW c \in Clients, runServer(c) \/ handleClient(c)
    PROVE  NoLeakedWork'
<1>1. /\ ServerTypeOK /\ \A d \in Clients \ {c} : at'[d] = at[d] /\ kind'[d] = kind[d]
  BY StepType DEF ServerIInv
<1> USE DEF NoLeakedWork, Goto, EndWork
<1>2. CASE guest' = guest /\ (guest = c => InWork(c)')
  BY <1>1, <1>2 DEF ServerIInv, InWork, ServerTypeOK
<1>3. CASE Register(c)
  BY <1>1, <1>3 DEF Register, InWork, ServerTypeOK
<1>4. CASE CreateDone(c) \/ Finish(c) \/ (Account(c) /\ EndWork(c))
  BY <1>1, <1>4, ServerAssumption DEF CreateDone, Finish, Account, ServerIInv, InWork, ServerTypeOK
<1>5. CASE \/ runServer(c) \/ Receive(c) \/ Construct(c) \/ Respond(c)
           \/ CreateChild(c) \/ CreateThrows(c) \/ CreateRefused(c) \/ CreateEnds(c)
           \/ TransactionsThrow(c) \/ Terminate(c) \/ (Account(c) /\ ~EndWork(c)) \/ Child(c) \/ ChildDone(c)
           \/ Match(c) \/ LockTrade(c) \/ TradeDone(c)
  <2>1. guest' = guest /\ (guest = c => InWork(c)')
    BY <1>1, <1>5, ServerAssumption
       DEF runServer, Receive, Construct, Respond, CreateChild, CreateThrows, CreateRefused,
           CreateEnds, TransactionsThrow, Terminate, Account, Dies, Child, ChildDone, Match,
           LockTrade, TradeDone, ServerIInv, InWork, ServerTypeOK
  <2> QED
    BY <1>2, <2>1
<1> QED
  BY <1>3, <1>4, <1>5 DEF handleClient, Serve, handle_creation, handle_transactions

\* Whoever finds the connection taken is another than the one who has it, and
\* two creates would both hold the mutex.
LEMMA StepTaken ==
    ASSUME ServerIInv, NEW c \in Clients, runServer(c) \/ handleClient(c)
    PROVE  TakenNeedsTransactions'
<1> DEFINE Asks(d) == kind[d] \in {"create", "transactions"}
           Two == \E d, e \in Clients : d # e /\ kind[d] = "transactions" /\ Asks(e)
<1>1. ASSUME NEW d \in Clients, Asks(d)
      PROVE  kind'[d] = kind[d]
  BY <1>1
     DEF ServerIInv, ServerTypeOK, KindInv, runServer, handleClient, Serve, handle_creation,
         handle_transactions, Receive, Construct, Register, Respond, CreateChild,
         CreateThrows, CreateRefused, CreateDone, CreateEnds, TransactionsThrow, Terminate,
         Account, Child, ChildDone, Match, LockTrade, TradeDone, Finish, Dies
<1>2. Two => TakenNeedsTransactions'
  BY <1>1 DEF TakenNeedsTransactions
<1>3. CASE Terminate(c) \/ CreateRefused(c)
  <2>1. at[c] = "check" /\ guest \in Clients /\ InWork(guest) /\ guest # c
    BY <1>3 DEF Terminate, CreateRefused, ServerIInv, ServerTypeOK, NoLeakedWork, InWork
  <2>2. Asks(guest)
    BY <2>1 DEF ServerIInv, KindInv, InWork
  <2>3. CASE Terminate(c)
    BY <1>2, <2>1, <2>2, <2>3 DEF Terminate
  <2>4. CASE CreateRefused(c)
    <3>1. kind[c] = "create" /\ mutex = c
      BY <2>4 DEF CreateRefused, ServerIInv, MutexInv, HoldsMutex
    <3>2. kind[guest] = "transactions"
      BY <2>1, <3>1 DEF ServerIInv, MutexInv, HoldsMutex, KindInv, InWork
    <3> QED
      BY <1>2, <2>1, <3>1, <3>2
  <2> QED
    BY <1>3, <2>3, <2>4
<1>4. CASE ~Terminate(c) /\ ~CreateRefused(c)
  <2>1. refused' = refused /\ (fate' = "usage_error" => fate = "usage_error")
    BY <1>4
       DEF runServer, handleClient, Serve, handle_creation, handle_transactions, Receive,
           Construct, Register, Respond, CreateChild, CreateThrows, CreateDone, CreateEnds,
           TransactionsThrow, Account, Child, ChildDone, Match, LockTrade, TradeDone, Finish,
           Dies
  <2>2. TakenNeedsTransactions
    BY DEF ServerIInv
  <2>3. CASE Two
    BY <1>2, <2>3
  <2>4. CASE ~Two
    BY <2>1, <2>2, <2>4 DEF TakenNeedsTransactions
  <2> QED
    BY <2>3, <2>4
<1> QED
  BY <1>3, <1>4

\* The inductive invariant holds of every reachable state.
THEOREM ServerInvariance == ServerSpec => []ServerIInv
<1>1. ServerInit => ServerIInv
  BY ServerInitInv
<1>2. ServerIInv /\ [ServerNext]_serverVars => ServerIInv'
  <2> SUFFICES ASSUME ServerIInv, [ServerNext]_serverVars PROVE ServerIInv'
    OBVIOUS
  <2>1. CASE UNCHANGED serverVars
    BY <2>1 DEF serverVars, ServerIInv, ServerTypeOK, KindInv, MutexInv, HoldsMutex, NoLeakedWork,
                InWork, TakenNeedsTransactions
  <2>2. CASE ServerNext
    <3>1. CASE AcceptFails
      BY <3>1, DyingKeeps DEF AcceptFails, Fates, ServerIInv
    <3>2. ASSUME NEW c \in Clients, runServer(c) \/ handleClient(c)
          PROVE  ServerIInv'
      BY <3>2, StepType, StepMutex, StepGuest, StepTaken DEF ServerIInv
    <3> QED
      BY <2>2, <3>1, <3>2 DEF ServerNext
  <2> QED
    BY <2>1, <2>2
<1> QED
  BY <1>1, <1>2, PTL DEF ServerSpec

\* The client threads, the connection and the mutex keep their types, and no
\* thread leaves the steps of its request (server.cpp:144-168, database.cpp:215-452).
THEOREM ServerTypeCorrect == ServerSpec => []ServerTypeOK
<1>1. ServerIInv => ServerTypeOK
  BY DEF ServerIInv
<1> QED
  BY <1>1, ServerInvariance, PTL

\* The creates of different clients never have transactions open at once, as
\* the lock_guard of database.cpp:116 and :128 intends.
THEOREM CreatesNeverOverlap == ServerSpec => []CreatesExclusive
<1>1. ServerIInv => CreatesExclusive
  BY DEF ServerIInv, KindInv, MutexInv, HoldsMutex, InWork, CreatesExclusive
<1> QED
  BY <1>1, ServerInvariance, PTL

\* The connection is never left registered to a thread that is done with it.
THEOREM ConnectionReturned == ServerSpec => []NoLeakedWork
<1>1. ServerIInv => NoLeakedWork
  BY DEF ServerIInv
<1> QED
  BY <1>1, ServerInvariance, PTL

\* A request is refused for want of the connection, or ends the process with
\* it, only while two requests are being served, one of them a <transactions>:
\* creates are kept apart by db_mutex (database.cpp:116, :128, :374).
THEOREM TakenByTransactions == ServerSpec => []TakenNeedsTransactions
<1>1. ServerIInv => TakenNeedsTransactions
  BY DEF ServerIInv
<1> QED
  BY <1>1, ServerInvariance, PTL
=============================================================================
