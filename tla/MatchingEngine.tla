--------------------------- MODULE MatchingEngine ---------------------------
(***************************************************************************)
(* The stock exchange's matching engine (project4_stockexchange), one      *)
(* <transactions> request at a time: the tables of database.cpp, the       *)
(* request loop of handle_transactions with the transaction W it runs in,  *)
(* and match_orders row by row.  ExchangeServer says why requests do not   *)
(* overlap on the one database connection.                                 *)
(*                                                                         *)
(* A definition that Next does not use (CloseRow, FilledWhole, ...) is a   *)
(* wrong form, of a kind a change of the code could bring in, of the       *)
(* definition it precedes: PROJECT.json lists them as mutants.             *)
(*                                                                         *)
(* Amounts are signed as in the code (a negative amount sells).  DECIMAL   *)
(* columns are integers here; what format_decimal and the columns round    *)
(* away is left out.                                                       *)
(***************************************************************************)
EXTENDS Integers, Sequences, FiniteSetsExt

CONSTANTS
    Accounts,      \* ids a <create> or a <transactions> may name
    Symbols,       \* symbols
    Amounts,       \* amounts a client may put in an <order>
    Limits,        \* limit prices a client may put in an <order>
    Balances,      \* balances a <create> may give
    ShareCounts,   \* share counts a <create> may give
    MaxOrders,     \* bound: orders accepted
    MaxRequests,   \* bound: <transactions> requests
    MaxOps         \* bound: children of one <transactions>

ASSUME ConstantsAssumption ==
    /\ Amounts \subseteq Int /\ Limits \subseteq Int
    /\ Balances \subseteq Int /\ ShareCounts \subseteq Int
    /\ MaxOrders \in Nat /\ MaxRequests \in Nat /\ MaxOps \in Nat

VARIABLES
    db,        \* the tables as the open transaction sees them
    saved,     \* the tables as last committed
    rowSeq,    \* sequence behind ORDERS.UNIQUE_ID: a rollback leaves it alone
    txnSeq,    \* sequence behind TRANSACTIONS.TRANSACTION_ID
    clock,     \* start of the current transaction: the value of NOW() in it
    order_id,  \* the program's counter, the id the client is told
    pc,        \* "idle", "body", "buys", "sells", or "failed" (W is aborted)
    account,   \* the account of the request
    symbol,    \* match_orders: its argument
    buys,      \* match_orders: rows of buy_orders not visited yet
    sells,     \* match_orders: rows of sell_orders not visited yet
    buy,       \* match_orders: the current row of buy_orders
    reply      \* elements of the response written so far

vars == <<db, saved, rowSeq, txnSeq, clock, order_id, pc, account, symbol,
          buys, sells, buy, reply>>
matching == <<symbol, buys, sells, buy>>

NoTxn == 0
NoRow == [uid |-> 0, amount |-> 0, limit |-> 0, created |-> 0]

Magnitude(n) == IF n < 0 THEN -n ELSE n
\* m shares on the side, buying or selling, that amount is on
SameSide(amount, m) == IF amount < 0 THEN -m ELSE m
Lesser(m, n) == IF m < n THEN m ELSE n
\* INSERT of a row with key k into a table f
Put(f, k, v) == [x \in DOMAIN f \cup {k} |-> IF x = k THEN v ELSE f[x]]

-----------------------------------------------------------------------------
(* Tables *)

Statuses == {"OPEN", "EXECUTED", "CLOSED"}
OrderRow == [order : Nat, account : Accounts, symbol : Symbols, amount : Int,
             limit : Int, status : Statuses, txn : Nat, created : Nat]
\* buyRow and sellRow are the arguments of execute_trade, which the table
\* itself does not keep.
TradeRow == [buyer : Accounts, seller : Accounts, symbol : Symbols,
             amount : Int, price : Int, buyRow : Nat, sellRow : Nat]
\* What the client asked for: the rows of ORDERS forget it when they trade.
Request == [account : Accounts, symbol : Symbols, amount : Int, limit : Int]

EmptyTable == [x \in {} |-> 0]
EmptyTables == [orders  |-> EmptyTable, trades |-> EmptyTable,
                balance |-> EmptyTable, shares |-> EmptyTable,
                placed  |-> EmptyTable]

RowsOf(d, id) == {u \in DOMAIN d.orders : d.orders[u].order = id}
OpenRows(d) == {u \in DOMAIN d.orders : d.orders[u].status = "OPEN"}
Cancelled(d, id) == \E u \in RowsOf(d, id) : d.orders[u].status = "CLOSED"

Init ==
    /\ db = EmptyTables /\ saved = EmptyTables
    /\ rowSeq = 0 /\ txnSeq = 0 /\ clock = 0 /\ order_id = 0
    /\ pc = "idle"
    /\ account \in Accounts /\ symbol \in Symbols
    /\ buys = {} /\ sells = {} /\ buy = NoRow
    /\ reply = <<>>

Say(element) == reply' = Append(reply, element)
Error == [kind |-> "error"]
Created == [kind |-> "created"]

-----------------------------------------------------------------------------
(* <create>: every child is a transaction of its own *)

\* The primary key of ACCOUNT and CHECK (BALANCE >= 0) reject the others.
insertAccount(a, b) ==
    /\ pc = "idle"
    /\ IF a \notin DOMAIN db.balance /\ b >= 0
       THEN /\ db' = [db EXCEPT !.balance = Put(@, a, b)]
            /\ reply' = <<Created>>
       ELSE UNCHANGED db /\ reply' = <<Error>>
    /\ saved' = db'
    /\ UNCHANGED <<rowSeq, txnSeq, clock, order_id, pc, account, matching>>

\* The foreign key needs the account; an existing count is overwritten.
insertSymbol(s, a, n) ==
    /\ pc = "idle"
    /\ IF a \in DOMAIN db.balance /\ n >= 0
       THEN /\ db' = [db EXCEPT !.shares = Put(@, <<s, a>>, n)]
            /\ reply' = <<Created>>
       ELSE UNCHANGED db /\ reply' = <<Error>>
    /\ saved' = db'
    /\ UNCHANGED <<rowSeq, txnSeq, clock, order_id, pc, account, matching>>

-----------------------------------------------------------------------------
(* <transactions> *)

Begin(a) ==
    /\ pc = "idle" /\ clock < MaxRequests
    /\ clock' = clock + 1
    /\ account' = a
    /\ IF a \in DOMAIN db.balance
       THEN pc' = "body" /\ reply' = <<>>
       ELSE pc' = pc /\ reply' = <<Error>>
    /\ UNCHANGED <<db, saved, rowSeq, txnSeq, order_id, matching>>

\* insertOrder's checks.  Neither money nor shares are set aside.
Accepts(d, a, s, n, p) ==
    /\ a \in DOMAIN d.balance
    /\ n >= 0 => d.balance[a] >= n * p
    /\ n < 0  => <<s, a>> \in DOMAIN d.shares /\ Magnitude(n) <= d.shares[<<s, a>>]

insertOrder(d, u, a, s, n, p) ==
    [d EXCEPT
       !.orders = Put(@, u, [order |-> u, account |-> a, symbol |-> s,
                             amount |-> n, limit |-> p, status |-> "OPEN",
                             txn |-> NoTxn, created |-> clock]),
       !.placed = Put(@, u, [account |-> a, symbol |-> s,
                             amount |-> n, limit |-> p])]

\* A row of a result set, as it was when the SELECT ran
Snapshot(d, u) == [uid |-> u, amount |-> d.orders[u].amount,
                   limit |-> d.orders[u].limit, created |-> d.orders[u].created]
BuyOrders(d, s) ==
    {Snapshot(d, u) : u \in {v \in OpenRows(d) :
        d.orders[v].symbol = s /\ d.orders[v].amount > 0}}
SellOrdersAnyPrice(d, s, p) ==
    {Snapshot(d, u) : u \in {v \in OpenRows(d) :
        d.orders[v].symbol = s /\ d.orders[v].amount < 0}}
SellOrdersBelow(d, s, p) ==
    {Snapshot(d, u) : u \in {v \in OpenRows(d) :
        d.orders[v].symbol = s /\ d.orders[v].amount < 0 /\ d.orders[v].limit < p}}
\* The inner test buy_price >= sell_price repeats the SELECT's condition.
SellOrders(d, s, p) ==
    {Snapshot(d, u) : u \in {v \in OpenRows(d) :
        d.orders[v].symbol = s /\ d.orders[v].amount < 0 /\ d.orders[v].limit <= p}}

MoreOps == pc = "body" /\ Len(reply) < MaxOps

PlaceOrder(s, n, p) ==
    /\ MoreOps /\ order_id < MaxOrders
    /\ Accepts(db, account, s, n, p)
    /\ rowSeq' = rowSeq + 1
    /\ order_id' = order_id + 1
    /\ db' = insertOrder(db, rowSeq', account, s, n, p)
    /\ Say([kind |-> "opened", id |-> order_id', row |-> rowSeq'])
    /\ symbol' = s
    /\ buys' = BuyOrders(db', s)
    /\ pc' = "buys"
    /\ UNCHANGED <<saved, txnSeq, clock, account, sells, buy>>

RejectOrder(s, n, p) ==
    /\ MoreOps
    /\ ~Accepts(db, account, s, n, p)
    /\ Say(Error)
    /\ UNCHANGED <<db, saved, rowSeq, txnSeq, clock, order_id, pc, account, matching>>

-----------------------------------------------------------------------------
(* match_orders: ORDER BY leaves the order of ties open *)

BuyBefore(b, o) ==
    b.limit > o.limit \/ (b.limit = o.limit /\ b.created <= o.created)
SellBefore(b, o) ==
    b.limit < o.limit \/ (b.limit = o.limit /\ b.created <= o.created)

NextBuyAgain ==    \* the row stays in the result set
    /\ pc = "buys"
    /\ \E b \in buys :
         /\ \A o \in buys : BuyBefore(b, o)
         /\ buy' = b
         /\ sells' = SellOrders(db, symbol, b.limit)
    /\ pc' = "sells"
    /\ UNCHANGED <<db, saved, rowSeq, txnSeq, clock, order_id, account, symbol, buys, reply>>
NextBuy ==
    /\ pc = "buys"
    /\ \E b \in buys :
         /\ \A o \in buys : BuyBefore(b, o)
         /\ buy' = b
         /\ buys' = buys \ {b}
         /\ sells' = SellOrders(db, symbol, b.limit)
    /\ pc' = "sells"
    /\ UNCHANGED <<db, saved, rowSeq, txnSeq, clock, order_id, account, symbol, reply>>

ExecutionPrice(b, s) == IF b.uid > s.uid THEN b.limit ELSE s.limit

execute_trade(trades, orders, t, b, s, n, price) ==
    Put(trades, t, [buyer |-> orders[b].account, seller |-> orders[s].account,
                    symbol |-> orders[b].symbol, amount |-> n, price |-> price,
                    buyRow |-> b, sellRow |-> s])

FilledWhole(row, n, price, t) ==    \* the UPDATE for remain_amount == 0
    [row EXCEPT !.status = "EXECUTED", !.limit = price, !.txn = t]
FilledStillOpen(row, n, price, t) ==
    [row EXCEPT !.amount = SameSide(row.amount, n), !.limit = price, !.txn = t]
FilledAtOldPrice(row, n, price, t) ==
    [row EXCEPT !.status = "EXECUTED", !.amount = SameSide(row.amount, n), !.txn = t]
RemainderOfNoOrder(row, left) ==
    [row EXCEPT !.order = 0, !.status = "OPEN", !.amount = SameSide(row.amount, left),
                !.txn = NoTxn, !.created = clock]

\* A row that traded n shares, and the row that keeps what is left of it
Filled(row, n, price, t) ==
    [row EXCEPT !.status = "EXECUTED", !.amount = SameSide(row.amount, n),
                !.limit = price, !.txn = t]
Remainder(row, left) ==
    [row EXCEPT !.status = "OPEN", !.amount = SameSide(row.amount, left),
                !.txn = NoTxn, !.created = clock]

update_order_status(orders, u, n, price, t, new) ==
    LET left   == Magnitude(orders[u].amount) - n
        filled == [orders EXCEPT ![u] = Filled(orders[u], n, price, t)]
    IN  IF left < 0 THEN orders
        ELSE IF left = 0 THEN filled
        ELSE Put(filled, new, Remainder(orders[u], left))

Trade(s) ==
    LET bought  == db.orders[buy.uid].amount  \* re-read, under buy's old key
        n       == Lesser(bought, Magnitude(s.amount))
        price   == ExecutionPrice(buy, s)
        buySeq  == IF bought > n THEN rowSeq + 1 ELSE rowSeq
        sellSeq == IF Magnitude(s.amount) > n THEN buySeq + 1 ELSE buySeq
        orders  == update_order_status(db.orders, buy.uid, n, price,
                                       txnSeq + 1, rowSeq + 1)
    IN  /\ db' = [db EXCEPT
                    !.trades = execute_trade(@, db.orders, txnSeq + 1,
                                             buy.uid, s.uid, n, price),
                    !.orders = update_order_status(orders, s.uid, n, price,
                                                   txnSeq + 1, buySeq + 1)]
        /\ rowSeq' = sellSeq
        /\ txnSeq' = txnSeq + 1
        /\ IF bought = n  \* break
           THEN pc' = "buys" /\ sells' = {}
           ELSE pc' = pc /\ sells' = sells \ {s}

NextSell ==
    /\ pc = "sells"
    /\ \E s \in sells : (\A o \in sells : SellBefore(s, o)) /\ Trade(s)
    /\ UNCHANGED <<saved, clock, order_id, account, symbol, buys, buy, reply>>

NoMoreSells ==
    /\ pc = "sells" /\ sells = {}
    /\ pc' = "buys"
    /\ UNCHANGED <<db, saved, rowSeq, txnSeq, clock, order_id, account, matching, reply>>

NoMoreBuys ==
    /\ pc = "buys" /\ buys = {}
    /\ pc' = "body"
    /\ UNCHANGED <<db, saved, rowSeq, txnSeq, clock, order_id, account, matching, reply>>

match_orders == NextBuy \/ NextSell \/ NoMoreSells \/ NoMoreBuys

-----------------------------------------------------------------------------
(* cancelOrder, queryAll and the end of the request *)

CloseRow(orders, id) ==    \* WHERE UNIQUE_ID for WHERE ORDER_ID
    [orders EXCEPT ![id].status = "CLOSED"]
Close(orders, id) ==
    [u \in DOMAIN orders |-> IF orders[u].order = id
                             THEN [orders[u] EXCEPT !.status = "CLOSED"]
                             ELSE orders[u]]

\* R[0] of a SELECT without ORDER BY: any row of the order.  The "refund" is
\* negative for a sell; CHECK (BALANCE >= 0) then fails the statement, the
\* error is caught in cancelOrder, and every effect of W is lost.
cancelOrder(id) ==
    /\ MoreOps
    /\ \E r \in RowsOf(db, id) :
         LET row     == db.orders[r]
             balance == db.balance[row.account] + row.amount * row.limit
         IN  IF row.status # "OPEN"
             THEN Say(Error) /\ UNCHANGED <<db, pc>>
             ELSE IF balance < 0
             THEN Say(Error) /\ db' = saved /\ pc' = "failed"
             ELSE /\ db' = [db EXCEPT !.orders = Close(@, id),
                                      !.balance[row.account] = balance]
                  /\ Say([kind |-> "canceled", id |-> id])
                  /\ pc' = pc
    /\ UNCHANGED <<saved, rowSeq, txnSeq, clock, order_id, account, matching>>

cancelUnknown(id) ==
    /\ MoreOps
    /\ RowsOf(db, id) = {}
    /\ Say(Error)
    /\ UNCHANGED <<db, saved, rowSeq, txnSeq, clock, order_id, pc, account, matching>>

\* The rows a <status> lists.  No row ever has the status CANCELED.
Listed(d, id) ==
    {u \in RowsOf(d, id) : d.orders[u].status \in {"OPEN", "EXECUTED", "CANCELED"}}

queryAll(id) ==
    /\ MoreOps
    /\ IF \E u \in RowsOf(db, id) : db.orders[u].account = account
       THEN Say([kind |-> "status", id |-> id, rows |-> Listed(db, id)])
       ELSE Say(Error)
    /\ UNCHANGED <<db, saved, rowSeq, txnSeq, clock, order_id, pc, account, matching>>

\* After a failed statement an <order> or a <query> throws out of the loop:
\* W.abort(), and the whole response is one error ...
AbortRequest ==
    /\ pc = "failed" /\ Len(reply) < MaxOps
    /\ pc' = "idle"
    /\ reply' = <<Error>>
    /\ UNCHANGED <<db, saved, rowSeq, txnSeq, clock, order_id, account, matching>>

\* ... a <cancel> only adds an error of its own ...
CancelInFailed ==
    /\ pc = "failed" /\ Len(reply) < MaxOps
    /\ Say(Error)
    /\ UNCHANGED <<db, saved, rowSeq, txnSeq, clock, order_id, pc, account, matching>>

\* ... and W.commit() of an aborted transaction is a silent ROLLBACK.
Commit ==
    /\ pc \in {"body", "failed"}
    /\ pc' = "idle"
    /\ saved' = db
    /\ UNCHANGED <<db, rowSeq, txnSeq, clock, order_id, account, matching, reply>>

-----------------------------------------------------------------------------
Create ==
    \/ \E a \in Accounts, b \in Balances : insertAccount(a, b)
    \/ \E s \in Symbols, a \in Accounts, n \in ShareCounts : insertSymbol(s, a, n)

\* Ids a client may name: every id so far and one that does not exist yet
OrderIds == 1..(rowSeq + 1)

Operation ==
    \/ \E s \in Symbols, n \in Amounts, p \in Limits :
         PlaceOrder(s, n, p) \/ RejectOrder(s, n, p)
    \/ \E id \in OrderIds : cancelOrder(id) \/ cancelUnknown(id) \/ queryAll(id)
    \/ AbortRequest \/ CancelInFailed

Next ==
    \/ Create
    \/ \E a \in Accounts : Begin(a)
    \/ Operation
    \/ match_orders
    \/ Commit

Spec == Init /\ [][Next]_vars

\* The thread that runs a request runs on.  Nothing is assumed of clients.
FairSpec == Spec /\ WF_vars(match_orders)
=============================================================================
