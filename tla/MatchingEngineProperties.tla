---------------------- MODULE MatchingEngineProperties ----------------------
(***************************************************************************)
(* What the matching engine keeps true, and what its comments and tests    *)
(* say it keeps true and it does not.                                      *)
(***************************************************************************)
EXTENDS MatchingEngine, Sums

Rows(d) == DOMAIN d.orders
Trades(d) == DOMAIN d.trades
OrderOf(d, u) == d.orders[u].order

Snapshots == [uid : Nat, amount : Int, limit : Int, created : Nat]
Replies ==
    {Error, Created}
    \cup [kind : {"opened"}, id : Nat, row : Nat]
    \cup [kind : {"canceled"}, id : Nat]
    \cup [kind : {"status"}, id : Nat, rows : SUBSET Nat]

\* The tables are well formed: rows have their columns, the keys come from
\* the two sequences, and the checks of ACCOUNT and SYMBOL hold.
TablesOK(d) ==
    /\ d = [orders |-> d.orders, trades |-> d.trades, balance |-> d.balance,
            shares |-> d.shares, placed |-> d.placed]
    /\ d.orders \in [Rows(d) -> OrderRow] /\ Rows(d) \subseteq 1..rowSeq
    /\ d.trades \in [Trades(d) -> TradeRow] /\ Trades(d) \subseteq 1..txnSeq
    /\ d.balance \in [DOMAIN d.balance -> Nat]
    /\ DOMAIN d.balance \subseteq Accounts
    /\ d.shares \in [DOMAIN d.shares -> Nat]
    /\ DOMAIN d.shares \subseteq Symbols \X DOMAIN d.balance
    /\ d.placed \in [DOMAIN d.placed -> Request]
    /\ DOMAIN d.placed \subseteq Rows(d)
    /\ \A u \in Rows(d) : OrderOf(d, u) \in DOMAIN d.placed
                          /\ d.orders[u].account \in DOMAIN d.balance

\* Type invariant.  That balances and counts stay in Nat is the CHECK of
\* database.cpp:53 and :92 surviving cancelOrder's negative refund.
TypeOK ==
    /\ TablesOK(db) /\ TablesOK(saved)
    /\ rowSeq \in Nat /\ txnSeq \in Nat /\ clock \in Nat /\ order_id \in Nat
    /\ pc \in {"idle", "body", "buys", "sells", "failed"}
    /\ account \in Accounts /\ symbol \in Symbols
    /\ buys \in SUBSET Snapshots /\ sells \in SUBSET Snapshots /\ buy \in Snapshots
    /\ reply \in Seq(Replies)

-----------------------------------------------------------------------------
(* The rows of an order *)

\* However often an order is split, filled, filled again or cancelled, the
\* amounts of its rows add up to what the client asked for.
RowsConserveAmount ==
    \A o \in DOMAIN db.placed :
        SumOver(RowsOf(db, o), [u \in Rows(db) |-> db.orders[u].amount])
            = db.placed[o].amount

\* A sell order never has two open rows: cancelOrder and the next sweep see
\* one remainder.  (Buys have no such luck.)
OneOpenSellRow ==
    \A u, v \in OpenRows(db) :
        u # v /\ db.orders[u].amount < 0 => OrderOf(db, u) # OrderOf(db, v)

-----------------------------------------------------------------------------
(* Trades *)

\* No order is ever executed beyond the limit its client gave, although the
\* column LIMIT_PRICE is overwritten by execution prices.
WithinLimits(d) ==
    \A t \in Trades(d) :
        LET trade == d.trades[t]
        IN  /\ trade.price <= d.placed[OrderOf(d, trade.buyRow)].limit
            /\ trade.price >= d.placed[OrderOf(d, trade.sellRow)].limit
TradesWithinLimits == WithinLimits(db) /\ WithinLimits(saved)

\* The sell side of the ledger and of the order table agree: a trade's sell
\* row carries its amount, its price and its id for good, and a sell row that
\* has a transaction is the one that trade filled.
SellSideAgrees(d) ==
    /\ \A t \in Trades(d) :
         LET row == d.orders[d.trades[t].sellRow]
         IN  /\ row.txn = t /\ row.status # "OPEN"
             /\ row.amount = -d.trades[t].amount /\ row.limit = d.trades[t].price
    /\ \A u \in Rows(d) :
         d.orders[u].amount < 0 /\ d.orders[u].txn # NoTxn =>
             /\ d.orders[u].txn \in Trades(d)
             /\ d.trades[d.orders[u].txn].sellRow = u
SellSideLedger == SellSideAgrees(db) /\ SellSideAgrees(saved)

\* The buy side agrees as well: what the ledger says was bought for an order
\* never exceeds what its client asked for.
BuyNeverOverfilled ==
    \A o \in DOMAIN db.placed :
        SumOver({t \in Trades(db) : OrderOf(db, db.trades[t].buyRow) = o},
                [t \in Trades(db) |-> db.trades[t].amount])
            <= Magnitude(db.placed[o].amount)

-----------------------------------------------------------------------------
(* The book after matching *)

Crossing(d, s) ==
    \E b, a \in OpenRows(d) :
        /\ d.orders[b].symbol = s /\ d.orders[a].symbol = s
        /\ d.orders[b].amount > 0 /\ d.orders[a].amount < 0
        /\ d.orders[b].limit >= d.orders[a].limit
Settled == pc \in {"idle", "body"}

\* The one way to leave a crossed book behind is to trade twice on the same
\* buy row in a sweep (database.cpp:493 re-reads the row under its old key).
CrossedOnlyAfterRetrade ==
    Settled => \A s \in Symbols : Crossing(db, s) =>
        \E t1, t2 \in Trades(db) :
            /\ t1 # t2 /\ db.trades[t1].symbol = s
            /\ db.trades[t1].buyRow = db.trades[t2].buyRow

\* match_orders ends: each of its loops runs over a result set it never adds to.
MatchTerminates == pc \in {"buys", "sells"} ~> pc = "body"

-----------------------------------------------------------------------------
(* Cancelling *)

\* A cancellation that was committed is final: later requests, and their
\* rollbacks, neither reopen, fill nor split a row of the order.
CancelledIsFinal ==
    [][\A o \in DOMAIN saved.placed : Cancelled(saved, o) =>
          /\ RowsOf(saved', o) = RowsOf(saved, o)
          /\ \A u \in RowsOf(saved, o) : saved'.orders[u] = saved.orders[u]]_vars
-----------------------------------------------------------------------------
(* Committed requests implement OrderPromise *)

Traded(d, o) ==
    SumOver({t \in Trades(d) : o \in {OrderOf(d, d.trades[t].buyRow),
                                      OrderOf(d, d.trades[t].sellRow)}},
            [t \in Trades(d) |-> d.trades[t].amount])
Book(d) ==
    [o \in DOMAIN d.placed |->
        [symbol |-> d.placed[o].symbol, amount |-> d.placed[o].amount,
         limit |-> d.placed[o].limit, traded |-> Traded(d, o),
         cancelled |-> Cancelled(d, o)]]

Promise == INSTANCE OrderPromise WITH book <- Book(saved)

\* Splits, repeated fills, rollbacks and cancellations, seen from commit to
\* commit, are steps of the abstract order book.
KeepsPromise == Promise!Spec

=============================================================================
