---------------------------- MODULE OrderPromise ----------------------------
(***************************************************************************)
(* What the exchange promises about orders, as a client sees it between    *)
(* requests: an order keeps its terms, its trades are final, a cancelled   *)
(* order trades no more, a sell order never gives away more shares than it *)
(* offered, and every share bought was sold by somebody.  Buy orders have  *)
(* no bound of their own: the code does not keep one.                      *)
(***************************************************************************)
EXTENDS Integers, Sums

VARIABLE book  \* accepted order -> its terms, what it traded, whether it is cancelled

Sells(b) == {o \in DOMAIN b : b[o].amount < 0}
Buys(b) == {o \in DOMAIN b : b[o].amount > 0}
Volume(b, S, s) ==
    SumOver(S, [o \in DOMAIN b |-> IF b[o].symbol = s THEN b[o].traded ELSE 0])

TermsKept(old, new) ==
    new.symbol = old.symbol /\ new.amount = old.amount /\ new.limit = old.limit
TradesFinal(old, new) == new.traded >= old.traded
CancelFinal(old, new) == old.cancelled => new.cancelled /\ new.traded = old.traded

SellsCovered(b) == \A o \in Sells(b) : b[o].traded <= -b[o].amount
SharesMatch(b) ==
    \A s \in {b[o].symbol : o \in DOMAIN b} : Volume(b, Buys(b), s) = Volume(b, Sells(b), s)

Init == book = [o \in {} |-> 0]

\* The requests of clients, each of them whole
Next ==
    /\ DOMAIN book \subseteq DOMAIN book'
    /\ \A o \in DOMAIN book :
         /\ TermsKept(book[o], book'[o])
         /\ TradesFinal(book[o], book'[o])
         /\ CancelFinal(book[o], book'[o])
    /\ SellsCovered(book') /\ SharesMatch(book')

Spec == Init /\ [][Next]_book
=============================================================================
