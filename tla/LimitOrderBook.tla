---------------------------- MODULE LimitOrderBook ----------------------------
(***************************************************************************)
(* What the matching core promises its clients: price-time priority.       *)
(*                                                                         *)
(* The book is a set of resting orders and nothing else: no price levels,  *)
(* no vectors, no index map.  An order enters, and as long as some bid is  *)
(* at or above some ask, the best bid trades with the best ask -- best by  *)
(* price, then by arrival (seqNo) -- at the price of the one that arrived  *)
(* first.  OrderBook, the data structure of the engine, implements this    *)
(* specification under the mapping given there.                            *)
(***************************************************************************)
EXTENDS Integers, Sequences

CONSTANTS
    Order,      \* the orders clients can send
    Ids         \* the order ids a cancellation can name

VARIABLES
    resting,    \* the orders in the book, with their remaining quantity
    trades,     \* the trade events emitted so far
    pc          \* "idle", or "matching" after an arrival

lobVars == <<resting, trades, pc>>

On(side) == {o \in resting : o.side = side}

(* Bids are better the higher, asks the lower; ties go to the older order. *)
Precedes(o, r) ==
    \/ o.side = "buy"  /\ o.price > r.price
    \/ o.side = "sell" /\ o.price < r.price
    \/ o.price = r.price /\ o.seqNo < r.seqNo

IsTop(o) == \A r \in On(o.side) \ {o} : Precedes(o, r)

(* What is left of an order after it traded qty; nothing of a filled one. *)
Remainder(o, qty) ==
    IF o.quantity = qty THEN {} ELSE {[o EXCEPT !.quantity = @ - qty]}

LobInit ==
    /\ resting = {}
    /\ trades = << >>
    /\ pc = "idle"

Arrive(o) ==
    /\ pc = "idle"
    /\ \A r \in resting : r.seqNo < o.seqNo
    /\ resting' = resting \cup {o}
    /\ pc' = "matching"
    /\ UNCHANGED trades

Trade(b, a) ==
    LET qty   == IF b.quantity < a.quantity THEN b.quantity ELSE a.quantity
        maker == IF b.seqNo < a.seqNo THEN b ELSE a
        taker == IF b.seqNo > a.seqNo THEN b ELSE a
    IN  /\ pc = "matching"
        /\ IsTop(b) /\ IsTop(a)
        /\ b.price >= a.price
        /\ resting' = (resting \ {b, a}) \cup Remainder(b, qty) \cup Remainder(a, qty)
        /\ trades' = Append(trades,
               [match_id |-> Len(trades) + 1,
                buy_order_id |-> b.OrderId, sell_order_id |-> a.OrderId,
                taker |-> taker.seqNo, price |-> maker.price, qty |-> qty])
        /\ UNCHANGED pc

Settle ==
    /\ pc = "matching"
    /\ \A b \in On("buy"), a \in On("sell") : b.price < a.price
    /\ pc' = "idle"
    /\ UNCHANGED <<resting, trades>>

(* A cancellation takes out the order that carries the id, and only that. *)
Withdraw(id) ==
    /\ pc = "idle"
    /\ resting' = {o \in resting : o.OrderId # id}
    /\ UNCHANGED <<trades, pc>>

LobNext ==
    \/ \E o \in Order : Arrive(o)
    \/ \E b \in On("buy"), a \in On("sell") : Trade(b, a)
    \/ Settle
    \/ \E id \in Ids : Withdraw(id)

LobSpec == LobInit /\ [][LobNext]_lobVars
===============================================================================
