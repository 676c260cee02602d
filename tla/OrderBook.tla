------------------------------- MODULE OrderBook -------------------------------
(***************************************************************************)
(* The limit order book of matching-engine/ (OrderBook.h, Order.cpp, and   *)
(* addOrder, matching and cancelOrder of MatchingEngine.cpp).              *)
(*                                                                         *)
(* Each side maps a price to the vector of orders resting there, in        *)
(* arrival order; orderMap records, for an order id, where the order sits. *)
(* Removing an order shifts the ones behind it, so eraseAt refreshes their *)
(* recorded positions.  The two sides of the source (buyOrders and         *)
(* sellOrders) are levels["buy"] and levels["sell"]; positions count from  *)
(* one, as sequences do.                                                   *)
(*                                                                         *)
(* matching() is a loop; each iteration is a step of its own (MatchStep),  *)
(* so that the invariants hold between iterations, and the loop's exit is  *)
(* MatchDone.  No other operation starts while pc = "matching": the book   *)
(* belongs to one thread.                                                  *)
(*                                                                         *)
(* Timestamps are left out except for the identity of the taker, whose     *)
(* t0 and t1 the trade event carries.  The qty of an event is tradedqty as *)
(* an int; the cast to uint32_t that follows is one to one.  The branch of *)
(* matching() for a level without orders is dead code by NoEmptyLevel.     *)
(***************************************************************************)
EXTENDS Integers, FiniteSets, Sequences, SequencesExt

CONSTANTS
    Prices,         \* limit prices: finitely many, ordered
    OrderIds,       \* ids the clients use
    Quantities,     \* quantities in the messages: uint32_t on the wire
    IntLimit,       \* 2^31: an int holds -IntLimit..IntLimit-1
    MaxOrders,      \* bound on the orders submitted
    IdsUnique       \* do clients never reuse an id?

(* The gateway hands the uint32_t of the message to an int parameter: from  *)
(* IntLimit on, the order's quantity is negative.                           *)
Narrowed(q) == IF q < IntLimit THEN q ELSE q - 2 * IntLimit

ASSUME BookAssumption ==
    /\ Prices \subseteq Int
    /\ IntLimit \in Nat \ {0}
    /\ Quantities \subseteq 0..(2 * IntLimit - 1)
    /\ MaxOrders \in Nat
    /\ IdsUnique \in BOOLEAN

(* Trading against a negative quantity adds to the other order.  The        *)
(* magnitudes in the book never grow in sum, so none of them leaves int     *)
(* (which would be undefined behaviour) if MaxOrders of them fit.           *)
ASSUME NoOverflow ==
    \A q \in Quantities : q >= IntLimit =>
        \A r \in Quantities : /\ MaxOrders * Narrowed(r) < IntLimit
                              /\ MaxOrders * Narrowed(r) > -IntLimit

VARIABLES
    levels,         \* side -> price -> the orders resting there
    orderMap,       \* order id -> location, for tracked orders
    trades,         \* events handed to the offloader, numbered by match_id
    pc,             \* "idle", or "matching" inside matching()
    arrived,        \* history: the orders submitted, by sequence number
    cancelled       \* history: the ids cancelled

bookVars == <<levels, orderMap, trades, pc>>
vars == <<levels, orderMap, trades, pc, arrived, cancelled>>

Side == {"buy", "sell"}

(* What a quantity can be: only one that is still as submitted is negative. *)
Sizes == Nat \cup {Narrowed(q) : q \in Quantities}

Order == [OrderId : OrderIds, quantity : Sizes, side : Side, price : Prices, seqNo : Nat]
OrderLocation == [side : Side, price : Prices, vector_index : Nat \ {0}]
TradeEvent == [match_id : Nat, buy_order_id : OrderIds, sell_order_id : OrderIds,
               taker : Nat, price : Prices, qty : Sizes]

Least(x, y) == IF x < y THEN x ELSE y

-------------------------------------------------------------------------------
(* The maps of the source. *)

LevelAt(book, price) == IF price \in DOMAIN book THEN book[price] ELSE << >>

(* Stores a level back; a price whose level ran empty leaves the map. *)
PutLevel(book, price, level) ==
    [p \in (DOMAIN book \ {price}) \cup (IF level = << >> THEN {} ELSE {price}) |->
        IF p = price THEN level ELSE book[p]]

Track(map, id, loc) ==
    [i \in DOMAIN map \cup {id} |-> IF i = id THEN loc ELSE map[i]]

Untrack(map, id) == [i \in DOMAIN map \ {id} |-> map[i]]

(* The two effects of eraseAt(level, index).  An index past the end is      *)
(* ignored; otherwise the orders behind it move up one place ...            *)
Erased(level, index) ==
    IF index \in 1..Len(level) THEN RemoveAt(level, index) ELSE level

(* Wrong on purpose: plain erase, the recorded positions go stale. *)
NotRefreshed(map, level, index) == map

(* ... and, walking the shortened level from index on, every order that is  *)
(* tracked gets its new position: the last one, if an id occurs twice.      *)
Refreshed(map, level, index) ==
    [id \in DOMAIN map |->
        LET at == {i \in index..Len(level) : level[i].OrderId = id}
        IN  IF at = {} THEN map[id] ELSE [map[id] EXCEPT !.vector_index = Max(at)]]

Reduced(order, qty) == [order EXCEPT !.quantity = @ - qty]

(* Wrong on purpose: a trade always consumes the whole front order. *)
TakeWholeOrder(level, qty) == Erased(level, 1)

(* The front order of a level trades qty, and leaves when it is filled. *)
TakeLevel(level, qty) ==
    IF level[1].quantity = qty THEN Erased(level, 1)
    ELSE [level EXCEPT ![1] = Reduced(@, qty)]

(* Wrong on purpose: a partial fill erases the tracking entry as well. *)
TakeMapOfAnyFill(map, level, qty) ==
    LET tracked == Untrack(map, level[1].OrderId)
    IN  IF level[1].quantity = qty THEN Refreshed(tracked, Erased(level, 1), 1) ELSE tracked

TakeMap(map, level, qty) ==
    IF level[1].quantity = qty
    THEN Refreshed(Untrack(map, level[1].OrderId), Erased(level, 1), 1)
    ELSE map

-------------------------------------------------------------------------------

Init ==
    /\ levels = [s \in Side |-> [p \in {} |-> << >>]]
    /\ orderMap = [id \in {} |-> [side |-> "buy", price |-> 0, vector_index |-> 0]]
    /\ trades = << >>
    /\ pc = "idle"
    /\ arrived = << >>
    /\ cancelled = {}

(* Wrong on purpose: the new order goes in front of the ones that wait. *)
AddOrderInFront(order) ==
    LET level == <<order>> \o LevelAt(levels[order.side], order.price)
    IN  /\ pc = "idle"
        /\ levels' = [levels EXCEPT ![order.side] = PutLevel(@, order.price, level)]
        /\ orderMap' = Refreshed(Track(orderMap, order.OrderId,
               [side |-> order.side, price |-> order.price, vector_index |-> 1]), level, 1)
        /\ pc' = "matching"
        /\ UNCHANGED trades

(* addOrder: append to the level, record the position, start matching. *)
AddOrder(order) ==
    LET level == Append(LevelAt(levels[order.side], order.price), order)
    IN  /\ pc = "idle"
        /\ levels' = [levels EXCEPT ![order.side] = PutLevel(@, order.price, level)]
        /\ orderMap' = Track(orderMap, order.OrderId,
               [side |-> order.side, price |-> order.price, vector_index |-> Len(level)])
        /\ pc' = "matching"
        /\ UNCHANGED trades

(* The highest bid and the lowest ask: the first keys of the two maps. *)
IsBest(side, price) ==
    /\ price \in DOMAIN levels[side]
    /\ \A p \in DOMAIN levels[side] : IF side = "buy" THEN p <= price ELSE p >= price

(* The execution price is the limit of the order that arrived first. *)
ExecutionPrice(buy, sell) == IF buy.seqNo < sell.seqNo THEN buy.price ELSE sell.price

(* One iteration of the loop in matching(). *)
MatchStep ==
    \E bid, ask \in Prices :
        /\ pc = "matching"
        /\ IsBest("buy", bid) /\ IsBest("sell", ask)
        /\ bid >= ask
        /\ LET buyVec  == levels["buy"][bid]
               sellVec == levels["sell"][ask]
               buy     == buyVec[1]
               sell    == sellVec[1]
               qty     == Least(buy.quantity, sell.quantity)
           IN  /\ trades' = Append(trades,
                      [match_id |-> Len(trades) + 1,
                       buy_order_id |-> buy.OrderId, sell_order_id |-> sell.OrderId,
                       taker |-> IF buy.seqNo > sell.seqNo THEN buy.seqNo ELSE sell.seqNo,
                       price |-> ExecutionPrice(buy, sell), qty |-> qty])
               /\ levels' = [levels EXCEPT
                      !["buy"]  = PutLevel(@, bid, TakeLevel(buyVec, qty)),
                      !["sell"] = PutLevel(@, ask, TakeLevel(sellVec, qty))]
               /\ orderMap' = TakeMap(TakeMap(orderMap, buyVec, qty), sellVec, qty)
        /\ UNCHANGED <<pc, arrived, cancelled>>

(* Wrong on purpose: equal prices do not count as crossed. *)
MatchDoneOnTouch ==
    /\ pc = "matching"
    /\ \A bid \in DOMAIN levels["buy"], ask \in DOMAIN levels["sell"] : bid <= ask
    /\ pc' = "idle"
    /\ UNCHANGED <<levels, orderMap, trades, arrived, cancelled>>

(* Wrong on purpose: the loop waits for both sides to run empty. *)
MatchDoneWhenBothEmpty ==
    /\ pc = "matching"
    /\ \A s \in Side : DOMAIN levels[s] = {}
    /\ pc' = "idle"
    /\ UNCHANGED <<levels, orderMap, trades, arrived, cancelled>>

(* The loop ends when a side is empty or the best bid is below the best ask. *)
MatchDone ==
    /\ pc = "matching"
    /\ \A bid \in DOMAIN levels["buy"], ask \in DOMAIN levels["sell"] : bid < ask
    /\ pc' = "idle"
    /\ UNCHANGED <<levels, orderMap, trades, arrived, cancelled>>

(* cancelOrder.  An unknown id changes nothing; a location whose level is   *)
(* gone loses its tracking entry and nothing else.                          *)
CancelOrder(id) ==
    LET loc     == orderMap[id]
        tracked == Untrack(orderMap, id)
        level   == Erased(levels[loc.side][loc.price], loc.vector_index)
    IN  /\ pc = "idle"
        /\ id \in DOMAIN orderMap
        /\ IF loc.price \in DOMAIN levels[loc.side]
           THEN /\ levels' = [levels EXCEPT ![loc.side] = PutLevel(@, loc.price, level)]
                /\ orderMap' = Refreshed(tracked, level, loc.vector_index)
           ELSE /\ orderMap' = tracked
                /\ UNCHANGED levels
        /\ cancelled' = cancelled \cup {id}
        /\ UNCHANGED <<trades, pc, arrived>>

IdsSeen == {arrived[i].OrderId : i \in DOMAIN arrived}

(* The constructor numbers an order; the book then receives it. *)
Submit(id, side, price, qty) ==
    LET order == [OrderId |-> id, quantity |-> Narrowed(qty), side |-> side, price |-> price,
                  seqNo |-> Len(arrived) + 1]
    IN  /\ Len(arrived) < MaxOrders
        /\ IdsUnique => id \notin IdsSeen
        /\ AddOrder(order)
        /\ arrived' = Append(arrived, order)
        /\ UNCHANGED cancelled

Next ==
    \/ \E id \in OrderIds, side \in Side, price \in Prices, qty \in Quantities :
          Submit(id, side, price, qty)
    \/ MatchStep
    \/ MatchDone
    \/ \E id \in OrderIds : CancelOrder(id)

(* The worker thread keeps running the loop it is in. *)
Spec == Init /\ [][Next]_vars /\ WF_vars(MatchStep \/ MatchDone)

-------------------------------------------------------------------------------
(* Properties. *)

Resting == UNION {UNION {ToSet(levels[s][p]) : p \in DOMAIN levels[s]} : s \in Side}

(* The state has the shape of the C++ types; a location always names a side *)
(* and a price, and an index that some level could have.                    *)
TypeOK ==
    /\ DOMAIN levels = Side
    /\ \A s \in Side : /\ DOMAIN levels[s] \subseteq Prices
                       /\ \A p \in DOMAIN levels[s] : levels[s][p] \in Seq(Order)
    /\ DOMAIN orderMap \subseteq OrderIds
    /\ \A id \in DOMAIN orderMap : orderMap[id] \in OrderLocation
    /\ trades \in Seq(TradeEvent)
    /\ pc \in {"idle", "matching"}
    /\ arrived \in Seq(Order)
    /\ cancelled \subseteq OrderIds

(* "Vectors should never be empty if the key exists in the map" (matching): *)
(* fills and cancellations remove the level they drain, so the two front()  *)
(* calls of matching() are always defined.                                  *)
NoEmptyLevel == \A s \in Side : \A p \in DOMAIN levels[s] : levels[s][p] # << >>

(* The book is never left crossed: when the worker thread goes back to the  *)
(* queue, every bid is below every ask, whatever mix of partial fills,      *)
(* multi-level sweeps and cancellations led there.                          *)
NotCrossed ==
    pc = "idle" => \A bid \in DOMAIN levels["buy"], ask \in DOMAIN levels["sell"] : bid < ask

(* Time priority: the vector of a price level holds orders of that side and *)
(* price only, oldest first, so front() is the one to trade next.           *)
LevelsInArrivalOrder ==
    \A s \in Side : \A p \in DOMAIN levels[s] :
        \A i \in 1..Len(levels[s][p]) :
            /\ levels[s][p][i].side = s
            /\ levels[s][p][i].price = p
            /\ \A j \in 1..(i-1) : levels[s][p][j].seqNo < levels[s][p][i].seqNo

(* "Every tracked order must be findable at exactly the position recorded   *)
(* for it" (tests/test_orderbook.cpp): the entry of an id addresses an      *)
(* order that carries that id.                                              *)
TrackedFindable ==
    \A id \in DOMAIN orderMap :
        LET loc == orderMap[id]
        IN  /\ loc.price \in DOMAIN levels[loc.side]
            /\ loc.vector_index \in 1..Len(levels[loc.side][loc.price])
            /\ levels[loc.side][loc.price][loc.vector_index].OrderId = id

(* The converse: every resting order has an entry, and it names the         *)
(* position the order has now -- so every resting order can be cancelled.   *)
RestingTracked ==
    \A s \in Side : \A p \in DOMAIN levels[s] : \A i \in 1..Len(levels[s][p]) :
        LET id == levels[s][p][i].OrderId
        IN  /\ id \in DOMAIN orderMap
            /\ orderMap[id] = [side |-> s, price |-> p, vector_index |-> i]

Filled(id) ==
    LET own == {t \in ToSet(trades) : id \in {t.buy_order_id, t.sell_order_id}}
    IN  MapThenSumSet(LAMBDA t : t.qty, own)

(* Conservation: what the trade events say an order traded and what is left *)
(* of it in the book add up to what was submitted, however many times it    *)
(* was matched, and against quantities that were narrowed to negative ones  *)
(* too.  What is left after a trade is positive; an order that is in        *)
(* neither place was cancelled, with something left or before any trade.    *)
FillsAddUp ==
    \A k \in DOMAIN arrived :
        LET order == arrived[k]
            left  == {r \in Resting : r.seqNo = k}
        IN  IF left = {}
            THEN \/ Filled(order.OrderId) = order.quantity
                 \/ /\ order.OrderId \in cancelled
                    /\ Filled(order.OrderId) < order.quantity \/ Filled(order.OrderId) = 0
            ELSE \A r \in left : /\ r.quantity > 0 \/ r.quantity = order.quantity
                                 /\ Filled(order.OrderId) + r.quantity = order.quantity

(* A stale position "makes a subsequent lookup cancel the wrong order or    *)
(* fall off the end of the level" (OrderBook.h): a cancellation removes the *)
(* order that carries the id and touches no other.                          *)
CancelRemovesOwn ==
    [][\A id \in OrderIds :
          CancelOrder(id) => Resting' = {o \in Resting : o.OrderId # id}]_vars

(* matching() returns: every iteration consumes quantity, so the loop       *)
(* cannot keep the worker thread from the queue forever.                    *)
MatchingTerminates == pc = "matching" ~> pc = "idle"

(* The vectors, the maps and the index together implement the plain         *)
(* price-time-priority book of LimitOrderBook.                              *)
Lob == INSTANCE LimitOrderBook
           WITH Order   <- [OrderId : OrderIds, quantity : {Narrowed(q) : q \in Quantities},
                            side : Side, price : Prices, seqNo : 1..MaxOrders],
                Ids     <- OrderIds,
                resting <- Resting

(* Price-time priority: every step of the book is a step of the abstract    *)
(* one -- the trade chosen is the best bid against the best ask, by price   *)
(* and then by arrival, at the price of the older order.                    *)
PriceTimePriority == Lob!LobSpec
===============================================================================
