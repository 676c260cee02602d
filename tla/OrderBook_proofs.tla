--------------------------- MODULE OrderBook_proofs ---------------------------
(***************************************************************************)
(* Proofs about the order book, for any prices, ids, quantities and number *)
(* of orders: levels, arrival order and index are right, the book is the   *)
(* abstract one with price-time priority, and the fills of every order add *)
(* up with what is left of it (Accounts: a trade adds to both its orders   *)
(* what it takes from them).                                               *)
(***************************************************************************)
EXTENDS OrderBook, TLAPS, SequenceTheorems, FiniteSetTheorems,
        WellFoundedInduction

-------------------------------------------------------------------------------
(* Facts about the operators the book is built from. *)

(* Removing one element of a sequence keeps the ones before it and moves    *)
(* the ones behind it up by one: what vector::erase does in eraseAt.        *)
LEMMA RemoveAtFacts ==
    ASSUME NEW S, NEW q \in Seq(S), NEW k \in 1..Len(q)
    PROVE  /\ RemoveAt(q, k) \in Seq(S)
           /\ Len(RemoveAt(q, k)) = Len(q) - 1
           /\ \A i \in 1..(Len(q) - 1) :
                 RemoveAt(q, k)[i] = IF i < k THEN q[i] ELSE q[i+1]
<1> DEFINE front == SubSeq(q, 1, k-1)
           back  == SubSeq(q, k+1, Len(q))
<1>1. Len(q) \in Nat /\ \A i \in 1..Len(q) : q[i] \in S
  BY LenProperties, ElementOfSeq
<1>2. /\ front \in Seq(S) /\ Len(front) = k - 1
      /\ \A i \in 1..(k-1) : front[i] = q[i]
  <2>1. \A i \in 1..(k-1) : q[i] \in S
    BY <1>1
  <2> QED  BY <1>1, <2>1, SubSeqProperties
<1>3. /\ back \in Seq(S) /\ Len(back) = Len(q) - k
      /\ \A i \in 1..(Len(q) - k) : back[i] = q[k+i]
  <2>1. \A i \in (k+1)..Len(q) : q[i] \in S
    BY <1>1
  <2> QED  BY <1>1, <2>1, SubSeqProperties
<1>4. RemoveAt(q, k) = front \o back
  BY DEF RemoveAt
<1> HIDE DEF front, back
<1>5. /\ front \o back \in Seq(S)
      /\ Len(front \o back) = Len(front) + Len(back)
      /\ \A i \in 1..(Len(front) + Len(back)) :
            (front \o back)[i] = IF i <= Len(front) THEN front[i] ELSE back[i - Len(front)]
  BY <1>2, <1>3, ConcatProperties
<1>6. ASSUME NEW i \in 1..(Len(q) - 1)
      PROVE  RemoveAt(q, k)[i] = IF i < k THEN q[i] ELSE q[i+1]
  <2>1. CASE i < k
    BY <1>1, <1>2, <1>3, <1>4, <1>5, <2>1
  <2>2. CASE i >= k
    <3>1. back[i - (k-1)] = q[k + (i - (k-1))]
      BY <1>1, <1>3, <2>2
    <3> QED  BY <1>1, <1>2, <1>3, <1>4, <1>5, <2>2, <3>1
  <2> QED  BY <1>1, <2>1, <2>2
<1> QED  BY <1>1, <1>2, <1>3, <1>4, <1>5, <1>6

(* A nonempty set of positions has a greatest one, the value eraseAt leaves *)
(* in the map when an id occurs twice behind the erased order.              *)
LEMMA MaxOfPositions ==
    ASSUME NEW n \in Nat, NEW S, S \subseteq 1..n, S # {}
    PROVE  Max(S) \in S
<1> DEFINE R == OpToRel(<, Nat)
           T == {n - x : x \in S}
<1>1. IsWellFoundedOn(R, Nat)
  BY NatLessThanWellFounded
<1>2. T \subseteq Nat /\ T # {}
  <2>1. \A x \in S : n - x \in Nat
    OBVIOUS
  <2> QED  BY <2>1
<1>3. PICK t \in T : \A y \in T : ~(<<y, t>> \in R)
  <2> HIDE DEF R, T
  <2> QED  BY <1>1, <1>2, WFMin
<1>4. PICK m \in S : t = n - m
  OBVIOUS
<1>5. \A x \in S : m >= x
  <2> TAKE x \in S
  <2>1. n - x \in T /\ n - x \in Nat /\ t \in Nat
    BY <1>2
  <2>2. ~(n - x < t)
    BY <1>3, <2>1 DEF OpToRel
  <2> QED  BY <2>2, <1>4
<1> QED  BY <1>5 DEF Max

Replace(book, s, p, level) == [book EXCEPT ![s] = PutLevel(@, p, level)]

(* Storing a level back changes that price of that side, and nothing else.  *)
LEMMA ReplaceFacts ==
    ASSUME NEW book, DOMAIN book = Side, NEW s \in Side, NEW p, NEW level
    PROVE  LET new == Replace(book, s, p, level)
           IN  /\ DOMAIN new = Side
               /\ \A t \in Side \ {s} : new[t] = book[t]
               /\ DOMAIN new[s] = (DOMAIN book[s] \ {p}) \cup
                                  (IF level = << >> THEN {} ELSE {p})
               /\ \A x \in DOMAIN new[s] :
                     new[s][x] = IF x = p THEN level ELSE book[s][x]
  BY DEF Replace, PutLevel

-------------------------------------------------------------------------------
(* The shape of the book: the parts of TypeOK and NoEmptyLevel that speak   *)
(* of the levels, for an arbitrary book.                                    *)

BookShape(book) ==
    /\ DOMAIN book = Side
    /\ \A s \in Side : /\ DOMAIN book[s] \subseteq Prices
                       /\ \A p \in DOMAIN book[s] : /\ book[s][p] \in Seq(Order)
                                                    /\ book[s][p] # << >>

MapShape(map) ==
    /\ DOMAIN map \subseteq OrderIds
    /\ \A id \in DOMAIN map : map[id] \in OrderLocation

(* PutLevel keeps the shape: an emptied level leaves the map (matching).    *)
LEMMA ReplaceShape ==
    ASSUME NEW book, BookShape(book), NEW s \in Side, NEW p \in Prices,
           NEW level \in Seq(Order)
    PROVE  BookShape(Replace(book, s, p, level))
<1> DEFINE new == Replace(book, s, p, level)
<1>1. /\ DOMAIN new = Side
      /\ \A t \in Side \ {s} : new[t] = book[t]
      /\ DOMAIN new[s] = (DOMAIN book[s] \ {p}) \cup (IF level = << >> THEN {} ELSE {p})
      /\ \A x \in DOMAIN new[s] : new[s][x] = IF x = p THEN level ELSE book[s][x]
  BY ReplaceFacts DEF BookShape
<1> HIDE DEF new
<1>2. BookShape(new)
  <2> SUFFICES ASSUME NEW t \in Side, NEW x \in DOMAIN new[t]
               PROVE  x \in Prices /\ new[t][x] \in Seq(Order) /\ new[t][x] # << >>
    BY <1>1 DEF BookShape
  <2>1. CASE t = s /\ x = p
    BY <1>1, <2>1
  <2>2. CASE t = s /\ x # p
    BY <1>1, <2>2 DEF BookShape
  <2>3. CASE t # s
    BY <1>1, <2>3 DEF BookShape
  <2> QED  BY <2>1, <2>2, <2>3
<1> QED  BY <1>2 DEF new

(* eraseAt keeps the entries of the index well formed. *)
LEMMA RefreshedShape ==
    ASSUME NEW map, MapShape(map), NEW level \in Seq(Order), NEW k \in Nat, k > 0
    PROVE  MapShape(Refreshed(map, level, k))
<1> SUFFICES ASSUME NEW id \in DOMAIN map
             PROVE  Refreshed(map, level, k)[id] \in OrderLocation
  BY DEF MapShape, Refreshed
<1> DEFINE at == {i \in k..Len(level) : level[i].OrderId = id}
<1>1. map[id] \in OrderLocation
  BY DEF MapShape
<1>2. CASE at = {}
  BY <1>1, <1>2 DEF Refreshed
<1>3. CASE at # {}
  <2>1. Len(level) \in Nat
    BY LenProperties
  <2>2. at \subseteq 1..Len(level)
    BY <2>1
  <2>3. Max(at) \in at
    BY <1>3, <2>1, <2>2, MaxOfPositions
  <2>4. Max(at) \in Nat \ {0}
    BY <2>1, <2>3
  <2>5. Refreshed(map, level, k)[id] = [map[id] EXCEPT !.vector_index = Max(at)]
    BY <1>3 DEF Refreshed
  <2> HIDE DEF at
  <2> QED  BY <1>1, <2>4, <2>5 DEF OrderLocation
<1> QED  BY <1>2, <1>3

LEMMA UntrackShape ==
    ASSUME NEW map, MapShape(map), NEW id
    PROVE  MapShape(Untrack(map, id))
  BY DEF MapShape, Untrack

(* A quantity is an int, negative or not. *)
LEMMA SizesAreInt == \A x \in Sizes : x \in Int
  BY BookAssumption DEF Sizes, Narrowed

(* What is left of a level after a fill: the front order leaves, or stays   *)
(* with a smaller quantity; the orders behind it are the same.              *)
LEMMA TakeLevelFacts ==
    ASSUME NEW level \in Seq(Order), level # << >>, NEW qty \in Sizes,
           qty <= level[1].quantity
    PROVE  /\ TakeLevel(level, qty) \in Seq(Order)
           /\ level[1].quantity = qty =>
                 /\ TakeLevel(level, qty) = Erased(level, 1)
                 /\ Len(TakeLevel(level, qty)) = Len(level) - 1
                 /\ \A i \in 1..(Len(level) - 1) : TakeLevel(level, qty)[i] = level[i+1]
           /\ level[1].quantity # qty =>
                 /\ Len(TakeLevel(level, qty)) = Len(level)
                 /\ TakeLevel(level, qty)[1] = Reduced(level[1], qty)
                 /\ \A i \in 2..Len(level) : TakeLevel(level, qty)[i] = level[i]
<1>1. Len(level) \in Nat /\ Len(level) >= 1 /\ level[1] \in Order
  BY EmptySeq, LenProperties, ElementOfSeq
<1>2. CASE level[1].quantity = qty
  <2>1. TakeLevel(level, qty) = RemoveAt(level, 1) /\ TakeLevel(level, qty) = Erased(level, 1)
    BY <1>1, <1>2 DEF TakeLevel, Erased
  <2>2. /\ RemoveAt(level, 1) \in Seq(Order)
        /\ Len(RemoveAt(level, 1)) = Len(level) - 1
        /\ \A i \in 1..(Len(level) - 1) :
              RemoveAt(level, 1)[i] = IF i < 1 THEN level[i] ELSE level[i+1]
    <3>1. 1 \in 1..Len(level)
      BY <1>1
    <3> QED  BY <3>1, RemoveAtFacts
  <2> QED  BY <1>1, <1>2, <2>1, <2>2
<1>3. CASE level[1].quantity # qty
  <2> DEFINE front == Reduced(level[1], qty)
  <2>1. front \in Order
    <3>1. level[1].quantity - qty \in Nat
      <4>1. level[1].quantity \in Sizes
        BY <1>1 DEF Order
      <4>2. level[1].quantity \in Int /\ qty \in Int
        BY <4>1, SizesAreInt
      <4> QED  BY <4>2
    <3>2. level[1].quantity - qty \in Sizes
      BY <3>1 DEF Sizes
    <3> QED  BY <1>1, <3>2 DEF Order, Reduced
  <2>2. TakeLevel(level, qty) = [level EXCEPT ![1] = front]
    BY <1>3 DEF TakeLevel
  <2> HIDE DEF front
  <2>3. /\ [level EXCEPT ![1] = front] \in Seq(Order)
        /\ Len([level EXCEPT ![1] = front]) = Len(level)
        /\ \A j \in 1..Len(level) :
              [level EXCEPT ![1] = front][j] = IF j = 1 THEN front ELSE level[j]
    BY <1>1, <2>1, ExceptSeq
  <2>4. /\ TakeLevel(level, qty) \in Seq(Order)
        /\ Len(TakeLevel(level, qty)) = Len(level)
        /\ \A j \in 1..Len(level) : TakeLevel(level, qty)[j] = IF j = 1 THEN front ELSE level[j]
    BY <2>2, <2>3
  <2>5. TakeLevel(level, qty)[1] = front
    BY <1>1, <2>4
  <2>6. \A j \in 2..Len(level) : TakeLevel(level, qty)[j] = level[j]
    BY <1>1, <2>4
  <2> QED  BY <1>3, <2>4, <2>5, <2>6 DEF front
<1> QED  BY <1>2, <1>3

(* Both orders of a trade have at least the traded quantity. *)
LEMMA LeastFacts ==
    ASSUME NEW x \in Sizes, NEW y \in Sizes
    PROVE  Least(x, y) \in Sizes /\ Least(x, y) <= x /\ Least(x, y) <= y
                                 /\ (Least(x, y) = x \/ Least(x, y) = y)
  BY SizesAreInt DEF Least

LEMMA TakeMapShape ==
    ASSUME NEW map, MapShape(map), NEW level \in Seq(Order), level # << >>,
           NEW qty \in Sizes, qty <= level[1].quantity
    PROVE  MapShape(TakeMap(map, level, qty))
<1>1. level[1].quantity = qty => Erased(level, 1) \in Seq(Order)
  BY TakeLevelFacts
<1> QED  BY <1>1, UntrackShape, RefreshedShape DEF TakeMap

-------------------------------------------------------------------------------
(* Type correctness. *)

(* Levels are only stored when they hold an order, so the front() calls of  *)
(* matching() are defined; together with the types this is inductive.       *)
ShapeInv == TypeOK /\ NoEmptyLevel

LEMMA ShapeInvParts ==
    ASSUME ShapeInv
    PROVE  BookShape(levels) /\ MapShape(orderMap)
  BY DEF ShapeInv, TypeOK, NoEmptyLevel, BookShape, MapShape

(* What an iteration of matching() works with. *)
LEMMA FrontFacts ==
    ASSUME BookShape(levels), NEW bid \in Prices, NEW ask \in Prices,
           IsBest("buy", bid), IsBest("sell", ask)
    PROVE  LET buyVec  == levels["buy"][bid]
               sellVec == levels["sell"][ask]
               qty     == Least(buyVec[1].quantity, sellVec[1].quantity)
           IN  /\ bid \in DOMAIN levels["buy"] /\ ask \in DOMAIN levels["sell"]
               /\ buyVec \in Seq(Order) /\ buyVec # << >> /\ buyVec[1] \in Order
               /\ sellVec \in Seq(Order) /\ sellVec # << >> /\ sellVec[1] \in Order
               /\ qty \in Sizes
               /\ qty <= buyVec[1].quantity /\ qty <= sellVec[1].quantity
<1> DEFINE buyVec  == levels["buy"][bid]
           sellVec == levels["sell"][ask]
<1>1. bid \in DOMAIN levels["buy"] /\ ask \in DOMAIN levels["sell"]
  BY DEF IsBest
<1>2. /\ buyVec \in Seq(Order) /\ buyVec # << >>
      /\ sellVec \in Seq(Order) /\ sellVec # << >>
  BY <1>1 DEF BookShape, Side
<1> HIDE DEF buyVec, sellVec
<1>3. 1 \in 1..Len(buyVec) /\ 1 \in 1..Len(sellVec)
  BY <1>2, EmptySeq, LenProperties
<1>4. buyVec[1] \in Order /\ sellVec[1] \in Order
  BY <1>2, <1>3, ElementOfSeq
<1>5. buyVec[1].quantity \in Sizes /\ sellVec[1].quantity \in Sizes
  BY <1>4 DEF Order
<1> QED  BY <1>1, <1>2, <1>4, <1>5, LeastFacts DEF buyVec, sellVec

(* The trade event of an iteration is well formed. *)
LEMMA EventShape ==
    ASSUME NEW buy \in Order, NEW sell \in Order, NEW qty \in Sizes, NEW n \in Nat
    PROVE  [match_id |-> n + 1,
            buy_order_id |-> buy.OrderId, sell_order_id |-> sell.OrderId,
            taker |-> IF buy.seqNo > sell.seqNo THEN buy.seqNo ELSE sell.seqNo,
            price |-> ExecutionPrice(buy, sell), qty |-> qty] \in TradeEvent
  BY DEF Order, TradeEvent, ExecutionPrice

LEMMA ShapeInvInit == Init => ShapeInv
  BY EmptySeq DEF Init, ShapeInv, TypeOK, NoEmptyLevel

LEMMA LevelAtShape ==
    ASSUME BookShape(levels), NEW s \in Side, NEW p
    PROVE  LevelAt(levels[s], p) \in Seq(Order)
  BY EmptySeq DEF LevelAt, BookShape

LEMMA ErasedShape ==
    ASSUME NEW level \in Seq(Order), NEW k
    PROVE  Erased(level, k) \in Seq(Order)
  BY RemoveAtFacts DEF Erased

LEMMA ShapeInvNext == ShapeInv /\ [Next]_vars => ShapeInv'
<1> SUFFICES ASSUME ShapeInv, [Next]_vars
             PROVE  ShapeInv'
  OBVIOUS
<1>0. BookShape(levels) /\ MapShape(orderMap) /\ TypeOK
  BY ShapeInvParts DEF ShapeInv
<1>1. ASSUME BookShape(levels'), MapShape(orderMap'), trades' \in Seq(TradeEvent),
             pc' \in {"idle", "matching"}, arrived' \in Seq(Order),
             cancelled' \subseteq OrderIds
      PROVE  ShapeInv'
  BY <1>1 DEF ShapeInv, TypeOK, NoEmptyLevel, BookShape, MapShape
<1>2. ASSUME NEW id \in OrderIds, NEW side \in Side, NEW price \in Prices,
             NEW qty \in Quantities, Submit(id, side, price, qty)
      PROVE  ShapeInv'
  <2> DEFINE order == [OrderId |-> id, quantity |-> Narrowed(qty), side |-> side, price |-> price,
                       seqNo |-> Len(arrived) + 1]
             level == Append(LevelAt(levels[side], price), order)
             loc   == [side |-> side, price |-> price, vector_index |-> Len(level)]
  <2>1. order \in Order
    BY <1>0, LenProperties, BookAssumption DEF Order, Sizes, TypeOK
  <2>2. /\ levels' = Replace(levels, side, price, level)
        /\ orderMap' = Track(orderMap, id, loc)
        /\ pc' = "matching" /\ trades' = trades
        /\ arrived' = Append(arrived, order) /\ cancelled' = cancelled
    BY <1>2 DEF Submit, AddOrder, Replace
  <2> HIDE DEF order
  <2>3. level \in Seq(Order)
    BY <1>0, <2>1, LevelAtShape, AppendProperties
  <2>4. BookShape(levels')
    BY <1>0, <2>2, <2>3, ReplaceShape
  <2>5. loc \in OrderLocation
    BY <2>3, LenProperties DEF OrderLocation
  <2>6. MapShape(orderMap')
    <3> HIDE DEF loc
    <3> QED  BY <1>0, <2>2, <2>5 DEF MapShape, Track
  <2>7. arrived' \in Seq(Order)
    BY <1>0, <2>1, <2>2, AppendProperties DEF TypeOK
  <2> QED  BY <1>0, <1>1, <2>2, <2>4, <2>6, <2>7 DEF TypeOK
<1>3. CASE MatchStep
  <2>1. PICK bid \in Prices, ask \in Prices : MatchStep!(bid, ask)
    BY <1>3 DEF MatchStep
  <2> DEFINE buyVec  == levels["buy"][bid]
             sellVec == levels["sell"][ask]
             qty     == Least(buyVec[1].quantity, sellVec[1].quantity)
             mid     == Replace(levels, "buy", bid, TakeLevel(buyVec, qty))
  <2>2. /\ buyVec \in Seq(Order) /\ buyVec # << >> /\ buyVec[1] \in Order
        /\ sellVec \in Seq(Order) /\ sellVec # << >> /\ sellVec[1] \in Order
        /\ qty \in Sizes /\ qty <= buyVec[1].quantity /\ qty <= sellVec[1].quantity
    BY <1>0, <2>1, FrontFacts
  <2>3. /\ levels' = Replace(mid, "sell", ask, TakeLevel(sellVec, qty))
        /\ orderMap' = TakeMap(TakeMap(orderMap, buyVec, qty), sellVec, qty)
        /\ UNCHANGED <<pc, arrived, cancelled>>
    BY <2>1 DEF Replace
  <2>4. trades' = Append(trades,
              [match_id |-> Len(trades) + 1,
               buy_order_id |-> buyVec[1].OrderId, sell_order_id |-> sellVec[1].OrderId,
               taker |-> IF buyVec[1].seqNo > sellVec[1].seqNo
                         THEN buyVec[1].seqNo ELSE sellVec[1].seqNo,
               price |-> ExecutionPrice(buyVec[1], sellVec[1]), qty |-> qty])
    BY <2>1
  <2> HIDE DEF buyVec, sellVec, qty
  <2>5. BookShape(mid)
    BY <1>0, <2>2, ReplaceShape, TakeLevelFacts DEF Side
  <2>6. BookShape(levels')
    <3> HIDE DEF mid
    <3> QED  BY <2>2, <2>3, <2>5, ReplaceShape, TakeLevelFacts DEF Side
  <2>7. MapShape(orderMap')
    <3>1. MapShape(TakeMap(orderMap, buyVec, qty))
      BY <1>0, <2>2, TakeMapShape
    <3> QED  BY <2>2, <2>3, <3>1, TakeMapShape
  <2>8. trades' \in Seq(TradeEvent)
    <3>1. trades \in Seq(TradeEvent) /\ Len(trades) \in Nat
      BY <1>0, LenProperties DEF TypeOK
    <3> QED  BY <2>2, <2>4, <3>1, EventShape, AppendProperties
  <2> QED  BY <1>0, <1>1, <2>3, <2>6, <2>7, <2>8 DEF TypeOK
<1>4. CASE MatchDone
  BY <1>0, <1>1, <1>4 DEF MatchDone, TypeOK
<1>5. ASSUME NEW id \in OrderIds, CancelOrder(id)
      PROVE  ShapeInv'
  <2> DEFINE loc   == orderMap[id]
             level == Erased(levels[loc.side][loc.price], loc.vector_index)
  <2>1. /\ id \in DOMAIN orderMap
        /\ pc' = pc /\ trades' = trades /\ arrived' = arrived
        /\ cancelled' \subseteq OrderIds
    BY <1>0, <1>5 DEF CancelOrder, TypeOK
  <2>2. MapShape(Untrack(orderMap, id))
    BY <1>0, UntrackShape
  <2>3. loc.side \in Side /\ loc.price \in Prices /\ loc.vector_index \in Nat \ {0}
    BY <1>0, <2>1 DEF MapShape, OrderLocation
  <2>4. CASE loc.price \in DOMAIN levels[loc.side]
    <3>1. /\ levels' = Replace(levels, loc.side, loc.price, level)
          /\ orderMap' = Refreshed(Untrack(orderMap, id), level, loc.vector_index)
      BY <1>5, <2>4 DEF CancelOrder, Replace
    <3>2. level \in Seq(Order)
      BY <1>0, <2>3, <2>4, ErasedShape DEF BookShape
    <3> HIDE DEF level, loc
    <3>3. BookShape(levels')
      BY <1>0, <2>3, <3>1, <3>2, ReplaceShape
    <3>4. MapShape(orderMap')
      BY <2>2, <2>3, <3>1, <3>2, RefreshedShape
    <3> QED  BY <1>0, <1>1, <2>1, <3>3, <3>4 DEF TypeOK
  <2>5. CASE loc.price \notin DOMAIN levels[loc.side]
    <3>1. levels' = levels /\ orderMap' = Untrack(orderMap, id)
      BY <1>5, <2>5 DEF CancelOrder
    <3> QED  BY <1>0, <1>1, <2>1, <2>2, <3>1 DEF TypeOK
  <2> QED  BY <2>4, <2>5
<1>6. CASE UNCHANGED vars
  BY <1>0, <1>1, <1>6 DEF vars, TypeOK
<1> QED  BY <1>2, <1>3, <1>4, <1>5, <1>6 DEF Next

(* The state always has the shape of the C++ types, also when quantities    *)
(* reach the book negative, narrowed from uint32_t (TCPServer.cpp:289): a   *)
(* quantity is negative only as it was submitted, and a trade can bring     *)
(* none below zero; a location names a side, a price and an index.          *)
THEOREM TypeCorrect == Spec => []TypeOK
<1>1. ShapeInv => TypeOK
  BY DEF ShapeInv
<1> QED  BY <1>1, ShapeInvInit, ShapeInvNext, PTL DEF Spec

(* "Vectors should never be empty if the key exists in the map": matching() *)
(* never meets the empty level its defensive branch is for.                 *)
THEOREM LevelsNeverEmpty == Spec => []NoEmptyLevel
<1>1. ShapeInv => NoEmptyLevel
  BY DEF ShapeInv
<1> QED  BY <1>1, ShapeInvInit, ShapeInvNext, PTL DEF Spec

-------------------------------------------------------------------------------
(* The book is not crossed between operations. *)

(* Erasing can drain a level but never opens a price.                       *)
LEMMA CancelOpensNoPrice ==
    ASSUME ShapeInv, NEW id \in OrderIds, CancelOrder(id)
    PROVE  \A s \in Side : DOMAIN levels'[s] \subseteq DOMAIN levels[s]
<1> DEFINE loc   == orderMap[id]
           level == Erased(levels[loc.side][loc.price], loc.vector_index)
<1>1. DOMAIN levels = Side /\ loc.side \in Side
  BY ShapeInvParts DEF BookShape, MapShape, OrderLocation, CancelOrder
<1>2. CASE loc.price \in DOMAIN levels[loc.side]
  <2>1. levels' = Replace(levels, loc.side, loc.price, level)
    BY <1>2 DEF CancelOrder, Replace
  <2> HIDE DEF level, loc
  <2>2. /\ \A t \in Side \ {loc.side} : levels'[t] = levels[t]
        /\ DOMAIN levels'[loc.side] = (DOMAIN levels[loc.side] \ {loc.price}) \cup
                                      (IF level = << >> THEN {} ELSE {loc.price})
    BY <1>1, <2>1, ReplaceFacts
  <2> QED  BY <1>1, <1>2, <2>2
<1>3. CASE loc.price \notin DOMAIN levels[loc.side]
  BY <1>3 DEF CancelOrder
<1> QED  BY <1>2, <1>3

(* The worker thread never returns to the queue with a bid at or above an   *)
(* ask: the exit condition of the loop establishes it, and a cancellation   *)
(* cannot undo it.                                                          *)
THEOREM NeverCrossed == Spec => []NotCrossed
<1>1. Init => NotCrossed
  BY DEF Init, NotCrossed, Side
<1>2. ShapeInv /\ NotCrossed /\ [Next]_vars => NotCrossed'
  <2> SUFFICES ASSUME ShapeInv, NotCrossed, [Next]_vars
               PROVE  NotCrossed'
    OBVIOUS
  <2>1. ASSUME NEW id \in OrderIds, NEW side \in Side, NEW price \in Prices,
               NEW qty \in Quantities, Submit(id, side, price, qty)
        PROVE  NotCrossed'
    BY <2>1 DEF Submit, AddOrder, NotCrossed
  <2>2. CASE MatchStep
    BY <2>2 DEF MatchStep, NotCrossed
  <2>3. CASE MatchDone
    BY <2>3 DEF MatchDone, NotCrossed
  <2>4. ASSUME NEW id \in OrderIds, CancelOrder(id)
        PROVE  NotCrossed'
    <3>1. \A s \in Side : DOMAIN levels'[s] \subseteq DOMAIN levels[s]
      BY <2>4, CancelOpensNoPrice
    <3>2. pc = "idle"
      BY <2>4 DEF CancelOrder
    <3> QED  BY <3>1, <3>2 DEF NotCrossed, Side
  <2>5. CASE UNCHANGED vars
    BY <2>5 DEF vars, NotCrossed
  <2> QED  BY <2>1, <2>2, <2>3, <2>4, <2>5 DEF Next
<1> QED  BY <1>1, <1>2, ShapeInvInit, ShapeInvNext, PTL DEF Spec

-------------------------------------------------------------------------------
(* Time priority within a level. *)

LEMMA OrderFields ==
    ASSUME NEW o \in Order
    PROVE  /\ o.OrderId \in OrderIds /\ o.quantity \in Int /\ o.side \in Side
           /\ o.price \in Prices /\ o.seqNo \in Nat
  BY SizesAreInt DEF Order

InOrder(s, p, level) ==
    \A i \in 1..Len(level) :
        /\ level[i].side = s
        /\ level[i].price = p
        /\ \A j \in 1..(i-1) : level[j].seqNo < level[i].seqNo

AllArrived(level, n) == \A i \in 1..Len(level) : level[i].seqNo <= n

(* Every level is sorted, and holds only orders that were numbered: a new   *)
(* order is younger than all of them.                                       *)
AgeInv(book, n) ==
    \A s \in Side : \A p \in DOMAIN book[s] :
        InOrder(s, p, book[s][p]) /\ AllArrived(book[s][p], n)

(* Erasing one order keeps the others in their order. *)
LEMMA RemoveAtInOrder ==
    ASSUME NEW level \in Seq(Order), NEW k, NEW s, NEW p, NEW n \in Nat,
           InOrder(s, p, level), AllArrived(level, n)
    PROVE  InOrder(s, p, Erased(level, k)) /\ AllArrived(Erased(level, k), n)
<1>1. CASE k \in 1..Len(level)
  <2> DEFINE new == Erased(level, k)
  <2>1. /\ Len(new) = Len(level) - 1 /\ Len(level) \in Nat
        /\ \A i \in 1..(Len(level) - 1) : new[i] = IF i < k THEN level[i] ELSE level[i+1]
    BY <1>1, RemoveAtFacts, LenProperties DEF Erased
  <2> HIDE DEF new
  <2>2. ASSUME NEW i \in 1..Len(new)
        PROVE  \E x \in 1..Len(level) : /\ new[i] = level[x]
                                        /\ x = IF i < k THEN i ELSE i + 1
    BY <1>1, <2>1
  <2>3. \A i \in 1..Len(level) : level[i].seqNo \in Nat
    BY ElementOfSeq, OrderFields
  <2>4. ASSUME NEW i \in 1..Len(new), NEW j \in 1..(i-1)
        PROVE  new[j].seqNo < new[i].seqNo
    <3>1. j \in 1..Len(new)
      BY <2>1
    <3>2. PICK x \in 1..Len(level) : new[i] = level[x] /\ x = IF i < k THEN i ELSE i + 1
      BY <2>2
    <3>3. PICK y \in 1..Len(level) : new[j] = level[y] /\ y = IF j < k THEN j ELSE j + 1
      BY <2>2, <3>1
    <3>4. y \in 1..(x-1)
      BY <1>1, <2>1, <3>2, <3>3
    <3> QED  BY <3>2, <3>3, <3>4 DEF InOrder
  <2>5. \A i \in 1..Len(new) : new[i].side = s /\ new[i].price = p /\ new[i].seqNo <= n
    BY <2>2 DEF InOrder, AllArrived
  <2> QED  BY <2>4, <2>5 DEF InOrder, AllArrived, new
<1>2. CASE k \notin 1..Len(level)
  BY <1>2 DEF Erased
<1> QED  BY <1>1, <1>2

(* So does a fill: a partly filled order keeps its number and its place. *)
LEMMA TakeLevelInOrder ==
    ASSUME NEW level \in Seq(Order), level # << >>, NEW qty \in Sizes,
           qty <= level[1].quantity, NEW s, NEW p, NEW n \in Nat,
           InOrder(s, p, level), AllArrived(level, n)
    PROVE  InOrder(s, p, TakeLevel(level, qty)) /\ AllArrived(TakeLevel(level, qty), n)
<1>1. CASE level[1].quantity = qty
  BY <1>1, RemoveAtInOrder DEF TakeLevel
<1>2. CASE level[1].quantity # qty
  <2> DEFINE new == TakeLevel(level, qty)
  <2>1. /\ Len(new) = Len(level) /\ Len(level) \in Nat /\ Len(level) >= 1
        /\ new[1] = Reduced(level[1], qty)
        /\ \A i \in 2..Len(level) : new[i] = level[i]
    BY <1>2, TakeLevelFacts, LenProperties, EmptySeq
  <2>2. level[1] \in Order
    BY <2>1, ElementOfSeq
  <2>3. /\ new[1].side = level[1].side /\ new[1].price = level[1].price
        /\ new[1].seqNo = level[1].seqNo
    BY <2>1, <2>2 DEF Reduced, Order
  <2> HIDE DEF new
  <2>4. \A i \in 1..Len(level) : /\ new[i].side = level[i].side
                                 /\ new[i].price = level[i].price
                                 /\ new[i].seqNo = level[i].seqNo
    <3> TAKE i \in 1..Len(level)
    <3>1. CASE i = 1
      BY <2>3, <3>1
    <3>2. CASE i \in 2..Len(level)
      BY <2>1, <3>2
    <3> QED  BY <2>1, <3>1, <3>2
  <2>5. \A i \in 1..Len(level) : \A j \in 1..(i-1) : j \in 1..Len(level)
    BY <2>1
  <2> QED  BY <2>1, <2>4, <2>5 DEF InOrder, AllArrived, new
<1> QED  BY <1>1, <1>2

(* A new order goes to the back, and is the youngest. *)
LEMMA AppendInOrder ==
    ASSUME NEW level \in Seq(Order), NEW s, NEW p, NEW n \in Nat,
           InOrder(s, p, level), AllArrived(level, n),
           NEW o \in Order, o.side = s, o.price = p, o.seqNo = n + 1
    PROVE  InOrder(s, p, Append(level, o)) /\ AllArrived(Append(level, o), n + 1)
<1> DEFINE new == Append(level, o)
<1>1. /\ Len(new) = Len(level) + 1 /\ Len(level) \in Nat
      /\ \A i \in 1..Len(level) : new[i] = level[i]
      /\ new[Len(level) + 1] = o
  BY AppendProperties, LenProperties
<1>2. \A i \in 1..Len(level) : level[i].seqNo \in Nat
  BY ElementOfSeq, OrderFields
<1> HIDE DEF new
<1>3. ASSUME NEW i \in 1..Len(new), NEW j \in 1..(i-1)
      PROVE  new[j].seqNo < new[i].seqNo
  <2>1. CASE i = Len(new)
    <3>1. j \in 1..Len(level) /\ new[i] = o
      BY <1>1, <2>1
    <3>2. new[j].seqNo <= n /\ new[j].seqNo \in Nat
      BY <1>1, <1>2, <3>1 DEF AllArrived
    <3> QED  BY <3>1, <3>2
  <2>2. CASE i # Len(new)
    <3>1. i \in 1..Len(level) /\ j \in 1..Len(level)
      BY <1>1, <2>2
    <3> QED  BY <1>1, <3>1 DEF InOrder
  <2> QED  BY <2>1, <2>2
<1>4. ASSUME NEW i \in 1..Len(new)
      PROVE  new[i].side = s /\ new[i].price = p /\ new[i].seqNo <= n + 1
  <2>1. CASE i = Len(new)
    BY <1>1, <2>1
  <2>2. CASE i # Len(new)
    <3>1. i \in 1..Len(level)
      BY <1>1, <2>2
    <3> QED  BY <1>1, <1>2, <3>1 DEF InOrder, AllArrived
  <2> QED  BY <2>1, <2>2
<1> QED  BY <1>3, <1>4 DEF InOrder, AllArrived, new

(* Putting an ordered level back keeps every level ordered. *)
LEMMA ReplaceAge ==
    ASSUME NEW book, DOMAIN book = Side, NEW n, AgeInv(book, n),
           NEW s \in Side, NEW p, NEW level, InOrder(s, p, level), AllArrived(level, n)
    PROVE  AgeInv(Replace(book, s, p, level), n)
<1> DEFINE new == Replace(book, s, p, level)
<1>1. /\ \A t \in Side \ {s} : new[t] = book[t]
      /\ DOMAIN new[s] \subseteq DOMAIN book[s] \cup {p}
      /\ \A x \in DOMAIN new[s] : new[s][x] = IF x = p THEN level ELSE book[s][x]
  BY ReplaceFacts
<1> HIDE DEF new
<1>2. AgeInv(new, n)
  <2> SUFFICES ASSUME NEW t \in Side, NEW x \in DOMAIN new[t]
               PROVE  InOrder(t, x, new[t][x]) /\ AllArrived(new[t][x], n)
    BY DEF AgeInv
  <2>1. CASE t = s /\ x = p
    BY <1>1, <2>1
  <2>2. CASE t = s /\ x # p
    BY <1>1, <2>2 DEF AgeInv
  <2>3. CASE t # s
    BY <1>1, <2>3 DEF AgeInv
  <2> QED  BY <2>1, <2>2, <2>3
<1> QED  BY <1>2 DEF new

(* An order that arrived earlier has also arrived by now. *)
LEMMA AgeGrows ==
    ASSUME NEW book, BookShape(book), NEW n \in Nat, AgeInv(book, n)
    PROVE  AgeInv(book, n + 1)
<1> SUFFICES ASSUME NEW s \in Side, NEW p \in DOMAIN book[s]
             PROVE  AllArrived(book[s][p], n + 1)
  BY DEF AgeInv
<1>1. AllArrived(book[s][p], n) /\ book[s][p] \in Seq(Order)
  BY DEF AgeInv, BookShape
<1>2. \A i \in 1..Len(book[s][p]) : book[s][p][i].seqNo \in Nat
  BY <1>1, ElementOfSeq, OrderFields
<1> QED  BY <1>1, <1>2 DEF AllArrived

AgeOfLevels == AgeInv(levels, Len(arrived))

LEMMA AgeInit == Init => AgeOfLevels
  BY DEF Init, AgeOfLevels, AgeInv

LEMMA AgeNext == ShapeInv /\ AgeOfLevels /\ [Next]_vars => AgeOfLevels'
<1> SUFFICES ASSUME ShapeInv, AgeOfLevels, [Next]_vars
             PROVE  AgeOfLevels'
  OBVIOUS
<1> DEFINE n == Len(arrived)
<1>0. /\ BookShape(levels) /\ MapShape(orderMap) /\ DOMAIN levels = Side
      /\ n \in Nat /\ AgeInv(levels, n) /\ arrived \in Seq(Order)
  BY ShapeInvParts, LenProperties DEF BookShape, ShapeInv, TypeOK, AgeOfLevels
<1>1. ASSUME NEW id \in OrderIds, NEW side \in Side, NEW price \in Prices,
             NEW qty \in Quantities, Submit(id, side, price, qty)
      PROVE  AgeOfLevels'
  <2> DEFINE order == [OrderId |-> id, quantity |-> Narrowed(qty), side |-> side, price |-> price,
                       seqNo |-> n + 1]
             old   == LevelAt(levels[side], price)
             level == Append(old, order)
  <2>1. /\ order \in Order /\ order.side = side /\ order.price = price
        /\ order.seqNo = n + 1
    BY <1>0, BookAssumption DEF Order, Sizes
  <2>2. levels' = Replace(levels, side, price, level) /\ arrived' = Append(arrived, order)
    BY <1>1 DEF Submit, AddOrder, Replace
  <2>3. InOrder(side, price, old) /\ AllArrived(old, n) /\ old \in Seq(Order)
    BY <1>0, LevelAtShape DEF LevelAt, AgeInv, InOrder, AllArrived
  <2> HIDE DEF order, old, n
  <2>4. InOrder(side, price, level) /\ AllArrived(level, n + 1)
    BY <1>0, <2>1, <2>3, AppendInOrder
  <2>5. AgeInv(levels, n + 1)
    BY <1>0, AgeGrows
  <2> HIDE DEF level
  <2>6. AgeInv(levels', n + 1)
    BY <1>0, <2>2, <2>4, <2>5, ReplaceAge
  <2>7. Len(arrived') = n + 1
    BY <1>0, <2>1, <2>2, AppendProperties DEF n
  <2> QED  BY <2>6, <2>7 DEF AgeOfLevels
<1>2. CASE MatchStep
  <2>1. PICK bid \in Prices, ask \in Prices : MatchStep!(bid, ask)
    BY <1>2 DEF MatchStep
  <2> DEFINE buyVec  == levels["buy"][bid]
             sellVec == levels["sell"][ask]
             qty     == Least(buyVec[1].quantity, sellVec[1].quantity)
             bought  == TakeLevel(buyVec, qty)
             sold    == TakeLevel(sellVec, qty)
             mid     == Replace(levels, "buy", bid, bought)
  <2>2. /\ buyVec \in Seq(Order) /\ buyVec # << >> /\ buyVec[1] \in Order
        /\ sellVec \in Seq(Order) /\ sellVec # << >> /\ sellVec[1] \in Order
        /\ qty \in Sizes /\ qty <= buyVec[1].quantity /\ qty <= sellVec[1].quantity
        /\ bid \in DOMAIN levels["buy"] /\ ask \in DOMAIN levels["sell"]
    BY <1>0, <2>1, FrontFacts
  <2>3. levels' = Replace(mid, "sell", ask, sold) /\ arrived' = arrived
    BY <2>1 DEF Replace
  <2>4. /\ InOrder("buy", bid, buyVec) /\ AllArrived(buyVec, n)
        /\ InOrder("sell", ask, sellVec) /\ AllArrived(sellVec, n)
    BY <1>0, <2>2 DEF AgeInv, Side
  <2> HIDE DEF buyVec, sellVec, qty, n
  <2>5. /\ InOrder("buy", bid, bought) /\ AllArrived(bought, n)
        /\ InOrder("sell", ask, sold) /\ AllArrived(sold, n)
    BY <1>0, <2>2, <2>4, TakeLevelInOrder
  <2> HIDE DEF bought, sold
  <2>6. AgeInv(mid, n)
    BY <1>0, <2>5, ReplaceAge DEF Side
  <2>7. DOMAIN mid = Side
    BY <1>0, ReplaceFacts DEF Side
  <2> HIDE DEF mid
  <2>8. AgeInv(levels', n)
    BY <2>3, <2>5, <2>6, <2>7, ReplaceAge DEF Side
  <2> QED  BY <2>3, <2>8 DEF AgeOfLevels, n
<1>3. CASE MatchDone
  BY <1>3 DEF MatchDone, AgeOfLevels
<1>4. ASSUME NEW id \in OrderIds, CancelOrder(id)
      PROVE  AgeOfLevels'
  <2> DEFINE loc   == orderMap[id]
             old   == levels[loc.side][loc.price]
             level == Erased(old, loc.vector_index)
  <2>1. loc.side \in Side /\ arrived' = arrived
    BY <1>0, <1>4 DEF MapShape, OrderLocation, CancelOrder
  <2>2. CASE loc.price \in DOMAIN levels[loc.side]
    <3>1. levels' = Replace(levels, loc.side, loc.price, level)
      BY <1>4, <2>2 DEF CancelOrder, Replace
    <3>2. old \in Seq(Order) /\ InOrder(loc.side, loc.price, old) /\ AllArrived(old, n)
      BY <1>0, <2>1, <2>2 DEF BookShape, AgeInv
    <3> HIDE DEF old, loc, n
    <3>3. InOrder(loc.side, loc.price, level) /\ AllArrived(level, n)
      BY <1>0, <3>2, RemoveAtInOrder
    <3> HIDE DEF level
    <3>4. AgeInv(levels', n)
      BY <1>0, <2>1, <3>1, <3>3, ReplaceAge
    <3> QED  BY <2>1, <3>4 DEF AgeOfLevels, n
  <2>3. CASE loc.price \notin DOMAIN levels[loc.side]
    BY <1>4, <2>3 DEF CancelOrder, AgeOfLevels
  <2> QED  BY <2>2, <2>3
<1>5. CASE UNCHANGED vars
  BY <1>5 DEF vars, AgeOfLevels
<1> QED  BY <1>1, <1>2, <1>3, <1>4, <1>5 DEF Next

(* Time priority: front() of a level is its oldest order, always. *)
THEOREM ArrivalOrderKept == Spec => []LevelsInArrivalOrder
<1>1. AgeOfLevels => LevelsInArrivalOrder
  BY DEF AgeOfLevels, AgeInv, InOrder, LevelsInArrivalOrder
<1> QED  BY <1>1, ShapeInvInit, ShapeInvNext, AgeInit, AgeNext, PTL DEF Spec

-------------------------------------------------------------------------------
(* The index, when no id is used twice. *)

At(s, p, i) == [side |-> s, price |-> p, vector_index |-> i]

(* TrackedFindable and RestingTracked, for an arbitrary book and map.       *)
Located(book, map) ==
    \A id \in DOMAIN map :
        \E s \in Side : \E p \in DOMAIN book[s] : \E i \in 1..Len(book[s][p]) :
            map[id] = At(s, p, i) /\ book[s][p][i].OrderId = id

Placed(book, map) ==
    \A s \in Side : \A p \in DOMAIN book[s] : \A i \in 1..Len(book[s][p]) :
        /\ book[s][p][i].OrderId \in DOMAIN map
        /\ map[book[s][p][i].OrderId] = At(s, p, i)

LEMMA AtInjective ==
    ASSUME NEW s, NEW p, NEW i, NEW t, NEW x, NEW j, At(s, p, i) = At(t, x, j)
    PROVE  s = t /\ p = x /\ i = j
  BY DEF At

(* eraseAt after the entry of the erased order is gone: the positions of    *)
(* the orders behind it follow, and no other entry is touched.              *)
LEMMA EraseKeepsIndex ==
    ASSUME NEW book, BookShape(book), NEW map, Located(book, map), Placed(book, map),
           NEW s \in Side, NEW p \in DOMAIN book[s], NEW k \in 1..Len(book[s][p])
    PROVE  LET level == Erased(book[s][p], k)
               new   == Replace(book, s, p, level)
               map2  == Refreshed(Untrack(map, book[s][p][k].OrderId), level, k)
           IN  Located(new, map2) /\ Placed(new, map2)
<1> DEFINE old   == book[s][p]
           gone  == old[k].OrderId
           level == Erased(old, k)
           new   == Replace(book, s, p, level)
           map2  == Refreshed(Untrack(map, gone), level, k)
           moved(id) == {i \in k..Len(level) : level[i].OrderId = id}
<1>1. /\ old \in Seq(Order) /\ Len(old) \in Nat /\ k \in 1..Len(old)
      /\ Len(level) = Len(old) - 1
      /\ \A i \in 1..Len(level) : level[i] = IF i < k THEN old[i] ELSE old[i+1]
      /\ level = << >> <=> Len(level) = 0
  <2>1. old \in Seq(Order) /\ Len(old) \in Nat
    BY LenProperties DEF BookShape
  <2>2. level = RemoveAt(old, k)
    BY DEF Erased
  <2>3. level \in Seq(Order) /\ Len(level) = Len(old) - 1
        /\ \A i \in 1..(Len(old) - 1) : level[i] = IF i < k THEN old[i] ELSE old[i+1]
    BY <2>1, <2>2, RemoveAtFacts
  <2>4. level = << >> <=> Len(level) = 0
    BY <2>3, EmptySeq
  <2> QED  BY <2>1, <2>3, <2>4
<1>2. /\ DOMAIN new = Side /\ \A t \in Side \ {s} : new[t] = book[t]
      /\ DOMAIN new[s] = (DOMAIN book[s] \ {p}) \cup (IF level = << >> THEN {} ELSE {p})
      /\ \A x \in DOMAIN new[s] : new[s][x] = IF x = p THEN level ELSE book[s][x]
  BY ReplaceFacts DEF BookShape
<1>3. /\ DOMAIN map2 = DOMAIN map \ {gone}
      /\ \A id \in DOMAIN map2 :
            map2[id] = IF moved(id) = {} THEN map[id]
                       ELSE [map[id] EXCEPT !.vector_index = Max(moved(id))]
  BY DEF Refreshed, Untrack
<1>4. \A i \in 1..Len(old) : old[i].OrderId \in DOMAIN map /\ map[old[i].OrderId] = At(s, p, i)
  BY DEF Placed
<1>5. \A i \in 1..Len(old), j \in 1..Len(old) : old[i].OrderId = old[j].OrderId => i = j
  BY <1>4, AtInjective
<1> HIDE DEF old, gone, level, new, map2
(* An id found behind the erased order belongs to the order just behind it. *)
<1>6. ASSUME NEW id, NEW i \in moved(id)
      PROVE  i + 1 \in 1..Len(old) /\ old[i+1].OrderId = id /\ i + 1 > k
  BY <1>1
<1>7. ASSUME NEW j \in 1..Len(old), j > k
      PROVE  /\ j - 1 \in 1..Len(level) /\ level[j-1] = old[j]
             /\ old[j].OrderId \in DOMAIN map2
             /\ map2[old[j].OrderId] = At(s, p, j-1)
  <2> DEFINE id == old[j].OrderId
  <2>1. j - 1 \in 1..Len(level) /\ level[j-1] = old[j] /\ j - 1 \in k..Len(level)
    BY <1>1, <1>7
  <2>2. id \in DOMAIN map2 /\ map[id] = At(s, p, j)
    BY <1>1, <1>3, <1>4, <1>5, <1>7 DEF gone
  <2>3. moved(id) = {j - 1}
    <3>1. \A i \in moved(id) : i = j - 1
      <4> TAKE i \in moved(id)
      <4>1. i + 1 \in 1..Len(old) /\ old[i+1].OrderId = id
        BY <1>6
      <4>2. i + 1 = j
        BY <1>5, <4>1
      <4> QED  BY <1>1, <4>2
    <3>2. j - 1 \in moved(id)
      BY <2>1
    <3> QED  BY <3>1, <3>2
  <2>4. Max(moved(id)) = j - 1
    BY <2>1, <2>3 DEF Max
  <2>5. map2[id] = [map[id] EXCEPT !.vector_index = j - 1]
    BY <1>3, <2>2, <2>3, <2>4
  <2> QED  BY <2>1, <2>2, <2>5 DEF At
<1>8. ASSUME NEW j \in 1..Len(old), j < k
      PROVE  /\ j \in 1..Len(level) /\ level[j] = old[j]
             /\ old[j].OrderId \in DOMAIN map2
             /\ map2[old[j].OrderId] = At(s, p, j)
  <2> DEFINE id == old[j].OrderId
  <2>1. j \in 1..Len(level) /\ level[j] = old[j]
    BY <1>1, <1>8
  <2>2. id \in DOMAIN map2 /\ map[id] = At(s, p, j)
    BY <1>1, <1>3, <1>4, <1>5, <1>8 DEF gone
  <2>3. moved(id) = {}
    <3> SUFFICES ASSUME NEW i \in moved(id)
                 PROVE  FALSE
      OBVIOUS
    <3>1. i + 1 \in 1..Len(old) /\ old[i+1].OrderId = id /\ i + 1 > k
      BY <1>6
    <3> QED  BY <1>1, <1>5, <1>8, <3>1
  <2> QED  BY <1>3, <2>1, <2>2, <2>3
(* Orders of other levels are not affected. *)
<1>9. ASSUME NEW t \in Side, NEW x \in DOMAIN book[t], NEW i \in 1..Len(book[t][x]),
             t # s \/ x # p
      PROVE  /\ x \in DOMAIN new[t] /\ new[t][x] = book[t][x]
             /\ book[t][x][i].OrderId \in DOMAIN map2
             /\ map2[book[t][x][i].OrderId] = At(t, x, i)
  <2> DEFINE id == book[t][x][i].OrderId
  <2>1. id \in DOMAIN map /\ map[id] = At(t, x, i)
    BY DEF Placed
  <2>2. \A j \in 1..Len(old) : old[j].OrderId # id
    BY <1>4, <1>9, <2>1, AtInjective
  <2>3. id \in DOMAIN map2
    BY <1>1, <1>3, <2>1, <2>2 DEF gone
  <2>4. moved(id) = {}
    BY <1>6, <2>2
  <2>5. map2[id] = At(t, x, i)
    BY <1>3, <2>1, <2>3, <2>4
  <2>6. x \in DOMAIN new[t] /\ new[t][x] = book[t][x]
    BY <1>2, <1>9
  <2> QED  BY <2>3, <2>5, <2>6
<1>10. Placed(new, map2)
  <2> SUFFICES ASSUME NEW t \in Side, NEW x \in DOMAIN new[t], NEW i \in 1..Len(new[t][x])
               PROVE  /\ new[t][x][i].OrderId \in DOMAIN map2
                      /\ map2[new[t][x][i].OrderId] = At(t, x, i)
    BY DEF Placed
  <2>1. CASE t = s /\ x = p
    <3>1. new[t][x] = level
      BY <1>2, <2>1
    <3>2. CASE i < k
      BY <1>1, <1>8, <2>1, <3>1, <3>2
    <3>3. CASE i >= k
      <4>1. i + 1 \in 1..Len(old) /\ i + 1 > k /\ (i + 1) - 1 = i
        BY <1>1, <3>1, <3>3
      <4> QED  BY <1>7, <2>1, <3>1, <4>1
    <3> QED  BY <1>1, <3>1, <3>2, <3>3
  <2>2. CASE t # s \/ x # p
    <3>1. x \in DOMAIN book[t] /\ new[t][x] = book[t][x]
      BY <1>2, <2>2
    <3> QED  BY <1>9, <2>2, <3>1
  <2> QED  BY <2>1, <2>2
<1>11. Located(new, map2)
  <2> SUFFICES ASSUME NEW id \in DOMAIN map2
               PROVE  \E t \in Side : \E x \in DOMAIN new[t] : \E i \in 1..Len(new[t][x]) :
                         map2[id] = At(t, x, i) /\ new[t][x][i].OrderId = id
    BY DEF Located
  <2>1. id \in DOMAIN map /\ id # gone
    BY <1>3
  <2>2. PICK t \in Side : \E x \in DOMAIN book[t] : \E i \in 1..Len(book[t][x]) :
           map[id] = At(t, x, i) /\ book[t][x][i].OrderId = id
    BY <2>1 DEF Located
  <2>a. PICK x \in DOMAIN book[t] : \E i \in 1..Len(book[t][x]) : book[t][x][i].OrderId = id
    BY <2>2
  <2>3. PICK i \in 1..Len(book[t][x]) : book[t][x][i].OrderId = id
    BY <2>a
  <2>4. CASE t = s /\ x = p
    <3>1. i \in 1..Len(old) /\ old[i].OrderId = id /\ i # k
      BY <2>1, <2>3, <2>4 DEF old, gone
    <3>2. Len(level) > 0
      BY <1>1, <3>1
    <3>3. p \in DOMAIN new[s] /\ new[s][p] = level
      BY <1>1, <1>2, <3>2
    <3>4. CASE i < k
      BY <1>8, <3>1, <3>3, <3>4
    <3>5. CASE i > k
      BY <1>7, <3>1, <3>3, <3>5
    <3> QED  BY <1>1, <3>1, <3>4, <3>5
  <2>5. CASE t # s \/ x # p
    BY <1>9, <2>3, <2>5
  <2> QED  BY <2>4, <2>5
<1> QED  BY <1>10, <1>11 DEF old, gone, level, new, map2

(* A partial fill moves nobody: the index stays right as it is. *)
LEMMA SameIdsKeepIndex ==
    ASSUME NEW book, BookShape(book), NEW map, Located(book, map), Placed(book, map),
           NEW s \in Side, NEW p \in DOMAIN book[s], NEW level, level # << >>,
           Len(level) = Len(book[s][p]),
           \A i \in 1..Len(level) : level[i].OrderId = book[s][p][i].OrderId
    PROVE  LET new == Replace(book, s, p, level)
           IN  Located(new, map) /\ Placed(new, map)
<1> DEFINE new == Replace(book, s, p, level)
<1>0. /\ DOMAIN new = Side /\ \A t \in Side \ {s} : new[t] = book[t]
      /\ DOMAIN new[s] = (DOMAIN book[s] \ {p}) \cup {p}
      /\ \A x \in DOMAIN new[s] : new[s][x] = IF x = p THEN level ELSE book[s][x]
  BY ReplaceFacts DEF BookShape
<1>1. DOMAIN new[s] = DOMAIN book[s]
  BY <1>0
<1> HIDE DEF new
<1>2. ASSUME NEW t \in Side
      PROVE  DOMAIN new[t] = DOMAIN book[t]
  BY <1>0, <1>1
<1>3. ASSUME NEW t \in Side, NEW x \in DOMAIN book[t]
      PROVE  /\ Len(new[t][x]) = Len(book[t][x])
             /\ \A i \in 1..Len(book[t][x]) : new[t][x][i].OrderId = book[t][x][i].OrderId
  BY <1>0, <1>1
<1>4. Located(new, map)
  <2> SUFFICES ASSUME NEW id \in DOMAIN map
               PROVE  \E t \in Side : \E x \in DOMAIN new[t] : \E i \in 1..Len(new[t][x]) :
                          map[id] = At(t, x, i) /\ new[t][x][i].OrderId = id
    BY DEF Located
  <2>1. PICK t \in Side : \E x \in DOMAIN book[t] : \E i \in 1..Len(book[t][x]) :
            map[id] = At(t, x, i) /\ book[t][x][i].OrderId = id
    BY DEF Located
  <2>2. PICK x \in DOMAIN book[t] : \E i \in 1..Len(book[t][x]) :
            map[id] = At(t, x, i) /\ book[t][x][i].OrderId = id
    BY <2>1
  <2>3. x \in DOMAIN new[t]
    BY <1>2
  <2>4. Len(new[t][x]) = Len(book[t][x])
    BY <1>3
  <2>5. \A i \in 1..Len(book[t][x]) : new[t][x][i].OrderId = book[t][x][i].OrderId
    BY <1>3
  <2> QED  BY <2>2, <2>3, <2>4, <2>5
<1>5. Placed(new, map)
  BY <1>2, <1>3 DEF Placed
<1> QED  BY <1>4, <1>5 DEF new

(* One side of a fill keeps the index right. *)
LEMMA TakeKeepsIndex ==
    ASSUME NEW book, BookShape(book), NEW map, Located(book, map), Placed(book, map),
           NEW s \in Side, NEW p \in DOMAIN book[s], NEW qty \in Sizes,
           qty <= book[s][p][1].quantity
    PROVE  LET new  == Replace(book, s, p, TakeLevel(book[s][p], qty))
               map2 == TakeMap(map, book[s][p], qty)
           IN  Located(new, map2) /\ Placed(new, map2)
<1> DEFINE old   == book[s][p]
           level == TakeLevel(old, qty)
<1>1. old \in Seq(Order) /\ old # << >>
  BY DEF BookShape
<1>2. Len(old) \in Nat /\ 1 \in 1..Len(old) /\ old[1] \in Order
  <2> HIDE DEF old
  <2>1. Len(old) \in Nat /\ 1 \in 1..Len(old)
    BY <1>1, EmptySeq, LenProperties
  <2> QED  BY <1>1, <2>1, ElementOfSeq
<1>3. CASE old[1].quantity = qty
  <2>1. /\ level = Erased(old, 1)
        /\ TakeMap(map, old, qty) = Refreshed(Untrack(map, old[1].OrderId), level, 1)
    BY <1>3 DEF TakeLevel, TakeMap
  <2> QED  BY <1>2, <2>1, EraseKeepsIndex
<1>4. CASE old[1].quantity # qty
  <2>1. TakeMap(map, old, qty) = map
    BY <1>4 DEF TakeMap
  <2>2. /\ level \in Seq(Order) /\ Len(level) = Len(old) /\ level[1] = Reduced(old[1], qty)
        /\ \A i \in 2..Len(old) : level[i] = old[i]
    <3> HIDE DEF old
    <3> QED  BY <1>1, <1>4, TakeLevelFacts DEF old
  <2>3. level[1].OrderId = old[1].OrderId
    BY <1>2, <2>2 DEF Reduced, Order
  <2> HIDE DEF level, old
  <2>4. \A i \in 1..Len(level) : level[i].OrderId = old[i].OrderId
    <3> TAKE i \in 1..Len(level)
    <3>1. CASE i = 1
      BY <2>3, <3>1
    <3>2. CASE i \in 2..Len(old)
      BY <2>2, <3>2
    <3> QED  BY <1>2, <2>2, <3>1, <3>2
  <2>5. level # << >>
    BY <1>2, <2>2, EmptySeq
  <2> QED  BY <2>1, <2>2, <2>4, <2>5, SameIdsKeepIndex DEF level, old
<1> QED  BY <1>3, <1>4

(* addOrder under a new id records where the order is. *)
LEMMA AppendKeepsIndex ==
    ASSUME NEW book, BookShape(book), NEW map, Located(book, map), Placed(book, map),
           NEW o \in Order, o.OrderId \notin DOMAIN map
    PROVE  LET level == Append(LevelAt(book[o.side], o.price), o)
               new   == Replace(book, o.side, o.price, level)
               map2  == Track(map, o.OrderId, At(o.side, o.price, Len(level)))
           IN  Located(new, map2) /\ Placed(new, map2)
<1> DEFINE s     == o.side
           p     == o.price
           old   == LevelAt(book[s], p)
           level == Append(old, o)
           new   == Replace(book, s, p, level)
           map2  == Track(map, o.OrderId, At(s, p, Len(level)))
<1>0. s \in Side
  BY OrderFields
<1>1. /\ Len(old) \in Nat /\ Len(level) = Len(old) + 1 /\ level # << >>
      /\ \A i \in 1..Len(old) : level[i] = old[i]
      /\ level[Len(level)] = o
  <2>1. old \in Seq(Order)
    BY <1>0, EmptySeq DEF LevelAt, BookShape
  <2> HIDE DEF old
  <2> QED  BY <2>1, AppendProperties, LenProperties
<1>2. /\ DOMAIN new = Side /\ \A t \in Side \ {s} : new[t] = book[t]
      /\ DOMAIN new[s] = DOMAIN book[s] \cup {p}
      /\ \A x \in DOMAIN new[s] : new[s][x] = IF x = p THEN level ELSE book[s][x]
  <2> HIDE DEF level, s
  <2> QED  BY <1>0, <1>1, ReplaceFacts DEF BookShape
<1>3. /\ DOMAIN map2 = DOMAIN map \cup {o.OrderId}
      /\ map2[o.OrderId] = At(s, p, Len(level))
      /\ \A id \in DOMAIN map : map2[id] = map[id]
  BY DEF Track
<1>4. p \in DOMAIN book[s] => old = book[s][p]
  BY DEF LevelAt
<1>5. p \notin DOMAIN book[s] => Len(old) = 0
  BY EmptySeq DEF LevelAt
<1> HIDE DEF s, p, old, level, new, map2
(* Where an order was, it still is. *)
<1>6. ASSUME NEW t \in Side, NEW x \in DOMAIN book[t], NEW i \in 1..Len(book[t][x])
      PROVE  /\ x \in DOMAIN new[t] /\ i \in 1..Len(new[t][x])
             /\ new[t][x][i] = book[t][x][i]
  <2>1. CASE t = s /\ x = p
    BY <1>1, <1>2, <1>4, <2>1
  <2>2. CASE t # s \/ x # p
    BY <1>2, <2>2
  <2> QED  BY <2>1, <2>2
<1>7. Located(new, map2)
  <2> SUFFICES ASSUME NEW id \in DOMAIN map2
               PROVE  \E t \in Side : \E x \in DOMAIN new[t] : \E i \in 1..Len(new[t][x]) :
                         map2[id] = At(t, x, i) /\ new[t][x][i].OrderId = id
    BY DEF Located
  <2>1. CASE id = o.OrderId
    <3>1. p \in DOMAIN new[s] /\ new[s][p] = level /\ Len(level) \in 1..Len(level)
      BY <1>1, <1>2
    <3> QED  BY <1>0, <1>1, <1>3, <2>1, <3>1
  <2>2. CASE id \in DOMAIN map
    <3>1. PICK t \in Side : \E x \in DOMAIN book[t] : \E i \in 1..Len(book[t][x]) :
             map[id] = At(t, x, i) /\ book[t][x][i].OrderId = id
      BY <2>2 DEF Located
    <3>2. PICK x \in DOMAIN book[t] : \E i \in 1..Len(book[t][x]) :
             map[id] = At(t, x, i) /\ book[t][x][i].OrderId = id
      BY <3>1
    <3> QED  BY <1>3, <1>6, <2>2, <3>2
  <2> QED  BY <1>3, <2>1, <2>2
<1>8. Placed(new, map2)
  <2> SUFFICES ASSUME NEW t \in Side, NEW x \in DOMAIN new[t], NEW i \in 1..Len(new[t][x])
               PROVE  /\ new[t][x][i].OrderId \in DOMAIN map2
                      /\ map2[new[t][x][i].OrderId] = At(t, x, i)
    BY DEF Placed
  <2>1. CASE t = s /\ x = p /\ i = Len(level)
    BY <1>1, <1>2, <1>3, <2>1
  <2>2. CASE t = s /\ x = p /\ i # Len(level)
    <3>1. new[t][x] = level
      BY <1>2, <2>2
    <3>2. i \in 1..Len(old)
      BY <1>1, <2>2, <3>1
    <3>3. p \in DOMAIN book[s] /\ old = book[s][p]
      BY <1>4, <1>5, <3>2
    <3>4. level[i] = book[s][p][i]
      BY <1>1, <3>2, <3>3
    <3>5. book[s][p][i].OrderId \in DOMAIN map /\ map[book[s][p][i].OrderId] = At(s, p, i)
      BY <1>0, <3>2, <3>3 DEF Placed
    <3> QED  BY <1>3, <2>2, <3>1, <3>4, <3>5
  <2>3. CASE t # s \/ x # p
    <3>1. x \in DOMAIN book[t] /\ new[t][x] = book[t][x]
      BY <1>2, <2>3
    <3>2. new[t][x][i].OrderId \in DOMAIN map /\ map[new[t][x][i].OrderId] = At(t, x, i)
      BY <3>1 DEF Placed
    <3> QED  BY <1>3, <3>2
  <2> QED  BY <2>1, <2>2, <2>3
<1> QED  BY <1>7, <1>8 DEF s, p, old, level, new, map2

(* The strengthening that makes the index claims inductive: a tracked id    *)
(* was used before, so an id that is new is not tracked.                    *)
IndexInv ==
    IdsUnique => /\ Located(levels, orderMap)
                 /\ Placed(levels, orderMap)
                 /\ DOMAIN orderMap \subseteq IdsSeen

LEMMA IndexInit == Init => IndexInv
  BY DEF Init, IndexInv, Located, Placed

LEMMA IdsSeenGrows ==
    ASSUME arrived \in Seq(Order), NEW o \in Order, arrived' = Append(arrived, o)
    PROVE  IdsSeen \subseteq IdsSeen' /\ o.OrderId \in IdsSeen'
<1>1. /\ Len(arrived) \in Nat /\ DOMAIN arrived = 1..Len(arrived)
      /\ DOMAIN arrived' = 1..(Len(arrived) + 1)
      /\ \A i \in 1..Len(arrived) : arrived'[i] = arrived[i]
      /\ arrived'[Len(arrived) + 1] = o
  BY AppendProperties, LenProperties
<1> QED  BY <1>1 DEF IdsSeen

LEMMA IndexNext == ShapeInv /\ IndexInv /\ [Next]_vars => IndexInv'
<1> SUFFICES ASSUME ShapeInv, IndexInv, [Next]_vars, IdsUnique
             PROVE  /\ Located(levels', orderMap') /\ Placed(levels', orderMap')
                    /\ DOMAIN orderMap' \subseteq IdsSeen'
  BY DEF IndexInv
<1>0. /\ BookShape(levels) /\ MapShape(orderMap) /\ arrived \in Seq(Order)
      /\ Located(levels, orderMap) /\ Placed(levels, orderMap)
      /\ DOMAIN orderMap \subseteq IdsSeen
  BY ShapeInvParts DEF ShapeInv, TypeOK, IndexInv
<1>1. ASSUME NEW id \in OrderIds, NEW side \in Side, NEW price \in Prices,
             NEW qty \in Quantities, Submit(id, side, price, qty)
      PROVE  /\ Located(levels', orderMap') /\ Placed(levels', orderMap')
             /\ DOMAIN orderMap' \subseteq IdsSeen'
  <2> DEFINE o     == [OrderId |-> id, quantity |-> Narrowed(qty), side |-> side, price |-> price,
                       seqNo |-> Len(arrived) + 1]
             level == Append(LevelAt(levels[o.side], o.price), o)
  <2>1. o \in Order
    BY <1>0, LenProperties, BookAssumption DEF Order, Sizes
  <2>2. /\ levels' = Replace(levels, o.side, o.price, level)
        /\ orderMap' = Track(orderMap, o.OrderId, At(o.side, o.price, Len(level)))
        /\ arrived' = Append(arrived, o) /\ o.OrderId \notin IdsSeen
    BY <1>1 DEF Submit, AddOrder, Replace, At
  <2> HIDE DEF o
  <2>3. Located(levels', orderMap') /\ Placed(levels', orderMap')
    BY <1>0, <2>1, <2>2, AppendKeepsIndex
  <2>4. DOMAIN orderMap' \subseteq IdsSeen'
    BY <1>0, <2>1, <2>2, IdsSeenGrows DEF Track
  <2> QED  BY <2>3, <2>4
<1>2. CASE MatchStep
  <2>1. PICK bid \in Prices, ask \in Prices : MatchStep!(bid, ask)
    BY <1>2 DEF MatchStep
  <2> DEFINE buyVec  == levels["buy"][bid]
             sellVec == levels["sell"][ask]
             qty     == Least(buyVec[1].quantity, sellVec[1].quantity)
             mid     == Replace(levels, "buy", bid, TakeLevel(buyVec, qty))
             midMap  == TakeMap(orderMap, buyVec, qty)
  <2>2. /\ buyVec \in Seq(Order) /\ buyVec # << >> /\ buyVec[1] \in Order
        /\ sellVec \in Seq(Order) /\ sellVec # << >> /\ sellVec[1] \in Order
        /\ qty \in Sizes /\ qty <= buyVec[1].quantity /\ qty <= sellVec[1].quantity
        /\ bid \in DOMAIN levels["buy"] /\ ask \in DOMAIN levels["sell"]
    BY <1>0, <2>1, FrontFacts
  <2>3. /\ levels' = Replace(mid, "sell", ask, TakeLevel(sellVec, qty))
        /\ orderMap' = TakeMap(midMap, sellVec, qty) /\ arrived' = arrived
    BY <2>1 DEF Replace
  <2> HIDE DEF qty
  <2>4. Located(mid, midMap) /\ Placed(mid, midMap)
    BY <1>0, <2>2, TakeKeepsIndex DEF Side
  <2>5. BookShape(mid)
    BY <1>0, <2>2, ReplaceShape, TakeLevelFacts DEF Side
  <2>6. mid["sell"] = levels["sell"]
    BY <1>0, ReplaceFacts DEF BookShape, Side
  <2> HIDE DEF mid, midMap, buyVec
  <2>7. Located(levels', orderMap') /\ Placed(levels', orderMap')
    BY <2>2, <2>3, <2>4, <2>5, <2>6, TakeKeepsIndex DEF Side
  <2>8. DOMAIN midMap \subseteq DOMAIN orderMap
    BY DEF midMap, TakeMap, Refreshed, Untrack
  <2>9. DOMAIN orderMap' \subseteq DOMAIN midMap
    BY <2>3 DEF TakeMap, Refreshed, Untrack
  <2>10. IdsSeen' = IdsSeen
    BY <2>3 DEF IdsSeen
  <2> QED  BY <1>0, <2>7, <2>8, <2>9, <2>10
<1>3. CASE MatchDone
  BY <1>0, <1>3 DEF MatchDone, IdsSeen
<1>4. ASSUME NEW id \in OrderIds, CancelOrder(id)
      PROVE  /\ Located(levels', orderMap') /\ Placed(levels', orderMap')
             /\ DOMAIN orderMap' \subseteq IdsSeen'
  <2>1. id \in DOMAIN orderMap /\ arrived' = arrived
    BY <1>4 DEF CancelOrder
  <2>2. PICK s \in Side : \E p \in DOMAIN levels[s] : \E k \in 1..Len(levels[s][p]) :
           orderMap[id] = At(s, p, k) /\ levels[s][p][k].OrderId = id
    BY <1>0, <2>1 DEF Located
  <2>3. PICK p \in DOMAIN levels[s] : \E k \in 1..Len(levels[s][p]) :
           orderMap[id] = At(s, p, k) /\ levels[s][p][k].OrderId = id
    BY <2>2
  <2>4. PICK k \in 1..Len(levels[s][p]) :
           orderMap[id] = At(s, p, k) /\ levels[s][p][k].OrderId = id
    BY <2>3
  <2> DEFINE level == Erased(levels[s][p], k)
  <2>5. orderMap[id].side = s /\ orderMap[id].price = p /\ orderMap[id].vector_index = k
    BY <2>4 DEF At
  <2>6. /\ levels' = Replace(levels, s, p, level)
        /\ orderMap' = Refreshed(Untrack(orderMap, levels[s][p][k].OrderId), level, k)
    BY <1>4, <2>4, <2>5 DEF CancelOrder, Replace
  <2>7. Located(levels', orderMap') /\ Placed(levels', orderMap')
    BY <1>0, <2>6, EraseKeepsIndex
  <2>8. DOMAIN orderMap' \subseteq DOMAIN orderMap
    BY <2>6 DEF Refreshed, Untrack
  <2> QED  BY <1>0, <2>1, <2>7, <2>8 DEF IdsSeen
<1>5. CASE UNCHANGED vars
  BY <1>0, <1>5 DEF vars, IdsSeen
<1> QED  BY <1>1, <1>2, <1>3, <1>4, <1>5 DEF Next

(* When clients do not reuse ids, a lookup always finds its order: the      *)
(* claim of tests/test_orderbook.cpp, for every history of the book.        *)
THEOREM TrackedAreFindable == ASSUME IdsUnique PROVE Spec => []TrackedFindable
<1>1. IndexInv => TrackedFindable
  BY IdsUnique DEF IndexInv, Located, TrackedFindable, At
<1> QED  BY <1>1, ShapeInvInit, ShapeInvNext, IndexInit, IndexNext, PTL DEF Spec

(* ... and every resting order can be cancelled: its entry names its place. *)
THEOREM RestingAreTracked == ASSUME IdsUnique PROVE Spec => []RestingTracked
<1>1. IndexInv => RestingTracked
  BY IdsUnique DEF IndexInv, Placed, RestingTracked, At
<1> QED  BY <1>1, ShapeInvInit, ShapeInvNext, IndexInit, IndexNext, PTL DEF Spec

-------------------------------------------------------------------------------
(* The set of resting orders, and how the operations change it. *)

RestingOf(book) == UNION {UNION {ToSet(book[s][p]) : p \in DOMAIN book[s]} : s \in Side}

LEMMA RestingWhere ==
    ASSUME NEW book, BookShape(book), NEW o
    PROVE  o \in RestingOf(book) <=>
               \E s \in Side : \E p \in DOMAIN book[s] : o \in ToSet(book[s][p])
  BY DEF RestingOf

LEMMA ToSetOfSeq ==
    ASSUME NEW S, NEW q \in Seq(S)
    PROVE  /\ ToSet(q) = {q[i] : i \in 1..Len(q)}
           /\ ToSet(q) \subseteq S
  BY LenProperties, ElementOfSeq DEF ToSet

(* In an ordered book the side and the price of an order say where it is.   *)
LEMMA RestingAt ==
    ASSUME NEW book, BookShape(book), NEW n, AgeInv(book, n), NEW s \in Side, NEW p
    PROVE  {o \in RestingOf(book) : o.side = s /\ o.price = p}
               = ToSet(LevelAt(book[s], p))
<1>1. ASSUME NEW t \in Side, NEW x \in DOMAIN book[t], NEW o \in ToSet(book[t][x])
      PROVE  o.side = t /\ o.price = x
  <2>1. book[t][x] \in Seq(Order) /\ InOrder(t, x, book[t][x])
    BY DEF BookShape, AgeInv
  <2>2. PICK i \in 1..Len(book[t][x]) : o = book[t][x][i]
    BY <2>1, ToSetOfSeq
  <2> QED  BY <2>1, <2>2 DEF InOrder
<1>2. ToSet(<< >>) = {}
  BY DEF ToSet
<1>3. CASE p \in DOMAIN book[s]
  <2>1. LevelAt(book[s], p) = book[s][p]
    BY <1>3 DEF LevelAt
  <2>2. \A o : o \in RestingOf(book) /\ o.side = s /\ o.price = p <=> o \in ToSet(book[s][p])
    BY <1>1, <1>3, RestingWhere
  <2> QED  BY <2>1, <2>2
<1>4. CASE p \notin DOMAIN book[s]
  <2>1. LevelAt(book[s], p) = << >>
    BY <1>4 DEF LevelAt
  <2>2. \A o \in RestingOf(book) : ~(o.side = s /\ o.price = p)
    BY <1>1, <1>4, RestingWhere
  <2> QED  BY <1>2, <2>1, <2>2
<1> QED  BY <1>3, <1>4

(* Storing a level back exchanges the orders of that level. *)
LEMMA ReplaceResting ==
    ASSUME NEW book, BookShape(book), NEW n, AgeInv(book, n),
           NEW s \in Side, NEW p \in Prices, NEW level \in Seq(Order)
    PROVE  RestingOf(Replace(book, s, p, level))
               = {o \in RestingOf(book) : ~(o.side = s /\ o.price = p)} \cup ToSet(level)
<1> DEFINE new == Replace(book, s, p, level)
<1>1. /\ DOMAIN new = Side /\ \A t \in Side \ {s} : new[t] = book[t]
      /\ DOMAIN new[s] = (DOMAIN book[s] \ {p}) \cup (IF level = << >> THEN {} ELSE {p})
      /\ \A x \in DOMAIN new[s] : new[s][x] = IF x = p THEN level ELSE book[s][x]
  BY ReplaceFacts DEF BookShape
<1>2. BookShape(new)
  BY ReplaceShape
<1>3. ASSUME NEW t \in Side, NEW x \in DOMAIN book[t], NEW o \in ToSet(book[t][x])
      PROVE  o.side = t /\ o.price = x
  <2>1. book[t][x] \in Seq(Order) /\ InOrder(t, x, book[t][x])
    BY DEF BookShape, AgeInv
  <2>2. PICK i \in 1..Len(book[t][x]) : o = book[t][x][i]
    BY <2>1, ToSetOfSeq
  <2> QED  BY <2>1, <2>2 DEF InOrder
<1> HIDE DEF new
<1>4. ASSUME NEW o \in RestingOf(new)
      PROVE  (o \in RestingOf(book) /\ ~(o.side = s /\ o.price = p)) \/ o \in ToSet(level)
  <2>1. PICK t \in Side : \E x \in DOMAIN new[t] : o \in ToSet(new[t][x])
    BY <1>2, RestingWhere
  <2>2. PICK x \in DOMAIN new[t] : o \in ToSet(new[t][x])
    BY <2>1
  <2>3. CASE t = s /\ x = p
    BY <1>1, <2>2, <2>3
  <2>4. CASE t # s \/ x # p
    <3>1. x \in DOMAIN book[t] /\ o \in ToSet(book[t][x])
      BY <1>1, <2>2, <2>4
    <3> QED  BY <1>3, <2>4, <3>1, RestingWhere
  <2> QED  BY <2>3, <2>4
<1>5. ASSUME NEW o \in RestingOf(book), ~(o.side = s /\ o.price = p)
      PROVE  o \in RestingOf(new)
  <2>1. PICK t \in Side : \E x \in DOMAIN book[t] : o \in ToSet(book[t][x])
    BY RestingWhere
  <2>2. PICK x \in DOMAIN book[t] : o \in ToSet(book[t][x])
    BY <2>1
  <2>3. t # s \/ x # p
    BY <1>3, <1>5, <2>2
  <2>4. x \in DOMAIN new[t] /\ o \in ToSet(new[t][x])
    BY <1>1, <2>2, <2>3
  <2> QED  BY <1>2, <2>4, RestingWhere
<1>6. ASSUME NEW o \in ToSet(level)
      PROVE  o \in RestingOf(new)
  <2>1. level # << >>
    BY <1>6 DEF ToSet
  <2>2. p \in DOMAIN new[s] /\ new[s][p] = level
    BY <1>1, <2>1
  <2> QED  BY <1>2, <1>6, <2>2, RestingWhere
<1> QED  BY <1>4, <1>5, <1>6 DEF new

(* The orders of a level differ, so erasing a position takes out one order. *)
LEMMA ErasedSet ==
    ASSUME NEW level \in Seq(Order), NEW s, NEW p, InOrder(s, p, level),
           NEW k \in 1..Len(level)
    PROVE  ToSet(Erased(level, k)) = ToSet(level) \ {level[k]}
<1> DEFINE new == Erased(level, k)
<1>1. /\ new \in Seq(Order) /\ Len(new) = Len(level) - 1 /\ Len(level) \in Nat
      /\ \A i \in 1..Len(new) : new[i] = IF i < k THEN level[i] ELSE level[i+1]
  BY RemoveAtFacts, LenProperties DEF Erased
<1> HIDE DEF new
<1>2. ASSUME NEW i \in 1..Len(level), NEW j \in 1..Len(level), i < j
      PROVE  level[i] # level[j]
  <2>1. i \in 1..(j-1)
    BY <1>1, <1>2
  <2>2. level[i].seqNo \in Nat /\ level[i].seqNo < level[j].seqNo
    BY <2>1, ElementOfSeq, OrderFields DEF InOrder
  <2> QED  BY <2>2
<1>3. \A i \in 1..Len(level) : i # k => level[i] # level[k]
  BY <1>1, <1>2
<1>4. ASSUME NEW i \in 1..Len(new)
      PROVE  \E x \in 1..Len(level) : x # k /\ new[i] = level[x]
  <2>1. CASE i < k
    BY <1>1, <2>1
  <2>2. CASE i >= k
    <3>1. i + 1 \in 1..Len(level) /\ i + 1 # k /\ new[i] = level[i+1]
      BY <1>1, <2>2
    <3> QED  BY <3>1
  <2> QED  BY <1>1, <2>1, <2>2
<1>5. ASSUME NEW x \in 1..Len(level), x # k
      PROVE  \E i \in 1..Len(new) : new[i] = level[x]
  <2>1. CASE x < k
    BY <1>1, <2>1
  <2>2. CASE x > k
    <3>1. x - 1 \in 1..Len(new) /\ new[x-1] = level[x]
      BY <1>1, <2>2
    <3> QED  BY <3>1
  <2> QED  BY <1>1, <1>5, <2>1, <2>2
<1>6. ToSet(new) = {new[i] : i \in 1..Len(new)} /\ ToSet(level) = {level[i] : i \in 1..Len(level)}
  BY <1>1, ToSetOfSeq
<1>7. \A o \in ToSet(new) : o \in ToSet(level) /\ o # level[k]
  BY <1>3, <1>4, <1>6
<1>8. \A o \in ToSet(level) : o # level[k] => o \in ToSet(new)
  BY <1>5, <1>6
<1>9. ToSet(new) = ToSet(level) \ {level[k]}
  BY <1>7, <1>8
<1> QED  BY <1>9 DEF new

(* Nothing of a filled order, the rest of another. *)
Rest(o, qty) == IF o.quantity = qty THEN {} ELSE {Reduced(o, qty)}

LEMMA TakenSet ==
    ASSUME NEW level \in Seq(Order), level # << >>, NEW qty \in Sizes,
           qty <= level[1].quantity, NEW s, NEW p, InOrder(s, p, level)
    PROVE  ToSet(TakeLevel(level, qty)) = (ToSet(level) \ {level[1]}) \cup Rest(level[1], qty)
<1>1. Len(level) \in Nat /\ 1 \in 1..Len(level)
  BY EmptySeq, LenProperties
<1>2. CASE level[1].quantity = qty
  BY <1>1, <1>2, ErasedSet DEF TakeLevel, Rest
<1>3. CASE level[1].quantity # qty
  <2> DEFINE new == TakeLevel(level, qty)
  <2>1. /\ new \in Seq(Order) /\ Len(new) = Len(level) /\ new[1] = Reduced(level[1], qty)
        /\ \A i \in 2..Len(level) : new[i] = level[i]
    BY <1>3, TakeLevelFacts
  <2> HIDE DEF new
  <2>2. \A i \in 2..Len(level) : level[i] # level[1]
    <3> TAKE i \in 2..Len(level)
    <3>1. i \in 1..Len(level) /\ 1 \in 1..(i-1)
      BY <1>1
    <3>2. level[1].seqNo \in Nat /\ level[1].seqNo < level[i].seqNo
      BY <1>1, <3>1, ElementOfSeq, OrderFields DEF InOrder
    <3> QED  BY <3>2
  <2>3. ToSet(new) = {new[i] : i \in 1..Len(level)} /\ ToSet(level) = {level[i] : i \in 1..Len(level)}
    BY <2>1, ToSetOfSeq
  <2>4. 1..Len(level) = {1} \cup 2..Len(level)
    BY <1>1
  <2>5. ToSet(new) = {Reduced(level[1], qty)} \cup {level[i] : i \in 2..Len(level)}
    BY <2>1, <2>3, <2>4
  <2>6. ToSet(level) \ {level[1]} = {level[i] : i \in 2..Len(level)}
    BY <2>2, <2>3, <2>4
  <2> QED  BY <1>3, <2>5, <2>6 DEF new, Rest
<1> QED  BY <1>2, <1>3

(* A fill of the front order of a level, seen from the set of orders. *)
LEMMA TakeResting ==
    ASSUME NEW book, BookShape(book), NEW n, AgeInv(book, n), NEW s \in Side,
           NEW p \in DOMAIN book[s], NEW qty \in Sizes, qty <= book[s][p][1].quantity
    PROVE  /\ book[s][p][1] \in RestingOf(book)
           /\ RestingOf(Replace(book, s, p, TakeLevel(book[s][p], qty)))
                   = (RestingOf(book) \ {book[s][p][1]}) \cup Rest(book[s][p][1], qty)
<1> DEFINE old == book[s][p]
<1>1. old \in Seq(Order) /\ old # << >> /\ InOrder(s, p, old) /\ p \in Prices
  BY DEF BookShape, AgeInv
<1>2. {o \in RestingOf(book) : o.side = s /\ o.price = p} = ToSet(old)
  BY RestingAt DEF LevelAt
<1> HIDE DEF old
<1>3. /\ TakeLevel(old, qty) \in Seq(Order)
      /\ ToSet(TakeLevel(old, qty)) = (ToSet(old) \ {old[1]}) \cup Rest(old[1], qty)
  BY <1>1, TakeLevelFacts, TakenSet DEF old
<1>4. old[1] \in ToSet(old)
  <2>1. 1 \in 1..Len(old)
    BY <1>1, EmptySeq, LenProperties
  <2> QED  BY <1>1, <2>1, ToSetOfSeq
<1>5. RestingOf(Replace(book, s, p, TakeLevel(old, qty)))
          = {o \in RestingOf(book) : ~(o.side = s /\ o.price = p)} \cup ToSet(TakeLevel(old, qty))
  BY <1>1, <1>3, ReplaceResting
<1>6. RestingOf(Replace(book, s, p, TakeLevel(old, qty)))
          = (RestingOf(book) \ {old[1]}) \cup Rest(old[1], qty)
  BY <1>2, <1>3, <1>4, <1>5
<1> QED  BY <1>2, <1>4, <1>6 DEF old

LEMMA AddResting ==
    ASSUME NEW book, BookShape(book), NEW n, AgeInv(book, n), NEW o \in Order
    PROVE  RestingOf(Replace(book, o.side, o.price, Append(LevelAt(book[o.side], o.price), o)))
               = RestingOf(book) \cup {o}
<1> DEFINE s   == o.side
           p   == o.price
           old == LevelAt(book[s], p)
           level == Append(old, o)
<1>1. s \in Side /\ p \in Prices
  BY OrderFields
<1>2. old \in Seq(Order)
  BY <1>1, EmptySeq DEF LevelAt, BookShape
<1> HIDE DEF s, p
<1>3. {r \in RestingOf(book) : r.side = s /\ r.price = p} = ToSet(old)
  BY <1>1, RestingAt
<1> HIDE DEF old
<1>4. level \in Seq(Order) /\ ToSet(level) = ToSet(old) \cup {o}
  <2>1. /\ level \in Seq(Order) /\ Len(old) \in Nat
        /\ Len(level) = Len(old) + 1
        /\ \A i \in 1..Len(old) : level[i] = old[i]
        /\ level[Len(old) + 1] = o
    BY <1>2, AppendProperties, LenProperties
  <2>2. /\ ToSet(old) = {old[i] : i \in 1..Len(old)}
        /\ ToSet(level) = {level[i] : i \in 1..(Len(old) + 1)}
    BY <1>2, <2>1, ToSetOfSeq
  <2>3. 1..(Len(old) + 1) = 1..Len(old) \cup {Len(old) + 1}
    BY <2>1
  <2> QED  BY <2>1, <2>2, <2>3
<1> HIDE DEF level
<1>5. RestingOf(Replace(book, s, p, level))
          = {r \in RestingOf(book) : ~(r.side = s /\ r.price = p)} \cup ToSet(level)
  BY <1>1, <1>4, ReplaceResting
<1>6. RestingOf(Replace(book, s, p, level)) = RestingOf(book) \cup {o}
  BY <1>3, <1>4, <1>5
<1> QED  BY <1>6 DEF s, p, old, level

LEMMA RestingIs == Resting = RestingOf(levels)
  BY DEF Resting, RestingOf

(* A cancellation takes out the order whose id it names. *)
LEMMA CancelResting ==
    ASSUME IdsUnique, ShapeInv, AgeOfLevels, IndexInv, NEW id \in OrderIds, CancelOrder(id)
    PROVE  RestingOf(levels') = {o \in RestingOf(levels) : o.OrderId # id}
<1>0. /\ BookShape(levels) /\ AgeInv(levels, Len(arrived))
      /\ Located(levels, orderMap) /\ Placed(levels, orderMap) /\ id \in DOMAIN orderMap
  BY ShapeInvParts DEF AgeOfLevels, IndexInv, CancelOrder
<1>1. PICK s \in Side : \E p \in DOMAIN levels[s] : \E k \in 1..Len(levels[s][p]) :
         orderMap[id] = At(s, p, k) /\ levels[s][p][k].OrderId = id
  BY <1>0 DEF Located
<1>2. PICK p \in DOMAIN levels[s] : \E k \in 1..Len(levels[s][p]) :
         orderMap[id] = At(s, p, k) /\ levels[s][p][k].OrderId = id
  BY <1>1
<1>3. PICK k \in 1..Len(levels[s][p]) :
         orderMap[id] = At(s, p, k) /\ levels[s][p][k].OrderId = id
  BY <1>2
<1> DEFINE old   == levels[s][p]
           gone  == old[k]
<1>4. old \in Seq(Order) /\ InOrder(s, p, old) /\ p \in Prices
  BY <1>0 DEF BookShape, AgeInv
<1>5. levels' = Replace(levels, s, p, Erased(old, k))
  <2>1. orderMap[id].side = s /\ orderMap[id].price = p /\ orderMap[id].vector_index = k
    BY <1>3 DEF At
  <2> QED  BY <2>1 DEF CancelOrder, Replace
<1>6. {o \in RestingOf(levels) : o.side = s /\ o.price = p} = ToSet(old)
  BY <1>0, RestingAt DEF LevelAt
<1>7. gone \in ToSet(old) /\ gone.OrderId = id
  BY <1>3, <1>4, ToSetOfSeq
<1>8. \A o \in RestingOf(levels) : o.OrderId = id => o = gone
  <2> TAKE o \in RestingOf(levels)
  <2> HAVE o.OrderId = id
  <2>1. PICK t \in Side : \E x \in DOMAIN levels[t] : o \in ToSet(levels[t][x])
    BY <1>0, RestingWhere
  <2>2. PICK x \in DOMAIN levels[t] : o \in ToSet(levels[t][x])
    BY <2>1
  <2>3. PICK i \in 1..Len(levels[t][x]) : o = levels[t][x][i]
    <3>1. levels[t][x] \in Seq(Order)
      BY <1>0 DEF BookShape
    <3> QED  BY <2>2, <3>1, ToSetOfSeq
  <2>4. orderMap[id] = At(t, x, i)
    BY <1>0, <2>3 DEF Placed
  <2>5. At(s, p, k) = At(t, x, i)
    BY <1>3, <2>4
  <2>6. s = t /\ p = x /\ k = i
    BY <2>5, AtInjective
  <2> QED  BY <2>3, <2>6
<1> HIDE DEF old, gone
<1>9. Erased(old, k) \in Seq(Order) /\ ToSet(Erased(old, k)) = ToSet(old) \ {gone}
  BY <1>3, <1>4, ErasedShape, ErasedSet DEF old, gone
<1>10. RestingOf(levels')
           = {o \in RestingOf(levels) : ~(o.side = s /\ o.price = p)} \cup ToSet(Erased(old, k))
  BY <1>0, <1>4, <1>5, <1>9, ReplaceResting
<1> QED  BY <1>6, <1>7, <1>8, <1>9, <1>10

(* The hazard eraseAt was written against: a cancellation never removes a   *)
(* neighbour, and never misses.                                             *)
THEOREM CancelIsExact == ASSUME IdsUnique PROVE Spec => CancelRemovesOwn
<1>1. /\ ShapeInv /\ AgeOfLevels /\ IndexInv /\ [Next]_vars
      => [\A id \in OrderIds :
             CancelOrder(id) => Resting' = {o \in Resting : o.OrderId # id}]_vars
  BY IdsUnique, CancelResting, RestingIs DEF Resting, RestingOf
<1> QED  BY <1>1, ShapeInvInit, ShapeInvNext, AgeInit, AgeNext, IndexInit, IndexNext,
            PTL DEF Spec, CancelRemovesOwn

-------------------------------------------------------------------------------
(* Price-time priority: the book implements LimitOrderBook. *)

(* The first order of the best level comes before every order of its side.  *)
LEMMA FrontIsTop ==
    ASSUME BookShape(levels), NEW n, AgeInv(levels, n), NEW s \in Side,
           NEW p \in Prices, IsBest(s, p)
    PROVE  Lob!IsTop(levels[s][p][1])
<1> DEFINE top == levels[s][p][1]
<1>1. p \in DOMAIN levels[s] /\ levels[s][p] \in Seq(Order) /\ InOrder(s, p, levels[s][p])
      /\ levels[s][p] # << >>
  BY DEF IsBest, BookShape, AgeInv
<1>2. Len(levels[s][p]) \in Nat /\ 1 \in 1..Len(levels[s][p]) /\ top \in Order
  <2>1. Len(levels[s][p]) \in Nat /\ 1 \in 1..Len(levels[s][p])
    BY <1>1, EmptySeq, LenProperties
  <2> QED  BY <1>1, <2>1, ElementOfSeq
<1>3. top.side = s /\ top.price = p /\ top.seqNo \in Nat
  BY <1>1, <1>2, OrderFields DEF InOrder
<1> SUFFICES ASSUME NEW r \in RestingOf(levels), r.side = s, r # top
             PROVE  Lob!Precedes(top, r)
  BY <1>3, RestingIs DEF Lob!IsTop, Lob!On
<1>4. PICK t \in Side : \E x \in DOMAIN levels[t] : r \in ToSet(levels[t][x])
  BY RestingWhere
<1>5. PICK x \in DOMAIN levels[t] : r \in ToSet(levels[t][x])
  BY <1>4
<1>6. levels[t][x] \in Seq(Order) /\ InOrder(t, x, levels[t][x]) /\ x \in Prices
  BY DEF BookShape, AgeInv
<1>7. PICK i \in 1..Len(levels[t][x]) : r = levels[t][x][i]
  BY <1>5, <1>6, ToSetOfSeq
<1>8. t = s /\ r.price = x
  BY <1>6, <1>7 DEF InOrder
<1>9. CASE x = p
  <2>1. i # 1 /\ 1 \in 1..(i-1)
    BY <1>2, <1>7, <1>8, <1>9
  <2>2. top.seqNo < r.seqNo
    BY <1>6, <1>7, <1>8, <1>9, <2>1 DEF InOrder
  <2> QED  BY <1>3, <1>8, <1>9, <2>2 DEF Lob!Precedes
<1>10. CASE x # p
  <2>1. IF s = "buy" THEN x <= p ELSE x >= p
    BY <1>8 DEF IsBest
  <2>2. x \in Int /\ p \in Int
    BY <1>6, BookAssumption
  <2> QED  BY <1>3, <1>8, <1>10, <2>1, <2>2 DEF Lob!Precedes, Side
<1> QED  BY <1>9, <1>10

(* One iteration of matching() is one trade of the abstract book.           *)
LEMMA MatchStepIsTrade ==
    ASSUME ShapeInv, AgeOfLevels, NEW bid \in Prices, NEW ask \in Prices,
           MatchStep!(bid, ask)
    PROVE  \E b \in Lob!On("buy"), a \in Lob!On("sell") : Lob!Trade(b, a)
<1> DEFINE buyVec  == levels["buy"][bid]
           sellVec == levels["sell"][ask]
           b       == buyVec[1]
           a       == sellVec[1]
           qty     == Least(b.quantity, a.quantity)
           n       == Len(arrived)
           mid     == Replace(levels, "buy", bid, TakeLevel(buyVec, qty))
<1>0. /\ BookShape(levels) /\ AgeInv(levels, n) /\ n \in Nat
      /\ "buy" \in Side /\ "sell" \in Side
  BY ShapeInvParts, LenProperties DEF AgeOfLevels, Side, ShapeInv, TypeOK
<1>1. /\ buyVec \in Seq(Order) /\ buyVec # << >> /\ b \in Order
      /\ sellVec \in Seq(Order) /\ sellVec # << >> /\ a \in Order
      /\ qty \in Sizes /\ qty <= b.quantity /\ qty <= a.quantity
      /\ bid \in DOMAIN levels["buy"] /\ ask \in DOMAIN levels["sell"]
      /\ IsBest("buy", bid) /\ IsBest("sell", ask) /\ pc = "matching" /\ bid >= ask
  BY <1>0, FrontFacts
<1>2. /\ InOrder("buy", bid, buyVec) /\ AllArrived(buyVec, n)
      /\ InOrder("sell", ask, sellVec) /\ AllArrived(sellVec, n)
  BY <1>0, <1>1 DEF AgeInv
<1>3. /\ b.side = "buy" /\ b.price = bid /\ a.side = "sell" /\ a.price = ask
  <2>1. 1 \in 1..Len(buyVec) /\ 1 \in 1..Len(sellVec)
    BY <1>1, EmptySeq, LenProperties
  <2> QED  BY <1>2, <2>1 DEF InOrder
<1>4. /\ levels' = Replace(mid, "sell", ask, TakeLevel(sellVec, qty))
      /\ pc' = pc
      /\ trades' = Append(trades,
             [match_id |-> Len(trades) + 1,
              buy_order_id |-> b.OrderId, sell_order_id |-> a.OrderId,
              taker |-> IF b.seqNo > a.seqNo THEN b.seqNo ELSE a.seqNo,
              price |-> ExecutionPrice(b, a), qty |-> qty])
  BY DEF Replace
<1>5. Lob!IsTop(b) /\ Lob!IsTop(a)
  BY <1>0, <1>1, FrontIsTop
<1> HIDE DEF qty, n
<1>6. b \in RestingOf(levels) /\ RestingOf(mid) = (RestingOf(levels) \ {b}) \cup Rest(b, qty)
  BY <1>0, <1>1, TakeResting
<1>7. a \in RestingOf(levels)
  BY <1>0, <1>1, TakeResting
<1>8. BookShape(mid) /\ mid["sell"] = levels["sell"] /\ AgeInv(mid, n)
  <2>1. BookShape(mid)
    BY <1>0, <1>1, ReplaceShape, TakeLevelFacts
  <2>2. mid["sell"] = levels["sell"]
    BY <1>0, ReplaceFacts DEF BookShape
  <2>3. InOrder("buy", bid, TakeLevel(buyVec, qty)) /\ AllArrived(TakeLevel(buyVec, qty), n)
    BY <1>0, <1>1, <1>2, TakeLevelInOrder
  <2>4. AgeInv(mid, n)
    BY <1>0, <2>3, ReplaceAge DEF BookShape
  <2> QED  BY <2>1, <2>2, <2>4
<1>9. RestingOf(levels') = (RestingOf(mid) \ {a}) \cup Rest(a, qty)
  <2> HIDE DEF mid
  <2>1. ask \in DOMAIN mid["sell"] /\ mid["sell"][ask] = sellVec
    BY <1>1, <1>8
  <2>2. qty <= mid["sell"][ask][1].quantity /\ mid["sell"][ask][1] = a
    BY <1>1, <2>1
  <2>3. RestingOf(Replace(mid, "sell", ask, TakeLevel(mid["sell"][ask], qty)))
            = (RestingOf(mid) \ {mid["sell"][ask][1]}) \cup Rest(mid["sell"][ask][1], qty)
    <3>1. /\ BookShape(mid) /\ AgeInv(mid, n) /\ "sell" \in Side
          /\ ask \in DOMAIN mid["sell"] /\ qty \in Sizes /\ qty <= mid["sell"][ask][1].quantity
      BY <1>0, <1>1, <1>8, <2>1, <2>2
    <3> QED  BY ONLY <3>1, TakeResting
  <2>4. levels' = Replace(mid, "sell", ask, TakeLevel(mid["sell"][ask], qty))
    BY <1>4, <2>1
  <2> QED  BY <2>2, <2>3, <2>4
<1>10. a \notin Rest(b, qty)
  BY <1>1, <1>3 DEF Rest, Reduced, Order
<1> HIDE DEF mid, buyVec, sellVec
<1>11. RestingOf(levels') = (RestingOf(levels) \ {b, a}) \cup Rest(b, qty) \cup Rest(a, qty)
  BY <1>6, <1>9, <1>10
<1>12. Lob!Remainder(b, qty) = Rest(b, qty) /\ Lob!Remainder(a, qty) = Rest(a, qty)
  BY DEF Lob!Remainder, Rest, Reduced
<1>13. b \in Lob!On("buy") /\ a \in Lob!On("sell")
  BY <1>3, <1>6, <1>7, RestingIs DEF Lob!On
<1>14. Resting = RestingOf(levels) /\ Resting' = RestingOf(levels')
  BY RestingIs DEF Resting, RestingOf
<1>15. Lob!Trade(b, a)
  <2>1. qty = IF b.quantity < a.quantity THEN b.quantity ELSE a.quantity
    BY DEF qty, Least
  <2>2. /\ (IF b.seqNo < a.seqNo THEN b ELSE a).price = ExecutionPrice(b, a)
        /\ (IF b.seqNo > a.seqNo THEN b ELSE a).seqNo
               = IF b.seqNo > a.seqNo THEN b.seqNo ELSE a.seqNo
    BY DEF ExecutionPrice
  <2> HIDE DEF b, a
  <2> QED  BY <1>1, <1>3, <1>4, <1>5, <1>11, <1>12, <1>14, <2>1, <2>2 DEF Lob!Trade
<1> QED  BY <1>13, <1>15

(* The engine's data structures implement price-time priority.              *)
THEOREM BookIsPriceTime == ASSUME IdsUnique PROVE Spec => PriceTimePriority
<1>1. Init => Lob!LobInit
  BY DEF Init, Lob!LobInit, Resting, Side
<1>2. ShapeInv /\ AgeOfLevels /\ IndexInv /\ [Next]_vars => [Lob!LobNext]_(Lob!lobVars)
  <2> SUFFICES ASSUME ShapeInv, AgeOfLevels, IndexInv, [Next]_vars
               PROVE  Lob!LobNext \/ UNCHANGED Lob!lobVars
    OBVIOUS
  <2>0. /\ BookShape(levels) /\ AgeInv(levels, Len(arrived)) /\ arrived \in Seq(Order)
        /\ Len(arrived) \in Nat
        /\ Resting = RestingOf(levels) /\ Resting' = RestingOf(levels')
    BY ShapeInvParts, RestingIs, LenProperties
       DEF AgeOfLevels, ShapeInv, TypeOK, Resting, RestingOf
  <2>1. ASSUME NEW id \in OrderIds, NEW side \in Side, NEW price \in Prices,
               NEW qty \in Quantities, Submit(id, side, price, qty)
        PROVE  Lob!LobNext
    <3> DEFINE o == [OrderId |-> id, quantity |-> Narrowed(qty), side |-> side, price |-> price,
                     seqNo |-> Len(arrived) + 1]
    <3>1. /\ o \in Order
          /\ o \in [OrderId : OrderIds, quantity : {Narrowed(q) : q \in Quantities},
                     side : Side, price : Prices, seqNo : 1..MaxOrders]
      BY <2>0, <2>1, BookAssumption DEF Order, Sizes, Submit
    <3>2. /\ pc = "idle" /\ pc' = "matching" /\ trades' = trades
          /\ levels' = Replace(levels, o.side, o.price, Append(LevelAt(levels[o.side], o.price), o))
      BY <2>1 DEF Submit, AddOrder, Replace
    <3>3. \A r \in RestingOf(levels) : r.seqNo < o.seqNo
      <4> TAKE r \in RestingOf(levels)
      <4>1. PICK t \in Side : \E x \in DOMAIN levels[t] : r \in ToSet(levels[t][x])
        BY <2>0, RestingWhere
      <4>2. PICK x \in DOMAIN levels[t] : r \in ToSet(levels[t][x])
        BY <4>1
      <4>3. levels[t][x] \in Seq(Order) /\ AllArrived(levels[t][x], Len(arrived))
        BY <2>0 DEF BookShape, AgeInv
      <4>4. PICK i \in 1..Len(levels[t][x]) : r = levels[t][x][i]
        BY <4>2, <4>3, ToSetOfSeq
      <4>5. r.seqNo \in Nat /\ r.seqNo <= Len(arrived)
        BY <4>3, <4>4, ElementOfSeq, OrderFields DEF AllArrived
      <4> QED  BY <2>0, <4>5
    <3> HIDE DEF o
    <3>4. RestingOf(levels') = RestingOf(levels) \cup {o}
      BY <2>0, <3>1, <3>2, AddResting
    <3>5. Lob!Arrive(o)
      BY <2>0, <3>2, <3>3, <3>4 DEF Lob!Arrive
    <3> QED  BY <3>1, <3>5 DEF Lob!LobNext
  <2>2. CASE MatchStep
    <3>1. PICK bid \in Prices, ask \in Prices : MatchStep!(bid, ask)
      BY <2>2 DEF MatchStep
    <3> QED  BY <3>1, MatchStepIsTrade DEF Lob!LobNext
  <2>3. CASE MatchDone
    <3>1. \A b \in Lob!On("buy"), a \in Lob!On("sell") : b.price < a.price
      <4> TAKE b \in Lob!On("buy"), a \in Lob!On("sell")
      <4>1. /\ b \in RestingOf(levels) /\ b.side = "buy"
            /\ a \in RestingOf(levels) /\ a.side = "sell"
        BY <2>0 DEF Lob!On
      <4>2. b \in ToSet(LevelAt(levels["buy"], b.price)) /\ a \in ToSet(LevelAt(levels["sell"], a.price))
        BY <2>0, <4>1, RestingAt DEF Side
      <4>3. b.price \in DOMAIN levels["buy"] /\ a.price \in DOMAIN levels["sell"]
        BY <4>2 DEF LevelAt, ToSet
      <4> QED  BY <2>3, <4>3 DEF MatchDone
    <3>2. UNCHANGED <<Resting, trades>> /\ pc = "matching" /\ pc' = "idle"
      BY <2>3 DEF MatchDone, Resting
    <3> QED  BY <3>1, <3>2 DEF Lob!Settle, Lob!LobNext
  <2>4. ASSUME NEW id \in OrderIds, CancelOrder(id)
        PROVE  Lob!LobNext
    <3>1. RestingOf(levels') = {o \in RestingOf(levels) : o.OrderId # id}
      BY <2>4, IdsUnique, CancelResting
    <3>2. pc = "idle" /\ pc' = pc /\ trades' = trades
      BY <2>4 DEF CancelOrder
    <3> QED  BY <2>0, <3>1, <3>2 DEF Lob!Withdraw, Lob!LobNext
  <2>5. CASE UNCHANGED vars
    BY <2>5 DEF vars, Lob!lobVars, Resting
  <2> QED  BY <2>1, <2>2, <2>3, <2>4, <2>5 DEF Next
<1> QED  BY <1>1, <1>2, ShapeInvInit, ShapeInvNext, AgeInit, AgeNext, IndexInit, IndexNext,
            PTL DEF Spec, PriceTimePriority, Lob!LobSpec

-------------------------------------------------------------------------------
(* Sums over finite sets of trades: MapThenSumSet, by its recursive         *)
(* function.                                                                *)

(* Induction over the natural numbers, for a set of them.                   *)
LEMMA InductionOverNat ==
    ASSUME NEW S, 0 \in S, \A n \in Nat : n \in S => n + 1 \in S
    PROVE  Nat \subseteq S
<1> DEFINE R == OpToRel(<, Nat)
           T == Nat \ S
<1> SUFFICES ASSUME T # {} PROVE FALSE
  OBVIOUS
<1>1. IsWellFoundedOn(R, Nat)
  BY NatLessThanWellFounded
<1>2. PICK t \in T : \A y \in T : ~(<<y, t>> \in R)
  <2>1. T \subseteq Nat
    OBVIOUS
  <2> HIDE DEF R, T
  <2> QED  BY <1>1, <2>1, WFMin
<1>3. t # 0 /\ t - 1 \in Nat /\ t - 1 \notin S /\ t \in Nat
  OBVIOUS
<1>4. t - 1 \in T /\ t - 1 < t
  BY <1>3
<1>5. <<t - 1, t>> \in R
  BY <1>3, <1>4 DEF OpToRel
<1> QED  BY <1>2, <1>4, <1>5

Traded(S) == MapThenSumSet(LAMBDA t : t.qty, S)
Picked(s) == CHOOSE x \in s : TRUE

(* f sums the quantities of each subset of S, one element after another.    *)
Sums(f, S) ==
    f = [s \in SUBSET S |-> IF s = {} THEN 0 ELSE Picked(s).qty + f[s \ {Picked(s)}]]

LEMMA TradedIs == ASSUME NEW S PROVE Traded(S) = (CHOOSE f : Sums(f, S))[S]
  BY DEF Traded, MapThenSumSet, MapThenFoldSet, Sums, Picked

LEMMA PickedIn == ASSUME NEW s, s # {} PROVE Picked(s) \in s
  BY DEF Picked

LEMMA SumsAt ==
    ASSUME NEW f, NEW S, Sums(f, S), NEW s \in SUBSET S
    PROVE  f[s] = IF s = {} THEN 0 ELSE Picked(s).qty + f[s \ {Picked(s)}]
<1>1. f[s] = [u \in SUBSET S |->
                 IF u = {} THEN 0 ELSE Picked(u).qty + f[u \ {Picked(u)}]][s]
  BY DEF Sums
<1> QED  BY <1>1

(* A finite set has such a function: it is built by size, and applying the  *)
(* recursion once more reaches the subsets of the next size.                *)
LEMMA SumsExist ==
    ASSUME NEW S, IsFiniteSet(S)
    PROVE  \E f : Sums(f, S)
<1> DEFINE D(n) == {s \in SUBSET S : Cardinality(s) <= n}
           Part(f, n) == f = [s \in D(n) |->
                                 IF s = {} THEN 0 ELSE Picked(s).qty + f[s \ {Picked(s)}]]
           N == {n \in Nat : \E f : Part(f, n)}
<1>1. \A s \in SUBSET S : IsFiniteSet(s) /\ Cardinality(s) \in Nat
  BY FS_Subset, FS_CardinalityType
<1>2. 0 \in N
  <2> DEFINE f == [s \in D(0) |-> 0]
  <2>1. \A s \in D(0) : s = {}
    <3> TAKE s \in D(0)
    <3>1. Cardinality(s) = 0 /\ IsFiniteSet(s)
      BY <1>1
    <3> QED  BY <3>1, FS_EmptySet
  <2>2. Part(f, 0)
    BY <2>1
  <2> QED  BY <2>2
<1>3. ASSUME NEW n \in Nat, n \in N PROVE n + 1 \in N
  <2>1. PICK f : Part(f, n)
    BY <1>3
  <2> DEFINE g == [s \in D(n + 1) |->
                      IF s = {} THEN 0 ELSE Picked(s).qty + f[s \ {Picked(s)}]]
  <2>2. \A u \in D(n) : u \in D(n + 1) /\ g[u] = f[u]
    <3> TAKE u \in D(n)
    <3>1. u \in D(n + 1)
      BY <1>1
    <3>2. g[u] = IF u = {} THEN 0 ELSE Picked(u).qty + f[u \ {Picked(u)}]
      BY <3>1
    <3>3. f[u] = [s \in D(n) |->
                     IF s = {} THEN 0 ELSE Picked(s).qty + f[s \ {Picked(s)}]][u]
      BY <2>1
    <3>4. f[u] = IF u = {} THEN 0 ELSE Picked(u).qty + f[u \ {Picked(u)}]
      BY <3>3
    <3> QED  BY <3>1, <3>2, <3>4
  <2>3. ASSUME NEW s \in D(n + 1), s # {} PROVE s \ {Picked(s)} \in D(n)
    <3>1. Cardinality(s \ {Picked(s)}) = Cardinality(s) - 1
      BY <1>1, <2>3, PickedIn, FS_RemoveElement
    <3> QED  BY <1>1, <3>1
  <2>4. Part(g, n + 1)
    <3>1. \A s \in D(n + 1) :
             (IF s = {} THEN 0 ELSE Picked(s).qty + f[s \ {Picked(s)}])
           = (IF s = {} THEN 0 ELSE Picked(s).qty + g[s \ {Picked(s)}])
      <4> HIDE DEF g, D
      <4> QED  BY <2>2, <2>3
    <3> DEFINE h == [s \in D(n + 1) |->
                        IF s = {} THEN 0 ELSE Picked(s).qty + g[s \ {Picked(s)}]]
    <3>2. \A s \in D(n + 1) : g[s] = h[s]
      <4> HIDE DEF D
      <4> QED  BY <3>1
    <3>3. g = h
      <4> HIDE DEF D
      <4> QED  BY <3>2
    <3> QED  BY <3>3
  <2> HIDE DEF g, Part
  <2> QED  BY <2>4
<1>4. Nat \subseteq N
  <2> HIDE DEF N
  <2> QED  BY <1>2, <1>3, InductionOverNat
<1>5. Cardinality(S) \in Nat /\ \A s \in SUBSET S : Cardinality(s) <= Cardinality(S)
  BY FS_Subset, FS_CardinalityType
<1>6. D(Cardinality(S)) = SUBSET S
  BY <1>5
<1>7. PICK f : Part(f, Cardinality(S))
  BY <1>4, <1>5
<1> QED  BY <1>6, <1>7 DEF Sums

LEMMA TradedBy ==
    ASSUME NEW S, IsFiniteSet(S)
    PROVE  \E f : Sums(f, S) /\ Traded(S) = f[S]
  BY SumsExist, TradedIs

(* Over common subsets the functions of two sets agree.                     *)
LEMMA SumsAgree ==
    ASSUME NEW S, NEW T, IsFiniteSet(S), S \subseteq T,
           NEW f, NEW g, Sums(f, S), Sums(g, T)
    PROVE  f[S] = g[S]
<1> DEFINE N == {n \in Nat : \A s \in SUBSET S : Cardinality(s) = n => f[s] = g[s]}
<1>1. \A s \in SUBSET S : IsFiniteSet(s) /\ Cardinality(s) \in Nat
  BY FS_Subset, FS_CardinalityType
<1>2. 0 \in N
  <2> SUFFICES ASSUME NEW s \in SUBSET S, Cardinality(s) = 0 PROVE f[s] = g[s]
    OBVIOUS
  <2>1. s = {}
    BY <1>1, FS_EmptySet
  <2>2. f[s] = 0 /\ g[s] = 0
    BY <2>1, SumsAt
  <2> QED  BY <2>2
<1>3. ASSUME NEW n \in Nat, n \in N PROVE n + 1 \in N
  <2> SUFFICES ASSUME NEW s \in SUBSET S, Cardinality(s) = n + 1 PROVE f[s] = g[s]
    OBVIOUS
  <2>1. s # {}
    BY FS_EmptySet
  <2>2. Cardinality(s \ {Picked(s)}) = n
    <3>1. Cardinality(s \ {Picked(s)}) = Cardinality(s) - 1
      BY <1>1, <2>1, PickedIn, FS_RemoveElement
    <3> QED  BY <3>1
  <2>3. f[s \ {Picked(s)}] = g[s \ {Picked(s)}]
    BY <1>3, <2>2
  <2>4. /\ f[s] = Picked(s).qty + f[s \ {Picked(s)}]
        /\ g[s] = Picked(s).qty + g[s \ {Picked(s)}]
    BY <2>1, SumsAt
  <2> QED  BY <2>3, <2>4
<1>4. Nat \subseteq N
  <2> HIDE DEF N
  <2> QED  BY <1>2, <1>3, InductionOverNat
<1> QED  BY <1>1, <1>4

LEMMA SumsType ==
    ASSUME NEW S, IsFiniteSet(S), \A x \in S : x.qty \in Int, NEW f, Sums(f, S),
           NEW s \in SUBSET S
    PROVE  f[s] \in Int
<1> DEFINE N == {n \in Nat : \A u \in SUBSET S : Cardinality(u) = n => f[u] \in Int}
<1>1. \A u \in SUBSET S : IsFiniteSet(u) /\ Cardinality(u) \in Nat
  BY FS_Subset, FS_CardinalityType
<1>2. 0 \in N
  <2> SUFFICES ASSUME NEW u \in SUBSET S, Cardinality(u) = 0 PROVE f[u] \in Int
    OBVIOUS
  <2>1. u = {}
    BY <1>1, FS_EmptySet
  <2>2. f[u] = 0
    BY <2>1, SumsAt
  <2> QED  BY <2>2
<1>3. ASSUME NEW n \in Nat, n \in N PROVE n + 1 \in N
  <2> SUFFICES ASSUME NEW u \in SUBSET S, Cardinality(u) = n + 1 PROVE f[u] \in Int
    OBVIOUS
  <2>1. u # {} /\ Picked(u) \in u
    BY FS_EmptySet, PickedIn
  <2>2. f[u] = Picked(u).qty + f[u \ {Picked(u)}] /\ Picked(u).qty \in Int
    <3>1. Picked(u) \in S
      BY <2>1
    <3>2. Picked(u).qty \in Int
      BY <3>1
    <3>3. f[u] = Picked(u).qty + f[u \ {Picked(u)}]
      BY <2>1, SumsAt
    <3> QED  BY <3>2, <3>3
  <2>3. u \ {Picked(u)} \in SUBSET S /\ Cardinality(u \ {Picked(u)}) = n
    <3> DEFINE p == Picked(u)
    <3> HIDE DEF p
    <3>1. Cardinality(u \ {p}) = IF p \in u THEN Cardinality(u) - 1 ELSE Cardinality(u)
      BY <1>1, FS_RemoveElement
    <3>2. Cardinality(u \ {p}) = n
      BY <2>1, <3>1 DEF p
    <3> QED  BY <3>2 DEF p
  <2>4. f[u \ {Picked(u)}] \in Int
    BY <1>3, <2>3
  <2> QED  BY <2>2, <2>4
<1>4. Nat \subseteq N
  <2> HIDE DEF N
  <2> QED  BY <1>2, <1>3, InductionOverNat
<1> QED  BY <1>1, <1>4

(* Whichever element is taken out first, the sum is the same.               *)
LEMMA SumsAnyOrder ==
    ASSUME NEW S, IsFiniteSet(S), \A x \in S : x.qty \in Int, NEW f, Sums(f, S),
           NEW s \in SUBSET S
    PROVE  \A x \in s : f[s] = x.qty + f[s \ {x}]
<1> DEFINE Splits(u) == \A x \in u : f[u] = x.qty + f[u \ {x}]
           N == {n \in Nat : \A u \in SUBSET S : Cardinality(u) = n => Splits(u)}
<1>1. \A u \in SUBSET S : IsFiniteSet(u) /\ Cardinality(u) \in Nat /\ f[u] \in Int
  BY FS_Subset, FS_CardinalityType, SumsType
<1>2. 0 \in N
  <2> SUFFICES ASSUME NEW u \in SUBSET S, Cardinality(u) = 0 PROVE Splits(u)
    OBVIOUS
  <2>1. u = {}
    BY <1>1, FS_EmptySet
  <2> QED  BY <2>1
<1>3. ASSUME NEW n \in Nat, n \in N PROVE n + 1 \in N
  <2> SUFFICES ASSUME NEW u \in SUBSET S, Cardinality(u) = n + 1, NEW x \in u
               PROVE  f[u] = x.qty + f[u \ {x}]
    OBVIOUS
  <2> DEFINE p == Picked(u)
  <2>1. p \in u
    BY PickedIn
  <2>2. f[u] = p.qty + f[u \ {p}]
    BY <2>1, SumsAt
  <2> HIDE DEF p
  <2>3. \A y \in u : u \ {y} \in SUBSET S /\ Cardinality(u \ {y}) = n
    <3> TAKE y \in u
    <3>1. Cardinality(u \ {y}) = Cardinality(u) - 1
      BY <1>1, FS_RemoveElement
    <3> QED  BY <3>1
  <2>4. \A y \in u : Splits(u \ {y})
    <3> HIDE DEF Splits
    <3> QED  BY <1>3, <2>3
  <2>5. CASE x = p
    BY <2>2, <2>5
  <2>6. CASE x # p
    <3>1. f[u \ {p}] = x.qty + f[(u \ {p}) \ {x}]
      BY <2>1, <2>4, <2>6
    <3>2. f[u \ {x}] = p.qty + f[(u \ {x}) \ {p}]
      BY <2>1, <2>4, <2>6
    <3>3. (u \ {p}) \ {x} = (u \ {x}) \ {p}
      OBVIOUS
    <3>4. f[(u \ {x}) \ {p}] \in Int /\ x.qty \in Int /\ p.qty \in Int
      BY <1>1, <2>1
    <3> DEFINE k == f[(u \ {x}) \ {p}]
    <3>5. f[u \ {p}] = x.qty + k /\ f[u \ {x}] = p.qty + k /\ k \in Int
      BY <3>1, <3>2, <3>3, <3>4
    <3> HIDE DEF k
    <3> QED  BY <2>2, <3>4, <3>5
  <2> QED  BY <2>5, <2>6
<1>4. Nat \subseteq N
  <2> HIDE DEF N
  <2> QED  BY <1>2, <1>3, InductionOverNat
<1> QED  BY <1>1, <1>4

(* The sum of no trades, and of one trade more.                             *)
LEMMA TradedNone == Traded({}) = 0
<1>1. PICK f : Sums(f, {}) /\ Traded({}) = f[{}]
  BY FS_EmptySet, TradedBy
<1>2. f[{}] = 0
  BY <1>1, SumsAt
<1> QED  BY <1>1, <1>2

LEMMA TradedType ==
    ASSUME NEW S, IsFiniteSet(S), \A x \in S : x.qty \in Int
    PROVE  Traded(S) \in Int
<1>1. PICK f : Sums(f, S) /\ Traded(S) = f[S]
  BY TradedBy
<1> QED  BY <1>1, SumsType

LEMMA TradedOneMore ==
    ASSUME NEW S, IsFiniteSet(S), \A x \in S : x.qty \in Int,
           NEW e, e \notin S, e.qty \in Int
    PROVE  Traded(S \cup {e}) = Traded(S) + e.qty
<1> DEFINE T == S \cup {e}
<1>1. IsFiniteSet(T) /\ \A x \in T : x.qty \in Int
  BY FS_AddElement
<1>2. e \in T /\ T \ {e} = S /\ S \subseteq T
  OBVIOUS
<1> HIDE DEF T
<1>3. PICK f : Sums(f, S) /\ Traded(S) = f[S]
  BY TradedBy
<1>4. PICK g : Sums(g, T) /\ Traded(T) = g[T]
  BY <1>1, TradedBy
<1>5. g[T] = e.qty + g[S]
  BY <1>1, <1>2, <1>4, SumsAnyOrder
<1>6. f[S] = g[S] /\ f[S] \in Int
  BY <1>2, <1>3, <1>4, SumsAgree, SumsType
<1>7. Traded(T) = Traded(S) + e.qty
  BY <1>3, <1>4, <1>5, <1>6
<1> QED  BY <1>7 DEF T

-------------------------------------------------------------------------------
(* Conservation: every order is accounted for by the trades and the book.   *)

FilledIn(ts, id) == Traded({t \in ToSet(ts) : id \in {t.buy_order_id, t.sell_order_id}})
Numbered(ts) == \A i \in 1..Len(ts) : ts[i].match_id = i

LEMMA FilledIs == \A id : Filled(id) = FilledIn(trades, id)
  BY DEF Filled, FilledIn, Traded

LEMMA TradesFinite ==
    ASSUME NEW ts \in Seq(TradeEvent), NEW id
    PROVE  LET own == {t \in ToSet(ts) : id \in {t.buy_order_id, t.sell_order_id}}
           IN  IsFiniteSet(own) /\ \A t \in own : t.qty \in Int
<1>1. Len(ts) \in Nat /\ ts \in [1..Len(ts) -> TradeEvent]
      /\ ToSet(ts) = {ts[i] : i \in 1..Len(ts)}
  BY LenProperties DEF ToSet
<1>2. ts \in Surjection(1..Len(ts), ToSet(ts))
  BY <1>1 DEF Surjection
<1>3. IsFiniteSet(ToSet(ts))
  BY <1>1, <1>2, FS_NatSurjection DEF ExistsSurjection
<1>4. \A t \in ToSet(ts) : t.qty \in Int
  BY <1>1, SizesAreInt DEF TradeEvent
<1> QED  BY <1>3, <1>4, FS_Subset

LEMMA FilledType ==
    ASSUME NEW ts \in Seq(TradeEvent), NEW id
    PROVE  FilledIn(ts, id) \in Int
  BY TradesFinite, TradedType DEF FilledIn

(* A trade event adds its quantity to the fills of its two orders.          *)
LEMMA FilledMore ==
    ASSUME NEW ts \in Seq(TradeEvent), Numbered(ts), NEW e \in TradeEvent,
           e.match_id = Len(ts) + 1, NEW id
    PROVE  /\ id \in {e.buy_order_id, e.sell_order_id} =>
                 FilledIn(Append(ts, e), id) = FilledIn(ts, id) + e.qty
           /\ id \notin {e.buy_order_id, e.sell_order_id} =>
                 FilledIn(Append(ts, e), id) = FilledIn(ts, id)
<1> DEFINE Own(q) == {t \in ToSet(q) : id \in {t.buy_order_id, t.sell_order_id}}
           more == Append(ts, e)
<1>1. /\ Len(ts) \in Nat /\ more \in Seq(TradeEvent) /\ Len(more) = Len(ts) + 1
      /\ more[Len(ts) + 1] = e /\ \A i \in 1..Len(ts) : more[i] = ts[i]
  BY AppendProperties, LenProperties
<1> HIDE DEF more
<1>2. ToSet(ts) = {ts[i] : i \in 1..Len(ts)} /\ ToSet(more) = {more[i] : i \in 1..Len(more)}
  BY <1>1, LenProperties DEF ToSet
<1>3. ToSet(more) = ToSet(ts) \cup {e}
  <2>1. 1..Len(more) = 1..Len(ts) \cup {Len(ts) + 1}
    BY <1>1
  <2> QED  BY <1>1, <1>2, <2>1
<1>4. e \notin ToSet(ts)
  <2>1. \A i \in 1..Len(ts) : ts[i].match_id # e.match_id
    BY <1>1 DEF Numbered
  <2> QED  BY <1>2, <2>1
<1>5. IsFiniteSet(Own(ts)) /\ \A t \in Own(ts) : t.qty \in Int
  BY TradesFinite
<1>6. e.qty \in Int
  BY SizesAreInt DEF TradeEvent
<1>7. CASE id \in {e.buy_order_id, e.sell_order_id}
  <2>1. Own(more) = Own(ts) \cup {e} /\ e \notin Own(ts)
    BY <1>3, <1>4, <1>7
  <2> HIDE DEF Own
  <2>2. Traded(Own(more)) = Traded(Own(ts)) + e.qty
    BY <1>5, <1>6, <2>1, TradedOneMore
  <2> QED  BY <1>7, <2>2 DEF FilledIn, Own, more
<1>8. CASE id \notin {e.buy_order_id, e.sell_order_id}
  <2>1. Own(more) = Own(ts)
    BY <1>3, <1>8
  <2> QED  BY <1>8, <2>1 DEF FilledIn, more
<1> QED  BY <1>7, <1>8

(* Sequence numbers and ids name the same orders, in the book and in the    *)
(* trades alike.                                                            *)
Named(R, ts, arr) ==
    /\ R \subseteq Order /\ ts \in Seq(TradeEvent) /\ arr \in Seq(Order)
    /\ Numbered(ts)
    /\ \A k \in 1..Len(arr) : arr[k].seqNo = k
    /\ \A k, l \in 1..Len(arr) : arr[k].OrderId = arr[l].OrderId => k = l
    /\ \A i \in 1..Len(ts) : /\ \E k \in 1..Len(arr) : ts[i].buy_order_id = arr[k].OrderId
                             /\ \E k \in 1..Len(arr) : ts[i].sell_order_id = arr[k].OrderId
    /\ \A r \in R : r.seqNo \in 1..Len(arr) /\ r.OrderId = arr[r.seqNo].OrderId
    /\ \A r, q \in R : r.seqNo = q.seqNo => r = q

(* What an order traded and what rests of it are what was submitted; of one *)
(* that does not rest, everything was traded or the rest was cancelled.     *)
Balanced(R, ts, arr, can) ==
    /\ \A r \in R : /\ r.quantity > 0 \/ r.quantity = arr[r.seqNo].quantity
                    /\ FilledIn(ts, r.OrderId) + r.quantity = arr[r.seqNo].quantity
    /\ \A k \in 1..Len(arr) : (\A r \in R : r.seqNo # k) =>
           \/ FilledIn(ts, arr[k].OrderId) = arr[k].quantity
           \/ /\ arr[k].OrderId \in can
              /\ FilledIn(ts, arr[k].OrderId) < arr[k].quantity \/ FilledIn(ts, arr[k].OrderId) = 0

Accounts(R, ts, arr, can) == Named(R, ts, arr) /\ Balanced(R, ts, arr, can)

(* addOrder: an order with a new id, in full.                               *)
LEMMA ArrivalAccounts ==
    ASSUME NEW R, NEW ts, NEW arr, NEW can, Accounts(R, ts, arr, can),
           NEW o \in Order, o.seqNo = Len(arr) + 1,
           \A k \in 1..Len(arr) : arr[k].OrderId # o.OrderId
    PROVE  Accounts(R \cup {o}, ts, Append(arr, o), can)
<1> DEFINE more == Append(arr, o)
           all  == R \cup {o}
<1>1. /\ Len(arr) \in Nat /\ more \in Seq(Order) /\ Len(more) = Len(arr) + 1
      /\ more[Len(arr) + 1] = o /\ \A k \in 1..Len(arr) : more[k] = arr[k]
  BY AppendProperties, LenProperties DEF Accounts, Named
<1> HIDE DEF more
<1>2. \A k \in 1..Len(more) : k \in 1..Len(arr) \/ k = Len(arr) + 1
  BY <1>1
<1>3. 1..Len(arr) \subseteq 1..Len(more) /\ Len(arr) + 1 \in 1..Len(more)
      /\ Len(arr) + 1 \notin 1..Len(arr)
  BY <1>1
<1>4. o.quantity \in Int
  BY SizesAreInt DEF Order
<1>5. FilledIn(ts, o.OrderId) = 0
  <2>1. \A t \in ToSet(ts) : o.OrderId \notin {t.buy_order_id, t.sell_order_id}
    <3> TAKE t \in ToSet(ts)
    <3>1. PICK i \in 1..Len(ts) : t = ts[i]
      BY LenProperties DEF ToSet, Accounts, Named
    <3>2. /\ \E k \in 1..Len(arr) : ts[i].buy_order_id = arr[k].OrderId
          /\ \E k \in 1..Len(arr) : ts[i].sell_order_id = arr[k].OrderId
      BY DEF Accounts, Named
    <3> QED  BY <3>1, <3>2
  <2>2. {t \in ToSet(ts) : o.OrderId \in {t.buy_order_id, t.sell_order_id}} = {}
    BY <2>1
  <2> QED  BY <2>2, TradedNone DEF FilledIn
<1>6. Named(all, ts, more)
  <2>1. all \subseteq Order /\ ts \in Seq(TradeEvent) /\ Numbered(ts)
    BY DEF Accounts, Named
  <2>2. \A k \in 1..Len(more) : more[k].seqNo = k
    BY <1>1, <1>2 DEF Accounts, Named
  <2>3. \A k, l \in 1..Len(more) : more[k].OrderId = more[l].OrderId => k = l
    BY <1>1, <1>2 DEF Accounts, Named
  <2>4. \A i \in 1..Len(ts) : /\ \E k \in 1..Len(more) : ts[i].buy_order_id = more[k].OrderId
                              /\ \E k \in 1..Len(more) : ts[i].sell_order_id = more[k].OrderId
    <3> TAKE i \in 1..Len(ts)
    <3>1. PICK k \in 1..Len(arr) : ts[i].buy_order_id = arr[k].OrderId
      BY DEF Accounts, Named
    <3>2. PICK l \in 1..Len(arr) : ts[i].sell_order_id = arr[l].OrderId
      BY DEF Accounts, Named
    <3> QED  BY <1>1, <1>3, <3>1, <3>2
  <2>5. \A r \in all : r.seqNo \in 1..Len(more) /\ r.OrderId = more[r.seqNo].OrderId
    BY <1>1, <1>3 DEF Accounts, Named
  <2>6. \A r, q \in all : r.seqNo = q.seqNo => r = q
    BY <1>3 DEF Accounts, Named
  <2> QED  BY <1>1, <2>1, <2>2, <2>3, <2>4, <2>5, <2>6 DEF Named
<1>7. Balanced(all, ts, more, can)
  <2>1. ASSUME NEW r \in all
        PROVE  /\ r.quantity > 0 \/ r.quantity = more[r.seqNo].quantity
               /\ FilledIn(ts, r.OrderId) + r.quantity = more[r.seqNo].quantity
    <3>1. CASE r \in R
      BY <1>1, <3>1 DEF Accounts, Named, Balanced
    <3>2. CASE r = o
      BY <1>1, <1>4, <1>5, <3>2
    <3> QED  BY <3>1, <3>2
  <2>2. ASSUME NEW k \in 1..Len(more), \A r \in all : r.seqNo # k
        PROVE  \/ FilledIn(ts, more[k].OrderId) = more[k].quantity
               \/ /\ more[k].OrderId \in can
                  /\ FilledIn(ts, more[k].OrderId) < more[k].quantity \/ FilledIn(ts, more[k].OrderId) = 0
    <3>1. k \in 1..Len(arr) /\ more[k] = arr[k]
      BY <1>1, <1>2, <2>2
    <3> QED  BY <2>2, <3>1 DEF Accounts, Balanced
  <2> QED  BY <2>1, <2>2 DEF Balanced
<1> QED  BY <1>6, <1>7 DEF Accounts, more

(* cancelOrder: the order that carries the id goes.                         *)
LEMMA CancelAccounts ==
    ASSUME NEW R, NEW ts, NEW arr, NEW can, Accounts(R, ts, arr, can), NEW id
    PROVE  Accounts({o \in R : o.OrderId # id}, ts, arr, can \cup {id})
<1> DEFINE left == {o \in R : o.OrderId # id}
<1>1. Named(left, ts, arr)
  BY DEF Accounts, Named
<1>2. ASSUME NEW k \in 1..Len(arr), \A r \in left : r.seqNo # k
      PROVE  \/ FilledIn(ts, arr[k].OrderId) = arr[k].quantity
             \/ /\ arr[k].OrderId \in can \cup {id}
                /\ FilledIn(ts, arr[k].OrderId) < arr[k].quantity \/ FilledIn(ts, arr[k].OrderId) = 0
  <2>1. CASE \A r \in R : r.seqNo # k
    BY <2>1 DEF Accounts, Balanced
  <2>2. CASE \E r \in R : r.seqNo = k
    <3>1. PICK r \in R : r.seqNo = k
      BY <2>2
    <3>2. r.OrderId = id /\ arr[k].OrderId = id
      BY <1>2, <3>1 DEF Accounts, Named
    <3>3. /\ r.quantity > 0 \/ r.quantity = arr[k].quantity
          /\ FilledIn(ts, arr[k].OrderId) + r.quantity = arr[k].quantity
      BY <3>1, <3>2 DEF Accounts, Balanced
    <3>4. r.quantity \in Int /\ FilledIn(ts, arr[k].OrderId) \in Int
      BY FilledType, SizesAreInt DEF Accounts, Named, Order
    <3> QED  BY <3>2, <3>3, <3>4
  <2> QED  BY <2>1, <2>2
<1>3. Balanced(left, ts, arr, can \cup {id})
  BY <1>2 DEF Accounts, Balanced
<1> QED  BY <1>1, <1>3 DEF Accounts

(* An iteration of matching(): both orders give what they trade.            *)
LEMMA TradeAccounts ==
    ASSUME NEW R, NEW ts, NEW arr, NEW can, Accounts(R, ts, arr, can),
           NEW b \in R, NEW a \in R, b # a, NEW e \in TradeEvent, e.match_id = Len(ts) + 1,
           e.buy_order_id = b.OrderId, e.sell_order_id = a.OrderId,
           e.qty <= b.quantity, e.qty <= a.quantity
    PROVE  Accounts((R \ {b, a}) \cup Rest(b, e.qty) \cup Rest(a, e.qty),
                    Append(ts, e), arr, can)
<1> DEFINE more == Append(ts, e)
           new  == (R \ {b, a}) \cup Rest(b, e.qty) \cup Rest(a, e.qty)
           Less(r, o) == /\ r = Reduced(o, e.qty) /\ r \in Order
                         /\ r.seqNo = o.seqNo /\ r.OrderId = o.OrderId
                         /\ r.quantity = o.quantity - e.qty /\ r.quantity > 0
<1>1. /\ Len(ts) \in Nat /\ more \in Seq(TradeEvent) /\ Len(more) = Len(ts) + 1
      /\ more[Len(ts) + 1] = e /\ \A i \in 1..Len(ts) : more[i] = ts[i]
  BY AppendProperties, LenProperties DEF Accounts, Named
<1>2. b \in Order /\ a \in Order /\ e.qty \in Int
  BY SizesAreInt DEF Accounts, Named, TradeEvent
<1>3. ASSUME NEW o \in Order, e.qty <= o.quantity, NEW r \in Rest(o, e.qty)
      PROVE  Less(r, o)
  <2>1. /\ o.quantity # e.qty /\ r = Reduced(o, e.qty)
        /\ r = [o EXCEPT !.quantity = o.quantity - e.qty]
    BY <1>3 DEF Rest, Reduced
  <2>2. o.quantity \in Int
    BY SizesAreInt DEF Order
  <2>3. o.quantity - e.qty \in Nat /\ o.quantity - e.qty > 0
    BY <1>2, <1>3, <2>1, <2>2
  <2>4. o.quantity - e.qty \in Sizes
    BY <2>3 DEF Sizes
  <2> QED  BY <2>1, <2>3, <2>4 DEF Order
<1>4. /\ b.seqNo # a.seqNo
      /\ \A r, q \in R : r.OrderId = q.OrderId => r = q
  <2>1. \A r \in R : r.seqNo \in 1..Len(arr) /\ r.OrderId = arr[r.seqNo].OrderId
    BY DEF Accounts, Named
  <2>2. \A r, q \in R : r.seqNo = q.seqNo => r = q
    BY DEF Accounts, Named
  <2>3. \A k, l \in 1..Len(arr) : arr[k].OrderId = arr[l].OrderId => k = l
    BY DEF Accounts, Named
  <2> QED  BY <2>1, <2>2, <2>3
<1>5. ASSUME NEW r \in new
      PROVE  \/ r \in R \ {b, a}
             \/ Less(r, b)
             \/ Less(r, a)
  BY <1>2, <1>3
<1>6. /\ e.qty # b.quantity => \E r \in new : Less(r, b)
      /\ e.qty # a.quantity => \E r \in new : Less(r, a)
  <2>1. e.qty # b.quantity => Reduced(b, e.qty) \in Rest(b, e.qty)
    BY DEF Rest
  <2>2. e.qty # a.quantity => Reduced(a, e.qty) \in Rest(a, e.qty)
    BY DEF Rest
  <2> QED  BY <1>2, <1>3, <2>1, <2>2
<1>7. \A id : /\ id \in {b.OrderId, a.OrderId} => FilledIn(more, id) = FilledIn(ts, id) + e.qty
              /\ id \notin {b.OrderId, a.OrderId} => FilledIn(more, id) = FilledIn(ts, id)
  BY FilledMore DEF Accounts, Named
<1>8. R \ {b, a} \subseteq new
  OBVIOUS
<1> HIDE DEF more, new, Less
<1>9. Named(new, more, arr)
  <2>1. Numbered(more)
    <3>1. \A i \in 1..Len(more) : i \in 1..Len(ts) \/ i = Len(ts) + 1
      BY <1>1
    <3>2. Numbered(ts)
      BY DEF Accounts, Named
    <3> QED  BY <1>1, <3>1, <3>2 DEF Numbered
  <2>2. \A i \in 1..Len(more) : /\ \E k \in 1..Len(arr) : more[i].buy_order_id = arr[k].OrderId
                                /\ \E k \in 1..Len(arr) : more[i].sell_order_id = arr[k].OrderId
    <3>1. \A i \in 1..Len(more) : i \in 1..Len(ts) \/ i = Len(ts) + 1
      BY <1>1
    <3>2. /\ \E k \in 1..Len(arr) : e.buy_order_id = arr[k].OrderId
          /\ \E k \in 1..Len(arr) : e.sell_order_id = arr[k].OrderId
      <4>1. /\ b.seqNo \in 1..Len(arr) /\ b.OrderId = arr[b.seqNo].OrderId
            /\ a.seqNo \in 1..Len(arr) /\ a.OrderId = arr[a.seqNo].OrderId
        BY DEF Accounts, Named
      <4> QED  BY <4>1
    <3>3. \A i \in 1..Len(ts) : /\ \E k \in 1..Len(arr) : ts[i].buy_order_id = arr[k].OrderId
                                /\ \E k \in 1..Len(arr) : ts[i].sell_order_id = arr[k].OrderId
      BY DEF Accounts, Named
    <3> QED  BY <1>1, <3>1, <3>2, <3>3
  <2>3. \A r \in R : r \in Order /\ r.seqNo \in 1..Len(arr) /\ r.OrderId = arr[r.seqNo].OrderId
    BY DEF Accounts, Named
  <2>4. \A r \in new : r \in Order /\ r.seqNo \in 1..Len(arr) /\ r.OrderId = arr[r.seqNo].OrderId
    BY <1>5, <2>3 DEF Less
  <2>5. \A r, q \in new : r.seqNo = q.seqNo => r = q
    <3>1. ASSUME NEW o \in R, NEW r, NEW q, Less(r, o), Less(q, o) PROVE r = q
      BY <3>1 DEF Less
    <3>2. \A r, q \in R : r.seqNo = q.seqNo => r = q
      BY DEF Accounts, Named
    <3> QED  BY <1>4, <1>5, <3>1, <3>2 DEF Less
  <2> QED  BY <1>1, <2>1, <2>2, <2>4, <2>5 DEF Accounts, Named
<1>10. Balanced(new, more, arr, can)
  <2>1. \A r \in R : /\ r \in Order /\ r.seqNo \in 1..Len(arr) /\ r.OrderId = arr[r.seqNo].OrderId
                     /\ r.quantity \in Int /\ FilledIn(ts, r.OrderId) \in Int
    BY FilledType, SizesAreInt DEF Accounts, Named, Order
  <2>2. \A r \in R : /\ r.quantity > 0 \/ r.quantity = arr[r.seqNo].quantity
                     /\ FilledIn(ts, r.OrderId) + r.quantity = arr[r.seqNo].quantity
    BY DEF Accounts, Balanced
  <2>3. ASSUME NEW o \in {b, a}, NEW r, Less(r, o)
        PROVE  /\ r.quantity > 0
               /\ FilledIn(more, r.OrderId) + r.quantity = arr[r.seqNo].quantity
    <3>1. /\ r.seqNo = o.seqNo /\ r.OrderId = o.OrderId
          /\ r.quantity = o.quantity - e.qty /\ r.quantity > 0
      BY <2>3 DEF Less
    <3>2. FilledIn(more, r.OrderId) = FilledIn(ts, o.OrderId) + e.qty
      BY <1>7, <3>1
    <3>3. FilledIn(ts, o.OrderId) + o.quantity = arr[r.seqNo].quantity
      BY <2>2, <3>1
    <3>4. o.quantity \in Int /\ FilledIn(ts, o.OrderId) \in Int
      BY <2>1
    <3> QED  BY <1>2, <3>1, <3>2, <3>3, <3>4
  <2>4. \A r \in new : /\ r.quantity > 0 \/ r.quantity = arr[r.seqNo].quantity
                       /\ FilledIn(more, r.OrderId) + r.quantity = arr[r.seqNo].quantity
    <3> TAKE r \in new
    <3>1. CASE r \in R \ {b, a}
      <4>1. r.OrderId \notin {b.OrderId, a.OrderId}
        BY <1>4, <3>1
      <4>2. FilledIn(more, r.OrderId) = FilledIn(ts, r.OrderId)
        BY <1>7, <4>1
      <4> QED  BY <2>2, <3>1, <4>2
    <3>2. CASE Less(r, b) \/ Less(r, a)
      BY <2>3, <3>2
    <3> QED  BY <1>5, <3>1, <3>2
  <2>5. ASSUME NEW k \in 1..Len(arr), \A r \in new : r.seqNo # k
        PROVE  \/ FilledIn(more, arr[k].OrderId) = arr[k].quantity
               \/ /\ arr[k].OrderId \in can
                  /\ FilledIn(more, arr[k].OrderId) < arr[k].quantity \/ FilledIn(more, arr[k].OrderId) = 0
    <3>1. ASSUME NEW o \in {b, a}, o.seqNo = k
          PROVE  FilledIn(more, arr[k].OrderId) = arr[k].quantity
      <4>1. e.qty = o.quantity
        BY <1>6, <2>5, <3>1 DEF Less
      <4>2. o.OrderId = arr[k].OrderId /\ FilledIn(ts, o.OrderId) + o.quantity = arr[k].quantity
        BY <2>1, <2>2, <3>1
      <4>3. FilledIn(more, o.OrderId) = FilledIn(ts, o.OrderId) + e.qty
        BY <1>7
      <4> QED  BY <4>1, <4>2, <4>3
    <3>2. CASE b.seqNo # k /\ a.seqNo # k
      <4>1. \A r \in R : r.seqNo # k
        BY <1>8, <2>5, <3>2
      <4>2. arr[k].OrderId \notin {b.OrderId, a.OrderId}
        <5>1. \A l \in 1..Len(arr) : arr[k].OrderId = arr[l].OrderId => k = l
          BY DEF Accounts, Named
        <5> QED  BY <2>1, <3>2, <5>1
      <4>3. FilledIn(more, arr[k].OrderId) = FilledIn(ts, arr[k].OrderId)
        BY <1>7, <4>2
      <4> QED  BY <4>1, <4>3 DEF Accounts, Balanced
    <3> QED  BY <3>1, <3>2
  <2> QED  BY <2>4, <2>5 DEF Balanced
<1> QED  BY <1>9, <1>10 DEF Accounts, more, new

FillInv == IdsUnique => Accounts(Resting, trades, arrived, cancelled)

LEMMA FillInit == Init => FillInv
<1> SUFFICES ASSUME Init PROVE Accounts(Resting, trades, arrived, cancelled)
  BY DEF FillInv
<1>1. Resting = {} /\ trades = << >> /\ arrived = << >>
  BY DEF Init, Resting, Side
<1> QED  BY <1>1, EmptySeq DEF Accounts, Named, Balanced, Numbered

LEMMA FillNext ==
    ShapeInv /\ AgeOfLevels /\ IndexInv /\ FillInv /\ [Next]_vars => FillInv'
<1> SUFFICES ASSUME ShapeInv, AgeOfLevels, IndexInv, IdsUnique, [Next]_vars,
                    Accounts(Resting, trades, arrived, cancelled)
             PROVE  Accounts(Resting, trades, arrived, cancelled)'
  BY DEF FillInv
<1>0. /\ BookShape(levels) /\ AgeInv(levels, Len(arrived)) /\ arrived \in Seq(Order)
      /\ Len(arrived) \in Nat
      /\ Resting = RestingOf(levels) /\ Resting' = RestingOf(levels')
  BY ShapeInvParts, RestingIs, LenProperties
     DEF AgeOfLevels, ShapeInv, TypeOK, Resting, RestingOf
<1>1. ASSUME NEW id \in OrderIds, NEW side \in Side, NEW price \in Prices,
             NEW qty \in Quantities, Submit(id, side, price, qty)
      PROVE  Accounts(Resting, trades, arrived, cancelled)'
  <2> DEFINE o == [OrderId |-> id, quantity |-> Narrowed(qty), side |-> side, price |-> price,
                   seqNo |-> Len(arrived) + 1]
  <2>1. o \in Order /\ o.seqNo = Len(arrived) + 1
    BY <1>0, BookAssumption DEF Order, Sizes
  <2>2. \A k \in 1..Len(arrived) : arrived[k].OrderId # o.OrderId
    <3>1. id \notin IdsSeen
      BY <1>1 DEF Submit
    <3>2. DOMAIN arrived = 1..Len(arrived)
      BY <1>0, LenProperties
    <3> QED  BY <3>1, <3>2 DEF IdsSeen
  <2>3. /\ levels' = Replace(levels, o.side, o.price, Append(LevelAt(levels[o.side], o.price), o))
        /\ arrived' = Append(arrived, o) /\ trades' = trades /\ cancelled' = cancelled
    BY <1>1 DEF Submit, AddOrder, Replace
  <2> HIDE DEF o
  <2>4. Resting' = Resting \cup {o}
    BY <1>0, <2>1, <2>3, AddResting
  <2>5. Accounts(Resting \cup {o}, trades, Append(arrived, o), cancelled)
    BY <2>1, <2>2, ArrivalAccounts
  <2> QED  BY <2>3, <2>4, <2>5
<1>2. CASE MatchStep
  <2>1. PICK bid \in Prices, ask \in Prices : MatchStep!(bid, ask)
    BY <1>2 DEF MatchStep
  <2>2. PICK b \in Lob!On("buy"), a \in Lob!On("sell") : Lob!Trade(b, a)
    BY <2>1, MatchStepIsTrade
  <2> DEFINE qty == IF b.quantity < a.quantity THEN b.quantity ELSE a.quantity
             e == [match_id |-> Len(trades) + 1,
                   buy_order_id |-> b.OrderId, sell_order_id |-> a.OrderId,
                   taker |-> (IF b.seqNo > a.seqNo THEN b ELSE a).seqNo,
                   price |-> (IF b.seqNo < a.seqNo THEN b ELSE a).price, qty |-> qty]
  <2>3. b \in Resting /\ a \in Resting /\ b # a
    BY <2>2 DEF Lob!On
  <2>4. b \in Order /\ a \in Order /\ trades \in Seq(TradeEvent)
    BY <2>3 DEF Accounts, Named
  <2>5. /\ Resting' = (Resting \ {b, a}) \cup Lob!Remainder(b, qty) \cup Lob!Remainder(a, qty)
        /\ trades' = Append(trades, e)
    BY <2>2 DEF Lob!Trade
  <2>6. /\ Lob!Remainder(b, qty) = Rest(b, qty) /\ Lob!Remainder(a, qty) = Rest(a, qty)
    BY DEF Lob!Remainder, Rest, Reduced
  <2>7. qty \in Sizes /\ qty <= b.quantity /\ qty <= a.quantity
    BY <2>4, SizesAreInt DEF Order
  <2>8. /\ e \in TradeEvent /\ e.match_id = Len(trades) + 1 /\ e.qty = qty
        /\ e.buy_order_id = b.OrderId /\ e.sell_order_id = a.OrderId
    BY <2>4, <2>7, LenProperties DEF TradeEvent, Order
  <2>9. arrived' = arrived /\ cancelled' = cancelled
    BY <1>2 DEF MatchStep
  <2> HIDE DEF e, qty
  <2>10. Accounts((Resting \ {b, a}) \cup Rest(b, e.qty) \cup Rest(a, e.qty),
                  Append(trades, e), arrived, cancelled)
    BY <2>3, <2>7, <2>8, TradeAccounts
  <2> QED  BY <2>5, <2>6, <2>8, <2>9, <2>10
<1>3. CASE MatchDone
  BY <1>3 DEF MatchDone, Resting
<1>4. ASSUME NEW id \in OrderIds, CancelOrder(id)
      PROVE  Accounts(Resting, trades, arrived, cancelled)'
  <2>1. Resting' = {o \in Resting : o.OrderId # id}
    BY <1>0, <1>4, CancelResting
  <2>2. arrived' = arrived /\ trades' = trades /\ cancelled' = cancelled \cup {id}
    BY <1>4 DEF CancelOrder
  <2> QED  BY <2>1, <2>2, CancelAccounts
<1>5. CASE UNCHANGED vars
  BY <1>5 DEF vars, Resting
<1> QED  BY <1>1, <1>2, <1>3, <1>4, <1>5 DEF Next

LEMMA FillInvParts ==
    ASSUME Accounts(Resting, trades, arrived, cancelled)
    PROVE  FillsAddUp
<1> SUFFICES ASSUME NEW k \in DOMAIN arrived
             PROVE  LET order == arrived[k]
                        left  == {r \in Resting : r.seqNo = k}
                    IN  IF left = {}
                        THEN \/ Filled(order.OrderId) = order.quantity
                             \/ /\ order.OrderId \in cancelled
                                /\ Filled(order.OrderId) < order.quantity \/ Filled(order.OrderId) = 0
                        ELSE \A r \in left :
                                /\ r.quantity > 0 \/ r.quantity = order.quantity
                                /\ Filled(order.OrderId) + r.quantity = order.quantity
  BY DEF FillsAddUp
<1> DEFINE left == {r \in Resting : r.seqNo = k}
<1>1. k \in 1..Len(arrived)
  BY LenProperties DEF Accounts, Named
<1>2. Filled(arrived[k].OrderId) = FilledIn(trades, arrived[k].OrderId)
  BY FilledIs
<1>3. CASE left = {}
  <2>1. \A r \in Resting : r.seqNo # k
    BY <1>3
  <2>2. \/ FilledIn(trades, arrived[k].OrderId) = arrived[k].quantity
        \/ /\ arrived[k].OrderId \in cancelled
           /\ FilledIn(trades, arrived[k].OrderId) < arrived[k].quantity \/ FilledIn(trades, arrived[k].OrderId) = 0
    BY <1>1, <2>1 DEF Accounts, Balanced
  <2> QED  BY <1>2, <1>3, <2>2
<1>4. CASE left # {}
  <2>1. ASSUME NEW r \in left
        PROVE  /\ r.quantity > 0 \/ r.quantity = arrived[k].quantity
               /\ Filled(arrived[k].OrderId) + r.quantity = arrived[k].quantity
    <3>1. r \in Resting /\ r.seqNo = k
      OBVIOUS
    <3>2. r.OrderId = arrived[k].OrderId
      BY <3>1 DEF Accounts, Named
    <3> QED  BY <1>2, <3>1, <3>2 DEF Accounts, Balanced
  <2> QED  BY <1>4, <2>1
<1> QED  BY <1>3, <1>4

(* Conservation: what the trade events say an order traded and what is left *)
(* of it in the book add up to what was submitted, through every partial    *)
(* fill, sweep and cancellation of matching() and cancelOrder, as long as   *)
(* the clients do not reuse an id.                                          *)
THEOREM FillsAlwaysAddUp == ASSUME IdsUnique PROVE Spec => []FillsAddUp
<1>1. FillInv => FillsAddUp
  BY IdsUnique, FillInvParts DEF FillInv
<1> QED  BY <1>1, FillInit, FillNext, ShapeInvInit, ShapeInvNext, AgeInit, AgeNext,
            IndexInit, IndexNext, PTL DEF Spec

===============================================================================
