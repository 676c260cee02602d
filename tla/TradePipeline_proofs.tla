------------------------- MODULE TradePipeline_proofs -------------------------
(***************************************************************************)
(* Proofs for the pipeline, for every number of orders, every price and    *)
(* quantity, and wherever the scoring engine joins the stream:             *)
(*   HonestNeverPunished   as long as no slip happens, an engine with      *)
(*                         price-time priority is never found guilty       *)
(*   AcceptedRunUnbroken   until the engine restarts, what the scoring     *)
(*                         engine accepts is an unbroken run of the trades *)
(*                                                                         *)
(* For the first: the scoring engine compares an event with the one before *)
(* it and knows nothing of the book.  The strengthening relates the two:   *)
(* what the last event says, and which orders can still trade next         *)
(* (LastInv); for that, only the order that arrived last can cross the     *)
(* other side (CrossInv).  For the second: every event in the partition    *)
(* tells the trade its match_id points at (Telling), also after losses.    *)
(***************************************************************************)
EXTENDS TradePipeline, SequenceTheorems, TLAPS

Entry == [OrderId : OrderIds, quantity : Nat \ {0}, side : {"buy", "sell"},
          price : Nat \ {0}, seqNo : Nat \ {0}]
Arrival == [id : OrderIds, t0 : Nat, t1 : Nat]
TradeRecord == [match_id : Nat, buy_order_id : OrderIds, sell_order_id : OrderIds,
                taker : Nat, price : Nat, qty : Nat]
EventRecord == [match_id : Nat, buy_order_id : OrderIds, sell_order_id : OrderIds,
                t0 : Nat, t1 : Nat, t2 : Nat, price : Nat, qty : Nat]

(* The orders that arrived have ids of their own and sound times; an order  *)
(* in the book is one of them.                                              *)
BookInv ==
    /\ arrived \in Seq(Arrival) /\ now \in Nat \ {0} /\ pc \in {"idle", "matching"}
    /\ \A i \in 1..Len(arrived) :
          /\ arrived[i].id # ZeroId
          /\ 1 <= arrived[i].t0 /\ arrived[i].t0 <= arrived[i].t1 /\ arrived[i].t1 <= now
    /\ \A i, j \in 1..Len(arrived) : arrived[i].id = arrived[j].id => i = j
    /\ resting \subseteq Entry
    /\ \A o \in resting : o.seqNo \in 1..Len(arrived) /\ arrived[o.seqNo].id = o.OrderId
    /\ \A o, r \in resting : o.seqNo = r.seqNo => o = r

(* A bid and an ask that cross are being matched, and one of them is the    *)
(* order that arrived last.                                                 *)
CrossInv ==
    \A b \in On("buy"), a \in On("sell") :
        b.price >= a.price => pc = "matching" /\ Len(arrived) \in {b.seqNo, a.seqNo}

(* The partition holds one sound event per trade.                           *)
LogInv ==
    /\ trades \in Seq(TradeRecord) /\ log \in Seq(EventRecord) /\ Len(log) = Len(trades)
    /\ \A i \in 1..Len(log) : log[i].match_id = i /\ ~Malformed(log[i]) /\ log[i].t2 <= now
    /\ \A i \in 1..(Len(log) - 1) : /\ ~Retrograde(log[i], log[i + 1])
                                    /\ ~PassedOver(log[i], log[i + 1])

(* If the buyer of the last trade still rests, the trade was no dearer than *)
(* its limit, and no older ask is cheaper than the trade was: it would have *)
(* traded instead.  The same for the seller.                                *)
LastInv ==
    LET e == log[Len(log)]
    IN  Len(log) > 0 =>
          /\ \A b \in On("buy") : b.OrderId = e.buy_order_id =>
                /\ e.price <= b.price
                /\ \A r \in On("sell") : r.seqNo < b.seqNo => e.price <= r.price
          /\ \A a \in On("sell") : a.OrderId = e.sell_order_id =>
                /\ a.price <= e.price
                /\ \A r \in On("buy") : r.seqNo < a.seqNo => r.price <= e.price
          /\ \E i, j \in 1..Len(arrived) : /\ arrived[i].id = e.buy_order_id
                                           /\ arrived[j].id = e.sell_order_id

(* The scoring engine has accepted what follows the place where it joined.  *)
JudgeInv ==
    /\ correctness = "PASSED"
    /\ joined \in Int /\ joined >= -1 /\ accepted \in Seq(EventRecord)
    /\ joined = -1 => accepted = << >>
    /\ joined >= 0 => joined + Len(accepted) <= Len(log)
    /\ \A i \in 1..Len(accepted) : accepted[i] = log[joined + i]

HonestInv ==
    /\ slips \in Seq(Slips)
    /\ slips = << >> => BookInv /\ CrossInv /\ LogInv /\ LastInv /\ JudgeInv

LEMMA HonestInit == Init => HonestInv
  BY DEF Init, LobInit, HonestInv, BookInv, CrossInv, LogInv, LastInv, JudgeInv, On

-------------------------------------------------------------------------------
(* Orders arrive. *)

LEMMA SubmitBook ==
    ASSUME NEW id \in OrderIds, NEW side \in {"buy", "sell"}, NEW price \in Prices,
           NEW qty \in Quantities, NEW t0 \in Stamps,
           BookInv, Submit(id, side, price, qty, t0)
    PROVE  BookInv'
<1> DEFINE n     == Len(arrived)
           order == [OrderId |-> id, quantity |-> qty, side |-> side, price |-> price,
                     seqNo |-> n + 1]
           entry == [id |-> id, t0 |-> t0, t1 |-> now']
<1>1. /\ resting' = resting \cup {order} /\ arrived' = Append(arrived, entry)
      /\ pc' = "matching" /\ now' \in now..MaxTime
      /\ Fresh(id) /\ id # ZeroId /\ price > 0 /\ qty > 0 /\ t0 \in 1..now'
  BY DEF Submit, Enter, Arrive, ReadClock, Sound
<1>2. /\ n \in Nat /\ now' \in Nat \ {0} /\ now <= now' /\ order \in Entry /\ entry \in Arrival
  BY <1>1, PipelineAssumption, LenProperties DEF BookInv, Entry, Arrival
<1>3. /\ arrived' \in Seq(Arrival) /\ Len(arrived') = n + 1 /\ arrived'[n + 1] = entry
      /\ \A i \in 1..n : arrived'[i] = arrived[i]
  BY <1>1, <1>2, AppendProperties DEF BookInv
<1>4. \A i \in 1..(n + 1) : i \in 1..n \/ i = n + 1
  BY <1>2
<1>5. \A i \in 1..n : arrived[i].id # id
  BY <1>1, LenProperties DEF Fresh, BookInv
<1> HIDE DEF order
<1>6. \A i \in 1..(n + 1) : /\ arrived'[i].id # ZeroId
                            /\ 1 <= arrived'[i].t0 /\ arrived'[i].t0 <= arrived'[i].t1
                            /\ arrived'[i].t1 <= now'
  <2> TAKE i \in 1..(n + 1)
  <2>1. CASE i \in 1..n
    <3>1. arrived[i] \in Arrival
      BY <2>1, ElementOfSeq DEF BookInv
    <3>2. arrived[i].t0 \in Nat /\ arrived[i].t1 \in Nat
      BY <3>1 DEF Arrival
    <3>3. /\ arrived[i].id # ZeroId /\ arrived[i].t1 <= now /\ now \in Nat
          /\ 1 <= arrived[i].t0 /\ arrived[i].t0 <= arrived[i].t1
      BY <2>1 DEF BookInv
    <3>4. arrived[i].t1 <= now'
      BY ONLY <1>2, <3>2, <3>3
    <3> QED  BY <1>3, <2>1, <3>3, <3>4
  <2>2. CASE i = n + 1
    BY <1>1, <1>2, <1>3, <2>2, PipelineAssumption
  <2> QED  BY <1>4, <2>1, <2>2
<1>7. \A i, j \in 1..(n + 1) : arrived'[i].id = arrived'[j].id => i = j
  <2> TAKE i, j \in 1..(n + 1)
  <2> QED  BY <1>3, <1>4, <1>5 DEF BookInv
<1>8. order.seqNo = n + 1 /\ order.OrderId = id
  BY DEF order
<1>9. \A o \in resting' : o.seqNo \in 1..(n + 1) /\ arrived'[o.seqNo].id = o.OrderId
  BY <1>1, <1>2, <1>3, <1>8 DEF BookInv
<1>10. \A o, r \in resting' : o.seqNo = r.seqNo => o = r
  <2>1. \A o \in resting : o.seqNo # n + 1
    BY <1>2 DEF BookInv
  <2> QED  BY <1>1, <1>8, <2>1 DEF BookInv
<1> QED  BY <1>1, <1>2, <1>3, <1>6, <1>7, <1>9, <1>10 DEF BookInv

LEMMA SubmitRest ==
    ASSUME NEW id \in OrderIds, NEW side \in {"buy", "sell"}, NEW price \in Prices,
           NEW qty \in Quantities, NEW t0 \in Stamps,
           BookInv, CrossInv, LogInv, LastInv, Submit(id, side, price, qty, t0)
    PROVE  CrossInv' /\ LogInv' /\ LastInv'
<1> DEFINE n     == Len(arrived)
           order == [OrderId |-> id, quantity |-> qty, side |-> side, price |-> price,
                     seqNo |-> n + 1]
           entry == [id |-> id, t0 |-> t0, t1 |-> now']
<1>1. /\ resting' = resting \cup {order} /\ arrived' = Append(arrived, entry)
      /\ pc = "idle" /\ pc' = "matching" /\ now' \in now..MaxTime /\ Fresh(id)
      /\ UNCHANGED <<trades, log>>
  BY DEF Submit, Enter, Arrive, ReadClock, Sound
<1>2. n \in Nat /\ now' \in Nat /\ now <= now' /\ entry \in Arrival
  BY <1>1, PipelineAssumption, LenProperties DEF BookInv, Arrival
<1>3. /\ Len(arrived') = n + 1 /\ \A i \in 1..n : arrived'[i] = arrived[i]
  BY <1>1, <1>2, AppendProperties DEF BookInv
<1>4. \A i \in 1..n : arrived[i].id # id
  BY <1>1, LenProperties DEF Fresh, BookInv
<1>5. order.seqNo = n + 1 /\ order.OrderId = id
  OBVIOUS
<1> HIDE DEF order
<1>6. CrossInv'
  <2> SUFFICES ASSUME NEW b \in On("buy")', NEW a \in On("sell")', b.price >= a.price
               PROVE  Len(arrived') \in {b.seqNo, a.seqNo}
    BY <1>1 DEF CrossInv
  <2>1. b = order \/ a = order \/ (b \in On("buy") /\ a \in On("sell"))
    BY <1>1 DEF On
  <2>2. ~(b \in On("buy") /\ a \in On("sell"))
    BY <1>1 DEF CrossInv
  <2> QED  BY <1>3, <1>5, <2>1, <2>2
<1>7. LogInv'
  <2>1. \A i \in 1..Len(log) : log[i].t2 \in Nat
    <3> TAKE i \in 1..Len(log)
    <3>1. log[i] \in EventRecord
      BY ElementOfSeq DEF LogInv
    <3> QED  BY <3>1 DEF EventRecord
  <2>2. now \in Nat
    BY DEF BookInv
  <2>3. \A i \in 1..Len(log) : log[i].t2 <= now
    BY DEF LogInv
  <2>4. \A i \in 1..Len(log) : log[i].t2 <= now'
    BY ONLY <1>2, <2>1, <2>2, <2>3
  <2> QED  BY <1>1, <2>4 DEF LogInv, Malformed, Retrograde, PassedOver
<1>8. LastInv'
  <2> DEFINE e == log[Len(log)]
  <2> SUFFICES ASSUME Len(log) > 0
               PROVE  LastInv'
    BY <1>1 DEF LastInv
  <2>1. PICK i \in 1..n : \E j \in 1..n : arrived[i].id = e.buy_order_id
                                          /\ arrived[j].id = e.sell_order_id
    BY DEF LastInv
  <2>2. PICK j \in 1..n : arrived[j].id = e.sell_order_id
    BY <2>1
  <2>3. id # e.buy_order_id /\ id # e.sell_order_id
    BY <1>4, <2>1, <2>2
  <2>4. \A o \in resting : o.seqNo < n + 1
    BY <1>2 DEF BookInv
  <2>5. /\ \A b \in On("buy")' : b.OrderId = e.buy_order_id => b \in On("buy")
        /\ \A a \in On("sell")' : a.OrderId = e.sell_order_id => a \in On("sell")
    BY <1>1, <1>5, <2>3 DEF On
  <2>6. ASSUME NEW b \in On("buy")', b.OrderId = e.buy_order_id
        PROVE  /\ e.price <= b.price
               /\ \A r \in On("sell")' : r.seqNo < b.seqNo => e.price <= r.price
    <3>1. b \in On("buy") /\ b \in resting
      BY <2>5, <2>6 DEF On
    <3>2. \A r \in On("sell")' : r.seqNo < b.seqNo => r \in On("sell")
      <4> TAKE r \in On("sell")'
      <4>1. b.seqNo \in Nat /\ b.seqNo < n + 1
        BY <2>4, <3>1 DEF BookInv
      <4> QED  BY <1>1, <1>2, <1>5, <4>1 DEF On
    <3> QED  BY <2>6, <3>1, <3>2 DEF LastInv
  <2>7. ASSUME NEW a \in On("sell")', a.OrderId = e.sell_order_id
        PROVE  /\ a.price <= e.price
               /\ \A r \in On("buy")' : r.seqNo < a.seqNo => r.price <= e.price
    <3>1. a \in On("sell") /\ a \in resting
      BY <2>5, <2>7 DEF On
    <3>2. \A r \in On("buy")' : r.seqNo < a.seqNo => r \in On("buy")
      <4> TAKE r \in On("buy")'
      <4>1. a.seqNo \in Nat /\ a.seqNo < n + 1
        BY <2>4, <3>1 DEF BookInv
      <4> QED  BY <1>1, <1>2, <1>5, <4>1 DEF On
    <3> QED  BY <2>7, <3>1, <3>2 DEF LastInv
  <2>8. i \in 1..(n + 1) /\ j \in 1..(n + 1) /\ arrived'[i].id = e.buy_order_id
        /\ arrived'[j].id = e.sell_order_id
    BY <1>2, <1>3, <2>1, <2>2
  <2> QED  BY <1>1, <1>3, <2>6, <2>7, <2>8 DEF LastInv
<1> QED  BY <1>6, <1>7, <1>8

-------------------------------------------------------------------------------
(* A trade. *)

Same(o, r) ==
    o.OrderId = r.OrderId /\ o.side = r.side /\ o.price = r.price /\ o.seqNo = r.seqNo

LEMMA RemainderFacts ==
    ASSUME NEW o \in Entry, NEW qty \in Nat \ {0}, qty <= o.quantity
    PROVE  /\ \A r \in Remainder(o, qty) : r \in Entry /\ Same(r, o)
           /\ \A r, s \in Remainder(o, qty) : r = s
<1>1. CASE o.quantity = qty
  BY <1>1 DEF Remainder
<1>2. CASE o.quantity # qty
  <2> DEFINE r == [o EXCEPT !.quantity = @ - qty]
  <2>1. Remainder(o, qty) = {r}
    BY <1>2 DEF Remainder
  <2>2. o.quantity \in Nat /\ o.quantity - qty \in Nat \ {0}
    BY <1>2 DEF Entry
  <2>3. r \in Entry /\ Same(r, o)
    BY <2>2 DEF Entry, Same
  <2> QED  BY <2>1, <2>3
<1> QED  BY <1>1, <1>2

(* Whatever rests after a trade rested before it, but for its quantity. *)
LEMMA MatchResting ==
    ASSUME BookInv, NEW b \in On("buy"), NEW a \in On("sell"), Match(b, a)
    PROVE  /\ resting' \subseteq Entry
           /\ \A r \in resting' : \E o \in resting : Same(r, o)
           /\ \A r, s \in resting' : r.seqNo = s.seqNo => r = s
<1> DEFINE qty == IF b.quantity < a.quantity THEN b.quantity ELSE a.quantity
<1>1. resting' = (resting \ {b, a}) \cup Remainder(b, qty) \cup Remainder(a, qty)
  BY DEF Match, Trade
<1>2. b \in resting /\ a \in resting /\ b # a /\ b \in Entry /\ a \in Entry
  BY DEF On, BookInv
<1>3. qty \in Nat \ {0} /\ qty <= b.quantity /\ qty <= a.quantity
  BY <1>2 DEF Entry
<1> HIDE DEF qty
<1>4. /\ \A r \in Remainder(b, qty) : r \in Entry /\ Same(r, b)
      /\ \A r, s \in Remainder(b, qty) : r = s
  BY ONLY <1>2, <1>3, RemainderFacts
<1>5. /\ \A r \in Remainder(a, qty) : r \in Entry /\ Same(r, a)
      /\ \A r, s \in Remainder(a, qty) : r = s
  BY ONLY <1>2, <1>3, RemainderFacts
<1>6. \A r \in resting : Same(r, r)
  BY DEF Same
<1>7. /\ resting \subseteq Entry
      /\ \A o, r \in resting : o.seqNo = r.seqNo => o = r
  BY DEF BookInv
<1>8. resting' \subseteq Entry
  BY ONLY <1>1, <1>4, <1>5, <1>7
<1>9. \A r \in resting' : \E o \in resting : Same(r, o)
  BY ONLY <1>1, <1>2, <1>4, <1>5, <1>6
<1>10. ASSUME NEW r \in resting', NEW s \in resting', r.seqNo = s.seqNo
       PROVE  r = s
  <2>1. /\ \A x \in Remainder(b, qty) : x.seqNo = b.seqNo
        /\ \A x \in Remainder(a, qty) : x.seqNo = a.seqNo
    BY <1>4, <1>5 DEF Same
  <2>2. /\ \A x \in resting \ {b, a} : x.seqNo # b.seqNo /\ x.seqNo # a.seqNo
        /\ a.seqNo # b.seqNo
    BY ONLY <1>2, <1>7
  <2> QED  BY ONLY <1>1, <1>4, <1>5, <1>7, <1>10, <2>1, <2>2
<1> QED  BY <1>8, <1>9, <1>10

LEMMA MatchBook ==
    ASSUME BookInv, CrossInv, NEW b \in On("buy"), NEW a \in On("sell"), Match(b, a)
    PROVE  BookInv' /\ CrossInv'
<1>1. /\ resting' \subseteq Entry
      /\ \A r \in resting' : \E o \in resting : Same(r, o)
      /\ \A r, s \in resting' : r.seqNo = s.seqNo => r = s
  BY MatchResting
<1>2. /\ pc = "matching" /\ pc' = pc /\ now' \in now..MaxTime /\ UNCHANGED arrived
  BY DEF Match, Trade, ReadClock
<1>3. now \in Nat \ {0} /\ now' \in Nat \ {0} /\ now <= now'
  BY <1>2, PipelineAssumption DEF BookInv
<1>4. \A i \in 1..Len(arrived) :
          /\ arrived[i].id # ZeroId
          /\ 1 <= arrived[i].t0 /\ arrived[i].t0 <= arrived[i].t1
          /\ arrived[i].t1 <= now'
  <2> TAKE i \in 1..Len(arrived)
  <2>1. arrived[i] \in Arrival
    BY ElementOfSeq DEF BookInv
  <2>2. arrived[i].t1 \in Nat /\ arrived[i].t1 <= now
    BY <2>1 DEF Arrival, BookInv
  <2>3. arrived[i].t1 <= now'
    BY ONLY <1>3, <2>2
  <2> QED  BY <2>3 DEF BookInv
<1>5. \A o \in resting' : o.seqNo \in 1..Len(arrived) /\ arrived[o.seqNo].id = o.OrderId
  BY <1>1 DEF BookInv, Same
<1>6. BookInv'
  BY <1>1, <1>2, <1>3, <1>4, <1>5 DEF BookInv
<1>7. CrossInv'
  <2> SUFFICES ASSUME NEW r \in On("buy")', NEW s \in On("sell")', r.price >= s.price
               PROVE  Len(arrived) \in {r.seqNo, s.seqNo}
    BY <1>2 DEF CrossInv
  <2>1. r \in resting' /\ s \in resting' /\ r.side = "buy" /\ s.side = "sell"
    BY DEF On
  <2>2. PICK o \in resting : Same(r, o)
    BY <1>1, <2>1
  <2>3. PICK q \in resting : Same(s, q)
    BY <1>1, <2>1
  <2>4. o \in On("buy") /\ q \in On("sell") /\ o.price >= q.price
        /\ o.seqNo = r.seqNo /\ q.seqNo = s.seqNo
    BY <2>1, <2>2, <2>3 DEF Same, On
  <2> QED  BY <2>4 DEF CrossInv
<1> QED  BY <1>6, <1>7

(* What the event of a trade says. *)
LEMMA MatchEvent ==
    ASSUME BookInv, LogInv, NEW b \in On("buy"), NEW a \in On("sell"), Match(b, a)
    PROVE  /\ trades' \in Seq(TradeRecord) /\ Len(trades') = Len(log) + 1
           /\ log' = Append(log, Event) /\ Event \in EventRecord /\ ~Malformed(Event)
           /\ Event.match_id = Len(log) + 1 /\ Event.t2 = now'
           /\ Event.buy_order_id = b.OrderId /\ Event.sell_order_id = a.OrderId
           /\ b.seqNo < a.seqNo => Event.price = b.price
           /\ a.seqNo < b.seqNo => Event.price = a.price
           /\ b.seqNo \in Nat /\ a.seqNo \in Nat /\ b.seqNo # a.seqNo
           /\ b.price \in Nat /\ a.price \in Nat
<1> DEFINE qty   == IF b.quantity < a.quantity THEN b.quantity ELSE a.quantity
           maker == IF b.seqNo < a.seqNo THEN b ELSE a
           taker == IF b.seqNo > a.seqNo THEN b ELSE a
           t     == [match_id |-> Len(trades) + 1,
                     buy_order_id |-> b.OrderId, sell_order_id |-> a.OrderId,
                     taker |-> taker.seqNo, price |-> maker.price, qty |-> qty]
           o     == arrived[taker.seqNo]
<1>1. /\ trades' = Append(trades, t) /\ log' = Append(log, Event)
      /\ now' \in now..MaxTime /\ UNCHANGED arrived
  BY DEF Match, Trade, ReadClock
<1>2. b \in resting /\ a \in resting /\ b # a /\ b \in Entry /\ a \in Entry
  BY DEF On, BookInv
<1>3. /\ b.seqNo \in Nat /\ a.seqNo \in Nat /\ b.seqNo # a.seqNo
      /\ b.price \in Nat \ {0} /\ a.price \in Nat \ {0}
      /\ b.quantity \in Nat \ {0} /\ a.quantity \in Nat \ {0}
      /\ b.OrderId \in OrderIds /\ a.OrderId \in OrderIds
  BY <1>2 DEF Entry, BookInv
<1>4. /\ b.seqNo \in 1..Len(arrived) /\ a.seqNo \in 1..Len(arrived)
      /\ arrived[b.seqNo].id = b.OrderId /\ arrived[a.seqNo].id = a.OrderId
  BY <1>2 DEF BookInv
<1>5. /\ b.OrderId # a.OrderId /\ b.OrderId # ZeroId /\ a.OrderId # ZeroId
  BY <1>3, <1>4 DEF BookInv
<1>6. qty \in Nat \ {0}
  BY <1>3
<1>7. maker.price \in Nat \ {0} /\ taker.seqNo \in 1..Len(arrived) /\ taker.seqNo \in Nat
  BY <1>3, <1>4
<1>8. /\ b.seqNo < a.seqNo => maker.price = b.price
      /\ a.seqNo < b.seqNo => maker.price = a.price
  BY <1>3
<1> HIDE DEF qty, maker, taker
<1>9. /\ trades \in Seq(TradeRecord) /\ Len(log) = Len(trades) /\ Len(trades) \in Nat
  BY LenProperties DEF LogInv
<1>10. t \in TradeRecord
  BY <1>3, <1>6, <1>7, <1>9 DEF TradeRecord
<1>11. /\ t.match_id = Len(log) + 1 /\ t.buy_order_id = b.OrderId
       /\ t.sell_order_id = a.OrderId /\ t.taker = taker.seqNo
       /\ t.price = maker.price /\ t.qty = qty
  BY <1>9
<1> HIDE DEF t
<1>12. /\ trades' \in Seq(TradeRecord) /\ Len(trades') = Len(log) + 1
       /\ trades'[Len(trades')] = t
  BY <1>1, <1>9, <1>10, AppendProperties
<1>13. o \in Arrival
  BY <1>7, ElementOfSeq DEF BookInv
<1>14. 1 <= o.t0 /\ o.t0 <= o.t1 /\ o.t1 <= now
  BY <1>7 DEF BookInv
<1>15. o.t0 \in Nat /\ o.t1 \in Nat
  BY <1>13 DEF Arrival
<1> HIDE DEF o
<1>16. Event = [match_id |-> t.match_id, buy_order_id |-> t.buy_order_id,
                sell_order_id |-> t.sell_order_id, t0 |-> o.t0, t1 |-> o.t1, t2 |-> now',
                price |-> t.price, qty |-> t.qty]
  BY <1>11, <1>12 DEF Event, o
<1>17. /\ Event.match_id = Len(log) + 1 /\ Event.t2 = now'
       /\ Event.buy_order_id = b.OrderId /\ Event.sell_order_id = a.OrderId
       /\ Event.t0 = o.t0 /\ Event.t1 = o.t1
       /\ Event.price = maker.price /\ Event.qty = qty
  BY <1>11, <1>16
<1>18. now \in Nat /\ now' \in Nat /\ now <= now'
  BY <1>1, PipelineAssumption DEF BookInv
<1>19. Event \in EventRecord
  BY <1>3, <1>6, <1>7, <1>9, <1>11, <1>15, <1>16, <1>18 DEF EventRecord
<1>20. o.t0 # 0 /\ o.t1 # 0 /\ now' # 0 /\ ~(o.t1 < o.t0) /\ ~(now' < o.t1)
  BY ONLY <1>14, <1>15, <1>18
<1>21. ~(maker.price <= 0) /\ ~(qty <= 0)
  BY ONLY <1>6, <1>7
<1>22. ~Malformed(Event)
  BY ONLY <1>5, <1>17, <1>20, <1>21 DEF Malformed
<1> QED  BY ONLY <1>1, <1>3, <1>8, <1>12, <1>17, <1>19, <1>22

LEMMA MatchLog ==
    ASSUME BookInv, CrossInv, LogInv, LastInv,
           NEW b \in On("buy"), NEW a \in On("sell"), Match(b, a)
    PROVE  LogInv'
<1> DEFINE e == Event
           n == Len(log)
           p == log[n]
<1>1. /\ trades' \in Seq(TradeRecord) /\ Len(trades') = n + 1
      /\ log' = Append(log, e) /\ e \in EventRecord /\ ~Malformed(e)
      /\ e.match_id = n + 1 /\ e.t2 = now'
      /\ e.buy_order_id = b.OrderId /\ e.sell_order_id = a.OrderId
      /\ b.seqNo < a.seqNo => e.price = b.price
      /\ a.seqNo < b.seqNo => e.price = a.price
      /\ b.seqNo \in Nat /\ a.seqNo \in Nat /\ b.seqNo # a.seqNo
      /\ b.price \in Nat /\ a.price \in Nat
  BY MatchEvent
<1> HIDE DEF e
<1>2. log \in Seq(EventRecord) /\ n \in Nat
  BY LenProperties DEF LogInv
<1>3. /\ log' \in Seq(EventRecord) /\ Len(log') = n + 1 /\ log'[n + 1] = e
      /\ \A i \in 1..n : log'[i] = log[i]
  BY <1>1, <1>2, AppendProperties
<1>4. now \in Nat /\ now' \in Nat /\ now <= now'
  BY PipelineAssumption DEF BookInv, Match, ReadClock
<1>5. \A i \in 1..n : log[i].t2 \in Nat /\ log[i].price \in Nat /\ log[i].t2 <= now
  <2> TAKE i \in 1..n
  <2>1. log[i] \in EventRecord
    BY <1>2, ElementOfSeq
  <2> QED  BY <2>1 DEF EventRecord, LogInv
<1>6. \A i \in 1..(n + 1) :
          log'[i].match_id = i /\ ~Malformed(log'[i]) /\ log'[i].t2 <= now'
  <2> TAKE i \in 1..(n + 1)
  <2>1. CASE i \in 1..n
    <3>1. log[i].t2 <= now'
      BY ONLY <1>4, <1>5, <2>1
    <3> QED  BY <1>3, <2>1, <3>1 DEF LogInv
  <2>2. CASE i = n + 1
    BY ONLY <1>1, <1>3, <1>4, <2>2
  <2> QED  BY <1>2, <2>1, <2>2
<1>7. n > 0 => ~Retrograde(p, e) /\ ~PassedOver(p, e)
  <2> SUFFICES ASSUME n > 0
               PROVE  ~Retrograde(p, e) /\ ~PassedOver(p, e)
    OBVIOUS
  <2>1. p.t2 \in Nat /\ p.t2 <= now /\ p.price \in Nat
    BY <1>2, <1>5
  <2>2. ~Retrograde(p, e)
    BY ONLY <1>1, <1>4, <2>1 DEF Retrograde
  <2>3. ASSUME e.buy_order_id = p.buy_order_id  PROVE  ~(e.price < p.price)
    <3>1. p.price <= b.price /\ (a.seqNo < b.seqNo => p.price <= a.price)
      BY <1>1, <2>3 DEF LastInv
    <3> QED  BY ONLY <1>1, <2>1, <3>1
  <2>4. ASSUME e.sell_order_id = p.sell_order_id  PROVE  ~(e.price > p.price)
    <3>1. a.price <= p.price /\ (b.seqNo < a.seqNo => b.price <= p.price)
      BY <1>1, <2>4 DEF LastInv
    <3> QED  BY ONLY <1>1, <2>1, <3>1
  <2> QED  BY ONLY <2>2, <2>3, <2>4 DEF PassedOver
<1>8. ASSUME NEW i \in 1..n
      PROVE  ~Retrograde(log'[i], log'[i + 1]) /\ ~PassedOver(log'[i], log'[i + 1])
  <2>1. CASE i \in 1..(n - 1)
    <3>1. i \in 1..n /\ i + 1 \in 1..n
      BY ONLY <1>2, <2>1
    <3>2. log'[i] = log[i] /\ log'[i + 1] = log[i + 1]
      BY ONLY <1>3, <3>1
    <3>3. ~Retrograde(log[i], log[i + 1]) /\ ~PassedOver(log[i], log[i + 1])
      BY <2>1 DEF LogInv
    <3> QED  BY ONLY <3>2, <3>3
  <2>2. CASE i = n
    BY ONLY <1>2, <1>3, <1>7, <1>8, <2>2
  <2> QED  BY <1>2, <2>1, <2>2
<1>9. (n + 1) - 1 = n
  BY <1>2
<1> QED  BY <1>1, <1>3, <1>6, <1>8, <1>9 DEF LogInv

LEMMA MatchLast ==
    ASSUME BookInv, CrossInv, LogInv,
           NEW b \in On("buy"), NEW a \in On("sell"), Match(b, a)
    PROVE  LastInv'
<1> DEFINE e == Event
           n == Len(log)
<1>1. /\ log' = Append(log, e) /\ e \in EventRecord
      /\ e.buy_order_id = b.OrderId /\ e.sell_order_id = a.OrderId
      /\ b.seqNo < a.seqNo => e.price = b.price
      /\ a.seqNo < b.seqNo => e.price = a.price
      /\ b.seqNo \in Nat /\ a.seqNo \in Nat /\ b.seqNo # a.seqNo
      /\ b.price \in Nat /\ a.price \in Nat
  BY MatchEvent
<1> HIDE DEF e
<1>2. log \in Seq(EventRecord) /\ n \in Nat
  BY LenProperties DEF LogInv
<1>3. Len(log') = n + 1 /\ log'[Len(log')] = e
  BY <1>1, <1>2, AppendProperties
<1>4. /\ IsTop(b) /\ IsTop(a) /\ b.price >= a.price /\ UNCHANGED arrived
      /\ b \in resting /\ a \in resting /\ b.side = "buy" /\ a.side = "sell"
  BY DEF Match, Trade, On
<1>5. Len(arrived) \in {b.seqNo, a.seqNo}
  BY <1>4 DEF CrossInv
<1>6. \A r \in resting : /\ r.seqNo \in Nat /\ r.price \in Nat /\ r.seqNo <= Len(arrived)
                          /\ arrived[r.seqNo].id = r.OrderId /\ r.seqNo \in 1..Len(arrived)
  BY LenProperties DEF BookInv, Entry
<1>7. \A r \in On("buy") : r.price <= b.price
  <2> TAKE r \in On("buy")
  <2>1. r = b \/ Precedes(b, r)
    BY <1>4 DEF IsTop
  <2>2. r.price \in Nat
    BY <1>6 DEF On
  <2> QED  BY <1>1, <1>4, <2>1, <2>2 DEF Precedes
<1>8. \A r \in On("sell") : a.price <= r.price
  <2> TAKE r \in On("sell")
  <2>1. r = a \/ Precedes(a, r)
    BY <1>4 DEF IsTop
  <2>2. r.price \in Nat
    BY <1>6 DEF On
  <2> QED  BY <1>1, <1>4, <2>1, <2>2 DEF Precedes
<1>9. \A r \in On("sell") : r.seqNo < b.seqNo => e.price <= r.price
  <2> SUFFICES ASSUME NEW r \in On("sell"), r.seqNo < b.seqNo
               PROVE  e.price <= r.price
    OBVIOUS
  <2>1. r.seqNo \in Nat /\ r.price \in Nat /\ a.seqNo <= Len(arrived) /\ Len(arrived) \in Nat
    BY <1>4, <1>6, LenProperties DEF On, BookInv
  <2>2. CASE a.seqNo < b.seqNo
    BY <1>1, <1>8, <2>2
  <2>3. CASE b.seqNo < a.seqNo
    <3>1. Len(arrived) \notin {b.seqNo, r.seqNo}
      BY <1>1, <2>1, <2>3
    <3>2. ~(b.price >= r.price)
      BY <3>1 DEF CrossInv
    <3> QED  BY ONLY <1>1, <2>1, <2>3, <3>2
  <2> QED  BY <1>1, <2>2, <2>3
<1>10. \A r \in On("buy") : r.seqNo < a.seqNo => r.price <= e.price
  <2> SUFFICES ASSUME NEW r \in On("buy"), r.seqNo < a.seqNo
               PROVE  r.price <= e.price
    OBVIOUS
  <2>1. r.seqNo \in Nat /\ r.price \in Nat /\ b.seqNo <= Len(arrived) /\ Len(arrived) \in Nat
    BY <1>4, <1>6, LenProperties DEF On, BookInv
  <2>2. CASE b.seqNo < a.seqNo
    BY <1>1, <1>7, <2>2
  <2>3. CASE a.seqNo < b.seqNo
    <3>1. Len(arrived) \notin {r.seqNo, a.seqNo}
      BY <1>1, <2>1, <2>3
    <3>2. ~(r.price >= a.price)
      BY <3>1 DEF CrossInv
    <3> QED  BY ONLY <1>1, <2>1, <2>3, <3>2
  <2> QED  BY <1>1, <2>2, <2>3
<1>11. /\ \A r \in On("buy")' : \E o \in On("buy") : Same(r, o)
       /\ \A r \in On("sell")' : \E o \in On("sell") : Same(r, o)
  BY MatchResting DEF On, Same
<1>12. /\ \A r \in On("buy") : r.OrderId = b.OrderId => r = b
       /\ \A r \in On("sell") : r.OrderId = a.OrderId => r = a
  BY <1>4, <1>6 DEF On, BookInv
<1>13. e.price <= b.price /\ a.price <= e.price
  BY ONLY <1>1, <1>4
<1>14. ASSUME NEW r \in On("buy")', r.OrderId = e.buy_order_id
       PROVE  /\ e.price <= r.price
              /\ \A s \in On("sell")' : s.seqNo < r.seqNo => e.price <= s.price
  <2>1. Same(r, b)
    BY <1>1, <1>11, <1>12, <1>14 DEF Same
  <2>2. ASSUME NEW s \in On("sell")', s.seqNo < r.seqNo  PROVE e.price <= s.price
    BY <1>9, <1>11, <2>1, <2>2 DEF Same
  <2> QED  BY <1>13, <2>1, <2>2 DEF Same
<1>15. ASSUME NEW r \in On("sell")', r.OrderId = e.sell_order_id
       PROVE  /\ r.price <= e.price
              /\ \A s \in On("buy")' : s.seqNo < r.seqNo => s.price <= e.price
  <2>1. Same(r, a)
    BY <1>1, <1>11, <1>12, <1>15 DEF Same
  <2>2. ASSUME NEW s \in On("buy")', s.seqNo < r.seqNo  PROVE s.price <= e.price
    BY <1>10, <1>11, <2>1, <2>2 DEF Same
  <2> QED  BY <1>13, <2>1, <2>2 DEF Same
<1>16. \E i, j \in 1..Len(arrived) : /\ arrived[i].id = e.buy_order_id
                                     /\ arrived[j].id = e.sell_order_id
  BY <1>1, <1>4, <1>6
<1> QED  BY <1>3, <1>4, <1>14, <1>15, <1>16 DEF LastInv

(* A longer log changes nothing about what the scoring engine has read. *)
LEMMA MatchJudge ==
    ASSUME BookInv, LogInv, JudgeInv, NEW b \in On("buy"), NEW a \in On("sell"), Match(b, a)
    PROVE  JudgeInv'
<1>1. log' = Append(log, Event) /\ Event \in EventRecord /\ UNCHANGED judge
  BY MatchEvent DEF Match
<1>2. log \in Seq(EventRecord) /\ Len(log) \in Nat /\ Len(accepted) \in Nat
  BY LenProperties DEF LogInv, JudgeInv
<1>3. Len(log') = Len(log) + 1 /\ \A i \in 1..Len(log) : log'[i] = log[i]
  BY <1>1, <1>2, AppendProperties
<1>4. \A i \in 1..Len(accepted) : accepted[i] = log'[joined + i]
  <2> TAKE i \in 1..Len(accepted)
  <2>1. joined # -1
    BY <1>2 DEF JudgeInv
  <2>2. joined + i \in 1..Len(log)
    BY <1>2, <2>1 DEF JudgeInv
  <2> QED  BY <1>3, <2>2 DEF JudgeInv
<1> QED  BY <1>1, <1>2, <1>3, <1>4 DEF JudgeInv, judge

-------------------------------------------------------------------------------
(* The scoring engine. *)

LEMMA JudgeStep ==
    ASSUME LogInv, JudgeInv, Judge
    PROVE  JudgeInv'
<1> DEFINE k == Len(accepted)
           n == joined + k + 1
           e == log[n]
<1>1. /\ joined >= 0 /\ joined \in Int /\ joined + k < Len(log) /\ k \in Nat
      /\ Len(log) \in Nat /\ log \in Seq(EventRecord)
  BY LenProperties DEF Judge, JudgeInv, LogInv
<1>2. n \in 1..Len(log) /\ n \in Nat
  BY <1>1
<1>3. e \in EventRecord /\ e.match_id = n /\ ~Malformed(e)
  BY <1>1, <1>2, ElementOfSeq DEF LogInv
<1>4. ~Violation(accepted, e)
  <2> SUFFICES ASSUME accepted # << >>
               PROVE  LET prev == accepted[k]
                      IN ~Gap(prev, e) /\ ~Retrograde(prev, e) /\ ~PassedOver(prev, e)
    BY <1>3 DEF Violation
  <2>1. k \in 1..k
    BY <1>1, EmptySeq DEF JudgeInv
  <2>2. n - 1 \in 1..Len(log) /\ n - 1 \in 1..(Len(log) - 1) /\ (n - 1) + 1 = n
        /\ joined + k = n - 1
    BY <1>1, <2>1
  <2>3. accepted[k] = log[n - 1]
    BY <2>1, <2>2 DEF JudgeInv
  <2>4. log[n - 1].match_id = n - 1
    BY <2>2 DEF LogInv
  <2>5. ~Gap(log[n - 1], e)
    BY <1>3, <2>2, <2>4 DEF Gap
  <2>6. ~Retrograde(log[n - 1], e) /\ ~PassedOver(log[n - 1], e)
    BY <2>2 DEF LogInv
  <2> QED  BY <2>3, <2>5, <2>6
<1>5. accepted' = Append(accepted, e) /\ UNCHANGED <<correctness, joined, log>>
  BY <1>4 DEF Judge
<1> HIDE DEF e
<1>6. /\ accepted' \in Seq(EventRecord) /\ Len(accepted') = k + 1 /\ accepted'[k + 1] = e
      /\ \A i \in 1..k : accepted'[i] = accepted[i]
  BY <1>3, <1>5, AppendProperties DEF JudgeInv
<1>7. \A i \in 1..(k + 1) : accepted'[i] = log[joined + i]
  <2> TAKE i \in 1..(k + 1)
  <2>1. CASE i \in 1..k
    BY <1>6, <2>1 DEF JudgeInv
  <2>2. CASE i = k + 1
    <3>1. joined + i = n
      BY <1>1, <2>2
    <3> QED  BY <1>6, <2>2, <3>1 DEF e
  <2> QED  BY <1>1, <2>1, <2>2
<1>8. joined # -1 /\ joined + (k + 1) <= Len(log)
  BY <1>1
<1> QED  BY <1>5, <1>6, <1>7, <1>8 DEF JudgeInv

LEMMA JoinStep ==
    ASSUME LogInv, JudgeInv, Join
    PROVE  JudgeInv'
<1>1. Len(log) \in Nat /\ accepted = << >> /\ Len(accepted) = 0
  BY LenProperties DEF Join, JudgeInv, LogInv
<1> QED  BY <1>1 DEF Join, JudgeInv

-------------------------------------------------------------------------------
(* Every step. *)

LEMMA SlipStep ==
    ASSUME HonestInv, NEW kind, Slip(kind)
    PROVE  HonestInv'
<1>1. slips' = Append(slips, kind) /\ slips \in Seq(Slips) /\ kind \in Slips
  BY DEF Slip, HonestInv
<1>2. slips' \in Seq(Slips) /\ Len(slips') = Len(slips) + 1 /\ Len(slips) \in Nat
  BY <1>1, AppendProperties, LenProperties
<1>3. slips' # << >>
  BY <1>2
<1> QED  BY <1>2, <1>3 DEF HonestInv

LEMMA HonestStep == HonestInv /\ [Next]_vars => HonestInv'
<1> SUFFICES ASSUME HonestInv, [Next]_vars
             PROVE  HonestInv'
  OBVIOUS
<1> DEFINE Rest == BookInv /\ CrossInv /\ LogInv /\ LastInv /\ JudgeInv
<1>1. ASSUME UNCHANGED slips, Rest => Rest'
      PROVE  HonestInv'
  BY <1>1 DEF HonestInv
<1>2. ASSUME NEW id \in OrderIds, NEW side \in {"buy", "sell"}, NEW price \in Prices,
             NEW qty \in Quantities, NEW t0 \in Stamps, Submit(id, side, price, qty, t0)
      PROVE  HonestInv'
  <2>1. ASSUME Rest  PROVE Rest'
    <3>1. BookInv'
      BY <1>2, <2>1, SubmitBook
    <3>2. CrossInv' /\ LogInv' /\ LastInv'
      BY <1>2, <2>1, SubmitRest
    <3>3. JudgeInv'
      BY <1>2, <2>1 DEF Submit, Enter, judge, JudgeInv
    <3> QED  BY <3>1, <3>2, <3>3
  <2> QED  BY <1>1, <1>2, <2>1 DEF Submit
<1>3. ASSUME NEW id, NEW side, NEW price, NEW qty, NEW t0,
             SubmitUnsound(id, side, price, qty, t0)
      PROVE  HonestInv'
  BY <1>3, SlipStep DEF SubmitUnsound
<1>4. ASSUME NEW b \in On("buy"), NEW a \in On("sell"), Match(b, a)
      PROVE  HonestInv'
  <2>1. ASSUME Rest  PROVE Rest'
    BY <1>4, <2>1, MatchBook, MatchLog, MatchLast, MatchJudge
  <2> QED  BY <1>1, <1>4, <2>1 DEF Match
<1>5. ASSUME NEW b, NEW a, MatchLosing(b, a)
      PROVE  HonestInv'
  BY <1>5, SlipStep DEF MatchLosing
<1>6. CASE Done
  <2>1. ASSUME Rest  PROVE Rest'
    <3>1. CrossInv'
      <4> SUFFICES ASSUME NEW b \in On("buy"), NEW a \in On("sell")
                   PROVE  ~(b.price >= a.price)
        BY <1>6 DEF Done, Settle, CrossInv, On
      <4>1. b.price \in Nat /\ a.price \in Nat
        BY <2>1 DEF On, BookInv, Entry
      <4>2. b.price < a.price
        BY <1>6 DEF Done, Settle
      <4> QED  BY ONLY <4>1, <4>2
    <3>2. BookInv'
      BY <1>6, <2>1 DEF Done, Settle, BookInv
    <3>3. LogInv'
      BY <1>6, <2>1 DEF Done, Settle, LogInv
    <3>4. LastInv'
      BY <1>6, <2>1 DEF Done, Settle, LastInv, On
    <3>5. JudgeInv'
      BY <1>6, <2>1 DEF Done, judge, JudgeInv
    <3> QED  BY <3>1, <3>2, <3>3, <3>4, <3>5
  <2> QED  BY <1>1, <1>6, <2>1 DEF Done
<1>7. CASE RestartEngine
  BY <1>7, SlipStep DEF RestartEngine
<1>8. CASE Join \/ Judge \/ UNCHANGED vars
  <2>1. /\ UNCHANGED <<resting, trades, pc, arrived, now, log, slips>>
        /\ Join \/ Judge \/ UNCHANGED judge
    BY <1>8 DEF Join, Judge, engine, vars, judge
  <2>2. ASSUME Rest  PROVE Rest'
    <3>1. JudgeInv'
      <4>1. CASE UNCHANGED judge
        BY <2>1, <2>2, <4>1 DEF judge, JudgeInv
      <4> QED  BY <2>1, <2>2, <4>1, JoinStep, JudgeStep
    <3>2. BookInv' /\ CrossInv'
      BY <2>1, <2>2 DEF BookInv, CrossInv, On
    <3>3. LogInv'
      BY <2>1, <2>2 DEF LogInv
    <3>4. LastInv'
      BY <2>1, <2>2 DEF LastInv, On
    <3> QED  BY <3>1, <3>2, <3>3, <3>4
  <2> QED  BY <1>1, <2>1, <2>2
<1> HIDE DEF Rest
<1>9. CASE Submitting
  BY <1>2, <1>3, <1>9 DEF Submitting
<1>10. CASE Matching
  BY <1>4, <1>5, <1>6, <1>10 DEF Matching
<1> QED  BY <1>7, <1>8, <1>9, <1>10 DEF Next

-------------------------------------------------------------------------------
(* As long as no slip happens, an engine with price-time priority is never  *)
(* found guilty (DESIGN_COMPREHENSIVE.md: "Target disqualification only on  *)
(* genuine violations"), for any number of orders, trades and prices.       *)
THEOREM HonestNeverPunished == Spec => []NoFalsePositive
<1>1. HonestInv => NoFalsePositive
  BY DEF HonestInv, JudgeInv, NoFalsePositive
<1> QED  BY <1>1, HonestInit, HonestStep, PTL DEF Spec
-------------------------------------------------------------------------------
(* The scoring engine accepts an unbroken run of the trades, whatever the   *)
(* clients send and whatever events get lost, until the engine restarts.    *)

NoRestart == \A i \in DOMAIN slips : slips[i] # "restart"

IsSeq(s) == \E S : s \in Seq(S)

(* The event says what the trade was. *)
Tells(e, t) ==
    /\ e.match_id = t.match_id /\ e.price = t.price /\ e.qty = t.qty
    /\ e.buy_order_id = t.buy_order_id /\ e.sell_order_id = t.sell_order_id

(* Every event tells the trade its match_id points at. *)
Telling(events) ==
    /\ IsSeq(events)
    /\ \A i \in 1..Len(events) : /\ events[i].match_id \in 1..Len(trades)
                                 /\ Tells(events[i], trades[events[i].match_id])

(* Nothing is missing between two accepted events. *)
Unbroken == \A i \in 1..Len(accepted) : accepted[i].match_id = accepted[1].match_id + i - 1

RunInv ==
    /\ IsSeq(trades) /\ Telling(log) /\ Telling(accepted) /\ Unbroken
    /\ joined \in Int

AcceptedInv == slips \in Seq(Slips) /\ (NoRestart => RunInv)

(* A sequence with one element more. *)
LEMMA SeqAppend ==
    ASSUME NEW s, NEW x, IsSeq(s)
    PROVE  LET t == Append(s, x)
           IN  /\ IsSeq(t) /\ Len(s) \in Nat /\ Len(t) = Len(s) + 1 /\ t[Len(s) + 1] = x
               /\ \A i \in 1..Len(s) : t[i] = s[i]
               /\ \A i \in 1..Len(t) : i \in 1..Len(s) \/ i = Len(s) + 1
<1>1. PICK S : s \in Seq(S)
  BY DEF IsSeq
<1> DEFINE T == S \cup {x}
<1>2. s \in Seq(T) /\ x \in T
  <2>1. Len(s) \in Nat /\ s \in [1..Len(s) -> T]
    BY <1>1, LenProperties
  <2> QED  BY <2>1, SeqDef
<1>3. Append(s, x) \in Seq(T)
  BY <1>2, AppendProperties
<1>4. IsSeq(Append(s, x))
  BY <1>3 DEF IsSeq
<1>5. /\ Len(s) \in Nat /\ Len(Append(s, x)) = Len(s) + 1 /\ Append(s, x)[Len(s) + 1] = x
      /\ \A i \in 1..Len(s) : Append(s, x)[i] = s[i]
  BY <1>2, AppendProperties, LenProperties
<1>6. \A i \in 1..(Len(s) + 1) : i \in 1..Len(s) \/ i = Len(s) + 1
  BY <1>5
<1> QED  BY <1>4, <1>5, <1>6

(* A trade more leaves what the events tell. *)
LEMMA TellingKept ==
    ASSUME NEW events, NEW x, IsSeq(trades), Telling(events), trades' = Append(trades, x)
    PROVE  /\ IsSeq(events)
           /\ \A i \in 1..Len(events) : /\ events[i].match_id \in 1..Len(trades')
                                        /\ Tells(events[i], trades'[events[i].match_id])
<1>1. /\ Len(trades) \in Nat /\ Len(trades') = Len(trades) + 1
      /\ \A i \in 1..Len(trades) : trades'[i] = trades[i]
  BY SeqAppend
<1>2. ASSUME NEW i \in 1..Len(events)
      PROVE  /\ events[i].match_id \in 1..Len(trades')
             /\ Tells(events[i], trades'[events[i].match_id])
  <2>1. /\ events[i].match_id \in 1..Len(trades)
        /\ Tells(events[i], trades[events[i].match_id])
    BY <1>2 DEF Telling
  <2>2. events[i].match_id \in 1..Len(trades')
    BY <1>1, <2>1
  <2> QED  BY <1>1, <2>1, <2>2
<1> QED  BY <1>2 DEF Telling

(* An event more, of a trade made, leaves a sequence that tells. *)
LEMMA TellingMore ==
    ASSUME NEW events, NEW e, Telling(events), e.match_id \in 1..Len(trades),
           Tells(e, trades[e.match_id])
    PROVE  Telling(Append(events, e))
<1> DEFINE more == Append(events, e)
<1>1. /\ IsSeq(more) /\ more[Len(events) + 1] = e
      /\ \A i \in 1..Len(events) : more[i] = events[i]
      /\ \A i \in 1..Len(more) : i \in 1..Len(events) \/ i = Len(events) + 1
  BY SeqAppend DEF Telling
<1> HIDE DEF more
<1>2. ASSUME NEW i \in 1..Len(more)
      PROVE  more[i].match_id \in 1..Len(trades) /\ Tells(more[i], trades[more[i].match_id])
  <2>1. CASE i \in 1..Len(events)
    BY <1>1, <2>1 DEF Telling
  <2>2. CASE i = Len(events) + 1
    BY <1>1, <2>2
  <2> QED  BY <1>1, <2>1, <2>2
<1>3. Telling(more)
  BY <1>1, <1>2 DEF Telling
<1> QED  BY <1>3 DEF more

(* The trade made, and what its event says. *)
LEMMA TradeStep ==
    ASSUME NEW b, NEW a, RunInv, Trade(b, a), UNCHANGED <<accepted, joined>>,
           log' \in {log, Append(log, Event)}
    PROVE  RunInv'
<1>1. PICK x : trades' = Append(trades, x) /\ x.match_id = Len(trades) + 1
  BY DEF Trade
<1>2. /\ IsSeq(trades') /\ Len(trades) \in Nat /\ Len(trades') = Len(trades) + 1
      /\ trades'[Len(trades) + 1] = x
  BY <1>1, SeqAppend DEF RunInv
<1>3. Telling(accepted)'
  BY <1>1, TellingKept DEF RunInv, Telling, IsSeq
<1>4. /\ IsSeq(log)
      /\ \A i \in 1..Len(log) : /\ log[i].match_id \in 1..Len(trades')
                                /\ Tells(log[i], trades'[log[i].match_id])
  BY <1>1, TellingKept DEF RunInv
<1>5. /\ Event.match_id = Len(trades) + 1 /\ Tells(Event, trades'[Len(trades) + 1])
  BY <1>1, <1>2 DEF Event, Tells
<1> DEFINE more == Append(log, Event)
<1>6. /\ IsSeq(more) /\ more[Len(log) + 1] = Event
      /\ \A i \in 1..Len(log) : more[i] = log[i]
      /\ \A i \in 1..Len(more) : i \in 1..Len(log) \/ i = Len(log) + 1
  BY <1>4, SeqAppend
<1> HIDE DEF more
<1>7. Telling(log)'
  <2>1. CASE log' = log
    BY <1>4, <2>1 DEF Telling, IsSeq
  <2>2. CASE log' = more
    <3>1. ASSUME NEW i \in 1..Len(more)
          PROVE  /\ more[i].match_id \in 1..Len(trades')
                 /\ Tells(more[i], trades'[more[i].match_id])
      <4>1. CASE i \in 1..Len(log)
        BY <1>4, <1>6, <4>1
      <4>2. CASE i = Len(log) + 1
        <5>1. Len(trades) + 1 \in 1..Len(trades')
          BY <1>2
        <5> QED  BY <1>5, <1>6, <4>2, <5>1
      <4> QED  BY <1>6, <4>1, <4>2
    <3> QED  BY <1>6, <2>2, <3>1 DEF Telling, IsSeq
  <2> QED  BY <2>1, <2>2 DEF more
<1> QED  BY <1>2, <1>3, <1>7 DEF RunInv, Unbroken, IsSeq

(* A slip other than a restart, or none, keeps what holds without one. *)
LEMMA SlipKept ==
    ASSUME NEW kind \in Slips, slips \in Seq(Slips), slips' = Append(slips, kind)
    PROVE  /\ slips' \in Seq(Slips)
           /\ NoRestart' => NoRestart /\ kind # "restart"
<1>1. /\ slips' \in Seq(Slips) /\ Len(slips) \in Nat /\ Len(slips') = Len(slips) + 1
      /\ \A i \in 1..Len(slips) : slips'[i] = slips[i]
      /\ slips'[Len(slips) + 1] = kind
      /\ DOMAIN slips = 1..Len(slips) /\ DOMAIN slips' = 1..Len(slips')
  BY AppendProperties, LenProperties
<1>2. 1..Len(slips) \subseteq 1..Len(slips') /\ Len(slips) + 1 \in 1..Len(slips')
  BY <1>1
<1> QED  BY <1>1, <1>2 DEF NoRestart

(* What the scoring engine accepts next tells the trade after the last. *)
LEMMA JudgeRun ==
    ASSUME RunInv, Judge
    PROVE  RunInv'
<1> DEFINE n == Len(accepted)
           e == log[joined + n + 1]
<1>1. UNCHANGED <<trades, log, joined>> /\ joined >= 0 /\ joined + n < Len(log)
  BY DEF Judge, engine
<1>2. CASE Violation(accepted, e)
  <2>1. UNCHANGED accepted
    BY <1>2 DEF Judge
  <2> QED  BY <1>1, <2>1 DEF RunInv, Telling, Unbroken, IsSeq
<1>3. CASE ~Violation(accepted, e)
  <2>1. accepted' = Append(accepted, e)
    BY <1>3 DEF Judge
  <2>2. /\ n \in Nat /\ Len(accepted') = n + 1 /\ accepted'[n + 1] = e
        /\ \A i \in 1..n : accepted'[i] = accepted[i]
        /\ \A i \in 1..Len(accepted') : i \in 1..n \/ i = n + 1
    BY <2>1, SeqAppend DEF RunInv, Telling
  <2>3. Len(log) \in Nat /\ Len(trades) \in Nat
    BY SeqAppend DEF RunInv, Telling
  <2>4. joined + n + 1 \in 1..Len(log)
    BY <1>1, <2>2, <2>3 DEF RunInv
  <2>5. e.match_id \in 1..Len(trades) /\ Tells(e, trades[e.match_id])
    BY <2>4 DEF RunInv, Telling
  <2>6. Telling(accepted)'
    <3>1. Telling(Append(accepted, e))
      BY <2>5, TellingMore DEF RunInv
    <3> QED  BY <1>1, <2>1, <3>1 DEF Telling, IsSeq
  <2>7. Unbroken'
    <3>1. CASE n = 0
      BY <2>2, <2>5, <3>1 DEF Unbroken
    <3>2. CASE n > 0
      <4>1. 1 \in 1..n /\ n \in 1..n
        BY <2>2, <3>2
      <4>2. accepted # << >>
        BY <2>2, <3>2
      <4>3. e.match_id = accepted[n].match_id + 1
        BY <1>3, <4>2 DEF Violation, Gap
      <4>4. accepted[n].match_id = accepted[1].match_id + n - 1
        BY <4>1 DEF RunInv, Unbroken
      <4>5. accepted[1].match_id \in Int
        BY <4>1 DEF RunInv, Telling
      <4>6. e.match_id = accepted[1].match_id + (n + 1) - 1
        BY <2>2, <4>3, <4>4, <4>5
      <4> HIDE DEF e, n
      <4>7. accepted'[1] = accepted[1]
        BY <2>2, <4>1
      <4>8. \A i \in 1..n : accepted'[i].match_id = accepted'[1].match_id + i - 1
        BY <2>2, <4>7 DEF RunInv, Unbroken, n
      <4> QED  BY <2>2, <4>6, <4>7, <4>8 DEF Unbroken
    <3> QED  BY <2>2, <3>1, <3>2
  <2> QED  BY <1>1, <2>6, <2>7 DEF RunInv, Telling, IsSeq
<1> QED  BY <1>2, <1>3

LEMMA AcceptedInit == Init => AcceptedInv
<1> SUFFICES ASSUME Init  PROVE AcceptedInv
  OBVIOUS
<1>1. /\ trades = << >> /\ log = << >> /\ accepted = << >> /\ slips = << >> /\ joined = -1
  BY DEF Init, LobInit
<1>2. IsSeq(<< >>)
  <2>1. << >> \in Seq({})
    OBVIOUS
  <2> QED  BY <2>1 DEF IsSeq
<1>3. Telling(log) /\ Telling(accepted) /\ Unbroken
  BY <1>1, <1>2 DEF Telling, Unbroken
<1> QED  BY <1>1, <1>2, <1>3 DEF AcceptedInv, RunInv

LEMMA AcceptedStep == AcceptedInv /\ [Next]_vars => AcceptedInv'
<1> SUFFICES ASSUME AcceptedInv, [Next]_vars
             PROVE  AcceptedInv'
  OBVIOUS
<1>1. ASSUME UNCHANGED slips, RunInv => RunInv'
      PROVE  AcceptedInv'
  BY <1>1 DEF AcceptedInv, NoRestart
<1>2. ASSUME NEW kind, Slip(kind), kind # "restart" => (RunInv => RunInv')
      PROVE  AcceptedInv'
  BY <1>2, SlipKept DEF AcceptedInv, Slip
<1>3. ASSUME UNCHANGED <<trades, log, joined, accepted>>, RunInv
      PROVE  RunInv'
  BY <1>3 DEF RunInv, Telling, Unbroken, IsSeq
<1>4. ASSUME NEW id, NEW side, NEW price, NEW qty, NEW t0,
             Submit(id, side, price, qty, t0) \/ SubmitUnsound(id, side, price, qty, t0)
      PROVE  AcceptedInv'
  <2>1. UNCHANGED <<trades, log, joined, accepted>>
    BY <1>4 DEF Submit, SubmitUnsound, Enter, Arrive, judge
  <2>2. UNCHANGED slips \/ Slip("order")
    BY <1>4 DEF Submit, SubmitUnsound
  <2> QED  BY <1>1, <1>2, <1>3, <2>1, <2>2
<1>5. ASSUME NEW b, NEW a, Match(b, a)
      PROVE  AcceptedInv'
  <2>1. RunInv => RunInv'
    BY <1>5, TradeStep DEF Match, judge
  <2> QED  BY <1>1, <1>5, <2>1 DEF Match
<1>6. ASSUME NEW b, NEW a, MatchLosing(b, a)
      PROVE  AcceptedInv'
  <2>1. RunInv => RunInv'
    BY <1>6, TradeStep DEF MatchLosing, judge
  <2> QED  BY <1>2, <1>6, <2>1 DEF MatchLosing
<1>7. CASE RestartEngine
  BY <1>2, <1>7 DEF RestartEngine
<1>8. CASE Judge
  BY <1>1, <1>8, JudgeRun DEF Judge
<1>9. CASE Join
  <2>1. RunInv => RunInv'
    <3>1. ASSUME RunInv  PROVE joined' \in Int
      BY <1>9, <3>1, SeqAppend DEF Join, RunInv, Telling
    <3> QED  BY <1>9, <3>1 DEF Join, engine, RunInv, Telling, Unbroken, IsSeq
  <2> QED  BY <1>1, <1>9, <2>1 DEF Join
<1>10. CASE Done \/ UNCHANGED vars
  <2>1. UNCHANGED <<trades, log, joined, accepted, slips>>
    BY <1>10 DEF Done, Settle, vars, judge
  <2> QED  BY <1>1, <1>3, <2>1
<1>11. CASE Submitting
  BY <1>4, <1>11 DEF Submitting
<1>12. CASE Matching
  BY <1>5, <1>6, <1>10, <1>12 DEF Matching
<1> QED  BY <1>7, <1>8, <1>9, <1>10, <1>11, <1>12 DEF Next

(* What the scoring engine accepts is an unbroken run of the trades made,   *)
(* event for event (scoring_engine.py's check for gaps): no lost event goes *)
(* unnoticed, whatever the clients send, until the engine restarts.         *)
THEOREM AcceptedRunUnbroken == Spec => []AcceptedIsUnbroken
<1>1. AcceptedInv => AcceptedIsUnbroken
  <2> SUFFICES ASSUME AcceptedInv, NoRestart, accepted # << >>,
                      NEW i \in DOMAIN accepted
               PROVE  Tells(accepted[i], trades[accepted[1].match_id + i - 1])
    BY DEF AcceptedIsUnbroken, NoRestart, Tells
  <2>1. RunInv
    BY DEF AcceptedInv
  <2>2. i \in 1..Len(accepted)
    BY <2>1, LenProperties DEF RunInv, Telling, IsSeq
  <2> QED  BY <2>1, <2>2 DEF RunInv, Telling, Unbroken
<1> QED  BY <1>1, AcceptedInit, AcceptedStep, PTL DEF Spec
===============================================================================
