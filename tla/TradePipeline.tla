----------------------------- MODULE TradePipeline -----------------------------
(***************************************************************************)
(* The way of a trade through the platform: an honest engine matches, the  *)
(* trade becomes an event in the Kafka partition, and the scoring engine,  *)
(* which joined at some moment, validates it.                              *)
(*                                                                         *)
(* The engine is LimitOrderBook, which OrderBook implements; the event     *)
(* carries the order's two timestamps and the time of the match.  The      *)
(* partition receives the events in order (KafkaOffloader, LogIsPrefix)    *)
(* and the scoring engine judges them in order (ScoringEngine,             *)
(* JudgedInOrder), both by TradeValidation.                                *)
(*                                                                         *)
(* Nothing in the platform checks what clients send, so all that can make  *)
(* the stream of an honest engine look dishonest is a step here, a slip:   *)
(*   "order"    an order reuses an id, has an id, a quantity or a price    *)
(*              that is zero, or a time that is not set or ahead of the    *)
(*              gateway's clock                                            *)
(*   "loss"     an event is dropped at a full queue or lost by the client  *)
(*   "restart"  the engine restarts and counts from one again              *)
(***************************************************************************)
EXTENDS LimitOrderBook, TradeValidation, FiniteSets

CONSTANTS
    Prices, OrderIds, Quantities,   \* what clients can send
    Stamps,         \* values a client can put into timestamp_ns
    MaxOrders,      \* bound on the orders submitted
    MaxTime,        \* bound on the clock
    Slips,          \* the kinds of slips that may happen
    MaxSlips        \* bound on how many

ASSUME PipelineAssumption ==
    /\ Prices \subseteq Nat /\ Quantities \subseteq Nat /\ Stamps \subseteq Nat
    /\ MaxOrders \in Nat /\ MaxTime \in Nat /\ MaxSlips \in Nat
    /\ Slips \subseteq {"order", "loss", "restart"}

VARIABLES
    arrived,        \* id, t0 and t1 of the orders stamped so far, by seqNo
    now,            \* the system clock
    log,            \* the partition
    joined,         \* where the scoring engine started to read, -1 before
    accepted,       \* the events it accepted
    correctness,    \* its verdict so far
    slips           \* history: the slips that happened

engine == <<resting, trades, pc, arrived>>
judge  == <<joined, accepted, correctness>>
vars   == <<resting, trades, pc, arrived, now, log, joined, accepted, correctness, slips>>

Slip(kind) ==
    /\ kind \in Slips /\ Len(slips) < MaxSlips
    /\ slips' = Append(slips, kind)

Init ==
    /\ LobInit
    /\ arrived = << >>
    /\ now = 1
    /\ log = << >>
    /\ joined = -1 /\ accepted = << >> /\ correctness = "PASSED"
    /\ slips = << >>

(* system_clock::now(): not before what it said last. *)
ReadClock == now' \in now..MaxTime

-------------------------------------------------------------------------------
(* The gateway stamps an order and numbers it; the engine takes it in.  The *)
(* time the order spends in the ingress queue in between, in first-in       *)
(* first-out order, is left out.                                            *)

Enter(id, side, price, qty, t0) ==
    /\ Len(arrived) < MaxOrders
    /\ ReadClock
    /\ Arrive([OrderId |-> id, quantity |-> qty, side |-> side, price |-> price,
               seqNo |-> Len(arrived) + 1])
    /\ arrived' = Append(arrived, [id |-> id, t0 |-> t0, t1 |-> now'])
    /\ UNCHANGED <<log, judge>>

Fresh(id) == \A i \in DOMAIN arrived : arrived[i].id # id

Sound(id, price, qty, t0) ==
    Fresh(id) /\ id # ZeroId /\ price > 0 /\ qty > 0 /\ t0 \in 1..now'

Submit(id, side, price, qty, t0) ==
    /\ Enter(id, side, price, qty, t0)
    /\ Sound(id, price, qty, t0)
    /\ UNCHANGED slips

SubmitUnsound(id, side, price, qty, t0) ==
    /\ Enter(id, side, price, qty, t0)
    /\ ~Sound(id, price, qty, t0)
    /\ Slip("order")

-------------------------------------------------------------------------------
(* matching() and what becomes of its event. *)

(* The event of the trade just made, with the times of its taker. *)
Event ==
    LET t == trades'[Len(trades')]
        o == arrived[t.taker]
    IN [match_id |-> t.match_id, buy_order_id |-> t.buy_order_id,
        sell_order_id |-> t.sell_order_id, t0 |-> o.t0, t1 |-> o.t1, t2 |-> now',
        price |-> t.price, qty |-> t.qty]

Match(b, a) ==
    /\ Trade(b, a)
    /\ ReadClock
    /\ log' = Append(log, Event)
    /\ UNCHANGED <<arrived, judge, slips>>

MatchLosing(b, a) ==
    /\ Trade(b, a)
    /\ ReadClock
    /\ Slip("loss")
    /\ UNCHANGED <<arrived, log, judge>>

Done ==
    /\ Settle
    /\ UNCHANGED <<arrived, now, log, judge, slips>>

(* The engine comes back with an empty book and counts trades from one.     *)
(* Orders are numbered on: their numbers are only compared within a book.   *)
RestartEngine ==
    /\ Slip("restart")
    /\ resting' = {} /\ trades' = << >> /\ pc' = "idle"
    /\ UNCHANGED <<arrived, now, log, judge>>

-------------------------------------------------------------------------------
(* The scoring engine, from the end of the partition on. *)

Join ==
    /\ joined = -1
    /\ joined' = Len(log)
    /\ UNCHANGED <<engine, now, log, accepted, correctness, slips>>

Judge ==
    /\ joined >= 0 /\ correctness = "PASSED"
    /\ joined + Len(accepted) < Len(log)
    /\ LET e == log[joined + Len(accepted) + 1]
       IN IF Violation(accepted, e)
          THEN correctness' = "CRITICAL_ERR" /\ UNCHANGED accepted
          ELSE accepted' = Append(accepted, e) /\ UNCHANGED correctness
    /\ UNCHANGED <<engine, now, log, joined, slips>>

Submitting ==
    \E id \in OrderIds, side \in {"buy", "sell"}, price \in Prices, qty \in Quantities,
       t0 \in Stamps :
        \/ Submit(id, side, price, qty, t0)
        \/ SubmitUnsound(id, side, price, qty, t0)

Matching ==
    \/ \E b \in On("buy"), a \in On("sell") : Match(b, a) \/ MatchLosing(b, a)
    \/ Done

Next == Submitting \/ Matching \/ RestartEngine \/ Join \/ Judge

Spec == Init /\ [][Next]_vars

-------------------------------------------------------------------------------
(* Properties. *)

(* "Target disqualification only on genuine violations"                     *)
(* (DESIGN_COMPREHENSIVE.md): the stream of an engine with price-time       *)
(* priority is never found guilty, whatever the mix of sweeps, partial      *)
(* fills and prices, and wherever in the stream the scoring engine joins -- *)
(* as long as no slip happens.                                              *)
NoFalsePositive == slips = << >> => correctness = "PASSED"

(* What the scoring engine accepts is an unbroken run of the trades the     *)
(* engine made, event for event: a lost event never goes unnoticed.         *)
AcceptedIsUnbroken ==
    /\ accepted # << >>
    /\ \A i \in DOMAIN slips : slips[i] # "restart"
    => \A i \in DOMAIN accepted :
           LET t == trades[accepted[1].match_id + i - 1]
           IN /\ accepted[i].match_id = t.match_id /\ accepted[i].price = t.price
              /\ accepted[i].qty = t.qty
              /\ accepted[i].buy_order_id = t.buy_order_id
              /\ accepted[i].sell_order_id = t.sell_order_id

===============================================================================
