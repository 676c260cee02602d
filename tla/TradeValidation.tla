---------------------------- MODULE TradeValidation ----------------------------
(***************************************************************************)
(* What the scoring engine demands of a stream of trade events             *)
(* (ContestantState.validate and check_price_priority in                   *)
(* telemetry/scoring_engine.py).                                           *)
(*                                                                         *)
(* Events are records as in the wire format.  A price is a number of       *)
(* ticks, and 0 stands for every value that is not finite; a tick is far   *)
(* above PRICE_EPSILON, so the tolerance disappears.  The state that       *)
(* accept() keeps between events -- last_match_id, last_t2_ns, prev_event  *)
(* -- are fields of the event accepted last.  The reason text of a         *)
(* violation is left out.                                                  *)
(***************************************************************************)
EXTENDS Integers, Sequences

CONSTANT ZeroId     \* the order id 0

(* Wrong on purpose: only a repeated or an earlier match id is noticed. *)
GapUnnoticed(prev, e) == e.match_id <= prev.match_id

Gap(prev, e) == e.match_id # prev.match_id + 1

Retrograde(prev, e) == e.t2 < prev.t2

(* What is wrong with an event whatever came before it. *)
Malformed(e) ==
    \/ ZeroId \in {e.buy_order_id, e.sell_order_id}
    \/ e.buy_order_id = e.sell_order_id
    \/ e.t0 = 0 \/ e.t1 = 0 \/ e.t2 = 0
    \/ e.t1 < e.t0 \/ e.t2 < e.t1
    \/ e.price <= 0
    \/ e.qty <= 0

(* Wrong on purpose: the bounds of the two sides are exchanged. *)
PassedOverSwapped(prev, e) ==
    \/ /\ e.buy_order_id = prev.buy_order_id /\ e.sell_order_id # prev.sell_order_id
       /\ e.price > prev.price
    \/ /\ e.sell_order_id = prev.sell_order_id /\ e.buy_order_id # prev.buy_order_id
       /\ e.price < prev.price

(* A buy order that two consecutive trades share may not get cheaper, a     *)
(* sell order they share may not get dearer; trades that share both orders  *)
(* or neither say nothing.                                                  *)
PassedOver(prev, e) ==
    \/ /\ e.buy_order_id = prev.buy_order_id /\ e.sell_order_id # prev.sell_order_id
       /\ e.price < prev.price
    \/ /\ e.sell_order_id = prev.sell_order_id /\ e.buy_order_id # prev.buy_order_id
       /\ e.price > prev.price

(* validate(e) finds something, given the events accepted so far. *)
Violation(accepted, e) ==
    \/ Malformed(e)
    \/ /\ accepted # << >>
       /\ LET prev == accepted[Len(accepted)]
          IN Gap(prev, e) \/ Retrograde(prev, e) \/ PassedOver(prev, e)
===============================================================================
