---------------------------- MODULE MCScoringEngine ----------------------------
(* Partitions with and without a violation: a gap, a price that falls for   *)
(* the same buyer, a sell order that trades dearer, an event that is wrong  *)
(* by itself, and a message of another length between two good ones.        *)
EXTENDS ScoringEngine

Trade(id, buy, sell, price) ==
    [match_id |-> id, buy_order_id |-> buy, sell_order_id |-> sell,
     t0 |-> id, t1 |-> id, t2 |-> id, price |-> price, qty |-> 1]

Message(events) == [whole |-> TRUE, events |-> events]
Torn            == [whole |-> FALSE, events |-> << >>]

Sweep   == <<Message(<<Trade(1, 1, 2, 1), Trade(2, 1, 3, 2)>>), Message(<<Trade(3, 4, 3, 2)>>)>>
Lost    == <<Message(<<Trade(1, 1, 2, 1)>>), Message(<<Trade(3, 4, 5, 2)>>)>>
Cheaper == <<Message(<<Trade(1, 1, 2, 2)>>), Message(<<Trade(2, 1, 3, 1), Trade(3, 4, 5, 1)>>)>>
Dearer  == <<Message(<<Trade(1, 1, 2, 1), Trade(2, 3, 2, 2)>>)>>
Itself  == <<Message(<<Trade(1, 1, 2, 1)>>), Message(<<Trade(2, 3, 3, 1)>>)>>
Between == <<Message(<<Trade(1, 1, 2, 1)>>), Torn, Message(<<Trade(3, 4, 5, 1)>>)>>

MCLogs == {Sweep, Lost, Cheaper, Dearer, Itself, Between}
===============================================================================
