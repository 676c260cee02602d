---------------------------- MODULE ReservationQueue ---------------------------
(***************************************************************************)
(* What the ingress queue promises: a bounded queue in which a place is    *)
(* reserved first and filled later.  Items leave in the order their places *)
(* were reserved; the first place holds up the ones behind it until it is  *)
(* filled.                                                                 *)
(***************************************************************************)
EXTENDS Naturals, Sequences

CONSTANTS
    Capacity,   \* how many places there are
    Values      \* the items

VARIABLES
    pending,    \* the reserved places, oldest first: [value, ready]
    taken       \* the items that left

queueVars == <<pending, taken>>

QueueInit == pending = << >> /\ taken = << >>

Reserve(v) ==
    /\ Len(pending) < Capacity
    /\ pending' = Append(pending, [value |-> v, ready |-> FALSE])
    /\ UNCHANGED taken

Fill(i) ==
    /\ ~pending[i].ready
    /\ pending' = [pending EXCEPT ![i].ready = TRUE]
    /\ UNCHANGED taken

Take ==
    /\ pending # << >>
    /\ Head(pending).ready
    /\ taken' = Append(taken, Head(pending).value)
    /\ pending' = Tail(pending)

QueueNext ==
    \/ \E v \in Values : Reserve(v)
    \/ \E i \in 1..Len(pending) : Fill(i)
    \/ Take

FillFirst == pending # << >> /\ Fill(1)

\* The first place is filled and its item taken in the end.
QueueSpec == QueueInit /\ [][QueueNext]_queueVars
                       /\ WF_queueVars(FillFirst) /\ WF_queueVars(Take)
===============================================================================
