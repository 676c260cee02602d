------------------------------- MODULE EventQueue -------------------------------
(***************************************************************************)
(* What the event queue promises: a bounded first-in first-out queue.      *)
(***************************************************************************)
EXTENDS Naturals, Sequences

CONSTANTS
    Bound,      \* how many events it holds
    Events      \* the events

VARIABLES
    held,       \* the events in the queue, oldest first
    popped      \* the events that left

QInit == held = << >> /\ popped = << >>

Put(e) ==
    /\ Len(held) < Bound
    /\ held' = Append(held, e)
    /\ UNCHANGED popped

Get ==
    /\ held # << >>
    /\ held' = Tail(held)
    /\ popped' = Append(popped, Head(held))

QNext == Get \/ \E e \in Events : Put(e)

\* What the queue holds is taken in the end.
QSpec == QInit /\ [][QNext]_<<held, popped>> /\ WF_<<held, popped>>(Get)
===============================================================================
