------------------------------- MODULE SPSCQueue -------------------------------
(***************************************************************************)
(* The lock-free ring between the matching thread and the Kafka thread     *)
(* (matching-engine/SPSCQueue.h), one action per atomic access to the      *)
(* other side's index.                                                     *)
(*                                                                         *)
(* head_ and tail_ count pushes and pops and are never reset: they are     *)
(* size_t and wrap around, modulo WordSize here, and the fullness test is  *)
(* an unsigned subtraction.  Each index is written by one thread, which    *)
(* reads it back exactly; the release store and the acquire load order the *)
(* accesses to the slots.                                                  *)
(***************************************************************************)
EXTENDS Naturals, Sequences

CONSTANTS
    Capacity,       \* capacity_, a power of two
    WordSize,       \* 2^(bits of size_t)
    MaxPushes,      \* bound on the calls of tryPush
    None            \* content of a slot never written

ASSUME RingAssumption ==
    /\ Capacity \in Nat /\ Capacity >= 2
    /\ WordSize \in Nat /\ WordSize % Capacity = 0 /\ WordSize > Capacity
    /\ MaxPushes \in Nat
    /\ None \notin 1..MaxPushes

VARIABLES
    buffer,         \* buffer_
    head, tail,     \* head_, tail_
    ppc,            \* producer: next step of tryPush
    value,          \* producer: the event being pushed
    cpc,            \* consumer: next step of tryPop
    got,            \* consumer: the event read
    accepted,       \* history: events whose tryPush returned true, or will
    popped          \* history: events tryPop returned

pushVars == <<head, ppc, value, accepted>>
popVars  == <<tail, cpc, got, popped>>
vars == <<buffer, head, tail, ppc, value, cpc, got, accepted, popped>>

Events == 1..MaxPushes          \* the n-th event is the number n
Slots  == 0..(Capacity - 1)

Slot(index) == index % Capacity                     \* index & mask_

Next1(index) == (index + 1) % WordSize              \* index + 1, in size_t

(* Unsigned subtraction of two indices. *)
Ahead(h, t) == (h + WordSize - t) % WordSize

-------------------------------------------------------------------------------

Init ==
    /\ buffer = [s \in Slots |-> None]
    /\ head = 0 /\ tail = 0
    /\ ppc = "idle" /\ value = 0
    /\ cpc = "idle" /\ got = None
    /\ accepted = << >> /\ popped = << >>

(* Wrong on purpose: one event too many. *)
PushRoomOffByOne ==
    /\ ppc = "idle" /\ value < MaxPushes
    /\ Ahead(Next1(head), tail) <= Capacity + 1
    /\ value' = value + 1
    /\ ppc' = "write"
    /\ UNCHANGED <<buffer, head, accepted, popVars>>

(* tryPush loads tail_ and finds room. *)
PushRoom ==
    /\ ppc = "idle" /\ value < MaxPushes
    /\ Ahead(Next1(head), tail) <= Capacity
    /\ value' = value + 1
    /\ ppc' = "write"
    /\ UNCHANGED <<buffer, head, accepted, popVars>>

(* tryPush loads tail_, finds the ring full and returns false. *)
PushFull ==
    /\ ppc = "idle" /\ value < MaxPushes
    /\ Ahead(Next1(head), tail) > Capacity
    /\ value' = value + 1
    /\ UNCHANGED <<buffer, head, ppc, accepted, popVars>>

PushWrite ==
    /\ ppc = "write"
    /\ buffer' = [buffer EXCEPT ![Slot(head)] = value]
    /\ ppc' = "publish"
    /\ UNCHANGED <<head, value, accepted, popVars>>

(* The store to head_ makes the event visible. *)
PushPublish ==
    /\ ppc = "publish"
    /\ head' = Next1(head)
    /\ accepted' = Append(accepted, value)
    /\ ppc' = "idle"
    /\ UNCHANGED <<buffer, value, popVars>>

-------------------------------------------------------------------------------

(* Wrong on purpose: compares the indices by size. *)
PopSomeBelow ==
    /\ cpc = "idle"
    /\ tail # head
    /\ cpc' = IF tail < head THEN "read" ELSE "idle"
    /\ UNCHANGED <<buffer, pushVars, tail, got, popped>>

(* tryPop loads head_: there is an event. *)
PopSome ==
    /\ cpc = "idle"
    /\ tail # head
    /\ cpc' = "read"
    /\ UNCHANGED <<buffer, pushVars, tail, got, popped>>

(* tryPop loads head_: there is none, and it returns false. *)
PopNone ==
    /\ cpc = "idle"
    /\ tail = head
    /\ UNCHANGED vars

PopRead ==
    /\ cpc = "read"
    /\ got' = buffer[Slot(tail)]
    /\ cpc' = "advance"
    /\ UNCHANGED <<buffer, pushVars, tail, popped>>

(* The store to tail_ gives the slot back; tryPop returns true. *)
PopAdvance ==
    /\ cpc = "advance"
    /\ tail' = Next1(tail)
    /\ popped' = Append(popped, got)
    /\ cpc' = "idle"
    /\ UNCHANGED <<buffer, pushVars, got>>

-------------------------------------------------------------------------------

PushStep == PushWrite \/ PushPublish
TryPush  == PushRoom \/ PushFull \/ PushStep
TryPop   == PopSome \/ PopNone \/ PopRead \/ PopAdvance

Next == TryPush \/ TryPop

(* The matching thread keeps running inside tryPush; the Kafka thread polls. *)
Spec == Init /\ [][Next]_vars /\ WF_vars(PushStep) /\ WF_vars(TryPop)

-------------------------------------------------------------------------------
(* Properties. *)

(* The slots are plain memory.  While tryPush is writing one, tryPop is not *)
(* reading it -- at every fill level, and across the wrap of the indices.   *)
SlotExclusive ==
    ppc = "write" /\ cpc = "read" => Slot(head) # Slot(tail)

(* The events between the two indices. *)
Held == [i \in 1..Ahead(head, tail) |-> buffer[Slot(tail + i - 1)]]

Queue == INSTANCE EventQueue WITH Bound <- Capacity, held <- Held

(* The ring is a bounded first-in first-out queue: what tryPush accepted    *)
(* leaves in order, once, unchanged and in the end, and never more than     *)
(* Capacity are held.                                                       *)
IsEventQueue == Queue!QSpec
===============================================================================
