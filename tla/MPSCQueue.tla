------------------------------- MODULE MPSCQueue -------------------------------
(***************************************************************************)
(* The lock-free ring buffer between the gateway and the matching thread   *)
(* (matching-engine/MPSCQueue.h), one action per atomic access.            *)
(*                                                                         *)
(* Each cell carries a sequence number that says whose turn it is: pos for *)
(* the producer that claims position pos, pos + 1 for the consumer, and    *)
(* pos + Capacity for the producer one lap later.  A producer claims a     *)
(* position by advancing enqueue_pos with a compare-and-swap, writes the   *)
(* item, and publishes it by storing the sequence number; the consumer     *)
(* reads the item and hands the cell back in the same way.                 *)
(*                                                                         *)
(* Every access is sequentially consistent here.  The release stores to    *)
(* sequence and the acquire loads from it order the plain accesses to      *)
(* data, and a relaxed load of enqueue_pos may be out of date by the time  *)
(* it is used in any case, because the load is a step of its own.          *)
(* Positions do not wrap: they are 64-bit counters in the source.          *)
(***************************************************************************)
EXTENDS Naturals, Sequences, FiniteSets

CONSTANTS
    Producers,      \* threads that call enqueue
    Capacity,       \* number of cells
    MaxCalls,       \* bound on the calls of enqueue per producer
    None            \* content of a cell never written

ASSUME QueueAssumption ==
    /\ Capacity \in Nat /\ Capacity >= 2        \* the constructor throws below 2
    /\ MaxCalls \in Nat
    /\ None \notin Producers \X (1..MaxCalls)

VARIABLES
    sequence,       \* Cell::sequence
    data,           \* Cell::data
    enqueue_pos,
    dequeue_pos,
    pc, pos, item,  \* per producer: next step of enqueue, its pos, its argument
    calls,          \* per producer: calls of enqueue so far
    cpc, cpos, got, \* consumer: next step of dequeue, its pos, the item read
    claims,         \* history: the items by the position they claimed
    delivered       \* history: the items dequeue returned

cells     == <<sequence, data>>
producers == <<pc, pos, item, calls>>
consumer  == <<cpc, cpos, got>>
vars == <<sequence, data, enqueue_pos, dequeue_pos, pc, pos, item, calls,
          cpc, cpos, got, claims, delivered>>

Items == Producers \X (1..MaxCalls)     \* the n-th item of a producer
Cells == 0..(Capacity - 1)

Cell(p) == p % Capacity                 \* pos & buffer_mask_

-------------------------------------------------------------------------------

Init ==
    /\ sequence = [c \in Cells |-> c]
    /\ data = [c \in Cells |-> None]
    /\ enqueue_pos = 0 /\ dequeue_pos = 0
    /\ pc = [p \in Producers |-> "idle"]
    /\ pos = [p \in Producers |-> 0]
    /\ item = [p \in Producers |-> None]
    /\ calls = [p \in Producers |-> 0]
    /\ cpc = "idle" /\ cpos = 0 /\ got = None
    /\ claims = << >> /\ delivered = << >>

(* enqueue is called, and loads enqueue_pos. *)
EnqLoad(p) ==
    /\ pc[p] = "idle"
    /\ calls[p] < MaxCalls
    /\ calls' = [calls EXCEPT ![p] = @ + 1]
    /\ item' = [item EXCEPT ![p] = <<p, calls[p] + 1>>]
    /\ pos' = [pos EXCEPT ![p] = enqueue_pos]
    /\ pc' = [pc EXCEPT ![p] = "check"]
    /\ UNCHANGED <<cells, enqueue_pos, dequeue_pos, consumer, claims, delivered>>

(* The cell is free for this position: try to claim it. *)
EnqTurn(p) ==
    /\ pc[p] = "check"
    /\ sequence[Cell(pos[p])] = pos[p]
    /\ pc' = [pc EXCEPT ![p] = "claim"]
    /\ UNCHANGED <<cells, enqueue_pos, dequeue_pos, pos, item, calls, consumer, claims, delivered>>

(* Wrong on purpose: gives up although another producer was only faster. *)
EnqFullOrLate(p) ==
    /\ pc[p] = "check"
    /\ sequence[Cell(pos[p])] # pos[p]
    /\ pc' = [pc EXCEPT ![p] = "idle"]
    /\ UNCHANGED <<cells, enqueue_pos, dequeue_pos, pos, item, calls, consumer, claims, delivered>>

(* The cell still holds the item of the lap before: the queue is full. *)
EnqFull(p) ==
    /\ pc[p] = "check"
    /\ sequence[Cell(pos[p])] < pos[p]
    /\ pc' = [pc EXCEPT ![p] = "idle"]
    /\ UNCHANGED <<cells, enqueue_pos, dequeue_pos, pos, item, calls, consumer, claims, delivered>>

(* Another producer was faster ... *)
EnqLate(p) ==
    /\ pc[p] = "check"
    /\ sequence[Cell(pos[p])] > pos[p]
    /\ pc' = [pc EXCEPT ![p] = "reload"]
    /\ UNCHANGED <<cells, enqueue_pos, dequeue_pos, pos, item, calls, consumer, claims, delivered>>

(* ... load enqueue_pos again. *)
EnqReload(p) ==
    /\ pc[p] = "reload"
    /\ pos' = [pos EXCEPT ![p] = enqueue_pos]
    /\ pc' = [pc EXCEPT ![p] = "check"]
    /\ UNCHANGED <<cells, enqueue_pos, dequeue_pos, item, calls, consumer, claims, delivered>>

(* Wrong on purpose: claims with a plain store. *)
EnqClaimByStore(p) ==
    /\ pc[p] = "claim"
    /\ enqueue_pos' = pos[p] + 1
    /\ claims' = [k \in 1..(IF pos[p] + 1 > Len(claims) THEN pos[p] + 1 ELSE Len(claims)) |->
                     IF k = pos[p] + 1 THEN item[p] ELSE claims[k]]
    /\ pc' = [pc EXCEPT ![p] = "write"]
    /\ UNCHANGED <<cells, dequeue_pos, pos, item, calls, consumer, delivered>>

(* The compare-and-swap succeeds: position pos is claimed. *)
EnqClaim(p) ==
    /\ pc[p] = "claim"
    /\ enqueue_pos = pos[p]
    /\ enqueue_pos' = enqueue_pos + 1
    /\ claims' = Append(claims, item[p])
    /\ pc' = [pc EXCEPT ![p] = "write"]
    /\ UNCHANGED <<cells, dequeue_pos, pos, item, calls, consumer, delivered>>

(* It fails, for another value or spuriously: pos becomes the value found. *)
EnqClaimFails(p) ==
    /\ pc[p] = "claim"
    /\ pos' = [pos EXCEPT ![p] = enqueue_pos]
    /\ pc' = [pc EXCEPT ![p] = "check"]
    /\ UNCHANGED <<cells, enqueue_pos, dequeue_pos, item, calls, consumer, claims, delivered>>

EnqWrite(p) ==
    /\ pc[p] = "write"
    /\ data' = [data EXCEPT ![Cell(pos[p])] = item[p]]
    /\ pc' = [pc EXCEPT ![p] = "publish"]
    /\ UNCHANGED <<sequence, enqueue_pos, dequeue_pos, pos, item, calls, consumer, claims, delivered>>

(* Wrong on purpose: stores the producer's turn again. *)
EnqPublishSame(p) ==
    /\ pc[p] = "publish"
    /\ sequence' = [sequence EXCEPT ![Cell(pos[p])] = pos[p]]
    /\ pc' = [pc EXCEPT ![p] = "idle"]
    /\ UNCHANGED <<data, enqueue_pos, dequeue_pos, pos, item, calls, consumer, claims, delivered>>

EnqPublish(p) ==
    /\ pc[p] = "publish"
    /\ sequence' = [sequence EXCEPT ![Cell(pos[p])] = pos[p] + 1]
    /\ pc' = [pc EXCEPT ![p] = "idle"]
    /\ UNCHANGED <<data, enqueue_pos, dequeue_pos, pos, item, calls, consumer, claims, delivered>>

-------------------------------------------------------------------------------

(* dequeue finds the cell at dequeue_pos published. *)
DeqTurn ==
    /\ cpc = "idle"
    /\ sequence[Cell(dequeue_pos)] = dequeue_pos + 1
    /\ cpos' = dequeue_pos
    /\ cpc' = "read"
    /\ UNCHANGED <<cells, enqueue_pos, dequeue_pos, producers, got, claims, delivered>>

(* It does not: dequeue returns false, whatever the cells behind hold. *)
DeqEmpty ==
    /\ cpc = "idle"
    /\ sequence[Cell(dequeue_pos)] # dequeue_pos + 1
    /\ UNCHANGED vars

DeqRead ==
    /\ cpc = "read"
    /\ got' = data[Cell(cpos)]
    /\ cpc' = "advance"
    /\ UNCHANGED <<cells, enqueue_pos, dequeue_pos, producers, cpos, claims, delivered>>

(* Only the consumer writes dequeue_pos. *)
DeqAdvance ==
    /\ cpc = "advance"
    /\ dequeue_pos' = cpos + 1
    /\ cpc' = "release"
    /\ UNCHANGED <<cells, enqueue_pos, producers, cpos, got, claims, delivered>>

(* The cell goes to the producer of the next lap, and dequeue returns true. *)
DeqRelease ==
    /\ cpc = "release"
    /\ sequence' = [sequence EXCEPT ![Cell(cpos)] = cpos + Capacity]
    /\ cpc' = "idle"
    /\ delivered' = Append(delivered, got)
    /\ UNCHANGED <<data, enqueue_pos, dequeue_pos, producers, cpos, got, claims>>

-------------------------------------------------------------------------------

(* The steps of an enqueue that was called. *)
EnqStep(p) ==
    \/ EnqTurn(p) \/ EnqFull(p) \/ EnqLate(p) \/ EnqReload(p)
    \/ EnqClaim(p) \/ EnqClaimFails(p)
    \/ EnqWrite(p) \/ EnqPublish(p)

Dequeue == DeqTurn \/ DeqEmpty \/ DeqRead \/ DeqAdvance \/ DeqRelease

Next ==
    \/ \E p \in Producers : EnqLoad(p) \/ EnqStep(p)
    \/ Dequeue

(* A thread inside enqueue keeps running; the matching thread polls.        *)
Spec == Init /\ [][Next]_vars
             /\ \A p \in Producers : WF_vars(EnqStep(p))
             /\ WF_vars(Dequeue)

-------------------------------------------------------------------------------
(* Properties. *)

PastClaim == {p \in Producers : pc[p] \in {"write", "publish"}}

(* Positions whose cell the consumer has handed back. *)
Released == IF cpc = "release" THEN dequeue_pos - 1 ELSE dequeue_pos

TypeOK ==
    /\ sequence \in [Cells -> Nat]
    /\ data \in [Cells -> Items \cup {None}]
    /\ enqueue_pos \in Nat /\ dequeue_pos \in Nat
    /\ pc \in [Producers -> {"idle", "check", "reload", "claim", "write", "publish"}]
    /\ pos \in [Producers -> Nat]
    /\ item \in [Producers -> Items \cup {None}]
    /\ calls \in [Producers -> 0..MaxCalls]
    /\ cpc \in {"idle", "read", "advance", "release"} /\ cpos \in Nat
    /\ got \in Items \cup {None}
    /\ claims \in Seq(Items) /\ delivered \in Seq(Items)

(* data is not atomic: a producer that writes a cell shares it with no      *)
(* other producer past its claim, and with the consumer not at all from the *)
(* moment dequeue sees its turn until it hands the cell back.               *)
ExclusiveCell ==
    \A p \in PastClaim :
        /\ \A q \in PastClaim \ {p} : Cell(pos[p]) # Cell(pos[q])
        /\ cpc # "idle" => Cell(pos[p]) # Cell(cpos)

(* enqueue returns false -- and the gateway drops the order -- only when    *)
(* every cell of the ring is taken: losing the race for a position, however *)
(* often and with however old a pos, is never mistaken for a full queue.    *)
RefusedOnlyWhenFull ==
    [][\A p \in Producers :
          pc[p] = "check" /\ pc'[p] = "idle" => enqueue_pos - Released = Capacity]_vars

(* The reserved places: claimed and not yet handed back. *)
Pending ==
    [i \in 1..(enqueue_pos - Released) |->
        LET k == Released + i - 1
        IN  [value |-> claims[k + 1], ready |-> sequence[Cell(k)] = k + 1]]

Queue == INSTANCE ReservationQueue
             WITH Values <- Items, pending <- Pending, taken <- delivered

(* The ring buffer is a bounded queue in claim order: nothing is lost,      *)
(* duplicated, reordered or read before it was written, a cell is never     *)
(* claimed again before the consumer is done with it, and what enqueue      *)
(* accepted is delivered in the end, even while producers keep losing races *)
(* and one of them is slow to publish.                                      *)
IsReservationQueue == Queue!QueueSpec
===============================================================================
