---------------------------- MODULE MPSCQueue_proofs ----------------------------
(***************************************************************************)
(* Proofs about the ingress ring, for any number of producers, any         *)
(* capacity from two and any number of calls: every step is one of the     *)
(* reservation queue or none, a cell being written is nobody else's, and   *)
(* enqueue refuses only when the ring is full.                             *)
(*                                                                         *)
(* The positions in play are the Capacity ones from Released on (Window),  *)
(* each with a cell of its own.  The cell of a position n in the window    *)
(* holds the sequence number n until the item is published and n + 1 from  *)
(* then on (CellsInv); that of an earlier position holds a larger one, so  *)
(* an old pos is recognised as late, never as full.                        *)
(***************************************************************************)
EXTENDS MPSCQueue, SequenceTheorems, TLAPS

(* Remainders: there is one representation, ...                            *)
LEMMA ModUnique ==
    ASSUME NEW m \in Nat \ {0}, NEW q \in Int, NEW r \in 0..(m - 1)
    PROVE  (q * m + r) % m = r
OBVIOUS

(* ... every number has it, ...                                            *)
LEMMA ModSplit ==
    ASSUME NEW m \in Nat \ {0}, NEW a \in Nat
    PROVE  a % m \in 0..(m - 1) /\ \E q \in Nat : a = q * m + (a % m)
<1>1. a % m \in 0..(m-1) /\ a = (a \div m) * m + (a % m) /\ a \div m \in Nat
  OBVIOUS
<1> QED BY <1>1

(* ... and numbers less than m apart have different remainders.            *)
LEMMA Apart ==
    ASSUME NEW m \in Nat \ {0}, NEW a \in Nat, NEW b \in Nat, a - b \in 1..(m - 1)
    PROVE  a % m # b % m
<1> SUFFICES ASSUME a % m = b % m PROVE FALSE
  OBVIOUS
<1>1. PICK p \in Nat : a = p * m + (a % m)
  BY ModSplit
<1>2. PICK q \in Nat : b = q * m + (b % m)
  BY ModSplit
<1>3. a - b = (p - q) * m
  BY <1>1, <1>2
<1>4. p - q >= 1 => (p - q) * m >= m
  OBVIOUS
<1>5. p - q <= 0 => (p - q) * m <= 0
  OBVIOUS
<1> QED
  BY <1>3, <1>4, <1>5


(* What the proofs use of the capacity.                                    *)
LEMMA CapacityFacts == Capacity \in Nat /\ Capacity >= 2
BY QueueAssumption

(* Every position has a cell, ...                                          *)
LEMMA CellRange == \A n \in Nat : Cell(n) \in Cells
<1>1. Capacity \in Nat \ {0}
  BY CapacityFacts
<1> QED
  BY <1>1, ModSplit DEF Cell, Cells

(* ... and those of fewer than Capacity successive positions differ.       *)
LEMMA CellsApart ==
    ASSUME NEW a \in Nat, NEW b \in Nat, a - b \in 1..(Capacity - 1)
    PROVE  Cell(a) # Cell(b) /\ Cell(b) # Cell(a)
<1>1. Capacity \in Nat \ {0}
  BY CapacityFacts
<1>2. a % Capacity # b % Capacity
  BY <1>1, Apart
<1> QED
  BY <1>2 DEF Cell

(* The position one lap later has the same cell.                           *)
LEMMA CellNextLap ==
    ASSUME NEW n \in Nat
    PROVE  Cell(n + Capacity) = Cell(n)
<1>0. Capacity \in Nat \ {0}
  BY CapacityFacts
<1>1. PICK q \in Nat : n = q * Capacity + (n % Capacity)
  BY <1>0, ModSplit
<1> DEFINE r == n % Capacity
           t == q + 1
<1>2. r \in 0..(Capacity - 1) /\ t \in Int
  BY <1>0, ModSplit
<1>3. n + Capacity = t * Capacity + r
  <2> DEFINE u == q * Capacity
  <2>1. t * Capacity = u + Capacity /\ u \in Nat /\ n = u + r
    BY <1>0, <1>1
  <2> HIDE DEF u, r, t
  <2> QED
    BY <1>0, <1>2, <2>1
<1> HIDE DEF r, t
<1>4. (t * Capacity + r) % Capacity = r
  BY <1>0, <1>2, ModUnique
<1> QED
  BY <1>3, <1>4 DEF r, Cell

-------------------------------------------------------------------------------
(* The invariant.                                                          *)
Window == Released..(Released + Capacity - 1)

WindowInv ==
    /\ Released \in Nat /\ enqueue_pos - Released \in 0..Capacity
    /\ Len(claims) = enqueue_pos
    /\ cpc # "idle" => cpos = Released /\ Released < enqueue_pos
                       /\ sequence[Cell(cpos)] = cpos + 1
    /\ cpc \in {"advance", "release"} => got = claims[cpos + 1]

CellsInv ==
    /\ \A n \in Window :
          /\ sequence[Cell(n)] = n \/ (sequence[Cell(n)] = n + 1 /\ n < enqueue_pos
                                        /\ data[Cell(n)] = claims[n + 1])
    /\ \A n \in Nat : n < Released => sequence[Cell(n)] > n

Claimed(p) ==
    /\ pos[p] \in Released..(enqueue_pos - 1)
    /\ sequence[Cell(pos[p])] = pos[p]
    /\ item[p] = claims[pos[p] + 1]

ProducersInv ==
    \A p \in Producers :
        /\ pos[p] <= enqueue_pos
        /\ pc[p] # "idle" => item[p] \in Items
        /\ pc[p] = "claim" /\ pos[p] = enqueue_pos => enqueue_pos - Released < Capacity
        /\ p \in PastClaim => Claimed(p)
        /\ pc[p] = "publish" => data[Cell(pos[p])] = item[p]
        /\ \A q \in Producers : {p, q} \subseteq PastClaim /\ p # q => pos[p] # pos[q]

RingInv == TypeOK /\ WindowInv /\ CellsInv /\ ProducersInv

(* So do those of the window.                                              *)
LEMMA WindowApart ==
    ASSUME RingInv, NEW a \in Window, NEW b \in Window, a # b
    PROVE  a \in Nat /\ b \in Nat /\ Cell(a) # Cell(b)
<1>1. a \in Nat /\ b \in Nat /\ (a - b \in 1..(Capacity - 1) \/ b - a \in 1..(Capacity - 1))
  BY CapacityFacts DEF RingInv, WindowInv, Window
<1> QED
  BY <1>1, CellsApart

(* A cell whose turn has come is free: the ring is not full.               *)
LEMMA TurnMeansRoom ==
    ASSUME RingInv, sequence[Cell(enqueue_pos)] = enqueue_pos
    PROVE  enqueue_pos - Released < Capacity
<1>1. Released \in Nat /\ enqueue_pos \in Nat /\ enqueue_pos - Released \in 0..Capacity
      /\ Capacity \in Nat /\ Capacity >= 2
  BY CapacityFacts DEF RingInv, WindowInv, TypeOK
<1>2. CASE enqueue_pos = Released + Capacity
  <2>1. Cell(enqueue_pos) = Cell(Released) /\ Released \in Window
    BY <1>1, <1>2, CellNextLap DEF Window
  <2>2. sequence[Cell(Released)] \in {Released, Released + 1}
    BY <2>1 DEF RingInv, CellsInv
  <2> QED
    BY <1>1, <1>2, <2>1, <2>2
<1> QED
  BY <1>1, <1>2

(* A cell that is behind is behind by a lap: the ring is full.             *)
LEMMA BehindMeansFull ==
    ASSUME RingInv, NEW p \in Producers, sequence[Cell(pos[p])] < pos[p]
    PROVE  enqueue_pos - Released = Capacity
<1>1. /\ Released \in Nat /\ enqueue_pos \in Nat /\ enqueue_pos - Released \in 0..Capacity
      /\ Capacity \in Nat /\ pos[p] \in Nat /\ pos[p] <= enqueue_pos
  BY CapacityFacts DEF RingInv, WindowInv, TypeOK, ProducersInv
<1>2. ~ (pos[p] < Released)
  <2>1. sequence[Cell(pos[p])] \in Nat
    BY <1>1, CellRange DEF RingInv, TypeOK
  <2> QED
    BY <1>1, <2>1 DEF RingInv, CellsInv
<1>3. pos[p] \notin Window
  BY <1>1 DEF RingInv, CellsInv
<1> QED
  BY <1>1, <1>2, <1>3 DEF Window

-------------------------------------------------------------------------------
(* Steps of enqueue that touch nothing but the producer's own variables.   *)
Looks(p) == EnqLoad(p) \/ EnqTurn(p) \/ EnqFull(p) \/ EnqLate(p) \/ EnqReload(p)
            \/ EnqClaimFails(p)

(* They keep the invariant and are no step of the reservation queue.       *)
LEMMA LooksKeep ==
    ASSUME RingInv, NEW p \in Producers, Looks(p)
    PROVE  RingInv' /\ UNCHANGED <<Pending, delivered>>
<1>1. /\ UNCHANGED <<sequence, data, enqueue_pos, dequeue_pos, cpc, cpos, got, claims, delivered>>
      /\ Released' = Released
  BY DEF Looks, EnqLoad, EnqTurn, EnqFull, EnqLate, EnqReload, EnqClaimFails, cells, consumer,
         Released
<1>2. TypeOK'
  <2>1. CASE EnqLoad(p)
    <3>1. calls[p] + 1 \in 1..MaxCalls /\ <<p, calls[p] + 1>> \in Items
      BY <2>1, QueueAssumption DEF EnqLoad, RingInv, TypeOK, Items
    <3> QED
      BY <1>1, <2>1, <3>1 DEF EnqLoad, RingInv, TypeOK
  <2>2. CASE ~EnqLoad(p)
    <3>1. pc' \in [Producers -> {"idle", "check", "reload", "claim", "write", "publish"}]
      BY <2>2 DEF Looks, EnqTurn, EnqFull, EnqLate, EnqReload, EnqClaimFails, RingInv, TypeOK
    <3>2. pos' \in [Producers -> Nat] /\ UNCHANGED <<item, calls>>
      BY <2>2 DEF Looks, EnqTurn, EnqFull, EnqLate, EnqReload, EnqClaimFails, RingInv, TypeOK
    <3> QED
      BY <1>1, <3>1, <3>2 DEF RingInv, TypeOK
  <2> QED
    BY <2>1, <2>2
<1>3. WindowInv' /\ CellsInv'
  BY <1>1 DEF RingInv, WindowInv, CellsInv, Window
<1>4. /\ \A q \in Producers \ {p} : pc'[q] = pc[q] /\ pos'[q] = pos[q] /\ item'[q] = item[q]
      /\ pc[p] \notin {"write", "publish"} /\ pc'[p] \notin {"write", "publish"}
      /\ pos'[p] <= enqueue_pos
  BY DEF Looks, EnqLoad, EnqTurn, EnqFull, EnqLate, EnqReload, EnqClaimFails, RingInv, TypeOK,
         ProducersInv
<1>5. pc'[p] # "idle" => item'[p] \in Items
  <2>1. CASE EnqLoad(p)
    <3>1. calls[p] + 1 \in 1..MaxCalls /\ <<p, calls[p] + 1>> \in Items
      BY <2>1, QueueAssumption DEF EnqLoad, RingInv, TypeOK, Items
    <3> QED
      BY <2>1, <3>1 DEF EnqLoad, RingInv, TypeOK
  <2>2. CASE ~EnqLoad(p)
    <3>1. item' = item /\ pc[p] # "idle"
      BY <2>2 DEF Looks, EnqTurn, EnqFull, EnqLate, EnqReload, EnqClaimFails
    <3> QED
      BY <3>1 DEF RingInv, ProducersInv
  <2> QED
    BY <2>1, <2>2
<1>6. pc'[p] = "claim" /\ pos'[p] = enqueue_pos => enqueue_pos - Released < Capacity
  <2>1. pc'[p] = "claim" => pos' = pos /\ sequence[Cell(pos[p])] = pos[p]
    BY DEF Looks, EnqLoad, EnqTurn, EnqFull, EnqLate, EnqReload, EnqClaimFails, RingInv, TypeOK
  <2> QED
    BY <2>1, TurnMeansRoom
<1>7. PastClaim' = PastClaim /\ p \notin PastClaim
  BY <1>4 DEF PastClaim
<1>8. ProducersInv'
  BY <1>1, <1>4, <1>5, <1>6, <1>7 DEF RingInv, ProducersInv, Claimed
<1> QED
  BY <1>1, <1>2, <1>3, <1>8 DEF RingInv, Pending

(* The cell written is of a claimed position not yet published.            *)
LEMMA WriteKeeps ==
    ASSUME RingInv, NEW p \in Producers, EnqWrite(p)
    PROVE  RingInv' /\ UNCHANGED <<Pending, delivered>>
<1>1. /\ UNCHANGED <<sequence, enqueue_pos, dequeue_pos, cpc, cpos, got, claims, delivered,
                     pos, item, calls>>
      /\ Released' = Released /\ pc[p] = "write"
      /\ pc' = [pc EXCEPT ![p] = "publish"]
      /\ data' = [data EXCEPT ![Cell(pos[p])] = item[p]]
  BY DEF EnqWrite, consumer, Released
<1>2. /\ Claimed(p) /\ item[p] \in Items /\ pos[p] \in Nat /\ p \in PastClaim
      /\ Released \in Nat /\ enqueue_pos \in Nat /\ enqueue_pos - Released \in 0..Capacity
      /\ Capacity \in Nat
  BY <1>1, CapacityFacts DEF RingInv, ProducersInv, PastClaim, TypeOK, WindowInv
<1>3. Cell(pos[p]) \in Cells /\ pos[p] \in Window
  BY <1>2, CellRange DEF Claimed, Window
<1>4. TypeOK'
  BY <1>1, <1>2, <1>3 DEF RingInv, TypeOK
<1>5. WindowInv'
  BY <1>1 DEF RingInv, WindowInv
<1>6. \A n \in Window \ {pos[p]} : data'[Cell(n)] = data[Cell(n)]
  BY <1>1, <1>3, WindowApart DEF RingInv, TypeOK
<1>7. data'[Cell(pos[p])] = item[p]
  BY <1>1, <1>3 DEF RingInv, TypeOK
<1>8. CellsInv'
  <2>1. sequence[Cell(pos[p])] = pos[p]
    BY <1>2 DEF Claimed
  <2>2. \A n \in Window : \/ sequence[Cell(n)] = n
                          \/ (sequence[Cell(n)] = n + 1 /\ n < enqueue_pos
                              /\ data'[Cell(n)] = claims[n + 1])
    BY <1>6, <2>1 DEF RingInv, CellsInv
  <2> QED
    BY <1>1, <2>2 DEF RingInv, CellsInv, Window
<1>9. ProducersInv'
  <2>1. PastClaim' = PastClaim
    BY <1>1 DEF PastClaim, RingInv, TypeOK
  <2>2. \A q \in Producers \ {p} : pc'[q] = pc[q] /\ (pc[q] = "publish" =>
          data'[Cell(pos[q])] = item[q])
    <3>1. ASSUME NEW q \in Producers \ {p}, pc[q] = "publish"
          PROVE  data'[Cell(pos[q])] = item[q]
      <4>1. q \in PastClaim /\ Claimed(q) /\ pos[q] # pos[p] /\ data[Cell(pos[q])] = item[q]
        BY <1>2, <3>1 DEF RingInv, ProducersInv, PastClaim
      <4>2. pos[q] \in Window
        BY <1>2, <4>1 DEF Claimed, Window
      <4> QED
        BY <1>6, <4>1, <4>2
    <3> QED
      BY <1>1, <3>1 DEF RingInv, TypeOK
  <2>3. pc'[p] = "publish"
    BY <1>1 DEF RingInv, TypeOK
  <2> QED
    BY <1>1, <1>2, <1>7, <2>1, <2>2, <2>3 DEF RingInv, ProducersInv, Claimed
<1> QED
  BY <1>1, <1>4, <1>5, <1>8, <1>9 DEF RingInv, Pending

(* The compare-and-swap reserves the next place.                           *)
LEMMA ClaimReserves ==
    ASSUME RingInv, NEW p \in Producers, EnqClaim(p)
    PROVE  /\ RingInv'
           /\ item[p] \in Items /\ Len(Pending) < Capacity
           /\ Pending' = Append(Pending, [value |-> item[p], ready |-> FALSE])
           /\ delivered' = delivered
<1> DEFINE e == enqueue_pos
           r == Released
           more == Append(claims, item[p])
<1>1. /\ UNCHANGED <<sequence, data, dequeue_pos, pos, item, calls, cpc, cpos, got, delivered>>
      /\ Released' = r /\ pc[p] = "claim" /\ pos[p] = e /\ enqueue_pos' = e + 1
      /\ pc' = [pc EXCEPT ![p] = "write"] /\ claims' = more
  BY DEF EnqClaim, consumer, cells, Released
<1>2. /\ r \in Nat /\ e \in Nat /\ Capacity \in Nat /\ e - r \in 0..(Capacity - 1)
      /\ item[p] \in Items /\ claims \in Seq(Items) /\ Len(claims) = e
  BY <1>1, CapacityFacts DEF RingInv, WindowInv, TypeOK, ProducersInv
<1>3. /\ more \in Seq(Items) /\ Len(more) = e + 1 /\ more[e + 1] = item[p]
      /\ \A i \in 1..e : more[i] = claims[i]
  BY <1>2, AppendProperties
<1> HIDE DEF more
<1>4. sequence[Cell(e)] = e /\ Cell(e) \in Cells
  <2>1. e \in Window
    BY <1>2 DEF Window
  <2> QED
    BY <1>2, <2>1, CellRange DEF RingInv, CellsInv
<1>5. TypeOK'
  BY <1>1, <1>2, <1>3 DEF RingInv, TypeOK
<1>6. WindowInv'
  <2>1. cpc \in {"advance", "release"} => cpos + 1 \in 1..e
    BY <1>2 DEF RingInv, WindowInv
  <2> HIDE DEF e, r
  <2>2. /\ cpc # "idle" => cpos = r /\ r < e /\ sequence[Cell(cpos)] = cpos + 1
        /\ cpc \in {"advance", "release"} => got = claims[cpos + 1]
    BY DEF RingInv, WindowInv, e, r
  <2> QED
    BY <1>1, <1>2, <1>3, <2>1, <2>2 DEF WindowInv
<1>7. CellsInv'
  <2>1. ASSUME NEW n \in Window
        PROVE  \/ sequence[Cell(n)] = n
               \/ (sequence[Cell(n)] = n + 1 /\ n < e + 1 /\ data[Cell(n)] = more[n + 1])
    <3>1. CASE sequence[Cell(n)] = n
      BY <3>1
    <3>2. CASE sequence[Cell(n)] = n + 1 /\ n < e /\ data[Cell(n)] = claims[n + 1]
      <4>1. n + 1 \in 1..e /\ n < e + 1
        BY <1>2, <3>2 DEF Window
      <4> QED
        BY <1>3, <3>2, <4>1
    <3> QED
      BY <3>1, <3>2 DEF RingInv, CellsInv
  <2>2. Window' = Window
    BY <1>1 DEF Window
  <2> QED
    BY <1>1, <2>1, <2>2 DEF RingInv, CellsInv
<1>8. ProducersInv'
  <2>1. /\ \A q \in Producers \ {p} : pc'[q] = pc[q]
        /\ pc'[p] = "write" /\ p \notin PastClaim
    BY <1>1 DEF RingInv, TypeOK, PastClaim
  <2>2. PastClaim' = PastClaim \cup {p}
    BY <2>1 DEF PastClaim
  <2>3. ASSUME NEW q \in PastClaim
        PROVE  /\ pos[q] \in r..(e - 1) /\ sequence[Cell(pos[q])] = pos[q]
               /\ item[q] = more[pos[q] + 1] /\ pos[q] # pos[p]
    <3>1. Claimed(q)
      BY <2>3 DEF RingInv, ProducersInv, PastClaim
    <3>2. pos[q] + 1 \in 1..e /\ pos[q] # e
      BY <1>2, <3>1 DEF Claimed
    <3> QED
      BY <1>1, <1>3, <3>1, <3>2 DEF Claimed
  <2>4. \A q \in PastClaim' : Claimed(q)'
    BY <1>1, <1>2, <1>3, <1>4, <2>2, <2>3 DEF Claimed
  <2>5. \A q \in Producers : pos[q] <= e /\ pos[q] \in Nat
    BY DEF RingInv, ProducersInv, TypeOK
  <2>6. \A q \in Producers : pos'[q] <= enqueue_pos' /\ pos'[q] \in Nat
    BY <1>1, <1>2, <2>5
  <2>7. \A q \in Producers \ {p} : ~(pc'[q] = "claim" /\ pos'[q] = enqueue_pos')
    BY <1>1, <1>2, <2>5
  <2>8. \A q, s \in Producers : {q, s} \subseteq PastClaim' /\ q # s => pos'[q] # pos'[s]
    BY <1>1, <2>2, <2>3 DEF RingInv, ProducersInv
  <2> QED
    BY <1>1, <1>2, <2>1, <2>4, <2>6, <2>7, <2>8 DEF RingInv, ProducersInv
<1>9. Len(Pending) < Capacity /\ Pending' = Append(Pending, [value |-> item[p], ready |-> FALSE])
  <2> DEFINE place(n) == [value |-> claims[n + 1], ready |-> sequence[Cell(n)] = n + 1]
             place2(n) == [value |-> more[n + 1], ready |-> sequence[Cell(n)] = n + 1]
             h == e - r
  <2>1. h \in Nat /\ (e + 1) - r = h + 1 /\ r + (h + 1) - 1 = e
    BY <1>2
  <2>2. Pending = [i \in 1..h |-> place(r + i - 1)]
    BY DEF Pending
  <2>3. Pending' = [i \in 1..(h + 1) |-> place2(r + i - 1)]
    BY <1>1, <2>1 DEF Pending
  <2>4. \A i \in 1..h : place2(r + i - 1) = place(r + i - 1)
    <3>1. \A i \in 1..h : (r + i - 1) + 1 \in 1..e
      BY <1>2
    <3> QED
      BY <1>3, <3>1
  <2>5. place2(e) = [value |-> item[p], ready |-> FALSE]
    <3>1. more[e + 1] = item[p] /\ (sequence[Cell(e)] = e + 1) = FALSE
      BY <1>2, <1>3, <1>4
    <3> QED
      BY <3>1
  <2> DEFINE old(i) == place(r + i - 1)
             top == [value |-> item[p], ready |-> FALSE]
  <2>6. /\ Pending = [i \in 1..h |-> old(i)]
        /\ Pending' = [i \in 1..(h + 1) |-> IF i = h + 1 THEN top ELSE old(i)]
    <3>1. \A i \in 1..(h + 1) : place2(r + i - 1) = IF i = h + 1 THEN top ELSE old(i)
      <4>1. \A i \in 1..(h + 1) : i # h + 1 => i \in 1..h
        BY <2>1
      <4> HIDE DEF place, place2, h, e, r
      <4> QED
        BY <2>1, <2>4, <2>5, <4>1
    <3> HIDE DEF place, place2, old, top, h, e, r
    <3>2. Pending = [i \in 1..h |-> old(i)]
      BY <2>2 DEF old
    <3> QED
      BY <2>3, <3>1, <3>2
  <2> HIDE DEF h, place, place2, old, top, e, r
  <2>7. Pending' = Append(Pending, top)
    BY <2>1, <2>6
  <2>8. Len(Pending) = h
    BY <2>1, <2>6
  <2> QED
    BY <1>2, <2>1, <2>7, <2>8 DEF h, e, r, top
<1> QED
  BY <1>1, <1>2, <1>5, <1>6, <1>7, <1>8, <1>9 DEF RingInv
(* What Fill does to a place.                                              *)
LEMMA SetReady ==
    ASSUME NEW v, NEW old, NEW new
    PROVE  [[value |-> v, ready |-> old] EXCEPT !.ready = new] = [value |-> v, ready |-> new]
OBVIOUS

(* The store to sequence fills the place of the claimed position.          *)
LEMMA PublishFills ==
    ASSUME RingInv, NEW p \in Producers, EnqPublish(p)
    PROVE  RingInv' /\ \E i \in 1..Len(Pending) : Queue!Fill(i)
<1> DEFINE e == enqueue_pos
           r == Released
           k == pos[p]
<1>1. /\ UNCHANGED <<data, enqueue_pos, dequeue_pos, pos, item, calls, cpc, cpos, got, claims,
                     delivered>>
      /\ Released' = r /\ pc[p] = "publish"
      /\ pc' = [pc EXCEPT ![p] = "idle"]
      /\ sequence' = [sequence EXCEPT ![Cell(k)] = k + 1]
  BY DEF EnqPublish, consumer, Released
<1>2. /\ Claimed(p) /\ data[Cell(k)] = item[p] /\ k \in Nat /\ p \in PastClaim
      /\ r \in Nat /\ e \in Nat /\ e - r \in 0..Capacity /\ Capacity \in Nat
  BY <1>1, CapacityFacts DEF RingInv, ProducersInv, PastClaim, TypeOK, WindowInv
<1>3. /\ Cell(k) \in Cells /\ k \in Window /\ k \in r..(e - 1) /\ sequence[Cell(k)] = k
      /\ data[Cell(k)] = claims[k + 1]
  BY <1>2, CellRange DEF Claimed, Window
<1>4. TypeOK'
  BY <1>1, <1>2, <1>3 DEF RingInv, TypeOK
<1>5. /\ sequence'[Cell(k)] = k + 1
      /\ \A c \in Cells : c # Cell(k) => sequence'[c] = sequence[c]
  BY <1>1, <1>3 DEF RingInv, TypeOK
<1>6. \A n \in Window \ {k} : sequence'[Cell(n)] = sequence[Cell(n)]
  <2>1. \A n \in Window \ {k} : n \in Nat /\ Cell(n) # Cell(k)
    BY <1>3, WindowApart
  <2> QED
    BY <1>5, <2>1, CellRange
<1>7. WindowInv'
  <2>1. r \in Window
    BY <1>2, CapacityFacts DEF Window
  <2>2. cpc # "idle" => sequence'[Cell(r)] = r + 1
    BY <1>5, <1>6, <2>1 DEF RingInv, WindowInv
  <2> QED
    BY <1>1, <2>2 DEF RingInv, WindowInv
<1>8. CellsInv'
  <2>1. \A n \in Window : \/ sequence'[Cell(n)] = n
                          \/ (sequence'[Cell(n)] = n + 1 /\ n < e /\ data[Cell(n)] = claims[n + 1])
    <3>1. \A n \in Window \ {k} :
              \/ sequence'[Cell(n)] = n
              \/ (sequence'[Cell(n)] = n + 1 /\ n < e /\ data[Cell(n)] = claims[n + 1])
      BY <1>6 DEF RingInv, CellsInv
    <3>2. k < e
      BY <1>2, <1>3
    <3> QED
      BY <1>3, <1>5, <3>1, <3>2
  <2>2. \A n \in Nat : n < r => sequence'[Cell(n)] > n
    <3>1. ASSUME NEW n \in Nat, n < r PROVE sequence'[Cell(n)] > n
      <4>1. sequence[Cell(n)] > n /\ Cell(n) \in Cells /\ k + 1 > n
        BY <1>2, <1>3, <3>1, CellRange DEF RingInv, CellsInv
      <4> QED
        BY <1>5, <4>1
    <3> QED
      BY <3>1
  <2>3. Window' = Window
    BY <1>1 DEF Window
  <2> QED
    BY <1>1, <2>1, <2>2, <2>3 DEF CellsInv
<1>9. ProducersInv'
  <2>1. /\ \A q \in Producers \ {p} : pc'[q] = pc[q]
        /\ pc'[p] = "idle"
    BY <1>1 DEF RingInv, TypeOK
  <2>2. PastClaim' = PastClaim \ {p}
    BY <2>1 DEF PastClaim
  <2>3. ASSUME NEW q \in PastClaim \ {p}
        PROVE  sequence'[Cell(pos[q])] = sequence[Cell(pos[q])]
    <3>1. Claimed(q) /\ pos[q] # k
      BY <1>2 DEF RingInv, ProducersInv, PastClaim
    <3>2. pos[q] \in Window
      BY <1>2, <3>1 DEF Claimed, Window
    <3> QED
      BY <1>6, <3>1, <3>2
  <2>4. \A q \in PastClaim' : Claimed(q)'
    <3>1. \A q \in PastClaim \ {p} : Claimed(q)
      BY DEF RingInv, ProducersInv, PastClaim
    <3> QED
      BY <1>1, <2>2, <2>3, <3>1 DEF Claimed
  <2> QED
    BY <1>1, <2>1, <2>2, <2>4 DEF RingInv, ProducersInv
<1>10. \E i \in 1..Len(Pending) : Queue!Fill(i)
  <2> DEFINE h == e - r
             place(i) == [value |-> claims[(r + i - 1) + 1],
                          ready |-> sequence[Cell(r + i - 1)] = (r + i - 1) + 1]
             place2(i) == [value |-> claims[(r + i - 1) + 1],
                           ready |-> sequence'[Cell(r + i - 1)] = (r + i - 1) + 1]
             j == k - r + 1
  <2>1. h \in Nat /\ j \in 1..h /\ r + j - 1 = k
    BY <1>2, <1>3
  <2>2. Pending = [i \in 1..h |-> place(i)]
    BY DEF Pending
  <2>3. Pending' = [i \in 1..h |-> place2(i)]
    BY <1>1 DEF Pending
  <2>4. \A i \in 1..h : i # j => place2(i) = place(i)
    <3>1. ASSUME NEW i \in 1..h, i # j PROVE place2(i) = place(i)
      <4>1. r + i - 1 \in Window \ {k}
        BY <1>2, <3>1 DEF Window
      <4>2. sequence'[Cell(r + i - 1)] = sequence[Cell(r + i - 1)]
        BY <1>6, <4>1
      <4> QED
        BY <4>2
    <3> QED
      BY <3>1
  <2>5. place(j) = [value |-> claims[k + 1], ready |-> FALSE]
    <3>1. (sequence[Cell(k)] = k + 1) = FALSE
      BY <1>2, <1>3
    <3> QED
      BY <2>1, <3>1
  <2>6. place2(j) = [value |-> claims[k + 1], ready |-> TRUE]
    <3>1. (sequence'[Cell(k)] = k + 1) = TRUE
      BY <1>5
    <3> QED
      BY <2>1, <3>1
  <2> HIDE DEF h, j, place, place2, e, r, k
  <2>7. Len(Pending) = h /\ ~Pending[j].ready
    BY <2>1, <2>2, <2>5
  <2>8. [Pending[j] EXCEPT !.ready = TRUE] = place2(j)
    <3>1. Pending[j] = [value |-> claims[k + 1], ready |-> FALSE]
      BY <2>1, <2>2, <2>5
    <3>2. [[value |-> claims[k + 1], ready |-> FALSE] EXCEPT !.ready = TRUE]
              = [value |-> claims[k + 1], ready |-> TRUE]
      BY SetReady, Zenon
    <3> QED
      BY <3>1, <3>2, <2>6, Zenon
  <2>9. Pending' = [Pending EXCEPT ![j].ready = TRUE]
    BY <2>1, <2>2, <2>3, <2>4, <2>8
  <2> QED
    BY <1>1, <2>1, <2>7, <2>9 DEF Queue!Fill
<1> QED
  BY <1>4, <1>7, <1>8, <1>9, <1>10 DEF RingInv

-------------------------------------------------------------------------------
(* Steps of dequeue before it hands the cell back.                         *)
LEMMA DequeueKeeps ==
    ASSUME RingInv, DeqTurn \/ DeqEmpty \/ DeqRead \/ DeqAdvance
    PROVE  RingInv' /\ UNCHANGED <<Pending, delivered>>
<1> DEFINE e == enqueue_pos
           r == Released
<1>1. UNCHANGED <<sequence, data, enqueue_pos, pc, pos, item, calls, claims, delivered>>
  BY DEF DeqTurn, DeqEmpty, DeqRead, DeqAdvance, cells, producers, vars
<1>2. /\ r \in Nat /\ e \in Nat /\ e - r \in 0..Capacity /\ Capacity \in Nat
      /\ cpc # "idle" => cpos = r /\ r < e /\ sequence[Cell(cpos)] = cpos + 1
  BY CapacityFacts DEF RingInv, WindowInv, TypeOK
<1>3. r \in Window
  BY <1>2, CapacityFacts DEF Window
<1>4. Released' = r
  <2>1. CASE DeqAdvance
    <3>1. cpc = "advance" /\ cpc' = "release" /\ dequeue_pos' = cpos + 1
      BY <2>1 DEF DeqAdvance
    <3> QED
      BY <1>2, <3>1 DEF Released
  <2>2. CASE ~DeqAdvance
    BY <2>2 DEF DeqTurn, DeqEmpty, DeqRead, Released, vars
  <2> QED
    BY <2>1, <2>2
<1>5. /\ cpc' # "idle" => cpos' = r /\ r < e /\ sequence[Cell(r)] = r + 1
      /\ cpc' \in {"advance", "release"} => got' = claims[r + 1]
  <2>1. CASE DeqTurn
    <3>1. cpc = "idle" /\ cpos' = dequeue_pos /\ sequence[Cell(dequeue_pos)] = dequeue_pos + 1
          /\ cpc' = "read"
      BY <2>1 DEF DeqTurn
    <3>2. r = dequeue_pos
      BY <3>1 DEF Released
    <3>3. sequence[Cell(r)] = r \/ r < e
      BY <1>3 DEF RingInv, CellsInv
    <3> HIDE DEF r
    <3> QED
      BY <1>2, <3>1, <3>2, <3>3
  <2>2. CASE DeqEmpty
    BY <2>2 DEF DeqEmpty, vars
  <2>3. CASE DeqRead
    <3>1. cpc = "read" /\ cpos' = cpos /\ got' = data[Cell(cpos)]
      BY <2>3 DEF DeqRead
    <3>2. data[Cell(r)] = claims[r + 1]
      BY <1>2, <1>3, <3>1 DEF RingInv, CellsInv
    <3> QED
      BY <1>2, <3>1, <3>2
  <2>4. CASE DeqAdvance
    <3>1. cpc = "advance" /\ cpos' = cpos /\ got' = got
      BY <2>4 DEF DeqAdvance
    <3> QED
      BY <1>2, <3>1 DEF RingInv, WindowInv
  <2> QED
    BY <2>1, <2>2, <2>3, <2>4
<1>6. TypeOK'
  <2>1. CASE DeqTurn
    BY <1>1, <2>1 DEF DeqTurn, RingInv, TypeOK
  <2>2. CASE DeqEmpty
    BY <2>2 DEF DeqEmpty, vars, RingInv, TypeOK
  <2>3. CASE DeqRead
    <3>1. Cell(cpos) \in Cells
      BY CellRange DEF RingInv, TypeOK
    <3> QED
      BY <1>1, <2>3, <3>1 DEF DeqRead, RingInv, TypeOK
  <2>4. CASE DeqAdvance
    BY <1>1, <2>4 DEF DeqAdvance, RingInv, TypeOK
  <2> QED
    BY <2>1, <2>2, <2>3, <2>4
<1>7. WindowInv'
  <2> HIDE DEF r, e
  <2>1. Len(claims) = e
    BY DEF RingInv, WindowInv, e
  <2> QED
    BY <1>1, <1>2, <1>4, <1>5, <2>1 DEF WindowInv, e
<1>8. CellsInv' /\ ProducersInv'
  BY <1>1, <1>4 DEF RingInv, CellsInv, ProducersInv, Window, PastClaim, Claimed
<1>9. Pending' = Pending
  BY <1>1, <1>4 DEF Pending
<1> QED
  BY <1>1, <1>6, <1>7, <1>8, <1>9 DEF RingInv

(* Handing the cell back takes the first place, which is filled.           *)
LEMMA ReleaseTakes ==
    ASSUME RingInv, DeqRelease
    PROVE  RingInv' /\ Queue!Take
<1> DEFINE e == enqueue_pos
           r == Released
<1>1. /\ UNCHANGED <<data, enqueue_pos, dequeue_pos, pc, pos, item, calls, cpos, got, claims>>
      /\ cpc = "release" /\ cpc' = "idle" /\ delivered' = Append(delivered, got)
      /\ sequence' = [sequence EXCEPT ![Cell(cpos)] = cpos + Capacity]
  BY DEF DeqRelease, producers
<1>2. /\ r \in Nat /\ e \in Nat /\ e - r \in 1..Capacity /\ Capacity \in Nat /\ Capacity >= 2
      /\ cpos = r /\ sequence[Cell(r)] = r + 1 /\ got = claims[r + 1] /\ dequeue_pos = r + 1
      /\ claims \in Seq(Items) /\ Len(claims) = e /\ delivered \in Seq(Items)
  <2>1. /\ r \in Nat /\ e \in Nat /\ e - r \in 0..Capacity /\ r < e
        /\ cpos = r /\ sequence[Cell(cpos)] = cpos + 1 /\ got = claims[cpos + 1]
        /\ claims \in Seq(Items) /\ Len(claims) = e /\ delivered \in Seq(Items)
    BY <1>1 DEF RingInv, WindowInv, TypeOK
  <2>2. r = dequeue_pos - 1 /\ dequeue_pos \in Nat
    BY <1>1 DEF Released, RingInv, TypeOK
  <2> HIDE DEF r, e
  <2> QED
    BY <2>1, <2>2, CapacityFacts
<1>3. Released' = r + 1
  BY <1>1, <1>2 DEF Released
<1>4. got \in Items /\ delivered' \in Seq(Items)
  <2>1. got \in Items
    BY <1>2
  <2> QED
    BY <1>1, <1>2, <2>1, AppendProperties
<1>5. r \in Window /\ Cell(r) \in Cells
  BY <1>2, CellRange DEF Window
<1> HIDE DEF r, e
<1>6. /\ sequence'[Cell(r)] = r + Capacity
      /\ \A c \in Cells : c # Cell(r) => sequence'[c] = sequence[c]
  BY <1>1, <1>2, <1>5 DEF RingInv, TypeOK
<1>7. \A n \in Window \ {r} : n \in Nat /\ sequence'[Cell(n)] = sequence[Cell(n)]
  <2>1. \A n \in Window \ {r} : n \in Nat /\ Cell(n) # Cell(r)
    BY <1>5, WindowApart
  <2> QED
    BY <1>6, <2>1, CellRange
<1>8. TypeOK'
  BY <1>1, <1>2, <1>4, <1>5 DEF RingInv, TypeOK
<1>9. WindowInv'
  BY <1>1, <1>2, <1>3 DEF WindowInv, e
<1>10. CellsInv'
  <2>1. Window' = (Window \ {r}) \cup {r + Capacity}
    BY <1>2, <1>3 DEF Window, r
  <2>2. sequence'[Cell(r + Capacity)] = r + Capacity
    BY <1>2, <1>6, CellNextLap
  <2>3. \A n \in Window \ {r} :
            \/ sequence'[Cell(n)] = n
            \/ (sequence'[Cell(n)] = n + 1 /\ n < e /\ data[Cell(n)] = claims[n + 1])
    BY <1>7 DEF RingInv, CellsInv, e
  <2>4. ASSUME NEW n \in Nat, n < r + 1 PROVE sequence'[Cell(n)] > n
    <3>1. CASE Cell(n) = Cell(r)
      BY <1>2, <1>6, <2>4, <3>1
    <3>2. CASE Cell(n) # Cell(r)
      <4>1. n < r
        BY <1>2, <2>4, <3>2
      <4>2. sequence[Cell(n)] > n
        BY <4>1 DEF RingInv, CellsInv, r
      <4> QED
        BY <1>6, <3>2, <4>2, CellRange
    <3> QED
      BY <3>1, <3>2
  <2> QED
    BY <1>1, <1>3, <2>1, <2>2, <2>3, <2>4 DEF CellsInv, e
<1>11. ProducersInv'
  <2>1. PastClaim' = PastClaim
    BY <1>1 DEF PastClaim
  <2>2. ASSUME NEW q \in PastClaim
        PROVE  /\ pos[q] \in (r + 1)..(e - 1) /\ sequence'[Cell(pos[q])] = pos[q]
               /\ item[q] = claims[pos[q] + 1]
    <3>1. pos[q] \in r..(e - 1) /\ sequence[Cell(pos[q])] = pos[q] /\ item[q] = claims[pos[q] + 1]
      BY <2>2 DEF RingInv, ProducersInv, PastClaim, Claimed, r, e
    <3>2. pos[q] # r
      BY <1>2, <3>1
    <3>3. pos[q] \in Window \ {r}
      BY <1>2, <3>1, <3>2 DEF Window, r
    <3> QED
      BY <1>2, <1>7, <3>1, <3>2, <3>3
  <2>3. \A q \in PastClaim : Claimed(q)'
    BY <1>1, <1>3, <2>2 DEF Claimed, e
  <2>4. e - (r + 1) < Capacity
    BY <1>2
  <2> QED
    BY <1>1, <1>3, <2>1, <2>3, <2>4 DEF RingInv, ProducersInv, e
<1>12. Queue!Take
  <2> DEFINE h == e - r
             place(k) == [value |-> claims[k + 1], ready |-> sequence[Cell(k)] = k + 1]
             place2(k) == [value |-> claims[k + 1], ready |-> sequence'[Cell(k)] = k + 1]
             entry(i) == place(r + i - 1)
  <2>1. h \in Nat \ {0} /\ e - (r + 1) = h - 1 /\ r + 1 - 1 = r
    BY <1>2
  <2>2. Pending = [i \in 1..h |-> entry(i)]
    BY DEF Pending, r, e
  <2>3. Pending' = [i \in 1..(h - 1) |-> place2((r + 1) + i - 1)]
    <3>1. (enqueue_pos - Released)' = h - 1
      BY <1>1, <1>3, <2>1 DEF e
    <3> QED
      BY <1>1, <1>3, <3>1 DEF Pending
  <2>4. \A i \in 1..(h - 1) : place2((r + 1) + i - 1) = entry(i + 1)
    <3>1. ASSUME NEW i \in 1..(h - 1) PROVE place2((r + 1) + i - 1) = entry(i + 1)
      <4>1. (r + 1) + i - 1 = r + (i + 1) - 1 /\ (r + 1) + i - 1 \in Window \ {r}
        BY <1>2 DEF Window, r
      <4>2. sequence'[Cell((r + 1) + i - 1)] = sequence[Cell((r + 1) + i - 1)]
        BY <1>7, <4>1
      <4> QED
        BY <4>1, <4>2
    <3> QED
      BY <3>1
  <2>5. entry(1) = [value |-> got, ready |-> TRUE]
    <3>1. (sequence[Cell(r)] = r + 1) = TRUE
      BY <1>2
    <3> QED
      BY <1>2, <2>1, <3>1
  <2> HIDE DEF place, place2, entry, h
  <2>6. Pending' = [i \in 1..(h - 1) |-> entry(i + 1)]
    BY <2>3, <2>4
  <2>7. Pending # << >> /\ Head(Pending) = entry(1) /\ Pending' = Tail(Pending)
    BY <2>1, <2>2, <2>6
  <2> QED
    BY <1>1, <2>5, <2>7 DEF Queue!Take
<1> QED
  BY <1>8, <1>9, <1>10, <1>11, <1>12 DEF RingInv

-------------------------------------------------------------------------------
(* The invariant and the start of the reservation queue.                   *)
LEMMA RingInvInit == Init => RingInv /\ Queue!QueueInit
<1> SUFFICES ASSUME Init PROVE RingInv /\ Queue!QueueInit
  OBVIOUS
<1>1. Capacity \in Nat /\ Capacity >= 2 /\ Capacity \in Nat \ {0}
  BY CapacityFacts
<1>2. << >> \in Seq(Items) /\ Len(<< >>) = 0
  BY EmptySeq
<1>3. Released = 0 /\ PastClaim = {}
  BY DEF Init, Released, PastClaim
<1>4. TypeOK
  BY <1>1, <1>2, QueueAssumption DEF Init, TypeOK, Cells
<1>5. WindowInv
  BY <1>1, <1>2, <1>3 DEF Init, WindowInv
<1>6. \A n \in 0..(Capacity - 1) : Cell(n) = n
  <2>1. ASSUME NEW n \in 0..(Capacity - 1) PROVE n % Capacity = n
    <3>1. (0 * Capacity + n) % Capacity = n
      BY <1>1, ModUnique
    <3> QED
      BY <1>1, <3>1
  <2> QED
    BY <2>1 DEF Cell
<1>7. CellsInv
  <2>1. Window = 0..(Capacity - 1)
    BY <1>1, <1>3 DEF Window
  <2>2. \A n \in 0..(Capacity - 1) : sequence[Cell(n)] = n
    BY <1>6 DEF Init, Cells
  <2>3. \A n \in Nat : ~(n < 0)
    OBVIOUS
  <2> QED
    BY <1>3, <2>1, <2>2, <2>3 DEF CellsInv
<1>8. ProducersInv
  BY <1>1, <1>3 DEF Init, ProducersInv, PastClaim
<1>9. Pending = << >>
  <2>1. enqueue_pos - Released = 0
    BY <1>3 DEF Init
  <2> QED
    BY <2>1 DEF Pending
<1> QED
  BY <1>4, <1>5, <1>7, <1>8, <1>9 DEF RingInv, Queue!QueueInit, Init

(* The invariant and the steps of the reservation queue.                   *)
LEMMA RingInvStep ==
    RingInv /\ [Next]_vars => RingInv' /\ [Queue!QueueNext]_<<Pending, delivered>>
<1> SUFFICES ASSUME RingInv, [Next]_vars
             PROVE  RingInv' /\ [Queue!QueueNext]_<<Pending, delivered>>
  OBVIOUS
<1>1. CASE UNCHANGED vars
  BY <1>1 DEF vars, RingInv, TypeOK, WindowInv, CellsInv, ProducersInv, Claimed, PastClaim,
         Window, Released, Pending
<1>2. ASSUME NEW p \in Producers, EnqLoad(p) \/ EnqStep(p)
      PROVE  RingInv' /\ [Queue!QueueNext]_<<Pending, delivered>>
  <2>1. CASE Looks(p)
    BY <2>1, LooksKeep
  <2>2. CASE EnqClaim(p)
    BY <2>2, ClaimReserves DEF Queue!QueueNext, Queue!Reserve
  <2>3. CASE EnqWrite(p)
    BY <2>3, WriteKeeps
  <2>4. CASE EnqPublish(p)
    BY <2>4, PublishFills DEF Queue!QueueNext
  <2> QED
    BY <1>2, <2>1, <2>2, <2>3, <2>4 DEF EnqStep, Looks
<1>3. CASE Dequeue
  <2>1. CASE DeqRelease
    BY <2>1, ReleaseTakes DEF Queue!QueueNext
  <2> QED
    BY <1>3, <2>1, DequeueKeeps DEF Dequeue
<1> QED
  BY <1>1, <1>2, <1>3 DEF Next

-------------------------------------------------------------------------------
(* A producer that writes the data of a cell shares it with nobody: no     *)
(* other producer past its compare-and-swap has the cell, nor has dequeue  *)
(* between seeing its turn and handing the cell back.                      *)
THEOREM CellsAreExclusive == Spec => []ExclusiveCell
<1>1. RingInv => ExclusiveCell
  <2> SUFFICES ASSUME RingInv, NEW p \in PastClaim
               PROVE  /\ \A q \in PastClaim \ {p} : Cell(pos[p]) # Cell(pos[q])
                      /\ cpc # "idle" => Cell(pos[p]) # Cell(cpos)
    BY DEF ExclusiveCell
  <2>1. \A q \in PastClaim : pos[q] \in Window /\ sequence[Cell(pos[q])] = pos[q]
    <3>1. \A q \in PastClaim : Claimed(q)
      BY DEF RingInv, ProducersInv, PastClaim
    <3>2. Released \in Nat /\ enqueue_pos - Released \in 0..Capacity /\ enqueue_pos \in Nat
          /\ Capacity \in Nat
      BY CapacityFacts DEF RingInv, WindowInv, TypeOK
    <3> QED
      BY <3>1, <3>2 DEF Claimed, Window
  <2>2. \A q \in PastClaim \ {p} : pos[p] # pos[q]
    BY DEF RingInv, ProducersInv, PastClaim
  <2>3. \A q \in PastClaim \ {p} : Cell(pos[p]) # Cell(pos[q])
    BY <2>1, <2>2, WindowApart
  <2>4. cpc # "idle" => Cell(pos[p]) # Cell(cpos)
    <3>1. cpc # "idle" => cpos = Released /\ sequence[Cell(cpos)] = cpos + 1 /\ cpos \in Window
      BY CapacityFacts DEF RingInv, WindowInv, Window
    <3>2. Released \in Nat
      BY DEF RingInv, WindowInv
    <3>3. cpc # "idle" => pos[p] # cpos
      BY <2>1, <3>1, <3>2
    <3> QED
      BY <2>1, <3>1, <3>3, WindowApart
  <2> QED
    BY <2>3, <2>4
<1>2. RingInv /\ [Next]_vars => RingInv'
  BY RingInvStep
<1> QED
  BY <1>1, <1>2, RingInvInit, PTL DEF Spec

(* enqueue returns false only in a state where all Capacity positions are  *)
(* claimed and not handed back, however long ago the pos it looked at was  *)
(* loaded.                                                                 *)
THEOREM RefusesOnlyWhenFull == Spec => RefusedOnlyWhenFull
<1> DEFINE Refuses == \A p \in Producers :
               pc[p] = "check" /\ pc'[p] = "idle" => enqueue_pos - Released = Capacity
<1>1. RingInv /\ [Next]_vars => [Refuses]_vars
  <2> SUFFICES ASSUME RingInv, Next, NEW p \in Producers, pc[p] = "check", pc'[p] = "idle"
               PROVE  enqueue_pos - Released = Capacity
    OBVIOUS
  <2>1. pc \in [Producers -> {"idle", "check", "reload", "claim", "write", "publish"}]
    BY DEF RingInv, TypeOK
  <2>2. EnqFull(p)
    BY <2>1 DEF Next, EnqStep, EnqLoad, EnqTurn, EnqFull, EnqLate, EnqReload, EnqClaim,
           EnqClaimFails, EnqWrite, EnqPublish, Dequeue, DeqTurn, DeqEmpty, DeqRead, DeqAdvance,
           DeqRelease, producers, vars
  <2> QED
    BY <2>2, BehindMeansFull DEF EnqFull
<1>2. RingInv /\ [Next]_vars => RingInv'
  BY RingInvStep
<1>3. Spec => [][Refuses]_vars
  BY <1>1, <1>2, RingInvInit, PTL DEF Spec
<1> QED
  BY <1>3 DEF RefusedOnlyWhenFull

(* Every step of enqueue and dequeue reserves a place, fills one, takes    *)
(* the first or is no step of the reservation queue: items leave in the    *)
(* order of the positions, none is lost, repeated or read before it was    *)
(* written, and at most Capacity places are reserved.                      *)
THEOREM RingIsReservationQueue ==
    Spec => Queue!QueueInit /\ [][Queue!QueueNext]_<<Pending, delivered>>
<1>1. RingInv /\ [Next]_vars => RingInv' /\ [Queue!QueueNext]_<<Pending, delivered>>
  BY RingInvStep
<1>2. Init => RingInv /\ Queue!QueueInit
  BY RingInvInit
<1> QED
  BY <1>1, <1>2, PTL DEF Spec

=============================================================================
