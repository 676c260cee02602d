---------------------------- MODULE SPSCQueue_proofs ----------------------------
(***************************************************************************)
(* Proofs about the ring between the matching thread and the offloader,    *)
(* for every capacity, any set of events and any number of them: a slot is *)
(* never written and read at the same time, and every step is one of the   *)
(* bounded queue or none, however often head_ and tail_ have wrapped.      *)
(*                                                                         *)
(* The argument counts the calls: head_ and tail_ are the numbers of       *)
(* events accepted and popped, modulo the word (IndexInv), so their        *)
(* difference is exact while it is at most the capacity, and the events    *)
(* held have slots of their own (ContentInv).                              *)
(***************************************************************************)
EXTENDS SPSCQueue, SequenceTheorems, TLAPS

(* Remainders: there is one representation, ...                            *)
LEMMA ModUnique ==
    ASSUME NEW m \in Nat \ {0}, NEW q \in Int, NEW r \in 0..(m - 1)
    PROVE  (q * m + r) % m = r
OBVIOUS

(* ... every number has it, ...                                            *)
LEMMA ModSplit ==
    ASSUME NEW m \in Nat \ {0}, NEW a \in Nat
    PROVE  a % m \in 0..(m - 1) /\ \E q \in Nat : a = q * m + (a % m)
<1>1. a % m \in 0..(m-1) /\ a = (a \div m) * m + (a % m) /\ a \div m \in Nat
  OBVIOUS
<1> QED BY <1>1

(* ... and numbers less than m apart have different remainders.            *)
LEMMA Apart ==
    ASSUME NEW m \in Nat \ {0}, NEW a \in Nat, NEW b \in Nat, a - b \in 1..(m - 1)
    PROVE  a % m # b % m
<1> SUFFICES ASSUME a % m = b % m PROVE FALSE
  OBVIOUS
<1>1. PICK p \in Nat : a = p * m + (a % m)
  BY ModSplit
<1>2. PICK q \in Nat : b = q * m + (b % m)
  BY ModSplit
<1>3. a - b = (p - q) * m
  BY <1>1, <1>2
<1>4. p - q >= 1 => (p - q) * m >= m
  OBVIOUS
<1>5. p - q <= 0 => (p - q) * m <= 0
  OBVIOUS
<1> QED
  BY <1>3, <1>4, <1>5

(* One more may be computed on the remainder ...                           *)
LEMMA NextMod ==
    ASSUME NEW w \in Nat \ {0}, NEW a \in Nat
    PROVE  ((a % w) + 1) % w = (a + 1) % w
<1>1. PICK p \in Nat : a = p * w + (a % w)
  BY ModSplit
<1>2. a % w \in 0..(w - 1)
  BY ModSplit
<1>3. CASE a % w = w - 1
  <2>1. a + 1 = (p + 1) * w + 0
    BY <1>1, <1>3
  <2>2. (a + 1) % w = 0
    <3>1. p + 1 \in Int /\ 0 \in 0..(w - 1)
      OBVIOUS
    <3> QED
      BY <2>1, <3>1, ModUnique
  <2>3. (1 * w + 0) % w = 0
    BY ModUnique
  <2> QED
    BY <1>3, <2>2, <2>3
<1>4. CASE a % w # w - 1
  <2> DEFINE x == (a % w) + 1
  <2>1. x \in 0..(w - 1) /\ a + 1 = p * w + x
    BY <1>1, <1>2, <1>4
  <2> HIDE DEF x
  <2>2. (a + 1) % w = x /\ x % w = x
    <3>1. (p * w + x) % w = x
      BY <2>1, ModUnique
    <3>2. (0 * w + x) % w = x
      BY <2>1, ModUnique
    <3>3. 0 * w + x = x
      BY <2>1
    <3> QED
      BY <2>1, <3>1, <3>2, <3>3
  <2> QED
    BY <2>2 DEF x
<1> QED
  BY <1>3, <1>4

(* ... and so may a difference of less than w.                             *)
LEMMA AheadMod ==
    ASSUME NEW w \in Nat \ {0}, NEW a \in Nat, NEW b \in Nat, a - b \in 0..(w - 1)
    PROVE  ((a % w) + w - (b % w)) % w = a - b
<1>1. PICK p \in Nat : a = p * w + (a % w)
  BY ModSplit
<1>2. PICK q \in Nat : b = q * w + (b % w)
  BY ModSplit
<1> DEFINE x == a % w
           y == b % w
           t == q - p + 1
<1>3. x \in Nat /\ y \in Nat /\ t \in Int
  BY ModSplit
<1>4. x + w - y = t * w + (a - b)
  <2>1. t * w = q * w - p * w + w
    OBVIOUS
  <2> DEFINE pw == p * w
             qw == q * w
             tw == t * w
  <2>2. pw \in Int /\ qw \in Int /\ tw = qw - pw + w /\ a = pw + x /\ b = qw + y
    BY <1>1, <1>2, <2>1
  <2> HIDE DEF pw, qw, tw, x, y, t
  <2>3. x + w - y = tw + (a - b)
    BY <1>3, <2>2
  <2> QED
    BY <2>3 DEF tw
<1> HIDE DEF x, y, t
<1>5. (t * w + (a - b)) % w = a - b
  BY <1>3, ModUnique
<1> QED
  BY <1>4, <1>5 DEF x, y

(* The word holds every count from 0 to Capacity + 1.                      *)
LEMMA WordIsLarge == WordSize \in Nat /\ WordSize > Capacity + 1
<1>0. WordSize \in Nat /\ Capacity \in Nat \ {0}
  BY RingAssumption
<1>1. PICK k \in Nat : WordSize = k * Capacity + (WordSize % Capacity)
  BY <1>0, ModSplit
<1>2. WordSize = k * Capacity
  BY <1>1, RingAssumption
<1>3. k >= 2
  BY <1>2, RingAssumption
<1>4. k * Capacity >= 2 * Capacity
  BY <1>3, RingAssumption
<1> QED
  BY <1>2, <1>4, RingAssumption

-------------------------------------------------------------------------------
(* The indices.  Wrap(n) is what an index holds after n calls.             *)
Wrap(n) == n % WordSize

(* Laps do not count.                                                      *)
LEMMA ShiftMod ==
    ASSUME NEW m \in Nat \ {0}, NEW q \in Nat, NEW x \in Nat
    PROVE  (q * m + x) % m = x % m
<1>1. PICK s \in Nat : x = s * m + (x % m)
  BY ModSplit
<1> DEFINE r == x % m
           t == q + s
<1>2. r \in 0..(m - 1) /\ t \in Int
  BY ModSplit
<1>3. q * m + x = t * m + r
  BY <1>1
<1> HIDE DEF r, t
<1>4. (t * m + r) % m = r
  BY <1>2, ModUnique
<1> QED
  BY <1>3, <1>4 DEF r

(* An index that has wrapped points to the same slot.                      *)
LEMMA SlotOfWrap ==
    ASSUME NEW n \in Nat, NEW k \in Nat
    PROVE  Slot(Wrap(n) + k) = Slot(n + k)
<1>0. WordSize \in Nat \ {0} /\ Capacity \in Nat \ {0} /\ WordSize % Capacity = 0
  BY RingAssumption
<1>1. PICK c \in Nat : WordSize = c * Capacity
  <2>1. PICK c \in Nat : WordSize = c * Capacity + (WordSize % Capacity)
    BY <1>0, ModSplit
  <2> QED
    BY <1>0, <2>1
<1>2. PICK q \in Nat : n = q * WordSize + (n % WordSize)
  BY <1>0, ModSplit
<1> DEFINE x == (n % WordSize) + k
           t == q * c
<1>3. x \in Nat /\ t \in Nat /\ n % WordSize \in Nat
  BY <1>0, ModSplit
<1>4. n + k = t * Capacity + x
  <2> DEFINE u == q * WordSize
             v == t * Capacity
             y == n % WordSize
  <2>1. u = v /\ u \in Nat /\ n = u + y /\ y \in Nat
    BY <1>0, <1>1, <1>2, <1>3
  <2> HIDE DEF u, v, y
  <2>2. n + k = v + (y + k)
    BY <2>1
  <2> QED
    BY <2>2 DEF v, y
<1> HIDE DEF x, t
<1>5. (t * Capacity + x) % Capacity = x % Capacity
  BY <1>0, <1>3, ShiftMod
<1> QED
  BY <1>4, <1>5 DEF x, Slot, Wrap

(* Every index has a slot, ...                                             *)
LEMMA SlotRange == \A n \in Nat : Slot(n) \in Slots
<1>1. Capacity \in Nat \ {0}
  BY RingAssumption
<1> QED
  BY <1>1, ModSplit DEF Slot, Slots

(* ... and those of fewer than Capacity successive events differ.          *)
LEMMA SlotsApart ==
    ASSUME NEW a \in Nat, NEW b \in Nat, a - b \in 1..(Capacity - 1)
    PROVE  Slot(a) # Slot(b)
<1>1. Capacity \in Nat \ {0}
  BY RingAssumption
<1>2. a % Capacity # b % Capacity
  BY <1>1, Apart
<1> QED
  BY <1>2 DEF Slot

(* The successor of a wrapped index.                                       *)
LEMMA NextOfWrap ==
    ASSUME NEW n \in Nat
    PROVE  Next1(Wrap(n)) = Wrap(n + 1)
<1>1. WordSize \in Nat \ {0}
  BY RingAssumption
<1>2. ((n % WordSize) + 1) % WordSize = (n + 1) % WordSize
  BY <1>1, NextMod
<1> QED
  BY <1>2 DEF Next1, Wrap

(* The number of events between the indices is exact.                      *)
LEMMA AheadOfWrap ==
    ASSUME NEW a \in Nat, NEW b \in Nat, a - b \in 0..(Capacity + 1)
    PROVE  Ahead(Wrap(a), Wrap(b)) = a - b
<1>1. a - b \in 0..(WordSize - 1) /\ WordSize \in Nat \ {0}
  BY WordIsLarge, RingAssumption
<1> QED
  BY <1>1, AheadMod DEF Ahead, Wrap

-------------------------------------------------------------------------------
(* The invariant.                                                          *)
IndexInv ==
    /\ accepted \in Seq(Events) /\ popped \in Seq(Events) /\ value \in Nat
    /\ buffer \in [Slots -> Events \cup {None}]
    /\ head = Wrap(Len(accepted)) /\ tail = Wrap(Len(popped))
    /\ Len(accepted) - Len(popped) \in 0..Capacity
    /\ ppc # "idle" => Len(accepted) - Len(popped) < Capacity /\ value \in Events
    /\ cpc # "idle" => Len(accepted) - Len(popped) > 0

ContentInv ==
    /\ \A n \in Len(popped)..(Len(accepted) - 1) : buffer[Slot(n)] = accepted[n + 1]
    /\ ppc = "publish" => buffer[Slot(Len(accepted))] = value
    /\ cpc = "advance" => got = accepted[Len(popped) + 1]

RingInv == IndexInv /\ ContentInv

(* What the code computes from head_ and tail_, in terms of the counts.    *)
LEMMA RingFacts ==
    ASSUME RingInv
    PROVE  /\ Len(accepted) \in Nat /\ Len(popped) \in Nat /\ Capacity \in Nat
           /\ Capacity >= 2
           /\ Slot(head) = Slot(Len(accepted)) /\ Slot(tail) = Slot(Len(popped))
           /\ Next1(head) = Wrap(Len(accepted) + 1) /\ Next1(tail) = Wrap(Len(popped) + 1)
           /\ Ahead(head, tail) = Len(accepted) - Len(popped)
           /\ Ahead(Next1(head), tail) = Len(accepted) + 1 - Len(popped)
<1>1. /\ Len(accepted) \in Nat /\ Len(popped) \in Nat /\ Capacity \in Nat /\ Capacity >= 2
      /\ head = Wrap(Len(accepted)) /\ tail = Wrap(Len(popped))
      /\ Len(accepted) - Len(popped) \in 0..Capacity
  BY RingAssumption, LenProperties DEF RingInv, IndexInv
<1> DEFINE p == Len(accepted)
           c == Len(popped)
<1> HIDE DEF p, c
<1>2. p \in Nat /\ c \in Nat /\ p - c \in 0..(Capacity + 1) /\ (p + 1) - c \in 0..(Capacity + 1)
      /\ p + 1 \in Nat
  BY <1>1 DEF p, c
<1>3. Slot(Wrap(p) + 0) = Slot(p + 0) /\ Slot(Wrap(c) + 0) = Slot(c + 0)
  BY <1>2, SlotOfWrap
<1>4. Wrap(p) + 0 = Wrap(p) /\ Wrap(c) + 0 = Wrap(c) /\ p + 0 = p /\ c + 0 = c
  <2>1. WordSize \in Nat \ {0}
    BY RingAssumption
  <2>2. \A n \in Nat : n % WordSize \in Nat
    BY <2>1
  <2>3. p % WordSize \in Nat /\ c % WordSize \in Nat
    BY ONLY <1>2, <2>2
  <2> QED
    BY <1>2, <2>3 DEF Wrap
<1>5. /\ Next1(Wrap(p)) = Wrap(p + 1) /\ Next1(Wrap(c)) = Wrap(c + 1)
      /\ Ahead(Wrap(p), Wrap(c)) = p - c
      /\ Ahead(Wrap(p + 1), Wrap(c)) = (p + 1) - c
  BY <1>2, NextOfWrap, AheadOfWrap
<1> QED
  BY <1>1, <1>3, <1>4, <1>5 DEF p, c

(* The slot of the i-th event held.                                        *)
LEMMA SlotOfTail ==
    ASSUME RingInv, NEW i \in Nat \ {0}
    PROVE  Slot(tail + i - 1) = Slot(Len(popped) + (i - 1))
<1> DEFINE c == Len(popped)
           k == i - 1
<1>1. c \in Nat /\ k \in Nat /\ tail = Wrap(c)
  BY RingFacts DEF RingInv, IndexInv
<1>2. tail \in Nat
  <2>1. WordSize \in Nat \ {0}
    BY RingAssumption
  <2>2. \A n \in Nat : n % WordSize \in Nat
    BY <2>1
  <2> QED
    BY <1>1, <2>2 DEF Wrap
<1>3. tail + i - 1 = tail + k
  BY <1>2
<1>4. Slot(Wrap(c) + k) = Slot(c + k)
  BY <1>1, SlotOfWrap
<1> QED
  BY <1>1, <1>3, <1>4

-------------------------------------------------------------------------------
(* The producer.  The slot it writes is of an event not yet published, so  *)
(* none of those held loses its own.                                       *)
LEMMA PushKeeps ==
    ASSUME RingInv, PushRoom \/ PushFull
    PROVE  RingInv' /\ UNCHANGED <<Held, popped>>
<1> DEFINE p == Len(accepted)
           c == Len(popped)
<1>1. /\ p \in Nat /\ c \in Nat /\ Capacity \in Nat
      /\ Ahead(Next1(head), tail) = (p + 1) - c
  BY RingFacts
<1>2. /\ UNCHANGED <<buffer, head, accepted, tail, cpc, got, popped>>
      /\ value' = value + 1 /\ value < MaxPushes
      /\ ppc' # "idle" => Ahead(Next1(head), tail) <= Capacity
      /\ ppc' # "publish"
  BY DEF PushRoom, PushFull, popVars
<1>3. value' \in Nat /\ value' \in Events
  BY <1>2, RingAssumption DEF RingInv, IndexInv, Events
<1>4. IndexInv'
  <2> HIDE DEF p, c
  <2>1. ppc' # "idle" => p - c < Capacity
    BY <1>1, <1>2
  <2> QED
    BY <1>2, <1>3, <2>1 DEF p, c, RingInv, IndexInv
<1>5. ContentInv'
  BY <1>2 DEF RingInv, ContentInv
<1> QED
  BY <1>2, <1>4, <1>5 DEF RingInv, Held

(* The event written is not one of those held.                             *)
LEMMA WriteKeeps ==
    ASSUME RingInv, PushWrite
    PROVE  RingInv' /\ UNCHANGED <<Held, popped>>
<1> DEFINE p == Len(accepted)
           c == Len(popped)
<1>1. /\ p \in Nat /\ c \in Nat /\ Capacity \in Nat /\ Slot(head) = Slot(p)
      /\ Ahead(head, tail) = p - c
  BY RingFacts
<1>2. /\ UNCHANGED <<head, tail, value, accepted, cpc, got, popped>>
      /\ buffer' = [buffer EXCEPT ![Slot(p)] = value] /\ ppc = "write" /\ ppc' = "publish"
  BY <1>1 DEF PushWrite, popVars
<1>3. /\ p - c \in 0..(Capacity - 1) /\ value \in Events
      /\ buffer \in [Slots -> Events \cup {None}]
  BY <1>1, <1>2 DEF RingInv, IndexInv
<1>4. Slot(p) \in Slots /\ \A n \in c..(p - 1) : Slot(n) \in Slots /\ Slot(p) # Slot(n)
  <2> HIDE DEF p, c
  <2>1. Slot(p) \in Slots
    BY <1>1, SlotRange
  <2>2. ASSUME NEW n \in c..(p - 1) PROVE Slot(n) \in Slots /\ Slot(p) # Slot(n)
    <3>1. n \in Nat /\ p - n \in 1..(Capacity - 1)
      BY <1>1, <1>3
    <3> QED
      BY <1>1, <3>1, SlotRange, SlotsApart
  <2> QED
    BY <2>1, <2>2
<1>5. buffer'[Slot(p)] = value /\ \A n \in c..(p - 1) : buffer'[Slot(n)] = buffer[Slot(n)]
  BY <1>2, <1>3, <1>4
<1>6. IndexInv'
  BY <1>2, <1>3, <1>4 DEF RingInv, IndexInv
<1>7. ContentInv'
  BY <1>2, <1>5 DEF RingInv, ContentInv
<1>8. UNCHANGED Held
  <2>1. \A i \in 1..(p - c) : Slot(tail + i - 1) = Slot(c + (i - 1)) /\ c + (i - 1) \in c..(p - 1)
    BY <1>1, SlotOfTail
  <2>2. \A i \in 1..(p - c) : buffer'[Slot(tail + i - 1)] = buffer[Slot(tail + i - 1)]
    BY <1>5, <2>1
  <2>3. Ahead(head', tail') = p - c /\ tail' = tail
    BY <1>1, <1>2
  <2> HIDE DEF p, c
  <2> QED
    BY <1>1, <2>2, <2>3 DEF Held
<1> QED
  BY <1>2, <1>6, <1>7, <1>8 DEF RingInv

(* The event joins the abstract queue when head_ is stored.                *)
LEMMA PublishPuts ==
    ASSUME RingInv, PushPublish
    PROVE  /\ RingInv'
           /\ value \in Events /\ Len(Held) < Capacity
           /\ Held' = Append(Held, value) /\ popped' = popped
<1> DEFINE p == Len(accepted)
           c == Len(popped)
           more == Append(accepted, value)
<1>1. /\ p \in Nat /\ c \in Nat /\ Capacity \in Nat
      /\ Next1(head) = Wrap(p + 1) /\ Ahead(head, tail) = p - c
      /\ Ahead(Next1(head), tail) = p + 1 - c
  BY RingFacts
<1>2. /\ UNCHANGED <<buffer, value, tail, cpc, got, popped>>
      /\ head' = Wrap(p + 1) /\ accepted' = more /\ ppc = "publish" /\ ppc' = "idle"
  BY <1>1 DEF PushPublish, popVars
<1>3. /\ p - c \in 0..(Capacity - 1) /\ value \in Events /\ accepted \in Seq(Events)
      /\ buffer[Slot(p)] = value
  BY <1>1, <1>2 DEF RingInv, IndexInv, ContentInv
<1>4. /\ more \in Seq(Events) /\ Len(more) = p + 1 /\ more[p + 1] = value
      /\ \A i \in 1..p : more[i] = accepted[i]
  BY <1>3, AppendProperties
<1> HIDE DEF more
<1>5. Len(accepted') = p + 1 /\ Len(popped') = c
  BY <1>2, <1>4
<1>6. IndexInv'
  BY <1>1, <1>2, <1>3, <1>4, <1>5 DEF RingInv, IndexInv
<1>7. ContentInv'
  <2>1. ASSUME NEW n \in c..p PROVE buffer[Slot(n)] = more[n + 1]
    <3>1. CASE n = p
      BY <1>3, <1>4, <3>1
    <3>2. CASE n # p
      <4>1. n \in c..(p - 1) /\ n + 1 \in 1..p
        BY <1>1, <3>2
      <4> QED
        BY <1>4, <4>1 DEF RingInv, ContentInv
    <3> QED
      BY <3>1, <3>2
  <2>2. cpc = "advance" => got = more[c + 1]
    <3>1. cpc # "idle" => c + 1 \in 1..p
      BY <1>1 DEF RingInv, IndexInv
    <3> QED
      BY <1>4, <3>1 DEF RingInv, ContentInv
  <2> QED
    BY <1>1, <1>2, <1>5, <2>1, <2>2 DEF ContentInv
<1>8. Held' = Append(Held, value) /\ Len(Held) < Capacity
  <2>1. Held = [i \in 1..(p - c) |-> buffer[Slot(tail + i - 1)]]
    BY <1>1 DEF Held
  <2>2. Ahead(head', tail') = p + 1 - c
    BY <1>1, <1>2
  <2>3. Held' = [i \in 1..(p + 1 - c) |-> buffer[Slot(tail + i - 1)]]
    BY <1>2, <2>2 DEF Held
  <2>4. buffer[Slot(tail + (p + 1 - c) - 1)] = value
    <3>1. p + 1 - c \in Nat \ {0} /\ c + ((p + 1 - c) - 1) = p
      BY <1>1, <1>3
    <3> QED
      BY <1>3, <3>1, SlotOfTail
  <2> DEFINE h == p - c
  <2>5. h \in Nat /\ p + 1 - c = h + 1
    BY <1>1, <1>3
  <2> HIDE DEF h, p, c
  <2>6. /\ Held = [i \in 1..h |-> buffer[Slot(tail + i - 1)]]
        /\ Held' = [i \in 1..(h + 1) |-> buffer[Slot(tail + i - 1)]]
        /\ buffer[Slot(tail + (h + 1) - 1)] = value
    BY <2>1, <2>3, <2>4, <2>5 DEF h
  <2>7. Held' = Append(Held, value)
    BY <2>5, <2>6
  <2> QED
    BY <1>1, <1>3, <2>5, <2>6, <2>7 DEF h
<1> QED
  BY <1>2, <1>3, <1>6, <1>7, <1>8 DEF RingInv

-------------------------------------------------------------------------------
(* The consumer.                                                           *)
LEMMA PopKeeps ==
    ASSUME RingInv, PopSome \/ PopNone \/ PopRead
    PROVE  RingInv' /\ UNCHANGED <<Held, popped>>
<1> DEFINE p == Len(accepted)
           c == Len(popped)
<1>1. /\ p \in Nat /\ c \in Nat /\ Slot(tail) = Slot(c) /\ Slot(head) = Slot(p)
      /\ head = Wrap(p) /\ tail = Wrap(c) /\ p - c \in 0..Capacity
  BY RingFacts DEF RingInv, IndexInv
<1>2. /\ UNCHANGED <<buffer, head, ppc, value, accepted, tail, popped>>
      /\ \/ cpc' = cpc /\ got' = got
         \/ cpc' = "read" /\ tail # head
         \/ cpc = "read" /\ cpc' = "advance" /\ got' = buffer[Slot(c)]
  BY <1>1 DEF PopSome, PopNone, PopRead, pushVars, vars
<1>3. cpc' # "idle" => p - c > 0
  <2>1. CASE tail # head
    BY <1>1, <2>1
  <2>2. CASE tail = head
    BY <1>2, <2>2 DEF RingInv, IndexInv
  <2> QED
    BY <2>1, <2>2
<1>4. IndexInv'
  BY <1>2, <1>3 DEF RingInv, IndexInv
<1>5. ContentInv'
  <2>1. cpc' = "advance" => c \in c..(p - 1)
    BY <1>1, <1>3
  <2> QED
    BY <1>2, <2>1 DEF RingInv, ContentInv
<1> QED
  BY <1>2, <1>4, <1>5 DEF RingInv, Held

(* The event leaves the abstract queue when tail_ is stored.               *)
LEMMA AdvanceGets ==
    ASSUME RingInv, PopAdvance
    PROVE  /\ RingInv'
           /\ Held # << >> /\ Held' = Tail(Held) /\ popped' = Append(popped, Head(Held))
<1> DEFINE p == Len(accepted)
           c == Len(popped)
           more == Append(popped, got)
<1>1. /\ p \in Nat /\ c \in Nat /\ Capacity \in Nat /\ Slot(tail) = Slot(c)
      /\ Next1(tail) = Wrap(c + 1) /\ Ahead(head, tail) = p - c
  BY RingFacts
<1>2. /\ UNCHANGED <<buffer, head, ppc, value, accepted, got>>
      /\ tail' = Wrap(c + 1) /\ popped' = more /\ cpc = "advance" /\ cpc' = "idle"
  BY <1>1 DEF PopAdvance, pushVars
<1>3. /\ p - c \in 1..Capacity /\ popped \in Seq(Events) /\ accepted \in Seq(Events)
      /\ got = accepted[c + 1] /\ buffer[Slot(c)] = accepted[c + 1]
      /\ c + 1 \in 1..p
  BY <1>1, <1>2 DEF RingInv, IndexInv, ContentInv
<1>4. got \in Events
  BY <1>3
<1>5. more \in Seq(Events) /\ Len(more) = c + 1
  BY <1>3, <1>4, AppendProperties
<1> HIDE DEF more
<1>6. Len(accepted') = p /\ Len(popped') = c + 1
  BY <1>2, <1>5
<1>7. IndexInv'
  BY <1>1, <1>2, <1>3, <1>5, <1>6 DEF RingInv, IndexInv
<1>8. ContentInv'
  BY <1>1, <1>2, <1>6 DEF RingInv, ContentInv
<1>9. Held # << >> /\ Held' = Tail(Held) /\ Head(Held) = got
  <2>1. \A i \in 1..(p - c) : Slot(tail + i - 1) = Slot(c + (i - 1))
    BY <1>1, SlotOfTail
  <2>2. Held = [i \in 1..(p - c) |-> buffer[Slot(c + (i - 1))]]
    BY <1>1, <2>1 DEF Held
  <2>3. Ahead(head', tail') = p - (c + 1)
    <3>1. Ahead(Wrap(p), Wrap(c + 1)) = p - (c + 1)
      BY <1>1, <1>3, AheadOfWrap
    <3> QED
      BY <1>2, <3>1 DEF RingInv, IndexInv
  <2>4. \A i \in 1..(p - (c + 1)) : Slot(tail' + i - 1) = Slot((c + 1) + (i - 1))
    <3>1. c + 1 \in Nat /\ WordSize \in Nat \ {0}
      BY <1>1, RingAssumption
    <3>2. \A n \in Nat : n % WordSize \in Nat
      BY <3>1
    <3>3. tail' \in Nat
      BY <1>2, <3>1, <3>2 DEF Wrap
    <3>4. ASSUME NEW i \in 1..(p - (c + 1)) PROVE Slot(tail' + i - 1) = Slot((c + 1) + (i - 1))
      <4>1. i - 1 \in Nat /\ tail' + i - 1 = tail' + (i - 1)
        BY <1>1, <3>3
      <4>2. Slot(Wrap(c + 1) + (i - 1)) = Slot((c + 1) + (i - 1))
        BY <3>1, <4>1, SlotOfWrap
      <4> QED
        BY <1>2, <4>1, <4>2
    <3> QED
      BY <3>4
  <2>5. Held' = [i \in 1..(p - (c + 1)) |-> buffer[Slot((c + 1) + (i - 1))]]
    BY <1>2, <2>3, <2>4 DEF Held
  <2> DEFINE h == p - c
             cell(k) == buffer[Slot(c + k)]
  <2>6. h \in Nat \ {0} /\ p - (c + 1) = h - 1 /\ cell(0) = got
    BY <1>1, <1>3
  <2>7. \A i \in 1..(h - 1) : (c + 1) + (i - 1) = c + i
    BY <1>1
  <2>8. /\ Held = [i \in 1..h |-> cell(i - 1)]
        /\ Held' = [i \in 1..(h - 1) |-> cell(i)]
    BY <2>2, <2>5, <2>6, <2>7
  <2> HIDE DEF h, cell
  <2>9. Held # << >> /\ Held' = Tail(Held) /\ Head(Held) = cell(0)
    BY <2>6, <2>8
  <2> QED
    BY <2>6, <2>9
<1> QED
  BY <1>2, <1>7, <1>8, <1>9 DEF more, RingInv

-------------------------------------------------------------------------------
(* The invariant and the start of the bounded queue.                       *)
LEMMA RingInvInit == Init => RingInv /\ Queue!QInit
<1> SUFFICES ASSUME Init PROVE RingInv /\ Queue!QInit
  OBVIOUS
<1>0. << >> \in Seq(Events) /\ Len(<< >>) = 0
  BY EmptySeq
<1>1. WordSize \in Nat \ {0} /\ Capacity \in Nat
  BY RingAssumption
<1>2. Wrap(0) = 0 /\ Ahead(0, 0) = 0
  <2>1. 0 % WordSize = 0
    BY <1>1
  <2>2. Ahead(Wrap(0), Wrap(0)) = 0 - 0
    BY <1>1, AheadOfWrap
  <2> QED
    BY <2>1, <2>2 DEF Wrap
<1>3. RingInv
  BY <1>0, <1>1, <1>2 DEF Init, RingInv, IndexInv, ContentInv
<1>4. Held = << >> /\ popped = << >>
  BY <1>2 DEF Init, Held
<1> QED
  BY <1>3, <1>4 DEF Queue!QInit

(* The invariant and the steps of the bounded queue.                       *)
LEMMA RingInvStep ==
    RingInv /\ [Next]_vars => RingInv' /\ [Queue!QNext]_<<Held, popped>>
<1> SUFFICES ASSUME RingInv, [Next]_vars
             PROVE  RingInv' /\ [Queue!QNext]_<<Held, popped>>
  OBVIOUS
<1>1. CASE UNCHANGED vars
  BY <1>1 DEF vars, RingInv, IndexInv, ContentInv, Held
<1>2. CASE PushRoom \/ PushFull \/ PushWrite \/ PopSome \/ PopNone \/ PopRead
  BY <1>2, PushKeeps, WriteKeeps, PopKeeps
<1>3. CASE PushPublish
  BY <1>3, PublishPuts DEF Queue!QNext, Queue!Put
<1>4. CASE PopAdvance
  BY <1>4, AdvanceGets DEF Queue!QNext, Queue!Get
<1> QED
  BY <1>1, <1>2, <1>3, <1>4 DEF Next, TryPush, PushStep, TryPop

(* The slot tryPush writes and the slot tryPop reads are never the same,   *)
(* for every capacity that divides the word, every word size, and across   *)
(* any number of wraps of head_ and tail_: slots_ needs no lock.           *)
THEOREM SlotsAreExclusive == Spec => []SlotExclusive
<1>1. RingInv => SlotExclusive
  <2> SUFFICES ASSUME RingInv, ppc = "write", cpc = "read"
               PROVE  Slot(head) # Slot(tail)
    BY DEF SlotExclusive
  <2>1. Len(accepted) - Len(popped) \in 1..(Capacity - 1)
    BY RingFacts DEF RingInv, IndexInv
  <2> QED
    BY <2>1, RingFacts, SlotsApart
<1>2. RingInv /\ [Next]_vars => RingInv'
  BY RingInvStep
<1> QED
  BY <1>1, <1>2, RingInvInit, PTL DEF Spec

(* Every step of tryPush and tryPop is a Put, a Get or no step of the      *)
(* bounded first-in first-out queue: nothing is lost, repeated, reordered  *)
(* or changed in the ring.                                                 *)
THEOREM RingIsQueue == Spec => Queue!QInit /\ [][Queue!QNext]_<<Held, popped>>
<1>1. RingInv /\ [Next]_vars => RingInv' /\ [Queue!QNext]_<<Held, popped>>
  BY RingInvStep
<1>2. Init => RingInv /\ Queue!QInit
  BY RingInvInit
<1> QED
  BY <1>1, <1>2, PTL DEF Spec
================================================================================
