-------------------------- MODULE MatchingEngine_proofs --------------------------
(***************************************************************************)
(* Proofs about the engine's threads, for queues and batches of every      *)
(* size, any number of orders and trades and any FlushEvery: no order and  *)
(* no latency sample goes missing uncounted, nothing moves after stop(),   *)
(* the events reach Kafka in order and stop() leaves none behind.  And     *)
(* about the scoring engine that reads them there: it judges every event   *)
(* in order, punishes violations only, and its verdicts stand.             *)
(*                                                                         *)
(* For the samples the mutex matters (MutexInv): between the copy and the  *)
(* clearing of one thread the other is not at its own.  For stop() it is   *)
(* the order of the joins (JoinedInv).  The events are compared with what  *)
(* FlattenSeq makes of the messages: its recursion is taken apart first,   *)
(* by induction over a set of numbers.                                     *)
(*                                                                         *)
(* Last comes the gateway that feeds the engine.  What arrived has an      *)
(* event pending or is being read (EdgeInv).  StreamInv says where the     *)
(* reader stands in the script of its client: the read buffer holds what   *)
(* was read since the last whole frame, the payload buffer what the frames *)
(* said since the last whole order, and the orders given to the engine are *)
(* the first ones of what was said.                                        *)
(***************************************************************************)
EXTENDS MatchingEngine, ScoringEngine, TCPServer, SequenceTheorems, WellFoundedInduction, TLAPS

CountersInv ==
    /\ incomingOrders \in Seq(Nat)
    /\ received \in Nat /\ orders_dropped \in Nat /\ orders_processed \in Nat
    /\ local_hist \in Nat /\ shared_histogram \in Nat /\ snapshot \in Nat
    /\ reported \in Nat /\ sampled \in Nat

MutexInv ==
    /\ latency_mutex = "matching" <=> wpc \in {"add", "clear"}
    /\ latency_mutex = "metrics" <=> mpc \in {"copy", "clear"}

JoinedInv ==
    /\ opc \in {"new", "spawn"} => wpc = "none" /\ mpc = "none"
    /\ opc \in {"joinMetrics", "stopOffloader", "joinOffloader", "flush", "stopped", "gone"}
         => wpc = "exited"
    /\ opc \in {"stopOffloader", "joinOffloader", "flush", "stopped", "gone"}
         => mpc = "exited"
    /\ opc \in {"flush", "stopped", "gone"} => worker \in {"none", "exited"}

BooksInv == CountersInv /\ MutexInv /\ JoinedInv /\ NothingUncounted

(* An order comes in: it waits or is counted as dropped.                   *)
LEMMA GateKeepsBooks ==
    ASSUME BooksInv, EnqueueOrder
    PROVE  BooksInv'
<1> USE DEF BooksInv, offVars, matchVars, histVars, metricsVars
<1> DEFINE longer == Append(incomingOrders, received + 1)
<1>0. /\ longer \in Seq(Nat) /\ Len(longer) = Len(incomingOrders) + 1
      /\ Len(incomingOrders) \in Nat
  BY AppendProperties, LenProperties DEF CountersInv
<1>1. /\ \/ incomingOrders' = longer /\ orders_dropped' = orders_dropped
         \/ incomingOrders' = incomingOrders /\ orders_dropped' = orders_dropped + 1
      /\ received' = received + 1
      /\ UNCHANGED <<offVars, isRunning, matchVars, histVars, metricsVars, opc>>
  BY DEF EnqueueOrder
<1> HIDE DEF longer
<1>2. CountersInv'
  BY <1>0, <1>1 DEF CountersInv
<1>3. MutexInv' /\ JoinedInv'
  BY <1>1 DEF MutexInv, JoinedInv
<1>4. SamplesConserved'
  <2>1. UNCHANGED <<sampled, wpc, local_hist, mpc, shared_histogram, snapshot, reported>>
    BY <1>1
  <2>2. SamplesConserved
    BY DEF NothingUncounted
  <2> QED
    BY ONLY <2>1, <2>2 DEF SamplesConserved
<1>5. OrdersAccountedFor'
  <2>1. /\ wpc' = wpc /\ orders_processed' = orders_processed
        /\ received \in Nat /\ orders_dropped \in Nat /\ orders_processed \in Nat
        /\ OrdersAccountedFor
    BY <1>1 DEF CountersInv, NothingUncounted
  <2> HIDE DEF BooksInv
  <2>2. CASE incomingOrders' = longer /\ orders_dropped' = orders_dropped
    BY <1>0, <1>1, <2>1, <2>2 DEF OrdersAccountedFor
  <2>3. CASE incomingOrders' = incomingOrders /\ orders_dropped' = orders_dropped + 1
    BY <1>0, <1>1, <2>1, <2>3 DEF OrdersAccountedFor
  <2> QED
    BY <1>1, <2>2, <2>3
<1> QED
  BY <1>2, <1>3, <1>4, <1>5 DEF NothingUncounted

(* An order that waited is being matched.                                  *)
LEMMA DequeueKeepsBooks ==
    ASSUME BooksInv, WorkDequeue
    PROVE  BooksInv'
<1> USE DEF BooksInv, WorkDequeue, offVars, histVars, metricsVars, gateVars
<1>1. CountersInv'
  BY HeadTailProperties DEF CountersInv
<1>2. MutexInv' /\ JoinedInv' /\ SamplesConserved'
  BY DEF MutexInv, JoinedInv, NothingUncounted, SamplesConserved
<1>3. OrdersAccountedFor'
  <2>1. Len(incomingOrders) \in Nat
    BY LenProperties DEF CountersInv
  <2>2. incomingOrders # << >> => Len(Tail(incomingOrders)) = Len(incomingOrders) - 1
    BY HeadTailProperties DEF CountersInv
  <2> QED
    BY <2>1, <2>2 DEF CountersInv, NothingUncounted, OrdersAccountedFor
<1> QED
  BY <1>1, <1>2, <1>3 DEF NothingUncounted

(* The steps of the matching thread that leave the ingress queue alone.    *)
LEMMA MatchingKeepsBooks ==
    ASSUME BooksInv,
           WorkCheck \/ WorkTrade \/ WorkDone \/ FlushLock \/ FlushAdd \/ FlushClear
    PROVE  BooksInv'
<1> USE DEF BooksInv, histVars, metricsVars, gateVars
<1>0. /\ Len(incomingOrders) \in Nat /\ incomingOrders' = incomingOrders
      /\ UNCHANGED <<received, orders_dropped, snapshot, reported, mpc, opc>>
      /\ worker' = worker
  BY LenProperties DEF CountersInv, WorkCheck, WorkTrade, WorkDone, FlushLock, FlushAdd,
       FlushClear, offVars, PublishAccepted, PublishDropped, workerVars
<1>1. CountersInv'
  BY <1>0 DEF CountersInv, WorkCheck, WorkTrade, WorkDone, FlushLock, FlushAdd, FlushClear
<1>2. MutexInv'
  BY <1>0 DEF MutexInv, WorkCheck, WorkTrade, WorkDone, FlushLock, FlushAdd, FlushClear
<1>3. JoinedInv'
  BY <1>0 DEF JoinedInv, WorkCheck, WorkTrade, WorkDone, FlushLock, FlushAdd, FlushClear
<1>4. OrdersAccountedFor'
  BY <1>0 DEF CountersInv, NothingUncounted, OrdersAccountedFor,
              WorkCheck, WorkTrade, WorkDone, FlushLock, FlushAdd, FlushClear
<1>5. SamplesConserved'
  <2>1. CASE WorkDone
    BY <1>0, <2>1 DEF CountersInv, NothingUncounted, SamplesConserved, WorkDone
  <2>2. CASE FlushAdd
    <3>1. mpc # "clear" /\ wpc = "add"
      BY <2>2 DEF MutexInv, FlushAdd
    <3> QED
      BY <1>0, <2>2, <3>1 DEF CountersInv, NothingUncounted, SamplesConserved, FlushAdd
  <2>3. CASE FlushClear
    BY <1>0, <2>3 DEF CountersInv, NothingUncounted, SamplesConserved, FlushClear
  <2>4. CASE WorkCheck \/ WorkTrade \/ FlushLock
    BY <1>0, <2>4 DEF NothingUncounted, SamplesConserved, WorkCheck, WorkTrade, FlushLock
  <2> QED
    BY <2>1, <2>2, <2>3, <2>4
<1> QED
  BY <1>1, <1>2, <1>3, <1>4, <1>5 DEF NothingUncounted

(* The metrics thread copies and clears the histogram under the mutex.     *)
LEMMA MetricsKeepsBooks ==
    ASSUME BooksInv, MetricsLoop
    PROVE  BooksInv'
<1> USE DEF BooksInv, offVars, matchVars, histVars, gateVars, MetricsLoop,
            MetricsCheck, SnapshotLock, SnapshotCopy, SnapshotClear
<1>1. CountersInv'
  BY DEF CountersInv
<1>2. MutexInv'
  BY DEF MutexInv
<1>3. JoinedInv'
  BY DEF JoinedInv
<1>4. OrdersAccountedFor'
  BY DEF NothingUncounted, OrdersAccountedFor
<1>5. SamplesConserved'
  <2>1. CASE MetricsCheck \/ SnapshotLock
    BY <2>1 DEF NothingUncounted, SamplesConserved
  <2>2. CASE SnapshotCopy
    BY <2>2 DEF CountersInv, NothingUncounted, SamplesConserved
  <2>3. CASE SnapshotClear
    BY <2>3 DEF CountersInv, NothingUncounted, SamplesConserved
  <2> QED
    BY <2>1, <2>2, <2>3
<1> QED
  BY <1>1, <1>2, <1>3, <1>4, <1>5 DEF NothingUncounted

(* What main and the Kafka thread do touches neither orders nor samples.   *)
LEMMA OthersKeepBooks ==
    ASSUME BooksInv, MainStep \/ BeginStop \/ DestroyProducer \/ Offloading
    PROVE  BooksInv'
<1>1. CASE SpawnThreads
  BY <1>1 DEF SpawnThreads, BooksInv, offVars, histVars, gateVars, CountersInv, MutexInv,
              JoinedInv, NothingUncounted, OrdersAccountedFor, SamplesConserved
<1>2. CASE ~SpawnThreads
  <2>1. UNCHANGED <<incomingOrders, matchVars, histVars, metricsVars, gateVars>>
    BY <1>2 DEF MainStep, BeginStop, DestroyProducer, Offloading, StartEngine, JoinWorker, JoinMetrics,
                StopOffloader, JoinOffloader, Flushed
  <2>2. CountersInv' /\ MutexInv' /\ NothingUncounted'
    BY <2>1 DEF BooksInv, matchVars, histVars, metricsVars, gateVars, CountersInv, MutexInv,
                NothingUncounted, OrdersAccountedFor, SamplesConserved
  <2>3. JoinedInv'
    <3>1. CASE MainStep
      BY <1>2, <2>1, <3>1
         DEF MainStep, StartEngine, JoinWorker, JoinMetrics, StopOffloader, JoinOffloader,
             Flushed, Joined, BooksInv, JoinedInv, matchVars, metricsVars, offVars,
             ClearRunning, workerVars
    <3>2. CASE BeginStop
      BY <2>1, <3>2 DEF BeginStop, BooksInv, JoinedInv, matchVars, metricsVars
    <3>3. CASE DestroyProducer
      BY <2>1, <3>3 DEF DestroyProducer, BooksInv, JoinedInv, matchVars, metricsVars, offVars
    <3>4. CASE Offloading
      <4>1. worker = "exited" \/ worker = "none" => worker' = worker
        BY <3>4 DEF Offloading, Run, RunCheck, RunDepth, RunPop, RunFilled, RunProduce,
                    RunCount, Client, ClientDelivers, ClientMisbehaves, workerVars
      <4> QED
        BY <2>1, <3>4, <4>1 DEF Offloading, BooksInv, JoinedInv, matchVars, metricsVars
    <3> QED
      BY <3>1, <3>2, <3>3, <3>4
  <2> QED
    BY <2>2, <2>3 DEF BooksInv
<1> QED
  BY <1>1, <1>2

(* The invariant holds after every step, ...                               *)
LEMMA BooksInvStep == BooksInv /\ [Next]_vars => BooksInv'
<1> SUFFICES ASSUME BooksInv, [Next]_vars PROVE BooksInv'
  OBVIOUS
<1>1. CASE Next
  BY <1>1, GateKeepsBooks, DequeueKeepsBooks, MatchingKeepsBooks, MetricsKeepsBooks,
     OthersKeepBooks DEF Next, ProcessLoop
<1>2. CASE UNCHANGED vars
  BY <1>2 DEF vars, offVars, matchVars, histVars, metricsVars, gateVars, BooksInv,
              CountersInv, MutexInv, JoinedInv, NothingUncounted, OrdersAccountedFor,
              SamplesConserved
<1> QED
  BY <1>1, <1>2

(* ... at the start, ...                                                   *)
LEMMA BooksInvInit == Init => BooksInv
<1> SUFFICES ASSUME Init PROVE BooksInv
  OBVIOUS
<1>1. << >> \in Seq(Nat) /\ Len(<< >>) = 0
  BY EmptySeq
<1> QED
  BY <1>1 DEF Init, OffInit, BooksInv, CountersInv, MutexInv, JoinedInv, NothingUncounted,
              OrdersAccountedFor, SamplesConserved

(* ... and so always.                                                      *)
LEMMA BooksInvHolds == Spec => []BooksInv
BY BooksInvInit, BooksInvStep, PTL DEF Spec

(* Every order handed over is dropped and counted, waiting, being matched  *)
(* or processed, and every latency sample is in one histogram, in the      *)
(* snapshot or reported: processLoop, flushLocalHistogram and metricsLoop, *)
(* under any interleaving and through stop().                              *)
THEOREM BooksBalance == Spec => []NothingUncounted
BY BooksInvHolds, PTL DEF BooksInv

(* stop() joins the matching thread, then the metrics thread, then the     *)
(* Kafka thread; when it is through nothing of the engine moves any more.  *)
THEOREM StopIsFinal == Spec => StoppedIsQuiet
<1>1. BooksInv /\ [Next]_vars
        => [Stopped => UNCHANGED <<queue, batch, pushed, handed, worker, wpc, mpc,
                                   incomingOrders, orders_processed, shared_histogram>>]_vars
  <2> SUFFICES ASSUME BooksInv, Next, Stopped
               PROVE  UNCHANGED <<queue, batch, pushed, handed, worker, wpc, mpc,
                                  incomingOrders, orders_processed, shared_histogram>>
    OBVIOUS
  <2>1. wpc = "exited" /\ mpc = "exited" /\ worker \in {"none", "exited"}
    BY DEF BooksInv, JoinedInv, Stopped
  <2>2. BeginStop \/ DestroyProducer \/ (Client /\ Offloading)
    <3>1. ~ProcessLoop
      BY <2>1 DEF ProcessLoop, WorkCheck, WorkDequeue, WorkTrade, WorkDone, FlushLock,
                  FlushAdd, FlushClear
    <3>2. ~MetricsLoop
      BY <2>1 DEF MetricsLoop, MetricsCheck, SnapshotLock, SnapshotCopy, SnapshotClear
    <3>3. ~Run
      BY <2>1 DEF Run, RunCheck, RunDepth, RunPop, RunFilled, RunProduce, RunCount
    <3>4. ~MainStep /\ ~EnqueueOrder
      BY DEF Stopped, EnqueueOrder, MainStep, StartEngine, SpawnThreads, JoinWorker,
             JoinMetrics, StopOffloader, JoinOffloader, Flushed
    <3> QED
      BY <3>1, <3>2, <3>3, <3>4 DEF Next, Offloading
  <2>3. CASE BeginStop \/ DestroyProducer
    BY <2>3 DEF BeginStop, DestroyProducer, offVars, matchVars, histVars, metricsVars
  <2>4. CASE Client /\ Offloading
    BY <2>4 DEF Client, ClientDelivers, ClientMisbehaves, Offloading, workerVars, pubVars,
                matchVars, histVars, metricsVars
  <2> QED
    BY <2>2, <2>3, <2>4
<1> QED
  BY <1>1, BooksInvHolds, PTL DEF Spec, StoppedIsQuiet

-----------------------------------------------------------------------------
(* Induction over the natural numbers, for a set of them.                  *)
LEMMA InductionOverNat ==
    ASSUME NEW S, 0 \in S, \A n \in Nat : n \in S => n + 1 \in S
    PROVE  Nat \subseteq S
<1> DEFINE R == OpToRel(<, Nat)
           T == Nat \ S
<1> SUFFICES ASSUME T # {} PROVE FALSE
  OBVIOUS
<1>1. IsWellFoundedOn(R, Nat)
  BY NatLessThanWellFounded
<1>2. PICK t \in T : \A y \in T : ~(<<y, t>> \in R)
  <2>1. T \subseteq Nat
    OBVIOUS
  <2> HIDE DEF R, T
  <2> QED
    BY <1>1, <2>1, WFMin
<1>3. t # 0 /\ t - 1 \in Nat /\ t - 1 \notin S /\ t \in Nat
  OBVIOUS
<1>4. t - 1 \in T /\ t - 1 < t
  BY <1>3
<1>5. <<t - 1, t>> \in R
  BY <1>3, <1>4 DEF OpToRel
<1> QED
  BY <1>2, <1>4, <1>5

-----------------------------------------------------------------------------
(* Sequences of events: an element or a sequence moves over the seam.      *)
LEMMA ConcatOfAppend ==
    ASSUME NEW T, NEW a \in Seq(T), NEW u \in Seq(T), NEW x \in T
    PROVE  a \o Append(u, x) = Append(a \o u, x)
<1>1. a \o u \in Seq(T) /\ <<x>> \in Seq(T)
  BY ConcatProperties
<1>2. Append(a \o u, x) = (a \o u) \o <<x>>
  BY <1>1, AppendIsConcat
<1>3. Append(u, x) = u \o <<x>>
  BY AppendIsConcat
<1>4. (a \o u) \o <<x>> = a \o (u \o <<x>>)
  BY <1>1, ConcatAssociative
<1> QED
  BY <1>2, <1>3, <1>4

(* The first element of q moves to the end of a.                           *)
LEMMA HeadMoves ==
    ASSUME NEW T, NEW a \in Seq(T), NEW q \in Seq(T), q # << >>
    PROVE  /\ Head(q) \in T /\ Tail(q) \in Seq(T)
           /\ Append(a, Head(q)) \o Tail(q) = a \o q
<1>1. Head(q) \in T /\ Tail(q) \in Seq(T)
  BY HeadTailProperties
<1>2. <<Head(q)>> \o Tail(q) = q /\ <<Head(q)>> \in Seq(T)
  BY <1>1
<1>3. Append(a, Head(q)) = a \o <<Head(q)>>
  BY <1>1, AppendIsConcat
<1>4. (a \o <<Head(q)>>) \o Tail(q) = a \o (<<Head(q)>> \o Tail(q))
  BY <1>1, <1>2, ConcatAssociative
<1> QED
  BY <1>1, <1>2, <1>3, <1>4

(* A prefix stays one when the sequence grows.                             *)
LEMMA PrefixGrows ==
    ASSUME NEW T, NEW s \in Seq(T), NEW t \in Seq(T), NEW u \in Seq(T), IsPrefix(s, t)
    PROVE  IsPrefix(s, t \o u)
<1>1. /\ Len(s) \in Nat /\ Len(t) \in Nat /\ Len(u) \in Nat
      /\ Len(t \o u) = Len(t) + Len(u) /\ Len(s) <= Len(t)
  BY ConcatProperties, LenProperties DEF IsPrefix
<1>2. SubSeq(t, 1, Len(s)) = SubSeq(t \o u, 1, Len(s))
  <2>1. CASE Len(s) = 0
    BY <2>1, SubSeqEmpty
  <2>2. CASE Len(s) # 0
    <3>1. 1 \in 1..Len(t) /\ Len(s) \in 1..Len(t)
      BY <1>1, <2>2
    <3> QED
      BY <3>1, SubSeqOfConcat1
  <2> QED
    BY <2>1, <2>2
<1> QED
  BY <1>1, <1>2 DEF IsPrefix

(* What is appended to is a prefix of the result ...                       *)
LEMMA PrefixOfConcat ==
    ASSUME NEW T, NEW s \in Seq(T), NEW t \in Seq(T)
    PROVE  IsPrefix(s, s \o t)
<1>1. Len(s) \in Nat
  BY LenProperties
<1>2. IsPrefix(s, s)
  BY <1>1 DEF IsPrefix
<1> QED
  BY <1>2, PrefixGrows

(* ... however often.                                                      *)
LEMMA PrefixOfMore ==
    ASSUME NEW T, NEW a \in Seq(T), NEW b \in Seq(T), NEW c \in Seq(T), NEW q \in Seq(T)
    PROVE  IsPrefix(a, ((a \o b) \o c) \o q)
<1>1. PICK d \in Seq(T) : d = a \o b
  BY ConcatProperties
<1>2. PICK e \in Seq(T) : e = d \o c
  BY ConcatProperties
<1>3. IsPrefix(a, d)
  BY <1>1, PrefixOfConcat
<1>4. IsPrefix(a, e)
  BY <1>2, <1>3, PrefixGrows
<1>5. IsPrefix(a, e \o q)
  BY <1>4, PrefixGrows
<1> QED
  BY <1>1, <1>2, <1>5

-----------------------------------------------------------------------------
(* FlattenSeq, by its recursive function: Flattens(f, s, n) says that f is  *)
(* that function for the first n elements of s.                             *)

Flattens(f, s, n) ==
    f = [i \in 1..n |-> IF i = 1 THEN s[i] ELSE f[i - 1] \o s[i]]

(* One step of the recursion.                                              *)
LEMMA FlattensAt ==
    ASSUME NEW s, NEW n \in Nat, NEW f, Flattens(f, s, n), NEW i \in 1..n
    PROVE  f[i] = IF i = 1 THEN s[i] ELSE f[i - 1] \o s[i]
<1>1. f[i] = [j \in 1..n |-> IF j = 1 THEN s[j] ELSE f[j - 1] \o s[j]][i]
  BY DEF Flattens
<1> QED
  BY <1>1

(* Where two sequences agree so do their functions.                        *)
LEMMA FlattensUnique ==
    ASSUME NEW s, NEW t, NEW n \in Nat, NEW m \in Nat, n <= m, \A i \in 1..n : s[i] = t[i],
           NEW f, NEW g, Flattens(f, s, n), Flattens(g, t, m), NEW j \in 1..n
    PROVE  f[j] = g[j]
<1> DEFINE S == {k \in Nat : k \in 1..n => f[k] = g[k]}
<1>1. 0 \in S
  OBVIOUS
<1>2. ASSUME NEW k \in Nat, k \in S PROVE k + 1 \in S
  <2> SUFFICES ASSUME k + 1 \in 1..n PROVE f[k + 1] = g[k + 1]
    OBVIOUS
  <2>1. /\ f[k + 1] = IF k + 1 = 1 THEN s[k + 1] ELSE f[k + 1 - 1] \o s[k + 1]
        /\ g[k + 1] = IF k + 1 = 1 THEN t[k + 1] ELSE g[k + 1 - 1] \o t[k + 1]
    <3>1. k + 1 \in 1..m
      OBVIOUS
    <3> QED
      BY <3>1, FlattensAt
  <2>2. k + 1 - 1 = k /\ s[k + 1] = t[k + 1]
    OBVIOUS
  <2>3. CASE k = 0
    BY <2>1, <2>2, <2>3
  <2>4. CASE k # 0
    <3>1. f[k] = g[k]
      BY <1>2, <2>4
    <3> QED
      BY <2>1, <2>2, <2>4, <3>1
  <2> QED
    BY <2>3, <2>4
<1>3. Nat \subseteq S
  <2> HIDE DEF S
  <2> QED
    BY <1>1, <1>2, InductionOverNat
<1> QED
  BY <1>3

(* The function for one element more.                                      *)
LEMMA FlattensExtends ==
    ASSUME NEW s, NEW k \in Nat, NEW f, Flattens(f, s, k)
    PROVE  \E g : Flattens(g, s, k + 1)
<1> DEFINE last == IF k = 0 THEN s[1] ELSE f[k] \o s[k + 1]
           g == [i \in 1..(k + 1) |-> IF i = k + 1 THEN last ELSE f[i]]
<1>1. g = [i \in 1..(k + 1) |-> g[i]] /\ \A i \in 1..(k + 1) : g[i] = IF i = k + 1 THEN last ELSE f[i]
  OBVIOUS
<1> HIDE DEF g
<1>2. ASSUME NEW i \in 1..(k + 1)
      PROVE  g[i] = IF i = 1 THEN s[i] ELSE g[i - 1] \o s[i]
  <2>1. CASE i = k + 1
    <3>1. CASE k = 0
      BY <1>1, <2>1, <3>1
    <3>2. CASE k # 0
      <4>1. k \in 1..(k + 1) /\ k # k + 1 /\ i - 1 = k /\ i # 1
        BY <2>1, <3>2
      <4>2. g[k] = f[k]
        BY <1>1, <4>1
      <4> QED
        BY <1>1, <2>1, <3>2, <4>1, <4>2
    <3> QED
      BY <3>1, <3>2
  <2>2. CASE i # k + 1
    <3>0. i \in 1..k
      BY <2>2
    <3>1. i \in 1..k /\ g[i] = f[i]
      BY <1>1, <2>2, <3>0
    <3>2. f[i] = IF i = 1 THEN s[i] ELSE f[i - 1] \o s[i]
      BY <3>1, FlattensAt
    <3>3. i # 1 => g[i - 1] = f[i - 1]
      <4>1. i # 1 => i - 1 \in 1..(k + 1) /\ i - 1 # k + 1
        BY <3>1
      <4> QED
        BY <1>1, <4>1
    <3> QED
      BY <3>1, <3>2, <3>3
  <2> QED
    BY <2>1, <2>2
<1>3. Flattens(g, s, k + 1)
  BY <1>1, <1>2 DEF Flattens
<1> QED
  BY <1>3

(* There is such a function, by induction.                                 *)
LEMMA FlattensExists ==
    ASSUME NEW s, NEW n \in Nat
    PROVE  \E f : Flattens(f, s, n)
<1> DEFINE S == {k \in Nat : \E f : Flattens(f, s, k)}
<1>1. 0 \in S
  <2>1. Flattens([i \in 1..0 |-> 0], s, 0)
    BY DEF Flattens
  <2> QED
    BY <2>1
<1>2. ASSUME NEW k \in Nat, k \in S PROVE k + 1 \in S
  BY <1>2, FlattensExtends
<1>3. Nat \subseteq S
  <2> HIDE DEF S
  <2> QED
    BY <1>1, <1>2, InductionOverNat
<1> QED
  BY <1>3

(* And FlattenSeq is its last value.                                       *)
LEMMA FlattenIs ==
    ASSUME NEW T, NEW s \in Seq(T), Len(s) # 0
    PROVE  \E f : Flattens(f, s, Len(s)) /\ FlattenSeq(s) = f[Len(s)]
<1> DEFINE h == CHOOSE f : Flattens(f, s, Len(s))
<1>1. FlattenSeq(s) = h[Len(s)]
  BY DEF FlattenSeq, Flattens
<1>2. Flattens(h, s, Len(s))
  <2>1. Len(s) \in Nat
    BY LenProperties
  <2> QED
    BY <2>1, FlattensExists
<1> QED
  BY <1>1, <1>2

(* No message, no event.                                                   *)
LEMMA FlattenEmpty == FlattenSeq(<< >>) = << >>
<1>1. Len(<< >>) = 0
  OBVIOUS
<1> QED
  BY <1>1 DEF FlattenSeq

(* One message more.                                                       *)
LEMMA FlattenAppendRaw ==
    ASSUME NEW T, NEW s \in Seq(T), NEW x \in T
    PROVE  FlattenSeq(Append(s, x)) = IF s = << >> THEN x ELSE FlattenSeq(s) \o x
<1> DEFINE t == Append(s, x)
           n == Len(s)
<1>1. /\ t \in Seq(T) /\ Len(t) = n + 1 /\ n \in Nat
      /\ t[n + 1] = x /\ \A i \in 1..n : t[i] = s[i]
  BY AppendProperties, LenProperties
<1> HIDE DEF t, n
<1>2. PICK g : Flattens(g, t, n + 1) /\ FlattenSeq(t) = g[n + 1]
  <2>1. Len(t) # 0
    BY <1>1
  <2> QED
    BY <1>1, <2>1, FlattenIs
<1>3. g[n + 1] = IF n + 1 = 1 THEN x ELSE g[n + 1 - 1] \o x
  <2>1. n + 1 \in 1..(n + 1) /\ n + 1 \in Nat
    BY <1>1
  <2> QED
    BY <1>1, <1>2, <2>1, FlattensAt
<1>4. CASE n = 0
  <2>1. s = << >>
    BY <1>4, EmptySeq DEF n
  <2> QED
    BY <1>2, <1>3, <1>4, <2>1 DEF t
<1>5. CASE n # 0
  <2>1. PICK f : Flattens(f, s, n) /\ FlattenSeq(s) = f[n]
    BY <1>5, FlattenIs DEF n
  <2>2. n + 1 \in Nat /\ n <= n + 1 /\ n \in 1..n /\ n + 1 - 1 = n /\ n + 1 # 1
    BY <1>1, <1>5
  <2>3. f[n] = g[n]
    <3>1. \A i \in 1..n : s[i] = t[i]
      BY <1>1
    <3>2. f[n] = g[n]
      <4>1. /\ Flattens(f, s, n) /\ Flattens(g, t, n + 1)
            /\ n \in Nat /\ n + 1 \in Nat /\ n <= n + 1
            /\ n \in 1..n
        BY <1>1, <1>2, <2>1, <2>2
      <4> QED
        BY ONLY <3>1, <4>1, FlattensUnique
    <3> QED
      BY <2>2, <3>2
  <2>4. s # << >>
    BY <1>5, EmptySeq DEF n
  <2> QED
    BY <1>2, <1>3, <2>1, <2>2, <2>3, <2>4 DEF t
<1> QED
  BY <1>4, <1>5

(* Messages of events flatten to events, by induction on their number.     *)
LEMMA FlattenType ==
    ASSUME NEW T, NEW s \in Seq(Seq(T))
    PROVE  FlattenSeq(s) \in Seq(T)
<1> DEFINE Q == Seq(Seq(T))
           S == {n \in Nat : \A r \in Q : Len(r) = n => FlattenSeq(r) \in Seq(T)}
<1>1. 0 \in S
  <2>1. \A r \in Q : Len(r) = 0 => r = << >>
    BY EmptySeq
  <2>2. << >> \in Seq(T)
    BY EmptySeq
  <2> QED
    BY <2>1, <2>2, FlattenEmpty
<1>2. ASSUME NEW n \in Nat, n \in S PROVE n + 1 \in S
  <2> SUFFICES ASSUME NEW r \in Q, Len(r) = n + 1 PROVE FlattenSeq(r) \in Seq(T)
    OBVIOUS
  <2>1. PICK u \in Q, x \in Seq(T) : r = Append(u, x)
    <3>1. r # << >>
      BY EmptySeq
    <3> QED
      BY <3>1, SequenceEmptyOrAppend
  <2>2. Len(u) = n
    BY <2>1, AppendProperties, LenProperties
  <2>3. FlattenSeq(u) \in Seq(T)
    BY <1>2, <2>2
  <2>4. FlattenSeq(r) = x \/ FlattenSeq(r) = FlattenSeq(u) \o x
    BY <2>1, FlattenAppendRaw
  <2> QED
    BY <2>3, <2>4, ConcatProperties
<1>3. Nat \subseteq S
  <2> HIDE DEF S
  <2> QED
    BY <1>1, <1>2, InductionOverNat
<1> QED
  BY <1>3, LenProperties

(* The events of one message more come last.                               *)
LEMMA FlattenAppend ==
    ASSUME NEW T, NEW s \in Seq(Seq(T)), NEW x \in Seq(T)
    PROVE  FlattenSeq(Append(s, x)) = FlattenSeq(s) \o x
<1>1. << >> \o x = x
  BY ConcatEmptySeq
<1> QED
  BY <1>1, FlattenAppendRaw, FlattenEmpty

(* The events of two runs of messages, by induction on the second.         *)
LEMMA FlattenConcat ==
    ASSUME NEW T, NEW a \in Seq(Seq(T)), NEW b \in Seq(Seq(T))
    PROVE  FlattenSeq(a \o b) = FlattenSeq(a) \o FlattenSeq(b)
<1> DEFINE Q == Seq(Seq(T))
           S == {n \in Nat : \A r \in Q : Len(r) = n =>
                                FlattenSeq(a \o r) = FlattenSeq(a) \o FlattenSeq(r)}
<1>0. FlattenSeq(a) \in Seq(T)
  BY FlattenType
<1>1. 0 \in S
  <2>1. \A r \in Q : Len(r) = 0 => r = << >>
    BY EmptySeq
  <2>2. a \o << >> = a /\ FlattenSeq(a) \o << >> = FlattenSeq(a)
    BY <1>0, ConcatEmptySeq
  <2> QED
    BY <2>1, <2>2, FlattenEmpty
<1>2. ASSUME NEW n \in Nat, n \in S PROVE n + 1 \in S
  <2> SUFFICES ASSUME NEW r \in Q, Len(r) = n + 1
               PROVE  FlattenSeq(a \o r) = FlattenSeq(a) \o FlattenSeq(r)
    OBVIOUS
  <2>1. PICK u \in Q, x \in Seq(T) : r = Append(u, x)
    <3>1. r # << >>
      BY EmptySeq
    <3> QED
      BY <3>1, SequenceEmptyOrAppend
  <2>2. Len(u) = n
    BY <2>1, AppendProperties, LenProperties
  <2>3. FlattenSeq(a \o u) = FlattenSeq(a) \o FlattenSeq(u)
    BY <1>2, <2>2
  <2>4. a \o r = Append(a \o u, x)
    BY <2>1, ConcatOfAppend
  <2>9. a \o u \in Q
    BY ConcatProperties
  <2>5. FlattenSeq(a \o r) = FlattenSeq(a \o u) \o x
    BY <2>4, <2>9, FlattenAppend
  <2>6. FlattenSeq(r) = FlattenSeq(u) \o x /\ FlattenSeq(u) \in Seq(T)
    BY <2>1, FlattenAppend, FlattenType
  <2>7. (FlattenSeq(a) \o FlattenSeq(u)) \o x = FlattenSeq(a) \o (FlattenSeq(u) \o x)
    <3>1. FlattenSeq(u) \in Seq(T) /\ FlattenSeq(a) \in Seq(T) /\ x \in Seq(T)
      BY <1>0, <2>6
    <3> QED
      BY ONLY <3>1, SMTT(60)
  <2> QED
    BY <2>3, <2>5, <2>6, <2>7
<1>3. Nat \subseteq S
  <2> HIDE DEF S
  <2> QED
    BY <1>1, <1>2, InductionOverNat
<1> QED
  BY <1>3, LenProperties

-----------------------------------------------------------------------------
(* How the events travel.  The Kafka thread holds none outside its round,  *)
(* leaves on an empty queue only, and is told to only after the matching   *)
(* thread has left (DrainInv).  What it handed over is what librdkafka has *)
(* delivered or still holds, while that does its work (HandedInv).         *)
Messages == Seq(Seq(Nat))
EventsType ==
    /\ queue \in Seq(Nat) /\ batch \in Seq(Nat) /\ pushed \in Seq(Nat)
    /\ handed \in Messages /\ inflight \in Messages /\ log \in Messages
    /\ next_match_id \in Nat /\ faults \in Nat

DrainInv ==
    /\ opc = "new" => worker = "none"
    /\ worker \in {"none", "check", "depth", "exited"} => batch = << >>
    /\ worker \in {"depth", "exited"} => ~running
    /\ worker = "exited" => queue = << >>
    /\ worker # "none" /\ ~running => wpc = "exited"

HandedInv == faults = 0 => log \o inflight = handed

EventsInv == EventsType /\ DrainInv /\ HandedInOrder /\ HandedInv

(* A trade puts its event at the end of the queue, or drops it.            *)
LEMMA TradeKeepsEvents ==
    ASSUME EventsInv, WorkTrade
    PROVE  EventsInv'
<1> DEFINE e == next_match_id + 1
<1>1. /\ UNCHANGED <<running, worker, batch, handed, inflight, log, faults, opc, wpc>>
      /\ next_match_id' = e /\ e \in Nat /\ wpc = "matching"
  BY DEF WorkTrade, PublishAccepted, PublishDropped, workerVars, client, EventsInv, EventsType
<1>2. CASE queue' = queue /\ pushed' = pushed
  BY <1>1, <1>2 DEF EventsInv, EventsType, DrainInv, HandedInOrder, Batching, HandedInv
<1>3. CASE queue' = Append(queue, e) /\ pushed' = Append(pushed, e)
  <2> DEFINE given == FlattenSeq(handed) \o Batching
  <2>1. EventsType'
    BY <1>1, <1>3, AppendProperties DEF EventsInv, EventsType
  <2>2. DrainInv' /\ HandedInv'
    BY <1>1, <1>3 DEF EventsInv, DrainInv, HandedInv
  <2>3. given \in Seq(Nat) /\ queue \in Seq(Nat) /\ given \o queue = pushed
    <3>1. Batching \in Seq(Nat) /\ FlattenSeq(handed) \in Seq(Nat)
      BY FlattenType DEF EventsInv, EventsType, Messages, Batching
    <3> QED
      BY <3>1, ConcatProperties DEF EventsInv, EventsType, HandedInOrder
  <2>4. given' = given
    BY <1>1 DEF Batching
  <2>5. given \o Append(queue, e) = Append(given \o queue, e)
    <3> HIDE DEF given, e
    <3> QED
      BY <1>1, <2>3, ConcatOfAppend
  <2>6. HandedInOrder'
    BY <1>3, <2>3, <2>4, <2>5 DEF HandedInOrder
  <2> QED
    BY <2>1, <2>2, <2>6 DEF EventsInv
<1> QED
  BY <1>2, <1>3 DEF WorkTrade, PublishAccepted, PublishDropped

(* The Kafka thread moves events from the queue over the batch to produce. *)
LEMMA RunKeepsEvents ==
    ASSUME EventsInv, Run, wpc' = wpc, opc' = opc, next_match_id' = next_match_id
    PROVE  EventsInv'
<1> USE DEF EventsInv
<1> DEFINE F == FlattenSeq(handed)
<1>0. /\ F \in Seq(Nat) /\ batch \in Seq(Nat) /\ queue \in Seq(Nat)
      /\ handed \in Messages /\ inflight \in Messages /\ log \in Messages
  <2>1. handed \in Seq(Seq(Nat))
    BY DEF EventsType, Messages
  <2>2. F \in Seq(Nat)
    BY <2>1, FlattenType
  <2> QED
    BY <2>2 DEF EventsType
<1>1. CASE RunCheck \/ RunDepth \/ RunFilled
  <2>1. /\ UNCHANGED <<queue, running, batch, pushed, handed, inflight, log, faults>>
        /\ worker # "count" /\ worker' # "count"
    BY <1>1 DEF RunCheck, RunDepth, RunFilled, pubVars, client
  <2>2. DrainInv'
    BY <1>1, <2>1 DEF RunCheck, RunDepth, RunFilled, DrainInv
  <2>3. EventsType' /\ HandedInv'
    BY <2>1 DEF EventsType, HandedInv
  <2>4. HandedInOrder'
    BY <2>1 DEF HandedInOrder, Batching
  <2> QED
    BY <2>2, <2>3, <2>4
<1>2. CASE RunPop
  <2>1. /\ queue # << >> /\ queue' = Tail(queue) /\ batch' = Append(batch, Head(queue))
        /\ worker = "fill" /\ worker' = worker
        /\ UNCHANGED <<running, pushed, handed, inflight, log, faults>>
    BY <1>2 DEF RunPop, pubVars, client
  <2>2. Head(queue) \in Nat /\ Tail(queue) \in Seq(Nat)
    BY <2>1, HeadTailProperties DEF EventsType
  <2>3. EventsType'
    BY <2>1, <2>2, AppendProperties DEF EventsType
  <2>4. DrainInv' /\ HandedInv'
    BY <2>1 DEF DrainInv, HandedInv
  <2>5. HandedInOrder'
    <3>1. F \o batch \in Seq(Nat) /\ (F \o batch) \o queue = pushed
      BY <1>0, <2>1, ConcatProperties DEF HandedInOrder, Batching
    <3>2. F \o Append(batch, Head(queue)) = Append(F \o batch, Head(queue))
      <4>1. F \in Seq(Nat) /\ batch \in Seq(Nat) /\ Head(queue) \in Nat
        BY <1>0, <2>2
      <4> HIDE DEF F
      <4> QED
        BY ONLY <4>1, ConcatOfAppend
    <3>3. Append(F \o batch, Head(queue)) \o Tail(queue) = (F \o batch) \o queue
      <4> DEFINE a == F \o batch
      <4>1. a \in Seq(Nat) /\ queue \in Seq(Nat)
        BY <3>1 DEF EventsType
      <4> HIDE DEF a
      <4>2. Append(a, Head(queue)) \o Tail(queue) = a \o queue
        BY <2>1, <4>1, HeadMoves
      <4> QED
        BY <4>2 DEF a
    <3> QED
      BY <2>1, <3>1, <3>2, <3>3 DEF HandedInOrder, Batching
  <2> QED
    BY <2>3, <2>4, <2>5
<1>3. CASE RunProduce
  <2>1. /\ worker = "produce" /\ worker' = "count" /\ handed' = Append(handed, batch)
        /\ UNCHANGED <<queue, running, batch, pushed, log>>
        /\ \/ inflight' = Append(inflight, batch) /\ faults' = faults
           \/ inflight' = inflight /\ faults' = faults + 1
    BY <1>3 DEF RunProduce, pubVars
  <2>2. EventsType'
    <3>1. Append(handed, batch) \in Messages /\ Append(inflight, batch) \in Messages
      BY <1>0, AppendProperties DEF Messages
    <3>2. handed' \in Messages /\ inflight' \in Messages
      BY <1>0, <2>1, <3>1, Zenon
    <3>3. faults' \in Nat
      BY <2>1 DEF EventsType
    <3> QED
      BY <2>1, <3>2, <3>3 DEF EventsType
  <2>3. DrainInv'
    BY <2>1 DEF DrainInv
  <2>4. HandedInOrder'
    <3>1. FlattenSeq(handed') = F \o batch
      <4>1. handed \in Seq(Seq(Nat)) /\ batch \in Seq(Nat)
        BY <1>0 DEF Messages
      <4>2. FlattenSeq(Append(handed, batch)) = F \o batch
        BY ONLY <4>1, FlattenAppend
      <4> QED
        BY <2>1, <4>2
    <3>2. (F \o batch) \o << >> = F \o batch
      <4>1. F \o batch \in Seq(Nat)
        BY <1>0, ConcatProperties DEF EventsType
      <4> QED
        BY <4>1, ConcatEmptySeq
    <3> QED
      BY <2>1, <3>1, <3>2 DEF HandedInOrder, Batching
  <2>5. HandedInv'
    <3>1. log \o Append(inflight, batch) = Append(log \o inflight, batch)
      <4>1. log \in Seq(Seq(Nat)) /\ inflight \in Seq(Seq(Nat)) /\ batch \in Seq(Nat)
        BY <1>0 DEF Messages
      <4> QED
        BY ONLY <4>1, ConcatOfAppend
    <3>2. CASE inflight' = Append(inflight, batch) /\ faults' = faults
      BY <2>1, <3>1, <3>2 DEF HandedInv
    <3>3. CASE faults' = faults + 1
      BY <3>3 DEF HandedInv, EventsType
    <3> QED
      BY <2>1, <3>2, <3>3
  <2> QED
    BY <2>2, <2>3, <2>4, <2>5
<1>4. CASE RunCount
  <2>1. /\ worker = "count" /\ worker' = "check" /\ batch' = << >>
        /\ UNCHANGED <<queue, running, pushed, log, inflight, handed, faults>>
    BY <1>4 DEF RunCount, pubVars, client
  <2>2. << >> \in Seq(Nat)
    BY EmptySeq
  <2> QED
    BY <2>1, <2>2 DEF EventsType, DrainInv, HandedInOrder, Batching, HandedInv
<1> QED
  BY <1>1, <1>2, <1>3, <1>4 DEF Run

(* librdkafka delivers the first message, or misbehaves and is counted.    *)
LEMMA ClientKeepsEvents ==
    ASSUME EventsInv, Client, wpc' = wpc, opc' = opc, next_match_id' = next_match_id
    PROVE  EventsInv'
<1> USE DEF EventsInv
<1>1. /\ UNCHANGED <<queue, running, worker, batch, handed, pushed>>
      /\ inflight # << >>
  BY DEF Client, ClientDelivers, ClientMisbehaves, workerVars, pubVars
<1>2. /\ Head(inflight) \in Seq(Nat) /\ Tail(inflight) \in Messages
      /\ Append(log, Head(inflight)) \in Messages
      /\ Append(Tail(inflight), Head(inflight)) \in Messages
  <2>1. inflight \in Seq(Seq(Nat)) /\ log \in Seq(Seq(Nat))
    BY DEF EventsType, Messages
  <2>2. Head(inflight) \in Seq(Nat) /\ Tail(inflight) \in Seq(Seq(Nat))
    BY <1>1, <2>1, HeadTailProperties
  <2>3. Append(log, Head(inflight)) \in Seq(Seq(Nat))
    BY <2>1, <2>2, AppendProperties
  <2>4. Append(Tail(inflight), Head(inflight)) \in Seq(Seq(Nat))
    BY <2>2, AppendProperties
  <2> QED
    BY <2>2, <2>3, <2>4 DEF Messages
<1>3. /\ inflight' \in {inflight, Tail(inflight), Append(Tail(inflight), Head(inflight))}
      /\ log' \in {log, Append(log, Head(inflight))}
      /\ faults' \in {faults, faults + 1}
  BY DEF Client, ClientDelivers, ClientMisbehaves
<1>4. EventsType'
  <2>1. inflight \in Messages /\ log \in Messages /\ faults \in Nat
    BY DEF EventsType
  <2>2. inflight' \in Messages /\ log' \in Messages
    BY <1>2, <1>3, <2>1, Zenon
  <2>3. faults' \in Nat
    BY ONLY <1>3, <2>1
  <2> QED
    BY <1>1, <2>2, <2>3 DEF EventsType
<1>5. DrainInv' /\ HandedInOrder'
  BY <1>1 DEF DrainInv, HandedInOrder, Batching
<1>6. HandedInv'
  <2>1. CASE ClientDelivers
    <3>1. Append(log, Head(inflight)) \o Tail(inflight) = log \o inflight
      BY <1>1, HeadMoves DEF EventsType, Messages
    <3> QED
      BY <1>1, <2>1, <3>1 DEF ClientDelivers, HandedInv
  <2>2. CASE ClientMisbehaves
    <3>1. faults' # 0
      BY <2>2 DEF ClientMisbehaves, EventsType
    <3> QED
      BY <3>1 DEF HandedInv
  <2> QED
    BY <2>1, <2>2 DEF Client
<1> QED
  BY <1>4, <1>5, <1>6

(* Everything else leaves the events alone, and stop() comes in order.     *)
LEMMA EngineKeepsEvents ==
    ASSUME EventsInv, JoinedInv,
           \/ EnqueueOrder \/ MetricsLoop \/ MainStep \/ BeginStop \/ DestroyProducer
           \/ UNCHANGED vars
           \/ WorkCheck \/ WorkDequeue \/ WorkDone \/ FlushLock \/ FlushAdd \/ FlushClear
    PROVE  EventsInv'
<1>1. /\ UNCHANGED <<queue, batch, pushed, handed, inflight, log, faults, next_match_id>>
      /\ worker' = worker \/ (worker' = "check" /\ opc = "new")
  BY DEF EnqueueOrder, MetricsLoop, MainStep, BeginStop, DestroyProducer, WorkCheck,
         WorkDequeue, WorkDone, FlushLock, FlushAdd, FlushClear, MetricsCheck, SnapshotLock,
         SnapshotCopy,
         SnapshotClear, StartEngine, StartThread, StartFails, SpawnThreads, JoinWorker,
         JoinMetrics, StopOffloader, ClearRunning, JoinOffloader, Flushed, offVars, matchVars,
         workerVars, pubVars, client, vars
<1>2. DrainInv'
  <2>1. CASE StartEngine
    BY <1>1, <2>1 DEF StartEngine, StartThread, StartFails, offVars, EventsInv, DrainInv, JoinedInv,
                      matchVars
  <2>2. CASE StopOffloader
    BY <1>1, <2>2 DEF StopOffloader, ClearRunning, workerVars, EventsInv, DrainInv, JoinedInv,
                      matchVars
  <2>3. CASE ~StartEngine /\ ~StopOffloader
    <3>1. /\ running' = running /\ worker' = worker
          /\ wpc = "exited" => wpc' = "exited"
          /\ wpc' = wpc \/ wpc # "none" \/ opc = "spawn"
          /\ opc' = "new" => opc = "new"
      BY <2>3 DEF EnqueueOrder, MetricsLoop, MainStep, BeginStop, DestroyProducer, WorkCheck,
         WorkDequeue, WorkDone, FlushLock, FlushAdd, FlushClear, MetricsCheck, SnapshotLock,
         SnapshotCopy,
         SnapshotClear, SpawnThreads, JoinWorker,
         JoinMetrics, JoinOffloader, Flushed, offVars, matchVars, vars, JoinedInv
    <3> QED
      BY <1>1, <3>1 DEF EventsInv, DrainInv
  <2> QED
    BY <2>1, <2>2, <2>3
<1>3. EventsType' /\ HandedInv'
  BY <1>1 DEF EventsInv, EventsType, HandedInv
<1>4. HandedInOrder'
  BY <1>1 DEF EventsInv, HandedInOrder, Batching, DrainInv
<1> QED
  BY <1>2, <1>3, <1>4 DEF EventsInv

(* All steps, ...                                                          *)
LEMMA EventsInvStep == EventsInv /\ JoinedInv /\ [Next]_vars => EventsInv'
<1> SUFFICES ASSUME EventsInv, JoinedInv, [Next]_vars PROVE EventsInv'
  OBVIOUS
<1>1. CASE Offloading
  BY <1>1, RunKeepsEvents, ClientKeepsEvents DEF Offloading, matchVars
<1> QED
  BY <1>1, TradeKeepsEvents, EngineKeepsEvents DEF Next, ProcessLoop

(* ... the start, ...                                                      *)
LEMMA EventsInvInit == Init => EventsInv
<1> SUFFICES ASSUME Init PROVE EventsInv
  OBVIOUS
<1>1. /\ << >> \in Seq(Nat) /\ << >> \in Seq(Seq(Nat))
      /\ << >> \o << >> = << >>
  BY EmptySeq, ConcatEmptySeq
<1> QED
  BY <1>1, FlattenEmpty
     DEF Init, OffInit, EventsInv, EventsType, Messages, DrainInv, HandedInOrder, Batching, HandedInv

(* ... and so always.                                                      *)
LEMMA EventsInvHolds == Spec => []EventsInv
<1>1. BooksInv => JoinedInv
  BY DEF BooksInv
<1> QED
  BY <1>1, BooksInvHolds, EventsInvInit, EventsInvStep, PTL DEF Spec

(* The partition holds the first of the accepted events.                   *)
LEMMA LogIsAPrefix == EventsInv => LogIsPrefix
<1> SUFFICES ASSUME EventsInv, faults = 0 PROVE IsPrefix(FlattenSeq(log), pushed)
  BY DEF LogIsPrefix
<1> DEFINE a == FlattenSeq(log)
           b == FlattenSeq(inflight)
           c == Batching
<1>1. a \in Seq(Nat) /\ b \in Seq(Nat) /\ c \in Seq(Nat) /\ queue \in Seq(Nat)
  BY FlattenType DEF EventsInv, EventsType, Messages, Batching
<1>2. FlattenSeq(handed) = a \o b
  <2>1. handed = log \o inflight
    BY DEF EventsInv, HandedInv
  <2>2. FlattenSeq(log \o inflight) = a \o b
    <3>1. log \in Seq(Seq(Nat)) /\ inflight \in Seq(Seq(Nat))
      BY DEF EventsInv, EventsType, Messages
    <3> QED
      BY ONLY <3>1, FlattenConcat
  <2> QED
    BY <2>1, <2>2
<1>3. pushed = ((a \o b) \o c) \o queue
  BY <1>2 DEF EventsInv, HandedInOrder
<1> HIDE DEF a, b, c
<1> QED
  BY <1>1, <1>3, PrefixOfMore DEF a

(* Between publish and the partition no event is lost, doubled or overtaken: *)
(* what run and publishBatch have handed over, hold and leave queued is what *)
(* publish accepted, in order, and a client that does its work keeps it so. *)
THEOREM EventsStayInOrder == Spec => []EventsInOrder
<1>1. EventsInv => EventsInOrder
  BY LogIsAPrefix DEF EventsInv, EventsInOrder
<1> QED
  BY <1>1, EventsInvHolds, PTL

(* stop() of the engine joins the matching thread before KafkaOffloader::stop, *)
(* whose thread leaves on an empty queue only: when it is through, everything *)
(* accepted was handed over, if the Kafka thread was ever started.         *)
THEOREM StopLosesNoEvent == Spec => []StopDrainsEvents
<1>1. ASSUME BooksInv, EventsInv, opc = "stopped", worker # "none"
      PROVE  FlattenSeq(handed) = pushed
  <2>1. worker = "exited"
    BY <1>1 DEF BooksInv, JoinedInv
  <2>2. queue = << >> /\ Batching = << >>
    BY <1>1, <2>1 DEF EventsInv, DrainInv, Batching
  <2>3. FlattenSeq(handed) \in Seq(Nat)
    BY <1>1, FlattenType DEF EventsInv, EventsType, Messages
  <2>4. (FlattenSeq(handed) \o << >>) \o << >> = FlattenSeq(handed)
    BY <2>3, ConcatEmptySeq
  <2> QED
    BY <1>1, <2>2, <2>4 DEF EventsInv, HandedInOrder
<1>2. BooksInv /\ EventsInv => StopDrainsEvents
  BY <1>1 DEF StopDrainsEvents
<1> QED
  BY <1>2, BooksInvHolds, EventsInvHolds, PTL

-----------------------------------------------------------------------------
(* The scoring engine at the other end of the partition, over any          *)
(* partition and through any number of restarts.                           *)

(* What the process holds, and the bounds of its positions.                *)
PositionsInv ==
    /\ partition \in Partition
    /\ committed \in {-1} \cup 0..Len(partition)
    /\ first \in 0..Len(partition) /\ position \in 0..Len(partition) /\ first <= position
    /\ accepted \in Seq(Event) /\ todo \in Seq(Event)
    /\ samples \in Nat /\ failures \in Nat
    /\ correctness \in {"PASSED", "CRITICAL_ERR"}

(* What was accepted and what is left are the events read so far; nothing  *)
(* is left, but for the rest of a message that holds a violation.          *)
JudgedInv ==
    process = "up" /\ pc # "raise" =>
        /\ EventsIn(first, position) = accepted \o todo
        /\ \A k \in (first + 1)..position : partition[k].whole
        /\ pc \in {"poll", "event", "due"} => correctness = "PASSED"
        /\ correctness = "PASSED" /\ pc # "event" => todo = << >>

(* How far a publication has come; without a fault it is not broken off.   *)
StoreInv ==
    /\ failures = 0 /\ process # "up" => pc \in {"close", "raise"}
    /\ process = "up" /\ pc \in {"zadd", "hset", "publish"} => report \in Publication
    /\ failures = 0 =>
           /\ ranking = IF pc \in {"hset", "publish"} THEN report.score
                        ELSE IF shown = Nothing THEN Nothing ELSE shown.score
           /\ meta = IF pc = "publish" THEN report ELSE shown

(* Whatever says guilty has seen a violation in the partition.             *)
Guilt == \E i, j \in 0..Len(partition) : i <= j /\ Offends(i, j)

Accuses(m) == m # Nothing /\ (m.score = -1 \/ m.correctness # "PASSED")

GuiltInv ==
    \/ correctness # "PASSED" \/ ranking = -1
    \/ Accuses(report) \/ Accuses(meta) \/ Accuses(shown)
    => Guilt

(* The events of no message, and of one message more.                      *)
LEMMA EventsOfNone ==
    ASSUME NEW i \in Nat
    PROVE  EventsIn(i, i) = << >>
<1>1. [k \in 1..(i - i) |-> partition[i + k].events] = << >>
  OBVIOUS
<1> QED
  BY <1>1, FlattenEmpty DEF EventsIn

LEMMA EventsOfOneMore ==
    ASSUME partition \in Partition, NEW i \in Nat, NEW j \in Nat, i <= j, j < Len(partition)
    PROVE  /\ partition[j + 1].events \in Seq(Event)
           /\ EventsIn(i, j + 1) = EventsIn(i, j) \o partition[j + 1].events
<1> DEFINE E == Event
           s == [k \in 1..(j - i) |-> partition[i + k].events]
           t == [k \in 1..(j + 1 - i) |-> partition[i + k].events]
           x == partition[j + 1].events
<1>1. \A k \in 1..Len(partition) : partition[k].events \in Seq(E)
  <2>1. \A k \in 1..Len(partition) : partition[k] \in [whole : BOOLEAN, events : Seq(E)]
    BY ElementOfSeq DEF Partition
  <2> HIDE DEF E
  <2> QED
    BY <2>1
<1>2. Len(partition) \in Nat
  BY LenProperties DEF Partition
<1>3. x \in Seq(E)
  BY <1>1, <1>2
<1>4. s \in Seq(Seq(E)) /\ Len(s) = j - i
  <2>1. \A k \in 1..(j - i) : partition[i + k].events \in Seq(E)
    BY <1>1, <1>2
  <2> HIDE DEF E
  <2> QED
    BY <2>1
<1>5. Append(s, x) \in Seq(Seq(E)) /\ Len(Append(s, x)) = j - i + 1
      /\ Append(s, x)[j - i + 1] = x /\ \A k \in 1..(j - i) : Append(s, x)[k] = s[k]
  BY <1>3, <1>4, AppendProperties
<1>6. t = Append(s, x)
  <2>1. \A k \in 1..(j + 1 - i) : k \in 1..(j - i) \/ k = j - i + 1
    OBVIOUS
  <2>2. \A k \in 1..(j + 1 - i) : Append(s, x)[k] = t[k]
    BY <1>4, <1>5, <2>1
  <2>3. t \in Seq(Seq(E)) /\ Len(t) = j + 1 - i
    <3>1. \A k \in 1..(j + 1 - i) : partition[i + k].events \in Seq(E)
      BY <1>1, <1>2
    <3> HIDE DEF E
    <3> QED
      BY <3>1
  <2> DEFINE a == Append(s, x)
             n == j + 1 - i
             Q == Seq(E)
  <2>4. a \in Seq(Q) /\ t \in Seq(Q) /\ Len(a) = n /\ Len(t) = n /\ \A k \in 1..n : a[k] = t[k]
    BY <1>5, <2>2, <2>3
  <2>5. a = t
    <3> HIDE DEF a, t, n, Q
    <3> QED
      BY <2>4, SeqEqual
  <2> QED
    BY <2>5
<1>7. FlattenSeq(t) = FlattenSeq(s) \o x
  BY <1>3, <1>4, <1>6, FlattenAppend
<1>8. EventsIn(i, j + 1) = FlattenSeq(t) /\ EventsIn(i, j) = FlattenSeq(s)
  <2>1. EventsIn(i, j + 1) = FlattenSeq(t)
    BY DEF EventsIn
  <2>2. EventsIn(i, j) = FlattenSeq(s)
    BY DEF EventsIn
  <2> HIDE DEF s, t
  <2> QED
    BY <2>1, <2>2
<1> HIDE DEF s, t
<1> QED
  BY <1>3, <1>7, <1>8

(* Steps of main() and around it that read, judge and write nothing.       *)
Idle ==
    \/ Leave \/ PollNothing \/ MessageDone \/ MetricsNotDue
    \/ Raise \/ CloseConsumer \/ Kill \/ Signal \/ AutoCommit
    \/ UNCHANGED scorerVars

Writes == Zadd \/ Hset \/ Publish

LEMMA ScorerSteps ==
    ASSUME [ScorerNext]_scorerVars
    PROVE  Idle \/ Writes \/ PollMessage \/ AcceptEvent \/ Disqualify
           \/ MetricsDue \/ Restart
  BY DEF Idle, Writes, ScorerNext, Main, Validate, Metrics

LEMMA IdleKeeps ==
    ASSUME Idle
    PROVE  /\ UNCHANGED <<partition, position, todo, accepted, correctness, samples, report,
                          ranking, meta, shown, first>>
           /\ committed' \in {committed, position}
           /\ failures' = failures \/ failures' = failures + 1
  BY DEF Idle, Leave, PollNothing, MessageDone, MetricsNotDue,
         Raise, CloseConsumer, Kill, Signal, AutoCommit,
         scorerVars, kafka, validator, redis

LEMMA WritesKeep ==
    ASSUME Writes
    PROVE  /\ UNCHANGED <<partition, committed, position, todo, accepted, correctness, samples,
                          first, failures, process>>
           /\ process = "up" /\ pc \in {"zadd", "hset", "publish"}
  BY DEF Writes, Zadd, Hset, Publish, kafka, validator,
         redis

LEMMA PositionsInit ==
    ASSUME Logs \subseteq Partition, ScorerInit
    PROVE  PositionsInv
<1>1. partition \in Partition /\ Len(partition) \in Nat
  BY LenProperties DEF ScorerInit, Partition
<1>2. << >> \in Seq(Event)
  BY EmptySeq
<1> QED
  BY <1>1, <1>2 DEF ScorerInit, StartPositions, PositionsInv

LEMMA PositionsStep == PositionsInv /\ [ScorerNext]_scorerVars => PositionsInv'
<1> SUFFICES ASSUME PositionsInv, [ScorerNext]_scorerVars PROVE PositionsInv'
  OBVIOUS
<1> USE DEF PositionsInv, kafka, validator, redis
<1>0. Len(partition) \in Nat
  BY LenProperties DEF Partition
<1>1. CASE Idle
  BY <1>0, <1>1, IdleKeeps
<1>2. CASE Writes
  BY <1>0, <1>2, WritesKeep
<1>3. CASE PollMessage
  <2>1. partition[position + 1].events \in Seq(Event)
    BY <1>0, <1>3, EventsOfOneMore DEF PollMessage
  <2> QED
    BY <1>0, <1>3, <2>1 DEF PollMessage
<1>4. CASE AcceptEvent
  <2>1. Head(todo) \in Event /\ Tail(todo) \in Seq(Event)
    BY <1>4, HeadTailProperties DEF AcceptEvent
  <2>2. Append(accepted, Head(todo)) \in Seq(Event)
    BY <2>1, AppendProperties
  <2> QED
    BY <1>0, <1>4, <2>1, <2>2 DEF AcceptEvent
<1>5. CASE Disqualify
  BY <1>0, <1>5 DEF Disqualify
<1>6. CASE MetricsDue
  BY <1>0, <1>6 DEF MetricsDue
<1>7. CASE Restart
  <2>1. << >> \in Seq(Event)
    BY EmptySeq
  <2> QED
    BY <1>0, <1>7, <2>1 DEF Restart, StartPositions
<1> QED
  BY <1>1, <1>2, <1>3, <1>4, <1>5, <1>6, <1>7, ScorerSteps

(* The partition stays, and what lies in it.                               *)
LEMMA SamePartition ==
    ASSUME partition' = partition
    PROVE  /\ \A i, j : EventsIn(i, j)' = EventsIn(i, j)
           /\ Guilt' <=> Guilt
<1>1. \A i, j : EventsIn(i, j)' = EventsIn(i, j)
  BY DEF EventsIn, FlattenSeq
<1>2. \A i, j : Offends(i, j)' <=> Offends(i, j)
  BY <1>1 DEF Offends
<1> QED
  BY <1>1, <1>2 DEF Guilt

LEMMA JudgedInit ==
    ASSUME PositionsInv, ScorerInit
    PROVE  JudgedInv
<1>1. first = position /\ first \in Nat
  BY LenProperties DEF PositionsInv, ScorerInit, Partition
<1>2. EventsIn(first, position) = << >>
  BY <1>1, EventsOfNone
<1>3. << >> \o << >> = << >>
  OBVIOUS
<1> QED
  BY <1>1, <1>2, <1>3 DEF JudgedInv, ScorerInit

LEMMA JudgedStep == PositionsInv /\ JudgedInv /\ [ScorerNext]_scorerVars => JudgedInv'
<1> SUFFICES ASSUME PositionsInv, JudgedInv, [ScorerNext]_scorerVars PROVE JudgedInv'
  OBVIOUS
<1> USE DEF kafka, validator, redis
<1>0. /\ partition \in Partition /\ Len(partition) \in Nat /\ first \in Nat /\ position \in Nat
      /\ first <= position /\ accepted \in Seq(Event) /\ todo \in Seq(Event)
  BY LenProperties DEF PositionsInv, Partition
<1>1. partition' = partition
  BY DEF ScorerNext, scorerVars, Main, Validate, Metrics, Leave,
         PollMessage, PollNothing, AcceptEvent, MessageDone,
         Disqualify, MetricsDue, MetricsNotDue, Zadd, Hset,
         Publish, CloseConsumer, Raise, Kill, Signal,
         AutoCommit, Restart
<1>2. \A i, j : EventsIn(i, j)' = EventsIn(i, j)
  BY <1>1, SamePartition
<1>3. CASE Idle
  <2>1. UNCHANGED <<first, position, accepted, todo, correctness>>
    BY <1>3, IdleKeeps
  <2>2. process' = "up" /\ pc' # "raise" =>
           /\ process = "up" /\ pc # "raise"
           /\ pc' \in {"poll", "event", "due"} => pc \in {"poll", "event", "due"}
           /\ pc' # "event" => pc # "event" \/ todo = << >>
    BY <1>3 DEF Idle, Leave, PollNothing, MessageDone,
         MetricsNotDue, Raise, CloseConsumer, Kill, Signal,
         AutoCommit, scorerVars
  <2> QED
    BY <1>1, <1>2, <2>1, <2>2 DEF JudgedInv
<1>4. CASE Writes
  <2>1. UNCHANGED <<first, position, accepted, todo, correctness, process>>
    BY <1>4, WritesKeep
  <2>2. /\ process = "up" /\ pc \notin {"raise", "event"} /\ pc' # "event"
        /\ pc' \in {"poll", "event", "due"} => correctness = "PASSED"
    BY <1>4 DEF Writes, Zadd, Hset, Publish
  <2> QED
    BY <1>1, <1>2, <2>1, <2>2 DEF JudgedInv
<1>5. CASE PollMessage
  <2> SUFFICES ASSUME pc' # "raise" PROVE JudgedInv'
    BY DEF JudgedInv
  <2>1. /\ process = "up" /\ pc = "poll" /\ position < Len(partition) /\ position' = position + 1
        /\ UNCHANGED <<first, accepted, correctness>>
        /\ partition[position + 1].whole /\ pc' = "event" /\ todo' = partition[position + 1].events
    BY <1>5 DEF PollMessage
  <2>2. /\ EventsIn(first, position) = accepted \o todo
        /\ \A k \in (first + 1)..position : partition[k].whole
        /\ correctness = "PASSED" /\ todo = << >>
    BY <2>1 DEF JudgedInv
  <2>3. EventsIn(first, position + 1) = accepted \o todo'
    <3>1. accepted \o << >> = accepted
      BY <1>0, ConcatEmptySeq
    <3>2. EventsIn(first, position + 1)
             = EventsIn(first, position) \o partition[position + 1].events
      BY <1>0, <2>1, EventsOfOneMore
    <3> QED
      BY <2>1, <2>2, <3>1, <3>2
  <2>4. \A k \in (first + 1)..(position + 1) : partition[k].whole
    <3>1. \A k \in (first + 1)..(position + 1) : k \in (first + 1)..position \/ k = position + 1
      BY <1>0
    <3> QED
      BY <2>1, <2>2, <3>1
  <2> QED
    BY <1>1, <1>2, <2>1, <2>2, <2>3, <2>4 DEF JudgedInv
<1>6. CASE AcceptEvent
  <2>1. /\ process = "up" /\ pc = "event" /\ pc' = "event" /\ todo # << >>
        /\ accepted' = Append(accepted, Head(todo)) /\ todo' = Tail(todo)
        /\ UNCHANGED <<first, position, process, correctness>>
    BY <1>6 DEF AcceptEvent
  <2>2. accepted' \o todo' = accepted \o todo
    BY <1>0, <2>1, HeadMoves
  <2> QED
    BY <1>1, <1>2, <2>1, <2>2 DEF JudgedInv
<1>7. CASE Disqualify
  <2>1. /\ process = "up" /\ pc = "event" /\ pc' = "zadd" /\ correctness' = "CRITICAL_ERR"
        /\ UNCHANGED <<first, position, process, accepted, todo>>
    BY <1>7 DEF Disqualify
  <2> QED
    BY <1>1, <1>2, <2>1 DEF JudgedInv
<1>8. CASE MetricsDue
  <2>1. /\ process = "up" /\ pc = "due" /\ pc' = "zadd"
        /\ UNCHANGED <<first, position, process, accepted, todo, correctness>>
    BY <1>8 DEF MetricsDue
  <2> QED
    BY <1>1, <1>2, <2>1 DEF JudgedInv
<1>9. CASE Restart
  <2>1. /\ first' = position' /\ position' \in Nat /\ accepted' = << >> /\ todo' = << >>
        /\ correctness' = "PASSED" /\ pc' = "poll"
    <3>1. PositionsInv'
      BY PositionsStep
    <3>2. Len(partition') \in Nat
      BY <1>0, <1>1
    <3> QED
      BY <1>9, <3>1, <3>2 DEF Restart, PositionsInv
  <2>2. EventsIn(first', position') = << >>
    BY <2>1, EventsOfNone
  <2>3. accepted' \o todo' = << >>
    BY <2>1
  <2>4. \A k \in (first' + 1)..position' : FALSE
    <3>1. \A n \in Nat : \A k \in (n + 1)..n : FALSE
      OBVIOUS
    <3> QED
      BY <2>1, <3>1
  <2>5. EventsIn(first, position)' = accepted' \o todo'
    BY <1>2, <2>2, <2>3 DEF EventsIn
  <2>6. \A k \in ((first + 1)..position)' : partition[k]'.whole
    BY <2>4
  <2> QED
    BY <2>1, <2>5, <2>6 DEF JudgedInv
<1> QED
  BY <1>3, <1>4, <1>5, <1>6, <1>7, <1>8, <1>9, ScorerSteps

LEMMA StoreInit == ScorerInit => StoreInv
  BY DEF ScorerInit, StoreInv

LEMMA StoreStep ==
    ASSUME Nothing \notin Publication
    PROVE  PositionsInv /\ StoreInv /\ [ScorerNext]_scorerVars => StoreInv'
<1> SUFFICES ASSUME PositionsInv, StoreInv, [ScorerNext]_scorerVars PROVE StoreInv'
  OBVIOUS
<1> USE DEF kafka, validator, redis
<1>0. /\ failures \in Nat /\ samples \in Nat /\ Len(accepted) \in Nat
      /\ correctness \in {"PASSED", "CRITICAL_ERR"}
  BY LenProperties DEF PositionsInv
<1>1. CASE Idle
  <2>1. /\ UNCHANGED <<report, ranking, meta, shown>>
        /\ failures' = failures \/ failures' = failures + 1
    BY <1>1, IdleKeeps
  <2>2. failures' = 0 => failures = 0 /\ failures' = failures
    BY <1>0, <2>1
  <2>3. \/ UNCHANGED <<process, pc>>
        \/ process = "up" /\ pc' \notin {"zadd", "hset", "publish"}
           /\ pc \notin {"zadd", "hset", "publish"} /\ UNCHANGED process
        \/ process = "up" /\ pc \in {"close", "raise"} /\ process' # "up" /\ UNCHANGED pc
        \/ failures' = failures + 1 /\ process = "up"
           /\ (process' # "up" \/ pc' = "raise")
    BY <1>1 DEF Idle, Leave, PollNothing, MessageDone,
         MetricsNotDue, Raise, CloseConsumer, Kill, Signal,
         AutoCommit, scorerVars
  <2>4. failures' = failures + 1 => failures' # 0
    BY <1>0
  <2> QED
    BY <2>1, <2>2, <2>3, <2>4 DEF StoreInv
<1>2. CASE Zadd
  BY <1>2 DEF Zadd, StoreInv
<1>3. CASE Hset
  BY <1>3 DEF Hset, StoreInv
<1>4. CASE Publish
  <2>1. report # Nothing
    BY <1>4 DEF Publish, StoreInv
  <2>2. pc' \in {"poll", "close"}
    BY <1>4 DEF Publish
  <2> QED
    BY <1>4, <2>1, <2>2 DEF Publish, StoreInv
<1>5. CASE PollMessage
  <2>1. /\ process = "up" /\ pc = "poll" /\ pc' \in {"event", "raise"}
        /\ UNCHANGED <<process, report, ranking, meta, shown, failures>>
    BY <1>5 DEF PollMessage
  <2> QED
    BY <2>1 DEF StoreInv
<1>6. CASE AcceptEvent
  BY <1>6 DEF AcceptEvent, StoreInv
<1>7. CASE Disqualify
  <2>1. /\ process = "up" /\ pc = "event" /\ pc' = "zadd"
        /\ UNCHANGED <<process, ranking, meta, shown, failures>>
    BY <1>7 DEF Disqualify
  <2>2. report' = [score |-> -1, correctness |-> "CRITICAL_ERR", total_events |-> Len(accepted)]
    BY <1>7 DEF Disqualify, Report
  <2>3. report' \in Publication
    BY <1>0, <2>2 DEF Publication
  <2> QED
    BY <2>1, <2>3 DEF StoreInv
<1>8. CASE MetricsDue
  <2>1. /\ process = "up" /\ pc = "due" /\ pc' = "zadd" /\ samples' \in Nat
        /\ UNCHANGED <<process, ranking, meta, shown, failures>>
    BY <1>0, <1>8 DEF MetricsDue
  <2>2. report' = [score |-> samples', correctness |-> correctness,
                   total_events |-> Len(accepted)]
    BY <1>8 DEF MetricsDue, Report
  <2>3. report' \in Publication
    BY <1>0, <2>1, <2>2 DEF Publication
  <2> QED
    BY <2>1, <2>3 DEF StoreInv
<1>9. CASE Restart
  <2>1. /\ process = "failed" /\ process' = "up" /\ pc' = "poll"
        /\ UNCHANGED <<ranking, meta, shown, failures>>
    BY <1>9 DEF Restart
  <2>2. failures = 0 => pc \notin {"hset", "publish"}
    BY <2>1 DEF StoreInv
  <2> QED
    BY <2>1, <2>2 DEF StoreInv
<1> QED
  BY <1>1, <1>2, <1>3, <1>4, <1>5, <1>6, <1>7, <1>8, <1>9, ScorerSteps DEF Writes

(* The event in hand, if it is a violation, makes the partition one that   *)
(* offends.                                                                *)
LEMMA ViolationIsGuilt ==
    ASSUME PositionsInv, JudgedInv, process = "up", pc = "event", todo # << >>,
           Violation(accepted, Head(todo))
    PROVE  Guilt
<1> DEFINE es == EventsIn(first, position)
           n  == Len(accepted) + 1
<1>1. /\ Len(partition) \in Nat /\ Len(accepted) \in Nat
      /\ accepted \in Seq(Event) /\ todo \in Seq(Event)
  BY LenProperties DEF PositionsInv, Partition
<1>2. es = accepted \o todo /\ \A k \in (first + 1)..position : partition[k].whole
  BY DEF JudgedInv
<1> HIDE DEF es
<1>3. /\ Len(todo) \in Nat \ {0} /\ Head(todo) = todo[1]
      /\ Len(accepted \o todo) = Len(accepted) + Len(todo)
  BY <1>1, EmptySeq, ConcatProperties, HeadTailProperties
<1>4. n \in 1..Len(es) /\ es[n] = Head(todo)
  <2>1. n \in 1..Len(accepted \o todo)
    BY <1>1, <1>3
  <2>2. (accepted \o todo)[n] = todo[n - Len(accepted)] /\ n - Len(accepted) = 1
    BY <1>1, <1>3, <2>1, ConcatProperties
  <2> QED
    BY <1>2, <1>3, <2>1, <2>2
<1>5. SubSeq(es, 1, n - 1) = accepted
  <2>1. n - 1 = Len(accepted)
    BY <1>1
  <2>2. SubSeq(accepted \o todo, 1, Len(accepted)) = accepted
    BY <1>1, <1>3
  <2> QED
    BY <1>2, <2>1, <2>2
<1>6. Offends(first, position)
  BY <1>2, <1>4, <1>5 DEF Offends, es
<1> QED
  BY <1>6 DEF Guilt, PositionsInv

LEMMA GuiltInit ==
    ASSUME Nothing \notin Int, ScorerInit
    PROVE  GuiltInv
<1>1. Nothing # -1
  OBVIOUS
<1> QED
  BY <1>1 DEF ScorerInit, GuiltInv, Accuses

LEMMA GuiltStep ==
    ASSUME Nothing \notin Publication
    PROVE  PositionsInv /\ JudgedInv /\ StoreInv /\ GuiltInv /\ [ScorerNext]_scorerVars
               => GuiltInv'
<1> SUFFICES ASSUME PositionsInv, JudgedInv, StoreInv, GuiltInv, [ScorerNext]_scorerVars
             PROVE  GuiltInv'
  OBVIOUS
<1> USE DEF kafka, validator, redis
<1>0. partition' = partition
  BY IdleKeeps, WritesKeep, ScorerSteps DEF PollMessage, AcceptEvent,
     Disqualify, MetricsDue, Restart
<1>1. Guilt' <=> Guilt
  BY <1>0, SamePartition
<1>2. CASE Idle
  BY <1>1, <1>2, IdleKeeps DEF GuiltInv, Accuses
<1>3. CASE Writes
  <2>1. report # Nothing
    BY <1>3, WritesKeep DEF StoreInv
  <2> QED
    BY <1>1, <1>3, <2>1 DEF Writes, Zadd, Hset, Publish, GuiltInv, Accuses
<1>4. CASE PollMessage
  BY <1>1, <1>4 DEF PollMessage, GuiltInv, Accuses
<1>5. CASE AcceptEvent
  BY <1>1, <1>5 DEF AcceptEvent, GuiltInv, Accuses
<1>6. CASE Disqualify
  <2>1. Guilt
    BY <1>6, ViolationIsGuilt DEF Disqualify
  <2> QED
    BY <1>1, <2>1 DEF GuiltInv
<1>7. CASE MetricsDue
  <2>1. /\ UNCHANGED <<correctness, ranking, meta, shown>>
        /\ report' = [score |-> samples', correctness |-> correctness,
                      total_events |-> Len(accepted)]
        /\ samples' \in 0..samples /\ samples \in Nat
    BY <1>7 DEF MetricsDue, Report, PositionsInv
  <2>2. samples' # -1
    BY <2>1
  <2> QED
    BY <1>1, <2>1, <2>2 DEF GuiltInv, Accuses
<1>8. CASE Restart
  BY <1>1, <1>8 DEF Restart, GuiltInv, Accuses
<1> QED
  BY <1>2, <1>3, <1>4, <1>5, <1>6, <1>7, <1>8, ScorerSteps

ScorerInv == PositionsInv /\ JudgedInv /\ StoreInv /\ GuiltInv

LEMMA ScorerInvHolds == ScorerSpec => []ScorerInv
<1>1. ScorerInit => ScorerInv
  BY PositionsInit, JudgedInit, StoreInit, GuiltInit, ScoringAssumption DEF ScorerInv
<1>2. ScorerInv /\ [ScorerNext]_scorerVars => ScorerInv'
  BY PositionsStep, JudgedStep, StoreStep, GuiltStep, ScoringAssumption DEF ScorerInv
<1> QED
  BY <1>1, <1>2, PTL DEF ScorerSpec

(* What a process has accepted, and what is left of the message in its      *)
(* hands, are the events from where it started to where it is, across any   *)
(* number of restarts: poll, the loop over unpack_trade_events and the      *)
(* committed position leave none out and take none twice.                   *)
THEOREM EventsAreJudgedInOrder == ScorerSpec => []JudgedInOrder
<1>1. ScorerInv => JudgedInOrder
  BY DEF ScorerInv, JudgedInv, JudgedInOrder
<1> QED
  BY <1>1, ScorerInvHolds, PTL

(* A score of -1 or a correctness other than PASSED, wherever a reader      *)
(* finds it, means that consecutive events of the partition hold a          *)
(* violation: disqualify is reached in no other way, whatever restarts.     *)
THEOREM InnocentStayUnpunished == ScorerSpec => []InnocentNeverPunished
<1>1. ScorerInv => InnocentNeverPunished
  BY DEF ScorerInv, GuiltInv, Guilt, Accuses, InnocentNeverPunished
<1> QED
  BY <1>1, ScorerInvHolds, PTL

(* Between publications the sorted set, the hash and the last message say   *)
(* the same, as long as none of the three commands of publish_metrics fails.*)
THEOREM PublicationsAgree == ScorerSpec => []StoresAgree
<1>1. ScorerInv => StoresAgree
  BY DEF ScorerInv, StoreInv, StoresAgree
<1> QED
  BY <1>1, ScorerInvHolds, PTL

(* Without a fault a score of -1 is the last the process publishes.        *)
SentenceInv ==
    /\ process = "up" /\ pc \in {"zadd", "hset", "publish"} /\ correctness = "PASSED"
         => report.score # -1
    /\ failures = 0 /\ ranking = -1
         => correctness # "PASSED" /\ pc \in {"hset", "publish", "close"} /\ process # "failed"

LEMMA SentenceInit ==
    ASSUME Nothing \notin Int, ScorerInit
    PROVE  SentenceInv
<1>1. Nothing # -1
  OBVIOUS
<1> QED
  BY <1>1 DEF ScorerInit, SentenceInv

LEMMA SentenceStep ==
    PositionsInv /\ SentenceInv /\ [ScorerNext]_scorerVars => SentenceInv'
<1> SUFFICES ASSUME PositionsInv, SentenceInv, [ScorerNext]_scorerVars PROVE SentenceInv'
  OBVIOUS
<1> USE DEF kafka, validator, redis
<1>0. failures \in Nat
  BY DEF PositionsInv
<1>1. CASE Idle
  <2>1. UNCHANGED <<report, ranking, correctness>>
    BY <1>1, IdleKeeps
  <2>2. \/ UNCHANGED <<process, pc, failures>>
        \/ /\ UNCHANGED <<process, failures>>
           /\ pc' \notin {"zadd", "hset", "publish"} /\ pc \notin {"hset", "publish", "close"}
        \/ /\ UNCHANGED <<pc, failures>> /\ pc \in {"close", "raise"}
           /\ process' = IF pc = "close" THEN "exited" ELSE "failed"
        \/ failures' = failures + 1 /\ (process' = "failed" \/ pc' = "raise")
    BY <1>1 DEF Idle, Leave, PollNothing, MessageDone,
         MetricsNotDue, Raise, CloseConsumer, Kill, Signal,
         AutoCommit, scorerVars
  <2>3. failures' = failures + 1 => failures' # 0
    BY <1>0
  <2> QED
    BY <2>1, <2>2, <2>3 DEF SentenceInv
<1>2. CASE Zadd
  BY <1>2 DEF Zadd, SentenceInv
<1>3. CASE Hset
  BY <1>3 DEF Hset, SentenceInv
<1>4. CASE Publish
  BY <1>4 DEF Publish, SentenceInv
<1>5. CASE PollMessage
  BY <1>5 DEF PollMessage, SentenceInv
<1>6. CASE AcceptEvent
  BY <1>6 DEF AcceptEvent, SentenceInv
<1>7. CASE Disqualify
  BY <1>7 DEF Disqualify, SentenceInv
<1>8. CASE MetricsDue
  <2>1. /\ process = "up" /\ pc = "due" /\ pc' = "zadd"
        /\ UNCHANGED <<process, correctness, ranking, failures>>
        /\ report'.score = samples' /\ samples' \in 0..samples /\ samples \in Nat
    BY <1>8 DEF MetricsDue, Report, PositionsInv
  <2>2. report'.score # -1
    BY <2>1
  <2> QED
    BY <2>1, <2>2 DEF SentenceInv
<1>9. CASE Restart
  BY <1>9 DEF Restart, SentenceInv
<1> QED
  BY <1>1, <1>2, <1>3, <1>4, <1>5, <1>6, <1>7, <1>8, <1>9, ScorerSteps DEF Writes

(* A published verdict stands when its process ended regularly, or nothing  *)
(* failed: exit code 0 keeps Docker from starting an engine that forgives.  *)
THEOREM RegularSentenceStands == ScorerSpec => SentenceStands
<1>1. ScorerInit => SentenceInv
  BY SentenceInit, ScoringAssumption
<1>2. SentenceInv /\ [ScorerNext]_scorerVars
        => [ranking = -1 /\ (failures = 0 \/ process = "exited") => ranking' = -1]_scorerVars
  <2> SUFFICES ASSUME SentenceInv, [ScorerNext]_scorerVars, ranking = -1,
                      failures = 0 \/ process = "exited"
               PROVE  ranking' = -1
    OBVIOUS
  <2>1. ~Zadd
    BY DEF SentenceInv, Zadd
  <2>2. CASE Idle
    BY <2>2, IdleKeeps
  <2>3. CASE Writes
    BY <2>1, <2>3 DEF Writes, Hset, Publish
  <2> QED
    BY <2>2, <2>3, ScorerSteps DEF redis, PollMessage, AcceptEvent,
       Disqualify, MetricsDue, Restart
<1>3. ScorerInv => PositionsInv
  BY DEF ScorerInv
<1> QED
  BY <1>1, <1>2, <1>3, SentenceStep, ScorerInvHolds, PTL
     DEF ScorerSpec, SentenceStands


-----------------------------------------------------------------------------
(* What feeds the ring: the gateway, for any number of connections, any    *)
(* scripts and any sizes of buffers and orders.                            *)

Stages == {"read", "handshake", "frames", "orders"}

(* An open connection with something to read has an event, or the thread   *)
(* is at it and will read on until there is nothing left.                  *)
EdgeInv ==
    /\ DOMAIN socket = Conns /\ DOMAIN gone = Conns /\ DOMAIN status = Conns
    /\ \A c \in Conns : status[c] = "open" /\ (socket[c] # << >> \/ gone[c])
                          => c \in ready \/ (fd = c /\ stage \in Stages)

(* A step within the handler leaves the connection to the thread.          *)
LEMMA HandlerKeepsEdges ==
    ASSUME EdgeInv, stage \in Stages, stage' \in Stages, UNCHANGED <<gone, ready, status, fd>>,
           DOMAIN socket' = Conns, \A c \in Conns : c # fd => socket'[c] = socket[c]
    PROVE  EdgeInv'
  BY DEF EdgeInv

LEMMA CloseKeepsEdges ==
    ASSUME EdgeInv, stage \in Stages, Close, UNCHANGED <<gone, socket, fd>>
    PROVE  EdgeInv'
<1>1. /\ status' = [status EXCEPT ![fd] = "closed"] /\ ready' = ready \ {fd}
      /\ "closed" # "open"
  BY DEF Close
<1>2. ASSUME NEW c \in Conns, status'[c] = "open", socket'[c] # << >> \/ gone'[c]
      PROVE  c \in ready'
  BY <1>1, <1>2 DEF EdgeInv
<1>3. DOMAIN status' = Conns
  BY <1>1 DEF EdgeInv
<1> QED
  BY <1>2, <1>3 DEF EdgeInv

(* A client only adds what it raises an event for.                         *)
LEMMA ClientKeepsEdges ==
    ASSUME EdgeInv, NEW c \in Conns,
           Arrive(c) \/ HangUp(c) \/ Reconnect(c)
    PROVE  EdgeInv'
<1>1. CASE Arrive(c) \/ HangUp(c)
  <2>1. /\ ready' = Raised(c) /\ UNCHANGED <<status, stage, fd>>
        /\ DOMAIN socket' = Conns /\ DOMAIN gone' = Conns
        /\ \A b \in Conns : b # c => socket'[b] = socket[b] /\ gone'[b] = gone[b]
    BY <1>1 DEF Arrive, HangUp, EdgeInv
  <2>2. ready \subseteq ready' /\ (status[c] = "open" => c \in ready')
    BY <2>1 DEF Raised
  <2> QED
    BY <2>1, <2>2 DEF EdgeInv
<1>2. CASE Reconnect(c)
  <2>1. /\ status' = [status EXCEPT ![c] = "backlog"] /\ "backlog" # "open"
        /\ UNCHANGED <<ready, stage, fd>>
        /\ gone' = [gone EXCEPT ![c] = FALSE] /\ socket' = [socket EXCEPT ![c] = << >>]
    BY <1>2 DEF Reconnect
  <2> QED
    BY <2>1 DEF EdgeInv
<1> QED
  BY <1>1, <1>2

LEMMA ServerKeepsEdges ==
    ASSUME EdgeInv, Server
    PROVE  EdgeInv'
<1>1. CASE LeaveLoop
  <2>1. stage = "wait" /\ stage \notin Stages /\ UNCHANGED <<gone, socket, ready, status, fd>>
    BY <1>1 DEF LeaveLoop, clientVars, Stages
  <2> QED
    BY <2>1 DEF EdgeInv
<1>2. ASSUME NEW c \in Conns, Accept(c)
      PROVE  EdgeInv'
  <2>1. /\ stage = "wait" /\ status' = [status EXCEPT ![c] = "open"] /\ UNCHANGED <<gone, socket, stage, fd>>
        /\ ready' = IF socket[c] # << >> \/ gone[c] THEN ready \cup {c} ELSE ready
    BY <1>2 DEF Accept, clientVars
  <2> QED
    BY <2>1 DEF EdgeInv
<1>3. ASSUME NEW c \in Conns, Wake(c)
      PROVE  EdgeInv'
  <2>1. /\ stage = "wait" /\ stage \notin Stages /\ stage' \in Stages /\ fd' = c /\ ready' = ready \ {c}
        /\ UNCHANGED <<gone, socket, status>>
    BY <1>3 DEF Wake, clientVars, Stages
  <2> QED
    BY <2>1 DEF EdgeInv
<1>4. CASE ReadSome
  <2>1. /\ stage \in Stages /\ stage' \in Stages /\ UNCHANGED <<gone, ready, status, fd>>
        /\ DOMAIN socket' = Conns /\ \A c \in Conns : c # fd => socket'[c] = socket[c]
    BY <1>4 DEF ReadSome, clientVars, Stages, EdgeInv
  <2> QED
    BY <2>1, HandlerKeepsEdges
<1>5. CASE ReadAgain
  <2>1. /\ socket[fd] = << >> /\ ~gone[fd] /\ UNCHANGED <<gone, socket, ready, status, fd>>
    BY <1>5 DEF ReadAgain, clientVars
  <2> QED
    BY <2>1 DEF EdgeInv
<1>6. CASE ReadEnd \/ NoKey \/ FrameCloses
  <2>1. stage \in Stages /\ Close /\ UNCHANGED <<gone, socket, fd>>
    BY <1>6 DEF ReadEnd, NoKey, FrameCloses, clientVars, Stages
  <2> QED
    BY <2>1, CloseKeepsEdges
<1>7. CASE \/ Unfinished \/ Upgrade \/ FrameIncomplete
           \/ FrameTaken \/ OrderRead \/ OrdersDone
  <2>1. stage \in Stages /\ stage' \in Stages /\ UNCHANGED <<gone, socket, ready, status, fd>>
    BY <1>7 DEF Unfinished, Upgrade, FrameIncomplete, FrameTaken,
          OrderRead, OrdersDone, clientVars, Stages
  <2> QED
    BY <2>1, HandlerKeepsEdges DEF EdgeInv
<1> QED
  BY <1>1, <1>2, <1>3, <1>4, <1>5, <1>6, <1>7 DEF Server

(* Edge-triggered events: whenever the thread waits in epoll_wait, every   *)
(* open connection with unread units or a closed peer has an event that is *)
(* still to be reported (run and handle_client_data in TCPServer.cpp).     *)
THEOREM EdgesAreNotMissed == ServerSpec => []NoMissedEdge
<1>1. ServerInit => EdgeInv
  <2>1. "backlog" # "open"
    OBVIOUS
  <2> QED
    BY <2>1 DEF ServerInit, EdgeInv
<1>2. EdgeInv /\ [ServerNext]_serverVars => EdgeInv'
  <2> SUFFICES ASSUME EdgeInv, [ServerNext]_serverVars PROVE EdgeInv'
    OBVIOUS
  <2>1. CASE Stop \/ UNCHANGED serverVars
    <3>1. UNCHANGED <<gone, socket, ready, status, stage, fd>>
      BY <2>1 DEF Stop, serverVars, clientVars
    <3> QED
      BY <3>1 DEF EdgeInv
  <2> QED
    BY <2>1, ServerKeepsEdges, ClientKeepsEdges DEF ServerNext
<1>3. EdgeInv => NoMissedEdge
  <2>1. "wait" \notin Stages
    BY DEF Stages
  <2> QED
    BY <2>1 DEF EdgeInv, NoMissedEdge
<1> QED
  BY <1>1, <1>2, <1>3, PTL DEF ServerSpec

-----------------------------------------------------------------------------
(* What the gateway reads, and what it makes of it.                        *)

(* What a client may send, and what the orders of a script are made of.    *)
Alphabet ==
    UNION {ToSet(s.request)
           \cup UNION {ToSet(FrameUnits(f)) \cup ToSet(f.payload) : f \in ToSet(s.frames)}
           : s \in Scripts}
Data(f) == IF f.op \in {"binary", "continuation"} THEN f.payload ELSE << >>
Said(s, i) == FlattenSeq([k \in 1..i |-> Data(s.frames[k])])

(* The first sequences of some, joined.                                    *)
Chained(a, n) == FlattenSeq([k \in 1..n |-> a[k]])

LEMMA ChainedNone == ASSUME NEW a PROVE Chained(a, 0) = << >>
<1>1. [k \in 1..0 |-> a[k]] = << >>
  OBVIOUS
<1> QED
  BY <1>1, FlattenEmpty DEF Chained

LEMMA ChainedNext ==
    ASSUME NEW T, NEW a, NEW n \in Nat, \A k \in 1..(n + 1) : a[k] \in Seq(T)
    PROVE  /\ Chained(a, n) \in Seq(T) /\ Chained(a, n + 1) \in Seq(T)
           /\ Chained(a, n + 1) = Chained(a, n) \o a[n + 1]
<1> DEFINE s == [k \in 1..n |-> a[k]]
           t == [k \in 1..(n + 1) |-> a[k]]
           Q == Seq(T)
           x == a[n + 1]
<1>1. s \in Seq(Q) /\ t \in Seq(Q) /\ x \in Q /\ Len(s) = n /\ Len(t) = n + 1
      /\ (\A k \in 1..n : s[k] = a[k]) /\ \A k \in 1..(n + 1) : t[k] = a[k]
  OBVIOUS
<1> HIDE DEF s, t, Q
<1>2. /\ Append(s, x) \in Seq(Q) /\ Len(Append(s, x)) = n + 1
      /\ Append(s, x)[n + 1] = x /\ \A k \in 1..n : Append(s, x)[k] = s[k]
  BY <1>1, AppendProperties
<1>3. \A k \in 1..(n + 1) : k = n + 1 \/ k \in 1..n
  OBVIOUS
<1>4. t = Append(s, x)
  BY <1>1, <1>2, <1>3, SeqEqual
<1>5. s \in Seq(Seq(T)) /\ t \in Seq(Seq(T)) /\ x \in Seq(T)
  BY <1>1 DEF Q
<1>6. FlattenSeq(s) \in Seq(T) /\ FlattenSeq(t) \in Seq(T)
  BY <1>5, FlattenType
<1>7. FlattenSeq(t) = FlattenSeq(s) \o x
  BY <1>4, <1>5, FlattenAppend
<1> QED
  BY <1>6, <1>7 DEF s, t, Chained

(* They are the beginning of more of them.                                 *)
LEMMA ChainedMore ==
    ASSUME NEW T, NEW a, NEW n \in Nat, \A k \in 1..n : a[k] \in Seq(T), NEW i \in 0..n
    PROVE  /\ Chained(a, i) \in Seq(T) /\ Chained(a, n) \in Seq(T)
           /\ Len(Chained(a, i)) \in Nat /\ Len(Chained(a, n)) \in Nat
           /\ Len(Chained(a, i)) <= Len(Chained(a, n))
           /\ \A j \in 1..Len(Chained(a, i)) : Chained(a, n)[j] = Chained(a, i)[j]
<1> DEFINE Begins(m) == /\ Chained(a, m) \in Seq(T)
                        /\ i <= m => /\ Len(Chained(a, i)) <= Len(Chained(a, m))
                                     /\ \A j \in 1..Len(Chained(a, i)) : Chained(a, m)[j] = Chained(a, i)[j]
           S == {m \in Nat : m <= n => Begins(m)}
<1>1. 0 \in S
  <2>1. Chained(a, 0) \in Seq(T)
    BY ChainedNone, EmptySeq
  <2>2. Len(Chained(a, 0)) \in Nat /\ (i <= 0 => i = 0)
    BY <2>1, LenProperties
  <2> QED
    BY <2>1, <2>2
<1>2. ASSUME NEW m \in Nat, m \in S PROVE m + 1 \in S
  <2> SUFFICES ASSUME m + 1 <= n PROVE Begins(m + 1)
    OBVIOUS
  <2>1. Begins(m)
    BY <1>2
  <2>2. /\ Chained(a, m) \in Seq(T) /\ Chained(a, m + 1) \in Seq(T)
        /\ Chained(a, m + 1) = Chained(a, m) \o a[m + 1] /\ a[m + 1] \in Seq(T)
    <3>1. (\A k \in 1..(m + 1) : a[k] \in Seq(T)) /\ m + 1 \in 1..n
      OBVIOUS
    <3> QED
      BY <3>1, ChainedNext
  <2> DEFINE s == Chained(a, m)
             t == Chained(a, m + 1)
             x == a[m + 1]
  <2>3. Len(s) \in Nat /\ Len(x) \in Nat /\ Len(t) = Len(s) + Len(x)
        /\ \A j \in 1..Len(s) : j \in 1..(Len(s) + Len(x)) /\ t[j] = s[j]
    <3> HIDE DEF s, t, x
    <3>1. /\ s \in Seq(T) /\ t \in Seq(T) /\ t = s \o x /\ x \in Seq(T)
      BY <2>2 DEF s, t, x
    <3>2. Len(s) \in Nat /\ Len(x) \in Nat
      BY <3>1, LenProperties
    <3> QED
      BY <3>1, <3>2, ConcatProperties
  <2>4. CASE i = m + 1
    <3>1. Len(t) \in Nat
      BY <2>3
    <3> QED
      BY <2>2, <2>4, <3>1
  <2>5. CASE i # m + 1
    <3>1. i <= m + 1 => i <= m
      BY <2>5
    <3> QED
      <4> DEFINE u == Chained(a, i)
      <4>1. i <= m => Len(u) <= Len(s) /\ \A j \in 1..Len(u) : s[j] = u[j]
        BY <2>1
      <4>2. i <= m => Len(u) \in Nat
        <5>0. i <= m => i = m \/ i + 1 <= n
          OBVIOUS
        <5>1. u \in Seq(T)
          <6>1. CASE i = 0
            BY <6>1, ChainedNone, EmptySeq
          <6>2. CASE i # 0
            <7>1. i - 1 \in Nat /\ (i - 1) + 1 = i /\ \A k \in 1..i : a[k] \in Seq(T)
              BY <6>2
            <7>2. Chained(a, (i - 1) + 1) \in Seq(T)
              BY <7>1, ChainedNext
            <7> QED
              BY <7>1, <7>2
          <6> QED
            BY <6>1, <6>2
        <5> QED
          BY <5>1, LenProperties
      <4> HIDE DEF s, t, u, x
      <4>3. i <= m => Len(u) <= Len(t) /\ \A j \in 1..Len(u) : t[j] = u[j]
        BY <2>3, <4>1, <4>2
      <4> QED
        BY <2>2, <3>1, <4>3 DEF t, u
  <2> QED
    BY <2>4, <2>5
<1>3. Nat \subseteq S
  <2> HIDE DEF S
  <2> QED
    BY <1>1, <1>2, InductionOverNat
<1>4. i \in S /\ n \in S
  BY <1>3
<1>5. Begins(i) /\ Begins(n)
  BY <1>4
<1> QED
  BY <1>5, LenProperties

(* Empty ones at the end add nothing.                                      *)
LEMMA ChainedEmpty ==
    ASSUME NEW T, NEW a, NEW n \in Nat, \A k \in 1..n : a[k] \in Seq(T), NEW i \in 0..n,
           \A k \in (i + 1)..n : a[k] = << >>
    PROVE  Chained(a, n) = Chained(a, i)
<1> DEFINE S == {m \in Nat : i <= m /\ m <= n => Chained(a, m) = Chained(a, i)}
<1>1. 0 \in S
  <2>1. i <= 0 => i = 0
    OBVIOUS
  <2> QED
    BY <2>1
<1>2. ASSUME NEW m \in Nat, m \in S PROVE m + 1 \in S
  <2> SUFFICES ASSUME i <= m + 1, m + 1 <= n PROVE Chained(a, m + 1) = Chained(a, i)
    OBVIOUS
  <2>1. CASE i = m + 1
    BY <2>1
  <2>2. CASE i # m + 1
    <3>1. (\A k \in 1..(m + 1) : a[k] \in Seq(T)) /\ a[m + 1] = << >> /\ i <= m /\ m <= n
      BY <2>2
    <3>2. Chained(a, m + 1) = Chained(a, m) \o << >> /\ Chained(a, m) \in Seq(T)
      BY <3>1, ChainedNext
    <3>3. Chained(a, m) = Chained(a, i)
      BY <1>2, <3>1
    <3> QED
      BY <3>2, <3>3, ConcatEmptySeq
  <2> QED
    BY <2>1, <2>2
<1>3. Nat \subseteq S
  <2> HIDE DEF S
  <2> QED
    BY <1>1, <1>2, InductionOverNat
<1> QED
  BY <1>3

LEMMA ConcatAt ==
    ASSUME NEW T, NEW s \in Seq(T), NEW t \in Seq(T)
    PROVE  /\ s \o t \in Seq(T) /\ Len(s) \in Nat /\ Len(t) \in Nat
           /\ Len(s \o t) = Len(s) + Len(t)
           /\ \A j \in 1..Len(s) : (s \o t)[j] = s[j]
           /\ \A j \in 1..Len(t) : (s \o t)[Len(s) + j] = t[j]
<1>1. /\ s \o t \in Seq(T) /\ Len(s) \in Nat /\ Len(t) \in Nat
      /\ Len(s \o t) = Len(s) + Len(t)
      /\ \A i \in 1..(Len(s) + Len(t)) : (s \o t)[i] = IF i <= Len(s) THEN s[i] ELSE t[i - Len(s)]
  BY ConcatProperties, LenProperties
<1>2. \A j \in 1..Len(s) : j \in 1..(Len(s) + Len(t)) /\ j <= Len(s)
  BY <1>1
<1>3. \A j \in 1..Len(t) : /\ Len(s) + j \in 1..(Len(s) + Len(t))
                           /\ ~(Len(s) + j <= Len(s)) /\ (Len(s) + j) - Len(s) = j
  BY <1>1
<1> QED
  BY <1>1, <1>2, <1>3

(* A frame: where its header ends and what a masked one holds after it.    *)
ShapeOf(f, u) ==
    /\ Len(u) \in Nat /\ Len(u) >= 2
    /\ u[1].op = f.op /\ u[2].masked = f.masked /\ u[2].wide = f.wide
    /\ u[2].len = Len(f.payload)
    /\ f.wide => Len(u) >= 3 /\ u[3].length = Len(f.payload)
    /\ f.masked =>
         LET h == IF f.wide THEN 4 ELSE 3
         IN  /\ Len(u) = h + Len(f.payload)
             /\ \A j \in 1..Len(f.payload) : u[h + j] = f.payload[j]

LEMMA FrameShape ==
    ASSUME NEW f, NEW T, f.payload \in Seq(T), f.masked \in BOOLEAN, f.wide \in BOOLEAN
    PROVE  /\ FrameUnits(f) \in Seq(ToSet(FrameUnits(f)))
           /\ ShapeOf(f, FrameUnits(f))
<1> DEFINE p == f.payload
           a == [op |-> f.op]
           b == [masked |-> f.masked, wide |-> f.wide, len |-> Len(p)]
           x == [length |-> Len(p)]
           y == [mask |-> TRUE]
           X == IF f.wide THEN <<x>> ELSE << >>
           Y == IF f.masked THEN <<y>> ELSE << >>
           U == ((<<a, b>> \o X) \o Y) \o p
           S == {a, b, x, y} \cup T
<1>1. U = FrameUnits(f)
  BY DEF FrameUnits
<1>2. /\ a.op = f.op /\ b.masked = f.masked /\ b.wide = f.wide /\ b.len = Len(p)
      /\ x.length = Len(p)
  OBVIOUS
<1>3. /\ a \in S /\ b \in S /\ x \in S /\ y \in S /\ T \subseteq S
  OBVIOUS
<1>4. f.payload \in Seq(T) /\ p = f.payload
  OBVIOUS
<1>5. X = IF f.wide THEN <<x>> ELSE << >>
  OBVIOUS
<1>6. Y = IF f.masked THEN <<y>> ELSE << >>
  OBVIOUS
<1>7. U = ((<<a, b>> \o X) \o Y) \o p
  OBVIOUS
<1> HIDE DEF a, b, x, y, X, Y, U, S, p
<1>8. p \in Seq(S) /\ Len(p) \in Nat
  BY <1>3, <1>4
<1>9. <<a, b>> \in Seq(S) /\ Len(<<a, b>>) = 2 /\ <<a, b>>[1] = a /\ <<a, b>>[2] = b
  BY <1>3
<1>10. X \in Seq(S) /\ Len(X) = (IF f.wide THEN 1 ELSE 0) /\ (f.wide => X[1] = x)
  <2>1. CASE f.wide
    <3>1. X = <<x>>
      BY <1>5, <2>1
    <3> QED
      BY <3>1, <2>1, <1>3
  <2>2. CASE ~f.wide
    <3>1. X = << >>
      BY <1>5, <2>2
    <3> QED
      BY <3>1, <2>2
  <2> QED
    BY <2>1, <2>2
<1>11. Y \in Seq(S) /\ Len(Y) = IF f.masked THEN 1 ELSE 0
  <2>1. CASE f.masked
    <3>1. Y = <<y>>
      BY <1>6, <2>1
    <3> QED
      BY <3>1, <2>1, <1>3
  <2>2. CASE ~f.masked
    <3>1. Y = << >>
      BY <1>6, <2>2
    <3> QED
      BY <3>1, <2>2
  <2> QED
    BY <2>1, <2>2
<1> DEFINE B == <<a, b>>
           V == B \o X
           W == V \o Y
<1>12. B \in Seq(S) /\ Len(B) = 2 /\ B[1] = a /\ B[2] = b
  BY <1>9
<1>13. U = W \o p
  BY <1>7
<1> HIDE DEF B
<1>14. V \in Seq(S) /\ Len(V) = 2 + Len(X) /\ V[1] = a /\ V[2] = b /\ (f.wide => V[3] = x)
  <2>1. /\ V \in Seq(S) /\ Len(V) = Len(B) + Len(X) /\ (\A j \in 1..Len(B) : V[j] = B[j])
        /\ \A j \in 1..Len(X) : V[Len(B) + j] = X[j]
    <3>1. B \in Seq(S) /\ X \in Seq(S)
      BY <1>10, <1>12
    <3> QED
      BY <3>1, ConcatAt
  <2> HIDE DEF V
  <2>2. 1 \in 1..Len(B) /\ 2 \in 1..Len(B) /\ (f.wide => 1 \in 1..Len(X) /\ Len(B) + 1 = 3)
    BY <1>10, <1>12
  <2> QED
    BY <2>1, <2>2, <1>10, <1>12
<1> HIDE DEF V
<1>15. /\ W \in Seq(S) /\ Len(W) = 2 + Len(X) + Len(Y) /\ W[1] = a /\ W[2] = b
       /\ (f.wide => W[3] = x)
  <2>1. /\ W \in Seq(S) /\ Len(W) = Len(V) + Len(Y) /\ (\A j \in 1..Len(V) : W[j] = V[j])
        /\ Len(Y) \in Nat
    BY <1>11, <1>14, ConcatAt
  <2> HIDE DEF W
  <2>2. 1 \in 1..Len(V) /\ 2 \in 1..Len(V) /\ (f.wide => 3 \in 1..Len(V))
    BY <1>10, <1>14
  <2> QED
    BY <2>1, <2>2, <1>10, <1>14
<1> HIDE DEF W
<1>20. /\ U \in Seq(S) /\ Len(U) = Len(W) + Len(p) /\ U[1] = a /\ U[2] = b
       /\ (f.wide => U[3] = x) /\ \A j \in 1..Len(p) : U[Len(W) + j] = p[j]
  <2>0. /\ W \o p \in Seq(S) /\ Len(W \o p) = Len(W) + Len(p)
        /\ (\A j \in 1..Len(W) : (W \o p)[j] = W[j])
        /\ \A j \in 1..Len(p) : (W \o p)[Len(W) + j] = p[j]
    <3>1. W \in Seq(S) /\ p \in Seq(S)
      BY <1>8, <1>15
    <3> QED
      BY <3>1, ConcatAt
  <2>1. /\ U \in Seq(S) /\ Len(U) = Len(W) + Len(p) /\ (\A j \in 1..Len(W) : U[j] = W[j])
        /\ \A j \in 1..Len(p) : U[Len(W) + j] = p[j]
    BY <1>13, <2>0
  <2>2. 1 \in 1..Len(W) /\ 2 \in 1..Len(W) /\ (f.wide => 3 \in 1..Len(W))
    BY <1>10, <1>11, <1>15
  <2> QED
    BY <2>1, <2>2, <1>15
<1>16. U \in Seq(ToSet(U))
  BY <1>20 DEF ToSet
<1>17. Len(U) >= 2 /\ (f.wide => Len(U) >= 3) /\ Len(U) \in Nat
  BY <1>8, <1>10, <1>11, <1>15, <1>20
<1>18. f.masked => Len(W) = IF f.wide THEN 4 ELSE 3
  BY <1>10, <1>11, <1>15
<1>19. f.masked => Len(U) = (IF f.wide THEN 4 ELSE 3) + Len(p)
                /\ \A j \in 1..Len(p) : U[(IF f.wide THEN 4 ELSE 3) + j] = p[j]
  BY <1>20, <1>18
<1>21. ShapeOf(f, U)
  <2>1. p = f.payload
    BY DEF p
  <2> HIDE DEF p
  <2> QED
    BY <1>2, <1>17, <1>19, <1>20, <2>1 DEF ShapeOf
<1> QED
  BY <1>1, <1>16, <1>21

LEMMA ScriptTypes ==
    ASSUME NEW s \in Scripts
    PROVE  /\ s.request \in Seq(Alphabet) /\ Len(s.request) \in Nat /\ Len(s.frames) \in Nat
           /\ DOMAIN s.request = 1..Len(s.request) /\ DOMAIN s.frames = 1..Len(s.frames)
           /\ \A k \in 1..Len(s.request) : s.request[k] = Blank => k = Len(s.request)
           /\ Blank \in ToSet(s.request) \/ Len(s.frames) = 0
           /\ \A k \in 1..Len(s.frames) :
                /\ s.frames[k].payload \in Seq(Alphabet)
                /\ s.frames[k].masked \in BOOLEAN /\ s.frames[k].wide \in BOOLEAN
                /\ FrameUnits(s.frames[k]) \in Seq(Alphabet)
                /\ Len(FrameUnits(s.frames[k])) \in Nat /\ Len(FrameUnits(s.frames[k])) >= 2
                /\ Data(s.frames[k]) \in Seq(Alphabet)
<1>1. ScriptOf(s.request, s.frames)
  BY ScriptsAssumption
<1> DEFINE r == s.request
           g == s.frames
<1>2. /\ r \in Seq(ToSet(r)) /\ g \in Seq(ToSet(g))
      /\ (\A i \in DOMAIN r : r[i] = Blank => i = Len(r))
      /\ (Blank \in ToSet(r) \/ g = << >>)
      /\ \A f \in ToSet(g) : /\ f.payload \in Seq(ToSet(f.payload))
                             /\ f.masked \in BOOLEAN /\ f.wide \in BOOLEAN
  BY <1>1 DEF ScriptOf
<1>3. /\ ToSet(r) \subseteq Alphabet
      /\ \A f \in ToSet(g) : ToSet(FrameUnits(f)) \subseteq Alphabet /\ ToSet(f.payload) \subseteq Alphabet
  BY DEF Alphabet
<1> HIDE DEF r, g
<1>4. /\ r \in Seq(Alphabet) /\ Len(r) \in Nat /\ Len(g) \in Nat
      /\ DOMAIN r = 1..Len(r) /\ DOMAIN g = 1..Len(g)
  BY <1>2, <1>3
<1>5. \A k \in 1..Len(g) : g[k] \in ToSet(g)
  BY <1>4 DEF ToSet
<1>6. g = << >> => Len(g) = 0
  OBVIOUS
<1>7. ASSUME NEW f, f \in ToSet(g)
      PROVE  /\ f.payload \in Seq(Alphabet) /\ f.masked \in BOOLEAN /\ f.wide \in BOOLEAN
             /\ FrameUnits(f) \in Seq(Alphabet)
             /\ Len(FrameUnits(f)) \in Nat /\ Len(FrameUnits(f)) >= 2
             /\ Data(f) \in Seq(Alphabet)
  <2>1. f.payload \in Seq(ToSet(f.payload)) /\ f.masked \in BOOLEAN /\ f.wide \in BOOLEAN
    BY <1>2, <1>7
  <2>2. /\ FrameUnits(f) \in Seq(ToSet(FrameUnits(f)))
        /\ Len(FrameUnits(f)) \in Nat /\ Len(FrameUnits(f)) >= 2
    BY <2>1, FrameShape DEF ShapeOf
  <2>3. ToSet(FrameUnits(f)) \subseteq Alphabet /\ ToSet(f.payload) \subseteq Alphabet
    BY <1>3, <1>7
  <2> DEFINE p == f.payload
             u == FrameUnits(f)
             P == ToSet(f.payload)
             Q == ToSet(FrameUnits(f))
  <2>4. p \in Seq(Alphabet) /\ u \in Seq(Alphabet)
    <3>1. p \in Seq(P) /\ u \in Seq(Q) /\ P \subseteq Alphabet /\ Q \subseteq Alphabet
      BY <2>1, <2>2, <2>3
    <3> HIDE DEF p, u, P, Q
    <3> QED
      BY <3>1
  <2>5. Data(f) = p \/ Data(f) = << >>
    BY DEF Data
  <2>6. << >> \in Seq(Alphabet)
    OBVIOUS
  <2>7. Data(f) \in Seq(Alphabet)
    BY <2>4, <2>5, <2>6
  <2> QED
    BY <2>1, <2>2, <2>4, <2>7
<1>8. (\A i \in 1..Len(r) : r[i] = Blank => i = Len(r)) /\ (Blank \in ToSet(r) \/ Len(g) = 0)
  BY <1>2, <1>4, <1>6
<1> QED
  BY <1>4, <1>5, <1>7, <1>8 DEF r, g

(* Where a frame of a script ends, and what is on the wire there.          *)
LEMMA EndIs ==
    ASSUME NEW s \in Scripts
    PROVE  /\ Wire(s) \in Seq(Alphabet) /\ Len(Wire(s)) \in Nat
           /\ \A i \in 0..Len(s.frames) : End(s, i) \in Nat
           /\ End(s, 0) = Len(s.request) /\ End(s, Len(s.frames)) = Len(Wire(s))
           /\ \A i \in 0..Len(s.frames), k \in 0..Len(s.frames) : i <= k => End(s, i) <= End(s, k)
           /\ \A j \in 1..Len(s.request) : Wire(s)[j] = s.request[j]
           /\ \A i \in 0..(Len(s.frames) - 1) :
                /\ End(s, i + 1) = End(s, i) + Len(FrameUnits(s.frames[i + 1]))
                /\ \A j \in 1..Len(FrameUnits(s.frames[i + 1])) :
                     Wire(s)[End(s, i) + j] = FrameUnits(s.frames[i + 1])[j]
<1> DEFINE N == Len(s.frames)
           a == [k \in 1..N |-> FrameUnits(s.frames[k])]
           r == s.request
           w == Chained(a, N)
<1>1. /\ r \in Seq(Alphabet) /\ Len(r) \in Nat /\ N \in Nat /\ DOMAIN s.frames = 1..N
      /\ \A k \in 1..N : a[k] \in Seq(Alphabet) /\ Len(a[k]) \in Nat
  BY ScriptTypes
<1>2. \A k \in 1..N : a[k] = FrameUnits(s.frames[k])
  OBVIOUS
<1>3. \A i \in 0..N : [k \in 1..i |-> FrameUnits(s.frames[k])] = [k \in 1..i |-> a[k]]
  BY <1>1
<1>4. \A i \in 0..N : End(s, i) = Len(r) + Len(Chained(a, i))
  BY <1>3 DEF End, Chained
<1>5. Wire(s) = r \o w
  <2>1. [i \in DOMAIN s.frames |-> FrameUnits(s.frames[i])] = [k \in 1..N |-> a[k]]
    BY <1>1
  <2> QED
    BY <2>1 DEF Wire, Chained
<1> HIDE DEF a, r, N
<1>6. ASSUME NEW n \in 0..N, NEW i \in 0..n
      PROVE  /\ Chained(a, i) \in Seq(Alphabet) /\ Chained(a, n) \in Seq(Alphabet)
             /\ Len(Chained(a, i)) \in Nat /\ Len(Chained(a, n)) \in Nat
             /\ Len(Chained(a, i)) <= Len(Chained(a, n))
             /\ \A j \in 1..Len(Chained(a, i)) : Chained(a, n)[j] = Chained(a, i)[j]
  <2>1. n \in Nat /\ \A k \in 1..n : a[k] \in Seq(Alphabet)
    BY <1>1
  <2> QED
    BY <2>1, ChainedMore
<1>7. w \in Seq(Alphabet) /\ Len(w) \in Nat
  BY <1>1, <1>6
<1>8. /\ r \o w \in Seq(Alphabet) /\ Len(r \o w) = Len(r) + Len(w)
      /\ \A j \in 1..Len(r) : (r \o w)[j] = r[j]
      /\ \A j \in 1..Len(w) : (r \o w)[Len(r) + j] = w[j]
  <2> HIDE DEF w
  <2> QED
    BY <1>1, <1>7, ConcatAt
<1>9. \A i \in 0..N : End(s, i) \in Nat
  BY <1>1, <1>4, <1>6
<1>10. End(s, 0) = Len(r)
  <2>1. Len(Chained(a, 0)) = 0
    BY ChainedNone
  <2> QED
    BY <1>1, <1>4, <2>1
<1>11. End(s, N) = Len(Wire(s)) /\ Len(Wire(s)) \in Nat
  BY <1>1, <1>4, <1>5, <1>7, <1>8
<1>12. \A i \in 0..N, k \in 0..N : i <= k => End(s, i) <= End(s, k)
  <2> SUFFICES ASSUME NEW i \in 0..N, NEW k \in 0..N, i <= k PROVE End(s, i) <= End(s, k)
    OBVIOUS
  <2>1. i \in 0..k
    BY <1>1
  <2>2. Len(Chained(a, i)) <= Len(Chained(a, k)) /\ Len(Chained(a, i)) \in Nat /\ Len(Chained(a, k)) \in Nat
    BY <2>1, <1>6
  <2> QED
    BY <1>1, <1>4, <2>2
<1>13. ASSUME NEW i \in 0..(N - 1)
       PROVE  /\ End(s, i + 1) = End(s, i) + Len(a[i + 1])
              /\ \A j \in 1..Len(a[i + 1]) : Wire(s)[End(s, i) + j] = a[i + 1][j]
  <2>1. i \in Nat /\ i \in 0..N /\ i + 1 \in 1..N /\ i + 1 \in 0..N /\ N \in 0..N
        /\ \A k \in 1..(i + 1) : a[k] \in Seq(Alphabet)
    BY <1>1
  <2> DEFINE u == Chained(a, i)
             v == Chained(a, i + 1)
             x == a[i + 1]
  <2>2. u \in Seq(Alphabet) /\ v = u \o x
    BY <2>1, ChainedNext
  <2>3. /\ Len(v) <= Len(w) /\ Len(v) \in Nat
        /\ \A j \in 1..Len(v) : w[j] = v[j]
    BY <2>1, <1>6
  <2>4. x \in Seq(Alphabet) /\ End(s, i) = Len(r) + Len(u) /\ End(s, i + 1) = Len(r) + Len(v)
    BY <1>4, <2>1
  <2> HIDE DEF u, v, x, w
  <2>5. /\ Len(u) \in Nat /\ Len(x) \in Nat
        /\ Len(u \o x) = Len(u) + Len(x)
        /\ \A j \in 1..Len(x) : (u \o x)[Len(u) + j] = x[j]
    BY <2>2, <2>4, ConcatAt
  <2>6. End(s, i + 1) = End(s, i) + Len(x)
    BY <1>1, <2>2, <2>4, <2>5
  <2>7. ASSUME NEW j \in 1..Len(x) PROVE Wire(s)[End(s, i) + j] = x[j]
    <3>1. Len(u) + j \in 1..Len(v) /\ Len(u) + j \in 1..Len(w)
      BY <1>7, <2>2, <2>3, <2>5
    <3>2. w[Len(u) + j] = x[j]
      BY <3>1, <2>2, <2>3, <2>5
    <3>3. (r \o w)[Len(r) + (Len(u) + j)] = w[Len(u) + j]
      BY <3>1, <1>8
    <3>4. Len(r) + (Len(u) + j) = End(s, i) + j
      BY <1>1, <2>4, <2>5
    <3> QED
      BY <1>5, <3>2, <3>3, <3>4
  <2> QED
    BY <2>6, <2>7 DEF x
<1>14. ASSUME NEW i \in 0..(N - 1)
       PROVE  /\ End(s, i + 1) = End(s, i) + Len(FrameUnits(s.frames[i + 1]))
              /\ \A j \in 1..Len(FrameUnits(s.frames[i + 1])) :
                   Wire(s)[End(s, i) + j] = FrameUnits(s.frames[i + 1])[j]
  <2>1. i + 1 \in 1..N
    BY <1>1
  <2>2. a[i + 1] = FrameUnits(s.frames[i + 1])
    BY <2>1, <1>2
  <2> QED
    BY <1>13, <2>2
<1> QED
  BY <1>5, <1>8, <1>9, <1>10, <1>11, <1>12, <1>14 DEF r, N

(* What the frames say, one after the other.                               *)
LEMMA SaidIs ==
    ASSUME NEW s \in Scripts
    PROVE  /\ Said(s, 0) = << >>
           /\ \A i \in 0..Len(s.frames) : Said(s, i) \in Seq(Alphabet) /\ Len(Said(s, i)) \in Nat
           /\ \A i \in 0..(Len(s.frames) - 1) :
                Said(s, i + 1) = Said(s, i) \o Data(s.frames[i + 1])
<1> DEFINE N == Len(s.frames)
           a == [k \in 1..N |-> Data(s.frames[k])]
<1>1. N \in Nat /\ \A k \in 1..N : a[k] \in Seq(Alphabet)
  BY ScriptTypes
<1>2. \A k \in 1..N : a[k] = Data(s.frames[k])
  OBVIOUS
<1>3. \A i \in 0..N : [k \in 1..i |-> Data(s.frames[k])] = [k \in 1..i |-> a[k]]
  BY <1>1
<1>4. \A i \in 0..N : Said(s, i) = Chained(a, i)
  BY <1>3 DEF Said, Chained
<1> HIDE DEF a, N
<1>5. Said(s, 0) = << >>
  BY <1>1, <1>4, ChainedNone
<1>6. ASSUME NEW i \in 0..N
      PROVE  Said(s, i) \in Seq(Alphabet) /\ Len(Said(s, i)) \in Nat
  <2>1. i \in Nat /\ i \in 0..i /\ \A k \in 1..i : a[k] \in Seq(Alphabet)
    BY <1>1
  <2>2. Chained(a, i) \in Seq(Alphabet)
    BY <2>1, ChainedMore
  <2> QED
    BY <1>4, <2>2, LenProperties
<1>7. ASSUME NEW i \in 0..(N - 1)
      PROVE  Said(s, i + 1) = Said(s, i) \o Data(s.frames[i + 1])
  <2>1. i \in Nat /\ i \in 0..N /\ i + 1 \in 0..N /\ i + 1 \in 1..N
        /\ \A k \in 1..(i + 1) : a[k] \in Seq(Alphabet)
    BY <1>1
  <2>2. Chained(a, i + 1) = Chained(a, i) \o a[i + 1]
    BY <2>1, ChainedNext
  <2> QED
    BY <1>2, <1>4, <2>1, <2>2
<1> QED
  BY <1>5, <1>6, <1>7 DEF N

(* Cut into pieces of a size, a text is cut into as many as fit.           *)
LEMMA DivIs ==
    ASSUME NEW x \in Nat, NEW d \in Nat \ {0}, NEW m \in Nat, m * d <= x, x - m * d < d
    PROVE  x \div d = m
<1> DEFINE q == x \div d
           r == x % d
<1>1. q \in Int /\ r \in 0..(d - 1) /\ x = d * q + r
  OBVIOUS
<1> HIDE DEF q, r
<1>2. d * q < d * m + d /\ d * m < d * q + d
  BY <1>1
<1>3. d * (q - m) < d /\ d * (m - q) < d
  BY <1>1, <1>2
<1>4. ASSUME NEW y \in Int, d * y < d PROVE y < 1
  <2> SUFFICES ASSUME y >= 1 PROVE d * y >= d
    BY <1>4
  <2>1. y - 1 \in Nat /\ d * y = d * (y - 1) + d
    OBVIOUS
  <2>2. d * (y - 1) >= 0
    BY <2>1
  <2> QED
    BY <2>1, <2>2
<1>5. q - m < 1 /\ m - q < 1
  BY <1>1, <1>3, <1>4
<1>6. q = m
  BY <1>1, <1>5
<1> QED
  BY <1>6 DEF q

(* The first orders of a text.                                             *)
Cut(orders, text, n) ==
    /\ n * MsgSize <= Len(text) /\ Len(orders) = n
    /\ \A k \in 1..n : orders[k] = SubSeq(text, (k - 1) * MsgSize + 1, k * MsgSize)

(* All of them, when what is left is shorter than an order.                *)
LEMMA CutIsAll ==
    ASSUME NEW s \in Scripts, NEW n \in Nat, NEW i \in 0..Len(s.frames), Taken(s, n) = 1..i,
           NEW T, NEW orders \in Seq(T), NEW m \in Nat, Cut(orders, Said(s, i), m),
           Len(Said(s, i)) - m * MsgSize < MsgSize
    PROVE  orders = OrdersIn(s, n)
<1> DEFINE N == Len(s.frames)
           text == Said(s, i)
           Taking(k) == IF k \in Taken(s, n) /\ s.frames[k].op \in {"binary", "continuation"}
                        THEN s.frames[k].payload ELSE << >>
           a == [k \in 1..N |-> Taking(k)]
           Pieces(t) == [k \in 1..(Len(t) \div MsgSize) |->
                            SubSeq(t, (k - 1) * MsgSize + 1, k * MsgSize)]
<1>1. /\ N \in Nat /\ DOMAIN s.frames = 1..N /\ text \in Seq(Alphabet) /\ Len(text) \in Nat
      /\ \A k \in 1..N : Data(s.frames[k]) \in Seq(Alphabet)
  BY ScriptTypes, SaidIs
<1>2. \A k \in 1..N : a[k] = IF k \in 1..i THEN Data(s.frames[k]) ELSE << >>
  BY DEF Data
<1>3. a = [k \in DOMAIN s.frames |-> Taking(k)]
  BY <1>1
<1>4. OrdersIn(s, n) = Pieces(FlattenSeq(a))
  BY <1>3 DEF OrdersIn
<1>5. FlattenSeq(a) = text
  <2>1. FlattenSeq(a) = Chained(a, N)
    <3>1. [k \in 1..N |-> a[k]] = a
      OBVIOUS
    <3> QED
      BY <3>1 DEF Chained
  <2> HIDE DEF a
  <2>2. << >> \in Seq(Alphabet)
    OBVIOUS
  <2>3. \A k \in 1..N : a[k] \in Seq(Alphabet)
    BY <1>1, <1>2, <2>2
  <2>4. \A k \in (i + 1)..N : a[k] = << >>
    BY <1>1, <1>2
  <2>5. Chained(a, N) = Chained(a, i)
    <3>1. N \in Nat /\ i \in 0..N
      BY <1>1
    <3> HIDE DEF N
    <3> QED
      BY <3>1, <2>3, <2>4, ChainedEmpty
  <2>6. [k \in 1..i |-> a[k]] = [k \in 1..i |-> Data(s.frames[k])]
    <3>1. \A k \in 1..i : a[k] = Data(s.frames[k])
      BY <1>1, <1>2
    <3> QED
      BY <3>1
  <2> QED
    BY <2>1, <2>5, <2>6 DEF Chained, Said
<1>6. Len(text) \div MsgSize = m
  <2>1. MsgSize \in Nat \ {0} /\ m * MsgSize <= Len(text)
    BY GatewayAssumption DEF Cut
  <2> HIDE DEF text
  <2>2. Len(text) - m * MsgSize < MsgSize
    BY DEF text
  <2> QED
    BY <1>1, <2>1, <2>2, DivIs
<1> HIDE DEF a, text, N
<1>7. Pieces(text) = [k \in 1..m |-> SubSeq(text, (k - 1) * MsgSize + 1, k * MsgSize)]
  BY <1>6
<1>8. orders = [k \in 1..m |-> orders[k]]
  <2>1. Len(orders) = m
    BY DEF Cut
  <2> QED
    BY <2>1
<1>9. \A k \in 1..m : orders[k] = SubSeq(text, (k - 1) * MsgSize + 1, k * MsgSize)
  BY DEF Cut, text
<1>10. orders = Pieces(text)
  BY <1>7, <1>8, <1>9
<1> QED
  BY <1>4, <1>5, <1>10

(* The frames that count: the complete ones that nothing refuses.          *)
LEMMA TakenIs ==
    ASSUME NEW s \in Scripts, NEW n \in Nat, NEW i \in 0..Len(s.frames),
           Key \in ToSet(s.request), \A k \in 1..i : Acceptable(s.frames[k]), End(s, i) <= n,
           i < Len(s.frames) => End(s, i + 1) > n \/ ~Acceptable(s.frames[i + 1])
    PROVE  Taken(s, n) = 1..i
<1> DEFINE N == Len(s.frames)
<1>1. /\ N \in Nat /\ DOMAIN s.frames = 1..N
      /\ (\A k \in 0..N : End(s, k) \in Nat)
      /\ \A j \in 0..N, k \in 0..N : j <= k => End(s, j) <= End(s, k)
  BY ScriptTypes, EndIs
<1>2. ASSUME NEW k \in 1..i PROVE k \in Taken(s, n)
  <2>1. k \in 1..N /\ k \in 0..N /\ i \in 0..N /\ k <= i
    BY <1>1
  <2>2. End(s, k) <= n
    BY <1>1, <2>1
  <2>3. \A j \in 1..k : j \in 1..i
    OBVIOUS
  <2> QED
    BY <1>1, <2>1, <2>2, <2>3 DEF Taken
<1>3. ASSUME NEW k \in Taken(s, n) PROVE k \in 1..i
  <2>1. k \in 1..N /\ End(s, k) <= n /\ \A j \in 1..k : Acceptable(s.frames[j])
    BY <1>1 DEF Taken
  <2> SUFFICES ASSUME k > i PROVE FALSE
    BY <2>1
  <2>2. i < N /\ i + 1 \in 1..k /\ i + 1 \in 0..N /\ k \in 0..N /\ i + 1 <= k
    BY <1>1, <2>1
  <2>3. End(s, i + 1) <= n
    BY <1>1, <2>1, <2>2
  <2>4. ~(End(s, i + 1) > n)
    BY <1>1, <2>2, <2>3
  <2> QED
    BY <2>1, <2>2, <2>4
<1> QED
  BY <1>2, <1>3

(* Before the request is over, or without the key, no order counts.        *)
LEMMA NoneIn ==
    ASSUME NEW s \in Scripts, NEW n \in Nat,
           n < Len(s.request) \/ Len(s.frames) = 0 \/ Key \notin ToSet(s.request)
    PROVE  OrdersIn(s, n) = << >>
<1> DEFINE N == Len(s.frames)
<1>1. /\ N \in Nat /\ DOMAIN s.frames = 1..N /\ Len(s.request) \in Nat
      /\ (\A k \in 0..N : End(s, k) \in Nat) /\ End(s, 0) = Len(s.request)
      /\ \A j \in 0..N, k \in 0..N : j <= k => End(s, j) <= End(s, k)
  BY ScriptTypes, EndIs
<1>2. ASSUME NEW k \in Taken(s, n) PROVE FALSE
  <2>1. k \in 1..N /\ End(s, k) <= n /\ Key \in ToSet(s.request)
    BY <1>1 DEF Taken
  <2>2. 0 \in 0..N /\ k \in 0..N /\ 0 <= k
    BY <1>1, <2>1
  <2>3. Len(s.request) <= End(s, k) /\ End(s, k) \in Nat
    BY <1>1, <2>2
  <2> QED
    BY <1>1, <2>1, <2>3
<1>3. Taken(s, n) = 1..0
  BY <1>2
<1>4. Said(s, 0) = << >> /\ Len(Said(s, 0)) = 0 /\ 0 \in 0..Len(s.frames)
  BY <1>1, SaidIs
<1>5. MsgSize \in Nat \ {0}
  BY GatewayAssumption
<1>6. << >> \in Seq(Alphabet) /\ 0 * MsgSize = 0 /\ Len(<< >>) = 0
  BY <1>5
<1>7. Cut(<< >>, Said(s, 0), 0)
  BY <1>4, <1>6 DEF Cut
<1>8. Len(Said(s, 0)) - 0 * MsgSize < MsgSize
  BY <1>4, <1>5
<1> QED
  BY <1>3, <1>4, <1>6, <1>7, <1>8, CutIsAll

(* What a buffer holds beyond a position is a part of a text.              *)
Holds(buf, ptr, text, from, to) ==
    /\ ptr \in 0..Len(buf) /\ from \in 0..Len(text) /\ to \in from..Len(text)
    /\ Len(buf) - ptr = to - from
    /\ \A j \in 1..(to - from) : buf[ptr + j] = text[from + j]

LEMMA HoldsNone ==
    ASSUME NEW text, Len(text) \in Nat, NEW from \in 0..Len(text)
    PROVE  Holds(<< >>, 0, text, from, from)
<1>1. Len(<< >>) = 0
  OBVIOUS
<1> QED
  BY <1>1 DEF Holds

(* Some of what comes next moves to the end of the buffer.                 *)
LEMMA HoldsMore ==
    ASSUME NEW T, NEW buf \in Seq(T), NEW more \in Seq(T), NEW text \in Seq(T),
           NEW ptr, NEW from, NEW to, NEW last, Holds(buf, ptr, text, from, to),
           Holds(more, 0, text, to, last), NEW n \in 0..Len(more)
    PROVE  /\ buf \o SubSeq(more, 1, n) \in Seq(T)
           /\ SubSeq(more, n + 1, Len(more)) \in Seq(T)
           /\ Holds(buf \o SubSeq(more, 1, n), ptr, text, from, to + n)
           /\ Holds(SubSeq(more, n + 1, Len(more)), 0, text, to + n, last)
<1> DEFINE u == SubSeq(more, 1, n)
           v == SubSeq(more, n + 1, Len(more))
           w == buf \o u
<1>1. /\ Len(buf) \in Nat /\ Len(more) \in Nat /\ Len(text) \in Nat /\ n \in Nat
      /\ DOMAIN more = 1..Len(more) /\ \A j \in 1..Len(more) : more[j] \in T
  OBVIOUS
<1>2. /\ u \in Seq(T) /\ Len(u) = n /\ \A j \in 1..n : u[j] = more[j]
  <2>1. \A j \in 1..n : more[j] \in T
    BY <1>1
  <2>2. /\ u \in Seq(T) /\ Len(u) = (IF 1 <= n THEN n - 1 + 1 ELSE 0)
        /\ \A j \in 1..(n - 1 + 1) : u[j] = more[1 + j - 1]
    BY <1>1, <2>1, SubSeqProperties
  <2> QED
    BY <1>1, <2>2
<1>3. /\ v \in Seq(T) /\ Len(v) = Len(more) - n /\ \A j \in 1..(Len(more) - n) : v[j] = more[n + j]
  <2>1. \A j \in (n + 1)..Len(more) : more[j] \in T
    BY <1>1
  <2>2. /\ v \in Seq(T)
        /\ Len(v) = (IF n + 1 <= Len(more) THEN Len(more) - (n + 1) + 1 ELSE 0)
        /\ \A j \in 1..(Len(more) - (n + 1) + 1) : v[j] = more[(n + 1) + j - 1]
    BY <1>1, <2>1, SubSeqProperties
  <2> DEFINE l == Len(more)
  <2>3. l \in Nat /\ n \in 0..l
    BY <1>1
  <2>4. /\ v \in Seq(T) /\ Len(v) = (IF n + 1 <= l THEN l - (n + 1) + 1 ELSE 0)
        /\ \A j \in 1..(l - (n + 1) + 1) : v[j] = more[(n + 1) + j - 1]
    BY <2>2
  <2> HIDE DEF l, v
  <2>5. (IF n + 1 <= l THEN l - (n + 1) + 1 ELSE 0) = l - n /\ l - (n + 1) + 1 = l - n
        /\ \A j \in 1..(l - n) : (n + 1) + j - 1 = n + j
    BY <2>3
  <2>6. v \in Seq(T) /\ Len(v) = l - n /\ \A j \in 1..(l - n) : v[j] = more[n + j]
    BY <2>4, <2>5
  <2> QED
    BY <2>6 DEF l
<1> HIDE DEF u, v
<1>4. /\ w \in Seq(T) /\ Len(w) = Len(buf) + n /\ (\A j \in 1..Len(buf) : w[j] = buf[j])
      /\ \A j \in 1..n : w[Len(buf) + j] = u[j]
  <2>1. buf \in Seq(T) /\ u \in Seq(T)
    BY <1>2
  <2>2. /\ w \in Seq(T) /\ Len(w) = Len(buf) + Len(u) /\ (\A j \in 1..Len(buf) : w[j] = buf[j])
        /\ \A j \in 1..Len(u) : w[Len(buf) + j] = u[j]
    BY <2>1, ConcatAt
  <2> QED
    BY <1>2, <2>2
<1> HIDE DEF w
<1>5. /\ ptr \in 0..Len(buf) /\ from \in 0..Len(text) /\ to \in from..Len(text)
      /\ Len(buf) - ptr = to - from /\ (\A j \in 1..(to - from) : buf[ptr + j] = text[from + j])
  BY DEF Holds
<1>6. /\ last \in to..Len(text) /\ Len(more) = last - to
      /\ \A j \in 1..(last - to) : more[j] = text[to + j]
  BY <1>1 DEF Holds
<1> DEFINE b == Len(buf)
           l == Len(more)
           t == Len(text)
<1>7. /\ b \in Nat /\ l \in Nat /\ t \in Nat /\ n \in 0..l /\ ptr \in 0..b /\ from \in 0..t
      /\ to \in from..t /\ b - ptr = to - from /\ last \in to..t /\ l = last - to
  BY <1>1, <1>5, <1>6
<1>8. /\ (\A j \in 1..b : w[j] = buf[j]) /\ (\A j \in 1..n : w[b + j] = u[j])
      /\ Len(w) = b + n /\ Len(v) = l - n
      /\ (\A j \in 1..n : u[j] = more[j]) /\ (\A j \in 1..(l - n) : v[j] = more[n + j])
  BY <1>2, <1>3, <1>4
<1> HIDE DEF b, l, t
<1>9. Holds(w, ptr, text, from, to + n)
  <2>1. /\ ptr \in 0..(b + n) /\ to + n \in from..t /\ (b + n) - ptr = (to + n) - from
    BY <1>7
  <2>2. ASSUME NEW j \in 1..((to + n) - from) PROVE w[ptr + j] = text[from + j]
    <3>1. CASE j <= to - from
      <4>1. j \in 1..(to - from) /\ ptr + j \in 1..b
        BY <1>7, <3>1
      <4> QED
        BY <4>1, <1>5, <1>8
    <3>2. CASE j > to - from
      <4> DEFINE k == j - (to - from)
      <4>1. k \in 1..n /\ k \in 1..(last - to) /\ ptr + j = b + k /\ to + k = from + j
        BY <1>7, <3>2
      <4> HIDE DEF k
      <4> QED
        BY <4>1, <1>6, <1>8
    <3>3. j <= to - from \/ j > to - from
      BY <1>7
    <3> QED
      BY <3>1, <3>2, <3>3
  <2> QED
    BY <1>5, <1>8, <2>1, <2>2 DEF Holds, t
<1>10. Holds(v, 0, text, to + n, last)
  <2>1. /\ 0 \in 0..(l - n) /\ to + n \in 0..t /\ last \in (to + n)..t
        /\ (l - n) - 0 = last - (to + n)
    BY <1>7
  <2>2. ASSUME NEW j \in 1..(last - (to + n)) PROVE v[0 + j] = text[(to + n) + j]
    <3>1. j \in 1..(l - n) /\ n + j \in 1..(last - to) /\ to + (n + j) = (to + n) + j
          /\ 0 + j = j
      BY <1>7
    <3> QED
      BY <3>1, <1>6, <1>8
  <2> QED
    BY <1>8, <2>1, <2>2 DEF Holds, t
<1> QED
  BY <1>3, <1>4, <1>9, <1>10 DEF u, v, w, l

(* The text goes on, and so does the buffer.                               *)
LEMMA HoldsText ==
    ASSUME NEW T, NEW buf \in Seq(T), NEW text \in Seq(T), NEW more \in Seq(T),
           NEW ptr, NEW from, Holds(buf, ptr, text, from, Len(text))
    PROVE  Holds(buf \o more, ptr, text \o more, from, Len(text \o more))
<1> DEFINE w == buf \o more
           t == text \o more
<1>1. /\ Len(buf) \in Nat /\ Len(more) \in Nat /\ Len(w) = Len(buf) + Len(more)
      /\ (\A j \in 1..Len(buf) : w[j] = buf[j])
      /\ \A j \in 1..Len(more) : w[Len(buf) + j] = more[j]
  BY ConcatAt
<1>2. /\ Len(text) \in Nat /\ Len(t) = Len(text) + Len(more)
      /\ (\A j \in 1..Len(text) : t[j] = text[j])
      /\ \A j \in 1..Len(more) : t[Len(text) + j] = more[j]
  BY ConcatAt
<1> HIDE DEF w, t
<1>3. /\ ptr \in 0..Len(buf) /\ from \in 0..Len(text) /\ Len(buf) - ptr = Len(text) - from
      /\ (\A j \in 1..(Len(text) - from) : buf[ptr + j] = text[from + j])
  BY DEF Holds
<1> DEFINE b == Len(buf)
           l == Len(more)
           z == Len(text)
<1>4. /\ b \in Nat /\ l \in Nat /\ z \in Nat /\ ptr \in 0..b /\ from \in 0..z
      /\ b - ptr = z - from /\ Len(w) = b + l /\ Len(t) = z + l
      /\ (\A j \in 1..b : w[j] = buf[j]) /\ (\A j \in 1..l : w[b + j] = more[j])
      /\ (\A j \in 1..z : t[j] = text[j]) /\ (\A j \in 1..l : t[z + j] = more[j])
      /\ (\A j \in 1..(z - from) : buf[ptr + j] = text[from + j])
  BY <1>1, <1>2, <1>3
<1> HIDE DEF b, l, z
<1>5. /\ ptr \in 0..(b + l) /\ from \in 0..(z + l) /\ z + l \in from..(z + l)
      /\ (b + l) - ptr = (z + l) - from
  BY <1>4
<1>6. ASSUME NEW j \in 1..((z + l) - from) PROVE w[ptr + j] = t[from + j]
  <2>1. CASE j <= z - from
    <3>1. j \in 1..(z - from) /\ ptr + j \in 1..b /\ from + j \in 1..z
      BY <1>4, <2>1
    <3> QED
      BY <3>1, <1>4
  <2>2. CASE j > z - from
    <3> DEFINE k == j - (z - from)
    <3>1. k \in 1..l /\ ptr + j = b + k /\ from + j = z + k
      BY <1>4, <2>2
    <3> HIDE DEF k
    <3> QED
      BY <3>1, <1>4
  <2>3. j <= z - from \/ j > z - from
    BY <1>4
  <2> QED
    BY <2>1, <2>2, <2>3
<1>7. Holds(w, ptr, t, from, Len(t))
  BY <1>4, <1>5, <1>6 DEF Holds
<1> QED
  BY <1>7 DEF w, t

(* Some of it is used.                                                     *)
LEMMA HoldsLess ==
    ASSUME NEW buf, Len(buf) \in Nat, NEW text, Len(text) \in Nat,
           NEW ptr, NEW from, NEW to, Holds(buf, ptr, text, from, to), NEW n \in 0..(to - from)
    PROVE  Holds(buf, ptr + n, text, from + n, to)
<1>1. /\ ptr \in 0..Len(buf) /\ from \in 0..Len(text) /\ to \in from..Len(text)
      /\ Len(buf) - ptr = to - from /\ (\A j \in 1..(to - from) : buf[ptr + j] = text[from + j])
  BY DEF Holds
<1>2. /\ ptr + n \in 0..Len(buf) /\ from + n \in 0..Len(text) /\ to \in (from + n)..Len(text)
      /\ Len(buf) - (ptr + n) = to - (from + n)
  BY <1>1
<1>3. \A j \in 1..(to - (from + n)) :
         /\ n + j \in 1..(to - from) /\ (ptr + n) + j = ptr + (n + j)
         /\ (from + n) + j = from + (n + j)
  BY <1>1
<1>4. \A j \in 1..(to - (from + n)) : buf[(ptr + n) + j] = text[(from + n) + j]
  BY <1>1, <1>3
<1> QED
  BY <1>2, <1>4 DEF Holds

(* A piece of what it holds is a piece of the text.                        *)
PieceAt(T, buf, ptr, text, from, m, n) ==
    /\ SubSeq(buf, ptr + m + 1, ptr + m + n) = SubSeq(text, from + m + 1, from + m + n)
    /\ SubSeq(buf, ptr + m + 1, ptr + m + n) \in Seq(T)
    /\ Len(SubSeq(buf, ptr + m + 1, ptr + m + n)) = n
    /\ \A j \in 1..n : SubSeq(buf, ptr + m + 1, ptr + m + n)[j] = text[from + m + j]

LEMMA HoldsPiece ==
    ASSUME NEW T, NEW buf \in Seq(T), NEW text \in Seq(T),
           NEW ptr, NEW from, NEW to, Holds(buf, ptr, text, from, to),
           NEW m \in Nat, NEW n \in Nat, m + n <= to - from
    PROVE  PieceAt(T, buf, ptr, text, from, m, n)
<1> DEFINE u == SubSeq(buf, ptr + m + 1, ptr + m + n)
           v == SubSeq(text, from + m + 1, from + m + n)
<1>1. /\ Len(buf) \in Nat /\ Len(text) \in Nat
      /\ (\A j \in 1..Len(buf) : buf[j] \in T) /\ \A j \in 1..Len(text) : text[j] \in T
  OBVIOUS
<1>2. /\ ptr \in 0..Len(buf) /\ from \in 0..Len(text) /\ to \in from..Len(text)
      /\ Len(buf) - ptr = to - from /\ (\A j \in 1..(to - from) : buf[ptr + j] = text[from + j])
  BY DEF Holds
<1>3. u \in Seq(T) /\ Len(u) = n /\ \A j \in 1..n : u[j] = buf[ptr + (m + j)]
  <2>1. /\ \A j \in (ptr + m + 1)..(ptr + m + n) : buf[j] \in T
        /\ ptr + m + 1 \in Int /\ ptr + m + n \in Int
    BY <1>1, <1>2
  <2>2. /\ u \in Seq(T)
        /\ Len(u) = (IF ptr + m + 1 <= ptr + m + n THEN (ptr + m + n) - (ptr + m + 1) + 1 ELSE 0)
        /\ \A j \in 1..((ptr + m + n) - (ptr + m + 1) + 1) : u[j] = buf[(ptr + m + 1) + j - 1]
    BY <2>1, SubSeqProperties
  <2>3. /\ (ptr + m + n) - (ptr + m + 1) + 1 = n
        /\ \A j \in 1..n : (ptr + m + 1) + j - 1 = ptr + (m + j)
    BY <1>1, <1>2
  <2> HIDE DEF u
  <2> QED
    BY <1>1, <1>2, <2>2, <2>3
<1>4. v \in Seq(T) /\ Len(v) = n /\ \A j \in 1..n : v[j] = text[from + (m + j)]
  <2>1. /\ \A j \in (from + m + 1)..(from + m + n) : text[j] \in T
        /\ from + m + 1 \in Int /\ from + m + n \in Int
    BY <1>1, <1>2
  <2>2. /\ v \in Seq(T)
        /\ Len(v) = (IF from + m + 1 <= from + m + n THEN (from + m + n) - (from + m + 1) + 1 ELSE 0)
        /\ \A j \in 1..((from + m + n) - (from + m + 1) + 1) : v[j] = text[(from + m + 1) + j - 1]
    BY <2>1, SubSeqProperties
  <2>3. /\ (from + m + n) - (from + m + 1) + 1 = n
        /\ \A j \in 1..n : (from + m + 1) + j - 1 = from + (m + j)
    BY <1>1, <1>2
  <2> HIDE DEF v
  <2> QED
    BY <1>1, <1>2, <2>2, <2>3
<1> HIDE DEF u, v
<1>5. \A j \in 1..n : m + j \in 1..(to - from)
  BY <1>2
<1>6. \A j \in 1..n : u[j] = v[j]
  BY <1>2, <1>3, <1>4, <1>5
<1>7. u = v
  BY <1>3, <1>4, <1>6, SeqEqual
<1>8. \A j \in 1..n : from + (m + j) = from + m + j
  BY <1>2
<1>9. \A j \in 1..n : u[j] = text[from + m + j]
  BY <1>4, <1>6, <1>8
<1> QED
  BY <1>3, <1>7, <1>9 DEF u, v, PieceAt

(* Compaction does not change what it holds.                               *)
LEMMA HoldsCompacted ==
    ASSUME NEW T, NEW buf \in Seq(T), NEW text \in Seq(T),
           NEW ptr, NEW from, NEW to, Holds(buf, ptr, text, from, to)
    PROVE  /\ Compacted(buf, ptr) \in Seq(T) /\ Rewound(ptr) \in Nat
           /\ Holds(Compacted(buf, ptr), Rewound(ptr), text, from, to)
<1>1. /\ ptr \in 0..Len(buf) /\ from \in 0..Len(text) /\ to \in from..Len(text)
      /\ Len(buf) - ptr = to - from /\ (\A j \in 1..(to - from) : buf[ptr + j] = text[from + j])
      /\ Len(buf) \in Nat /\ Len(text) \in Nat
  BY LenProperties DEF Holds
<1>2. CASE ptr > CompactAt
  <2>1. /\ SubSeq(buf, ptr + 0 + 1, ptr + 0 + (to - from)) \in Seq(T)
        /\ Len(SubSeq(buf, ptr + 0 + 1, ptr + 0 + (to - from))) = to - from
        /\ \A j \in 1..(to - from) :
              SubSeq(buf, ptr + 0 + 1, ptr + 0 + (to - from))[j] = text[from + 0 + j]
    <3>1. 0 \in Nat /\ to - from \in Nat /\ 0 + (to - from) <= to - from
      BY <1>1
    <3> DEFINE d == to - from
    <3>2. PieceAt(T, buf, ptr, text, from, 0, d)
      <4> HIDE DEF d
      <4>1. 0 \in Nat /\ d \in Nat /\ 0 + d <= to - from
        BY <3>1 DEF d
      <4> QED
        BY <4>1, HoldsPiece
    <3> HIDE DEF d
    <3>3. /\ SubSeq(buf, ptr + 0 + 1, ptr + 0 + d) \in Seq(T)
          /\ Len(SubSeq(buf, ptr + 0 + 1, ptr + 0 + d)) = d
          /\ \A j \in 1..d : SubSeq(buf, ptr + 0 + 1, ptr + 0 + d)[j] = text[from + 0 + j]
      BY <3>2 DEF PieceAt
    <3> QED
      BY <3>3 DEF d
  <2>2. /\ ptr + 0 + 1 = ptr + 1 /\ ptr + 0 + (to - from) = Len(buf) /\ from + 0 = from
    BY <1>1
  <2> DEFINE u == SubSeq(buf, ptr + 1, Len(buf))
  <2>3. /\ u \in Seq(T) /\ Len(u) = to - from /\ \A j \in 1..(to - from) : u[j] = text[from + j]
    BY <2>1, <2>2
  <2>4. Compacted(buf, ptr) = u /\ Rewound(ptr) = 0
    BY <1>2 DEF Compacted, Rewound
  <2> HIDE DEF u
  <2>5. Holds(u, 0, text, from, to)
    <3>1. \A j \in 1..(to - from) : 0 + j = j
      BY <1>1
    <3>2. \A j \in 1..(to - from) : u[0 + j] = text[from + j]
      BY <2>3, <3>1
    <3>3. 0 \in 0..Len(u) /\ Len(u) - 0 = to - from
      BY <1>1, <2>3
    <3> QED
      BY <1>1, <3>2, <3>3 DEF Holds
  <2> QED
    BY <2>3, <2>4, <2>5
<1>3. CASE ~(ptr > CompactAt)
  BY <1>1, <1>3 DEF Compacted, Rewound
<1> QED
  BY <1>2, <1>3

LEMMA AppendAt ==
    ASSUME NEW T, NEW s \in Seq(T), NEW x \in T
    PROVE  /\ Len(Append(s, x)) = Len(s) + 1 /\ Append(s, x)[Len(s) + 1] = x
           /\ \A k \in 1..Len(s) : Append(s, x)[k] = s[k]
BY AppendProperties

(* One more order is cut, or the text goes on.                             *)
LEMMA CutMore ==
    ASSUME NEW T, NEW text, NEW orders \in Seq(T), NEW order \in T, NEW n \in Nat,
           Cut(orders, text, n), Len(text) \in Nat, Len(text) - n * MsgSize >= MsgSize,
           order = SubSeq(text, n * MsgSize + 1, n * MsgSize + MsgSize)
    PROVE  Cut(Append(orders, order), text, n + 1)
<1> DEFINE more == Append(orders, order)
<1>1. MsgSize \in Nat /\ n * MsgSize \in Nat /\ (n + 1) * MsgSize = n * MsgSize + MsgSize
  BY GatewayAssumption
<1>2. /\ Len(more) = Len(orders) + 1 /\ (\A k \in 1..Len(orders) : more[k] = orders[k])
      /\ more[Len(orders) + 1] = order
  BY AppendAt
<1>3. /\ Len(orders) = n
      /\ \A k \in 1..n : orders[k] = SubSeq(text, (k - 1) * MsgSize + 1, k * MsgSize)
  BY DEF Cut
<1> HIDE DEF more
<1>4. (n + 1) * MsgSize <= Len(text) /\ Len(more) = n + 1
  BY <1>1, <1>2, <1>3
<1>5. (n + 1) - 1 = n /\ order = SubSeq(text, ((n + 1) - 1) * MsgSize + 1, (n + 1) * MsgSize)
  BY <1>1
<1>6. \A k \in 1..(n + 1) : more[k] = SubSeq(text, (k - 1) * MsgSize + 1, k * MsgSize)
  <2> TAKE k \in 1..(n + 1)
  <2>1. CASE k = n + 1
    BY <1>2, <1>3, <1>5, <2>1
  <2>2. CASE k # n + 1
    <3>1. k \in 1..n
      BY <2>2
    <3> QED
      BY <1>2, <1>3, <3>1
  <2> QED
    BY <2>1, <2>2
<1> QED
  BY <1>4, <1>6 DEF Cut, more

LEMMA CutKept ==
    ASSUME NEW T, NEW text \in Seq(T), NEW more \in Seq(T), NEW orders, NEW n \in Nat,
           Cut(orders, text, n)
    PROVE  Cut(orders, text \o more, n)
<1> DEFINE t == text \o more
           M == MsgSize
<1>1. /\ Len(text) \in Nat /\ Len(more) \in Nat /\ t \in Seq(T) /\ Len(t) = Len(text) + Len(more)
      /\ \A j \in 1..Len(text) : t[j] = text[j]
  BY ConcatAt
<1>2. /\ n * M <= Len(text) /\ Len(orders) = n
      /\ \A k \in 1..n : orders[k] = SubSeq(text, (k - 1) * M + 1, k * M)
  BY DEF Cut
<1>3. M \in Nat
  BY GatewayAssumption
<1>4. ASSUME NEW k \in 1..n PROVE SubSeq(t, (k - 1) * M + 1, k * M) = SubSeq(text, (k - 1) * M + 1, k * M)
  <2> DEFINE x == (k - 1) * M + 1
             y == k * M
             u == SubSeq(text, x, y)
             v == SubSeq(t, x, y)
  <2>1. x \in Nat /\ x >= 1 /\ y \in Nat
    <3>1. k - 1 \in Nat /\ k \in Nat
      OBVIOUS
    <3>2. (k - 1) * M \in Nat /\ k * M \in Nat
      BY <1>3, <3>1
    <3> QED
      BY <3>2
  <2>2. y <= n * M
    <3>1. n - k \in Nat /\ n = k + (n - k)
      OBVIOUS
    <3>2. n * M = k * M + (n - k) * M /\ (n - k) * M \in Nat
      BY <1>3, <3>1
    <3> QED
      BY <2>1, <3>2
  <2>3. n * M \in Nat
    BY <1>3
  <2> HIDE DEF x, y, M, t
  <2>4. y <= Len(text) /\ y <= Len(t) /\ Len(t) \in Nat
    BY <1>1, <1>2, <2>1, <2>2, <2>3
  <2>5. \A j \in x..y : text[j] \in T /\ t[j] \in T /\ t[j] = text[j]
    <3>1. /\ \A j \in x..y : j \in 1..Len(text) /\ j \in 1..Len(t)
      BY <1>1, <2>1, <2>4
    <3>2. (\A j \in 1..Len(text) : text[j] \in T) /\ \A j \in 1..Len(t) : t[j] \in T
      BY <1>1
    <3> QED
      BY <1>1, <3>1, <3>2
  <2>6. /\ u \in Seq(T) /\ Len(u) = (IF x <= y THEN y - x + 1 ELSE 0)
        /\ \A i \in 1..(y - x + 1) : u[i] = text[x + i - 1]
    BY <2>1, <2>5, SubSeqProperties
  <2>7. /\ v \in Seq(T) /\ Len(v) = (IF x <= y THEN y - x + 1 ELSE 0)
        /\ \A i \in 1..(y - x + 1) : v[i] = t[x + i - 1]
    BY <2>1, <2>5, SubSeqProperties
  <2> HIDE DEF u, v
  <2>8. \A i \in 1..(y - x + 1) : x + i - 1 \in x..y
    BY <2>1
  <2>9. Len(u) = Len(v) /\ \A i \in 1..Len(u) : i \in 1..(y - x + 1)
    BY <2>1, <2>6, <2>7
  <2>10. \A i \in 1..Len(u) : u[i] = v[i]
    BY <2>5, <2>6, <2>7, <2>8, <2>9
  <2>11. u = v
    BY <2>6, <2>7, <2>9, <2>10, SeqEqual
  <2> QED
    BY <2>11 DEF u, v, x, y
<1>5. n * M <= Len(t)
  <2>1. n * M \in Nat
    BY <1>3
  <2> HIDE DEF t, M
  <2> QED
    BY <1>1, <1>2, <2>1
<1> QED
  BY <1>2, <1>4, <1>5 DEF Cut

(* What came on a descriptor, when one more order comes on some descriptor. *)
LEMMA OrdersOnMore ==
    ASSUME NEW T, enqueued \in Seq(Conns \X T), NEW d \in Conns, NEW order \in T, NEW c \in Conns,
           enqueued' = Append(enqueued, <<d, order>>)
    PROVE  /\ OrdersOn(c) \in Seq(T)
           /\ OrdersOn(c)' = IF c = d THEN Append(OrdersOn(c), order) ELSE OrdersOn(c)
<1> DEFINE own(e) == IF e[1] = c THEN <<e[2]>> ELSE << >>
           a == [i \in DOMAIN enqueued |-> own(enqueued[i])]
           b == [i \in DOMAIN enqueued' |-> own(enqueued'[i])]
           e0 == <<d, order>>
           x == own(e0)
           Q == Seq(T)
<1>b. b = [i \in DOMAIN enqueued' |-> own(enqueued'[i])]
  OBVIOUS
<1>1. OrdersOn(c) = FlattenSeq(a) /\ OrdersOn(c)' = FlattenSeq(b)
  BY DEF OrdersOn
<1>2. /\ e0 \in Conns \X T /\ e0[1] = d /\ e0[2] = order
  OBVIOUS
<1>3. \A e \in Conns \X T : own(e) \in Q
  <2> TAKE e \in Conns \X T
  <2>1. e[2] \in T
    OBVIOUS
  <2>2. <<e[2]>> \in Seq(T) /\ << >> \in Seq(T)
    BY <2>1
  <2> QED
    BY <2>2
<1>4. x = IF c = d THEN <<order>> ELSE << >>
  BY <1>2
<1> HIDE DEF own, e0, Q, b
<1>5. /\ Len(enqueued) \in Nat /\ DOMAIN enqueued = 1..Len(enqueued)
      /\ \A i \in 1..Len(enqueued) : enqueued[i] \in Conns \X T
  OBVIOUS
<1>6. /\ enqueued' \in Seq(Conns \X T) /\ Len(enqueued') = Len(enqueued) + 1
      /\ (\A i \in 1..Len(enqueued) : enqueued'[i] = enqueued[i])
      /\ enqueued'[Len(enqueued) + 1] = e0
  BY <1>2, AppendProperties DEF e0
<1>7. DOMAIN enqueued' = 1..(Len(enqueued) + 1)
  BY <1>6
<1>8. a \in Seq(Q) /\ Len(a) = Len(enqueued) /\ \A i \in 1..Len(enqueued) : a[i] = own(enqueued[i])
  <2>1. a = [i \in 1..Len(enqueued) |-> own(enqueued[i])]
    BY <1>5
  <2>2. \A i \in 1..Len(enqueued) : own(enqueued[i]) \in Q
    BY <1>3, <1>5
  <2> QED
    BY <1>5, <2>1, <2>2
<1>9. /\ b \in Seq(Q) /\ Len(b) = Len(enqueued) + 1
      /\ (\A i \in 1..Len(enqueued) : b[i] = own(enqueued[i]))
      /\ b[Len(enqueued) + 1] = x
  <2>1. b = [i \in 1..(Len(enqueued) + 1) |-> own(enqueued'[i])]
    BY <1>7, <1>b
  <2>2. \A i \in 1..(Len(enqueued) + 1) : i \in 1..Len(enqueued) \/ i = Len(enqueued) + 1
    BY <1>5
  <2>3. \A i \in 1..(Len(enqueued) + 1) : own(enqueued'[i]) \in Q
    BY <1>2, <1>3, <1>5, <1>6, <2>2
  <2>4. b \in Seq(Q) /\ Len(b) = Len(enqueued) + 1
    BY <1>5, <2>1, <2>3
  <2>5. \A i \in 1..Len(enqueued) : i \in 1..(Len(enqueued) + 1)
    BY <1>5
  <2>6. Len(enqueued) + 1 \in 1..(Len(enqueued) + 1)
    BY <1>5
  <2>7. (\A i \in 1..Len(enqueued) : b[i] = own(enqueued[i])) /\ b[Len(enqueued) + 1] = x
    BY <1>6, <2>1, <2>5, <2>6, Zenon DEF x
  <2> QED
    BY <2>4, <2>7
<1>10. x \in Q
  BY <1>2, <1>3
<1> HIDE DEF a, x
<1>11. b = Append(a, x)
  <2>1. /\ Append(a, x) \in Seq(Q) /\ Len(Append(a, x)) = Len(a) + 1
        /\ (\A i \in 1..Len(a) : Append(a, x)[i] = a[i]) /\ Append(a, x)[Len(a) + 1] = x
    BY <1>8, <1>10, AppendProperties
  <2>2. \A i \in 1..(Len(enqueued) + 1) : i \in 1..Len(enqueued) \/ i = Len(enqueued) + 1
    BY <1>5
  <2>3. \A i \in 1..(Len(enqueued) + 1) : b[i] = Append(a, x)[i]
    BY <1>8, <1>9, <2>1, <2>2
  <2> QED
    BY <1>8, <1>9, <2>1, <2>3, SeqEqual
<1>12. a \in Seq(Seq(T)) /\ x \in Seq(T)
  BY <1>8, <1>10 DEF Q
<1>13. FlattenSeq(a) \in Seq(T) /\ FlattenSeq(b) = FlattenSeq(a) \o x
  BY <1>11, <1>12, FlattenType, FlattenAppend
<1>14. FlattenSeq(a) \o << >> = FlattenSeq(a) /\ FlattenSeq(a) \o <<order>> = Append(FlattenSeq(a), order)
  BY <1>13, ConcatEmptySeq, AppendIsConcat
<1> QED
  BY <1>1, <1>4, <1>13, <1>14

LEMMA OrdersOnType ==
    ASSUME NEW T, enqueued \in Seq(Conns \X T), NEW c \in Conns
    PROVE  OrdersOn(c) \in Seq(T)
<1> DEFINE own(e) == IF e[1] = c THEN <<e[2]>> ELSE << >>
           a == [i \in DOMAIN enqueued |-> own(enqueued[i])]
           Q == Seq(T)
<1>1. OrdersOn(c) = FlattenSeq(a)
  BY DEF OrdersOn
<1>2. \A e \in Conns \X T : own(e) \in Q
  <2> TAKE e \in Conns \X T
  <2>1. e[2] \in T
    OBVIOUS
  <2>2. <<e[2]>> \in Seq(T) /\ << >> \in Seq(T)
    BY <2>1
  <2> QED
    BY <2>2
<1> HIDE DEF own, Q
<1>3. a \in Seq(Q)
  <2>1. /\ Len(enqueued) \in Nat /\ DOMAIN enqueued = 1..Len(enqueued)
        /\ \A i \in 1..Len(enqueued) : enqueued[i] \in Conns \X T
    OBVIOUS
  <2>2. a = [i \in 1..Len(enqueued) |-> own(enqueued[i])]
    BY <2>1
  <2>3. \A i \in 1..Len(enqueued) : own(enqueued[i]) \in Q
    BY <1>2, <2>1
  <2> QED
    BY <2>1, <2>2, <2>3
<1>4. a \in Seq(Seq(T))
  BY <1>3 DEF Q
<1> HIDE DEF a
<1> QED
  BY <1>1, <1>4, FlattenType

-----------------------------------------------------------------------------
(* The stream of a connection, from the script to the orders: what a buffer *)
(* holds is the part of the script, or of the text that the frames say, at  *)
(* which the reader stands; the orders given are the first of that text.    *)

InHand(c) == fd = c /\ stage \in {"handshake", "frames", "orders"}

GatewayTypes ==
    /\ script \in [Conns -> Scripts] /\ sent \in [Conns -> Nat] /\ gone \in [Conns -> BOOLEAN]
    /\ socket \in [Conns -> Seq(Alphabet)] /\ ready \subseteq Conns
    /\ status \in [Conns -> {"backlog", "open", "closed"}]
    /\ ring \in [Conns -> Seq(Alphabet)] /\ read_ptr \in [Conns -> Nat]
    /\ payload \in [Conns -> Seq(Alphabet)] /\ payload_read_ptr \in [Conns -> Nat]
    /\ websocket_ready \in [Conns -> BOOLEAN]
    /\ enqueued \in Seq(Conns \X Seq(Alphabet))
    /\ seen \in [Conns -> Seq(Alphabet)] /\ earlier \in [Conns -> Nat]
    /\ stage \in {"wait", "exited", "read", "handshake", "frames", "orders"}
    /\ stage \in {"read", "handshake", "frames", "orders"} => fd \in Conns /\ status[fd] = "open"
    /\ \A c \in ready : status[c] = "open"

SocketInv(c) ==
    /\ sent[c] \in Len(seen[c])..Len(Wire(script[c]))
    /\ \/ gone[c] /\ socket[c] = << >>
       \/ Holds(socket[c], 0, Wire(script[c]), Len(seen[c]), sent[c])

Fresh(c) == read_ptr[c] = 0 /\ payload[c] = << >> /\ payload_read_ptr[c] = 0

RequestInv(c) ==
    /\ Fresh(c) /\ OrdersFrom(c) = << >>
    /\ Holds(ring[c], 0, Wire(script[c]), 0, Len(seen[c]))
    /\ ~InHand(c) => Blank \notin ToSet(ring[c])
    /\ InHand(c) => stage = "handshake"

FramesInv(c, i) ==
    LET s == script[c]
        n == Len(OrdersFrom(c))
    IN  /\ i \in 0..Len(s.frames)
        /\ Key \in ToSet(s.request) /\ \A k \in 1..i : Acceptable(s.frames[k])
        /\ Holds(ring[c], read_ptr[c], Wire(s), End(s, i), Len(seen[c]))
        /\ Cut(OrdersFrom(c), Said(s, i), n)
        /\ Holds(payload[c], payload_read_ptr[c], Said(s, i), n * MsgSize, Len(Said(s, i)))
        /\ InHand(c) => stage \in {"frames", "orders"}
        /\ ~(InHand(c) /\ stage = "orders") => Len(Said(s, i)) - n * MsgSize < MsgSize
        /\ ~InHand(c) /\ i < Len(s.frames) => End(s, i + 1) > Len(seen[c])

ConnInv(c) ==
    /\ earlier[c] <= Len(OrdersOn(c))
    /\ status[c] # "open" => Fresh(c) /\ ring[c] = << >> /\ ~websocket_ready[c]
    /\ status[c] = "backlog" => seen[c] = << >> /\ OrdersFrom(c) = << >>
    /\ status[c] = "closed" => OrdersFrom(c) = OrdersIn(script[c], Len(seen[c]))
    /\ status[c] = "open" /\ ~websocket_ready[c] => RequestInv(c)
    /\ status[c] = "open" /\ websocket_ready[c] =>
         \E i \in 0..Len(script[c].frames) : FramesInv(c, i)

StreamInv == GatewayTypes /\ \A c \in Conns : SocketInv(c) /\ ConnInv(c)

(* A connection of which a step reads nothing, or that it does not touch.  *)
SameStream(c) ==
    /\ script'[c] = script[c] /\ status'[c] = status[c] /\ ring'[c] = ring[c]
    /\ read_ptr'[c] = read_ptr[c] /\ payload'[c] = payload[c]
    /\ payload_read_ptr'[c] = payload_read_ptr[c] /\ websocket_ready'[c] = websocket_ready[c]
    /\ seen'[c] = seen[c] /\ earlier'[c] = earlier[c] /\ OrdersOn(c)' = OrdersOn(c)
    /\ InHand(c)' <=> InHand(c)
    /\ InHand(c) => stage' = stage

Untouched(c) ==
    /\ SameStream(c)
    /\ sent'[c] = sent[c] /\ gone'[c] = gone[c] /\ socket'[c] = socket[c]

LEMMA OrdersFromKept ==
    ASSUME NEW c, earlier'[c] = earlier[c], OrdersOn(c)' = OrdersOn(c)
    PROVE  OrdersFrom(c)' = OrdersFrom(c)
BY DEF OrdersFrom

LEMMA SameStreamKept ==
    ASSUME NEW c, ConnInv(c), SameStream(c)
    PROVE  ConnInv(c)'
<1>2. OrdersFrom(c)' = OrdersFrom(c)
  BY OrdersFromKept DEF SameStream
<1>3. Fresh(c)' <=> Fresh(c)
  BY DEF Fresh, SameStream
<1>4. RequestInv(c) => RequestInv(c)'
  BY <1>2, <1>3 DEF RequestInv, SameStream
<1>5. ASSUME NEW i, FramesInv(c, i) PROVE FramesInv(c, i)'
  <2> DEFINE n == Len(OrdersFrom(c))
             t == Said(script[c], i)
  <2>1. /\ (i \in 0..Len(script[c].frames))'
        /\ (Key \in ToSet(script[c].request))' /\ (\A k \in 1..i : Acceptable(script[c].frames[k]))'
        /\ Holds(ring[c], read_ptr[c], Wire(script[c]), End(script[c], i), Len(seen[c]))'
    BY <1>5 DEF FramesInv, SameStream
  <2>2. /\ Cut(OrdersFrom(c), t, n)' /\ Holds(payload[c], payload_read_ptr[c], t, n * MsgSize, Len(t))'
    BY <1>2, <1>5 DEF FramesInv, SameStream
  <2>3. (InHand(c) => stage \in {"frames", "orders"})'
    BY <1>5 DEF FramesInv, SameStream
  <2>4. /\ ~(InHand(c) /\ stage = "orders") => Len(t) - n * MsgSize < MsgSize
        /\ ~InHand(c) /\ i < Len(script[c].frames) => End(script[c], i + 1) > Len(seen[c])
    BY <1>5 DEF FramesInv
  <2>5. /\ (~(InHand(c) /\ stage = "orders") => Len(t) - n * MsgSize < MsgSize)'
        /\ (~InHand(c) /\ i < Len(script[c].frames) => End(script[c], i + 1) > Len(seen[c]))'
    <3>1. t' = t /\ n' = n /\ script'[c] = script[c] /\ seen'[c] = seen[c]
      BY <1>2 DEF SameStream
    <3>2. (InHand(c) /\ stage = "orders")' <=> (InHand(c) /\ stage = "orders")
      BY DEF SameStream
    <3>3. InHand(c)' <=> InHand(c)
      BY DEF SameStream
    <3> QED
      BY <2>4, <3>1, <3>2, <3>3
  <2> QED
    BY <2>1, <2>2, <2>3, <2>5 DEF FramesInv
<1>6. (\E i \in 0..Len(script[c].frames) : FramesInv(c, i))
         => (\E i \in 0..Len(script[c].frames) : FramesInv(c, i))'
  BY <1>5 DEF SameStream
<1>7. /\ (earlier[c] <= Len(OrdersOn(c)))'
      /\ (status[c] # "open" => Fresh(c) /\ ring[c] = << >> /\ ~websocket_ready[c])'
      /\ (status[c] = "backlog" => seen[c] = << >> /\ OrdersFrom(c) = << >>)'
      /\ (status[c] = "closed" => OrdersFrom(c) = OrdersIn(script[c], Len(seen[c])))'
  BY <1>2, <1>3 DEF ConnInv, SameStream
<1>8. /\ (status[c] = "open" /\ ~websocket_ready[c] => RequestInv(c))'
      /\ (status[c] = "open" /\ websocket_ready[c] =>
            \E i \in 0..Len(script[c].frames) : FramesInv(c, i))'
  BY <1>4, <1>6 DEF ConnInv, SameStream
<1> QED
  BY <1>7, <1>8 DEF ConnInv

LEMMA UntouchedKept ==
    ASSUME NEW c, SocketInv(c), ConnInv(c), Untouched(c)
    PROVE  SocketInv(c)' /\ ConnInv(c)'
BY SameStreamKept DEF Untouched, SameStream, SocketInv

LEMMA StreamInit == ServerInit => StreamInv
<1> SUFFICES ASSUME ServerInit PROVE StreamInv
  OBVIOUS
<1>1. enqueued = << >> /\ << >> \in Seq(Conns \X Seq(Alphabet)) /\ << >> \in Seq(Alphabet)
      /\ Len(<< >>) = 0
  BY DEF ServerInit
<1>2. GatewayTypes
  BY <1>1 DEF ServerInit, GatewayTypes
<1>3. ASSUME NEW c \in Conns PROVE SocketInv(c) /\ ConnInv(c)
  <2>1. Len(Wire(script[c])) \in Nat
    BY <1>2, EndIs DEF GatewayTypes
  <2>2. /\ sent[c] = 0 /\ socket[c] = << >> /\ seen[c] = << >> /\ Len(seen[c]) = 0
        /\ status[c] = "backlog" /\ ring[c] = << >> /\ read_ptr[c] = 0 /\ payload[c] = << >>
        /\ payload_read_ptr[c] = 0 /\ ~websocket_ready[c] /\ earlier[c] = 0
    BY <1>1 DEF ServerInit
  <2>3. Holds(<< >>, 0, Wire(script[c]), 0, 0)
    BY <2>1, HoldsNone
  <2>4. OrdersOn(c) = << >>
    <3>1. [i \in DOMAIN enqueued |-> IF enqueued[i][1] = c THEN <<enqueued[i][2]>> ELSE << >>] = << >>
      BY <1>1
    <3> QED
      BY <3>1, FlattenEmpty DEF OrdersOn
  <2>5. OrdersFrom(c) = << >>
    <3>1. OrdersFrom(c) = SubSeq(<< >>, 0 + 1, 0)
      BY <1>1, <2>2, <2>4 DEF OrdersFrom
    <3> QED
      BY <3>1
  <2>6. SocketInv(c)
    BY <2>1, <2>2, <2>3 DEF SocketInv
  <2> QED
    BY <1>1, <2>2, <2>4, <2>5, <2>6 DEF ConnInv, Fresh
<1> QED
  BY <1>2, <1>3 DEF StreamInv

(* What a step that gives no order leaves of the orders.                   *)
LEMMA SameOrders ==
    ASSUME UNCHANGED enqueued, NEW c
    PROVE  OrdersOn(c)' = OrdersOn(c)
BY DEF OrdersOn

(* Nothing of a connection changes: the server waits, wakes or leaves.     *)
LEMMA QuietKeepsStream ==
    ASSUME StreamInv, UNCHANGED <<clientVars, socket, status, buffers, enqueued, seen>>,
           ready' \subseteq ready,
           \/ stage' = stage /\ fd' = fd
           \/ stage = "wait" /\ stage' = "exited" /\ fd' = fd
           \/ stage = "wait" /\ stage' = "read" /\ fd' \in ready
           \/ stage = "read" /\ stage' = "wait" /\ fd' = fd
    PROVE  StreamInv'
<1>1. GatewayTypes'
  BY DEF StreamInv, GatewayTypes, clientVars, buffers
<1>2. ASSUME NEW c \in Conns PROVE SocketInv(c)' /\ ConnInv(c)'
  <2>1. SocketInv(c) /\ ConnInv(c)
    BY DEF StreamInv
  <2>2. (InHand(c)' <=> InHand(c)) /\ (InHand(c) => stage' = stage)
    BY DEF InHand
  <2>3. Untouched(c)
    BY <2>2, SameOrders DEF Untouched, SameStream, clientVars, buffers
  <2> QED
    BY <2>1, <2>3, UntouchedKept
<1> QED
  BY <1>1, <1>2 DEF StreamInv

(* A connection that enters the epoll set has said nothing yet.            *)
LEMMA AcceptKeepsStream ==
    ASSUME StreamInv, NEW d \in Conns, Accept(d)
    PROVE  StreamInv'
<1>1. GatewayTypes'
  BY DEF StreamInv, GatewayTypes, Accept, clientVars, buffers
<1>2. ASSUME NEW c \in Conns PROVE SocketInv(c)' /\ ConnInv(c)'
  <2>1. SocketInv(c) /\ ConnInv(c) /\ GatewayTypes /\ Len(Wire(script[c])) \in Nat
    BY EndIs DEF StreamInv, GatewayTypes
  <2>2. CASE c # d
    <3>1. (InHand(c)' <=> InHand(c)) /\ (InHand(c) => stage' = stage)
      BY DEF InHand, Accept
    <3>2. Untouched(c)
      BY <2>1, <2>2, <3>1, SameOrders
      DEF GatewayTypes, Accept, Untouched, SameStream, clientVars, buffers
    <3> QED
      BY <2>1, <3>2, UntouchedKept
  <2>3. CASE c = d
    <3>1. /\ status[c] = "backlog" /\ status'[c] = "open" /\ stage = "wait" /\ stage' = "wait"
          /\ UNCHANGED <<clientVars, socket, buffers, fd, enqueued, seen>>
      BY <2>1, <2>3 DEF Accept, GatewayTypes
    <3>2. OrdersOn(c)' = OrdersOn(c) /\ OrdersFrom(c)' = OrdersFrom(c)
      BY <3>1, SameOrders, OrdersFromKept DEF clientVars
    <3>3. SocketInv(c)'
      BY <2>1, <3>1 DEF SocketInv, clientVars
    <3>4. Fresh(c) /\ ring[c] = << >> /\ ~websocket_ready[c] /\ seen[c] = << >> /\ OrdersFrom(c) = << >>
          /\ earlier[c] <= Len(OrdersOn(c))
      BY <2>1, <3>1 DEF ConnInv
    <3>5. Fresh(c)' /\ ring'[c] = << >> /\ ~websocket_ready'[c] /\ seen'[c] = << >>
          /\ OrdersFrom(c)' = << >> /\ (earlier[c] <= Len(OrdersOn(c)))'
      BY <3>1, <3>2, <3>4 DEF Fresh, clientVars, buffers
    <3>6. ~InHand(c)'
      BY <3>1 DEF InHand
    <3>7. Len(<< >>) = 0 /\ ToSet(<< >>) = {} /\ script'[c] = script[c]
      BY <3>1 DEF ToSet, clientVars
    <3>8. Holds(<< >>, 0, Wire(script[c]), 0, 0)
      BY <2>1, HoldsNone
    <3>9. RequestInv(c)'
      BY <3>5, <3>6, <3>7, <3>8 DEF RequestInv
    <3> QED
      BY <3>1, <3>3, <3>5, <3>9 DEF ConnInv
  <2> QED
    BY <2>2, <2>3
<1> QED
  BY <1>1, <1>2 DEF StreamInv

(* What the network and the clients do is between the script and the       *)
(* socket: nothing that was read changes.                                  *)
LEMMA SocketKeepsStream ==
    ASSUME StreamInv, NEW d \in Conns, Arrive(d) \/ HangUp(d)
    PROVE  StreamInv'
<1> USE DEF clientVars, buffers
<1>0. /\ UNCHANGED <<script, session, earlier, status, buffers, stage, fd, enqueued, seen>>
      /\ ready' = Raised(d) /\ \A c \in Conns : c # d => sent'[c] = sent[c] /\ gone'[c] = gone[c]
                                                       /\ socket'[c] = socket[c]
  BY DEF StreamInv, GatewayTypes, Arrive, HangUp
<1>1. GatewayTypes /\ SocketInv(d) /\ script[d] \in Scripts
  BY DEF StreamInv, GatewayTypes
<1> DEFINE w == Wire(script[d])
<1>2. w \in Seq(Alphabet) /\ Len(w) \in Nat /\ Len(seen[d]) \in Nat
  BY <1>1, EndIs DEF GatewayTypes
<1>3. /\ sent' \in [Conns -> Nat] /\ gone' \in [Conns -> BOOLEAN]
      /\ socket' \in [Conns -> Seq(Alphabet)] /\ SocketInv(d)'
  <2>1. CASE HangUp(d)
    <3>1. << >> \in Seq(Alphabet)
      OBVIOUS
    <3>2. /\ gone' = [gone EXCEPT ![d] = TRUE]
          /\ (socket' = socket \/ socket' = [socket EXCEPT ![d] = << >>])
      BY <2>1 DEF HangUp
    <3>2a. UNCHANGED sent
      BY <2>1 DEF HangUp
    <3>3. gone' \in [Conns -> BOOLEAN] /\ socket' \in [Conns -> Seq(Alphabet)] /\ sent' \in [Conns -> Nat]
      BY <1>1, <3>1, <3>2, <3>2a DEF GatewayTypes
    <3>4. gone'[d] /\ (socket'[d] = socket[d] \/ socket'[d] = << >>)
      BY <1>1, <3>2 DEF GatewayTypes
    <3>5. SocketInv(d)'
      BY <1>0, <1>1, <3>2a, <3>4 DEF SocketInv
    <3> QED
      BY <3>3, <3>5
  <2>2. CASE Arrive(d)
    <3>0. ~gone[d] /\ Holds(socket[d], 0, w, Len(seen[d]), sent[d])
          /\ sent[d] \in Len(seen[d])..Len(w)
      BY <1>1, <2>2 DEF Arrive, SocketInv
    <3>1. PICK n \in 1..(Len(w) - sent[d]) :
             /\ sent' = [sent EXCEPT ![d] = @ + n]
             /\ socket' = [socket EXCEPT ![d] = @ \o SubSeq(w, sent[d] + 1, sent[d] + n)]
      BY <2>2 DEF Arrive
    <3>2. UNCHANGED gone
      BY <2>2 DEF Arrive
    <3> DEFINE rest == SubSeq(w, sent[d] + 1, Len(w))
               k == sent[d]
               q == socket[d]
    <3>3. k \in Nat /\ n \in 1..(Len(w) - k) /\ q \in Seq(Alphabet)
      BY <1>1, <1>2 DEF GatewayTypes
    <3>4. sent'[d] = k + n /\ sent' \in [Conns -> Nat]
      <4>1. sent \in [Conns -> Nat] /\ k + n \in Nat /\ sent' = [sent EXCEPT ![d] = k + n]
        <5>1. sent \in [Conns -> Nat] /\ sent' = [sent EXCEPT ![d] = k + n]
          BY <1>1, <3>1 DEF GatewayTypes
        <5>2. k + n \in Nat
          BY <3>3
        <5> QED
          BY <5>1, <5>2
      <4> HIDE DEF k
      <4> QED
        BY <4>1
    <3>4a. socket'[d] = q \o SubSeq(w, k + 1, k + n)
      <4>1. socket \in [Conns -> Seq(Alphabet)] /\ socket' = [socket EXCEPT ![d] = q \o SubSeq(w, k + 1, k + n)]
        BY <1>1, <3>1 DEF GatewayTypes
      <4> HIDE DEF k, q, w
      <4> QED
        BY <4>1
    <3> HIDE DEF k, q, w
    <3>5. /\ SubSeq(w, k + 0 + 1, k + 0 + n) \in Seq(Alphabet)
          /\ Len(SubSeq(w, k + 0 + 1, k + 0 + n)) = n
          /\ \A j \in 1..n : SubSeq(w, k + 0 + 1, k + 0 + n)[j] = w[k + 0 + j]
      <4>1. Holds(w, k, w, k, Len(w))
        BY <1>2, <3>3 DEF Holds
      <4>2. 0 \in Nat /\ n \in Nat /\ 0 + n <= Len(w) - k
        BY <1>2, <3>3
      <4> QED
        BY <1>2, <4>1, <4>2, HoldsPiece DEF PieceAt
    <3>6. k + 0 = k
      BY <3>3
    <3> DEFINE u == SubSeq(w, k + 1, k + n)
    <3>7. u \in Seq(Alphabet) /\ Len(u) = n /\ \A j \in 1..n : u[j] = w[k + j]
      BY <3>5, <3>6
    <3> HIDE DEF u
    <3>8. Holds(u, 0, w, k, k + n)
      <4>1. /\ 0 \in 0..Len(u) /\ k \in 0..Len(w) /\ k + n \in k..Len(w)
            /\ Len(u) - 0 = (k + n) - k
        BY <1>2, <3>3, <3>7
      <4>2. ASSUME NEW j \in 1..((k + n) - k) PROVE u[0 + j] = w[k + j]
        <5>1. 0 + j = j /\ j \in 1..n
          BY <3>3
        <5> QED
          BY <5>1, <3>7
      <4> QED
        BY <4>1, <4>2 DEF Holds
    <3>9. Holds(q, 0, w, Len(seen[d]), k)
      BY <3>0 DEF q, w, k
    <3>10. n \in 0..Len(u)
      BY <3>7, <3>3
    <3>11. /\ q \o SubSeq(u, 1, n) \in Seq(Alphabet)
           /\ Holds(q \o SubSeq(u, 1, n), 0, w, Len(seen[d]), k + n)
      BY <1>2, <3>3, <3>7, <3>8, <3>9, <3>10, HoldsMore
    <3>12. SubSeq(u, 1, n) = u
      <4>1. /\ SubSeq(u, 1, n) \in Seq(Alphabet) /\ Len(SubSeq(u, 1, n)) = n
            /\ \A j \in 1..n : SubSeq(u, 1, n)[j] = u[j]
        BY <3>7
      <4> QED
        BY <3>7, <4>1, SeqEqual
    <3>13. socket'[d] = q \o u
      BY <3>4a DEF u
    <3>14. socket' \in [Conns -> Seq(Alphabet)]
      <4>1. q \o u \in Seq(Alphabet)
        BY <3>11, <3>12
      <4>2. socket' = [socket EXCEPT ![d] = q \o u]
        BY <3>1 DEF q, u, k
      <4> QED
        BY <1>1, <4>1, <4>2 DEF GatewayTypes
    <3>15. SocketInv(d)'
      <4>1. Holds(socket'[d], 0, w, Len(seen[d]), sent'[d])
        BY <3>4, <3>11, <3>12, <3>13
      <4>2. sent'[d] \in Len(seen[d])..Len(w)
        <5>1. k \in Len(seen[d])..Len(w)
          BY <3>0 DEF k
        <5>2. Len(seen[d]) \in Nat /\ Len(w) \in Nat /\ k \in Nat /\ n \in 1..(Len(w) - k)
          BY <1>2, <3>3
        <5>3. k + n \in Len(seen[d])..Len(w)
          BY <5>1, <5>2
        <5> QED
          BY <3>4, <5>3
      <4> QED
        BY <1>0, <4>1, <4>2 DEF SocketInv, w
    <3> QED
      BY <1>1, <3>2, <3>4, <3>14, <3>15 DEF GatewayTypes
  <2> QED
    BY <2>1, <2>2
<1>4. GatewayTypes'
  BY <1>0, <1>1, <1>3 DEF GatewayTypes, Raised
<1>5. ASSUME NEW c \in Conns PROVE SocketInv(c)' /\ ConnInv(c)'
  <2>1. SocketInv(c) /\ ConnInv(c)
    BY DEF StreamInv
  <2>2. (InHand(c)' <=> InHand(c)) /\ (InHand(c) => stage' = stage)
    BY <1>0 DEF InHand
  <2>3. SameStream(c)
    BY <1>0, <2>2, SameOrders DEF SameStream
  <2>4. CASE c # d
    <3>1. Untouched(c)
      BY <1>0, <2>3, <2>4 DEF Untouched
    <3> QED
      BY <2>1, <3>1, UntouchedKept
  <2>5. CASE c = d
    <3>1. ConnInv(c)'
      BY <2>1, <2>3, SameStreamKept
    <3> QED
      BY <1>3, <2>5, <3>1
  <2> QED
    BY <2>4, <2>5
<1> QED
  BY <1>4, <1>5 DEF StreamInv

(* A new client gets a descriptor with empty buffers, and none of the       *)
(* orders that came on it before are its own.                              *)
LEMMA ReconnectKeepsStream ==
    ASSUME StreamInv, NEW d \in Conns, Reconnect(d)
    PROVE  StreamInv'
<1>1. /\ GatewayTypes /\ status[d] = "closed" /\ SocketInv(d) /\ ConnInv(d)
      /\ UNCHANGED <<ready, buffers, running_, stage, fd, enqueued>>
  BY DEF StreamInv, Reconnect
<1>2. PICK s \in Scripts : script' = [script EXCEPT ![d] = s]
  BY DEF Reconnect
<1>3. << >> \in Seq(Alphabet) /\ Len(<< >>) = 0
  OBVIOUS
<1>4. OrdersOn(d) \in Seq(Seq(Alphabet))
  BY <1>1, OrdersOnType DEF GatewayTypes
<1>5. Len(OrdersOn(d)) \in Nat
  BY <1>4
<1>6. /\ earlier' = [earlier EXCEPT ![d] = Len(OrdersOn(d))]
      /\ sent' = [sent EXCEPT ![d] = 0] /\ gone' = [gone EXCEPT ![d] = FALSE]
      /\ socket' = [socket EXCEPT ![d] = << >>] /\ seen' = [seen EXCEPT ![d] = << >>]
      /\ status' = [status EXCEPT ![d] = "backlog"]
  BY DEF Reconnect
<1>7. /\ earlier'[d] = Len(OrdersOn(d)) /\ sent'[d] = 0 /\ socket'[d] = << >> /\ seen'[d] = << >>
      /\ status'[d] = "backlog" /\ script'[d] = s
  BY <1>1, <1>2, <1>6 DEF GatewayTypes
<1>8. \A c \in Conns : c # d =>
         /\ earlier'[c] = earlier[c] /\ sent'[c] = sent[c] /\ socket'[c] = socket[c]
         /\ seen'[c] = seen[c] /\ status'[c] = status[c] /\ script'[c] = script[c]
         /\ gone'[c] = gone[c]
  BY <1>1, <1>2, <1>6 DEF GatewayTypes
<1>9. GatewayTypes'
  <2>1. /\ script' \in [Conns -> Scripts] /\ sent' \in [Conns -> Nat] /\ gone' \in [Conns -> BOOLEAN]
        /\ socket' \in [Conns -> Seq(Alphabet)] /\ seen' \in [Conns -> Seq(Alphabet)]
        /\ status' \in [Conns -> {"backlog", "open", "closed"}]
        /\ earlier' \in [Conns -> Nat]
    BY <1>1, <1>2, <1>3, <1>5, <1>6 DEF GatewayTypes
  <2>2. /\ \A c \in ready : c # d
        /\ stage \in {"read", "handshake", "frames", "orders"} => fd # d
    BY <1>1 DEF GatewayTypes
  <2> QED
    BY <1>1, <1>8, <2>1, <2>2 DEF GatewayTypes, buffers
<1>10. SocketInv(d)' /\ ConnInv(d)'
  <2>1. Len(Wire(s)) \in Nat
    BY EndIs
  <2>2. Holds(<< >>, 0, Wire(s), 0, 0)
    BY <2>1, HoldsNone
  <2>3. SocketInv(d)'
    BY <1>3, <1>7, <2>1, <2>2 DEF SocketInv
  <2>4. OrdersOn(d)' = OrdersOn(d)
    BY <1>1, SameOrders
  <2>5. OrdersFrom(d)' = << >>
    <3> DEFINE o == OrdersOn(d)
    <3>1. OrdersFrom(d)' = SubSeq(o, Len(o) + 1, Len(o))
      BY <1>7, <2>4 DEF OrdersFrom
    <3> HIDE DEF o
    <3>2. o \in Seq(Seq(Alphabet)) /\ Len(o) \in Nat
      BY <1>4, <1>5 DEF o
    <3> QED
      BY <3>1, <3>2
  <2>6. (Fresh(d) /\ ring[d] = << >> /\ ~websocket_ready[d])'
    BY <1>1 DEF ConnInv, Fresh, buffers
  <2> QED
    BY <1>5, <1>7, <2>3, <2>4, <2>5, <2>6 DEF ConnInv
<1>11. ASSUME NEW c \in Conns PROVE SocketInv(c)' /\ ConnInv(c)'
  <2>1. CASE c = d
    BY <1>10, <2>1
  <2>2. CASE c # d
    <3>1. (InHand(c)' <=> InHand(c)) /\ (InHand(c) => stage' = stage)
      BY <1>1 DEF InHand
    <3>2. OrdersOn(c)' = OrdersOn(c)
      BY <1>1, SameOrders
    <3>3. Untouched(c)
      BY <1>1, <1>8, <2>2, <3>1, <3>2 DEF Untouched, SameStream, buffers
    <3> QED
      BY <3>3, UntouchedKept DEF StreamInv
  <2> QED
    BY <2>1, <2>2
<1> QED
  BY <1>9, <1>11 DEF StreamInv

-----------------------------------------------------------------------------
(* The connection the server has in hand.                                  *)

LEMMA AtHand ==
    ASSUME StreamInv, stage \in {"read", "handshake", "frames", "orders"}
    PROVE  /\ fd \in Conns /\ status[fd] = "open" /\ SocketInv(fd) /\ ConnInv(fd) /\ GatewayTypes
           /\ script[fd] \in Scripts /\ sent[fd] \in Nat /\ socket[fd] \in Seq(Alphabet)
           /\ ring[fd] \in Seq(Alphabet) /\ payload[fd] \in Seq(Alphabet)
           /\ read_ptr[fd] \in Nat /\ payload_read_ptr[fd] \in Nat
           /\ seen[fd] \in Seq(Alphabet) /\ Len(seen[fd]) \in Nat /\ Len(ring[fd]) \in Nat
           /\ Len(socket[fd]) \in Nat /\ Len(payload[fd]) \in Nat
           /\ Wire(script[fd]) \in Seq(Alphabet) /\ Len(Wire(script[fd])) \in Nat
           /\ OrdersOn(fd) \in Seq(Seq(Alphabet)) /\ Len(OrdersOn(fd)) \in Nat
           /\ OrdersFrom(fd) \in Seq(Seq(Alphabet)) /\ Len(OrdersFrom(fd)) \in Nat
           /\ earlier[fd] \in Nat /\ earlier[fd] <= Len(OrdersOn(fd))
           /\ stage = "read" <=> ~InHand(fd)
           /\ stage = "handshake" => ~websocket_ready[fd]
           /\ stage \in {"frames", "orders"} => websocket_ready[fd]
           /\ ~websocket_ready[fd] => RequestInv(fd)
           /\ websocket_ready[fd] => \E i \in 0..Len(script[fd].frames) : FramesInv(fd, i)
<1>1. fd \in Conns /\ status[fd] = "open" /\ SocketInv(fd) /\ ConnInv(fd) /\ GatewayTypes
  BY DEF StreamInv, GatewayTypes
<1>2. /\ script[fd] \in Scripts /\ sent[fd] \in Nat /\ socket[fd] \in Seq(Alphabet)
      /\ ring[fd] \in Seq(Alphabet) /\ payload[fd] \in Seq(Alphabet)
      /\ read_ptr[fd] \in Nat /\ payload_read_ptr[fd] \in Nat
      /\ seen[fd] \in Seq(Alphabet) /\ earlier[fd] \in Nat
  BY <1>1 DEF GatewayTypes
<1>3. /\ Len(seen[fd]) \in Nat /\ Len(ring[fd]) \in Nat
      /\ Len(socket[fd]) \in Nat /\ Len(payload[fd]) \in Nat
  BY <1>2, LenProperties
<1>4. Wire(script[fd]) \in Seq(Alphabet) /\ Len(Wire(script[fd])) \in Nat
  BY <1>2, EndIs
<1>5. OrdersOn(fd) \in Seq(Seq(Alphabet))
  BY <1>1, OrdersOnType DEF GatewayTypes
<1>6. earlier[fd] <= Len(OrdersOn(fd))
  BY <1>1 DEF ConnInv
<1>7. OrdersFrom(fd) \in Seq(Seq(Alphabet))
  <2> DEFINE o == OrdersOn(fd)
             e == earlier[fd]
             Q == Seq(Alphabet)
  <2>1. o \in Seq(Q) /\ e \in Nat
    BY <1>2, <1>5
  <2> HIDE DEF o, e, Q
  <2>2. SubSeq(o, e + 1, Len(o)) \in Seq(Q)
    BY <2>1
  <2> QED
    BY <2>2 DEF OrdersFrom, o, e, Q
<1>8. Len(OrdersOn(fd)) \in Nat /\ Len(OrdersFrom(fd)) \in Nat
  BY <1>5, <1>7, LenProperties
<1>9. stage = "read" <=> ~InHand(fd)
  BY DEF InHand
<1>10. /\ ~websocket_ready[fd] => RequestInv(fd)
       /\ websocket_ready[fd] => \E i \in 0..Len(script[fd].frames) : FramesInv(fd, i)
  BY <1>1 DEF ConnInv
<1>11. /\ stage = "handshake" => ~websocket_ready[fd]
       /\ stage \in {"frames", "orders"} => websocket_ready[fd]
  BY <1>9, <1>10 DEF RequestInv, FramesInv
<1> QED
  BY <1>1, <1>2, <1>3, <1>4, <1>5, <1>6, <1>7, <1>8, <1>9, <1>10, <1>11

(* The handler touches no other connection.                                *)
Elsewhere(c) ==
    /\ socket'[c] = socket[c] /\ status'[c] = status[c] /\ ring'[c] = ring[c]
    /\ read_ptr'[c] = read_ptr[c] /\ payload'[c] = payload[c]
    /\ payload_read_ptr'[c] = payload_read_ptr[c] /\ websocket_ready'[c] = websocket_ready[c]
    /\ seen'[c] = seen[c] /\ OrdersOn(c)' = OrdersOn(c)

LEMMA HandlerKeepsStream ==
    ASSUME StreamInv, UNCHANGED <<clientVars, fd>>, \A c \in Conns : c # fd => Elsewhere(c),
           GatewayTypes', SocketInv(fd)', ConnInv(fd)'
    PROVE  StreamInv'
<1>1. ASSUME NEW c \in Conns PROVE SocketInv(c)' /\ ConnInv(c)'
  <2>1. CASE c # fd
    <3>1. ~InHand(c) /\ ~InHand(c)'
      BY <2>1 DEF InHand
    <3>2. Elsewhere(c)
      BY <2>1
    <3>3. Untouched(c)
      BY <3>1, <3>2 DEF Untouched, SameStream, Elsewhere, clientVars
    <3> QED
      BY <3>3, UntouchedKept DEF StreamInv
  <2>2. CASE c = fd
    BY <2>2
  <2> QED
    BY <2>1, <2>2
<1> QED
  BY <1>1 DEF StreamInv

(* A connection is closed: the engine must have what it said.              *)
LEMMA CloseKeepsStream ==
    ASSUME StreamInv, stage \in {"read", "handshake", "frames", "orders"}, Close,
           UNCHANGED <<clientVars, socket, fd, enqueued, seen>>,
           OrdersFrom(fd) = OrdersIn(script[fd], Len(seen[fd]))
    PROVE  StreamInv'
<1>1. fd \in Conns /\ GatewayTypes /\ SocketInv(fd) /\ ConnInv(fd) /\ earlier[fd] <= Len(OrdersOn(fd))
  BY AtHand
<1>2. << >> \in Seq(Alphabet)
  OBVIOUS
<1>3. /\ status' = [status EXCEPT ![fd] = "closed"] /\ ready' = ready \ {fd}
      /\ ring' = [ring EXCEPT ![fd] = << >>] /\ read_ptr' = [read_ptr EXCEPT ![fd] = 0]
      /\ payload' = [payload EXCEPT ![fd] = << >>]
      /\ payload_read_ptr' = [payload_read_ptr EXCEPT ![fd] = 0]
      /\ websocket_ready' = [websocket_ready EXCEPT ![fd] = FALSE]
      /\ stage' = "wait"
  BY DEF Close
<1>4. GatewayTypes'
  BY <1>1, <1>2, <1>3 DEF GatewayTypes, clientVars
<1>5. \A c \in Conns : c # fd => Elsewhere(c)
  BY <1>1, <1>3, SameOrders DEF GatewayTypes, Elsewhere
<1>6. /\ status'[fd] = "closed" /\ ring'[fd] = << >> /\ read_ptr'[fd] = 0 /\ payload'[fd] = << >>
      /\ payload_read_ptr'[fd] = 0 /\ ~websocket_ready'[fd]
  BY <1>1, <1>3 DEF GatewayTypes
<1>7. SocketInv(fd)'
  BY <1>1 DEF SocketInv, clientVars
<1>8. OrdersOn(fd)' = OrdersOn(fd) /\ OrdersFrom(fd)' = OrdersFrom(fd)
  <2>1. OrdersOn(fd)' = OrdersOn(fd)
    BY DEF OrdersOn
  <2> QED
    BY <2>1 DEF OrdersFrom, clientVars
<1>9. ConnInv(fd)'
  BY <1>1, <1>6, <1>8 DEF ConnInv, Fresh, clientVars
<1> QED
  BY <1>4, <1>5, <1>7, <1>9, HandlerKeepsStream

(* Until the empty line comes, the request is not over.                    *)
LEMMA BeforeTheBlank ==
    ASSUME NEW s \in Scripts, NEW buf \in Seq(Alphabet), NEW n \in Nat,
           Holds(buf, 0, Wire(s), 0, n)
    PROVE  /\ Len(buf) = n /\ n <= Len(Wire(s))
           /\ \A j \in 1..n : buf[j] = Wire(s)[j]
           /\ Blank \notin ToSet(buf) => n < Len(s.request) \/ Len(s.frames) = 0
           /\ Blank \in ToSet(buf) =>
                /\ Len(s.request) \in 1..n /\ s.request[Len(s.request)] = Blank
                /\ \A j \in 1..Len(s.request) : buf[j] = s.request[j]
<1> DEFINE r == s.request
           R == Len(r)
           W == Wire(s)
<1>1. /\ r \in Seq(Alphabet) /\ R \in Nat /\ Len(s.frames) \in Nat
      /\ (\A k \in 1..R : r[k] = Blank => k = R)
      /\ (Blank \in ToSet(r) \/ Len(s.frames) = 0)
      /\ DOMAIN r = 1..R
  BY ScriptTypes
<1>2. /\ W \in Seq(Alphabet) /\ Len(W) \in Nat /\ (\A j \in 1..R : W[j] = r[j])
      /\ End(s, 0) = R /\ End(s, Len(s.frames)) = Len(W)
      /\ \A i \in 0..Len(s.frames), k \in 0..Len(s.frames) : i <= k => End(s, i) <= End(s, k)
  BY EndIs
<1>3. Len(buf) \in Nat /\ DOMAIN buf = 1..Len(buf)
  OBVIOUS
<1>4. /\ Len(buf) - 0 = n - 0 /\ n \in 0..Len(W) /\ \A j \in 1..(n - 0) : buf[0 + j] = W[0 + j]
  BY DEF Holds
<1> HIDE DEF r, R, W
<1>5. Len(buf) = n /\ n <= Len(W) /\ n - 0 = n
  <2> DEFINE l == Len(buf)
             m == Len(W)
  <2>1. l \in Nat /\ m \in Nat /\ l - 0 = n - 0 /\ n \in 0..m
    BY <1>2, <1>3, <1>4
  <2> HIDE DEF l, m
  <2>2. l = n /\ n <= m /\ n - 0 = n
    BY <2>1
  <2> QED
    BY <2>2 DEF l, m
<1>6. \A j \in 1..n : 0 + j = j
  OBVIOUS
<1>7. \A j \in 1..n : buf[j] = W[j]
  BY <1>4, <1>5, <1>6
<1>8. R <= Len(W) /\ (Len(s.frames) = 0 => Len(W) = R)
  <2>1. 0 \in 0..Len(s.frames) /\ Len(s.frames) \in 0..Len(s.frames) /\ 0 <= Len(s.frames)
    BY <1>1
  <2> QED
    BY <1>2, <2>1
<1>9. ASSUME Blank \notin ToSet(buf), n >= R, Len(s.frames) # 0 PROVE FALSE
  <2>1. PICK k \in 1..R : r[k] = Blank
    BY <1>1, <1>9 DEF ToSet
  <2>2. k \in 1..n
    BY <1>1, <1>9
  <2>3. buf[k] = Blank
    BY <1>2, <1>7, <2>1, <2>2
  <2> QED
    BY <1>3, <1>5, <1>9, <2>2, <2>3 DEF ToSet
<1>10. ASSUME Blank \in ToSet(buf)
       PROVE  R \in 1..n /\ r[R] = Blank
  <2>1. PICK p \in 1..n : buf[p] = Blank
    BY <1>3, <1>5, <1>10 DEF ToSet
  <2>2. W[p] = Blank
    BY <1>7, <2>1
  <2>3. Blank \in ToSet(r)
    <3>1. CASE Len(s.frames) = 0
      <4>1. p \in 1..R
        BY <1>1, <1>5, <1>8, <3>1
      <4> QED
        BY <1>1, <1>2, <2>2, <4>1 DEF ToSet
    <3> QED
      BY <1>1, <3>1
  <2>4. PICK k \in 1..R : r[k] = Blank
    BY <1>1, <2>3 DEF ToSet
  <2>5. k = R /\ R >= 1
    BY <1>1, <2>4
  <2>6. ~(p < R)
    <3> SUFFICES ASSUME p < R PROVE FALSE
      OBVIOUS
    <3>1. p \in 1..R /\ p # R
      BY <1>1
    <3>2. r[p] = Blank
      BY <1>2, <2>2, <3>1
    <3> QED
      BY <1>1, <3>1, <3>2
  <2> QED
    BY <1>1, <2>4, <2>5, <2>6
<1>11. ASSUME Blank \in ToSet(buf), NEW j \in 1..R PROVE buf[j] = r[j]
  <2>1. j \in 1..n
    BY <1>1, <1>10, <1>11
  <2> QED
    BY <1>2, <1>7, <2>1
<1>12. n < R \/ n >= R
  BY <1>1
<1> QED
  BY <1>5, <1>7, <1>9, <1>10, <1>11, <1>12 DEF r, R, W

(* The header that is looked at is the request.                            *)
LEMMA HeaderIs ==
    ASSUME StreamInv, stage = "handshake", Blank \in ToSet(ring[fd])
    PROVE  /\ HeaderSize = Len(script[fd].request) /\ HeaderSize \in 1..Len(ring[fd])
           /\ Key \in ToSet(SubSeq(ring[fd], 1, HeaderSize)) <=> Key \in ToSet(script[fd].request)
<1> DEFINE s == script[fd]
           r == s.request
           R == Len(r)
           b == ring[fd]
           n == Len(seen[fd])
           I == {i \in 1..Len(b) : b[i] = Blank}
<1>1. s \in Scripts /\ b \in Seq(Alphabet) /\ n \in Nat /\ Holds(b, 0, Wire(s), 0, n)
  BY AtHand DEF RequestInv
<1>2. /\ r \in Seq(Alphabet) /\ R \in Nat /\ (\A k \in 1..R : r[k] = Blank => k = R)
      /\ DOMAIN r = 1..R
  BY <1>1, ScriptTypes
<1>0. Blank \in ToSet(b)
  OBVIOUS
<1> HIDE DEF s, b, n
<1>3. /\ Len(b) = n /\ R \in 1..n /\ r[R] = Blank
      /\ \A j \in 1..R : b[j] = r[j]
  BY <1>0, <1>1, BeforeTheBlank
<1> HIDE DEF r, R
<1>4. R \in I /\ \A i \in I : R <= i
  <2>1. R \in I
    BY <1>3
  <2>2. ASSUME NEW i \in I, i < R PROVE FALSE
    <3>1. i \in 1..R /\ i # R /\ b[i] = Blank
      BY <1>2, <2>2
    <3> QED
      BY <1>2, <1>3, <3>1
  <2>3. \A i \in I : i < R \/ R <= i
    BY <1>1, <1>2, <1>3
  <2> QED
    BY <2>1, <2>2, <2>3
<1>5. Min(I) = R
  <2>1. \A i \in I : i \in Nat
    BY <1>1, <1>3
  <2> HIDE DEF I
  <2>2. Min(I) \in I /\ \A i \in I : Min(I) <= i
    BY <1>4 DEF Min
  <2> DEFINE m == Min(I)
  <2>3. m \in Nat /\ m <= R /\ R <= m
    BY <1>4, <2>1, <2>2
  <2> HIDE DEF m
  <2>4. m = R
    BY <1>2, <2>3
  <2> QED
    BY <2>4 DEF m
<1>6. HeaderSize = R
  <2>1. HeaderSize = IF I # {} THEN Min(I) ELSE 0
    BY DEF HeaderSize, SelectInSeq, b
  <2> QED
    BY <1>4, <1>5, <2>1
<1>7. SubSeq(b, 1, R) = r
  <2>1. \A j \in 1..R : b[j] \in Alphabet
    BY <1>2, <1>3
  <2>2. /\ SubSeq(b, 1, R) \in Seq(Alphabet) /\ Len(SubSeq(b, 1, R)) = (IF 1 <= R THEN R - 1 + 1 ELSE 0)
        /\ \A j \in 1..(R - 1 + 1) : SubSeq(b, 1, R)[j] = b[1 + j - 1]
    BY <1>2, <2>1, SubSeqProperties
  <2>3. /\ (IF 1 <= R THEN R - 1 + 1 ELSE 0) = R /\ R - 1 + 1 = R
        /\ \A j \in 1..R : 1 + j - 1 = j
    BY <1>2
  <2>4. Len(SubSeq(b, 1, R)) = R /\ \A j \in 1..R : SubSeq(b, 1, R)[j] = r[j]
    BY <1>3, <2>2, <2>3
  <2>5. Len(r) = R
    BY DEF R
  <2> QED
    BY <1>2, <2>2, <2>4, <2>5, SeqEqual
<1> QED
  BY <1>3, <1>6, <1>7 DEF b, r, R, s

(* The request is not all there: wait for more.                            *)
LEMMA UnfinishedKeepsStream ==
    ASSUME StreamInv, Unfinished
    PROVE  StreamInv'
<1> USE DEF clientVars, buffers
<1>1. /\ stage = "handshake" /\ Blank \notin ToSet(ring[fd]) /\ stage' = "read"
      /\ UNCHANGED <<clientVars, socket, ready, status, buffers, running_, fd, enqueued, seen>>
  BY DEF Unfinished
<1>2. /\ fd \in Conns /\ status[fd] = "open" /\ GatewayTypes /\ SocketInv(fd) /\ ConnInv(fd)
      /\ ~websocket_ready[fd] /\ RequestInv(fd)
  BY <1>1, AtHand
<1>3. GatewayTypes'
  BY <1>1, <1>2 DEF GatewayTypes
<1>4. \A c \in Conns : c # fd => Elsewhere(c)
  BY <1>1, SameOrders DEF Elsewhere
<1>5. OrdersOn(fd)' = OrdersOn(fd)
  BY <1>1, SameOrders
<1>6. OrdersFrom(fd)' = OrdersFrom(fd)
  BY <1>1, <1>5 DEF OrdersFrom
<1>7. SocketInv(fd)'
  BY <1>1, <1>2 DEF SocketInv
<1>8. ~InHand(fd)'
  BY <1>1 DEF InHand
<1>9. RequestInv(fd)'
  BY <1>1, <1>2, <1>6, <1>8 DEF RequestInv, Fresh
<1>10. ConnInv(fd)'
  BY <1>1, <1>2, <1>5, <1>6, <1>9 DEF ConnInv
<1> QED
  BY <1>1, <1>3, <1>4, <1>7, <1>10, HandlerKeepsStream

(* A request without the key: none of what follows it is an order.         *)
LEMMA NoKeyKeepsStream ==
    ASSUME StreamInv, NoKey
    PROVE  StreamInv'
<1>1. /\ stage = "handshake" /\ Blank \in ToSet(ring[fd]) /\ Close
      /\ Key \notin ToSet(SubSeq(ring[fd], 1, HeaderSize))
      /\ UNCHANGED <<clientVars, socket, running_, fd, enqueued, seen>>
  BY DEF NoKey
<1>2. script[fd] \in Scripts /\ Len(seen[fd]) \in Nat /\ RequestInv(fd)
  BY <1>1, AtHand
<1>3. Key \notin ToSet(script[fd].request)
  BY <1>1, HeaderIs
<1>4. OrdersIn(script[fd], Len(seen[fd])) = << >>
  BY <1>2, <1>3, NoneIn
<1>5. OrdersFrom(fd) = OrdersIn(script[fd], Len(seen[fd]))
  BY <1>2, <1>4 DEF RequestInv
<1> QED
  BY <1>1, <1>5, CloseKeepsStream

(* The request is in order: the frames begin.                              *)
LEMMA UpgradeKeepsStream ==
    ASSUME StreamInv, Upgrade
    PROVE  StreamInv'
<1> USE DEF clientVars, buffers
<1> DEFINE s == script[fd]
           R == Len(s.request)
           b == ring[fd]
           n == Len(seen[fd])
           rest == SubSeq(b, R + 1, Len(b))
<1>1. /\ stage = "handshake" /\ Blank \in ToSet(ring[fd]) /\ stage' = "frames"
      /\ Key \in ToSet(SubSeq(ring[fd], 1, HeaderSize))
      /\ UNCHANGED <<clientVars, socket, ready, status, payload, payload_read_ptr,
                     running_, fd, enqueued, seen>>
      /\ ring' = [ring EXCEPT ![fd] = SubSeq(@, HeaderSize + 1, Len(@))]
      /\ read_ptr' = [read_ptr EXCEPT ![fd] = 0]
      /\ websocket_ready' = [websocket_ready EXCEPT ![fd] = TRUE]
  BY DEF Upgrade
<1>2. HeaderSize = R /\ Key \in ToSet(s.request) /\ R \in 1..Len(b)
  BY <1>1, HeaderIs
<1>3. /\ fd \in Conns /\ status[fd] = "open" /\ GatewayTypes /\ SocketInv(fd) /\ ConnInv(fd)
      /\ RequestInv(fd) /\ s \in Scripts /\ b \in Seq(Alphabet) /\ n \in Nat /\ Len(b) \in Nat
      /\ Wire(s) \in Seq(Alphabet) /\ Len(Wire(s)) \in Nat /\ earlier[fd] <= Len(OrdersOn(fd))
  BY <1>1, AtHand
<1>4. /\ Holds(b, 0, Wire(s), 0, n) /\ OrdersFrom(fd) = << >>
      /\ read_ptr[fd] = 0 /\ payload[fd] = << >> /\ payload_read_ptr[fd] = 0
  BY <1>3 DEF RequestInv, Fresh
<1>5. Holds(rest, 0, Wire(s), R, n) /\ rest \in Seq(Alphabet)
  <2>0. Len(b) = n /\ n <= Len(Wire(s)) /\ \A j \in 1..n : b[j] = Wire(s)[j]
    BY <1>3, <1>4, BeforeTheBlank
  <2> DEFINE W == Wire(s)
  <2>1. R \in 1..n /\ n \in Nat /\ Len(b) = n /\ n <= Len(W) /\ Len(W) \in Nat
        /\ (\A j \in 1..n : b[j] = W[j]) /\ \A j \in 1..n : b[j] \in Alphabet
    BY <1>2, <1>3, <2>0
  <2> HIDE DEF R, b, n, W
  <2>2. /\ SubSeq(b, R + 1, n) \in Seq(Alphabet)
        /\ Len(SubSeq(b, R + 1, n)) = (IF R + 1 <= n THEN n - (R + 1) + 1 ELSE 0)
        /\ \A j \in 1..(n - (R + 1) + 1) : SubSeq(b, R + 1, n)[j] = b[(R + 1) + j - 1]
    <3>1. (\A j \in (R + 1)..n : b[j] \in Alphabet) /\ R + 1 \in Int /\ n \in Int
      BY <2>1
    <3> QED
      BY <3>1, SubSeqProperties
  <2>3. rest = SubSeq(b, R + 1, n)
    BY <2>1
  <2>4. /\ (IF R + 1 <= n THEN n - (R + 1) + 1 ELSE 0) = n - R /\ n - (R + 1) + 1 = n - R
        /\ \A j \in 1..(n - R) : (R + 1) + j - 1 = R + j /\ R + j \in 1..n /\ 0 + j = j
    BY <2>1
  <2> HIDE DEF rest
  <2>5. Len(rest) = n - R /\ \A j \in 1..(n - R) : rest[0 + j] = W[R + j]
    BY <2>1, <2>2, <2>3, <2>4
  <2>6. 0 \in 0..(n - R) /\ R \in 0..Len(W) /\ n \in R..Len(W) /\ (n - R) - 0 = n - R
    BY <2>1
  <2>7. Holds(rest, 0, W, R, n)
    BY <2>5, <2>6 DEF Holds
  <2> QED
    BY <2>2, <2>3, <2>7 DEF W
<1>6. /\ ring' = [ring EXCEPT ![fd] = rest] /\ ring'[fd] = rest /\ read_ptr'[fd] = 0
      /\ websocket_ready'[fd]
  BY <1>1, <1>2, <1>3 DEF GatewayTypes
<1>7. GatewayTypes'
  <2> HIDE DEF rest
  <2> QED
    BY <1>1, <1>3, <1>5, <1>6 DEF GatewayTypes
<1>8. \A c \in Conns : c # fd => Elsewhere(c)
  BY <1>1, <1>3, SameOrders DEF Elsewhere, GatewayTypes
<1>9. OrdersOn(fd)' = OrdersOn(fd)
  BY <1>1, SameOrders
<1>10. OrdersFrom(fd)' = << >>
  BY <1>1, <1>4, <1>9 DEF OrdersFrom
<1>11. SocketInv(fd)'
  BY <1>1, <1>3 DEF SocketInv
<1>12. FramesInv(fd, 0)'
  <2>1. /\ End(s, 0) = R /\ Said(s, 0) = << >> /\ Len(s.frames) \in Nat
    BY <1>3, EndIs, SaidIs, ScriptTypes
  <2>2. 0 * MsgSize = 0 /\ MsgSize > 0 /\ Len(<< >>) = 0
    BY GatewayAssumption
  <2>3. Cut(<< >>, << >>, 0)
    BY <2>2 DEF Cut
  <2>4. Holds(<< >>, 0, << >>, 0, 0)
    BY <2>2, HoldsNone
  <2>5. /\ script'[fd'] = s /\ Len(seen'[fd']) = n /\ ring'[fd'] = rest /\ read_ptr'[fd'] = 0
        /\ payload'[fd'] = << >> /\ payload_read_ptr'[fd'] = 0 /\ fd' = fd /\ stage' = "frames"
        /\ OrdersFrom(fd)' = << >>
    BY <1>1, <1>4, <1>6, <1>10
  <2> HIDE DEF s, n, rest, R
  <2>6. InHand(fd)'
    BY <2>5 DEF InHand
  <2>7. /\ 0 \in 0..Len(s.frames) /\ Key \in ToSet(s.request)
        /\ \A k \in 1..0 : Acceptable(s.frames[k])
    BY <1>2, <2>1
  <2>8. Holds(rest, 0, Wire(s), End(s, 0), n)
    BY <1>5, <2>1
  <2>9. /\ Cut(<< >>, Said(s, 0), Len(<< >>))
        /\ Holds(<< >>, 0, Said(s, 0), Len(<< >>) * MsgSize, Len(Said(s, 0)))
        /\ Len(Said(s, 0)) - Len(<< >>) * MsgSize < MsgSize
    BY <2>1, <2>2, <2>3, <2>4, GatewayAssumption
  <2> QED
    BY <2>5, <2>6, <2>7, <2>8, <2>9 DEF FramesInv
<1>13. ConnInv(fd)'
  <2>1. 0 \in 0..Len(script'[fd].frames)
    BY <1>1, <1>3, ScriptTypes
  <2> QED
    BY <1>1, <1>3, <1>6, <1>9, <1>12, <2>1 DEF ConnInv
<1> QED
  BY <1>1, <1>7, <1>8, <1>11, <1>13, HandlerKeepsStream

(* A connection that the server does not have in hand: the engine has what  *)
(* it said.                                                                *)
LEMMA WhatFramesSaid ==
    ASSUME NEW c \in Conns, GatewayTypes, NEW i, FramesInv(c, i),
           OrdersFrom(c) \in Seq(Seq(Alphabet)),
           Len(Said(script[c], i)) - Len(OrdersFrom(c)) * MsgSize < MsgSize,
           i < Len(script[c].frames) => \/ End(script[c], i + 1) > Len(seen[c])
                                        \/ ~Acceptable(script[c].frames[i + 1])
    PROVE  OrdersFrom(c) = OrdersIn(script[c], Len(seen[c]))
<1> DEFINE s == script[c]
           n == Len(seen[c])
           o == OrdersFrom(c)
           m == Len(o)
           Q == Seq(Alphabet)
<1>1. s \in Scripts /\ n \in Nat /\ o \in Seq(Q) /\ m \in Nat
  <2>1. script[c] \in Scripts /\ seen[c] \in Seq(Alphabet)
    BY DEF GatewayTypes
  <2>2. o \in Seq(Seq(Alphabet))
    OBVIOUS
  <2> QED
    BY <2>1, <2>2, LenProperties
<1>2. /\ i \in 0..Len(s.frames) /\ Key \in ToSet(s.request)
      /\ (\A k \in 1..i : Acceptable(s.frames[k]))
      /\ Holds(ring[c], read_ptr[c], Wire(s), End(s, i), n)
      /\ Cut(o, Said(s, i), m)
  BY DEF FramesInv
<1>3. /\ Len(Said(s, i)) - m * MsgSize < MsgSize
      /\ (i < Len(s.frames) => End(s, i + 1) > n \/ ~Acceptable(s.frames[i + 1]))
  OBVIOUS
<1> HIDE DEF s, n, o, m, Q
<1>4. End(s, i) <= n
  <2>1. n \in End(s, i)..Len(Wire(s)) /\ End(s, i) \in Nat
    BY <1>1, <1>2, EndIs DEF Holds
  <2> QED
    BY <1>1, <2>1
<1>5. Taken(s, n) = 1..i
  BY <1>1, <1>2, <1>3, <1>4, TakenIs
<1>6. o = OrdersIn(s, n)
  BY <1>1, <1>2, <1>3, <1>5, CutIsAll
<1> QED
  BY <1>6 DEF o, s, n

LEMMA OrdersFromType ==
    ASSUME NEW c \in Conns, GatewayTypes
    PROVE  /\ OrdersFrom(c) \in Seq(Seq(Alphabet))
           /\ OrdersOn(c) \in Seq(Seq(Alphabet)) /\ Len(OrdersOn(c)) \in Nat
<1> DEFINE o == OrdersOn(c)
           e == earlier[c]
           Q == Seq(Alphabet)
<1>1. o \in Seq(Q) /\ e \in Nat
  BY OrdersOnType DEF GatewayTypes
<1>2. Len(o) \in Nat
  BY <1>1, LenProperties
<1> HIDE DEF o, e, Q
<1>3. SubSeq(o, e + 1, Len(o)) \in Seq(Q)
  BY <1>1
<1> QED
  BY <1>1, <1>2, <1>3 DEF OrdersFrom, o, e, Q

LEMMA AtRest ==
    ASSUME StreamInv, NEW c \in Conns, ~InHand(c)
    PROVE  OrdersFrom(c) = OrdersIn(script[c], Len(seen[c]))
<1> DEFINE s == script[c]
           n == Len(seen[c])
<1>1. /\ s \in Scripts /\ seen[c] \in Seq(Alphabet) /\ n \in Nat /\ GatewayTypes /\ ConnInv(c)
      /\ status[c] \in {"backlog", "open", "closed"} /\ ring[c] \in Seq(Alphabet)
      /\ websocket_ready[c] \in BOOLEAN
  BY LenProperties DEF StreamInv, GatewayTypes
<1>2. OrdersFrom(c) \in Seq(Seq(Alphabet))
  BY <1>1, OrdersFromType
<1>3. CASE status[c] = "closed"
  BY <1>1, <1>3 DEF ConnInv
<1>4. CASE status[c] = "backlog"
  <2>1. n = 0 /\ OrdersFrom(c) = << >>
    BY <1>1, <1>4 DEF ConnInv
  <2>2. n < Len(s.request) \/ Key \notin ToSet(s.request)
    <3>1. Len(s.request) \in Nat /\ DOMAIN s.request = 1..Len(s.request)
      BY <1>1, ScriptTypes
    <3> QED
      BY <2>1, <3>1 DEF ToSet
  <2> HIDE DEF s, n
  <2>3. OrdersIn(s, n) = << >>
    BY <1>1, <2>2, NoneIn
  <2> QED
    BY <2>1, <2>3 DEF s, n
<1>5. CASE status[c] = "open" /\ ~websocket_ready[c]
  <2>1. OrdersFrom(c) = << >> /\ Holds(ring[c], 0, Wire(s), 0, n) /\ Blank \notin ToSet(ring[c])
    BY <1>1, <1>5 DEF ConnInv, RequestInv
  <2> HIDE DEF s, n
  <2>2. n < Len(s.request) \/ Len(s.frames) = 0
    BY <1>1, <2>1, BeforeTheBlank
  <2>3. OrdersIn(s, n) = << >>
    BY <1>1, <2>2, NoneIn
  <2> QED
    BY <2>1, <2>3 DEF s, n
<1>6. CASE status[c] = "open" /\ websocket_ready[c]
  <2>1. PICK i \in 0..Len(s.frames) : FramesInv(c, i)
    BY <1>1, <1>6 DEF ConnInv
  <2>2. /\ Len(Said(s, i)) - Len(OrdersFrom(c)) * MsgSize < MsgSize
        /\ i < Len(s.frames) => End(s, i + 1) > n
    BY <2>1 DEF FramesInv
  <2> QED
    BY <1>1, <1>2, <2>1, <2>2, WhatFramesSaid
<1> QED
  BY <1>1, <1>3, <1>4, <1>5, <1>6

LEMMA CutsAreHidden == StreamInv => CutsDoNotMatter
<1> SUFFICES ASSUME StreamInv, NEW c \in Conns, stage \in {"wait", "read", "exited"} \/ fd # c
             PROVE  OrdersFrom(c) = OrdersIn(script[c], Len(seen[c]))
  BY DEF CutsDoNotMatter
<1>1. ~InHand(c)
  BY DEF InHand
<1> QED
  BY <1>1, AtRest

(* The client is gone.                                                     *)
LEMMA ReadEndKeepsStream ==
    ASSUME StreamInv, ReadEnd
    PROVE  StreamInv'
<1>1. /\ stage = "read" /\ Close
      /\ UNCHANGED <<clientVars, socket, running_, fd, enqueued, seen>>
  BY DEF ReadEnd
<1>2. fd \in Conns /\ ~InHand(fd)
  BY <1>1, AtHand
<1>3. OrdersFrom(fd) = OrdersIn(script[fd], Len(seen[fd]))
  BY <1>2, AtRest
<1> QED
  BY <1>1, <1>3, CloseKeepsStream

(* Units move from the socket to the end of the buffer.                    *)
LEMMA ReadSomeKeepsStream ==
    ASSUME StreamInv, ReadSome
    PROVE  StreamInv'
<1> USE DEF clientVars, buffers
<1> DEFINE s == script[fd]
           q == socket[fd]
           n == IF Len(q) < BufferSize THEN Len(q) ELSE BufferSize
           units == SubSeq(q, 1, n)
           rest == SubSeq(q, n + 1, Len(q))
           b == ring[fd]
           e == seen[fd]
           k == Len(e)
           w == Wire(s)
<1>1. /\ stage = "read" /\ n > 0
      /\ socket' = [socket EXCEPT ![fd] = rest]
      /\ ring' = [ring EXCEPT ![fd] = b \o units]
      /\ seen' = [seen EXCEPT ![fd] = e \o units]
      /\ stage' = IF websocket_ready[fd] THEN "frames" ELSE "handshake"
      /\ UNCHANGED <<clientVars, ready, status, read_ptr, payload, payload_read_ptr,
                     websocket_ready, running_, fd, enqueued>>
  BY DEF ReadSome
<1>2. /\ fd \in Conns /\ status[fd] = "open" /\ GatewayTypes /\ SocketInv(fd) /\ ConnInv(fd)
      /\ s \in Scripts /\ q \in Seq(Alphabet) /\ b \in Seq(Alphabet) /\ e \in Seq(Alphabet)
      /\ k \in Nat /\ Len(q) \in Nat /\ Len(b) \in Nat /\ w \in Seq(Alphabet) /\ Len(w) \in Nat
      /\ ~InHand(fd) /\ earlier[fd] <= Len(OrdersOn(fd)) /\ websocket_ready[fd] \in BOOLEAN
      /\ (~websocket_ready[fd] => RequestInv(fd))
      /\ (websocket_ready[fd] => \E i \in 0..Len(s.frames) : FramesInv(fd, i))
  <2>1. GatewayTypes /\ fd \in Conns
    BY <1>1, AtHand
  <2>2. websocket_ready[fd] \in BOOLEAN
    BY <2>1 DEF GatewayTypes
  <2> QED
    BY <1>1, <2>2, AtHand
<1>3. n \in 0..Len(q)
  BY <1>2, GatewayAssumption
<1>4. q # << >>
  <2>1. Len(<< >>) = 0
    OBVIOUS
  <2>2. Len(q) > 0
    BY <1>1, <1>2, <1>3
  <2> QED
    BY <2>1, <2>2
<1>5. /\ Holds(q, 0, w, k, sent[fd]) /\ sent[fd] \in k..Len(w)
  BY <1>2, <1>4 DEF SocketInv
<1> HIDE DEF n, w, s
<1> HIDE DEF b, e, q, k
<1>6. /\ units \in Seq(Alphabet) /\ Len(units) = n /\ rest \in Seq(Alphabet) /\ n \in Nat
  <2>1. q \in Seq(Alphabet) /\ n \in 0..Len(q)
    BY <1>2, <1>3
  <2> QED
    BY <2>1
<1>7. /\ b \o units \in Seq(Alphabet) /\ e \o units \in Seq(Alphabet) /\ Len(e \o units) = k + n
  <2> HIDE DEF units
  <2>1. Len(e \o units) = Len(e) + Len(units) /\ e \o units \in Seq(Alphabet)
    BY <1>2, <1>6, ConcatProperties
  <2>2. b \o units \in Seq(Alphabet)
    BY <1>2, <1>6, ConcatProperties
  <2> QED
    BY <1>6, <2>1, <2>2 DEF k
<1>8. Holds(rest, 0, w, k + n, sent[fd])
  <2>1. Holds(<< >>, 0, w, k, k) /\ << >> \in Seq(Alphabet)
    <3>1. k \in 0..Len(w)
      <4>1. k \in Nat /\ Len(w) \in Nat /\ sent[fd] \in k..Len(w)
        BY <1>2, <1>5
      <4> QED
        BY <4>1
    <3> QED
      BY <1>2, <3>1, HoldsNone
  <2> QED
    BY <1>2, <1>3, <1>5, <2>1, HoldsMore
<1>9. ASSUME NEW ptr, NEW from, Holds(b, ptr, w, from, k)
      PROVE  Holds(b \o units, ptr, w, from, k + n)
  BY <1>2, <1>3, <1>5, <1>9, HoldsMore
<1>10. k + n <= sent[fd] /\ sent[fd] \in (k + n)..Len(w)
  <2>1. Holds(rest, 0, w, k + n, sent[fd])
    BY <1>8
  <2>2. sent[fd] \in (k + n)..Len(w)
    BY <2>1 DEF Holds
  <2> QED
    BY <1>2, <1>6, <2>2
<1> HIDE DEF units, rest
<1>11. GatewayTypes'
  BY <1>1, <1>2, <1>6, <1>7 DEF GatewayTypes
<1>12. \A c \in Conns : c # fd => Elsewhere(c)
  BY <1>1, <1>2, SameOrders DEF Elsewhere, GatewayTypes
<1>13. /\ socket'[fd] = rest /\ ring'[fd] = b \o units /\ seen'[fd] = e \o units
       /\ OrdersOn(fd)' = OrdersOn(fd) /\ script'[fd] = s /\ InHand(fd)'
  <2>1. socket'[fd] = rest /\ ring'[fd] = b \o units /\ seen'[fd] = e \o units
    BY <1>1, <1>2 DEF GatewayTypes
  <2>2. InHand(fd)'
    BY <1>1 DEF InHand
  <2> QED
    BY <1>1, <2>1, <2>2, SameOrders DEF s
<1>14. OrdersFrom(fd)' = OrdersFrom(fd)
  BY <1>1, <1>13 DEF OrdersFrom
<1>15. SocketInv(fd)'
  BY <1>1, <1>7, <1>8, <1>10, <1>13 DEF SocketInv, w
<1>16. CASE ~websocket_ready[fd]
  <2>1. RequestInv(fd) /\ stage' = "handshake"
    BY <1>1, <1>2, <1>16
  <2>2. Holds(b, 0, w, 0, k) /\ OrdersFrom(fd) = << >> /\ Fresh(fd)
    BY <2>1 DEF RequestInv, b, w, k, e, s
  <2>3. Holds(b \o units, 0, w, 0, k + n)
    BY <2>2, <1>9
  <2>4. RequestInv(fd)'
    BY <1>1, <1>7, <1>13, <1>14, <2>1, <2>2, <2>3 DEF RequestInv, Fresh, w
  <2>5. ConnInv(fd)'
    BY <1>1, <1>2, <1>13, <1>16, <2>4 DEF ConnInv
  <2> QED
    BY <1>1, <1>11, <1>12, <1>15, <2>5, HandlerKeepsStream
<1>17. CASE websocket_ready[fd]
  <2>1. PICK i \in 0..Len(s.frames) : FramesInv(fd, i)
    BY <1>2, <1>17
  <2> DEFINE o == OrdersFrom(fd)
             t == Said(s, i)
  <2>2. /\ i \in 0..Len(s.frames)
        /\ Key \in ToSet(s.request) /\ (\A j \in 1..i : Acceptable(s.frames[j]))
        /\ Holds(b, read_ptr[fd], w, End(s, i), k)
        /\ Cut(o, t, Len(o))
        /\ Holds(payload[fd], payload_read_ptr[fd], t, Len(o) * MsgSize, Len(t))
        /\ Len(t) - Len(o) * MsgSize < MsgSize
    BY <1>2, <2>1 DEF FramesInv, s, b, w, k, e
  <2>3. Holds(b \o units, read_ptr[fd], w, End(s, i), k + n)
    BY <2>2, <1>9
  <2>4. stage' = "frames"
    BY <1>1, <1>17
  <2>5. /\ payload'[fd] = payload[fd] /\ payload_read_ptr'[fd] = payload_read_ptr[fd]
        /\ read_ptr'[fd] = read_ptr[fd] /\ fd' = fd /\ Len(seen'[fd]) = k + n
    BY <1>1, <1>7, <1>13
  <2> HIDE DEF o, t
  <2>6. OrdersFrom(fd)' = o
    BY <1>14 DEF o
  <2>7. FramesInv(fd, i)'
    BY <1>13, <2>2, <2>3, <2>4, <2>5, <2>6 DEF FramesInv, t, w
  <2>8. ConnInv(fd)'
    BY <1>1, <1>2, <1>13, <1>17, <2>1, <2>7 DEF ConnInv
  <2> QED
    BY <1>1, <1>11, <1>12, <1>15, <2>8, HandlerKeepsStream
<1> QED
  BY <1>2, <1>16, <1>17

(* What the handler sees of a frame at its place in the stream.            *)
FrameHeld(w, from, f) ==
    /\ HeaderLen \in Nat /\ Len(FrameUnits(f)) = HeaderLen + Len(f.payload)
    /\ \A j \in 1..Len(f.payload) : w[from + HeaderLen + j] = f.payload[j]

LEMMA FrameRead ==
    ASSUME StreamInv, stage = "frames", NEW i, FramesInv(fd, i), NEW f,
           f = script[fd].frames[i + 1]
    PROVE  /\ Avail = Len(seen[fd]) - End(script[fd], i) /\ Avail \in Nat
           /\ End(script[fd], i) \in Nat
           /\ ~HeaderRead /\ i < Len(script[fd].frames) =>
                 End(script[fd], i + 1) > Len(seen[fd])
           /\ HeaderRead =>
                /\ i < Len(script[fd].frames)
                /\ Base(0).op = f.op /\ Base(1).masked = f.masked /\ Base(1).wide = f.wide
                /\ PayloadLen = Len(f.payload) /\ f.payload \in Seq(Alphabet)
                /\ f.masked \in BOOLEAN
                /\ End(script[fd], i + 1) = End(script[fd], i) + Len(FrameUnits(f))
                /\ f.masked => FrameHeld(Wire(script[fd]), End(script[fd], i), f)
<1> DEFINE s == script[fd]
           N == Len(s.frames)
           W == Wire(s)
           U == FrameUnits(f)
           e == End(s, i)
           n == Len(seen[fd])
           b == ring[fd]
           p == read_ptr[fd]
<1>1. /\ s \in Scripts /\ n \in Nat /\ b \in Seq(Alphabet) /\ Len(b) \in Nat /\ p \in Nat
      /\ W \in Seq(Alphabet) /\ Len(W) \in Nat
  BY AtHand
<1>2. i \in 0..N /\ Holds(b, p, W, e, n)
  BY DEF FramesInv
<1>3. N \in Nat /\ e \in Nat /\ End(s, N) = Len(W)
  BY <1>1, <1>2, EndIs, ScriptTypes
<1>4. /\ Len(b) - p = n - e /\ n \in e..Len(W) /\ \A j \in 1..(n - e) : b[p + j] = W[e + j]
  BY <1>2 DEF Holds
<1>5. Avail = n - e /\ Avail \in Nat
  <2>1. Avail = n - e
    BY <1>4 DEF Avail
  <2>2. n - e \in Nat
    BY <1>1, <1>3, <1>4
  <2> QED
    BY <2>1, <2>2
<1>6. ASSUME i < N
      PROVE  /\ End(s, i + 1) = e + Len(U) /\ Len(U) \in Nat /\ Len(U) >= 2
             /\ (\A j \in 1..Len(U) : W[e + j] = U[j])
             /\ U[1].op = f.op /\ U[2].masked = f.masked /\ U[2].wide = f.wide
             /\ U[2].len = Len(f.payload)
             /\ (f.wide => Len(U) >= 3 /\ U[3].length = Len(f.payload))
             /\ f.payload \in Seq(Alphabet) /\ f.masked \in BOOLEAN /\ f.wide \in BOOLEAN
             /\ f.masked =>
                 LET h == IF f.wide THEN 4 ELSE 3
                 IN  /\ Len(U) = h + Len(f.payload)
                     /\ \A j \in 1..Len(f.payload) : U[h + j] = f.payload[j]
  <2>1. i \in 0..(N - 1) /\ i + 1 \in 1..N
    BY <1>2, <1>3, <1>6
  <2>2. f.payload \in Seq(Alphabet) /\ f.masked \in BOOLEAN /\ f.wide \in BOOLEAN
    BY <1>1, <2>1, ScriptTypes
  <2>3. End(s, i + 1) = e + Len(U) /\ \A j \in 1..Len(U) : W[e + j] = U[j]
    BY <1>1, <2>1, EndIs
  <2>4. /\ Len(U) \in Nat /\ Len(U) >= 2
        /\ U[1].op = f.op /\ U[2].masked = f.masked /\ U[2].wide = f.wide
        /\ U[2].len = Len(f.payload)
        /\ (f.wide => Len(U) >= 3 /\ U[3].length = Len(f.payload))
        /\ f.masked =>
             LET h == IF f.wide THEN 4 ELSE 3
             IN  /\ Len(U) = h + Len(f.payload)
                 /\ \A j \in 1..Len(f.payload) : U[h + j] = f.payload[j]
    <3>1. f.payload \in Seq(Alphabet) /\ f.masked \in BOOLEAN /\ f.wide \in BOOLEAN
      BY <2>2
    <3>2. ShapeOf(f, U)
      BY <3>1, FrameShape
    <3> HIDE DEF U
    <3> QED
      BY <3>2 DEF ShapeOf
  <2> HIDE DEF U, e, W
  <2> QED
    BY <2>2, <2>3, <2>4
<1>7. ASSUME Avail >= 2
      PROVE  i < N /\ Base(0) = U[1] /\ Base(1) = U[2] /\ (Avail >= 3 => Base(2) = b[p + 3])
  <2>1. i < N
    <3> SUFFICES ASSUME i = N PROVE FALSE
      BY <1>2, <1>3
    <3>1. e = Len(W)
      BY <1>3
    <3> QED
      BY <1>1, <1>3, <1>4, <1>5, <1>7, <3>1
  <2>2. /\ End(s, i + 1) = e + Len(U) /\ Len(U) \in Nat /\ Len(U) >= 2
        /\ \A j \in 1..Len(U) : W[e + j] = U[j]
    BY <2>1, <1>6
  <2>3. 1 \in 1..Len(U) /\ 2 \in 1..Len(U) /\ 1 \in 1..(n - e) /\ 2 \in 1..(n - e)
    BY <1>1, <1>3, <1>5, <1>7, <2>2
  <2>4. b[p + 1] = U[1] /\ b[p + 2] = U[2]
    BY <1>4, <2>2, <2>3
  <2>5. p + 0 + 1 = p + 1 /\ p + 1 + 1 = p + 2 /\ p + 2 + 1 = p + 3
    BY <1>1
  <2> QED
    BY <2>1, <2>4, <2>5 DEF Base
<1>8. ASSUME ~HeaderRead, i < N PROVE End(s, i + 1) > n
  <2>1. CASE ~(Avail >= 2)
    <3> DEFINE v == Len(U)
               a == Avail
    <3>1. v \in Nat /\ v >= 2 /\ End(s, i + 1) = e + v
      BY <1>6, <1>8
    <3>2. a \in Nat /\ a = n - e /\ ~(a >= 2) /\ n \in Nat /\ e \in Nat
      BY <1>1, <1>3, <1>5, <2>1
    <3> HIDE DEF v, a, n, e
    <3> QED
      BY <3>1, <3>2
  <2>2. CASE Avail >= 2
    <3>1. Base(1).wide /\ ~(Avail >= 3)
      BY <1>8, <2>2 DEF HeaderRead
    <3>2. f.wide /\ Len(U) >= 3 /\ Len(U) \in Nat /\ End(s, i + 1) = e + Len(U)
      BY <1>6, <1>7, <1>8, <2>2, <3>1
    <3> QED
      BY <1>1, <1>3, <1>5, <3>1, <3>2
  <2> QED
    BY <2>1, <2>2
<1>9. ASSUME HeaderRead
      PROVE  /\ i < N /\ Base(0).op = f.op /\ Base(1).masked = f.masked /\ Base(1).wide = f.wide
             /\ PayloadLen = Len(f.payload)
  <2>1. Avail >= 2 /\ (Base(1).wide => Avail >= 3)
    BY <1>9 DEF HeaderRead
  <2>2. i < N /\ Base(0) = U[1] /\ Base(1) = U[2] /\ (Avail >= 3 => Base(2) = b[p + 3])
    BY <2>1, <1>7
  <2>3. Base(0).op = f.op /\ Base(1).masked = f.masked /\ Base(1).wide = f.wide
        /\ Base(1).len = Len(f.payload)
    BY <1>6, <2>2
  <2>4. PayloadLen = Len(f.payload)
    <3>1. CASE f.wide
      <4>1. Avail >= 3 /\ Len(U) >= 3 /\ U[3].length = Len(f.payload) /\ Len(U) \in Nat
        BY <1>6, <2>1, <2>2, <2>3, <3>1
      <4>2. 3 \in 1..(n - e) /\ 3 \in 1..Len(U)
        BY <1>1, <1>3, <1>5, <4>1
      <4>3. b[p + 3] = U[3]
        BY <1>4, <1>6, <2>2, <4>2
      <4>4. Base(2) = U[3]
        BY <2>2, <4>1, <4>3
      <4> QED
        BY <2>3, <3>1, <4>1, <4>4 DEF PayloadLen
    <3>2. CASE ~f.wide
      BY <2>3, <3>2 DEF PayloadLen
    <3> QED
      BY <3>1, <3>2
  <2> QED
    BY <2>2, <2>3, <2>4
<1>10. ASSUME HeaderRead, f.masked
       PROVE  FrameHeld(W, e, f)
  <2> DEFINE h == IF f.wide THEN 4 ELSE 3
             l == Len(f.payload)
  <2>1. HeaderLen = h
    BY <1>9, <1>10 DEF HeaderLen
  <2>2. h \in Nat
    OBVIOUS
  <2>3. /\ Len(U) = h + l /\ (\A j \in 1..l : U[h + j] = f.payload[j])
        /\ (\A j \in 1..Len(U) : W[e + j] = U[j]) /\ Len(U) \in Nat /\ f.payload \in Seq(Alphabet)
    BY <1>6, <1>9, <1>10
  <2>4. l \in Nat
    BY <2>3, LenProperties
  <2> HIDE DEF h, l, e, W, U
  <2>5. \A j \in 1..l : h + j \in 1..Len(U) /\ e + h + j = e + (h + j)
    BY <1>3, <2>2, <2>3, <2>4
  <2>6. \A j \in 1..l : W[e + h + j] = f.payload[j]
    BY <2>3, <2>5
  <2> QED
    BY <2>1, <2>2, <2>3, <2>6 DEF l, U, FrameHeld
<1> QED
  BY <1>3, <1>5, <1>6, <1>8, <1>9, <1>10

(* The frame is not all there: the buffer is compacted.                    *)
LEMMA FrameIncompleteKeepsStream ==
    ASSUME StreamInv, FrameIncomplete
    PROVE  StreamInv'
<1> USE DEF clientVars, buffers
<1> DEFINE s == script[fd]
           b == ring[fd]
           p == read_ptr[fd]
           n == Len(seen[fd])
           w == Wire(s)
           o == OrdersFrom(fd)
<1>1. /\ stage = "frames" /\ (HeaderRead => ~Refused /\ ~Complete) /\ stage' = "read"
      /\ ring' = [ring EXCEPT ![fd] = Compacted(b, p)]
      /\ read_ptr' = [read_ptr EXCEPT ![fd] = Rewound(p)]
      /\ UNCHANGED <<clientVars, socket, ready, status, payload, payload_read_ptr,
                     websocket_ready, running_, fd, enqueued, seen>>
  BY DEF FrameIncomplete
<1>2. /\ fd \in Conns /\ status[fd] = "open" /\ GatewayTypes /\ SocketInv(fd) /\ ConnInv(fd)
      /\ s \in Scripts /\ b \in Seq(Alphabet) /\ n \in Nat /\ w \in Seq(Alphabet)
      /\ websocket_ready[fd] /\ earlier[fd] <= Len(OrdersOn(fd))
      /\ \E i \in 0..Len(s.frames) : FramesInv(fd, i)
  BY <1>1, AtHand
<1>3. PICK i \in 0..Len(s.frames) : FramesInv(fd, i)
  BY <1>2
<1> DEFINE t == Said(s, i)
<1>4. /\ Key \in ToSet(s.request) /\ (\A j \in 1..i : Acceptable(s.frames[j]))
      /\ Holds(b, p, w, End(s, i), n)
      /\ Cut(o, t, Len(o))
      /\ Holds(payload[fd], payload_read_ptr[fd], t, Len(o) * MsgSize, Len(t))
      /\ Len(t) - Len(o) * MsgSize < MsgSize
  BY <1>1, <1>3 DEF FramesInv
<1>5. i < Len(s.frames) => End(s, i + 1) > n
  <2> SUFFICES ASSUME i < Len(s.frames) PROVE End(s, i + 1) > n
    OBVIOUS
  <2> DEFINE f == s.frames[i + 1]
  <2>1. CASE ~HeaderRead
    BY <1>1, <1>3, <2>1, FrameRead
  <2>2. CASE HeaderRead
    <3>1. ~Refused /\ ~Complete
      BY <1>1, <2>2
    <3>2. /\ Avail = n - End(s, i) /\ End(s, i) \in Nat /\ Base(1).masked = f.masked
          /\ PayloadLen = Len(f.payload) /\ f.payload \in Seq(Alphabet)
          /\ End(s, i + 1) = End(s, i) + Len(FrameUnits(f))
          /\ (f.masked => HeaderLen \in Nat /\ Len(FrameUnits(f)) = HeaderLen + Len(f.payload))
      BY <1>1, <1>3, <2>2, FrameRead DEF FrameHeld
    <3>3. f.masked
      BY <3>1, <3>2 DEF Refused
    <3> DEFINE l == Len(f.payload)
               e == End(s, i)
    <3>4. /\ l \in Nat /\ HeaderLen \in Nat /\ e \in Nat /\ ~(n - e >= HeaderLen + l)
          /\ End(s, i + 1) = e + (HeaderLen + l)
      BY <3>1, <3>2, <3>3, LenProperties DEF Complete
    <3> HIDE DEF l, e
    <3> QED
      BY <1>2, <3>4
  <2> QED
    BY <2>1, <2>2
<1>6. /\ Compacted(b, p) \in Seq(Alphabet) /\ Rewound(p) \in Nat
      /\ Holds(Compacted(b, p), Rewound(p), w, End(s, i), n)
  BY <1>2, <1>4, HoldsCompacted
<1>7. GatewayTypes'
  BY <1>1, <1>2, <1>6 DEF GatewayTypes
<1>8. \A c \in Conns : c # fd => Elsewhere(c)
  BY <1>1, <1>2, SameOrders DEF Elsewhere, GatewayTypes
<1>9. SocketInv(fd)'
  BY <1>1, <1>2 DEF SocketInv
<1>10. OrdersOn(fd)' = OrdersOn(fd)
  BY <1>1, SameOrders
<1>11. OrdersFrom(fd)' = o
  BY <1>1, <1>10 DEF OrdersFrom
<1>12. /\ ring'[fd] = Compacted(b, p) /\ read_ptr'[fd] = Rewound(p) /\ ~InHand(fd)'
       /\ seen'[fd] = seen[fd] /\ fd' = fd /\ script'[fd] = s /\ payload'[fd] = payload[fd]
       /\ payload_read_ptr'[fd] = payload_read_ptr[fd]
  <2>1. ring'[fd] = Compacted(b, p) /\ read_ptr'[fd] = Rewound(p)
    BY <1>1, <1>2 DEF GatewayTypes
  <2>2. ~InHand(fd)'
    BY <1>1 DEF InHand
  <2> QED
    BY <1>1, <2>1, <2>2
<1> HIDE DEF o, s
<1>13. FramesInv(fd, i)'
  BY <1>3, <1>4, <1>5, <1>6, <1>11, <1>12 DEF FramesInv
<1>14. ConnInv(fd)'
  BY <1>1, <1>2, <1>3, <1>10, <1>12, <1>13 DEF ConnInv, s
<1> QED
  BY <1>1, <1>7, <1>8, <1>9, <1>14, HandlerKeepsStream

(* A frame that is not accepted ends what is said.                         *)
LEMMA FrameClosesKeepsStream ==
    ASSUME StreamInv, FrameCloses
    PROVE  StreamInv'
<1> DEFINE s == script[fd]
<1>1. /\ stage = "frames" /\ HeaderRead /\ (Refused \/ Base(0).op = "close") /\ Close
      /\ UNCHANGED <<clientVars, socket, running_, fd, enqueued, seen>>
  BY DEF FrameCloses
<1>2. /\ fd \in Conns /\ GatewayTypes /\ OrdersFrom(fd) \in Seq(Seq(Alphabet))
      /\ \E i \in 0..Len(s.frames) : FramesInv(fd, i)
  BY <1>1, AtHand
<1>3. PICK i \in 0..Len(s.frames) : FramesInv(fd, i)
  BY <1>2
<1> DEFINE f == s.frames[i + 1]
<1>4. /\ Base(0).op = f.op /\ Base(1).masked = f.masked /\ PayloadLen = Len(f.payload)
  BY <1>1, <1>3, FrameRead
<1>5. ~Acceptable(f)
  <2>1. f.payload \in Seq(Alphabet)
    BY <1>1, <1>3, FrameRead
  <2>2. Len(f.payload) \in Nat /\ MaxPayload \in Nat
    BY <2>1, LenProperties, GatewayAssumption
  <2>3. CASE Refused
    <3>1. ~f.masked \/ Len(f.payload) > MaxPayload
      BY <1>4, <2>3 DEF Refused
    <3> QED
      BY <2>2, <3>1 DEF Acceptable
  <2>4. CASE Base(0).op = "close"
    BY <1>4, <2>4 DEF Acceptable
  <2> QED
    BY <1>1, <2>3, <2>4
<1>6. Len(Said(s, i)) - Len(OrdersFrom(fd)) * MsgSize < MsgSize
  BY <1>1, <1>3 DEF FramesInv
<1>7. OrdersFrom(fd) = OrdersIn(s, Len(seen[fd]))
  BY <1>2, <1>3, <1>5, <1>6, WhatFramesSaid
<1> QED
  BY <1>1, <1>7, CloseKeepsStream

(* A frame is taken: what it says is added to the text.                    *)
LEMMA FrameTakenKeepsStream ==
    ASSUME StreamInv, FrameTaken
    PROVE  StreamInv'
<1> USE DEF clientVars, buffers
<1> DEFINE s == script[fd]
           b == ring[fd]
           p == read_ptr[fd]
           n == Len(seen[fd])
           w == Wire(s)
           o == OrdersFrom(fd)
           q == payload[fd]
           h == HeaderLen
           l == PayloadLen
           piece == SubSeq(b, p + h + 1, p + h + l)
           Says == Base(0).op \in {"binary", "continuation"}
<1>1. /\ stage = "frames" /\ HeaderRead /\ ~Refused /\ Complete /\ Base(0).op # "close"
      /\ read_ptr' = [read_ptr EXCEPT ![fd] = p + h + l]
      /\ UNCHANGED <<clientVars, socket, ready, status, ring, payload_read_ptr,
                     websocket_ready, running_, fd, enqueued, seen>>
      /\ (Says => payload' = [payload EXCEPT ![fd] = q \o piece] /\ stage' = "orders")
      /\ (~Says => UNCHANGED <<payload, stage>>)
  BY DEF FrameTaken
<1>2. /\ fd \in Conns /\ status[fd] = "open" /\ GatewayTypes /\ SocketInv(fd) /\ ConnInv(fd)
      /\ s \in Scripts /\ b \in Seq(Alphabet) /\ n \in Nat /\ w \in Seq(Alphabet)
      /\ Len(b) \in Nat /\ Len(w) \in Nat /\ q \in Seq(Alphabet) /\ p \in Nat
      /\ websocket_ready[fd] /\ earlier[fd] <= Len(OrdersOn(fd)) /\ Len(o) \in Nat
      /\ \E i \in 0..Len(s.frames) : FramesInv(fd, i)
  BY <1>1, AtHand
<1>3. PICK i \in 0..Len(s.frames) : FramesInv(fd, i)
  BY <1>2
<1> DEFINE t == Said(s, i)
           f == s.frames[i + 1]
           e == End(s, i)
<1>4. /\ Key \in ToSet(s.request) /\ (\A j \in 1..i : Acceptable(s.frames[j]))
      /\ Holds(b, p, w, e, n)
      /\ Cut(o, t, Len(o))
      /\ Holds(q, payload_read_ptr[fd], t, Len(o) * MsgSize, Len(t))
      /\ Len(t) - Len(o) * MsgSize < MsgSize
  BY <1>1, <1>3 DEF FramesInv
<1>5. /\ Avail = n - e /\ e \in Nat /\ i < Len(s.frames)
      /\ Base(0).op = f.op /\ Base(1).masked = f.masked /\ l = Len(f.payload)
      /\ f.payload \in Seq(Alphabet) /\ End(s, i + 1) = e + Len(FrameUnits(f))
  BY <1>1, <1>3, FrameRead
<1>6. f.masked /\ ~(Len(f.payload) > MaxPayload) /\ Avail >= h + l
  BY <1>1, <1>5 DEF Refused, Complete
<1>7. /\ h \in Nat /\ Len(FrameUnits(f)) = h + l
      /\ \A j \in 1..l : w[e + h + j] = f.payload[j]
  <2>1. /\ HeaderLen \in Nat /\ Len(FrameUnits(f)) = HeaderLen + Len(f.payload)
        /\ \A j \in 1..Len(f.payload) : w[e + HeaderLen + j] = f.payload[j]
    <3>1. FrameHeld(w, e, f)
      BY <1>1, <1>3, <1>6, FrameRead
    <3> HIDE DEF w, e, f
    <3> QED
      BY <3>1 DEF FrameHeld
  <2> DEFINE y == f.payload
  <2> HIDE DEF l, w, e, f
  <2> QED
    BY <2>1, <1>5
<1>8. l \in Nat
  BY <1>5, LenProperties
<1>9. Acceptable(f)
  <2>1. MaxPayload \in Nat
    BY GatewayAssumption
  <2> HIDE DEF f
  <2>2. Len(f.payload) <= MaxPayload /\ f.op # "close" /\ f.masked
    BY <1>1, <1>5, <1>6, <1>8, <2>1
  <2> QED
    BY <2>2 DEF Acceptable
<1>10. /\ i + 1 \in 0..Len(s.frames) /\ i \in 0..(Len(s.frames) - 1) /\ i + 1 \in 1..Len(s.frames)
       /\ i \in Nat
  <2> DEFINE N == Len(s.frames)
  <2>1. N \in Nat /\ i < N /\ i \in 0..N
    BY <1>2, <1>5, ScriptTypes
  <2> HIDE DEF N
  <2>2. i + 1 \in 0..N /\ i \in 0..(N - 1) /\ i + 1 \in 1..N /\ i \in Nat
    BY <2>1
  <2> QED
    BY <2>2 DEF N
<1>11. /\ t \in Seq(Alphabet) /\ Len(t) \in Nat /\ Said(s, i + 1) = t \o Data(f)
       /\ Data(f) \in Seq(Alphabet)
  BY <1>2, <1>10, SaidIs, ScriptTypes
<1> HIDE DEF s, b, n, w, o, q, h, l, f, e, t, Says, piece, p
<1>12. n - e >= h + l
  BY <1>5, <1>6
<1>13. Holds(b, p + h + l, w, End(s, i + 1), n) /\ p + h + l \in Nat
  <2>1. h + l \in 0..(n - e)
    BY <1>2, <1>5, <1>7, <1>8, <1>12
  <2>2. Holds(b, p + (h + l), w, e + (h + l), n)
    BY <1>2, <1>4, <2>1, HoldsLess
  <2>3. p + (h + l) = p + h + l /\ p + h + l \in Nat
    BY <1>2, <1>7, <1>8
  <2>4. End(s, i + 1) = e + (h + l)
    BY <1>5, <1>7
  <2> QED
    BY <2>2, <2>3, <2>4
<1>14. piece = f.payload /\ piece \in Seq(Alphabet)
  <2>1. /\ SubSeq(b, p + h + 1, p + h + l) \in Seq(Alphabet)
        /\ Len(SubSeq(b, p + h + 1, p + h + l)) = l
        /\ \A j \in 1..l : SubSeq(b, p + h + 1, p + h + l)[j] = w[e + h + j]
    <3>1. h \in Nat /\ l \in Nat /\ h + l <= n - e
      BY <1>2, <1>5, <1>7, <1>8, <1>12
    <3>2. b \in Seq(Alphabet) /\ w \in Seq(Alphabet) /\ Holds(b, p, w, e, n)
      BY <1>2, <1>4
    <3>3. PieceAt(Alphabet, b, p, w, e, h, l)
      BY <3>1, <3>2, HoldsPiece
    <3> QED
      BY <3>3 DEF PieceAt
  <2>2. piece = SubSeq(b, p + h + 1, p + h + l)
    BY DEF piece
  <2>3. Len(piece) = l /\ piece \in Seq(Alphabet) /\ \A j \in 1..l : piece[j] = f.payload[j]
    BY <1>7, <2>1, <2>2
  <2> DEFINE y == f.payload
  <2>4. y \in Seq(Alphabet) /\ Len(y) = l /\ \A j \in 1..l : piece[j] = y[j]
    BY <1>5, <2>3
  <2> HIDE DEF y
  <2>5. piece = y
    BY <2>3, <2>4, SeqEqual
  <2> QED
    BY <2>3, <2>5 DEF y
<1>15. Data(f) = IF Says THEN piece ELSE << >>
  BY <1>5, <1>14 DEF Data, Says
<1>16. \A j \in 1..(i + 1) : Acceptable(s.frames[j])
  <2>1. \A j \in 1..(i + 1) : j \in 1..i \/ j = i + 1
    BY <1>10
  <2> QED
    BY <1>4, <1>9, <2>1 DEF f
<1>17. /\ payload' = [payload EXCEPT ![fd] = q \o Data(f)] /\ q \o Data(f) \in Seq(Alphabet)
       /\ stage' \in {"frames", "orders"}
  <2>1. CASE Says
    <3>1. q \o piece \in Seq(Alphabet)
      BY <1>2, <1>14, ConcatProperties
    <3> QED
      BY <1>1, <1>15, <2>1, <3>1
  <2>2. CASE ~Says
    <3>1. q \o << >> = q
      BY <1>2, ConcatEmptySeq
    <3>2. payload' = payload /\ stage' = stage
      BY <1>1, <2>2
    <3>3. payload = [payload EXCEPT ![fd] = q]
      BY <1>2 DEF q, GatewayTypes
    <3> QED
      BY <1>1, <1>2, <1>15, <2>2, <3>1, <3>2, <3>3
  <2> QED
    BY <2>1, <2>2
<1>18. GatewayTypes'
  BY <1>1, <1>2, <1>13, <1>17 DEF GatewayTypes
<1>19. \A c \in Conns : c # fd => Elsewhere(c)
  BY <1>1, <1>2, <1>17, SameOrders DEF Elsewhere, GatewayTypes
<1>20. SocketInv(fd)'
  BY <1>1, <1>2 DEF SocketInv
<1>21. OrdersOn(fd)' = OrdersOn(fd)
  BY <1>1, SameOrders
<1>22. OrdersFrom(fd)' = o
  BY <1>1, <1>21 DEF OrdersFrom, o
<1>23. /\ read_ptr'[fd] = p + h + l /\ payload'[fd] = q \o Data(f) /\ InHand(fd)'
       /\ ring'[fd] = b /\ Len(seen'[fd]) = n /\ script'[fd] = s /\ fd' = fd
       /\ payload_read_ptr'[fd] = payload_read_ptr[fd]
  <2>1. read_ptr'[fd] = p + h + l /\ payload'[fd] = q \o Data(f)
    BY <1>1, <1>2, <1>17 DEF GatewayTypes
  <2>2. InHand(fd)'
    BY <1>1, <1>17 DEF InHand
  <2> QED
    BY <1>1, <2>1, <2>2 DEF b, n, s
<1> DEFINE tt == Said(s, i + 1)
<1>24. /\ Cut(o, tt, Len(o))
       /\ Holds(q \o Data(f), payload_read_ptr[fd], tt, Len(o) * MsgSize, Len(tt))
  BY <1>2, <1>4, <1>11, CutKept, HoldsText
<1>25. ~(stage' = "orders") => Len(tt) - Len(o) * MsgSize < MsgSize
  <2> SUFFICES ASSUME stage' # "orders" PROVE Len(tt) - Len(o) * MsgSize < MsgSize
    OBVIOUS
  <2>1. ~Says
    BY <1>1
  <2>2. tt = t \o << >>
    BY <1>11, <1>15, <2>1
  <2>3. tt = t
    BY <1>11, <2>2, ConcatEmptySeq
  <2> HIDE DEF tt
  <2> QED
    BY <1>4, <2>3
<1> HIDE DEF tt
<1>26. FramesInv(fd, i + 1)'
  <2>1. /\ (i + 1 \in 0..Len(s.frames)) /\ Key \in ToSet(s.request)
        /\ Holds(b, p + h + l, w, End(s, i + 1), n)
    BY <1>4, <1>10, <1>13
  <2> QED
    BY <1>16, <1>17, <1>22, <1>23, <1>24, <1>25, <2>1 DEF FramesInv, tt, w
<1>27. ConnInv(fd)'
  BY <1>1, <1>2, <1>10, <1>21, <1>23, <1>26 DEF ConnInv
<1> QED
  BY <1>1, <1>18, <1>19, <1>20, <1>27, HandlerKeepsStream

(* The end of a sequence, when one more comes.                             *)
LEMMA EndOfAppend ==
    ASSUME NEW T, NEW a \in Seq(T), NEW x \in T, NEW e \in Nat, e <= Len(a)
    PROVE  SubSeq(Append(a, x), e + 1, Len(Append(a, x))) = Append(SubSeq(a, e + 1, Len(a)), x)
<1> DEFINE z == Append(a, x)
           l == Len(a)
           u == SubSeq(a, e + 1, l)
           v == SubSeq(z, e + 1, l + 1)
           y == Append(u, x)
<1>1. /\ z \in Seq(T) /\ Len(z) = l + 1 /\ (\A j \in 1..l : z[j] = a[j]) /\ z[l + 1] = x
      /\ l \in Nat /\ (\A j \in 1..l : a[j] \in T) /\ \A j \in 1..(l + 1) : z[j] \in T
  <2>1. z \in Seq(T) /\ Len(z) = l + 1 /\ (\A j \in 1..l : z[j] = a[j]) /\ z[l + 1] = x
    BY AppendProperties
  <2>2. l \in Nat /\ \A j \in 1..l : a[j] \in T
    OBVIOUS
  <2> HIDE DEF z
  <2>3. \A j \in 1..(l + 1) : z[j] \in T
    BY <2>1
  <2> QED
    BY <2>1, <2>2, <2>3
<1>2. e \in 0..l
  BY <1>1
<1> HIDE DEF z, l
<1>3. u \in Seq(T) /\ Len(u) = l - e /\ \A j \in 1..(l - e) : u[j] = a[e + j]
  <2>1. (\A j \in (e + 1)..l : a[j] \in T) /\ e + 1 \in Int /\ l \in Int
    BY <1>1, <1>2
  <2>2. /\ u \in Seq(T) /\ Len(u) = (IF e + 1 <= l THEN l - (e + 1) + 1 ELSE 0)
        /\ \A j \in 1..(l - (e + 1) + 1) : u[j] = a[(e + 1) + j - 1]
    BY <2>1, SubSeqProperties
  <2>3. /\ (IF e + 1 <= l THEN l - (e + 1) + 1 ELSE 0) = l - e /\ l - (e + 1) + 1 = l - e
        /\ \A j \in 1..(l - e) : (e + 1) + j - 1 = e + j
    BY <1>1, <1>2
  <2> QED
    BY <2>2, <2>3
<1>4. v \in Seq(T) /\ Len(v) = l - e + 1 /\ \A j \in 1..(l - e + 1) : v[j] = z[e + j]
  <2>1. (\A j \in (e + 1)..(l + 1) : z[j] \in T) /\ e + 1 \in Int /\ l + 1 \in Int
    BY <1>1, <1>2
  <2>2. /\ v \in Seq(T) /\ Len(v) = (IF e + 1 <= l + 1 THEN (l + 1) - (e + 1) + 1 ELSE 0)
        /\ \A j \in 1..((l + 1) - (e + 1) + 1) : v[j] = z[(e + 1) + j - 1]
    BY <2>1, SubSeqProperties
  <2>3. /\ (IF e + 1 <= l + 1 THEN (l + 1) - (e + 1) + 1 ELSE 0) = l - e + 1
        /\ (l + 1) - (e + 1) + 1 = l - e + 1
        /\ \A j \in 1..(l - e + 1) : (e + 1) + j - 1 = e + j
    BY <1>1, <1>2
  <2> QED
    BY <2>2, <2>3
<1> HIDE DEF u, v
<1>5. /\ y \in Seq(T) /\ Len(y) = l - e + 1 /\ (\A j \in 1..(l - e) : y[j] = u[j])
      /\ y[l - e + 1] = x
  BY <1>3, AppendProperties
<1> HIDE DEF y
<1>6. \A j \in 1..(l - e + 1) : v[j] = y[j]
  <2> TAKE j \in 1..(l - e + 1)
  <2>1. CASE j = l - e + 1
    <3>1. e + j = l + 1
      BY <1>1, <1>2, <2>1
    <3> QED
      BY <1>1, <1>4, <1>5, <2>1, <3>1
  <2>2. CASE j # l - e + 1
    <3>1. j \in 1..(l - e) /\ e + j \in 1..l
      BY <1>1, <1>2, <2>2
    <3> QED
      BY <1>1, <1>3, <1>4, <1>5, <3>1
  <2> QED
    BY <2>1, <2>2
<1>7. v = y
  BY <1>4, <1>5, <1>6, SeqEqual
<1> QED
  BY <1>1, <1>7 DEF v, y, u, z, l

(* An order is cut off and given to the engine.                            *)
LEMMA OrderReadKeepsStream ==
    ASSUME StreamInv, OrderRead
    PROVE  StreamInv'
<1> USE DEF clientVars, buffers
<1> DEFINE s == script[fd]
           o == OrdersFrom(fd)
           q == payload[fd]
           p == payload_read_ptr[fd]
           M == MsgSize
           n == Len(o)
           order == SubSeq(q, p + 1, p + M)
           Q == Seq(Alphabet)
<1>1. /\ stage = "orders" /\ Len(q) - p >= M
      /\ enqueued' = Append(enqueued, <<fd, order>>)
      /\ payload_read_ptr' = [payload_read_ptr EXCEPT ![fd] = p + M]
      /\ UNCHANGED <<clientVars, socket, ready, status, ring, read_ptr, payload,
                     websocket_ready, running_, stage, fd, seen>>
  BY DEF OrderRead
<1>2. /\ fd \in Conns /\ status[fd] = "open" /\ GatewayTypes /\ SocketInv(fd) /\ ConnInv(fd)
      /\ s \in Scripts /\ q \in Seq(Alphabet) /\ p \in Nat /\ Len(q) \in Nat
      /\ websocket_ready[fd] /\ earlier[fd] <= Len(OrdersOn(fd)) /\ earlier[fd] \in Nat
      /\ OrdersOn(fd) \in Seq(Q) /\ Len(OrdersOn(fd)) \in Nat /\ o \in Seq(Q) /\ n \in Nat
      /\ \E i \in 0..Len(s.frames) : FramesInv(fd, i)
  BY <1>1, AtHand
<1>3. PICK i \in 0..Len(s.frames) : FramesInv(fd, i)
  BY <1>2
<1> DEFINE t == Said(s, i)
           w == Wire(s)
<1>4. /\ Key \in ToSet(s.request) /\ (\A j \in 1..i : Acceptable(s.frames[j]))
      /\ Holds(ring[fd], read_ptr[fd], w, End(s, i), Len(seen[fd]))
      /\ Cut(o, t, n) /\ Holds(q, p, t, n * M, Len(t))
  BY <1>1, <1>3 DEF FramesInv
<1>5. M \in Nat \ {0} /\ n * M \in Nat /\ (n + 1) * M = n * M + M
  <2>1. M \in Nat \ {0}
    BY GatewayAssumption
  <2> HIDE DEF M, n
  <2> QED
    BY <1>2, <2>1
<1>6. t \in Seq(Alphabet) /\ Len(t) \in Nat
  BY <1>2, SaidIs
<1>7. Len(t) - n * M >= M
  <2>1. Len(q) - p = Len(t) - n * M
    BY <1>4 DEF Holds
  <2> QED
    BY <1>1, <2>1
<1> HIDE DEF s, o, q, p, M, n, Q, t, w, order
<1>8. order = SubSeq(t, n * M + 1, n * M + M) /\ order \in Seq(Alphabet)
  <2>1. /\ SubSeq(q, p + 0 + 1, p + 0 + M) = SubSeq(t, n * M + 0 + 1, n * M + 0 + M)
        /\ SubSeq(q, p + 0 + 1, p + 0 + M) \in Seq(Alphabet)
    <3> DEFINE k == n * M
               l == Len(t)
    <3>1. 0 \in Nat /\ M \in Nat /\ k \in Nat /\ l \in Nat /\ l - k >= M
      BY <1>5, <1>6, <1>7
    <3>2. q \in Seq(Alphabet) /\ t \in Seq(Alphabet) /\ Holds(q, p, t, k, l)
      BY <1>2, <1>4, <1>6
    <3> HIDE DEF k, l
    <3>3. 0 + M <= l - k
      BY <3>1
    <3>4. /\ SubSeq(q, p + 0 + 1, p + 0 + M) = SubSeq(t, k + 0 + 1, k + 0 + M)
          /\ SubSeq(q, p + 0 + 1, p + 0 + M) \in Seq(Alphabet)
      <4>1. PieceAt(Alphabet, q, p, t, k, 0, M)
        BY <3>1, <3>2, <3>3, HoldsPiece
      <4> QED
        BY <4>1 DEF PieceAt
    <3> QED
      BY <3>4 DEF k
  <2>2. p + 0 = p /\ n * M + 0 = n * M
    BY <1>2, <1>5
  <2> QED
    BY <2>1, <2>2 DEF order
<1>9. Cut(Append(o, order), t, n + 1)
  <2>1. order \in Q
    BY <1>8 DEF Q
  <2>2. Len(t) - n * MsgSize >= MsgSize /\ order = SubSeq(t, n * MsgSize + 1, n * MsgSize + MsgSize)
    BY <1>7, <1>8 DEF M
  <2> QED
    BY <1>2, <1>4, <1>6, <2>1, <2>2, CutMore
<1>10. Holds(q, p + M, t, (n + 1) * M, Len(t)) /\ p + M \in Nat
  <2>1. M \in 0..(Len(t) - n * M)
    BY <1>5, <1>6, <1>7
  <2>2. Holds(q, p + M, t, n * M + M, Len(t))
    BY <1>2, <1>4, <1>6, <2>1, HoldsLess
  <2> QED
    BY <1>2, <1>5, <2>2
<1>11. enqueued \in Seq(Conns \X Seq(Alphabet)) /\ enqueued' \in Seq(Conns \X Seq(Alphabet))
  <2>1. enqueued \in Seq(Conns \X Seq(Alphabet)) /\ <<fd, order>> \in Conns \X Seq(Alphabet)
    BY <1>2, <1>8 DEF GatewayTypes
  <2> QED
    BY <1>1, <2>1, AppendProperties
<1>12. \A c \in Conns : OrdersOn(c)' = IF c = fd THEN Append(OrdersOn(c), order) ELSE OrdersOn(c)
  <2> TAKE c \in Conns
  <2>1. /\ enqueued \in Seq(Conns \X Seq(Alphabet)) /\ fd \in Conns /\ order \in Seq(Alphabet)
        /\ enqueued' = Append(enqueued, <<fd, order>>)
    BY <1>1, <1>2, <1>8, <1>11 DEF order, q, p, M
  <2> QED
    BY <2>1, OrdersOnMore
<1>13. GatewayTypes'
  BY <1>1, <1>2, <1>10, <1>11 DEF GatewayTypes
<1>14. \A c \in Conns : c # fd => Elsewhere(c)
  BY <1>1, <1>2, <1>12 DEF Elsewhere, GatewayTypes
<1>15. SocketInv(fd)'
  BY <1>1, <1>2 DEF SocketInv
<1>16. OrdersFrom(fd)' = Append(o, order)
  <2> DEFINE x == OrdersOn(fd)
             e == earlier[fd]
  <2>1. x \in Seq(Q) /\ e \in Nat /\ e <= Len(x) /\ order \in Q
    BY <1>2, <1>8 DEF Q
  <2>2. OrdersOn(fd)' = Append(x, order) /\ earlier'[fd'] = e
    BY <1>1, <1>2, <1>12
  <2>3. OrdersFrom(fd)' = SubSeq(OrdersOn(fd)', earlier'[fd'] + 1, Len(OrdersOn(fd)'))
    BY DEF OrdersFrom
  <2>4. o = SubSeq(x, e + 1, Len(x))
    BY DEF OrdersFrom, o
  <2> HIDE DEF x, e
  <2>5. SubSeq(Append(x, order), e + 1, Len(Append(x, order))) = Append(SubSeq(x, e + 1, Len(x)), order)
    BY <2>1, EndOfAppend
  <2> QED
    BY <2>2, <2>3, <2>4, <2>5
<1>17. Len(Append(o, order)) = n + 1
  BY <1>2, <1>8, AppendProperties DEF n, Q
<1>18. (earlier[fd] <= Len(OrdersOn(fd)))'
  <2> DEFINE x == OrdersOn(fd)
             e == earlier[fd]
  <2>1. OrdersOn(fd)' = Append(x, order) /\ earlier'[fd'] = e /\ fd' = fd
    BY <1>1, <1>2, <1>12
  <2>2. x \in Seq(Q) /\ order \in Q /\ e \in Nat /\ e <= Len(x) /\ Len(x) \in Nat
    BY <1>2, <1>8 DEF Q
  <2> HIDE DEF x, e
  <2>3. Len(Append(x, order)) = Len(x) + 1
    BY <2>2, AppendProperties
  <2> DEFINE k == Len(Append(x, order))
  <2>4. e <= k
    BY <2>2, <2>3
  <2> HIDE DEF k
  <2>5. Len(OrdersOn(fd)') = k
    BY <2>1 DEF k
  <2> QED
    BY <2>1, <2>4, <2>5
<1>19. /\ payload_read_ptr'[fd] = p + M /\ InHand(fd)' /\ payload'[fd] = q
       /\ script'[fd] = s /\ fd' = fd /\ stage' = "orders"
       /\ ring'[fd] = ring[fd] /\ read_ptr'[fd] = read_ptr[fd] /\ seen'[fd] = seen[fd]
  <2>1. payload_read_ptr'[fd] = p + M
    BY <1>1, <1>2 DEF GatewayTypes
  <2>2. InHand(fd)'
    BY <1>1 DEF InHand
  <2> QED
    BY <1>1, <2>1, <2>2 DEF q, s
<1>20. FramesInv(fd, i)'
  <2> DEFINE oo == Append(o, order)
  <2> HIDE DEF oo
  <2>1. Cut(oo, t, Len(oo)) /\ Holds(q, p + M, t, Len(oo) * MsgSize, Len(t))
    BY <1>9, <1>10, <1>17 DEF oo, M
  <2>2. OrdersFrom(fd)' = oo
    BY <1>16 DEF oo
  <2> QED
    BY <1>3, <1>4, <1>19, <2>1, <2>2 DEF FramesInv, t, w, s
<1>21. ConnInv(fd)'
  BY <1>1, <1>2, <1>3, <1>18, <1>19, <1>20 DEF ConnInv, s
<1> QED
  BY <1>1, <1>13, <1>14, <1>15, <1>21, HandlerKeepsStream

(* No whole order is left: the payload is compacted.                       *)
LEMMA OrdersDoneKeepsStream ==
    ASSUME StreamInv, OrdersDone
    PROVE  StreamInv'
<1> USE DEF clientVars, buffers
<1> DEFINE s == script[fd]
           o == OrdersFrom(fd)
           q == payload[fd]
           p == payload_read_ptr[fd]
           n == Len(o) * MsgSize
<1>1. /\ stage = "orders" /\ Len(q) - p < MsgSize /\ stage' = "frames"
      /\ payload' = [payload EXCEPT ![fd] = Compacted(q, p)]
      /\ payload_read_ptr' = [payload_read_ptr EXCEPT ![fd] = Rewound(p)]
      /\ UNCHANGED <<clientVars, socket, ready, status, ring, read_ptr,
                     websocket_ready, running_, fd, enqueued, seen>>
  BY DEF OrdersDone
<1>2. /\ fd \in Conns /\ status[fd] = "open" /\ GatewayTypes /\ SocketInv(fd) /\ ConnInv(fd)
      /\ s \in Scripts /\ q \in Seq(Alphabet) /\ p \in Nat
      /\ websocket_ready[fd] /\ earlier[fd] <= Len(OrdersOn(fd))
      /\ \E i \in 0..Len(s.frames) : FramesInv(fd, i)
  BY <1>1, AtHand
<1>3. PICK i \in 0..Len(s.frames) : FramesInv(fd, i)
  BY <1>2
<1> DEFINE t == Said(s, i)
           w == Wire(s)
<1>4. /\ Key \in ToSet(s.request) /\ (\A j \in 1..i : Acceptable(s.frames[j]))
      /\ Holds(ring[fd], read_ptr[fd], w, End(s, i), Len(seen[fd]))
      /\ Cut(o, t, Len(o)) /\ Holds(q, p, t, n, Len(t))
  BY <1>1, <1>3 DEF FramesInv
<1>5. Len(t) - n < MsgSize
  <2>1. Len(q) - p = Len(t) - n
    BY <1>4 DEF Holds
  <2> QED
    BY <1>1, <2>1
<1>6. t \in Seq(Alphabet)
  BY <1>2, SaidIs
<1>7. /\ Compacted(q, p) \in Seq(Alphabet) /\ Rewound(p) \in Nat
      /\ Holds(Compacted(q, p), Rewound(p), t, n, Len(t))
  <2> HIDE DEF q, p, t, n
  <2> QED
    BY <1>2, <1>4, <1>6, HoldsCompacted
<1>8. GatewayTypes'
  BY <1>1, <1>2, <1>7 DEF GatewayTypes
<1>9. \A c \in Conns : c # fd => Elsewhere(c)
  BY <1>1, <1>2, SameOrders DEF Elsewhere, GatewayTypes
<1>10. SocketInv(fd)'
  BY <1>1, <1>2 DEF SocketInv
<1>11. OrdersOn(fd)' = OrdersOn(fd)
  BY <1>1, SameOrders
<1>12. OrdersFrom(fd)' = o
  BY <1>1, <1>11 DEF OrdersFrom
<1>13. /\ payload'[fd] = Compacted(q, p) /\ payload_read_ptr'[fd] = Rewound(p) /\ InHand(fd)'
       /\ seen'[fd] = seen[fd] /\ fd' = fd /\ script'[fd] = s /\ ring'[fd] = ring[fd]
       /\ read_ptr'[fd] = read_ptr[fd]
  <2>1. payload'[fd] = Compacted(q, p) /\ payload_read_ptr'[fd] = Rewound(p)
    BY <1>1, <1>2 DEF GatewayTypes
  <2>2. InHand(fd)'
    BY <1>1 DEF InHand
  <2> QED
    BY <1>1, <2>1, <2>2
<1>14. FramesInv(fd, i)'
  <2> DEFINE cp == Compacted(q, p)
             rp == Rewound(p)
  <2>1. Holds(cp, rp, t, Len(o) * MsgSize, Len(t)) /\ payload'[fd] = cp /\ payload_read_ptr'[fd] = rp
    BY <1>7, <1>13
  <2>2. Len(t) - Len(o) * MsgSize < MsgSize
    BY <1>5
  <2> HIDE DEF o, s, cp, rp
  <2> QED
    BY <1>1, <1>3, <1>4, <1>12, <1>13, <2>1, <2>2 DEF FramesInv
<1>15. ConnInv(fd)'
  BY <1>1, <1>2, <1>3, <1>11, <1>13, <1>14 DEF ConnInv
<1> QED
  BY <1>1, <1>8, <1>9, <1>10, <1>15, HandlerKeepsStream

LEMMA StreamStep == StreamInv /\ [ServerNext]_serverVars => StreamInv'
<1> SUFFICES ASSUME StreamInv, [ServerNext]_serverVars PROVE StreamInv'
  OBVIOUS
<1>1. ASSUME LeaveLoop \/ Stop \/ ReadAgain \/ UNCHANGED serverVars PROVE StreamInv'
  <2>1. /\ UNCHANGED <<clientVars, socket, status, buffers, enqueued, seen>>
        /\ ready' \subseteq ready
        /\ \/ stage' = stage /\ fd' = fd
           \/ stage = "wait" /\ stage' = "exited" /\ fd' = fd
           \/ stage = "read" /\ stage' = "wait" /\ fd' = fd
    BY <1>1 DEF LeaveLoop, Stop, ReadAgain, serverVars, clientVars, buffers
  <2> QED
    BY <2>1, QuietKeepsStream
<1>2. ASSUME NEW c \in Conns, Wake(c) PROVE StreamInv'
  <2>1. /\ UNCHANGED <<clientVars, socket, status, buffers, enqueued, seen>>
        /\ ready' \subseteq ready
        /\ stage = "wait" /\ stage' = "read" /\ fd' \in ready
    BY <1>2 DEF Wake
  <2> QED
    BY <2>1, QuietKeepsStream
<1>3. ASSUME NEW c \in Conns, Accept(c) PROVE StreamInv'
  BY <1>3, AcceptKeepsStream
<1>4. ASSUME NEW c \in Conns, Arrive(c) \/ HangUp(c) PROVE StreamInv'
  BY <1>4, SocketKeepsStream
<1>5. ASSUME NEW c \in Conns, Reconnect(c) PROVE StreamInv'
  BY <1>5, ReconnectKeepsStream
<1>6. ASSUME ReadSome \/ ReadEnd \/ Unfinished \/ NoKey \/ Upgrade PROVE StreamInv'
  BY <1>6, ReadSomeKeepsStream, ReadEndKeepsStream, UnfinishedKeepsStream, NoKeyKeepsStream,
     UpgradeKeepsStream
<1>7. ASSUME FrameIncomplete \/ FrameCloses \/ FrameTaken \/ OrderRead \/ OrdersDone PROVE StreamInv'
  BY <1>7, FrameIncompleteKeepsStream, FrameClosesKeepsStream, FrameTakenKeepsStream,
     OrderReadKeepsStream, OrdersDoneKeepsStream
<1> QED
  BY <1>1, <1>2, <1>3, <1>4, <1>5, <1>6, <1>7 DEF ServerNext, Server

(* Wherever the network and the read buffer cut the stream of a connection, *)
(* whatever was compacted, whoever was served in between or had the         *)
(* descriptor before: when the server turns to the socket again, the engine *)
(* has exactly the orders of the units read, once and in order.            *)
THEOREM CutsAreInvisible == ServerSpec => []CutsDoNotMatter
<1>1. ServerSpec => []StreamInv
  BY StreamInit, StreamStep, PTL DEF ServerSpec
<1> QED
  BY <1>1, CutsAreHidden, PTL
=============================================================================
