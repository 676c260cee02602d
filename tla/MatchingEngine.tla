----------------------------- MODULE MatchingEngine -----------------------------
(***************************************************************************)
(* The threads of the engine process (matching-engine/MatchingEngine.cpp): *)
(* the gateway that queues orders, the matching thread, the metrics        *)
(* thread, the Kafka thread of KafkaOffloader, and the main thread that    *)
(* starts and stops them in the order of main.cpp.                         *)
(*                                                                         *)
(* What matching an order does to the book is in OrderBook; here an order  *)
(* makes some number of trades, one event each.  The ingress queue is the  *)
(* bounded first-in first-out queue that MPSCQueue implements for a single *)
(* producer, the gateway.  Of the two latency histograms, which are        *)
(* handled alike, there is one, and of its buckets only the total count.   *)
(*                                                                         *)
(* main never leaves its waiting loop, so the teardown below it runs only  *)
(* in a build that ends the loop; it is modelled as written.               *)
(***************************************************************************)
EXTENDS KafkaOffloader

CONSTANTS
    IngressCapacity,    \* capacity of incomingOrders
    FlushEvery,         \* orders between two flushes of the histogram
    MaxOrders,          \* bound on the orders the gateway receives
    MaxTrades           \* bound on the trades of one order

ASSUME EngineAssumption ==
    /\ IngressCapacity \in Nat \ {0}
    /\ FlushEvery \in Nat \ {0}
    /\ MaxOrders \in Nat /\ MaxTrades \in Nat

VARIABLES
    isRunning,
    incomingOrders,     \* orders, by number of arrival
    received,           \* orders the gateway has handed over so far
    wpc, left,          \* matching thread: next step, trades still to make
    mpc, snapshot,      \* metrics thread: next step, its copy of the histogram
    opc,                \* main thread: next step
    latency_mutex,      \* "free", or the thread that holds it
    local_hist, shared_histogram,
    reported,           \* samples the metrics thread has printed
    sampled,            \* history: samples taken
    next_match_id,
    orders_processed, orders_dropped, trades_executed, trade_events_dropped

matchVars   == <<wpc, left, next_match_id, orders_processed, trades_executed,
                 trade_events_dropped>>
histVars    == <<latency_mutex, local_hist, shared_histogram, sampled>>
metricsVars == <<mpc, snapshot, reported>>
gateVars    == <<received, orders_dropped>>
vars == <<offVars, isRunning, incomingOrders, matchVars, histVars, metricsVars,
          gateVars, opc>>

Init ==
    /\ OffInit
    /\ isRunning = FALSE /\ incomingOrders = << >> /\ received = 0
    /\ wpc = "none" /\ left = 0
    /\ mpc = "none" /\ snapshot = 0
    /\ opc = "new"
    /\ latency_mutex = "free"
    /\ local_hist = 0 /\ shared_histogram = 0 /\ reported = 0 /\ sampled = 0
    /\ next_match_id = 0
    /\ orders_processed = 0 /\ orders_dropped = 0
    /\ trades_executed = 0 /\ trade_events_dropped = 0

-------------------------------------------------------------------------------
(* The gateway: it is open from server.start() to server.stop().            *)

EnqueueOrder ==
    /\ opc = "serving"
    /\ received < MaxOrders
    /\ received' = received + 1
    /\ IF Len(incomingOrders) < IngressCapacity
       THEN /\ incomingOrders' = Append(incomingOrders, received + 1)
            /\ UNCHANGED orders_dropped
       ELSE /\ orders_dropped' = orders_dropped + 1
            /\ UNCHANGED incomingOrders
    /\ UNCHANGED <<offVars, isRunning, matchVars, histVars, metricsVars, opc>>

-------------------------------------------------------------------------------
(* processLoop, the matching thread.                                        *)

WorkCheck ==
    /\ wpc = "check"
    /\ wpc' = IF isRunning THEN "dequeue" ELSE "exited"
    /\ UNCHANGED <<offVars, isRunning, incomingOrders, left, next_match_id,
                   orders_processed, trades_executed, trade_events_dropped,
                   histVars, metricsVars, gateVars, opc>>

(* An order is taken and added; it makes some trades. *)
WorkDequeue ==
    /\ wpc = "dequeue"
    /\ IF incomingOrders = << >>
       THEN wpc' = "check" /\ UNCHANGED <<incomingOrders, left>>
       ELSE /\ incomingOrders' = Tail(incomingOrders)
            /\ left' \in 0..MaxTrades
            /\ wpc' = "matching"
    /\ UNCHANGED <<offVars, isRunning, next_match_id, orders_processed, trades_executed,
                   trade_events_dropped, histVars, metricsVars, gateVars, opc>>

(* One trade of the order: its event is published or dropped. *)
WorkTrade ==
    /\ wpc = "matching" /\ left > 0
    /\ left' = left - 1
    /\ next_match_id' = next_match_id + 1
    /\ \/ PublishAccepted(next_match_id + 1) /\ UNCHANGED trade_events_dropped
       \/ PublishDropped /\ trade_events_dropped' = trade_events_dropped + 1
    /\ trades_executed' = trades_executed + 1
    /\ UNCHANGED <<wpc, isRunning, incomingOrders, orders_processed,
                   histVars, metricsVars, gateVars, opc>>

(* The order is done: its latency is sampled unless it carries no time or   *)
(* is out of range; every FlushEvery-th order flushes the samples.          *)
WorkDone ==
    /\ wpc = "matching" /\ left = 0
    /\ \E n \in {0, 1} : local_hist' = local_hist + n /\ sampled' = sampled + n
    /\ orders_processed' = orders_processed + 1
    /\ wpc' = IF (orders_processed + 1) % FlushEvery = 0 THEN "lock" ELSE "check"
    /\ UNCHANGED <<offVars, isRunning, incomingOrders, left, next_match_id, trades_executed,
                   trade_events_dropped, latency_mutex, shared_histogram,
                   metricsVars, gateVars, opc>>

FlushLock ==
    /\ wpc = "lock" /\ latency_mutex = "free"
    /\ latency_mutex' = "matching"
    /\ wpc' = "add"
    /\ UNCHANGED <<offVars, isRunning, incomingOrders, left, next_match_id, orders_processed,
                   trades_executed, trade_events_dropped, local_hist,
                   shared_histogram, sampled, metricsVars, gateVars, opc>>

FlushAdd ==
    /\ wpc = "add"
    /\ shared_histogram' = shared_histogram + local_hist
    /\ wpc' = "clear"
    /\ UNCHANGED <<offVars, isRunning, incomingOrders, left, next_match_id, orders_processed,
                   trades_executed, trade_events_dropped, latency_mutex,
                   local_hist, sampled, metricsVars, gateVars, opc>>

FlushClear ==
    /\ wpc = "clear"
    /\ local_hist' = 0
    /\ latency_mutex' = "free"
    /\ wpc' = "check"
    /\ UNCHANGED <<offVars, isRunning, incomingOrders, left, next_match_id, orders_processed,
                   trades_executed, trade_events_dropped, shared_histogram,
                   sampled, metricsVars, gateVars, opc>>

ProcessLoop ==
    \/ WorkCheck \/ WorkDequeue \/ WorkTrade \/ WorkDone
    \/ FlushLock \/ FlushAdd \/ FlushClear

-------------------------------------------------------------------------------
(* metricsLoop, the metrics thread.                                         *)

(* The loop condition, and the same test after the sleep. *)
MetricsCheck ==
    /\ mpc \in {"check", "asleep"}
    /\ mpc' = IF ~isRunning THEN "exited" ELSE IF mpc = "check" THEN "asleep" ELSE "lock"
    /\ UNCHANGED <<offVars, isRunning, incomingOrders, matchVars, histVars,
                   snapshot, reported, gateVars, opc>>

(* Wrong on purpose: copies the histogram without the mutex. *)
SnapshotWithoutLock ==
    /\ mpc = "lock"
    /\ mpc' = "copy"
    /\ UNCHANGED <<offVars, isRunning, incomingOrders, matchVars, histVars,
                   snapshot, reported, gateVars, opc>>

SnapshotLock ==
    /\ mpc = "lock" /\ latency_mutex = "free"
    /\ latency_mutex' = "metrics"
    /\ mpc' = "copy"
    /\ UNCHANGED <<offVars, isRunning, incomingOrders, matchVars, local_hist,
                   shared_histogram, sampled, snapshot, reported, gateVars, opc>>

SnapshotCopy ==
    /\ mpc = "copy"
    /\ snapshot' = shared_histogram
    /\ mpc' = "clear"
    /\ UNCHANGED <<offVars, isRunning, incomingOrders, matchVars, histVars,
                   reported, gateVars, opc>>

(* The shared histogram is emptied, the mutex released, the copy printed. *)
SnapshotClear ==
    /\ mpc = "clear"
    /\ shared_histogram' = 0
    /\ latency_mutex' = "free"
    /\ reported' = reported + snapshot
    /\ mpc' = "check"
    /\ UNCHANGED <<offVars, isRunning, incomingOrders, matchVars, local_hist,
                   sampled, snapshot, gateVars, opc>>

MetricsLoop == MetricsCheck \/ SnapshotLock \/ SnapshotCopy \/ SnapshotClear

-------------------------------------------------------------------------------
(* The main thread: start(), then the teardown of main().                   *)

StartEngine ==
    /\ opc = "new"
    /\ isRunning' = TRUE
    /\ StartThread \/ StartFails        \* the result is ignored
    /\ opc' = "spawn"
    /\ UNCHANGED <<incomingOrders, matchVars, histVars, metricsVars, gateVars>>

(* Both threads are started, then the gateway. *)
SpawnThreads ==
    /\ opc = "spawn"
    /\ wpc' = "check" /\ mpc' = "check"
    /\ opc' = "serving"
    /\ UNCHANGED <<offVars, isRunning, incomingOrders, left, next_match_id, orders_processed,
                   trades_executed, trade_events_dropped, histVars, snapshot,
                   reported, gateVars>>

(* server.stop() closes the gateway; ~MatchingEngine calls stop() again. *)
BeginStop ==
    /\ opc \in {"serving", "stopped"}
    /\ isRunning' = FALSE
    /\ opc' = "joinWorker"
    /\ UNCHANGED <<offVars, incomingOrders, matchVars, histVars, metricsVars, gateVars>>

(* Wrong on purpose: does not wait for the matching thread. *)
JoinWorkerNot ==
    /\ opc = "joinWorker"
    /\ opc' = "joinMetrics"
    /\ UNCHANGED <<offVars, isRunning, incomingOrders, matchVars, histVars,
                   metricsVars, gateVars>>

JoinWorker ==
    /\ opc = "joinWorker" /\ wpc = "exited"
    /\ opc' = "joinMetrics"
    /\ UNCHANGED <<offVars, isRunning, incomingOrders, matchVars, histVars,
                   metricsVars, gateVars>>

JoinMetrics ==
    /\ opc = "joinMetrics" /\ mpc = "exited"
    /\ opc' = "stopOffloader"
    /\ UNCHANGED <<offVars, isRunning, incomingOrders, matchVars, histVars,
                   metricsVars, gateVars>>

StopOffloader ==
    /\ opc = "stopOffloader"
    /\ ClearRunning
    /\ opc' = "joinOffloader"
    /\ UNCHANGED <<isRunning, incomingOrders, matchVars, histVars, metricsVars, gateVars>>

JoinOffloader ==
    /\ opc = "joinOffloader" /\ Joined
    /\ opc' = "flush"
    /\ UNCHANGED <<offVars, isRunning, incomingOrders, matchVars, histVars,
                   metricsVars, gateVars>>

(* flush(1000) returns when everything is delivered, or after a second,     *)
(* whatever is in flight by then: its result is not looked at.              *)
Flushed ==
    /\ opc = "flush"
    /\ opc' = "stopped"
    /\ UNCHANGED <<offVars, isRunning, incomingOrders, matchVars, histVars,
                   metricsVars, gateVars>>

(* After the last stop(), by the destructors, the producer is destroyed.    *)
(* What it still holds dies with it and stays in inflight for good.         *)
DestroyProducer ==
    /\ opc = "stopped"
    /\ opc' = "gone"
    /\ UNCHANGED <<offVars, isRunning, incomingOrders, matchVars, histVars,
                   metricsVars, gateVars>>

MainStep == StartEngine \/ SpawnThreads \/ JoinWorker \/ JoinMetrics
            \/ StopOffloader \/ JoinOffloader \/ Flushed

(* librdkafka works as long as the producer lives. *)
Offloading ==
    /\ Run \/ (Client /\ opc # "gone")
    /\ UNCHANGED <<isRunning, incomingOrders, matchVars, histVars, metricsVars, gateVars, opc>>

Next == EnqueueOrder \/ ProcessLoop \/ MetricsLoop \/ MainStep \/ BeginStop \/ DestroyProducer
        \/ Offloading

KafkaThread == Run /\ UNCHANGED <<isRunning, incomingOrders, matchVars, histVars,
                                  metricsVars, gateVars, opc>>

BrokerReachable ==
    /\ ClientDelivers
    /\ opc # "gone"
    /\ UNCHANGED <<isRunning, incomingOrders, matchVars, histVars, metricsVars, gateVars, opc>>

(* The threads keep running.  Nothing is assumed of the mutex: who waits    *)
(* for it may be overtaken any number of times.                             *)
Spec == Init /\ [][Next]_vars
             /\ WF_vars(ProcessLoop) /\ WF_vars(MetricsLoop)
             /\ WF_vars(KafkaThread) /\ WF_vars(MainStep)

(* And librdkafka, while its producer lives, sends what it accepted or      *)
(* gives it up, as it does after message.timeout.ms.                        *)
LiveSpec == Spec /\ WF_vars(BrokerReachable)

-------------------------------------------------------------------------------
(* Properties. *)

(* Every order the gateway handed over is in exactly one place: dropped and *)
(* counted, waiting, in the hands of the matching thread, or processed --   *)
(* also after the threads were stopped.                                     *)
OrdersAccountedFor ==
    received = orders_dropped + Len(incomingOrders) + orders_processed
               + (IF wpc = "matching" THEN 1 ELSE 0)

(* No latency sample is lost or counted twice on its way from the local     *)
(* histogram over the shared one to the report: the flush and the snapshot  *)
(* both read, then clear, and meet at the shared array.                     *)
SamplesConserved ==
    sampled = (IF wpc = "clear" THEN 0 ELSE local_hist)
              + (IF mpc = "clear" THEN 0 ELSE shared_histogram)
              + (IF mpc = "clear" THEN snapshot ELSE 0) + reported

(* The engine's books balance at every moment, whichever threads are inside *)
(* the queue, the histograms or stop(): no order and no sample goes missing *)
(* uncounted.                                                               *)
NothingUncounted == OrdersAccountedFor /\ SamplesConserved

(* stop() joins the matching thread before it tells the Kafka thread to     *)
(* leave, and that one leaves on an empty queue only.  So no accepted event *)
(* stays behind: all were given to librdkafka -- if start() got as far as   *)
(* starting the Kafka thread.                                               *)
StopDrainsEvents ==
    opc = "stopped" /\ worker # "none" => FlattenSeq(handed) = pushed

Stopped == opc \in {"stopped", "gone"}

(* After stop() nothing of the engine moves any more, also while it is      *)
(* destroyed; only librdkafka may still deliver before that.                *)
StoppedIsQuiet ==
    [][Stopped => UNCHANGED <<queue, batch, pushed, handed, worker, wpc, mpc,
                              incomingOrders, orders_processed, shared_histogram>>]_vars

(* stop() returns, whatever the threads are doing when it is called: none   *)
(* waits for the mutex or the queue forever.                                *)
StopReturns == opc = "joinWorker" ~> opc = "stopped"

(* An event accepted by the queue arrives in the partition unless the       *)
(* client fails, and stopping the engine in between does not leave it in    *)
(* the queue or with the thread: at worst it has reached the client, whose  *)
(* one-second flush timed out, when the producer is destroyed.              *)
AcceptedEventsArrive ==
    \A k \in 1..(MaxOrders * MaxTrades) :
        Len(pushed) >= k /\ worker # "none"
            ~> \/ Len(FlattenSeq(log)) >= k
               \/ faults > 0
               \/ opc = "gone" /\ Len(FlattenSeq(log \o inflight)) >= k
===============================================================================
