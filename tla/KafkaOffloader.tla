----------------------------- MODULE KafkaOffloader -----------------------------
(***************************************************************************)
(* Hands trade events from the matching thread to Kafka                    *)
(* (matching-engine/KafkaOffloader.h).                                     *)
(*                                                                         *)
(* publish puts an event into the event queue or drops it; a thread of its *)
(* own takes events out, up to a batch at a time, and gives each batch to  *)
(* librdkafka as one message.  The queue is the first-in first-out queue   *)
(* that SPSCQueue implements, and one tryPush or tryPop is one step; no    *)
(* thread reads published_ and dropped_, so their increments share it.     *)
(*                                                                         *)
(* librdkafka is external: it keeps accepted messages in a queue and       *)
(* delivers them to the broker.  It may refuse a message (its queue is     *)
(* full), give up on one, send one again whose acknowledgement was lost,   *)
(* and overtake one that is being retried.                                 *)
(***************************************************************************)
EXTENDS Naturals, Sequences, SequencesExt

CONSTANTS
    QueueCapacity,      \* QUEUE_CAPACITY
    MaxBatchEvents,     \* MAX_BATCH_EVENTS
    MaxFaults           \* bound on what librdkafka refuses, loses, repeats, reorders

ASSUME OffloaderAssumption ==
    /\ QueueCapacity \in Nat \ {0}
    /\ MaxBatchEvents \in Nat \ {0}
    /\ MaxFaults \in Nat

VARIABLES
    queue,              \* queue_
    running,            \* running_
    worker,             \* the thread: "none", its next step in run(), "exited"
    batch,              \* the events popped so far in this round
    published, dropped, delivered,      \* the three counters
    inflight,           \* messages librdkafka has accepted
    log,                \* messages in the Kafka partition
    faults,             \* history: how often librdkafka failed so far
    pushed,             \* history: events the queue accepted
    handed              \* history: messages given to produce(), refused or not

workerVars == <<worker, batch, delivered, handed>>
pubVars    == <<published, dropped, pushed>>
offVars    == <<queue, running, worker, batch, published, dropped, delivered,
                inflight, log, faults, pushed, handed>>
client     == <<inflight, log, faults>>

OffInit ==
    /\ queue = << >> /\ running = FALSE /\ worker = "none" /\ batch = << >>
    /\ published = 0 /\ dropped = 0 /\ delivered = 0
    /\ inflight = << >> /\ log = << >> /\ faults = 0
    /\ pushed = << >> /\ handed = << >>

-------------------------------------------------------------------------------
(* publish(), called by the matching thread. *)

PublishAccepted(e) ==
    /\ Len(queue) < QueueCapacity
    /\ queue' = Append(queue, e)
    /\ pushed' = Append(pushed, e)
    /\ published' = published + 1
    /\ UNCHANGED <<running, workerVars, dropped, client>>

PublishDropped ==
    /\ Len(queue) >= QueueCapacity
    /\ dropped' = dropped + 1
    /\ UNCHANGED <<queue, running, workerVars, published, pushed, client>>

-------------------------------------------------------------------------------
(* start() and the three parts of stop(), called by the engine. *)

(* start: the client is set up and the thread is started ... *)
StartThread ==
    /\ running' = TRUE
    /\ worker' = "check"
    /\ UNCHANGED <<queue, batch, pubVars, delivered, client, handed>>

(* ... or librdkafka refuses its configuration, and start returns false. *)
StartFails == UNCHANGED offVars

ClearRunning ==
    /\ running' = FALSE
    /\ UNCHANGED <<queue, workerVars, pubVars, client>>

(* Wrong on purpose: waits for a thread that may not exist. *)
JoinedThread == worker = "exited"

(* worker_.join() returns: at once when no thread was started. *)
Joined == worker \in {"none", "exited"}

-------------------------------------------------------------------------------
(* run(), the thread. *)

(* Wrong on purpose: leaves as soon as it is told to. *)
RunLeavesAtOnce ==
    /\ worker = "check"
    /\ worker' = IF running THEN "fill" ELSE "exited"
    /\ UNCHANGED <<queue, running, batch, pubVars, delivered, client, handed>>

(* The loop condition reads running_ ... *)
RunCheck ==
    /\ worker = "check"
    /\ worker' = IF running THEN "fill" ELSE "depth"
    /\ UNCHANGED <<queue, running, batch, pubVars, delivered, client, handed>>

(* ... and, when that is false, whether the queue holds something. *)
RunDepth ==
    /\ worker = "depth"
    /\ worker' = IF queue # << >> THEN "fill" ELSE "exited"
    /\ UNCHANGED <<queue, running, batch, pubVars, delivered, client, handed>>

RunPop ==
    /\ worker = "fill"
    /\ Len(batch) < MaxBatchEvents
    /\ queue # << >>
    /\ batch' = Append(batch, Head(queue))
    /\ queue' = Tail(queue)
    /\ UNCHANGED <<running, worker, pubVars, delivered, client, handed>>

(* The batch is full or the queue ran empty. *)
RunFilled ==
    /\ worker = "fill"
    /\ Len(batch) = MaxBatchEvents \/ queue = << >>
    /\ worker' = IF batch = << >> THEN "check" ELSE "produce"
    /\ UNCHANGED <<queue, running, batch, pubVars, delivered, client, handed>>

(* publishBatch: one message for the batch.  The result of produce() is not *)
(* looked at.                                                               *)
RunProduce ==
    /\ worker = "produce"
    /\ \/ inflight' = Append(inflight, batch) /\ UNCHANGED faults
       \/ faults < MaxFaults /\ faults' = faults + 1 /\ UNCHANGED inflight
    /\ handed' = Append(handed, batch)
    /\ worker' = "count"
    /\ UNCHANGED <<queue, running, batch, pubVars, delivered, log>>

(* Wrong on purpose: the next batch is appended to this one. *)
RunCountKeepingBatch ==
    /\ worker = "count"
    /\ delivered' = delivered + Len(batch)
    /\ worker' = "check"
    /\ UNCHANGED <<queue, running, batch, pubVars, client, handed>>

(* The counter of delivered events grows by the batch, accepted or not. *)
RunCount ==
    /\ worker = "count"
    /\ delivered' = delivered + Len(batch)
    /\ batch' = << >>
    /\ worker' = "check"
    /\ UNCHANGED <<queue, running, pubVars, client, handed>>

Run == RunCheck \/ RunDepth \/ RunPop \/ RunFilled \/ RunProduce \/ RunCount

-------------------------------------------------------------------------------
(* librdkafka and the broker. *)

ClientDelivers ==
    /\ inflight # << >>
    /\ log' = Append(log, Head(inflight))
    /\ inflight' = Tail(inflight)
    /\ UNCHANGED <<queue, running, workerVars, pubVars, faults>>

(* A message is given up; or stored and, unacknowledged, kept to be sent    *)
(* again; or put back behind the ones after it.                             *)
ClientMisbehaves ==
    /\ faults < MaxFaults
    /\ faults' = faults + 1
    /\ inflight # << >>
    /\ \/ inflight' = Tail(inflight) /\ UNCHANGED log
       \/ log' = Append(log, Head(inflight)) /\ UNCHANGED inflight
       \/ Len(inflight) > 1
          /\ inflight' = Append(Tail(inflight), Head(inflight))
          /\ UNCHANGED log
    /\ UNCHANGED <<queue, running, workerVars, pubVars>>

Client == ClientDelivers \/ ClientMisbehaves

-------------------------------------------------------------------------------
(* Properties. *)

(* The batch counts as in the hands of the thread until it is counted. *)
Batching == IF worker = "count" THEN << >> ELSE batch

(* Handing over keeps the stream: what was given to librdkafka, what the    *)
(* thread holds and what the queue holds are the accepted events, each      *)
(* once, in order, cut into batches however the threads interleave.         *)
HandedInOrder == FlattenSeq(handed) \o Batching \o queue = pushed

(* With a client that does its work the partition is a prefix of the        *)
(* accepted events: match ids reach the scoring engine without a gap unless *)
(* an event was dropped before.                                             *)
LogIsPrefix == faults = 0 => IsPrefix(FlattenSeq(log), pushed)

(* publish, run and publishBatch keep the stream in order all the way from  *)
(* the matching thread to the partition.                                    *)
EventsInOrder == HandedInOrder /\ LogIsPrefix
===============================================================================
