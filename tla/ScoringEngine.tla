----------------------------- MODULE ScoringEngine -----------------------------
(***************************************************************************)
(* The scoring engine (telemetry/scoring_engine.py): one process that      *)
(* takes messages of trade events from the Kafka partition, validates the  *)
(* events one by one, publishes metrics to Redis when they are due, and at *)
(* the first violation publishes a score of -1 and exits with code 0.      *)
(*                                                                         *)
(* A publication is three commands, ZADD, HSET and PUBLISH, each of which  *)
(* may raise; the process may be killed between any two steps.  Docker     *)
(* restarts it unless it exited with code 0 (docker-compose.yml), and it   *)
(* starts with an empty validator.  Kafka remembers a position for the     *)
(* consumer group, committed now and then and on close -- what poll        *)
(* returned counts as consumed, validated or not.                          *)
(*                                                                         *)
(* Times are left out: when metrics are due and how many samples have left *)
(* the window is arbitrary, and every latency is one unit, so that the     *)
(* score of an innocent engine is the number of samples in the window.     *)
(***************************************************************************)
EXTENDS TradeValidation, SequencesExt

CONSTANTS
    Logs,           \* the partitions considered: sequences of messages [whole, events]
    StartsLatest,   \* auto.offset.reset is "latest", not "earliest"
    MaxFailures,    \* bound on exceptions and kills
    Nothing         \* what Redis answers before the first write

(* TRADE_EVENT_FORMAT: whole numbers, and a price.                          *)
Event == [match_id : Nat, buy_order_id : Nat, sell_order_id : Nat,
          t0 : Nat, t1 : Nat, t2 : Nat, price : Int, qty : Nat]

Partition == Seq([whole : BOOLEAN, events : Seq(Event)])

(* What publish_metrics writes. *)
Publication == [score : Int, correctness : {"PASSED", "CRITICAL_ERR"}, total_events : Nat]

ASSUME ScoringAssumption ==
    /\ StartsLatest \in BOOLEAN /\ MaxFailures \in Nat
    /\ Logs \subseteq Partition
    /\ Nothing \notin Int \cup Publication

VARIABLES
    partition,      \* the partition
    committed,      \* the group's committed position, -1 if none
    position,       \* messages before this one were returned by poll
    process,        \* "up", "exited" with 0, or "failed"
    looping,        \* main()'s running, which the signal handler clears
    pc,             \* the next step of main()
    todo,           \* events of the current message not yet validated
    accepted,       \* events accepted since the process started
    correctness,    \* state.correctness
    samples,        \* length of state.samples
    report,         \* the metrics being published
    ranking,        \* the contestant's score in the sorted set
    meta,           \* the contestant's hash
    shown,          \* the last message on the channel
    first,          \* history: where the process started to read
    failures        \* history: exceptions and kills so far

kafka     == <<partition, committed>>
validator == <<accepted, correctness, samples>>
redis     == <<ranking, meta, shown>>
scorerVars == <<partition, committed, position, process, looping, pc, todo, accepted,
               correctness, samples, report, ranking, meta, shown, first, failures>>

(* Where a consumer of the group starts: at the committed position, or as   *)
(* auto.offset.reset says -- the end of the partition at that moment may be *)
(* anywhere in what the partition becomes.                                  *)
StartPositions ==
    IF committed >= 0 THEN {committed}
    ELSE IF StartsLatest THEN 0..Len(partition) ELSE {0}

ScorerInit ==
    /\ partition \in Logs
    /\ committed = -1
    /\ position \in StartPositions /\ first = position
    /\ process = "up" /\ looping = TRUE /\ pc = "poll" /\ todo = << >>
    /\ accepted = << >> /\ correctness = "PASSED" /\ samples = 0
    /\ report = Nothing
    /\ ranking = Nothing /\ meta = Nothing /\ shown = Nothing
    /\ failures = 0

-------------------------------------------------------------------------------
(* One round of main(): poll, validate, publish. *)

Leave ==
    /\ process = "up" /\ pc = "poll" /\ ~looping
    /\ pc' = "close"
    /\ UNCHANGED <<kafka, position, process, looping, todo, validator, report, redis, first,
                   failures>>

(* poll returns a message; one that is no whole number of events raises. *)
PollMessage ==
    /\ process = "up" /\ pc = "poll" /\ looping
    /\ position < Len(partition)
    /\ position' = position + 1
    /\ IF partition[position + 1].whole
       THEN pc' = "event" /\ todo' = partition[position + 1].events
       ELSE pc' = "raise" /\ UNCHANGED todo
    /\ UNCHANGED <<kafka, process, looping, validator, report, redis, first, failures>>

(* poll returns nothing. *)
PollNothing ==
    /\ process = "up" /\ pc = "poll" /\ looping
    /\ pc' = "due"
    /\ UNCHANGED <<kafka, position, process, looping, todo, validator, report, redis, first,
                   failures>>

(* Wrong on purpose: a violating event is accepted like any other. *)
DisqualifyNot ==
    /\ process = "up" /\ pc = "event" /\ todo # << >>
    /\ Violation(accepted, Head(todo))
    /\ accepted' = Append(accepted, Head(todo))
    /\ todo' = Tail(todo)
    /\ UNCHANGED <<kafka, position, process, looping, pc, correctness, samples, report, redis,
                   first, failures>>

(* accept: the new sample stays, older ones may have left the window. *)
AcceptEvent ==
    /\ process = "up" /\ pc = "event" /\ todo # << >>
    /\ ~Violation(accepted, Head(todo))
    /\ accepted' = Append(accepted, Head(todo))
    /\ samples' \in 1..(samples + 1)
    /\ todo' = Tail(todo)
    /\ UNCHANGED <<kafka, position, process, looping, pc, correctness, report, redis, first,
                   failures>>

(* Wrong on purpose: only the first event of a message is looked at. *)
MessageDoneEarly ==
    /\ process = "up" /\ pc = "event"
    /\ pc' = "due" /\ todo' = << >>
    /\ UNCHANGED <<kafka, position, process, looping, validator, report, redis, first, failures>>

MessageDone ==
    /\ process = "up" /\ pc = "event" /\ todo = << >>
    /\ pc' = "due"
    /\ UNCHANGED <<kafka, position, process, looping, todo, validator, report, redis, first,
                   failures>>

Report(score) == [score |-> score, correctness |-> correctness', total_events |-> Len(accepted)]

(* disqualify: the reason is recorded, and the score replaced by -1. *)
Disqualify ==
    /\ process = "up" /\ pc = "event" /\ todo # << >>
    /\ Violation(accepted, Head(todo))
    /\ correctness' = "CRITICAL_ERR"
    /\ samples' \in 0..samples
    /\ report' = Report(-1)
    /\ pc' = "zadd"
    /\ UNCHANGED <<kafka, position, process, looping, todo, accepted, redis, first, failures>>

(* The interval has passed: the score is computed from what is in the       *)
(* window ...                                                               *)
MetricsDue ==
    /\ process = "up" /\ pc = "due"
    /\ samples' \in 0..samples
    /\ UNCHANGED <<accepted, correctness>>
    /\ report' = Report(samples')
    /\ pc' = "zadd"
    /\ UNCHANGED <<kafka, position, process, looping, todo, redis, first, failures>>

(* ... or it has not. *)
MetricsNotDue ==
    /\ process = "up" /\ pc = "due"
    /\ pc' = "poll"
    /\ UNCHANGED <<kafka, position, process, looping, todo, validator, report, redis, first,
                   failures>>

-------------------------------------------------------------------------------
(* publish_metrics. *)

Zadd ==
    /\ process = "up" /\ pc = "zadd"
    /\ ranking' = report.score
    /\ pc' = "hset"
    /\ UNCHANGED <<kafka, position, process, looping, todo, validator, report, meta, shown,
                   first, failures>>

(* Wrong on purpose: the hash keeps the metrics of the last good report. *)
HsetOfInnocent ==
    /\ process = "up" /\ pc = "hset"
    /\ meta' = IF report.score = -1 THEN meta ELSE report
    /\ pc' = "publish"
    /\ UNCHANGED <<kafka, position, process, looping, todo, validator, report, ranking, shown,
                   first, failures>>

Hset ==
    /\ process = "up" /\ pc = "hset"
    /\ meta' = report
    /\ pc' = "publish"
    /\ UNCHANGED <<kafka, position, process, looping, todo, validator, report, ranking, shown,
                   first, failures>>

(* After a disqualification main() returns. *)
Publish ==
    /\ process = "up" /\ pc = "publish"
    /\ shown' = report
    /\ report' = Nothing
    /\ pc' = IF correctness = "PASSED" THEN "poll" ELSE "close"
    /\ UNCHANGED <<kafka, position, process, looping, todo, validator, ranking, meta, first,
                   failures>>

-------------------------------------------------------------------------------
(* Ends of the process. *)

(* poll or a Redis command raises. *)
Raise ==
    /\ process = "up" /\ failures < MaxFailures
    /\ pc \in {"poll", "zadd", "hset", "publish"}
    /\ failures' = failures + 1
    /\ pc' = "raise"
    /\ UNCHANGED <<kafka, position, process, looping, todo, validator, report, redis, first>>

(* consumer.close(), which commits when it can, then the exit code. *)
CloseConsumer ==
    /\ process = "up" /\ pc \in {"close", "raise"}
    /\ committed' \in {committed, position}
    /\ process' = IF pc = "close" THEN "exited" ELSE "failed"
    /\ UNCHANGED <<partition, position, looping, pc, todo, validator, report, redis, first,
                   failures>>

Kill ==
    /\ process = "up" /\ failures < MaxFailures
    /\ failures' = failures + 1
    /\ process' = "failed"
    /\ UNCHANGED <<kafka, position, looping, pc, todo, validator, report, redis, first>>

(* SIGTERM or SIGINT. *)
Signal ==
    /\ process = "up" /\ looping
    /\ looping' = FALSE
    /\ UNCHANGED <<kafka, position, process, pc, todo, validator, report, redis, first, failures>>

(* enable.auto.commit, in the background. *)
AutoCommit ==
    /\ process = "up" /\ committed # position
    /\ committed' = position
    /\ UNCHANGED <<partition, position, process, looping, pc, todo, validator, report, redis, first,
                   failures>>

-------------------------------------------------------------------------------
(* restart: on-failure. *)

(* Wrong on purpose: the validator outlives the process. *)
RestartKeeping ==
    /\ process = "failed"
    /\ position' \in StartPositions /\ first' = position'
    /\ process' = "up" /\ looping' = TRUE /\ pc' = "poll" /\ todo' = << >>
    /\ correctness' = "PASSED" /\ samples' = 0 /\ report' = Nothing
    /\ UNCHANGED <<kafka, redis, failures, accepted>>

(* Wrong on purpose: restart: always. *)
RestartAlways ==
    /\ process \in {"exited", "failed"}
    /\ position' \in StartPositions /\ first' = position'
    /\ process' = "up" /\ looping' = TRUE /\ pc' = "poll" /\ todo' = << >>
    /\ accepted' = << >> /\ correctness' = "PASSED" /\ samples' = 0 /\ report' = Nothing
    /\ UNCHANGED <<kafka, redis, failures>>

Restart ==
    /\ process = "failed"
    /\ position' \in StartPositions /\ first' = position'
    /\ process' = "up" /\ looping' = TRUE /\ pc' = "poll" /\ todo' = << >>
    /\ accepted' = << >> /\ correctness' = "PASSED" /\ samples' = 0 /\ report' = Nothing
    /\ UNCHANGED <<kafka, redis, failures>>

-------------------------------------------------------------------------------
Validate == AcceptEvent \/ MessageDone \/ Disqualify
Metrics  == MetricsDue \/ MetricsNotDue \/ Zadd \/ Hset \/ Publish
Main     == Leave \/ PollMessage \/ PollNothing \/ Validate \/ Metrics \/ CloseConsumer

ScorerNext == Main \/ Raise \/ Kill \/ Signal \/ AutoCommit \/ Restart

(* The process and Docker keep going, and a message that is there is        *)
(* returned by some poll.                                                   *)
ScorerSpec == /\ ScorerInit /\ [][ScorerNext]_scorerVars
              /\ WF_scorerVars(Main) /\ WF_scorerVars(Restart) /\ SF_scorerVars(PollMessage)

-------------------------------------------------------------------------------
(* Properties. *)

(* The events of the messages after position i up to position j. *)
EventsIn(i, j) == FlattenSeq([k \in 1..(j - i) |-> partition[i + k].events])

(* A process that starts at position i meets a violation before position j. *)
Offends(i, j) ==
    /\ \A k \in (i + 1)..j : partition[k].whole
    /\ LET es == EventsIn(i, j)
       IN \E n \in 1..Len(es) : Violation(SubSeq(es, 1, n - 1), es[n])

(* What a process has accepted, and what is left of the message in its      *)
(* hands, are the events from where it started to where it is in the        *)
(* partition: none skipped, none twice, across any number of restarts.      *)
JudgedInOrder ==
    process = "up" /\ pc # "raise" => EventsIn(first, position) = accepted \o todo

(* A score of -1 means that there is a violation in consecutive events of   *)
(* the partition.  A restart, which leaves out events or reads some again,  *)
(* must not look like a gap.                                                *)
InnocentNeverPunished ==
    \/ ranking = -1
    \/ meta # Nothing /\ meta.correctness # "PASSED"
    \/ shown # Nothing /\ shown.score = -1
    => \E i, j \in 0..Len(partition) : i <= j /\ Offends(i, j)

(* The three writes of a publication end up saying the same, as long as     *)
(* none of them fails.                                                      *)
StoresAgree ==
    failures = 0 /\ process = "up" /\ pc \in {"poll", "event", "due", "close"} =>
        /\ meta = shown
        /\ ranking = IF shown = Nothing THEN Nothing ELSE shown.score

(* A verdict that was published by a process that ended regularly stands:   *)
(* exit code 0 keeps Docker from starting an engine that forgives.          *)
SentenceStands ==
    [][ranking = -1 /\ (failures = 0 \/ process = "exited") => ranking' = -1]_scorerVars

(* While an engine is up and nobody stops it, the violation ahead of it is  *)
(* found and published -- unless the process fails first.                   *)
GuiltyArePunished ==
    process = "up" /\ Offends(first, Len(partition))
        ~> \/ ranking = -1 /\ meta # Nothing /\ meta.correctness # "PASSED"
           \/ process = "failed" \/ ~looping

(* "First validation failure sets score = -1.0 (permanent)"                 *)
(* (DESIGN_TECHNICAL.md, 4.3): nothing takes a score of -1 back.            *)
DisqualifiedForever == [][ranking = -1 => ranking' = -1]_scorerVars
===============================================================================
