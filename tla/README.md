# trade_plat: verification project

trade_plat is a trading-contest platform. A contestant's bot talks to a
price-time-priority matching engine (C++) over WebSocket; the engine's trades go
through Kafka to a scoring engine (Python) that validates them, scores the
contestant in Redis and disqualifies it at the first bad trade; an API and a web
page show the leaderboard and start evaluations. This directory holds TLA+
models of these programs, TLC configurations that check them on small instances,
and proofs, checked by TLAPS, of what holds for every instance.

Everything is translated from the source. `PROJECT.json` gives, for each
definition, the source lines it stands for (`map`), what each run checks
(`runs`), for every checked property a wrong version of the code that breaks it
(`mutants`), what can go wrong and where (`hazards`), and the theorems.

## 1. Inventory

| Part | Source | State | Operations |
|---|---|---|---|
| Limit order book | `matching-engine/OrderBook.h`, `MatchingEngine.cpp:169-268` | two maps price -> vector of orders, index id -> (side, price, position), next match id | addOrder (insert, then match), matching, cancelOrder, eraseAt |
| Ingress queue | `matching-engine/MPSCQueue.h` | ring of cells with sequence numbers, enqueue_pos, dequeue_pos | enqueue (any thread), dequeue (matching thread) |
| Event queue | `matching-engine/SPSCQueue.h` | ring, head, tail | tryPush (matching thread), tryPop (Kafka thread), approxSize (both, and the metrics thread) |
| Kafka offloader | `matching-engine/KafkaOffloader.h` | event queue, running flag, counters, librdkafka producer | start, stop, publish, run, publishBatch |
| Matching engine threads | `matching-engine/MatchingEngine.cpp` | isRunning, counters, latency histograms (local and shared, under a mutex) | start, stop, enqueueOrder, processLoop, metricsLoop |
| WebSocket gateway | `matching-engine/networking/TCPServer.cpp`, `Protocol.h` | per connection: handshake done, unread bytes, unread payload; epoll set | accept, handleClientData, close, start, stop |
| Scoring engine | `telemetry/scoring_engine.py` | per process: last match id, last event, counters, window; Redis hash and leaderboard; Kafka position | validate and accept an event, publish metrics, disqualify, restart by the container runtime |
| Telemetry API | `telemetry/api.py` | per stream: subscription and time of the last rows; the staging directory of each contestant | read_leaderboard, leaderboard_stream, receive_submission, run_detached_orchestrator |
| Leaderboard page | `leaderboard/src/App.jsx` | rows shown, upload form | one request for the rows, event stream with reconnection, upload |
| Evaluation orchestrator | `infra/orchestrator.py` | image tag of a contestant, the one pod, a scoring process, a recipe in the staging directory | run: connect, namespace and policy, detect the language, build, start scoring, replace the pod, wait, clean up |
| Bot fleet | `bot-fleet/main.py` | per bot: reader, writer, running, counters of orders, failures and drops | connect, read_loop, send_order, three strategies, disconnect |
| Sandbox SDK | `sample_bot/` | order sequence from a random start | buy, sell |
| Memory pool | `matching-engine/MemoryPool.h` | free list, blocks | allocate, deallocate (no production caller) |
| Load-test bench | `bench/run_loadtest.py` | run number, samples of a run, summaries | restart_stack, wait_until_ready, run_bot_fleet, harvest_scoring_samples, summarize, aggregate |
| Deployment | compose, k8s, terraform | declarative | - |

### How the parts interact

    bot --WebSocket--> gateway --enqueueOrder--> MPSCQueue --dequeue--> matching thread
        (addOrder, matching) --publish--> SPSCQueue --tryPop--> Kafka thread --produce--> Kafka
        --poll--> scoring engine --HSET/ZADD/PUBLISH--> Redis --> API --SSE--> page
    page --upload--> API --spawn--> orchestrator --starts--> scoring engine and engine pod

In the engine there are four threads: epoll (gateway), matching, Kafka, metrics.
The two queues are the only way orders and events pass between them; both drop
what does not fit and count it. The telemetry programs share Redis and nothing
else. Orchestrator, API and page only start and observe the others.

### What is hard, and what makes each part correct

* **Limit order book.** A sequential program with redundant state: the index
  stores *positions* in vectors that shift on every erase. Correct means: book
  never crossed at rest, no empty level, every level in arrival order, the index
  addresses exactly the resting orders, a cancellation removes the right order,
  and the whole is price-time priority. Ids come from the clients and nothing
  makes them unique, so what survives reuse is a question of its own.
* **Ingress queue.** Lock-free, with producers that stop between any two
  instructions, old positions and a ring that laps them. Correct means: a bounded
  queue in claim order; a cell never shared; refused only when full.
* **Event queue and offloader.** A lock-free ring whose size is read by threads
  that own neither end; a flag that stops the consumer while the producer may
  still push. Correct means: FIFO without loss of what was accepted, stop drains
  the queue and terminates, counters add up.
* **Engine threads.** Start and stop orders, orders left in the ingress queue when
  the matching thread leaves, histogram hand-over under a mutex.
* **Gateway.** TCP hands over bytes in arbitrary pieces: a frame header, a payload
  or an order can be cut anywhere. Correct means: the orders that reach the engine
  depend on the bytes only, never on where they were cut.
* **Scoring engine.** Sees the trade stream after up to three lossy hops, restarts
  with empty state, and writes Redis in several commands. Correct means: an honest
  engine is never disqualified, a dishonest one is, and stays so.
* **API and page.** The ranking and the hashes are read by several commands while
  they are written by several; messages reach present subscribers only; the
  answer to the page's request races the stream, and the subscription may start
  after the first rows were read. Correct means: from then on no publication is
  missed, the rows sent for a message contain it, and the page ends up with what
  Redis has.
* **Orchestrator.** One process per upload, and all of them share one pod name; those of one
  contestant share a directory and an image tag as well. Any call may fail. Correct
  means: nothing outlives an evaluation, a contestant's own code runs, a
  reported result is a result, and every evaluation ends whose build does.
* **Bot fleet.** Sender, reader and connect of a bot share `self.writer` on one
  event loop, and the reader of a lost connection lives on while a new one is made.
  Correct means: only the lost connection is closed, every order and every drop
  counts once, no order waits forever for anything but a silent server.
* **Load-test bench.** Reads the log of a process that outlives its runs, crashes
  and leaves, by commands whose failure it does not notice. Correct means: a report
  of PASSED hides no verdict, and the events claimed for a run are its own and at
  most those it found unread.
## 2. What each module models

| Module | Models | Extends / instantiates |
|---|---|---|
| `LimitOrderBook` | abstract promise of the matching core | |
| `OrderBook` | `OrderBook.h`, `addOrder`, `matching`, `cancelOrder` | implements `LimitOrderBook` |
| `ReservationQueue` | abstract promise of the ingress queue | |
| `MPSCQueue` | `MPSCQueue.h` | implements `ReservationQueue` |
| `EventQueue` | abstract promise of the event queue | |
| `SPSCQueue` | `SPSCQueue.h` | implements `EventQueue` |
| `KafkaOffloader` | `KafkaOffloader.h` and librdkafka | |
| `MatchingEngine` | threads of `MatchingEngine.cpp`, teardown of `main.cpp` | extends `KafkaOffloader` |
| `TCPServer`, `MCTCPServer` | `TCPServer.cpp`; the clients of the runs | |
| `TradeValidation` | `validate`, `check_price_priority` of the scoring engine | |
| `ScoringEngine`, `MCScoringEngine` | `main` of the scoring engine; the partitions of the runs | extends `TradeValidation` |
| `TradePipeline`, `MCTradePipeline` | an honest engine judged by the validator | extends `LimitOrderBook`, `TradeValidation` |
| `Evaluation`, `MCEvaluation` | upload handler of `api.py`, `orchestrator.py`, the pod and the scoring process; the uploads of the run | |
| `Dashboard` | `publish_metrics`, `read_leaderboard` and the event stream of `api.py`, the rows of `App.jsx` | |
| `BotFleet` | one bot of `bot-fleet/main.py` on the asyncio loop | |
| `LoadTest` | `run_loadtest.py` beside the scoring engine it observes | |
| `X_proofs` | the theorems about `X`: `OrderBook`, `TradePipeline`, `MPSCQueue`, `SPSCQueue`, `MatchingEngine`, `Evaluation`, `Dashboard`, `LoadTest` | extends `X`, `TLAPS` |

The modules meet through the abstract specifications: `OrderBook` implements
`LimitOrderBook` (proved), and `TradePipeline` uses `LimitOrderBook` as its
engine. The queues inside `MatchingEngine` are the FIFO queues that `SPSCQueue`
and `MPSCQueue` are shown to implement (checked with liveness, proved without).
`Dashboard` starts where `ScoringEngine` ends, with its three writes;
`Evaluation` starts and ends the scoring process that `ScoringEngine` models
from within, and `LoadTest` reads what it prints.

### LimitOrderBook and OrderBook

`levels[side][price]` is `buyOrders` and `sellOrders`, a sequence per price;
`orderMap` is the index with the fields of `OrderLocation` (positions count from
one); `trades` are the events handed to the offloader, so that `Len(trades)` is
`next_match_id`. `AddOrder` is `addOrder` up to the call of `matching`; one
`MatchStep` is one iteration of the loop; `MatchDone` is its exit; `CancelOrder`
is `cancelOrder`. While `pc = "matching"` nothing else happens: the book belongs
to one thread. `Erased` and `Refreshed` are the two halves of `eraseAt`. A quantity
is a `uint32_t` on the wire and an `int` in the book: `Narrowed` makes the upper half
of `Quantities` negative (`IntLimit` is 2^31 in the code). Nothing in the code stops a
negative order, which trades like a filled one and adds to the other side. Left
out: the timestamps, except which order is the taker, and the branch for a level
without orders, which is dead code (`LevelsNeverEmpty`).

`LimitOrderBook` has no levels and no index: a set of resting orders from which
the best bid and the best ask trade, by price and then by arrival, at the price
of the older one. `OrderBook!Lob` maps the book to it by the set of its orders.

### MPSCQueue and SPSCQueue

One action per access to memory that another thread writes. `MPSCQueue`: loading
`enqueue_pos_`, the three-way test of the cell's sequence number, the
compare-and-swap (which may also fail spuriously, as `compare_exchange_weak`
may), writing the data, publishing; and the consumer's four steps.
`ReservationQueue`, what it implements, is a queue in which a place is first
reserved and later filled, because a producer may stop in between: the consumer
does not pass an unfilled place. `Pending` is the refinement mapping: the
places from `Released` to `enqueue_pos`, filled when the cell's sequence number
says so. Positions are natural numbers; the 64-bit wrap-around is out of reach
of any run of the program.

`SPSCQueue`: indices wrap around at `WordSize` (2^64 in the code, 8 in the run),
the power-of-two capacity divides it, and each side reads the other's index in a
step of its own. It implements the bounded FIFO of `EventQueue`.

The acquire and release orderings of both queues are the ones under which
interleaving the accesses is sound; weaker memory orders are not modelled.

### KafkaOffloader and MatchingEngine

Five threads: gateway (`EnqueueOrder`), matching (`ProcessLoop`), metrics
(`MetricsLoop`), Kafka (`Run`), and main (`StartEngine` ... `Flushed`), plus
librdkafka (`Client`). Each has its own program counter (`wpc`, `mpc`, `worker`,
`opc`). The loop condition of `run`, which reads the flag and then the queue's
size, is two steps; `stop` is the sequence of joins of the code. librdkafka may
refuse, lose, repeat or overtake a message, `MaxFaults` times. It delivers
(`BrokerReachable`) only while the producer lives: `flush(1000)` may return with
messages undelivered (`Flushed`), and `DestroyProducer` ends the engine with whatever
is then still in flight. A process that is killed is outside this module. The
histograms are numbers of samples; the mutex is a variable whose holder is named.

### TCPServer

Descriptors are `Conns`. What a client sends is a script: a request and frames,
as a sequence of units (an HTTP line, the parts of a frame header, payload
units, `MsgSize` of which are one order). TCP delivers any number of units at a
time; the server reads up to `BufferSize`; epoll reports a descriptor once per
arrival (edge-triggered). `data`, `read_ptr`, `payload`, `payload_read_ptr`,
`websocket_ready` are the fields of `RingBuffer`. Frames that exceed `MaxPayload`
or are not masked close the connection. A closed descriptor is given to the next
client. `ScriptOf` says what a script is: the request ends with its first empty line,
and a client whose request has none has not come to its frames. `running_` is the
`running` of the server and `LeaveLoop` the exit of its loop; the scoring engine has
names of its own for the same (section 4). Left out: SHA-1 and base64 of the answer, the masking, socket set-up and
its failures, and the conversion of the order's fields but for the quantity, which
`OrderBook` narrows.

### TradeValidation, ScoringEngine, TradePipeline

`Violation(accepted, e)` is `validate`: `Malformed` for the checks of the event
alone, `Gap`, `Retrograde` and `PassedOver` for those that look at the event
accepted before. Prices are ticks far above `PRICE_EPSILON`.

`ScoringEngine` is the process: `poll`, one step per event, the three Redis
commands as three steps, exceptions, kills, signals, exit codes and Docker's
`restart: on-failure`. Kafka's group position is committed at any time for what
`poll` returned, and a process without one starts anywhere ("latest"). The
orchestrator runs the same program without a restart; that is the case of no
`Restart` step.

`TradePipeline` puts an honest engine in front of the validator, with what
clients and platform may do wrong as explicit *slips*: a lost event, an engine
that starts again, and an order whose stamps are off.

### Evaluation

One upload is a number; `Owner` is its `contestant_id`, `Lang` the language of
its files. `receive_submission` never awaits, so it is two steps of the one event
loop (`ClearDirectory`, then `Extract` or `RefuseArchive`), between which only
other *processes* move. Each orchestrator is a process with its own `pc`, one
action per call of `run`; every call that can fail may (`Fault`), and goes to
the `finally` block (`Raise`): `Popen` of the scoring process may, and so may the read
in `delete_old_sandbox_pod`, where only the API's own exception is caught
(`AwaitGone`). `TagImage` is the end of `docker build`, which may never come. What they share is what the code names alike: the
staging directory (`dir`) and the image tag (`image`) of a contestant, and the
pod `active-contestant-sandbox` (`pod`), whose image is looked up when it
starts. Files and recipe are separate parts of a directory, since an upload may
replace the files between the detection of the language and the build.

### Dashboard

A publication is a version number per contestant: `score` is what ZADD wrote,
`meta` what HSET wrote, and the message carries the version. `ReadScores` and
`ReadMeta` are ZREVRANGE and the HGETALLs of `read_leaderboard`, for either reader:
the stream and the page's one request (`fetch`). The ranking is known by who its
first `Limit` members are (`top`; 25 in the code): a ZADD may bring a contestant in and
push another out. `Subscribe` only sends the command; Redis takes it later
(`SubscriptionStarts`), perhaps after the first rows were read over the other
connection. `covered` remembers whether it had the subscription when the stream last
read. Redis hands a message to whoever is subscribed. A stream breaks and is opened again by `EventSource`; the
page replaces its rows by whatever arrives.

### BotFleet

The asyncio loop is the sequence `ready` of scheduled callbacks, run in order,
each up to the next `await` that has to wait. Transports schedule `lost`, `eof`
and so on as asyncio does; `ReadLoop`, the steps of `connect` (`ConnectLoop`,
`OpenReturns`, `Upgraded`, `UpgradeRefused`, `ClosedRefused`), of `send_order`
(`CheckWriter`, `WriteOrder`, `DrainReturns`) and of the strategies
(`NextOrder`, `Sleep`, `NextRound`) are the bot's. Connection `k` is the k-th
that the bot opens; `current` is `self.writer`. A transport that is closed with data
in its buffer writes it first (`flushing`, `Flush`, `Flushed`), so that a drain returns
and its order counts as sent; one with an empty buffer is lost at once. An answer to
the upgrade longer than the reader's limit ends the bot's task (`UpgradeOverrun`, `at =
"failed"`). The server may stay silent, read nothing, refuse, answer badly or hang up.

### LoadTest

`Main` is `main` of the harness: restart or readiness, the load, the harvest,
`Summarize`, `Aggregate`. `Stack` is the scoring engine as the harness sees it:
it accepts, disqualifies and leaves, prints samples, crashes and comes back
with its counter at zero. The harness looks neither at the result of `compose down`
nor at that of `compose logs`: `Restart` may find the old topic, container and
log again, in any combination (`OldStack`), and `Harvest` gets any first part of the
log. A sample is reduced to whether there is throughput, the counter and the verdict.
`truth` remembers what really happened in each run: what it produced, what it found
counted (`carried`) and what it found unread (`unread`).

## 3. Runs, bounds and fairness

| Run | Shows | Bounds |
|---|---|---|
| `order_book` | index, levels and trades stay right; price-time priority; the loop ends | 3 orders with 3 unique ids, 2 prices, quantities 0 to 2 and −1 (15 of 4 bits), any cancellations |
| `mpsc_queue` | cells exclusive, refused only when full, reservation queue with its liveness: everything accepted is delivered | 2 producers with 3 calls each, 2 cells: three laps |
| `spsc_queue` | slots exclusive, bounded FIFO with its liveness: everything accepted is popped | 2 slots, 3-bit indices, 12 pushes: the indices wrap around |
| `engine` | orders, samples and events accounted for; stop drains, returns and is final; what was accepted arrives or is with the client at the end | 2 orders, 1 trade each, queues of 1, batches of 2, 1 client failure |
| `gateway` | the cuts of the stream do not matter; nothing that arrived stays unread | 1 descriptor, 2 clients in turn out of 5 scripts, reads of at most 3 units, orders of 2 units |
| `scoring` | judged in order, only violations punished, verdicts stand, violations found | 6 partitions of up to 3 messages, 2 faults |
| `scoring_restart` | (violation) a verdict is taken back after a crash | as above, 1 fault |
| `pipeline` | no honest engine is disqualified without a slip; a lost event is noticed | 4 orders, 2 prices, quantities 1 and 2, clock 1 to 2, 1 slip |
| `evaluation` | nothing outlives an evaluation; own code runs; a result is a result; evaluations end unless a build does not | 3 uploads of 2 contestants in 3 languages, 2 under way at a time, 1 failing call |
| `dashboard` | no publication missed once subscribed; updates are fresh; only the page's own request takes a row back; the page catches up | 2 contestants for 1 row, 2 publications, 1 event on its way, 2 failures |
| `bot_fleet` | only the lost connection is closed; everything counted once; no order waits but for a silent server | 3 connections, 3 orders, the run ends at any point |
| `load_test` | PASSED hides no verdict of a whole log; a run's events are its own and those it found unread | 2 runs, 2 events and 2 samples per run, 1 crash |

Why the bounds are enough: in `order_book` three orders of up to two units give
sweeps over two levels, partial fills on both sides, orders behind others at one
level and erasures in front of them; what holds there is also proved for every
instance, but for the liveness. The queues go around the ring
more often than any position can be old. In `engine` one order fills each queue,
so refusals, drops, batches of one and two, and stop at every point occur; a
third order multiplies the states and adds no new situation. In `gateway` a read
can end after any unit, an order can lie across two frames, and the second
client finds what the first left. In `pipeline` three trades are needed to lose
the middle one, and four orders to make three trades. In `evaluation` an upload
of another contestant lies between two of one contestant, so that directory, tag
and pod are each fought over and each left over; the one failing call can be any.
In `dashboard` the second publication falls between any two commands of a read
that the first caused, by the same contestant or by the other, who then may or may not
take the one row. In `bot_fleet` the third
connection is made while the first still has a reader and the second is being
lost; the last connection holds, so that a bot that is alive can be told from
one that waits. In `load_test` the second run inherits a counter, a backlog and
a last sample from the first, with and without a restart, and with one that
failed.

Where a run has `CHECK_DEADLOCK FALSE` the system really stops: no more input
within the bound, the engine stopped, the processes ended.

Fairness:

* `OrderBook`: weak fairness of the loop's steps; a thread in a loop goes on.
* `MPSCQueue`: weak fairness of each producer inside `enqueue` and of the
  consumer; the matching thread polls forever, and no producer stops for good
  between claim and publication. A producer may be delayed arbitrarily.
* `SPSCQueue`: weak fairness of the consumer, and of the producer inside a push.
* `MatchingEngine`: weak fairness of each thread, none for the mutex (whoever
  waits may be overtaken), and, for what concerns delivery, of librdkafka, but only
  while the producer lives; `flush` may time out before everything is delivered.
* `TCPServer`: weak fairness of the epoll thread, and strong fairness of each
  descriptor's turn: `epoll_wait` returns the ready ones in turn. None of clients
  and network.
* `ScoringEngine`: weak fairness of the process and of Docker, and strong
  fairness of `PollMessage`: a message that is there is returned by some poll,
  although other polls return nothing.
* `Evaluation`: weak fairness of the event loop (a handler ends, a task runs), of
  each orchestrator process, and of the removal of a deleted pod. None of bots
  and of scoring processes (a bot may run forever), and none of `docker build`, which
  runs the contestant's own steps without a timeout: `EvaluationsEnd` allows for
  evaluations that stay in their build.
* `Dashboard`: weak fairness of the stream, of the page's request and of its
  handler. None of the publishers: one may stop between any two commands. None of the
  subscription either, which may never start: the page catches up by the tick.
* `BotFleet`: weak fairness of the event loop and of timers, and of an attempt to
  connect, which the system ends one way or the other. None of the server: it need not
  answer the upgrade, since the handshake has no timeout, and need not read, since
  `drain` has none. `OrdersGoOut` names these two waits (`Unanswered`, `Unread`) and the
  task that has failed; there is no other.
* `LoadTest`: none, its properties are safety.

## 4. What is proved

Eight modules hold theorems; each one says what it proves and how in its header.
The assumptions are those on the constants: types; for the rings that `Capacity`
is at least 2, and for the event queue that it divides `WordSize`; for the
evaluation that no contestant is called like the directory the workspaces lie in
(`WorkspaceAssumption`); for the scoring engine that a partition holds events as
`TRADE_EVENT_FORMAT` packs them; for the gateway that a script is one (`ScriptOf`,
see `TCPServer` in section 2). The environment is that of the specification,
with every fault it contains.

Two modules also treat neighbouring components, by the neighbours' own
specifications: `MatchingEngine_proofs` the gateway in front of the engine
(`ServerSpec`) and the scoring engine behind it (`ScorerSpec`), `LoadTest_proofs` the
bot that makes the load (`BotSpec`). They extend all these modules, which is why the
neighbours have names of their own for what every module has (`ScorerInit`,
`ServerNext`, `botVars`) and for a few variables and actions: `ring` for
`RingBuffer::data`, `running_` and `LeaveLoop` in the gateway, `looping` for the
`running` of the scoring engine's `main`. The neighbours share no variable; no theorem
is about two of them together.

| Theorem | Property of the run | Inductive invariant |
|---|---|---|
| `OrderBook_proofs`: `TypeCorrect`, `LevelsNeverEmpty`, `NeverCrossed`, `ArrivalOrderKept` (any ids); `TrackedAreFindable`, `RestingAreTracked`, `CancelIsExact`, `BookIsPriceTime` (unique ids) | `NotCrossed`, `TrackedFindable`, `RestingTracked`, `PriceTimePriority` | `ShapeInv`, `AgeOfLevels`, `IndexInv` |
| `OrderBook_proofs`: `FillsAlwaysAddUp` (unique ids) | `FillsAddUp` | `FillInv` |
| `TradePipeline_proofs`: `HonestNeverPunished` | `NoFalsePositive` | `CrossInv`, `LastInv`, `LogInv`, `JudgeInv` |
| `TradePipeline_proofs`: `AcceptedRunUnbroken` | `AcceptedIsUnbroken` | `Telling`, `Unbroken` |
| `MPSCQueue_proofs`: `CellsAreExclusive`, `RefusesOnlyWhenFull`, `RingIsReservationQueue` | `ExclusiveCell`, `RefusedOnlyWhenFull`, safety of `IsReservationQueue` | `RingInv` |
| `SPSCQueue_proofs`: `SlotsAreExclusive`, `RingIsQueue` | `SlotExclusive`, safety of `IsEventQueue` | `RingInv` |
| `MatchingEngine_proofs`: `BooksBalance`, `StopIsFinal` | `NothingUncounted`, `StoppedIsQuiet` | `BooksInv` |
| `MatchingEngine_proofs`: `EventsStayInOrder`, `StopLosesNoEvent` | `EventsInOrder`, `StopDrainsEvents` | `EventsInv`, `JoinedInv` |
| `MatchingEngine_proofs`: `EventsAreJudgedInOrder`, `InnocentStayUnpunished`, `PublicationsAgree`, `RegularSentenceStands` | `JudgedInOrder`, `InnocentNeverPunished`, `StoresAgree`, `SentenceStands` | `ScorerInv`, `SentenceInv` |
| `MatchingEngine_proofs`: `EdgesAreNotMissed` | `NoMissedEdge` | `EdgeInv` |
| `MatchingEngine_proofs`: `CutsAreInvisible` | `CutsDoNotMatter` | `StreamInv` |
| `Evaluation_proofs`: `EvaluationsCleanUp` | `NothingOutlives` | `ReapInv` |
| `Evaluation_proofs`: `PodsRunTheirOwnCode`, `FinishedMeansRan` | `OwnCodeRuns`, `AloneIsSound` | `CodeInv` |
| `Dashboard_proofs`: `UpdatesAreFresh`, `StreamMissesNothing` | `UpdateIsFresh`, `NothingMissed` | `StreamInv` |
| `Dashboard_proofs`: `StreamTakesNothingBack` | `OnlyTheAnswerGoesBack` | `PageInv` |
| `LoadTest_proofs`: `PassedIsHonest` | `PassedMeansNoVerdict` | `VerdictInv` |
| `LoadTest_proofs`: `RunEventsAccounted` | `EventsAreAccountedFor` | `InheritInv` |
| `LoadTest_proofs`: `OrdersAndDropsCounted`, `HealthyStaysOpen` | `AllCounted`, `HealthyConnectionKept` | `BotInv`, `HealthyInv` |

**Order book.** The quantities are any that an `int` holds, negative ones included;
assumed is only that the magnitudes of `MaxOrders` orders fit an `int` together, when
there are negative ones at all (`NoOverflow`), since an overflow is undefined
behaviour. `TypeCorrect` therefore does not say that quantities stay at or above zero:
it says that one is negative only as it was submitted.
`ShapeInv`, types and no empty level, is inductive by itself:
additions make a level longer, and the loop and cancellations drop the level
they drain. `NotCrossed` follows from the loop's exit condition and from
`CancelOrder` only removing orders. `AgeOfLevels` (levels ordered by number, all
numbers at most `Len(arrived)`) gives the arrival order: an order that arrives
has a number above all others and goes to the back. For the index, `IndexInv`
says that orders and entries correspond one to one, and that an id in the book
belongs to an order that arrived. It needs unique ids: an order that arrives
carries an id that no resting order has. The heart is the lemma that `Refreshed`
after `Erased` restores the positions of the one level that shifted and leaves
the entries of all other levels alone, which is what fails when an id occurs
twice. The refinement maps the book to the set of its orders; the lemmas show
that the first order of the best level is the one that precedes all others.
`FillInv` relates four records kept by different steps: what arrived, what rests,
what traded and what was cancelled. Each order's trades and remainder make its
quantity, and an order that is in no level is filled or cancelled. A trade is a
new element of the set that is summed, since it gets a new `match_id`, and the
sums change by its quantity for its two orders and for no other; unique ids make
"its two orders" well defined.

**Pipeline.** Without a slip the scoring engine never disqualifies an engine
with price-time priority, for any number of orders, prices, quantities and
trades, whatever the clock does short of going back, and wherever the scoring
engine joins. With `BookIsPriceTime` this reaches from the vectors and the index
of `OrderBook.h` to `validate`, under the two assumptions that make it true: ids
are not reused, and no event is lost. The validator compares an event with the one
before it and knows nothing of the book, so the invariant must relate the two.
`CrossInv`: whenever a bid crosses an ask, one of them is the order that arrived
last, because the book was uncrossed when it arrived. `LastInv`: if the buyer of
the last trade still rests, the trade was no dearer than its limit and no older
ask is below the trade's price; the mirror image for the seller. From `LastInv`
the next event passes `PassedOver`: the price is the limit of the older of the
two orders. `LastInv` holds after a trade because its maker's partner is the
newest order (`CrossInv`), so nothing else crosses the maker, and because the
partner is the best of its side (`IsTop`). `LogInv` says that each event is
sound by itself and follows its predecessor, and `JudgeInv` that what the
scoring engine has accepted is a piece of the log.
For `AcceptedIsUnbroken` slips are allowed, short of a restart: every event in the
partition tells the trade its `match_id` points at (`Telling`), losses only leave
some out, and an accepted event follows the one before it (`Unbroken`), since
`Gap` lets no other pass.

**Ingress queue.** The invariant looks at the `Capacity` positions from
`Released` on (`Window`), which have a cell each. The cell of a position `n` in the
window holds the sequence number `n` until the item is published, and `n + 1` with
the item from then on; that of an earlier position holds a larger number
(`CellsInv`). Hence a cell that is behind belongs to a position a lap ahead, and
the ring is full (`BehindMeansFull`); an old position is seen as late. A
producer past its compare-and-swap holds a position of the window that no other
has (`ProducersInv`), so its cell is its own. Each step is a `Reserve`, a `Fill`,
a `Take` or a stutter.

**Event queue.** The invariant counts calls: `head` and `tail` are the numbers of
events accepted and popped, modulo the word (`IndexInv`), so their difference,
taken in the same arithmetic, is exact as long as it is at most the capacity;
two events held have different slots because the capacity divides the word.

**Engine.** The orders are a sum over queue, counters and the order in hand. For
the samples the mutex matters: between the copy and the clearing of one thread
the other is not at its own. For `StoppedIsQuiet` it is the order of the joins
(`JoinedInv`). For the events `EventsInv` compares what was pushed with what
`FlattenSeq` makes of the messages, batch after batch; that the queue is empty when
the Kafka thread leaves, and that the matching thread was joined before, gives
`StopDrainsEvents`.

**Gateway.** An open connection with something to read has a pending event, or
the thread is at that very connection and on its way back to `read`, which it
leaves only when there is nothing left (`EdgeInv`).
`CutsDoNotMatter` compares the parser with `OrdersIn`, which takes the units read all
at once. `StreamInv` says, for each connection, where the reader stands in its
script. Three texts are each known from some place on: the socket holds the script from
what was read to what was sent, the read buffer holds it from the end of the last
whole frame to what was read, and the payload buffer holds what the frames said
(`Said`) from the end of the last whole order (`Holds`). The orders given to the engine
are the first ones of what was said (`Cut`). A frame moves the end by its length, a
compaction shifts buffer and pointer together (`HoldsCompacted`), and an order leaves
as the next piece of `MsgSize`. Between two reads no whole frame and no whole order is
left, so the frames taken are those that are acceptable and complete, which is what
`OrdersIn` looks for. Before the handshake the read buffer is all that was read,
and it has no empty line, since a request has only one; when a request without a key,
a refused frame or the end of the stream closes the connection, the orders are
compared once and stand. A descriptor that was closed has empty buffers, and
`earlier` keeps the orders of its previous client apart: these are the two facts that
make its reuse harmless.

**Scoring engine.** What was accepted and what is in hand are a piece of the
partition (`PositionsInv`, `JudgedInv`); a violation found is therefore one of
consecutive events, and whatever Redis holds of a verdict was found that way
(`GuiltInv`). `StoreInv` follows the three writes of a publication. For the sentence
`SentenceInv` says where the process can be once the score is -1: short of a
fault it is on its way to its regular exit, which is not restarted.

**Evaluation.** The scoring process: up to its start there is none, and the only
ways to `cleanup` lead through its end. The pod: whoever created it has not
exited yet, or has deleted whatever pod had the name, or has failed to
(`Kept`). That another evaluation may have deleted and replaced the pod in
between is what makes the invariant speak of the pod's creator. Whose code: the
workspace, the image tag and the pod are shared by name, and nothing but a step
of an evaluation itself touches what its contestant owns, unless the contestant
has another one under way; so `CodeInv` can follow directory, image and pod from
step to step.

**Dashboard.** A message says no more than Redis holds, since it is the last of
the three commands; what a read has collected is at least what its message says
(`AnswerInv`). Whatever the stream's rows lack has a cause that will have them
read again, if they were read under the subscription (`covered`): a publication under
way, or broken off, or a message that waits (`MissedInv`). That holds for a contestant
who enters or leaves the listed ones as for one whose row changes, for any number of
contestants and any `Limit`. Of rows read before the subscription nothing is claimed
but that they are replaced.
Rows come one after the other, each at least as new as those before, from the
read to the page and from one connection of the page to the next (`PageInv`); only
the answer to the page's own request stands outside this order.

**Load test.** A verdict is among the samples since the start of the load
(`LinesInv`), then in the summary of its run (`RunsInv`), then in the aggregate
(`ReportInv`), unless `logs` cut it off. It rests on `summarize` reading the
correctness off all samples, not only those with throughput. For the events, without a
crash, the counter and what is still unread are together at most what the run found
counted, what it found unread and what it produced (`UnderLoad`); verdicts are the
difference. The harvested samples
lie between the first of these and the counter (`BeforeLoad`), so their spread, in any
first part of the log, is at most the other two. A stack made for the run has found
nothing unread and counted (`FreshInv`).

**Bot.** A drop is counted by the reader of a connection or by `connect`, and the
question is whether both can count the same one, or a reader twice. A connection
has no reader while `connect` may still give it up (`PlaceInv`). A reader counts
when it ends, so it must not be woken twice: `Orderly` says of the callbacks in the
event loop's queue that no two wake one reader, and that a reader behind the
loss of its connection was not waiting for it, so that end of stream and loss
together wake it once.
That a reader never closes the connection made after its own is a matter of the
order of the queue. `Healthy` says that at most one callback gives the coroutine
its turn, and what comes before it (`Turn`): the handshake of a new connection
comes after the loss of the one before, and the end of the handshake after that
one's reader, which the loss woke up (`Woken`). `connect` opens a connection only
when the one before is closed or lost (`Behind`). So a reader that ends is always
that of the current connection. After the run nothing of this is needed: a reader
closes nothing then.

Only model-checked: all liveness (`MatchingTerminates`, `StopReturns`,
`AcceptedEventsArrive`, `ArrivedIsRead`, `GuiltyArePunished`, `EvaluationsEnd`,
`PageCatchesUp`, `OrdersGoOut`, and the fairness part of the two queue refinements):
fairness and ENABLED are out of the prover's reach.

Every safety property that holds in a run is a theorem.

What a recursive definition computes is proved where the definition is a
recursive function on numbers, as those behind `FlattenSeq` and `MapThenSumSet` are,
by induction over a set of numbers. The induction theorems that take an operator,
and `RECURSIVE` operators, are out of the prover's reach; no module with proofs
needs them.

## 5. Findings, and what does not hold

A run shows one disagreement between code and documentation:

* `scoring_restart`: a disqualification is not permanent when the process dies
  between its ZADD and its exit, contrary to `DESIGN_TECHNICAL.md`.

What the models also show, each without a run of its own:

* Reused order ids break the index: `eraseAt` refreshes the entry of another
  order (`OrderBook` with `IdsUnique = FALSE`). Book and arrival order stay right.
* An event that the platform itself drops disqualifies the engine that made it, and so
  do an order stamped by a clock ahead of the engine's, an order id used on both sides
  and an engine that starts again. `NoFalsePositive` has these slips in its premise for
  that reason, so it does not bear out what the documentation says without one:
  "target disqualification only on genuine violations"
  (`DESIGN_COMPREHENSIVE.md:2145`), and the clock-skew scenario, "score should be
  valid" (`DESIGN_COMPREHENSIVE.md:1183-1188`): `validate` compares t0 with t1.
* An order of 2^31 units or more is negative in the book and trades nevertheless: it is
  filled at once and its opposite grows. The event carries the number back to
  `uint32_t`, so the scoring engine sees a large fill and objects to nothing.
* `flush(1000)` may time out, and the events that librdkafka still holds are lost with
  the producer: they have been counted as handed over and nobody notices
  (`AcceptedEventsArrive` excuses that case by name).
* The first rows of a stream may miss a publication, because `pubsub.subscribe` does
  not wait for Redis (`api.py:149`); the page has it after the next tick at the latest.
* The event figure of a run contains what the topic held unread when the load began.
  "A delta across the harvest window is what this run actually produced"
  (`run_loadtest.py:249-250`) is therefore true of a stack made for the run only: not
  with `--no-restart`, whose help text admits contamination, and not after a `compose
  down` that failed, which the harness does not notice. Likewise the backlog can be
  non-zero on a fresh stack (`run_loadtest.py:239-240` says it is not) when the first
  sample harvested follows the first event.
* A log that `compose logs` cuts short hides a verdict from a report of PASSED.
* Nothing orders the scoring process's joining of the topic before the start of
  the pod: in `Evaluation` a pod runs while `scoring` is still `"starting"`.
* The orchestrators of two uploads disturb each other: a failed build deletes,
  in its `finally` block, the pod of another evaluation; `wait_for_agent_completion`
  may report the end of somebody else's pod; the tag can be moved by a later
  upload of the contestant before the pod starts. `OwnCodeRuns` and `AloneIsSound`
  name the conditions under which this cannot be.
* When a second upload of a contestant is refused, its directory is gone, and the
  first evaluation, if it has not looked yet, builds the repository's own root.
* The wait in `delete_old_sandbox_pod` has no limit. It ends as long as deleted
  pods disappear, except for a pod whose deletion failed. `docker build` has no timeout
  either, and runs steps that the contestant wrote: such an evaluation stays where it
  is, but holds up no other (`EvaluationsEnd`).
* A bot told to disconnect while `connect` is under way may finish connecting
  and send; it is then cancelled. An order in `send_order` at that moment is neither
  sent nor failed. The handshake has no timeout, and neither has `drain`.
* An upgrade answer beyond the stream's limit raises `LimitOverrunError`
  (`bot-fleet/main.py:50`), which `connect` does not catch (`:60`): the bot's task ends
  with its order neither sent nor failed, and no drop is counted.
* A fleet that does not end in time makes the harness raise and lose the results
  of the runs before (`FleetHangs`). A verdict in a run that failed for
  another reason is not in the aggregate, which counts completed runs only.

## 6. Not modelled, and why

* Percentiles, medians, per-second counters, log lines: numbers that are only
  printed.
* `MemoryPool.h`: no code uses it.
* Sandbox SDK and sample solution: a sequential client without state beyond its
  next id; what it sends is an input of the models. So are the random strategies
  of the bots.
* `deploy_exchange_core`, `ensure_exchange_service`: nothing calls them.
  `--keep-resources`: the API never passes it.
* The gateway's SHA-1, base64 and masking, the narrowing of ids and prices, and
  failures of socket set-up.
* The order of the rows (their cut is modelled), the upload form, chart and theme of the page; the
  markdown report and host facts of the bench.
* Compose, Kubernetes and terraform files: declarations. Restart policies and the
  single Kafka partition enter the models of the programs.

## 7. Mutants

Definitions that begin "Wrong on purpose" are wrong versions of the definition
that follows them, as a plausible slip in the code would make it; no
specification uses them. `PROJECT.json` says which property each one breaks.
