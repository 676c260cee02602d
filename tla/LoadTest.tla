------------------------------ MODULE LoadTest ------------------------------
(***************************************************************************)
(* bench/run_loadtest.py: the harness that runs the bot fleet several      *)
(* times against the stack, reads what the scoring engine printed during   *)
(* each run, reduces it to a summary, and reports over all runs.  The      *)
(* scoring engine goes on beside it: it judges what the fleet caused,      *)
(* prints a sample a second, leaves for good after a verdict and is        *)
(* started again after a crash, with its counter at zero but with the      *)
(* container's log kept.  What compose reports of `down` and of `logs` is  *)
(* ignored: a stack may be the old one, in whole or in part, and the log   *)
(* may be cut short.                                                       *)
(*                                                                         *)
(* Only the figures that tell a sound report from an unsound one are kept: *)
(* whether a sample shows any throughput, the cumulative event counter and *)
(* the correctness.  The medians, the markdown and the host's facts are    *)
(* left out, and so is the order in which the other services come up.      *)
(***************************************************************************)
EXTENDS Naturals, Sequences, FiniteSets, FiniteSetsExt, Functions

CONSTANTS
    Runs,         \* args.runs
    MaxEvents,    \* bound on the events of one run
    MaxLines,     \* bound on the samples printed during one run
    MaxCrashes    \* bound on the crashes of the scoring engine

ASSUME RunsAssumption == Runs \in Nat \ {0}

VARIABLES
    noRestart,    \* args.no_restart
    run,          \* run_no
    pc,           \* where main() is
    runs,         \* the summaries, or errors, of the runs so far
    report,       \* what aggregate() returned, << >> before
    engine,       \* "up", "exited" (0: not restarted) or "absent"
    total,        \* state.total_events of the scoring engine
    recent,       \* whether its window still holds an event
    backlog,      \* events in the topic the engine has not read
    produced,     \* events of this run, for the bound
    lines,        \* samples in the log since the second of since_iso; before
                  \* the load, the last sample printed
    crashes,
    carried,      \* history: the counter when the harvested stretch began
    unread,       \* history: events of before the load that are not in it
    verdict,      \* history: a verdict was printed since the load began
    crashed,      \* history: the engine crashed since the harvested stretch began
    fresh,        \* history: this run's stack was made for it
    truth         \* history: these and what the load produced, for every run counted

bench == <<noRestart, run, pc, runs, report>>
scoring == <<engine, total, recent, backlog, lines, crashes>>
history == <<carried, unread, verdict, crashed, fresh, truth>>
vars == <<bench, scoring, produced, history>>

Event == {"good", "bad"}
Failed(why) == [error |-> why]
IsError(r) == "error" \in DOMAIN r
Loading == pc \in {"load", "drain"}

-----------------------------------------------------------------------------
(* One run's samples, and all runs' summaries.                             *)

\* Wrong on purpose: only the samples under load are asked for a violation.
SummarizeUnderLoad(samples) ==
    LET all == Range(samples)
        underLoad == {s \in all : s.tps}
        totals == {s.total : s \in all}
    IN  IF underLoad = {} THEN Failed("no samples recorded any throughput")
        ELSE [backlog |-> Min(totals), events |-> Max(totals) - Min(totals),
              passed |-> \A s \in underLoad : s.passed]

\* Wrong on purpose: the cumulative counter is taken for the run's events.
SummarizeCumulative(samples) ==
    LET all == Range(samples)
        totals == {s.total : s \in all}
    IN  IF \A s \in all : ~s.tps THEN Failed("no samples recorded any throughput")
        ELSE [backlog |-> Min(totals), events |-> Max(totals),
              passed |-> \A s \in all : s.passed]

\* summarize: the load selects the samples the figures come from, but the
\* correctness and the counter are read off all of them.
Summarize(samples) ==
    LET all == Range(samples)
        totals == {s.total : s \in all}
    IN  IF all = {} THEN Failed("no scoring samples captured")
        ELSE IF \A s \in all : ~s.tps THEN Failed("no samples recorded any throughput")
        ELSE [backlog |-> Min(totals), events |-> Max(totals) - Min(totals),
              passed |-> \A s \in all : s.passed]

Counted == {i \in DOMAIN runs : ~IsError(runs[i])}

Aggregate ==
    IF Counted = {} THEN Failed("every run failed")
    ELSE [completed |-> Cardinality(Counted), attempted |-> Len(runs),
          passed |-> \A i \in Counted : runs[i].passed]

-----------------------------------------------------------------------------
\* A stack may be running when the harness starts, with events already counted.
Init ==
    /\ noRestart \in BOOLEAN
    /\ run = 1 /\ pc = "begin" /\ runs = << >> /\ report = << >>
    /\ engine \in {"up", "exited", "absent"}
    /\ total \in (IF engine = "absent" THEN {0} ELSE 0 .. 1)
    /\ backlog \in (IF engine = "absent" THEN {<< >>} ELSE {<< >>, <<"good">>})
    /\ recent = FALSE /\ lines = << >> /\ crashes = 0 /\ produced = 0
    /\ carried = 0 /\ unread = 0 /\ verdict = FALSE /\ crashed = FALSE
    /\ fresh = FALSE /\ truth = << >>

\* runs.append(summary), and the next run or the end of the loop.
RunDone(summary, whole) ==
    /\ runs' = Append(runs, summary)
    /\ truth' = Append(truth, IF IsError(summary) THEN summary
                              ELSE [carried |-> carried, unread |-> unread,
                                    produced |-> produced, verdict |-> verdict,
                                    crashed |-> crashed, fresh |-> fresh, whole |-> whole])
    /\ run' = run + 1
    /\ pc' = IF run = Runs THEN "report" ELSE "begin"
    /\ carried' = 0 /\ unread' = 0 /\ produced' = 0 /\ verdict' = FALSE /\ fresh' = FALSE
    /\ UNCHANGED <<noRestart, report>>

\* Containers, their logs and the topic are new.
NewStack(state) ==
    /\ engine' = state /\ total' = 0 /\ recent' = FALSE
    /\ backlog' = << >> /\ lines' = << >> /\ crashed' = crashed

\* down failed, which nobody looks at: the topic may be the old one, and the
\* scoring engine goes on, is started again in its container, or is a new one.
OldStack ==
    /\ engine' = "up" /\ backlog' \in {backlog, << >>}
    /\ \/ engine = "up" /\ UNCHANGED <<total, recent, lines, crashed>>
       \/ engine # "absent" /\ total' = 0 /\ recent' = FALSE /\ lines' = lines /\ crashed' = TRUE
       \/ total' = 0 /\ recent' = FALSE /\ lines' = << >> /\ crashed' = crashed

\* restart_stack: down and up.
Restart ==
    /\ pc = "begin" /\ ~noRestart
    /\ pc' = "up"
    /\ \/ NewStack("up") /\ fresh' = TRUE
       \/ OldStack /\ fresh' = FALSE
    /\ UNCHANGED <<noRestart, run, runs, report, produced, crashes, carried, unread, verdict, truth>>

\* restart_stack returns FALSE: up failed, with any part of the stack running,
\* or a service did not get healthy.
StackFails ==
    /\ pc \in {"begin", "up"} /\ ~noRestart
    /\ RunDone(Failed("stack failed to start"), FALSE)
    /\ \/ UNCHANGED <<engine, total, recent, backlog, lines, crashed>>
       \/ pc = "begin" /\ (NewStack("up") \/ NewStack("absent") \/ OldStack)
    /\ UNCHANGED crashes

\* wait_until_ready with --no-restart: a service is not listed as up in time.
NotReady ==
    /\ pc = "begin" /\ noRestart
    /\ RunDone(Failed("stack not ready"), FALSE)
    /\ UNCHANGED <<scoring, crashed>>

\* All five services are up; without a restart the harness goes on at once.
Ready ==
    /\ IF noRestart THEN pc = "begin" ELSE pc = "up"
    /\ engine = "up"
    /\ pc' = "ready"
    /\ UNCHANGED <<noRestart, run, runs, report, scoring, produced, history>>

\* since_iso is cut to the second, so the last sample before it may be
\* harvested too; then the fleet is started.
StartLoad ==
    /\ pc = "ready"
    /\ pc' = "load"
    /\ lines' \in {lines, << >>}
    /\ carried' = IF lines' = << >> THEN total ELSE lines'[1].total
    /\ crashed' = (crashed /\ lines' # << >>)
    /\ unread' = IF crashed' THEN 0 ELSE Len(backlog) + total - carried'
    /\ UNCHANGED <<noRestart, run, runs, report, engine, total, recent, backlog, crashes,
                   produced, verdict, fresh, truth>>

\* The fleet returns, whatever its exit code; five seconds for the last samples.
FleetEnds ==
    /\ pc = "load"
    /\ pc' = "drain"
    /\ UNCHANGED <<noRestart, run, runs, report, scoring, produced, history>>

\* subprocess.run raises TimeoutExpired, which nothing catches: the harness
\* ends without a report of the runs it has finished.
FleetHangs ==
    /\ pc = "load"
    /\ pc' = "raised"
    /\ UNCHANGED <<noRestart, run, runs, report, scoring, produced, history>>

\* harvest_scoring_samples does not ask whether `logs` came to its end.
Harvest ==
    /\ pc = "drain"
    /\ \E n \in 0 .. Len(lines) :
          RunDone(Summarize([i \in 1 .. n |-> lines[i]]), n = Len(lines))
    /\ lines' = << >>
    /\ UNCHANGED <<engine, total, recent, backlog, crashes, crashed>>

Report ==
    /\ pc = "report"
    /\ report' = Aggregate /\ pc' = "over"
    /\ UNCHANGED <<noRestart, run, runs, scoring, produced, history>>

Main == \/ Restart \/ StackFails \/ NotReady \/ Ready \/ StartLoad
        \/ FleetEnds \/ FleetHangs \/ Harvest \/ Report

-----------------------------------------------------------------------------
(* The stack: the engine's trades and the scoring engine.                  *)

\* Orders the fleet left in the engine's queue still trade after it ended.
Produce ==
    /\ Loading /\ produced < MaxEvents
    /\ produced' = produced + 1
    /\ \E e \in Event : backlog' = Append(backlog, e)
    /\ UNCHANGED <<bench, engine, total, recent, lines, crashes, history>>

\* Printed during a run a sample is harvested; before, the last one may be.
Log(sample) ==
    /\ Loading => Len(lines) < MaxLines
    /\ lines' = IF Loading THEN Append(lines, sample) ELSE <<sample>>
    /\ crashed' = (Loading /\ crashed)

\* The window may have emptied since the last event, not the other way round.
Windows == IF recent THEN BOOLEAN ELSE {FALSE}

Accept ==
    /\ engine = "up" /\ backlog # << >> /\ Head(backlog) = "good"
    /\ backlog' = Tail(backlog)
    /\ total' = total + 1 /\ recent' = TRUE
    /\ UNCHANGED <<bench, engine, lines, crashes, produced, history>>

\* disqualify, print and return: the event is not counted, the exit status is 0.
Disqualify ==
    /\ engine = "up" /\ backlog # << >> /\ Head(backlog) = "bad"
    /\ \E tps \in Windows : Log([tps |-> tps, total |-> total, passed |-> FALSE])
    /\ backlog' = Tail(backlog)
    /\ engine' = "exited" /\ recent' = FALSE
    /\ verdict' = (verdict \/ Loading)
    /\ UNCHANGED <<bench, total, crashes, produced, carried, unread, fresh, truth>>

Emit ==
    /\ engine = "up"
    /\ \E tps \in Windows :
         /\ Log([tps |-> tps, total |-> total, passed |-> TRUE])
         /\ recent' = tps
    /\ UNCHANGED <<bench, engine, total, backlog, crashes, produced, carried, unread, verdict, fresh, truth>>

\* restart: on-failure.  A fresh validator; the event read last may be skipped.
Crash ==
    /\ engine = "up" /\ crashes < MaxCrashes
    /\ crashes' = crashes + 1
    /\ total' = 0 /\ recent' = FALSE /\ crashed' = TRUE
    /\ backlog' \in {backlog, IF backlog = << >> THEN << >> ELSE Tail(backlog)}
    /\ UNCHANGED <<bench, engine, lines, produced, carried, unread, verdict, fresh, truth>>

Stack == Produce \/ Accept \/ Disqualify \/ Emit \/ Crash

Next == Main \/ Stack
Spec == Init /\ [][Next]_vars

-----------------------------------------------------------------------------
\* A report of PASSED (aggregate) is the word of every run it counts: in none
\* of them did the scoring engine print a verdict between the start of the
\* fleet and the harvest, not even one printed when its window was empty.  Only
\* of a run whose log came whole: a log that `logs` cut short hides a verdict,
\* and harvest_scoring_samples does not notice.
PassedMeansNoVerdict ==
    (pc = "over" /\ ~IsError(report) /\ report.passed) =>
        \A i \in Counted : truth[i].whole => ~truth[i].verdict

\* What summarize says a run produced is made of what the load produced and of
\* the events it found: `scoring_backlog_at_start` hides none of those that were
\* counted before, and `trade_events_this_run` holds, beside the events of this
\* load, at most those still unread when it began.  On a stack made for the run
\* it holds none of another's, as long as the counter did not start again.
EventsAreAccountedFor ==
    \A i \in Counted : ~truth[i].crashed =>
        /\ runs[i].backlog >= truth[i].carried
        /\ runs[i].events <= truth[i].produced + truth[i].unread
        /\ truth[i].fresh => runs[i].events <= truth[i].produced

=============================================================================
