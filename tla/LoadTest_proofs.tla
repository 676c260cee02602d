--------------------------- MODULE LoadTest_proofs ---------------------------
(***************************************************************************)
(* Proofs that a report of PASSED hides no verdict of a run it counts, if  *)
(* its log came whole, and that the events of a run's summary are those of *)
(* its load and those it found unread, for any number of runs, events,     *)
(* samples and crashes.                                                    *)
(*                                                                         *)
(* A verdict reaches the report in three steps: it is among the samples    *)
(* since the start of the load (LinesInv), then in the summary of its run  *)
(* (RunsInv), then in the aggregate (ReportInv).  What a run inherited is  *)
(* the smallest counter of the samples: the one kept from before the load  *)
(* shows no more than the counter (BeforeLoad), and those printed under    *)
(* load lie between the counter at its start and the counter now; and what *)
(* is counted and what is still unread never exceed what was there at the  *)
(* start and what the load produced (UnderLoad).  A new stack starts with  *)
(* nothing counted and nothing unread (FreshInv).  So the summary has it   *)
(* right (AccountInv).                                                     *)
(*                                                                         *)
(* The last part is about the bots that make the load, by their own        *)
(* specification: a bot counts every order and every drop once, and closes *)
(* no connection that the server keeps.  What the event loop has in its    *)
(* queue says which reader is still to be woken, and that none is woken    *)
(* twice (Orderly); where the bot's coroutine is says that a new           *)
(* connection has no reader yet (PlaceInv); and the order of the queue     *)
(* that the old one has none any more (Healthy).                           *)
(***************************************************************************)
EXTENDS LoadTest, BotFleet, SequenceTheorems, FiniteSetTheorems, WellFoundedInduction, TLAPS

Sequence(s) == Len(s) \in Nat /\ s = [i \in 1 .. Len(s) |-> s[i]]

(* A verdict printed under load is one of the samples to be harvested.     *)
LinesInv ==
    /\ Sequence(lines)
    /\ verdict => Loading \/ pc = "raised"
    /\ Loading /\ verdict => \E i \in 1 .. Len(lines) : ~lines[i].passed

(* A verdict of a run that is counted is in its summary.                   *)
RunsInv ==
    /\ Sequence(runs) /\ Sequence(truth) /\ Len(truth) = Len(runs)
    /\ \A i \in 1 .. Len(runs) :
          ~IsError(runs[i]) /\ truth[i].whole /\ truth[i].verdict => ~runs[i].passed

ReportInv == pc = "over" => report = Aggregate

VerdictInv == LinesInv /\ RunsInv /\ ReportInv

(* Appending leaves the elements alone and adds the new one at the end.    *)
LEMMA Appended ==
    ASSUME NEW s, Sequence(s), NEW e
    PROVE  /\ Sequence(Append(s, e))
           /\ Len(Append(s, e)) = Len(s) + 1
           /\ \A i \in 1 .. Len(s) : Append(s, e)[i] = s[i]
           /\ Append(s, e)[Len(s) + 1] = e
<1> DEFINE S == {s[i] : i \in 1 .. Len(s)} \cup {e}
<1>2. s \in Seq(S)
  <2>1. \A i \in 1 .. Len(s) : s[i] \in S
    OBVIOUS
  <2>2. Len(s) \in Nat /\ s = [i \in 1 .. Len(s) |-> s[i]]
    BY DEF Sequence
  <2> QED
    BY <2>1, <2>2
<1>3. e \in S
  OBVIOUS
<1>4. Append(s, e) \in Seq(S)
  BY <1>2, <1>3
<1> HIDE DEF S
<1>5. /\ Len(Append(s, e)) = Len(s) + 1
      /\ \A i \in 1 .. Len(s) : Append(s, e)[i] = s[i]
      /\ Append(s, e)[Len(s) + 1] = e
  BY <1>2, <1>3, AppendProperties
<1>6. /\ Len(Append(s, e)) \in Nat
      /\ Append(s, e) \in [1 .. Len(Append(s, e)) -> S]
  BY <1>4, LenProperties
<1>7. Sequence(Append(s, e))
  BY <1>6 DEF Sequence
<1> QED
  BY <1>5, <1>7

(* The part of the log that was read.                                      *)
Part(n) == [i \in 1 .. n |-> lines[i]]

LEMMA PartOfLines ==
    ASSUME Sequence(lines), NEW n \in 0 .. Len(lines)
    PROVE  /\ \A s \in Range(Part(n)) : \E i \in 1 .. Len(lines) : s = lines[i]
           /\ n = Len(lines) => Part(n) = lines
<1>1. Len(lines) \in Nat /\ lines = [i \in 1 .. Len(lines) |-> lines[i]]
  BY DEF Sequence
<1>2. \A i \in 1 .. n : i \in 1 .. Len(lines)
  BY <1>1
<1> QED
  BY <1>1, <1>2 DEF Part, Range

(* The summary shows a verdict that is among its samples (the latch).      *)
LEMMA SummaryLatches ==
    ASSUME Sequence(lines), NEW i \in 1 .. Len(lines), ~lines[i].passed,
           ~IsError(Summarize(lines))
    PROVE  ~Summarize(lines).passed
<1>1. DOMAIN lines = 1 .. Len(lines)
  BY DEF Sequence
<1>2. lines[i] \in Range(lines)
  BY <1>1 DEF Range
<1>3. Range(lines) # {} /\ ~\A s \in Range(lines) : s.passed
  BY <1>2
<1>4. IsError(Failed("no scoring samples captured"))
      /\ IsError(Failed("no samples recorded any throughput"))
  BY DEF IsError, Failed
<1>5. Summarize(lines) =
        [backlog |-> Min({s.total : s \in Range(lines)}),
         events |-> Max({s.total : s \in Range(lines)}) - Min({s.total : s \in Range(lines)}),
         passed |-> \A s \in Range(lines) : s.passed]
  BY <1>3, <1>4 DEF Summarize
<1> QED
  BY <1>3, <1>5

(* What the end of a run records about it.                                 *)
LEMMA RunRecorded ==
    ASSUME Sequence(runs), Sequence(truth), Len(truth) = Len(runs),
           NEW summary, NEW whole, RunDone(summary, whole)
    PROVE  /\ Sequence(runs') /\ Sequence(truth') /\ Len(truth') = Len(runs')
           /\ Len(runs') = Len(runs) + 1
           /\ \A i \in 1 .. Len(runs) : runs'[i] = runs[i] /\ truth'[i] = truth[i]
           /\ runs'[Len(runs) + 1] = summary
           /\ ~IsError(summary) =>
                /\ truth'[Len(runs) + 1].verdict = verdict
                /\ truth'[Len(runs) + 1].whole = whole
                /\ truth'[Len(runs) + 1].crashed = crashed
                /\ truth'[Len(runs) + 1].fresh = fresh
                /\ truth'[Len(runs) + 1].carried = carried
                /\ truth'[Len(runs) + 1].unread = unread
                /\ truth'[Len(runs) + 1].produced = produced
<1> DEFINE t == IF IsError(summary) THEN summary
                ELSE [carried |-> carried, unread |-> unread, produced |-> produced,
                      verdict |-> verdict, crashed |-> crashed, fresh |-> fresh, whole |-> whole]
<1>1. runs' = Append(runs, summary) /\ truth' = Append(truth, t)
  BY DEF RunDone
<1>2. ~IsError(summary) =>
        /\ t.verdict = verdict /\ t.whole = whole /\ t.crashed = crashed /\ t.fresh = fresh
        /\ t.carried = carried /\ t.unread = unread /\ t.produced = produced
  OBVIOUS
<1> HIDE DEF t
<1>3. /\ Sequence(runs') /\ Len(runs') = Len(runs) + 1
      /\ \A i \in 1 .. Len(runs) : runs'[i] = runs[i]
      /\ runs'[Len(runs) + 1] = summary
  BY <1>1, Appended
<1>4. /\ Sequence(truth') /\ Len(truth') = Len(runs) + 1
      /\ \A i \in 1 .. Len(runs) : truth'[i] = truth[i]
      /\ truth'[Len(runs) + 1] = t
  BY <1>1, Appended
<1> QED
  BY <1>2, <1>3, <1>4

(* The end of a run keeps the verdicts of all runs in their summaries.     *)
LEMMA RunKept ==
    ASSUME RunsInv, NEW summary, NEW whole, RunDone(summary, whole),
           ~IsError(summary) /\ whole /\ verdict => ~summary.passed
    PROVE  RunsInv'
<1>1. /\ Sequence(runs') /\ Sequence(truth') /\ Len(truth') = Len(runs')
      /\ Len(runs') = Len(runs) + 1
      /\ \A i \in 1 .. Len(runs) : runs'[i] = runs[i] /\ truth'[i] = truth[i]
      /\ runs'[Len(runs) + 1] = summary
      /\ ~IsError(summary) => /\ truth'[Len(runs) + 1].verdict = verdict
                              /\ truth'[Len(runs) + 1].whole = whole
  BY RunRecorded DEF RunsInv
<1>2. ASSUME NEW i \in 1 .. Len(runs'), ~IsError(runs'[i]), truth'[i].whole, truth'[i].verdict
      PROVE  ~runs'[i].passed
  <2>1. Len(runs) \in Nat
    BY DEF RunsInv, Sequence
  <2>2. CASE i = Len(runs) + 1
    <3>1. ~IsError(summary) /\ whole /\ verdict
      BY <1>1, <1>2, <2>2
    <3> QED
      BY <1>1, <2>2, <3>1
  <2>3. CASE i \in 1 .. Len(runs)
    BY <1>1, <1>2, <2>3 DEF RunsInv
  <2> QED
    BY <1>1, <2>1, <2>2, <2>3
<1> QED
  BY <1>1, <1>2 DEF RunsInv, IsError

(* A step that leaves the harness alone keeps what it has recorded.        *)
LEMMA StackKeeps ==
    ASSUME VerdictInv, UNCHANGED bench, UNCHANGED truth
    PROVE  RunsInv' /\ ReportInv'
<1>1. UNCHANGED <<runs, report, pc, truth>>
  BY DEF bench
<1> QED
  BY <1>1 DEF VerdictInv, RunsInv, ReportInv, Sequence, IsError, Aggregate, Counted, Failed

(* An empty list of lines or runs.                                         *)
LEMMA EmptyIsSequence == Sequence(<< >>)
<1>1. << >> \in Seq({})
  OBVIOUS
<1> QED
  BY <1>1, LenProperties DEF Sequence

(* A sample joins the lines, or replaces the one line kept before a load.  *)
LEMMA Logged ==
    ASSUME LinesInv, NEW sample, Log(sample), UNCHANGED pc,
           verdict' => verdict \/ (Loading /\ ~sample.passed)
    PROVE  LinesInv'
<1>1. CASE Loading
  <2>1. /\ Sequence(lines') /\ Len(lines') = Len(lines) + 1
        /\ \A i \in 1 .. Len(lines) : lines'[i] = lines[i]
        /\ lines'[Len(lines) + 1] = sample
    BY <1>1, Appended DEF LinesInv, Log
  <2>2. Len(lines) \in Nat
    BY DEF LinesInv, Sequence
  <2>3. Len(lines) + 1 \in 1 .. Len(lines')
    BY <2>1, <2>2
  <2>4. \A i \in 1 .. Len(lines) : i \in 1 .. Len(lines')
    BY <2>1, <2>2
  <2>5. ASSUME Loading', verdict' PROVE \E i \in 1 .. Len(lines') : ~lines'[i].passed
    <3>1. CASE verdict
      <4>1. PICK i \in 1 .. Len(lines) : ~lines[i].passed
        BY <1>1, <3>1 DEF LinesInv
      <4> QED
        BY <2>1, <2>4, <4>1
    <3>2. CASE ~sample.passed
      BY <2>1, <2>3, <3>2
    <3> QED
      BY <2>5, <3>1, <3>2
  <2> QED
    BY <1>1, <2>1, <2>5 DEF LinesInv, Loading
<1>2. CASE ~Loading
  <2>1. lines' = <<sample>>
    BY <1>2 DEF Log
  <2>2. <<sample>> = Append(<< >>, sample)
    OBVIOUS
  <2>3. Sequence(Append(<< >>, sample))
    BY EmptyIsSequence, Appended
  <2>4. lines' = Append(<< >>, sample)
    BY <2>1, <2>2
  <2>5. Sequence(lines')
    BY ONLY <2>3, <2>4
  <2> QED
    BY <1>2, <2>5 DEF LinesInv, Loading
<1> QED
  BY <1>1, <1>2

(* The harness, action by action.                                          *)
LEMMA MainStep ==
    ASSUME VerdictInv, Main
    PROVE  VerdictInv'
<1> USE DEF VerdictInv
<1>1. CASE Restart
  <2>1. /\ UNCHANGED <<runs, truth, verdict>> /\ pc = "begin" /\ pc' = "up"
        /\ lines' \in {lines, << >>}
    BY <1>1 DEF Restart, NewStack, OldStack
  <2>2. Sequence(lines')
    BY <2>1, EmptyIsSequence DEF LinesInv
  <2> QED
    BY <2>1, <2>2 DEF LinesInv, RunsInv, ReportInv, Loading, Sequence, IsError
<1>2. CASE StackFails
  <2>1. RunDone(Failed("stack failed to start"), FALSE) /\ lines' \in {lines, << >>}
    BY <1>2 DEF StackFails, NewStack, OldStack
  <2>2. RunsInv'
    BY <2>1, RunKept
  <2>3. pc' \in {"report", "begin"} /\ verdict' = FALSE
    BY <2>1 DEF RunDone
  <2>4. Sequence(lines')
    BY <2>1, EmptyIsSequence DEF LinesInv
  <2> QED
    BY <2>2, <2>3, <2>4 DEF LinesInv, ReportInv, Loading
<1>3. CASE NotReady
  <2>1. RunDone(Failed("stack not ready"), FALSE) /\ lines' = lines
    BY <1>3 DEF NotReady, scoring
  <2>2. RunsInv'
    BY <2>1, RunKept
  <2>3. pc' \in {"report", "begin"} /\ verdict' = FALSE
    BY <2>1 DEF RunDone
  <2> QED
    BY <2>1, <2>2, <2>3 DEF LinesInv, ReportInv, Loading, Sequence
<1>4. CASE Ready \/ FleetHangs
  <2>1. /\ UNCHANGED <<runs, truth, lines, verdict>>
        /\ \/ pc \in {"begin", "up"} /\ pc' = "ready"
           \/ pc = "load" /\ pc' = "raised"
    BY <1>4 DEF Ready, FleetHangs, history, scoring
  <2> QED
    BY <2>1 DEF LinesInv, RunsInv, ReportInv, Loading, Sequence, IsError
<1>5. CASE StartLoad
  <2>1. UNCHANGED <<runs, truth, verdict>> /\ pc = "ready" /\ pc' = "load" /\ lines' \in {lines, << >>}
    BY <1>5 DEF StartLoad
  <2>2. Sequence(lines')
    BY <2>1, EmptyIsSequence DEF LinesInv
  <2> QED
    BY <2>1, <2>2 DEF LinesInv, Loading, RunsInv, ReportInv, Sequence, IsError
<1>6. CASE FleetEnds
  <2>1. UNCHANGED <<runs, truth, lines, verdict>> /\ pc = "load" /\ pc' = "drain"
    BY <1>6 DEF FleetEnds, history, scoring
  <2> QED
    BY <2>1 DEF LinesInv, RunsInv, ReportInv, Loading, Sequence, IsError
<1>7. CASE Harvest
  <2>1. /\ pc = "drain" /\ lines' = << >>
        /\ \E n \in 0 .. Len(lines) : RunDone(Summarize(Part(n)), n = Len(lines))
    BY <1>7 DEF Harvest, Part
  <2>2. PICK n \in 0 .. Len(lines) : RunDone(Summarize(Part(n)), n = Len(lines))
    BY <2>1
  <2>3. ASSUME ~IsError(Summarize(Part(n))), n = Len(lines), verdict
        PROVE  ~Summarize(Part(n)).passed
    <3>1. PICK i \in 1 .. Len(lines) : ~lines[i].passed
      BY <2>1, <2>3 DEF LinesInv, Loading
    <3>2. Part(n) = lines
      BY <2>3, PartOfLines DEF LinesInv
    <3> QED
      BY <2>3, <3>1, <3>2, SummaryLatches DEF LinesInv
  <2>4. RunsInv'
    BY <2>2, <2>3, RunKept
  <2>5. pc' \in {"report", "begin"} /\ verdict' = FALSE
    BY <2>2 DEF RunDone
  <2> QED
    BY <2>1, <2>4, <2>5, EmptyIsSequence DEF LinesInv, ReportInv, Loading
<1>8. CASE Report
  <2>1. UNCHANGED <<runs, truth, lines, verdict>> /\ pc = "report" /\ pc' = "over" /\ report' = Aggregate
    BY <1>8 DEF Report, history, scoring
  <2>2. Aggregate' = Aggregate
    BY <2>1 DEF Aggregate, Counted, IsError, Failed
  <2> QED
    BY <2>1, <2>2 DEF LinesInv, RunsInv, ReportInv, Loading, Sequence, IsError
<1> QED
  BY <1>1, <1>2, <1>3, <1>4, <1>5, <1>6, <1>7, <1>8 DEF Main

(* The scoring engine and the trades, action by action.                    *)
LEMMA StackStep ==
    ASSUME VerdictInv, Stack
    PROVE  VerdictInv'
<1>1. UNCHANGED <<bench, truth>>
  BY DEF Stack, Produce, Accept, Disqualify, Emit, Crash, history
<1>2. RunsInv' /\ ReportInv' /\ UNCHANGED pc
  BY <1>1, StackKeeps DEF bench
<1>3. CASE Produce \/ Accept \/ Crash
  <2>1. UNCHANGED <<lines, verdict>>
    BY <1>3 DEF Produce, Accept, Crash, history
  <2> QED
    BY <1>2, <2>1 DEF VerdictInv, LinesInv, Loading, Sequence
<1>4. CASE Disqualify
  <2>1. PICK tps \in Windows : Log([tps |-> tps, total |-> total, passed |-> FALSE])
    BY <1>4 DEF Disqualify
  <2> DEFINE sample == [tps |-> tps, total |-> total, passed |-> FALSE]
  <2>2. ~sample.passed /\ Log(sample) /\ verdict' = (verdict \/ Loading)
    BY <1>4, <2>1 DEF Disqualify
  <2> HIDE DEF sample
  <2> QED
    BY <1>2, <2>2, Logged DEF VerdictInv
<1>5. CASE Emit
  <2>1. PICK tps \in Windows : Log([tps |-> tps, total |-> total, passed |-> TRUE])
    BY <1>5 DEF Emit
  <2>2. verdict' = verdict
    BY <1>5 DEF Emit
  <2> QED
    BY <1>2, <2>1, <2>2, Logged DEF VerdictInv
<1> QED
  BY <1>3, <1>4, <1>5 DEF Stack

(* A verdict that the engine prints under load is on its way to the report in *)
(* every state: among the samples, in the summary of a run or in the       *)
(* aggregate; no crash, cut or failed run of the bench loses it.           *)
THEOREM VerdictsKept == Spec => []VerdictInv
<1>1. Init => VerdictInv
  <2> SUFFICES ASSUME Init PROVE VerdictInv
    OBVIOUS
  <2>1. pc = "begin" /\ runs = << >> /\ truth = << >> /\ lines = << >> /\ verdict = FALSE
    BY DEF Init
  <2>2. Len(runs) = 0
    BY <2>1
  <2> QED
    BY <2>1, <2>2, EmptyIsSequence DEF VerdictInv, LinesInv, RunsInv, ReportInv, Loading
<1>2. VerdictInv /\ [Next]_vars => VerdictInv'
  <2> SUFFICES ASSUME VerdictInv, [Next]_vars PROVE VerdictInv'
    OBVIOUS
  <2>1. CASE UNCHANGED vars
    <3>1. UNCHANGED <<bench, truth, lines, verdict>> /\ UNCHANGED pc
      BY <2>1 DEF vars, history, scoring, bench
    <3> QED
      BY <3>1, StackKeeps DEF VerdictInv, LinesInv, Loading, Sequence
  <2> QED
    BY <2>1, MainStep, StackStep DEF Next
<1> QED
  BY <1>1, <1>2, PTL DEF Spec

(* aggregate and summarize: a report of PASSED hides no verdict of a run it *)
(* counts and whose log came whole, for any number of runs, samples, events *)
(* and crashes.                                                             *)
THEOREM PassedIsHonest == Spec => []PassedMeansNoVerdict
<1>1. VerdictInv => PassedMeansNoVerdict
  <2> SUFFICES ASSUME VerdictInv, pc = "over", ~IsError(report), report.passed, NEW i \in Counted,
                      truth[i].whole
               PROVE  ~truth[i].verdict
    BY DEF PassedMeansNoVerdict
  <2>1. report = Aggregate
    BY DEF VerdictInv, ReportInv
  <2>2. Aggregate.passed = \A j \in Counted : runs[j].passed
    BY DEF Aggregate
  <2>3. runs[i].passed
    BY <2>1, <2>2
  <2>4. i \in 1 .. Len(runs) /\ ~IsError(runs[i])
    BY DEF Counted, VerdictInv, RunsInv, Sequence
  <2> QED
    BY <2>3, <2>4 DEF VerdictInv, RunsInv
<1> QED
  BY <1>1, VerdictsKept, PTL

-----------------------------------------------------------------------------
(* The counter, and what the samples say of it.                            *)
CounterTypes ==
    /\ Sequence(lines) /\ Sequence(backlog)
    /\ total \in Nat /\ carried \in Nat /\ unread \in Nat /\ produced \in Nat
    /\ \A i \in 1 .. Len(lines) : lines[i].total \in Nat

OutsideLoad == pc \notin {"load", "drain", "raised"}

BeforeLoad ==
    OutsideLoad =>
        /\ produced = 0
        /\ Len(lines) <= 1
        /\ ~crashed => \A i \in 1 .. Len(lines) : lines[i].total <= total

(* A stack made for the run has nothing to pass on to it.                  *)
FreshInv ==
    /\ OutsideLoad /\ fresh =>
          /\ total = 0 /\ Len(backlog) = 0
          /\ \A i \in 1 .. Len(lines) : lines[i].total = 0
    /\ Loading /\ fresh => unread = 0

UnderLoad ==
    Loading /\ ~crashed =>
        /\ carried <= total /\ total + Len(backlog) <= carried + unread + produced
        /\ \A i \in 1 .. Len(lines) : carried <= lines[i].total /\ lines[i].total <= total

(* The summary of every run that is counted accounts for its events.       *)
AccountInv ==
    /\ Sequence(runs) /\ Sequence(truth) /\ Len(truth) = Len(runs)
    /\ \A i \in 1 .. Len(runs) : ~IsError(runs[i]) /\ ~truth[i].crashed =>
          /\ runs[i].backlog >= truth[i].carried
          /\ runs[i].events <= truth[i].produced + truth[i].unread
          /\ truth[i].fresh => runs[i].events <= truth[i].produced

CounterInv == CounterTypes /\ BeforeLoad /\ FreshInv /\ UnderLoad
InheritInv == CounterInv /\ AccountInv

(* A nonempty set of naturals has a least element, and with a bound a      *)
(* greatest one.                                                           *)
LEMMA LeastOf ==
    ASSUME NEW S, S \subseteq Nat, S # {}
    PROVE  Min(S) \in S /\ \A y \in S : Min(S) =< y
<1> DEFINE R == OpToRel(<, Nat)
<1>1. IsWellFoundedOn(R, Nat)
  BY NatLessThanWellFounded
<1>2. PICK t \in S : \A y \in S : ~(<<y, t>> \in R)
  <2> HIDE DEF R
  <2> QED
    BY <1>1, WFMin
<1>3. \A y \in S : t =< y
  <2> TAKE y \in S
  <2>1. ~(y < t) /\ y \in Nat /\ t \in Nat
    BY <1>2 DEF OpToRel
  <2> QED
    BY <2>1
<1> QED
  BY <1>3 DEF Min

LEMMA GreatestOf ==
    ASSUME NEW n \in Nat, NEW S, S \subseteq 0 .. n, S # {}
    PROVE  Max(S) \in S
<1> DEFINE T == {n - x : x \in S}
<1>1. T \subseteq Nat /\ T # {}
  OBVIOUS
<1>2. Min(T) \in T /\ \A y \in T : Min(T) =< y
  <2> HIDE DEF T
  <2> QED
    BY <1>1, LeastOf
<1>3. PICK m \in S : Min(T) = n - m
  BY <1>2
<1>4. \A x \in S : m >= x
  <2> TAKE x \in S
  <2>1. n - m =< n - x
    BY <1>2, <1>3
  <2> QED
    BY <2>1
<1> QED
  BY <1>4 DEF Max

(* The summary of any part of the log bounds what the run produced.        *)
LEMMA SummaryAccounts ==
    ASSUME CounterInv, Loading, ~crashed, NEW n \in 0 .. Len(lines),
           ~IsError(Summarize(Part(n)))
    PROVE  /\ Summarize(Part(n)).backlog >= carried
           /\ Summarize(Part(n)).events <= produced + unread
           /\ fresh => Summarize(Part(n)).events <= produced
<1> DEFINE all == Range(Part(n))
           totals == {s.total : s \in all}
<1>1. IsError(Failed("no scoring samples captured"))
      /\ IsError(Failed("no samples recorded any throughput"))
  BY DEF IsError, Failed
<1>2. /\ all # {}
      /\ Summarize(Part(n)) =
            [backlog |-> Min(totals), events |-> Max(totals) - Min(totals),
             passed |-> \A s \in all : s.passed]
  BY <1>1 DEF Summarize
<1>3. \A s \in all : \E i \in 1 .. Len(lines) : s = lines[i]
  BY PartOfLines DEF CounterInv, CounterTypes
<1>4. totals # {} /\ \A t \in totals : t \in Nat /\ carried <= t /\ t <= total
  BY <1>2, <1>3 DEF CounterInv, CounterTypes, UnderLoad
<1>5. /\ total \in Nat /\ carried \in Nat /\ unread \in Nat /\ produced \in Nat
      /\ total <= carried + unread + produced
  <2>1. Len(backlog) \in Nat
    BY DEF CounterInv, CounterTypes, Sequence
  <2> QED
    BY <2>1 DEF CounterInv, CounterTypes, UnderLoad
<1>6. Min(totals) \in totals /\ Max(totals) \in totals
  <2> HIDE DEF totals
  <2>1. totals \subseteq Nat /\ totals \subseteq 0 .. total
    BY <1>4, <1>5
  <2> QED
    BY <1>4, <1>5, <2>1, LeastOf, GreatestOf
<1>7. /\ Summarize(Part(n)).backlog = Min(totals)
      /\ Summarize(Part(n)).events = Max(totals) - Min(totals)
  BY <1>2
<1> HIDE DEF totals
<1>8. /\ Min(totals) \in Nat /\ carried <= Min(totals)
      /\ Max(totals) \in Nat /\ Max(totals) <= total
  BY <1>4, <1>6
<1>9. fresh => unread = 0
  BY DEF CounterInv, FreshInv
<1> QED
  BY <1>5, <1>7, <1>8, <1>9

(* The end of a run records its summary beside the truth about it.         *)
LEMMA AccountKept ==
    ASSUME AccountInv, NEW summary, NEW whole, RunDone(summary, whole),
           ~IsError(summary) /\ ~crashed =>
              /\ summary.backlog >= carried
              /\ summary.events <= produced + unread
              /\ fresh => summary.events <= produced
    PROVE  AccountInv'
<1>1. /\ Sequence(runs') /\ Sequence(truth') /\ Len(truth') = Len(runs')
      /\ Len(runs') = Len(runs) + 1
      /\ \A i \in 1 .. Len(runs) : runs'[i] = runs[i] /\ truth'[i] = truth[i]
      /\ runs'[Len(runs) + 1] = summary
      /\ ~IsError(summary) => /\ truth'[Len(runs) + 1].crashed = crashed
                              /\ truth'[Len(runs) + 1].fresh = fresh
                              /\ truth'[Len(runs) + 1].carried = carried
                              /\ truth'[Len(runs) + 1].unread = unread
                              /\ truth'[Len(runs) + 1].produced = produced
  BY RunRecorded DEF AccountInv
<1>2. ASSUME NEW i \in 1 .. Len(runs'), ~IsError(runs'[i]), ~truth'[i].crashed
      PROVE  /\ runs'[i].backlog >= truth'[i].carried
             /\ runs'[i].events <= truth'[i].produced + truth'[i].unread
             /\ truth'[i].fresh => runs'[i].events <= truth'[i].produced
  <2>1. Len(runs) \in Nat
    BY DEF AccountInv, Sequence
  <2>2. CASE i = Len(runs) + 1
    <3>1. ~IsError(summary) /\ ~crashed
      BY <1>1, <1>2, <2>2
    <3> QED
      BY <1>1, <2>2, <3>1
  <2>3. CASE i \in 1 .. Len(runs)
    <3>1. runs'[i] = runs[i] /\ truth'[i] = truth[i]
      BY <1>1, <2>3
    <3> QED
      BY <1>2, <2>3, <3>1 DEF AccountInv
  <2> QED
    BY <1>1, <2>1, <2>2, <2>3
<1> QED
  BY <1>1, <1>2 DEF AccountInv, IsError

LEMMA AccountStays ==
    ASSUME AccountInv, UNCHANGED <<runs, truth>>
    PROVE  AccountInv'
  BY DEF AccountInv, Sequence, IsError

(* A step of the engine leaves it no more to read, and shows the counter.  *)
LEMMA Shorter ==
    ASSUME NEW s, Sequence(s)
    PROVE  /\ Len(s) = 0 => s = << >>
           /\ s # << >> => /\ Sequence(Tail(s))
                           /\ Len(Tail(s)) = Len(s) - 1
                           /\ Len(s) # 0
<1>1. Len(s) \in Nat /\ s = [i \in 1 .. Len(s) |-> s[i]]
  BY DEF Sequence
<1>2. ASSUME Len(s) = 0 PROVE s = << >>
  <2>1. s = [i \in 1 .. 0 |-> s[i]] /\ << >> = [i \in 1 .. 0 |-> << >>[i]]
    BY <1>1, <1>2, EmptyIsSequence DEF Sequence
  <2> QED
    BY <2>1
<1>3. ASSUME s # << >>
      PROVE  Sequence(Tail(s)) /\ Len(Tail(s)) = Len(s) - 1 /\ Len(s) # 0
  <2> DEFINE S == {s[i] : i \in 1 .. Len(s)}
  <2>1. \A i \in 1 .. Len(s) : s[i] \in S
    OBVIOUS
  <2>2. s \in Seq(S)
    BY <1>1, <2>1
  <2> HIDE DEF S
  <2>3. Tail(s) \in Seq(S) /\ Len(Tail(s)) = Len(s) - 1
    BY <1>3, <2>2
  <2>4. Len(Tail(s)) \in Nat /\ Tail(s) \in [1 .. Len(Tail(s)) -> S]
    BY <2>3, LenProperties
  <2>5. Sequence(Tail(s))
    BY <2>4 DEF Sequence
  <2> QED
    BY <1>2, <1>3, <2>3, <2>5
<1> QED
  BY <1>2, <1>3

LEMMA OneAtMost ==
    ASSUME NEW n \in Nat, n # 0, n <= 1
    PROVE  n = 1
  OBVIOUS

LEMMA SampleShowsCounter ==
    ASSUME CounterInv, NEW sample, Log(sample), sample.total = total,
           UNCHANGED <<pc, total, carried, unread, produced, fresh>>,
           Sequence(backlog'), Len(backlog') <= Len(backlog)
    PROVE  CounterInv'
<1>1. Len(backlog) \in Nat /\ Len(backlog') \in Nat /\ Len(lines) \in Nat
  BY DEF CounterInv, CounterTypes, Sequence
<1>2. CASE Loading
  <2>1. /\ Sequence(lines') /\ Len(lines') = Len(lines) + 1
        /\ \A i \in 1 .. Len(lines) : lines'[i] = lines[i]
        /\ lines'[Len(lines) + 1] = sample
    BY <1>2, Appended DEF CounterInv, CounterTypes, Log
  <2>2. \A i \in 1 .. Len(lines') : \/ i \in 1 .. Len(lines) /\ lines'[i] = lines[i]
                                    \/ lines'[i] = sample
    BY <1>1, <2>1
  <2>3. pc \in {"load", "drain"} /\ (crashed' <=> crashed)
    BY <1>2 DEF Log, Loading
  <2>4. CounterTypes'
    BY <2>1, <2>2 DEF CounterInv, CounterTypes
  <2>5. ASSUME ~crashed
        PROVE  /\ carried' <= total' /\ total' + Len(backlog') <= carried' + unread' + produced'
               /\ \A i \in 1 .. Len(lines') : carried' <= lines'[i].total /\ lines'[i].total <= total'
    <3>1. /\ carried <= total /\ total + Len(backlog) <= carried + unread + produced
          /\ \A i \in 1 .. Len(lines) : carried <= lines[i].total /\ lines[i].total <= total
      BY <1>2, <2>5 DEF CounterInv, UnderLoad
    <3>2. total \in Nat /\ carried \in Nat /\ unread \in Nat /\ produced \in Nat
      BY DEF CounterInv, CounterTypes
    <3> QED
      BY <1>1, <2>2, <3>1, <3>2
  <2>6. UnderLoad'
    BY <2>3, <2>5 DEF UnderLoad
  <2>7. FreshInv'
    BY <1>2, <2>3 DEF CounterInv, FreshInv, Loading, OutsideLoad
  <2> QED
    BY <2>3, <2>4, <2>6, <2>7 DEF CounterInv, BeforeLoad, OutsideLoad
<1>3. CASE ~Loading
  <2>1. lines' = <<sample>>
    BY <1>3 DEF Log
  <2>2. <<sample>> = Append(<< >>, sample) /\ Len(<< >>) = 0
    OBVIOUS
  <2>3. Sequence(Append(<< >>, sample))
    BY EmptyIsSequence, Appended
  <2>4. Sequence(lines')
    BY ONLY <2>1, <2>2, <2>3
  <2>5. Len(lines') = 1 /\ lines'[1] = sample
    BY <2>1
  <2>6. \A i \in 1 .. Len(lines') : lines'[i] = sample
    BY <2>5
  <2>7. CounterTypes'
    BY <2>4, <2>6 DEF CounterInv, CounterTypes
  <2>8. BeforeLoad'
    BY <2>5, <2>6 DEF CounterInv, CounterTypes, BeforeLoad, OutsideLoad
  <2>9. FreshInv'
    BY <1>1, <1>3, <2>6 DEF CounterInv, FreshInv, OutsideLoad, Loading
  <2> QED
    BY <1>3, <2>7, <2>8, <2>9 DEF CounterInv, UnderLoad, Loading
<1> QED
  BY <1>2, <1>3

(* The harness, action by action.                                          *)
LEMMA MainCounts ==
    ASSUME InheritInv, Main
    PROVE  InheritInv'
<1> USE DEF InheritInv
<1>1. CASE Restart
  <2>1. /\ UNCHANGED <<runs, truth, carried, unread, produced>> /\ pc = "begin" /\ pc' = "up"
        /\ backlog' \in {backlog, << >>} /\ lines' \in {lines, << >>}
    BY <1>1 DEF Restart, NewStack, OldStack
  <2>2. Sequence(lines') /\ Sequence(backlog') /\ Len(<< >>) = 0
    BY <2>1, EmptyIsSequence DEF CounterInv, CounterTypes
  <2>3. \/ total' = total /\ lines' = lines /\ crashed' = crashed /\ fresh' = FALSE
        \/ total' = 0 /\ lines' = lines /\ crashed' = TRUE /\ fresh' = FALSE
        \/ total' = 0 /\ lines' = << >> /\ crashed' = crashed /\ fresh' = FALSE
        \/ total' = 0 /\ lines' = << >> /\ backlog' = << >> /\ fresh' = TRUE
    BY <1>1 DEF Restart, NewStack, OldStack
  <2>4. CounterTypes'
    BY <2>1, <2>2, <2>3 DEF CounterInv, CounterTypes
  <2>5. BeforeLoad'
    BY <2>1, <2>2, <2>3 DEF CounterInv, CounterTypes, BeforeLoad, OutsideLoad
  <2>6. FreshInv'
    BY <2>1, <2>2, <2>3 DEF FreshInv, OutsideLoad, Loading
  <2> QED
    BY <2>1, <2>4, <2>5, <2>6, AccountStays DEF CounterInv, UnderLoad, Loading
<1>2. CASE StackFails
  <2>1. RunDone(Failed("stack failed to start"), FALSE)
    BY <1>2 DEF StackFails
  <2>2. IsError(Failed("stack failed to start"))
    BY DEF IsError, Failed
  <2>3. AccountInv'
    BY <2>1, <2>2, AccountKept
  <2>4. /\ pc \in {"begin", "up"} /\ pc' \in {"report", "begin"}
        /\ carried' = 0 /\ unread' = 0 /\ produced' = 0 /\ fresh' = FALSE
    BY <1>2, <2>1 DEF StackFails, RunDone
  <2>5. /\ backlog' \in {backlog, << >>} /\ lines' \in {lines, << >>}
        /\ \/ total' = total /\ lines' = lines /\ crashed' = crashed
           \/ total' = 0 /\ lines' = lines /\ crashed' = TRUE
           \/ total' = 0 /\ lines' = << >>
    BY <1>2 DEF StackFails, NewStack, OldStack
  <2>6. Sequence(lines') /\ Sequence(backlog') /\ Len(<< >>) = 0
    BY <2>5, EmptyIsSequence DEF CounterInv, CounterTypes
  <2>7. CounterTypes'
    BY <2>4, <2>5, <2>6 DEF CounterInv, CounterTypes
  <2>8. BeforeLoad'
    BY <2>4, <2>5, <2>6 DEF CounterInv, CounterTypes, BeforeLoad, OutsideLoad
  <2> QED
    BY <2>3, <2>4, <2>7, <2>8 DEF CounterInv, FreshInv, UnderLoad, Loading
<1>3. CASE NotReady
  <2>1. RunDone(Failed("stack not ready"), FALSE)
    BY <1>3 DEF NotReady
  <2>2. IsError(Failed("stack not ready"))
    BY DEF IsError, Failed
  <2>3. AccountInv'
    BY <2>1, <2>2, AccountKept
  <2>4. /\ pc = "begin" /\ pc' \in {"report", "begin"}
        /\ carried' = 0 /\ unread' = 0 /\ produced' = 0 /\ fresh' = FALSE
        /\ UNCHANGED <<lines, total, backlog, crashed>>
    BY <1>3, <2>1 DEF NotReady, scoring, RunDone
  <2> QED
    BY <2>3, <2>4
    DEF CounterInv, CounterTypes, BeforeLoad, FreshInv, UnderLoad, Loading, OutsideLoad, Sequence
<1>4. CASE Ready \/ FleetHangs \/ FleetEnds \/ Report
  <2>1. /\ UNCHANGED <<runs, truth, lines, backlog, total, carried, unread, produced, crashed, fresh>>
        /\ \/ pc \in {"begin", "up"} /\ pc' = "ready"
           \/ pc = "load" /\ pc' \in {"raised", "drain"}
           \/ pc = "report" /\ pc' = "over"
    BY <1>4 DEF Ready, FleetHangs, FleetEnds, Report, history, scoring
  <2> QED
    BY <2>1, AccountStays
    DEF CounterInv, CounterTypes, BeforeLoad, FreshInv, UnderLoad, Loading, OutsideLoad, Sequence
<1>5. CASE StartLoad
  <2>1. /\ UNCHANGED <<runs, truth, total, backlog, produced, fresh>> /\ pc = "ready" /\ pc' = "load"
        /\ lines' \in {lines, << >>}
        /\ carried' = (IF lines' = << >> THEN total ELSE lines'[1].total)
        /\ crashed' = (crashed /\ lines' # << >>)
        /\ unread' = (IF crashed' THEN 0 ELSE Len(backlog) + total - carried')
    BY <1>5 DEF StartLoad
  <2>2. total \in Nat /\ produced = 0 /\ Len(backlog) \in Nat
    BY <2>1 DEF CounterInv, CounterTypes, BeforeLoad, OutsideLoad, Sequence
  <2>3. /\ Sequence(lines') /\ carried' \in Nat
        /\ \A i \in 1 .. Len(lines') : lines'[i].total = carried'
        /\ ~crashed' => carried' <= total
        /\ fresh => carried' = total
    <3>1. CASE lines' = << >>
      <4>1. carried' = total /\ Len(lines') = 0
        BY <2>1, <3>1
      <4> QED
        BY <2>2, <3>1, <4>1, EmptyIsSequence
    <3>2. CASE lines' # << >>
      <4>1. lines' = lines /\ lines # << >> /\ (crashed' <=> crashed)
        BY <2>1, <3>2
      <4>2. Len(lines) = 1
        <5>1. Len(lines) \in Nat /\ Len(lines) # 0
          BY <4>1, Shorter DEF CounterInv, CounterTypes, Sequence
        <5>2. Len(lines) <= 1
          BY <2>1 DEF CounterInv, BeforeLoad, OutsideLoad
        <5> QED
          BY <5>1, <5>2, OneAtMost
      <4>3. lines[1].total \in Nat /\ (crashed \/ lines[1].total <= total)
        BY <2>1, <4>2 DEF CounterInv, CounterTypes, BeforeLoad, OutsideLoad
      <4>4. fresh => total = 0 /\ lines[1].total = 0
        BY <2>1, <4>2 DEF CounterInv, FreshInv, OutsideLoad
      <4>5. carried' = lines[1].total /\ Sequence(lines')
        BY <2>1, <3>2, <4>1 DEF CounterInv, CounterTypes
      <4>6. \A i \in 1 .. Len(lines') : lines'[i].total = carried'
        BY <4>1, <4>2, <4>5
      <4> QED
        BY <4>1, <4>3, <4>4, <4>5, <4>6
    <3> QED
      BY <3>1, <3>2
  <2>4. unread' \in Nat /\ (~crashed' => unread' = Len(backlog) + total - carried')
    <3>1. CASE crashed'
      BY <2>1, <3>1
    <3>2. CASE ~crashed'
      BY <2>1, <2>2, <2>3, <3>2
    <3> QED
      BY <3>1, <3>2
  <2>5. CounterTypes'
    BY <2>1, <2>2, <2>3, <2>4 DEF CounterInv, CounterTypes
  <2>6. FreshInv'
    <3>1. ASSUME fresh PROVE unread' = 0
      <4>1. Len(backlog) = 0 /\ carried' = total
        BY <2>1, <2>3, <3>1 DEF CounterInv, FreshInv, OutsideLoad
      <4> QED
        BY <2>1, <2>2, <4>1
    <3> QED
      BY <2>1, <3>1 DEF FreshInv, OutsideLoad, Loading
  <2>7. UnderLoad'
    <3>1. ASSUME ~crashed'
          PROVE  /\ carried' <= total /\ total + Len(backlog) <= carried' + unread' + produced
                 /\ \A i \in 1 .. Len(lines') : carried' <= lines'[i].total /\ lines'[i].total <= total
      BY <2>2, <2>3, <2>4, <3>1
    <3> QED
      BY <2>1, <3>1 DEF UnderLoad
  <2> QED
    BY <2>1, <2>5, <2>6, <2>7, AccountStays DEF CounterInv, BeforeLoad, OutsideLoad
<1>6. CASE Harvest
  <2>1. /\ pc = "drain" /\ lines' = << >> /\ UNCHANGED <<total, backlog, crashed>>
        /\ \E n \in 0 .. Len(lines) : RunDone(Summarize(Part(n)), n = Len(lines))
    BY <1>6 DEF Harvest, Part
  <2>2. PICK n \in 0 .. Len(lines) : RunDone(Summarize(Part(n)), n = Len(lines))
    BY <2>1
  <2>3. Loading
    BY <2>1 DEF Loading
  <2>4. AccountInv'
    BY <2>2, <2>3, AccountKept, SummaryAccounts
  <2>5. /\ pc' \in {"report", "begin"}
        /\ carried' = 0 /\ unread' = 0 /\ produced' = 0 /\ fresh' = FALSE
    BY <2>2 DEF RunDone
  <2> QED
    BY <2>1, <2>4, <2>5, EmptyIsSequence
    DEF CounterInv, CounterTypes, BeforeLoad, FreshInv, UnderLoad, Loading, OutsideLoad, Sequence
<1> QED
  BY <1>1, <1>2, <1>3, <1>4, <1>5, <1>6 DEF Main

(* The scoring engine and the trades, action by action.                    *)
LEMMA StackCounts ==
    ASSUME InheritInv, Stack
    PROVE  InheritInv'
<1> USE DEF InheritInv
<1>1. UNCHANGED <<runs, pc, truth, carried, unread, fresh>>
  BY DEF Stack, Produce, Accept, Disqualify, Emit, Crash, history, bench
<1>2. AccountInv'
  BY <1>1, AccountStays
<1>3. Sequence(backlog) /\ Len(backlog) \in Nat
  BY DEF CounterInv, CounterTypes, Sequence
<1>4. CASE Produce
  <2>1. /\ UNCHANGED <<lines, total, crashed>> /\ Loading /\ produced' = produced + 1
        /\ \E e \in Event : backlog' = Append(backlog, e)
    BY <1>4 DEF Produce, history
  <2>2. Sequence(backlog') /\ Len(backlog') = Len(backlog) + 1
    BY <1>3, <2>1, Appended
  <2>3. CounterTypes'
    BY <1>1, <2>1, <2>2 DEF CounterInv, CounterTypes, Sequence
  <2>4. UnderLoad'
    BY <1>1, <1>3, <2>1, <2>2 DEF CounterInv, CounterTypes, UnderLoad, Loading
  <2> QED
    BY <1>1, <1>2, <2>1, <2>3, <2>4 DEF CounterInv, BeforeLoad, FreshInv, Loading, OutsideLoad
<1>5. CASE Accept
  <2>1. /\ UNCHANGED <<lines, crashed, produced>> /\ total' = total + 1
        /\ backlog # << >> /\ backlog' = Tail(backlog)
    BY <1>5 DEF Accept, history
  <2>2. Sequence(backlog') /\ Len(backlog') = Len(backlog) - 1 /\ Len(backlog) # 0
    BY <1>3, <2>1, Shorter
  <2>3. CounterTypes'
    BY <1>1, <2>1, <2>2 DEF CounterInv, CounterTypes, Sequence
  <2>4. UnderLoad'
    BY <1>1, <1>3, <2>1, <2>2 DEF CounterInv, CounterTypes, UnderLoad, Loading
  <2>5. BeforeLoad'
    BY <1>1, <2>1 DEF CounterInv, CounterTypes, BeforeLoad, OutsideLoad
  <2>6. FreshInv'
    BY <1>1, <2>2 DEF CounterInv, FreshInv, Loading, OutsideLoad
  <2> QED
    BY <1>2, <2>3, <2>4, <2>5, <2>6 DEF CounterInv
<1>6. CASE Disqualify
  <2>1. PICK tps \in Windows : Log([tps |-> tps, total |-> total, passed |-> FALSE])
    BY <1>6 DEF Disqualify
  <2>2. UNCHANGED <<total, produced>> /\ backlog # << >> /\ backlog' = Tail(backlog)
    BY <1>6 DEF Disqualify
  <2>3. Sequence(backlog') /\ Len(backlog') <= Len(backlog)
    BY <1>3, <2>2, Shorter
  <2> QED
    BY <1>1, <1>2, <2>1, <2>2, <2>3, SampleShowsCounter
<1>7. CASE Emit
  <2>1. PICK tps \in Windows : Log([tps |-> tps, total |-> total, passed |-> TRUE])
    BY <1>7 DEF Emit
  <2>2. UNCHANGED <<total, produced, backlog>>
    BY <1>7 DEF Emit
  <2>3. Sequence(backlog') /\ Len(backlog') <= Len(backlog)
    BY <1>3, <2>2
  <2> QED
    BY <1>1, <1>2, <2>1, <2>2, <2>3, SampleShowsCounter
<1>8. CASE Crash
  <2>1. /\ UNCHANGED <<lines, produced>> /\ total' = 0 /\ crashed'
        /\ backlog' \in {backlog, IF backlog = << >> THEN << >> ELSE Tail(backlog)}
    BY <1>8 DEF Crash
  <2>2. Sequence(backlog') /\ (Len(backlog) = 0 => Len(backlog') = 0)
    <3>1. CASE backlog = << >>
      BY <1>3, <2>1, <3>1, EmptyIsSequence
    <3>2. CASE backlog # << >>
      BY <1>3, <2>1, <3>2, Shorter
    <3> QED
      BY <3>1, <3>2
  <2>3. CounterTypes'
    BY <1>1, <2>1, <2>2 DEF CounterInv, CounterTypes, Sequence
  <2>4. FreshInv'
    BY <1>1, <2>1, <2>2 DEF CounterInv, FreshInv, Loading, OutsideLoad
  <2> QED
    BY <1>1, <1>2, <2>1, <2>3, <2>4 DEF CounterInv, BeforeLoad, UnderLoad, OutsideLoad
<1> QED
  BY <1>4, <1>5, <1>6, <1>7, <1>8 DEF Stack

(* summarize: the backlog of a run that is counted is at least what the    *)
(* engine had counted before the load; its events are no more than those   *)
(* of the load and those that were unread when it began, and on a new stack *)
(* those of the load alone, unless the counter started again in between;   *)
(* for any number of runs, samples, events and crashes, and any part of    *)
(* the log.                                                                *)
THEOREM RunEventsAccounted == Spec => []EventsAreAccountedFor
<1>1. Init => InheritInv
  <2> SUFFICES ASSUME Init PROVE InheritInv
    OBVIOUS
  <2>1. /\ pc = "begin" /\ runs = << >> /\ truth = << >> /\ lines = << >>
        /\ total \in Nat /\ carried = 0 /\ unread = 0 /\ produced = 0 /\ fresh = FALSE
    BY DEF Init
  <2>2. Len(runs) = 0 /\ Len(truth) = 0 /\ Len(lines) = 0
    BY <2>1
  <2>3. Sequence(backlog)
    <3>1. backlog \in {<< >>, <<"good">>}
      BY DEF Init
    <3>2. <<"good">> = Append(<< >>, "good")
      OBVIOUS
    <3>3. Sequence(<< >>) /\ Sequence(Append(<< >>, "good"))
      BY EmptyIsSequence, Appended
    <3> QED
      BY <3>1, <3>2, <3>3
  <2> QED
    BY <2>1, <2>2, <2>3, EmptyIsSequence
    DEF InheritInv, CounterInv, CounterTypes, BeforeLoad, FreshInv, UnderLoad, AccountInv, Loading, OutsideLoad
<1>2. InheritInv /\ [Next]_vars => InheritInv'
  <2> SUFFICES ASSUME InheritInv, [Next]_vars PROVE InheritInv'
    OBVIOUS
  <2>1. CASE UNCHANGED vars
    <3>1. UNCHANGED <<runs, truth, pc, lines, backlog, total, carried, unread, produced, crashed, fresh>>
      BY <2>1 DEF vars, history, scoring, bench
    <3> QED
      BY <3>1, AccountStays
      DEF InheritInv, CounterInv, CounterTypes, BeforeLoad, FreshInv, UnderLoad, Loading, OutsideLoad, Sequence
  <2> QED
    BY <2>1, MainCounts, StackCounts DEF Next
<1>3. InheritInv => EventsAreAccountedFor
  BY DEF InheritInv, AccountInv, EventsAreAccountedFor, Counted, Sequence
<1> QED
  BY <1>1, <1>2, <1>3, PTL DEF Spec

-----------------------------------------------------------------------------
(* The bots that make the load: one of them, over any number of            *)
(* connections and orders.                                                 *)

(* What the event loop runs.                                               *)
Runnable == {"bot", "made", "answer", "eof", "reset", "lost", "flushed", "reader", "stop"}
Callbacks == [run : Runnable, k : Nat, ok : BOOLEAN]
States == {"none", "open", "eof", "flushing", "closing", "lost"}

(* What a callback in the queue says of its connection.                    *)
Says(x, c, r, o) ==
    /\ x.run \in {"reader", "lost", "flushed", "made", "eof", "reset"} => x.k \in Connections
    /\ x.run = "reader" => /\ r[x.k] \in {"scheduled", "waiting"}
                           /\ r[x.k] = "waiting" => c[x.k] \notin {"none", "open"}
    /\ x.run = "lost" => c[x.k] = "closing"
    /\ x.run = "flushed" => c[x.k] \in {"flushing", "closing", "lost"}
    /\ x.run = "made" => c[x.k] = "none" /\ x.k <= o

(* And what two callbacks say, the one before the other: a reader is woken *)
(* once, and never again when the connection is lost after its end.        *)
Follows(x, y, r) ==
    x.k = y.k =>
        /\ x.run \in {"reader", "lost", "flushed", "made"} => y.run # x.run
        /\ x.run = "lost" => y.run # "flushed"
        /\ x.run \in {"lost", "flushed"} /\ y.run = "reader" => r[x.k] # "waiting"

Orderly(q, c, r, o) ==
    /\ q \in Seq(Callbacks)
    /\ \A i \in 1..Len(q) : Says(q[i], c, r, o)
    /\ \A i, j \in 1..Len(q) : i < j => Follows(q[i], q[j], r)

BotTypes ==
    /\ opened \in 0..MaxConnections /\ current \in 0..opened
    /\ conn \in [Connections -> States]
    /\ reader \in [Connections -> {"none", "scheduled", "waiting", "done"}]
    /\ generated \in Nat /\ sent \in Nat /\ failed \in Nat /\ drops \in Nat
    /\ pending \in BOOLEAN /\ gaveUp \subseteq 1..opened

(* Where the bot is: with a connection that is new, with an order or       *)
(* without one.                                                            *)
PlaceInv ==
    /\ \A k \in Connections : k > opened => conn[k] = "none" /\ reader[k] = "none"
    /\ \A k \in Connections : reader[k] # "none" => k \notin gaveUp
    /\ at \in {"opening", "upgrade", "closing"}
         => opened # 0 /\ opened \notin gaveUp /\ reader[opened] = "none"
    /\ at \in {"upgrade", "closing"} => current = opened
    /\ at = "opening" => conn[opened] = "none" \/ Scheduled("bot")
    /\ at \in {"check", "write", "drain"} => pending
    /\ at \in {"next", "sleep"} => ~pending

CountInv ==
    /\ generated = sent + failed + (IF pending THEN 1 ELSE 0)
    /\ drops = Cardinality(gaveUp)
               + Cardinality({k \in Connections : reader[k] = "done"})

Kept == BotTypes /\ PlaceInv /\ Orderly(ready, conn, reader, opened) /\ CountInv

BotInv == running => Kept

LEMMA CallbackIs ==
    ASSUME NEW name \in Runnable, NEW k \in Nat, NEW ok \in BOOLEAN
    PROVE  /\ Callback(name, k, ok) \in Callbacks
           /\ Callback(name, k, ok).run = name
           /\ Callback(name, k, ok).k = k
           /\ Callback(name, k, ok).ok = ok
  BY DEF Callback, Callbacks


(* The queue loses its first callback, ...                                 *)
LEMMA OrderlyTail ==
    ASSUME NEW q, NEW c, NEW r, NEW o, Orderly(q, c, r, o), q # << >>
    PROVE  /\ Orderly(Tail(q), c, r, o)
           /\ Head(q) \in Callbacks
           /\ Says(Head(q), c, r, o)
           /\ \A i \in 1..Len(Tail(q)) : /\ Follows(Head(q), Tail(q)[i], r)
                                         /\ Tail(q)[i] = q[i + 1] /\ i + 1 \in 1..Len(q)
<1> DEFINE t == Tail(q)
           S == Callbacks
<1>1. /\ q \in Seq(S) /\ t \in Seq(S) /\ Len(q) \in Nat \ {0} /\ Len(t) = Len(q) - 1
      /\ Head(q) = q[1] /\ \A i \in 1..Len(t) : t[i] = q[i + 1]
  BY HeadTailProperties, EmptySeq DEF Orderly
<1> HIDE DEF t, S
<1>2. \A i \in 1..Len(t) : i + 1 \in 1..Len(q) /\ 1 \in 1..Len(q) /\ 1 < i + 1
  BY <1>1
<1>3. \A i \in 1..Len(q) : Says(q[i], c, r, o)
  BY DEF Orderly
<1>4. \A i, j \in 1..Len(q) : i < j => Follows(q[i], q[j], r)
  BY DEF Orderly
<1>5. \A i \in 1..Len(t) : Says(t[i], c, r, o) /\ Follows(q[1], t[i], r)
  BY <1>1, <1>2, <1>3, <1>4
<1>6. \A i, j \in 1..Len(t) : i < j => Follows(t[i], t[j], r)
  <2> TAKE i, j \in 1..Len(t)
  <2>1. i < j => i + 1 < j + 1
    BY <1>1
  <2> QED
    BY <1>1, <1>2, <1>4, <2>1
<1>7. Says(q[1], c, r, o) /\ q[1] \in S
  BY <1>1, <1>3, ElementOfSeq
<1> QED
  BY <1>1, <1>2, <1>5, <1>6, <1>7 DEF Orderly, t, S

(* ... gets another one, ...                                               *)
LEMMA OrderlyMore ==
    ASSUME NEW q, NEW c, NEW r, NEW o, Orderly(q, c, r, o),
           NEW x \in Callbacks, Says(x, c, r, o),
           \A i \in 1..Len(q) : Follows(q[i], x, r)
    PROVE  Orderly(Append(q, x), c, r, o)
<1> DEFINE t == Append(q, x)
           S == Callbacks
<1>1. /\ t \in Seq(S) /\ Len(q) \in Nat /\ Len(t) = Len(q) + 1
      /\ t[Len(q) + 1] = x /\ \A i \in 1..Len(q) : t[i] = q[i]
  BY AppendProperties, LenProperties DEF Orderly
<1> HIDE DEF t, S
<1>2. \A i \in 1..Len(t) : i \in 1..Len(q) \/ i = Len(q) + 1
  BY <1>1
<1>3. \A i \in 1..Len(t) : Says(t[i], c, r, o)
  BY <1>1, <1>2 DEF Orderly
<1>4. \A i, j \in 1..Len(q) : i < j => Follows(q[i], q[j], r)
  BY DEF Orderly
<1>5. \A i, j \in 1..Len(t) : i < j => Follows(t[i], t[j], r)
  <2> SUFFICES ASSUME NEW i \in 1..Len(t), NEW j \in 1..Len(t), i < j
               PROVE  Follows(t[i], t[j], r)
    OBVIOUS
  <2>1. i \in 1..Len(q)
    BY <1>1
  <2>2. CASE j \in 1..Len(q)
    BY <1>1, <1>4, <2>1, <2>2
  <2>3. CASE j = Len(q) + 1
    BY <1>1, <2>1, <2>3
  <2> QED
    BY <1>2, <2>2, <2>3
<1> QED
  BY <1>1, <1>3, <1>5 DEF Orderly, t, S

(* ... or what it speaks of changes.                                       *)
LEMMA OrderlyChange ==
    ASSUME NEW q, NEW c, NEW r, NEW d, NEW s, NEW o, Orderly(q, c, r, o),
           \A i \in 1..Len(q) : Says(q[i], d, s, o),
           \A i, j \in 1..Len(q) : Follows(q[i], q[j], r) => Follows(q[i], q[j], s)
    PROVE  Orderly(q, d, s, o)
  BY DEF Orderly

(* A callback of another kind says nothing.                                *)
LEMMA OrderlyOther ==
    ASSUME NEW q, NEW c, NEW r, NEW o, Orderly(q, c, r, o), NEW name \in Runnable, NEW k \in Nat,
           NEW ok \in BOOLEAN, name \notin {"reader", "lost", "flushed", "made"},
           name \in {"eof", "reset"} => k \in Connections
    PROVE  Orderly(Append(q, Callback(name, k, ok)), c, r, o)
<1> DEFINE x == Callback(name, k, ok)
<1>1. /\ x \in Callbacks /\ x.run = name /\ x.k = k
  BY CallbackIs
<1> HIDE DEF x
<1>2. Says(x, c, r, o) /\ \A i \in 1..Len(q) : Follows(q[i], x, r)
  BY <1>1 DEF Says, Follows
<1> QED
  BY <1>1, <1>2, OrderlyMore DEF x

(* close() and a broken connection.                                        *)
LEMMA OrderlyStop ==
    ASSUME BotTypes, NEW q, NEW r, NEW o, Orderly(q, conn, r, o), NEW k \in Nat
    PROVE  Orderly(q \o LossOf(k), Stopped(k), r, o)
<1>0. q \in Seq(Callbacks)
  BY DEF Orderly
<1>1. CASE ~Writes(k)
  <2>1. LossOf(k) = << >> /\ Stopped(k) = conn
    BY <1>1 DEF LossOf, Stopped
  <2>2. q \o << >> = q
    BY <1>0, ConcatEmptySeq
  <2> QED
    BY <2>1, <2>2
<1>2. CASE Writes(k)
  <2> DEFINE x == Callback("lost", k, TRUE)
             d == [conn EXCEPT ![k] = "closing"]
  <2>0. k \in Connections /\ conn[k] \in {"open", "eof", "flushing"}
    BY <1>2 DEF Writes
  <2>1. x \in Callbacks /\ x.run = "lost" /\ x.k = k
    <3>1. "lost" \in Runnable /\ TRUE \in BOOLEAN
      BY DEF Runnable
    <3> QED
      BY <3>1, CallbackIs, Zenon
  <2>2. d[k] = "closing" /\ \A l \in Connections : l # k => d[l] = conn[l]
    BY <2>0, <2>1 DEF BotTypes
  <2>3. LossOf(k) = << x >> /\ Stopped(k) = d
    BY <1>2 DEF LossOf, Stopped
  <2> HIDE DEF x, d
  <2>4. \A i \in 1..Len(q) : Says(q[i], conn, r, o)
    BY DEF Orderly
  <2>5. \A i \in 1..Len(q) : Says(q[i], d, r, o) /\ Follows(q[i], x, r)
    <3> TAKE i \in 1..Len(q)
    <3>1. Says(q[i], conn, r, o)
      BY <2>4
    <3>2. CASE q[i].k = k
      BY <2>0, <2>1, <2>2, <3>1, <3>2 DEF Says, Follows
    <3>3. CASE q[i].k # k
      BY <2>0, <2>1, <2>2, <3>1, <3>3 DEF Says, Follows
    <3> QED
      BY <3>2, <3>3
  <2>6. Orderly(q, d, r, o)
    BY <2>5, OrderlyChange
  <2>7. Says(x, d, r, o)
    BY <2>0, <2>1, <2>2 DEF Says
  <2>8. Orderly(Append(q, x), d, r, o)
    BY <2>1, <2>5, <2>6, <2>7, OrderlyMore
  <2>9. q \o << x >> = Append(q, x)
    BY <1>0, <2>1, AppendIsConcat
  <2> QED
    BY <2>3, <2>8, <2>9
<1> QED
  BY <1>1, <1>2

(* close() may go on writing first.                                        *)
LEMMA OrderlyClose ==
    ASSUME BotTypes, NEW q, NEW r, NEW o, Orderly(q, conn, r, o), NEW k \in Nat, Close(k, q)
    PROVE  /\ Orderly(ready', conn', r, o)
           /\ conn' \in [Connections -> States]
           /\ \A l \in Connections : conn[l] = "none" => conn'[l] = "none"
           /\ ready' = q \/ ready' = q \o << Callback("lost", k, TRUE) >>
<1>1. CASE ~Alive(k) /\ conn' = conn /\ ready' = q
  BY <1>1 DEF BotTypes
<1>2. CASE conn' = Stopped(k) /\ ready' = q \o LossOf(k)
  <2>1. Orderly(ready', conn', r, o)
    BY <1>2, OrderlyStop
  <2>2. /\ Stopped(k) \in [Connections -> States]
        /\ \A l \in Connections : conn[l] = "none" => Stopped(k)[l] = "none"
    BY DEF BotTypes, Stopped, Writes, States
  <2>3. q \o << >> = q
    BY ConcatEmptySeq DEF Orderly
  <2> QED
    BY <1>2, <2>1, <2>2, <2>3 DEF LossOf
<1>3. CASE Alive(k) /\ conn' = [conn EXCEPT ![k] = "flushing"] /\ ready' = q
  <2>1. k \in Connections /\ conn[k] \in {"open", "eof"}
    BY <1>3 DEF Alive
  <2>2. /\ conn' \in [Connections -> States] /\ conn'[k] = "flushing"
        /\ \A l \in Connections : l # k => conn'[l] = conn[l]
    BY <1>3, <2>1 DEF BotTypes, States
  <2>3. \A i \in 1..Len(q) : Says(q[i], conn', r, o)
    <3> TAKE i \in 1..Len(q)
    <3>1. Says(q[i], conn, r, o)
      BY DEF Orderly
    <3>2. CASE q[i].k = k
      BY <2>1, <2>2, <3>1, <3>2 DEF Says
    <3>3. CASE q[i].k # k
      BY <2>2, <3>1, <3>3 DEF Says
    <3> QED
      BY <3>2, <3>3
  <2>4. Orderly(q, conn', r, o)
    BY <2>3, OrderlyChange
  <2> QED
    BY <1>3, <2>1, <2>2, <2>4
<1> QED
  BY <1>1, <1>2, <1>3 DEF Close

(* Whoever waits is woken: the bot ...                                     *)
LEMMA OrderlyBot ==
    ASSUME NEW q, NEW c, NEW r, NEW o, Orderly(q, c, r, o), NEW k \in Nat, NEW S,
           NEW ok \in BOOLEAN
    PROVE  Orderly(q \o TheBot(k, S, ok), c, r, o)
<1> DEFINE x == Callback("bot", k, ok)
<1>0. q \in Seq(Callbacks) /\ q \o << >> = q
  BY ConcatEmptySeq DEF Orderly
<1>1. x \in Callbacks /\ "bot" \in Runnable /\ "bot" \notin {"reader", "lost", "flushed", "made", "eof", "reset"}
  BY DEF Callback, Callbacks, Runnable
<1>2. Orderly(Append(q, x), c, r, o)
  BY <1>1, OrderlyOther, Zenon
<1>3. TheBot(k, S, ok) = << >> \/ TheBot(k, S, ok) = << x >>
  BY DEF TheBot
<1> HIDE DEF x
<1>4. q \o << x >> = Append(q, x)
  BY <1>0, <1>1, AppendIsConcat
<1> QED
  BY <1>0, <1>2, <1>3, <1>4

(* ... and the reader, whose connection is no longer new or open and whom  *)
(* no callback wakes yet.                                                  *)
LEMMA OrderlyReaders ==
    ASSUME NEW q, NEW c, NEW o, Orderly(q, c, reader, o), NEW k \in Connections, k \in Nat,
           c[k] \notin {"none", "open"},
           \A i \in 1..Len(q) : ~(q[i].k = k /\ q[i].run \in {"reader", "lost", "flushed"}
                                             /\ reader[k] = "waiting")
    PROVE  Orderly(q \o Readers(k), c, reader, o)
<1>0. q \in Seq(Callbacks) /\ q \o << >> = q
  BY ConcatEmptySeq DEF Orderly
<1>1. CASE reader[k] # "waiting"
  BY <1>0, <1>1 DEF Readers
<1>2. CASE reader[k] = "waiting"
  <2> DEFINE x == Callback("reader", k, TRUE)
  <2>1. x \in Callbacks /\ x.run = "reader" /\ x.k = k
    BY DEF Callback, Callbacks, Runnable
  <2>2. Readers(k) = << x >>
    BY <1>2 DEF Readers
  <2> HIDE DEF x
  <2>3. Says(x, c, reader, o)
    BY <1>2, <2>1 DEF Says
  <2>4. \A i \in 1..Len(q) : Follows(q[i], x, reader)
    BY <1>2, <2>1 DEF Follows
  <2>5. Orderly(Append(q, x), c, reader, o)
    BY <2>1, <2>3, <2>4, OrderlyMore
  <2>6. q \o << x >> = Append(q, x)
    BY <1>0, <2>1, AppendIsConcat
  <2> QED
    BY <2>2, <2>5, <2>6
<1> QED
  BY <1>1, <1>2

(* A callback that waits stays in the queue when another one runs.         *)
LEMMA StillScheduled ==
    ASSUME NEW q \in Seq(Callbacks), q # << >>, NEW name,
           \E i \in 1..Len(q) : q[i].run = name, Head(q).run # name
    PROVE  \A s \in Seq(Callbacks) :
             \E i \in 1..Len(Tail(q) \o s) : (Tail(q) \o s)[i].run = name
<1> DEFINE t == Tail(q)
<1>1. /\ t \in Seq(Callbacks) /\ Len(q) \in Nat \ {0} /\ Len(t) = Len(q) - 1
      /\ Head(q) = q[1] /\ \A i \in 1..Len(t) : t[i] = q[i + 1]
  BY HeadTailProperties, EmptySeq
<1> HIDE DEF t
<1>2. PICK i \in 1..Len(q) : q[i].run = name
  OBVIOUS
<1>3. i # 1
  BY <1>1, <1>2
<1>4. i - 1 \in 1..Len(t) /\ t[i - 1] = q[i]
  BY <1>1, <1>3
<1>5. ASSUME NEW s \in Seq(Callbacks)
      PROVE  i - 1 \in 1..Len(t \o s) /\ (t \o s)[i - 1] = q[i]
  BY <1>1, <1>4, <1>5, ConcatProperties, LenProperties
<1> QED
  BY <1>2, <1>5 DEF t

(* What is scheduled by a callback.                                        *)
LEMMA SchedulesCallbacks ==
    ASSUME NEW k \in Nat, NEW S, NEW ok \in BOOLEAN
    PROVE  /\ Readers(k) \in Seq(Callbacks) /\ TheBot(k, S, ok) \in Seq(Callbacks)
           /\ LossOf(k) \in Seq(Callbacks)
<1>1. \A x \in Callbacks : << x >> \in Seq(Callbacks)
  OBVIOUS
<1>2. << >> \in Seq(Callbacks)
  OBVIOUS
<1>3. /\ Callback("reader", k, TRUE) \in Callbacks
      /\ Callback("bot", k, ok) \in Callbacks
      /\ Callback("lost", k, TRUE) \in Callbacks
  BY DEF Callback, Callbacks, Runnable
<1> QED
  BY <1>1, <1>2, <1>3 DEF Readers, TheBot, LossOf

(* What happens while the bot waits, and whoever else runs, leaves it      *)
(* where it is.                                                            *)
LEMMA PlaceKept ==
    ASSUME BotTypes, PlaceInv, UNCHANGED <<at, current, opened, reader, gaveUp, pending>>,
           \A l \in Connections :
              conn[l] = "none" => \/ conn'[l] = "none"
                                  \/ l <= opened /\ Scheduled("bot")',
           Scheduled("bot") => Scheduled("bot")',
           MaxConnections \in Nat \ {0}
    PROVE  PlaceInv'
<1>1. opened \in Nat /\ \A l \in Connections : l \in Nat
  BY DEF BotTypes, Connections
<1>2. \A l \in Connections : l > opened => conn'[l] = "none"
  BY <1>1 DEF PlaceInv
<1>3. at = "opening" => conn'[opened] = "none" \/ Scheduled("bot")'
  <2>1. opened # 0 => opened \in Connections
    BY <1>1 DEF BotTypes, Connections
  <2> QED
    BY <2>1 DEF PlaceInv
<1> QED
  BY <1>2, <1>3 DEF PlaceInv

LEMMA CountKept ==
    ASSUME CountInv, UNCHANGED <<reader, gaveUp, drops, generated, sent, failed, pending>>
    PROVE  CountInv'
  BY DEF CountInv

(* Sockets and timers.                                                     *)
LEMMA ScheduleKeeps ==
    ASSUME Kept, NEW x \in Callbacks, Schedule(x),
           Says(x, conn, reader, opened), \A i \in 1..Len(ready) : Follows(ready[i], x, reader)
    PROVE  Kept'
<1>1. /\ ready' = Append(ready, x)
      /\ UNCHANGED <<at, current, opened, conn, reader, gaveUp, pending, drops, generated, sent, failed>>
  BY DEF Schedule, orders
<1>2. Orderly(ready', conn, reader, opened)
  BY <1>1, OrderlyMore DEF Kept
<1>3. Scheduled("bot") => Scheduled("bot")'
  <2>1. ready \in Seq(Callbacks)
    BY DEF Kept, Orderly
  <2>2. /\ Len(ready) \in Nat /\ Len(ready') = Len(ready) + 1
        /\ \A i \in 1..Len(ready) : ready'[i] = ready[i]
    BY <1>1, <2>1, AppendProperties, LenProperties
  <2> QED
    BY <2>2 DEF Scheduled
<1>4. PlaceInv'
  BY <1>1, <1>3, PlaceKept, BoundsAssumption DEF Kept
<1>5. BotTypes'
  BY <1>1 DEF Kept, BotTypes
<1>6. CountInv'
  BY <1>1, CountKept DEF Kept
<1> QED
  BY <1>1, <1>2, <1>4, <1>5, <1>6 DEF Kept

LEMMA OthersKeep ==
    ASSUME Kept, NEW name \in Runnable, NEW k \in Nat, NEW ok \in BOOLEAN,
           name \notin {"reader", "lost", "flushed", "made"},
           name \in {"eof", "reset"} => k \in Connections,
           Schedule(Callback(name, k, ok))
    PROVE  Kept'
<1> DEFINE x == Callback(name, k, ok)
<1>1. x \in Callbacks /\ x.run = name /\ x.k = k
  BY CallbackIs
<1>2. Schedule(x)
  OBVIOUS
<1> HIDE DEF x
<1>3. Says(x, conn, reader, opened) /\ \A i \in 1..Len(ready) : Follows(ready[i], x, reader)
  BY <1>1 DEF Says, Follows
<1> QED
  BY <1>1, <1>2, <1>3, ScheduleKeeps

LEMMA EnvironmentKeeps ==
    ASSUME Kept,
           \/ Wake \/ Drain \/ ServerAccepts \/ ServerRefuses \/ Answer \/ EndOfRun
           \/ \E k \in Connections : Flush(k) \/ Hangup(k)
    PROVE  Kept'
<1>0. /\ current \in Nat /\ opened \in Nat /\ 0 \in Nat /\ TRUE \in BOOLEAN /\ FALSE \in BOOLEAN
      /\ \A k \in Connections : k \in Nat
  BY BoundsAssumption DEF Kept, BotTypes, Connections
<1>n. /\ {"bot", "answer", "eof", "reset", "stop"} \subseteq Runnable
      /\ \A n \in {"bot", "answer", "eof", "reset", "stop"} : n \notin {"reader", "lost", "flushed", "made"}
      /\ \A n \in {"bot", "answer", "stop"} : n \notin {"eof", "reset"}
  BY DEF Runnable
<1>1. CASE Wake \/ Drain
  <2>1. Schedule(Callback("bot", current, TRUE))
    BY <1>1 DEF Wake, Drain
  <2> QED
    BY <1>0, <1>n, <2>1, OthersKeep, Zenon
<1>2. CASE ServerAccepts
  <2> DEFINE x == Callback("made", opened, TRUE)
  <2>1. at = "opening" /\ ~Scheduled("made") /\ ~Scheduled("bot") /\ Schedule(x)
    BY <1>2 DEF ServerAccepts
  <2>2. x \in Callbacks /\ x.run = "made" /\ x.k = opened
    BY <1>0 DEF Callback, Callbacks, Runnable
  <2>3. opened \in Connections /\ conn[opened] = "none"
    BY <2>1, <1>0 DEF Kept, PlaceInv, BotTypes, Connections
  <2> HIDE DEF x
  <2>4. Says(x, conn, reader, opened)
    BY <1>0, <2>2, <2>3 DEF Says
  <2>5. \A i \in 1..Len(ready) : Follows(ready[i], x, reader)
    BY <2>1, <2>2 DEF Follows, Scheduled
  <2> QED
    BY <2>1, <2>2, <2>4, <2>5, ScheduleKeeps
<1>3. CASE ServerRefuses
  <2>1. Schedule(Callback("bot", opened, FALSE))
    BY <1>3 DEF ServerRefuses
  <2> QED
    BY <1>0, <1>n, <2>1, OthersKeep, Zenon
<1>4. CASE Answer
  <2>1. PICK ok \in BOOLEAN : Schedule(Callback("answer", current, ok))
    BY <1>4 DEF Answer
  <2> QED
    BY <1>0, <1>n, <2>1, OthersKeep, Zenon
<1>5. CASE EndOfRun
  <2>1. Schedule(Callback("stop", 0, TRUE))
    BY <1>5 DEF EndOfRun
  <2> QED
    BY <1>0, <1>n, <2>1, OthersKeep, Zenon
<1>6. ASSUME NEW k \in Connections, Hangup(k)
      PROVE  Kept'
  <2>1. \/ Schedule(Callback("eof", k, TRUE)) \/ Schedule(Callback("reset", k, TRUE))
    BY <1>6 DEF Hangup
  <2>2. CASE Schedule(Callback("eof", k, TRUE))
    BY <1>0, <1>n, <2>2, OthersKeep, Zenon
  <2>3. CASE Schedule(Callback("reset", k, TRUE))
    BY <1>0, <1>n, <2>3, OthersKeep, Zenon
  <2> QED
    BY <2>1, <2>2, <2>3
<1>7. ASSUME NEW k \in Connections, Flush(k)
      PROVE  Kept'
  <2> DEFINE x == Callback("flushed", k, TRUE)
  <2>1. /\ conn[k] = "flushing" /\ Schedule(x)
        /\ \A i \in 1..Len(ready) : ready[i].run = "flushed" => ready[i].k # k
    BY <1>7 DEF Flush
  <2>2. x \in Callbacks /\ x.run = "flushed" /\ x.k = k
    BY <1>0 DEF Callback, Callbacks, Runnable
  <2> HIDE DEF x
  <2>3. Says(x, conn, reader, opened)
    BY <2>1, <2>2 DEF Says
  <2>4. \A i \in 1..Len(ready) : Follows(ready[i], x, reader)
    <3> TAKE i \in 1..Len(ready)
    <3>1. Says(ready[i], conn, reader, opened)
      BY DEF Kept, Orderly
    <3> QED
      BY <2>1, <2>2, <3>1 DEF Follows, Says
  <2> QED
    BY <2>1, <2>2, <2>3, <2>4, ScheduleKeeps
<1> QED
  BY <1>1, <1>2, <1>3, <1>4, <1>5, <1>6, <1>7

(* The callback that runs, and the rest of the queue.                      *)
LEMMA FirstRuns ==
    ASSUME Kept, NEW name, RunsFirst(name)
    PROVE  /\ ready # << >> /\ Head(ready).run = name /\ Head(ready) \in Callbacks
           /\ Head(ready).k \in Nat /\ Head(ready).ok \in BOOLEAN
           /\ Says(Head(ready), conn, reader, opened)
           /\ Orderly(Tail(ready), conn, reader, opened)
           /\ Tail(ready) \in Seq(Callbacks)
           /\ \A i \in 1..Len(Tail(ready)) : /\ Follows(Head(ready), Tail(ready)[i], reader)
                                             /\ Says(Tail(ready)[i], conn, reader, opened)
           /\ name # "bot" => \A s \in Seq(Callbacks) :
                 Scheduled("bot") => \E i \in 1..Len(Tail(ready) \o s) :
                                            (Tail(ready) \o s)[i].run = "bot"
<1>1. ready # << >> /\ Head(ready).run = name
  BY DEF RunsFirst
<1>2. /\ Orderly(Tail(ready), conn, reader, opened)
      /\ Head(ready) \in Callbacks
      /\ Says(Head(ready), conn, reader, opened)
      /\ \A i \in 1..Len(Tail(ready)) : Follows(Head(ready), Tail(ready)[i], reader)
  BY <1>1, OrderlyTail DEF Kept
<1>3. Head(ready).k \in Nat /\ Head(ready).ok \in BOOLEAN
  BY <1>2 DEF Callbacks
<1>4. Tail(ready) \in Seq(Callbacks) /\ ready \in Seq(Callbacks)
      /\ \A i \in 1..Len(Tail(ready)) : Says(Tail(ready)[i], conn, reader, opened)
  BY <1>2 DEF Orderly, Kept
<1>5. ASSUME name # "bot", Scheduled("bot")
      PROVE  \A s \in Seq(Callbacks) : \E i \in 1..Len(Tail(ready) \o s) :
                                          (Tail(ready) \o s)[i].run = "bot"
  BY <1>1, <1>4, <1>5, StillScheduled DEF Scheduled
<1> QED
  BY <1>1, <1>2, <1>3, <1>4, <1>5

(* The transport: what it does to connections and queue, and no more.      *)
LEMMA TransportKeeps ==
    ASSUME Kept, NEW name, name # "bot", RunsFirst(name),
           NEW s \in Seq(Callbacks), ready' = Tail(ready) \o s,
           UNCHANGED <<at, current, opened, reader, orders, drops, gaveUp>>,
           conn' \in [Connections -> States],
           \A l \in Connections :
              conn[l] = "none" => \/ conn'[l] = "none"
                                  \/ /\ l <= opened
                                     /\ \E i \in 1..Len(Tail(ready) \o s) :
                                           (Tail(ready) \o s)[i].run = "bot",
           Orderly(ready', conn', reader, opened)
    PROVE  Kept'
<1>1. Scheduled("bot") => Scheduled("bot")'
  BY FirstRuns DEF Scheduled
<1>2. UNCHANGED <<at, current, opened, reader, pending, generated, sent, failed, drops, gaveUp>>
  BY DEF orders
<1>3. PlaceInv'
  BY <1>1, <1>2, PlaceKept, BoundsAssumption DEF Kept, Scheduled
<1>4. BotTypes'
  BY <1>2 DEF Kept, BotTypes
<1>5. CountInv'
  BY <1>2, CountKept DEF Kept
<1>6. Orderly(ready, conn, reader, opened)'
  BY <1>2
<1> QED
  BY <1>3, <1>4, <1>5, <1>6 DEF Kept

LEMMA MadeKeeps ==
    ASSUME Kept, Made
    PROVE  Kept'
<1> DEFINE h == Head(ready)
           t == Tail(ready)
           x == Callback("bot", h.k, TRUE)
           d == [conn EXCEPT ![h.k] = "open"]
<1>1. /\ RunsFirst("made") /\ conn' = d /\ ready' = Append(t, x)
      /\ UNCHANGED <<at, current, opened, reader, running, orders, drops, gaveUp>>
  BY DEF Made
<1>2. /\ ready # << >> /\ h.run = "made" /\ h.k \in Nat /\ Says(h, conn, reader, opened)
      /\ Orderly(t, conn, reader, opened) /\ t \in Seq(Callbacks)
      /\ \A i \in 1..Len(t) : Follows(h, t[i], reader) /\ Says(t[i], conn, reader, opened)
  BY <1>1, FirstRuns
<1>3. h.k \in Connections /\ conn[h.k] = "none" /\ h.k <= opened
  BY <1>2 DEF Says
<1>4. x \in Callbacks /\ x.run = "bot" /\ "bot" \in Runnable /\ TRUE \in BOOLEAN
      /\ "bot" \notin {"reader", "lost", "flushed", "made", "eof", "reset"}
  BY <1>2 DEF Callback, Callbacks, Runnable
<1>5. /\ d \in [Connections -> States]
      /\ d[h.k] = "open" /\ \A l \in Connections : l # h.k => d[l] = conn[l]
  BY <1>3 DEF Kept, BotTypes, States
<1> HIDE DEF h, t, d
<1>6. \A i \in 1..Len(t) : Says(t[i], d, reader, opened)
  <2> TAKE i \in 1..Len(t)
  <2>1. Says(t[i], conn, reader, opened) /\ Follows(h, t[i], reader)
    BY <1>2
  <2>2. CASE t[i].k = h.k
    BY <1>2, <1>3, <1>5, <2>1, <2>2 DEF Says, Follows
  <2>3. CASE t[i].k # h.k
    BY <1>5, <2>1, <2>3 DEF Says
  <2> QED
    BY <2>2, <2>3
<1>7. Orderly(t, d, reader, opened)
  BY <1>2, <1>6, OrderlyChange
<1>8. Orderly(Append(t, x), d, reader, opened)
  BY <1>2, <1>4, <1>7, OrderlyOther, Zenon
<1> HIDE DEF x
<1>9. << x >> \in Seq(Callbacks) /\ t \o << x >> = Append(t, x)
      /\ Len(t) + 1 \in 1..Len(t \o << x >>) /\ (t \o << x >>)[Len(t) + 1] = x
  BY <1>2, <1>4, AppendIsConcat, AppendProperties, LenProperties
<1>10. \A l \in Connections :
          conn[l] = "none" => \/ conn'[l] = "none"
                              \/ /\ l <= opened
                                 /\ \E i \in 1..Len(t \o << x >>) : (t \o << x >>)[i].run = "bot"
  BY <1>1, <1>3, <1>4, <1>5, <1>9
<1>11. ready' = t \o << x >> /\ Orderly(ready', conn', reader, opened)
  BY <1>1, <1>8, <1>9
<1> QED
  BY <1>1, <1>5, <1>9, <1>10, <1>11, TransportKeeps DEF t

LEMMA AnsweredKeeps ==
    ASSUME Kept, Answered
    PROVE  Kept'
<1> DEFINE h == Head(ready)
           t == Tail(ready)
           x == Callback("bot", h.k, h.ok)
<1>1. /\ RunsFirst("answer") /\ ready' = Append(t, x)
      /\ UNCHANGED <<at, current, opened, conn, reader, running, orders, drops, gaveUp>>
  BY DEF Answered
<1>2. /\ h.k \in Nat /\ h.ok \in BOOLEAN
      /\ Orderly(t, conn, reader, opened) /\ t \in Seq(Callbacks)
  BY <1>1, FirstRuns
<1>3. x \in Callbacks /\ "bot" \in Runnable
      /\ "bot" \notin {"reader", "lost", "flushed", "made", "eof", "reset"}
  BY <1>2 DEF Callback, Callbacks, Runnable
<1> HIDE DEF h, t
<1>4. Orderly(Append(t, x), conn, reader, opened)
  BY <1>2, <1>3, OrderlyOther, Zenon
<1> HIDE DEF x
<1>5. << x >> \in Seq(Callbacks) /\ t \o << x >> = Append(t, x)
  BY <1>2, <1>3, AppendIsConcat
<1>6. ready' = t \o << x >> /\ Orderly(ready', conn', reader, opened)
  BY <1>1, <1>4, <1>5
<1>7. conn' = conn /\ conn \in [Connections -> States]
  BY <1>1 DEF Kept, BotTypes
<1> QED
  BY <1>1, <1>5, <1>6, <1>7, TransportKeeps DEF t

(* The end of the server's stream.                                         *)
LEMMA EofKeeps ==
    ASSUME Kept, Eof
    PROVE  Kept'
<1> DEFINE h == Head(ready)
           t == Tail(ready)
           k == h.k
           d == [conn EXCEPT ![k] = "eof"]
           r == Readers(k)
           b == TheBot(k, {"upgrade"}, FALSE)
<1>1. /\ RunsFirst("eof")
      /\ UNCHANGED <<at, current, opened, reader, running, orders, drops, gaveUp>>
      /\ conn' = IF conn[k] = "open" THEN d ELSE conn
      /\ ready' = t \o (IF conn[k] = "open" THEN r \o b ELSE << >>)
  BY DEF Eof
<1>2. /\ h.run = "eof" /\ k \in Nat /\ Says(h, conn, reader, opened)
      /\ Orderly(t, conn, reader, opened) /\ t \in Seq(Callbacks)
      /\ \A i \in 1..Len(t) : Says(t[i], conn, reader, opened)
  BY <1>1, FirstRuns
<1>3. k \in Connections
  BY <1>2 DEF Says
<1>4. /\ conn \in [Connections -> States]
      /\ d \in [Connections -> States]
      /\ d[k] = "eof" /\ \A l \in Connections : l # k => d[l] = conn[l]
  BY <1>3 DEF Kept, BotTypes, States
<1>5. r \in Seq(Callbacks) /\ b \in Seq(Callbacks) /\ << >> \in Seq(Callbacks)
  <2>1. FALSE \in BOOLEAN /\ << >> \in Seq(Callbacks)
    OBVIOUS
  <2> QED
    BY <1>2, <2>1, SchedulesCallbacks, Zenon
<1>6. CASE conn[k] # "open"
  <2>1. << >> \in Seq(Callbacks) /\ ready' = t \o << >> /\ t \o << >> = t
    BY <1>1, <1>2, <1>6, ConcatEmptySeq
  <2>2. conn' = conn /\ Orderly(ready', conn', reader, opened)
    BY <1>1, <1>2, <1>6, <2>1
  <2> HIDE DEF h, d, r, b
  <2> QED
    BY <1>1, <1>4, <2>1, <2>2, TransportKeeps
<1>7. CASE conn[k] = "open"
  <2> HIDE DEF h, t, d
  <2>1. \A i \in 1..Len(t) : Says(t[i], d, reader, opened)
    <3> TAKE i \in 1..Len(t)
    <3>1. Says(t[i], conn, reader, opened)
      BY <1>2
    <3> QED
      BY <1>4, <1>7, <3>1 DEF Says
  <2>2. Orderly(t, d, reader, opened)
    BY <1>2, <2>1, OrderlyChange
  <2>3. \A i \in 1..Len(t) : ~(t[i].k = k /\ t[i].run \in {"reader", "lost", "flushed"} /\ reader[k] = "waiting")
    <3> TAKE i \in 1..Len(t)
    <3>1. Says(t[i], conn, reader, opened)
      BY <1>2
    <3> QED
      BY <1>7, <3>1 DEF Says
  <2>4. Orderly(t \o r, d, reader, opened)
    BY <1>2, <1>3, <1>4, <2>2, <2>3, OrderlyReaders
  <2> HIDE DEF r
  <2>5. Orderly((t \o r) \o b, d, reader, opened)
    BY <1>2, <2>4, OrderlyBot
  <2> HIDE DEF b
  <2>6. (t \o r) \o b = t \o (r \o b) /\ r \o b \in Seq(Callbacks)
    BY <1>2, <1>5, ConcatAssociative, ConcatProperties
  <2>7. ready' = t \o (r \o b) /\ conn' = d
    BY <1>1, <1>7
  <2>8. \A l \in Connections : conn[l] = "none" => conn'[l] = "none"
    BY <1>4, <1>7, <2>7
  <2> DEFINE s == r \o b
  <2>9. /\ s \in Seq(Callbacks) /\ ready' = t \o s /\ Orderly(ready', conn', reader, opened)
        /\ conn' \in [Connections -> States]
    BY <1>4, <2>5, <2>6, <2>7
  <2> HIDE DEF s
  <2> QED
    BY <1>1, <2>8, <2>9, TransportKeeps DEF t
<1> QED
  BY <1>6, <1>7

LEMMA ResetKeeps ==
    ASSUME Kept, Reset
    PROVE  Kept'
<1> DEFINE t == Tail(ready)
           k == Head(ready).k
           s == LossOf(k)
           d == Stopped(k)
<1>1. /\ RunsFirst("reset") /\ conn' = d /\ ready' = t \o s
      /\ UNCHANGED <<at, current, opened, reader, running, orders, drops, gaveUp>>
  BY DEF Reset
<1>2. k \in Nat /\ Orderly(t, conn, reader, opened)
  BY <1>1, FirstRuns
<1>3. Orderly(t \o s, d, reader, opened)
  BY <1>2, OrderlyStop DEF Kept
<1>4. s \in Seq(Callbacks)
  BY <1>2, SchedulesCallbacks
<1>5. /\ d \in [Connections -> States]
      /\ \A l \in Connections : conn[l] = "none" => d[l] = "none"
  BY DEF Kept, BotTypes, Stopped, Writes, States
<1> HIDE DEF k, s, d
<1> QED
  BY <1>1, <1>3, <1>4, <1>5, TransportKeeps

(* connection_lost.                                                        *)
LEMMA ConnectionLostKeeps ==
    ASSUME Kept, ConnectionLost
    PROVE  Kept'
<1> DEFINE h == Head(ready)
           t == Tail(ready)
           k == h.k
           d == [conn EXCEPT ![k] = "lost"]
           r == Readers(k)
           b == TheBot(k, {"upgrade", "drain", "closing"}, FALSE)
<1>1. /\ RunsFirst("lost") /\ conn' = d /\ ready' = t \o r \o b
      /\ UNCHANGED <<at, current, opened, reader, running, orders, drops, gaveUp>>
  BY DEF ConnectionLost
<1>2. /\ h.run = "lost" /\ k \in Nat /\ Says(h, conn, reader, opened)
      /\ Orderly(t, conn, reader, opened) /\ t \in Seq(Callbacks)
      /\ \A i \in 1..Len(t) : Follows(h, t[i], reader) /\ Says(t[i], conn, reader, opened)
  BY <1>1, FirstRuns
<1>3. k \in Connections /\ conn[k] = "closing"
  BY <1>2 DEF Says
<1>4. /\ d \in [Connections -> States]
      /\ d[k] = "lost" /\ \A l \in Connections : l # k => d[l] = conn[l]
  BY <1>3 DEF Kept, BotTypes, States
<1>5. r \in Seq(Callbacks) /\ b \in Seq(Callbacks)
  BY <1>2, SchedulesCallbacks
<1> HIDE DEF h, t, d
<1>6. \A i \in 1..Len(t) :
         /\ Says(t[i], d, reader, opened)
         /\ ~(t[i].k = k /\ t[i].run \in {"reader", "lost", "flushed"} /\ reader[k] = "waiting")
  <2> TAKE i \in 1..Len(t)
  <2>1. Says(t[i], conn, reader, opened) /\ Follows(h, t[i], reader)
    BY <1>2
  <2>2. CASE t[i].k = k
    BY <1>2, <1>3, <1>4, <2>1, <2>2 DEF Says, Follows
  <2>3. CASE t[i].k # k
    BY <1>4, <2>1, <2>3 DEF Says
  <2> QED
    BY <2>2, <2>3
<1>7. Orderly(t, d, reader, opened)
  BY <1>2, <1>6, OrderlyChange
<1>8. Orderly(t \o r, d, reader, opened)
  BY <1>2, <1>3, <1>4, <1>6, <1>7, OrderlyReaders
<1> HIDE DEF r
<1>9. Orderly((t \o r) \o b, d, reader, opened)
  BY <1>2, <1>8, OrderlyBot
<1> HIDE DEF b
<1> DEFINE s == r \o b
<1>10. (t \o r) \o b = t \o s /\ s \in Seq(Callbacks)
  BY <1>2, <1>5, ConcatAssociative, ConcatProperties
<1>11. /\ ready' = t \o s /\ Orderly(ready', conn', reader, opened)
       /\ conn' \in [Connections -> States]
  BY <1>1, <1>4, <1>9, <1>10
<1>12. \A l \in Connections : conn[l] = "none" => conn'[l] = "none"
  BY <1>1, <1>3, <1>4
<1> HIDE DEF s
<1> QED
  BY <1>1, <1>10, <1>11, <1>12, TransportKeeps DEF t

LEMMA FourInARow ==
    ASSUME NEW t \in Seq(Callbacks), NEW w \in Seq(Callbacks), NEW r \in Seq(Callbacks),
           NEW b \in Seq(Callbacks)
    PROVE  /\ ((t \o w) \o r) \o b = t \o (w \o (r \o b))
           /\ w \o (r \o b) \in Seq(Callbacks)
<1> DEFINE u == r \o b
           v == t \o w
<1>1. u \in Seq(Callbacks) /\ v \in Seq(Callbacks)
  BY ConcatProperties
<1>2. (v \o r) \o b = v \o u
  <2> HIDE DEF v
  <2> QED
    BY <1>1, ConcatAssociative, SMTT(30)
<1>3. v \o u = t \o (w \o u) /\ w \o u \in Seq(Callbacks)
  <2> HIDE DEF u
  <2> QED
    BY <1>1, ConcatAssociative, ConcatProperties, SMTT(30)
<1> QED
  BY <1>2, <1>3

(* The end of a connection that had data left.                             *)
LEMMA FlushedKeeps ==
    ASSUME Kept, Flushed
    PROVE  Kept'
<1> DEFINE h == Head(ready)
           t == Tail(ready)
           k == h.k
           d == [conn EXCEPT ![k] = "lost"]
           w == TheBot(k, {"drain"}, TRUE)
           r == Readers(k)
           b == TheBot(k, {"upgrade", "closing"}, FALSE)
<1>1. /\ RunsFirst("flushed")
      /\ conn' = IF conn[k] = "flushing" THEN d ELSE conn
      /\ ready' = IF conn[k] = "flushing" THEN t \o w \o r \o b ELSE t
      /\ UNCHANGED <<at, current, opened, reader, running, orders, drops, gaveUp>>
  BY DEF Flushed
<1>2. /\ h.run = "flushed" /\ k \in Nat /\ Says(h, conn, reader, opened)
      /\ Orderly(t, conn, reader, opened) /\ t \in Seq(Callbacks)
      /\ \A i \in 1..Len(t) : Follows(h, t[i], reader) /\ Says(t[i], conn, reader, opened)
  BY <1>1, FirstRuns
<1>3. k \in Connections
  BY <1>2 DEF Says
<1>4. /\ conn \in [Connections -> States] /\ d \in [Connections -> States]
      /\ d[k] = "lost" /\ \A l \in Connections : l # k => d[l] = conn[l]
  BY <1>3 DEF Kept, BotTypes, States
<1>5. r \in Seq(Callbacks) /\ b \in Seq(Callbacks) /\ w \in Seq(Callbacks)
  BY <1>2, SchedulesCallbacks
<1> HIDE DEF h, t, d
<1>6. CASE conn[k] # "flushing"
  <2>1. << >> \in Seq(Callbacks) /\ ready' = t \o << >>
    BY <1>1, <1>2, <1>6, ConcatEmptySeq
  <2>2. conn' = conn /\ Orderly(ready', conn', reader, opened)
    BY <1>1, <1>2, <1>6
  <2> QED
    BY <1>1, <1>4, <2>1, <2>2, TransportKeeps DEF t
<1>7. CASE conn[k] = "flushing"
  <2>1. \A i \in 1..Len(t) :
           /\ Says(t[i], d, reader, opened)
           /\ ~(t[i].k = k /\ t[i].run \in {"reader", "lost", "flushed"} /\ reader[k] = "waiting")
    <3> TAKE i \in 1..Len(t)
    <3>1. Says(t[i], conn, reader, opened) /\ Follows(h, t[i], reader)
      BY <1>2
    <3>2. CASE t[i].k = k
      BY <1>2, <1>4, <1>7, <3>1, <3>2 DEF Says, Follows
    <3>3. CASE t[i].k # k
      BY <1>4, <3>1, <3>3 DEF Says
    <3> QED
      BY <3>2, <3>3
  <2>2. Orderly(t, d, reader, opened)
    BY <1>2, <2>1, OrderlyChange
  <2>3. Orderly(t \o w, d, reader, opened)
    BY <1>2, <2>2, OrderlyBot
  <2>4. \A i \in 1..Len(t \o w) :
           ~((t \o w)[i].k = k /\ (t \o w)[i].run \in {"reader", "lost", "flushed"} /\ reader[k] = "waiting")
    <3>1. CASE w = << >>
      <4>1. t \o w = t
        BY <1>2, <3>1, ConcatEmptySeq
      <4> QED
        BY <2>1, <4>1
    <3>2. CASE w = << Callback("bot", k, TRUE) >>
      <4> DEFINE x == Callback("bot", k, TRUE)
      <4>1. x \in Callbacks /\ x.run = "bot" /\ w = << x >>
        BY <1>2, <3>2 DEF Callback, Callbacks, Runnable
      <4> HIDE DEF x, w
      <4> DEFINE u == Append(t, x)
      <4>2. /\ t \o << x >> = u /\ Len(t) \in Nat /\ Len(u) = Len(t) + 1
            /\ u[Len(t) + 1] = x /\ \A i \in 1..Len(t) : u[i] = t[i]
        BY <1>2, <4>1, AppendIsConcat, AppendProperties, LenProperties
      <4> HIDE DEF u
      <4>3. \A i \in 1..Len(u) : u[i] = x \/ (i \in 1..Len(t) /\ u[i] = t[i])
        BY <4>2
      <4> QED
        BY <2>1, <4>1, <4>2, <4>3
    <3> QED
      BY <3>1, <3>2 DEF TheBot
  <2>5. Orderly((t \o w) \o r, d, reader, opened)
    BY <1>2, <1>3, <1>4, <2>3, <2>4, OrderlyReaders
  <2> HIDE DEF r, w
  <2>6. Orderly(((t \o w) \o r) \o b, d, reader, opened)
    BY <1>2, <2>5, OrderlyBot
  <2> HIDE DEF b
  <2> DEFINE s == w \o (r \o b)
  <2>7. ((t \o w) \o r) \o b = t \o s /\ s \in Seq(Callbacks)
    BY <1>2, <1>5, FourInARow
  <2>8. /\ ready' = t \o s /\ Orderly(ready', conn', reader, opened)
        /\ conn' \in [Connections -> States]
    BY <1>1, <1>4, <1>7, <2>6, <2>7
  <2>9. \A l \in Connections : conn[l] = "none" => conn'[l] = "none"
    BY <1>1, <1>4, <1>7
  <2> HIDE DEF s
  <2> QED
    BY <1>1, <2>7, <2>8, <2>9, TransportKeeps DEF t
<1> QED
  BY <1>6, <1>7

LEMMA GaveUpIsFinite ==
    ASSUME BotTypes
    PROVE  /\ IsFiniteSet(gaveUp) /\ Cardinality(gaveUp) \in Nat
           /\ \A P : P \subseteq Connections => IsFiniteSet(P) /\ Cardinality(P) \in Nat
<1>1. IsFiniteSet(1..opened) /\ IsFiniteSet(Connections)
  BY FS_Interval, BoundsAssumption DEF BotTypes, Connections
<1> QED
  BY <1>1, FS_Subset, FS_CardinalityType DEF BotTypes

(* A reader goes on to wait, or has counted its connection and closes what *)
(* the bot writes to by then.                                              *)
LEMMA ReadLoopKeeps ==
    ASSUME Kept, running, ReadLoop
    PROVE  Kept'
<1> DEFINE h == Head(ready)
           t == Tail(ready)
           k == h.k
           ended == conn[k] \in {"eof", "lost"}
           x == Callback("lost", current, TRUE)
           e == IF ended THEN "done" ELSE "waiting"
           r == [reader EXCEPT ![k] = e]
<1>1. /\ RunsFirst("reader") /\ reader' = r
      /\ UNCHANGED <<at, current, opened, running, orders, gaveUp>>
      /\ \/ ~ended /\ ready' = t /\ UNCHANGED <<conn, drops>>
         \/ ended /\ drops' = drops + 1 /\ Close(current, t)
  BY DEF ReadLoop
<1>2. /\ h.run = "reader" /\ k \in Nat /\ Says(h, conn, reader, opened)
      /\ Orderly(t, conn, reader, opened) /\ t \in Seq(Callbacks)
      /\ \A i \in 1..Len(t) : Follows(h, t[i], reader) /\ Says(t[i], conn, reader, opened)
      /\ Scheduled("bot") => \E i \in 1..Len(t \o << >>) : (t \o << >>)[i].run = "bot"
      /\ Scheduled("bot") => \A u \in Seq(Callbacks) :
                                    \E i \in 1..Len(t \o u) : (t \o u)[i].run = "bot"
  <2>1. << >> \in Seq(Callbacks)
    OBVIOUS
  <2> QED
    BY <1>1, <2>1, FirstRuns
<1>3. k \in Connections /\ reader[k] \in {"scheduled", "waiting"}
  BY <1>2 DEF Says
<1>4. r \in [Connections -> {"none", "scheduled", "waiting", "done"}]
      /\ r[k] = e /\ \A l \in Connections : l # k => r[l] = reader[l]
  BY <1>3 DEF Kept, BotTypes
<1>5. UNCHANGED <<at, current, opened, running, pending, generated, sent, failed, gaveUp>>
  BY <1>1 DEF orders
<1>7. << x >> \in Seq(Callbacks) /\ current \in Nat
  <2>1. current \in Nat
    BY DEF Kept, BotTypes
  <2> QED
    BY <2>1 DEF Callback, Callbacks, Runnable
<1> HIDE DEF h, t, x, r
<1>8. Orderly(t, conn, r, opened)
  <2>1. \A i \in 1..Len(t) : Says(t[i], conn, r, opened) /\ (t[i].run = "reader" => t[i].k # k)
    <3> TAKE i \in 1..Len(t)
    <3>1. Says(t[i], conn, reader, opened) /\ Follows(h, t[i], reader)
      BY <1>2
    <3>2. t[i].run = "reader" => t[i].k # k
      BY <1>2, <3>1 DEF Follows
    <3> QED
      BY <1>4, <3>1, <3>2 DEF Says
  <2>2. \A i, j \in 1..Len(t) : Follows(t[i], t[j], reader) => Follows(t[i], t[j], r)
    <3> TAKE i, j \in 1..Len(t)
    <3>1. t[j].run = "reader" => t[j].k # k /\ t[j].k \in Connections
      BY <1>2, <2>1 DEF Says
    <3> QED
      BY <1>4, <3>1 DEF Follows
  <2> QED
    BY <1>2, <2>1, <2>2, OrderlyChange
<1>9. /\ Orderly(ready', conn', r, opened) /\ conn' \in [Connections -> States]
      /\ \A l \in Connections : conn[l] = "none" => conn'[l] = "none"
      /\ ready' = t \/ ready' = t \o << x >>
  <2>1. CASE Close(current, t)
    BY <1>7, <1>8, <2>1, OrderlyClose DEF Kept, x
  <2>2. CASE ready' = t /\ conn' = conn
    BY <1>8, <2>2 DEF Kept, BotTypes
  <2> QED
    BY <1>1, <2>1, <2>2
<1>10. Orderly(ready, conn, reader, opened)'
  BY <1>1, <1>5, <1>9
<1>11. BotTypes'
  BY <1>1, <1>4, <1>5, <1>9 DEF Kept, BotTypes
<1>12. \A l \in Connections : conn[l] = "none" => conn'[l] = "none"
  BY <1>9
<1>13. Scheduled("bot") => Scheduled("bot")'
  <2>1. t \o << >> = t
    BY <1>2, ConcatEmptySeq
  <2> QED
    BY <1>2, <1>7, <1>9, <2>1 DEF Scheduled
<1>14. PlaceInv'
  <2>1. k <= opened /\ k \notin gaveUp
    BY <1>2, <1>3, BoundsAssumption DEF Kept, PlaceInv, BotTypes, Connections
  <2>2. at \in {"opening", "upgrade", "closing"} => opened \in Connections /\ opened # k
    BY <1>3 DEF Kept, PlaceInv, BotTypes, Connections
  <2>3. \A l \in Connections : l > opened => conn'[l] = "none" /\ r[l] = "none"
    BY <1>3, <1>4, <1>12, <2>1 DEF Kept, PlaceInv
  <2>4. \A l \in Connections : r[l] # "none" => l \notin gaveUp
    BY <1>3, <1>4, <2>1 DEF Kept, PlaceInv
  <2>5. at \in {"opening", "upgrade", "closing"}
          => opened # 0 /\ opened \notin gaveUp /\ r[opened] = "none"
    BY <1>4, <2>2 DEF Kept, PlaceInv
  <2>6. at = "opening" => conn'[opened] = "none" \/ Scheduled("bot")'
    BY <1>12, <1>13, <2>2 DEF Kept, PlaceInv
  <2> QED
    BY <1>1, <1>5, <2>3, <2>4, <2>5, <2>6 DEF Kept, PlaceInv
<1>15. CountInv'
  <2> DEFINE D == {l \in Connections : reader[l] = "done"}
             E == {l \in Connections : r[l] = "done"}
  <2>1. k \notin D /\ E = IF ended THEN D \cup {k} ELSE D
    BY <1>3, <1>4
  <2>2. IsFiniteSet(D) /\ Cardinality(D) \in Nat /\ Cardinality(gaveUp) \in Nat
    BY GaveUpIsFinite DEF Kept
  <2>3. drops = Cardinality(gaveUp) + Cardinality(D)
    BY DEF Kept, CountInv
  <2>4. E = {l \in Connections : reader'[l] = "done"}
    BY <1>1
  <2> HIDE DEF D, E
  <2>5. Cardinality(E) = IF ended THEN Cardinality(D) + 1 ELSE Cardinality(D)
    BY <2>1, <2>2, FS_AddElement
  <2>6. drops' = Cardinality(gaveUp) + Cardinality(E)
    BY <1>1, <2>2, <2>3, <2>5
  <2> QED
    BY <1>5, <2>4, <2>6 DEF Kept, CountInv
<1> QED
  BY <1>10, <1>11, <1>14, <1>15 DEF Kept

(* connect: a new attempt.                                                 *)
LEMMA AttemptKeeps ==
    ASSUME Kept, running, Attempt,
           UNCHANGED <<current, conn, reader, running, generated, sent, failed, drops, gaveUp>>,
           \/ ready' = ready
           \/ RunsFirst("bot") /\ ready' = Tail(ready)
    PROVE  Kept'
<1>1. opened < MaxConnections /\ opened' = opened + 1 /\ at' = "opening" /\ UNCHANGED pending
  BY DEF Attempt
<1>2. opened \in Nat /\ MaxConnections \in Nat /\ opened' \in Connections
  BY <1>1, BoundsAssumption DEF Kept, BotTypes, Connections
<1>3. Orderly(ready', conn, reader, opened)
  BY FirstRuns DEF Kept
<1>4. Orderly(ready', conn, reader, opened')
  <2>1. \A i \in 1..Len(ready') : Says(ready'[i], conn, reader, opened)
                                  => Says(ready'[i], conn, reader, opened')
    <3> TAKE i \in 1..Len(ready')
    <3>1. ready'[i] \in Callbacks
      BY <1>3, ElementOfSeq DEF Orderly
    <3>2. ready'[i].k <= opened => ready'[i].k <= opened'
      BY <1>1, <1>2, <3>1 DEF Callbacks
    <3> QED
      BY <3>2 DEF Says
  <2> QED
    BY <1>3, <2>1 DEF Orderly
<1>5. BotTypes'
  BY <1>1, <1>2, BoundsAssumption DEF Kept, BotTypes
<1>6. conn[opened'] = "none" /\ reader[opened'] = "none" /\ opened' \notin gaveUp
  BY <1>1, <1>2 DEF Kept, PlaceInv, BotTypes
<1>7. \A k \in Connections : k > opened' => conn[k] = "none" /\ reader[k] = "none"
  BY <1>1, <1>2, BoundsAssumption DEF Kept, PlaceInv, Connections
<1>8. PlaceInv'
  BY <1>1, <1>2, <1>6, <1>7 DEF Kept, PlaceInv
<1>9. CountInv'
  BY <1>1, CountKept DEF Kept
<1> QED
  BY <1>4, <1>5, <1>8, <1>9 DEF Kept

(* The except clause: the attempt is counted as a drop.                    *)
LEMMA GiveUpKeeps ==
    ASSUME Kept, at \in {"opening", "upgrade", "closing"}, GiveUp,
           current' \in {current, opened},
           UNCHANGED <<opened, conn, reader, running, orders>>, Orderly(ready', conn, reader, opened)
    PROVE  Kept'
<1>1. /\ drops' = drops + 1 /\ gaveUp' = gaveUp \cup {opened} /\ at' = "backoff"
      /\ UNCHANGED <<opened, conn, reader, running, pending, generated, sent, failed>>
  BY DEF GiveUp, orders
<1>2. opened # 0 /\ opened \notin gaveUp /\ reader[opened] = "none"
  BY DEF Kept, PlaceInv
<1>3. BotTypes'
  BY <1>1, <1>2 DEF Kept, BotTypes
<1>4. PlaceInv'
  BY <1>1, <1>2 DEF Kept, PlaceInv
<1>5. CountInv'
  <2>1. /\ IsFiniteSet(gaveUp) /\ Cardinality(gaveUp) \in Nat
        /\ Cardinality({k \in Connections : reader[k] = "done"}) \in Nat
    BY GaveUpIsFinite DEF Kept
  <2>2. Cardinality(gaveUp') = Cardinality(gaveUp) + 1
    BY <1>1, <1>2, <2>1, FS_AddElement
  <2>3. drops = Cardinality(gaveUp) + Cardinality({k \in Connections : reader[k] = "done"})
    BY DEF Kept, CountInv
  <2>4. drops' = Cardinality(gaveUp')
                 + Cardinality({k \in Connections : reader'[k] = "done"})
    BY <1>1, <2>1, <2>2, <2>3
  <2> QED
    BY <1>1, <2>4 DEF Kept, CountInv
<1>6. Orderly(ready, conn, reader, opened)'
  BY <1>1
<1> QED
  BY <1>3, <1>4, <1>5, <1>6 DEF Kept

LEMMA OpenReturnsKeeps ==
    ASSUME Kept, OpenReturns
    PROVE  Kept'
<1>1. /\ RunsFirst("bot") /\ at = "opening" /\ ready' = Tail(ready)
      /\ UNCHANGED <<opened, conn, reader, running, orders>>
  BY DEF OpenReturns, Resumes
<1>2. Orderly(ready', conn, reader, opened)
  BY <1>1, FirstRuns
<1>3. CASE GiveUp /\ UNCHANGED current
  BY <1>1, <1>2, <1>3, GiveUpKeeps
<1>4. CASE current' = opened /\ at' = "upgrade" /\ UNCHANGED <<drops, gaveUp>>
  <2>1. UNCHANGED <<opened, conn, reader, running, pending, generated, sent, failed, drops, gaveUp>>
    BY <1>1, <1>4 DEF orders
  <2>2. BotTypes'
    BY <1>4, <2>1 DEF Kept, BotTypes
  <2>3. PlaceInv'
    BY <1>1, <1>4, <2>1 DEF Kept, PlaceInv
  <2>4. CountInv'
    BY <2>1, CountKept DEF Kept
  <2>5. Orderly(ready, conn, reader, opened)'
    BY <1>2, <2>1
  <2> QED
    BY <2>2, <2>3, <2>4, <2>5 DEF Kept
<1> QED
  BY <1>3, <1>4 DEF OpenReturns

(* The connection is made, and gets its reader.                            *)
LEMMA UpgradedKeeps ==
    ASSUME Kept, Upgraded
    PROVE  Kept'
<1> DEFINE t == Tail(ready)
           x == Callback("reader", current, TRUE)
           r == [reader EXCEPT ![current] = "scheduled"]
<1>1. /\ RunsFirst("bot") /\ at = "upgrade" /\ ready' = Append(t, x) /\ reader' = r
      /\ at' = IF pending THEN "write" ELSE "next"
      /\ UNCHANGED <<current, opened, conn, running, pending, generated, sent, failed, drops, gaveUp>>
  BY DEF Upgraded, Resumes, orders
<1>2. /\ Orderly(t, conn, reader, opened) /\ t \in Seq(Callbacks)
      /\ \A i \in 1..Len(t) : Says(t[i], conn, reader, opened)
  BY <1>1, FirstRuns
<1>3. /\ current = opened /\ current \in Nat /\ current \in Connections
      /\ current \notin gaveUp /\ reader[current] = "none"
  BY <1>1 DEF Kept, BotTypes, PlaceInv, Connections
<1>4. r \in [Connections -> {"none", "scheduled", "waiting", "done"}]
      /\ r[current] = "scheduled" /\ \A l \in Connections : l # current => r[l] = reader[l]
  BY <1>3 DEF Kept, BotTypes
<1>5. x \in Callbacks /\ x.run = "reader" /\ x.k = current
  BY <1>3 DEF Callback, Callbacks, Runnable
<1> HIDE DEF t, x, r
<1>6. \A i \in 1..Len(t) :
         /\ ~(t[i].run = "reader" /\ t[i].k = current) /\ Says(t[i], conn, r, opened)
         /\ t[i].run = "reader" => t[i].k \in Connections
  <2> TAKE i \in 1..Len(t)
  <2>1. Says(t[i], conn, reader, opened)
    BY <1>2
  <2>2. ~(t[i].run = "reader" /\ t[i].k = current)
    BY <1>3, <2>1 DEF Says
  <2> QED
    BY <1>4, <2>1, <2>2 DEF Says
<1>7. \A i, j \in 1..Len(t) : Follows(t[i], t[j], reader) => Follows(t[i], t[j], r)
  <2> TAKE i, j \in 1..Len(t)
  <2> QED
    BY <1>4, <1>6 DEF Follows
<1>8. Orderly(t, conn, r, opened)
  BY <1>2, <1>6, <1>7, OrderlyChange
<1>9. Says(x, conn, r, opened) /\ \A i \in 1..Len(t) : Follows(t[i], x, r)
  BY <1>3, <1>4, <1>5, <1>6 DEF Says, Follows
<1>10. Orderly(Append(t, x), conn, r, opened)
  BY <1>5, <1>8, <1>9, OrderlyMore
<1>11. BotTypes'
  BY <1>1, <1>4 DEF Kept, BotTypes
<1>12. PlaceInv'
  <2>1. \A k \in Connections : k > opened => conn[k] = "none" /\ r[k] = "none"
    BY <1>3, <1>4 DEF Kept, PlaceInv
  <2>2. \A k \in Connections : r[k] # "none" => k \notin gaveUp
    BY <1>3, <1>4 DEF Kept, PlaceInv
  <2>3. CASE pending
    BY <1>1, <2>1, <2>2, <2>3 DEF PlaceInv
  <2>4. CASE ~pending
    BY <1>1, <2>1, <2>2, <2>4 DEF PlaceInv
  <2> QED
    BY <2>3, <2>4
<1>13. CountInv'
  <2>1. {k \in Connections : r[k] = "done"} = {k \in Connections : reader[k] = "done"}
    BY <1>3, <1>4
  <2> QED
    BY <1>1, <2>1 DEF Kept, CountInv
<1>14. Orderly(ready, conn, reader, opened)'
  BY <1>1, <1>10
<1> QED
  BY <1>11, <1>12, <1>13, <1>14 DEF Kept

LEMMA UpgradeRefusedKeeps ==
    ASSUME Kept, UpgradeRefused
    PROVE  Kept'
<1>1. /\ RunsFirst("bot") /\ at = "upgrade" /\ at' = "closing" /\ Close(current, Tail(ready))
      /\ UNCHANGED <<current, opened, reader, running, drops, gaveUp, pending, generated, sent, failed>>
  BY DEF UpgradeRefused, Resumes, orders
<1>2. Orderly(Tail(ready), conn, reader, opened)
  BY <1>1, FirstRuns
<1>3. current \in Nat /\ current = opened
  BY <1>1 DEF Kept, BotTypes, PlaceInv
<1>4. /\ Orderly(ready', conn', reader, opened) /\ conn' \in [Connections -> States]
      /\ \A l \in Connections : conn[l] = "none" => conn'[l] = "none"
  BY <1>1, <1>2, <1>3, OrderlyClose DEF Kept
<1>5. BotTypes'
  BY <1>1, <1>4 DEF Kept, BotTypes
<1>6. PlaceInv'
  BY <1>1, <1>3, <1>4 DEF Kept, PlaceInv
<1>7. CountInv'
  BY <1>1, CountKept DEF Kept
<1>8. Orderly(ready, conn, reader, opened)'
  BY <1>1, <1>4
<1> QED
  BY <1>5, <1>6, <1>7, <1>8 DEF Kept

LEMMA UpgradeOverrunKeeps ==
    ASSUME Kept, UpgradeOverrun
    PROVE  Kept'
<1>1. /\ RunsFirst("bot") /\ at' = "failed" /\ ready' = Tail(ready)
      /\ UNCHANGED <<current, opened, conn, reader, running, drops, gaveUp, pending, generated, sent, failed>>
  BY DEF UpgradeOverrun, Resumes, orders
<1>2. Orderly(ready', conn, reader, opened)
  BY <1>1, FirstRuns
<1>3. BotTypes' /\ PlaceInv'
  BY <1>1 DEF Kept, BotTypes, PlaceInv
<1>4. CountInv'
  BY <1>1, CountKept DEF Kept
<1> QED
  BY <1>1, <1>2, <1>3, <1>4 DEF Kept

LEMMA UpgradeBrokenKeeps ==
    ASSUME Kept, UpgradeBroken
    PROVE  Kept'
<1>1. /\ RunsFirst("bot") /\ at = "upgrade" /\ ready' = Tail(ready) /\ GiveUp
      /\ UNCHANGED <<current, opened, conn, reader, running, orders>>
  BY DEF UpgradeBroken, Resumes
<1>2. Orderly(ready', conn, reader, opened)
  BY <1>1, FirstRuns
<1> QED
  BY <1>1, <1>2, GiveUpKeeps

LEMMA ClosedRefusedKeeps ==
    ASSUME Kept, ClosedRefused
    PROVE  Kept'
<1>1. /\ RunsFirst("bot") /\ at = "closing" /\ ready' = Tail(ready) /\ GiveUp
      /\ UNCHANGED <<current, opened, conn, reader, running, orders>>
  BY DEF ClosedRefused, Resumes
<1>2. Orderly(ready', conn, reader, opened)
  BY <1>1, FirstRuns
<1> QED
  BY <1>1, <1>2, GiveUpKeeps

(* send_order and the strategies touch no connection.                      *)
LEMMA OrderStepKeeps ==
    ASSUME Kept, UNCHANGED <<current, opened, conn, reader, running, drops, gaveUp>>,
           ready' = ready \/ (RunsFirst("bot") /\ ready' = Tail(ready)),
           at' \in {"check", "write", "drain", "next", "sleep"},
           /\ generated' \in Nat /\ sent' \in Nat /\ failed' \in Nat /\ pending' \in BOOLEAN
           /\ generated' = sent' + failed' + (IF pending' THEN 1 ELSE 0),
           at' \in {"check", "write", "drain"} => pending',
           at' \in {"next", "sleep"} => ~pending'
    PROVE  Kept'
<1>1. Orderly(ready', conn, reader, opened)
  BY FirstRuns DEF Kept
<1>2. BotTypes'
  BY DEF Kept, BotTypes
<1>3. PlaceInv'
  BY DEF Kept, PlaceInv
<1>4. CountInv'
  BY DEF Kept, CountInv
<1> QED
  BY <1>1, <1>2, <1>3, <1>4 DEF Kept

LEMMA CountedOnce ==
    ASSUME Kept, OrderSent \/ OrderFailed, at \in {"check", "write", "drain"},
           UNCHANGED <<current, opened, conn, reader, running, generated, drops, gaveUp>>,
           ready' = ready \/ (RunsFirst("bot") /\ ready' = Tail(ready))
    PROVE  Kept'
<1>1. /\ generated \in Nat /\ sent \in Nat /\ failed \in Nat
      /\ generated = sent + failed + 1
  BY DEF Kept, BotTypes, CountInv, PlaceInv
<1>2. at' = "next" /\ pending' = FALSE
      /\ \/ sent' = sent + 1 /\ failed' = failed
         \/ failed' = failed + 1 /\ sent' = sent
  BY DEF OrderSent, OrderFailed
<1>3. /\ generated' \in Nat /\ sent' \in Nat /\ failed' \in Nat /\ pending' \in BOOLEAN
      /\ generated' = sent' + failed' + (IF pending' THEN 1 ELSE 0)
  <2>1. generated' = generated /\ pending' \in BOOLEAN /\ ~pending'
    BY <1>2
  <2>2. sent' + failed' = sent + failed + 1 /\ sent' \in Nat /\ failed' \in Nat
    BY <1>1, <1>2
  <2>3. generated' = sent' + failed'
    BY <1>1, <2>1, <2>2
  <2>4. (IF pending' THEN 1 ELSE 0) = 0
    BY <2>1, Zenon
  <2>5. sent' + failed' = sent' + failed' + 0
    BY <2>2
  <2> QED
    BY <1>1, <2>1, <2>2, <2>3, <2>4, <2>5
<1> QED
  BY <1>2, <1>3, OrderStepKeeps

LEMMA OrdersKeep ==
    ASSUME Kept, running,
           NextOrder \/ Sleep \/ NextRound \/ WriteOrder \/ DrainReturns
    PROVE  Kept'
<1>1. /\ generated \in Nat /\ sent \in Nat /\ failed \in Nat /\ pending \in BOOLEAN
      /\ generated = sent + failed + (IF pending THEN 1 ELSE 0)
      /\ at \in {"check", "write", "drain"} => pending
      /\ at \in {"next", "sleep"} => ~pending
  BY DEF Kept, BotTypes, CountInv, PlaceInv
<1>2. CASE NextOrder
  <2>1. /\ at = "next" /\ generated' = generated + 1 /\ pending' = TRUE /\ at' = "check"
        /\ UNCHANGED <<ready, current, opened, conn, reader, running, sent, failed, drops, gaveUp>>
    BY <1>2 DEF NextOrder
  <2> QED
    BY <1>1, <2>1, OrderStepKeeps
<1>3. CASE Sleep
  <2>1. /\ at = "next" /\ at' = "sleep"
        /\ UNCHANGED <<ready, current, opened, conn, reader, running, pending, generated, sent,
                       failed, drops, gaveUp>>
    BY <1>3 DEF Sleep, orders
  <2> QED
    BY <1>1, <2>1, OrderStepKeeps
<1>4. CASE NextRound
  <2>1. /\ RunsFirst("bot") /\ at = "sleep" /\ at' = "next" /\ ready' = Tail(ready)
        /\ UNCHANGED <<current, opened, conn, reader, running, pending, generated, sent,
                       failed, drops, gaveUp>>
    BY <1>4 DEF NextRound, Resumes, orders
  <2> QED
    BY <1>1, <2>1, OrderStepKeeps
<1>5. CASE WriteOrder
  <2>1. /\ at = "write" /\ \/ OrderSent \/ OrderFailed
                           \/ at' = "drain" /\ UNCHANGED <<sent, failed, pending>>
        /\ UNCHANGED <<ready, current, opened, conn, reader, running, generated, drops, gaveUp>>
    BY <1>5 DEF WriteOrder
  <2>2. CASE OrderSent \/ OrderFailed
    BY <1>1, <2>1, <2>2, CountedOnce
  <2>3. CASE at' = "drain" /\ UNCHANGED <<sent, failed, pending>>
    BY <1>1, <2>1, <2>3, OrderStepKeeps
  <2> QED
    BY <2>1, <2>2, <2>3
<1>6. CASE DrainReturns
  <2>1. /\ RunsFirst("bot") /\ at = "drain" /\ (OrderSent \/ OrderFailed) /\ ready' = Tail(ready)
        /\ UNCHANGED <<current, opened, conn, reader, running, generated, drops, gaveUp>>
    BY <1>6 DEF DrainReturns, Resumes
  <2> QED
    BY <1>1, <2>1, CountedOnce
<1> QED
  BY <1>2, <1>3, <1>4, <1>5, <1>6

LEMMA CheckWriterKeeps ==
    ASSUME Kept, running, CheckWriter
    PROVE  Kept'
<1>1. /\ at = "check"
      /\ UNCHANGED <<ready, current, conn, reader, running, generated, sent, failed, drops, gaveUp>>
  BY DEF CheckWriter
<1>2. CASE Attempt
  BY <1>1, <1>2, AttemptKeeps
<1>3. CASE at' = "write" /\ UNCHANGED <<opened, pending>>
  <2>1. /\ generated \in Nat /\ sent \in Nat /\ failed \in Nat /\ pending \in BOOLEAN
        /\ generated = sent + failed + (IF pending THEN 1 ELSE 0) /\ pending
    BY <1>1 DEF Kept, BotTypes, CountInv, PlaceInv
  <2> QED
    BY <1>1, <1>3, <2>1, OrderStepKeeps
<1> QED
  BY <1>2, <1>3 DEF CheckWriter

LEMMA ConnectLoopKeeps ==
    ASSUME Kept, running, ConnectLoop
    PROVE  Kept'
<1>1. /\ RunsFirst("bot") /\ Attempt /\ ready' = Tail(ready)
      /\ UNCHANGED <<current, conn, reader, running, generated, sent, failed, drops, gaveUp>>
  BY DEF ConnectLoop, Resumes
<1> QED
  BY <1>1, AttemptKeeps

LEMMA BotStep ==
    ASSUME BotInv, [BotNext]_botVars
    PROVE  BotInv'
<1> SUFFICES ASSUME running' PROVE Kept'
  BY DEF BotInv
<1>1. CASE running
  <2>0. Kept
    BY <1>1 DEF BotInv
  <2>1. CASE \/ Wake \/ Drain \/ ServerAccepts \/ ServerRefuses \/ Answer \/ EndOfRun
             \/ \E k \in Connections : Flush(k) \/ Hangup(k)
    BY <2>0, <2>1, EnvironmentKeeps
  <2>2. CASE Transport
    BY <2>0, <2>2, MadeKeeps, AnsweredKeeps, EofKeeps, ResetKeeps, ConnectionLostKeeps, FlushedKeeps
       DEF Transport
  <2>3. CASE ReadLoop
    BY <1>1, <2>0, <2>3, ReadLoopKeeps
  <2>4. CASE Coroutine
    BY <1>1, <2>0, <2>4, ConnectLoopKeeps, OpenReturnsKeeps, UpgradedKeeps, UpgradeRefusedKeeps,
       UpgradeOverrunKeeps, UpgradeBrokenKeeps, ClosedRefusedKeeps, OrdersKeep, CheckWriterKeeps DEF Coroutine
  <2>5. CASE Disconnect
    BY <2>5 DEF Disconnect
  <2>6. CASE Cancel
    BY <1>1, <2>6 DEF Cancel
  <2>7. CASE UNCHANGED botVars
    BY <2>0, <2>7 DEF botVars, Kept, BotTypes, PlaceInv, CountInv, Scheduled
  <2> QED
    BY <2>1, <2>2, <2>3, <2>4, <2>5, <2>6, <2>7 DEF BotNext, Loop
<1>2. CASE ~running
  <2>1. running' = running
    BY <1>2 DEF BotNext, botVars, Loop, Transport, Coroutine, Wake, Drain, Flush, ServerAccepts,
          ServerRefuses, Answer, EndOfRun, Hangup, Schedule, Made, Answered,
          Eof, Reset, ConnectionLost, Flushed, ReadLoop, ConnectLoop, OpenReturns,
          Upgraded, UpgradeRefused, UpgradeOverrun, UpgradeBroken, ClosedRefused, NextOrder, Sleep,
          NextRound, CheckWriter, WriteOrder, DrainReturns, Disconnect,
          Cancel
  <2> QED
    BY <1>2, <2>1
<1> QED
  BY <1>1, <1>2

LEMMA BotStarts ==
    ASSUME BotInit
    PROVE  BotInv
<1>1. ready = << >> /\ << >> \in Seq(Callbacks) /\ Len(<< >>) = 0
  BY DEF BotInit
<1>2. \A i \in 1..0 : FALSE
  OBVIOUS
<1>3. Orderly(ready, conn, reader, opened)
  BY <1>1, <1>2 DEF Orderly
<1>4. BotTypes
  <2>1. /\ opened = 0 /\ current = 0 /\ generated = 0 /\ sent = 0 /\ failed = 0 /\ drops = 0
        /\ pending = FALSE /\ gaveUp = {} /\ conn = [k \in Connections |-> "none"]
        /\ reader = [k \in Connections |-> "none"]
    BY DEF BotInit
  <2>2. conn \in [Connections -> States]
    BY <2>1 DEF States
  <2>3. reader \in [Connections -> {"none", "scheduled", "waiting", "done"}]
    BY <2>1
  <2>4. opened \in 0..MaxConnections /\ current \in 0..opened
    BY <2>1, BoundsAssumption
  <2> QED
    BY <2>1, <2>2, <2>3, <2>4 DEF BotTypes
<1>5. PlaceInv
  BY DEF BotInit, PlaceInv
<1>6. CountInv
  <2>1. {k \in Connections : reader[k] = "done"} = {}
    BY DEF BotInit
  <2>2. /\ generated = 0 /\ sent = 0 /\ failed = 0 /\ drops = 0 /\ pending = FALSE
        /\ Cardinality(gaveUp) = 0 /\ Cardinality({k \in Connections : reader[k] = "done"}) = 0
    BY <2>1, FS_EmptySet DEF BotInit
  <2>3. (IF pending THEN 1 ELSE 0) = 0
    BY <2>2, Zenon
  <2> QED
    BY <2>2, <2>3 DEF CountInv
<1> QED
  BY <1>3, <1>4, <1>5, <1>6 DEF BotInv, Kept

(* While it runs, a bot counts every order once, as sent, failed or in     *)
(* hand, and every lost connection once, however many of sender, reader    *)
(* and connect notice the loss (send_order, read_loop and the except       *)
(* clause of connect in bot-fleet/main.py).                                *)
THEOREM OrdersAndDropsCounted == BotSpec => []AllCounted
<1>1. BotInit => BotInv
  BY BotStarts
<1>2. BotInv /\ [BotNext]_botVars => BotInv'
  BY BotStep
<1>3. BotInv => AllCounted
  <2>1. BotInv /\ running => \A k \in Connections : reader[k] = "done" => k \notin gaveUp
    <3>1. "done" # "none"
      OBVIOUS
    <3> QED
      BY <3>1 DEF BotInv, Kept, PlaceInv
  <2>2. BotInv /\ running => CountInv
    BY DEF BotInv, Kept
  <2> SUFFICES ASSUME BotInv, running PROVE AllCounted
    BY DEF AllCounted
  <2>3. drops = Cardinality(gaveUp)
                + Cardinality({k \in Connections : reader[k] = "done"})
    BY <2>2 DEF CountInv
  <2> QED
    BY <2>1, <2>2, <2>3, Zenon DEF CountInv, AllCounted
<1> QED
  BY <1>1, <1>2, <1>3, PTL DEF BotSpec

-----------------------------------------------------------------------------
(* Whose connection is closed.  At most one callback in the queue gives    *)
(* the bot's coroutine its turn; a reader that has not ended reads what    *)
(* the bot writes to; and when a handshake ends, the reader of the         *)
(* connection before it has had its turn already.                          *)

Turns == {"bot", "made", "answer"}
Unheard == {"none", "flushing"}
Reads(k, r) == r[k] \in {"scheduled", "waiting"}
In(q, name, k) == \E i \in 1..Len(q) : q[i].run = name /\ q[i].k = k
Before(q, i, name, k) == \E j \in 1..(i - 1) : q[j].run = name /\ q[j].k = k
NoTurn(q) == \A i \in 1..Len(q) : q[i].run \notin Turns

(* A turn of the coroutine comes after what must come before it: the       *)
(* handshake of a connection after the loss of the one before, and its end *)
(* after that one's reader.                                                *)
Turn(q, i, c, r, a, u, o) ==
    /\ a \notin Busy
    /\ q[i].run = "made" =>
          /\ a = "opening" /\ q[i].k = o
          /\ \A k \in Connections :
                Reads(k, r) /\ c[k] = "closing" => Before(q, i, "lost", k)
    /\ q[i].run = "answer" =>
          /\ a = "upgrade" /\ c[u] = "open"
          /\ \A j \in 1..(i - 1) : q[j].run \notin {"eof", "reset"}
    /\ q[i].run = "bot" /\ a = "opening" /\ q[i].ok =>
          /\ c[o] \notin Unheard
          /\ \A k \in Connections : Reads(k, r) => c[k] = "lost" /\ Before(q, i, "reader", k)

Turnwise(q, c, r, a, u, o) ==
    /\ \A i, j \in 1..Len(q) : q[i].run \in Turns /\ q[j].run \in Turns => i = j
    /\ \A i \in 1..Len(q) : q[i].run \in Turns => Turn(q, i, c, r, a, u, o)

(* Whoever waits for the end of a connection has been woken.               *)
Woken(q, c, r, u) ==
    /\ \A k \in Connections : c[k] = "closing" => In(q, "lost", k)
    /\ \A k \in Connections : Reads(k, r) =>
          /\ k = u /\ c[k] \notin Unheard
          /\ r[k] = "scheduled" \/ c[k] \in {"eof", "lost"} => In(q, "reader", k)

(* What is still read while the bot makes another connection is lost.      *)
Behind(c, r, a, u) ==
  /\ a = "upgrade" => c[u] \notin Unheard
  /\ \A k \in Connections : Reads(k, r) =>
        /\ a \in {"opening", "backoff"} => c[k] \in {"closing", "lost"}
        /\ a \notin {"stagger", "upgrade", "closing"}

Healthy == /\ Turnwise(ready, conn, reader, at, current, opened)
           /\ Woken(ready, conn, reader, current)
           /\ Behind(conn, reader, at, current)

HealthyInv == /\ conn \in [Connections -> States]
              /\ running => Kept /\ Healthy

(* The queue without its first callback and with more at its end.          *)
LEMMA QueueMoves ==
    ASSUME NEW q \in Seq(Callbacks), q # << >>
    PROVE  /\ Tail(q) \in Seq(Callbacks) /\ Len(Tail(q)) \in Nat
           /\ Len(q) = Len(Tail(q)) + 1 /\ Head(q) = q[1]
           /\ \A i \in 1..Len(Tail(q)) : Tail(q)[i] = q[i + 1]
  BY HeadTailProperties, EmptySeq, LenProperties

LEMMA QueueGrows ==
    ASSUME NEW q \in Seq(Callbacks), NEW x \in Callbacks
    PROVE  /\ Append(q, x) \in Seq(Callbacks) /\ Len(q) \in Nat
           /\ Len(Append(q, x)) = Len(q) + 1 /\ Append(q, x)[Len(q) + 1] = x
           /\ \A i \in 1..Len(q) : Append(q, x)[i] = q[i]
           /\ q \o << x >> = Append(q, x)
  BY AppendProperties, LenProperties, AppendIsConcat

LEMMA InGrows ==
    ASSUME NEW q \in Seq(Callbacks), NEW x \in Callbacks
    PROVE  /\ \A n, k : In(q, n, k) => In(Append(q, x), n, k)
           /\ In(Append(q, x), x.run, x.k)
<1> DEFINE t == Append(q, x)
<1>1. /\ Len(q) \in Nat /\ Len(t) = Len(q) + 1 /\ t[Len(q) + 1] = x
      /\ \A i \in 1..Len(q) : t[i] = q[i]
  BY QueueGrows
<1> HIDE DEF t
<1>2. Len(q) + 1 \in 1..Len(t) /\ \A i \in 1..Len(q) : i \in 1..Len(t)
  BY <1>1
<1> QED
  BY <1>1, <1>2 DEF In, t

LEMMA InMoves ==
    ASSUME NEW q \in Seq(Callbacks), q # << >>, NEW n, NEW k, In(q, n, k),
           ~(Head(q).run = n /\ Head(q).k = k)
    PROVE  In(Tail(q), n, k)
<1> DEFINE t == Tail(q)
<1>1. /\ Len(t) \in Nat /\ Len(q) = Len(t) + 1 /\ Head(q) = q[1]
      /\ \A i \in 1..Len(t) : t[i] = q[i + 1]
  BY QueueMoves
<1> HIDE DEF t
<1>2. PICK i \in 1..Len(q) : q[i].run = n /\ q[i].k = k
  BY DEF In
<1>3. i # 1
  BY <1>1, <1>2
<1>4. i - 1 \in 1..Len(t) /\ t[i - 1] = q[i]
  BY <1>1, <1>3
<1> QED
  BY <1>2, <1>4 DEF In, t

(* Of turns there is one: when it runs, or while the coroutine does, none. *)
LEMMA TurnRuns ==
    ASSUME NEW q \in Seq(Callbacks), NEW c, NEW r, NEW a, NEW u, NEW o, Turnwise(q, c, r, a, u, o),
           q # << >>, Head(q).run \in Turns
    PROVE  NoTurn(Tail(q))
<1> DEFINE t == Tail(q)
<1>1. /\ Len(t) \in Nat /\ Len(q) = Len(t) + 1 /\ Head(q) = q[1]
      /\ \A i \in 1..Len(t) : t[i] = q[i + 1]
  BY QueueMoves
<1> HIDE DEF t
<1>2. \A i \in 1..Len(t) : i + 1 \in 1..Len(q) /\ 1 \in 1..Len(q) /\ i + 1 # 1
  BY <1>1
<1> QED
  BY <1>1, <1>2 DEF Turnwise, NoTurn, t

LEMMA BusyHasTurn ==
    ASSUME NEW q, NEW c, NEW r, NEW a, NEW u, NEW o, Turnwise(q, c, r, a, u, o), a \in Busy
    PROVE  NoTurn(q)
  BY DEF Turnwise, NoTurn, Turn

LEMMA NoTurnIsFine ==
    ASSUME NEW q, NEW c, NEW r, NEW a, NEW u, NEW o, NoTurn(q)
    PROVE  Turnwise(q, c, r, a, u, o)
  BY DEF Turnwise, NoTurn

LEMMA NoTurnGrows ==
    ASSUME NEW q \in Seq(Callbacks), NoTurn(q), NEW x \in Callbacks, x.run \notin Turns
    PROVE  NoTurn(Append(q, x))
<1> DEFINE t == Append(q, x)
<1>1. /\ Len(q) \in Nat /\ Len(t) = Len(q) + 1 /\ t[Len(q) + 1] = x
      /\ \A i \in 1..Len(q) : t[i] = q[i]
  BY QueueGrows
<1> HIDE DEF t
<1>2. \A i \in 1..Len(t) : i \in 1..Len(q) \/ i = Len(q) + 1
  BY <1>1
<1> QED
  BY <1>1, <1>2 DEF NoTurn, t

(* What comes later than a turn does not matter to it.                     *)
LEMMA TurnwiseGrows ==
    ASSUME NEW q \in Seq(Callbacks), NEW c, NEW r, NEW a, NEW u, NEW o, Turnwise(q, c, r, a, u, o),
           NEW x \in Callbacks,
           \/ x.run \notin Turns
           \/ NoTurn(q) /\ Turn(Append(q, x), Len(q) + 1, c, r, a, u, o)
    PROVE  Turnwise(Append(q, x), c, r, a, u, o)
<1> DEFINE t == Append(q, x)
<1>1. /\ Len(q) \in Nat /\ Len(t) = Len(q) + 1 /\ t[Len(q) + 1] = x
      /\ \A i \in 1..Len(q) : t[i] = q[i]
  BY QueueGrows
<1>0. x.run \notin Turns \/ (NoTurn(q) /\ Turn(t, Len(q) + 1, c, r, a, u, o))
  OBVIOUS
<1> HIDE DEF t
<1>2. \A i \in 1..Len(t) : i \in 1..Len(q) \/ i = Len(q) + 1
  BY <1>1
<1>3. \A i, j \in 1..Len(t) : t[i].run \in Turns /\ t[j].run \in Turns => i = j
  BY <1>0, <1>1, <1>2 DEF Turnwise, NoTurn
<1>4. ASSUME NEW i \in 1..Len(t), t[i].run \in Turns
      PROVE  Turn(t, i, c, r, a, u, o)
  <2>1. CASE i \in 1..Len(q)
    <3>1. Turn(q, i, c, r, a, u, o) /\ t[i] = q[i]
      BY <1>1, <1>4, <2>1 DEF Turnwise
    <3>2. \A j \in 1..(i - 1) : j \in 1..Len(q) /\ t[j] = q[j]
      BY <1>1, <2>1
    <3>3. \A n, k : Before(q, i, n, k) => Before(t, i, n, k)
      BY <3>2 DEF Before
    <3> QED
      BY <3>1, <3>2, <3>3 DEF Turn
  <2>2. CASE i = Len(q) + 1
    BY <1>0, <1>1, <1>4, <2>2
  <2> QED
    BY <1>2, <2>1, <2>2
<1> QED
  BY <1>3, <1>4 DEF Turnwise, t

(* And when another callback runs before it, a turn is still fine if that  *)
(* has done what it was waited for.                                        *)
LEMMA TurnwiseMoves ==
    ASSUME NEW q \in Seq(Callbacks), NEW c, NEW r, NEW a, NEW u, NEW o, Turnwise(q, c, r, a, u, o),
           q # << >>, NEW d, NEW s,
           \A k \in Connections : Reads(k, s) =>
              /\ Reads(k, r)
              /\ a = "opening" /\ d[k] = "closing" =>
                    c[k] = "closing" /\ ~(Head(q).run = "lost" /\ Head(q).k = k)
              /\ a = "opening" /\ c[k] = "lost" =>
                    d[k] = "lost" /\ ~(Head(q).run = "reader" /\ Head(q).k = k),
           a = "opening" /\ c[o] \notin Unheard => d[o] \notin Unheard,
           a = "upgrade" /\ c[u] = "open" /\ Head(q).run \notin {"eof", "reset"} => d[u] = "open"
    PROVE  Turnwise(Tail(q), d, s, a, u, o)
<1> DEFINE t == Tail(q)
<1>1. /\ Len(t) \in Nat /\ Len(q) = Len(t) + 1 /\ Head(q) = q[1]
      /\ \A i \in 1..Len(t) : t[i] = q[i + 1]
  BY QueueMoves
<1> HIDE DEF t
<1>2. \A i \in 1..Len(t) : i + 1 \in 1..Len(q) /\ 1 \in 1..i
  BY <1>1
<1>3. \A i, j \in 1..Len(t) : t[i].run \in Turns /\ t[j].run \in Turns => i = j
  <2> TAKE i, j \in 1..Len(t)
  <2>1. i + 1 = j + 1 => i = j
    BY <1>1
  <2> QED
    BY <1>1, <1>2, <2>1 DEF Turnwise
<1>4. ASSUME NEW i \in 1..Len(t), t[i].run \in Turns
      PROVE  Turn(t, i, d, s, a, u, o)
  <2>1. Turn(q, i + 1, c, r, a, u, o) /\ t[i] = q[i + 1]
    BY <1>1, <1>2, <1>4 DEF Turnwise
  <2>2. \A j \in 1..(i - 1) : j + 1 \in 1..((i + 1) - 1) /\ t[j] = q[j + 1]
    BY <1>1
  <2>3. ASSUME NEW n, NEW k, Before(q, i + 1, n, k), ~(q[1].run = n /\ q[1].k = k)
        PROVE  Before(t, i, n, k)
    <3>1. PICK j \in 1..((i + 1) - 1) : q[j].run = n /\ q[j].k = k
      BY <2>3 DEF Before
    <3>2. j # 1
      BY <2>3, <3>1
    <3>3. j - 1 \in 1..(i - 1) /\ t[j - 1] = q[j]
      BY <1>1, <3>2
    <3> QED
      BY <3>1, <3>3 DEF Before
  <2>4. t[i].run = "made" =>
          a = "opening" /\ t[i].k = o
          /\ \A k \in Connections : Reads(k, s) /\ d[k] = "closing" => Before(t, i, "lost", k)
    BY <1>1, <2>1, <2>3 DEF Turn
  <2>5. t[i].run = "answer" =>
          a = "upgrade" /\ d[u] = "open" /\ \A j \in 1..(i - 1) : t[j].run \notin {"eof", "reset"}
    <3>1. 1 \in 1..((i + 1) - 1)
      BY <1>1
    <3> QED
      BY <1>1, <2>1, <2>2, <3>1 DEF Turn
  <2>6. t[i].run = "bot" /\ a = "opening" /\ t[i].ok =>
          d[o] \notin Unheard /\ \A k \in Connections : Reads(k, s) => d[k] = "lost" /\ Before(t, i, "reader", k)
    BY <1>1, <2>1, <2>3 DEF Turn
  <2> QED
    BY <2>1, <2>4, <2>5, <2>6 DEF Turn
<1> QED
  BY <1>3, <1>4 DEF Turnwise, t

(* Being woken is not undone by what is scheduled later, ...               *)
LEMMA WokenGrows ==
    ASSUME NEW q \in Seq(Callbacks), NEW c, NEW r, NEW u, Woken(q, c, r, u), NEW x \in Callbacks
    PROVE  Woken(Append(q, x), c, r, u)
  BY InGrows DEF Woken

(* ... nor by a callback of another kind that runs.                        *)
LEMMA WokenMoves ==
    ASSUME NEW q \in Seq(Callbacks), NEW c, NEW r, NEW u, Woken(q, c, r, u), q # << >>,
           Head(q).run \notin {"lost", "reader"}
    PROVE  Woken(Tail(q), c, r, u)
<1>1. \A n \in {"lost", "reader"}, k \in Connections : In(q, n, k) => In(Tail(q), n, k)
  BY InMoves
<1> QED
  BY <1>1 DEF Woken

LEMMA BeforeEnd ==
    ASSUME NEW q \in Seq(Callbacks), NEW x \in Callbacks, NEW n, NEW k, In(q, n, k)
    PROVE  Before(Append(q, x), Len(q) + 1, n, k)
<1> DEFINE t == Append(q, x)
<1>1. Len(q) \in Nat /\ \A i \in 1..Len(q) : t[i] = q[i]
  BY QueueGrows
<1> HIDE DEF t
<1>2. (Len(q) + 1) - 1 = Len(q)
  BY <1>1
<1> QED
  BY <1>1, <1>2 DEF In, Before, t

(* close() and a broken connection.                                        *)
LEMMA StopIs ==
    ASSUME BotTypes, NEW k \in Nat
    PROVE  \/ LossOf(k) = << >> /\ Stopped(k) = conn
           \/ /\ k \in Connections /\ conn[k] \in {"open", "eof", "flushing"}
              /\ LossOf(k) = << Callback("lost", k, TRUE) >>
              /\ Stopped(k)[k] = "closing"
              /\ \A l \in Connections : l # k => Stopped(k)[l] = conn[l]
<1>1. CASE ~Writes(k)
  BY <1>1 DEF LossOf, Stopped
<1>2. CASE Writes(k)
  <2>1. k \in Connections /\ conn[k] \in {"open", "eof", "flushing"}
    BY <1>2 DEF Writes
  <2> QED
    BY <1>2, <2>1 DEF LossOf, Stopped, BotTypes
<1> QED
  BY <1>1, <1>2

LEMMA LossIsCallback ==
    ASSUME NEW k \in Nat
    PROVE  /\ Callback("lost", k, TRUE) \in Callbacks
           /\ Callback("lost", k, TRUE).run = "lost" /\ Callback("lost", k, TRUE).k = k
  BY DEF Callback, Callbacks, Runnable

LEMMA LossWoken ==
    ASSUME BotTypes, NEW q \in Seq(Callbacks), NEW r, NEW u, Woken(q, conn, r, u), NEW k \in Nat
    PROVE  Woken(q \o LossOf(k), Stopped(k), r, u)
<1>1. CASE LossOf(k) = << >> /\ Stopped(k) = conn
  <2>1. q \o << >> = q
    BY ConcatEmptySeq
  <2> QED
    BY <1>1, <2>1
<1>2. CASE /\ k \in Connections /\ conn[k] \in {"open", "eof", "flushing"}
           /\ LossOf(k) = << Callback("lost", k, TRUE) >>
           /\ Stopped(k)[k] = "closing"
           /\ \A l \in Connections : l # k => Stopped(k)[l] = conn[l]
  <2> DEFINE x == Callback("lost", k, TRUE)
             d == Stopped(k)
             t == Append(q, x)
  <2>1. x \in Callbacks /\ x.run = "lost" /\ x.k = k
    BY LossIsCallback
  <2>2. q \o LossOf(k) = t
    BY <1>2, <2>1, QueueGrows
  <2>3. In(t, "lost", k) /\ Woken(t, conn, r, u)
    BY <2>1, InGrows, WokenGrows
  <2> HIDE DEF t, d, x
  <2>4. \A l \in Connections : \/ l # k /\ d[l] = conn[l]
                               \/ l = k /\ d[l] = "closing"
    BY <1>2 DEF d
  <2>5. Woken(t, d, r, u)
    BY <2>3, <2>4 DEF Woken, Unheard
  <2> QED
    BY <2>2, <2>5 DEF d
<1> QED
  BY <1>1, <1>2, StopIs

LEMMA LossBehind ==
    ASSUME BotTypes, NEW r, NEW a, current \in Connections \/ a # "upgrade",
           Behind(conn, r, a, current), NEW k \in Nat
    PROVE  Behind(Stopped(k), r, a, current)
<1>1. CASE Stopped(k) = conn
  BY <1>1
<1>2. CASE /\ k \in Connections /\ conn[k] \in {"open", "eof", "flushing"}
           /\ Stopped(k)[k] = "closing"
           /\ \A l \in Connections : l # k => Stopped(k)[l] = conn[l]
  BY <1>2 DEF Behind, Unheard
<1> QED
  BY <1>1, <1>2, StopIs

LEMMA LossIsNoTurn ==
    ASSUME BotTypes, NEW q \in Seq(Callbacks), NEW k \in Nat
    PROVE  /\ NoTurn(q) => NoTurn(q \o LossOf(k))
           /\ \A c, r, a, u, o : Turnwise(q, c, r, a, u, o) => Turnwise(q \o LossOf(k), c, r, a, u, o)
<1>1. CASE LossOf(k) = << >>
  <2>1. q \o << >> = q
    BY ConcatEmptySeq
  <2> QED
    BY <1>1, <2>1
<1>2. CASE LossOf(k) = << Callback("lost", k, TRUE) >>
  <2> DEFINE x == Callback("lost", k, TRUE)
  <2>1. x \in Callbacks /\ x.run = "lost"
    BY LossIsCallback
  <2>2. q \o LossOf(k) = Append(q, x)
    BY <1>2, <2>1, QueueGrows
  <2>3. x.run \notin Turns
    BY <2>1 DEF Turns
  <2> HIDE DEF x
  <2>4. NoTurn(q) => NoTurn(Append(q, x))
    BY <2>1, <2>3, NoTurnGrows
  <2>5. \A c, r, a, u, o : Turnwise(q, c, r, a, u, o) => Turnwise(Append(q, x), c, r, a, u, o)
    BY <2>1, <2>3, TurnwiseGrows
  <2> QED
    BY <2>2, <2>4, <2>5
<1> QED
  BY <1>1, <1>2, StopIs

(* close() when nothing is read any more: what it leaves to be written     *)
(* wakes nobody that should have been woken.                               *)
LEMMA CloseWoken ==
    ASSUME BotTypes, NEW q \in Seq(Callbacks), NEW r, NEW u, Woken(q, conn, r, u),
           \A l \in Connections : ~Reads(l, r), NEW k \in Nat, Close(k, q)
    PROVE  /\ Woken(ready', conn', r, u)
           /\ NoTurn(q) => NoTurn(ready')
           /\ \A c, s, a, v, o : Turnwise(q, c, s, a, v, o) => Turnwise(ready', c, s, a, v, o)
           /\ \A l \in Connections : conn[l] # "none" => conn'[l] # "none"
<1>1. CASE ~Alive(k) /\ conn' = conn /\ ready' = q
  BY <1>1
<1>2. CASE conn' = Stopped(k) /\ ready' = q \o LossOf(k)
  <2>1. \A l \in Connections : conn[l] # "none" => conn'[l] # "none"
    BY <1>2, StopIs
  <2>2. Woken(ready', conn', r, u)
    BY <1>2, LossWoken
  <2>3. /\ NoTurn(q) => NoTurn(ready')
        /\ \A c, s, a, v, o : Turnwise(q, c, s, a, v, o) => Turnwise(ready', c, s, a, v, o)
    BY <1>2, LossIsNoTurn
  <2> QED
    BY <2>1, <2>2, <2>3
<1>3. CASE Alive(k) /\ conn' = [conn EXCEPT ![k] = "flushing"] /\ ready' = q
  <2>1. \A l \in Connections : conn'[l] \in {conn[l], "flushing"}
    BY <1>3 DEF BotTypes
  <2>2. Woken(q, conn', r, u)
    BY <2>1 DEF Woken
  <2> QED
    BY <1>3, <2>1, <2>2
<1> QED
  BY <1>1, <1>2, <1>3 DEF Close

(* Whoever is woken up at the end of a connection.                         *)
LEMMA WokenReader ==
    ASSUME NEW q \in Seq(Callbacks), NEW k \in Nat
    PROVE  /\ q \o Readers(k) \in Seq(Callbacks)
           /\ \A n, l : In(q, n, l) => In(q \o Readers(k), n, l)
           /\ reader[k] = "waiting" => In(q \o Readers(k), "reader", k)
           /\ NoTurn(q) => NoTurn(q \o Readers(k))
           /\ \A c, r, a, u, o : Turnwise(q, c, r, a, u, o) => Turnwise(q \o Readers(k), c, r, a, u, o)
<1>1. CASE reader[k] # "waiting"
  <2>1. q \o << >> = q
    BY ConcatEmptySeq
  <2> QED
    BY <1>1, <2>1 DEF Readers
<1>2. CASE reader[k] = "waiting"
  <2> DEFINE x == Callback("reader", k, TRUE)
             t == Append(q, x)
  <2>1. x \in Callbacks /\ x.run = "reader" /\ x.k = k
    BY DEF Callback, Callbacks, Runnable
  <2>2. x.run \notin Turns
    BY <2>1 DEF Turns
  <2>3. q \o Readers(k) = t /\ t \in Seq(Callbacks)
    BY <1>2, <2>1, QueueGrows DEF Readers
  <2> HIDE DEF x
  <2>4. In(t, "reader", k) /\ \A n, l : In(q, n, l) => In(t, n, l)
    BY <2>1, InGrows
  <2>5. NoTurn(q) => NoTurn(t)
    BY <2>1, <2>2, NoTurnGrows
  <2>6. \A c, r, a, u, o : Turnwise(q, c, r, a, u, o) => Turnwise(t, c, r, a, u, o)
    BY <2>1, <2>2, TurnwiseGrows
  <2> HIDE DEF t
  <2> QED
    BY <2>3, <2>4, <2>5, <2>6
<1> QED
  BY <1>1, <1>2

LEMMA WokenBot ==
    ASSUME NEW q \in Seq(Callbacks), NEW k \in Nat, NEW S, NEW ok \in BOOLEAN, NEW c, NEW r, NEW o,
           Turnwise(q, c, r, at, current, o), at \notin Busy,
           "opening" \notin S,
           current = k /\ at \in S /\ ~Scheduled("bot") => NoTurn(q)
    PROVE  /\ \A n, l : In(q, n, l) => In(q \o TheBot(k, S, ok), n, l)
           /\ Turnwise(q \o TheBot(k, S, ok), c, r, at, current, o)
<1>1. CASE TheBot(k, S, ok) = << >>
  <2>1. q \o << >> = q
    BY ConcatEmptySeq
  <2> QED
    BY <1>1, <2>1
<1>2. CASE current = k /\ at \in S /\ ~Scheduled("bot")
  <2> DEFINE x == Callback("bot", k, ok)
             t == Append(q, x)
  <2>1. x \in Callbacks /\ x.run = "bot" /\ x.k = k
    BY DEF Callback, Callbacks, Runnable
  <2>2. q \o TheBot(k, S, ok) = t /\ t[Len(q) + 1] = x
    BY <1>2, <2>1, QueueGrows DEF TheBot
  <2> HIDE DEF x
  <2>3. Turn(t, Len(q) + 1, c, r, at, current, o)
    BY <1>2, <2>1, <2>2 DEF Turn
  <2>4. Turnwise(t, c, r, at, current, o)
    BY <1>2, <2>1, <2>3, TurnwiseGrows
  <2>5. \A n, l : In(q, n, l) => In(t, n, l)
    BY <2>1, InGrows
  <2> HIDE DEF t
  <2> QED
    BY <2>2, <2>4, <2>5
<1> QED
  BY <1>1, <1>2 DEF TheBot

(* Sockets and timers.  What is scheduled for the coroutine is scheduled   *)
(* only while nothing else will resume it.                                 *)
LEMMA SchedulesTurn ==
    ASSUME Kept, Healthy, NEW x \in Callbacks, Schedule(x),
           x.run \in Turns =>
              NoTurn(ready)
              /\ \A q : q = Append(ready, x)
                        => Turn(q, Len(ready) + 1, conn, reader, at, current, opened)
    PROVE  Healthy'
<1>1. ready \in Seq(Callbacks) /\ ready' = Append(ready, x)
      /\ UNCHANGED <<at, current, opened, conn, reader>>
  BY DEF Kept, Orderly, Schedule
<1>2. Turnwise(Append(ready, x), conn, reader, at, current, opened)
  BY <1>1, TurnwiseGrows DEF Healthy
<1>3. Woken(Append(ready, x), conn, reader, current)
  BY <1>1, WokenGrows DEF Healthy
<1> QED
  BY <1>1, <1>2, <1>3 DEF Healthy

LEMMA EnvironmentHealthy ==
    ASSUME Kept, Healthy,
           \/ Wake \/ Drain \/ ServerAccepts \/ ServerRefuses \/ Answer \/ EndOfRun
           \/ \E k \in Connections : Flush(k) \/ Hangup(k)
    PROVE  Healthy'
<1>0. /\ current \in Nat /\ opened \in Nat /\ ready \in Seq(Callbacks)
      /\ \A k \in Connections : k \in Nat
  BY DEF Kept, BotTypes, Orderly, Connections
<1>1. \A x \in Callbacks : LET q == Append(ready, x)
                           IN  /\ q[Len(ready) + 1] = x /\ Len(ready) \in Nat
                               /\ \A i \in 1..Len(ready) : q[i] = ready[i]
  BY <1>0, QueueGrows
<1>2. \A i \in 1..Len(ready) :
         /\ ready[i].run = "made" => at = "opening"
         /\ ready[i].run = "answer" => at = "upgrade"
         /\ ready[i].run \in Turns => at \notin Busy
  BY DEF Healthy, Turnwise, Turn, Turns
<1>3. CASE Wake \/ Drain
  <2> DEFINE x == Callback("bot", current, TRUE)
  <2>1. x \in Callbacks /\ x.run = "bot"
    BY <1>0 DEF Callback, Callbacks, Runnable
  <2>2. at \in {"stagger", "backoff", "sleep", "drain"} /\ ~Scheduled("bot") /\ Schedule(x)
    BY <1>3 DEF Wake, Drain
  <2> HIDE DEF x
  <2>3. NoTurn(ready)
    BY <1>2, <2>2 DEF NoTurn, Turns, Scheduled
  <2>4. \A q : q = Append(ready, x) => Turn(q, Len(ready) + 1, conn, reader, at, current, opened)
    BY <1>1, <2>1, <2>2 DEF Turn, Busy
  <2> QED
    BY <2>1, <2>2, <2>3, <2>4, SchedulesTurn
<1>4. CASE ServerAccepts
  <2> DEFINE x == Callback("made", opened, TRUE)
  <2>1. x \in Callbacks /\ x.run = "made" /\ x.k = opened
    BY <1>0 DEF Callback, Callbacks, Runnable
  <2>2. at = "opening" /\ ~Scheduled("made") /\ ~Scheduled("bot") /\ Schedule(x)
    BY <1>4 DEF ServerAccepts
  <2> HIDE DEF x
  <2>3. NoTurn(ready)
    BY <1>2, <2>2 DEF NoTurn, Turns, Scheduled
  <2>4. \A k \in Connections : Reads(k, reader) /\ conn[k] = "closing"
                               => Before(Append(ready, x), Len(ready) + 1, "lost", k)
    BY <1>0, <2>1, BeforeEnd DEF Healthy, Woken
  <2>5. \A q : q = Append(ready, x) => Turn(q, Len(ready) + 1, conn, reader, at, current, opened)
    BY <1>1, <2>1, <2>2, <2>4 DEF Turn, Busy
  <2> QED
    BY <2>1, <2>2, <2>3, <2>5, SchedulesTurn
<1>5. CASE ServerRefuses
  <2> DEFINE x == Callback("bot", opened, FALSE)
  <2>1. x \in Callbacks /\ x.run = "bot" /\ ~x.ok
    BY <1>0 DEF Callback, Callbacks, Runnable
  <2>2. at = "opening" /\ ~Scheduled("made") /\ ~Scheduled("bot") /\ Schedule(x)
    BY <1>5 DEF ServerRefuses
  <2> HIDE DEF x
  <2>3. NoTurn(ready)
    BY <1>2, <2>2 DEF NoTurn, Turns, Scheduled
  <2>4. \A q : q = Append(ready, x) => Turn(q, Len(ready) + 1, conn, reader, at, current, opened)
    BY <1>1, <2>1, <2>2 DEF Turn, Busy
  <2> QED
    BY <2>1, <2>2, <2>3, <2>4, SchedulesTurn
<1>6. CASE Answer
  <2>1. PICK ok \in BOOLEAN : Schedule(Callback("answer", current, ok))
    BY <1>6 DEF Answer
  <2> DEFINE x == Callback("answer", current, ok)
  <2>2. x \in Callbacks /\ x.run = "answer"
    BY <1>0 DEF Callback, Callbacks, Runnable
  <2>3. at = "upgrade" /\ conn[current] = "open" /\ ~Scheduled("bot") /\ ~Scheduled("answer")
        /\ ~Scheduled("eof") /\ ~Scheduled("reset") /\ Schedule(x)
    BY <1>6, <2>1 DEF Answer
  <2> HIDE DEF x
  <2>4. NoTurn(ready)
    BY <1>2, <2>3 DEF NoTurn, Turns, Scheduled
  <2>5. \A i \in 1..Len(ready) : ready[i].run \notin {"eof", "reset"}
    BY <2>3 DEF Scheduled
  <2>6. ASSUME NEW q, q = Append(ready, x)
        PROVE  Turn(q, Len(ready) + 1, conn, reader, at, current, opened)
    <3>1. (Len(ready) + 1) - 1 = Len(ready) /\ q[Len(ready) + 1].run = "answer"
          /\ \A i \in 1..Len(ready) : q[i].run \notin {"eof", "reset"}
      BY <1>1, <2>2, <2>5, <2>6
    <3> QED
      BY <2>3, <3>1 DEF Turn, Busy
  <2> QED
    BY <2>2, <2>3, <2>4, <2>6, SchedulesTurn
<1>7. CASE EndOfRun \/ \E k \in Connections : Flush(k) \/ Hangup(k)
  <2>1. PICK x \in Callbacks : x.run \in {"stop", "eof", "reset", "flushed"} /\ Schedule(x)
    <3>1. CASE EndOfRun
      <4>1. Callback("stop", 0, TRUE) \in Callbacks /\ Callback("stop", 0, TRUE).run = "stop"
        BY DEF Callback, Callbacks, Runnable
      <4> QED
        BY <3>1, <4>1 DEF EndOfRun
    <3>2. ASSUME NEW k \in Connections, Flush(k) \/ Hangup(k)
          PROVE  \E x \in Callbacks : x.run \in {"stop", "eof", "reset", "flushed"} /\ Schedule(x)
      <4>1. \A n \in {"eof", "reset", "flushed"} :
               Callback(n, k, TRUE) \in Callbacks /\ Callback(n, k, TRUE).run = n
        BY <1>0 DEF Callback, Callbacks, Runnable
      <4>2. \E n \in {"eof", "reset", "flushed"} : Schedule(Callback(n, k, TRUE))
        BY <3>2 DEF Flush, Hangup
      <4> QED
        BY <4>1, <4>2
    <3> QED
      BY <1>7, <3>1, <3>2
  <2>2. x.run \notin Turns
    BY <2>1 DEF Turns
  <2> QED
    BY <2>1, <2>2, SchedulesTurn
<1> QED
  BY <1>3, <1>4, <1>5, <1>6, <1>7

(* The first of the queue, when it is the bot's turn.                      *)
LEMMA FirstTurn ==
    ASSUME Kept, Healthy, NEW name \in Turns, RunsFirst(name)
    PROVE  /\ NoTurn(Tail(ready)) /\ Tail(ready) \in Seq(Callbacks)
           /\ Woken(Tail(ready), conn, reader, current)
           /\ Turn(ready, 1, conn, reader, at, current, opened)
           /\ ready # << >> /\ Head(ready) = ready[1] /\ Head(ready).run = name
           /\ \A n, k : ~Before(ready, 1, n, k)
<1>1. ready # << >> /\ Head(ready).run = name /\ ready \in Seq(Callbacks)
  BY DEF RunsFirst, Kept, Orderly
<1>2. Head(ready) = ready[1] /\ 1 \in 1..Len(ready) /\ Tail(ready) \in Seq(Callbacks)
  BY <1>1, QueueMoves
<1>3. NoTurn(Tail(ready)) /\ Turn(ready, 1, conn, reader, at, current, opened)
  BY <1>1, <1>2, TurnRuns DEF Healthy, Turnwise
<1>4. name \notin {"lost", "reader"}
  BY DEF Turns
<1>5. Woken(Tail(ready), conn, reader, current)
  BY <1>1, <1>4, WokenMoves DEF Healthy
<1>6. \A n, k : ~Before(ready, 1, n, k)
  BY DEF Before
<1> QED
  BY <1>1, <1>2, <1>3, <1>5, <1>6

(* A connection is made: whatever is still read has been lost by now, and  *)
(* its reader is in the queue before the coroutine.                        *)
LEMMA MadeHealthy ==
    ASSUME Kept, Healthy, Made
    PROVE  Healthy'
<1> DEFINE t == Tail(ready)
           k == Head(ready).k
           x == Callback("bot", k, TRUE)
           q == Append(t, x)
<1>1. /\ RunsFirst("made") /\ ready' = q /\ conn' = [conn EXCEPT ![k] = "open"]
      /\ UNCHANGED <<at, current, opened, reader>>
  BY DEF Made
<1>2. /\ NoTurn(t) /\ t \in Seq(Callbacks) /\ Woken(t, conn, reader, current)
      /\ at = "opening" /\ k = opened
      /\ \A l \in Connections : Reads(l, reader) => conn[l] # "closing"
  <2>1. "made" \in Turns
    BY DEF Turns
  <2> QED
    BY <1>1, <2>1, FirstTurn DEF Turn
<1>3. k \in Connections /\ k \in Nat /\ conn[k] = "none"
  BY <1>1, FirstRuns DEF Says
<1>4. \A l \in Connections : Reads(l, reader) => conn[l] = "lost" /\ In(t, "reader", l)
  BY <1>2 DEF Healthy, Behind, Woken
<1>5. conn'[k] = "open" /\ \A l \in Connections : l # k => conn'[l] = conn[l]
  BY <1>1, <1>3 DEF Kept, BotTypes
<1>6. x \in Callbacks /\ x.run = "bot" /\ x.ok
  BY <1>3 DEF Callback, Callbacks, Runnable
<1>7. q[Len(t) + 1] = x /\ Len(t) \in Nat
  BY <1>2, <1>6, QueueGrows
<1> HIDE DEF t, x
<1>8. \A l \in Connections : Reads(l, reader) => Before(q, Len(t) + 1, "reader", l)
  BY <1>2, <1>4, <1>6, BeforeEnd
<1>9. Woken(q, conn, reader, current)
  BY <1>2, <1>6, WokenGrows
<1> HIDE DEF q
<1>10. \A l \in Connections : Reads(l, reader) => conn'[l] = "lost"
  BY <1>3, <1>4, <1>5
<1>11. Turn(q, Len(t) + 1, conn', reader, at, current, opened)
  <2>1. at \notin Busy
    BY <1>1 DEF RunsFirst
  <2> QED
    BY <1>2, <1>5, <1>6, <1>7, <1>8, <1>10, <2>1 DEF Turn, Unheard
<1>12. Turnwise(t, conn', reader, at, current, opened)
  BY <1>2, NoTurnIsFine
<1>13. Turnwise(q, conn', reader, at, current, opened)
  BY <1>2, <1>6, <1>11, <1>12, TurnwiseGrows DEF q
<1>14. Woken(q, conn', reader, current)
  BY <1>5, <1>9, <1>10 DEF Woken
<1>15. Behind(conn', reader, at, current)
  BY <1>2, <1>10 DEF Behind, Healthy
<1> QED
  BY <1>1, <1>13, <1>14, <1>15 DEF Healthy

LEMMA AnsweredHealthy ==
    ASSUME Kept, Healthy, Answered
    PROVE  Healthy'
<1> DEFINE t == Tail(ready)
           x == Callback("bot", Head(ready).k, Head(ready).ok)
           q == Append(t, x)
<1>1. /\ RunsFirst("answer") /\ ready' = q
      /\ UNCHANGED <<at, current, opened, conn, reader>>
  BY DEF Answered
<1>2. NoTurn(t) /\ t \in Seq(Callbacks) /\ Woken(t, conn, reader, current) /\ at = "upgrade"
  <2>1. "answer" \in Turns
    BY DEF Turns
  <2> QED
    BY <1>1, <2>1, FirstTurn DEF Turn
<1>3. x \in Callbacks /\ x.run = "bot"
  <2>1. Head(ready).k \in Nat /\ Head(ready).ok \in BOOLEAN
    BY <1>1, FirstRuns
  <2> QED
    BY <2>1 DEF Callback, Callbacks, Runnable
<1>4. q[Len(t) + 1] = x
  BY <1>2, <1>3, QueueGrows
<1> HIDE DEF t, x
<1>5. Turn(q, Len(t) + 1, conn, reader, at, current, opened)
  BY <1>2, <1>3, <1>4 DEF Turn, Busy
<1>6. Turnwise(q, conn, reader, at, current, opened)
  BY <1>2, <1>3, <1>5, NoTurnIsFine, TurnwiseGrows
<1>7. Woken(q, conn, reader, current)
  BY <1>2, <1>3, WokenGrows
<1> QED
  BY <1>1, <1>6, <1>7 DEF Healthy

(* What runs, runs while the coroutine waits.                              *)
LEMMA OtherRuns ==
    ASSUME Kept, Healthy, NEW name, name \notin Turns, RunsFirst(name)
    PROVE  /\ ready \in Seq(Callbacks) /\ ready # << >> /\ Head(ready).run = name
           /\ Tail(ready) \in Seq(Callbacks) /\ at \notin Busy
           /\ \A n, k : In(ready, n, k) /\ ~(n = name /\ Head(ready).k = k) => In(Tail(ready), n, k)
           /\ ~Scheduled("bot") /\ at # "opening" /\ (at = "upgrade" => name \in {"eof", "reset"}
                                                         \/ conn[current] # "open")
                 => NoTurn(Tail(ready))
<1>1. ready # << >> /\ Head(ready).run = name /\ ready \in Seq(Callbacks) /\ at \notin Busy
  BY DEF RunsFirst, Kept, Orderly
<1>2. \A n, k : In(ready, n, k) /\ ~(n = name /\ Head(ready).k = k) => In(Tail(ready), n, k)
  BY <1>1, InMoves
<1>3. ASSUME ~Scheduled("bot"), at # "opening",
             at = "upgrade" => name \in {"eof", "reset"} \/ conn[current] # "open"
      PROVE  NoTurn(Tail(ready))
  <2> DEFINE t == Tail(ready)
  <2>1. /\ Len(t) \in Nat /\ Len(ready) = Len(t) + 1 /\ Head(ready) = ready[1]
        /\ \A i \in 1..Len(t) : t[i] = ready[i + 1]
    BY <1>1, QueueMoves
  <2> HIDE DEF t
  <2>2. ASSUME NEW i \in 1..Len(t), ready[i + 1].run \in Turns
        PROVE  FALSE
    <3>1. i + 1 \in 1..Len(ready) /\ 1 \in 1..((i + 1) - 1)
      BY <2>1
    <3>2. Turn(ready, i + 1, conn, reader, at, current, opened)
      BY <2>2, <3>1 DEF Healthy, Turnwise
    <3>3. ready[i + 1].run # "bot"
      BY <1>3, <3>1 DEF Scheduled
    <3>4. ready[i + 1].run = "answer"
      BY <1>3, <2>2, <3>2, <3>3 DEF Turn, Turns
    <3>5. /\ at = "upgrade" /\ conn[current] = "open"
          /\ \A j \in 1..((i + 1) - 1) : ready[j].run \notin {"eof", "reset"}
      BY <3>2, <3>4 DEF Turn
    <3> QED
      BY <1>1, <1>3, <2>1, <3>1, <3>5
  <2> QED
    BY <2>1, <2>2 DEF NoTurn, t
<1>4. Tail(ready) \in Seq(Callbacks)
  BY <1>1, QueueMoves
<1> QED
  BY <1>1, <1>2, <1>3, <1>4

(* The end of the server's stream: reader and handshake are woken.         *)
LEMMA EofHealthy ==
    ASSUME Kept, Healthy, Eof
    PROVE  Healthy'
<1> DEFINE t == Tail(ready)
           k == Head(ready).k
           b == TheBot(k, {"upgrade"}, FALSE)
           q == t \o Readers(k)
<1>1. /\ RunsFirst("eof")
      /\ UNCHANGED <<at, current, opened, reader>>
      /\ conn' = IF conn[k] = "open" THEN [conn EXCEPT ![k] = "eof"] ELSE conn
      /\ ready' = t \o (IF conn[k] = "open" THEN Readers(k) \o b ELSE << >>)
  BY DEF Eof
<1>2. k \in Connections /\ k \in Nat
  BY <1>1, FirstRuns DEF Says
<1>3. /\ ready \in Seq(Callbacks) /\ ready # << >> /\ Head(ready).run = "eof"
      /\ t \in Seq(Callbacks) /\ at \notin Busy
      /\ \A n, l : In(ready, n, l) /\ n # "eof" => In(t, n, l)
      /\ ~Scheduled("bot") /\ at = "upgrade" => NoTurn(t)
  <2>1. "eof" \notin Turns
    BY DEF Turns
  <2>2. at = "upgrade" => at # "opening"
    OBVIOUS
  <2> QED
    BY <1>1, <2>1, <2>2, OtherRuns
<1>4. \A l \in Connections : \/ conn'[l] = conn[l]
                             \/ l = k /\ conn[l] = "open" /\ conn'[l] = "eof"
  BY <1>1, <1>2 DEF Kept, BotTypes
<1>5. at = "opening" => opened \in Connections
  BY DEF Kept, PlaceInv, BotTypes, Connections
<1>6. at = "upgrade" => current \in Connections
  BY DEF Kept, PlaceInv, BotTypes, Connections
<1>7. Turnwise(t, conn', reader, at, current, opened)
  <2>1. Turnwise(ready, conn, reader, at, current, opened)
    BY DEF Healthy
  <2>2. \A l \in Connections : Reads(l, reader) =>
              /\ Reads(l, reader)
              /\ at = "opening" /\ conn'[l] = "closing" =>
                    conn[l] = "closing" /\ ~(Head(ready).run = "lost" /\ Head(ready).k = l)
              /\ at = "opening" /\ conn[l] = "lost" =>
                    conn'[l] = "lost" /\ ~(Head(ready).run = "reader" /\ Head(ready).k = l)
    BY <1>3, <1>4
  <2>3. at = "opening" /\ conn[opened] \notin Unheard => conn'[opened] \notin Unheard
    BY <1>4, <1>5 DEF Unheard
  <2> QED
    BY <1>3, <2>1, <2>2, <2>3, TurnwiseMoves
<1>8. Behind(conn', reader, at, current)
  BY <1>4, <1>6 DEF Healthy, Behind, Unheard
<1>9. CASE conn[k] # "open"
  <2>1. ready' = t /\ conn' = conn
    BY <1>1, <1>3, <1>9, ConcatEmptySeq
  <2>2. Woken(t, conn, reader, current)
    BY <1>3 DEF Healthy, Woken
  <2> QED
    BY <1>1, <1>7, <1>8, <2>1, <2>2 DEF Healthy
<1>10. CASE conn[k] = "open"
  <2> HIDE DEF t, k
  <2>1. /\ q \in Seq(Callbacks) /\ \A n, l : In(t, n, l) => In(q, n, l)
        /\ reader[k] = "waiting" => In(q, "reader", k)
        /\ NoTurn(t) => NoTurn(q)
        /\ Turnwise(q, conn', reader, at, current, opened)
    BY <1>2, <1>3, <1>7, WokenReader
  <2>2. ready' = q \o b
    <3> DEFINE r == Readers(k)
    <3>1. t \in Seq(Callbacks) /\ r \in Seq(Callbacks) /\ b \in Seq(Callbacks)
      BY <1>2, <1>3, SchedulesCallbacks
    <3>2. ready' = t \o (r \o b)
      BY <1>1, <1>10
    <3> HIDE DEF b, r
    <3>3. (t \o r) \o b = t \o (r \o b)
      BY <3>1, ConcatAssociative
    <3> QED
      BY <3>2, <3>3 DEF r
  <2> HIDE DEF q
  <2>3. /\ \A n, l : In(q, n, l) => In(q \o b, n, l)
        /\ Turnwise(q \o b, conn', reader, at, current, opened)
    <3>1. "opening" \notin {"upgrade"}
      OBVIOUS
    <3>2. current = k /\ at \in {"upgrade"} /\ ~Scheduled("bot") => NoTurn(q)
      BY <1>3, <2>1
    <3> QED
      BY <1>2, <1>3, <2>1, <3>1, <3>2, WokenBot
  <2> HIDE DEF b
  <2>4. Woken(q \o b, conn', reader, current)
    <3>1. ASSUME NEW l \in Connections, conn'[l] = "closing"
          PROVE  In(q \o b, "lost", l)
      BY <1>3, <1>4, <2>1, <2>3, <3>1 DEF Healthy, Woken
    <3>2. ASSUME NEW l \in Connections, Reads(l, reader)
          PROVE  /\ l = current /\ conn'[l] \notin Unheard
                 /\ reader[l] = "scheduled" \/ conn'[l] \in {"eof", "lost"} => In(q \o b, "reader", l)
      <4>1. /\ l = current /\ conn[l] \notin Unheard
            /\ reader[l] = "scheduled" \/ conn[l] \in {"eof", "lost"} => In(q \o b, "reader", l)
        BY <1>3, <2>1, <2>3, <3>2 DEF Healthy, Woken
      <4>2. l = k => In(q \o b, "reader", l)
        BY <2>1, <2>3, <3>2, <4>1 DEF Reads
      <4> QED
        BY <1>4, <4>1, <4>2 DEF Unheard
    <3> QED
      BY <3>1, <3>2 DEF Woken
  <2> QED
    BY <1>1, <1>8, <2>2, <2>3, <2>4 DEF Healthy
<1> QED
  BY <1>9, <1>10

LEMMA ResetHealthy ==
    ASSUME Kept, Healthy, Reset
    PROVE  Healthy'
<1> DEFINE t == Tail(ready)
           k == Head(ready).k
           d == Stopped(k)
           q == t \o LossOf(k)
<1>1. /\ RunsFirst("reset") /\ conn' = d /\ ready' = q
      /\ UNCHANGED <<at, current, opened, reader>>
  BY DEF Reset
<1>2. k \in Connections /\ k \in Nat
  BY <1>1, FirstRuns DEF Says
<1>3. /\ ready \in Seq(Callbacks) /\ ready # << >> /\ Head(ready).run = "reset"
      /\ t \in Seq(Callbacks) /\ \A n, l : In(ready, n, l) /\ n # "reset" => In(t, n, l)
  <2>1. "reset" \notin Turns
    BY DEF Turns
  <2> QED
    BY <1>1, <2>1, OtherRuns
<1>4. BotTypes /\ (at = "opening" => opened \in Connections)
      /\ (at = "upgrade" => current \in Connections)
  BY DEF Kept, PlaceInv, BotTypes, Connections
<1> HIDE DEF t, k
<1>5. \A l \in Connections : \/ d[l] = conn[l]
                             \/ conn[l] \in {"open", "eof", "flushing"} /\ d[l] = "closing"
  BY <1>2, <1>4, StopIs
<1>6. Woken(q, d, reader, current)
  <2>1. Woken(t, conn, reader, current)
    BY <1>3 DEF Healthy, Woken
  <2> QED
    BY <1>2, <1>3, <1>4, <2>1, LossWoken
<1>7. Behind(d, reader, at, current)
  BY <1>2, <1>4, LossBehind DEF Healthy
<1> HIDE DEF d
<1>8. Turnwise(t, d, reader, at, current, opened)
  <2>1. Turnwise(ready, conn, reader, at, current, opened)
    BY DEF Healthy
  <2>2. \A l \in Connections : Reads(l, reader) =>
              /\ Reads(l, reader)
              /\ at = "opening" /\ d[l] = "closing" =>
                    conn[l] = "closing" /\ ~(Head(ready).run = "lost" /\ Head(ready).k = l)
              /\ at = "opening" /\ conn[l] = "lost" =>
                    d[l] = "lost" /\ ~(Head(ready).run = "reader" /\ Head(ready).k = l)
    BY <1>3, <1>5 DEF Healthy, Behind
  <2>3. at = "opening" /\ conn[opened] \notin Unheard => d[opened] \notin Unheard
    BY <1>4, <1>5 DEF Unheard
  <2> QED
    BY <1>3, <2>1, <2>2, <2>3, TurnwiseMoves DEF t
<1>9. Turnwise(q, d, reader, at, current, opened)
  BY <1>2, <1>3, <1>4, <1>8, LossIsNoTurn
<1> QED
  BY <1>1, <1>6, <1>7, <1>9 DEF Healthy

(* connection_lost, the one callback that an attempt of connect must let   *)
(* run before it.                                                          *)
LEMMA LostHealthy ==
    ASSUME Kept, Healthy, ConnectionLost
    PROVE  Healthy'
<1> DEFINE t == Tail(ready)
           k == Head(ready).k
           b == TheBot(k, {"upgrade", "drain", "closing"}, FALSE)
           q == t \o Readers(k)
<1>1. /\ RunsFirst("lost") /\ conn' = [conn EXCEPT ![k] = "lost"] /\ ready' = q \o b
      /\ UNCHANGED <<at, current, opened, reader>>
  BY DEF ConnectionLost
<1>2. k \in Connections /\ k \in Nat /\ conn[k] = "closing"
  BY <1>1, FirstRuns DEF Says
<1>3. /\ ready \in Seq(Callbacks) /\ ready # << >> /\ Head(ready).run = "lost"
      /\ t \in Seq(Callbacks) /\ at \notin Busy
      /\ \A n, l : In(ready, n, l) /\ ~(n = "lost" /\ l = k) => In(t, n, l)
      /\ ~Scheduled("bot") /\ at # "opening" /\ current = k => NoTurn(t)
  <2>1. "lost" \notin Turns
    BY DEF Turns
  <2>2. current = k => conn[current] # "open"
    BY <1>2
  <2> QED
    BY <1>1, <2>1, <2>2, OtherRuns
<1>4. conn'[k] = "lost" /\ \A l \in Connections : l # k => conn'[l] = conn[l]
  BY <1>1, <1>2 DEF Kept, BotTypes
<1>5. /\ at = "opening" => opened \in Connections
      /\ at = "upgrade" => current \in Connections
  BY DEF Kept, PlaceInv, BotTypes, Connections
<1>6. Turnwise(t, conn', reader, at, current, opened)
  <2>1. Turnwise(ready, conn, reader, at, current, opened)
    BY DEF Healthy
  <2>2. \A l \in Connections : Reads(l, reader) =>
              /\ Reads(l, reader)
              /\ at = "opening" /\ conn'[l] = "closing" =>
                    conn[l] = "closing" /\ ~(Head(ready).run = "lost" /\ Head(ready).k = l)
              /\ at = "opening" /\ conn[l] = "lost" =>
                    conn'[l] = "lost" /\ ~(Head(ready).run = "reader" /\ Head(ready).k = l)
    BY <1>3, <1>4
  <2>3. at = "opening" /\ conn[opened] \notin Unheard => conn'[opened] \notin Unheard
    BY <1>4, <1>5 DEF Unheard
  <2>4. at = "upgrade" /\ conn[current] = "open" => conn'[current] = "open"
    BY <1>2, <1>4, <1>5
  <2> QED
    BY <1>3, <2>1, <2>2, <2>3, <2>4, TurnwiseMoves
<1>7. Behind(conn', reader, at, current)
  BY <1>4, <1>5 DEF Healthy, Behind, Unheard
<1> HIDE DEF t, k
<1>8. /\ q \in Seq(Callbacks) /\ \A n, l : In(t, n, l) => In(q, n, l)
      /\ reader[k] = "waiting" => In(q, "reader", k)
      /\ NoTurn(t) => NoTurn(q)
      /\ Turnwise(q, conn', reader, at, current, opened)
  BY <1>2, <1>3, <1>6, WokenReader
<1> HIDE DEF q
<1>9. /\ \A n, l : In(q, n, l) => In(q \o b, n, l)
      /\ Turnwise(q \o b, conn', reader, at, current, opened)
  <2>1. "opening" \notin {"upgrade", "drain", "closing"}
    OBVIOUS
  <2>2. current = k /\ at \in {"upgrade", "drain", "closing"} /\ ~Scheduled("bot") => NoTurn(q)
    BY <1>3, <1>8, <2>1
  <2> QED
    BY <1>2, <1>3, <1>8, <2>1, <2>2, WokenBot
<1> HIDE DEF b
<1>10. Woken(q \o b, conn', reader, current)
  <2>1. ASSUME NEW l \in Connections, conn'[l] = "closing"
        PROVE  In(q \o b, "lost", l)
    <3>1. l # k /\ conn[l] = "closing"
      BY <1>4, <2>1
    <3> QED
      BY <1>3, <1>8, <1>9, <3>1 DEF Healthy, Woken
  <2>2. ASSUME NEW l \in Connections, Reads(l, reader)
        PROVE  /\ l = current /\ conn'[l] \notin Unheard
               /\ reader[l] = "scheduled" \/ conn'[l] \in {"eof", "lost"} => In(q \o b, "reader", l)
    <3>1. /\ l = current /\ conn[l] \notin Unheard
          /\ reader[l] = "scheduled" \/ conn[l] \in {"eof", "lost"} => In(q \o b, "reader", l)
      BY <1>3, <1>8, <1>9, <2>2 DEF Healthy, Woken
    <3>2. l = k => In(q \o b, "reader", l)
      BY <1>8, <1>9, <2>2, <3>1 DEF Reads
    <3> QED
      BY <1>4, <3>1, <3>2 DEF Unheard
  <2> QED
    BY <2>1, <2>2 DEF Woken
<1> QED
  BY <1>1, <1>7, <1>9, <1>10 DEF Healthy

(* The end of a connection that had data left, which nothing reads.        *)
LEMMA FlushedHealthy ==
    ASSUME Kept, Healthy, Flushed
    PROVE  Healthy'
<1> DEFINE t == Tail(ready)
           k == Head(ready).k
           w == TheBot(k, {"drain"}, TRUE)
           b == TheBot(k, {"upgrade", "closing"}, FALSE)
           q == t \o w
           p == q \o Readers(k)
<1>1. /\ RunsFirst("flushed")
      /\ conn' = IF conn[k] = "flushing" THEN [conn EXCEPT ![k] = "lost"] ELSE conn
      /\ ready' = IF conn[k] = "flushing" THEN p \o b ELSE t
      /\ UNCHANGED <<at, current, opened, reader>>
  BY DEF Flushed
<1>2. k \in Connections /\ k \in Nat
  BY <1>1, FirstRuns DEF Says
<1>3. /\ ready \in Seq(Callbacks) /\ ready # << >> /\ Head(ready).run = "flushed"
      /\ t \in Seq(Callbacks) /\ at \notin Busy
      /\ \A n, l : In(ready, n, l) /\ n # "flushed" => In(t, n, l)
      /\ ~Scheduled("bot") /\ at # "opening" /\ (at = "upgrade" => conn[current] # "open") => NoTurn(t)
  <2>1. "flushed" \notin Turns
    BY DEF Turns
  <2> QED
    BY <1>1, <2>1, OtherRuns
<1>4. \A l \in Connections : \/ conn'[l] = conn[l]
                             \/ l = k /\ conn[l] = "flushing" /\ conn'[l] = "lost"
  BY <1>1, <1>2 DEF Kept, BotTypes
<1>5. /\ at = "opening" => opened \in Connections
      /\ at = "upgrade" => current \in Connections
  BY DEF Kept, PlaceInv, BotTypes, Connections
<1>6. Turnwise(t, conn', reader, at, current, opened)
  <2>1. Turnwise(ready, conn, reader, at, current, opened)
    BY DEF Healthy
  <2>2. \A l \in Connections : Reads(l, reader) =>
              /\ Reads(l, reader)
              /\ at = "opening" /\ conn'[l] = "closing" =>
                    conn[l] = "closing" /\ ~(Head(ready).run = "lost" /\ Head(ready).k = l)
              /\ at = "opening" /\ conn[l] = "lost" =>
                    conn'[l] = "lost" /\ ~(Head(ready).run = "reader" /\ Head(ready).k = l)
    BY <1>3, <1>4
  <2>3. at = "opening" /\ conn[opened] \notin Unheard => conn'[opened] \notin Unheard
    BY <1>4, <1>5 DEF Unheard
  <2>4. at = "upgrade" /\ conn[current] = "open" => conn'[current] = "open"
    BY <1>4, <1>5
  <2> QED
    BY <1>3, <2>1, <2>2, <2>3, <2>4, TurnwiseMoves
<1>7. Behind(conn', reader, at, current)
  BY <1>4, <1>5 DEF Healthy, Behind, Unheard
<1>8. Woken(t, conn', reader, current)
  <2>1. Woken(t, conn, reader, current)
    BY <1>3 DEF Healthy, Woken
  <2>2. \A l \in Connections : Reads(l, reader) => conn'[l] = conn[l]
    BY <1>4, <2>1 DEF Woken, Unheard
  <2> QED
    BY <1>4, <2>1, <2>2 DEF Woken
<1>9. CASE conn[k] # "flushing"
  <2>1. ready' = t
    BY <1>1, <1>9
  <2> QED
    BY <1>1, <1>6, <1>7, <1>8, <2>1 DEF Healthy
<1>10. CASE conn[k] = "flushing"
  <2> HIDE DEF t, k
  <2>1. current = k /\ at # "opening" /\ ~Scheduled("bot") => NoTurn(t)
    BY <1>3, <1>10
  <2>2. /\ \A n, l : In(t, n, l) => In(q, n, l)
        /\ Turnwise(q, conn', reader, at, current, opened)
    <3>1. "opening" \notin {"drain"} /\ TRUE \in BOOLEAN
      OBVIOUS
    <3>2. current = k /\ at \in {"drain"} /\ ~Scheduled("bot") => NoTurn(t)
      BY <2>1
    <3> QED
      BY <1>2, <1>3, <1>6, <3>1, <3>2, WokenBot
  <2>3. q \in Seq(Callbacks)
    BY <1>2, <1>3, SchedulesCallbacks, ConcatProperties
  <2>4. current = k /\ at \in {"upgrade", "closing"} /\ ~Scheduled("bot") => NoTurn(q)
    <3>1. at \in {"upgrade", "closing"} => q = t
      <4>1. t \o << >> = t
        BY <1>3, ConcatEmptySeq
      <4> QED
        BY <4>1 DEF TheBot
    <3> QED
      BY <2>1, <3>1
  <2> HIDE DEF w, q
  <2>5. /\ p \in Seq(Callbacks) /\ \A n, l : In(q, n, l) => In(p, n, l)
        /\ NoTurn(q) => NoTurn(p)
        /\ Turnwise(p, conn', reader, at, current, opened)
    BY <1>2, <2>2, <2>3, WokenReader
  <2> HIDE DEF p
  <2>6. /\ \A n, l : In(p, n, l) => In(p \o b, n, l)
        /\ Turnwise(p \o b, conn', reader, at, current, opened)
    <3>1. "opening" \notin {"upgrade", "closing"} /\ FALSE \in BOOLEAN
      OBVIOUS
    <3>2. current = k /\ at \in {"upgrade", "closing"} /\ ~Scheduled("bot") => NoTurn(p)
      BY <2>4, <2>5
    <3> QED
      BY <1>2, <1>3, <2>5, <3>1, <3>2, WokenBot
  <2> HIDE DEF b
  <2>7. \A n, l : In(t, n, l) => In(p \o b, n, l)
    BY <2>2, <2>5, <2>6
  <2>8. Woken(p \o b, conn', reader, current)
    BY <1>8, <2>7 DEF Woken
  <2>9. ready' = p \o b
    BY <1>1, <1>10
  <2> QED
    BY <1>1, <1>7, <2>6, <2>8, <2>9 DEF Healthy
<1> QED
  BY <1>9, <1>10

(* read_loop goes on to wait, or ends with its connection, which is the    *)
(* bot's own.                                                              *)
LEMMA ReadLoopHealthy ==
    ASSUME Kept, Healthy, running, ReadLoop
    PROVE  Healthy'
<1> DEFINE t == Tail(ready)
           k == Head(ready).k
<1>1. /\ RunsFirst("reader")
      /\ UNCHANGED <<at, current, opened>>
      /\ \/ /\ conn[k] \notin {"eof", "lost"}
            /\ reader' = [reader EXCEPT ![k] = "waiting"] /\ ready' = t /\ UNCHANGED conn
         \/ /\ conn[k] \in {"eof", "lost"}
            /\ reader' = [reader EXCEPT ![k] = "done"] /\ Close(current, t)
  BY DEF ReadLoop
<1>2. k \in Connections /\ k \in Nat /\ Reads(k, reader)
  BY <1>1, FirstRuns DEF Says, Reads
<1>3. /\ ready \in Seq(Callbacks) /\ ready # << >> /\ Head(ready).run = "reader"
      /\ t \in Seq(Callbacks) /\ at \notin Busy
      /\ \A n, l : In(ready, n, l) /\ n # "reader" => In(t, n, l)
  <2>1. "reader" \notin Turns
    BY DEF Turns
  <2> QED
    BY <1>1, <2>1, OtherRuns
<1>4. k = current /\ at \notin {"stagger", "upgrade", "closing"}
      /\ \A l \in Connections : Reads(l, reader) => l = k
  BY <1>2 DEF Healthy, Woken, Behind
<1>5. BotTypes /\ (at = "opening" => opened \in Connections)
  BY DEF Kept, PlaceInv, BotTypes, Connections
<1>6. reader'[k] \in {"waiting", "done"} /\ \A l \in Connections : l # k => reader'[l] = reader[l]
  BY <1>1, <1>2, <1>5 DEF BotTypes
<1>7. \A l \in Connections : Reads(l, reader') => l = k
  BY <1>4, <1>6 DEF Reads
<1>8. Turnwise(ready, conn, reader, at, current, opened)
  BY DEF Healthy
<1> HIDE DEF t, k
<1>9. CASE /\ conn[k] \notin {"eof", "lost"}
           /\ reader' = [reader EXCEPT ![k] = "waiting"] /\ ready' = t /\ UNCHANGED conn
  <2>1. reader'[k] = "waiting"
    BY <1>2, <1>5, <1>9 DEF BotTypes
  <2>2. Turnwise(t, conn, reader', at, current, opened)
    <3>1. \A l \in Connections : Reads(l, reader') =>
              /\ Reads(l, reader)
              /\ at = "opening" /\ conn[l] = "closing" =>
                    conn[l] = "closing" /\ ~(Head(ready).run = "lost" /\ Head(ready).k = l)
              /\ at = "opening" /\ conn[l] = "lost" =>
                    conn[l] = "lost" /\ ~(Head(ready).run = "reader" /\ Head(ready).k = l)
      BY <1>2, <1>3, <1>7, <1>9
    <3> QED
      BY <1>3, <1>8, <3>1, TurnwiseMoves DEF t
  <2>3. Woken(t, conn, reader', current)
    <3>1. conn[k] \notin Unheard
      BY <1>2 DEF Healthy, Woken
    <3>2. \A l \in Connections : conn[l] = "closing" => In(t, "lost", l)
      BY <1>3 DEF Healthy, Woken
    <3> QED
      BY <1>4, <1>7, <1>9, <2>1, <3>1, <3>2 DEF Woken
  <2>4. Behind(conn, reader', at, current)
    BY <1>2, <1>4, <1>7 DEF Healthy, Behind
  <2> QED
    BY <1>1, <1>9, <2>2, <2>3, <2>4 DEF Healthy
<1>10. CASE /\ conn[k] \in {"eof", "lost"}
            /\ reader' = [reader EXCEPT ![k] = "done"] /\ Close(current, t)
  <2>1. \A l \in Connections : ~Reads(l, reader')
    <3>1. reader'[k] = "done"
      BY <1>2, <1>5, <1>10 DEF BotTypes
    <3> QED
      BY <1>7, <3>1 DEF Reads
  <2>2. current \in Nat
    BY <1>2, <1>4
  <2>3. Woken(t, conn, reader', current)
    BY <1>3, <2>1 DEF Healthy, Woken
  <2>4. /\ Woken(ready', conn', reader', current)
        /\ \A c, s, a, v, o : Turnwise(t, c, s, a, v, o) => Turnwise(ready', c, s, a, v, o)
        /\ \A l \in Connections : conn[l] # "none" => conn'[l] # "none"
    BY <1>3, <1>5, <1>10, <2>1, <2>2, <2>3, CloseWoken
  <2>5. Turnwise(t, conn', reader', at, current, opened)
    <3>1. at = "opening" => conn[current] \notin {"open", "eof"}
      BY <1>2, <1>4 DEF Healthy, Behind
    <3>2. at = "opening" => conn' = conn
      BY <1>10, <3>1 DEF Close, Alive
    <3> QED
      BY <1>3, <1>4, <1>8, <2>1, <3>2, TurnwiseMoves DEF t
  <2>6. Behind(conn', reader', at, current)
    BY <1>4, <2>1 DEF Behind
  <2> QED
    BY <1>1, <2>4, <2>5, <2>6 DEF Healthy
<1> QED
  BY <1>1, <1>9, <1>10

(* The bot's coroutine runs.  What it goes on to await, or to do, is all   *)
(* that changes in most of its steps.                                      *)
LEMMA BotTurn ==
    ASSUME Kept, Healthy, RunsFirst("bot")
    PROVE  /\ NoTurn(Tail(ready)) /\ Tail(ready) \in Seq(Callbacks)
           /\ Woken(Tail(ready), conn, reader, current)
           /\ at = "opening" /\ Head(ready).ok =>
                 conn[opened] \notin Unheard /\ \A k \in Connections : ~Reads(k, reader)
<1>1. "bot" \in Turns
  BY DEF Turns
<1> QED
  BY <1>1, FirstTurn DEF Turn

LEMMA AwaitsHealthy ==
    ASSUME Kept, Healthy, UNCHANGED <<current, conn, reader>>,
           \/ RunsFirst("bot") /\ ready' = Tail(ready)
           \/ at \in Busy /\ ready' = ready,
           Behind(conn, reader, at', current)
    PROVE  Healthy'
<1>1. NoTurn(ready') /\ Woken(ready', conn, reader, current)
  BY BotTurn, BusyHasTurn DEF Healthy
<1>2. Turnwise(ready', conn, reader, at', current, opened')
  BY <1>1, NoTurnIsFine
<1> QED
  BY <1>1, <1>2 DEF Healthy

(* connect tries again when what is read has ended, or has been closed.    *)
LEMMA AttemptHealthy ==
    ASSUME Kept, Healthy, running, Attempt, UNCHANGED <<current, conn, reader>>,
           \/ at \in {"stagger", "backoff"} /\ RunsFirst("bot") /\ ready' = Tail(ready)
           \/ at = "check" /\ NoWriter /\ ready' = ready
    PROVE  Healthy'
<1>1. at' = "opening"
  BY DEF Attempt
<1>2. ASSUME NEW k \in Connections, Reads(k, reader)
      PROVE  conn[k] \in {"closing", "lost"}
  <2>1. k = current /\ conn[k] \notin Unheard /\ at # "stagger"
        /\ (at = "backoff" => conn[k] \in {"closing", "lost"})
    BY <1>2 DEF Healthy, Woken, Behind
  <2>2. conn[k] \in States
    BY DEF Kept, BotTypes
  <2>3. NoWriter => conn[k] \notin {"open", "eof"}
    BY <2>1 DEF NoWriter, Alive
  <2> QED
    BY <2>1, <2>2, <2>3 DEF States, Unheard
<1>3. Behind(conn, reader, at', current)
  BY <1>1, <1>2 DEF Behind
<1> QED
  BY <1>3, AwaitsHealthy DEF Busy

LEMMA OpenReturnsHealthy ==
    ASSUME Kept, Healthy, OpenReturns
    PROVE  Healthy'
<1>1. RunsFirst("bot") /\ at = "opening" /\ ready' = Tail(ready) /\ UNCHANGED <<opened, conn, reader>>
  BY DEF OpenReturns, Resumes
<1>2. CASE Head(ready).ok /\ current' = opened /\ at' = "upgrade"
  <2>1. /\ NoTurn(Tail(ready)) /\ Woken(Tail(ready), conn, reader, current)
        /\ conn[opened] \notin Unheard /\ \A k \in Connections : ~Reads(k, reader)
    BY <1>1, <1>2, BotTurn
  <2>2. Turnwise(Tail(ready), conn, reader, at', current', opened)
    BY <2>1, NoTurnIsFine
  <2>3. Woken(Tail(ready), conn, reader, current') /\ Behind(conn, reader, at', current')
    BY <1>2, <2>1 DEF Woken, Behind
  <2> QED
    BY <1>1, <2>2, <2>3 DEF Healthy
<1>3. CASE GiveUp /\ UNCHANGED current
  <2>1. at' = "backoff"
    BY <1>3 DEF GiveUp
  <2>2. Behind(conn, reader, at', current)
    BY <1>1, <2>1 DEF Healthy, Behind
  <2> QED
    BY <1>1, <1>3, <2>2, AwaitsHealthy
<1> QED
  BY <1>2, <1>3 DEF OpenReturns

(* A connection gets its reader when no other is read any more.            *)
LEMMA UpgradedHealthy ==
    ASSUME Kept, Healthy, Upgraded
    PROVE  Healthy'
<1> DEFINE t == Tail(ready)
           x == Callback("reader", current, TRUE)
           q == Append(t, x)
<1>1. /\ RunsFirst("bot") /\ at = "upgrade" /\ ready' = q
      /\ reader' = [reader EXCEPT ![current] = "scheduled"]
      /\ at' \in {"write", "next"}
      /\ UNCHANGED <<current, opened, conn>>
  BY DEF Upgraded, Resumes
<1>2. NoTurn(t) /\ t \in Seq(Callbacks) /\ Woken(t, conn, reader, current)
  BY <1>1, BotTurn
<1>3. x \in Callbacks /\ x.run = "reader" /\ x.k = current
  <2>1. current \in Nat
    BY DEF Kept, BotTypes
  <2> QED
    BY <2>1 DEF Callback, Callbacks, Runnable
<1>4. conn[current] \notin Unheard /\ \A k \in Connections : ~Reads(k, reader)
  BY <1>1 DEF Healthy, Behind
<1>5. \A k \in Connections : Reads(k, reader') => k = current
  BY <1>1, <1>4 DEF Reads, Kept, BotTypes
<1> HIDE DEF t, x
<1>6. In(q, "reader", current) /\ Woken(q, conn, reader, current)
  BY <1>2, <1>3, InGrows, WokenGrows
<1>7. NoTurn(q)
  <2>1. x.run \notin Turns
    BY <1>3 DEF Turns
  <2> QED
    BY <1>2, <1>3, <2>1, NoTurnGrows
<1> HIDE DEF q
<1>8. Turnwise(q, conn, reader', at', current, opened)
  BY <1>7, NoTurnIsFine
<1>9. Woken(q, conn, reader', current)
  BY <1>4, <1>5, <1>6 DEF Woken
<1>10. Behind(conn, reader', at', current)
  BY <1>1 DEF Behind
<1> QED
  BY <1>1, <1>8, <1>9, <1>10 DEF Healthy

LEMMA UpgradeRefusedHealthy ==
    ASSUME Kept, Healthy, UpgradeRefused
    PROVE  Healthy'
<1> DEFINE t == Tail(ready)
<1>1. /\ RunsFirst("bot") /\ at = "upgrade" /\ at' = "closing" /\ Close(current, t)
      /\ UNCHANGED <<current, opened, reader>>
  BY DEF UpgradeRefused, Resumes
<1>2. \A k \in Connections : ~Reads(k, reader)
  BY <1>1 DEF Healthy, Behind
<1>3. BotTypes /\ current \in Nat
  BY DEF Kept, BotTypes
<1>4. NoTurn(t) /\ t \in Seq(Callbacks) /\ Woken(t, conn, reader, current)
  BY <1>1, BotTurn
<1> HIDE DEF t
<1>5. NoTurn(ready') /\ Woken(ready', conn', reader, current)
  BY <1>1, <1>2, <1>3, <1>4, CloseWoken
<1>6. Turnwise(ready', conn', reader, at', current, opened)
  BY <1>5, NoTurnIsFine
<1>7. Behind(conn', reader, at', current)
  BY <1>1, <1>2 DEF Behind
<1> QED
  BY <1>1, <1>5, <1>6, <1>7 DEF Healthy

(* The other steps of the coroutine leave no connection to be made.        *)
LEMMA CoroutineHealthy ==
    ASSUME Kept, Healthy, running, Coroutine
    PROVE  Healthy'
<1>1. CASE ConnectLoop
  BY <1>1, AttemptHealthy DEF ConnectLoop, Resumes
<1>2. CASE CheckWriter /\ NoWriter
  BY <1>2, AttemptHealthy DEF CheckWriter
<1>3. CASE UpgradeOverrun \/ UpgradeBroken \/ ClosedRefused
  <2>1. /\ RunsFirst("bot") /\ at \in {"upgrade", "closing"} /\ at' \in {"failed", "backoff"}
        /\ ready' = Tail(ready) /\ UNCHANGED <<current, conn, reader>>
    BY <1>3 DEF UpgradeOverrun, UpgradeBroken, ClosedRefused, Resumes, GiveUp
  <2>2. Behind(conn, reader, at', current)
    BY <2>1 DEF Healthy, Behind
  <2> QED
    BY <2>1, <2>2, AwaitsHealthy
<1>4. CASE NextOrder \/ Sleep \/ NextRound \/ WriteOrder \/ DrainReturns
           \/ (CheckWriter /\ ~NoWriter)
  <2>1. at' \in {"check", "sleep", "next", "write", "drain"} /\ UNCHANGED <<current, conn, reader>>
    BY <1>4 DEF NextOrder, Sleep, NextRound, WriteOrder, DrainReturns, CheckWriter, OrderSent, OrderFailed
  <2>2. \/ RunsFirst("bot") /\ ready' = Tail(ready)
        \/ at \in Busy /\ ready' = ready
    BY <1>4 DEF NextOrder, Sleep, NextRound, WriteOrder, DrainReturns, CheckWriter, Resumes, Busy
  <2>3. Behind(conn, reader, at', current)
    BY <2>1 DEF Behind
  <2> QED
    BY <2>1, <2>2, <2>3, AwaitsHealthy
<1> QED
  BY <1>1, <1>2, <1>3, <1>4, OpenReturnsHealthy, UpgradedHealthy, UpgradeRefusedHealthy DEF Coroutine

LEMMA ConnectionsStay ==
    ASSUME conn \in [Connections -> States],
           [BotNext]_botVars
    PROVE  conn' \in [Connections -> States]
<1>1. \A k : Stopped(k) \in [Connections -> States]
  BY DEF Stopped, States
<1>2. CASE Made \/ Eof \/ ConnectionLost \/ Flushed
  BY <1>2 DEF Made, Eof, ConnectionLost, Flushed, States
<1>3. CASE Reset \/ Disconnect \/ UpgradeRefused \/ ReadLoop
  <2>1. \A k, q : Close(k, q) => conn' \in [Connections -> States]
    BY <1>1 DEF Close, States
  <2> QED
    BY <1>1, <1>3, <2>1 DEF Reset, Disconnect, UpgradeRefused, ReadLoop
<1>4. \/ Reset \/ Disconnect \/ UpgradeRefused \/ ReadLoop \/ Made \/ Eof \/ ConnectionLost
      \/ Flushed \/ conn' = conn
  BY DEF BotNext, botVars, Loop, Transport, Coroutine, Wake, Drain, Flush, ServerAccepts,
        ServerRefuses, Answer, EndOfRun, Hangup, Schedule, Answered,
        ConnectLoop, OpenReturns, Upgraded, UpgradeOverrun, UpgradeBroken, ClosedRefused, NextOrder, Sleep,
        NextRound, CheckWriter, WriteOrder, DrainReturns, Cancel
<1> QED
  BY <1>2, <1>3, <1>4

LEMMA HealthyStep ==
    ASSUME HealthyInv, [BotNext]_botVars
    PROVE  HealthyInv'
<1>1. BotInv
  BY DEF HealthyInv, BotInv
<1>2. running' => Kept'
  BY <1>1, BotStep DEF BotInv
<1>0. conn' \in [Connections -> States]
  BY ConnectionsStay DEF HealthyInv
<1> SUFFICES ASSUME running' PROVE Healthy'
  BY <1>0, <1>2 DEF HealthyInv
<1>3. CASE running
  <2>0. Kept /\ Healthy
    BY <1>3 DEF HealthyInv
  <2>1. CASE \/ Wake \/ Drain \/ ServerAccepts \/ ServerRefuses \/ Answer \/ EndOfRun
             \/ \E k \in Connections : Flush(k) \/ Hangup(k)
    BY <2>0, <2>1, EnvironmentHealthy
  <2>2. CASE Transport
    BY <2>0, <2>2, MadeHealthy, AnsweredHealthy, EofHealthy, ResetHealthy, LostHealthy,
       FlushedHealthy
       DEF Transport
  <2>3. CASE ReadLoop
    BY <1>3, <2>0, <2>3, ReadLoopHealthy
  <2>4. CASE Coroutine
    BY <1>3, <2>0, <2>4, CoroutineHealthy
  <2>5. CASE Disconnect
    BY <2>5 DEF Disconnect
  <2>6. CASE Cancel
    BY <1>3, <2>6 DEF Cancel
  <2>7. CASE UNCHANGED botVars
    BY <2>0, <2>7 DEF botVars, Healthy
  <2> QED
    BY <2>1, <2>2, <2>3, <2>4, <2>5, <2>6, <2>7 DEF BotNext, Loop
<1>4. CASE ~running
  <2>1. running' = running
    BY <1>4 DEF BotNext, botVars, Loop, Transport, Coroutine, Wake, Drain, Flush, ServerAccepts,
          ServerRefuses, Answer, EndOfRun, Hangup, Schedule, Made, Answered,
          Eof, Reset, ConnectionLost, Flushed, ReadLoop, ConnectLoop, OpenReturns,
          Upgraded, UpgradeRefused, UpgradeOverrun, UpgradeBroken, ClosedRefused, NextOrder, Sleep,
          NextRound, CheckWriter, WriteOrder, DrainReturns, Disconnect,
          Cancel
  <2> QED
    BY <1>4, <2>1
<1> QED
  BY <1>3, <1>4

LEMMA HealthyStarts ==
    ASSUME BotInit
    PROVE  HealthyInv
<1>1. /\ BotInv
      /\ conn \in [Connections -> States]
  BY BotStarts DEF BotInit, States
<1>2. /\ ready = << >> /\ Len(ready) = 0 /\ at = "stagger"
      /\ \A k \in Connections : conn[k] = "none" /\ reader[k] = "none"
  BY DEF BotInit
<1>3. \A k \in Connections : ~Reads(k, reader) /\ conn[k] # "closing"
  BY <1>2 DEF Reads
<1>4. \A i \in 1..Len(ready) : FALSE
  BY <1>2
<1>5. Turnwise(ready, conn, reader, at, current, opened)
  BY <1>4 DEF Turnwise
<1>6. Woken(ready, conn, reader, current)
  BY <1>3 DEF Woken
<1>7. Behind(conn, reader, at, current)
  BY <1>2, <1>3 DEF Behind
<1> QED
  BY <1>1, <1>5, <1>6, <1>7 DEF HealthyInv, BotInv, Healthy

(* Who closes a connection that is open.                                   *)
LEMMA WhoCloses ==
    ASSUME HealthyInv, [BotNext]_botVars, NEW k \in Connections,
           conn[k] = "open", conn'[k] \in {"closing", "flushing"}
    PROVE  \/ Head(ready).run \in {"reset", "stop"}
           \/ Head(ready).run = "bot" /\ at = "upgrade" /\ k = current
<1>1. CASE Reset \/ Disconnect
  BY <1>1 DEF Reset, Disconnect, RunsFirst
<1>2. CASE UpgradeRefused
  <2>1. Head(ready).run = "bot" /\ at = "upgrade"
    BY <1>2 DEF UpgradeRefused, Resumes, RunsFirst
  <2>2. \E s \in States : conn' = [conn EXCEPT ![current] = s] \/ conn' = conn
    BY <1>2 DEF UpgradeRefused, Close, Stopped, States
  <2>3. k = current
    BY <2>2 DEF HealthyInv
  <2> QED
    BY <2>1, <2>3
<1>3. CASE ReadLoop
  <2> DEFINE l == Head(ready).k
  <2>1. RunsFirst("reader") /\ running /\ conn[l] \in {"eof", "lost"}
        /\ \E s \in States : conn' = [conn EXCEPT ![current] = s] \/ conn' = conn
    BY <1>3 DEF ReadLoop, Close, Stopped, States
  <2>2. Kept /\ Healthy
    BY <2>1 DEF HealthyInv
  <2>3. l \in Connections /\ Reads(l, reader)
    BY <2>1, <2>2, FirstRuns DEF Says, Reads
  <2>4. l = current
    BY <2>2, <2>3 DEF Healthy, Woken
  <2>6. k # current
    BY <2>1, <2>4
  <2> QED
    BY <2>1, <2>6 DEF HealthyInv
<1>4. CASE Made \/ Eof \/ ConnectionLost \/ Flushed
  <2>1. \E l, s : s \in {"open", "eof", "lost"} /\ conn' \in {conn, [conn EXCEPT ![l] = s]}
    BY <1>4 DEF Made, Eof, ConnectionLost, Flushed
  <2> QED
    BY <2>1 DEF HealthyInv
<1>5. CASE conn' = conn
  BY <1>5
<1>6. \/ Reset \/ Disconnect \/ UpgradeRefused \/ ReadLoop \/ Made \/ Eof \/ ConnectionLost
      \/ Flushed \/ conn' = conn
  BY DEF BotNext, botVars, Loop, Transport, Coroutine, Wake, Drain, Flush, ServerAccepts,
        ServerRefuses, Answer, EndOfRun, Hangup, Schedule, Answered,
        ConnectLoop, OpenReturns, Upgraded, UpgradeOverrun, UpgradeBroken, ClosedRefused, NextOrder, Sleep,
        NextRound, CheckWriter, WriteOrder, DrainReturns, Cancel
<1> QED
  BY <1>1, <1>2, <1>3, <1>4, <1>5, <1>6

(* The bot closes a connection that the server keeps only when the upgrade *)
(* was refused or the run is over: the reader of a connection that was     *)
(* lost, which closes self.writer whatever it is by then, runs before      *)
(* connect has replaced it (connect, send_order, read_loop and disconnect  *)
(* in bot-fleet/main.py).                                                  *)
THEOREM HealthyStaysOpen == BotSpec => HealthyConnectionKept
<1>1. BotInit => HealthyInv
  BY HealthyStarts
<1>2. HealthyInv /\ [BotNext]_botVars => HealthyInv'
  BY HealthyStep
<1>3. HealthyInv /\ [BotNext]_botVars
      => [\A k \in Connections : conn[k] = "open" /\ conn'[k] \in {"closing", "flushing"} =>
            \/ Head(ready).run \in {"reset", "stop"}
            \/ Head(ready).run = "bot" /\ at = "upgrade" /\ k = current]_botVars
  BY WhoCloses
<1> QED
  BY <1>1, <1>2, <1>3, PTL DEF BotSpec, HealthyConnectionKept
=============================================================================
