----------------------------- MODULE Analytics ------------------------------
(***************************************************************************)
(* The analytics of the query API.  The worker adds every run that ends to *)
(* the row of its project and day; the cleanup of orphaned runs ends a run *)
(* and adds nothing.  A summary and a comparison of projects sum the rows  *)
(* of a period and of the one before.  Their statements read the table one *)
(* after another while the worker writes, but share the clock of their     *)
(* transaction.  A backfill adds the days that have no row.                *)
(*                                                                         *)
(* What a row counts is the set of its bookings, and a run that is added   *)
(* to it again has a second one.  The counters of the row are their sums.  *)
(***************************************************************************)
EXTENDS Integers, FiniteSets, FiniteSetsExt

CONSTANTS Runs, Projects,
          Results,   \* [Runs -> what the run counts: tests, passed, flaky, skipped, ms]
          Days,      \* what a page asks for
          MaxDays,   \* ANALYTICS_MAX_DAYS
          LastDay    \* bound: the last day

AnalyticsAssumption ==
  /\ Results \in [Runs -> [tests : Nat, passed : Nat, flaky : Nat, skipped : Nat, ms : Nat]]
  /\ \A r \in Runs : Results[r].passed + Results[r].flaky + Results[r].skipped <= Results[r].tests
  /\ IsFiniteSet(Runs) /\ IsFiniteSet(Projects)
  /\ MaxDays \in Nat \ {0} /\ Days \subseteq 1 .. MaxDays /\ LastDay \in Nat

VARIABLES
  today,
  finished,   \* [Runs -> project and day of its end, and what ended it, or Running]
  live,       \* the worker keeps the rows
  daily,      \* daily_run_stats: the bookings of all rows
  backfill,   \* its statement, as far as it has come
  days, projectIds, \* what the page asks for; no project is every project
  summary, comparison, \* the answers, as far as they are read
  trend

vars == <<today, finished, live, daily, backfill, days, projectIds, summary, comparison, trend>>
stored == <<finished, live, daily, backfill>>

Calendar == 0 .. LastDay
Running  == [project |-> "none", day |-> -1, how |-> "running"]
\* A run.end that the worker counts, one from before it did, or the cleanup.
Ends     == [project : Projects, day : Calendar, how : {"booked", "unbooked", "cleaned"}]

\* A row is there once it counts something.
Row(p, d) == {b \in daily : b.project = p /\ b.day = d}

-----------------------------------------------------------------------------
(* The worker, the cleanup and the backfill *)

\* Mutant: a row that begins with no run.
AnotherFromZero(r, p, d) ==
  [run |-> r, project |-> p, day |-> d, nth |-> Cardinality({b \in Row(p, d) : b.run = r})]

\* total_runs + 1: one more of a run, however often the row counts it.
Another(r, p, d) ==
  [run |-> r, project |-> p, day |-> d,
   nth |-> Cardinality({b \in Row(p, d) : b.run = r}) + 1]

\* The end of a run.  Its day is that of its event, which may come a day late.
Finish(r, p, d) ==
  /\ finished[r] = Running /\ d \in {today, today - 1} /\ d >= 0
  /\ finished' = [finished EXCEPT ![r] =
                   [project |-> p, day |-> d, how |-> IF live THEN "booked" ELSE "unbooked"]]
  /\ daily' = IF live THEN daily \cup {Another(r, p, d)} ELSE daily
  /\ UNCHANGED <<today, live, backfill, days, projectIds, summary, comparison, trend>>

\* cleanup_orphaned_runs: a run that is a day old ends here, and no row counts it.
Cleanup(r, p) ==
  /\ finished[r] = Running /\ today > 0
  /\ finished' = [finished EXCEPT ![r] = [project |-> p, day |-> today, how |-> "cleaned"]]
  /\ UNCHANGED <<today, live, daily, backfill, days, projectIds, summary, comparison, trend>>

\* The version of the worker that keeps the rows is deployed.
Deploy == ~live /\ live' = TRUE
          /\ UNCHANGED <<today, finished, daily, backfill, days, projectIds, summary, comparison, trend>>

\* The backfill reads the runs that have ended, whatever ended them, ...
BackfillSelect ==
  /\ live /\ backfill.step = "none"
  /\ backfill' = [step |-> "insert", ended |-> {r \in Runs : finished[r] # Running}]
  /\ UNCHANGED <<today, finished, live, daily, days, projectIds, summary, comparison, trend>>

Selected == {Another(r, finished[r].project, finished[r].day) : r \in backfill.ended}

\* Mutant: ON CONFLICT DO UPDATE, which adds what it has read.
AddedToAll == Selected

\* ON CONFLICT DO NOTHING.
Inserted == {b \in Selected : Row(b.project, b.day) = {}}

\* ... and inserts their rows.
BackfillInsert ==
  /\ backfill.step = "insert" /\ backfill' = [step |-> "done"]
  /\ daily' = daily \cup Inserted
  /\ UNCHANGED <<today, finished, live, days, projectIds, summary, comparison, trend>>

Midnight == /\ today < LastDay /\ today' = today + 1
            /\ UNCHANGED <<stored, days, projectIds, summary, comparison, trend>>

-----------------------------------------------------------------------------
(* The statements *)

\* clampDays.
Clamped(n) == Min({Max({n, 1}), MaxDays})

\* buildProjectFilter.
Asked == IF projectIds = {} THEN Projects ELSE projectIds

\* Days from a day on, of a clock; and those before.
Since(from)          == {d \in Calendar : d >= from}
CurrentDays(clock)   == Since(clock - (Clamped(days) - 1))
PreviousDays(clock)  == Since(clock - (2 * Clamped(days) - 1)) \ CurrentDays(clock)

\* The bookings a statement sums up.
Summed(projects, period) == {b \in daily : b.project \in projects /\ b.day \in period}

Total(bs, field) == MapThenSumSet(LAMBDA b : Results[b.run][field], bs)

\* safeRate, in hundredths of a percent.
Rate(n, of) == IF of > 0 THEN (2 * 10000 * n + of) \div (2 * of) ELSE 0

\* The clock of the transaction, which every statement of it sees.
NowOf(request) == request.clock

\* One of the two: requests read and share nothing else.
AskSummary ==
  /\ summary.step = "none" /\ comparison.step = "none"
  /\ summary' = [step |-> "current", clock |-> today]
  /\ UNCHANGED <<today, stored, days, projectIds, comparison, trend>>

AskComparison ==
  /\ summary.step = "none" /\ comparison.step = "none"
  /\ comparison' = [step |-> "current", clock |-> today]
  /\ UNCHANGED <<today, stored, days, projectIds, summary, trend>>

\* getOrganizationSummary: the period, then the one before.
SummaryCurrent ==
  /\ summary.step = "current"
  /\ summary' = [step |-> "previous", clock |-> summary.clock,
                 current |-> Summed(Asked, CurrentDays(NowOf(summary)))]
  /\ UNCHANGED <<today, stored, days, projectIds, comparison, trend>>

SummaryPrevious ==
  /\ summary.step = "previous"
  /\ summary' = [step |-> "done", clock |-> summary.clock, current |-> summary.current,
                 previous |-> Summed(Asked, PreviousDays(NowOf(summary)))]
  /\ UNCHANGED <<today, stored, days, projectIds, comparison, trend>>

\* getOrganizationPassRateTrend and getOrganizationDurationTrend, of the page that shows the
\* summary: its days in a transaction of their own.
DaysWithRuns(period) == {d \in period : Summed(Asked, {d}) # {}}

AskTrend ==
  /\ summary.step = "done" /\ trend.step = "none"
  /\ trend' = [step |-> "done", clock |-> today,
               days |-> [d \in DaysWithRuns(CurrentDays(today)) |-> Summed(Asked, {d})]]
  /\ UNCHANGED <<today, stored, days, projectIds, summary, comparison>>

\* getProjectComparison: the same by project, and the days of the whole organization.
Projected(period) ==
  LET some == {p \in Asked : Summed({p}, period) # {}}
  IN  [p \in some |-> Summed({p}, period)]

CompareCurrent ==
  /\ comparison.step = "current"
  /\ comparison' = [step |-> "previous", clock |-> comparison.clock,
                    current |-> Projected(CurrentDays(NowOf(comparison)))]
  /\ UNCHANGED <<today, stored, days, projectIds, summary, trend>>

ComparePrevious ==
  /\ comparison.step = "previous"
  /\ comparison' = [step |-> "days", clock |-> comparison.clock, current |-> comparison.current,
                    previous |-> Projected(PreviousDays(NowOf(comparison)))]
  /\ UNCHANGED <<today, stored, days, projectIds, summary, trend>>

CompareDays ==
  /\ comparison.step = "days"
  /\ comparison' = [step |-> "done", clock |-> comparison.clock, current |-> comparison.current,
                    previous |-> comparison.previous,
                    days |-> [d \in DaysWithRuns(CurrentDays(NowOf(comparison))) |-> Summed(Asked, {d})]]
  /\ UNCHANGED <<today, stored, days, projectIds, summary, trend>>

-----------------------------------------------------------------------------
(* computeHealthScore, in tenths *)

\* computeOrgMedianDuration, doubled.
TwiceMedian(ms) ==
  LET below(x) == Cardinality({p \in DOMAIN ms : ms[p] < x})
      upTo(x)  == Cardinality({p \in DOMAIN ms : ms[p] <= x})
      n        == Cardinality(DOMAIN ms)
      nth(k)   == CHOOSE x \in {ms[p] : p \in DOMAIN ms} : below(x) < k /\ k <= upTo(x)
  IN  IF n = 0 THEN 0 ELSE nth((n + 1) \div 2) + nth(n \div 2 + 1)

\* computeDurationScore, in hundredths.
DurationScore(ms, twiceMedian, projects) ==
  IF projects < 3 \/ twiceMedian = 0 THEN 8000
  ELSE IF 4 * ms <= twiceMedian THEN 10000
  ELSE Max({0, 12000 - (8000 * ms) \div twiceMedian})

HealthScore(passRate, flakyRate, skipRate, durationScore) ==
  LET clean == Max({0, passRate - flakyRate})
      flaky == ((10000 - flakyRate) * (10000 - flakyRate)) \div 10000
      raw   == 45 * clean + 30 * flaky + 15 * (10000 - skipRate) + 10 * durationScore
      held  == IF skipRate > 8000 THEN (raw \div 2000) * (10000 - skipRate) ELSE raw
  IN  (held + 500) \div 1000

ScoreOf(tests, passed, flaky, skipped, durationScore) ==
  HealthScore(Rate(passed, tests), Rate(flaky, tests), Rate(skipped, tests), durationScore)

AverageMs(bs) == Total(bs, "ms") \div Cardinality(bs)

\* enrichProjectRow: the score of a project of the comparison, some of its tests counted anew.
Score(p, passed, flaky) ==
  LET bs == comparison.current[p]
      ms == [x \in DOMAIN comparison.current |-> AverageMs(comparison.current[x])]
  IN  ScoreOf(Total(bs, "tests"), Total(bs, "passed") + passed, Total(bs, "flaky") + flaky,
              Total(bs, "skipped"), DurationScore(ms[p], TwiceMedian(ms), Cardinality(DOMAIN ms)))

\* computeOrgAverages: the counts of all projects, and the median of the projects.
OrgAverage ==
  LET projects == DOMAIN comparison.current
      bs  == UNION {comparison.current[p] : p \in projects}
      ms  == [p \in projects |-> AverageMs(comparison.current[p])]
      avg == MapThenSumSet(LAMBDA p : ms[p] * Cardinality(comparison.current[p]), projects)
               \div Cardinality(bs)
  IN  [passRate  |-> Rate(Total(bs, "passed"), Total(bs, "tests")),
       flakyRate |-> Rate(Total(bs, "flaky"), Total(bs, "tests")),
       score     |-> ScoreOf(Total(bs, "tests"), Total(bs, "passed"), Total(bs, "flaky"),
                             Total(bs, "skipped"),
                             DurationScore(avg, TwiceMedian(ms), Cardinality(projects)))]

Failed(bs) == Total(bs, "tests") - Total(bs, "passed") - Total(bs, "flaky") - Total(bs, "skipped")

-----------------------------------------------------------------------------
Init ==
  /\ today = 0 /\ finished = [r \in Runs |-> Running]
  /\ live = FALSE /\ backfill = [step |-> "none"] /\ daily = {}
  /\ days \in Days /\ projectIds \in {{}} \cup {{p} : p \in Projects}
  /\ summary = [step |-> "none"] /\ comparison = [step |-> "none"] /\ trend = [step |-> "none"]

Next ==
  \/ \E r \in Runs, p \in Projects, d \in Calendar : Finish(r, p, d)
  \/ \E r \in Runs, p \in Projects : Cleanup(r, p)
  \/ Deploy \/ BackfillSelect \/ BackfillInsert \/ Midnight
  \/ AskSummary \/ AskComparison \/ SummaryCurrent \/ SummaryPrevious \/ AskTrend
  \/ CompareCurrent \/ ComparePrevious \/ CompareDays

Spec == Init /\ [][Next]_vars

-----------------------------------------------------------------------------
TypeOK ==
  /\ today \in Calendar /\ live \in BOOLEAN
  /\ finished \in [Runs -> Ends \cup {Running}]
  /\ daily \subseteq [run : Runs, project : Projects, day : Calendar, nth : Nat \ {0}]
  /\ backfill.step \in {"none", "insert", "done"}
  /\ backfill.step = "insert" => backfill.ended \subseteq Runs
  /\ days \in Days /\ projectIds \subseteq Projects
  /\ summary.step \in {"none", "current", "previous", "done"}
  /\ comparison.step \in {"none", "current", "previous", "days", "done"}
  /\ trend.step \in {"none", "done"}

\* A booking is the only one of its run, in the row of the project and day the run ended on.
Right(b) == b.nth = 1 /\ finished[b.run].project = b.project /\ finished[b.run].day = b.day

\* The rows count each run once, on its day, though the backfill and the worker write the same
\* rows: every run whose end the worker was to count, and after the backfill those from before,
\* unless their day had a row of later runs already.  (A run the cleanup has closed is counted
\* if the backfill finds it on a day without a row, and otherwise never.)
RowsCountOnce ==
  /\ \A b \in daily : Right(b)
  /\ \A r \in Runs : finished[r].how = "booked" => \E b \in daily : b.run = r
  /\ backfill.step = "done" =>
       \A r \in Runs : finished[r].how = "unbooked" =>
         \E b \in Row(finished[r].project, finished[r].day) :
           b.run = r \/ finished[b.run].how = "booked"

\* No answer counts a run twice, in one of its periods or in both, though midnight passes
\* between their statements.
Once(bs) == \A a, b \in bs : a.run = b.run => a = b
PeriodsAdjoin ==
  /\ summary.step = "done" =>
       Once(summary.current \cup summary.previous) /\ summary.current \cap summary.previous = {}
  /\ comparison.step = "done" =>
       LET current  == UNION {comparison.current[p] : p \in DOMAIN comparison.current}
           previous == UNION {comparison.previous[p] : p \in DOMAIN comparison.previous}
       IN  Once(current \cup previous) /\ current \cap previous = {}

RunsOn(answer) == UNION {answer.days[d] : d \in DOMAIN answer.days}

\* The days of the organization hold every run its projects are compared by, and those of the
\* trend every run of the summary that was read before it on the same day.
DaysHoldRuns ==
  /\ comparison.step = "done" =>
       UNION {comparison.current[p] : p \in DOMAIN comparison.current} \subseteq RunsOn(comparison)
  /\ (trend.step = "done" /\ trend.clock = summary.clock) => summary.current \subseteq RunsOn(trend)

\* The score of a project is within its range, and no failed or flaky test that passes
\* lowers it.
ScoreRises ==
  comparison.step = "done" =>
    \A p \in DOMAIN comparison.current :
      /\ Score(p, 0, 0) \in 0 .. 1000
      /\ Failed(comparison.current[p]) > 0 => Score(p, 0, 0) <= Score(p, 1, 0)
      /\ Total(comparison.current[p], "flaky") > 0 => Score(p, 0, 0) <= Score(p, 1, -1)

\* The rates of the organization lie between those of its projects.  (Its score need not:
\* it is no mean of theirs.)
AverageLiesBetween ==
  (comparison.step = "done" /\ DOMAIN comparison.current # {}) =>
    LET projects == DOMAIN comparison.current
        org      == OrgAverage
        passRate(p)  == Rate(Total(comparison.current[p], "passed"), Total(comparison.current[p], "tests"))
        flakyRate(p) == Rate(Total(comparison.current[p], "flaky"), Total(comparison.current[p], "tests"))
        Between(x, V) == Min(V) <= x /\ x <= Max(V)
    IN  /\ Between(org.passRate, {passRate(p) : p \in projects})
        /\ Between(org.flakyRate, {flakyRate(p) : p \in projects})
        /\ org.score \in 0 .. 1000

AnalyticsAddUp == AverageLiesBetween /\ RowsCountOnce /\ PeriodsAdjoin /\ DaysHoldRuns /\ ScoreRises
=============================================================================
