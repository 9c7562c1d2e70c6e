--------------------------- MODULE ResultProcessor ---------------------------
(***************************************************************************)
(* The worker: Outboxy delivers batches of stored events to the webhook,   *)
(* the controller handles a batch event by event in priority order, and    *)
(* each event is one database transaction: the inbox row that makes it     *)
(* happen once, then the handler of its type.                              *)
(*                                                                         *)
(* An event is a record; its timestamp `at' is what tells two events on    *)
(* the same entity apart, as in the ingestion API's idempotency key.       *)
(* Artifact uploads are the subject of a module of their own.              *)
(***************************************************************************)
EXTENDS Integers, FiniteSets

CONSTANTS Events,    \* the events the ingestion API may have stored
          Outboxes,  \* the sets of events it may have stored (the others were lost)
          Runs, Suites, Tests, Names,
          Errors,    \* error fingerprints (of the one project modelled)
          Times,     \* event timestamps
          Days,      \* the calendar days of the daily statistics
          DayOf,     \* [Times -> Days]
          Requests,  \* webhook calls that may be open at the same time
          Procs,     \* worker processes
          Host,      \* [Requests -> Procs]: the process that serves a call
          BatchSize, \* events in one Outboxy batch, at most
          MaxFaults, \* transaction failures, at most
          MaxCrashes \* process crashes, at most

NoParent == "no parent"
NoError  == "no error"
NoGroup  == "no group"

\* The two values of finished_at that are not the timestamp of a run.end.
NotFinished == [type |-> "null"]
CleanupTime == [type |-> "now"]

RunStatuses  == {"pending", "running", "passed", "failed", "cancelled"}
Terminal     == {"passed", "failed", "cancelled"}
TestStatuses == {"pending", "running", "passed", "failed", "skipped", "flaky"}

RunStart   == [type: {"run.start"}, run: Runs, at: Times]
SuiteStart == [type: {"suite.start"}, run: Runs, suite: Suites,
               parent: Suites \cup {NoParent}, name: Names, at: Times]
SuiteEnd   == [type: {"suite.end"}, run: Runs, suite: Suites, at: Times]
TestStart  == [type: {"test.start"}, run: Runs, suite: Suites, test: Tests,
               name: Names, at: Times]
TestEnd    == [type: {"test.end"}, run: Runs, test: Tests, status: TestStatuses,
               retries: Nat, error: Errors \cup {NoError}, at: Times]
RunEnd     == [type: {"run.end"}, run: Runs, status: RunStatuses, at: Times]
Malformed  == [type: {"malformed"}, run: Runs, at: Times]

EventType == RunStart \cup SuiteStart \cup SuiteEnd \cup TestStart
             \cup TestEnd \cup RunEnd \cup Malformed

ASSUME EventsAssumption == /\ Events \subseteq EventType /\ IsFiniteSet(Events)
                           /\ Outboxes \subseteq SUBSET Events
ASSUME DayAssumption    == DayOf \in [Times -> Days]
ASSUME HostAssumption   == Host \in [Requests -> Procs]
ASSUME BoundAssumption  == BatchSize \in Nat /\ MaxFaults \in Nat /\ MaxCrashes \in Nat

VARIABLES
  \* the outbox as Outboxy sees it, and the webhook calls
  pending,      \* stored events whose delivery no response has confirmed yet
  batch,        \* [Requests -> SUBSET Events]: the events of the call ({}: no call)
  left,         \* [Requests -> SUBSET Events]: the ones still to process
  failed,       \* [Requests -> BOOLEAN]: failedEventIds is not empty
  committed,    \* [Requests -> SUBSET Events]: committed, its notification still to come
  \* the database
  inbox,        \* idempotency keys received
  status,       \* [Runs -> run status, or "absent"]
  finishedAt,   \* [Runs -> the run.end whose timestamp it is, or one of the two above]
  counts,       \* [Runs -> counters of the run row]
  suites,       \* rows of suites
  tests,        \* rows of tests
  daily,        \* [Days -> row of daily_run_stats]
  flaky,        \* [Names -> [Days -> row of daily_flaky_test_stats]]
  groups,       \* [Errors -> total_occurrences of the group's row, 0 without a row]
  occurrences,  \* rows of error_occurrences
  \* process memory and the notifications
  timers,       \* debounce timers: pairs <<process, run>>
  dirty,        \* pairs <<run, part>> changed since the last run.updated of the run
  \* the environment
  old,          \* open runs created more than 24 hours ago
  faults, crashes

queueVars == <<pending, batch, left, failed, committed>>
statVars  == <<daily, flaky, groups, occurrences>>
runVars   == <<status, finishedAt, counts>>
dbVars    == <<inbox, runVars, suites, tests, statVars>>
memVars   == <<timers, dirty>>
envVars   == <<old, faults, crashes>>
vars      == <<queueVars, dbVars, memVars, envVars>>

Counters      == {"total", "passed", "failed", "skipped", "flaky"}
DailyCounters == Counters \cup {"runs", "retried"}
FlakyCounters == {"flaky", "total", "retries"}
Zero(C)       == [c \in C |-> 0]

SuiteRow == [suite: Suites, run: Runs, parent: Suites \cup {NoParent}, name: Names]
TestRow  == [test: Tests, at: Times, run: Runs, suite: Suites, name: Names,
             status: TestStatuses, retries: Nat, group: Errors \cup {NoGroup}]
Occurrence == [run: Runs, test: Tests, error: Errors]

Init ==
  /\ pending \in Outboxes
  /\ batch = [q \in Requests |-> {}]
  /\ left = [q \in Requests |-> {}]
  /\ failed = [q \in Requests |-> FALSE]
  /\ committed = [q \in Requests |-> {}]
  /\ inbox = {}
  /\ status = [r \in Runs |-> "absent"]
  /\ finishedAt = [r \in Runs |-> NotFinished]
  /\ counts = [r \in Runs |-> Zero(Counters)]
  /\ suites = {} /\ tests = {}
  /\ daily = [d \in Days |-> Zero(DailyCounters)]
  /\ flaky = [n \in Names |-> [d \in Days |-> Zero(FlakyCounters)]]
  /\ groups = [g \in Errors |-> 0]
  /\ occurrences = {}
  /\ timers = {} /\ dirty = {}
  /\ old = {} /\ faults = 0 /\ crashes = 0

-----------------------------------------------------------------------------
(* What the database says to an event.                                      *)

\* UNIQUE NULLS NOT DISTINCT (run_id, name, parent_suite_id), and the primary key.
SuiteConflicts(e) ==
  \E s \in suites : \/ s.suite = e.suite
                    \/ s.run = e.run /\ s.name = e.name /\ s.parent = e.parent

\* The foreign keys of suites: run_id to runs, parent_suite_id to suites.
SuiteDependenciesReady(e) ==
  /\ status[e.run] # "absent"
  /\ e.parent # NoParent => \E s \in suites : s.suite = e.parent

\* Mutant: the trigger is gone.
SuiteNotChecked(e) == TRUE

\* verify_test_run_consistency: the suite is there (if not, 23503: retry later)
\* and belongs to the run of the test (if not, P0001: a permanent failure).
SuiteOfRun(e) == \E s \in suites : s.suite = e.suite /\ s.run = e.run

MatchingTests(e) == {t \in tests : t.test = e.test /\ t.run = e.run}

\* Whether the transaction of an event commits; if not, it is rolled back.
CanHandle(e) ==
  CASE e.type = "suite.start" -> SuiteConflicts(e) \/ SuiteDependenciesReady(e)
    [] e.type = "test.start"  -> SuiteOfRun(e)
    [] e.type = "test.end"    -> MatchingTests(e) # {}
    [] OTHER                  -> TRUE

-----------------------------------------------------------------------------
(* The handlers, one per event type.                                        *)

\* INSERT INTO runs ... ON CONFLICT DO NOTHING.
RunStartHandler(e) ==
  /\ e.type = "run.start"
  /\ IF status[e.run] = "absent"
       THEN /\ status' = [status EXCEPT ![e.run] = "pending"]
            /\ dirty' = dirty \cup {<<e.run, "status">>}
       ELSE UNCHANGED <<status, dirty>>
  /\ UNCHANGED <<finishedAt, counts, suites, tests, statVars>>

\* INSERT INTO suites ... ON CONFLICT DO NOTHING: a conflict drops the row.
SuiteStartHandler(e) ==
  /\ e.type = "suite.start"
  /\ suites' = IF SuiteConflicts(e) THEN suites
               ELSE suites \cup {[suite |-> e.suite, run |-> e.run,
                                  parent |-> e.parent, name |-> e.name]}
  /\ UNCHANGED <<runVars, tests, statVars, dirty>>

\* Logs, and nothing else.
SuiteEndHandler(e) ==
  /\ e.type = "suite.end"
  /\ UNCHANGED <<runVars, suites, tests, statVars, dirty>>

\* The inserted test moves a pending run to running.
TestStartHandler(e) ==
  LET row == [test |-> e.test, at |-> e.at, run |-> e.run, suite |-> e.suite,
              name |-> e.name, status |-> "pending", retries |-> 0, group |-> NoGroup]
      duplicate == \E t \in tests : t.test = e.test /\ t.at = e.at
      begins == ~duplicate /\ status[e.run] = "pending"
  IN  /\ e.type = "test.start"
      /\ tests' = IF duplicate THEN tests ELSE tests \cup {row}
      /\ status' = IF begins THEN [status EXCEPT ![e.run] = "running"] ELSE status
      /\ dirty' = IF begins THEN dirty \cup {<<e.run, "status">>} ELSE dirty
      /\ UNCHANGED <<finishedAt, counts, suites, statVars>>

\* The counters of runs one test.end adds to.
Bump(e) == [c \in Counters |-> IF c = "total" \/ c = e.status THEN 1 ELSE 0]

\* Fingerprinting: failed and flaky tests with an error message.
HasError(e) == e.error # NoError /\ e.status \in {"failed", "flaky"}

\* The error part of test.end: the group's row is created with a count of 1 and
\* never counted up; the run's first occurrence of the test stays.
GroupError(e) ==
  IF HasError(e)
    THEN /\ groups' = IF groups[e.error] = 0 THEN [groups EXCEPT ![e.error] = 1] ELSE groups
         /\ occurrences' =
              IF \E o \in occurrences : o.run = e.run /\ o.test = e.test THEN occurrences
              ELSE occurrences \cup {[run |-> e.run, test |-> e.test, error |-> e.error]}
    ELSE UNCHANGED <<groups, occurrences>>

\* The counters of the run are counted up whatever its status is.
TestEndHandler(e) ==
  LET ended(t) == [t EXCEPT !.status = e.status, !.retries = e.retries,
                            !.group = IF HasError(e) THEN e.error ELSE @]
      flake == [flaky |-> 1, total |-> 1, retries |-> e.retries]
  IN  /\ e.type = "test.end"
      /\ MatchingTests(e) # {}
      /\ tests' = {IF t \in MatchingTests(e) THEN ended(t) ELSE t : t \in tests}
      /\ GroupError(e)
      /\ counts' = [counts EXCEPT ![e.run] = [c \in Counters |-> @[c] + Bump(e)[c]]]
      /\ \E t \in MatchingTests(e) :
           flaky' = [flaky EXCEPT ![t.name][DayOf[e.at]] =
             [c \in FlakyCounters |->
                @[c] + IF e.status = "flaky" \/ c = "total" THEN flake[c] ELSE 0]]
      /\ dirty' = dirty \cup {<<e.run, "counts">>}
      /\ UNCHANGED <<status, finishedAt, suites, daily>>

\* The run statuses a run.end with this status may replace.
ValidSources(s) ==
  IF s \in Terminal THEN {"pending", "running"}
  ELSE IF s = "running" THEN {"pending"} ELSE {}

\* Mutant: the condition on retry_count is gone.
AllTestsOf(r) == Cardinality({t \in tests : t.run = r})

RetriedTests(r) == Cardinality({t \in tests : t.run = r /\ t.retries > 0})

\* What a run that ends now adds to the statistics of its day.
Snapshot(r) ==
  [c \in DailyCounters |-> IF c = "runs" THEN 1
                           ELSE IF c = "retried" THEN RetriedTests(r)
                           ELSE counts[r][c]]

\* Mutant: the update does not look at the status of the run.
RunExists(e) == status[e.run] # "absent"

\* UPDATE runs ... WHERE status IN validSources; when no row matches (an unknown
\* run, a finished one, an invalid status) the handler returns: the event is done.
MayEnd(e) == status[e.run] \in ValidSources(e.status)

RunEndHandler(e) ==
  /\ e.type = "run.end"
  /\ IF MayEnd(e)
       THEN /\ status' = [status EXCEPT ![e.run] = e.status]
            /\ finishedAt' = [finishedAt EXCEPT ![e.run] = e]
            /\ daily' = [daily EXCEPT ![DayOf[e.at]] =
                           [c \in DailyCounters |-> @[c] + Snapshot(e.run)[c]]]
            /\ dirty' = dirty \cup {<<e.run, "status">>}
       ELSE UNCHANGED <<status, finishedAt, daily, dirty>>
  /\ UNCHANGED <<counts, suites, tests, flaky, groups, occurrences>>

RouteEvent(e) ==
  \/ RunStartHandler(e)
  \/ SuiteStartHandler(e)
  \/ SuiteEndHandler(e)
  \/ TestStartHandler(e)
  \/ TestEndHandler(e)
  \/ RunEndHandler(e)

-----------------------------------------------------------------------------
(* The webhook: a batch is processed event by event.                        *)

Priority(e) ==
  CASE e.type = "run.start"   -> 1
    [] e.type = "suite.start" -> 2
    [] e.type = "test.start"  -> 3
    [] e.type = "test.end"    -> 4
    [] e.type = "suite.end"   -> 6
    [] e.type = "run.end"     -> 7
    [] OTHER                  -> 99

\* Outboxy posts any unconfirmed events, in any grouping and order.
Deliver(q) ==
  /\ batch[q] = {}
  /\ \E b \in SUBSET pending :
       /\ b # {} /\ Cardinality(b) <= BatchSize
       /\ batch' = [batch EXCEPT ![q] = b]
       /\ left' = [left EXCEPT ![q] = b]
  /\ UNCHANGED <<pending, failed, committed, dbVars, memVars, envVars>>

\* The events the loop over the sorted batch may be at.
NextEvents(q) == {e \in left[q] : \A f \in left[q] : Priority(e) <= Priority(f)}

Advance(q, e) ==
  /\ committed[q] = {}
  /\ e \in NextEvents(q)
  /\ left' = [left EXCEPT ![q] = @ \ {e}]
  /\ UNCHANGED <<pending, batch>>

\* processEvent returns 'invalid' or 'duplicate': nothing is written.
Skip(q, e) ==
  /\ Advance(q, e)
  /\ e.type = "malformed" \/ e \in inbox
  /\ UNCHANGED <<failed, committed, dbVars, memVars, envVars>>

\* Mutant: the handler runs for an event that is in the inbox, too.
AcceptAgain(q, e) ==
  /\ Advance(q, e)
  /\ e.type # "malformed" /\ CanHandle(e)
  /\ inbox' = inbox \cup {e}
  /\ RouteEvent(e)
  /\ committed' = [committed EXCEPT ![q] = {e}]
  /\ UNCHANGED <<failed, timers, envVars>>

\* The transaction of a new event commits: its inbox row and its handler's writes.
Accept(q, e) ==
  /\ Advance(q, e)
  /\ e.type # "malformed" /\ e \notin inbox /\ CanHandle(e)
  /\ inbox' = inbox \cup {e}
  /\ RouteEvent(e)
  /\ committed' = [committed EXCEPT ![q] = {e}]
  /\ UNCHANGED <<failed, timers, envVars>>

\* Mutant: the inbox row is written outside the transaction.
RejectKeepsInbox(q, e) ==
  /\ Advance(q, e)
  /\ e.type # "malformed" /\ e \notin inbox /\ ~CanHandle(e)
  /\ inbox' = inbox \cup {e}
  /\ failed' = [failed EXCEPT ![q] = TRUE]
  /\ UNCHANGED <<committed, runVars, suites, tests, statVars, memVars, envVars>>

\* Mutant: a failed event is logged and forgotten.
RejectSilently(q, e) ==
  /\ Advance(q, e)
  /\ e.type # "malformed" /\ e \notin inbox /\ ~CanHandle(e)
  /\ UNCHANGED <<failed, committed, dbVars, memVars, envVars>>

\* The handler throws, so the transaction is rolled back, the inbox row with it;
\* the loop notes the failed event and goes on.
Reject(q, e) ==
  /\ Advance(q, e)
  /\ e.type # "malformed" /\ e \notin inbox /\ ~CanHandle(e)
  /\ failed' = [failed EXCEPT ![q] = TRUE]
  /\ UNCHANGED <<committed, dbVars, memVars, envVars>>

\* The database fails the transaction for a reason of its own.
Fault(q, e) ==
  /\ Advance(q, e)
  /\ e.type # "malformed" /\ faults < MaxFaults
  /\ failed' = [failed EXCEPT ![q] = TRUE]
  /\ faults' = faults + 1
  /\ UNCHANGED <<committed, dbVars, memVars, old, crashes>>

Announced(r) == {<<r, "status">>, <<r, "counts">>}

\* Mutant: the timers are kept by test.
TimersByTest(q, e) ==
  IF e.type = "test.end" THEN timers \cup {<<Host[q], e.test>>} ELSE timers

\* The end of a test arms the timer of its run, or arms it anew; run.end clears it.
TimersAfter(q, e) ==
  CASE e.type = "test.end" -> timers \cup {<<Host[q], e.run>>}
    [] e.type = "run.end"  -> timers \ {<<Host[q], e.run>>}
    [] OTHER               -> timers

\* Mutant: run.end clears the timer and publishes nothing itself.
PublishesStartOnly(e) == e.type = "run.start"

\* The events that publish run.updated at once.
Publishes(e) == e.type \in {"run.start", "run.end"}

\* publishSseNotification, after the commit.
Notify(q) ==
  \E e \in committed[q] :
    /\ committed' = [committed EXCEPT ![q] = {}]
    /\ timers' = TimersAfter(q, e)
    /\ dirty' = IF Publishes(e) THEN dirty \ Announced(e.run) ELSE dirty
    /\ UNCHANGED <<pending, batch, left, failed, dbVars, envVars>>

\* Mutant: 200, whatever failed.
ConfirmAll(q) ==
  /\ batch[q] # {} /\ left[q] = {} /\ committed[q] = {}
  /\ pending' = pending \ batch[q]
  /\ batch' = [batch EXCEPT ![q] = {}]
  /\ failed' = [failed EXCEPT ![q] = FALSE]
  /\ UNCHANGED <<left, committed, dbVars, memVars, envVars>>

\* 200 confirms the whole batch, 500 PARTIAL_BATCH_FAILURE none of it.
Respond(q) ==
  /\ batch[q] # {} /\ left[q] = {} /\ committed[q] = {}
  /\ pending' = IF failed[q] THEN pending ELSE pending \ batch[q]
  /\ batch' = [batch EXCEPT ![q] = {}]
  /\ failed' = [failed EXCEPT ![q] = FALSE]
  /\ UNCHANGED <<left, committed, dbVars, memVars, envVars>>

\* The call times out at Outboxy before the response: nothing is confirmed.
ResponseLost(q) ==
  /\ batch[q] # {} /\ left[q] = {} /\ committed[q] = {}
  /\ faults < MaxFaults
  /\ faults' = faults + 1
  /\ batch' = [batch EXCEPT ![q] = {}]
  /\ failed' = [failed EXCEPT ![q] = FALSE]
  /\ UNCHANGED <<pending, left, committed, dbVars, memVars, old, crashes>>

\* The debounce timer of a run fires, 2 s after the last test.end.
TimerFires(p, r) ==
  /\ <<p, r>> \in timers
  /\ timers' = timers \ {<<p, r>>}
  /\ dirty' = dirty \ Announced(r)
  /\ UNCHANGED <<queueVars, dbVars, envVars>>

-----------------------------------------------------------------------------
(* Time and failures.                                                       *)

\* 24 hours go by since the row of an open run was created.
GrowOld(r) ==
  /\ status[r] \in {"pending", "running"} /\ r \notin old
  /\ old' = old \cup {r}
  /\ UNCHANGED <<queueVars, dbVars, memVars, faults, crashes>>

\* Mutants: the WHERE clause of the cleanup does not look at the status; it takes a
\* run that is running for one that is alive.
AllOld     == old
OldPending == {r \in old : status[r] = "pending"}

Orphans == {r \in old : status[r] \in {"pending", "running"}}

\* The hourly cleanup_orphaned_runs(), one UPDATE over the table: no statistics,
\* no notification.
CleanupOrphanedRuns ==
  /\ Orphans # {}
  /\ status' = [r \in Runs |-> IF r \in Orphans THEN "cancelled" ELSE status[r]]
  /\ finishedAt' = [r \in Runs |-> IF r \in Orphans THEN CleanupTime ELSE finishedAt[r]]
  /\ dirty' = dirty \cup (Orphans \X {"status"})
  /\ UNCHANGED <<queueVars, inbox, counts, suites, tests, statVars, timers, envVars>>

\* A process dies between two steps: its calls end unconfirmed, its timers and the
\* notifications still to come are gone.
Crash(p) ==
  LET gone(q) == Host[q] = p
  IN  /\ crashes < MaxCrashes
      /\ crashes' = crashes + 1
      /\ batch' = [q \in Requests |-> IF gone(q) THEN {} ELSE batch[q]]
      /\ left' = [q \in Requests |-> IF gone(q) THEN {} ELSE left[q]]
      /\ failed' = [q \in Requests |-> IF gone(q) THEN FALSE ELSE failed[q]]
      /\ committed' = [q \in Requests |-> IF gone(q) THEN {} ELSE committed[q]]
      /\ timers' = {t \in timers : t[1] # p}
      /\ UNCHANGED <<pending, dbVars, dirty, old, faults>>

ProcessEvent(q) ==
  \E e \in left[q] : Skip(q, e) \/ Accept(q, e) \/ Reject(q, e) \/ Fault(q, e)

Next ==
  \/ \E q \in Requests : Deliver(q) \/ ProcessEvent(q) \/ Notify(q)
                         \/ Respond(q) \/ ResponseLost(q)
  \/ \E p \in Procs, r \in Runs : TimerFires(p, r)
  \/ \E r \in Runs : GrowOld(r)
  \/ CleanupOrphanedRuns
  \/ \E p \in Procs : Crash(p)

Spec == Init /\ [][Next]_vars

\* What the deployment guarantees: Outboxy delivers every unconfirmed event again
\* and again (SF: a call must be free), a call that is being served goes on, timers
\* fire, time passes and the cron job runs.
Fairness ==
  /\ \A e \in Events : SF_vars(\E q \in Requests : Deliver(q) /\ e \in batch'[q])
  /\ \A q \in Requests : /\ WF_vars(ProcessEvent(q))
                         /\ WF_vars(Notify(q))
                         /\ WF_vars(Respond(q))
  /\ \A p \in Procs, r \in Runs : WF_vars(TimerFires(p, r))
  /\ \A r \in Runs : WF_vars(GrowOld(r))
  /\ WF_vars(CleanupOrphanedRuns)

FairSpec == Spec /\ Fairness

-----------------------------------------------------------------------------
(* Type invariant.                                                          *)

TypeOK ==
  /\ pending \subseteq Events
  /\ batch \in [Requests -> SUBSET Events]
  /\ left \in [Requests -> SUBSET Events]
  /\ failed \in [Requests -> BOOLEAN]
  /\ committed \in [Requests -> SUBSET Events]
  /\ inbox \subseteq Events
  /\ status \in [Runs -> RunStatuses \cup {"absent"}]
  /\ finishedAt \in [Runs -> RunEnd \cup {NotFinished, CleanupTime}]
  /\ counts \in [Runs -> [Counters -> Nat]]
  /\ suites \subseteq SuiteRow
  /\ tests \subseteq TestRow
  /\ daily \in [Days -> [DailyCounters -> Nat]]
  /\ flaky \in [Names -> [Days -> [FlakyCounters -> Nat]]]
  /\ groups \in [Errors -> Nat]
  /\ occurrences \subseteq Occurrence
  /\ timers \subseteq Procs \X Runs
  /\ dirty \subseteq Runs \X {"status", "counts"}
  /\ old \subseteq Runs
  /\ faults \in 0..MaxFaults /\ crashes \in 0..MaxCrashes

-----------------------------------------------------------------------------
(* Safety.                                                                  *)

\* The accepted ends of tests.
Ended == {e \in inbox : e.type = "test.end"}

\* The counters of a run row are exactly the accepted test.end events of the run:
\* no redelivery, retry, rollback or crash counts one twice or not at all.
CountersMatchInbox ==
  \A r \in Runs, c \in Counters :
    counts[r][c] = Cardinality({e \in Ended : e.run = r /\ (c = "total" \/ c = e.status)})

\* The per-day statistics of a test name count each accepted test.end of a test of
\* that name once, on the day of the event, whatever becomes of its run.
FlakyStatsMatchInbox ==
  \A n \in Names, d \in Days :
    LET here == {e \in Ended : DayOf[e.at] = d /\ \E t \in MatchingTests(e) : t.name = n}
    IN  /\ flaky[n][d]["total"] = Cardinality(here)
        /\ flaky[n][d]["flaky"] = Cardinality({e \in here : e.status = "flaky"})

\* The row of a test says what an accepted test.end said, or that none was accepted,
\* and an error group only with the run's occurrence of the test; it belongs to a suite
\* of its run.  A suite belongs to a run that exists, and its parent exists.
RowsReflectInbox ==
  /\ \A s \in suites : /\ status[s.run] # "absent"
                        /\ s.parent # NoParent => \E u \in suites : u.suite = s.parent
  /\ \A t \in tests :
    LET ends == {e \in Ended : e.test = t.test /\ e.run = t.run}
    IN  /\ IF ends = {} THEN t.status = "pending" /\ t.group = NoGroup
           ELSE \E e \in ends : t.status = e.status /\ t.retries = e.retries
        /\ t.group # NoGroup => \E o \in occurrences : o.test = t.test /\ o.run = t.run
        /\ \E s \in suites : s.suite = t.suite /\ s.run = t.run

\* The reporters of this repository end a run with a terminal status only.
OnlyTerminalEnds == \A e \in Events : e.type = "run.end" => e.status \in Terminal

\* The reporters send test.start once for a test, with the id they have just made for it.
OneStartPerTest ==
  \A e, f \in Events :
    e.type = "test.start" /\ f.type = "test.start" /\ e.test = f.test /\ e.run = f.run => e = f

FinishedOn(d) == {r \in Runs : finishedAt[r].type = "run.end" /\ DayOf[finishedAt[r].at] = d}

\* A day's statistics count the runs that a run.end finished on that day once each,
\* however many run.end events, redeliveries and cleanups there were; they never hold
\* more ends of tests than those runs have, and the four outcomes add up.
DailyStatsCountRunsOnce ==
  OnlyTerminalEnds =>
    \A d \in Days :
      /\ daily[d]["runs"] = Cardinality(FinishedOn(d))
      /\ \A c \in Counters :
           daily[d][c] <= Cardinality({e \in Ended : /\ e.run \in FinishedOn(d)
                                                     /\ c = "total" \/ c = e.status})
      /\ daily[d]["passed"] + daily[d]["failed"] + daily[d]["skipped"] + daily[d]["flaky"]
           <= daily[d]["total"]
      /\ daily[d]["retried"] <= daily[d]["total"]

\* A confirmed event was accepted (or is one no version of the worker can read): the
\* 200 of a batch never covers an event whose transaction was rolled back.
ConfirmedIsAccepted ==
  [][\A e \in pending \ pending' : e \in inbox \/ e.type = "malformed"]_vars

\* A finished run stays as it is: a second run.end, a late test.start and the hourly
\* cleanup leave its status and its finish time alone.
FinishedIsFinal ==
  [][\A r \in Runs : status[r] \in Terminal =>
       status'[r] = status[r] /\ finishedAt'[r] = finishedAt[r]]_vars

\* Without a crash, a change of a run's counters that no run.updated has covered has a
\* notification coming: a timer is armed, or a commit is about to notify.
CountsWillBeAnnounced ==
  \A r \in Runs :
    (crashes = 0 /\ <<r, "counts">> \in dirty) =>
      \/ \E p \in Procs : <<p, r>> \in timers
      \/ \E q \in Requests : \E e \in committed[q] :
           e.run = r /\ e.type \in {"test.end", "run.end"}

-----------------------------------------------------------------------------
(* Liveness.                                                                *)

\* The events an event may have to wait for: the starts of its run, of the run's
\* suites and, for the end of a test, of the run's tests.
Needs(e) == {f \in Events : /\ f.run = e.run
                            /\ f.type \in {"run.start", "suite.start", "test.start"}
                            /\ Priority(f) <= Priority(e)}

\* What the reporters see to: an id names one suite, one name under one parent in one
\* run too, and what an event refers to has an event that starts it.  (A suite that
\* only clashes with another is dropped, and its tests are then refused for ever.)
ReporterGuarantee ==
  LET Of(k) == {e \in Events : e.type = k}
  IN  /\ \A e, f \in Of("suite.start") :
           \/ e.suite = f.suite
           \/ e.run = f.run /\ e.name = f.name /\ e.parent = f.parent
           => e.suite = f.suite /\ e.run = f.run /\ e.parent = f.parent
      /\ \A e \in Of("suite.start") : \E f \in Of("run.start") : f.run = e.run
      /\ \A e \in Of("suite.start") : e.parent # NoParent =>
           \E f \in Of("suite.start") : f.suite = e.parent /\ f.run = e.run
      /\ \E depth \in [Suites -> 0..Cardinality(Suites)] :
           \A e \in Of("suite.start") : e.parent # NoParent => depth[e.parent] < depth[e.suite]
      /\ \A e \in Of("test.start") :
           \E f \in Of("suite.start") : f.suite = e.suite /\ f.run = e.run
      /\ \A e \in Of("test.end") :
           \E f \in Of("test.start") : f.test = e.test /\ f.run = e.run

\* An event stored together with the starts it needs is accepted in the end, in
\* whatever order and grouping Outboxy delivers them.
StoredIsAccepted ==
  ReporterGuarantee => \A e \in Events :
    (e \in pending /\ e.type # "malformed" /\ Needs(e) \subseteq pending \cup inbox)
      ~> (e \in inbox)

\* A run never stays open: when its run.end is lost, or was accepted before the
\* run.start and so ignored, the cleanup closes it.
OpenRunsClose ==
  \A r \in Runs : (status[r] \in {"pending", "running"}) ~> (status[r] \in Terminal)

-----------------------------------------------------------------------------
(* The promise of the worker: RunLedger.                                    *)

Phase(r) == IF status[r] = "absent" THEN "absent"
            ELSE IF status[r] \in Terminal THEN "closed" ELSE "open"

Ledger == INSTANCE RunLedger WITH
  TestEnds <- {e \in Events : e.type = "test.end"},
  Weight   <- [e \in {f \in Events : f.type = "test.end"} |-> Bump(e)],
  phase    <- [r \in Runs |-> Phase(r)],
  tallied  <- Ended,
  tally    <- counts,
  booked   <- [d \in Days |-> daily[d]["runs"]]

\* With the run.end events the reporters send, the worker implements RunLedger.
ImplementsLedger == Ledger!Spec
=============================================================================
