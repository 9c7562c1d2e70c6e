------------------------ MODULE ResultProcessorProofs ------------------------
(* What TLAPS proves about the worker, for every set of events, runs, calls   *)
(* and processes, and for every number of failures and crashes.              *)
EXTENDS ResultProcessor, FiniteSetTheorems, TLAPS

USE EventsAssumption, DayAssumption, HostAssumption, BoundAssumption

-----------------------------------------------------------------------------
(* Types.                                                                   *)

\* An event has the fields of its type.
LEMMA EventFields ==
  ASSUME NEW e \in Events
  PROVE  /\ e.run \in Runs
         /\ e.type = "suite.start" => e \in SuiteStart
         /\ e.type = "test.start" => e \in TestStart
         /\ e.type = "test.end" => e \in TestEnd
         /\ e.type = "run.end" => e \in RunEnd
<1>1. e \in EventType OBVIOUS
<1>2. CASE e \in RunStart BY <1>2 DEF RunStart
<1>3. CASE e \in SuiteStart BY <1>3 DEF SuiteStart
<1>4. CASE e \in SuiteEnd BY <1>4 DEF SuiteEnd
<1>5. CASE e \in TestStart BY <1>5 DEF TestStart
<1>6. CASE e \in TestEnd BY <1>6 DEF TestEnd
<1>7. CASE e \in RunEnd BY <1>7 DEF RunEnd
<1>8. CASE e \in Malformed BY <1>8 DEF Malformed
<1> QED BY <1>1, <1>2, <1>3, <1>4, <1>5, <1>6, <1>7, <1>8 DEF EventType

\* The rows of the database have their types.
TypesOfRows ==
  /\ status \in [Runs -> RunStatuses \cup {"absent"}]
  /\ finishedAt \in [Runs -> RunEnd \cup {NotFinished, CleanupTime}]
  /\ counts \in [Runs -> [Counters -> Nat]]
  /\ suites \subseteq SuiteRow
  /\ tests \subseteq TestRow
  /\ daily \in [Days -> [DailyCounters -> Nat]]
  /\ flaky \in [Names -> [Days -> [FlakyCounters -> Nat]]]
  /\ groups \in [Errors -> Nat]
  /\ occurrences \subseteq Occurrence
  /\ dirty \subseteq Runs \X {"status", "counts"}

LEMMA RunStartTypes ==
  ASSUME TypesOfRows, NEW e \in Events, RunStartHandler(e)
  PROVE  TypesOfRows'
<1>1. e.run \in Runs BY EventFields
<1> QED BY <1>1 DEF TypesOfRows, RunStartHandler, RunStatuses, statVars

LEMMA SuiteStartTypes ==
  ASSUME TypesOfRows, NEW e \in Events, SuiteStartHandler(e)
  PROVE  TypesOfRows'
<1>1. e \in SuiteStart BY EventFields DEF SuiteStartHandler
<1>2. suites' \subseteq SuiteRow
  BY <1>1 DEF TypesOfRows, SuiteStartHandler, SuiteStart, SuiteRow
<1> QED BY <1>2 DEF TypesOfRows, SuiteStartHandler, statVars, runVars

LEMMA TestStartTypes ==
  ASSUME TypesOfRows, NEW e \in Events, TestStartHandler(e)
  PROVE  TypesOfRows'
<1>1. e \in TestStart BY EventFields DEF TestStartHandler
<1>2. tests' \subseteq TestRow
  BY <1>1 DEF TypesOfRows, TestStartHandler, TestStart, TestRow, TestStatuses
<1>3. e.run \in Runs BY EventFields
<1> QED BY <1>2, <1>3 DEF TypesOfRows, TestStartHandler, statVars, RunStatuses

LEMMA TestEndTypes ==
  ASSUME TypesOfRows, NEW e \in Events, TestEndHandler(e)
  PROVE  TypesOfRows'
<1>1. e \in TestEnd BY EventFields DEF TestEndHandler
<1>2. /\ e.run \in Runs /\ e.test \in Tests /\ e.status \in TestStatuses
      /\ e.retries \in Nat /\ e.error \in Errors \cup {NoError} /\ e.at \in Times
  BY <1>1 DEF TestEnd
<1>3. tests' \subseteq TestRow
  <2> DEFINE ended(t) == [t EXCEPT !.status = e.status, !.retries = e.retries,
                                   !.group = IF HasError(e) THEN e.error ELSE @]
  <2>1. ASSUME NEW t \in TestRow PROVE ended(t) \in TestRow
    <3>1. (IF HasError(e) THEN e.error ELSE t.group) \in Errors \cup {NoGroup}
      BY <1>2 DEF HasError, TestRow
    <3> QED BY <1>2, <3>1 DEF TestRow
  <2>2. tests' = {IF t \in MatchingTests(e) THEN ended(t) ELSE t : t \in tests}
    BY DEF TestEndHandler
  <2> HIDE DEF ended
  <2> QED BY <2>1, <2>2 DEF TypesOfRows
<1>4. groups' \in [Errors -> Nat] /\ occurrences' \subseteq Occurrence
  <2>1. CASE HasError(e)
    <3>1. e.error \in Errors BY <2>1, <1>2 DEF HasError
    <3> DEFINE occurrence == [run |-> e.run, test |-> e.test, error |-> e.error]
    <3>2. GroupError(e) BY DEF TestEndHandler
    <3>3. /\ groups' = groups \/ groups' = [groups EXCEPT ![e.error] = 1]
          /\ occurrences' = occurrences \/ occurrences' = occurrences \cup {occurrence}
      BY <2>1, <3>2 DEF GroupError
    <3>4. groups' \in [Errors -> Nat] BY <3>3 DEF TypesOfRows
    <3>5. occurrence \in Occurrence BY <3>1, <1>2 DEF Occurrence
    <3> QED BY <3>3, <3>4, <3>5 DEF TypesOfRows
  <2>2. CASE ~HasError(e) BY <2>2 DEF TestEndHandler, GroupError, TypesOfRows
  <2> QED BY <2>1, <2>2
<1>5. counts' \in [Runs -> [Counters -> Nat]]
  <2>1. Bump(e) \in [Counters -> Nat] BY DEF Bump
  <2>2. counts' = [counts EXCEPT ![e.run] = [c \in Counters |-> @[c] + Bump(e)[c]]]
    BY DEF TestEndHandler
  <2> QED BY <2>1, <2>2, <1>2 DEF TypesOfRows
<1>6. flaky' \in [Names -> [Days -> [FlakyCounters -> Nat]]]
  <2> DEFINE flake == [flaky |-> 1, total |-> 1, retries |-> e.retries]
  <2>1. PICK t \in MatchingTests(e) :
          flaky' = [flaky EXCEPT ![t.name][DayOf[e.at]] =
             [c \in FlakyCounters |->
                @[c] + IF e.status = "flaky" \/ c = "total" THEN flake[c] ELSE 0]]
    BY DEF TestEndHandler
  <2>2. t.name \in Names BY DEF TypesOfRows, MatchingTests, TestRow
  <2>3. DayOf[e.at] \in Days BY <1>2
  <2>4. \A c \in FlakyCounters : flake[c] \in Nat BY <1>2 DEF FlakyCounters
  <2> QED BY SMTT(60), <2>1, <2>2, <2>3, <2>4 DEF TypesOfRows
<1>7. /\ dirty' = dirty \cup {<<e.run, "counts">>}
      /\ UNCHANGED <<status, finishedAt, suites, daily>>
  BY DEF TestEndHandler
<1> QED BY <1>2, <1>3, <1>4, <1>5, <1>6, <1>7 DEF TypesOfRows

\* The statistics a run ends with are numbers: there are finitely many rows of tests.
LEMMA RunEndTypes ==
  ASSUME TypesOfRows, IsFiniteSet(tests), NEW e \in Events, RunEndHandler(e)
  PROVE  TypesOfRows'
<1>1. e \in RunEnd BY EventFields DEF RunEndHandler
<1>2. e.run \in Runs /\ e.status \in RunStatuses /\ e.at \in Times
  BY <1>1 DEF RunEnd
<1>3. RetriedTests(e.run) \in Nat
  <2> DEFINE retried == {t \in tests : t.run = e.run /\ t.retries > 0}
  <2>1. retried \in SUBSET tests OBVIOUS
  <2> HIDE DEF retried
  <2>2. IsFiniteSet(retried) BY <2>1, FS_Subset
  <2>3. Cardinality(retried) \in Nat BY <2>2, FS_CardinalityType
  <2> QED BY <2>3 DEF RetriedTests, retried
<1>4. Snapshot(e.run) \in [DailyCounters -> Nat]
  BY <1>2, <1>3 DEF Snapshot, TypesOfRows, DailyCounters
<1>5. CASE MayEnd(e)
  <2>1. /\ status' = [status EXCEPT ![e.run] = e.status]
        /\ finishedAt' = [finishedAt EXCEPT ![e.run] = e]
        /\ daily' = [daily EXCEPT ![DayOf[e.at]] =
                       [c \in DailyCounters |-> @[c] + Snapshot(e.run)[c]]]
        /\ dirty' = dirty \cup {<<e.run, "status">>}
        /\ UNCHANGED <<counts, suites, tests, flaky, groups, occurrences>>
    BY <1>5 DEF RunEndHandler
  <2>2. daily' \in [Days -> [DailyCounters -> Nat]]
    <3>1. DayOf[e.at] \in Days BY <1>2
    <3> QED BY <2>1, <3>1, <1>4 DEF TypesOfRows
  <2> QED BY <2>1, <2>2, <1>1, <1>2 DEF TypesOfRows
<1>6. CASE ~MayEnd(e)
  BY <1>6 DEF RunEndHandler, TypesOfRows
<1> QED BY <1>5, <1>6

\* Whatever the type of the event.
LEMMA RouteEventTypes ==
  ASSUME TypesOfRows, IsFiniteSet(tests), NEW e \in Events, RouteEvent(e)
  PROVE  TypesOfRows'
<1>1. CASE RunStartHandler(e) BY <1>1, RunStartTypes
<1>2. CASE SuiteStartHandler(e) BY <1>2, SuiteStartTypes
<1>3. CASE SuiteEndHandler(e)
  BY <1>3 DEF SuiteEndHandler, TypesOfRows, runVars, statVars
<1>4. CASE TestStartHandler(e) BY <1>4, TestStartTypes
<1>5. CASE TestEndHandler(e) BY <1>5, TestEndTypes
<1>6. CASE RunEndHandler(e) BY <1>6, RunEndTypes
<1> QED BY <1>1, <1>2, <1>3, <1>4, <1>5, <1>6 DEF RouteEvent

\* A handler adds at most one row of tests, or updates rows in place.
LEMMA RouteEventFinite ==
  ASSUME IsFiniteSet(tests), NEW e \in Events, RouteEvent(e)
  PROVE  IsFiniteSet(tests')
<1>1. CASE TestStartHandler(e)
  BY <1>1, FS_AddElement DEF TestStartHandler
<1>2. CASE TestEndHandler(e)
  <2> DEFINE ended(t) == [t EXCEPT !.status = e.status, !.retries = e.retries,
                                   !.group = IF HasError(e) THEN e.error ELSE @]
             f == [t \in tests |-> IF t \in MatchingTests(e) THEN ended(t) ELSE t]
  <2>1. tests' = {f[t] : t \in tests} BY <1>2 DEF TestEndHandler
  <2> HIDE DEF f
  <2>2. DOMAIN f = tests /\ f = [t \in tests |-> f[t]] BY DEF f
  <2>3. f \in Surjection(tests, tests') BY <2>1, <2>2 DEF Surjection
  <2> QED BY <2>3, FS_Surjection
<1>3. CASE tests' = tests BY <1>3
<1>4. QED
  BY <1>1, <1>2, <1>3 DEF RouteEvent, RunStartHandler, SuiteStartHandler,
     SuiteEndHandler, RunEndHandler

-----------------------------------------------------------------------------
(* Type correctness.                                                        *)

TypeInv == TypeOK /\ IsFiniteSet(tests)

LEMMA TypeInvInit == Init => TypeInv
<1> SUFFICES ASSUME Init PROVE TypeInv OBVIOUS
<1>1. pending \subseteq Events BY DEF Init
<1>2. IsFiniteSet(tests) BY FS_EmptySet DEF Init
<1> QED BY <1>1, <1>2 DEF Init, TypeInv, TypeOK, RunStatuses, Zero, Counters,
        DailyCounters, FlakyCounters

LEMMA TypeInvAccept ==
  ASSUME TypeInv, NEW q \in Requests, NEW e \in left[q], Accept(q, e)
  PROVE  TypeInv'
<1>1. e \in Events BY DEF TypeInv, TypeOK
<1>2. RouteEvent(e) BY DEF Accept
<1>3. TypesOfRows' BY <1>1, <1>2, RouteEventTypes DEF TypeInv, TypeOK, TypesOfRows
<1>4. IsFiniteSet(tests') BY <1>1, <1>2, RouteEventFinite DEF TypeInv
<1>5. /\ inbox' \subseteq Events
      /\ left' \in [Requests -> SUBSET Events]
      /\ committed' \in [Requests -> SUBSET Events]
      /\ UNCHANGED <<pending, batch, failed, timers, old, faults, crashes>>
  BY <1>1 DEF Accept, Advance, TypeInv, TypeOK, envVars
<1> QED BY <1>3, <1>4, <1>5 DEF TypeInv, TypeOK, TypesOfRows

LEMMA TypeInvNext == TypeInv /\ [Next]_vars => TypeInv'
<1> SUFFICES ASSUME TypeInv, [Next]_vars PROVE TypeInv' OBVIOUS
<1> USE DEF TypeInv, TypeOK
<1>1. ASSUME NEW q \in Requests, Deliver(q) PROVE TypeInv'
  BY <1>1 DEF Deliver, dbVars, runVars, statVars, memVars, envVars
<1>2. ASSUME NEW q \in Requests, NEW e \in left[q], Skip(q, e) PROVE TypeInv'
  BY <1>2 DEF Skip, Advance, dbVars, runVars, statVars, memVars, envVars
<1>3. ASSUME NEW q \in Requests, NEW e \in left[q], Accept(q, e) PROVE TypeInv'
  BY <1>3, TypeInvAccept
<1>4. ASSUME NEW q \in Requests, NEW e \in left[q], Reject(q, e) PROVE TypeInv'
  BY <1>4 DEF Reject, Advance, dbVars, runVars, statVars, memVars, envVars
<1>5. ASSUME NEW q \in Requests, NEW e \in left[q], Fault(q, e) PROVE TypeInv'
  BY <1>5 DEF Fault, Advance, dbVars, runVars, statVars, memVars
<1>6. ASSUME NEW q \in Requests, Notify(q) PROVE TypeInv'
  <2>1. PICK e \in committed[q] :
          /\ committed' = [committed EXCEPT ![q] = {}]
          /\ timers' = TimersAfter(q, e)
          /\ dirty' = IF Publishes(e) THEN dirty \ Announced(e.run) ELSE dirty
          /\ UNCHANGED <<pending, batch, left, failed, dbVars, envVars>>
    BY <1>6 DEF Notify
  <2>2. e.run \in Runs BY EventFields
  <2>3. timers' \subseteq Procs \X Runs BY <2>1, <2>2 DEF TimersAfter
  <2> QED BY <2>1, <2>3 DEF dbVars, runVars, statVars, envVars
<1>7. ASSUME NEW q \in Requests, Respond(q) PROVE TypeInv'
  BY <1>7 DEF Respond, dbVars, runVars, statVars, memVars, envVars
<1>8. ASSUME NEW q \in Requests, ResponseLost(q) PROVE TypeInv'
  BY <1>8 DEF ResponseLost, dbVars, runVars, statVars, memVars
<1>9. ASSUME NEW p \in Procs, NEW r \in Runs, TimerFires(p, r) PROVE TypeInv'
  BY <1>9 DEF TimerFires, queueVars, dbVars, runVars, statVars, envVars
<1>10. ASSUME NEW r \in Runs, GrowOld(r) PROVE TypeInv'
  BY <1>10 DEF GrowOld, queueVars, dbVars, runVars, statVars, memVars
<1>11. CASE CleanupOrphanedRuns
  BY <1>11 DEF CleanupOrphanedRuns, Orphans, queueVars, statVars, envVars, RunStatuses
<1>12. ASSUME NEW p \in Procs, Crash(p) PROVE TypeInv'
  <2>1. /\ batch' \in [Requests -> SUBSET Events]
        /\ left' \in [Requests -> SUBSET Events]
        /\ committed' \in [Requests -> SUBSET Events]
    BY <1>12 DEF Crash
  <2>2. failed' \in [Requests -> BOOLEAN]
    <3>1. \A q \in Requests : (IF Host[q] = p THEN FALSE ELSE failed[q]) \in BOOLEAN
      OBVIOUS
    <3> QED BY <1>12, <3>1, Zenon DEF Crash
  <2>3. crashes' \in 0..MaxCrashes /\ timers' \subseteq timers
    BY <1>12 DEF Crash
  <2> QED BY <1>12, <2>1, <2>2, <2>3 DEF Crash, dbVars, runVars, statVars
<1>13. CASE UNCHANGED vars
  BY <1>13 DEF vars, queueVars, dbVars, runVars, statVars, memVars, envVars
<1> QED BY <1>1, <1>2, <1>3, <1>4, <1>5, <1>6, <1>7, <1>8, <1>9, <1>10, <1>11, <1>12,
        <1>13 DEF Next, ProcessEvent

\* Every variable keeps its type, whatever is delivered, fails or crashes.
THEOREM TypeCorrect == Spec => []TypeOK
<1>1. Init => TypeInv BY TypeInvInit
<1>2. TypeInv /\ [Next]_vars => TypeInv' BY TypeInvNext
<1>3. TypeInv => TypeOK BY DEF TypeInv
<1> QED BY <1>1, <1>2, <1>3, PTL DEF Spec

-----------------------------------------------------------------------------
(* The counters of a run are its accepted ends of tests.                    *)

Counted(r, c) == {e \in Ended : e.run = r /\ (c = "total" \/ c = e.status)}

\* The writes of a handler other than that of test.end leave the counters alone.
LEMMA OnlyTestEndCounts ==
  ASSUME NEW e, RouteEvent(e)
  PROVE  \/ e.type = "test.end" /\ TestEndHandler(e)
         \/ e.type # "test.end" /\ counts' = counts
<1>1. CASE TestEndHandler(e)
  <2>1. e.type = "test.end" BY <1>1 DEF TestEndHandler
  <2> QED BY <1>1, <2>1
<1>2. CASE RunStartHandler(e) BY <1>2 DEF RunStartHandler
<1>3. CASE SuiteStartHandler(e) BY <1>3 DEF SuiteStartHandler, runVars
<1>4. CASE SuiteEndHandler(e) BY <1>4 DEF SuiteEndHandler, runVars
<1>5. CASE TestStartHandler(e) BY <1>5 DEF TestStartHandler
<1>6. CASE RunEndHandler(e) BY <1>6 DEF RunEndHandler
<1> QED BY <1>1, <1>2, <1>3, <1>4, <1>5, <1>6 DEF RouteEvent

\* One test.end adds one to the counters it belongs to, and one to the set they count.
LEMMA TestEndCounts ==
  ASSUME TypeInv, CountersMatchInbox, NEW e \in Events, e \notin inbox,
         e.type = "test.end", inbox' = inbox \cup {e}, TestEndHandler(e),
         NEW r \in Runs, NEW c \in Counters
  PROVE  counts'[r][c] = Cardinality(Counted(r, c)')
<1>1. counts[r][c] = Cardinality(Counted(r, c)) /\ counts[r][c] \in Nat
  BY DEF CountersMatchInbox, Counted, TypeInv, TypeOK
<1>2. IsFiniteSet(Counted(r, c))
  <2>1. Counted(r, c) \in SUBSET Events BY DEF Counted, Ended, TypeInv, TypeOK
  <2> QED BY <2>1, FS_Subset
<1>3. e \notin Counted(r, c) BY DEF Counted, Ended
<1>4. counts' = [counts EXCEPT ![e.run] = [d \in Counters |-> @[d] + Bump(e)[d]]]
  BY DEF TestEndHandler
<1>5. counts'[r][c] = IF e.run = r THEN counts[r][c] + Bump(e)[c] ELSE counts[r][c]
  BY <1>4 DEF TypeInv, TypeOK
<1>6. CASE e.run = r /\ (c = "total" \/ c = e.status)
  <2>1. Counted(r, c)' = Counted(r, c) \cup {e} BY <1>6 DEF Counted, Ended
  <2>2. Cardinality(Counted(r, c)') = Cardinality(Counted(r, c)) + 1
    BY <2>1, <1>2, <1>3, FS_AddElement
  <2>3. counts'[r][c] = counts[r][c] + 1 BY <1>5, <1>6 DEF Bump
  <2> QED BY <1>1, <2>2, <2>3
<1>7. CASE ~(e.run = r /\ (c = "total" \/ c = e.status))
  <2>1. Counted(r, c)' = Counted(r, c) BY <1>7 DEF Counted, Ended
  <2>2. counts'[r][c] = counts[r][c] BY <1>1, <1>5, <1>7 DEF Bump
  <2> QED BY <1>1, <2>1, <2>2
<1> QED BY <1>6, <1>7

\* A step that neither accepts an event nor writes counters preserves the agreement.
LEMMA CountsUnchanged ==
  ASSUME CountersMatchInbox, UNCHANGED <<inbox, counts>>
  PROVE  CountersMatchInbox'
BY DEF CountersMatchInbox, Ended

LEMMA CountersAccept ==
  ASSUME TypeInv, CountersMatchInbox, NEW q \in Requests, NEW e \in left[q], Accept(q, e)
  PROVE  CountersMatchInbox'
<1>1. e \in Events /\ e \notin inbox /\ inbox' = inbox \cup {e} /\ RouteEvent(e)
  BY DEF TypeInv, TypeOK, Accept
<1>2. CASE e.type = "test.end" /\ TestEndHandler(e)
  BY <1>1, <1>2, TestEndCounts DEF CountersMatchInbox, Counted
<1>3. CASE e.type # "test.end" /\ counts' = counts
  <2>1. Ended' = Ended BY <1>1, <1>3 DEF Ended
  <2> QED BY <1>3, <2>1 DEF CountersMatchInbox
<1> QED BY <1>1, <1>2, <1>3, OnlyTestEndCounts

\* Accept is the only step that touches the inbox and the counters.
LEMMA OnlyAcceptWrites ==
  ASSUME [Next]_vars
  PROVE  \/ \E q \in Requests : \E e \in left[q] : Accept(q, e)
         \/ UNCHANGED <<inbox, counts, daily>>
<1>1. CASE UNCHANGED vars BY <1>1 DEF vars, dbVars, runVars, statVars
<1>2. CASE Next
  BY <1>2 DEF Next, ProcessEvent, Deliver, Skip, Reject, Fault, Notify, Respond,
     ResponseLost, TimerFires, GrowOld, CleanupOrphanedRuns, Crash, dbVars, runVars,
     statVars
<1> QED BY <1>1, <1>2

LEMMA CountersInit == Init => CountersMatchInbox
<1> SUFFICES ASSUME Init, NEW r \in Runs, NEW c \in Counters
             PROVE  counts[r][c] = Cardinality(Counted(r, c))
  BY DEF CountersMatchInbox, Counted
<1>1. Counted(r, c) = {} BY DEF Init, Counted, Ended
<1>2. counts[r][c] = 0 BY DEF Init, Zero
<1> QED BY <1>1, <1>2, FS_EmptySet

LEMMA CountersNext == TypeInv /\ CountersMatchInbox /\ [Next]_vars => CountersMatchInbox'
BY CountersAccept, OnlyAcceptWrites, CountsUnchanged

\* Redeliveries, retries, rollbacks and crashes never count a test.end twice or lose it:
\* the counters of every run row equal the number of its accepted test.end events.
THEOREM CountersCorrect == Spec => []CountersMatchInbox
BY CountersInit, CountersNext, TypeInvInit, TypeInvNext, PTL DEF Spec

-----------------------------------------------------------------------------
(* What is finished stays finished.                                         *)

\* No status a run.end may replace is terminal.
LEMMA SourcesAreOpen == \A s \in RunStatuses : ValidSources(s) \subseteq {"pending", "running"}
BY DEF ValidSources

LEMMA RouteEventFinal ==
  ASSUME TypeInv, NEW e \in Events, RouteEvent(e), NEW r \in Runs, status[r] \in Terminal
  PROVE  status'[r] = status[r] /\ finishedAt'[r] = finishedAt[r]
<1> USE DEF TypeInv, TypeOK, Terminal
<1>1. e.run \in Runs BY EventFields
<1>2. CASE RunStartHandler(e) BY <1>1, <1>2 DEF RunStartHandler
<1>3. CASE SuiteStartHandler(e) BY <1>3 DEF SuiteStartHandler, runVars
<1>4. CASE SuiteEndHandler(e) BY <1>4 DEF SuiteEndHandler, runVars
<1>5. CASE TestStartHandler(e) BY <1>1, <1>5 DEF TestStartHandler
<1>6. CASE TestEndHandler(e) BY <1>6 DEF TestEndHandler
<1>7. CASE RunEndHandler(e)
  <2>1. e.status \in RunStatuses BY <1>7, EventFields DEF RunEndHandler, RunEnd
  <2>2. MayEnd(e) => e.run # r BY <2>1, SourcesAreOpen DEF MayEnd
  <2> QED BY <1>1, <1>7, <2>2 DEF RunEndHandler
<1> QED BY <1>2, <1>3, <1>4, <1>5, <1>6, <1>7 DEF RouteEvent

\* No event, no redelivery and no cleanup changes the status or the finish time of a run
\* that has finished.
THEOREM FinishedStays == Spec => FinishedIsFinal
<1> DEFINE Stays == \A r \in Runs : status[r] \in Terminal =>
                      status'[r] = status[r] /\ finishedAt'[r] = finishedAt[r]
<1>1. TypeInv /\ [Next]_vars => [Stays]_vars
  <2> SUFFICES ASSUME TypeInv, [Next]_vars, NEW r \in Runs, status[r] \in Terminal
               PROVE  status'[r] = status[r] /\ finishedAt'[r] = finishedAt[r]
    OBVIOUS
  <2>1. ASSUME NEW q \in Requests, NEW e \in left[q], Accept(q, e)
        PROVE  status'[r] = status[r] /\ finishedAt'[r] = finishedAt[r]
    <3>1. e \in Events /\ RouteEvent(e) BY <2>1 DEF Accept, TypeInv, TypeOK
    <3> QED BY <3>1, RouteEventFinal
  <2>2. CASE CleanupOrphanedRuns
    BY <2>2 DEF CleanupOrphanedRuns, Orphans, Terminal, TypeInv, TypeOK
  <2>3. CASE UNCHANGED <<status, finishedAt>> BY <2>3
  <2>4. CASE UNCHANGED vars BY <2>3, <2>4 DEF vars, dbVars, runVars
  <2>5. CASE Next
    BY <2>1, <2>2, <2>3, <2>5 DEF Next, ProcessEvent, Deliver, Skip, Reject, Fault, Notify,
       Respond, ResponseLost, TimerFires, GrowOld, Crash, dbVars, runVars
  <2> QED BY <2>4, <2>5
<1> QED BY <1>1, TypeInvInit, TypeInvNext, PTL DEF Spec, FinishedIsFinal

-----------------------------------------------------------------------------
(* What is confirmed was accepted.                                          *)

\* An event of an open call is still to process, was accepted or cannot be read, or its
\* call will answer 500; an event waiting to notify has been accepted.
CallsAccountForEvents ==
  /\ \A q \in Requests : \A e \in batch[q] :
       e \in left[q] \/ failed[q] \/ e \in inbox \/ e.type = "malformed"
  /\ \A q \in Requests : left[q] \subseteq batch[q]

LEMMA CallsInvInit == Init => CallsAccountForEvents
BY DEF Init, CallsAccountForEvents

LEMMA CallsInvNext ==
  TypeInv /\ CallsAccountForEvents /\ [Next]_vars => CallsAccountForEvents'
<1> SUFFICES ASSUME TypeInv, CallsAccountForEvents, [Next]_vars
             PROVE  CallsAccountForEvents'
  OBVIOUS
<1> USE DEF TypeInv, TypeOK, CallsAccountForEvents
<1>1. ASSUME NEW q \in Requests, Deliver(q) PROVE CallsAccountForEvents'
  BY <1>1 DEF Deliver, dbVars
<1>2. ASSUME NEW q \in Requests, NEW e \in left[q], Skip(q, e)
      PROVE  CallsAccountForEvents'
  BY <1>2 DEF Skip, Advance, dbVars
<1>3. ASSUME NEW q \in Requests, NEW e \in left[q], Accept(q, e)
      PROVE  CallsAccountForEvents'
  BY <1>3 DEF Accept, Advance
<1>4. ASSUME NEW q \in Requests, NEW e \in left[q], Reject(q, e)
      PROVE  CallsAccountForEvents'
  BY <1>4 DEF Reject, Advance, dbVars
<1>5. ASSUME NEW q \in Requests, NEW e \in left[q], Fault(q, e)
      PROVE  CallsAccountForEvents'
  BY <1>5 DEF Fault, Advance, dbVars
<1>6. ASSUME NEW q \in Requests, Notify(q) PROVE CallsAccountForEvents'
  BY <1>6 DEF Notify, dbVars
<1>7. ASSUME NEW q \in Requests, Respond(q) PROVE CallsAccountForEvents'
  BY <1>7 DEF Respond, dbVars
<1>8. ASSUME NEW q \in Requests, ResponseLost(q) PROVE CallsAccountForEvents'
  BY <1>8 DEF ResponseLost, dbVars
<1>9. ASSUME NEW p \in Procs, Crash(p) PROVE CallsAccountForEvents'
  BY <1>9 DEF Crash, dbVars
<1>10. CASE UNCHANGED <<queueVars, inbox>>
  BY <1>10 DEF queueVars
<1>11. CASE UNCHANGED vars BY <1>10, <1>11 DEF vars, dbVars
<1> QED BY <1>1, <1>2, <1>3, <1>4, <1>5, <1>6, <1>7, <1>8, <1>9, <1>10, <1>11
        DEF Next, ProcessEvent, TimerFires, GrowOld, CleanupOrphanedRuns, dbVars

\* The response 200 never covers an event whose transaction failed: what Outboxy is told
\* it may forget has been accepted, whatever was rejected, lost, retried or crashed.
THEOREM ConfirmedWasAccepted == Spec => ConfirmedIsAccepted
<1> DEFINE Confirms == \A e \in pending \ pending' : e \in inbox \/ e.type = "malformed"
<1>1. TypeInv /\ CallsAccountForEvents /\ [Next]_vars => [Confirms]_vars
  <2> SUFFICES ASSUME TypeInv, CallsAccountForEvents, Next,
                      NEW e \in pending \ pending'
               PROVE  e \in inbox \/ e.type = "malformed"
    BY DEF vars
  <2>1. PICK q \in Requests : Respond(q)
    BY DEF Next, ProcessEvent, Deliver, Skip, Accept, Reject, Fault, Advance, Notify,
       ResponseLost, TimerFires, GrowOld, CleanupOrphanedRuns, Crash, queueVars
  <2>2. ~failed[q] /\ e \in batch[q] /\ left[q] = {} BY <2>1 DEF Respond
  <2> QED BY <2>2 DEF CallsAccountForEvents
<1> QED BY <1>1, TypeInvInit, TypeInvNext, CallsInvInit, CallsInvNext, PTL
        DEF Spec, ConfirmedIsAccepted

-----------------------------------------------------------------------------
(* The worker implements RunLedger.                                         *)

\* A row of suites or tests has a row of runs.
RowsHaveRuns ==
  /\ \A s \in suites : status[s.run] # "absent"
  /\ \A t \in tests : status[t.run] # "absent"

\* No run is ever deleted.
LEMMA RunsStay ==
  ASSUME TypeInv, [Next]_vars, NEW r \in Runs, status[r] # "absent"
  PROVE  status'[r] # "absent"
<1> USE DEF TypeInv, TypeOK
<1>1. ASSUME NEW q \in Requests, NEW e \in left[q], Accept(q, e)
      PROVE  status'[r] # "absent"
  <2>1. e \in Events /\ RouteEvent(e) BY <1>1 DEF Accept
  <2>2. e.run \in Runs BY <2>1, EventFields
  <2>3. CASE RunStartHandler(e) BY <2>2, <2>3 DEF RunStartHandler
  <2>4. CASE SuiteStartHandler(e) BY <2>4 DEF SuiteStartHandler, runVars
  <2>5. CASE SuiteEndHandler(e) BY <2>5 DEF SuiteEndHandler, runVars
  <2>6. CASE TestStartHandler(e) BY <2>2, <2>6 DEF TestStartHandler
  <2>7. CASE TestEndHandler(e) BY <2>7 DEF TestEndHandler
  <2>8. CASE RunEndHandler(e)
    <3>1. e.status \in RunStatuses BY <2>1, <2>8, EventFields DEF RunEndHandler, RunEnd
    <3> QED BY <2>2, <2>8, <3>1 DEF RunEndHandler, RunStatuses
  <2> QED BY <2>1, <2>3, <2>4, <2>5, <2>6, <2>7, <2>8 DEF RouteEvent
<1>2. CASE CleanupOrphanedRuns BY <1>2 DEF CleanupOrphanedRuns
<1>3. CASE status' = status BY <1>3
<1>4. CASE UNCHANGED vars BY <1>3, <1>4 DEF vars, dbVars, runVars
<1>5. CASE Next
  BY <1>1, <1>2, <1>3, <1>5 DEF Next, ProcessEvent, Deliver, Skip, Reject, Fault, Notify,
     Respond, ResponseLost, TimerFires, GrowOld, Crash, dbVars, runVars
<1> QED BY <1>4, <1>5

LEMMA RowsInit == Init => RowsHaveRuns
BY DEF Init, RowsHaveRuns

LEMMA RowsNext == TypeInv /\ RowsHaveRuns /\ [Next]_vars => RowsHaveRuns'
<1> SUFFICES ASSUME TypeInv, RowsHaveRuns, [Next]_vars PROVE RowsHaveRuns' OBVIOUS
<1>1. CASE UNCHANGED <<suites, tests>>
  <2>1. \A s \in suites : s.run \in Runs BY DEF TypeInv, TypeOK, SuiteRow
  <2>2. \A t \in tests : t.run \in Runs BY DEF TypeInv, TypeOK, TestRow
  <2> QED BY <1>1, <2>1, <2>2, RunsStay DEF RowsHaveRuns
<1>2. ASSUME NEW q \in Requests, NEW e \in left[q], Accept(q, e)
      PROVE  RowsHaveRuns'
  <2>1. e \in Events /\ RouteEvent(e) /\ CanHandle(e) BY <1>2 DEF Accept, TypeInv, TypeOK
  <2>2. e.run \in Runs BY <2>1, EventFields
  <2>3. CASE SuiteStartHandler(e)
    <3>1. e.type = "suite.start" /\ status' = status /\ tests' = tests
      BY <2>3 DEF SuiteStartHandler, runVars
    <3>2. \A s \in suites' : s \in suites \/ (~SuiteConflicts(e) /\ s.run = e.run)
      BY <2>3 DEF SuiteStartHandler
    <3>3. SuiteConflicts(e) \/ status[e.run] # "absent"
      BY <2>1, <3>1 DEF CanHandle, SuiteDependenciesReady
    <3> QED BY <3>1, <3>2, <3>3 DEF RowsHaveRuns
  <2>4. CASE TestStartHandler(e)
    <3>1. e.type = "test.start" /\ suites' = suites BY <2>4 DEF TestStartHandler
    <3>2. \E s \in suites : s.run = e.run
      BY <2>1, <3>1 DEF CanHandle, SuiteOfRun
    <3>3. \A t \in tests' : t \in tests \/ t.run = e.run
      BY <2>4 DEF TestStartHandler
    <3>4. \A s \in suites : s.run \in Runs BY DEF TypeInv, TypeOK, SuiteRow
    <3>5. \A t \in tests : t.run \in Runs BY DEF TypeInv, TypeOK, TestRow
    <3> QED BY <3>1, <3>2, <3>3, <3>4, <3>5, <2>2, RunsStay DEF RowsHaveRuns
  <2>5. CASE TestEndHandler(e)
    <3>1. suites' = suites /\ status' = status BY <2>5 DEF TestEndHandler
    <3> DEFINE ended(t) == [t EXCEPT !.status = e.status, !.retries = e.retries,
                                     !.group = IF HasError(e) THEN e.error ELSE @]
    <3>2. tests' = {IF t \in MatchingTests(e) THEN ended(t) ELSE t : t \in tests}
      BY <2>5 DEF TestEndHandler
    <3>3. \A t \in TestRow : ended(t).run = t.run BY DEF TestRow
    <3> HIDE DEF ended
    <3> QED BY <3>1, <3>2, <3>3 DEF RowsHaveRuns, TypeInv, TypeOK
  <2>6. CASE UNCHANGED <<suites, tests>> BY <2>6, <1>1
  <2> QED BY <2>1, <2>3, <2>4, <2>5, <2>6 DEF RouteEvent, RunStartHandler, SuiteEndHandler,
          RunEndHandler
<1>3. CASE UNCHANGED vars BY <1>1, <1>3 DEF vars, dbVars
<1>4. CASE Next
  BY <1>1, <1>2, <1>4 DEF Next, ProcessEvent, Deliver, Skip, Reject, Fault, Notify,
     Respond, ResponseLost, TimerFires, GrowOld, CleanupOrphanedRuns, Crash, dbVars
<1> QED BY <1>3, <1>4

LedgerVars == <<[r \in Runs |-> Phase(r)], Ended, counts, [d \in Days |-> daily[d]["runs"]]>>

\* An accepted event is a step of the ledger, or one it does not see.
LEMMA AcceptRefines ==
  ASSUME OnlyTerminalEnds, TypeInv, RowsHaveRuns, NEW q \in Requests, NEW e \in left[q],
         Accept(q, e)
  PROVE  Ledger!Next \/ UNCHANGED LedgerVars
<1>1. /\ e \in Events /\ e \notin inbox /\ inbox' = inbox \cup {e} /\ RouteEvent(e)
      /\ CanHandle(e) /\ e.run \in Runs
  BY EventFields DEF TypeInv, TypeOK, Accept
<1>2. e.type # "test.end" => Ended' = Ended BY <1>1 DEF Ended
<1>3. CASE RunStartHandler(e)
  <2>1. Ended' = Ended /\ counts' = counts /\ daily' = daily
    BY <1>2, <1>3 DEF RunStartHandler, statVars
  <2>2. CASE status[e.run] = "absent"
    <3>1. status' = [status EXCEPT ![e.run] = "pending"] BY <1>3, <2>2 DEF RunStartHandler
    <3>2. [r \in Runs |-> Phase(r)]' = [[r \in Runs |-> Phase(r)] EXCEPT ![e.run] = "open"]
      BY <3>1, <1>1 DEF Phase, Terminal, TypeInv, TypeOK
    <3>3. Ledger!Open(e.run) BY <1>1, <2>1, <2>2, <3>2 DEF Ledger!Open, Phase
    <3> QED BY <1>1, <3>3 DEF Ledger!Next
  <2>3. CASE status[e.run] # "absent"
    <3>1. status' = status BY <1>3, <2>3 DEF RunStartHandler
    <3> QED BY <2>1, <3>1 DEF LedgerVars, Phase
  <2> QED BY <2>2, <2>3
<1>4. CASE SuiteStartHandler(e) \/ SuiteEndHandler(e)
  BY <1>2, <1>4 DEF SuiteStartHandler, SuiteEndHandler, LedgerVars, Phase, runVars, statVars
<1>5. CASE TestStartHandler(e)
  <2>1. Ended' = Ended /\ counts' = counts /\ daily' = daily
    BY <1>2, <1>5 DEF TestStartHandler, statVars
  <2>2. \/ status' = status
        \/ status[e.run] = "pending" /\ status' = [status EXCEPT ![e.run] = "running"]
    BY <1>5 DEF TestStartHandler
  <2>3. \A r \in Runs : Phase(r)' = Phase(r)
    BY <2>2, <1>1 DEF Phase, Terminal, TypeInv, TypeOK
  <2> QED BY <2>1, <2>3 DEF LedgerVars
<1>6. CASE TestEndHandler(e)
  <2>1. e.type = "test.end" /\ UNCHANGED <<status, daily>>
    BY <1>6 DEF TestEndHandler
  <2>2. status[e.run] # "absent"
    BY <1>1, <2>1 DEF CanHandle, MatchingTests, RowsHaveRuns
  <2>3. Phase(e.run) # "absent" BY <2>2 DEF Phase
  <2>4. Ended' = Ended \cup {e} /\ e \notin Ended BY <1>1, <2>1 DEF Ended
  <2>5. counts' = [counts EXCEPT ![e.run] = [c \in Counters |-> @[c] + Bump(e)[c]]]
    BY <1>6 DEF TestEndHandler
  <2>6. [r \in Runs |-> Phase(r)]' = [r \in Runs |-> Phase(r)] BY <2>1 DEF Phase
  <2>7. e \in {f \in Events : f.type = "test.end"} BY <1>1, <2>1
  <2>8. Ledger!Tally(e) BY <1>1, <2>1, <2>3, <2>4, <2>5, <2>6, <2>7 DEF Ledger!Tally
  <2> QED BY <2>7, <2>8 DEF Ledger!Next
<1>7. CASE RunEndHandler(e)
  <2>1. Ended' = Ended /\ counts' = counts BY <1>2, <1>7 DEF RunEndHandler
  <2>2. e.type = "run.end" /\ e \in RunEnd /\ e.status \in Terminal
    BY <1>1, <1>7, EventFields DEF RunEndHandler, OnlyTerminalEnds
  <2>3. DayOf[e.at] \in Days BY <2>2 DEF RunEnd
  <2>4. CASE MayEnd(e)
    <3>1. /\ status' = [status EXCEPT ![e.run] = e.status]
          /\ daily' = [daily EXCEPT ![DayOf[e.at]] =
                         [c \in DailyCounters |-> @[c] + Snapshot(e.run)[c]]]
      BY <1>7, <2>4 DEF RunEndHandler
    <3>2. Phase(e.run) = "open"
      BY <2>2, <2>4 DEF MayEnd, ValidSources, Phase, Terminal
    <3>3. [r \in Runs |-> Phase(r)]' = [[r \in Runs |-> Phase(r)] EXCEPT ![e.run] = "closed"]
      BY <1>1, <2>2, <3>1 DEF Phase, Terminal, TypeInv, TypeOK
    <3>4. Snapshot(e.run)["runs"] = 1 BY DEF Snapshot, DailyCounters
    <3>5. [d \in Days |-> daily[d]["runs"]]' =
            [[d \in Days |-> daily[d]["runs"]] EXCEPT ![DayOf[e.at]] = @ + 1]
      BY <2>3, <3>1, <3>4 DEF TypeInv, TypeOK, DailyCounters
    <3>6. Ledger!Close(e.run, DayOf[e.at])
      BY <1>1, <2>1, <3>2, <3>3, <3>5 DEF Ledger!Close
    <3> QED BY <1>1, <2>3, <3>6 DEF Ledger!Next
  <2>5. CASE ~MayEnd(e)
    BY <1>7, <2>1, <2>5 DEF RunEndHandler, LedgerVars, Phase
  <2> QED BY <2>4, <2>5
<1> QED BY <1>1, <1>3, <1>4, <1>5, <1>6, <1>7 DEF RouteEvent

LEMMA NextRefines ==
  ASSUME OnlyTerminalEnds, TypeInv, RowsHaveRuns, [Next]_vars
  PROVE  Ledger!Next \/ UNCHANGED LedgerVars
<1>1. ASSUME NEW q \in Requests, NEW e \in left[q], Accept(q, e)
      PROVE  Ledger!Next \/ UNCHANGED LedgerVars
  BY <1>1, AcceptRefines
<1>2. CASE CleanupOrphanedRuns
  <2>1. Orphans \subseteq Runs /\ \A r \in Orphans : Phase(r) = "open"
    BY DEF Orphans, Phase, Terminal, TypeInv, TypeOK
  <2>2. [r \in Runs |-> Phase(r)]' =
          [r \in Runs |-> IF r \in Orphans THEN "closed" ELSE [u \in Runs |-> Phase(u)][r]]
    BY <1>2 DEF CleanupOrphanedRuns, Phase, Terminal
  <2>3. Ended' = Ended /\ counts' = counts /\ daily' = daily
    BY <1>2 DEF CleanupOrphanedRuns, Ended, statVars
  <2>4. Ledger!Abandon(Orphans) BY <2>1, <2>2, <2>3 DEF Ledger!Abandon
  <2> QED BY <2>1, <2>4 DEF Ledger!Next
<1>3. CASE UNCHANGED <<inbox, status, counts, daily>>
  BY <1>3 DEF LedgerVars, Ended, Phase
<1>4. CASE UNCHANGED vars BY <1>3, <1>4 DEF vars, dbVars, runVars, statVars
<1>5. CASE Next
  BY <1>1, <1>2, <1>3, <1>5 DEF Next, ProcessEvent, Deliver, Skip, Reject, Fault, Notify,
     Respond, ResponseLost, TimerFires, GrowOld, Crash, dbVars, runVars, statVars
<1> QED BY <1>4, <1>5

\* With the run.end events the reporters send, every behaviour of the worker is one of
\* RunLedger: a run opens and closes once, only a run.end books it, once, and each end of
\* a test is tallied once, in a run that exists.
THEOREM WorkerImplementsLedger ==
  ASSUME OnlyTerminalEnds
  PROVE  Spec => ImplementsLedger
<1>1. Init => Ledger!Init
  <2> SUFFICES ASSUME Init PROVE Ledger!Init OBVIOUS
  <2>1. [r \in Runs |-> Phase(r)] = [r \in Runs |-> "absent"] BY DEF Init, Phase
  <2>2. Ended = {} BY DEF Init, Ended
  <2>3. counts = [r \in Runs |-> [c \in Counters |-> 0]] BY DEF Init, Zero
  <2>4. [d \in Days |-> daily[d]["runs"]] = [d \in Days |-> 0]
    BY DEF Init, Zero, DailyCounters
  <2> QED BY <2>1, <2>2, <2>3, <2>4 DEF Ledger!Init
<1>2. TypeInv /\ RowsHaveRuns /\ [Next]_vars => [Ledger!Next]_(Ledger!ledger)
  BY NextRefines DEF LedgerVars, Ledger!ledger
<1> QED BY <1>1, <1>2, TypeInvInit, TypeInvNext, RowsInit, RowsNext, PTL
        DEF Spec, ImplementsLedger, Ledger!Spec

-----------------------------------------------------------------------------
(* The notification of a change of the counters.                            *)

\* A step that writes to the tables is the transaction of an event or the cleanup.
LEMMA WritingSteps ==
  ASSUME [Next]_vars
  PROVE  \/ \E q \in Requests : \E e \in left[q] : Accept(q, e)
         \/ CleanupOrphanedRuns
         \/ UNCHANGED dbVars
<1>1. CASE UNCHANGED vars BY <1>1 DEF vars
<1>2. CASE Next
  BY <1>2 DEF Next, ProcessEvent, Deliver, Skip, Reject, Fault, Notify, Respond,
     ResponseLost, TimerFires, GrowOld, Crash
<1> QED BY <1>1, <1>2

\* A call has at most one notification to come.
OneToNotify == \A q \in Requests : \A e, f \in committed[q] : e = f

LEMMA OneToNotifyNext == TypeInv /\ OneToNotify /\ [Next]_vars => OneToNotify'
<1> SUFFICES ASSUME TypeInv, OneToNotify, [Next]_vars PROVE OneToNotify' OBVIOUS
<1> USE DEF TypeInv, TypeOK, OneToNotify
<1>1. ASSUME NEW q \in Requests, NEW e \in left[q], Accept(q, e) PROVE OneToNotify'
  BY <1>1 DEF Accept
<1>2. ASSUME NEW q \in Requests, Notify(q) PROVE OneToNotify'
  BY <1>2 DEF Notify
<1>3. ASSUME NEW p \in Procs, Crash(p) PROVE OneToNotify'
  BY <1>3 DEF Crash
<1>4. CASE UNCHANGED committed BY <1>4
<1>5. CASE UNCHANGED vars BY <1>4, <1>5 DEF vars, queueVars
<1>6. CASE Next
  BY <1>1, <1>2, <1>3, <1>4, <1>6 DEF Next, ProcessEvent, Deliver, Skip, Reject, Fault,
     Respond, ResponseLost, TimerFires, GrowOld, CleanupOrphanedRuns, queueVars
<1> QED BY <1>5, <1>6

\* Only the end of a test leaves the counters of its run to announce.
LEMMA DirtiedBy ==
  ASSUME NEW e, RouteEvent(e), NEW r, <<r, "counts">> \in dirty'
  PROVE  <<r, "counts">> \in dirty \/ (e.type = "test.end" /\ e.run = r)
<1>1. \/ dirty' = dirty
      \/ dirty' = dirty \cup {<<e.run, "status">>}
      \/ e.type = "test.end" /\ dirty' = dirty \cup {<<e.run, "counts">>}
  BY DEF RouteEvent, RunStartHandler, SuiteStartHandler, SuiteEndHandler,
     TestStartHandler, TestEndHandler, RunEndHandler
<1>2. <<r, "counts">> # <<e.run, "status">> OBVIOUS
<1>3. <<r, "counts">> = <<e.run, "counts">> => r = e.run OBVIOUS
<1> QED BY <1>1, <1>2, <1>3

\* A notification is coming for the counters of the run.
Coming(r) ==
  \/ \E p \in Procs : <<p, r>> \in timers
  \/ \E q \in Requests : \E e \in committed[q] :
       e.run = r /\ e.type \in {"test.end", "run.end"}

LEMMA AnnouncedNext ==
  TypeInv /\ OneToNotify /\ CountsWillBeAnnounced /\ [Next]_vars => CountsWillBeAnnounced'
<1> SUFFICES ASSUME TypeInv, OneToNotify, CountsWillBeAnnounced, [Next]_vars,
                    NEW r \in Runs, crashes' = 0, <<r, "counts">> \in dirty'
             PROVE  Coming(r)'
  BY DEF CountsWillBeAnnounced, Coming
<1>1. (crashes = 0 /\ <<r, "counts">> \in dirty) => Coming(r)
  BY DEF CountsWillBeAnnounced, Coming
<1>2. ASSUME NEW q \in Requests, NEW e \in left[q], Accept(q, e) PROVE Coming(r)'
  <2>1. /\ e \in Events /\ RouteEvent(e) /\ committed[q] = {}
        /\ committed' = [committed EXCEPT ![q] = {e}]
        /\ UNCHANGED <<timers, crashes>>
    BY <1>2 DEF Accept, Advance, envVars, TypeInv, TypeOK
  <2>2. CASE <<r, "counts">> \in dirty
    BY <2>1, <2>2, <1>1 DEF Coming, TypeInv, TypeOK
  <2>3. CASE e.type = "test.end" /\ e.run = r
    BY <2>1, <2>3 DEF Coming, TypeInv, TypeOK
  <2> QED BY <2>1, <2>2, <2>3, DirtiedBy
<1>3. ASSUME NEW q \in Requests, Notify(q) PROVE Coming(r)'
  <2>1. PICK e \in committed[q] :
          /\ committed' = [committed EXCEPT ![q] = {}]
          /\ timers' = TimersAfter(q, e)
          /\ dirty' = IF Publishes(e) THEN dirty \ Announced(e.run) ELSE dirty
          /\ crashes' = crashes
    BY <1>3 DEF Notify, envVars
  <2>2. <<r, "counts">> \in dirty /\ (Publishes(e) => e.run # r)
    BY <2>1 DEF Announced
  <2>3. e.type # "run.end" \/ e.run # r BY <2>2 DEF Publishes
  <2>4. Coming(r) BY <1>1, <2>1, <2>2
  <2>5. CASE \E p \in Procs : <<p, r>> \in timers
    <3>1. PICK p \in Procs : <<p, r>> \in timers BY <2>5
    <3>2. <<p, r>> \in timers'
      <4>1. e.run # r => <<p, r>> # <<Host[q], e.run>> OBVIOUS
      <4> QED BY <2>1, <2>3, <3>1, <4>1 DEF TimersAfter
    <3> QED BY <3>2 DEF Coming
  <2>6. ASSUME NEW k \in Requests, NEW f \in committed[k], f.run = r,
               f.type \in {"test.end", "run.end"}
        PROVE  Coming(r)'
    <3>1. CASE k # q
      BY <2>1, <2>6, <3>1 DEF Coming, TypeInv, TypeOK
    <3>2. CASE k = q
      <4>1. f = e BY <2>1, <3>2 DEF OneToNotify
      <4>2. e.type = "test.end" BY <2>3, <2>6, <4>1
      <4>3. timers' = timers \cup {<<Host[q], e.run>>}
        BY <2>1, <4>2 DEF TimersAfter
      <4>4. Host[q] \in Procs OBVIOUS
      <4>5. <<Host[q], r>> \in timers' BY <2>6, <4>1, <4>3
      <4> QED BY <4>4, <4>5 DEF Coming
    <3> QED BY <3>1, <3>2
  <2> QED BY <2>4, <2>5, <2>6 DEF Coming
<1>4. ASSUME NEW p \in Procs, NEW u \in Runs, TimerFires(p, u) PROVE Coming(r)'
  <2>1. /\ timers' = timers \ {<<p, u>>} /\ dirty' = dirty \ Announced(u)
        /\ committed' = committed /\ crashes' = crashes
    BY <1>4 DEF TimerFires, queueVars, envVars
  <2>2. u # r BY <2>1 DEF Announced
  <2> QED BY <1>1, <2>1, <2>2 DEF Coming
<1>5. CASE CleanupOrphanedRuns
  <2>1. <<r, "counts">> \in dirty BY <1>5 DEF CleanupOrphanedRuns
  <2> QED BY <1>1, <1>5, <2>1 DEF CleanupOrphanedRuns, Coming, queueVars, envVars
<1>6. ASSUME NEW p \in Procs, Crash(p) PROVE FALSE
  BY <1>6 DEF Crash, TypeInv, TypeOK
<1>7. CASE UNCHANGED <<committed, timers, dirty, crashes>>
  BY <1>1, <1>7 DEF Coming
<1>8. CASE UNCHANGED vars BY <1>7, <1>8 DEF vars, queueVars, memVars, envVars
<1>9. CASE Next
  BY <1>2, <1>3, <1>4, <1>5, <1>6, <1>7, <1>9 DEF Next, ProcessEvent, Deliver, Skip, Reject,
     Fault, Respond, ResponseLost, GrowOld, memVars, envVars, queueVars
<1> QED BY <1>8, <1>9

\* Whatever the order of the commits, the notifications and the timers, and whichever
\* call handles which event: as long as no process has crashed, no change of the
\* counters of a run is left that nothing will announce.
THEOREM CountsAreAnnounced == Spec => []CountsWillBeAnnounced
<1>1. Init => OneToNotify /\ CountsWillBeAnnounced
  BY DEF Init, OneToNotify, CountsWillBeAnnounced
<1> QED BY <1>1, TypeInvInit, TypeInvNext, OneToNotifyNext, AnnouncedNext, PTL DEF Spec

-----------------------------------------------------------------------------
(* The rows of suites and tests.                                            *)

\* The rows a test.start and a test.end leave.
StartedRow(e) == [test |-> e.test, at |-> e.at, run |-> e.run, suite |-> e.suite,
                  name |-> e.name, status |-> "pending", retries |-> 0, group |-> NoGroup]

EndedRow(e, t) ==
  IF t.test = e.test /\ t.run = e.run
    THEN [t EXCEPT !.status = e.status, !.retries = e.retries,
                   !.group = IF HasError(e) THEN e.error ELSE @]
    ELSE t

LEMMA EndedRowFields ==
  ASSUME NEW e, NEW t \in TestRow
  PROVE  /\ EndedRow(e, t).test = t.test /\ EndedRow(e, t).run = t.run
         /\ EndedRow(e, t).suite = t.suite /\ EndedRow(e, t).name = t.name
         /\ t.test = e.test /\ t.run = e.run =>
              /\ EndedRow(e, t).status = e.status /\ EndedRow(e, t).retries = e.retries
              /\ EndedRow(e, t).group = IF HasError(e) THEN e.error ELSE t.group
         /\ ~(t.test = e.test /\ t.run = e.run) => EndedRow(e, t) = t
BY DEF EndedRow, TestRow

\* What a handler does to the rows of tests.
LEMMA RowsAfter ==
  ASSUME TypeInv, NEW e \in Events, RouteEvent(e)
  PROVE  \/ e.type = "test.start" /\ TestStartHandler(e)
            /\ (tests' = tests \/ tests' = tests \cup {StartedRow(e)})
         \/ e.type = "test.end" /\ TestEndHandler(e)
            /\ tests' = {EndedRow(e, t) : t \in tests}
         \/ e.type \notin {"test.start", "test.end"} /\ tests' = tests
<1>1. CASE TestStartHandler(e)
  BY <1>1 DEF TestStartHandler, StartedRow
<1>2. CASE TestEndHandler(e)
  <2>1. \A t \in tests : t \in MatchingTests(e) <=> t.test = e.test /\ t.run = e.run
    BY DEF MatchingTests
  <2>2. tests' = {EndedRow(e, t) : t \in tests}
    BY <1>2, <2>1 DEF TestEndHandler, EndedRow
  <2>3. e.type = "test.end" BY <1>2 DEF TestEndHandler
  <2> QED BY <1>2, <2>2, <2>3
<1>3. CASE RunStartHandler(e) BY <1>3 DEF RunStartHandler
<1>4. CASE SuiteStartHandler(e) BY <1>4 DEF SuiteStartHandler
<1>5. CASE SuiteEndHandler(e) BY <1>5 DEF SuiteEndHandler
<1>6. CASE RunEndHandler(e) BY <1>6 DEF RunEndHandler
<1> QED BY <1>1, <1>2, <1>3, <1>4, <1>5, <1>6 DEF RouteEvent

EndsOf(t) == {e \in Ended : e.test = t.test /\ e.run = t.run}

\* Every row of tests is there because of an accepted test.start, and an accepted
\* test.end has a row.
RowsComeFromStarts ==
  /\ \A t \in tests : \E f \in inbox : f.type = "test.start" /\ f.test = t.test /\ f.run = t.run
  /\ \A e \in Ended : \E t \in tests : t.test = e.test /\ t.run = e.run

\* With one test.start for a test there is one row.
OneRowPerTest == \A t, u \in tests : t.test = u.test /\ t.run = u.run => t = u

\* What a row says comes from an accepted test.end, or nothing has ended the test.
RowsSayWhatEnded ==
  \A t \in tests :
    \/ EndsOf(t) = {} /\ t.status = "pending" /\ t.retries = 0 /\ t.group = NoGroup
    \/ \E e \in EndsOf(t) : t.status = e.status /\ t.retries = e.retries

\* An error group is that of an occurrence of the test in its run.
GroupsHaveOccurrences ==
  \A t \in tests : t.group # NoGroup => \E o \in occurrences : o.test = t.test /\ o.run = t.run

\* Suites are nested in suites, tests belong to suites of their run.
RowsAreNested ==
  /\ \A s \in suites : s.parent # NoParent => \E u \in suites : u.suite = s.parent
  /\ \A t \in tests : \E s \in suites : s.suite = t.suite /\ s.run = t.run

RowsInv == /\ RowsHaveRuns /\ RowsComeFromStarts /\ OneRowPerTest /\ RowsSayWhatEnded
           /\ GroupsHaveOccurrences /\ RowsAreNested

LEMMA RowsInvInit == Init => RowsInv
BY DEF Init, RowsInv, RowsHaveRuns, RowsComeFromStarts, OneRowPerTest, RowsSayWhatEnded,
   GroupsHaveOccurrences, RowsAreNested, Ended

LEMMA RowsInvUnchanged ==
  ASSUME RowsInv, RowsHaveRuns', UNCHANGED <<inbox, suites, tests, occurrences>>
  PROVE  RowsInv'
BY SMTT(60) DEF RowsInv, RowsComeFromStarts, OneRowPerTest, RowsSayWhatEnded, GroupsHaveOccurrences,
   RowsAreNested, Ended, EndsOf

\* Rows of suites and occurrences are only added.
LEMMA SuitesStay ==
  ASSUME NEW e, RouteEvent(e)
  PROVE  suites \subseteq suites' /\ occurrences \subseteq occurrences'
BY DEF RouteEvent, RunStartHandler, SuiteStartHandler, SuiteEndHandler, TestStartHandler,
   TestEndHandler, RunEndHandler, GroupError, statVars

LEMMA NestedAccept ==
  ASSUME TypeInv, RowsAreNested, NEW q \in Requests, NEW e \in left[q], Accept(q, e)
  PROVE  RowsAreNested'
<1>1. e \in Events /\ RouteEvent(e) /\ CanHandle(e) BY DEF Accept, TypeInv, TypeOK
<1>2. suites \subseteq suites' BY SMTT(60), <1>1, SuitesStay
<1>3. \A s \in suites' : s.parent # NoParent => \E u \in suites' : u.suite = s.parent
  <2>1. CASE SuiteStartHandler(e)
    <3>1. e.type = "suite.start" BY <2>1 DEF SuiteStartHandler
    <3>2. SuiteConflicts(e) \/ SuiteDependenciesReady(e) BY <1>1, <3>1 DEF CanHandle
    <3>3. \A s \in suites' : s \in suites \/ (~SuiteConflicts(e) /\ s.parent = e.parent)
      BY <2>1 DEF SuiteStartHandler
    <3> QED BY <1>2, <3>2, <3>3 DEF RowsAreNested, SuiteDependenciesReady
  <2>2. CASE suites' = suites BY <2>2 DEF RowsAreNested
  <2> QED BY <1>1, <2>1, <2>2 DEF RouteEvent, RunStartHandler, SuiteEndHandler,
          TestStartHandler, TestEndHandler, RunEndHandler
<1>4. ASSUME NEW t \in tests' PROVE \E s \in suites' : s.suite = t.suite /\ s.run = t.run
  <2>1. CASE t \in tests BY <1>2, <2>1 DEF RowsAreNested
  <2>2. CASE e.type = "test.start" /\ t = StartedRow(e)
    BY <1>1, <1>2, <2>2 DEF CanHandle, SuiteOfRun, StartedRow
  <2>3. ASSUME NEW u \in tests, t = EndedRow(e, u)
        PROVE  \E s \in suites' : s.suite = t.suite /\ s.run = t.run
    <3>1. u \in TestRow BY DEF TypeInv, TypeOK
    <3>2. t.suite = u.suite /\ t.run = u.run BY <2>3, <3>1, EndedRowFields
    <3> QED BY <1>2, <3>2 DEF RowsAreNested
  <2> QED BY <1>1, <1>4, <2>1, <2>2, <2>3, RowsAfter
<1> QED BY <1>3, <1>4 DEF RowsAreNested

\* A test.start that is new finds no row and no end of its test.
LEMMA NewStart ==
  ASSUME OneStartPerTest, TypeInv, RowsInv, NEW e \in Events, e \notin inbox,
         e.type = "test.start"
  PROVE  /\ \A t \in tests : ~(t.test = e.test /\ t.run = e.run)
         /\ \A f \in Ended : ~(f.test = e.test /\ f.run = e.run)
<1>1. inbox \subseteq Events BY DEF TypeInv, TypeOK
<1>2. \A t \in tests : ~(t.test = e.test /\ t.run = e.run)
  BY <1>1 DEF RowsInv, RowsComeFromStarts, OneStartPerTest
<1> QED BY <1>2 DEF RowsInv, RowsComeFromStarts

LEMMA StartKeepsRows ==
  ASSUME OneStartPerTest, TypeInv, RowsInv, NEW e \in Events, e \notin inbox,
         inbox' = inbox \cup {e}, RouteEvent(e), e.type = "test.start",
         tests' = tests \/ tests' = tests \cup {StartedRow(e)}
  PROVE  RowsComeFromStarts' /\ OneRowPerTest' /\ RowsSayWhatEnded' /\ GroupsHaveOccurrences'
<1>1. Ended' = Ended BY DEF Ended
<1>2. \A t \in tests' : t \in tests \/ t = StartedRow(e) OBVIOUS
<1>3. /\ StartedRow(e).test = e.test /\ StartedRow(e).run = e.run
      /\ StartedRow(e).status = "pending" /\ StartedRow(e).retries = 0
      /\ StartedRow(e).group = NoGroup
  BY DEF StartedRow
<1>4. occurrences \subseteq occurrences' BY SuitesStay
<1>5. RowsComeFromStarts'
  BY <1>1, <1>2, <1>3 DEF RowsInv, RowsComeFromStarts
<1>6. OneRowPerTest'
  BY <1>2, <1>3, NewStart DEF RowsInv, OneRowPerTest
<1>7. RowsSayWhatEnded'
  <2>1. EndsOf(StartedRow(e)) = {} BY <1>3, NewStart DEF EndsOf
  <2>2. \A t : EndsOf(t)' = EndsOf(t) BY <1>1 DEF EndsOf
  <2> QED BY <1>2, <1>3, <2>1, <2>2 DEF RowsInv, RowsSayWhatEnded, EndsOf
<1>8. GroupsHaveOccurrences'
  BY <1>2, <1>3, <1>4 DEF RowsInv, GroupsHaveOccurrences
<1> QED BY <1>5, <1>6, <1>7, <1>8

LEMMA EndKeepsRows ==
  ASSUME TypeInv, RowsInv, NEW e \in Events, e \notin inbox,
         inbox' = inbox \cup {e}, TestEndHandler(e), e.type = "test.end",
         tests' = {EndedRow(e, t) : t \in tests}
  PROVE  RowsComeFromStarts' /\ OneRowPerTest' /\ RowsSayWhatEnded' /\ GroupsHaveOccurrences'
<1>1. Ended' = Ended \cup {e} BY DEF Ended
<1>2. tests \subseteq TestRow BY DEF TypeInv, TypeOK
<1>3. RowsComeFromStarts'
  <2>1. ASSUME NEW t \in tests'
        PROVE  \E f \in inbox' : f.type = "test.start" /\ f.test = t.test /\ f.run = t.run
    <3>1. PICK u \in tests : t = EndedRow(e, u) BY <2>1
    <3>2. t.test = u.test /\ t.run = u.run BY <1>2, <3>1, EndedRowFields
    <3> QED BY <3>2 DEF RowsInv, RowsComeFromStarts
  <2>2. ASSUME NEW f \in Ended' PROVE \E t \in tests' : t.test = f.test /\ t.run = f.run
    <3>1. \E t \in tests : t.test = f.test /\ t.run = f.run
      BY <1>1, <2>2 DEF RowsInv, RowsComeFromStarts, TestEndHandler, MatchingTests
    <3>2. PICK t \in tests : t.test = f.test /\ t.run = f.run BY <3>1
    <3> QED BY <1>2, <3>2, EndedRowFields
  <2> QED BY <2>1, <2>2 DEF RowsComeFromStarts
<1>4. OneRowPerTest'
  <2> SUFFICES ASSUME NEW t \in tests, NEW u \in tests,
                      EndedRow(e, t).test = EndedRow(e, u).test,
                      EndedRow(e, t).run = EndedRow(e, u).run
               PROVE  t = u
    BY DEF OneRowPerTest
  <2> QED BY <1>2, EndedRowFields DEF RowsInv, OneRowPerTest
<1>5. RowsSayWhatEnded'
  <2> SUFFICES ASSUME NEW t \in tests'
               PROVE  \/ /\ EndsOf(t)' = {} /\ t.status = "pending" /\ t.retries = 0
                         /\ t.group = NoGroup
                      \/ \E f \in EndsOf(t)' : t.status = f.status /\ t.retries = f.retries
    BY DEF RowsSayWhatEnded, EndsOf
  <2>1. PICK u \in tests : t = EndedRow(e, u) OBVIOUS
  <2>2. t.test = u.test /\ t.run = u.run BY <1>2, <2>1, EndedRowFields
  <2>3. CASE u.test = e.test /\ u.run = e.run
    <3>1. e \in EndsOf(t)' BY <1>1, <2>2, <2>3 DEF EndsOf
    <3>2. t.status = e.status /\ t.retries = e.retries BY <1>2, <2>1, <2>3, EndedRowFields
    <3> QED BY <3>1, <3>2
  <2>4. CASE ~(u.test = e.test /\ u.run = e.run)
    <3>1. t = u BY <1>2, <2>1, <2>4, EndedRowFields
    <3>2. EndsOf(t)' = EndsOf(u) BY <1>1, <2>4, <3>1 DEF EndsOf
    <3> QED BY <3>1, <3>2 DEF RowsInv, RowsSayWhatEnded
  <2> QED BY <2>3, <2>4
<1>6. GroupsHaveOccurrences'
  <2> SUFFICES ASSUME NEW t \in tests', t.group # NoGroup
               PROVE  \E o \in occurrences' : o.test = t.test /\ o.run = t.run
    BY DEF GroupsHaveOccurrences
  <2>1. PICK u \in tests : t = EndedRow(e, u) OBVIOUS
  <2>2. t.test = u.test /\ t.run = u.run BY <1>2, <2>1, EndedRowFields
  <2>3. GroupError(e) BY DEF TestEndHandler
  <2>4. CASE u.test = e.test /\ u.run = e.run /\ HasError(e)
    <3> DEFINE occurrence == [run |-> e.run, test |-> e.test, error |-> e.error]
    <3>1. occurrences' = IF \E o \in occurrences : o.run = e.run /\ o.test = e.test
                           THEN occurrences ELSE occurrences \cup {occurrence}
      BY <2>3, <2>4 DEF GroupError
    <3>2. occurrence.run = e.run /\ occurrence.test = e.test OBVIOUS
    <3> HIDE DEF occurrence
    <3>3. \E o \in occurrences' : o.run = e.run /\ o.test = e.test BY <3>1, <3>2
    <3> QED BY <2>2, <2>4, <3>3
  <2>5. CASE ~(u.test = e.test /\ u.run = e.run /\ HasError(e))
    <3>1. t.group = u.group BY <1>2, <2>1, <2>5, EndedRowFields
    <3>2. occurrences \subseteq occurrences' BY <2>3 DEF GroupError
    <3> QED BY <2>1, <2>2, <3>1, <3>2 DEF RowsInv, GroupsHaveOccurrences
  <2> QED BY <2>4, <2>5
<1> QED BY <1>3, <1>4, <1>5, <1>6

LEMMA RowsInvNext ==
  ASSUME OneStartPerTest
  PROVE  TypeInv /\ RowsInv /\ [Next]_vars => RowsInv'
<1> SUFFICES ASSUME TypeInv, RowsInv, [Next]_vars PROVE RowsInv' OBVIOUS
<1>1. RowsHaveRuns' BY RowsNext DEF RowsInv
<1>2. ASSUME NEW q \in Requests, NEW e \in left[q], Accept(q, e) PROVE RowsInv'
  <2>1. /\ e \in Events /\ e \notin inbox /\ inbox' = inbox \cup {e} /\ RouteEvent(e)
    BY <1>2 DEF Accept, TypeInv, TypeOK
  <2>2. RowsAreNested' BY <1>2, NestedAccept DEF RowsInv
  <2>3. CASE /\ e.type = "test.start"
             /\ (tests' = tests \/ tests' = tests \cup {StartedRow(e)})
    BY <1>1, <2>1, <2>2, <2>3, StartKeepsRows DEF RowsInv
  <2>4. CASE e.type = "test.end" /\ TestEndHandler(e) /\ tests' = {EndedRow(e, t) : t \in tests}
    BY <1>1, <2>1, <2>2, <2>4, EndKeepsRows DEF RowsInv
  <2>5. CASE e.type \notin {"test.start", "test.end"} /\ tests' = tests
    <3>1. Ended' = Ended /\ inbox \subseteq inbox' BY <2>1, <2>5 DEF Ended
    <3>2. occurrences \subseteq occurrences' BY <2>1, SuitesStay
    <3>3. RowsComeFromStarts' BY <2>5, <3>1 DEF RowsInv, RowsComeFromStarts
    <3>4. OneRowPerTest' BY <2>5 DEF RowsInv, OneRowPerTest
    <3>5. RowsSayWhatEnded' BY <2>5, <3>1 DEF RowsInv, RowsSayWhatEnded, EndsOf
    <3>6. GroupsHaveOccurrences' BY <2>5, <3>2 DEF RowsInv, GroupsHaveOccurrences
    <3> QED BY <1>1, <2>2, <3>3, <3>4, <3>5, <3>6 DEF RowsInv
  <2> QED BY <2>1, <2>3, <2>4, <2>5, RowsAfter
<1>3. CASE UNCHANGED <<inbox, suites, tests, occurrences>>
  BY <1>1, <1>3, RowsInvUnchanged
<1> QED BY <1>2, <1>3, WritingSteps DEF CleanupOrphanedRuns, dbVars, statVars

\* In whatever order Outboxy delivers the events of a reporter, and however often: the
\* rows of tests say what an accepted test.end said and nothing else, a test has its suite
\* in its run, and a suite its run and its parent.
THEOREM RowsCorrect ==
  ASSUME OneStartPerTest
  PROVE  Spec => []RowsReflectInbox
<1>1. RowsInv => RowsReflectInbox
  BY DEF RowsInv, RowsHaveRuns, RowsSayWhatEnded, GroupsHaveOccurrences, RowsAreNested,
     RowsReflectInbox, EndsOf
<1> QED BY <1>1, TypeInvInit, TypeInvNext, RowsInvInit, RowsInvNext, PTL DEF Spec

-----------------------------------------------------------------------------
(* The statistics of a test name.                                           *)

\* The test an accepted end belongs to has the name n.
NamedBy(e, n) == \E t \in tests : t.test = e.test /\ t.run = e.run /\ t.name = n

\* The ends the statistics of a name and a day count.
EndsNamed(n, d) == {e \in Ended : DayOf[e.at] = d /\ NamedBy(e, n)}

FlakyMatch(n, d) ==
  /\ flaky[n][d]["total"] = Cardinality(EndsNamed(n, d))
  /\ flaky[n][d]["flaky"] = Cardinality({e \in EndsNamed(n, d) : e.status = "flaky"})

NamesMatch == \A n \in Names, d \in Days : FlakyMatch(n, d)

LEMMA NamesMatchIsStats == NamesMatch <=> FlakyStatsMatchInbox
<1>1. ASSUME NEW n \in Names, NEW d \in Days
      PROVE  {e \in Ended : DayOf[e.at] = d /\ \E t \in MatchingTests(e) : t.name = n}
               = EndsNamed(n, d)
  BY DEF EndsNamed, NamedBy, MatchingTests
<1> QED BY ZenonT(60), <1>1 DEF FlakyStatsMatchInbox, NamesMatch, FlakyMatch

LEMMA EndsNamedFinite ==
  ASSUME TypeInv, NEW n, NEW d
  PROVE  /\ IsFiniteSet(EndsNamed(n, d))
         /\ IsFiniteSet({e \in EndsNamed(n, d) : e.status = "flaky"})
<1>1. EndsNamed(n, d) \in SUBSET Events BY DEF EndsNamed, Ended, TypeInv, TypeOK
<1> QED BY <1>1, FS_Subset

\* The end of a test is counted in the row of the name of its test, and in no other.
LEMMA EndIsCountedOnce ==
  ASSUME TypeInv, RowsInv, NamesMatch, NEW e \in Events, e \notin inbox,
         e.type = "test.end", inbox' = inbox \cup {e}, TestEndHandler(e),
         tests' = {EndedRow(e, t) : t \in tests}, NEW n \in Names, NEW d \in Days
  PROVE  FlakyMatch(n, d)'
<1> DEFINE flake == [flaky |-> 1, total |-> 1, retries |-> e.retries]
<1>1. PICK t \in MatchingTests(e) :
        flaky' = [flaky EXCEPT ![t.name][DayOf[e.at]] =
           [c \in FlakyCounters |->
              @[c] + IF e.status = "flaky" \/ c = "total" THEN flake[c] ELSE 0]]
  BY DEF TestEndHandler
<1>2. t \in tests /\ t.test = e.test /\ t.run = e.run BY DEF MatchingTests
<1>3. tests \subseteq TestRow BY DEF TypeInv, TypeOK
<1>4. t.name \in Names /\ DayOf[e.at] \in Days
  BY <1>2, <1>3, EventFields DEF TestRow, TestEnd
<1>5. \A m : NamedBy(e, m) <=> m = t.name
  BY <1>2 DEF RowsInv, OneRowPerTest, NamedBy
<1>6. \A f, m : NamedBy(f, m)' <=> NamedBy(f, m)
  <2> SUFFICES ASSUME NEW f, NEW m PROVE NamedBy(f, m)' <=> NamedBy(f, m) OBVIOUS
  <2>1. ASSUME NEW u \in tests, u.test = f.test, u.run = f.run, u.name = m
        PROVE  NamedBy(f, m)'
    <3>1. EndedRow(e, u) \in tests' OBVIOUS
    <3> QED BY <1>3, <2>1, <3>1, EndedRowFields DEF NamedBy
  <2>2. ASSUME NEW v \in tests', v.test = f.test, v.run = f.run, v.name = m
        PROVE  NamedBy(f, m)
    <3>1. PICK u \in tests : v = EndedRow(e, u) BY <2>2
    <3>2. v.test = u.test /\ v.run = u.run /\ v.name = u.name
      BY <1>3, <3>1, EndedRowFields
    <3> QED BY <2>2, <3>2 DEF NamedBy
  <2> QED BY <2>1, <2>2 DEF NamedBy
<1>7. Ended' = Ended \cup {e} /\ e \notin Ended BY DEF Ended
<1>8. FlakyMatch(n, d) BY DEF NamesMatch
<1>9. flaky[n][d]["total"] \in Nat /\ flaky[n][d]["flaky"] \in Nat
  BY DEF TypeInv, TypeOK, FlakyCounters
<1>10. e \notin EndsNamed(n, d) BY <1>7 DEF EndsNamed
<1>11. CASE n = t.name /\ d = DayOf[e.at]
  <2>1. EndsNamed(n, d)' = EndsNamed(n, d) \cup {e}
    BY <1>5, <1>6, <1>7, <1>11 DEF EndsNamed
  <2>2. flaky'[n][d] = [c \in FlakyCounters |-> flaky[n][d][c] +
                          IF e.status = "flaky" \/ c = "total" THEN flake[c] ELSE 0]
    BY <1>1, <1>4, <1>11 DEF TypeInv, TypeOK
  <2>3. /\ flaky'[n][d]["total"] = flaky[n][d]["total"] + 1
        /\ flaky'[n][d]["flaky"] = IF e.status = "flaky" THEN flaky[n][d]["flaky"] + 1
                                   ELSE flaky[n][d]["flaky"]
    BY <2>2, <1>9 DEF FlakyCounters
  <2>4. Cardinality(EndsNamed(n, d)') = Cardinality(EndsNamed(n, d)) + 1
    BY <2>1, <1>10, EndsNamedFinite, FS_AddElement
  <2> DEFINE before == {f \in EndsNamed(n, d) : f.status = "flaky"}
             after == {f \in EndsNamed(n, d)' : f.status = "flaky"}
  <2>5. IsFiniteSet(before) /\ e \notin before BY <1>10, EndsNamedFinite
  <2>6. after = IF e.status = "flaky" THEN before \cup {e} ELSE before BY <2>1
  <2> HIDE DEF before, after
  <2>7. Cardinality(after) = IF e.status = "flaky" THEN Cardinality(before) + 1
                             ELSE Cardinality(before)
    BY <2>5, <2>6, FS_AddElement
  <2> QED BY <1>8, <2>3, <2>4, <2>7 DEF FlakyMatch, before, after
<1>12. CASE ~(n = t.name /\ d = DayOf[e.at])
  <2>1. EndsNamed(n, d)' = EndsNamed(n, d)
    BY <1>5, <1>6, <1>7, <1>12 DEF EndsNamed
  <2>2. flaky'[n][d] = flaky[n][d]
    BY <1>1, <1>4, <1>12 DEF TypeInv, TypeOK
  <2> QED BY <1>8, <2>1, <2>2 DEF FlakyMatch
<1> QED BY <1>11, <1>12

LEMMA FlakyUnchanged ==
  ASSUME NamesMatch, flaky' = flaky, Ended' = Ended,
         \A e \in Ended, n \in Names : NamedBy(e, n)' <=> NamedBy(e, n)
  PROVE  NamesMatch'
<1> SUFFICES ASSUME NEW n \in Names, NEW d \in Days PROVE FlakyMatch(n, d)'
  BY DEF NamesMatch
<1>1. EndsNamed(n, d)' = EndsNamed(n, d) BY DEF EndsNamed
<1> QED BY <1>1 DEF NamesMatch, FlakyMatch

LEMMA FlakyNext ==
  ASSUME OneStartPerTest
  PROVE  TypeInv /\ RowsInv /\ NamesMatch /\ [Next]_vars => NamesMatch'
<1> SUFFICES ASSUME TypeInv, RowsInv, NamesMatch, [Next]_vars
             PROVE  NamesMatch'
  OBVIOUS
<1>1. ASSUME NEW q \in Requests, NEW e \in left[q], Accept(q, e)
      PROVE  NamesMatch'
  <2>1. e \in Events /\ e \notin inbox /\ inbox' = inbox \cup {e} /\ RouteEvent(e)
    BY <1>1 DEF Accept, TypeInv, TypeOK
  <2>2. CASE e.type = "test.end" /\ TestEndHandler(e) /\ tests' = {EndedRow(e, t) : t \in tests}
    <3>1. \A n \in Names, d \in Days : FlakyMatch(n, d)' BY <2>1, <2>2, EndIsCountedOnce
    <3> QED BY <3>1 DEF NamesMatch
  <2>3. CASE e.type # "test.end"
    <3>1. Ended' = Ended BY SMTT(60), <2>1, <2>3 DEF Ended
    <3>2. flaky' = flaky
      BY <2>1, <2>3 DEF RouteEvent, RunStartHandler, SuiteStartHandler, SuiteEndHandler,
         TestStartHandler, TestEndHandler, RunEndHandler, statVars
    <3>3. \A f \in Ended, n \in Names : NamedBy(f, n)' <=> NamedBy(f, n)
      <4>1. CASE e.type = "test.start"
                 /\ (tests' = tests \/ tests' = tests \cup {StartedRow(e)})
        <5>1. \A f \in Ended : ~(f.test = e.test /\ f.run = e.run)
          BY <2>1, <4>1, NewStart
        <5>2. StartedRow(e).test = e.test /\ StartedRow(e).run = e.run BY DEF StartedRow
        <5> QED BY <4>1, <5>1, <5>2 DEF NamedBy
      <4>2. CASE tests' = tests BY <4>2 DEF NamedBy
      <4> QED BY <2>1, <2>3, <4>1, <4>2, RowsAfter
    <3> QED BY <3>1, <3>2, <3>3, FlakyUnchanged
  <2> QED BY <2>1, <2>2, <2>3, RowsAfter
<1>2. CASE UNCHANGED <<inbox, tests, flaky>>
  <2>1. Ended' = Ended /\ \A f, n : NamedBy(f, n)' <=> NamedBy(f, n)
    BY <1>2 DEF Ended, NamedBy
  <2> QED BY <1>2, <2>1, FlakyUnchanged
<1> QED BY <1>1, <1>2, WritingSteps DEF CleanupOrphanedRuns, dbVars, statVars

\* The per-day statistics of a test name never miss an accepted end of a test of that
\* name and never count one twice, on whatever days and in whatever runs its tests end.
THEOREM FlakyStatsCorrect ==
  ASSUME OneStartPerTest
  PROVE  Spec => []FlakyStatsMatchInbox
<1>1. Init => NamesMatch
  <2> SUFFICES ASSUME Init, NEW n \in Names, NEW d \in Days PROVE FlakyMatch(n, d)
    BY DEF NamesMatch
  <2>1. EndsNamed(n, d) = {} BY DEF Init, EndsNamed, Ended
  <2>2. flaky[n][d]["total"] = 0 /\ flaky[n][d]["flaky"] = 0
    BY DEF Init, Zero, FlakyCounters
  <2> QED BY <2>1, <2>2, FS_EmptySet DEF FlakyMatch
<1> QED BY <1>1, TypeInvInit, TypeInvNext, RowsInvInit, RowsInvNext, FlakyNext,
        NamesMatchIsStats, PTL DEF Spec

-----------------------------------------------------------------------------
(* The statistics of a day.                                                 *)

\* The finish time of a run is that of an end of that run; an open run has none.
FinishTimes ==
  \A r \in Runs :
    /\ finishedAt[r].type = "run.end" => finishedAt[r] \in Events /\ finishedAt[r].run = r
    /\ status[r] \notin Terminal => finishedAt[r] = NotFinished

\* The four outcomes of the counters c fit in their total.
Fits(c) == c["passed"] + c["failed"] + c["skipped"] + c["flaky"] <= c["total"]

\* The accepted ends of tests of the runs that finished on the day.
EndsOn(d, c) == {e \in Ended : e.run \in FinishedOn(d) /\ (c = "total" \/ c = e.status)}

DayMatches(d) ==
  /\ daily[d]["runs"] = Cardinality(FinishedOn(d))
  /\ \A c \in Counters : daily[d][c] <= Cardinality(EndsOn(d, c))
  /\ Fits(daily[d])
  /\ daily[d]["retried"] <= daily[d]["total"]

DailyInv == /\ FinishTimes
            /\ \A r \in Runs : Fits(counts[r])
            /\ \A d \in Days : DayMatches(d)

\* Only finitely many runs can end: each needs an event.
LEMMA FinishedOnFinite ==
  ASSUME FinishTimes, NEW d
  PROVE  IsFiniteSet(FinishedOn(d))
<1> DEFINE f == [e \in Events |-> e.run]
           ended == {f[e] : e \in Events}
<1>1. f \in Surjection(Events, ended) BY DEF Surjection
<1>2. IsFiniteSet(ended) BY <1>1, FS_Surjection
<1>3. FinishedOn(d) \in SUBSET ended BY DEF FinishedOn, FinishTimes
<1> QED BY <1>2, <1>3, FS_Subset

LEMMA EndsFinite ==
  ASSUME TypeInv, NEW S \in SUBSET Ended
  PROVE  IsFiniteSet(S) /\ Cardinality(S) \in Nat
<1>1. S \in SUBSET Events BY DEF Ended, TypeInv, TypeOK
<1> QED BY <1>1, FS_Subset, FS_CardinalityType

\* A run has no more tests with retries than accepted ends of tests: a row tells of
\* retries only when its test has ended, and a test has one row.
LEMMA RetriedHaveEnded ==
  ASSUME TypeInv, RowsInv, CountersMatchInbox, NEW r \in Runs
  PROVE  RetriedTests(r) \in Nat /\ RetriedTests(r) <= counts[r]["total"]
<1> DEFINE retried == {t \in tests : t.run = r /\ t.retries > 0}
           f == [t \in retried |-> CHOOSE e \in EndsOf(t) : TRUE]
<1>1. ASSUME NEW t \in retried
      PROVE  f[t] \in EndsOf(t)
  <2>1. t \in tests /\ t.retries > 0 OBVIOUS
  <2>2. t.retries # 0 BY <2>1 DEF TypeInv, TypeOK, TestRow
  <2>3. EndsOf(t) # {} BY <2>1, <2>2 DEF RowsInv, RowsSayWhatEnded
  <2> QED BY <2>3
<1>2. f \in Injection(retried, Counted(r, "total"))
  <2>1. f \in [retried -> Counted(r, "total")] BY <1>1 DEF EndsOf, Counted
  <2>2. ASSUME NEW t \in retried, NEW u \in retried, f[t] = f[u] PROVE t = u
    <3>1. f[t] \in EndsOf(t) /\ f[t] \in EndsOf(u) BY <1>1, <2>2
    <3>2. t \in tests /\ u \in tests OBVIOUS
    <3> HIDE DEF f, retried
    <3>3. t.test = u.test /\ t.run = u.run BY <3>1 DEF EndsOf
    <3> QED BY <3>2, <3>3 DEF RowsInv, OneRowPerTest
  <2> HIDE DEF f
  <2> QED BY <2>1, <2>2 DEF Injection, IsInjective
<1>3. IsFiniteSet(Counted(r, "total"))
  BY EndsFinite DEF Counted
<1>4. Cardinality(retried) <= Cardinality(Counted(r, "total")) /\ IsFiniteSet(retried)
  <2> HIDE DEF f, retried
  <2> QED BY <1>2, <1>3, FS_Injection
<1>5. counts[r]["total"] = Cardinality(Counted(r, "total"))
  BY DEF CountersMatchInbox, Counted, Counters
<1>6. RetriedTests(r) = Cardinality(retried) BY DEF RetriedTests
<1>7. Cardinality(retried) \in Nat BY <1>4, FS_CardinalityType
<1> QED BY <1>4, <1>5, <1>6, <1>7

\* A run that is ended was open, so it was in the statistics of no day.
LEMMA RunEndBooks ==
  ASSUME OnlyTerminalEnds, TypeInv, RowsInv, CountersMatchInbox, DailyInv,
         NEW e \in Events, e.type = "run.end", inbox' = inbox \cup {e}, RunEndHandler(e),
         MayEnd(e)
  PROVE  DailyInv'
<1>1. e \in RunEnd /\ e.run \in Runs /\ e.status \in Terminal /\ e.at \in Times
  BY EventFields DEF OnlyTerminalEnds, RunEnd
<1>2. /\ status' = [status EXCEPT ![e.run] = e.status]
      /\ finishedAt' = [finishedAt EXCEPT ![e.run] = e]
      /\ daily' = [daily EXCEPT ![DayOf[e.at]] =
                     [c \in DailyCounters |-> @[c] + Snapshot(e.run)[c]]]
      /\ counts' = counts
  BY DEF RunEndHandler
<1>3. status[e.run] \in {"pending", "running"}
  BY <1>1, SourcesAreOpen DEF MayEnd, ValidSources
<1>4. finishedAt[e.run] = NotFinished
  BY <1>1, <1>3 DEF DailyInv, FinishTimes, Terminal
<1>5. FinishTimes'
  BY <1>1, <1>2 DEF DailyInv, FinishTimes, TypeInv, TypeOK
<1>6. \A r \in Runs : Fits(counts[r])' BY <1>2 DEF DailyInv, Fits
<1>7. Ended' = Ended BY DEF Ended
<1> DEFINE day == DayOf[e.at]
<1>8. day \in Days BY <1>1
<1>9. finishedAt' \in [Runs -> RunEnd \cup {NotFinished, CleanupTime}]
  BY <1>1, <1>2 DEF TypeInv, TypeOK
<1>10. /\ e.run \notin FinishedOn(day)
       /\ FinishedOn(day)' = FinishedOn(day) \cup {e.run}
       /\ \A d \in Days : d # day => FinishedOn(d)' = FinishedOn(d)
  BY <1>1, <1>2, <1>4 DEF FinishedOn, NotFinished, TypeInv, TypeOK
<1>11. ASSUME NEW d \in Days PROVE DayMatches(d)'
  <2>1. DayMatches(d) BY DEF DailyInv
  <2>2. CASE d # day
    <3>1. FinishedOn(d)' = FinishedOn(d) BY <1>10, <2>2
    <3>2. \A c \in Counters : EndsOn(d, c)' = EndsOn(d, c) BY <3>1, <1>7 DEF EndsOn
    <3>3. daily'[d] = daily[d] BY <1>2, <1>8, <2>2 DEF TypeInv, TypeOK
    <3> QED BY <2>1, <3>1, <3>2, <3>3 DEF DayMatches, Fits
  <2>3. CASE d = day
    <3> DEFINE r == e.run
    <3>1. \A c \in DailyCounters : daily'[d][c] = daily[d][c] + Snapshot(r)[c]
      BY <1>2, <1>8, <2>3 DEF TypeInv, TypeOK
    <3>2. \A c \in Counters : c \in DailyCounters /\ c # "runs" /\ c # "retried"
      BY DEF Counters, DailyCounters
    <3>3. /\ Snapshot(r)["runs"] = 1 /\ Snapshot(r)["retried"] = RetriedTests(r)
          /\ \A c \in Counters : Snapshot(r)[c] = counts[r][c]
      BY <3>2 DEF Snapshot, DailyCounters
    <3>4. \A c \in DailyCounters : daily[d][c] \in Nat BY DEF TypeInv, TypeOK
    <3>5. \A c \in Counters : counts[r][c] \in Nat BY <1>1 DEF TypeInv, TypeOK
    <3>6. daily'[d]["runs"] = Cardinality(FinishedOn(d)')
      <4>1. Cardinality(FinishedOn(d)') = Cardinality(FinishedOn(d)) + 1
        BY <1>10, <2>3, FinishedOnFinite, FS_AddElement DEF DailyInv
      <4> QED BY <2>1, <3>1, <3>3, <4>1 DEF DayMatches, DailyCounters
    <3>7. ASSUME NEW c \in Counters PROVE daily'[d][c] <= Cardinality(EndsOn(d, c)')
      <4>1. EndsOn(d, c)' = EndsOn(d, c) \cup Counted(r, c)
        BY <1>7, <1>10, <2>3 DEF EndsOn, Counted
      <4>2. EndsOn(d, c) \cap Counted(r, c) = {}
        BY <1>10, <2>3 DEF EndsOn, Counted
      <4>3. EndsOn(d, c) \in SUBSET Ended /\ Counted(r, c) \in SUBSET Ended
        BY DEF EndsOn, Counted
      <4>4. Cardinality(EndsOn(d, c)') =
              Cardinality(EndsOn(d, c)) + Cardinality(Counted(r, c))
        <5>1. Cardinality(EndsOn(d, c) \cap Counted(r, c)) = 0 BY <4>2, FS_EmptySet
        <5>2. Cardinality(EndsOn(d, c) \cup Counted(r, c)) = Cardinality(EndsOn(d, c))
                + Cardinality(Counted(r, c)) - Cardinality(EndsOn(d, c) \cap Counted(r, c))
          BY <4>3, EndsFinite, FS_Union
        <5> QED BY <4>1, <4>3, <5>1, <5>2, EndsFinite
      <4>5. counts[r][c] = Cardinality(Counted(r, c))
        BY <1>1 DEF CountersMatchInbox, Counted
      <4>6. daily'[d][c] = daily[d][c] + counts[r][c] BY <3>1, <3>2, <3>3
      <4>7. daily[d][c] <= Cardinality(EndsOn(d, c)) /\ daily[d][c] \in Nat
        BY <2>1, <3>2, <3>4 DEF DayMatches
      <4>8. Cardinality(EndsOn(d, c)) \in Nat BY <4>3, EndsFinite
      <4> QED BY <3>5, <4>4, <4>5, <4>6, <4>7, <4>8
    <3>8. Fits(daily'[d])
      <4>1. Fits(daily[d]) /\ Fits(counts[r]) BY <1>1, <2>1 DEF DailyInv, DayMatches
      <4>2. \A c \in {"passed", "failed", "skipped", "flaky", "total"} :
              /\ daily'[d][c] = daily[d][c] + counts[r][c]
              /\ daily[d][c] \in Nat /\ counts[r][c] \in Nat
        BY <3>1, <3>2, <3>3, <3>4, <3>5 DEF Counters
      <4> QED BY <4>1, <4>2 DEF Fits
    <3>9. daily'[d]["retried"] <= daily'[d]["total"]
      <4>1. RetriedTests(r) \in Nat /\ RetriedTests(r) <= counts[r]["total"]
        BY <1>1, RetriedHaveEnded
      <4>2. /\ daily'[d]["retried"] = daily[d]["retried"] + RetriedTests(r)
            /\ daily'[d]["total"] = daily[d]["total"] + counts[r]["total"]
        BY <3>1, <3>3 DEF DailyCounters, Counters
      <4>3. /\ daily[d]["retried"] \in Nat /\ daily[d]["total"] \in Nat
            /\ counts[r]["total"] \in Nat
        BY <3>4, <3>5 DEF DailyCounters, Counters
      <4>4. daily[d]["retried"] <= daily[d]["total"] BY <2>1 DEF DayMatches
      <4> QED BY <4>1, <4>2, <4>3, <4>4
    <3> QED BY <3>6, <3>7, <3>8, <3>9 DEF DayMatches, Fits
  <2> QED BY <2>2, <2>3
<1> QED BY <1>5, <1>6, <1>11 DEF DailyInv, DayMatches

\* The end of a test after its run has finished stays out of the statistics.
LEMMA DayGrows ==
  ASSUME TypeInv, TypeInv', NEW d \in Days, DayMatches(d),
         Ended \subseteq Ended', daily' = daily, FinishedOn(d)' = FinishedOn(d)
  PROVE  DayMatches(d)'
<1>1. ASSUME NEW c \in Counters PROVE daily'[d][c] <= Cardinality(EndsOn(d, c)')
  <2>1. EndsOn(d, c)' \in SUBSET Events BY DEF EndsOn, Ended, TypeInv, TypeOK
  <2>2. IsFiniteSet(EndsOn(d, c)') /\ Cardinality(EndsOn(d, c)') \in Nat
    BY <2>1, FS_Subset, FS_CardinalityType
  <2>3. EndsOn(d, c) \in SUBSET EndsOn(d, c)' BY DEF EndsOn
  <2>4. /\ Cardinality(EndsOn(d, c)) <= Cardinality(EndsOn(d, c)')
        /\ Cardinality(EndsOn(d, c)) \in Nat
    BY <2>2, <2>3, FS_Subset, FS_CardinalityType
  <2>5. daily[d][c] <= Cardinality(EndsOn(d, c)) /\ daily[d][c] \in Nat
    BY DEF DayMatches, TypeInv, TypeOK, DailyCounters, Counters
  <2> QED BY <2>2, <2>4, <2>5
<1> QED BY <1>1 DEF DayMatches, Fits

\* Any other event leaves the statistics alone.
LEMMA OtherEventsBook ==
  ASSUME TypeInv, TypeInv', DailyInv, NEW e \in Events, inbox' = inbox \cup {e}, RouteEvent(e),
         ~(e.type = "run.end" /\ MayEnd(e))
  PROVE  DailyInv'
<1>1. e.run \in Runs BY SMTT(60), EventFields
<1>2. finishedAt' = finishedAt /\ daily' = daily
  BY DEF RouteEvent, RunStartHandler, SuiteStartHandler, SuiteEndHandler, TestStartHandler,
     TestEndHandler, RunEndHandler, runVars, statVars
<1>3. FinishTimes'
  <2>1. ASSUME NEW r \in Runs, status'[r] \notin Terminal PROVE status[r] \notin Terminal
    <3>1. \/ status' = status
          \/ status[e.run] \in {"absent", "pending"}
             /\ status' = [status EXCEPT ![e.run] = status'[e.run]]
      BY <1>1 DEF RouteEvent, RunStartHandler, SuiteStartHandler, SuiteEndHandler,
         TestStartHandler, TestEndHandler, RunEndHandler, runVars, TypeInv, TypeOK
    <3> QED BY SMTT(60), <2>1, <3>1, <1>1 DEF Terminal, TypeInv, TypeOK
  <2> QED BY <1>2, <2>1 DEF DailyInv, FinishTimes
<1>4. ASSUME NEW r \in Runs PROVE Fits(counts[r])'
  <2>1. Fits(counts[r]) BY DEF DailyInv
  <2>2. CASE e.type = "test.end" /\ TestEndHandler(e) /\ e.run = r
    <3>1. \A c \in Counters : counts'[r][c] = counts[r][c] + Bump(e)[c]
      BY <2>2 DEF TestEndHandler, TypeInv, TypeOK
    <3>2. \A c \in Counters : counts[r][c] \in Nat BY DEF TypeInv, TypeOK
    <3>3. /\ Bump(e)["total"] = 1
          /\ \A c \in Counters : c # "total" => Bump(e)[c] = IF c = e.status THEN 1 ELSE 0
      BY DEF Bump, Counters
    <3>4. {"passed", "failed", "skipped", "flaky", "total"} \subseteq Counters
      BY DEF Counters
    <3>5. Bump(e)["passed"] + Bump(e)["failed"] + Bump(e)["skipped"] + Bump(e)["flaky"] <= 1
      BY <3>3, <3>4
    <3>6. \A c \in Counters : Bump(e)[c] \in Nat BY DEF Bump
    <3>7. \A c \in {"passed", "failed", "skipped", "flaky", "total"} :
            /\ counts'[r][c] = counts[r][c] + Bump(e)[c]
            /\ counts[r][c] \in Nat /\ Bump(e)[c] \in Nat
      BY SMTT(60), <3>1, <3>2, <3>4, <3>6
    <3> QED BY SMTT(60), <2>1, <3>3, <3>5, <3>7 DEF Fits
  <2>3. CASE e.type = "test.end" /\ TestEndHandler(e) /\ e.run # r
    BY <2>1, <2>3, <1>1 DEF TestEndHandler, TypeInv, TypeOK, Fits
  <2>4. CASE counts' = counts BY <2>1, <2>4 DEF Fits
  <2> QED BY <2>2, <2>3, <2>4, OnlyTestEndCounts
<1>5. ASSUME NEW d \in Days PROVE DayMatches(d)'
  BY <1>2, DayGrows DEF DailyInv, Ended, FinishedOn
<1> QED BY <1>3, <1>4, <1>5 DEF DailyInv

LEMMA DailyNext ==
  ASSUME OnlyTerminalEnds, OneStartPerTest
  PROVE  TypeInv /\ RowsInv /\ CountersMatchInbox /\ DailyInv /\ [Next]_vars => DailyInv'
<1> SUFFICES ASSUME TypeInv, RowsInv, CountersMatchInbox, DailyInv, [Next]_vars
             PROVE  DailyInv'
  OBVIOUS
<1>1. TypeInv' BY TypeInvNext
<1>2. ASSUME NEW q \in Requests, NEW e \in left[q], Accept(q, e) PROVE DailyInv'
  <2>1. e \in Events /\ inbox' = inbox \cup {e} /\ RouteEvent(e)
    BY <1>2 DEF Accept, TypeInv, TypeOK
  <2>2. CASE e.type = "run.end" /\ MayEnd(e)
    <3>1. RunEndHandler(e)
      BY <2>1, <2>2 DEF RouteEvent, RunStartHandler, SuiteStartHandler, SuiteEndHandler,
         TestStartHandler, TestEndHandler
    <3> QED BY <2>1, <2>2, <3>1, RunEndBooks
  <2> QED BY <1>1, <2>1, <2>2, OtherEventsBook
<1>3. CASE CleanupOrphanedRuns
  <2>1. /\ status' = [r \in Runs |-> IF r \in Orphans THEN "cancelled" ELSE status[r]]
        /\ finishedAt' = [r \in Runs |-> IF r \in Orphans THEN CleanupTime ELSE finishedAt[r]]
        /\ UNCHANGED <<inbox, counts, daily>>
    BY <1>3 DEF CleanupOrphanedRuns, statVars
  <2>2. \A r \in Orphans : finishedAt[r] = NotFinished
    BY DEF Orphans, DailyInv, FinishTimes, Terminal, TypeInv, TypeOK
  <2>3. FinishTimes'
    BY <2>1 DEF DailyInv, FinishTimes, CleanupTime, Terminal
  <2>4. \A d : FinishedOn(d)' = FinishedOn(d)
    BY <2>1, <2>2 DEF FinishedOn, NotFinished, CleanupTime
  <2>5. \A r \in Runs : Fits(counts[r])' BY <2>1 DEF DailyInv, Fits
  <2>6. Ended' = Ended BY <2>1 DEF Ended
  <2> QED BY <1>1, <2>1, <2>3, <2>4, <2>5, <2>6, DayGrows DEF DailyInv
<1>4. CASE UNCHANGED dbVars
  <2>1. UNCHANGED <<inbox, status, finishedAt, counts, daily>>
    BY <1>4 DEF dbVars, runVars, statVars
  <2>2. \A d : DayMatches(d)' <=> DayMatches(d)
    BY <2>1 DEF DayMatches, FinishedOn, EndsOn, Ended, Fits
  <2> QED BY <2>1, <2>2 DEF DailyInv, FinishTimes, Fits
<1> QED BY <1>2, <1>3, <1>4, WritingSteps

\* With the run.end events the reporters send, a day counts each run that a run.end
\* finished on it once, with no more ends of tests than the run has, whatever run.end
\* events, redeliveries, late ends of tests and cleanups there are besides.
THEOREM DailyStatsCorrect ==
  ASSUME OneStartPerTest
  PROVE  Spec => []DailyStatsCountRunsOnce
<1>1. CASE OnlyTerminalEnds
  <2>1. Init => DailyInv
    <3> SUFFICES ASSUME Init PROVE DailyInv OBVIOUS
    <3>1. FinishTimes BY DEF Init, FinishTimes, NotFinished
    <3>2. \A r \in Runs : Fits(counts[r]) BY DEF Init, Zero, Fits, Counters
    <3>3. ASSUME NEW d \in Days PROVE DayMatches(d)
      <4>1. FinishedOn(d) = {} BY DEF Init, FinishedOn, NotFinished
      <4>2. \A c : EndsOn(d, c) = {} BY DEF Init, EndsOn, Ended
      <4>3. \A c \in DailyCounters : daily[d][c] = 0 BY DEF Init, Zero
      <4>4. {"passed", "failed", "skipped", "flaky", "total", "runs", "retried"}
              \subseteq DailyCounters /\ Counters \subseteq DailyCounters
        BY DEF DailyCounters, Counters
      <4>5. daily[d]["runs"] = Cardinality(FinishedOn(d)) BY <4>1, <4>3, <4>4, FS_EmptySet
      <4>6. \A c \in Counters : daily[d][c] <= Cardinality(EndsOn(d, c))
        <5> SUFFICES ASSUME NEW c \in Counters PROVE daily[d][c] <= Cardinality(EndsOn(d, c))
          OBVIOUS
        <5>1. daily[d][c] = 0 BY <4>3, <4>4
        <5>2. Cardinality(EndsOn(d, c)) = 0 BY <4>2, FS_EmptySet
        <5> QED BY <5>1, <5>2
      <4>7. Fits(daily[d]) /\ daily[d]["retried"] <= daily[d]["total"]
        BY <4>3, <4>4 DEF Fits
      <4> QED BY <4>5, <4>6, <4>7 DEF DayMatches
    <3> QED BY <3>1, <3>2, <3>3 DEF DailyInv
  <2>2. DailyInv => DailyStatsCountRunsOnce
    BY DEF DailyInv, DayMatches, Fits, EndsOn, DailyStatsCountRunsOnce
  <2>3. TypeInv /\ RowsInv /\ CountersMatchInbox /\ DailyInv /\ [Next]_vars => DailyInv'
    BY <1>1, DailyNext
  <2> QED BY <2>1, <2>2, <2>3, TypeInvInit, TypeInvNext, CountersInit, CountersNext,
          RowsInvInit, RowsInvNext, PTL DEF Spec
<1>2. CASE ~OnlyTerminalEnds
  <2>1. DailyStatsCountRunsOnce BY <1>2 DEF DailyStatsCountRunsOnce
  <2> QED BY <2>1, PTL
<1> QED BY <1>1, <1>2
=============================================================================
