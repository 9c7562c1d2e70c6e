--------------------------- MODULE ReporterTests ----------------------------
(***************************************************************************)
(* The callbacks of the Playwright reporter: which events it makes of the  *)
(* attempts of the tests.  Playwright (external) runs a test again when it *)
(* has not ended as expected, and with it the tests of a serial group; it  *)
(* does not wait for onBegin, which asks for the health of the API before  *)
(* it gives the run its id.                                                *)
(***************************************************************************)
EXTENDS Naturals, Sequences, SequencesExt

CONSTANTS Tests,
          Serial,     \* tests of a group in serial mode
          ExpectedOf, \* [Tests -> the expected status]: test.fail() expects "failed"
          Retries

ReporterTestsAssumption ==
  /\ Serial \subseteq Tests /\ Retries \in Nat /\ ExpectedOf \in [Tests -> {"passed", "failed"}]

VARIABLES
  phase,    \* [Tests -> "waiting", "running", "ended"]
  results,  \* [Tests -> the statuses of its attempts]
  stopped,  \* the user or maxFailures has stopped the run
  begun,    \* onBegin is past the health check: run.start and the suites are enqueued
  tracker,  \* testTracker: [Tests -> its attempts], of the tests that are known
  events    \* [Tests -> what is enqueued of the test: [type, run, status, attempts]]

vars == <<phase, results, stopped, begun, tracker, events>>

Statuses == {"passed", "failed", "timedOut", "skipped", "interrupted"}
Retry(t) == Len(results[t])
Enqueue(t, type, status, attempts) ==
  events' = [events EXCEPT ![t] =
    Append(@, [type |-> type, run |-> begun, status |-> status, attempts |-> attempts])]

-----------------------------------------------------------------------------
(* Playwright (external) *)

AsExpected(t, s) == s \in {ExpectedOf[t], "skipped"}
NotAsExpected(t) == phase[t] = "ended" /\ ~AsExpected(t, Last(results[t]))

RunAgain(t) ==
  /\ phase[t] = "ended" /\ ~stopped /\ Retry(t) <= Retries
  /\ Last(results[t]) # "interrupted"
  /\ NotAsExpected(t) \/ (t \in Serial /\ \E u \in Serial : NotAsExpected(u) /\ Retry(u) >= Retry(t))

Over == stopped \/ \A t \in Tests : phase[t] = "ended" /\ ~RunAgain(t)

\* TestCase.outcome()
Outcome(t, played) ==
  LET counted == SelectSeq(played, LAMBDA s : s # "interrupted")
      bad     == SelectSeq(counted, LAMBDA s : ~AsExpected(t, s))
  IN  CASE ToSet(counted) \subseteq {"skipped"} -> "skipped"
        [] bad = <<>> /\ counted # <<>> -> "expected"
        [] bad = counted -> "unexpected"
        [] OTHER -> "flaky"

-----------------------------------------------------------------------------
(* The reporter *)

\* resolveTestStatus
Status(t, played) ==
  CASE Outcome(t, played) = "expected" -> "passed"
    [] Outcome(t, played) = "unexpected" -> "failed"
    [] OTHER -> Outcome(t, played)

HealthAnswers == ~begun /\ begun' = TRUE /\ UNCHANGED <<phase, results, stopped, tracker, events>>

OnTestBegin(t) ==
  /\ ~stopped /\ (phase[t] = "waiting" \/ RunAgain(t))
  /\ phase' = [phase EXCEPT ![t] = "running"]
  /\ IF Retry(t) > 0 THEN UNCHANGED <<tracker, events>>
     ELSE /\ tracker' = [tracker EXCEPT ![t] = <<>>]
          /\ Enqueue(t, "test.start", "pending", <<>>)
  /\ UNCHANGED <<results, stopped, begun>>

\* Mutant: one attempt more.
IsFinalWithoutLast(s, retry) == s \in {"passed", "skipped"} \/ retry > Retries

IsFinalAttempt(s, retry) == s \in {"passed", "skipped"} \/ retry >= Retries

OnTestEnd(t, s) ==
  LET retry == Retry(t)
      played == Append(tracker[t], s)
  IN  /\ phase[t] = "running" /\ (s = "interrupted" => stopped)
      /\ phase' = [phase EXCEPT ![t] = "ended"]
      /\ results' = [results EXCEPT ![t] = Append(@, s)]
      /\ tracker' = [tracker EXCEPT ![t] = played]
      /\ IF IsFinalAttempt(s, retry)
         THEN Enqueue(t, "test.end", Status(t, Append(results[t], s)), played)
         ELSE UNCHANGED events
      /\ UNCHANGED <<stopped, begun>>

Stop == ~stopped /\ ~Over /\ stopped' = TRUE
        /\ UNCHANGED <<phase, results, begun, tracker, events>>

Init ==
  /\ phase = [t \in Tests |-> "waiting"] /\ results = [t \in Tests |-> <<>>]
  /\ stopped = FALSE /\ begun = FALSE
  /\ tracker = [t \in Tests |-> <<>>] /\ events = [t \in Tests |-> <<>>]

Next ==
  \/ HealthAnswers \/ Stop
  \/ \E t \in Tests : OnTestBegin(t) \/ \E s \in Statuses : OnTestEnd(t, s)

Spec == Init /\ [][Next]_vars

-----------------------------------------------------------------------------
TypeOK ==
  /\ phase \in [Tests -> {"waiting", "running", "ended"}]
  /\ \A t \in Tests : results[t] \in Seq(Statuses) /\ Len(results[t]) <= Retries + 1
  /\ stopped \in BOOLEAN /\ begun \in BOOLEAN /\ DOMAIN tracker = Tests
  /\ \A t \in Tests, i \in 1 .. Retries + 2 : i \in DOMAIN events[t] =>
       events[t][i].type = (IF i = 1 THEN "test.start" ELSE "test.end")

Finished    == Over /\ ~stopped
Complete(t) == LET reported == Last(events[t])
               IN  /\ events[t] # <<>> /\ reported.type = "test.end"
                   /\ reported.attempts = results[t] /\ reported.status = Status(t, results[t])

\* When Playwright is through, the last test.end of a test that is expected to pass has all
\* its attempts and their outcome, however often it or its serial group was run again.
PlayedIsReported == Finished => \A t \in Tests : ExpectedOf[t] = "passed" => Complete(t)
=============================================================================
