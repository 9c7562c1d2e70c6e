-------------------------- MODULE SpecHiveReporter --------------------------
(***************************************************************************)
(* The reporter in a test run of Playwright: the queue and the requests of *)
(* Reporter, next to the callbacks of ReporterTests, which make the events *)
(* of the tests.  The queue takes an event for what it is, so the two have *)
(* no state in common.                                                     *)
(***************************************************************************)
EXTENDS Reporter

CONSTANTS Tests, Serial, ExpectedOf, Retries

VARIABLES progress, results, stopped, begun, tracker, events

played == <<progress, results, stopped, begun, tracker, events>>

T == INSTANCE ReporterTests WITH phase <- progress

TestRunSpec == Spec /\ T!Spec

Typed == TypeOK /\ T!TypeOK

\* See ReporterTests.
PlayedIsReported == T!PlayedIsReported
=============================================================================
