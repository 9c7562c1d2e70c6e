----------------------------- MODULE MCReporter -----------------------------
(* The reporter: its queue for one test with one attachment, where onBegin    *)
(* enqueues two events at once, and its callbacks for two tests of a serial   *)
(* group.  In a behaviour one of the two moves.                               *)
EXTENDS SpecHiveReporter

CONSTANTS runStart, suiteStart, testEnd, artifactUpload

OneTest      == << <<runStart, suiteStart>>, <<testEnd>> >>
WithTestEnd  == << <<>>, <<artifactUpload>> >>

\* One of the tests is expected to fail.
OneFails == [t \in Tests |-> IF t = "passing" THEN "passed" ELSE "failed"]

ASSUME T!ReporterTestsAssumption

VARIABLE part \* which of the two

MCInit == part \in {"queue", "tests"} /\ Init /\ T!Init

MCNext ==
  /\ UNCHANGED part
  /\ \/ part = "queue" /\ Next /\ UNCHANGED played
     \/ part = "tests" /\ T!Next /\ UNCHANGED vars

MCSpec == MCInit /\ [][MCNext]_<<vars, played, part>> /\ Fairness
=============================================================================
