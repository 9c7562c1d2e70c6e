-------------------------- MODULE MCResultProcessor --------------------------
(* Small sets of events for the worker.  In each, one run has a suite with   *)
(* one test; what differs is what happens to it.                             *)
EXTENDS ResultProcessor, TLC

CONSTANTS r1, s1, s2, t1, n1, err, noon, midnight, today, tomorrow, q1, q2, p1

Start ==
  { [type |-> "run.start", run |-> r1, at |-> noon],
    [type |-> "suite.start", run |-> r1, suite |-> s1, parent |-> NoParent,
     name |-> n1, at |-> noon],
    [type |-> "test.start", run |-> r1, suite |-> s1, test |-> t1, name |-> n1, at |-> noon] }

Ends(s, x) == [type |-> "run.end", run |-> r1, status |-> s, at |-> x]

\* A failed test, with a suite inside its suite, in a run that is ended twice, on two days.
TwoEnds == Start \cup
  { [type |-> "suite.start", run |-> r1, suite |-> s2, parent |-> s1, name |-> n1,
     at |-> noon],
    [type |-> "test.end", run |-> r1, test |-> t1, status |-> "failed", retries |-> 1,
     error |-> err, at |-> noon],
    Ends("failed", noon), Ends("cancelled", midnight) }

\* A flaky test, the end of its suite and an event the worker cannot read.
Mixed == Start \cup
  { [type |-> "test.end", run |-> r1, test |-> t1, status |-> "flaky", retries |-> 1,
     error |-> NoError, at |-> noon],
    [type |-> "suite.end", run |-> r1, suite |-> s1, at |-> noon],
    [type |-> "malformed", run |-> r1, at |-> noon],
    Ends("passed", noon) }

\* A passed test: the events a run cannot do without.
Plain == Start \cup
  { [type |-> "test.end", run |-> r1, test |-> t1, status |-> "passed", retries |-> 0,
     error |-> NoError, at |-> noon],
    Ends("passed", noon) }

\* A safety run has no need to lose events: one that is not delivered yet is as good
\* as lost.  For liveness it matters.
AllTwoEnds    == {TwoEnds}
AllMixed      == {Mixed}
NoneOrEndLost == {Plain, {e \in Plain : e.type # "run.end"}}

MCDayOf == [x \in {noon, midnight} |-> IF x = noon THEN today ELSE tomorrow]
MCHost  == [q \in Requests |-> p1]

\* What the theorems assume of the events holds of these.
ASSUME OnlyTerminalEnds /\ OneStartPerTest

\* The two calls of the interleaving run are interchangeable.
Calls == Permutations({q1, q2})
=============================================================================
