------------------------------ MODULE RunLedger ------------------------------
(***************************************************************************)
(* What the worker promises about runs, whatever Outboxy and the database  *)
(* do to it: a run opens once and closes once, and only a close by a       *)
(* run.end is booked in the statistics of a day, once; and every end of a  *)
(* test is tallied once, in the run it belongs to, which exists.  It says  *)
(* nothing about delivery, transactions or the order of events.            *)
(***************************************************************************)
EXTENDS Integers

CONSTANTS Runs, Days, TestEnds, Counters,
          Weight \* [TestEnds -> [Counters -> Nat]]: what an end of a test adds

VARIABLES phase,   \* [Runs -> {"absent", "open", "closed"}]
          tallied, \* the ends of tests that have been counted
          tally,   \* [Runs -> [Counters -> Nat]]
          booked   \* [Days -> Nat]: the runs booked on a day

ledger == <<phase, tallied, tally, booked>>

Init ==
  /\ phase = [r \in Runs |-> "absent"]
  /\ tallied = {}
  /\ tally = [r \in Runs |-> [c \in Counters |-> 0]]
  /\ booked = [d \in Days |-> 0]

Open(r) ==
  /\ phase[r] = "absent"
  /\ phase' = [phase EXCEPT ![r] = "open"]
  /\ UNCHANGED <<tallied, tally, booked>>

\* Also after the close: an end of a test that arrives late still counts.
Tally(e) ==
  /\ e \notin tallied
  /\ phase[e.run] # "absent"
  /\ tallied' = tallied \cup {e}
  /\ tally' = [tally EXCEPT ![e.run] = [c \in Counters |-> @[c] + Weight[e][c]]]
  /\ UNCHANGED <<phase, booked>>

\* A run.end closes the run and books it.
Close(r, d) ==
  /\ phase[r] = "open"
  /\ phase' = [phase EXCEPT ![r] = "closed"]
  /\ booked' = [booked EXCEPT ![d] = @ + 1]
  /\ UNCHANGED <<tallied, tally>>

\* The cleanup closes any number of open runs at once, and books none.
Abandon(R) ==
  /\ \A r \in R : phase[r] = "open"
  /\ phase' = [r \in Runs |-> IF r \in R THEN "closed" ELSE phase[r]]
  /\ UNCHANGED <<tallied, tally, booked>>

Next ==
  \/ \E r \in Runs : Open(r)
  \/ \E e \in TestEnds : Tally(e)
  \/ \E r \in Runs, d \in Days : Close(r, d)
  \/ \E R \in SUBSET Runs : Abandon(R)

Spec == Init /\ [][Next]_ledger
=============================================================================
