---------------------------- MODULE HandlerSteps ----------------------------
(***************************************************************************)
(* What the transactions of the worker amount to: an event takes effect    *)
(* once, as a whole and in the state its transaction finds at the commit,  *)
(* and so does a cleanup.  HandlerTransactions implements this.            *)
(***************************************************************************)
CONSTANTS Events, Runs

VARIABLES inbox, tests, ended, status, booked

rows == <<inbox, tests, ended, status, booked>>

Init ==
  /\ inbox = {} /\ tests = {} /\ ended = {} /\ booked = {}
  /\ status = [r \in Runs |-> "pending"]

\* Of a duplicate nothing happens.
Receive(e) == e \notin inbox /\ inbox' = inbox \cup {e}

\* The first event of a run's tests sets it running.
StartTest(e) ==
  /\ e.type = "test.start" /\ Receive(e)
  /\ tests' = tests \cup {e.test}
  /\ status' = [status EXCEPT ![e.run] =
                  IF e.test \notin tests /\ @ = "pending" THEN "running" ELSE @]
  /\ UNCHANGED <<ended, booked>>

EndTest(e) ==
  /\ e.type = "test.end" /\ Receive(e) /\ e.test \in tests
  /\ ended' = ended \cup {e}
  /\ UNCHANGED <<tests, status, booked>>

\* A run that is open is closed, and booked with the tests that have ended by now.
CloseRun(e) ==
  LET ends == {f \in ended : f.run = e.run}
  IN  /\ e.type = "run.end" /\ Receive(e)
      /\ status' = [status EXCEPT ![e.run] = "closed"]
      /\ booked' = IF status[e.run] = "closed" THEN booked
                   ELSE booked \cup {[event |-> e, ended |-> ends,
                                      retried |-> {f.test : f \in {g \in ends : g.retried}}]}
      /\ UNCHANGED <<tests, ended>>

Cleanup ==
  /\ status' = [r \in Runs |-> "closed"]
  /\ UNCHANGED <<inbox, tests, ended, booked>>

Next == Cleanup \/ \E e \in Events : StartTest(e) \/ EndTest(e) \/ CloseRun(e)

Spec == Init /\ [][Next]_rows
=============================================================================
