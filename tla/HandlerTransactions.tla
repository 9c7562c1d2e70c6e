------------------------- MODULE HandlerTransactions -------------------------
(***************************************************************************)
(* The transactions of the worker, statement by statement, at READ         *)
(* COMMITTED: a statement that writes a row waits for the transaction that *)
(* has written it, and reads what others have committed when it begins.    *)
(* ResultProcessor takes a transaction for one step; this is why it may.   *)
(***************************************************************************)
EXTENDS Naturals, Sequences, FiniteSets

CONSTANTS Works,        \* the events: [type, run, test, name, error, retried, day]
          TxnRuns,      \* the runs
          NoErrorGroup, \* of a test.end without an error to store
          Scan,         \* the runs, in the order an UPDATE of all of them meets them
          Transactions

Types == {"test.start", "test.end", "run.end"}

HandlerTransactionsAssumption ==
  /\ \A e \in Works : e.type \in Types /\ e.run \in TxnRuns /\ e.retried \in BOOLEAN
  /\ TxnRuns # {} /\ Scan \in Seq(TxnRuns) /\ {Scan[i] : i \in DOMAIN Scan} = TxnRuns
  /\ \A i, j \in DOMAIN Scan : Scan[i] = Scan[j] => i = j

VARIABLES
  txn,      \* [Transactions -> what it does, its next statement, the rows it has written, and
            \* what it has read of them]
  keys,     \* the inbox, committed, as the following
  testRows, \* rows of tests: their ids
  ended,    \* the ends of tests in the rows of tests and in the counters of runs
  runRows,  \* [TxnRuns -> "pending", "running", "closed"]
  booked    \* daily_run_stats: [event, ended, retried]

txnVars == <<txn, keys, testRows, ended, runRows, booked>>
rows == <<keys, testRows, ended, runRows, booked>>

Cleanup == [type |-> "cleanup"]
Nothing == [type |-> "none"]
NoRow   == <<>>
Idle == [work |-> Nothing, step |-> "idle", rows |-> {}, ended |-> {}, retried |-> {}, swept |-> 0]

Steps == {"idle", "receive", "start test", "set running", "end test", "store error", "count test",
          "count name", "close run", "count retried", "book", "sweep", "commit"}

-----------------------------------------------------------------------------
(* The statements of an event and the row each of them writes *)

StartThen(s) ==
  CASE s = "receive" -> "start test" [] s = "start test" -> "set running" [] OTHER -> "commit"

EndThen(e, s) ==
  CASE s = "receive" -> "end test"
    [] s = "end test" -> IF e.error = NoErrorGroup THEN "count test" ELSE "store error"
    [] s = "store error" -> "count test"
    [] s = "count test" -> "count name"
    [] OTHER -> "commit"

CloseThen(s) ==
  CASE s = "receive" -> "close run" [] s = "close run" -> "count retried"
    [] s = "count retried" -> "book" [] OTHER -> "commit"

\* Mutant: the tests are counted before the run is closed.
CountFirst(e, s) ==
  IF e.type # "run.end" THEN IF e.type = "test.end" THEN EndThen(e, s) ELSE StartThen(s)
  ELSE CASE s = "receive" -> "count retried" [] s = "count retried" -> "close run"
         [] s = "close run" -> "book" [] OTHER -> "commit"

Then(e, s) ==
  CASE e.type = "test.start" -> StartThen(s) [] e.type = "test.end" -> EndThen(e, s)
    [] e.type = "run.end" -> CloseThen(s)

\* A statement waits for a row only if what is committed of it meets its condition.
RowOf(x) ==
  LET e == txn[x].work
      s == txn[x].step
  IN  CASE s = "receive" -> <<"inbox", e>>
        [] s = "start test" /\ e.test \notin testRows -> <<"test", e.test>>
        [] s = "end test" /\ e.test \in testRows -> <<"test", e.test>>
        [] s = "store error" -> <<"error group", e.error>>
        [] s = "count test" -> <<"run", e.run>>
        [] s = "close run" /\ runRows[e.run] # "closed" -> <<"run", e.run>>
        [] s = "set running" /\ runRows[e.run] = "pending" -> <<"run", e.run>>
        [] s = "count name" -> <<"name", e.name, e.day>>
        [] s = "book" -> <<"day", e.day>>
        [] s = "sweep" /\ runRows[Scan[txn[x].swept + 1]] # "closed" ->
             <<"run", Scan[txn[x].swept + 1]>>
        [] OTHER -> NoRow

WaitsFor(x, y) == x # y /\ RowOf(x) \in txn[y].rows
MayWrite(x) == \A y \in Transactions : ~WaitsFor(x, y)

Goto(x, s) ==
  txn' = [txn EXCEPT ![x].step = s, ![x].rows = @ \cup ({RowOf(x)} \ {NoRow})]

\* Roll back, or commit without having written anything that counts.
Release(x) == txn' = [txn EXCEPT ![x] = Idle] /\ UNCHANGED rows

At(x, s) == txn[x].step = s /\ MayWrite(x)

Proceed(x) == Goto(x, Then(txn[x].work, txn[x].step)) /\ UNCHANGED rows

-----------------------------------------------------------------------------
\* processEvent of some call; Outboxy may deliver one event to two calls.
Begin(x, e) ==
  /\ txn[x] = Idle
  /\ txn' = [txn EXCEPT ![x] = [Idle EXCEPT !.work = e, !.step = "receive"]]
  /\ UNCHANGED rows

\* inbox.receive; the handler is not called for a duplicate.
Receive(x) ==
  /\ At(x, "receive")
  /\ IF txn[x].work \in keys THEN Release(x) ELSE Proceed(x)

\* TestStartHandler: INSERT ... ON CONFLICT DO NOTHING, and the update of the run.
StartTest(x) ==
  /\ At(x, "start test")
  /\ IF txn[x].work.test \in testRows THEN Goto(x, "commit") /\ UNCHANGED rows ELSE Proceed(x)

SetRunning(x) == At(x, "set running") /\ Proceed(x)

\* TestEndHandler: no row, RetryableError.
EndTest(x) ==
  /\ At(x, "end test")
  /\ IF txn[x].work.test \in testRows THEN Proceed(x) ELSE Release(x)

StoreError(x) == At(x, "store error") /\ Proceed(x)
CountTest(x)  == At(x, "count test") /\ Proceed(x)
CountName(x)  == At(x, "count name") /\ Proceed(x)

\* RunEndHandler: the update returns the counters of the run it has closed, if it has.
EndsOf(r) == {e \in ended : e.run = r}

CloseRun(x) ==
  LET e == txn[x].work
  IN  /\ At(x, "close run")
      /\ txn' = IF runRows[e.run] = "closed" THEN [txn EXCEPT ![x].step = "commit"]
                ELSE [txn EXCEPT ![x].step = Then(e, "close run"),
                                 ![x].rows = @ \cup {RowOf(x)},
                                 ![x].ended = EndsOf(e.run)]
      /\ UNCHANGED rows

Retried(E) == {e.test : e \in {f \in E : f.retried}}

CountRetried(x) ==
  /\ At(x, "count retried")
  /\ txn' = [txn EXCEPT ![x].step = Then(txn[x].work, "count retried"),
                        ![x].retried = Retried(EndsOf(txn[x].work.run))]
  /\ UNCHANGED rows

Book(x) == At(x, "book") /\ Proceed(x)

\* cleanup_orphaned_runs, for runs of more than a day: one UPDATE.
BeginCleanup(x) ==
  /\ txn[x] = Idle
  /\ txn' = [txn EXCEPT ![x] = [Idle EXCEPT !.work = Cleanup, !.step = "sweep"]]
  /\ UNCHANGED rows

Sweep(x) ==
  LET swept == txn[x].swept + 1
  IN  /\ At(x, "sweep")
      /\ txn' = [txn EXCEPT ![x].step = IF swept = Len(Scan) THEN "commit" ELSE "sweep",
                            ![x].rows = @ \cup ({RowOf(x)} \ {NoRow}), ![x].swept = swept]
      /\ UNCHANGED rows

\* What it wrote is seen, all at once.
Wrote(x, row) == row \in txn[x].rows

Commit(x) ==
  LET e    == txn[x].work
      type == e.type
  IN  /\ txn[x].step = "commit"
      /\ keys' = IF e = Cleanup THEN keys ELSE keys \cup {e}
      /\ testRows' = IF type = "test.start" THEN testRows \cup {e.test} ELSE testRows
      /\ ended' = IF type = "test.end" THEN ended \cup {e} ELSE ended
      /\ runRows' = [r \in TxnRuns |->
           IF ~Wrote(x, <<"run", r>>) \/ type = "test.end" THEN runRows[r]
           ELSE IF type = "test.start" THEN "running" ELSE "closed"]
      /\ booked' = IF type = "run.end" /\ Wrote(x, <<"day", e.day>>)
                   THEN booked \cup {[event |-> e, ended |-> txn[x].ended,
                                      retried |-> txn[x].retried]}
                   ELSE booked
      /\ txn' = [txn EXCEPT ![x] = Idle]

\* The connection, the process or a statement fails.
RollBack(x) == txn[x] # Idle /\ Release(x)

TxnInit ==
  /\ txn = [x \in Transactions |-> Idle]
  /\ keys = {} /\ testRows = {} /\ ended = {} /\ booked = {}
  /\ runRows = [r \in TxnRuns |-> "pending"]

TxnNext ==
  \E x \in Transactions :
    \/ \E e \in Works : Begin(x, e)
    \/ BeginCleanup(x) \/ Sweep(x)
    \/ Receive(x) \/ StartTest(x) \/ SetRunning(x)
    \/ EndTest(x) \/ StoreError(x) \/ CountTest(x) \/ CountName(x)
    \/ CloseRun(x) \/ CountRetried(x) \/ Book(x)
    \/ Commit(x) \/ RollBack(x)

TxnSpec == TxnInit /\ [][TxnNext]_txnVars

-----------------------------------------------------------------------------
AllTests == {e.test : e \in Works}
AllRows  == {<<"inbox", e>> : e \in Works} \cup {<<"test", t>> : t \in AllTests}
            \cup {<<"error group", e.error>> : e \in Works} \cup {<<"run", r>> : r \in TxnRuns}
            \cup {<<"name", e.name, e.day>> : e \in Works} \cup {<<"day", e.day>> : e \in Works}

TxnTypeOK ==
  /\ txn \in [Transactions ->
       [work : Works \cup {Cleanup, Nothing}, step : Steps, rows : SUBSET AllRows,
        ended : SUBSET Works, retried : SUBSET AllTests, swept : 0 .. Len(Scan)]]
  /\ keys \subseteq Works /\ ended \subseteq keys /\ testRows \subseteq AllTests
  /\ runRows \in [TxnRuns -> {"pending", "running", "closed"}]

Begun == {x \in Transactions : txn[x] # Idle}

\* No transactions wait for one another in a circle: the handlers and the cleanup write the
\* rows of tests, error groups, runs and statistics in one order.
NoDeadlock ==
  \A S \in SUBSET Begun :
    S # {} => \E x \in S : \A y \in S : ~WaitsFor(x, y)

\* A run is booked once, and the number of its retried tests, which a statement of its own
\* reads, is of the same tests as the counters the update has returned.
BookedAtOnce ==
  /\ \A b, c \in booked : b.event.run = c.event.run => b = c
  /\ \A b \in booked : b.retried = Retried(b.ended)

\* What ResultProcessor supposes of transactions: they end, and each is one step, at its commit.
Atomic == INSTANCE HandlerSteps WITH
  Events <- Works, Runs <- TxnRuns, inbox <- keys, tests <- testRows, status <- runRows
TransactionsHold == [](TxnTypeOK /\ NoDeadlock) /\ Atomic!Spec
=============================================================================
