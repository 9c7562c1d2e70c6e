--------------------------- MODULE MCInterleavings ---------------------------
(* Interleavings in the worker: of its calls, whose transactions are steps,   *)
(* and of the statements of transactions.  The two share no state: a          *)
(* behaviour is one of them.                                                  *)
EXTENDS MCResultProcessor, HandlerTransactions

CONSTANTS x1, x2, x3, r2, t2, none

VARIABLE part \* which of the two

\* Two tests of one name in two runs fail with the same error; one of the runs is ended twice.
Event(type, run, test, error, retried, day) ==
  [type |-> type, run |-> run, test |-> test, name |-> n1, error |-> error,
   retried |-> retried, day |-> day]

TwoRuns == {Event("test.start", r1, t1, none, FALSE, none),
            Event("test.end", r1, t1, err, TRUE, today),
            Event("test.start", r2, t2, none, FALSE, none),
            Event("test.end", r2, t2, err, FALSE, today),
            Event("run.end", r1, none, none, FALSE, today),
            Event("run.end", r1, none, none, FALSE, tomorrow)}
InOrderOfIds == <<r1, r2>>

ASSUME HandlerTransactionsAssumption

MCInit == part \in {"calls", "transactions"} /\ Init /\ TxnInit

MCNext ==
  /\ UNCHANGED part
  /\ \/ part = "calls" /\ Next /\ UNCHANGED txnVars
     \/ part = "transactions" /\ TxnNext /\ UNCHANGED vars

MCSpec == MCInit /\ [][MCNext]_<<vars, txnVars, part>>

\* Calls are interchangeable, and so are transactions: of the two parts only one moves, and a
\* permutation serves for both.
Exchanges == {p \in Permutations(Transactions) : Cardinality({x \in Transactions : p[x] = x}) = 1}
Symmetric == {p @@ q1 :> q2 @@ q2 :> q1 : p \in Exchanges}
=============================================================================
