---------------------- MODULE HandlerTransactionsProofs ----------------------
(* What TLAPS proves about the transactions of the worker: for any number of  *)
(* them, of runs, tests and names.                                           *)
EXTENDS HandlerTransactions, WellFoundedInduction, TLAPS

Txn == [work : Works \cup {Cleanup, Nothing}, step : Steps, rows : SUBSET AllRows,
        ended : SUBSET Works, retried : SUBSET AllTests, swept : 0 .. Len(Scan)]

-----------------------------------------------------------------------------
(* The order of rows *)

Position(r) == CHOOSE i \in DOMAIN Scan : Scan[i] = r
Top == 3 + Len(Scan)

Place(row) ==
  CASE row[1] = "inbox" -> 0
    [] row[1] = "test" -> 1
    [] row[1] = "error group" -> 2
    [] row[1] = "run" -> 2 + Position(row[2])
    [] OTHER -> Top

\* What a transaction has written that has come to step s is below this.
Reach(s, swept) ==
  CASE s \in {"idle", "receive"} -> 0
    [] s \in {"start test", "end test", "close run"} -> 1
    [] s = "store error" -> 2
    [] s \in {"set running", "count test"} -> 3
    [] s = "sweep" -> 3 + swept
    [] s = "commit" -> Top + 1
    [] OTHER -> Top

InOrder(t) == \A row \in t.rows : Place(row) \in Nat /\ Place(row) < Reach(t.step, t.swept)

\* A transaction does what its work asks for.
Fits(work, s, swept) ==
  /\ s = "idle" => work = Nothing
  /\ s \notin {"idle", "sweep", "commit"} => work \in Works
  /\ s \in {"start test", "set running"} => work.type = "test.start"
  /\ s \in {"end test", "store error", "count test", "count name"} => work.type = "test.end"
  /\ s \in {"close run", "count retried", "book"} => work.type = "run.end"
  /\ s = "sweep" => work = Cleanup /\ swept < Len(Scan)
  /\ s = "commit" => work \in Works \cup {Cleanup}

-----------------------------------------------------------------------------
(* What a transaction has read of a run it has written stays so *)

Books(t) == t.work.type = "run.end" /\ <<"day", t.work.day>> \in t.rows

ReadsStand(t) ==
  /\ t.work.type \in {"test.start", "run.end"} =>
       \A r \in TxnRuns : <<"run", r>> \in t.rows => runRows[r] # "closed"
  /\ t.step \in {"count retried", "book"} \/ Books(t) =>
       <<"run", t.work.run>> \in t.rows /\ t.ended = EndsOf(t.work.run)
  /\ t.step = "book" \/ Books(t) => t.retried = Retried(t.ended)
  /\ t.work.type = "test.end" /\ t.step \in {"count name", "commit"} =>
       <<"run", t.work.run>> \in t.rows

\* A row is written by one transaction at a time.
WrittenByOne ==
  \A x, y \in Transactions : x # y => txn[x].rows \cap txn[y].rows = {}

BookedAreClosed == \A b \in booked : b.event \in Works /\ runRows[b.event.run] = "closed"

IInv ==
  /\ TxnTypeOK /\ WrittenByOne /\ BookedAreClosed /\ BookedAtOnce
  /\ \A x \in Transactions :
       /\ Fits(txn[x].work, txn[x].step, txn[x].swept)
       /\ InOrder(txn[x]) /\ ReadsStand(txn[x])

-----------------------------------------------------------------------------
\* The places of the rows.
LEMMA Places ==
  ASSUME HandlerTransactionsAssumption
  PROVE  /\ \A e : Place(<<"inbox", e>>) = 0
         /\ \A t : Place(<<"test", t>>) = 1
         /\ \A e : Place(<<"error group", e>>) = 2
         /\ \A i \in 1 .. Len(Scan) : Place(<<"run", Scan[i]>>) = 2 + i
         /\ \A n, d : Place(<<"name", n, d>>) = Top
         /\ \A d : Place(<<"day", d>>) = Top
<1>1. \A i \in 1 .. Len(Scan) : Position(Scan[i]) = i
  BY DEF Position, HandlerTransactionsAssumption
<1>2. \A r : Place(<<"run", r>>) = 2 + Position(r) BY DEF Place
<1>3. \A i \in 1 .. Len(Scan) : Place(<<"run", Scan[i]>>) = 2 + i BY <1>1, <1>2
<1>4. /\ \A e : Place(<<"inbox", e>>) = 0
      /\ \A t : Place(<<"test", t>>) = 1
      /\ \A e : Place(<<"error group", e>>) = 2
  BY DEF Place
<1>5. /\ \A n, d : Place(<<"name", n, d>>) = Top
      /\ \A d : Place(<<"day", d>>) = Top
  BY DEF Place
<1> QED BY <1>3, <1>4, <1>5

\* A row that is written is one.
LEMMA NoRowIsNone == NoRow \notin AllRows
<1>1. \A a, b : DOMAIN <<a, b>> = 1 .. 2 OBVIOUS
<1>2. \A a, b, c : DOMAIN <<a, b, c>> = 1 .. 3 OBVIOUS
<1>3. \A a, b, c : <<a, b>> # NoRow /\ <<a, b, c>> # NoRow
  <2>1. DOMAIN NoRow = {} BY DEF NoRow
  <2> QED BY <1>1, <1>2, <2>1
<1> QED BY <1>3 DEF AllRows

\* Every run has its place, between the error groups and the statistics.
LEMMA PlaceOfRun ==
  ASSUME HandlerTransactionsAssumption, NEW r \in TxnRuns
  PROVE  /\ Place(<<"run", r>>) \in Nat
         /\ 3 <= Place(<<"run", r>>) /\ Place(<<"run", r>>) < Top
<1>1. PICK i \in 1 .. Len(Scan) : Scan[i] = r BY DEF HandlerTransactionsAssumption
<1>2. Place(<<"run", r>>) = 2 + i BY <1>1, Places
<1>3. Len(Scan) \in Nat BY DEF HandlerTransactionsAssumption
<1> QED BY <1>2, <1>3 DEF Top

\* Reach is a number.
LEMMA ReachTyped ==
  ASSUME HandlerTransactionsAssumption, NEW s, NEW n \in Int PROVE Reach(s, n) \in Int
<1>1. Len(Scan) \in Nat BY DEF HandlerTransactionsAssumption
<1>2. Reach(s, n) \in {0, 1, 2, 3, 3 + n, Top + 1, Top} BY ZenonT(30) DEF Reach
<1> QED BY <1>1, <1>2 DEF Top

\* A transaction waits for rows beyond what it has reached.
LEMMA RowIsBeyond ==
  ASSUME HandlerTransactionsAssumption, TxnTypeOK, NEW x \in Transactions,
         Fits(txn[x].work, txn[x].step, txn[x].swept), RowOf(x) # NoRow
  PROVE  /\ RowOf(x) \in AllRows
         /\ Place(RowOf(x)) \in 0 .. Top /\ Reach(txn[x].step, txn[x].swept) <= Place(RowOf(x))
<1> DEFINE e == txn[x].work
           s == txn[x].step
<1>1. txn[x] \in Txn BY DEF TxnTypeOK, Txn
<1>2. Len(Scan) \in Nat /\ Scan \in Seq(TxnRuns) BY DEF HandlerTransactionsAssumption
<1>3. \A f \in Works : f.run \in TxnRuns /\ f.test \in AllTests
  BY DEF HandlerTransactionsAssumption, AllTests
<1>4. CASE s = "receive"
  <2>1. RowOf(x) = <<"inbox", e>> /\ e \in Works BY <1>4 DEF RowOf, Fits
  <2>2. Reach(txn[x].step, txn[x].swept) = 0 BY <1>4 DEF Reach
  <2>3. RowOf(x) \in AllRows BY <2>1 DEF AllRows
  <2>4. Place(RowOf(x)) = 0 BY <2>1, Places
  <2> QED BY <1>2, <2>2, <2>3, <2>4 DEF Top
<1>5. CASE s \in {"start test", "end test"}
  <2>1. RowOf(x) = <<"test", e.test>> /\ e \in Works BY <1>5 DEF RowOf, Fits, NoRow
  <2>2. Reach(txn[x].step, txn[x].swept) = 1 BY <1>5 DEF Reach
  <2>3. RowOf(x) \in AllRows BY <1>3, <2>1 DEF AllRows
  <2>4. Place(RowOf(x)) = 1 BY <2>1, Places
  <2> QED BY SMTT(60), <1>2, <2>2, <2>3, <2>4 DEF Top
<1>6. CASE s = "store error"
  <2>1. RowOf(x) = <<"error group", e.error>> /\ e \in Works BY <1>6 DEF RowOf, Fits
  <2>2. Reach(txn[x].step, txn[x].swept) = 2 BY <1>6 DEF Reach
  <2>3. RowOf(x) \in AllRows BY <2>1 DEF AllRows
  <2>4. Place(RowOf(x)) = 2 BY <2>1, Places
  <2> QED BY <1>2, <2>2, <2>3, <2>4 DEF Top
<1>7. CASE s \in {"set running", "count test", "close run"}
  <2>1. RowOf(x) = <<"run", e.run>> /\ e \in Works BY <1>7 DEF RowOf, Fits, NoRow
  <2>2. Reach(txn[x].step, txn[x].swept) \in {1, 3} BY <1>7 DEF Reach
  <2>3. RowOf(x) \in AllRows BY <1>3, <2>1 DEF AllRows
  <2> QED BY SMTT(60), <1>2, <1>3, <2>1, <2>2, <2>3, PlaceOfRun DEF Top
<1>8. CASE s = "count name"
  <2>1. RowOf(x) = <<"name", e.name, e.day>> /\ e \in Works BY <1>8 DEF RowOf, Fits
  <2>2. Reach(txn[x].step, txn[x].swept) = Top BY <1>8 DEF Reach
  <2>3. RowOf(x) \in AllRows BY <2>1 DEF AllRows
  <2>4. Place(RowOf(x)) = Top BY ZenonT(60), <2>1, Places
  <2> QED BY <1>2, <2>2, <2>3, <2>4 DEF Top
<1>9. CASE s = "book"
  <2>1. RowOf(x) = <<"day", e.day>> /\ e \in Works BY <1>9 DEF RowOf, Fits
  <2>2. Reach(txn[x].step, txn[x].swept) = Top BY <1>9 DEF Reach
  <2>3. RowOf(x) \in AllRows BY <2>1 DEF AllRows
  <2>4. Place(RowOf(x)) = Top BY <2>1, Places
  <2> QED BY <1>2, <2>2, <2>3, <2>4 DEF Top
<1>10. CASE s = "sweep"
  <2>1. RowOf(x) = <<"run", Scan[txn[x].swept + 1]>> BY <1>10 DEF RowOf, NoRow
  <2>2. txn[x].swept + 1 \in 1 .. Len(Scan) BY <1>1, <1>2, <1>10 DEF Fits, Txn
  <2>3. Reach(txn[x].step, txn[x].swept) = 3 + txn[x].swept BY <1>10 DEF Reach
  <2>4. Scan[txn[x].swept + 1] \in TxnRuns BY <1>2, <2>2
  <2>5. Place(RowOf(x)) = 2 + (txn[x].swept + 1) BY <2>1, <2>2, Places
  <2>6. txn[x].swept \in Nat BY <1>1 DEF Txn
  <2>7. RowOf(x) \in AllRows BY <2>1, <2>4 DEF AllRows
  <2> QED BY <1>2, <2>2, <2>3, <2>5, <2>6, <2>7 DEF Top
<1>11. CASE s \in {"idle", "count retried", "commit"} BY <1>11 DEF RowOf
<1> QED BY <1>1, <1>4, <1>5, <1>6, <1>7, <1>8, <1>9, <1>10, <1>11 DEF Txn, Steps

\* Of transactions that wait, the one that waits for the highest row waits for none of them.
LEMMA NoCircle == ASSUME HandlerTransactionsAssumption, IInv PROVE NoDeadlock
<1> SUFFICES ASSUME NEW S \in SUBSET Transactions, S # {},
                    \A x \in S : \E y \in S : WaitsFor(x, y)
             PROVE  FALSE
  BY DEF NoDeadlock, Begun
<1> DEFINE Left(x) == Top - Place(RowOf(x))
           Lefts == {Left(x) : x \in S}
<1>1. Len(Scan) \in Nat BY DEF HandlerTransactionsAssumption
<1>2. ASSUME NEW x \in S, NEW y \in S, WaitsFor(x, y)
      PROVE  RowOf(x) # NoRow /\ Place(RowOf(x)) < Reach(txn[y].step, txn[y].swept)
  <2>1. RowOf(x) \in txn[y].rows BY <1>2 DEF WaitsFor
  <2>2. txn[y].rows \subseteq AllRows BY DEF IInv, TxnTypeOK
  <2>3. RowOf(x) # NoRow BY <2>1, <2>2, NoRowIsNone
  <2> QED BY <2>1, <2>3 DEF IInv, InOrder
<1>3. \A x \in S : RowOf(x) # NoRow BY <1>2
<1>4. \A x \in S : /\ Place(RowOf(x)) \in 0 .. Top
                   /\ Reach(txn[x].step, txn[x].swept) <= Place(RowOf(x))
  BY <1>3, RowIsBeyond DEF IInv
<1>5. \A x \in S : Left(x) \in Nat BY SMTT(60), <1>1, <1>4 DEF Top
<1>6. Lefts \subseteq Nat /\ Lefts # {} BY <1>5
<1> HIDE DEF Lefts
<1>7. PICK m \in Lefts : \A n \in Lefts : ~(<<n, m>> \in OpToRel(<, Nat))
  BY <1>6, NatLessThanWellFounded, WFMin
<1>8. \A n \in Lefts : ~(n < m) BY <1>6, <1>7, Zenon DEF OpToRel
<1>9. PICK x \in S : m = Left(x) BY <1>7 DEF Lefts
<1>10. PICK y \in S : WaitsFor(x, y) OBVIOUS
<1>11. Place(RowOf(x)) < Reach(txn[y].step, txn[y].swept) BY <1>2, <1>10
<1>12. Left(y) \in Lefts BY DEF Lefts
<1>13. ~(Left(y) < Left(x)) BY <1>8, <1>9, <1>12
<1>14. /\ Place(RowOf(x)) \in 0 .. Top /\ Place(RowOf(y)) \in 0 .. Top
       /\ Reach(txn[y].step, txn[y].swept) <= Place(RowOf(y))
  BY <1>4
<1>15. Reach(txn[y].step, txn[y].swept) \in Int BY ReachTyped DEF IInv, TxnTypeOK
<1> QED BY <1>1, <1>11, <1>13, <1>14, <1>15 DEF Top

-----------------------------------------------------------------------------
(* The invariant *)

\* No transaction has begun.
LEMMA InitIsRight == ASSUME HandlerTransactionsAssumption, TxnInit PROVE IInv
<1> USE DEF TxnInit
<1>1. Idle \in Txn
  BY DEF Idle, Txn, Steps, HandlerTransactionsAssumption
<1>2. TxnTypeOK BY <1>1 DEF TxnTypeOK, Txn
<1>3. \A x \in Transactions : txn[x] = Idle OBVIOUS
<1>4. Fits(Idle.work, Idle.step, Idle.swept) /\ InOrder(Idle) /\ ReadsStand(Idle)
  BY DEF Fits, InOrder, ReadsStand, Idle, Nothing, Books
<1>5. WrittenByOne BY <1>3 DEF WrittenByOne, Idle
<1>6. BookedAreClosed /\ BookedAtOnce BY DEF BookedAreClosed, BookedAtOnce
<1> QED BY <1>2, <1>3, <1>4, <1>5, <1>6 DEF IInv

\* A statement: one transaction goes on, with the row it wrote, which nobody else has.
LEMMA StatementKeeps ==
  ASSUME IInv, NEW x \in Transactions, NEW new \in Txn, txn' = [txn EXCEPT ![x] = new],
         UNCHANGED rows,
         \A row \in new.rows : row \in txn[x].rows \/ (row = RowOf(x) /\ MayWrite(x)),
         Fits(new.work, new.step, new.swept), InOrder(new), ReadsStand(new)
  PROVE  IInv'
<1>1. txn \in [Transactions -> Txn] BY DEF IInv, TxnTypeOK, Txn
<1>2. \A y \in Transactions : txn'[y] = IF y = x THEN new ELSE txn[y] BY <1>1
<1>3. TxnTypeOK' BY <1>1 DEF IInv, TxnTypeOK, Txn, rows
<1>4. ASSUME NEW y \in Transactions, y # x PROVE new.rows \cap txn[y].rows = {}
  <2> SUFFICES ASSUME NEW row \in new.rows, row \in txn[y].rows PROVE FALSE
    OBVIOUS
  <2>1. CASE row \in txn[x].rows BY <1>4, <2>1 DEF IInv, WrittenByOne
  <2>2. CASE row = RowOf(x) /\ MayWrite(x) BY <1>4, <2>2 DEF MayWrite, WaitsFor
  <2> QED BY <2>1, <2>2
<1>5. WrittenByOne' BY <1>2, <1>4 DEF IInv, WrittenByOne
<1>6. BookedAreClosed' /\ BookedAtOnce' BY DEF IInv, BookedAreClosed, BookedAtOnce, rows
<1>7. ASSUME NEW y \in Transactions
      PROVE  (/\ Fits(txn[y].work, txn[y].step, txn[y].swept)
              /\ InOrder(txn[y]) /\ ReadsStand(txn[y]))'
  <2>1. /\ Fits(txn'[y].work, txn'[y].step, txn'[y].swept)
        /\ InOrder(txn'[y]) /\ ReadsStand(txn'[y])
    BY <1>2 DEF IInv
  <2> QED BY <2>1 DEF Fits, InOrder, ReadsStand, Books, EndsOf, rows
<1> QED BY <1>3, <1>5, <1>6, <1>7 DEF IInv

\* A row that is written is of a run that was open, unless it is by test.end or the cleanup.
LEMMA RowsOfSteps ==
  ASSUME NEW x \in Transactions, txn[x].step \in Steps, Fits(txn[x].work, txn[x].step, txn[x].swept)
  PROVE  /\ \A r : RowOf(x) = <<"run", r>> /\ txn[x].work.type \in {"test.start", "run.end"} =>
                     runRows[r] # "closed"
         /\ \A d : RowOf(x) = <<"day", d>> => txn[x].step = "book"
<1> DEFINE s == txn[x].step
<1>1. \A a : <<"run", a>> # NoRow /\ <<"day", a>> # NoRow
  <2>1. \A a : DOMAIN <<"run", a>> = 1 .. 2 /\ DOMAIN <<"day", a>> = 1 .. 2 OBVIOUS
  <2>2. DOMAIN NoRow = {} BY DEF NoRow
  <2> QED BY <2>1, <2>2
<1>2. CASE s \in {"receive", "start test", "end test", "store error", "count name"}
  <2>1. RowOf(x)[1] \notin {"run", "day"} \/ RowOf(x) = NoRow BY ZenonT(60), <1>2 DEF RowOf
  <2> QED BY <1>1, <2>1
<1>3. CASE s \in {"set running", "close run"}
  <2>1. RowOf(x) = NoRow \/ RowOf(x) = <<"run", txn[x].work.run>> BY <1>3 DEF RowOf
  <2>2. RowOf(x) # NoRow => runRows[txn[x].work.run] # "closed" BY <1>3 DEF RowOf
  <2>3. \A r : RowOf(x) = <<"run", r>> => RowOf(x) = <<"run", txn[x].work.run>> BY <1>1, <2>1
  <2>4. \A r : RowOf(x) = <<"run", r>> => r = txn[x].work.run BY <2>3
  <2>5. \A d : RowOf(x) # <<"day", d>> BY <1>1, <2>1
  <2> QED BY <1>1, <2>2, <2>4, <2>5
<1>4. CASE s \in {"count test", "sweep"}
  <2>1. txn[x].work.type = "test.end" \/ txn[x].work = Cleanup BY ZenonT(60), <1>4 DEF Fits
  <2>2. RowOf(x) = NoRow \/ \E r : RowOf(x) = <<"run", r>> BY <1>4 DEF RowOf
  <2>3. txn[x].work.type \notin {"test.start", "run.end"} BY <2>1 DEF Cleanup
  <2> QED BY <1>1, <2>2, <2>3
<1>5. CASE s = "book"
  <2>1. RowOf(x) = <<"day", txn[x].work.day>> BY <1>5 DEF RowOf
  <2> QED BY <1>5, <2>1
<1>6. CASE s \in {"idle", "count retried", "commit"}
  <2>1. RowOf(x) = NoRow BY <1>6 DEF RowOf
  <2> QED BY <1>1, <2>1
<1> QED BY <1>2, <1>3, <1>4, <1>5, <1>6 DEF Steps

\* A test.end that has counted its test has the row of the run.
RunIsWritten(x, s) ==
  txn[x].work.type = "test.end" /\ s \in {"count name", "commit"} =>
    <<"run", txn[x].work.run>> \in txn[x].rows \/ <<"run", txn[x].work.run>> = RowOf(x)

\* What a statement before it has read is for none of these steps.
ReadsNothing(s) == s # "count retried" /\ s # "book"

\* A statement with its row, and the next step.
LEMMA GotoKeeps ==
  ASSUME HandlerTransactionsAssumption, IInv, NEW x \in Transactions, MayWrite(x),
         NEW s, s \in Steps, ReadsNothing(s),
         Goto(x, s), UNCHANGED rows,
         Fits(txn[x].work, s, txn[x].swept),
         Reach(txn[x].step, txn[x].swept) <= Reach(s, txn[x].swept),
         RowOf(x) # NoRow => Place(RowOf(x)) < Reach(s, txn[x].swept),
         RunIsWritten(x, s)
  PROVE  IInv'
<1> DEFINE written == txn[x].rows \cup ({RowOf(x)} \ {NoRow})
           new == [txn[x] EXCEPT !.step = s, !.rows = written]
<1>1. txn \in [Transactions -> Txn] /\ txn[x] \in Txn BY DEF IInv, TxnTypeOK, Txn
<1>2. /\ Fits(txn[x].work, txn[x].step, txn[x].swept)
      /\ InOrder(txn[x]) /\ ReadsStand(txn[x]) /\ TxnTypeOK
  BY DEF IInv
<1>3. RowOf(x) # NoRow => RowOf(x) \in AllRows /\ Place(RowOf(x)) \in 0 .. Top
  BY <1>2, RowIsBeyond
<1>4. txn' = [txn EXCEPT ![x] = new] BY <1>1 DEF Goto
<1>5. written \in SUBSET AllRows BY <1>1, <1>3 DEF Txn
<1>6. /\ new \in Txn /\ new.step = s /\ new.rows = written /\ new.work = txn[x].work
      /\ new.ended = txn[x].ended /\ new.retried = txn[x].retried /\ new.swept = txn[x].swept
  BY <1>1, <1>5 DEF Txn
<1>7. Fits(new.work, new.step, new.swept) BY <1>1, <1>6 DEF Fits, Txn
<1>8. InOrder(new)
  <2>1. txn[x].swept \in Int /\ Top \in Nat
    <3>1. Len(Scan) \in Nat BY DEF HandlerTransactionsAssumption
    <3> QED BY <1>1, <3>1 DEF Txn, Top
  <2>2. Reach(txn[x].step, txn[x].swept) \in Int /\ Reach(s, txn[x].swept) \in Int
    BY <2>1, ReachTyped
  <2> HIDE DEF new
  <2> SUFFICES ASSUME NEW row \in written
               PROVE  Place(row) \in Nat /\ Place(row) < Reach(s, txn[x].swept)
    BY <1>6 DEF InOrder
  <2>3. CASE row \in txn[x].rows
    <3>1. Place(row) \in Nat /\ Place(row) < Reach(txn[x].step, txn[x].swept)
      BY <1>2, <2>3, Zenon DEF InOrder
    <3> QED BY <2>2, <3>1
  <2>4. CASE row = RowOf(x) /\ RowOf(x) # NoRow
    <3>1. Place(row) \in 0 .. Top /\ Place(row) < Reach(s, txn[x].swept) BY <1>3, <2>4, Zenon
    <3> QED BY <2>1, <3>1
  <2> QED BY <2>3, <2>4
<1>9. ReadsStand(new)
  <2>1. /\ \A r : RowOf(x) = <<"run", r>> /\ txn[x].work.type \in {"test.start", "run.end"} =>
                    runRows[r] # "closed"
        /\ \A d : RowOf(x) = <<"day", d>> => txn[x].step = "book"
    BY <1>1, <1>2, RowsOfSteps DEF Txn
  <2> HIDE DEF new
  <2>2. Books(new) => Books(txn[x]) \/ txn[x].step = "book" BY <1>6, <2>1 DEF Books
  <2>3. \A r : <<"run", r>> # NoRow
    <3>1. \A r : DOMAIN <<"run", r>> = 1 .. 2 OBVIOUS
    <3>2. DOMAIN NoRow = {} BY DEF NoRow
    <3> QED BY <3>1, <3>2
  <2> QED BY <1>2, <1>6, <2>1, <2>2, <2>3 DEF ReadsStand, RunIsWritten, ReadsNothing
<1> HIDE DEF new
<1> QED BY <1>4, <1>6, <1>7, <1>8, <1>9, StatementKeeps

\* A transaction that has not begun.
LEMMA IdleTyped ==
  ASSUME HandlerTransactionsAssumption PROVE Idle \in Txn /\ Idle.rows = {} /\ Idle.swept = 0
<1>1. Len(Scan) \in Nat BY DEF HandlerTransactionsAssumption
<1> QED BY <1>1 DEF Idle, Txn, Steps

\* A transaction that ends without a commit leaves nothing behind.
LEMMA ReleaseKeeps ==
  ASSUME HandlerTransactionsAssumption, IInv, NEW x \in Transactions, Release(x) PROVE IInv'
<1>1. Fits(Idle.work, Idle.step, Idle.swept) /\ InOrder(Idle) /\ ReadsStand(Idle) /\ Idle.rows = {}
  BY DEF Fits, InOrder, ReadsStand, Idle, Nothing, Books
<1> QED BY <1>1, IdleTyped, StatementKeeps DEF Release

\* The numbers of Reach.
LEMMA Reaches ==
  ASSUME NEW n
  PROVE  /\ Reach("receive", n) = 0 /\ Reach("start test", n) = 1 /\ Reach("end test", n) = 1
         /\ Reach("close run", n) = 1 /\ Reach("store error", n) = 2
         /\ Reach("set running", n) = 3 /\ Reach("count test", n) = 3
         /\ Reach("sweep", n) = 3 + n /\ Reach("count name", n) = Top
         /\ Reach("count retried", n) = Top /\ Reach("book", n) = Top
         /\ Reach("commit", n) = Top + 1
BY DEF Reach

\* An event begins, or the cleanup.
LEMMA BeginKeeps ==
  ASSUME HandlerTransactionsAssumption, IInv, NEW x \in Transactions,
         BeginCleanup(x) \/ \E e \in Works : Begin(x, e)
  PROVE  IInv'
<1>1. Len(Scan) \in Nat /\ 0 < Len(Scan) BY DEF HandlerTransactionsAssumption
<1>2. CASE BeginCleanup(x)
  <2> DEFINE new == [Idle EXCEPT !.work = Cleanup, !.step = "sweep"]
  <2>1. /\ new \in Txn /\ new.rows = {} /\ new.work = Cleanup /\ new.step = "sweep"
        /\ new.swept = 0
    BY IdleTyped DEF Txn, Steps
  <2> HIDE DEF new
  <2>2. Fits(new.work, new.step, new.swept) BY <1>1, <2>1 DEF Fits
  <2>3. InOrder(new) BY <2>1 DEF InOrder
  <2>4. ReadsStand(new) BY <2>1 DEF ReadsStand, Books, Cleanup
  <2> QED BY <1>2, <2>1, <2>2, <2>3, <2>4, StatementKeeps DEF BeginCleanup, new
<1>3. ASSUME NEW e \in Works, Begin(x, e) PROVE IInv'
  <2> DEFINE new == [Idle EXCEPT !.work = e, !.step = "receive"]
  <2>1. new \in Txn /\ new.rows = {} /\ new.work = e /\ new.step = "receive"
    BY IdleTyped DEF Txn, Steps
  <2> HIDE DEF new
  <2>2. Fits(new.work, new.step, new.swept) BY <2>1 DEF Fits
  <2>3. InOrder(new) BY <2>1 DEF InOrder
  <2>4. ReadsStand(new) BY <2>1 DEF ReadsStand, Books
  <2> QED BY <1>3, <2>1, <2>2, <2>3, <2>4, StatementKeeps DEF Begin, new
<1> QED BY <1>2, <1>3

\* The row of the inbox is the first.
LEMMA ReceiveKeeps ==
  ASSUME HandlerTransactionsAssumption, IInv, NEW x \in Transactions, Receive(x) PROVE IInv'
<1> DEFINE e == txn[x].work
           n == txn[x].swept
<1>1. /\ txn[x].step = "receive" /\ MayWrite(x) /\ Fits(e, txn[x].step, n)
  BY DEF Receive, At, IInv
<1>2. e \in Works /\ e.type \in Types BY <1>1 DEF Fits, HandlerTransactionsAssumption
<1>3. CASE e \in keys BY <1>3, ReleaseKeeps DEF Receive
<1>4. CASE e \notin keys
  <2> DEFINE s == Then(e, "receive")
  <2>1. UNCHANGED rows /\ Goto(x, s) BY <1>1, <1>4 DEF Receive, Proceed
  <2>2. \/ s = "start test" /\ e.type = "test.start"
        \/ s = "end test" /\ e.type = "test.end"
        \/ s = "close run" /\ e.type = "run.end"
    BY <1>2 DEF Then, StartThen, EndThen, CloseThen, Types
  <2> HIDE DEF s
  <2>3. s \in Steps /\ ReadsNothing(s) /\ RunIsWritten(x, s)
    BY <2>2 DEF Steps, ReadsNothing, RunIsWritten
  <2>4. Fits(e, s, n) BY <1>2, <2>2 DEF Fits
  <2>5. Reach(txn[x].step, n) = 0 /\ Reach(s, n) = 1 BY <1>1, <2>2, Reaches
  <2>6. Place(RowOf(x)) = 0
    <3>1. RowOf(x) = <<"inbox", e>> BY <1>1 DEF RowOf
    <3> QED BY <3>1, Places
  <2> QED BY <1>1, <2>1, <2>3, <2>4, <2>5, <2>6, GotoKeeps
<1> QED BY <1>3, <1>4

\* test.start: the row of the test, and that of the run.
LEMMA StartKeeps ==
  ASSUME HandlerTransactionsAssumption, IInv, NEW x \in Transactions,
         StartTest(x) \/ SetRunning(x)
  PROVE  IInv'
<1> DEFINE e == txn[x].work
           n == txn[x].swept
<1>1. MayWrite(x) /\ Fits(e, txn[x].step, n) /\ TxnTypeOK
  BY DEF StartTest, SetRunning, At, IInv
<1>2. txn[x].step = "start test" \/ txn[x].step = "set running"
  BY DEF StartTest, SetRunning, At
<1>3. e \in Works /\ e.type = "test.start" BY <1>1, <1>2 DEF Fits
<1>4. Top \in Nat /\ 4 <= Top
  <2>1. Len(Scan) \in Nat /\ 0 < Len(Scan) BY DEF HandlerTransactionsAssumption
  <2> QED BY <2>1 DEF Top
<1>5. RowOf(x) # NoRow => Place(RowOf(x)) \in 0 .. Top BY <1>1, RowIsBeyond
<1>6. ASSUME NEW s, Goto(x, s), UNCHANGED rows, s = "commit" PROVE IInv'
  <2>1. s \in Steps /\ ReadsNothing(s) /\ RunIsWritten(x, s)
    BY <1>3, <1>6 DEF Steps, ReadsNothing, RunIsWritten
  <2>2. Fits(e, s, n) BY <1>3, <1>6 DEF Fits
  <2>3. Reach(txn[x].step, n) \in {1, 3} /\ Reach(s, n) = Top + 1 BY <1>2, <1>6, Reaches
  <2>4. Reach(txn[x].step, n) <= Reach(s, n) BY <1>4, <2>3
  <2>5. RowOf(x) # NoRow => Place(RowOf(x)) < Reach(s, n) BY <1>4, <1>5, <2>3
  <2> QED BY <1>1, <1>6, <2>1, <2>2, <2>4, <2>5, GotoKeeps
<1>7. CASE txn[x].step = "set running"
  <2>1. Then(e, txn[x].step) = "commit" BY <1>3, <1>7 DEF Then, StartThen
  <2>2. Goto(x, "commit") /\ UNCHANGED rows
    BY <1>7, <2>1 DEF StartTest, SetRunning, At, Proceed
  <2> QED BY <1>6, <2>2
<1>8. CASE txn[x].step = "start test" /\ e.test \in testRows
  <2>1. Goto(x, "commit") /\ UNCHANGED rows BY <1>8 DEF StartTest, SetRunning, At
  <2> QED BY <1>6, <2>1
<1>9. CASE txn[x].step = "start test" /\ e.test \notin testRows
  <2>1. Then(e, txn[x].step) = "set running" BY <1>3, <1>9 DEF Then, StartThen
  <2> DEFINE s == "set running"
  <2>2. Goto(x, s) /\ UNCHANGED rows
    BY <1>9, <2>1 DEF StartTest, SetRunning, At, Proceed
  <2>3. s \in Steps /\ ReadsNothing(s) /\ RunIsWritten(x, s)
    BY DEF Steps, ReadsNothing, RunIsWritten
  <2>4. Fits(e, s, n) BY <1>3 DEF Fits
  <2>5. Reach(txn[x].step, n) = 1 /\ Reach(s, n) = 3 BY <1>9, Reaches
  <2>6. Place(RowOf(x)) = 1
    <3>1. RowOf(x) = <<"test", e.test>> BY <1>9 DEF RowOf
    <3> QED BY <3>1, Places
  <2> HIDE DEF s
  <2> QED BY <1>1, <2>2, <2>3, <2>4, <2>5, <2>6, GotoKeeps
<1> QED BY <1>7, <1>8, <1>9, <1>2

\* test.end: the rows of the test, its error, the run and the name.
LEMMA EndKeeps ==
  ASSUME HandlerTransactionsAssumption, IInv, NEW x \in Transactions,
         EndTest(x) \/ StoreError(x) \/ CountTest(x) \/ CountName(x)
  PROVE  IInv'
<1> DEFINE e == txn[x].work
           n == txn[x].swept
<1>1. MayWrite(x) /\ Fits(e, txn[x].step, n) /\ TxnTypeOK /\ ReadsStand(txn[x])
  BY DEF EndTest, StoreError, CountTest, CountName, At, IInv
<1>2. \/ txn[x].step = "end test" \/ txn[x].step = "store error"
       \/ txn[x].step = "count test" \/ txn[x].step = "count name"
  BY DEF EndTest, StoreError, CountTest, CountName, At
<1>3. e \in Works /\ e.type = "test.end" BY <1>1, <1>2 DEF Fits
<1>4. Top \in Nat /\ 4 <= Top
  <2>1. Len(Scan) \in Nat /\ 0 < Len(Scan) BY DEF HandlerTransactionsAssumption
  <2> QED BY <2>1 DEF Top
<1>5. CASE txn[x].step = "end test" /\ e.test \notin testRows
  <2>1. Release(x) BY <1>5 DEF EndTest, StoreError, CountTest, CountName, At
  <2> QED BY <2>1, ReleaseKeeps
<1>6. CASE txn[x].step = "end test" /\ e.error # NoErrorGroup /\ Proceed(x)
  <2> DEFINE s == "store error"
  <2>1. Goto(x, s) /\ UNCHANGED rows BY <1>3, <1>6 DEF Proceed, Then, EndThen
  <2>2. RowOf(x) = <<"test", e.test>> \/ RowOf(x) = NoRow BY <1>6 DEF RowOf
  <2>3. s \in Steps /\ ReadsNothing(s) /\ RunIsWritten(x, s)
    BY DEF Steps, ReadsNothing, RunIsWritten
  <2>4. Fits(e, s, n) BY <1>3 DEF Fits
  <2>5. Reach(txn[x].step, n) = 1 /\ Reach(s, n) = 2 BY <1>6, Reaches
  <2> HIDE DEF s
  <2>6. RowOf(x) # NoRow => Place(RowOf(x)) = 1 BY <2>2, Places
  <2> QED BY <1>1, <2>1, <2>3, <2>4, <2>5, <2>6, GotoKeeps
<1>7. CASE txn[x].step = "end test" /\ e.error = NoErrorGroup /\ Proceed(x)
  <2> DEFINE s == "count test"
  <2>1. Goto(x, s) /\ UNCHANGED rows BY <1>3, <1>7 DEF Proceed, Then, EndThen
  <2>2. RowOf(x) = <<"test", e.test>> \/ RowOf(x) = NoRow BY <1>7 DEF RowOf
  <2>3. s \in Steps /\ ReadsNothing(s) /\ RunIsWritten(x, s)
    BY DEF Steps, ReadsNothing, RunIsWritten
  <2>4. Fits(e, s, n) BY <1>3 DEF Fits
  <2>5. Reach(txn[x].step, n) = 1 /\ Reach(s, n) = 3 BY <1>7, Reaches
  <2> HIDE DEF s
  <2>6. RowOf(x) # NoRow => Place(RowOf(x)) = 1 BY <2>2, Places
  <2> QED BY <1>1, <2>1, <2>3, <2>4, <2>5, <2>6, GotoKeeps
<1>8. CASE txn[x].step = "store error" /\ Proceed(x)
  <2> DEFINE s == "count test"
  <2>1. Goto(x, s) /\ UNCHANGED rows BY <1>3, <1>8 DEF Proceed, Then, EndThen
  <2>2. RowOf(x) = <<"error group", e.error>> BY <1>8 DEF RowOf
  <2>3. s \in Steps /\ ReadsNothing(s) /\ RunIsWritten(x, s)
    BY DEF Steps, ReadsNothing, RunIsWritten
  <2>4. Fits(e, s, n) BY <1>3 DEF Fits
  <2>5. Reach(txn[x].step, n) = 2 /\ Reach(s, n) = 3 BY <1>8, Reaches
  <2> HIDE DEF s
  <2>6. RowOf(x) # NoRow => Place(RowOf(x)) = 2 BY <2>2, Places
  <2> QED BY <1>1, <2>1, <2>3, <2>4, <2>5, <2>6, GotoKeeps
<1>9. CASE txn[x].step = "count test" /\ Proceed(x)
  <2> DEFINE s == "count name"
  <2>1. Goto(x, s) /\ UNCHANGED rows BY <1>3, <1>9 DEF Proceed, Then, EndThen
  <2>2. RowOf(x) = <<"run", e.run>> BY <1>9 DEF RowOf
  <2>3. s \in Steps /\ ReadsNothing(s) /\ RunIsWritten(x, s)
    BY <2>2 DEF Steps, ReadsNothing, RunIsWritten
  <2>4. Fits(e, s, n) BY <1>3 DEF Fits
  <2>5. Reach(txn[x].step, n) = 3 /\ Reach(s, n) = Top BY <1>9, Reaches
  <2> HIDE DEF s
  <2>6. e.run \in TxnRuns BY <1>3 DEF HandlerTransactionsAssumption
  <2>7. Place(RowOf(x)) < Top BY <2>2, <2>6, PlaceOfRun
  <2>8. Reach(txn[x].step, n) <= Reach(s, n) BY <1>4, <2>5
  <2> QED BY <1>1, <2>1, <2>3, <2>4, <2>5, <2>7, <2>8, GotoKeeps
<1>10. CASE txn[x].step = "count name" /\ Proceed(x)
  <2> DEFINE s == "commit"
  <2>1. Goto(x, s) /\ UNCHANGED rows BY <1>3, <1>10 DEF Proceed, Then, EndThen
  <2>2. RowOf(x) = <<"name", e.name, e.day>> BY <1>10 DEF RowOf
  <2>3. RunIsWritten(x, s) BY <1>1, <1>3, <1>10 DEF RunIsWritten, ReadsStand
  <2>4. s \in Steps /\ ReadsNothing(s) BY DEF Steps, ReadsNothing
  <2>5. Fits(e, s, n) BY <1>3 DEF Fits
  <2>6. Reach(txn[x].step, n) = Top /\ Reach(s, n) = Top + 1 BY <1>10, Reaches
  <2> HIDE DEF s
  <2>7. Place(RowOf(x)) = Top BY <2>2, Places
  <2>8. Reach(txn[x].step, n) <= Reach(s, n) /\ Place(RowOf(x)) < Reach(s, n)
    BY <1>4, <2>6, <2>7
  <2> QED BY <1>1, <2>1, <2>3, <2>4, <2>5, <2>8, GotoKeeps
<1> QED
  BY <1>2, <1>5, <1>6, <1>7, <1>8, <1>9, <1>10 DEF EndTest, StoreError, CountTest, CountName, At

\* run.end writes the row of the run, and reads it.
LEMMA CloseRunKeeps ==
  ASSUME HandlerTransactionsAssumption, IInv, NEW x \in Transactions, CloseRun(x) PROVE IInv'
<1> DEFINE t == txn[x]
           e == t.work
<1>1. /\ MayWrite(x) /\ Fits(e, t.step, t.swept) /\ TxnTypeOK /\ ReadsStand(t) /\ InOrder(t)
      /\ t.step = "close run" /\ t \in Txn
  BY DEF CloseRun, At, IInv, TxnTypeOK, Txn
<1>2. e \in Works /\ e.type = "run.end" BY <1>1 DEF Fits
<1>3. e.run \in TxnRuns BY <1>2 DEF HandlerTransactionsAssumption
<1>4. \A row \in t.rows : Place(row) \in Nat /\ Place(row) < 1
  <2>1. Reach(t.step, t.swept) = 1 BY <1>1, Reaches
  <2> QED BY <1>1, <2>1 DEF InOrder
<1>5. Top \in Nat /\ 4 <= Top
  <2>1. Len(Scan) \in Nat /\ 0 < Len(Scan) BY DEF HandlerTransactionsAssumption
  <2> QED BY <2>1 DEF Top
<1>6. <<"day", e.day>> \notin t.rows
  <2>1. Place(<<"day", e.day>>) = Top BY Places
  <2> QED BY <1>4, <1>5, <2>1
<1>7. UNCHANGED rows BY DEF CloseRun
<1>8. CASE runRows[e.run] = "closed"
  <2> DEFINE new == [t EXCEPT !.step = "commit"]
  <2>1. txn' = [txn EXCEPT ![x] = new]
    BY <1>8 DEF CloseRun
  <2>2. /\ new \in Txn /\ new.step = "commit" /\ new.work = e /\ new.rows = t.rows
        /\ new.swept = t.swept
    BY <1>1 DEF Txn, Steps
  <2> HIDE DEF new
  <2>3. Fits(new.work, new.step, new.swept) BY <1>2, <2>2 DEF Fits
  <2>4. Reach(new.step, new.swept) = Top + 1 BY <2>2, Reaches
  <2>5. InOrder(new) BY <1>4, <1>5, <2>2, <2>4 DEF InOrder
  <2>6. ReadsStand(new) BY <1>1, <1>2, <1>6, <2>2 DEF ReadsStand, Books
  <2> QED BY <1>7, <2>1, <2>2, <2>3, <2>5, <2>6, StatementKeeps
<1>9. CASE runRows[e.run] # "closed"
  <2>1. RowOf(x) = <<"run", e.run>> BY <1>1, <1>9 DEF RowOf
  <2> DEFINE new == [t EXCEPT !.step = "count retried", !.rows = t.rows \cup {RowOf(x)},
                              !.ended = EndsOf(e.run)]
  <2>2. txn' = [txn EXCEPT ![x] = new]
    <3>1. Then(e, "close run") = "count retried" BY <1>2 DEF Then, CloseThen
    <3>2. txn \in [Transactions -> Txn] BY <1>1 DEF TxnTypeOK, Txn
    <3> QED BY <1>9, <3>1, <3>2 DEF CloseRun
  <2>3. RowOf(x) \in AllRows BY <1>3, <2>1 DEF AllRows
  <2>4. EndsOf(e.run) \subseteq Works BY <1>1 DEF EndsOf, TxnTypeOK
  <2>5. /\ new \in Txn /\ new.step = "count retried" /\ new.work = e
        /\ new.rows = t.rows \cup {RowOf(x)} /\ new.swept = t.swept
        /\ new.ended = EndsOf(e.run)
    BY <1>1, <2>3, <2>4 DEF Txn, Steps
  <2> HIDE DEF new
  <2>6. Fits(new.work, new.step, new.swept) BY <1>2, <2>5 DEF Fits
  <2>7. InOrder(new)
    <3>1. Reach(new.step, new.swept) = Top BY <2>5, Reaches
    <3>2. Place(RowOf(x)) \in Nat /\ Place(RowOf(x)) < Top BY <1>3, <2>1, PlaceOfRun
    <3> SUFFICES ASSUME NEW row \in t.rows \cup {RowOf(x)}
                 PROVE  Place(row) \in Nat /\ Place(row) < Top
      BY <2>5, <3>1 DEF InOrder
    <3> HIDE DEF t
    <3> QED BY <1>4, <1>5, <3>2
  <2>8. ReadsStand(new)
    <3>1. /\ \A d : <<"day", d>> # RowOf(x)
          /\ \A r : <<"run", r>> = RowOf(x) => r = e.run
      BY <2>1
    <3>2. ~Books(new) BY <1>6, <2>5, <3>1 DEF Books
    <3>3. \A r \in TxnRuns : <<"run", r>> \in new.rows => runRows[r] # "closed"
      <4>1. \A r \in TxnRuns : <<"run", r>> \in t.rows => runRows[r] # "closed"
        BY <1>1, <1>2 DEF ReadsStand
      <4> QED BY <1>9, <2>5, <3>1, <4>1
    <3>4. <<"run", e.run>> \in new.rows BY <2>1, <2>5
    <3> QED BY <1>2, <2>5, <3>2, <3>3, <3>4 DEF ReadsStand
  <2>9. \A row \in new.rows : row \in t.rows \/ (row = RowOf(x) /\ MayWrite(x))
    BY <1>1, <2>5
  <2> QED BY <1>7, <2>2, <2>5, <2>6, <2>7, <2>8, <2>9, StatementKeeps
<1> QED BY <1>8, <1>9

\* It counts what was retried while it has the row of the run.
LEMMA CountRetriedKeeps ==
  ASSUME HandlerTransactionsAssumption, IInv, NEW x \in Transactions, CountRetried(x) PROVE IInv'
<1> DEFINE t == txn[x]
           e == t.work
           new == [t EXCEPT !.step = "book", !.retried = Retried(EndsOf(e.run))]
<1>1. /\ Fits(e, t.step, t.swept) /\ TxnTypeOK /\ ReadsStand(t) /\ InOrder(t)
      /\ t.step = "count retried" /\ t \in Txn
  BY DEF CountRetried, At, IInv, TxnTypeOK, Txn
<1>2. e \in Works /\ e.type = "run.end" BY <1>1 DEF Fits
<1>3. txn' = [txn EXCEPT ![x] = new] /\ UNCHANGED rows
  <2>1. Then(e, "count retried") = "book" BY <1>2 DEF Then, CloseThen
  <2>2. txn \in [Transactions -> Txn] BY <1>1 DEF TxnTypeOK, Txn
  <2> QED BY <1>1, <2>1, <2>2 DEF CountRetried
<1>4. Retried(EndsOf(e.run)) \subseteq AllTests BY <1>1 DEF EndsOf, Retried, AllTests, TxnTypeOK
<1>5. /\ new \in Txn /\ new.step = "book" /\ new.work = e /\ new.rows = t.rows
      /\ new.swept = t.swept /\ new.ended = t.ended /\ new.retried = Retried(EndsOf(e.run))
  BY <1>1, <1>4 DEF Txn, Steps
<1> HIDE DEF new
<1>6. Fits(new.work, new.step, new.swept) BY <1>2, <1>5 DEF Fits
<1>7. InOrder(new)
  <2>1. Reach(new.step, new.swept) = Top BY <1>5, Reaches
  <2>2. Reach(t.step, t.swept) = Top BY <1>1, Reaches
  <2> QED BY <1>1, <1>5, <2>1, <2>2 DEF InOrder
<1>8. ReadsStand(new) BY <1>1, <1>2, <1>5 DEF ReadsStand
<1> QED BY <1>3, <1>5, <1>6, <1>7, <1>8, StatementKeeps

\* It books what it has read.
LEMMA BookKeeps ==
  ASSUME HandlerTransactionsAssumption, IInv, NEW x \in Transactions, Book(x) PROVE IInv'
<1> DEFINE t == txn[x]
           e == t.work
           written == t.rows \cup ({RowOf(x)} \ {NoRow})
           new == [t EXCEPT !.step = "commit", !.rows = written]
<1>1. /\ Fits(e, t.step, t.swept) /\ TxnTypeOK /\ ReadsStand(t) /\ InOrder(t)
      /\ t.step = "book" /\ t \in Txn /\ MayWrite(x)
  BY DEF Book, At, IInv, TxnTypeOK, Txn
<1>2. e \in Works /\ e.type = "run.end" BY <1>1 DEF Fits
<1>3. txn' = [txn EXCEPT ![x] = new] /\ UNCHANGED rows
  <2>1. Then(e, "book") = "commit" BY <1>2 DEF Then, CloseThen
  <2>2. txn \in [Transactions -> Txn] BY <1>1 DEF TxnTypeOK, Txn
  <2> QED BY <1>1, <2>1, <2>2 DEF Book, Proceed, Goto
<1>4. RowOf(x) = <<"day", e.day>> BY <1>1 DEF RowOf
<1>5. RowOf(x) \in AllRows BY <1>2, <1>4 DEF AllRows
<1>6. written \in SUBSET AllRows BY <1>1, <1>5 DEF Txn
<1>7. /\ new \in Txn /\ new.step = "commit" /\ new.work = e /\ new.rows = written
      /\ new.swept = t.swept /\ new.ended = t.ended /\ new.retried = t.retried
  BY <1>1, <1>6 DEF Txn, Steps
<1> HIDE DEF new
<1>8. Fits(new.work, new.step, new.swept) BY <1>2, <1>7 DEF Fits
<1>9. InOrder(new)
  <2>1. Reach(new.step, new.swept) = Top + 1 BY <1>7, Reaches
  <2>2. Reach(t.step, t.swept) = Top BY <1>1, Reaches
  <2>3. Top \in Nat
    <3>1. Len(Scan) \in Nat BY DEF HandlerTransactionsAssumption
    <3> QED BY <3>1 DEF Top
  <2>4. Place(RowOf(x)) = Top BY <1>4, Places
  <2> QED BY <1>1, <1>7, <2>1, <2>2, <2>3, <2>4 DEF InOrder
<1>10. ReadsStand(new)
  <2>1. \A r : <<"run", r>> \in written => <<"run", r>> \in t.rows BY <1>4
  <2>2. \A r : <<"run", r>> \in t.rows => <<"run", r>> \in written OBVIOUS
  <2> HIDE DEF written
  <2> QED BY <1>1, <1>2, <1>7, <2>1, <2>2 DEF ReadsStand
<1>11. \A row \in new.rows : row \in t.rows \/ (row = RowOf(x) /\ MayWrite(x))
  BY <1>1, <1>7
<1> QED BY <1>3, <1>7, <1>8, <1>9, <1>10, <1>11, StatementKeeps

\* The cleanup writes run after run.
LEMMA SweepKeeps ==
  ASSUME HandlerTransactionsAssumption, IInv, NEW x \in Transactions, Sweep(x) PROVE IInv'
<1> DEFINE t == txn[x]
           swept == t.swept + 1
           s == IF swept = Len(Scan) THEN "commit" ELSE "sweep"
           written == t.rows \cup ({RowOf(x)} \ {NoRow})
           new == [t EXCEPT !.step = s, !.rows = written, !.swept = swept]
<1>1. /\ Fits(t.work, t.step, t.swept) /\ TxnTypeOK /\ ReadsStand(t) /\ InOrder(t)
      /\ t.step = "sweep" /\ t \in Txn /\ MayWrite(x)
  BY DEF Sweep, At, IInv, TxnTypeOK, Txn
<1>2. Len(Scan) \in Nat BY DEF HandlerTransactionsAssumption
<1>3. /\ t.work = Cleanup /\ t.swept < Len(Scan) /\ t.swept \in Nat
  BY <1>1, <1>2 DEF Fits, Txn
<1>4. txn' = [txn EXCEPT ![x] = new] /\ UNCHANGED rows
  <2>1. txn \in [Transactions -> Txn] BY <1>1 DEF TxnTypeOK, Txn
  <2> QED BY <2>1 DEF Sweep
<1>5. RowOf(x) # NoRow => /\ RowOf(x) \in AllRows /\ Place(RowOf(x)) = 2 + swept
  <2>1. RowOf(x) # NoRow => RowOf(x) = <<"run", Scan[swept]>> BY <1>1 DEF RowOf
  <2>2. swept \in 1 .. Len(Scan) BY <1>2, <1>3
  <2>3. RowOf(x) # NoRow => RowOf(x) \in AllRows BY <1>1, RowIsBeyond
  <2>4. Place(<<"run", Scan[swept]>>) = 2 + swept BY <2>2, Places
  <2> QED BY <2>1, <2>3, <2>4
<1>6. written \in SUBSET AllRows BY <1>1, <1>5 DEF Txn
<1>7. swept \in 0 .. Len(Scan) /\ swept \in Nat BY <1>2, <1>3
<1>8. s \in Steps BY DEF Steps
<1> HIDE DEF s, written
<1>9. /\ new \in Txn /\ new.step = s /\ new.work = Cleanup /\ new.rows = written
      /\ new.swept = swept
  BY <1>1, <1>3, <1>6, <1>7, <1>8 DEF Txn
<1> HIDE DEF new
<1>10. Fits(new.work, new.step, new.swept)
  <2>1. s = "commit" \/ (s = "sweep" /\ swept < Len(Scan)) BY <1>2, <1>7 DEF s
  <2> QED BY <1>9, <2>1 DEF Fits
<1>11. InOrder(new)
  <2>1. Reach(t.step, t.swept) = 3 + t.swept BY <1>1, Reaches
  <2>2. Reach(s, swept) \in {3 + swept, Top + 1} BY Reaches DEF s
  <2>3. 3 + swept <= Reach(s, swept) /\ Reach(s, swept) \in Nat
    BY <1>2, <1>7, <2>2 DEF Top
  <2> SUFFICES ASSUME NEW row \in written
               PROVE  Place(row) \in Nat /\ Place(row) < Reach(s, swept)
    BY <1>9 DEF InOrder
  <2>4. CASE row \in t.rows
    <3>1. Place(row) \in Nat /\ Place(row) < 3 + t.swept BY <1>1, <2>1, <2>4 DEF InOrder
    <3> QED BY <1>3, <2>3, <3>1
  <2>5. CASE row = RowOf(x) /\ RowOf(x) # NoRow
    <3>1. Place(row) = 2 + swept BY <1>5, <2>5
    <3> QED BY SMTT(60), <1>3, <2>3, <3>1
  <2> QED BY <2>4, <2>5 DEF written
<1>12. ReadsStand(new)
  <2>1. new.work.type = "cleanup" BY <1>9 DEF Cleanup
  <2>2. s # "count retried" /\ s # "book" BY DEF s
  <2> QED BY <1>9, <2>1, <2>2 DEF ReadsStand, Books
<1>13. \A row \in new.rows : row \in t.rows \/ (row = RowOf(x) /\ MayWrite(x))
  BY <1>1, <1>9 DEF written
<1> QED BY <1>4, <1>9, <1>10, <1>11, <1>12, <1>13, StatementKeeps

-----------------------------------------------------------------------------
\* A commit touches no run that another transaction has written, and books a run that was open.
LEMMA CommitKeeps ==
  ASSUME HandlerTransactionsAssumption, IInv, NEW x \in Transactions, Commit(x) PROVE IInv'
<1> DEFINE t == txn[x]
           e == t.work
           b == [event |-> e, ended |-> t.ended, retried |-> t.retried]
<1>1. /\ Fits(e, t.step, t.swept) /\ TxnTypeOK /\ ReadsStand(t) /\ t.step = "commit" /\ t \in Txn
      /\ txn \in [Transactions -> Txn]
  BY DEF Commit, IInv, TxnTypeOK, Txn
<1>2. e \in Works \cup {Cleanup} BY <1>1 DEF Fits
<1>3. /\ e = Cleanup => e.type = "cleanup" /\ e \notin Works
      /\ e \in Works => e.type \in Types /\ e.run \in TxnRuns /\ e.test \in AllTests
  BY DEF HandlerTransactionsAssumption, AllTests, Types, Cleanup
<1>4. /\ \A y \in Transactions : txn'[y] = IF y = x THEN Idle ELSE txn[y]
      /\ txn' \in [Transactions -> Txn]
  BY <1>1, IdleTyped DEF Commit
<1>5. \A r \in TxnRuns : runRows'[r] =
        IF <<"run", r>> \notin t.rows \/ e.type = "test.end" THEN runRows[r]
        ELSE IF e.type = "test.start" THEN "running" ELSE "closed"
  BY DEF Commit, Wrote
<1>6. ended' = IF e.type = "test.end" THEN ended \cup {e} ELSE ended BY DEF Commit
<1>7. booked' = IF Books(t) THEN booked \cup {b} ELSE booked BY DEF Commit, Books, Wrote
<1>8. TxnTypeOK'
  <2>1. keys' \subseteq Works /\ ended' \subseteq keys'
    BY <1>1, <1>2, <1>3, <1>6 DEF Commit, TxnTypeOK
  <2>2. testRows' \subseteq AllTests BY <1>1, <1>2, <1>3 DEF Commit, TxnTypeOK
  <2>3. runRows' \in [TxnRuns -> {"pending", "running", "closed"}]
    BY <1>1 DEF Commit, TxnTypeOK
  <2> QED BY <1>4, <2>1, <2>2, <2>3 DEF TxnTypeOK, Txn
<1>9. WrittenByOne' BY <1>4, IdleTyped DEF IInv, WrittenByOne
<1>10. \A r \in TxnRuns : runRows[r] = "closed" => runRows'[r] = "closed"
  BY <1>1, <1>5 DEF ReadsStand
<1>11. Books(t) => /\ e \in Works /\ <<"run", e.run>> \in t.rows
                   /\ runRows[e.run] # "closed" /\ runRows'[e.run] = "closed"
                   /\ t.retried = Retried(t.ended)
  <2> SUFFICES ASSUME Books(t)
               PROVE  /\ e \in Works /\ <<"run", e.run>> \in t.rows
                      /\ runRows[e.run] # "closed" /\ runRows'[e.run] = "closed"
                      /\ t.retried = Retried(t.ended)
    OBVIOUS
  <2>1. e.type = "run.end" BY DEF Books
  <2>2. e \in Works /\ e.run \in TxnRuns BY <1>2, <1>3, <2>1
  <2>3. <<"run", e.run>> \in t.rows /\ t.retried = Retried(t.ended) BY <1>1 DEF ReadsStand
  <2>4. runRows[e.run] # "closed" BY <1>1, <2>1, <2>2, <2>3 DEF ReadsStand
  <2>5. runRows'[e.run] = "closed" BY <1>5, <2>1, <2>2, <2>3
  <2> QED BY <2>2, <2>3, <2>4, <2>5
<1>12. BookedAreClosed'
  <2> SUFFICES ASSUME NEW c \in booked' PROVE c.event \in Works /\ runRows'[c.event.run] = "closed"
    BY DEF BookedAreClosed
  <2>1. CASE c \in booked
    <3>1. c.event \in Works /\ runRows[c.event.run] = "closed"
      BY <2>1 DEF IInv, BookedAreClosed
    <3>2. c.event.run \in TxnRuns BY <3>1 DEF HandlerTransactionsAssumption
    <3> QED BY <1>10, <3>1, <3>2
  <2>2. CASE c = b /\ Books(t) BY <1>11, <2>2
  <2> QED BY <1>7, <2>1, <2>2
<1>13. BookedAtOnce'
  <2>1. Books(t) => \A c \in booked : c.event.run # e.run BY <1>11 DEF IInv, BookedAreClosed
  <2>2. b.event = e /\ b.ended = t.ended /\ b.retried = t.retried OBVIOUS
  <2> HIDE DEF b
  <2>3. \A c \in booked' : c.retried = Retried(c.ended)
    BY <1>7, <1>11, <2>2 DEF IInv, BookedAtOnce
  <2>4. \A c, d \in booked' : c.event.run = d.event.run => c = d
    BY <1>7, <2>1, <2>2 DEF IInv, BookedAtOnce
  <2>5. \A c \in booked' : (c.retried = Retried(c.ended))' BY <2>3 DEF Retried
  <2> QED BY <2>4, <2>5 DEF BookedAtOnce
<1>14. ASSUME NEW y \in Transactions
       PROVE  (/\ Fits(txn[y].work, txn[y].step, txn[y].swept)
               /\ InOrder(txn[y]) /\ ReadsStand(txn[y]))'
  <2>1. CASE y = x
    <3>1. txn'[y] = Idle BY <1>4, <2>1
    <3>2. Fits(Idle.work, Idle.step, Idle.swept) /\ InOrder(Idle)
      BY DEF Fits, InOrder, Idle, Nothing
    <3>3. ReadsStand(txn[y])' BY <3>1 DEF ReadsStand, Idle, Nothing, Books
    <3> QED BY <3>1, <3>2, <3>3 DEF Fits, InOrder
  <2>2. CASE y # x
    <3> DEFINE u == txn[y]
    <3>1. txn'[y] = u BY <1>4, <2>2
    <3>2. Fits(u.work, u.step, u.swept) /\ InOrder(u) /\ ReadsStand(u) BY DEF IInv
    <3>3. \A row \in u.rows : row \notin t.rows BY <2>2 DEF IInv, WrittenByOne
    <3>4. u.work.type \in {"test.start", "run.end"} =>
            \A r \in TxnRuns : <<"run", r>> \in u.rows => runRows'[r] # "closed"
      BY <1>5, <3>2, <3>3 DEF ReadsStand
    <3>5. ASSUME <<"run", u.work.run>> \in u.rows
          PROVE  EndsOf(u.work.run)' = EndsOf(u.work.run)
      <4>1. e.type = "test.end" => <<"run", e.run>> \in t.rows BY <1>1 DEF ReadsStand
      <4>2. e.type = "test.end" => e.run # u.work.run BY <3>3, <3>5, <4>1
      <4> QED BY <1>6, <3>1, <4>2 DEF EndsOf
    <3>6. ReadsStand(txn[y])' BY <3>1, <3>2, <3>4, <3>5 DEF ReadsStand, Books, EndsOf, Retried
    <3> QED BY <3>1, <3>2, <3>6 DEF Fits, InOrder
  <2> QED BY <2>1, <2>2
<1> QED BY <1>8, <1>9, <1>12, <1>13, <1>14 DEF IInv

\* Every step keeps it.
LEMMA StepKeeps == ASSUME HandlerTransactionsAssumption, IInv, [TxnNext]_txnVars PROVE IInv'
<1>1. ASSUME NEW x \in Transactions,
             \/ \E e \in Works : Begin(x, e)
             \/ BeginCleanup(x) \/ Sweep(x)
             \/ Receive(x) \/ StartTest(x) \/ SetRunning(x)
             \/ EndTest(x) \/ StoreError(x) \/ CountTest(x) \/ CountName(x)
             \/ CloseRun(x) \/ CountRetried(x) \/ Book(x)
             \/ Commit(x) \/ RollBack(x)
      PROVE  IInv'
  <2>1. CASE (\E e \in Works : Begin(x, e)) \/ BeginCleanup(x) BY <2>1, BeginKeeps
  <2>2. CASE Sweep(x) \/ Receive(x) BY <2>2, SweepKeeps, ReceiveKeeps
  <2>3. CASE StartTest(x) \/ SetRunning(x) BY <2>3, StartKeeps
  <2>4. CASE EndTest(x) \/ StoreError(x) \/ CountTest(x) \/ CountName(x) BY <2>4, EndKeeps
  <2>5. CASE CloseRun(x) \/ CountRetried(x) \/ Book(x)
    BY <2>5, CloseRunKeeps, CountRetriedKeeps, BookKeeps
  <2>6. CASE Commit(x) BY <2>6, CommitKeeps
  <2>7. CASE RollBack(x) BY <2>7, ReleaseKeeps DEF RollBack
  <2> QED BY <1>1, <2>1, <2>2, <2>3, <2>4, <2>5, <2>6, <2>7
<1>2. CASE UNCHANGED txnVars
  <2>1. UNCHANGED <<txn, keys, testRows, ended, runRows, booked>> BY <1>2 DEF txnVars
  <2>2. TxnTypeOK' BY <2>1 DEF IInv, TxnTypeOK
  <2>3. WrittenByOne' BY <2>1 DEF IInv, WrittenByOne
  <2>4. BookedAreClosed' BY <2>1 DEF IInv, BookedAreClosed
  <2>5. BookedAtOnce' BY <2>1 DEF IInv, BookedAtOnce, Retried
  <2>6. ASSUME NEW x \in Transactions
        PROVE  Fits(txn[x].work, txn[x].step, txn[x].swept)' /\ InOrder(txn[x])'
    <3>1. Fits(txn[x].work, txn[x].step, txn[x].swept) /\ InOrder(txn[x]) BY DEF IInv
    <3> QED BY <2>1, <3>1 DEF Fits, InOrder
  <2>7. ASSUME NEW x \in Transactions PROVE ReadsStand(txn[x])'
    <3>1. ReadsStand(txn[x]) BY DEF IInv
    <3> QED BY <2>1, <3>1 DEF ReadsStand, Books, EndsOf, Retried
  <2> QED BY <2>2, <2>3, <2>4, <2>5, <2>6, <2>7 DEF IInv
<1> QED BY <1>1, <1>2 DEF TxnNext

-----------------------------------------------------------------------------
(* What a transaction has found holds until it commits *)

Seen(t) ==
  LET e == t.work
  IN  /\ e \in Works /\ t.step # "receive" => <<"inbox", e>> \in t.rows /\ e \notin keys
      /\ e.type = "test.start" =>
           /\ <<"test", e.test>> \in t.rows => e.test \notin testRows
           /\ \A r : <<"run", r>> \in t.rows => r = e.run /\ runRows[r] = "pending"
           /\ t.step \in {"receive", "start test"} =>
                <<"test", e.test>> \notin t.rows /\ <<"run", e.run>> \notin t.rows
           /\ t.step = "set running" => <<"test", e.test>> \in t.rows
           /\ t.step = "commit" =>
                IF <<"test", e.test>> \in t.rows
                THEN <<"run", e.run>> \in t.rows \/ runRows[e.run] # "pending"
                ELSE e.test \in testRows /\ <<"run", e.run>> \notin t.rows
      /\ e.type = "test.end" /\ t.step \notin {"receive", "end test"} => e.test \in testRows
      /\ e.type = "run.end" =>
           /\ \A r : <<"run", r>> \in t.rows => r = e.run
           /\ t.step = "commit" =>
                Books(t) \/ (runRows[e.run] = "closed" /\ <<"run", e.run>> \notin t.rows)
      /\ e = Cleanup =>
           /\ t.step = "commit" => t.swept = Len(Scan)
           /\ \A i \in 1 .. t.swept : <<"run", Scan[i]>> \in t.rows \/ runRows[Scan[i]] = "closed"

SeenInv == \A x \in Transactions : Seen(txn[x])

\* Where a statement leads.
Gone(x, s) == [txn[x] EXCEPT !.step = s, !.rows = @ \cup ({RowOf(x)} \ {NoRow})]

\* What is no event.
LEMMA EventsAreTyped ==
  ASSUME HandlerTransactionsAssumption
  PROVE  /\ Cleanup \notin Works /\ Nothing \notin Works /\ Cleanup.type = "cleanup"
         /\ Nothing.type = "none" /\ Cleanup # Nothing
         /\ \A e \in Works : e.type \in Types /\ e.run \in TxnRuns
<1>1. Cleanup.type = "cleanup" /\ Nothing.type = "none" BY DEF Cleanup, Nothing
<1>2. \A e \in Works : e.type \in Types /\ e.run \in TxnRuns BY DEF HandlerTransactionsAssumption
<1> QED BY <1>1, <1>2 DEF Types

\* A statement commits nothing.
LEMMA StatementSees ==
  ASSUME IInv, SeenInv, NEW x \in Transactions, NEW new \in Txn, txn' = [txn EXCEPT ![x] = new],
         UNCHANGED rows, Seen(new)
  PROVE  SeenInv'
<1>1. txn \in [Transactions -> Txn] BY DEF IInv, TxnTypeOK, Txn
<1>2. \A y \in Transactions : txn'[y] = IF y = x THEN new ELSE txn[y] BY <1>1
<1>3. \A y \in Transactions : Seen(txn'[y]) BY <1>2 DEF SeenInv
<1>4. UNCHANGED <<keys, testRows, runRows>> BY DEF rows
<1> SUFFICES ASSUME NEW y \in Transactions PROVE Seen(txn[y])' BY DEF SeenInv
<1>5. Seen(txn'[y]) BY <1>3
<1> QED BY <1>4, <1>5 DEF Seen, Books

LEMMA GotoSees ==
  ASSUME HandlerTransactionsAssumption, IInv, SeenInv, NEW x \in Transactions, NEW s \in Steps,
         Goto(x, s), UNCHANGED rows,
         ASSUME NEW new \in Txn, new.step = s, new.work = txn[x].work, new.swept = txn[x].swept,
                new.rows = txn[x].rows \cup ({RowOf(x)} \ {NoRow})
         PROVE  Seen(new)
  PROVE  SeenInv'
<1>1. txn \in [Transactions -> Txn] /\ txn[x] \in Txn BY DEF IInv, TxnTypeOK, Txn
<1>2. RowOf(x) # NoRow => RowOf(x) \in AllRows BY RowIsBeyond DEF IInv
<1>3. txn[x].rows \cup ({RowOf(x)} \ {NoRow}) \in SUBSET AllRows BY <1>1, <1>2 DEF Txn
<1>4. /\ Gone(x, s) \in Txn /\ Gone(x, s).step = s /\ Gone(x, s).work = txn[x].work
      /\ Gone(x, s).swept = txn[x].swept
      /\ Gone(x, s).rows = txn[x].rows \cup ({RowOf(x)} \ {NoRow})
  BY <1>1, <1>3 DEF Gone, Txn
<1>5. Seen(Gone(x, s)) BY <1>4
<1>6. txn' = [txn EXCEPT ![x] = Gone(x, s)] BY <1>1 DEF Goto, Gone
<1> QED BY <1>4, <1>5, <1>6, StatementSees

\* The rows are of different tables.
LEMMA TablesDiffer ==
  /\ \A a, b : <<"inbox", a>> # <<"test", b>> /\ <<"inbox", a>> # <<"run", b>>
  /\ \A a, b : <<"inbox", a>> # <<"day", b>> /\ <<"test", a>> # <<"run", b>>
  /\ \A a, b : <<"test", a>> # <<"day", b>> /\ <<"run", a>> # <<"day", b>>
  /\ \A a, b : <<"error group", a>> # <<"inbox", b>> /\ <<"error group", a>> # <<"run", b>>
  /\ \A a, b : <<"error group", a>> # <<"test", b>> /\ <<"error group", a>> # <<"day", b>>
  /\ \A a : /\ <<"inbox", a>> # NoRow /\ <<"test", a>> # NoRow /\ <<"run", a>> # NoRow
            /\ <<"day", a>> # NoRow
<1>1. \A a : /\ DOMAIN <<"inbox", a>> = 1 .. 2 /\ DOMAIN <<"test", a>> = 1 .. 2
             /\ DOMAIN <<"run", a>> = 1 .. 2 /\ DOMAIN <<"day", a>> = 1 .. 2
  OBVIOUS
<1>2. DOMAIN NoRow = {} BY DEF NoRow
<1> QED BY <1>1, <1>2

\* A transaction begins, or ends without a commit.
LEMMA BeginSees ==
  ASSUME HandlerTransactionsAssumption, IInv, SeenInv, NEW x \in Transactions,
         Release(x) \/ BeginCleanup(x) \/ \E e \in Works : Begin(x, e)
  PROVE  SeenInv'
<1>1. CASE Release(x)
  <2>1. Seen(Idle) BY EventsAreTyped DEF Seen, Idle
  <2> QED BY <1>1, <2>1, IdleTyped, StatementSees DEF Release
<1>2. CASE BeginCleanup(x)
  <2> DEFINE new == [Idle EXCEPT !.work = Cleanup, !.step = "sweep"]
  <2>1. /\ new \in Txn /\ new.rows = {} /\ new.work = Cleanup /\ new.step = "sweep"
        /\ new.swept = 0
    BY IdleTyped DEF Txn, Steps
  <2> HIDE DEF new
  <2>2. Seen(new) BY <2>1, EventsAreTyped DEF Seen
  <2> QED BY <1>2, <2>1, <2>2, StatementSees DEF BeginCleanup, new
<1>3. ASSUME NEW e \in Works, Begin(x, e) PROVE SeenInv'
  <2> DEFINE new == [Idle EXCEPT !.work = e, !.step = "receive"]
  <2>1. new \in Txn /\ new.rows = {} /\ new.work = e /\ new.step = "receive"
    BY IdleTyped DEF Txn, Steps
  <2> HIDE DEF new
  <2>2. Seen(new) BY <2>1, EventsAreTyped DEF Seen
  <2> QED BY <1>3, <2>1, <2>2, StatementSees DEF Begin, new
<1> QED BY <1>1, <1>2, <1>3

\* An event that is received is new until it is committed.
LEMMA ReceiveSees ==
  ASSUME HandlerTransactionsAssumption, IInv, SeenInv, NEW x \in Transactions, Receive(x)
  PROVE  SeenInv'
<1> DEFINE e == txn[x].work
           s == Then(e, "receive")
<1>1. txn[x].step = "receive" /\ Fits(e, txn[x].step, txn[x].swept) /\ Seen(txn[x])
  BY DEF Receive, At, IInv, SeenInv
<1>2. e \in Works /\ e.type \in Types BY <1>1 DEF Fits, HandlerTransactionsAssumption
<1>3. CASE e \in keys BY <1>3, BeginSees DEF Receive
<1>4. CASE e \notin keys
  <2>1. UNCHANGED rows /\ Goto(x, s) BY <1>1, <1>4 DEF Receive, Proceed
  <2>2. \/ s = "start test" /\ e.type = "test.start"
        \/ s = "end test" /\ e.type = "test.end"
        \/ s = "close run" /\ e.type = "run.end"
    BY <1>2 DEF Then, StartThen, EndThen, CloseThen, Types
  <2>3. RowOf(x) = <<"inbox", e>> BY <1>1 DEF RowOf
  <2> HIDE DEF s
  <2>4. s \in Steps BY <2>2 DEF Steps
  <2>5. ASSUME NEW new \in Txn, new.step = s, new.work = e, new.swept = txn[x].swept,
               new.rows = txn[x].rows \cup ({RowOf(x)} \ {NoRow})
        PROVE  Seen(new)
    <3>1. <<"inbox", e>> \in new.rows BY <2>3, <2>5, TablesDiffer
    <3>2. \A a : /\ <<"run", a>> \in new.rows <=> <<"run", a>> \in txn[x].rows
                 /\ <<"test", a>> \in new.rows <=> <<"test", a>> \in txn[x].rows
      BY <2>3, <2>5, TablesDiffer
    <3>3. e # Cleanup BY <1>2, EventsAreTyped
    <3> QED BY <1>1, <1>2, <1>4, <2>2, <2>5, <3>1, <3>2, <3>3 DEF Seen
  <2> QED BY <2>1, <2>4, <2>5, GotoSees
<1> QED BY <1>3, <1>4

\* A test.start that has inserted its test is the one that does, and finds its run pending or not.
LEMMA StartSees ==
  ASSUME HandlerTransactionsAssumption, IInv, SeenInv, NEW x \in Transactions,
         StartTest(x) \/ SetRunning(x)
  PROVE  SeenInv'
<1> DEFINE e == txn[x].work
<1>1. Fits(e, txn[x].step, txn[x].swept) /\ Seen(txn[x])
  BY DEF IInv, SeenInv
<1>2. txn[x].step = "start test" \/ txn[x].step = "set running"
  BY DEF StartTest, SetRunning, At
<1>3. e \in Works /\ e.type = "test.start" BY <1>1, <1>2 DEF Fits
<1>4. e # Cleanup BY <1>3, EventsAreTyped
<1>5. CASE txn[x].step = "set running"
  <2>1. Then(e, txn[x].step) = "commit" BY <1>3, <1>5 DEF Then, StartThen
  <2>2. Goto(x, "commit") /\ UNCHANGED rows
    BY <1>5, <2>1 DEF StartTest, SetRunning, At, Proceed
  <2>3. RowOf(x) = IF runRows[e.run] = "pending" THEN <<"run", e.run>> ELSE NoRow
    BY <1>5 DEF RowOf
  <2>4. ASSUME NEW new \in Txn, new.step = "commit", new.work = e, new.swept = txn[x].swept,
               new.rows = txn[x].rows \cup ({RowOf(x)} \ {NoRow})
        PROVE  Seen(new)
    <3>1. \A row \in new.rows : row \in txn[x].rows
                                \/ (row = <<"run", e.run>> /\ runRows[e.run] = "pending")
      BY <2>3, <2>4
    <3>2. \A row \in txn[x].rows : row \in new.rows BY <2>4
    <3>3. runRows[e.run] = "pending" => <<"run", e.run>> \in new.rows BY <2>3, <2>4, TablesDiffer
    <3>4. \A a : <<"test", a>> \in new.rows <=> <<"test", a>> \in txn[x].rows
      BY <3>1, <3>2, TablesDiffer
    <3>5. \A r : <<"run", r>> \in new.rows => r = e.run /\ runRows[r] = "pending"
      <4>1. \A r : <<"run", r>> \in txn[x].rows => r = e.run /\ runRows[r] = "pending"
        BY <1>1, <1>3 DEF Seen
      <4>2. \A r : <<"run", r>> = <<"run", e.run>> => r = e.run OBVIOUS
      <4> QED BY <3>1, <4>1, <4>2
    <3> QED BY <1>1, <1>3, <1>4, <1>5, <2>4, <3>2, <3>3, <3>4, <3>5 DEF Seen
  <2> QED BY <2>2, <2>4, GotoSees DEF Steps
<1>6. CASE txn[x].step = "start test" /\ e.test \in testRows
  <2>1. Goto(x, "commit") /\ UNCHANGED rows BY <1>6 DEF StartTest, SetRunning, At
  <2>2. RowOf(x) = NoRow BY <1>6 DEF RowOf
  <2>3. ASSUME NEW new \in Txn, new.step = "commit", new.work = e, new.swept = txn[x].swept,
               new.rows = txn[x].rows \cup ({RowOf(x)} \ {NoRow})
        PROVE  Seen(new)
    <3>1. new.rows = txn[x].rows BY <2>2, <2>3
    <3> QED BY <1>1, <1>3, <1>4, <1>6, <2>3, <3>1 DEF Seen
  <2> QED BY <2>1, <2>3, GotoSees DEF Steps
<1>7. CASE txn[x].step = "start test" /\ e.test \notin testRows
  <2>1. Then(e, txn[x].step) = "set running" BY <1>3, <1>7 DEF Then, StartThen
  <2>2. Goto(x, "set running") /\ UNCHANGED rows
    BY <1>7, <2>1 DEF StartTest, SetRunning, At, Proceed
  <2>3. RowOf(x) = <<"test", e.test>> BY <1>7 DEF RowOf
  <2>4. ASSUME NEW new \in Txn, new.step = "set running", new.work = e, new.swept = txn[x].swept,
               new.rows = txn[x].rows \cup ({RowOf(x)} \ {NoRow})
        PROVE  Seen(new)
    <3>1. <<"test", e.test>> \in new.rows BY <2>3, <2>4, TablesDiffer
    <3>2. \A a : <<"run", a>> \in new.rows <=> <<"run", a>> \in txn[x].rows
      BY <2>3, <2>4, TablesDiffer
    <3>3. \A row \in txn[x].rows : row \in new.rows BY <2>4
    <3> QED BY <1>1, <1>3, <1>4, <1>7, <2>4, <3>1, <3>2, <3>3 DEF Seen
  <2> QED BY <2>2, <2>4, GotoSees DEF Steps
<1> QED BY <1>2, <1>5, <1>6, <1>7

\* A test.end that goes on has found its test, and tests are never deleted.
LEMMA EndSees ==
  ASSUME HandlerTransactionsAssumption, IInv, SeenInv, NEW x \in Transactions,
         EndTest(x) \/ StoreError(x) \/ CountTest(x) \/ CountName(x)
  PROVE  SeenInv'
<1> DEFINE e == txn[x].work
           s == Then(e, txn[x].step)
<1>1. Fits(e, txn[x].step, txn[x].swept) /\ Seen(txn[x]) BY DEF IInv, SeenInv
<1>2. \/ txn[x].step = "end test" \/ txn[x].step = "store error"
       \/ txn[x].step = "count test" \/ txn[x].step = "count name"
  BY DEF EndTest, StoreError, CountTest, CountName, At
<1>3. e \in Works /\ e.type = "test.end" BY <1>1, <1>2 DEF Fits
<1>4. e # Cleanup BY <1>3, EventsAreTyped
<1>5. CASE txn[x].step = "end test" /\ e.test \notin testRows
  <2>1. Release(x) BY <1>5 DEF EndTest, StoreError, CountTest, CountName, At
  <2> QED BY <2>1, BeginSees
<1>6. CASE txn[x].step # "end test" \/ e.test \in testRows
  <2>1. Goto(x, s) /\ UNCHANGED rows
    BY <1>6 DEF EndTest, StoreError, CountTest, CountName, At, Proceed
  <2>2. e.test \in testRows BY <1>1, <1>2, <1>3, <1>6 DEF Seen
  <2>3. s \in {"store error", "count test", "count name", "commit"}
    BY <1>2, <1>3 DEF Then, EndThen
  <2> HIDE DEF s
  <2>4. s \in Steps BY <2>3 DEF Steps
  <2>5. ASSUME NEW new \in Txn, new.step = s, new.work = e, new.swept = txn[x].swept,
               new.rows = txn[x].rows \cup ({RowOf(x)} \ {NoRow})
        PROVE  Seen(new)
    <3>1. \A row \in txn[x].rows : row \in new.rows BY <2>5
    <3> QED BY <1>1, <1>2, <1>3, <1>4, <2>2, <2>5, <3>1 DEF Seen
  <2> QED BY <2>1, <2>4, <2>5, GotoSees
<1> QED BY <1>5, <1>6

\* A run.end that writes its run books it, and one that does not has found it closed.
LEMMA CloseSees ==
  ASSUME HandlerTransactionsAssumption, IInv, SeenInv, NEW x \in Transactions,
         CloseRun(x) \/ CountRetried(x) \/ Book(x)
  PROVE  SeenInv'
<1> DEFINE t == txn[x]
           e == t.work
<1>1. /\ Fits(e, t.step, t.swept) /\ Seen(t) /\ TxnTypeOK /\ InOrder(t)
      /\ t \in Txn /\ txn \in [Transactions -> Txn]
  BY DEF IInv, SeenInv, TxnTypeOK, Txn
<1>2. \/ t.step = "close run" /\ CloseRun(x)
      \/ t.step = "count retried" /\ CountRetried(x)
      \/ t.step = "book" /\ Book(x)
  <2>1. CloseRun(x) => t.step = "close run" BY DEF CloseRun, At
  <2>2. CountRetried(x) => t.step = "count retried" BY DEF CountRetried, At
  <2>3. Book(x) => t.step = "book" BY DEF Book, At
  <2> QED BY <2>1, <2>2, <2>3
<1>3. e \in Works /\ e.type = "run.end" BY <1>1, <1>2 DEF Fits
<1>4. e # Cleanup /\ e.run \in TxnRuns BY <1>3, EventsAreTyped
<1>5. CASE t.step = "close run" /\ CloseRun(x) /\ runRows[e.run] = "closed"
  <2> DEFINE new == [t EXCEPT !.step = "commit"]
  <2>1. txn' = [txn EXCEPT ![x] = new] /\ UNCHANGED rows BY <1>5 DEF CloseRun
  <2>2. new \in Txn /\ new.step = "commit" /\ new.work = e /\ new.rows = t.rows
    BY <1>1 DEF Txn, Steps
  <2> HIDE DEF new
  <2>3. <<"run", e.run>> \notin t.rows
    <3>1. Reach(t.step, t.swept) = 1 BY <1>5, Reaches
    <3>2. 3 <= Place(<<"run", e.run>>) BY <1>4, PlaceOfRun
    <3>3. \A row \in t.rows : Place(row) < 1 BY <1>1, <3>1 DEF InOrder
    <3>4. Place(<<"run", e.run>>) \in Nat BY <1>4, PlaceOfRun
    <3> QED BY <3>2, <3>3, <3>4
  <2>4. Seen(new) BY <1>1, <1>3, <1>4, <1>5, <2>2, <2>3 DEF Seen
  <2> QED BY <2>1, <2>2, <2>4, StatementSees
<1>6. CASE t.step = "close run" /\ CloseRun(x) /\ runRows[e.run] # "closed"
  <2>1. RowOf(x) = <<"run", e.run>> BY <1>6 DEF RowOf
  <2> DEFINE new == [t EXCEPT !.step = "count retried", !.rows = t.rows \cup {RowOf(x)},
                              !.ended = EndsOf(e.run)]
  <2>2. txn' = [txn EXCEPT ![x] = new] /\ UNCHANGED rows
    <3>1. Then(e, "close run") = "count retried" BY <1>3 DEF Then, CloseThen
    <3> QED BY <1>1, <1>6, <3>1 DEF CloseRun
  <2>3. RowOf(x) \in AllRows BY <1>4, <2>1 DEF AllRows
  <2>4. EndsOf(e.run) \subseteq Works BY <1>1 DEF EndsOf, TxnTypeOK
  <2>5. /\ new \in Txn /\ new.step = "count retried" /\ new.work = e
        /\ new.rows = t.rows \cup {RowOf(x)}
    BY <1>1, <2>3, <2>4 DEF Txn, Steps
  <2> HIDE DEF new
  <2>6. \A r : <<"run", r>> \in new.rows => r = e.run
    <3>1. \A r : <<"run", r>> \in t.rows => r = e.run BY <1>1, <1>3 DEF Seen
    <3>2. \A r : <<"run", r>> = RowOf(x) => r = e.run BY <2>1
    <3> QED BY <2>5, <3>1, <3>2
  <2>7. <<"inbox", e>> \in new.rows /\ e \notin keys BY <1>1, <1>3, <1>6, <2>5 DEF Seen
  <2>8. Seen(new) BY <1>3, <1>4, <2>5, <2>6, <2>7 DEF Seen
  <2> QED BY <2>2, <2>5, <2>8, StatementSees
<1>7. CASE t.step = "count retried" /\ CountRetried(x)
  <2> DEFINE new == [t EXCEPT !.step = "book", !.retried = Retried(EndsOf(e.run))]
  <2>1. txn' = [txn EXCEPT ![x] = new] /\ UNCHANGED rows
    <3>1. Then(e, "count retried") = "book" BY <1>3 DEF Then, CloseThen
    <3> QED BY <1>1, <1>7, <3>1 DEF CountRetried
  <2>2. Retried(EndsOf(e.run)) \subseteq AllTests
    BY <1>1 DEF EndsOf, Retried, AllTests, TxnTypeOK
  <2>3. new \in Txn /\ new.step = "book" /\ new.work = e /\ new.rows = t.rows
    BY <1>1, <2>2 DEF Txn, Steps
  <2> HIDE DEF new
  <2>4. Seen(new) BY <1>1, <1>3, <1>4, <1>7, <2>3 DEF Seen
  <2> QED BY <2>1, <2>3, <2>4, StatementSees
<1>8. CASE t.step = "book" /\ Book(x)
  <2>1. Goto(x, "commit") /\ UNCHANGED rows
    <3>1. Then(e, "book") = "commit" BY <1>3 DEF Then, CloseThen
    <3> QED BY <1>8, <3>1 DEF Book, Proceed
  <2>2. RowOf(x) = <<"day", e.day>> BY <1>8 DEF RowOf
  <2>3. ASSUME NEW new \in Txn, new.step = "commit", new.work = e, new.swept = t.swept,
               new.rows = t.rows \cup ({RowOf(x)} \ {NoRow})
        PROVE  Seen(new)
    <3>1. Books(new) BY <1>3, <2>2, <2>3, TablesDiffer DEF Books
    <3>2. \A a : <<"run", a>> \in new.rows <=> <<"run", a>> \in t.rows
      BY <2>2, <2>3, TablesDiffer
    <3>3. <<"inbox", e>> \in new.rows /\ e \notin keys BY <1>1, <1>3, <1>8, <2>3 DEF Seen
    <3>4. \A r : <<"run", r>> \in new.rows => r = e.run BY <1>1, <1>3, <3>2 DEF Seen
    <3> QED BY <1>3, <1>4, <2>3, <3>1, <3>3, <3>4 DEF Seen
  <2> QED BY <2>1, <2>3, GotoSees DEF Steps
<1> QED BY <1>2, <1>5, <1>6, <1>7, <1>8

\* The cleanup leaves no run behind that it does not have and that is open.
LEMMA SweepSees ==
  ASSUME HandlerTransactionsAssumption, IInv, SeenInv, NEW x \in Transactions, Sweep(x)
  PROVE  SeenInv'
<1> DEFINE t == txn[x]
           swept == t.swept + 1
           s == IF swept = Len(Scan) THEN "commit" ELSE "sweep"
           written == t.rows \cup ({RowOf(x)} \ {NoRow})
           new == [t EXCEPT !.step = s, !.rows = written, !.swept = swept]
<1>1. /\ Fits(t.work, t.step, t.swept) /\ TxnTypeOK /\ Seen(t)
      /\ t.step = "sweep" /\ t \in Txn /\ txn \in [Transactions -> Txn]
  BY DEF Sweep, At, IInv, SeenInv, TxnTypeOK, Txn
<1>2. Len(Scan) \in Nat BY DEF HandlerTransactionsAssumption
<1>3. t.work = Cleanup /\ t.swept < Len(Scan) /\ t.swept \in Nat BY <1>1, <1>2 DEF Fits, Txn
<1>4. txn' = [txn EXCEPT ![x] = new] /\ UNCHANGED rows BY <1>1 DEF Sweep
<1>5. RowOf(x) = IF runRows[Scan[swept]] # "closed" THEN <<"run", Scan[swept]>> ELSE NoRow
  BY <1>1 DEF RowOf
<1>6. written \in SUBSET AllRows
  <2>1. RowOf(x) # NoRow => RowOf(x) \in AllRows BY <1>1, RowIsBeyond
  <2> QED BY <1>1, <2>1 DEF Txn
<1>7. swept \in 0 .. Len(Scan) /\ swept \in Nat BY <1>2, <1>3
<1>8. s \in Steps /\ (s = "commit" => swept = Len(Scan)) BY DEF Steps
<1>9. <<"run", Scan[swept]>> \in written \/ runRows[Scan[swept]] = "closed"
  BY <1>5, TablesDiffer
<1>10. \A row \in t.rows : row \in written OBVIOUS
<1> HIDE DEF s, written
<1>11. /\ new \in Txn /\ new.step = s /\ new.work = Cleanup /\ new.rows = written
       /\ new.swept = swept
  BY <1>1, <1>3, <1>6, <1>7, <1>8 DEF Txn
<1> HIDE DEF new
<1>12. ASSUME NEW i \in 1 .. swept
       PROVE  <<"run", Scan[i]>> \in written \/ runRows[Scan[i]] = "closed"
  <2>1. CASE i = swept BY <1>9, <2>1
  <2>2. CASE i # swept
    <3>1. i \in 1 .. t.swept BY <1>3, <1>12, <2>2
    <3>2. <<"run", Scan[i]>> \in t.rows \/ runRows[Scan[i]] = "closed" BY <1>1, <1>3, <3>1 DEF Seen
    <3> QED BY <1>10, <3>2
  <2> QED BY <2>1, <2>2
<1>13. Seen(new)
  <2>1. Cleanup \notin Works /\ Cleanup.type = "cleanup" BY EventsAreTyped
  <2> QED BY <1>8, <1>11, <1>12, <2>1 DEF Seen
<1> QED BY <1>4, <1>11, <1>13, StatementSees

\* A commit takes nothing back that another transaction has found.
LEMMA CommitSees ==
  ASSUME HandlerTransactionsAssumption, IInv, SeenInv, NEW x \in Transactions, Commit(x)
  PROVE  SeenInv'
<1> DEFINE t == txn[x]
           e == t.work
<1>1. /\ Fits(e, t.step, t.swept) /\ Seen(t) /\ ReadsStand(t) /\ t.step = "commit"
      /\ txn \in [Transactions -> Txn]
  BY DEF Commit, IInv, SeenInv, TxnTypeOK, Txn
<1>2. /\ e \in Works \/ (e = Cleanup /\ e.type = "cleanup")
      /\ e \in Works => e.type \in Types /\ e.run \in TxnRuns /\ e # Cleanup
  BY <1>1, EventsAreTyped DEF Fits
<1>3. \A y \in Transactions : txn'[y] = IF y = x THEN Idle ELSE txn[y]
  BY <1>1 DEF Commit
<1>4. \A r \in TxnRuns : runRows'[r] =
        IF <<"run", r>> \notin t.rows \/ e.type = "test.end" THEN runRows[r]
        ELSE IF e.type = "test.start" THEN "running" ELSE "closed"
  BY DEF Commit, Wrote
<1>5. keys' = IF e = Cleanup THEN keys ELSE keys \cup {e} BY DEF Commit
<1>6. testRows' = IF e.type = "test.start" THEN testRows \cup {e.test} ELSE testRows BY DEF Commit
<1>7. \A r \in TxnRuns : runRows[r] = "closed" => runRows'[r] = "closed"
  BY <1>1, <1>4 DEF ReadsStand
<1>7a. \A r \in TxnRuns : runRows'[r] = "pending" => runRows[r] = "pending"
  BY <1>1, <1>4 DEF ReadsStand
<1>8. e \in Works => <<"inbox", e>> \in t.rows BY <1>1 DEF Seen
<1>9. e.type = "test.start" /\ e.test \notin testRows => <<"test", e.test>> \in t.rows
  BY <1>1 DEF Seen
<1> SUFFICES ASSUME NEW y \in Transactions PROVE Seen(txn[y])' BY DEF SeenInv
<1>10. CASE y = x
  <2>1. txn'[y] = Idle BY <1>3, <1>10
  <2>2. Nothing \notin Works /\ Nothing # Cleanup /\ Nothing.type = "none" BY EventsAreTyped
  <2> QED BY <2>1, <2>2 DEF Seen, Idle
<1>11. CASE y # x
  <2> DEFINE u == txn[y]
             f == u.work
  <2>1. txn'[y] = u BY <1>3, <1>11
  <2>2. Seen(u) /\ u \in Txn BY <1>1 DEF SeenInv
  <2>3. \A row \in u.rows : row \notin t.rows BY <1>11 DEF IInv, WrittenByOne
  <2>4. f \in Works => f.run \in TxnRuns BY EventsAreTyped
  <2>5. f \in {Cleanup, Nothing} => f.type \in {"cleanup", "none"} BY EventsAreTyped
  <2>6. f \in Works \cup {Cleanup, Nothing} BY <2>2 DEF Txn
  <2>7. f.type \in {"test.start", "run.end"} => f \in Works BY <2>5, <2>6
  <2>8. f \in Works /\ u.step # "receive" => <<"inbox", f>> \in u.rows /\ f \notin keys'
    BY <1>2, <1>5, <1>8, <2>2, <2>3 DEF Seen
  <2>9. f.type = "test.start" =>
          /\ <<"test", f.test>> \in u.rows => f.test \notin testRows'
          /\ \A r : <<"run", r>> \in u.rows => r = f.run /\ runRows'[r] = "pending"
          /\ u.step \in {"receive", "start test"} =>
               <<"test", f.test>> \notin u.rows /\ <<"run", f.run>> \notin u.rows
          /\ u.step = "set running" => <<"test", f.test>> \in u.rows
          /\ u.step = "commit" =>
               IF <<"test", f.test>> \in u.rows
               THEN <<"run", f.run>> \in u.rows \/ runRows'[f.run] # "pending"
               ELSE f.test \in testRows' /\ <<"run", f.run>> \notin u.rows
    <3> SUFFICES ASSUME f.type = "test.start"
                 PROVE  /\ <<"test", f.test>> \in u.rows => f.test \notin testRows'
                        /\ \A r : <<"run", r>> \in u.rows => r = f.run /\ runRows'[r] = "pending"
                        /\ u.step \in {"receive", "start test"} =>
                             <<"test", f.test>> \notin u.rows /\ <<"run", f.run>> \notin u.rows
                        /\ u.step = "set running" => <<"test", f.test>> \in u.rows
                        /\ u.step = "commit" =>
                             IF <<"test", f.test>> \in u.rows
                             THEN <<"run", f.run>> \in u.rows \/ runRows'[f.run] # "pending"
                             ELSE f.test \in testRows' /\ <<"run", f.run>> \notin u.rows
      OBVIOUS
    <3>1. f.run \in TxnRuns BY <2>4, <2>7
    <3>2. <<"test", f.test>> \in u.rows => f.test \notin testRows'
      <4>1. <<"test", f.test>> \in u.rows => f.test \notin testRows BY <2>2 DEF Seen
      <4> QED BY <1>6, <1>9, <2>3, <4>1
    <3>3. \A r : <<"run", r>> \in u.rows => r = f.run /\ runRows'[r] = "pending"
      <4>1. \A r : <<"run", r>> \in u.rows => r = f.run /\ runRows[r] = "pending" BY <2>2 DEF Seen
      <4> QED BY <1>4, <2>3, <3>1, <4>1
    <3>4. u.step \in {"receive", "start test"} =>
            <<"test", f.test>> \notin u.rows /\ <<"run", f.run>> \notin u.rows
      BY <2>2 DEF Seen
    <3>5. u.step = "set running" => <<"test", f.test>> \in u.rows BY <2>2 DEF Seen
    <3>6. u.step = "commit" =>
            IF <<"test", f.test>> \in u.rows
            THEN <<"run", f.run>> \in u.rows \/ runRows[f.run] # "pending"
            ELSE f.test \in testRows /\ <<"run", f.run>> \notin u.rows
      BY <2>2 DEF Seen
    <3>7. runRows'[f.run] = "pending" => runRows[f.run] = "pending" BY <1>7a, <3>1, Zenon
    <3>8. f.test \in testRows => f.test \in testRows' BY <1>6
    <3> HIDE DEF t, u, f
    <3> QED BY <3>2, <3>3, <3>4, <3>5, <3>6, <3>7, <3>8
  <2>10. f.type = "test.end" /\ u.step \notin {"receive", "end test"} => f.test \in testRows'
    <3>1. f.type = "test.end" /\ u.step \notin {"receive", "end test"} => f.test \in testRows
      BY <2>2 DEF Seen
    <3> QED BY <1>6, <3>1
  <2>11. f.type = "run.end" =>
           /\ \A r : <<"run", r>> \in u.rows => r = f.run
           /\ u.step = "commit" =>
                Books(u) \/ (runRows'[f.run] = "closed" /\ <<"run", f.run>> \notin u.rows)
    <3>1. f.type = "run.end" =>
            /\ \A r : <<"run", r>> \in u.rows => r = f.run
            /\ u.step = "commit" =>
                 Books(u) \/ (runRows[f.run] = "closed" /\ <<"run", f.run>> \notin u.rows)
      BY <2>2 DEF Seen
    <3>2. f.type = "run.end" => (runRows[f.run] = "closed" => runRows'[f.run] = "closed")
      BY <1>7, <2>4, <2>7, Zenon
    <3> HIDE DEF t, u, f
    <3> QED BY <3>1, <3>2
  <2>12. f = Cleanup =>
           /\ u.step = "commit" => u.swept = Len(Scan)
           /\ \A i \in 1 .. u.swept : <<"run", Scan[i]>> \in u.rows \/ runRows'[Scan[i]] = "closed"
    <3>1. \A i \in 1 .. u.swept : Scan[i] \in TxnRuns
      BY <2>2 DEF Txn, HandlerTransactionsAssumption
    <3>2. f = Cleanup =>
            /\ u.step = "commit" => u.swept = Len(Scan)
            /\ \A i \in 1 .. u.swept : <<"run", Scan[i]>> \in u.rows \/ runRows[Scan[i]] = "closed"
      BY <2>2 DEF Seen
    <3> HIDE DEF t, u, f
    <3>3. \A i \in 1 .. u.swept :
            runRows[Scan[i]] = "closed" => runRows'[Scan[i]] = "closed"
      BY <1>7, <3>1, Zenon
    <3> QED BY <3>2, <3>3, Zenon
  <2> QED BY <2>1, <2>8, <2>9, <2>10, <2>11, <2>12 DEF Seen, Books
<1> QED BY <1>10, <1>11

\* Every step keeps it.
LEMMA StepSees ==
  ASSUME HandlerTransactionsAssumption, IInv, SeenInv, [TxnNext]_txnVars PROVE SeenInv'
<1>1. ASSUME NEW x \in Transactions,
             \/ \E e \in Works : Begin(x, e)
             \/ BeginCleanup(x) \/ Sweep(x)
             \/ Receive(x) \/ StartTest(x) \/ SetRunning(x)
             \/ EndTest(x) \/ StoreError(x) \/ CountTest(x) \/ CountName(x)
             \/ CloseRun(x) \/ CountRetried(x) \/ Book(x)
             \/ Commit(x) \/ RollBack(x)
      PROVE  SeenInv'
  <2>1. CASE (\E e \in Works : Begin(x, e)) \/ BeginCleanup(x) BY <2>1, BeginSees
  <2>2. CASE Sweep(x) \/ Receive(x) BY <2>2, SweepSees, ReceiveSees
  <2>3. CASE StartTest(x) \/ SetRunning(x) BY <2>3, StartSees
  <2>4. CASE EndTest(x) \/ StoreError(x) \/ CountTest(x) \/ CountName(x) BY <2>4, EndSees
  <2>5. CASE CloseRun(x) \/ CountRetried(x) \/ Book(x) BY <2>5, CloseSees
  <2>6. CASE Commit(x) BY <2>6, CommitSees
  <2>7. CASE RollBack(x) BY <2>7, BeginSees DEF RollBack
  <2> QED BY <1>1, <2>1, <2>2, <2>3, <2>4, <2>5, <2>6, <2>7
<1>2. CASE UNCHANGED txnVars
  <2>1. UNCHANGED <<txn, keys, testRows, runRows>> BY <1>2 DEF txnVars
  <2> SUFFICES ASSUME NEW x \in Transactions PROVE Seen(txn[x])' BY DEF SeenInv
  <2>2. Seen(txn[x]) BY DEF SeenInv
  <2> QED BY <2>1, <2>2 DEF Seen, Books
<1> QED BY <1>1, <1>2 DEF TxnNext

\* A transaction that begins has seen nothing.
LEMMA NothingSeen == ASSUME HandlerTransactionsAssumption, TxnInit PROVE SeenInv
<1>1. \A x \in Transactions : txn[x] = Idle BY DEF TxnInit
<1>2. Seen(Idle) BY EventsAreTyped DEF Seen, Idle
<1> QED BY <1>1, <1>2 DEF SeenInv

-----------------------------------------------------------------------------
(* A transaction is one step, at its commit *)

LEMMA StartIsAStep ==
  ASSUME HandlerTransactionsAssumption, IInv, SeenInv, NEW x \in Transactions, Commit(x),
         txn[x].work.type = "test.start"
  PROVE  Atomic!StartTest(txn[x].work)
<1> DEFINE t == txn[x]
           e == t.work
<1>1. Fits(e, t.step, t.swept) /\ Seen(t) /\ t.step = "commit" /\ TxnTypeOK
  BY DEF Commit, IInv, SeenInv
<1>2. e \in Works /\ e # Cleanup /\ e.run \in TxnRuns BY <1>1, EventsAreTyped DEF Fits
<1>3. <<"inbox", e>> \in t.rows /\ e \notin keys BY <1>1, <1>2 DEF Seen
<1>4. /\ keys' = keys \cup {e} /\ testRows' = testRows \cup {e.test}
      /\ ended' = ended /\ booked' = booked
  BY <1>2 DEF Commit
<1>5. \A r : <<"run", r>> \in t.rows => r = e.run /\ runRows[r] = "pending" BY <1>1 DEF Seen
<1>6. IF <<"test", e.test>> \in t.rows
      THEN e.test \notin testRows /\ (<<"run", e.run>> \in t.rows \/ runRows[e.run] # "pending")
      ELSE e.test \in testRows /\ <<"run", e.run>> \notin t.rows
  BY <1>1 DEF Seen
<1>7. <<"run", e.run>> \in t.rows <=> e.test \notin testRows /\ runRows[e.run] = "pending"
  BY <1>5, <1>6
<1>8. runRows' = [r \in TxnRuns |-> IF <<"run", r>> \notin t.rows THEN runRows[r] ELSE "running"]
  BY DEF Commit, Wrote
<1>9. runRows' = [runRows EXCEPT ![e.run] = IF e.test \notin testRows /\ runRows[e.run] = "pending"
                                          THEN "running" ELSE runRows[e.run]]
  BY <1>1, <1>2, <1>5, <1>7, <1>8 DEF TxnTypeOK
<1> QED BY <1>3, <1>4, <1>9 DEF Atomic!StartTest, Atomic!Receive

LEMMA EndIsAStep ==
  ASSUME HandlerTransactionsAssumption, IInv, SeenInv, NEW x \in Transactions, Commit(x),
         txn[x].work.type = "test.end"
  PROVE  Atomic!EndTest(txn[x].work)
<1> DEFINE t == txn[x]
           e == t.work
<1>1. Fits(e, t.step, t.swept) /\ Seen(t) /\ t.step = "commit" /\ TxnTypeOK
  BY DEF Commit, IInv, SeenInv
<1>2. e \in Works /\ e # Cleanup BY <1>1, EventsAreTyped DEF Fits
<1>3. e \notin keys /\ e.test \in testRows BY <1>1, <1>2 DEF Seen
<1>4. /\ keys' = keys \cup {e} /\ testRows' = testRows /\ ended' = ended \cup {e}
      /\ booked' = booked /\ runRows' = [r \in TxnRuns |-> runRows[r]]
  BY <1>2 DEF Commit
<1>5. runRows' = runRows BY <1>1, <1>4 DEF TxnTypeOK
<1> QED BY <1>3, <1>4, <1>5 DEF Atomic!EndTest, Atomic!Receive

LEMMA CloseIsAStep ==
  ASSUME HandlerTransactionsAssumption, IInv, SeenInv, NEW x \in Transactions, Commit(x),
         txn[x].work.type = "run.end"
  PROVE  Atomic!CloseRun(txn[x].work)
<1> DEFINE t == txn[x]
           e == t.work
           ends == {f \in ended : f.run = e.run}
           b == [event |-> e, ended |-> ends,
                 retried |-> {f.test : f \in {g \in ends : g.retried}}]
<1>1. /\ Fits(e, t.step, t.swept) /\ Seen(t) /\ ReadsStand(t) /\ t.step = "commit" /\ TxnTypeOK
  BY DEF Commit, IInv, SeenInv
<1>2. e \in Works /\ e # Cleanup /\ e.run \in TxnRuns BY <1>1, EventsAreTyped DEF Fits
<1>3. e \notin keys BY <1>1, <1>2 DEF Seen
<1>4. keys' = keys \cup {e} /\ testRows' = testRows /\ ended' = ended BY <1>2 DEF Commit
<1>5. \A r : <<"run", r>> \in t.rows => r = e.run BY <1>1 DEF Seen
<1>6. runRows' = [r \in TxnRuns |-> IF <<"run", r>> \notin t.rows THEN runRows[r] ELSE "closed"]
  BY DEF Commit, Wrote
<1>7. CASE Books(t)
  <2>1. /\ <<"run", e.run>> \in t.rows /\ t.ended = EndsOf(e.run)
        /\ t.retried = Retried(t.ended)
    BY <1>1, <1>7 DEF ReadsStand
  <2>2. runRows[e.run] # "closed" BY <1>1, <1>2, <2>1 DEF ReadsStand
  <2>3. runRows' = [runRows EXCEPT ![e.run] = "closed"] BY <1>1, <1>5, <1>6, <2>1 DEF TxnTypeOK
  <2>4. t.ended = ends /\ t.retried = {f.test : f \in {g \in ends : g.retried}}
    BY <2>1 DEF EndsOf, Retried
  <2>5. booked' = booked \cup {b} BY <1>7, <2>4 DEF Commit, Books, Wrote
  <2> QED BY <1>3, <1>4, <2>2, <2>3, <2>5 DEF Atomic!CloseRun, Atomic!Receive
<1>8. CASE ~Books(t)
  <2>1. runRows[e.run] = "closed" /\ <<"run", e.run>> \notin t.rows BY <1>1, <1>8 DEF Seen
  <2>2. runRows' = [runRows EXCEPT ![e.run] = "closed"] BY <1>1, <1>5, <1>6, <2>1 DEF TxnTypeOK
  <2>3. booked' = booked BY <1>8 DEF Commit, Books, Wrote
  <2> QED BY <1>3, <1>4, <2>1, <2>2, <2>3 DEF Atomic!CloseRun, Atomic!Receive
<1> QED BY <1>7, <1>8

LEMMA CleanupIsAStep ==
  ASSUME HandlerTransactionsAssumption, IInv, SeenInv, NEW x \in Transactions, Commit(x),
         txn[x].work = Cleanup
  PROVE  Atomic!Cleanup
<1> DEFINE t == txn[x]
<1>1. Seen(t) /\ t.step = "commit" /\ TxnTypeOK BY DEF Commit, IInv, SeenInv
<1>2. t.work.type = "cleanup" BY EventsAreTyped
<1>3. UNCHANGED <<keys, testRows, ended, booked>> BY <1>2 DEF Commit
<1>4. ASSUME NEW r \in TxnRuns PROVE <<"run", r>> \in t.rows \/ runRows[r] = "closed"
  <2>1. PICK i \in 1 .. Len(Scan) : Scan[i] = r BY DEF HandlerTransactionsAssumption
  <2> QED BY <1>1, <2>1 DEF Seen
<1>5. runRows' = [r \in TxnRuns |-> IF <<"run", r>> \notin t.rows THEN runRows[r] ELSE "closed"]
  BY <1>2 DEF Commit, Wrote
<1>6. runRows' = [r \in TxnRuns |-> "closed"] BY <1>4, <1>5
<1> QED BY <1>3, <1>6 DEF Atomic!Cleanup

LEMMA StepIsAtomic ==
  ASSUME HandlerTransactionsAssumption, IInv, SeenInv, [TxnNext]_txnVars
  PROVE  [Atomic!Next]_(Atomic!rows)
<1>1. ASSUME NEW x \in Transactions, Commit(x) PROVE Atomic!Next
  <2> DEFINE e == txn[x].work
  <2>1. Fits(e, txn[x].step, txn[x].swept) /\ txn[x].step = "commit" BY <1>1 DEF Commit, IInv
  <2>2. e = Cleanup \/ (e \in Works /\ e.type \in Types) BY <2>1, EventsAreTyped DEF Fits
  <2> QED BY <1>1, <2>2, StartIsAStep, EndIsAStep, CloseIsAStep, CleanupIsAStep
          DEF Types, Atomic!Next
<1>2. ASSUME NEW x \in Transactions,
             \/ \E e \in Works : Begin(x, e)
             \/ BeginCleanup(x) \/ Sweep(x)
             \/ Receive(x) \/ StartTest(x) \/ SetRunning(x)
             \/ EndTest(x) \/ StoreError(x) \/ CountTest(x) \/ CountName(x)
             \/ CloseRun(x) \/ CountRetried(x) \/ Book(x) \/ RollBack(x)
      PROVE  UNCHANGED rows
  <2>1. CASE (\E e \in Works : Begin(x, e)) \/ BeginCleanup(x) \/ Sweep(x)
    BY <2>1 DEF Begin, BeginCleanup, Sweep
  <2>2. CASE Receive(x) \/ StartTest(x) \/ SetRunning(x)
    BY <2>2 DEF Receive, StartTest, SetRunning, Proceed, Release
  <2>3. CASE EndTest(x) \/ StoreError(x) \/ CountTest(x) \/ CountName(x)
    BY <2>3 DEF EndTest, StoreError, CountTest, CountName, Proceed, Release
  <2>4. CASE CloseRun(x) \/ CountRetried(x) \/ Book(x) \/ RollBack(x)
    BY <2>4 DEF CloseRun, CountRetried, Book, RollBack, Proceed, Release
  <2> QED BY <1>2, <2>1, <2>2, <2>3, <2>4
<1>3. UNCHANGED txnVars => UNCHANGED rows BY DEF txnVars, rows
<1>4. UNCHANGED rows => UNCHANGED Atomic!rows BY DEF rows, Atomic!rows
<1> QED BY <1>1, <1>2, <1>3, <1>4 DEF TxnNext

-----------------------------------------------------------------------------
\* result-processor.service.ts processes an event in one transaction: however many run at the
\* same time, they never wait for one another in a circle, and what they leave behind is what
\* they would as single steps, taken one after the other where they commit: the first event
\* of a test sets its run running, a run is closed once, and booked with the counters and the
\* retried tests of that moment.
THEOREM TransactionsAreSteps ==
  ASSUME HandlerTransactionsAssumption PROVE TxnSpec => TransactionsHold
<1>1. TxnInit => IInv /\ SeenInv BY InitIsRight, NothingSeen
<1>2. IInv /\ SeenInv /\ [TxnNext]_txnVars => (IInv /\ SeenInv)' BY StepKeeps, StepSees
<1>3. IInv => TxnTypeOK /\ NoDeadlock BY NoCircle DEF IInv
<1>4. TxnInit => Atomic!Init BY DEF TxnInit, Atomic!Init
<1>5. IInv /\ SeenInv /\ [TxnNext]_txnVars => [Atomic!Next]_(Atomic!rows) BY StepIsAtomic
<1> QED BY <1>1, <1>2, <1>3, <1>4, <1>5, PTL DEF TxnSpec, TransactionsHold, Atomic!Spec

\* A run is booked once, with the counters and the retried tests of one and the same moment.
THEOREM RunsAreBookedAtOnce ==
  ASSUME HandlerTransactionsAssumption PROVE TxnSpec => []BookedAtOnce
<1>1. TxnInit => IInv BY InitIsRight
<1>2. IInv /\ [TxnNext]_txnVars => IInv' BY StepKeeps
<1>3. IInv => BookedAtOnce BY DEF IInv
<1> QED BY <1>1, <1>2, <1>3, PTL DEF TxnSpec
=============================================================================
