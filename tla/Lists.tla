------------------------------- MODULE Lists --------------------------------
(***************************************************************************)
(* The lists of the query API - the runs, projects, members, tokens and    *)
(* invitations of an organization, the tests of a run - and a reader who   *)
(* pages through one while others insert and update rows.  A page is a     *)
(* number: what it shows moves under the reader.  Its rows and the number  *)
(* of all rows are two statements.                                         *)
(***************************************************************************)
EXTENDS Integers, Sequences, SequencesExt

CONSTANTS Rows,      \* the rows of a list
          Groups,    \* projects of the organization, or suites of the run
          NoGroup,   \* no parent, and no filter
          ParentOf,  \* [Groups -> parent_suite_id, or NoGroup]
          GroupOf,   \* [Rows -> the project or suite of the row]
          Statuses,  \* in the order of the enum: 1 .. n
          AnyStatus,
          PageSize,
          MaxUpdates \* bound: changes of a status

ListsAssumption ==
  /\ Statuses \subseteq Nat /\ Statuses # {} /\ AnyStatus \notin Statuses
  /\ IsFiniteSet(Rows) /\ IsFiniteSet(Groups) /\ NoGroup \notin Groups
  /\ ParentOf \in [Groups -> Groups \cup {NoGroup}] /\ GroupOf \in [Rows -> Groups]
  /\ PageSize \in Nat \ {0} /\ MaxUpdates \in Nat

VARIABLES
  created, \* [Rows -> created_at, or NotStored]: transactions commit in any order;
           \* of projects the place of the name, which is unique and never changes either
  status,  \* [Rows -> the status of the row]
  updates,
  query,   \* what the reader asks for
  page,
  step,    \* of the request for the page
  shown,   \* its rows
  total,   \* the number of all rows it came with
  seen,    \* rows the reader has been shown since the first page
  known    \* rows the reader could have seen then

vars == <<created, status, updates, query, page, step, shown, total, seen, known>>
table == <<created, status, updates>>

NotStored == 0
Moments   == 1 .. Cardinality(Rows)
Stored    == {r \in Rows : created[r] # NotStored}

-----------------------------------------------------------------------------
(* What may be asked of each list *)

Asked(by, order, groups, statuses) ==
  [sortBy : by, sortOrder : order, group : groups, status : statuses]

AnyGroup == Groups \cup {NoGroup}
AllStatuses == Statuses \cup {AnyStatus}

\* One column that changes stands for all.
Columns == {"createdAt", "status"}

ListRuns  == Asked(Columns, {"asc", "desc"}, AnyGroup, AllStatuses)
ListTests == Asked(Columns, {"asc", "desc"}, AnyGroup, AllStatuses)

\* The newest first; those revoked only if they are asked for, so that with a status the
\* tokens are the active ones.
ListTokens == Asked({"createdAt"}, {"desc"}, AnyGroup, {Min(Statuses), AnyStatus})

\* Always those of one status.
ListInvitations == Asked({"createdAt"}, {"desc"}, {NoGroup}, Statuses)

ListMembers  == Asked({"createdAt"}, {"asc"}, {NoGroup}, {AnyStatus})
ListProjects == Asked({"createdAt"}, {"asc"}, {NoGroup}, {AnyStatus})

Queries ==
  ListRuns \cup ListTests \cup ListTokens \cup ListInvitations \cup ListMembers \cup ListProjects

-----------------------------------------------------------------------------
(* The worker, and the users who manage the organization *)

Insert(r, s) ==
  /\ created[r] = NotStored
  /\ \E m \in Moments \ {created[x] : x \in Stored} : created' = [created EXCEPT ![r] = m]
  /\ status' = [status EXCEPT ![r] = s]
  /\ UNCHANGED <<updates, query, page, step, shown, total, seen, known>>

Update(r, s) ==
  /\ r \in Stored /\ status[r] # s /\ updates < MaxUpdates
  /\ status' = [status EXCEPT ![r] = s] /\ updates' = updates + 1
  /\ UNCHANGED <<created, query, page, step, shown, total, seen, known>>

-----------------------------------------------------------------------------
(* The statements *)

\* The recursive statement of the tests: a suite and all below it.
DescendantIds(g) ==
  LET down[n \in Nat] ==
        IF n = 0 THEN {g} ELSE down[n - 1] \cup {x \in Groups : ParentOf[x] \in down[n - 1]}
  IN  down[Cardinality(Groups)]

\* What the tree of the page shows at and under a suite.
InTree(x, g) ==
  LET above[n \in Nat] == IF n = 0 THEN x
                          ELSE IF above[n - 1] \in Groups THEN ParentOf[above[n - 1]] ELSE NoGroup
  IN  \E n \in 0 .. Cardinality(Groups) : above[n] = g

Matching(q) ==
  {r \in Stored : /\ q.status \in {AnyStatus, status[r]}
                  /\ q.group = NoGroup \/ GroupOf[r] \in DescendantIds(q.group)}

Key(q, r) == IF q.sortBy = "createdAt" THEN created[r] ELSE status[r]

\* orderBy: equals come in any order, another one in each statement.
Ordered(q) ==
  {s \in SetToSeqs(Matching(q)) :
    \A i, j \in 1 .. Len(s) :
      i < j => IF q.sortOrder = "asc" THEN Key(q, s[i]) <= Key(q, s[j])
                                      ELSE Key(q, s[i]) >= Key(q, s[j])}

\* Mutant: pages are counted from zero.
OffsetFromZero(p) == p * PageSize

Offset(p) == (p - 1) * PageSize

TotalPages == (total + PageSize - 1) \div PageSize

Ask(p) == page' = p /\ step' = "rows" /\ UNCHANGED <<shown, total>>

\* Every choice of an order or a filter drops the page and begins anew.
Choose ==
  /\ step = "none" /\ Ask(1)
  /\ known' = {r \in Matching([query EXCEPT !.group = NoGroup]) :
                 query.group = NoGroup \/ InTree(GroupOf[r], query.group)}
  /\ UNCHANGED <<table, query, seen>>

ReadRows ==
  /\ step = "rows" /\ step' = "count"
  /\ \E s \in Ordered(query) :
       shown' = ToSet(SubSeq(s, Offset(page) + 1, Min({Len(s), Offset(page) + PageSize})))
  /\ UNCHANGED <<table, query, page, total, seen, known>>

Count ==
  /\ step = "count" /\ step' = "answered"
  /\ total' = Cardinality(Matching(query)) /\ seen' = seen \cup shown
  /\ UNCHANGED <<table, query, page, shown, known>>

\* "Next" of the pagination.
TurnPage ==
  /\ step = "answered" /\ page < TotalPages /\ Ask(page + 1)
  /\ UNCHANGED <<table, query, seen, known>>

\* A notification.
Refetch ==
  /\ step = "answered" /\ Ask(page)
  /\ UNCHANGED <<table, query, seen, known>>

Init ==
  /\ created = [r \in Rows |-> NotStored] /\ updates = 0
  /\ status = [r \in Rows |-> Min(Statuses)]
  /\ query \in Queries /\ page = 1 /\ step = "none"
  /\ shown = {} /\ total = 0 /\ seen = {} /\ known = {}

Next ==
  \/ \E r \in Rows, s \in Statuses : Insert(r, s) \/ Update(r, s)
  \/ Choose \/ ReadRows \/ Count \/ TurnPage \/ Refetch

Spec == Init /\ [][Next]_vars

-----------------------------------------------------------------------------
TypeOK ==
  /\ created \in [Rows -> {NotStored} \cup Moments] /\ status \in [Rows -> Statuses]
  /\ updates \in 0 .. MaxUpdates /\ query \in Queries /\ page \in Nat \ {0}
  /\ step \in {"none", "rows", "count", "answered"}
  /\ shown \subseteq Rows /\ total \in 0 .. Cardinality(Rows)
  /\ seen \subseteq Rows /\ known \subseteq Rows

\* In an order that does not change and without a status, a reader who turns to the last
\* page has been shown every row that was there at the first, though rows have come before
\* and between: a row only ever moves to a later page, and the pages are counted after the
\* rows of the last one are read.
PagingMissesNothing ==
  (step = "answered" /\ page >= TotalPages /\ query.sortBy = "createdAt"
     /\ query.status = AnyStatus)
    => known \subseteq seen
=============================================================================
