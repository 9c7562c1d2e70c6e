--------------------------- MODULE ErrorExplorer ----------------------------
(***************************************************************************)
(* The error explorer: what the worker stores of the errors of tests, and  *)
(* what the query API answers of it.  A page asks for the list of the      *)
(* groups of errors and for their timeline at the same time, each in a     *)
(* transaction of its own at READ COMMITTED, so that the worker commits    *)
(* between any two of their statements.                                    *)
(***************************************************************************)
EXTENDS Integers, FiniteSets, FiniteSetsExt

CONSTANTS Groups,     \* of errors with the same fingerprint
          Runs, TestNames,
          BranchOf,   \* [Runs -> the branch of the run, or NoBranch]
          NoBranch,
          NoDate,     \* a filter that leaves the bound of the range open
          MaxDays,    \* ERRORS_MAX_DAYS
          DefaultDays,
          TopN, PageSize,
          DetailTestsLimit, DetailBranchesLimit, \* DETAIL_AFFECTED_TESTS_LIMIT, DETAIL_BRANCHES_LIMIT
          Filters,    \* what a page may ask for
          MaxTime,    \* bound: the last moment, in the unit of MaxDays
          MaxStored   \* bound: errors that are stored

ErrorExplorerAssumption ==
  /\ IsFiniteSet(Runs) /\ IsFiniteSet(TestNames)
  /\ MaxDays \in Nat \ {0} /\ DefaultDays \in 1 .. MaxDays
  /\ TopN \in Nat \ {0} /\ PageSize \in Nat \ {0} /\ MaxTime \in Nat /\ MaxStored \in Nat
  /\ DetailTestsLimit \in Nat \ {0} /\ DetailBranchesLimit \in Nat \ {0}

VARIABLES
  now,
  occurrences, \* rows of error_occurrences, unique by run and test
  category,    \* [Groups -> error_category of the row, or "none"]
  stored,      \* how many errors the worker has stored
  filter,      \* what the page asks for
  list,        \* the answer of listErrorGroups as far as it is read
  timeline,    \* the same of getErrorTimeline
  detail,      \* the same of getErrorGroupDetail
  summary      \* the same of getRunErrorsSummary

vars == <<now, occurrences, category, stored, filter, list, timeline, detail, summary>>
answers == <<list, timeline, detail, summary>>

Times      == 0 .. MaxTime
Categories == {"none", "runtime", "assertion"}
Dates      == Times \cup {NoDate}
AnyBranch  == "any branch"
\* A request for one category, for "Other", or for all.
CategoryFilters == {{"assertion"}, {"none", "runtime"}, Categories}
Metrics    == {"occurrences", "uniqueTests"}
AllFilters == [from : Dates, to : Dates, branch : (Range(BranchOf) \ {NoBranch}) \cup {AnyBranch},
               categories : CategoryFilters, metric : Metrics]

NoAnswer == [step |-> "none"]

-----------------------------------------------------------------------------
(* The worker: test.end of a failed test *)

\* The upsert of the group prefers a category that says something.
Upgrade(g, c) ==
  IF c = "assertion" THEN c ELSE IF category[g] = "none" THEN c ELSE category[g]

StoreError(run, test, g, c, at) ==
  /\ stored < MaxStored
  /\ ~ \E o \in occurrences : o.run = run /\ o.test = test
  /\ occurrences' = occurrences \cup {[run |-> run, test |-> test, group |-> g, at |-> at]}
  /\ category' = [category EXCEPT ![g] = Upgrade(g, c)]
  /\ stored' = stored + 1
  /\ UNCHANGED <<now, filter, answers>>

-----------------------------------------------------------------------------
(* The statements *)

\* resolveDateRange.
Window(f) ==
  LET to        == IF f.to = NoDate THEN now ELSE f.to
      unclamped == IF f.from = NoDate THEN now - DefaultDays ELSE f.from
      from      == Max({unclamped, to - MaxDays})
  IN  [from |-> from, to |-> to, clamped |-> f.from # NoDate /\ from > unclamped]

\* dateFilter, and the branch of the filter: what says which occurrences count.
Occurring(w, branch) ==
  {o \in occurrences : /\ o.at >= w.from /\ o.at < w.to
                       /\ branch \in {AnyBranch, BranchOf[o.run]}}

\* buildFilters: what says which groups count.
Hit(f) == {g \in Groups : category[g] \in f.categories}

\* buildOccurrencesWhereClause.
Where(f, w) == {o \in Occurring(w, f.branch) : o.group \in Hit(f)}

OfGroup(os, g) == {o \in os : o.group = g}
GroupsIn(os)   == {o.group : o \in os}

\* getMetricExpression.
Metric(metric, os) ==
  Cardinality(IF metric = "uniqueTests" THEN {o.test : o \in os} ELSE os)

\* ORDER BY score DESC LIMIT n: the sets that may come of it, for equals come in any order.
Highest(n, score) ==
  {T \in SUBSET DOMAIN score :
    /\ Cardinality(T) = Min({n, Cardinality(DOMAIN score)})
    /\ \A x \in T, y \in DOMAIN score \ T : score[x] >= score[y]}

Top(groups, n, os, metric) == Highest(n, [g \in groups |-> Metric(metric, OfGroup(os, g))])

CountsOf(groups, os) == [g \in groups |-> Cardinality(OfGroup(os, g))]

\* Both requests of the page leave with the same parameters.
Open ==
  /\ list.step = "none" /\ summary.step = "none"
  /\ list' = [step |-> "rows", window |-> Window(filter)]
  /\ timeline' = [step |-> "rank", window |-> Window(filter)]
  /\ UNCHANGED <<now, occurrences, category, stored, filter, detail, summary>>

\* listErrorGroups: a page of rows, then their number.
ListRows ==
  /\ list.step = "rows"
  /\ LET os == Where(filter, list.window)
     IN  \E T \in Top(GroupsIn(os), PageSize, os, "occurrences") :
           list' = [step |-> "count", window |-> list.window, rows |-> CountsOf(T, os),
                    since |-> stored]
  /\ UNCHANGED <<now, occurrences, category, stored, filter, timeline, detail, summary>>

ListCount ==
  /\ list.step = "count"
  /\ list' = [step |-> "done", window |-> list.window, rows |-> list.rows,
              since |-> list.since, until |-> stored,
              total |-> Cardinality(GroupsIn(Where(filter, list.window)))]
  /\ UNCHANGED <<now, occurrences, category, stored, filter, timeline, detail, summary>>

\* getErrorTimeline: the groups that rank highest, then the points of their series.
Rank ==
  /\ timeline.step = "rank"
  /\ LET os == Where(filter, timeline.window)
     IN  \E T \in Top(GroupsIn(os), TopN, os, filter.metric) :
           timeline' = [step |-> IF T = {} THEN "done" ELSE "series",
                        window |-> timeline.window, ranked |-> T, series |-> CountsOf({}, os),
                        since |-> stored, until |-> stored]
  /\ UNCHANGED <<now, occurrences, category, stored, filter, list, detail, summary>>

\* Mutant: the second statement leaves out the branch too.
SeriesOfAllBranches ==
  LET os == Occurring(timeline.window, AnyBranch)
  IN  CountsOf(timeline.ranked \cap GroupsIn(os), os)

\* The second statement leaves out what says which groups count.  The sum of the points of a
\* series stands for them.
Series ==
  LET os == Occurring(timeline.window, filter.branch)
  IN  CountsOf(timeline.ranked \cap GroupsIn(os), os)

AssembleSeries ==
  /\ timeline.step = "series"
  /\ timeline' = [timeline EXCEPT !.step = "done", !.series = Series, !.until = stored]
  /\ UNCHANGED <<now, occurrences, category, stored, filter, list, detail, summary>>

\* getErrorGroupDetail: the tests of a group, then its branches, of every branch and category,
\* and of either those with the most errors.
DetailErrors(w, g) == OfGroup(Occurring(w, AnyBranch), g)

ByTest(os)   == [t \in {o.test : o \in os} |-> Cardinality({o \in os : o.test = t})]
ByBranch(os) == [b \in {BranchOf[o.run] : o \in os} |->
                  Cardinality({o \in os : BranchOf[o.run] = b})]

\* The numbers of the tests that are listed are told by their sum, and whether these are all.
DetailTests(g) ==
  /\ list.step = "done" /\ g \in DOMAIN list.rows /\ detail.step = "none"
  /\ LET os == DetailErrors(Window(filter), g)
     IN  \E T \in Highest(DetailTestsLimit, ByTest(os)) :
           detail' = [step |-> "branches", group |-> g, window |-> Window(filter),
                      listed |-> IF Window(filter) = list.window THEN list.rows[g] ELSE 0,
                      tests |-> Cardinality({o \in os : o.test \in T}),
                      allTests |-> T = DOMAIN ByTest(os)]
  /\ UNCHANGED <<now, occurrences, category, stored, filter, list, timeline, summary>>

DetailBranches ==
  /\ detail.step = "branches"
  /\ LET os == DetailErrors(detail.window, detail.group)
     IN  \E B \in Highest(DetailBranchesLimit, ByBranch(os)) :
           detail' = [step |-> "done", group |-> detail.group, listed |-> detail.listed,
                      tests |-> detail.tests, allTests |-> detail.allTests,
                      branches |-> Cardinality({o \in os : BranchOf[o.run] \in B}),
                      allBranches |-> B = DOMAIN ByBranch(os)]
  /\ UNCHANGED <<now, occurrences, category, stored, filter, list, timeline, summary>>

\* getRunErrorsSummary: the top groups of a run, then the numbers.
SummaryTop(run) ==
  /\ list.step = "none" /\ summary.step = "none"
  /\ LET os == {o \in occurrences : o.run = run}
     IN  \E T \in Top(GroupsIn(os), 5, os, "occurrences") :
           summary' = [step |-> "count", run |-> run, top |-> CountsOf(T, os)]
  /\ UNCHANGED <<now, occurrences, category, stored, filter, list, timeline, detail>>

SummaryCounts ==
  /\ summary.step = "count"
  /\ LET os == {o \in occurrences : o.run = summary.run}
     IN  summary' = [step |-> "done", top |-> summary.top,
                     groups |-> Cardinality(GroupsIn(os)), failed |-> Cardinality(os)]
  /\ UNCHANGED <<now, occurrences, category, stored, filter, list, timeline, detail>>

Tick == now < MaxTime /\ now' = now + 1
        /\ UNCHANGED <<occurrences, category, stored, filter, answers>>

Init ==
  /\ now = 0 /\ occurrences = {} /\ stored = 0
  /\ category = [g \in Groups |-> "none"]
  /\ filter \in Filters
  /\ list = NoAnswer /\ timeline = NoAnswer /\ detail = NoAnswer /\ summary = NoAnswer

Next ==
  \/ \E r \in Runs, t \in TestNames, g \in Groups, c \in Categories, at \in 0 .. now :
       StoreError(r, t, g, c, at)
  \/ Open
  \/ ListRows \/ ListCount \/ Rank \/ AssembleSeries
  \/ \E g \in Groups : DetailTests(g)
  \/ DetailBranches
  \/ \E r \in Runs : SummaryTop(r)
  \/ SummaryCounts
  \/ Tick

Spec == Init /\ [][Next]_vars

-----------------------------------------------------------------------------
TypeOK ==
  /\ now \in Times /\ stored \in 0 .. Cardinality(Runs) * Cardinality(TestNames)
  /\ occurrences \subseteq [run : Runs, test : TestNames, group : Groups, at : Times]
  /\ category \in [Groups -> Categories]
  /\ filter \in Filters
  /\ list.step \in {"none", "rows", "count", "done"}
  /\ timeline.step \in {"none", "rank", "series", "done"}
  /\ detail.step \in {"none", "branches", "done"} /\ summary.step \in {"none", "count", "done"}

SameWindow == list.window.from = timeline.window.from /\ list.window.to = timeline.window.to

\* The timeline and the list count the same errors: the later of the two misses none the
\* earlier has, and with nothing stored between, the timeline has the groups that rank
\* highest, each with the number of the list.  The second statement of the timeline leaves
\* out the filters of the groups and may, for the first one has applied them.
TimelineTellsTheList ==
  (list.step = "done" /\ timeline.step = "done" /\ SameWindow) =>
    /\ \A g \in DOMAIN list.rows \cap DOMAIN timeline.series :
         /\ list.since <= timeline.until => list.rows[g] <= timeline.series[g]
         /\ timeline.until <= list.since => timeline.series[g] <= list.rows[g]
    /\ (list.since = timeline.until /\ timeline.since = timeline.until
         /\ filter.metric = "occurrences" /\ list.total <= PageSize /\ list.until = list.since) =>
         /\ DOMAIN timeline.series \subseteq DOMAIN list.rows
         /\ Cardinality(DOMAIN timeline.series) = Min({TopN, list.total})
         /\ \A g \in DOMAIN timeline.series, h \in DOMAIN list.rows \ DOMAIN timeline.series :
              list.rows[g] >= list.rows[h]

\* A group that ranks has a series, the number of all groups is at least that of the rows
\* of its page as long as no group changes its category, and what is behind a row of the list
\* is at least what the row says, unless a limit of the page of the group cuts it off.
StatementsFollow ==
  /\ timeline.step = "done" => DOMAIN timeline.series = timeline.ranked
  /\ (list.step = "done" /\ filter.categories = Categories)
       => list.total >= Cardinality(DOMAIN list.rows)
  /\ detail.step = "done" =>
       /\ detail.allTests => detail.listed <= detail.tests
       /\ detail.allBranches => detail.listed <= detail.branches /\ detail.tests <= detail.branches
  /\ summary.step = "done" => /\ Cardinality(DOMAIN summary.top) <= summary.groups
                              /\ summary.groups <= summary.failed

ExplorerHolds == TimelineTellsTheList /\ StatementsFollow
=============================================================================
