------------------------------ MODULE PageData ------------------------------
(***************************************************************************)
(* What a page of the dashboard shows.  Each useApi of a page keeps the    *)
(* last answer to its request, asks anew when its parameters change or a   *)
(* notification says so, and aborts the request before.  The parameters    *)
(* hang on the projects of the provider, which is a useApi itself, and on  *)
(* the projects the user has selected, kept in localStorage for each       *)
(* organization.                                                           *)
(***************************************************************************)
EXTENDS Integers, FiniteSets

CONSTANTS Orgs, Home,   \* the organizations of the user; the run is of Home
          ProjectsOf,   \* [Orgs -> their projects]
          RunProject, NoLink,
          Tests,        \* the tests of the run
          LastVersion,  \* the run has ended at its last version
          MaxActs,      \* bound: things the user does
          MaxRequests,  \* bound: requests of one useApi in flight
          MaxFailures   \* bound: requests that fail

PageDataAssumption ==
  /\ Home \in Orgs /\ RunProject \in ProjectsOf[Home] /\ LastVersion \in Nat
  /\ \A o \in Orgs : NoLink \notin ProjectsOf[o]
  /\ MaxActs \in Nat /\ MaxRequests \in Nat \ {0} /\ MaxFailures \in Nat

VARIABLES
  org,      \* the organization of the session
  stored,   \* localStorage: [Orgs -> the selection]
  selected, \* the selection of the provider; none is all
  view,     \* the page that is open
  link,     \* the parameter projectId of the URL, with which the page of errors is opened
  api,      \* [Hooks -> the state of the useApi]
  version,  \* of the run and its tests in the database
  note,     \* a notification of the run is on its way
  timer,    \* debouncedRefetch
  missed,   \* history: the page has ignored a notification since it asked last
  acts, failures

vars == <<org, stored, selected, view, link, api, version, note, timer, missed, acts, failures>>

Hooks   == {"projects", "main", "side", "drawer"} \* of the provider, and of the page
Views   == {"dashboard", "runs", "run", "errors", "comparison"}
NoKey   == <<"no request">>
NoData  == [key |-> NoKey, org |-> Home, version |-> 0]
NoAnswer == [key |-> NoKey, org |-> Home, version |-> -1]
Mounted == [key |-> NoKey, data |-> NoData, has |-> FALSE, loading |-> FALSE, error |-> FALSE,
            requests |-> {}]

-----------------------------------------------------------------------------
(* useApi *)

\* fetchData, in the organization o.
Fetch(h, o) ==
  IF h.key = NoKey THEN [h EXCEPT !.loading = FALSE]
  ELSE [h EXCEPT !.requests = {[r EXCEPT !.aborted = TRUE] : r \in @}
                               \cup {[key |-> h.key, org |-> o, aborted |-> FALSE,
                                      answer |-> NoAnswer]},
                 !.loading = @ \/ ~h.has, !.error = FALSE]

\* The effects that follow a change of the path or the parameters.
Rekey(h, key, o) ==
  IF key = h.key THEN h
  ELSE Fetch([h EXCEPT !.key = key, !.has = FALSE,
                       !.requests = {[r EXCEPT !.aborted = TRUE] : r \in @}], o)

ProjectsKnown(a) == IF a["projects"].data.key = NoKey THEN {} ELSE ProjectsOf[a["projects"].data.org]

\* isAllSelected and selectedProjectIds of the provider.
IsAllSelected(s, projects) == s = {} \/ Cardinality(s) = Cardinality(projects)
SelectedIds(s, projects)   == IF s \cap projects = {} THEN projects ELSE s \cap projects

\* The requests of the pages: what is selected, unless that is all.
DashboardKey(all, ids) == <<"dashboard", all, IF all THEN {} ELSE ids>>
RunsKey(all, ids)      == <<"runs", all, IF all THEN {} ELSE ids>>
ComparisonKey(all, ids) == <<"comparison", all, IF all THEN {} ELSE ids>>

\* The page of errors needs one project.
OneProject(all, ids) == IF ~all /\ Cardinality(ids) = 1 THEN ids ELSE {}

GroupsKey(project)   == IF project = {} THEN NoKey ELSE <<"groups", project>>
TimelineKey(project) == IF project = {} THEN NoKey ELSE <<"timeline", project>>

\* The requests of the page v with the selection s.
MainKey(v, s, projects) ==
  LET all == IsAllSelected(s, projects)
      ids == SelectedIds(s, projects)
  IN  CASE v = "run" -> <<"run">>
        [] v = "errors" -> GroupsKey(OneProject(all, ids))
        [] v = "runs" -> RunsKey(all, ids)
        [] v = "comparison" -> ComparisonKey(all, ids)
        [] OTHER -> DashboardKey(all, ids)

SideKey(v, s, projects) ==
  CASE v = "run" -> <<"tests">>
    [] v = "errors" ->
         TimelineKey(OneProject(IsAllSelected(s, projects), SelectedIds(s, projects)))
    [] OTHER -> NoKey

Rendered(a, v, s, o) ==
  [a EXCEPT !["main"] = Rekey(@, MainKey(v, s, ProjectsKnown(a)), o),
            !["side"] = Rekey(@, SideKey(v, s, ProjectsKnown(a)), o)]

\* A render of the page v in the organization o, with the selection s and the link l, which
\* selects its project as soon as the projects are known.
Render(a, v, s, l, o) ==
  LET follow == v = "errors" /\ l # NoLink /\ ProjectsKnown(a) # {}
      picked == IF follow /\ l \in ProjectsKnown(a) THEN {l} ELSE s
  IN  /\ selected' = picked
      /\ stored' = IF picked = {l} THEN [stored EXCEPT ![o] = picked] ELSE stored
      /\ link' = IF follow THEN NoLink ELSE l
      /\ api' = Rendered(Rendered(a, v, s, o), v, picked, o)

\* A page that is mounted knows nothing; the provider stays.
Fresh(a) == [a EXCEPT !["main"] = Mounted, !["side"] = Mounted, !["drawer"] = Mounted]

RoomFor(h) == Cardinality(api[h].requests) < MaxRequests
Act == acts < MaxActs /\ acts' = acts + 1 /\ \A h \in Hooks : RoomFor(h)

-----------------------------------------------------------------------------
(* The user *)

Open(v) ==
  /\ Act /\ v # view /\ (v = "run" => org = Home)
  /\ view' = v /\ timer' = FALSE /\ missed' = FALSE
  /\ Render(Fresh(api), v, selected, NoLink, org)
  /\ UNCHANGED <<org, version, note, failures>>

\* A test of the table of the run is shown in a drawer, or the drawer is closed.
Show(key) ==
  /\ Act /\ view = "run" /\ api["main"].data.key = <<"run">> /\ ~api["main"].error
  /\ api' = [api EXCEPT !["drawer"] = Rekey(@, key, org)]
  /\ UNCHANGED <<org, stored, selected, view, link, version, note, timer, missed, failures>>

ShowTest  == api["side"].data.key = <<"tests">> /\ \E t \in Tests : Show(<<"test", t>>)
HideTest  == api["drawer"].key # NoKey /\ Show(NoKey)

\* From the errors of a run.
OpenErrors ==
  /\ Act /\ view = "run" /\ api["main"].data.key = <<"run">>
  /\ view' = "errors" /\ timer' = FALSE /\ missed' = FALSE
  /\ Render(Fresh(api), "errors", selected, RunProject, org)
  /\ UNCHANGED <<org, version, note, failures>>

\* handleToggleProject and handleSelectAll of the header, setSelectedProjectIds.
Select(s) ==
  /\ Act /\ selected' = s /\ stored' = [stored EXCEPT ![org] = s]
  /\ api' = Rendered(api, view, s, org)
  /\ UNCHANGED <<org, view, link, version, note, timer, missed, failures>>

Toggled(p) ==
  LET projects == ProjectsKnown(api)
      ids      == SelectedIds(selected, projects)
      next     == IF p \in ids THEN ids \ {p} ELSE ids \cup {p}
  IN  IF p \notin ids /\ next = projects THEN {} ELSE next

SelectProject == view # "run" /\ \E p \in ProjectsKnown(api) : Select(Toggled(p))
SelectAll     == view # "run" /\ ProjectsKnown(api) # {} /\ Select({})

\* switchOrganization: the session, the selection from storage, and the dashboard.
SwitchOrganization(o) ==
  /\ Act /\ o # org /\ org' = o /\ view' = "dashboard"
  /\ timer' = FALSE /\ missed' = FALSE
  /\ Render(IF view = "dashboard" THEN api ELSE Fresh(api), "dashboard", stored[o], NoLink, o)
  /\ UNCHANGED <<version, note, failures>>

-----------------------------------------------------------------------------
(* The server and the answers *)

\* The worker commits; a notification follows the commit.
Change ==
  /\ version < LastVersion /\ version' = version + 1 /\ note' = TRUE
  /\ UNCHANGED <<org, stored, selected, view, link, api, timer, missed, acts, failures>>

Answers(h, r) ==
  /\ r.answer = NoAnswer
  /\ api' = [api EXCEPT ![h].requests =
       (@ \ {r}) \cup {[r EXCEPT !.answer = [key |-> r.key, org |-> r.org, version |-> version]]}]
  /\ UNCHANGED <<org, stored, selected, view, link, version, note, timer, missed, acts, failures>>

\* One row of the organization, with what belongs to it, read in one transaction.
ServeRun(h, r)  == r.key[1] = "run" /\ r.org = Home /\ Answers(h, r)
ServeTest(h, r) == r.key[1] = "test" /\ r.org = Home /\ Answers(h, r)

\* The lists and the analytics.
Serve(h, r) == r.key[1] \notin {"run", "test"} /\ Answers(h, r)

\* Mutant: nobody looks whether the request is aborted.
KeepAnswerOfAny(h, r) == [h EXCEPT !.requests = @ \ {r}, !.data = r.answer, !.has = TRUE,
                                   !.loading = FALSE]

KeepAnswer(h, r) ==
  IF r.aborted THEN [h EXCEPT !.requests = @ \ {r}]
  ELSE [h EXCEPT !.requests = @ \ {r}, !.data = r.answer, !.has = TRUE, !.loading = FALSE]

Deliver(h, r) ==
  /\ r.answer # NoAnswer
  /\ Render([api EXCEPT ![h] = KeepAnswer(@, r)], view, selected, link, org)
  /\ UNCHANGED <<org, view, version, note, timer, missed, acts, failures>>

Fail(h, r) ==
  /\ failures < MaxFailures /\ ~r.aborted /\ failures' = failures + 1
  /\ api' = [api EXCEPT ![h].requests = @ \ {r}, ![h].error = TRUE, ![h].loading = FALSE]
  /\ UNCHANGED <<org, stored, selected, view, link, version, note, timer, missed, acts>>

-----------------------------------------------------------------------------
(* Notifications *)

ShownActive == api["main"].data.key = <<"run">> /\ api["main"].data.version < LastVersion

\* handleSseEvent of the page; without a page that subscribes nobody hears it.
Hear ==
  /\ note /\ note' = FALSE
  /\ LET heard == view = "runs" \/ (view = "run" /\ ShownActive)
     IN  timer' = (timer \/ heard) /\ missed' = (missed \/ ~heard)
  /\ UNCHANGED <<org, stored, selected, view, link, api, version, acts, failures>>

\* debouncedRefetch: all requests of the page.
Refetch ==
  /\ timer /\ timer' = FALSE /\ missed' = FALSE /\ RoomFor("main") /\ RoomFor("side")
  /\ api' = [api EXCEPT !["main"] = Fetch(@, org), !["side"] = Fetch(@, org)]
  /\ UNCHANGED <<org, stored, selected, view, link, version, note, acts, failures>>

\* The URL with which the browser is opened names any page.
Init ==
  /\ org = Home /\ view \in Views /\ version = 0
  /\ stored \in {s \in [Orgs -> UNION {SUBSET ProjectsOf[o] : o \in Orgs}] :
                   \A o \in Orgs : s[o] \subseteq ProjectsOf[o]}
  /\ selected = stored[Home] /\ link = NoLink
  /\ api = Rendered([Fresh([h \in Hooks |-> Mounted])
                       EXCEPT !["projects"] = Rekey(@, <<"projects">>, Home)],
                    view, stored[Home], Home)
  /\ note = FALSE /\ timer = FALSE /\ missed = FALSE /\ acts = 0 /\ failures = 0

Next ==
  \/ \E v \in Views : Open(v)
  \/ ShowTest \/ HideTest \/ OpenErrors \/ SelectProject \/ SelectAll
  \/ \E o \in Orgs : SwitchOrganization(o)
  \/ \E h \in Hooks : \E r \in api[h].requests :
       ServeRun(h, r) \/ ServeTest(h, r) \/ Serve(h, r) \/ Deliver(h, r) \/ Fail(h, r)
  \/ Change \/ Hear \/ Refetch

Spec == Init /\ [][Next]_vars

-----------------------------------------------------------------------------
TypeOK ==
  /\ org \in Orgs /\ view \in Views /\ link \in {RunProject, NoLink} /\ version \in 0 .. LastVersion
  /\ stored \in [Orgs -> SUBSET UNION {ProjectsOf[o] : o \in Orgs}]
  /\ DOMAIN api = Hooks
  /\ \A h \in Hooks : /\ api[h].has \in BOOLEAN /\ api[h].loading \in BOOLEAN
                      /\ api[h].error \in BOOLEAN
                      /\ \A r \in api[h].requests : r.aborted \in BOOLEAN
  /\ note \in BOOLEAN /\ timer \in BOOLEAN /\ missed \in BOOLEAN /\ acts \in 0 .. MaxActs

Waiting(h) == \E r \in api[h].requests : ~r.aborted
Quiet(h)   == ~Waiting(h) /\ ~api[h].error

\* When nothing is in flight and nothing has failed, no page waits, and each shows the answer
\* to its last parameters, in whatever order the answers have come.
SettledShowsLast ==
  \A h \in Hooks : Quiet(h) => /\ ~api[h].loading
                               /\ api[h].key # NoKey => api[h].data.key = api[h].key

\* Once every notification is heard, the list of runs shows what the database has, and so does
\* the page of a run that it shows as active, its tests as its counts, unless a notification
\* has come before the first answer: that one the page ignores.
NotifiedPagesAreCurrent ==
  (~note /\ ~timer /\ Quiet("main") /\ Quiet("side")) =>
    /\ (view = "runs" /\ api["main"].data.org = Home) => api["main"].data.version = version
    /\ (view = "run" /\ ShownActive /\ ~missed) =>
         api["main"].data.version = version /\ api["side"].data.version = version

PagesSettle == SettledShowsLast /\ NotifiedPagesAreCurrent

\* "Error Explorer requires a single project. Select one project from the dropdown above."
\* (error-explorer-page.tsx:156): when one project of the organization is selected, the page
\* shows its errors.  It is not so when the organization has no other.
OneProjectShowsErrors ==
  (view = "errors" /\ Cardinality(selected) = 1 /\ selected \subseteq ProjectsKnown(api))
    => api["main"].key # NoKey
=============================================================================
