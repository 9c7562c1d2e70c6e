------------------------------ MODULE MCPages -------------------------------
(* What the dashboard shows, on small sets.                                   *)
EXTENDS Dashboard, TLC

CONSTANTS none, home, away, ann, s1, s2, p1, p2, q1, r1, r2, r3, top, x1, x2, x3, z1, z2, z3

\* A user of two organizations, with two projects and one; a run that ends while it is shown.
ProjectsOfBoth == home :> {p1, p2} @@ away :> {q1}

\* Two inputs, of which one does not follow the URL, and a button; three reports of ten
\* messages: an assertion that fails four times, a click that times out, two errors of the code.
Message(name, shape, matcher, expected, value, ansi) ==
  [name |-> name, form |-> shape, matcher |-> matcher, target |-> "h1", expected |-> expected,
   value |-> value, ansi |-> ansi]
TenMessages ==
  {Message("Error", "assertion", "toHaveText", "a", "id 1", TRUE),
   Message("Error", "assertion", "toHaveText", "a", "id 2", FALSE),
   Message("Error", "assertion", "toHaveText", "b", "id 2", FALSE),
   Message("none", "assertion", "toHaveText", "a", "id 2", FALSE),
   Message("TimeoutError", "timeout", "click", "none", "id 1", FALSE),
   Message("Error", "timeout", "click", "none", "id 1", FALSE),
   Message("TypeError", "other", "undefined", "none", "id 1", TRUE),
   Message("TypeError", "other", "undefined", "none", "id 2", FALSE),
   Message("TypeError", "other", "undefined", "none", "3", FALSE),
   Message("none", "other", "undefined", "none", "id 1", FALSE)}

\* Two groups of errors, two runs, one of them of a branch, and of two tests the second where
\* the page counts tests.
BranchOfOne == r1 :> "main" @@ r2 :> none

FilterOf(from, to, branch, categories, metric) ==
  [from |-> from, to |-> to, branch |-> branch, categories |-> categories, metric |-> metric]
OneTest == filter.metric = "occurrences" => \A o \in occurrences : o.test = x3
AllOf == {"none", "runtime", "assertion"}
FourFilters ==
  {FilterOf(0, 2, "main", AllOf, "occurrences"),
   FilterOf(none, none, "any branch", {"none", "runtime"}, "occurrences"),
   FilterOf(0, none, "any branch", AllOf, "uniqueTests"),
   FilterOf(none, 1, "any branch", {"assertion"}, "occurrences")}

\* Three runs of three projects, periods of a day of one of them and of two days of all.  The
\* third run ends where the page asks of all projects, the cleanup ends no run, and the backfill
\* is not between its two steps.
FewEnd ==
  (\A r \in EndedRuns : finished[r] # A!Running) =>
    /\ projectIds = {} /\ backfill.step # "insert"
    /\ \A r \in EndedRuns : finished[r].how # "cleaned"
ResultOf(tests, passed, flaky, skipped, ms) ==
  [tests |-> tests, passed |-> passed, flaky |-> flaky, skipped |-> skipped, ms |-> ms]
ThreeResults == r1 :> ResultOf(4, 1, 2, 0, 1) @@ r2 :> ResultOf(3, 0, 0, 3, 4)
                @@ r3 :> ResultOf(2, 1, 0, 0, 3)

\* An owner and a viewer of one organization, a token of a project of it, and a client that
\* claims to own another.
TwoBearers    == [user : {ann}, org : {home}, role : {"owner", "viewer"}]
OneToken      == [project : {p1}, org : {home}]
OwnerClaimed  == [user |-> ann, org |-> away, role |-> "owner", project |-> p1]
TwoClaims     == {NoHeaders, OwnerClaimed}

ASSUME DashboardAssumption

-----------------------------------------------------------------------------
pageVars == <<org, stored, selected, view, link, api, version, note, timer, missed, acts,
              failures>>
urlVars == <<url, past, rendered, text, inputTimer, debouncing, unseen, events>>
cardVars == <<post, known, requests, loading, heard, chosen, waiting, active, open,
              submitting, card, refused>>
registerVars == <<invitation, valid, check, inviteLoading, inviteData, form, error,
                  registering, registration, account, auth, lost>>
groupVars == <<groups, reports>>
dayVars == <<today, finished, live, daily, backfill, days, projectIds, totals, comparison,
             trend>>
errorVars == <<now, occurrences, category, kept, filter, list, timeline, detail, summary>>

\* A part that does not move has no state.
NoPage ==
  /\ org = none /\ stored = none /\ selected = none /\ view = none /\ link = none /\ api = none
  /\ version = none /\ note = none /\ timer = none /\ missed = none /\ acts = none
  /\ failures = none
NoUrl ==
  /\ url = none /\ past = none /\ rendered = none /\ text = none /\ inputTimer = none
  /\ debouncing = none /\ unseen = none /\ events = none
NoCard ==
  /\ post = none /\ known = none /\ requests = none /\ loading = none /\ heard = none
  /\ chosen = none /\ waiting = none /\ active = none /\ open = none /\ submitting = none
  /\ card = none /\ refused = none
NoRegister ==
  /\ invitation = none /\ valid = none /\ check = none /\ inviteLoading = none
  /\ inviteData = none /\ form = none /\ error = none /\ registering = none
  /\ registration = none /\ account = none /\ auth = none /\ lost = none
NoGroup ==
  /\ groups = none /\ reports = none
NoDay ==
  /\ today = none /\ finished = none /\ live = none /\ daily = none /\ backfill = none
  /\ days = none /\ projectIds = none /\ totals = none /\ comparison = none /\ trend = none
NoError ==
  /\ now = none /\ occurrences = none /\ category = none /\ kept = none /\ filter = none
  /\ list = none /\ timeline = none /\ detail = none /\ summary = none

MCInit ==
  /\ Init
  /\ \/ part = "gateway" /\ NoPage /\ NoUrl /\ NoCard /\ NoRegister /\ NoGroup /\ NoDay /\ NoError
     \/ part = "pages" /\ D!Init
        /\ NoUrl /\ NoCard /\ NoRegister /\ NoGroup /\ NoDay /\ NoError
     \/ part = "parameters" /\ U!Init
        /\ NoPage /\ NoCard /\ NoRegister /\ NoGroup /\ NoDay /\ NoError
     \/ part = "onboarding" /\ N!Init
        /\ NoPage /\ NoUrl /\ NoRegister /\ NoGroup /\ NoDay /\ NoError
     \/ part = "registration" /\ R!Init
        /\ NoPage /\ NoUrl /\ NoCard /\ NoGroup /\ NoDay /\ NoError
     \/ part = "fingerprints" /\ F!Init
        /\ NoPage /\ NoUrl /\ NoCard /\ NoRegister /\ NoDay /\ NoError
     \/ part = "analytics" /\ A!Init /\ (projectIds = {} <=> days = 2)
        /\ NoPage /\ NoUrl /\ NoCard /\ NoRegister /\ NoGroup /\ NoError
     \/ part = "errors" /\ E!Init
        /\ NoPage /\ NoUrl /\ NoCard /\ NoRegister /\ NoGroup /\ NoDay

MCNext ==
  /\ UNCHANGED part
  /\ \/ part = "gateway" /\ Next
        /\ UNCHANGED <<pageVars, urlVars, cardVars, registerVars, groupVars, dayVars, errorVars>>
     \/ /\ UNCHANGED vars
        /\ \/ part = "pages" /\ D!Next
              /\ UNCHANGED <<urlVars, cardVars, registerVars, groupVars, dayVars, errorVars>>
           \/ part = "parameters" /\ U!Next
              /\ UNCHANGED <<pageVars, cardVars, registerVars, groupVars, dayVars, errorVars>>
           \/ part = "onboarding" /\ N!Next
              /\ UNCHANGED <<pageVars, urlVars, registerVars, groupVars, dayVars, errorVars>>
           \/ part = "registration" /\ R!Next
              /\ UNCHANGED <<pageVars, urlVars, cardVars, groupVars, dayVars, errorVars>>
           \/ part = "fingerprints" /\ F!Next
              /\ UNCHANGED <<pageVars, urlVars, cardVars, registerVars, dayVars, errorVars>>
           \/ part = "analytics" /\ A!Next /\ FewEnd'
              /\ UNCHANGED <<pageVars, urlVars, cardVars, registerVars, groupVars, errorVars>>
           \/ part = "errors" /\ E!Next /\ OneTest'
              /\ UNCHANGED <<pageVars, urlVars, cardVars, registerVars, groupVars, dayVars>>

MCSpec == MCInit /\ [][MCNext]_<<vars, pageVars, urlVars, cardVars, registerVars, groupVars,
                                 dayVars, errorVars, part>>

\* The projects of the analytics and those of newcomers are alike, and so are the requests of the
\* gateway, and two tests, checks and groups.  No part has two of these kinds: what exchanges two
\* projects may exchange the others too, and a permutation of projects serves for all.
TheOthers == s1 :> s2 @@ s2 :> s1 @@ x1 :> x2 @@ x2 :> x1
Exchanges == {p \in Permutations(ProjectIds) : Cardinality({z \in ProjectIds : p[z] = z}) = 1}
Symmetric == {p @@ TheOthers : p \in Exchanges}
=============================================================================
