----------------------------- MODULE Dashboard ------------------------------
(***************************************************************************)
(* What the dashboard shows: the requests of a page, its search parameters *)
(* and the card for newcomers, the page that creates accounts, the errors  *)
(* and analytics of the query API with the fingerprints of errors, and the *)
(* gateway, which all of it goes through.  The eight share no state: a     *)
(* behaviour is one of them.                                               *)
(***************************************************************************)
EXTENDS Gateway

CONSTANTS MaxFailures,                                              \* of a page's requests
          Home, ProjectsOf, RunProject, NoLink, Tests, LastVersion, MaxActs, MaxRequests,
          Inputs, Following, Buttons, Values, Empty, LastPage, MaxEvents,   \* SearchParams
          ProjectIds, NoProject,                                    \* Onboarding, Analytics
          Checks, NoOne,                                            \* RegisterPage
          Messages, NoText, Varying, MaxReports,                    \* Fingerprints
          EndedRuns, Results, Days, MaxDays, LastDay,               \* Analytics
          Groups, Runs, TestNames, BranchOf, NoBranch, NoDate, DefaultDays, TopN, PageSize,
          DetailTestsLimit, DetailBranchesLimit,
          ErrorFilters, MaxTime, MaxStored                            \* ErrorExplorer

VARIABLES org, stored, selected, view, link, api, version, note, timer, missed, acts, failures,
          url, past, rendered, text, inputTimer, debouncing, unseen, events,
          post, known, requests, loading, heard, chosen, waiting, active, open, submitting,
          card, refused,
          invitation, valid, check, inviteLoading, inviteData, form, error, registering,
          registration, account, auth, lost,
          groups, reports,
          today, finished, live, daily, backfill, days, projectIds, totals, comparison, trend,
          now, occurrences, category, kept, filter, list, timeline, detail, summary,
          part \* which of the eight

D == INSTANCE PageData
U == INSTANCE SearchParams WITH timer <- inputTimer
N == INSTANCE Onboarding WITH Projects <- ProjectIds, selected <- chosen, failures <- refused
R == INSTANCE RegisterPage WITH link <- invitation, loading <- registering,
                                post <- registration, failures <- lost
F == INSTANCE Fingerprints
A == INSTANCE Analytics WITH Runs <- EndedRuns, Projects <- ProjectIds, summary <- totals
E == INSTANCE ErrorExplorer WITH Filters <- ErrorFilters, stored <- kept

DashboardAssumption ==
  /\ GatewayAssumption /\ D!PageDataAssumption /\ U!SearchParamsAssumption
  /\ N!OnboardingAssumption /\ R!RegisterPageAssumption /\ F!FingerprintsAssumption
  /\ A!AnalyticsAssumption /\ E!ErrorExplorerAssumption

DashboardSpec ==
  /\ [][FALSE]_part
  /\ \/ part = "gateway" /\ Spec
     \/ part = "pages" /\ D!Spec
     \/ part = "parameters" /\ U!Spec
     \/ part = "onboarding" /\ N!Spec
     \/ part = "registration" /\ R!Spec
     \/ part = "fingerprints" /\ F!Spec
     \/ part = "analytics" /\ A!Spec
     \/ part = "errors" /\ E!Spec

-----------------------------------------------------------------------------
Typed ==
  /\ part = "gateway" => TypeOK
  /\ part = "pages" => D!TypeOK
  /\ part = "parameters" => U!TypeOK
  /\ part = "onboarding" => N!TypeOK
  /\ part = "registration" => R!TypeOK
  /\ part = "fingerprints" => F!TypeOK
  /\ part = "analytics" => A!TypeOK
  /\ part = "errors" => E!TypeOK

\* What a page shows is what it asks for, by PageData, what it asks for is what its inputs
\* say, by SearchParams, the card for newcomers speaks of their project, by Onboarding, and
\* whoever has an account is told, by RegisterPage.
PagesShowWhatIsAsked ==
  /\ part = "pages" => D!PagesSettle
  /\ part = "parameters" => U!ParametersAgree
  /\ part = "onboarding" => N!OnboardingHolds
  /\ part = "registration" => R!RegistrationHolds

\* See Analytics.
AnalyticsAddUp == part = "analytics" => A!AnalyticsAddUp

\* What is grouped and counted as one error, by Fingerprints and ErrorExplorer.
ExplorerHolds ==
  /\ part = "fingerprints" => F!FingerprintsHold
  /\ part = "errors" => E!ExplorerHolds
=============================================================================
