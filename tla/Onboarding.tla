----------------------------- MODULE Onboarding -----------------------------
(***************************************************************************)
(* How an organization gets its first projects.  The dashboard shows a     *)
(* card that leads a newcomer to a project, a token and the configuration  *)
(* of the reporter, once the provider has found no project; a dialog       *)
(* creates projects.  Other members create projects meanwhile, and while   *)
(* the page waits for an answer neither card nor dialog is shown: what     *)
(* they know is lost, what they have asked for is not.  No run has come    *)
(* yet, the page stays open, and the organization is the same.             *)
(***************************************************************************)
EXTENDS Naturals, FiniteSets

CONSTANTS Projects,    \* that may come to be
          NoProject,
          MaxFailures  \* bound: requests that fail

OnboardingAssumption == NoProject \notin Projects /\ MaxFailures \in Nat

VARIABLES
  post,       \* [Projects -> how far its creation is]; "other": by another member
  known,      \* the projects of the provider
  requests,   \* of the provider for its projects, in flight
  loading,    \* of the provider
  heard,      \* hasDataRef of the provider
  selected,   \* the selection of the provider; none is all
  waiting,    \* the page waits for the first answer to its parameters
  active,     \* onboardingActive
  open,       \* createProjectOpen
  submitting, \* the project for whose creation the dialog waits
  card,       \* the token of OnboardingCard; as history, what was selected, and whether the
              \* provider waited for no answer, when the token was asked for
  failures

vars == <<post, known, requests, loading, heard, selected, waiting, active, open, submitting,
          card, failures>>

provider == <<known, requests, loading, heard, selected>>
page     == <<waiting, active, submitting, card>>

NoToken  == [step |-> "none", project |-> NoProject, selected |-> {}, settled |-> FALSE]
Existing == {p \in Projects : post[p] \in {"made", "told", "other"}}
Asked    == [aborted |-> FALSE, answered |-> FALSE, projects |-> {}]

\* isAllSelected and selectedProjectIds of the provider.
IsAllSelected == selected = {} \/ Cardinality(selected) = Cardinality(known)
SelectedIds   == IF selected \cap known = {} THEN known ELSE selected \cap known

\* The parameter projectIds of the requests of the page.
Parameters == IF IsAllSelected THEN {} ELSE SelectedIds

\* effectiveProjectId.
Effective == IF Cardinality(SelectedIds) = 1 THEN CHOOSE p \in SelectedIds : TRUE ELSE NoProject

\* What DashboardPage renders.
View == IF loading \/ waiting THEN "skeleton" ELSE IF active = "yes" THEN "card" ELSE "page"

\* currentStep of the card.
FirstStep  == View = "card" /\ known = {}
SecondStep == View = "card" /\ known # {} /\ card.step # "generated"
ThirdStep  == View = "card" /\ known # {} /\ card.step = "generated"

\* The effect on the projects k, which are loading or not, with onboardingActive a.
Activated(a, l, k) ==
  IF l THEN a ELSE IF k = {} THEN "yes" ELSE IF a = "unknown" THEN "no" ELSE a

\* A render after a change of the provider, of what the page waits for, and of the state of its
\* parts: a part that was not rendered before forgets its own.
Render(w, a, c, d) ==
  /\ waiting' = (w \/ Parameters' # Parameters) /\ active' = Activated(a, loading', known')
  /\ card' = IF View = "card" /\ View' = "card" THEN c ELSE NoToken
  /\ submitting' = IF View' = View THEN d ELSE NoProject

Fault   == failures < MaxFailures /\ failures' = failures + 1
Settled == \A r \in requests : r.aborted

-----------------------------------------------------------------------------
(* The dialog *)

OpenDialog ==
  /\ ~open /\ open' = TRUE /\ UNCHANGED <<post, provider, page, failures>>

\* "Create Project" of the card, and "New Project" of the page.
CreateFirstProject == FirstStep /\ OpenDialog
NewProject         == View = "page" /\ OpenDialog

CloseDialog ==
  /\ open /\ View # "skeleton" /\ open' = FALSE
  /\ UNCHANGED <<post, provider, page, failures>>

\* handleSubmit with a name that is not blank.
Submit(p) ==
  /\ open /\ View # "skeleton" /\ submitting = NoProject /\ post[p] = "none"
  /\ post' = [post EXCEPT ![p] = "sent"] /\ submitting' = p
  /\ UNCHANGED <<provider, waiting, active, card, open, failures>>

\* What the dialog waits for after the answer about p; it may be another dialog.
Without(p) == IF submitting = p THEN NoProject ELSE submitting

\* handleClose and onCreated: fetchData of the provider, and the project is the selection.
Created(p) ==
  /\ post[p] = "made" /\ post' = [post EXCEPT ![p] = "told"] /\ open' = FALSE
  /\ requests' = {[r EXCEPT !.aborted = TRUE] : r \in requests} \cup {Asked}
  /\ loading' = (loading \/ ~heard) /\ selected' = {p}
  /\ UNCHANGED <<known, heard, failures>>
  /\ Render(waiting, active, card, Without(p))

CreateFails(p) ==
  /\ Fault /\ post[p] = "sent" /\ post' = [post EXCEPT ![p] = "none"]
  /\ submitting' = Without(p)
  /\ UNCHANGED <<provider, waiting, active, card, open>>

-----------------------------------------------------------------------------
(* The card *)

\* handleGenerateToken, which without a project does nothing.
GenerateToken ==
  /\ SecondStep /\ ~open /\ card.step = "none" /\ Effective # NoProject
  /\ card' = [step |-> "generating", project |-> Effective, selected |-> selected,
              settled |-> Settled /\ failures = 0]
  /\ UNCHANGED <<post, provider, waiting, active, submitting, open, failures>>

TokenArrives ==
  /\ card.step = "generating" /\ card' = [card EXCEPT !.step = "generated"]
  /\ UNCHANGED <<post, provider, waiting, active, submitting, open, failures>>

TokenFails ==
  /\ Fault /\ card.step = "generating" /\ card' = NoToken
  /\ UNCHANGED <<post, provider, waiting, active, submitting, open>>

\* onComplete.
Complete ==
  /\ ThirdStep /\ ~open
  /\ UNCHANGED <<post, provider, open, failures>>
  /\ Render(waiting, "no", card, submitting)

-----------------------------------------------------------------------------
(* The header, the requests and the other members *)

\* handleToggleProject and handleSelectAll: see PageData.
Select(s) ==
  /\ View # "skeleton" /\ ~open /\ selected' = s /\ s # selected
  /\ UNCHANGED <<post, known, requests, loading, heard, open, failures>>
  /\ Render(waiting, active, card, submitting)

Toggled(p) ==
  LET next == IF p \in SelectedIds THEN SelectedIds \ {p} ELSE SelectedIds \cup {p}
  IN  IF p \notin SelectedIds /\ next = known THEN {} ELSE next

SelectProjects == known # {} /\ (Select({}) \/ \E p \in known : Select(Toggled(p)))

\* The query API inserts, and the query API lists.
Make(p) ==
  /\ \/ post[p] = "sent" /\ post' = [post EXCEPT ![p] = "made"]
     \/ post[p] = "none" /\ post' = [post EXCEPT ![p] = "other"]
  /\ UNCHANGED <<provider, page, open, failures>>

List(r) ==
  /\ ~r.answered
  /\ requests' = (requests \ {r}) \cup {[r EXCEPT !.answered = TRUE, !.projects = Existing]}
  /\ UNCHANGED <<post, known, loading, heard, selected, page, open, failures>>

Deliver(r) ==
  /\ r.answered /\ requests' = requests \ {r}
  /\ IF r.aborted THEN UNCHANGED <<known, loading, heard>>
     ELSE known' = r.projects /\ loading' = FALSE /\ heard' = TRUE
  /\ UNCHANGED <<post, selected, open, failures>>
  /\ Render(waiting, active, card, submitting)

Fail(r) ==
  /\ Fault /\ ~r.aborted /\ requests' = requests \ {r} /\ loading' = FALSE
  /\ UNCHANGED <<post, known, heard, selected, open>>
  /\ Render(waiting, active, card, submitting)

\* The runs and the summary of the page, or that they fail.
PageAnswers ==
  /\ waiting /\ waiting' = FALSE
  /\ UNCHANGED <<post, provider, active, card, submitting, open, failures>>

Init ==
  /\ post \in [Projects -> {"none", "other"}] /\ selected \in SUBSET Existing
  /\ known = {} /\ requests = {Asked} /\ loading = TRUE /\ heard = FALSE
  /\ waiting = TRUE /\ active = "unknown" /\ open = FALSE /\ submitting = NoProject
  /\ card = NoToken /\ failures = 0

Next ==
  \/ CreateFirstProject \/ NewProject \/ CloseDialog
  \/ GenerateToken \/ TokenArrives \/ TokenFails \/ Complete
  \/ \E p \in Projects : Submit(p) \/ Created(p) \/ CreateFails(p) \/ Make(p)
  \/ \E r \in requests : List(r) \/ Deliver(r) \/ Fail(r)
  \/ SelectProjects \/ PageAnswers

Spec == Init /\ [][Next]_vars

-----------------------------------------------------------------------------
TypeOK ==
  /\ post \in [Projects -> {"none", "sent", "made", "told", "other"}]
  /\ known \subseteq Existing /\ selected \subseteq Existing
  /\ \A r \in requests : r.projects \subseteq Existing
  /\ active \in {"unknown", "yes", "no"} /\ submitting \in Projects \cup {NoProject}
  /\ loading \in BOOLEAN /\ heard \in BOOLEAN /\ waiting \in BOOLEAN /\ open \in BOOLEAN
  /\ card.step \in {"none", "generating", "generated"} /\ failures \in 0 .. MaxFailures

\* Once the provider waits for no answer, it knows every project the user was told of, in
\* whatever order the answers have come.
CreatedAreKnown ==
  Settled /\ failures = 0 => \A p \in Projects : post[p] = "told" => p \in known

\* The token of the card is one of a project the user has selected, or of the only one: the
\* snippet he copies never sends his runs elsewhere.  While the provider waits for its projects
\* it may be: an unknown selection counts as all of the known projects.
TokenIsForTheSelected ==
  card.step # "none" /\ card.settled =>
    card.project \in card.selected \/ card.selected = {}

\* A newcomer who has created one project and touched nothing else is not stuck: the button of
\* the second step has a project to generate a token for.
SecondStepHasProject ==
  (SecondStep /\ Settled /\ failures = 0 /\ Cardinality(selected) = 1) => Effective # NoProject

OnboardingHolds == CreatedAreKnown /\ TokenIsForTheSelected /\ SecondStepHasProject
=============================================================================
