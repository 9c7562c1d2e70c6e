---------------------------- MODULE RegisterPage ----------------------------
(***************************************************************************)
(* The page that creates accounts, opened with a link that carries an      *)
(* invitation or without one.  With an invitation it waits for the API to  *)
(* say whether it is valid; meanwhile, and while the user fills the form,  *)
(* the invitation may be revoked, expire or be accepted elsewhere, and the *)
(* session that the tab had before may be restored.  What the API does     *)
(* with the request is in Membership.                                      *)
(***************************************************************************)
EXTENDS Naturals

CONSTANTS Checks,      \* requests to validate the invitation
          NoOne,
          MaxFailures  \* bound: requests that fail

RegisterPageAssumption == Checks # {} /\ NoOne \notin {"earlier", "new"} /\ MaxFailures \in Nat

VARIABLES
  link,          \* the invitation is in the URL; before it in the history; or there is none
  valid,         \* in the database: the invitation is pending and has not expired
  check,         \* [Checks -> how far it is]
  inviteLoading,
  inviteData,    \* what the page has heard of the invitation
  form,          \* what the user has filled in
  error, loading,
  post,          \* POST /v1/auth/register
  account,       \* of the last request: none, made, or made and told
  auth,          \* of AuthProvider: the user it shows, whose token it has, and whether
                 \* silentRefresh has yet to answer; history: a registration overtook it
  failures

vars == <<link, valid, check, inviteLoading, inviteData, form, error, loading, post, account,
          auth, failures>>

invitation == <<check, inviteLoading, inviteData>>
input      == <<form, error, loading>>

Forms    == [complete : BOOLEAN, organization : BOOLEAN] \* whether they are filled in
Posts    == [step : {"none", "sent", "created", "refused"}, invited : BOOLEAN]
Sessions == [user : {"earlier", "new", NoOne}, token : {"earlier", "new", NoOne},
             restoring : BOOLEAN, overtaken : BOOLEAN]

NoPost == [step |-> "none", invited |-> FALSE]

IsAuthenticated == auth.token # NoOne

\* What RegisterPage renders; without an invitation whoever is logged in goes on.
View ==
  CASE IsAuthenticated /\ link # "here" -> "dashboard"
    [] IsAuthenticated /\ link = "here" -> "logged in"
    [] ~IsAuthenticated /\ inviteLoading -> "validating"
    [] ~IsAuthenticated /\ ~inviteLoading /\ link = "here" /\ inviteData = "invalid" -> "invalid"
    [] OTHER -> "form"

Fault == failures < MaxFailures /\ failures' = failures + 1

-----------------------------------------------------------------------------
(* The invitation *)

\* The link of the view "invalid", which leaves the state of the page as it is.
RegisterWithout ==
  /\ View = "invalid" /\ link' = "before"
  /\ UNCHANGED <<valid, invitation, input, post, account, auth, failures>>

\* The browser goes back to the link, and the effect asks again.
Back(c) ==
  /\ link = "before" /\ ~IsAuthenticated /\ check[c] = "idle"
  /\ link' = "here" /\ check' = [check EXCEPT ![c] = "sent"]
  /\ UNCHANGED <<valid, inviteLoading, inviteData, input, post, account, auth, failures>>

ValidateToken(c) ==
  /\ check[c] = "sent"
  /\ check' = [check EXCEPT ![c] = IF valid THEN "valid" ELSE "invalid"]
  /\ UNCHANGED <<link, valid, inviteLoading, inviteData, input, post, account, auth, failures>>

Hear(c, data) ==
  /\ check' = [check EXCEPT ![c] = "idle"] /\ inviteData' = data /\ inviteLoading' = FALSE
  /\ UNCHANGED <<link, valid, input, post, account, auth>>

Validated(c)       == check[c] \in {"valid", "invalid"} /\ Hear(c, check[c]) /\ UNCHANGED failures
ValidationFails(c) == check[c] # "idle" /\ Fault /\ Hear(c, "invalid")

\* It is revoked, expires or admits somebody else.
InvitationEnds ==
  /\ valid /\ valid' = FALSE
  /\ UNCHANGED <<link, invitation, input, post, account, auth, failures>>

-----------------------------------------------------------------------------
(* The form *)

Fill(f) ==
  /\ View = "form" /\ ~loading /\ f # form /\ form' = f
  /\ UNCHANGED <<link, valid, invitation, error, loading, post, account, auth, failures>>

\* handleSubmit: the organization is asked for only without an invitation.
IsComplete == form.complete /\ (link = "here" \/ form.organization)

Submit ==
  /\ View = "form" /\ ~loading
  /\ IF IsComplete
     THEN /\ error' = FALSE /\ loading' = TRUE /\ account' = "none"
          /\ post' = [step |-> "sent", invited |-> link = "here"]
     ELSE error' = TRUE /\ UNCHANGED <<loading, post, account>>
  /\ UNCHANGED <<link, valid, invitation, form, auth, failures>>

\* AuthService.register and registerWithInvite.  The account is made before the token is
\* stored, which may fail.
Refuse ==
  /\ post.step = "sent" /\ post' = [post EXCEPT !.step = "refused"]
  /\ UNCHANGED <<link, valid, invitation, input, account, auth, failures>>

MakeAccount ==
  /\ post.step = "sent" /\ (post.invited => valid)
  /\ account' = "made" /\ valid' = (valid /\ ~post.invited)
  /\ \E s \in {"created", "refused"} : post' = [post EXCEPT !.step = s]
  /\ UNCHANGED <<link, invitation, input, auth, failures>>

Over(wrong) == post' = NoPost /\ loading' = FALSE /\ error' = wrong

\* handleAuthSuccess.
Registered ==
  /\ post.step = "created" /\ Over(error) /\ account' = "told"
  /\ auth' = [auth EXCEPT !.user = "new", !.token = "new", !.overtaken = auth.restoring]
  /\ UNCHANGED <<link, valid, invitation, form, failures>>

RegistrationFails ==
  /\ \/ post.step = "refused" /\ UNCHANGED failures
     \/ post.step \in {"sent", "created"} /\ Fault
  /\ Over(TRUE)
  /\ UNCHANGED <<link, valid, invitation, form, account, auth>>

-----------------------------------------------------------------------------
(* AuthProvider: silentRefresh, for a user the tab remembers *)

Restored ==
  /\ auth.restoring /\ auth' = [auth EXCEPT !.restoring = FALSE, !.token = "earlier"]
  /\ UNCHANGED <<link, valid, invitation, input, post, account, failures>>

NotRestored ==
  /\ auth.restoring /\ auth' = [auth EXCEPT !.restoring = FALSE, !.user = NoOne]
  /\ UNCHANGED <<link, valid, invitation, input, post, account, failures>>

Remembered(u) == [user |-> u, token |-> NoOne, restoring |-> u # NoOne, overtaken |-> FALSE]

Init ==
  /\ link \in {"here", "none"} /\ valid \in BOOLEAN
  /\ \E c \in Checks : check = [d \in Checks |-> IF d = c /\ link = "here" THEN "sent" ELSE "idle"]
  /\ inviteLoading = (link = "here") /\ inviteData = "unknown"
  /\ form = [complete |-> FALSE, organization |-> FALSE] /\ error = FALSE /\ loading = FALSE
  /\ post = NoPost /\ account = "none"
  /\ auth \in {Remembered(u) : u \in {"earlier", NoOne}} /\ failures = 0

Next ==
  \/ RegisterWithout \/ InvitationEnds
  \/ \E c \in Checks : Back(c) \/ ValidateToken(c) \/ Validated(c) \/ ValidationFails(c)
  \/ \E f \in Forms : Fill(f)
  \/ Submit \/ Refuse \/ MakeAccount \/ Registered \/ RegistrationFails
  \/ Restored \/ NotRestored

Spec == Init /\ [][Next]_vars

-----------------------------------------------------------------------------
TypeOK ==
  /\ link \in {"here", "before", "none"} /\ valid \in BOOLEAN
  /\ check \in [Checks -> {"idle", "sent", "valid", "invalid"}]
  /\ inviteLoading \in BOOLEAN /\ inviteData \in {"unknown", "valid", "invalid"}
  /\ form \in Forms /\ post \in Posts /\ auth \in Sessions
  /\ error \in BOOLEAN /\ loading \in BOOLEAN
  /\ account \in {"none", "made", "told"}
  /\ failures \in 0 .. MaxFailures

\* Nobody waits for nothing, and nobody registers twice at once: the page validates or
\* creates an account as long as a request of it is on its way.
WaitsForAnswers ==
  /\ inviteLoading => \E c \in Checks : check[c] # "idle"
  /\ loading <=> post.step # "none"

\* An invitation that the page calls invalid does not come back to life: it has ended, or a
\* request has failed.
InvalidHasEnded == inviteData = "invalid" /\ failures = 0 => ~valid

\* Whoever has an account made for him, and waits no more, is told: he is in, or sees an error.
MadeIsTold == account = "made" /\ ~loading => error

\* Requests are made in the name of the user that is shown; unless the registration has
\* overtaken the session of before, which then takes its place again.
TokenIsTheUsers == IsAuthenticated /\ ~auth.overtaken => auth.user = auth.token

RegistrationHolds == WaitsForAnswers /\ InvalidHasEnded /\ MadeIsTold /\ TokenIsTheUsers
=============================================================================
