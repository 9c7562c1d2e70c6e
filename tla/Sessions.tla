------------------------------ MODULE Sessions ------------------------------
(***************************************************************************)
(* The sessions of one user in one browser.  Every tab runs the dashboard  *)
(* with an access token in memory; all share the cookie with the refresh   *)
(* token.  A request refused with 401 refreshes the tokens, once for all   *)
(* the requests of its tab that wait for it, and is sent again, once.  The *)
(* API rotates: a refresh revokes the token it was given and stores a      *)
(* successor, in a transaction that comes after the token was read.        *)
(*                                                                         *)
(* Requests carry the cookie of the moment they are sent; the cookie an    *)
(* answer sets is the browser's when the answer arrives.  A request that   *)
(* is lost was served before or is never served.                           *)
(***************************************************************************)
EXTENDS Integers, FiniteSets

CONSTANTS Tabs, Slots, Orgs,
          Kinds,      \* the requests that are made, see Send
          NoOrg,      \* the page knows no user
          Silent,     \* names the refresh that restores a session on load
          MaxTokens,  \* bound: rows of refresh tokens; one that is not live and that nobody
                      \* can present any more is taken again
          MaxActive,  \* bound: requests of a browser at the same time
          MaxExcuses  \* bound: losses, expiries, logouts, ...; after them nothing new begins

NoPromise == "none" \* of refreshPromise: nobody refreshes

SessionsAssumption ==
  /\ IsFiniteSet(Tabs) /\ IsFiniteSet(Slots) /\ NoPromise \notin Slots
  /\ NoOrg \notin Orgs /\ Silent \notin Slots
  /\ Kinds \subseteq {"get", "switch", "login", "badLogin", "password", "badPassword"}
  /\ MaxTokens \in Nat \ {0} /\ MaxActive \in Nat \ {0} /\ MaxExcuses \in Nat \ {0}

VARIABLES
  live,     \* refresh_tokens: the rows that are neither revoked nor expired
  cookie,   \* the browser's refresh token
  user,     \* [Tabs -> organization the page shows, NoOrg without a user]
  token,    \* [Tabs -> the access token in memory]
  starting, \* tabs whose silentRefresh on load has not returned: `initializing'
  promise,  \* [Tabs -> slot whose refresh all wait for, or NoPromise]: refreshPromise
  req,      \* [Tabs \X Slots -> request]
  refresh,  \* [Tabs \X Refreshers -> POST /v1/auth/refresh]
  logouts,  \* POST /v1/auth/logout under way
  ended,    \* history: [Tabs -> how the last session of the tab ended]
  excuses,  \* history: how often something has happened that may end a session
  left      \* history: a login has replaced a cookie

vars == <<live, cookie, user, token, starting, promise, req, refresh, logouts, ended, excuses,
          left>>

Tokens == 1 .. MaxTokens
NoToken == 0
Refreshers == Slots \cup {Silent}
Requests == Tabs \X Slots
NoAccess == [org |-> NoOrg, age |-> "none"]
IdleRequest == [kind |-> "none", step |-> "idle", bearer |-> "none",
                cookie |-> NoToken, new |-> NoToken, org |-> NoOrg]
IdleRefresh == [step |-> "idle", cookie |-> NoToken, new |-> NoToken]

TypeOK ==
  /\ live \subseteq Tokens
  /\ cookie \in Tokens \cup {NoToken}
  /\ user \in [Tabs -> Orgs \cup {NoOrg}]
  /\ token \in [Tabs -> [org : Orgs, age : {"fresh", "stale"}] \cup {NoAccess}]
  /\ starting \subseteq Tabs
  /\ promise \in [Tabs -> Slots \cup {NoPromise}]
  /\ req \in [Requests -> [kind : Kinds \cup {"none"},
                           step : {"idle", "sent", "waiting", "resent", "served"},
                           bearer : {"none", "fresh", "stale"},
                           cookie : Tokens \cup {NoToken}, new : Tokens \cup {NoToken},
                           org : Orgs \cup {NoOrg}]]
  /\ refresh \in [Tabs \X Refreshers -> [step : {"idle", "sent", "read", "rotated"},
                                         cookie : Tokens \cup {NoToken},
                                         new : Tokens \cup {NoToken}]]
  /\ logouts \subseteq [cookie : Tokens \cup {NoToken}, served : BOOLEAN]
  /\ ended \in [Tabs -> {"by user", "forced", "refused"}]
  /\ excuses \in Nat /\ left \in BOOLEAN

Init ==
  /\ live = {}
  /\ cookie = NoToken
  /\ user = [t \in Tabs |-> NoOrg]
  /\ token = [t \in Tabs |-> NoAccess]
  /\ starting = {}
  /\ promise = [t \in Tabs |-> NoPromise]
  /\ req = [r \in Requests |-> IdleRequest]
  /\ refresh = [f \in Tabs \X Refreshers |-> IdleRefresh]
  /\ logouts = {}
  /\ ended = [t \in Tabs |-> "by user"]
  /\ excuses = 0 /\ left = FALSE

-----------------------------------------------------------------------------
(* refresh_tokens *)

\* revoke_refresh_token: nothing happens to a token that is unknown or revoked already.
Revoked(n) == live \ {n}

Presentable ==
  {cookie} \cup {req[r].cookie : r \in Requests} \cup {l.cookie : l \in logouts}
           \cup {refresh[f].cookie : f \in Tabs \X Refreshers}
           \cup {req[r].new : r \in Requests} \cup {refresh[f].new : f \in Tabs \X Refreshers}

Free == Tokens \ (live \cup Presentable)

\* The random token a call generates.
IsNew(n) == n \in Free /\ \A m \in Free : n <= m

-----------------------------------------------------------------------------
(* What may end a session: requests that rotate the token at the same time, except two
   refreshes of one tab, which the tab is to share. *)

RotatingRequests == {r \in Requests : /\ req[r].kind \in {"switch", "login", "password"}
                                      /\ req[r].step \in {"sent", "resent", "served"}}
Refreshing == {f \in Tabs \X Refreshers : refresh[f].step # "idle"}

Overlap ==
  \/ Cardinality(RotatingRequests) + Cardinality(logouts) > 1
  \/ RotatingRequests # {} /\ logouts # {}
  \/ Refreshing # {} /\ (RotatingRequests # {} \/ logouts # {})
  \/ \E f, g \in Refreshing : f[1] # g[1]

\* Counts the step if it is such a thing, and the first overlap.
Watch(excuse) ==
  excuses' = IF (excuse /\ excuses < MaxExcuses) \/ (excuses = 0 /\ Overlap')
             THEN excuses + 1 ELSE excuses

\* The bound on them: then nothing new begins, and a request fails only if no row is free.
May == excuses < MaxExcuses
MayFail == May \/ Free = {}

-----------------------------------------------------------------------------
(* ApiClient *)

Bearer(t) == token[t].age

\* The refresh token goes along with each; only a switch uses it.
Carried(k, n) == IF k = "switch" THEN n ELSE NoToken

Send(t, s, k, o) ==
  LET r == <<t, s>>
  IN  /\ req[r].step = "idle"
      /\ Cardinality({q \in Requests : req[q].step # "idle"}) < MaxActive
      /\ k = "get" \/ \A q \in Slots : req[<<t, q>>].kind # k
      /\ (k \in {"login", "badLogin"}) <=> (token[t] = NoAccess)
      /\ IF k = "switch" THEN o \in Orgs \ {user[t]} ELSE o = NoOrg
      /\ req' = [req EXCEPT ![r] = [kind |-> k, step |-> "sent", bearer |-> Bearer(t),
                                    cookie |-> Carried(k, cookie),
                                    new |-> NoToken, org |-> o]]
      /\ UNCHANGED <<live, cookie, user, token, starting, promise, refresh, logouts, ended, left>>

Waiting(t) == {s \in Slots : req[<<t, s>>].step = "waiting"}

Finish(t, S) == [r \in Requests |-> IF r[1] = t /\ r[2] \in S THEN IdleRequest ELSE req[r]]

\* handleUnauthorized, then logout(): the POST takes the cookie of the moment with it.
ForceOut(t, S, why) ==
  /\ req' = Finish(t, S)
  /\ logouts' = logouts \cup {[cookie |-> cookie, served |-> FALSE]}
  /\ user' = [user EXCEPT ![t] = NoOrg]
  /\ token' = [token EXCEPT ![t] = NoAccess]
  /\ ended' = [ended EXCEPT ![t] = IF user[t] = NoOrg THEN @ ELSE why]

\* Mutant: every refused request refreshes on its own.
OwnRefresh(t, s) ==
  /\ promise' = [promise EXCEPT ![t] = s]
  /\ refresh' = [refresh EXCEPT ![<<t, s>>] = [step |-> "sent", cookie |-> cookie, new |-> NoToken]]

\* tryRefresh: joins the refresh of the tab if there is one.
TryRefresh(t, s) ==
  IF promise[t] # NoPromise
  THEN UNCHANGED <<promise, refresh>>
  ELSE /\ promise' = [promise EXCEPT ![t] = s]
       /\ refresh' = [refresh EXCEPT ![<<t, s>>] =
                        [step |-> "sent", cookie |-> cookie, new |-> NoToken]]

\* authenticatedFetch with a 401: refresh and wait, or, the second time, give up.
Refused(t, s) ==
  LET r == <<t, s>>
      bad == req[r].kind \in {"badLogin", "badPassword"}
  IN  \/ /\ req[r].step = "sent"
         /\ req' = [req EXCEPT ![r] = [@ EXCEPT !.step = "waiting", !.bearer = "none",
                                                !.cookie = NoToken]]
         /\ TryRefresh(t, s)
         /\ UNCHANGED <<live, cookie, user, token, starting, logouts, ended, left>>
      \/ /\ req[r].step = "resent"
         /\ ForceOut(t, {s}, IF bad THEN "refused" ELSE "forced")
         /\ UNCHANGED <<live, cookie, starting, promise, refresh, left>>

-----------------------------------------------------------------------------
(* AuthController and AuthService; the answers *)

\* A request the API answers without changing anything: 200, or 401.
Answer(t, s) ==
  LET q == req[<<t, s>>]
  IN  /\ q.step \in {"sent", "resent"}
      /\ \/ /\ q.kind = "get" /\ q.bearer = "fresh"
            /\ req' = Finish(t, {s})
            /\ UNCHANGED <<live, cookie, user, token, starting, promise, refresh, logouts, ended, left>>
         \/ /\ \/ q.kind \in {"get", "switch", "password"} /\ q.bearer # "fresh"
               \/ q.kind \in {"badLogin", "badPassword"}
            /\ Refused(t, s)

Served(t, s, n, rows, o) ==
  /\ live' = rows
  /\ req' = [req EXCEPT ![<<t, s>>] = [@ EXCEPT !.step = "served", !.bearer = "none",
                                                !.cookie = NoToken, !.new = n, !.org = o]]
  /\ UNCHANGED <<cookie, user, token, starting, promise, refresh, logouts, ended, left>>

\* get_user_organizations has no order: the first may be any.
ServeLogin(t, s) ==
  LET q == req[<<t, s>>]
  IN  /\ q.step \in {"sent", "resent"} /\ q.kind = "login"
      /\ \E n \in Tokens, o \in Orgs : IsNew(n) /\ Served(t, s, n, live \cup {n}, o)

\* Revoke and store, in one transaction.
ServeSwitch(t, s) ==
  LET q == req[<<t, s>>]
  IN  /\ q.step \in {"sent", "resent"} /\ q.kind = "switch" /\ q.bearer = "fresh"
      /\ \E n \in Tokens : /\ IsNew(n)
                           /\ Served(t, s, n, Revoked(q.cookie) \cup {n}, q.org)

ChangePassword(t, s) ==
  LET q == req[<<t, s>>]
  IN  /\ q.step \in {"sent", "resent"} /\ q.kind = "password" /\ q.bearer = "fresh"
      /\ Served(t, s, NoToken, {}, NoOrg)

LogoutPost == logouts' = logouts \cup {[cookie |-> cookie', served |-> FALSE]}

Arrives(t, s) ==
  LET q == req[<<t, s>>]
  IN  /\ q.step = "served"
      /\ req' = Finish(t, {s})
      /\ cookie' = q.new
      /\ user' = [user EXCEPT ![t] = q.org]
      /\ ended' = [ended EXCEPT ![t] = "by user"]
      /\ UNCHANGED <<live, starting, promise, refresh>>

\* handleAuthSuccess
Arrive(t, s) ==
  LET q == req[<<t, s>>]
  IN  /\ q.kind \in {"login", "switch"}
      /\ Arrives(t, s)
      /\ token' = [token EXCEPT ![t] = [org |-> q.org, age |-> "fresh"]]
      /\ left' = (left \/ (q.kind = "login" /\ cookie # NoToken))
      /\ UNCHANGED logouts

\* The answer to a change of the password clears the cookie; then the page logs out.
ArriveChanged(t, s) ==
  /\ req[<<t, s>>].kind = "password"
  /\ Arrives(t, s)
  /\ token' = [token EXCEPT ![t] = NoAccess]
  /\ LogoutPost
  /\ UNCHANGED left

\* The network or the server fails: the page shows an error.
Lose(t, s) ==
  /\ req[<<t, s>>].step \in {"sent", "resent", "served"}
  /\ req' = Finish(t, {s})
  /\ UNCHANGED <<live, cookie, user, token, starting, promise, refresh, logouts, ended, left>>

-----------------------------------------------------------------------------
(* POST /v1/auth/refresh *)

\* The refresh of x has failed.  On load the page forgets the user; otherwise every
\* waiting request logs the tab out.
Fails(t, x) ==
  /\ refresh' = [refresh EXCEPT ![<<t, x>>] = IdleRefresh]
  /\ \/ /\ x = Silent
        /\ user' = [user EXCEPT ![t] = NoOrg]
        /\ starting' = starting \ {t}
        /\ ended' = [ended EXCEPT ![t] = IF user[t] = NoOrg THEN @ ELSE "forced"]
        /\ UNCHANGED <<token, promise, req, logouts>>
     \/ /\ x # Silent
        /\ promise' = [promise EXCEPT ![t] = NoPromise]
        /\ ForceOut(t, Waiting(t),
             IF \E s \in Waiting(t) : req[<<t, s>>].kind \in {"badLogin", "badPassword"}
             THEN "refused" ELSE "forced")
        /\ UNCHANGED starting
  /\ UNCHANGED <<live, cookie, left>>

\* AuthController.refresh: the browser has sent no cookie.
Missing(f) == f.cookie = NoToken

\* find_refresh_token_by_hash and the checks of what it returns.
Read(t, x) ==
  LET f == refresh[<<t, x>>]
      valid == ~Missing(f) /\ f.cookie \in live
  IN  /\ f.step = "sent"
      /\ IF valid
         THEN /\ refresh' = [refresh EXCEPT ![<<t, x>>].step = "read"]
              /\ UNCHANGED <<live, cookie, user, token, starting, promise, req, logouts, ended, left>>
         ELSE Fails(t, x)

\* Mutant: the successor is stored, the old token is not revoked.
RotateKeeping(t, x) ==
  LET f == refresh[<<t, x>>]
  IN  /\ f.step = "read"
      /\ \E n \in Tokens :
           /\ IsNew(n)
           /\ live' = live \cup {n}
           /\ refresh' = [refresh EXCEPT ![<<t, x>>] =
                            [step |-> "rotated", cookie |-> NoToken, new |-> n]]
      /\ UNCHANGED <<cookie, user, token, starting, promise, req, logouts, ended, left>>

\* The transaction: it does not look again whether the token is live.
Rotate(t, x) ==
  LET f == refresh[<<t, x>>]
  IN  /\ f.step = "read"
      /\ \E n \in Tokens :
           /\ IsNew(n)
           /\ live' = Revoked(f.cookie) \cup {n}
           /\ refresh' = [refresh EXCEPT ![<<t, x>>] =
                            [step |-> "rotated", cookie |-> NoToken, new |-> n]]
      /\ UNCHANGED <<cookie, user, token, starting, promise, req, logouts, ended, left>>

\* All who waited send their request again, with the cookie c.
EndRefresh(t, x, c) ==
  /\ refresh' = [refresh EXCEPT ![<<t, x>>] = IdleRefresh]
  /\ starting' = IF x = Silent THEN starting \ {t} ELSE starting
  /\ promise' = IF x = Silent THEN promise ELSE [promise EXCEPT ![t] = NoPromise]
  /\ req' = [r \in Requests |->
               IF x # Silent /\ r[1] = t /\ r[2] \in Waiting(t)
               THEN [req[r] EXCEPT !.step = "resent", !.bearer = "fresh",
                                   !.cookie = Carried(req[r].kind, c)]
               ELSE req[r]]
  /\ UNCHANGED <<live, user, logouts, ended, left>>

\* Mutant: the answer does not set the cookie.
RefreshedTokenOnly(t, x) ==
  /\ refresh[<<t, x>>].step = "rotated"
  /\ \E o \in Orgs : token' = [token EXCEPT ![t] = [org |-> o, age |-> "fresh"]]
  /\ EndRefresh(t, x, cookie)
  /\ UNCHANGED cookie

\* Mutant: the token is for the organization of the page, which may have no user by now.
RefreshedForPage(t, x) ==
  /\ refresh[<<t, x>>].step = "rotated"
  /\ cookie' = refresh[<<t, x>>].new
  /\ token' = [token EXCEPT ![t] = [org |-> user[t], age |-> "fresh"]]
  /\ EndRefresh(t, x, cookie')

\* The answer: cookie and access token, for the first organization of the user, whichever
\* the page shows.
Refreshed(t, x) ==
  /\ refresh[<<t, x>>].step = "rotated"
  /\ cookie' = refresh[<<t, x>>].new
  /\ \E o \in Orgs : token' = [token EXCEPT ![t] = [org |-> o, age |-> "fresh"]]
  /\ EndRefresh(t, x, cookie')

\* fetch rejects, or the answer is an error: both are caught as a failed refresh.
LoseRefresh(t, x) ==
  /\ refresh[<<t, x>>].step # "idle"
  /\ Fails(t, x)

-----------------------------------------------------------------------------
(* AuthProvider: logout and load; time *)

Logout(t) ==
  /\ token[t] # NoAccess
  /\ logouts' = logouts \cup {[cookie |-> cookie, served |-> FALSE]}
  /\ user' = [user EXCEPT ![t] = NoOrg]
  /\ token' = [token EXCEPT ![t] = NoAccess]
  /\ ended' = [ended EXCEPT ![t] = "by user"]
  /\ UNCHANGED <<live, cookie, starting, promise, req, refresh, left>>

\* AuthController.logout: without a cookie there is nothing to revoke.
LoggedOut(l) == IF Missing(l) THEN live ELSE Revoked(l.cookie)

ServeLogout(l) ==
  /\ l \in logouts /\ ~l.served /\ live' = LoggedOut(l)
  /\ logouts' = (logouts \ {l}) \cup {[l EXCEPT !.served = TRUE]}
  /\ UNCHANGED <<cookie, user, token, starting, promise, req, refresh, ended, left>>

\* The answer clears the cookie, whichever it is by then.
EndLogout(l) ==
  /\ l \in logouts
  /\ \/ l.served /\ cookie' = NoToken
     \/ UNCHANGED cookie \* the request, or its answer, is lost
  /\ logouts' = logouts \ {l}
  /\ UNCHANGED <<live, user, token, starting, promise, req, refresh, ended, left>>

\* The user loads the page anew: what the tab has under way is lost, and a user found in
\* the session's storage is restored with silentRefresh.
Load(t) ==
  /\ token' = [token EXCEPT ![t] = NoAccess]
  /\ promise' = [promise EXCEPT ![t] = NoPromise]
  /\ req' = Finish(t, Slots)
  /\ refresh' = [f \in Tabs \X Refreshers |->
                   IF f[1] # t THEN refresh[f]
                   ELSE IF f[2] # Silent \/ user[t] = NoOrg THEN IdleRefresh
                   ELSE [step |-> "sent", cookie |-> cookie, new |-> NoToken]]
  /\ starting' = IF user[t] = NoOrg THEN starting \ {t} ELSE starting \cup {t}
  /\ UNCHANGED <<live, cookie, user, logouts, ended, left>>

AccessExpires(t) ==
  /\ token[t].age = "fresh"
  /\ token' = [token EXCEPT ![t].age = "stale"]
  /\ UNCHANGED <<live, cookie, user, starting, promise, req, refresh, logouts, ended, left>>

RefreshExpires(n) ==
  /\ n \in live
  /\ live' = live \ {n}
  /\ UNCHANGED <<cookie, user, token, starting, promise, req, refresh, logouts, ended, left>>

Under(t) == \E f \in Refreshing \cup RotatingRequests : f[1] = t

RequestStep(t, s) ==
  \/ /\ \/ Answer(t, s) \/ ServeLogin(t, s) \/ ServeSwitch(t, s)
        \/ Arrive(t, s) \/ ArriveChanged(t, s)
     /\ Watch(FALSE)
  \/ (ChangePassword(t, s) \/ (MayFail /\ Lose(t, s))) /\ Watch(TRUE)

RefreshStep(t, x) ==
  \/ (Read(t, x) \/ Rotate(t, x) \/ Refreshed(t, x)) /\ Watch(FALSE)
  \/ MayFail /\ LoseRefresh(t, x) /\ Watch(TRUE)

Next ==
  \/ /\ May
     /\ \/ \E t \in Tabs :
             \/ \E s \in Slots, k \in Kinds, o \in Orgs \cup {NoOrg} :
                  Send(t, s, k, o) /\ Watch(k \in {"badLogin", "badPassword"})
             \/ Logout(t) /\ Watch(TRUE)
             \/ Load(t) /\ Watch(Under(t))
             \/ AccessExpires(t) /\ Watch(FALSE)
        \/ \E n \in Tokens : RefreshExpires(n) /\ Watch(TRUE)
  \/ \E t \in Tabs : \/ \E s \in Slots : RequestStep(t, s)
                     \/ \E x \in Refreshers : RefreshStep(t, x)
  \/ \E l \in logouts : (ServeLogout(l) \/ EndLogout(l)) /\ Watch(FALSE)

Spec == Init /\ [][Next]_vars

-----------------------------------------------------------------------------

\* The requests of a tab never have two refreshes under way: the second would bring the
\* token the first has revoked, and log the tab out.  (silentRefresh is not one of them.)
OneRefreshPerTab ==
  \A f, g \in Refreshing : f[1] = g[1] /\ Silent \notin {f[2], g[2]} => f = g

\* Nobody is sent to the login page without a reason: by himself, by a changed password, an
\* expired or lost token, or because two tabs (or a refresh and a switch or logout) rotated
\* the token at the same time.
SessionEndsForAReason ==
  \A t \in Tabs : ended[t] = "forced" => excuses > 0

\* Unless an answer was lost, two requests rotated the token at the same time or a login
\* replaced a cookie, every refresh token that is live is the browser's or on its way to it:
\* none is left that nobody will ever revoke.
LiveTokensAreHeld ==
  excuses = 0 /\ ~left =>
    \A n \in live :
      \/ cookie = n
      \/ \E r \in Requests : req[r].step = "served" /\ req[r].new = n
      \/ \E f \in Refreshing : refresh[f].new = n

\* A wrong current password is reported in the form; the session goes on.
WrongPasswordKeepsSession == \A t \in Tabs : ended[t] # "refused"
=============================================================================
