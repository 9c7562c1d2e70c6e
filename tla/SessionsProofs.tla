---------------------------- MODULE SessionsProofs ----------------------------
(* What TLAPS proves about the sessions of a browser: for any number of tabs,  *)
(* requests, organizations, tokens and kinds of requests.                      *)
EXTENDS Sessions, FiniteSetTheorems, TLAPS

RequestRecord == [kind : Kinds \cup {"none"},
                  step : {"idle", "sent", "waiting", "resent", "served"},
                  bearer : {"none", "fresh", "stale"},
                  cookie : Tokens \cup {NoToken}, new : Tokens \cup {NoToken},
                  org : Orgs \cup {NoOrg}]
RefreshRecord == [step : {"idle", "sent", "read", "rotated"},
                  cookie : Tokens \cup {NoToken}, new : Tokens \cup {NoToken}]
Access == [org : Orgs, age : {"fresh", "stale"}] \cup {NoAccess}

\* A login is never refused; a request is sent again with a fresh token; an answer that
\* signs in names an organization and a token.
Right(q) ==
  /\ q.kind = "none" <=> q.step = "idle"
  /\ q.kind = "login" => q.step \in {"idle", "sent", "served"}
  /\ q.step = "resent" => q.bearer = "fresh"
  /\ q.step = "served" => q.kind \in {"login", "switch", "password"}
  /\ q.kind = "switch" => q.org \in Orgs
  /\ q.step = "served" /\ q.kind # "password" => q.org \in Orgs /\ q.new \in Tokens
RightRequests == {q \in RequestRecord : Right(q)}

\* Only a refresh whose transaction is done has a successor.
RightRefreshes == {f \in RefreshRecord : /\ f.step \in {"sent", "read"} => f.new = NoToken
                                         /\ f.step = "rotated" => f.new \in Tokens}

\* The types, and refreshPromise is the refresh that is under way.
Sound ==
  /\ live \subseteq Tokens /\ cookie \in Tokens \cup {NoToken}
  /\ user \in [Tabs -> Orgs \cup {NoOrg}] /\ token \in [Tabs -> Access]
  /\ starting \subseteq Tabs /\ promise \in [Tabs -> Slots \cup {NoPromise}]
  /\ req \in [Requests -> RightRequests]
  /\ refresh \in [Tabs \X Refreshers -> RightRefreshes]
  /\ logouts \subseteq [cookie : Tokens \cup {NoToken}, served : BOOLEAN]
  /\ ended \in [Tabs -> {"by user", "forced", "refused"}]
  /\ left \in BOOLEAN

PromiseIsRefresh ==
  \A t \in Tabs, s \in Slots : refresh[<<t, s>>].step # "idle" <=> promise[t] = s

-----------------------------------------------------------------------------
\* The types of the records.
LEMMA IdleIsRight ==
  ASSUME SessionsAssumption PROVE IdleRequest \in RightRequests /\ IdleRefresh \in RightRefreshes
BY DEF SessionsAssumption, IdleRequest, IdleRefresh, RightRequests, RightRefreshes, RequestRecord,
       RefreshRecord, Right, NoToken, Tokens

LEMMA SoundIsTyped == ASSUME Sound, excuses \in Nat PROVE TypeOK
<1>1. RightRequests \subseteq RequestRecord /\ RightRefreshes \subseteq RefreshRecord
  BY DEF RightRequests, RightRefreshes
<1>2. req \in [Requests -> RequestRecord] BY <1>1 DEF Sound
<1>3. refresh \in [Tabs \X Refreshers -> RefreshRecord] BY <1>1 DEF Sound
<1> QED BY <1>2, <1>3 DEF Sound, TypeOK, RequestRecord, RefreshRecord, Access

\* Requests that end.
LEMMA FinishIsRight ==
  ASSUME SessionsAssumption, req \in [Requests -> RightRequests], NEW t \in Tabs, NEW S
  PROVE  /\ Finish(t, S) \in [Requests -> RightRequests]
         /\ \A u \in Tabs, v \in Slots :
              Finish(t, S)[<<u, v>>] = IF u = t /\ v \in S THEN IdleRequest ELSE req[<<u, v>>]
<1>1. IdleRequest \in RightRequests BY IdleIsRight
<1> QED BY <1>1 DEF Finish, Requests

LEMMA FinishOne ==
  ASSUME NEW t \in Tabs, NEW s \in Slots, req' = Finish(t, {s})
  PROVE  \A u \in Tabs, v \in Slots :
           req'[<<u, v>>] = IF u = t /\ v = s THEN IdleRequest ELSE req[<<u, v>>]
BY DEF Finish, Requests

\* A request changes.
LEMMA RequestChanges ==
  ASSUME Sound, NEW t \in Tabs, NEW s \in Slots, NEW q \in RightRequests,
         req' = [req EXCEPT ![<<t, s>>] = q]
  PROVE  /\ req' \in [Requests -> RightRequests]
         /\ \A u \in Tabs, v \in Slots :
              req'[<<u, v>>] = IF u = t /\ v = s THEN q ELSE req[<<u, v>>]
BY DEF Sound, Requests

\* A refresh changes.
LEMMA RefreshChanges ==
  ASSUME Sound, NEW t \in Tabs, NEW x \in Refreshers, NEW f \in RightRefreshes,
         refresh' = [refresh EXCEPT ![<<t, x>>] = f]
  PROVE  /\ refresh' \in [Tabs \X Refreshers -> RightRefreshes]
         /\ \A u \in Tabs, y \in Refreshers :
              refresh'[<<u, y>>] = IF u = t /\ y = x THEN f ELSE refresh[<<u, y>>]
BY DEF Sound

\* The records of a tab.
LEMMA Elements ==
  ASSUME Sound, NEW t \in Tabs
  PROVE  /\ \A s \in Slots : req[<<t, s>>] \in RightRequests
         /\ \A x \in Refreshers : refresh[<<t, x>>] \in RightRefreshes
BY DEF Sound, Requests

-----------------------------------------------------------------------------
(* What the actions do to requests and refreshes *)

LEMMA PromiseKeeps ==
  ASSUME PromiseIsRefresh, promise' = promise,
         \A u \in Tabs, v \in Slots :
           refresh'[<<u, v>>].step # "idle" <=> refresh[<<u, v>>].step # "idle"
  PROVE  PromiseIsRefresh'
<1>1. SUFFICES ASSUME NEW u \in Tabs, NEW v \in Slots
               PROVE  refresh'[<<u, v>>].step # "idle" <=> promise'[u] = v
  BY DEF PromiseIsRefresh
<1>2. refresh[<<u, v>>].step # "idle" <=> promise[u] = v BY DEF PromiseIsRefresh
<1>3. refresh'[<<u, v>>].step # "idle" <=> refresh[<<u, v>>].step # "idle" OBVIOUS
<1>4. promise'[u] = promise[u] OBVIOUS
<1> QED BY <1>2, <1>3, <1>4

LEMMA OnlyRequests ==
  ASSUME Sound, PromiseIsRefresh, req' \in [Requests -> RightRequests], live' \subseteq Tokens,
         UNCHANGED <<cookie, user, token, starting, promise, refresh, logouts, ended, left>>
  PROVE  Sound' /\ PromiseIsRefresh'
BY DEF Sound, PromiseIsRefresh

\* One tab forgets its refresh and takes another.
LEMMA PromiseMoves ==
  ASSUME SessionsAssumption, PromiseIsRefresh, NEW t \in Tabs, NEW p \in Slots \cup {NoPromise},
         \A u \in Tabs : promise'[u] = IF u = t THEN p ELSE promise[u],
         \A u \in Tabs, v \in Slots :
           refresh'[<<u, v>>].step # "idle"
             <=> IF u = t THEN v = p ELSE refresh[<<u, v>>].step # "idle"
  PROVE  PromiseIsRefresh'
<1>1. SUFFICES ASSUME NEW u \in Tabs, NEW v \in Slots
               PROVE  refresh'[<<u, v>>].step # "idle" <=> promise'[u] = v
  BY DEF PromiseIsRefresh
<1>2. refresh[<<u, v>>].step # "idle" <=> promise[u] = v BY DEF PromiseIsRefresh
<1>3. refresh'[<<u, v>>].step # "idle"
        <=> IF u = t THEN v = p ELSE refresh[<<u, v>>].step # "idle"
  OBVIOUS
<1>4. promise'[u] = IF u = t THEN p ELSE promise[u] OBVIOUS
<1> QED BY <1>2, <1>3, <1>4

\* ApiClient: a request is sent with the token and, for a switch, the cookie of the moment.
LEMMA SendDoes ==
  ASSUME SessionsAssumption, Sound, PromiseIsRefresh, NEW t \in Tabs, NEW s \in Slots,
         NEW k \in Kinds, NEW o \in Orgs \cup {NoOrg}, Send(t, s, k, o)
  PROVE  /\ Sound' /\ PromiseIsRefresh'
         /\ req[<<t, s>>].step = "idle"
         /\ \E q \in RightRequests :
              /\ q.step = "sent" /\ q.kind = k /\ q.cookie = Carried(k, cookie)
              /\ req' = [req EXCEPT ![<<t, s>>] = q]
<1> DEFINE q == [kind |-> k, step |-> "sent", bearer |-> Bearer(t), cookie |-> Carried(k, cookie),
                 new |-> NoToken, org |-> o]
<1>1. Bearer(t) \in {"none", "fresh", "stale"}
  <2>1. token[t] \in Access BY DEF Sound
  <2>2. CASE token[t] = NoAccess BY <2>2 DEF Bearer, NoAccess
  <2>3. CASE token[t] \in [org : Orgs, age : {"fresh", "stale"}] BY <2>3 DEF Bearer
  <2> QED BY <2>1, <2>2, <2>3 DEF Access
<1>2. Carried(k, cookie) \in Tokens \cup {NoToken} BY DEF Sound, Carried
<1>3. k # "none" /\ k \in Kinds BY DEF SessionsAssumption
<1>4. k = "switch" => o \in Orgs BY DEF Send
<1>5. q \in RequestRecord BY <1>1, <1>2 DEF RequestRecord
<1>6. q \in RightRequests BY <1>3, <1>4, <1>5 DEF RightRequests, Right
<1>7. req' = [req EXCEPT ![<<t, s>>] = q] /\ req[<<t, s>>].step = "idle" BY DEF Send
<1>8. q.step = "sent" /\ q.kind = k /\ q.cookie = Carried(k, cookie) OBVIOUS
<1> HIDE DEF q
<1>9. req' \in [Requests -> RightRequests] BY <1>6, <1>7, RequestChanges
<1>10. Sound' /\ PromiseIsRefresh' BY <1>9, OnlyRequests DEF Send, Sound
<1> QED BY <1>6, <1>7, <1>8, <1>10

\* A request ends whose answer changes nothing.
LEMMA FinishDoes ==
  ASSUME SessionsAssumption, Sound, PromiseIsRefresh, NEW t \in Tabs, NEW s \in Slots,
         req' = Finish(t, {s}),
         UNCHANGED <<live, cookie, user, token, starting, promise, refresh, logouts, ended, left>>
  PROVE  Sound' /\ PromiseIsRefresh'
<1>1. {s} \in SUBSET Slots OBVIOUS
<1>2. req' \in [Requests -> RightRequests] BY <1>1, FinishIsRight DEF Sound
<1> QED BY <1>2, OnlyRequests DEF Sound

\* A request that is served carries the new token; the rows change as the caller says.
LEMMA ServedDoes ==
  ASSUME SessionsAssumption, Sound, PromiseIsRefresh, NEW t \in Tabs, NEW s \in Slots,
         NEW n \in Tokens \cup {NoToken}, NEW rows \in SUBSET Tokens,
         NEW o \in Orgs \cup {NoOrg}, Served(t, s, n, rows, o),
         req[<<t, s>>].kind \in {"login", "switch", "password"},
         req[<<t, s>>].kind # "password" => n \in Tokens /\ o \in Orgs
  PROVE  /\ Sound' /\ PromiseIsRefresh'
         /\ \E q \in RightRequests :
              /\ q.step = "served" /\ q.kind = req[<<t, s>>].kind /\ q.new = n
              /\ req' = [req EXCEPT ![<<t, s>>] = q]
<1> DEFINE q == [req[<<t, s>>] EXCEPT !.step = "served", !.bearer = "none", !.cookie = NoToken,
                                      !.new = n, !.org = o]
<1>1. req[<<t, s>>] \in RequestRecord BY Elements DEF RightRequests
<1>2. q \in RequestRecord BY <1>1 DEF RequestRecord
<1>3. /\ q.step = "served" /\ q.kind = req[<<t, s>>].kind /\ q.new = n /\ q.org = o
  BY <1>1 DEF RequestRecord
<1>4. req' = [req EXCEPT ![<<t, s>>] = q] BY DEF Served
<1> HIDE DEF q
<1>5. q \in RightRequests BY <1>2, <1>3 DEF RightRequests, Right
<1>6. req' \in [Requests -> RightRequests] BY <1>4, <1>5, RequestChanges
<1>7. Sound' /\ PromiseIsRefresh' BY <1>6, OnlyRequests DEF Served
<1> QED BY <1>3, <1>4, <1>5, <1>7

\* The answer to a request that signed in, or changed the password.
LEMMA ArrivesDoes ==
  ASSUME SessionsAssumption, Sound, PromiseIsRefresh, NEW t \in Tabs, NEW s \in Slots,
         Arrives(t, s), token' \in [Tabs -> Access], left' \in BOOLEAN,
         logouts' \subseteq [cookie : Tokens \cup {NoToken}, served : BOOLEAN]
  PROVE  Sound' /\ PromiseIsRefresh'
<1>1. {s} \in SUBSET Slots OBVIOUS
<1>2. req' \in [Requests -> RightRequests] BY <1>1, FinishIsRight DEF Sound, Arrives
<1>3. req[<<t, s>>] \in RequestRecord BY Elements DEF RightRequests
<1>4. cookie' \in Tokens \cup {NoToken} /\ user' \in [Tabs -> Orgs \cup {NoOrg}]
  BY <1>3 DEF Arrives, RequestRecord, Sound
<1>5. ended' \in [Tabs -> {"by user", "forced", "refused"}] BY DEF Arrives, Sound
<1>6. UNCHANGED <<live, starting, promise, refresh>> BY DEF Arrives
<1>7. Sound' BY <1>2, <1>4, <1>5, <1>6 DEF Sound
<1>8. PromiseIsRefresh' BY <1>6 DEF PromiseIsRefresh
<1> QED BY <1>7, <1>8

LEMMA ArriveDoes ==
  ASSUME SessionsAssumption, Sound, PromiseIsRefresh, NEW t \in Tabs, NEW s \in Slots,
         Arrive(t, s)
  PROVE  /\ Sound' /\ PromiseIsRefresh'
         /\ req[<<t, s>>].org \in Orgs /\ req[<<t, s>>].new \in Tokens
<1>1. req[<<t, s>>] \in RightRequests BY Elements
<1>2. req[<<t, s>>].org \in Orgs /\ req[<<t, s>>].new \in Tokens
  BY <1>1 DEF Arrive, Arrives, RightRequests, Right
<1>3. [org |-> req[<<t, s>>].org, age |-> "fresh"] \in Access BY <1>2 DEF Access
<1>4. token' \in [Tabs -> Access] BY <1>3 DEF Arrive, Sound
<1>5. left' \in BOOLEAN BY DEF Arrive, Sound
<1>6. Sound' /\ PromiseIsRefresh' BY <1>4, <1>5, ArrivesDoes DEF Arrive, Sound
<1> QED BY <1>2, <1>6

LEMMA ArriveChangedDoes ==
  ASSUME SessionsAssumption, Sound, PromiseIsRefresh, NEW t \in Tabs, NEW s \in Slots,
         ArriveChanged(t, s)
  PROVE  Sound' /\ PromiseIsRefresh'
<1>1. token' \in [Tabs -> Access] BY DEF ArriveChanged, Sound, Access
<1>2. req[<<t, s>>] \in RequestRecord BY Elements DEF RightRequests
<1>3. cookie' \in Tokens \cup {NoToken} BY <1>2 DEF ArriveChanged, Arrives, RequestRecord
<1>4. [cookie |-> cookie', served |-> FALSE] \in [cookie : Tokens \cup {NoToken}, served : BOOLEAN]
  BY <1>3
<1>5. logouts' \subseteq [cookie : Tokens \cup {NoToken}, served : BOOLEAN]
  BY <1>4 DEF ArriveChanged, LogoutPost, Sound
<1> QED BY <1>1, <1>5, ArrivesDoes DEF ArriveChanged, Sound

\* logout of a tab, with the requests that end by it.
LEMMA ForceOutDoes ==
  ASSUME SessionsAssumption, Sound, NEW t \in Tabs, NEW S \in SUBSET Slots,
         NEW why \in {"forced", "refused"}, ForceOut(t, S, why)
  PROVE  /\ req' \in [Requests -> RightRequests]
         /\ logouts' \subseteq [cookie : Tokens \cup {NoToken}, served : BOOLEAN]
         /\ user' \in [Tabs -> Orgs \cup {NoOrg}] /\ token' \in [Tabs -> Access]
         /\ ended' \in [Tabs -> {"by user", "forced", "refused"}]
<1>1. req' \in [Requests -> RightRequests] BY FinishIsRight DEF Sound, ForceOut
<1>2. [cookie |-> cookie, served |-> FALSE] \in [cookie : Tokens \cup {NoToken}, served : BOOLEAN]
  BY DEF Sound
<1>3. logouts' \subseteq [cookie : Tokens \cup {NoToken}, served : BOOLEAN]
  BY <1>2 DEF ForceOut, Sound
<1>4. user' \in [Tabs -> Orgs \cup {NoOrg}] BY DEF ForceOut, Sound
<1>5. token' \in [Tabs -> Access] BY DEF ForceOut, Sound, Access
<1>6. ended' \in [Tabs -> {"by user", "forced", "refused"}] BY DEF ForceOut, Sound
<1> QED BY <1>1, <1>3, <1>4, <1>5, <1>6

\* The first 401: the request waits for the refresh of its tab, and begins it if it has none.
LEMMA WaitDoes ==
  ASSUME SessionsAssumption, Sound, PromiseIsRefresh, NEW t \in Tabs, NEW s \in Slots,
         req[<<t, s>>].step = "sent", req[<<t, s>>].kind # "login", TryRefresh(t, s),
         req' = [req EXCEPT ![<<t, s>>] = [@ EXCEPT !.step = "waiting", !.bearer = "none",
                                                    !.cookie = NoToken]],
         UNCHANGED <<live, cookie, user, token, starting, logouts, ended, left>>
  PROVE  /\ Sound' /\ PromiseIsRefresh'
         /\ \E q \in RightRequests : /\ q.step = "waiting" /\ q.kind = req[<<t, s>>].kind
                                     /\ req' = [req EXCEPT ![<<t, s>>] = q]
         /\ promise[t] = NoPromise =>
              \E f \in RightRefreshes : /\ f.step = "sent" /\ f.cookie = cookie
                                        /\ refresh' = [refresh EXCEPT ![<<t, s>>] = f]
         /\ promise[t] # NoPromise => refresh' = refresh
<1> DEFINE q == [req[<<t, s>>] EXCEPT !.step = "waiting", !.bearer = "none", !.cookie = NoToken]
           f == [step |-> "sent", cookie |-> cookie, new |-> NoToken]
<1>1. req[<<t, s>>] \in RightRequests BY Elements
<1>2. q \in RequestRecord BY <1>1 DEF RequestRecord, RightRequests
<1>3. /\ q.step = "waiting" /\ q.kind = req[<<t, s>>].kind /\ q.org = req[<<t, s>>].org
  BY <1>1 DEF RequestRecord, RightRequests
<1>4. req' = [req EXCEPT ![<<t, s>>] = q] OBVIOUS
<1>5. f \in RightRefreshes BY DEF RightRefreshes, RefreshRecord, Sound
<1>6. promise[t] = NoPromise => /\ promise' = [promise EXCEPT ![t] = s]
                                /\ refresh' = [refresh EXCEPT ![<<t, s>>] = f]
  BY DEF TryRefresh
<1>7. promise[t] # NoPromise => promise' = promise /\ refresh' = refresh BY DEF TryRefresh
<1>8. f.step = "sent" /\ f.cookie = cookie OBVIOUS
<1> HIDE DEF q, f
<1>9. q \in RightRequests BY <1>1, <1>2, <1>3 DEF RightRequests, Right
<1>10. req' \in [Requests -> RightRequests] BY <1>4, <1>9, RequestChanges
<1>11. CASE promise[t] = NoPromise
  <2>1. s \in Refreshers BY DEF Refreshers
  <2>9. refresh' = [refresh EXCEPT ![<<t, s>>] = f] /\ promise' = [promise EXCEPT ![t] = s]
    BY <1>6, <1>11
  <2>2. /\ refresh' \in [Tabs \X Refreshers -> RightRefreshes]
        /\ \A u \in Tabs, y \in Refreshers :
             refresh'[<<u, y>>] = IF u = t /\ y = s THEN f ELSE refresh[<<u, y>>]
    BY <1>5, <2>1, <2>9, RefreshChanges
  <2>3. Sound' BY <1>10, <2>2, <2>9 DEF Sound
  <2>5. \A u \in Tabs : promise'[u] = IF u = t THEN s ELSE promise[u] BY <2>9 DEF Sound
  <2>6. \A u \in Tabs, v \in Slots :
          refresh'[<<u, v>>] = IF u = t /\ v = s THEN f ELSE refresh[<<u, v>>]
    BY <2>2 DEF Refreshers
  <2>7. \A v \in Slots : refresh[<<t, v>>].step = "idle"
    <3>1. SUFFICES ASSUME NEW v \in Slots PROVE refresh[<<t, v>>].step = "idle" OBVIOUS
    <3>2. promise[t] # v BY <1>11 DEF SessionsAssumption
    <3> QED BY <3>2 DEF PromiseIsRefresh
  <2>4. PromiseIsRefresh' BY <1>8, <2>5, <2>6, <2>7, PromiseMoves
  <2> QED BY <1>3, <1>4, <1>5, <1>6, <1>8, <1>9, <1>11, <2>3, <2>4
<1>12. CASE promise[t] # NoPromise
  <2>2. promise' = promise /\ refresh' = refresh BY <1>7, <1>12
  <2>3. Sound' BY <1>10, <2>2 DEF Sound
  <2>5. \A u \in Tabs, v \in Slots : refresh'[<<u, v>>] = refresh[<<u, v>>] BY <2>2
  <2>4. PromiseIsRefresh' BY <2>2, <2>5, PromiseKeeps
  <2> QED BY <1>3, <1>4, <1>9, <1>12, <2>2, <2>3, <2>4
<1> QED BY <1>11, <1>12

\* The second 401.
LEMMA GiveUpDoes ==
  ASSUME SessionsAssumption, Sound, PromiseIsRefresh, NEW t \in Tabs, NEW s \in Slots,
         NEW why \in {"forced", "refused"}, ForceOut(t, {s}, why),
         UNCHANGED <<live, cookie, starting, promise, refresh, left>>
  PROVE  Sound' /\ PromiseIsRefresh'
<1>1. {s} \in SUBSET Slots OBVIOUS
<1>2. /\ req' \in [Requests -> RightRequests]
      /\ logouts' \subseteq [cookie : Tokens \cup {NoToken}, served : BOOLEAN]
      /\ user' \in [Tabs -> Orgs \cup {NoOrg}] /\ token' \in [Tabs -> Access]
      /\ ended' \in [Tabs -> {"by user", "forced", "refused"}]
  BY <1>1, ForceOutDoes, Zenon
<1>3. Sound' BY <1>2 DEF Sound
<1>4. PromiseIsRefresh' BY DEF PromiseIsRefresh
<1> QED BY <1>3, <1>4

\* A refresh goes on, and the rows of tokens may change.
LEMMA RefreshGoesOn ==
  ASSUME SessionsAssumption, Sound, PromiseIsRefresh, NEW t \in Tabs, NEW x \in Refreshers,
         NEW f \in RightRefreshes, f.step # "idle", refresh[<<t, x>>].step # "idle",
         refresh' = [refresh EXCEPT ![<<t, x>>] = f], live' \subseteq Tokens,
         UNCHANGED <<cookie, user, token, starting, promise, req, logouts, ended, left>>
  PROVE  Sound' /\ PromiseIsRefresh'
<1>1. /\ refresh' \in [Tabs \X Refreshers -> RightRefreshes]
      /\ \A u \in Tabs, y \in Refreshers :
           refresh'[<<u, y>>] = IF u = t /\ y = x THEN f ELSE refresh[<<u, y>>]
  BY RefreshChanges
<1>2. Sound' BY <1>1 DEF Sound
<1>3. \A u \in Tabs, v \in Slots :
        refresh'[<<u, v>>] = IF u = t /\ v = x THEN f ELSE refresh[<<u, v>>]
  BY <1>1 DEF Refreshers
<1>4. PromiseIsRefresh' BY <1>3, PromiseKeeps
<1> QED BY <1>2, <1>4

\* A refresh ends: the page may do so with it.
LEMMA RefreshEnds ==
  ASSUME SessionsAssumption, Sound, PromiseIsRefresh, NEW t \in Tabs, NEW x \in Refreshers,
         refresh' = [refresh EXCEPT ![<<t, x>>] = IdleRefresh],
         promise' = IF x = Silent THEN promise ELSE [promise EXCEPT ![t] = NoPromise],
         refresh[<<t, x>>].step # "idle"
  PROVE  /\ refresh' \in [Tabs \X Refreshers -> RightRefreshes]
         /\ \A u \in Tabs, y \in Refreshers :
              refresh'[<<u, y>>] = IF u = t /\ y = x THEN IdleRefresh ELSE refresh[<<u, y>>]
         /\ promise' \in [Tabs -> Slots \cup {NoPromise}]
         /\ PromiseIsRefresh'
<1>1. IdleRefresh \in RightRefreshes BY IdleIsRight
<1>2. /\ refresh' \in [Tabs \X Refreshers -> RightRefreshes]
      /\ \A u \in Tabs, y \in Refreshers :
           refresh'[<<u, y>>] = IF u = t /\ y = x THEN IdleRefresh ELSE refresh[<<u, y>>]
  BY <1>1, RefreshChanges
<1>3. promise' \in [Tabs -> Slots \cup {NoPromise}] BY DEF Sound
<1>4. IdleRefresh.step = "idle" BY DEF IdleRefresh
<1>5. \A u \in Tabs, v \in Slots :
        refresh'[<<u, v>>] = IF u = t /\ v = x THEN IdleRefresh ELSE refresh[<<u, v>>]
  BY <1>2 DEF Refreshers
<1>6. CASE x = Silent
  <2>1. promise' = promise /\ x \notin Slots BY <1>6 DEF SessionsAssumption
  <2>3. \A u \in Tabs, v \in Slots : refresh'[<<u, v>>] = refresh[<<u, v>>]
    BY <1>5, <2>1
  <2>2. PromiseIsRefresh' BY <2>1, <2>3, PromiseKeeps
  <2> QED BY <1>2, <1>3, <2>2
<1>7. CASE x # Silent
  <2>1. x \in Slots BY <1>7 DEF Refreshers
  <2>2. \A u \in Tabs : promise'[u] = IF u = t THEN NoPromise ELSE promise[u]
    BY <1>7 DEF Sound
  <2>3. promise[t] = x BY <2>1 DEF PromiseIsRefresh
  <2>5. \A v \in Slots : v # x => refresh[<<t, v>>].step = "idle"
    <3>1. SUFFICES ASSUME NEW v \in Slots, v # x PROVE refresh[<<t, v>>].step = "idle" OBVIOUS
    <3> QED BY <2>3, <3>1 DEF PromiseIsRefresh
  <2>6. NoPromise \notin Slots BY DEF SessionsAssumption
  <2>4. PromiseIsRefresh' BY <1>4, <1>5, <2>1, <2>2, <2>5, <2>6, PromiseMoves
  <2> QED BY <1>2, <1>3, <2>4
<1> QED BY <1>6, <1>7

\* A refresh fails.
LEMMA FailsDoes ==
  ASSUME SessionsAssumption, Sound, PromiseIsRefresh, NEW t \in Tabs, NEW x \in Refreshers,
         refresh[<<t, x>>].step # "idle", Fails(t, x)
  PROVE  Sound' /\ PromiseIsRefresh'
<1>1. promise' = IF x = Silent THEN promise ELSE [promise EXCEPT ![t] = NoPromise]
  BY DEF Fails
<1>2. /\ refresh' \in [Tabs \X Refreshers -> RightRefreshes]
      /\ promise' \in [Tabs -> Slots \cup {NoPromise}] /\ PromiseIsRefresh'
  BY <1>1, RefreshEnds DEF Fails
<1>3. UNCHANGED <<live, cookie, left>> BY DEF Fails
<1>4. CASE x = Silent
  <2>1. UNCHANGED <<token, req, logouts>> BY <1>4 DEF Fails
  <2>2. user' \in [Tabs -> Orgs \cup {NoOrg}] BY <1>4 DEF Fails, Sound
  <2>3. starting' \subseteq Tabs BY <1>4 DEF Fails, Sound
  <2>4. ended' \in [Tabs -> {"by user", "forced", "refused"}] BY <1>4 DEF Fails, Sound
  <2> QED BY <1>2, <1>3, <2>1, <2>2, <2>3, <2>4 DEF Sound
<1>5. CASE x # Silent
  <2>1. PICK why \in {"forced", "refused"} : ForceOut(t, Waiting(t), why) BY <1>5 DEF Fails
  <2>2. Waiting(t) \in SUBSET Slots BY DEF Waiting
  <2>3. /\ req' \in [Requests -> RightRequests]
        /\ logouts' \subseteq [cookie : Tokens \cup {NoToken}, served : BOOLEAN]
        /\ user' \in [Tabs -> Orgs \cup {NoOrg}] /\ token' \in [Tabs -> Access]
        /\ ended' \in [Tabs -> {"by user", "forced", "refused"}]
    BY <2>1, <2>2, ForceOutDoes
  <2>4. starting' = starting BY <1>5 DEF Fails
  <2> QED BY <1>2, <1>3, <2>3, <2>4 DEF Sound
<1> QED BY <1>4, <1>5

SentAgain(old, new, c) == /\ old.step = "waiting" /\ new.step = "resent" /\ new.kind = old.kind
                          /\ new.cookie = Carried(old.kind, c)

\* A refresh succeeds: all who waited send their request again.
LEMMA RefreshedDoes ==
  ASSUME SessionsAssumption, Sound, PromiseIsRefresh, NEW t \in Tabs, NEW x \in Refreshers,
         Refreshed(t, x)
  PROVE  /\ Sound' /\ PromiseIsRefresh'
         /\ cookie' = refresh[<<t, x>>].new
         /\ \A u \in Tabs, v \in Slots :
              \/ req'[<<u, v>>] = req[<<u, v>>]
              \/ u = t /\ SentAgain(req[<<u, v>>], req'[<<u, v>>], cookie')
         /\ \A u \in Tabs, y \in Refreshers :
              refresh'[<<u, y>>] = IF u = t /\ y = x THEN IdleRefresh ELSE refresh[<<u, y>>]
<1>1. /\ refresh' = [refresh EXCEPT ![<<t, x>>] = IdleRefresh]
      /\ promise' = IF x = Silent THEN promise ELSE [promise EXCEPT ![t] = NoPromise]
      /\ refresh[<<t, x>>].step = "rotated" /\ cookie' = refresh[<<t, x>>].new
      /\ UNCHANGED <<live, user, logouts, ended, left>>
  BY DEF Refreshed, EndRefresh
<1>2. refresh[<<t, x>>] \in RightRefreshes BY Elements
<1>3. cookie' \in Tokens BY <1>1, <1>2 DEF RightRefreshes
<1>4. /\ refresh' \in [Tabs \X Refreshers -> RightRefreshes]
      /\ promise' \in [Tabs -> Slots \cup {NoPromise}] /\ PromiseIsRefresh'
      /\ \A u \in Tabs, y \in Refreshers :
           refresh'[<<u, y>>] = IF u = t /\ y = x THEN IdleRefresh ELSE refresh[<<u, y>>]
  BY <1>1, RefreshEnds
<1>5. starting' \subseteq Tabs BY DEF Refreshed, EndRefresh, Sound
<1>6. token' \in [Tabs -> Access]
  <2>1. PICK o \in Orgs : token' = [token EXCEPT ![t] = [org |-> o, age |-> "fresh"]]
    BY DEF Refreshed
  <2>2. [org |-> o, age |-> "fresh"] \in Access BY DEF Access
  <2> QED BY <2>1, <2>2 DEF Sound
<1>7. ASSUME NEW u \in Tabs, NEW v \in Slots
      PROVE  /\ req'[<<u, v>>] \in RightRequests
             /\ \/ req'[<<u, v>>] = req[<<u, v>>]
                \/ u = t /\ SentAgain(req[<<u, v>>], req'[<<u, v>>], cookie')
  <2> DEFINE q == req[<<u, v>>]
             new == [q EXCEPT !.step = "resent", !.bearer = "fresh", !.cookie = Carried(q.kind, cookie')]
  <2>1. <<u, v>> \in Requests BY DEF Requests
  <2>2. \/ req'[<<u, v>>] = q
        \/ u = t /\ v \in Waiting(t) /\ req'[<<u, v>>] = new
    BY <2>1 DEF Refreshed, EndRefresh
  <2>3. v \in Waiting(t) /\ u = t => q.step = "waiting" BY DEF Waiting
  <2>4. q \in RightRequests BY Elements
  <2>5. Carried(q.kind, cookie') \in Tokens \cup {NoToken} BY <1>3 DEF Carried
  <2> HIDE DEF q
  <2>6. /\ new \in RequestRecord /\ new.step = "resent" /\ new.bearer = "fresh"
        /\ new.kind = q.kind /\ new.cookie = Carried(q.kind, cookie') /\ new.org = q.org
    BY <2>4, <2>5 DEF RightRequests, RequestRecord
  <2> HIDE DEF new
  <2>7. q.step = "waiting" => new \in RightRequests
    BY <2>4, <2>6 DEF RightRequests, Right
  <2>8. q.step = "waiting" => SentAgain(q, new, cookie') BY <2>6 DEF SentAgain
  <2> QED BY <2>2, <2>3, <2>4, <2>7, <2>8 DEF q
<1>8. req' \in [Requests -> RightRequests]
  <2>1. req' = [r \in Requests |-> req'[r]] BY DEF Refreshed, EndRefresh
  <2>2. \A r \in Requests : req'[r] \in RightRequests BY <1>7 DEF Requests
  <2> QED BY <2>1, <2>2
<1>9. Sound' BY <1>1, <1>3, <1>4, <1>5, <1>6, <1>8 DEF Sound
<1> QED BY <1>1, <1>4, <1>7, <1>9

\* The page is loaded anew.
LEMMA LoadDoes ==
  ASSUME SessionsAssumption, Sound, PromiseIsRefresh, NEW t \in Tabs, Load(t)
  PROVE  /\ Sound' /\ PromiseIsRefresh'
         /\ \A u \in Tabs : /\ token'[u] = IF u = t THEN NoAccess ELSE token[u]
                            /\ promise'[u] = IF u = t THEN NoPromise ELSE promise[u]
         /\ \A u \in Tabs, v \in Slots :
              req'[<<u, v>>] = IF u = t THEN IdleRequest ELSE req[<<u, v>>]
         /\ \A u \in Tabs, y \in Refreshers :
              IF u # t THEN refresh'[<<u, y>>] = refresh[<<u, y>>]
              ELSE IF y # Silent \/ user[t] = NoOrg THEN refresh'[<<u, y>>] = IdleRefresh
              ELSE refresh'[<<u, y>>].step = "sent" /\ refresh'[<<u, y>>].cookie = cookie
<1> DEFINE new == [step |-> "sent", cookie |-> cookie, new |-> NoToken]
<1>1. new \in RightRefreshes /\ IdleRefresh \in RightRefreshes
  BY IdleIsRight DEF RightRefreshes, RefreshRecord, Sound
<1>2. \A u \in Tabs : /\ token'[u] = IF u = t THEN NoAccess ELSE token[u]
                      /\ promise'[u] = IF u = t THEN NoPromise ELSE promise[u]
  BY DEF Load, Sound
<1>3. token' \in [Tabs -> Access] /\ promise' \in [Tabs -> Slots \cup {NoPromise}]
  BY DEF Load, Sound, Access
<1>4. Slots \in SUBSET Slots OBVIOUS
<1>5. /\ req' \in [Requests -> RightRequests]
      /\ \A u \in Tabs, v \in Slots :
           req'[<<u, v>>] = IF u = t THEN IdleRequest ELSE req[<<u, v>>]
  <2>1. req' = Finish(t, Slots) BY DEF Load
  <2>2. req \in [Requests -> RightRequests] BY DEF Sound
  <2>3. /\ Finish(t, Slots) \in [Requests -> RightRequests]
        /\ \A u \in Tabs, v \in Slots :
             Finish(t, Slots)[<<u, v>>] = IF u = t /\ v \in Slots THEN IdleRequest ELSE req[<<u, v>>]
    BY <1>4, <2>2, FinishIsRight
  <2> QED BY <2>1, <2>3
<1>6. ASSUME NEW u \in Tabs, NEW y \in Refreshers
      PROVE  refresh'[<<u, y>>] = IF u # t THEN refresh[<<u, y>>]
                                  ELSE IF y # Silent \/ user[t] = NoOrg THEN IdleRefresh
                                  ELSE new
  BY DEF Load
<1>7. refresh' \in [Tabs \X Refreshers -> RightRefreshes]
  <2>1. refresh' = [f \in Tabs \X Refreshers |-> refresh'[f]] BY DEF Load
  <2>2. \A u \in Tabs, y \in Refreshers : refresh'[<<u, y>>] \in RightRefreshes
    BY <1>1, <1>6, Elements
  <2> QED BY <2>1, <2>2
<1>8. starting' \subseteq Tabs BY DEF Load, Sound
<1>9. UNCHANGED <<live, cookie, user, logouts, ended, left>> BY DEF Load
<1>10. Sound' BY <1>3, <1>5, <1>7, <1>8, <1>9 DEF Sound
<1>11. PromiseIsRefresh'
  <2>1. IdleRefresh.step = "idle" BY DEF IdleRefresh
  <2>2. \A u \in Tabs, v \in Slots :
          refresh'[<<u, v>>] = IF u = t THEN IdleRefresh ELSE refresh[<<u, v>>]
    BY <1>6 DEF SessionsAssumption, Refreshers
  <2>3. NoPromise \notin Slots BY DEF SessionsAssumption
  <2>4. \A u \in Tabs : promise'[u] = IF u = t THEN NoPromise ELSE promise[u] BY <1>2
  <2> QED BY <2>1, <2>2, <2>3, <2>4, PromiseMoves
<1>12. new.step = "sent" /\ new.cookie = cookie OBVIOUS
<1> HIDE DEF new
<1> QED BY <1>2, <1>5, <1>6, <1>10, <1>11, <1>12

\* The cookie is cleared, tokens expire, the user logs out: no request is concerned.
LEMMA NoRequest ==
  ASSUME SessionsAssumption, Sound, PromiseIsRefresh,
         \/ \E t \in Tabs : Logout(t) \/ AccessExpires(t)
         \/ \E n \in Tokens : RefreshExpires(n)
         \/ \E l \in logouts : ServeLogout(l) \/ EndLogout(l)
  PROVE  Sound' /\ PromiseIsRefresh'
<1> DEFINE Posts == [cookie : Tokens \cup {NoToken}, served : BOOLEAN]
<1>1. UNCHANGED <<promise, refresh, req, starting, left>>
  BY DEF Logout, AccessExpires, RefreshExpires, ServeLogout, EndLogout
<1>2. PromiseIsRefresh' BY <1>1 DEF PromiseIsRefresh
<1>3. ASSUME NEW t \in Tabs, Logout(t) PROVE Sound'
  <2>1. [cookie |-> cookie, served |-> FALSE] \in Posts BY DEF Sound
  <2>2. logouts' \subseteq Posts BY <1>3, <2>1 DEF Logout, Sound
  <2>3. user' \in [Tabs -> Orgs \cup {NoOrg}] /\ token' \in [Tabs -> Access]
    BY <1>3 DEF Logout, Sound, Access
  <2>4. ended' \in [Tabs -> {"by user", "forced", "refused"}] BY <1>3 DEF Logout, Sound
  <2>5. UNCHANGED <<live, cookie>> BY <1>3 DEF Logout
  <2> QED BY <1>1, <2>2, <2>3, <2>4, <2>5 DEF Sound
<1>4. ASSUME NEW t \in Tabs, AccessExpires(t) PROVE Sound'
  <2>1. token[t] \in Access BY DEF Sound
  <2>2. [token[t] EXCEPT !.age = "stale"] \in Access
    BY <1>4, <2>1 DEF AccessExpires, Access, NoAccess
  <2>3. token' \in [Tabs -> Access] BY <1>4, <2>2 DEF AccessExpires, Sound
  <2> QED BY <1>1, <1>4, <2>3 DEF AccessExpires, Sound
<1>5. ASSUME NEW n \in Tokens, RefreshExpires(n) PROVE Sound'
  <2>1. live' \subseteq Tokens BY <1>5 DEF RefreshExpires, Sound
  <2>2. UNCHANGED <<cookie, user, token, logouts, ended>> BY <1>5 DEF RefreshExpires
  <2> QED BY <1>1, <2>1, <2>2 DEF Sound
<1>6. ASSUME NEW l \in logouts, ServeLogout(l) PROVE Sound'
  <2>1. l \in Posts BY DEF Sound
  <2>2. [l EXCEPT !.served = TRUE] \in Posts BY <2>1
  <2>3. logouts' \subseteq Posts BY <1>6, <2>2 DEF ServeLogout, Sound
  <2>4. live' \subseteq Tokens BY <1>6 DEF ServeLogout, LoggedOut, Sound, Revoked
  <2>5. UNCHANGED <<cookie, user, token, ended>> BY <1>6 DEF ServeLogout
  <2> QED BY <1>1, <2>3, <2>4, <2>5 DEF Sound
<1>7. ASSUME NEW l \in logouts, EndLogout(l) PROVE Sound'
  <2>1. cookie' \in Tokens \cup {NoToken} BY <1>7 DEF EndLogout, Sound
  <2>2. logouts' \subseteq Posts BY <1>7 DEF EndLogout, Sound
  <2>3. UNCHANGED <<live, user, token, ended>> BY <1>7 DEF EndLogout
  <2> QED BY <1>1, <2>1, <2>2, <2>3 DEF Sound
<1> QED BY <1>2, <1>3, <1>4, <1>5, <1>6, <1>7

-----------------------------------------------------------------------------
(* As long as nothing has happened that may end a session *)

Rotates(t, s) == /\ req[<<t, s>>].kind \in {"switch", "login", "password"}
                 /\ req[<<t, s>>].step \in {"sent", "resent", "served"}
Refreshes(t, x) == refresh[<<t, x>>].step # "idle"

\* One request rotates the token at a time, or the refreshes of one tab.
Alone ==
  \A t, u \in Tabs :
    /\ \A s, v \in Slots : Rotates(t, s) /\ Rotates(u, v) => t = u /\ s = v
    /\ \A s \in Slots, x \in Refreshers : ~ (Rotates(t, s) /\ Refreshes(u, x))
    /\ \A x, y \in Refreshers : Refreshes(t, x) /\ Refreshes(u, y) => t = u

NobodyIsOut == logouts = {} /\ \A t \in Tabs : ended[t] # "forced"

\* Who asks for something has signed in, and asks with the right password.
UsersAreKnown ==
  \A t \in Tabs :
    /\ token[t] # NoAccess => user[t] # NoOrg
    /\ \A s \in Slots : req[<<t, s>>].kind \in {"get", "switch", "password"} => user[t] # NoOrg
    /\ \A x \in Refreshers : Refreshes(t, x) => user[t] # NoOrg
NothingIsWrong ==
  \A t \in Tabs, s \in Slots :
    /\ req[<<t, s>>].kind \notin {"badLogin", "badPassword"}
    /\ req[<<t, s>>].step = "served" => req[<<t, s>>].kind # "password"

\* A refresh, and a switch, has the token of the browser with it, and that of the refresh
\* is live.
RefreshBringsCookie ==
  \A t \in Tabs, x \in Refreshers :
    refresh[<<t, x>>].step \in {"sent", "read"} =>
      refresh[<<t, x>>].cookie = cookie /\ cookie \in live
SwitchBringsCookie ==
  \A t \in Tabs, s \in Slots :
    req[<<t, s>>].kind = "switch" /\ req[<<t, s>>].step \in {"sent", "resent"} =>
      req[<<t, s>>].cookie = cookie

\* What is on its way to the browser is live.
SuccessorsAreLive ==
  \A t \in Tabs :
    /\ \A x \in Refreshers : refresh[<<t, x>>].step = "rotated" => refresh[<<t, x>>].new \in live
    /\ \A s \in Slots : req[<<t, s>>].step = "served" => req[<<t, s>>].new \in live

Replaced == \/ \E t \in Tabs, x \in Refreshers : refresh[<<t, x>>].step = "rotated"
            \/ \E t \in Tabs, s \in Slots :
                 req[<<t, s>>].kind = "switch" /\ req[<<t, s>>].step = "served"

\* So is the token of the browser, unless it has a successor on its way.
CookieIsLive == (\E t \in Tabs : user[t] # NoOrg) /\ ~Replaced => cookie \in live

\* A page that restores its session does nothing else.
LoadComesFirst ==
  \A t \in Tabs : Refreshes(t, Silent) =>
    token[t] = NoAccess /\ promise[t] = NoPromise /\ \A s \in Slots : req[<<t, s>>].step = "idle"

Undisturbed ==
  /\ Alone /\ NobodyIsOut /\ UsersAreKnown /\ NothingIsWrong /\ RefreshBringsCookie
  /\ SwitchBringsCookie /\ SuccessorsAreLive /\ CookieIsLive /\ LoadComesFirst

\* The tokens that are live are the browser's or on their way to it; a successor is the
\* only one.
OnlyHeld ==
  /\ \A n \in live :
       \/ cookie = n
       \/ \E t \in Tabs, s \in Slots : req[<<t, s>>].step = "served" /\ req[<<t, s>>].new = n
       \/ \E t \in Tabs, x \in Refreshers : Refreshes(t, x) /\ refresh[<<t, x>>].new = n
  /\ \A t \in Tabs, x \in Refreshers :
       refresh[<<t, x>>].step = "rotated" => live \subseteq {refresh[<<t, x>>].new}
  /\ \A t \in Tabs, s \in Slots :
       req[<<t, s>>].kind = "switch" /\ req[<<t, s>>].step = "served" =>
         live \subseteq {req[<<t, s>>].new}

Calm == Undisturbed /\ (~left => OnlyHeld)

IInv == /\ Sound /\ PromiseIsRefresh /\ excuses \in Nat
        /\ excuses = 0 => Calm

-----------------------------------------------------------------------------
\* Overlap, said of one request and one refresh at a time.
LEMMA AtMostOne ==
  ASSUME NEW S, IsFiniteSet(S), Cardinality(S) <= 1, NEW a \in S, NEW b \in S
  PROVE  a = b
<1>1. Cardinality({a}) = 1 BY FS_Singleton
<1>2. {a} \in SUBSET S OBVIOUS
<1>3. Cardinality(S) \in Nat /\ Cardinality({a}) <= Cardinality(S) /\ (Cardinality(S) = Cardinality({a}) => S = {a})
  BY <1>2, FS_Subset, FS_CardinalityType
<1>4. S = {a} BY <1>1, <1>3
<1> QED BY <1>4

LEMMA OverlapMeansTwo ==
  ASSUME SessionsAssumption, logouts' = {}, ~Overlap' PROVE Alone'
<1>1. IsFiniteSet(Requests) BY FS_Product DEF Requests, SessionsAssumption
<1>2. RotatingRequests' \in SUBSET Requests BY DEF RotatingRequests
<1>3. IsFiniteSet(RotatingRequests') BY <1>1, <1>2, FS_Subset
<1>4. Cardinality(RotatingRequests') \in Nat /\ Cardinality(logouts') = 0
  BY <1>3, FS_CardinalityType, FS_EmptySet
<1>5. Cardinality(RotatingRequests') <= 1 BY <1>4 DEF Overlap
<1>6. \A t \in Tabs, s \in Slots : Rotates(t, s)' => <<t, s>> \in RotatingRequests'
  BY DEF Rotates, RotatingRequests, Requests
<1>7. \A t \in Tabs, x \in Refreshers : Refreshes(t, x)' => <<t, x>> \in Refreshing'
  BY DEF Refreshes, Refreshing
<1>8. ASSUME NEW t \in Tabs, NEW u \in Tabs
      PROVE  /\ \A s, v \in Slots : (Rotates(t, s) /\ Rotates(u, v))' => t = u /\ s = v
             /\ \A s \in Slots, x \in Refreshers : ~ (Rotates(t, s) /\ Refreshes(u, x))'
             /\ \A x, y \in Refreshers : (Refreshes(t, x) /\ Refreshes(u, y))' => t = u
  <2>1. ASSUME NEW s \in Slots, NEW v \in Slots, (Rotates(t, s) /\ Rotates(u, v))'
        PROVE  t = u /\ s = v
    <3>1. <<t, s>> \in RotatingRequests' /\ <<u, v>> \in RotatingRequests' BY <1>6, <2>1
    <3>2. \A a, b \in RotatingRequests' : a = b BY <1>3, <1>5, AtMostOne
    <3>3. <<t, s>> = <<u, v>> BY <3>1, <3>2
    <3> QED BY <3>3
  <2>2. ASSUME NEW s \in Slots, NEW x \in Refreshers, (Rotates(t, s) /\ Refreshes(u, x))'
        PROVE  FALSE
    BY <1>6, <1>7, <2>2 DEF Overlap
  <2>3. ASSUME NEW x \in Refreshers, NEW y \in Refreshers, (Refreshes(t, x) /\ Refreshes(u, y))'
        PROVE  t = u
    <3>1. <<t, x>> \in Refreshing' /\ <<u, y>> \in Refreshing' BY <1>7, <2>3
    <3>2. <<t, x>>[1] = <<u, y>>[1] BY <3>1 DEF Overlap
    <3> QED BY <3>2
  <2> QED BY <2>1, <2>2, <2>3
<1> QED BY <1>8 DEF Alone

\* An excuse is counted, and so is an overlap.
LEMMA WatchCounts ==
  ASSUME SessionsAssumption, excuses \in Nat, NEW e \in BOOLEAN, Watch(e)
  PROVE  excuses' \in Nat /\ (excuses' = 0 => excuses = 0 /\ ~e /\ ~Overlap')
BY DEF Watch, SessionsAssumption

LEMMA NoTokenIsDead == ASSUME SessionsAssumption, Sound PROVE NoToken \notin live
<1>1. live \subseteq Tokens BY DEF Sound
<1>2. NoToken \notin Tokens BY DEF NoToken, Tokens, SessionsAssumption
<1> QED BY <1>1, <1>2

\* What holds a token goes on to hold it.
LEMMA StillHeld ==
  ASSUME OnlyHeld, UNCHANGED <<live, cookie>>,
         \A u \in Tabs, x \in Refreshers : Refreshes(u, x) /\ refresh[<<u, x>>].new # NoToken =>
           Refreshes(u, x)' /\ refresh'[<<u, x>>].new = refresh[<<u, x>>].new,
         \A u \in Tabs, x \in Refreshers : refresh'[<<u, x>>].step = "rotated" =>
           refresh'[<<u, x>>] = refresh[<<u, x>>],
         NoToken \notin live,
         \A u \in Tabs, v \in Slots : req[<<u, v>>].step = "served" => req'[<<u, v>>] = req[<<u, v>>],
         \A u \in Tabs, v \in Slots : req'[<<u, v>>].step = "served" => req'[<<u, v>>] = req[<<u, v>>]
  PROVE  OnlyHeld'
<1>1. ASSUME NEW n \in live'
      PROVE  \/ cookie' = n
             \/ \E u \in Tabs, v \in Slots : req'[<<u, v>>].step = "served" /\ req'[<<u, v>>].new = n
             \/ \E u \in Tabs, x \in Refreshers : Refreshes(u, x)' /\ refresh'[<<u, x>>].new = n
  <2>1. CASE cookie = n BY <2>1
  <2>2. ASSUME NEW u \in Tabs, NEW v \in Slots, req[<<u, v>>].step = "served", req[<<u, v>>].new = n
        PROVE  req'[<<u, v>>].step = "served" /\ req'[<<u, v>>].new = n
    BY <2>2
  <2>3. ASSUME NEW u \in Tabs, NEW x \in Refreshers, Refreshes(u, x), refresh[<<u, x>>].new = n
        PROVE  Refreshes(u, x)' /\ refresh'[<<u, x>>].new = n
    <3>1. n # NoToken BY <1>1
    <3> QED BY <2>3, <3>1
  <2> QED BY <1>1, <2>1, <2>2, <2>3 DEF OnlyHeld
<1>2. \A u \in Tabs, x \in Refreshers :
        refresh'[<<u, x>>].step = "rotated" => live' \subseteq {refresh'[<<u, x>>].new}
  BY ZenonT(60) DEF OnlyHeld
<1>3. \A u \in Tabs, v \in Slots :
        req'[<<u, v>>].kind = "switch" /\ req'[<<u, v>>].step = "served" =>
          live' \subseteq {req'[<<u, v>>].new}
  BY DEF OnlyHeld
<1> QED BY <1>1, <1>2, <1>3 DEF OnlyHeld

-----------------------------------------------------------------------------
\* ApiClient: a request is sent, whatever it is.
LEMMA SendIsCalm ==
  ASSUME SessionsAssumption, Sound, PromiseIsRefresh, Calm, Alone', NEW t \in Tabs, NEW s \in Slots,
         NEW k \in Kinds \ {"badLogin", "badPassword"}, NEW o \in Orgs \cup {NoOrg},
         Send(t, s, k, o)
  PROVE  Calm'
<1>1. PICK q \in RightRequests : /\ q.step = "sent" /\ q.kind = k /\ q.cookie = Carried(k, cookie)
                                 /\ req' = [req EXCEPT ![<<t, s>>] = q]
  BY SendDoes
<1>2. \A u \in Tabs, v \in Slots : req'[<<u, v>>] = IF u = t /\ v = s THEN q ELSE req[<<u, v>>]
  BY <1>1 DEF Sound, Requests
<1>3. req[<<t, s>>].step = "idle" BY DEF Send
<1>4. UNCHANGED <<live, cookie, user, token, starting, promise, refresh, logouts, ended, left>>
  BY DEF Send
<1>5. k = "login" <=> token[t] = NoAccess BY DEF Send
<1>6. NobodyIsOut' BY <1>4 DEF NobodyIsOut, Calm, Undisturbed
<1>7. UsersAreKnown'
  BY <1>1, <1>2, <1>4, <1>5 DEF UsersAreKnown, Calm, Undisturbed, Refreshes
<1>8. NothingIsWrong' BY ZenonT(60), <1>1, <1>2 DEF NothingIsWrong, Calm, Undisturbed
<1>9. RefreshBringsCookie' BY <1>4 DEF RefreshBringsCookie, Calm, Undisturbed
<1>10. SwitchBringsCookie'
  BY <1>1, <1>2, <1>4 DEF SwitchBringsCookie, Calm, Undisturbed, Carried
<1>11. SuccessorsAreLive' BY <1>1, <1>2, <1>4 DEF SuccessorsAreLive, Calm, Undisturbed
<1>12. CookieIsLive'
  BY <1>1, <1>2, <1>3, <1>4 DEF CookieIsLive, Replaced, Calm, Undisturbed
<1>13. LoadComesFirst'
  <2>1. SUFFICES ASSUME NEW u \in Tabs, Refreshes(u, Silent)'
                 PROVE  /\ token'[u] = NoAccess /\ promise'[u] = NoPromise
                        /\ \A v \in Slots : req'[<<u, v>>].step = "idle"
    BY DEF LoadComesFirst
  <2>2. /\ token[u] = NoAccess /\ promise[u] = NoPromise
        /\ \A v \in Slots : req[<<u, v>>].step = "idle"
    BY <1>4, <2>1 DEF LoadComesFirst, Calm, Undisturbed, Refreshes
  <2>3. u # t
    <3>1. SUFFICES ASSUME u = t PROVE FALSE OBVIOUS
    <3>2. Rotates(t, s)' BY <1>1, <1>2, <1>5, <2>2, <3>1 DEF Rotates
    <3> QED BY <2>1, <3>2 DEF Alone, Refreshers
  <2> QED BY <1>2, <1>4, <2>2, <2>3
<1>14. ASSUME ~left' PROVE OnlyHeld'
  <2>1. OnlyHeld BY <1>4, <1>14 DEF Calm
  <2>2. \A u \in Tabs, v \in Slots : req[<<u, v>>].step = "served" => req'[<<u, v>>] = req[<<u, v>>]
    BY <1>2, <1>3
  <2>3. \A u \in Tabs, v \in Slots : req'[<<u, v>>].step = "served" => req'[<<u, v>>] = req[<<u, v>>]
    BY <1>1, <1>2
  <2>4. \A u \in Tabs, x \in Refreshers : Refreshes(u, x)' <=> Refreshes(u, x)
    BY <1>4 DEF Refreshes
  <2> QED BY <1>4, <2>1, <2>2, <2>3, <2>4, StillHeld, NoTokenIsDead
<1> QED BY <1>6, <1>7, <1>8, <1>9, <1>10, <1>11, <1>12, <1>13, <1>14 DEF Calm, Undisturbed

\* A request ends whose answer changes nothing.
LEMMA AnswerIsCalm ==
  ASSUME SessionsAssumption, Sound, PromiseIsRefresh, Calm, Alone', NEW t \in Tabs, NEW s \in Slots,
         req[<<t, s>>].step # "served",
         \A u \in Tabs, v \in Slots :
           req'[<<u, v>>] = IF u = t /\ v = s THEN IdleRequest ELSE req[<<u, v>>],
         UNCHANGED <<live, cookie, user, token, starting, promise, refresh, logouts, ended, left>>
  PROVE  Calm'
<1>2. \A u \in Tabs, v \in Slots :
        req'[<<u, v>>] = IF u = t /\ v = s THEN IdleRequest ELSE req[<<u, v>>]
  OBVIOUS
<1>3. IdleRequest.step = "idle" /\ IdleRequest.kind = "none" BY DEF IdleRequest
<1>4. NobodyIsOut' BY DEF NobodyIsOut, Calm, Undisturbed
<1>5. UsersAreKnown' BY <1>2, <1>3 DEF UsersAreKnown, Calm, Undisturbed, Refreshes
<1>6. NothingIsWrong' BY <1>2, <1>3 DEF NothingIsWrong, Calm, Undisturbed
<1>7. RefreshBringsCookie' BY DEF RefreshBringsCookie, Calm, Undisturbed
<1>8. SwitchBringsCookie' BY <1>2, <1>3 DEF SwitchBringsCookie, Calm, Undisturbed
<1>9. SuccessorsAreLive' BY <1>2, <1>3 DEF SuccessorsAreLive, Calm, Undisturbed
<1>10. CookieIsLive' BY <1>2, <1>3 DEF CookieIsLive, Replaced, Calm, Undisturbed
<1>11. LoadComesFirst' BY <1>2, <1>3 DEF LoadComesFirst, Calm, Undisturbed, Refreshes
<1>12. ASSUME ~left PROVE OnlyHeld'
  <2>1. \A u \in Tabs, v \in Slots : req[<<u, v>>].step = "served" => req'[<<u, v>>] = req[<<u, v>>]
    BY <1>2
  <2>2. \A u \in Tabs, v \in Slots : req'[<<u, v>>].step = "served" => req'[<<u, v>>] = req[<<u, v>>]
    BY <1>2, <1>3
  <2>3. \A u \in Tabs, x \in Refreshers : Refreshes(u, x)' <=> Refreshes(u, x) BY DEF Refreshes
  <2> QED BY <1>12, <2>1, <2>2, <2>3, StillHeld, NoTokenIsDead DEF Calm
<1> QED BY <1>4, <1>5, <1>6, <1>7, <1>8, <1>9, <1>10, <1>11, <1>12 DEF Calm, Undisturbed

\* A tab restores its session or refreshes for its requests.
LEMMA OneRefresh ==
  ASSUME SessionsAssumption, Sound, PromiseIsRefresh, Undisturbed,
         NEW t \in Tabs, NEW u \in Tabs, NEW x \in Refreshers, NEW y \in Refreshers,
         Refreshes(t, x), Refreshes(u, y)
  PROVE  t = u /\ x = y
<1>1. t = u BY DEF Undisturbed, Alone
<1>2. \A v \in Slots : Refreshes(t, v) => promise[t] = v BY DEF PromiseIsRefresh, Refreshes
<1>3. Refreshes(t, Silent) => promise[t] = NoPromise BY DEF Undisturbed, LoadComesFirst
<1> QED BY <1>1, <1>2, <1>3 DEF Refreshers, SessionsAssumption

\* Without a successor on its way the token of a browser with a user is live.
LEMMA LiveWithUser ==
  ASSUME Undisturbed, NEW t \in Tabs, user[t] # NoOrg,
         \A u \in Tabs, y \in Refreshers : ~ Refreshes(u, y),
         \A u \in Tabs, v \in Slots : ~ Rotates(u, v)
  PROVE  cookie \in live
<1>1. \A u \in Tabs, y \in Refreshers : refresh[<<u, y>>].step # "rotated" BY DEF Refreshes
<1>2. \A u \in Tabs, v \in Slots :
        ~ (req[<<u, v>>].kind = "switch" /\ req[<<u, v>>].step = "served")
  BY DEF Rotates
<1> QED BY <1>1, <1>2 DEF Undisturbed, CookieIsLive, Replaced

\* The first 401: the refresh it begins is the only one, and brings a token that is live.
LEMMA WaitIsCalm ==
  ASSUME SessionsAssumption, Sound, PromiseIsRefresh, Calm, Alone', NEW t \in Tabs, NEW s \in Slots,
         req[<<t, s>>].kind \in {"get", "switch", "password"}, req[<<t, s>>].step = "sent",
         NEW q \in RightRequests, q.step = "waiting", q.kind = req[<<t, s>>].kind,
         req' = [req EXCEPT ![<<t, s>>] = q], PromiseIsRefresh',
         \/ refresh' = refresh
         \/ /\ promise[t] = NoPromise
            /\ \E f \in RightRefreshes : /\ f.step = "sent" /\ f.cookie = cookie
                                         /\ refresh' = [refresh EXCEPT ![<<t, s>>] = f],
         \A u \in Tabs : u # t => promise'[u] = promise[u],
         UNCHANGED <<live, cookie, user, token, starting, logouts, ended, left>>
  PROVE  Calm'
<1>1. \A u \in Tabs, v \in Slots : req'[<<u, v>>] = IF u = t /\ v = s THEN q ELSE req[<<u, v>>]
  BY DEF Sound, Requests
<1>2. UNCHANGED <<live, cookie, user, token, starting, logouts, ended, left>> OBVIOUS
<1>3. user[t] # NoOrg BY DEF Calm, Undisturbed, UsersAreKnown
<1>4. NobodyIsOut' BY <1>2 DEF NobodyIsOut, Calm, Undisturbed
<1>5. NothingIsWrong'
  <2>1. SUFFICES ASSUME NEW u \in Tabs, NEW v \in Slots
                 PROVE  /\ req'[<<u, v>>].kind \notin {"badLogin", "badPassword"}
                        /\ req'[<<u, v>>].step = "served" => req'[<<u, v>>].kind # "password"
    BY DEF NothingIsWrong
  <2>2. /\ req[<<u, v>>].kind \notin {"badLogin", "badPassword"}
        /\ req[<<u, v>>].step = "served" => req[<<u, v>>].kind # "password"
    BY DEF NothingIsWrong, Calm, Undisturbed
  <2>3. req'[<<u, v>>] = IF u = t /\ v = s THEN q ELSE req[<<u, v>>] BY <1>1
  <2> QED BY <2>2, <2>3
<1>6. SwitchBringsCookie' BY <1>1, <1>2 DEF SwitchBringsCookie, Calm, Undisturbed
<1>7. ~ Refreshes(t, Silent) BY DEF Calm, Undisturbed, LoadComesFirst
<1>8. \A u \in Tabs, v \in Slots : req[<<u, v>>].step = "served" => req'[<<u, v>>] = req[<<u, v>>]
  BY <1>1
<1>9. \A u \in Tabs, v \in Slots : req'[<<u, v>>].step = "served" => req'[<<u, v>>] = req[<<u, v>>]
  BY <1>1
<1>10. CASE refresh' = refresh
  <2>1. UsersAreKnown'
    BY <1>1, <1>2, <1>10 DEF UsersAreKnown, Calm, Undisturbed, Refreshes
  <2>2. RefreshBringsCookie' BY <1>2, <1>10 DEF RefreshBringsCookie, Calm, Undisturbed
  <2>3. SuccessorsAreLive' BY <1>2, <1>8, <1>9, <1>10 DEF SuccessorsAreLive, Calm, Undisturbed
  <2>4. CookieIsLive' BY SMTT(60), <1>2, <1>8, <1>9, <1>10 DEF CookieIsLive, Replaced, Calm, Undisturbed
  <2>5. LoadComesFirst'
    BY <1>1, <1>2, <1>7, <1>10 DEF LoadComesFirst, Calm, Undisturbed, Refreshes
  <2>7. \A u \in Tabs, x \in Refreshers : Refreshes(u, x)' <=> Refreshes(u, x)
    BY <1>10 DEF Refreshes
  <2>6. ~left' => OnlyHeld'
    BY <1>2, <1>8, <1>9, <1>10, <2>7, StillHeld, NoTokenIsDead DEF Calm
  <2> QED BY <1>4, <1>5, <1>6, <2>1, <2>2, <2>3, <2>4, <2>5, <2>6 DEF Calm, Undisturbed
<1>11. ASSUME promise[t] = NoPromise, NEW f \in RightRefreshes, f.step = "sent", f.cookie = cookie,
              refresh' = [refresh EXCEPT ![<<t, s>>] = f]
       PROVE  Calm'
  <2>1. s \in Refreshers BY DEF Refreshers
  <2>2. \A u \in Tabs, y \in Refreshers :
          refresh'[<<u, y>>] = IF u = t /\ y = s THEN f ELSE refresh[<<u, y>>]
    BY <1>11, <2>1 DEF Sound
  <2>3. Refreshes(t, s)' BY <1>11, <2>1, <2>2 DEF Refreshes
  <2>4. \A v \in Slots : ~ Refreshes(t, v)
    BY <1>11 DEF PromiseIsRefresh, Refreshes, SessionsAssumption
  <2>5. \A u \in Tabs, y \in Refreshers : ~ Refreshes(u, y)
    <3>1. SUFFICES ASSUME NEW u \in Tabs, NEW y \in Refreshers, Refreshes(u, y) PROVE FALSE
      OBVIOUS
    <3>2. u # t BY <1>7, <2>4, <3>1 DEF Refreshers
    <3>3. Refreshes(u, y)' BY <2>2, <3>1, <3>2 DEF Refreshes
    <3> QED BY <2>1, <2>3, <3>2, <3>3 DEF Alone
  <2>6. \A u \in Tabs, v \in Slots : ~ Rotates(u, v)'
    BY <2>1, <2>3 DEF Alone
  <2>7. \A u \in Tabs, v \in Slots : u # t \/ v # s => ~ Rotates(u, v)
    BY <1>1, <2>6 DEF Rotates
  <2>8. \A u \in Tabs, v \in Slots : req[<<u, v>>].step = "served" => FALSE
    <3>1. SUFFICES ASSUME NEW u \in Tabs, NEW v \in Slots, req[<<u, v>>].step = "served" PROVE FALSE
      OBVIOUS
    <3>2. req[<<u, v>>] \in RightRequests BY Elements
    <3>3. Rotates(u, v) BY <3>1, <3>2 DEF RightRequests, Right, Rotates
    <3> QED BY <2>7, <3>1, <3>3
  <2>9. cookie \in live
    <3>1. \A u \in Tabs, y \in Refreshers : refresh[<<u, y>>].step # "rotated"
      BY <2>5 DEF Refreshes
    <3> QED BY <1>3, <2>8, <3>1 DEF Calm, Undisturbed, CookieIsLive, Replaced
  <2>10. \A u \in Tabs, y \in Refreshers : u # t \/ y # s => refresh'[<<u, y>>].step = "idle"
    BY <2>2, <2>5 DEF Refreshes
  <2>11. refresh'[<<t, s>>] = f BY <2>1, <2>2
  <2>12. UsersAreKnown'
    BY <1>1, <1>2, <1>3, <2>10 DEF UsersAreKnown, Calm, Undisturbed, Refreshes
  <2>13. RefreshBringsCookie' BY <1>2, <1>11, <2>9, <2>10, <2>11 DEF RefreshBringsCookie
  <2>14. \A u \in Tabs, v \in Slots : req'[<<u, v>>].step # "served" BY <1>9, <2>8
  <2>15. SuccessorsAreLive' BY <1>11, <2>10, <2>11, <2>14 DEF SuccessorsAreLive
  <2>16. CookieIsLive' BY <1>2, <2>9 DEF CookieIsLive
  <2>17. LoadComesFirst' BY <2>1, <2>10 DEF LoadComesFirst, Refreshes, SessionsAssumption, Refreshers
  <2>18. ASSUME ~left PROVE OnlyHeld'
    <3>1. \A n \in live : cookie = n BY <2>5, <2>8, <2>18 DEF OnlyHeld, Calm
    <3> QED BY <1>2, <1>11, <2>10, <2>11, <2>14, <3>1 DEF OnlyHeld
  <2> QED BY <1>2, <1>4, <1>5, <1>6, <2>12, <2>13, <2>15, <2>16, <2>17, <2>18 DEF Calm, Undisturbed
<1> QED BY <1>10, <1>11

\* A request that rotates the token does so alone.
LEMMA OneRotates ==
  ASSUME Sound, Undisturbed, NEW t \in Tabs, NEW s \in Slots, Rotates(t, s)
  PROVE  /\ \A u \in Tabs, y \in Refreshers : refresh[<<u, y>>].step = "idle"
         /\ \A u \in Tabs, v \in Slots : u # t \/ v # s => req[<<u, v>>].step # "served"
         /\ \A u \in Tabs, v \in Slots : u # t \/ v # s =>
              ~ (req[<<u, v>>].kind = "switch" /\ req[<<u, v>>].step \in {"sent", "resent"})
<1>1. \A u \in Tabs, y \in Refreshers : ~ Refreshes(u, y) BY DEF Undisturbed, Alone
<1>2. \A u \in Tabs, v \in Slots : u # t \/ v # s => ~ Rotates(u, v) BY DEF Undisturbed, Alone
<1>3. ASSUME NEW u \in Tabs, NEW v \in Slots, u # t \/ v # s, req[<<u, v>>].step = "served"
      PROVE  FALSE
  <2>1. req[<<u, v>>] \in RightRequests BY Elements
  <2>2. Rotates(u, v) BY <1>3, <2>1 DEF RightRequests, Right, Rotates
  <2> QED BY <1>2, <1>3, <2>2
<1>4. \A u \in Tabs, v \in Slots : u # t \/ v # s =>
        ~ (req[<<u, v>>].kind = "switch" /\ req[<<u, v>>].step \in {"sent", "resent"})
  BY <1>2 DEF Rotates
<1> QED BY <1>1, <1>3, <1>4 DEF Refreshes

\* A login or a switch is served: its row is new, and that of the switch replaces the one
\* of the browser.
LEMMA ServeIsCalm ==
  ASSUME SessionsAssumption, Sound, PromiseIsRefresh, Calm, Alone', NEW t \in Tabs, NEW s \in Slots,
         NEW n \in Tokens, NEW q \in RightRequests, q.step = "served", q.new = n,
         q.kind = req[<<t, s>>].kind, req' = [req EXCEPT ![<<t, s>>] = q],
         req[<<t, s>>].step \in {"sent", "resent"},
         \/ req[<<t, s>>].kind = "login" /\ live' = live \cup {n}
         \/ req[<<t, s>>].kind = "switch" /\ live' = Revoked(req[<<t, s>>].cookie) \cup {n},
         UNCHANGED <<cookie, user, token, starting, promise, refresh, logouts, ended, left>>
  PROVE  Calm'
<1>1. \A u \in Tabs, v \in Slots : req'[<<u, v>>] = IF u = t /\ v = s THEN q ELSE req[<<u, v>>]
  BY DEF Sound, Requests
<1>2. UNCHANGED <<cookie, user, token, starting, promise, refresh, logouts, ended, left>> OBVIOUS
<1>3. Rotates(t, s) BY DEF Rotates
<1>4. /\ \A u \in Tabs, y \in Refreshers : refresh[<<u, y>>].step = "idle"
      /\ \A u \in Tabs, v \in Slots : u # t \/ v # s => req[<<u, v>>].step # "served"
      /\ \A u \in Tabs, v \in Slots : u # t \/ v # s =>
           ~ (req[<<u, v>>].kind = "switch" /\ req[<<u, v>>].step \in {"sent", "resent"})
  BY <1>3, OneRotates DEF Calm
<1>5. \A u \in Tabs, v \in Slots : u # t \/ v # s => req'[<<u, v>>].step # "served"
  BY <1>1, <1>4
<1>6. req'[<<t, s>>] = q BY <1>1
<1>7. n \in live' OBVIOUS
<1>8. \A u \in Tabs, v \in Slots : req'[<<u, v>>].kind = req[<<u, v>>].kind BY <1>1
<1>9. NobodyIsOut' BY <1>2 DEF NobodyIsOut, Calm, Undisturbed
<1>10. UsersAreKnown' BY <1>2, <1>8 DEF UsersAreKnown, Calm, Undisturbed, Refreshes
<1>11. q.kind # "password" OBVIOUS
<1>12. NothingIsWrong' BY <1>5, <1>6, <1>8, <1>11 DEF NothingIsWrong, Calm, Undisturbed
<1>13. RefreshBringsCookie' BY <1>2, <1>4 DEF RefreshBringsCookie
<1>14. SwitchBringsCookie'
  <2>1. SUFFICES ASSUME NEW u \in Tabs, NEW v \in Slots, req'[<<u, v>>].kind = "switch",
                        req'[<<u, v>>].step \in {"sent", "resent"}
                 PROVE  FALSE
    BY DEF SwitchBringsCookie
  <2>2. CASE u = t /\ v = s BY <1>6, <2>1, <2>2
  <2>3. CASE u # t \/ v # s BY <1>1, <1>4, <2>1, <2>3
  <2> QED BY <2>2, <2>3
<1>15. SuccessorsAreLive'
  <2>1. \A u \in Tabs, x \in Refreshers : refresh'[<<u, x>>].step # "rotated" BY <1>2, <1>4
  <2>2. \A u \in Tabs, v \in Slots : req'[<<u, v>>].step = "served" => req'[<<u, v>>].new \in live'
    BY <1>5, <1>6, <1>7
  <2> QED BY <2>1, <2>2 DEF SuccessorsAreLive
<1>16. CookieIsLive'
  <2>1. CASE req[<<t, s>>].kind = "login"
    <3>1. live' = live \cup {n} BY <2>1
    <3>2. Replaced => FALSE BY <1>4, <2>1 DEF Replaced
    <3> QED BY <1>2, <3>1, <3>2 DEF CookieIsLive, Calm, Undisturbed
  <2>2. CASE req[<<t, s>>].kind = "switch" BY <1>6, <2>2 DEF CookieIsLive, Replaced
  <2> QED BY <2>1, <2>2
<1>17. LoadComesFirst' BY <1>2, <1>4 DEF LoadComesFirst, Refreshes, Refreshers
<1>18. ASSUME ~left PROVE OnlyHeld'
  <2>1. \A m \in live : cookie = m
    <3>1. \A u \in Tabs, v \in Slots : req[<<u, v>>].step # "served"
      <4>1. req[<<t, s>>].step # "served" OBVIOUS
      <4> QED BY <1>4, <4>1
    <3>2. \A u \in Tabs, x \in Refreshers : ~ Refreshes(u, x) BY <1>4 DEF Refreshes
    <3>3. OnlyHeld BY <1>18 DEF Calm
    <3>4. \A m \in live : \/ cookie = m
                          \/ \E u \in Tabs, v \in Slots : req[<<u, v>>].step = "served"
                          \/ \E u \in Tabs, x \in Refreshers : Refreshes(u, x)
      BY SMTT(60), <3>3 DEF OnlyHeld
    <3> QED BY <3>1, <3>2, <3>4
  <2>2. \A m \in live' : cookie = m \/ m = n BY <2>1 DEF Revoked
  <2>3. req[<<t, s>>].kind = "switch" => live' \subseteq {n}
    <3>1. SUFFICES ASSUME req[<<t, s>>].kind = "switch" PROVE live' \subseteq {n} OBVIOUS
    <3>2. req[<<t, s>>].cookie = cookie BY <3>1 DEF SwitchBringsCookie, Calm, Undisturbed
    <3> QED BY <2>1, <3>1, <3>2 DEF Revoked
  <2>4. \A m \in live' : \/ cookie' = m
                         \/ \E u \in Tabs, v \in Slots :
                              req'[<<u, v>>].step = "served" /\ req'[<<u, v>>].new = m
    BY <1>2, <1>6, <2>2
  <2>5. \A u \in Tabs, x \in Refreshers : refresh'[<<u, x>>].step # "rotated" BY <1>2, <1>4
  <2>6. \A u \in Tabs, v \in Slots :
          req'[<<u, v>>].kind = "switch" /\ req'[<<u, v>>].step = "served" =>
            live' \subseteq {req'[<<u, v>>].new}
    BY <1>5, <1>6, <2>3
  <2> QED BY <2>4, <2>5, <2>6 DEF OnlyHeld
<1> QED BY <1>2, <1>9, <1>10, <1>12, <1>13, <1>14, <1>15, <1>16, <1>17, <1>18 DEF Calm, Undisturbed

\* The answer of a login or a switch: its token, which is live, becomes the browser's.
LEMMA ArriveIsCalm ==
  ASSUME SessionsAssumption, Sound, PromiseIsRefresh, Calm, Alone', NEW t \in Tabs, NEW s \in Slots,
         Arrive(t, s)
  PROVE  Calm'
<1> DEFINE q == req[<<t, s>>]
<1>1. /\ q.kind \in {"login", "switch"} /\ q.step = "served" /\ cookie' = q.new
      /\ UNCHANGED <<live, starting, promise, refresh, logouts>>
      /\ left' = (left \/ (q.kind = "login" /\ cookie # NoToken))
      /\ req' = Finish(t, {s})
  BY DEF Arrive, Arrives
<1>2. q.org \in Orgs /\ q.new \in Tokens BY ArriveDoes
<1>3. \A u \in Tabs : /\ user'[u] = IF u = t THEN q.org ELSE user[u]
                      /\ token'[u] = IF u = t THEN [org |-> q.org, age |-> "fresh"] ELSE token[u]
                      /\ ended'[u] = IF u = t THEN "by user" ELSE ended[u]
  <2>1. /\ user' = [user EXCEPT ![t] = q.org] /\ ended' = [ended EXCEPT ![t] = "by user"]
        /\ token' = [token EXCEPT ![t] = [org |-> q.org, age |-> "fresh"]]
    BY DEF Arrive, Arrives
  <2> HIDE DEF q
  <2> QED BY <2>1 DEF Sound
<1>4. \A u \in Tabs, v \in Slots :
        req'[<<u, v>>] = IF u = t /\ v = s THEN IdleRequest ELSE req[<<u, v>>]
  BY <1>1, FinishOne
<1>5. IdleRequest.step = "idle" /\ IdleRequest.kind = "none" BY DEF IdleRequest
<1>6. Rotates(t, s) BY <1>1 DEF Rotates
<1>7. /\ \A u \in Tabs, y \in Refreshers : refresh[<<u, y>>].step = "idle"
      /\ \A u \in Tabs, v \in Slots : u # t \/ v # s => req[<<u, v>>].step # "served"
      /\ \A u \in Tabs, v \in Slots : u # t \/ v # s =>
           ~ (req[<<u, v>>].kind = "switch" /\ req[<<u, v>>].step \in {"sent", "resent"})
  BY <1>6, OneRotates DEF Calm
<1>8. \A u \in Tabs, v \in Slots : req'[<<u, v>>].step # "served" BY <1>4, <1>5, <1>7
<1>9. \A u \in Tabs, y \in Refreshers : refresh'[<<u, y>>].step = "idle" BY <1>1, <1>7
<1>10. q.new \in live BY <1>1 DEF Calm, Undisturbed, SuccessorsAreLive
<1>11. NobodyIsOut'
  <2>1. \A u \in Tabs : ended'[u] # "forced" BY <1>3 DEF NobodyIsOut, Calm, Undisturbed
  <2> QED BY <1>1, <2>1 DEF NobodyIsOut, Calm, Undisturbed
<1>12. \A u \in Tabs : user[u] # NoOrg => user'[u] # NoOrg BY <1>2, <1>3 DEF SessionsAssumption
<1>13. user'[t] # NoOrg BY <1>2, <1>3 DEF SessionsAssumption
<1>14. \A u \in Tabs, v \in Slots :
         req'[<<u, v>>].kind # "none" => req'[<<u, v>>] = req[<<u, v>>]
  BY <1>4, <1>5
<1>15. UsersAreKnown'
  <2>1. \A u \in Tabs : token'[u] # NoAccess => user'[u] # NoOrg
    <3>1. SUFFICES ASSUME NEW u \in Tabs, token'[u] # NoAccess, u # t PROVE user'[u] # NoOrg
      BY <1>13
    <3>2. token[u] # NoAccess BY <1>3, <3>1
    <3> QED BY <1>12, <3>2 DEF UsersAreKnown, Calm, Undisturbed
  <2>2. \A u \in Tabs, v \in Slots :
          req'[<<u, v>>].kind \in {"get", "switch", "password"} => user'[u] # NoOrg
    BY <1>12, <1>14 DEF UsersAreKnown, Calm, Undisturbed
  <2> QED BY <1>9, <2>1, <2>2 DEF UsersAreKnown, Refreshes
<1>16. NothingIsWrong' BY <1>8, <1>4, <1>5 DEF NothingIsWrong, Calm, Undisturbed
<1>17. RefreshBringsCookie' BY <1>9 DEF RefreshBringsCookie
<1>18. SwitchBringsCookie'
  <2>1. \A u \in Tabs, v \in Slots :
          ~ (req'[<<u, v>>].kind = "switch" /\ req'[<<u, v>>].step \in {"sent", "resent"})
    BY <1>4, <1>5, <1>7
  <2> QED BY <2>1 DEF SwitchBringsCookie
<1>19. SuccessorsAreLive' BY <1>8, <1>9 DEF SuccessorsAreLive
<1>20. CookieIsLive' BY <1>1, <1>10 DEF CookieIsLive
<1>21. LoadComesFirst' BY <1>9 DEF LoadComesFirst, Refreshes, Refreshers
<1>22. ASSUME ~left' PROVE OnlyHeld'
  <2>1. OnlyHeld BY <1>1, <1>22 DEF Calm
  <2>2. live \subseteq {q.new}
    <3>1. CASE q.kind = "switch" BY <1>1, <2>1, <3>1 DEF OnlyHeld
    <3>2. CASE q.kind = "login"
      <4>1. cookie = NoToken BY <1>1, <1>22, <3>2
      <4>2. NoToken \notin live BY NoTokenIsDead
      <4>3. \A u \in Tabs, v \in Slots : req[<<u, v>>].step = "served" => u = t /\ v = s BY <1>7
      <4>4. \A u \in Tabs, x \in Refreshers : ~ Refreshes(u, x) BY <1>7 DEF Refreshes
      <4>5. SUFFICES ASSUME NEW n \in live PROVE n = q.new OBVIOUS
      <4>6. cookie # n BY <4>1, <4>2
      <4>7. PICK u \in Tabs, v \in Slots : req[<<u, v>>].step = "served" /\ req[<<u, v>>].new = n
        BY <2>1, <4>4, <4>6 DEF OnlyHeld
      <4> QED BY <4>3, <4>7
    <3> QED BY <1>1, <3>1, <3>2
  <2>3. \A m \in live' : cookie' = m BY <1>1, <2>2
  <2> QED BY <1>8, <1>9, <2>3 DEF OnlyHeld
<1> QED BY <1>11, <1>15, <1>16, <1>17, <1>18, <1>19, <1>20, <1>21, <1>22 DEF Calm, Undisturbed

\* What refreshes, refreshes alone.
LEMMA RefreshAlone ==
  ASSUME SessionsAssumption, Sound, PromiseIsRefresh, Undisturbed, NEW t \in Tabs,
         NEW x \in Refreshers, Refreshes(t, x)
  PROVE  /\ \A u \in Tabs, y \in Refreshers : u # t \/ y # x => refresh[<<u, y>>].step = "idle"
         /\ \A u \in Tabs, v \in Slots : req[<<u, v>>].step # "served"
         /\ \A u \in Tabs, v \in Slots :
              ~ (req[<<u, v>>].kind = "switch" /\ req[<<u, v>>].step \in {"sent", "resent"})
<1>1. \A u \in Tabs, y \in Refreshers : u # t \/ y # x => ~ Refreshes(u, y) BY OneRefresh
<1>2. \A u \in Tabs, v \in Slots : ~ Rotates(u, v) BY DEF Undisturbed, Alone
<1>3. ASSUME NEW u \in Tabs, NEW v \in Slots, req[<<u, v>>].step = "served" PROVE FALSE
  <2>1. req[<<u, v>>] \in RightRequests BY Elements
  <2>2. Rotates(u, v) BY <1>3, <2>1 DEF RightRequests, Right, Rotates
  <2> QED BY <1>2, <2>2
<1>4. \A u \in Tabs, v \in Slots :
        ~ (req[<<u, v>>].kind = "switch" /\ req[<<u, v>>].step \in {"sent", "resent"})
  BY <1>2 DEF Rotates
<1> QED BY <1>1, <1>3, <1>4 DEF Refreshes

\* No row is of a cookie that is missing.
LEMMA NobodyHasNoToken ==
  ASSUME SessionsAssumption, Sound
  PROVE  NoToken \notin live
<1>1. \A n \in 1 .. MaxTokens : n # 0 BY DEF SessionsAssumption
<1> QED BY <1>1 DEF Sound, Tokens, NoToken

\* The row of the token is read: it is live, so the refresh goes on.
LEMMA ReadIsCalm ==
  ASSUME SessionsAssumption, Sound, PromiseIsRefresh, Calm, Alone', NEW t \in Tabs,
         NEW x \in Refreshers, Read(t, x)
  PROVE  Calm'
<1>1. refresh[<<t, x>>].step = "sent" BY DEF Read
<1>2. refresh[<<t, x>>].cookie \in live
  BY <1>1 DEF Calm, Undisturbed, RefreshBringsCookie
<1>3. /\ refresh' = [refresh EXCEPT ![<<t, x>>].step = "read"]
      /\ UNCHANGED <<live, cookie, user, token, starting, promise, req, logouts, ended, left>>
  <2>1. ~Missing(refresh[<<t, x>>]) BY <1>2, NobodyHasNoToken DEF Missing
  <2> QED BY <1>2, <2>1 DEF Read
<1>4. refresh[<<t, x>>] \in RefreshRecord BY Elements DEF RightRefreshes
<1>5. \A u \in Tabs, y \in Refreshers :
        IF u = t /\ y = x
        THEN /\ refresh'[<<u, y>>].step = "read" /\ refresh'[<<u, y>>].new = refresh[<<u, y>>].new
             /\ refresh'[<<u, y>>].cookie = refresh[<<u, y>>].cookie
        ELSE refresh'[<<u, y>>] = refresh[<<u, y>>]
  BY <1>3, <1>4 DEF Sound, RefreshRecord
<1>6. \A u \in Tabs, y \in Refreshers : Refreshes(u, y)' <=> Refreshes(u, y)
  BY <1>1, <1>5 DEF Refreshes
<1>7. NobodyIsOut' BY <1>3 DEF NobodyIsOut, Calm, Undisturbed
<1>8. UsersAreKnown' BY <1>3, <1>6 DEF UsersAreKnown, Calm, Undisturbed
<1>9. NothingIsWrong' BY <1>3 DEF NothingIsWrong, Calm, Undisturbed
<1>10. RefreshBringsCookie'
  <2>1. SUFFICES ASSUME NEW u \in Tabs, NEW y \in Refreshers,
                        refresh'[<<u, y>>].step \in {"sent", "read"}
                 PROVE  refresh'[<<u, y>>].cookie = cookie /\ cookie \in live
    BY <1>3 DEF RefreshBringsCookie
  <2>2. refresh[<<u, y>>].step \in {"sent", "read"} /\ refresh'[<<u, y>>].cookie = refresh[<<u, y>>].cookie
    BY <1>1, <1>5, <2>1
  <2> QED BY <2>2 DEF RefreshBringsCookie, Calm, Undisturbed
<1>11. SwitchBringsCookie' BY <1>3 DEF SwitchBringsCookie, Calm, Undisturbed
<1>12. \A u \in Tabs, y \in Refreshers : refresh'[<<u, y>>].step = "rotated" =>
         refresh'[<<u, y>>] = refresh[<<u, y>>]
  BY <1>5
<1>13. SuccessorsAreLive' BY <1>3, <1>12 DEF SuccessorsAreLive, Calm, Undisturbed
<1>14. \A u \in Tabs, y \in Refreshers : refresh[<<u, y>>].step = "rotated" =>
         refresh'[<<u, y>>] = refresh[<<u, y>>]
  BY <1>1, <1>5
<1>15. CookieIsLive' BY <1>3, <1>14 DEF CookieIsLive, Replaced, Calm, Undisturbed
<1>16. LoadComesFirst' BY <1>3, <1>6 DEF LoadComesFirst, Calm, Undisturbed, Refreshers
<1>17. ASSUME ~left PROVE OnlyHeld'
  <2>1. OnlyHeld BY <1>17 DEF Calm
  <2>2. \A u \in Tabs, y \in Refreshers : refresh'[<<u, y>>].new = refresh[<<u, y>>].new BY <1>5
  <2> QED BY <1>3, <1>6, <1>12, <2>1, <2>2, StillHeld, NoTokenIsDead
<1> QED BY <1>3, <1>7, <1>8, <1>9, <1>10, <1>11, <1>13, <1>15, <1>16, <1>17 DEF Calm, Undisturbed

\* The transaction: the successor replaces the only token that is live.
LEMMA RotateIsCalm ==
  ASSUME SessionsAssumption, Sound, PromiseIsRefresh, Calm, Alone', NEW t \in Tabs,
         NEW x \in Refreshers, Rotate(t, x)
  PROVE  Calm'
<1> DEFINE f == refresh[<<t, x>>]
<1>1. PICK n \in Tokens :
        /\ live' = Revoked(f.cookie) \cup {n}
        /\ refresh' = [refresh EXCEPT ![<<t, x>>] =
                         [step |-> "rotated", cookie |-> NoToken, new |-> n]]
  BY DEF Rotate
<1>2. f.step = "read" /\ UNCHANGED <<cookie, user, token, starting, promise, req, logouts, ended, left>>
  BY DEF Rotate
<1>3. \A u \in Tabs, y \in Refreshers :
        IF u = t /\ y = x
        THEN refresh'[<<u, y>>].step = "rotated" /\ refresh'[<<u, y>>].new = n
        ELSE refresh'[<<u, y>>] = refresh[<<u, y>>]
  BY <1>1 DEF Sound
<1>4. Refreshes(t, x) BY <1>2 DEF Refreshes
<1>5. /\ \A u \in Tabs, y \in Refreshers : u # t \/ y # x => refresh[<<u, y>>].step = "idle"
      /\ \A u \in Tabs, v \in Slots : req[<<u, v>>].step # "served"
      /\ \A u \in Tabs, v \in Slots :
           ~ (req[<<u, v>>].kind = "switch" /\ req[<<u, v>>].step \in {"sent", "resent"})
  BY <1>4, RefreshAlone DEF Calm
<1>6. \A u \in Tabs, y \in Refreshers : u # t \/ y # x => refresh'[<<u, y>>].step = "idle"
  BY <1>3, <1>5
<1>7. refresh'[<<t, x>>].step = "rotated" /\ refresh'[<<t, x>>].new = n BY <1>3
<1>8. \A u \in Tabs, y \in Refreshers : Refreshes(u, y)' <=> Refreshes(u, y)
  BY <1>3, <1>4, <1>7 DEF Refreshes
<1>9. f.cookie = cookie BY <1>2 DEF Calm, Undisturbed, RefreshBringsCookie
<1>10. NobodyIsOut' BY <1>2 DEF NobodyIsOut, Calm, Undisturbed
<1>11. UsersAreKnown' BY <1>2, <1>8 DEF UsersAreKnown, Calm, Undisturbed
<1>12. NothingIsWrong' BY <1>2 DEF NothingIsWrong, Calm, Undisturbed
<1>13. RefreshBringsCookie'
  <2>1. \A u \in Tabs, y \in Refreshers : refresh'[<<u, y>>].step \notin {"sent", "read"}
    BY <1>6, <1>7
  <2> QED BY <2>1 DEF RefreshBringsCookie
<1>14. SwitchBringsCookie' BY <1>2 DEF SwitchBringsCookie, Calm, Undisturbed
<1>15. SuccessorsAreLive'
  <2>1. n \in live' BY <1>1
  <2>2. \A u \in Tabs, y \in Refreshers : refresh'[<<u, y>>].step = "rotated" =>
          refresh'[<<u, y>>].new \in live'
    BY <1>6, <1>7, <2>1
  <2>3. \A u \in Tabs, v \in Slots : req'[<<u, v>>].step # "served" BY <1>2, <1>5
  <2> QED BY <2>2, <2>3 DEF SuccessorsAreLive
<1>16. CookieIsLive' BY <1>7 DEF CookieIsLive, Replaced
<1>17. LoadComesFirst' BY <1>2, <1>8 DEF LoadComesFirst, Calm, Undisturbed, Refreshers
<1>18. ASSUME ~left PROVE OnlyHeld'
  <2>1. OnlyHeld BY <1>18 DEF Calm
  <2>2. f.new = NoToken
    <3>1. f \in RightRefreshes BY Elements
    <3> QED BY <1>2, <3>1 DEF RightRefreshes
  <2>3. NoToken \notin live BY NoTokenIsDead
  <2>4. \A m \in live : cookie = m
    <3>1. SUFFICES ASSUME NEW m \in live PROVE cookie = m OBVIOUS
    <3>2. ~ \E u \in Tabs, v \in Slots : req[<<u, v>>].step = "served" /\ req[<<u, v>>].new = m
      BY <1>5
    <3>3. ~ \E u \in Tabs, y \in Refreshers : Refreshes(u, y) /\ refresh[<<u, y>>].new = m
      BY <1>5, <2>2, <2>3 DEF Refreshes
    <3> QED BY <2>1, <3>2, <3>3 DEF OnlyHeld
  <2>5. live' = {n} BY <1>1, <1>9, <2>4 DEF Revoked
  <2>6. Refreshes(t, x)' BY <1>4, <1>8
  <2>7. \A m \in live' :
          \E u \in Tabs, y \in Refreshers : Refreshes(u, y)' /\ refresh'[<<u, y>>].new = m
    BY <1>7, <2>5, <2>6
  <2>8. \A u \in Tabs, y \in Refreshers : refresh'[<<u, y>>].step = "rotated" =>
          live' \subseteq {refresh'[<<u, y>>].new}
    BY <1>6, <1>7, <2>5
  <2>9. \A u \in Tabs, v \in Slots : req'[<<u, v>>].step # "served" BY <1>2, <1>5
  <2> QED BY <2>7, <2>8, <2>9 DEF OnlyHeld
<1> QED BY <1>2, <1>10, <1>11, <1>12, <1>13, <1>14, <1>15, <1>16, <1>17, <1>18 DEF Calm, Undisturbed

\* The answer of a refresh: the browser has the successor, and whoever waited sends again.
LEMMA RefreshedIsCalm ==
  ASSUME SessionsAssumption, Sound, PromiseIsRefresh, Calm, Alone', NEW t \in Tabs,
         NEW x \in Refreshers, Refreshed(t, x)
  PROVE  Calm'
<1> DEFINE n == refresh[<<t, x>>].new
<1>1. /\ cookie' = n
      /\ \A u \in Tabs, v \in Slots :
           \/ req'[<<u, v>>] = req[<<u, v>>]
           \/ u = t /\ SentAgain(req[<<u, v>>], req'[<<u, v>>], cookie')
      /\ \A u \in Tabs, y \in Refreshers :
           refresh'[<<u, y>>] = IF u = t /\ y = x THEN IdleRefresh ELSE refresh[<<u, y>>]
  BY RefreshedDoes
<1>2. refresh[<<t, x>>].step = "rotated" /\ UNCHANGED <<live, user, logouts, ended, left>>
  BY DEF Refreshed, EndRefresh
<1>3. IdleRefresh.step = "idle" BY DEF IdleRefresh
<1>4. Refreshes(t, x) BY <1>2 DEF Refreshes
<1>5. /\ \A u \in Tabs, y \in Refreshers : u # t \/ y # x => refresh[<<u, y>>].step = "idle"
      /\ \A u \in Tabs, v \in Slots : req[<<u, v>>].step # "served"
      /\ \A u \in Tabs, v \in Slots :
           ~ (req[<<u, v>>].kind = "switch" /\ req[<<u, v>>].step \in {"sent", "resent"})
  BY <1>4, RefreshAlone DEF Calm
<1>6. \A u \in Tabs, y \in Refreshers : refresh'[<<u, y>>].step = "idle" BY <1>1, <1>3, <1>5
<1>7. \A u \in Tabs, v \in Slots : req'[<<u, v>>].step # "served"
  <2>1. SUFFICES ASSUME NEW u \in Tabs, NEW v \in Slots PROVE req'[<<u, v>>].step # "served"
    OBVIOUS
  <2>2. req'[<<u, v>>] = req[<<u, v>>] \/ req'[<<u, v>>].step = "resent"
    BY <1>1 DEF SentAgain
  <2> QED BY <1>5, <2>2
<1>8. \A u \in Tabs, v \in Slots : req'[<<u, v>>].kind = req[<<u, v>>].kind
  <2>1. SUFFICES ASSUME NEW u \in Tabs, NEW v \in Slots
                 PROVE  req'[<<u, v>>].kind = req[<<u, v>>].kind
    OBVIOUS
  <2> QED BY <1>1 DEF SentAgain
<1>9. n \in live BY <1>2 DEF Calm, Undisturbed, SuccessorsAreLive
<1>10. user[t] # NoOrg BY <1>4 DEF UsersAreKnown, Calm, Undisturbed
<1>11. NobodyIsOut' BY <1>2 DEF NobodyIsOut, Calm, Undisturbed
<1>12. UsersAreKnown'
  <2>1. \A u \in Tabs : u # t => token'[u] = token[u] BY DEF Refreshed, Sound
  <2>2. \A u \in Tabs : token'[u] # NoAccess => user'[u] # NoOrg
    BY <1>2, <1>10, <2>1 DEF UsersAreKnown, Calm, Undisturbed
  <2>3. \A u \in Tabs, v \in Slots :
          req'[<<u, v>>].kind \in {"get", "switch", "password"} => user'[u] # NoOrg
    BY <1>2, <1>8 DEF UsersAreKnown, Calm, Undisturbed
  <2> QED BY <1>6, <2>2, <2>3 DEF UsersAreKnown, Refreshes
<1>13. NothingIsWrong' BY <1>7, <1>8 DEF NothingIsWrong, Calm, Undisturbed
<1>14. RefreshBringsCookie' BY <1>6 DEF RefreshBringsCookie
<1>15. SwitchBringsCookie'
  <2>1. SUFFICES ASSUME NEW u \in Tabs, NEW v \in Slots, req'[<<u, v>>].kind = "switch",
                        req'[<<u, v>>].step \in {"sent", "resent"}
                 PROVE  req'[<<u, v>>].cookie = cookie'
    BY DEF SwitchBringsCookie
  <2>2. req'[<<u, v>>] # req[<<u, v>>] BY <1>5, <2>1
  <2>3. req'[<<u, v>>].cookie = Carried(req[<<u, v>>].kind, cookie')
    BY <1>1, <2>2 DEF SentAgain
  <2> QED BY <1>8, <2>1, <2>3 DEF Carried
<1>16. SuccessorsAreLive' BY <1>6, <1>7 DEF SuccessorsAreLive
<1>17. CookieIsLive' BY <1>1, <1>2, <1>9 DEF CookieIsLive
<1>18. LoadComesFirst' BY <1>6 DEF LoadComesFirst, Refreshes, Refreshers
<1>19. ASSUME ~left PROVE OnlyHeld'
  <2>1. live \subseteq {n} BY <1>2, <1>19 DEF OnlyHeld, Calm
  <2>2. \A m \in live' : cookie' = m BY <1>1, <1>2, <2>1
  <2> QED BY <1>6, <1>7, <2>2 DEF OnlyHeld
<1> QED BY <1>2, <1>11, <1>12, <1>13, <1>14, <1>15, <1>16, <1>17, <1>18, <1>19 DEF Calm, Undisturbed

\* The page is loaded anew while nothing of its tab rotates the token.
LEMMA LoadIsCalm ==
  ASSUME SessionsAssumption, Sound, PromiseIsRefresh, Calm, Alone', NEW t \in Tabs, Load(t),
         ~ Under(t)
  PROVE  Calm'
<1>1. \A u \in Tabs : /\ token'[u] = IF u = t THEN NoAccess ELSE token[u]
                      /\ promise'[u] = IF u = t THEN NoPromise ELSE promise[u]
  BY LoadDoes
<1>2. \A u \in Tabs, v \in Slots :
        req'[<<u, v>>] = IF u = t THEN IdleRequest ELSE req[<<u, v>>]
  BY LoadDoes
<1>3. \A u \in Tabs, y \in Refreshers :
        IF u # t THEN refresh'[<<u, y>>] = refresh[<<u, y>>]
        ELSE IF y # Silent \/ user[t] = NoOrg THEN refresh'[<<u, y>>] = IdleRefresh
        ELSE refresh'[<<u, y>>].step = "sent" /\ refresh'[<<u, y>>].cookie = cookie
  BY LoadDoes
<1>4. UNCHANGED <<live, cookie, user, logouts, ended, left>> BY DEF Load
<1>5. IdleRequest.step = "idle" /\ IdleRequest.kind = "none" /\ IdleRefresh.step = "idle"
  BY DEF IdleRequest, IdleRefresh
<1>6. \A y \in Refreshers : ~ Refreshes(t, y)
  BY DEF Under, Refreshing, Refreshes
<1>7. \A v \in Slots : ~ Rotates(t, v)
  BY DEF Under, RotatingRequests, Rotates, Requests
<1>8. \A v \in Slots : req[<<t, v>>].step # "served"
  <2>1. SUFFICES ASSUME NEW v \in Slots, req[<<t, v>>].step = "served" PROVE FALSE OBVIOUS
  <2>2. req[<<t, v>>] \in RightRequests BY Elements
  <2>3. Rotates(t, v) BY <2>1, <2>2 DEF RightRequests, Right, Rotates
  <2> QED BY <1>7, <2>3
<1>9. \A u \in Tabs, v \in Slots : req'[<<u, v>>].kind # "none" => u # t /\ req'[<<u, v>>] = req[<<u, v>>]
  BY <1>2, <1>5
<1>10. \A u \in Tabs, v \in Slots : req'[<<u, v>>].step = "served" => req'[<<u, v>>] = req[<<u, v>>]
  BY <1>2, <1>5
<1>11. \A u \in Tabs, v \in Slots : req[<<u, v>>].step = "served" => req'[<<u, v>>] = req[<<u, v>>]
  BY <1>2, <1>8
<1>12. \A u \in Tabs, y \in Refreshers : refresh'[<<u, y>>].step = "rotated" =>
         refresh'[<<u, y>>] = refresh[<<u, y>>]
  BY <1>3, <1>5
<1>13. \A u \in Tabs, y \in Refreshers : Refreshes(u, y) => refresh'[<<u, y>>] = refresh[<<u, y>>]
  BY <1>3, <1>6
<1>14. \A u \in Tabs, y \in Refreshers : u # t => refresh'[<<u, y>>] = refresh[<<u, y>>] BY <1>3
<1>15. NobodyIsOut' BY <1>4 DEF NobodyIsOut, Calm, Undisturbed
<1>16. UsersAreKnown'
  <2>1. \A u \in Tabs : token'[u] # NoAccess => user'[u] # NoOrg
    BY <1>1, <1>4 DEF UsersAreKnown, Calm, Undisturbed
  <2>2. \A u \in Tabs, v \in Slots :
          req'[<<u, v>>].kind \in {"get", "switch", "password"} => user'[u] # NoOrg
    BY <1>4, <1>9 DEF UsersAreKnown, Calm, Undisturbed
  <2>3. \A u \in Tabs, y \in Refreshers : Refreshes(u, y)' => user'[u] # NoOrg
    BY <1>3, <1>4, <1>5 DEF UsersAreKnown, Calm, Undisturbed, Refreshes
  <2> QED BY <2>1, <2>2, <2>3 DEF UsersAreKnown
<1>17. NothingIsWrong' BY <1>2, <1>5 DEF NothingIsWrong, Calm, Undisturbed
<1>18. ASSUME Refreshes(t, Silent)' PROVE cookie \in live
  <2>1. Silent \in Refreshers BY DEF Refreshers
  <2>2. user[t] # NoOrg BY <1>3, <1>5, <1>18, <2>1 DEF Refreshes
  <2>3. \A u \in Tabs, y \in Refreshers : ~ Refreshes(u, y)
    <3>1. SUFFICES ASSUME NEW u \in Tabs, NEW y \in Refreshers, Refreshes(u, y) PROVE FALSE
      OBVIOUS
    <3>2. u # t BY <1>6, <3>1
    <3>3. Refreshes(u, y)' BY <1>13, <3>1 DEF Refreshes
    <3> QED BY <1>18, <2>1, <3>2, <3>3 DEF Alone
  <2>4. \A u \in Tabs, v \in Slots : ~ Rotates(u, v)
    <3>1. SUFFICES ASSUME NEW u \in Tabs, NEW v \in Slots, Rotates(u, v) PROVE FALSE OBVIOUS
    <3>2. u # t BY <1>7, <3>1
    <3>3. Rotates(u, v)' BY <1>2, <3>1, <3>2 DEF Rotates
    <3> QED BY <1>18, <2>1, <3>3 DEF Alone
  <2> QED BY <2>2, <2>3, <2>4, LiveWithUser DEF Calm
<1>19. RefreshBringsCookie'
  <2>1. SUFFICES ASSUME NEW u \in Tabs, NEW y \in Refreshers,
                        refresh'[<<u, y>>].step \in {"sent", "read"}
                 PROVE  refresh'[<<u, y>>].cookie = cookie /\ cookie \in live
    BY <1>4 DEF RefreshBringsCookie
  <2>2. CASE u # t
    <3>1. refresh'[<<u, y>>] = refresh[<<u, y>>] BY <1>14, <2>2
    <3> QED BY <2>1, <3>1 DEF RefreshBringsCookie, Calm, Undisturbed
  <2>3. CASE u = t
    <3>1. y = Silent /\ refresh'[<<u, y>>].cookie = cookie BY <1>3, <1>5, <2>1, <2>3
    <3>2. Refreshes(t, Silent)' BY <2>1, <2>3, <3>1 DEF Refreshes
    <3> QED BY <1>18, <3>1, <3>2
  <2> QED BY <2>2, <2>3
<1>20. SwitchBringsCookie' BY <1>2, <1>4, <1>5 DEF SwitchBringsCookie, Calm, Undisturbed
<1>21. SuccessorsAreLive' BY <1>4, <1>10, <1>12 DEF SuccessorsAreLive, Calm, Undisturbed
<1>22. CookieIsLive'
  <2>1. Replaced => Replaced'
    BY <1>11, <1>13 DEF Replaced, Refreshes
  <2> QED BY <1>4, <2>1 DEF CookieIsLive, Calm, Undisturbed
<1>23. LoadComesFirst'
  <2>1. SUFFICES ASSUME NEW u \in Tabs, Refreshes(u, Silent)'
                 PROVE  /\ token'[u] = NoAccess /\ promise'[u] = NoPromise
                        /\ \A v \in Slots : req'[<<u, v>>].step = "idle"
    BY DEF LoadComesFirst
  <2>2. CASE u = t BY <1>1, <1>2, <1>5, <2>2
  <2>3. CASE u # t
    <3>1. Refreshes(u, Silent) BY <1>14, <2>1, <2>3 DEF Refreshes, Refreshers
    <3>2. /\ token[u] = NoAccess /\ promise[u] = NoPromise
          /\ \A v \in Slots : req[<<u, v>>].step = "idle"
      BY <3>1 DEF LoadComesFirst, Calm, Undisturbed
    <3> QED BY <1>1, <1>2, <2>3, <3>2
  <2> QED BY <2>2, <2>3
<1>24. ASSUME ~left PROVE OnlyHeld'
  <2>1. OnlyHeld BY <1>24 DEF Calm
  <2>2. \A u \in Tabs, y \in Refreshers : Refreshes(u, y) => Refreshes(u, y)'
    BY <1>13 DEF Refreshes
  <2> QED BY <1>4, <1>10, <1>11, <1>12, <1>13, <2>1, <2>2, StillHeld, NoTokenIsDead
<1> QED BY <1>4, <1>15, <1>16, <1>17, <1>19, <1>20, <1>21, <1>22, <1>23, <1>24 DEF Calm, Undisturbed

\* An access token expires.
LEMMA ExpiryIsCalm ==
  ASSUME SessionsAssumption, Sound, Calm, Alone', NEW t \in Tabs, AccessExpires(t)
  PROVE  Calm'
<1>1. /\ token[t].age = "fresh" /\ token' = [token EXCEPT ![t].age = "stale"]
      /\ UNCHANGED <<live, cookie, user, starting, promise, req, refresh, logouts, ended, left>>
  BY DEF AccessExpires
<1>2. token[t] # NoAccess BY <1>1 DEF NoAccess
<1>3. \A u \in Tabs : u # t => token'[u] = token[u] BY <1>1 DEF Sound
<1>4. NobodyIsOut' BY <1>1 DEF NobodyIsOut, Calm, Undisturbed
<1>5. UsersAreKnown' BY <1>1, <1>2, <1>3 DEF UsersAreKnown, Calm, Undisturbed, Refreshes
<1>6. NothingIsWrong' BY <1>1 DEF NothingIsWrong, Calm, Undisturbed
<1>7. RefreshBringsCookie' BY <1>1 DEF RefreshBringsCookie, Calm, Undisturbed
<1>8. SwitchBringsCookie' BY <1>1 DEF SwitchBringsCookie, Calm, Undisturbed
<1>9. SuccessorsAreLive' BY <1>1 DEF SuccessorsAreLive, Calm, Undisturbed
<1>10. CookieIsLive' BY <1>1 DEF CookieIsLive, Replaced, Calm, Undisturbed
<1>11. LoadComesFirst' BY <1>1, <1>2, <1>3 DEF LoadComesFirst, Calm, Undisturbed, Refreshes
<1>12. ~left' => OnlyHeld' BY <1>1 DEF OnlyHeld, Calm, Refreshes
<1> QED BY <1>4, <1>5, <1>6, <1>7, <1>8, <1>9, <1>10, <1>11, <1>12 DEF Calm, Undisturbed

-----------------------------------------------------------------------------
\* Whatever counts as an excuse keeps the types; whatever does not keeps all of it.
LEMMA Counted ==
  ASSUME SessionsAssumption, excuses \in Nat, NEW e \in BOOLEAN, Watch(e), Sound', PromiseIsRefresh',
         excuses = 0 /\ ~e => logouts' = {}, excuses = 0 /\ ~e /\ Alone' => Calm'
  PROVE  IInv'
<1>1. excuses' \in Nat /\ (excuses' = 0 => excuses = 0 /\ ~e /\ ~Overlap') BY WatchCounts
<1>2. excuses' = 0 => Alone' BY <1>1, OverlapMeansTwo
<1> QED BY <1>1, <1>2 DEF IInv

\* An excuse keeps what is true of every session.
LEMMA Excused ==
  ASSUME SessionsAssumption, excuses \in Nat, Watch(TRUE), Sound', PromiseIsRefresh'
  PROVE  IInv'
BY Counted

LEMMA CalmIsQuiet == ASSUME IInv, excuses = 0 PROVE Calm /\ logouts = {}
BY DEF IInv, Calm, Undisturbed, NobodyIsOut

\* ApiClient and AuthProvider: what the user does, and what expires.
LEMMA UserKeeps ==
  ASSUME SessionsAssumption, IInv, NEW t \in Tabs,
         \/ \E s \in Slots, k \in Kinds, o \in Orgs \cup {NoOrg} :
              Send(t, s, k, o) /\ Watch(k \in {"badLogin", "badPassword"})
         \/ Logout(t) /\ Watch(TRUE)
         \/ Load(t) /\ Watch(Under(t))
         \/ AccessExpires(t) /\ Watch(FALSE)
  PROVE  IInv'
<1>1. Sound /\ PromiseIsRefresh /\ excuses \in Nat BY DEF IInv
<1>2. ASSUME NEW s \in Slots, NEW k \in Kinds, NEW o \in Orgs \cup {NoOrg},
             Send(t, s, k, o), Watch(k \in {"badLogin", "badPassword"})
      PROVE  IInv'
  <2>1. Sound' /\ PromiseIsRefresh' BY <1>1, <1>2, SendDoes
  <2>2. excuses = 0 => logouts' = {} BY <1>2, CalmIsQuiet DEF Send
  <2>3. ASSUME excuses = 0, k \notin {"badLogin", "badPassword"}, Alone' PROVE Calm'
    BY <1>1, <1>2, <2>3, CalmIsQuiet, SendIsCalm
  <2> DEFINE e == k \in {"badLogin", "badPassword"}
  <2>4. e \in BOOLEAN /\ Watch(e) /\ (excuses = 0 /\ ~e => logouts' = {})
        /\ (excuses = 0 /\ ~e /\ Alone' => Calm')
    BY <1>2, <2>2, <2>3
  <2> HIDE DEF e
  <2> QED BY <1>1, <2>1, <2>4, Counted
<1>3. CASE Logout(t) /\ Watch(TRUE) BY <1>1, <1>3, NoRequest, Excused
<1>4. CASE Load(t) /\ Watch(Under(t))
  <2>1. Sound' /\ PromiseIsRefresh' BY <1>1, <1>4, LoadDoes
  <2>2. excuses = 0 => logouts' = {} BY <1>4, CalmIsQuiet DEF Load
  <2>3. ASSUME excuses = 0, ~ Under(t), Alone' PROVE Calm'
    BY <1>1, <1>4, <2>3, CalmIsQuiet, LoadIsCalm
  <2>4. Under(t) \in BOOLEAN BY DEF Under
  <2> QED BY <1>1, <1>4, <2>1, <2>2, <2>3, <2>4, Counted
<1>5. CASE AccessExpires(t) /\ Watch(FALSE)
  <2>1. Sound' /\ PromiseIsRefresh' BY <1>1, <1>5, NoRequest
  <2>2. excuses = 0 => logouts' = {} BY <1>5, CalmIsQuiet DEF AccessExpires
  <2>3. ASSUME excuses = 0, Alone' PROVE Calm' BY <1>1, <1>5, <2>3, CalmIsQuiet, ExpiryIsCalm
  <2> QED BY <1>1, <1>5, <2>1, <2>2, <2>3, Counted
<1> QED BY <1>2, <1>3, <1>4, <1>5

\* A 401: the first, which the refresh of the tab follows, or the second, which is for a
\* wrong password and so excused already.
LEMMA RefusalKeeps ==
  ASSUME SessionsAssumption, IInv, NEW t \in Tabs, NEW s \in Slots, Refused(t, s), Watch(FALSE),
         \/ req[<<t, s>>].kind \in {"get", "switch", "password"} /\ req[<<t, s>>].bearer # "fresh"
         \/ req[<<t, s>>].kind \in {"badLogin", "badPassword"}
  PROVE  IInv'
<1>1. Sound /\ PromiseIsRefresh /\ excuses \in Nat BY DEF IInv
<1>2. excuses = 0 => req[<<t, s>>].kind \in {"get", "switch", "password"}
  BY CalmIsQuiet DEF Calm, Undisturbed, NothingIsWrong
<1>3. ASSUME req[<<t, s>>].step = "sent", TryRefresh(t, s),
             req' = [req EXCEPT ![<<t, s>>] = [@ EXCEPT !.step = "waiting", !.bearer = "none",
                                                        !.cookie = NoToken]],
             UNCHANGED <<live, cookie, user, token, starting, logouts, ended, left>>
      PROVE  IInv'
  <2>1. req[<<t, s>>].kind # "login" OBVIOUS
  <2>2. /\ Sound' /\ PromiseIsRefresh'
        /\ \E q \in RightRequests : /\ q.step = "waiting" /\ q.kind = req[<<t, s>>].kind
                                    /\ req' = [req EXCEPT ![<<t, s>>] = q]
        /\ promise[t] = NoPromise =>
             \E f \in RightRefreshes : /\ f.step = "sent" /\ f.cookie = cookie
                                       /\ refresh' = [refresh EXCEPT ![<<t, s>>] = f]
        /\ promise[t] # NoPromise => refresh' = refresh
    BY <1>1, <1>3, <2>1, WaitDoes
  <2>3. \A u \in Tabs : u # t => promise'[u] = promise[u] BY <1>1, <1>3 DEF TryRefresh, Sound
  <2>4. excuses = 0 => logouts' = {} BY <1>3, CalmIsQuiet
  <2>5. ASSUME excuses = 0, Alone' PROVE Calm'
    <3>1. PICK q \in RightRequests : /\ q.step = "waiting" /\ q.kind = req[<<t, s>>].kind
                                    /\ req' = [req EXCEPT ![<<t, s>>] = q]
      BY <2>2
    <3>2. \/ refresh' = refresh
          \/ /\ promise[t] = NoPromise
             /\ \E f \in RightRefreshes : /\ f.step = "sent" /\ f.cookie = cookie
                                          /\ refresh' = [refresh EXCEPT ![<<t, s>>] = f]
      BY <2>2
    <3>3. Calm /\ req[<<t, s>>].kind \in {"get", "switch", "password"}
      BY <1>2, <2>5, CalmIsQuiet
    <3>4. PromiseIsRefresh' BY <2>2
    <3> QED BY ZenonT(60), <1>1, <1>3, <2>3, <2>5, <3>1, <3>2, <3>3, <3>4, WaitIsCalm
  <2> QED BY <1>1, <2>2, <2>4, <2>5, Counted
<1>4. ASSUME req[<<t, s>>].step = "resent", NEW why \in {"forced", "refused"},
             ForceOut(t, {s}, why), UNCHANGED <<live, cookie, starting, promise, refresh, left>>
      PROVE  IInv'
  <2>1. Sound' /\ PromiseIsRefresh' BY <1>1, <1>4, GiveUpDoes
  <2>2. req[<<t, s>>] \in RightRequests BY <1>1, Elements
  <2>3. req[<<t, s>>].bearer = "fresh" BY <1>4, <2>2 DEF RightRequests, Right
  <2>4. excuses # 0 BY <1>2, <2>3
  <2> QED BY <1>1, <2>1, <2>4, Counted
<1> QED BY <1>3, <1>4 DEF Refused

\* AuthController and the answers to requests.
LEMMA RequestKeeps ==
  ASSUME SessionsAssumption, IInv, NEW t \in Tabs, NEW s \in Slots, RequestStep(t, s)
  PROVE  IInv'
<1> DEFINE q == req[<<t, s>>]
<1>1. Sound /\ PromiseIsRefresh /\ excuses \in Nat BY DEF IInv
<1>2. CASE Answer(t, s) /\ Watch(FALSE)
  <2>1. ASSUME q.step \in {"sent", "resent"}, req' = Finish(t, {s}),
               UNCHANGED <<live, cookie, user, token, starting, promise, refresh, logouts, ended, left>>
        PROVE  IInv'
    <3>1. Sound' /\ PromiseIsRefresh' BY <1>1, <2>1, FinishDoes
    <3>2. excuses = 0 => logouts' = {} BY <2>1, CalmIsQuiet
    <3>3. \A u \in Tabs, v \in Slots :
            req'[<<u, v>>] = IF u = t /\ v = s THEN IdleRequest ELSE req[<<u, v>>]
      BY <2>1, FinishOne
    <3>4. ASSUME excuses = 0, Alone' PROVE Calm'
      BY <1>1, <2>1, <3>3, <3>4, CalmIsQuiet, AnswerIsCalm
    <3> QED BY <1>1, <1>2, <3>1, <3>2, <3>4, Counted
  <2>2. CASE Refused(t, s) /\ (\/ q.kind \in {"get", "switch", "password"} /\ q.bearer # "fresh"
                               \/ q.kind \in {"badLogin", "badPassword"})
    BY <1>2, <2>2, RefusalKeeps
  <2> QED BY <1>2, <2>1, <2>2 DEF Answer
<1>3. ASSUME NEW n \in Tokens, NEW o \in Orgs, NEW rows \in SUBSET Tokens, Watch(FALSE),
             Served(t, s, n, rows, o), q.step \in {"sent", "resent"},
             \/ q.kind = "login" /\ rows = live \cup {n}
             \/ q.kind = "switch" /\ rows = Revoked(q.cookie) \cup {n}
      PROVE  IInv'
  <2>1. /\ Sound' /\ PromiseIsRefresh'
        /\ \E new \in RightRequests : /\ new.step = "served" /\ new.kind = q.kind /\ new.new = n
                                      /\ req' = [req EXCEPT ![<<t, s>>] = new]
    BY <1>1, <1>3, ServedDoes
  <2>2. /\ live' = rows
        /\ UNCHANGED <<cookie, user, token, starting, promise, refresh, logouts, ended, left>>
    BY <1>3 DEF Served
  <2>3. excuses = 0 => logouts' = {} BY <2>2, CalmIsQuiet
  <2>4. ASSUME excuses = 0, Alone' PROVE Calm'
    <3>1. PICK new \in RightRequests : /\ new.step = "served" /\ new.kind = q.kind /\ new.new = n
                                      /\ req' = [req EXCEPT ![<<t, s>>] = new]
      BY <2>1
    <3> QED BY <1>1, <1>3, <2>2, <2>4, <3>1, CalmIsQuiet, ServeIsCalm
  <2> QED BY <1>1, <1>3, <2>1, <2>3, <2>4, Counted
<1>4. CASE ServeLogin(t, s) /\ Watch(FALSE)
  <2>1. PICK n \in Tokens, o \in Orgs : Served(t, s, n, live \cup {n}, o)
    BY <1>4 DEF ServeLogin
  <2>2. live \cup {n} \in SUBSET Tokens BY <1>1 DEF Sound
  <2> QED BY <1>3, <1>4, <2>1, <2>2 DEF ServeLogin
<1>5. CASE ServeSwitch(t, s) /\ Watch(FALSE)
  <2>1. PICK n \in Tokens : Served(t, s, n, Revoked(q.cookie) \cup {n}, q.org)
    BY <1>5 DEF ServeSwitch
  <2>2. Revoked(q.cookie) \cup {n} \in SUBSET Tokens BY <1>1 DEF Sound, Revoked
  <2>3. q \in RightRequests BY <1>1, Elements
  <2>4. q.kind = "switch" /\ q.step \in {"sent", "resent"} BY <1>5 DEF ServeSwitch
  <2>5. q.org \in Orgs BY <2>3, <2>4 DEF RightRequests, Right
  <2> QED BY <1>3, <1>5, <2>1, <2>2, <2>4, <2>5
<1>6. CASE Arrive(t, s) /\ Watch(FALSE)
  <2>1. Sound' /\ PromiseIsRefresh' BY <1>1, <1>6, ArriveDoes
  <2>2. excuses = 0 => logouts' = {} BY <1>6, CalmIsQuiet DEF Arrive
  <2>3. ASSUME excuses = 0, Alone' PROVE Calm' BY <1>1, <1>6, <2>3, CalmIsQuiet, ArriveIsCalm
  <2> QED BY <1>1, <1>6, <2>1, <2>2, <2>3, Counted
<1>7. CASE ArriveChanged(t, s) /\ Watch(FALSE)
  <2>1. Sound' /\ PromiseIsRefresh' BY <1>1, <1>7, ArriveChangedDoes
  <2>2. q.step = "served" /\ q.kind = "password" BY <1>7 DEF ArriveChanged, Arrives
  <2>3. excuses # 0 BY <2>2, CalmIsQuiet DEF Calm, Undisturbed, NothingIsWrong
  <2> QED BY <1>1, <1>7, <2>1, <2>3, Counted
<1>8. CASE ChangePassword(t, s) /\ Watch(TRUE)
  <2>1. NoToken \in Tokens \cup {NoToken} /\ NoOrg \in Orgs \cup {NoOrg} /\ {} \in SUBSET Tokens
    OBVIOUS
  <2>2. Served(t, s, NoToken, {}, NoOrg) /\ q.kind = "password" BY <1>8 DEF ChangePassword
  <2>3. Sound' /\ PromiseIsRefresh' BY <1>1, <2>1, <2>2, ServedDoes
  <2> QED BY <1>1, <1>8, <2>3, Excused
<1>9. CASE Lose(t, s) /\ Watch(TRUE)
  <2>1. /\ req' = Finish(t, {s})
        /\ UNCHANGED <<live, cookie, user, token, starting, promise, refresh, logouts, ended, left>>
    BY <1>9 DEF Lose
  <2>2. Sound' /\ PromiseIsRefresh' BY <1>1, <2>1, FinishDoes
  <2> QED BY <1>1, <1>9, <2>2, Excused
<1> QED BY <1>2, <1>4, <1>5, <1>6, <1>7, <1>8, <1>9 DEF RequestStep

\* POST /v1/auth/refresh
LEMMA RefreshKeeps ==
  ASSUME SessionsAssumption, IInv, NEW t \in Tabs, NEW x \in Refreshers, RefreshStep(t, x)
  PROVE  IInv'
<1> DEFINE f == refresh[<<t, x>>]
<1>1. Sound /\ PromiseIsRefresh /\ excuses \in Nat BY DEF IInv
<1>2. f \in RightRefreshes /\ f \in RefreshRecord BY <1>1, Elements DEF RightRefreshes
<1>3. CASE Read(t, x) /\ Watch(FALSE)
  <2>1. CASE f.cookie \in live
    <3> DEFINE new == [f EXCEPT !.step = "read"]
    <3>1. f.step = "sent" BY <1>3 DEF Read
    <3>2. /\ new \in RefreshRecord /\ new.step = "read" /\ new.new = f.new
      BY <1>2 DEF RefreshRecord
    <3>3. f.new = NoToken BY <1>2, <3>1 DEF RightRefreshes
    <3>4. /\ refresh' = [refresh EXCEPT ![<<t, x>>] = new]
          /\ UNCHANGED <<live, cookie, user, token, starting, promise, req, logouts, ended, left>>
      <4>1. ~Missing(f) BY <1>1, <2>1, NobodyHasNoToken DEF Missing
      <4> QED BY <1>3, <2>1, <4>1 DEF Read
    <3> HIDE DEF new
    <3>5. new \in RightRefreshes BY <3>2, <3>3 DEF RightRefreshes
    <3>6. live' \subseteq Tokens BY <1>1, <3>4 DEF Sound
    <3>7. Sound' /\ PromiseIsRefresh' BY <1>1, <3>1, <3>2, <3>4, <3>5, <3>6, RefreshGoesOn
    <3>8. excuses = 0 => logouts' = {} BY <3>4, CalmIsQuiet
    <3>9. ASSUME excuses = 0, Alone' PROVE Calm' BY <1>1, <1>3, <3>9, CalmIsQuiet, ReadIsCalm
    <3> QED BY <1>1, <1>3, <3>7, <3>8, <3>9, Counted
  <2>2. CASE f.cookie \notin live
    <3>1. f.step = "sent" /\ Fails(t, x) BY <1>3, <2>2 DEF Read
    <3>2. Sound' /\ PromiseIsRefresh' BY <1>1, <3>1, FailsDoes
    <3>3. excuses # 0
      BY <2>2, <3>1, CalmIsQuiet DEF Calm, Undisturbed, RefreshBringsCookie
    <3> QED BY <1>1, <1>3, <3>2, <3>3, Counted
  <2> QED BY <2>1, <2>2
<1>4. CASE Rotate(t, x) /\ Watch(FALSE)
  <2>1. PICK n \in Tokens :
          /\ live' = Revoked(f.cookie) \cup {n}
          /\ refresh' = [refresh EXCEPT ![<<t, x>>] =
                           [step |-> "rotated", cookie |-> NoToken, new |-> n]]
    BY <1>4 DEF Rotate
  <2> DEFINE new == [step |-> "rotated", cookie |-> NoToken, new |-> n]
  <2>2. new \in RightRefreshes BY DEF RightRefreshes, RefreshRecord
  <2>3. new.step # "idle" OBVIOUS
  <2> HIDE DEF new
  <2>4. refresh' = [refresh EXCEPT ![<<t, x>>] = new] BY <2>1 DEF new
  <2>5. live' \subseteq Tokens BY <1>1, <2>1 DEF Sound, Revoked
  <2>6. /\ f.step # "idle"
        /\ UNCHANGED <<cookie, user, token, starting, promise, req, logouts, ended, left>>
    BY <1>4 DEF Rotate
  <2>7. Sound' /\ PromiseIsRefresh' BY <1>1, <2>2, <2>3, <2>4, <2>5, <2>6, RefreshGoesOn
  <2>8. excuses = 0 => logouts' = {} BY <2>6, CalmIsQuiet
  <2>9. ASSUME excuses = 0, Alone' PROVE Calm' BY <1>1, <1>4, <2>9, CalmIsQuiet, RotateIsCalm
  <2> QED BY <1>1, <1>4, <2>7, <2>8, <2>9, Counted
<1>5. CASE Refreshed(t, x) /\ Watch(FALSE)
  <2>1. Sound' /\ PromiseIsRefresh' BY <1>1, <1>5, RefreshedDoes
  <2>2. excuses = 0 => logouts' = {} BY <1>5, CalmIsQuiet DEF Refreshed, EndRefresh
  <2>3. ASSUME excuses = 0, Alone' PROVE Calm' BY <1>1, <1>5, <2>3, CalmIsQuiet, RefreshedIsCalm
  <2> QED BY <1>1, <1>5, <2>1, <2>2, <2>3, Counted
<1>6. CASE LoseRefresh(t, x) /\ Watch(TRUE)
  <2>1. Sound' /\ PromiseIsRefresh' BY <1>1, <1>6, FailsDoes DEF LoseRefresh
  <2> QED BY <1>1, <1>6, <2>1, Excused
<1> QED BY <1>3, <1>4, <1>5, <1>6 DEF RefreshStep

-----------------------------------------------------------------------------
LEMMA InitIsRight == ASSUME SessionsAssumption, Init PROVE IInv
<1>1. IdleRequest \in RightRequests /\ IdleRefresh \in RightRefreshes BY IdleIsRight
<1>2. IdleRequest.step = "idle" /\ IdleRequest.kind = "none" /\ IdleRefresh.step = "idle"
  BY DEF IdleRequest, IdleRefresh
<1>3. Sound BY <1>1 DEF Init, Sound, Access
<1>4. \A t \in Tabs, x \in Refreshers : refresh[<<t, x>>] = IdleRefresh BY DEF Init
<1>5. \A t \in Tabs, s \in Slots : req[<<t, s>>] = IdleRequest BY DEF Init, Requests
<1>6. \A t \in Tabs : token[t] = NoAccess /\ user[t] = NoOrg /\ promise[t] = NoPromise
  BY DEF Init
<1>7. PromiseIsRefresh
  BY <1>2, <1>4, <1>6 DEF PromiseIsRefresh, Refreshers, SessionsAssumption
<1>8. \A t \in Tabs, x \in Refreshers : ~ Refreshes(t, x) BY <1>2, <1>4 DEF Refreshes
<1>9. Alone BY <1>2, <1>5, <1>8 DEF Alone, Rotates
<1>10. NobodyIsOut BY DEF Init, NobodyIsOut
<1>11. UsersAreKnown BY <1>2, <1>5, <1>6, <1>8 DEF UsersAreKnown
<1>12. NothingIsWrong BY <1>2, <1>5 DEF NothingIsWrong
<1>13. RefreshBringsCookie BY <1>2, <1>4 DEF RefreshBringsCookie
<1>14. SwitchBringsCookie BY <1>2, <1>5 DEF SwitchBringsCookie
<1>15. SuccessorsAreLive BY <1>2, <1>4, <1>5 DEF SuccessorsAreLive
<1>16. CookieIsLive BY <1>6 DEF CookieIsLive
<1>17. LoadComesFirst BY <1>8 DEF LoadComesFirst, Refreshers
<1>18. live = {} BY DEF Init
<1>19. OnlyHeld BY <1>18 DEF OnlyHeld
<1>20. excuses \in Nat BY DEF Init
<1> QED BY <1>3, <1>7, <1>9, <1>10, <1>11, <1>12, <1>13, <1>14, <1>15, <1>16, <1>17, <1>19,
           <1>20 DEF IInv, Calm, Undisturbed

LEMMA StepKeeps == ASSUME SessionsAssumption, IInv, [Next]_vars PROVE IInv'
<1>1. Sound /\ PromiseIsRefresh /\ excuses \in Nat BY DEF IInv
<1>2. ASSUME NEW n \in Tokens, RefreshExpires(n), Watch(TRUE) PROVE IInv'
  BY <1>1, <1>2, NoRequest, Excused
<1>3. ASSUME NEW l \in logouts, ServeLogout(l) \/ EndLogout(l), Watch(FALSE) PROVE IInv'
  <2>1. Sound' /\ PromiseIsRefresh' BY <1>1, <1>3, NoRequest
  <2>2. excuses # 0 BY <1>3, CalmIsQuiet
  <2> QED BY <1>1, <1>3, <2>1, <2>2, Counted
<1>4. CASE UNCHANGED vars
  <2>1. UNCHANGED <<live, cookie, user, token, starting, promise, req, refresh, logouts, ended,
                    excuses, left>>
    BY <1>4 DEF vars
  <2>2. Sound' BY <1>1, <2>1 DEF Sound
  <2>3. PromiseIsRefresh' BY <1>1, <2>1 DEF PromiseIsRefresh
  <2>4. Undisturbed => Undisturbed'
    BY SMTT(60), <2>1 DEF Undisturbed, Alone, Rotates, Refreshes, NobodyIsOut, UsersAreKnown, NothingIsWrong,
                RefreshBringsCookie, SwitchBringsCookie, SuccessorsAreLive, CookieIsLive, Replaced,
                LoadComesFirst
  <2>5. OnlyHeld => OnlyHeld' BY SMTT(60), <2>1 DEF OnlyHeld, Refreshes
  <2> QED BY <2>1, <2>2, <2>3, <2>4, <2>5 DEF IInv, Calm
<1> QED BY <1>2, <1>3, <1>4, UserKeeps, RequestKeeps, RefreshKeeps DEF Next

-----------------------------------------------------------------------------
\* Every variable of the sessions keeps its type.
THEOREM SessionsTyped == ASSUME SessionsAssumption PROVE Spec => []TypeOK
<1>1. Init => IInv BY InitIsRight
<1>2. IInv /\ [Next]_vars => IInv' BY StepKeeps
<1>3. IInv => TypeOK BY SoundIsTyped DEF IInv
<1> QED BY <1>1, <1>2, <1>3, PTL DEF Spec

\* ApiClient.tryRefresh: the requests of a tab share one refresh.
THEOREM RefreshIsShared == ASSUME SessionsAssumption PROVE Spec => []OneRefreshPerTab
<1>1. Init => IInv BY InitIsRight
<1>2. IInv /\ [Next]_vars => IInv' BY StepKeeps
<1>3. ASSUME IInv PROVE OneRefreshPerTab
  <2>1. SUFFICES ASSUME NEW f \in Refreshing, NEW g \in Refreshing, f[1] = g[1],
                        Silent \notin {f[2], g[2]}
                 PROVE  f = g
    BY DEF OneRefreshPerTab
  <2>2. PICK t \in Tabs, s \in Refreshers : f = <<t, s>> BY DEF Refreshing
  <2>3. PICK u \in Tabs, v \in Refreshers : g = <<u, v>> BY DEF Refreshing
  <2>4. t = u /\ s \in Slots /\ v \in Slots BY <2>1, <2>2, <2>3 DEF Refreshers
  <2>5. refresh[<<t, s>>].step # "idle" /\ refresh[<<u, v>>].step # "idle"
    BY <2>2, <2>3 DEF Refreshing
  <2>6. promise[t] = s /\ promise[t] = v BY <1>3, <2>4, <2>5 DEF IInv, PromiseIsRefresh
  <2> QED BY <2>2, <2>3, <2>4, <2>6
<1> QED BY <1>1, <1>2, <1>3, PTL DEF Spec

\* The rotation of AuthService beside the retry of ApiClient: however requests, refreshes,
\* loads, switches and expired access tokens interleave, nobody is sent to the login page as
\* long as nobody logs out, no row expires, no answer is lost and no two requests rotate the
\* token at the same time.
THEOREM SessionsGoOn == ASSUME SessionsAssumption PROVE Spec => []SessionEndsForAReason
<1>1. Init => IInv BY InitIsRight
<1>2. IInv /\ [Next]_vars => IInv' BY StepKeeps
<1>3. ASSUME IInv PROVE SessionEndsForAReason
  <2>1. excuses = 0 => \A t \in Tabs : ended[t] # "forced"
    BY <1>3, CalmIsQuiet DEF Calm, Undisturbed, NobodyIsOut
  <2>2. excuses \in Nat BY <1>3 DEF IInv
  <2> QED BY <2>1, <2>2 DEF SessionEndsForAReason
<1> QED BY <1>1, <1>2, <1>3, PTL DEF Spec

\* revoke_refresh_token and store_refresh_token: no token is left live that nobody holds.
THEOREM NoTokenIsLeft == ASSUME SessionsAssumption PROVE Spec => []LiveTokensAreHeld
<1>1. Init => IInv BY InitIsRight
<1>2. IInv /\ [Next]_vars => IInv' BY StepKeeps
<1>3. ASSUME IInv PROVE LiveTokensAreHeld
  <2>1. SUFFICES ASSUME excuses = 0, ~left, NEW n \in live
                 PROVE  \/ cookie = n
                        \/ \E r \in Requests : req[r].step = "served" /\ req[r].new = n
                        \/ \E f \in Refreshing : refresh[f].new = n
    BY DEF LiveTokensAreHeld
  <2>2. OnlyHeld BY <1>3, <2>1, CalmIsQuiet DEF Calm
  <2>3. \/ cookie = n
        \/ \E t \in Tabs, s \in Slots : req[<<t, s>>].step = "served" /\ req[<<t, s>>].new = n
        \/ \E t \in Tabs, x \in Refreshers : Refreshes(t, x) /\ refresh[<<t, x>>].new = n
    BY <2>2 DEF OnlyHeld
  <2>4. \A t \in Tabs, s \in Slots : <<t, s>> \in Requests BY DEF Requests
  <2>5. \A t \in Tabs, x \in Refreshers : Refreshes(t, x) => <<t, x>> \in Refreshing
    BY DEF Refreshes, Refreshing
  <2> QED BY <2>3, <2>4, <2>5
<1> QED BY <1>1, <1>2, <1>3, PTL DEF Spec
=============================================================================
