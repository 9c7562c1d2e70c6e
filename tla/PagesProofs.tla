----------------------------- MODULE PagesProofs -----------------------------
(* What TLAPS proves about the dashboard and what it goes through, a section   *)
(* for each: the gateway, for any requests, users, projects, tokens and headers *)
(* that clients send; the requests of a page, for any organizations, projects   *)
(* and failures, and the answers in any order; its search parameters; the card  *)
(* for newcomers; the fingerprints of errors and their groups; the analytics;   *)
(* the error explorer; the page that creates accounts; and Dashboard, in which  *)
(* one of them moves.                                                           *)
EXTENDS Dashboard, Sequences, FiniteSetTheorems, SequenceTheorems, TLAPS

Contexts == [user : UserContexts \cup {Absent}, project : ProjectContexts \cup {Absent}]
Stages == {"idle", "entered", "allowed", "forwarded", "handled", "streaming", "closed",
           "hanging", "refused", "failed"}
Request == [stage : Stages, route : Routes, bearer : UserContexts \cup {Absent},
            token : ProjectContexts \cup {Absent}, headers : Headers, context : Contexts,
            here : BOOLEAN, early : BOOLEAN]

\* What the guards have let through acts for the user, or the project, of its token.
Allowed(q) ==
  /\ q.context.user = IF Public(q.route) THEN Absent ELSE q.bearer
  /\ q.context.project = IF q.route = "events" THEN q.token ELSE Absent
  /\ ~Public(q.route) => q.bearer # Absent
  /\ q.route = "events" => q.token # Absent
  /\ q.route = "write" => MayWrite(q.bearer)

\* Headers come from the context alone.
OnWay(q) ==
  /\ q.stage = "entered" => q.context = Nobody /\ q.headers = NoHeaders
  /\ q.stage = "allowed" => Allowed(q) /\ q.headers = NoHeaders
  /\ q.stage = "forwarded" => Allowed(q) /\ q.headers = InjectHeaders(NoHeaders, q.context)
  /\ q.stage = "handled" => Allowed(q)
  /\ q.stage = "streaming" => Allowed(q) /\ q.route = "stream"

StreamsOf(o) == {r \in Requests : req[r].stage = "streaming" /\ req[r].context.user.org = o}

IInv ==
  /\ req \in [Requests -> Request] /\ seats \in [Orgs -> Nat]
  /\ \A r \in Requests : OnWay(req[r])
  /\ SeatsAreHeld

-----------------------------------------------------------------------------
\* No request has come.
LEMMA IdleTyped == ASSUME GatewayAssumption PROVE Idle \in Request
<1>1. NoHeaders \in Headers BY DEF NoHeaders, Headers
<1>2. Nobody \in Contexts BY DEF Nobody, Contexts
<1> QED BY <1>1, <1>2 DEF Idle, Request, Stages, Routes

\* The streams of an organization are finitely many.
LEMMA StreamsFinite ==
  ASSUME GatewayAssumption, NEW o PROVE IsFiniteSet(StreamsOf(o))
BY FS_Subset DEF GatewayAssumption, StreamsOf

\* What the API reads from the headers is what the gateway has put there.
LEMMA HeadersCarry ==
  ASSUME GatewayAssumption, NEW q \in Request, Allowed(q)
  PROVE  /\ ContextOf(InjectHeaders(NoHeaders, q.context)) = q.context
         /\ InjectHeaders(NoHeaders, q.context) \in Headers
         /\ ~Public(q.route) => InjectHeaders(NoHeaders, q.context).org = q.bearer.org
<1> DEFINE c == q.context
           h == InjectHeaders(NoHeaders, c)
<1>1. /\ c \in Contexts /\ q.bearer \in UserContexts \cup {Absent}
      /\ q.token \in ProjectContexts \cup {Absent}
  BY DEF Request
<1>2. Absent \notin Users \cup Projects \cup UserContexts BY DEF GatewayAssumption
<1>3. CASE c.user # Absent
  <2>1. c.user = q.bearer /\ ~Public(q.route) BY <1>3 DEF Allowed
  <2>2. c.project = Absent BY <2>1 DEF Allowed, Public
  <2>3. /\ c.user \in UserContexts /\ c.user.user \in Users /\ c.user.org \in Orgs
        /\ c.user.role \in Roles /\ c.user.user # Absent
    BY <1>1, <1>2, <1>3 DEF Contexts, UserContexts
  <2>4. h = [user |-> c.user.user, role |-> c.user.role, project |-> Absent, org |-> c.user.org]
    BY <1>3, <2>2 DEF InjectHeaders, NoHeaders
  <2>5. ContextOf(h) = [user |-> [user |-> c.user.user, org |-> c.user.org, role |-> c.user.role],
                        project |-> Absent]
    BY <2>3, <2>4 DEF ContextOf
  <2>6. c.user = [user |-> c.user.user, org |-> c.user.org, role |-> c.user.role]
    BY <2>3 DEF UserContexts
  <2>7. ContextOf(h) = c BY <1>1, <2>2, <2>5, <2>6 DEF Contexts
  <2>8. h \in Headers BY <2>3, <2>4 DEF Headers
  <2> QED BY <2>1, <2>4, <2>7, <2>8
<1>4. CASE c.user = Absent /\ c.project # Absent
  <2>1. c.project = q.token /\ q.route = "events" BY <1>4 DEF Allowed
  <2>2. /\ c.project \in ProjectContexts /\ c.project.project \in Projects
        /\ c.project.org \in Orgs /\ c.project.project # Absent
    BY <1>1, <1>2, <1>4 DEF Contexts, ProjectContexts
  <2>3. h = [user |-> Absent, role |-> Absent, project |-> c.project.project,
             org |-> c.project.org]
    BY <1>4 DEF InjectHeaders, NoHeaders
  <2>4. ContextOf(h) = [user |-> Absent,
                        project |-> [project |-> c.project.project, org |-> c.project.org]]
    BY <2>2, <2>3 DEF ContextOf
  <2>5. c.project = [project |-> c.project.project, org |-> c.project.org]
    BY <2>2 DEF ProjectContexts
  <2>6. ContextOf(h) = c BY <1>1, <1>4, <2>4, <2>5 DEF Contexts
  <2>7. h \in Headers BY <2>2, <2>3 DEF Headers
  <2> QED BY <2>1, <2>6, <2>7 DEF Public
<1>5. CASE c.user = Absent /\ c.project = Absent
  <2>1. h = [user |-> Absent, role |-> Absent, project |-> Absent, org |-> Absent]
    BY <1>5 DEF InjectHeaders, NoHeaders
  <2>2. ContextOf(h) = [user |-> Absent, project |-> Absent] BY <2>1 DEF ContextOf
  <2>3. ContextOf(h) = c BY <1>1, <1>5, <2>2 DEF Contexts
  <2>4. Public(q.route) BY <1>5 DEF Allowed
  <2>5. h \in Headers BY <2>1 DEF Headers
  <2> QED BY <2>3, <2>4, <2>5
<1> QED BY <1>3, <1>4, <1>5

-----------------------------------------------------------------------------
\* Nobody has come, no seat is taken.
LEMMA InitIsRight == ASSUME GatewayAssumption, Init PROVE IInv
<1>1. req \in [Requests -> Request] /\ seats \in [Orgs -> Nat] BY IdleTyped DEF Init
<1>2. \A r \in Requests : req[r].stage = "idle" BY DEF Init, Idle
<1>3. \A r \in Requests : OnWay(req[r]) BY <1>2 DEF OnWay
<1>4. \A o \in Orgs : StreamsOf(o) = {} BY <1>2 DEF StreamsOf
<1>5. SeatsAreHeld BY <1>4, FS_EmptySet DEF Init, SeatsAreHeld, StreamsOf
<1> QED BY <1>1, <1>3, <1>5 DEF IInv

\* One request goes on and no stream begins or ends.
LEMMA RequestMoves ==
  ASSUME IInv, NEW r \in Requests, NEW new \in Request, req' = [req EXCEPT ![r] = new],
         OnWay(new), seats' = seats,
         new.stage = "streaming" <=> req[r].stage = "streaming",
         new.stage = "streaming" => new.context = req[r].context
  PROVE  IInv'
<1>1. \A q \in Requests : req'[q] = IF q = r THEN new ELSE req[q] BY DEF IInv
<1>2. req' \in [Requests -> Request] BY DEF IInv
<1>3. \A q \in Requests : OnWay(req[q])' BY <1>1 DEF IInv, OnWay, Allowed
<1>4. \A o \in Orgs : StreamsOf(o)' = StreamsOf(o) BY <1>1 DEF StreamsOf
<1>5. SeatsAreHeld' BY <1>4 DEF IInv, SeatsAreHeld, StreamsOf
<1> QED BY <1>2, <1>3, <1>5 DEF IInv

\* A request comes in without any of the headers it claims.
LEMMA EnterKeeps ==
  ASSUME GatewayAssumption, IInv, NEW r \in Requests, NEW x \in Routes,
         NEW b \in Bearers \cup {Absent}, NEW t \in Tokens \cup {Absent}, NEW claim \in Claims,
         Enter(r, x, b, t, claim)
  PROVE  IInv'
<1> DEFINE s == IF x \notin {"capabilities", "events"} /\ hits[x] = Limit THEN "refused"
                ELSE "entered"
           new == [Idle EXCEPT !.stage = s, !.route = x, !.bearer = b, !.token = t,
                               !.headers = NoHeaders]
<1>1. req' = [req EXCEPT ![r] = new] /\ seats' = seats /\ req[r].stage = "idle"
  BY DEF Enter, StripInternalHeaders
<1>2. s \in {"refused", "entered"} OBVIOUS
<1> HIDE DEF s
<1>3. NoHeaders \in Headers BY DEF NoHeaders, Headers
<1>4. b \in UserContexts \cup {Absent} /\ t \in ProjectContexts \cup {Absent}
  BY DEF GatewayAssumption
<1>5. Idle \in Request /\ Idle.context = Nobody BY IdleTyped DEF Idle
<1>6. new \in Request /\ new.stage = s /\ new.headers = NoHeaders /\ new.context = Nobody
  BY <1>2, <1>3, <1>4, <1>5 DEF Request, Stages
<1> HIDE DEF new
<1>7. OnWay(new) BY <1>2, <1>6 DEF OnWay
<1>8. new.stage # "streaming" BY <1>2, <1>6
<1> QED BY <1>1, <1>6, <1>7, <1>8, RequestMoves

\* A stage at which nothing is promised.
LEMMA StageMoves ==
  ASSUME GatewayAssumption, IInv, NEW r \in Requests, NEW s, Move(r, s), seats' = seats,
         s \in {"refused", "failed", "closed"}, req[r].stage # "streaming"
  PROVE  IInv'
<1> DEFINE new == [req[r] EXCEPT !.stage = s]
<1>1. req[r] \in Request BY DEF IInv
<1>2. new \in Request /\ new.stage = s BY <1>1 DEF Request, Stages
<1>3. req' = [req EXCEPT ![r] = new] BY DEF Move
<1> HIDE DEF new
<1>4. OnWay(new) /\ new.stage # "streaming" BY <1>2 DEF OnWay
<1> QED BY <1>2, <1>3, <1>4, RequestMoves

\* The guards.
LEMMA GuardsKeep ==
  ASSUME GatewayAssumption, IInv, NEW r \in Requests, Authenticate(r) \/ CheckToken(r)
  PROVE  IInv'
<1> DEFINE q == req[r]
<1>1. /\ q \in Request /\ q.stage = "entered" /\ q.context = Nobody /\ q.headers = NoHeaders
      /\ seats' = seats
  BY DEF Authenticate, CheckToken, IInv, OnWay
<1>2. ASSUME NEW c \in Contexts, NEW s, s = "allowed" \/ s = "refused",
             req' = [req EXCEPT ![r] = [q EXCEPT !.stage = s, !.context = c]],
             s = "allowed" => Allowed([q EXCEPT !.stage = s, !.context = c])
      PROVE  IInv'
  <2> DEFINE new == [q EXCEPT !.stage = s, !.context = c]
  <2>1. new \in Request /\ new.stage = s /\ new.headers = NoHeaders
    BY <1>1, <1>2 DEF Request, Stages
  <2>2. s = "allowed" => Allowed(new) BY <1>2
  <2>3. req' = [req EXCEPT ![r] = new] BY <1>2
  <2> HIDE DEF new
  <2>4. OnWay(new) /\ new.stage # "streaming" BY <1>2, <2>1, <2>2 DEF OnWay
  <2> QED BY <1>1, <2>1, <2>3, <2>4, RequestMoves
<1>3. CASE Authenticate(r)
  <2> DEFINE ok == q.bearer # Absent /\ (q.route = "write" => MayWrite(q.bearer))
             s  == IF ok THEN "allowed" ELSE "refused"
             c  == [user |-> q.bearer, project |-> Absent]
             new == [q EXCEPT !.stage = s, !.context = c]
  <2>1. c \in Contexts BY <1>1 DEF Contexts, Request
  <2>2. req' = [req EXCEPT ![r] = new] BY <1>3 DEF Authenticate, IInv
  <2>3. /\ new.bearer = q.bearer /\ new.token = q.token /\ new.route = q.route
        /\ new.context.user = q.bearer /\ new.context.project = Absent
    BY <1>1 DEF Request
  <2>4. ~Public(q.route) BY <1>3 DEF Authenticate
  <2>5. ok => Allowed(new) BY <2>3, <2>4 DEF Allowed, Public
  <2>6. s = "allowed" \/ s = "refused" OBVIOUS
  <2>7. s = "allowed" => ok OBVIOUS
  <2> HIDE DEF s, c, ok
  <2> QED BY <1>2, <2>1, <2>2, <2>5, <2>6, <2>7
<1>4. CASE CheckToken(r)
  <2> DEFINE s == IF q.route = "events" /\ q.token = Absent THEN "refused" ELSE "allowed"
             c == [user |-> Absent, project |-> IF q.route = "events" THEN q.token ELSE Absent]
             new == [q EXCEPT !.stage = s, !.context = c]
  <2>1. c \in Contexts BY <1>1 DEF Contexts, Request
  <2>2. req' = [req EXCEPT ![r] = new]
    <3>1. CASE q.route # "events"
      <4>1. c = q.context BY <1>1, <3>1 DEF Nobody
      <4>2. new = [q EXCEPT !.stage = "allowed"] BY <1>1, <3>1, <4>1 DEF Request
      <4> QED BY <1>4, <3>1, <4>2 DEF CheckToken, Move, IInv
    <3>2. CASE q.route = "events"
      <4>1. c = [user |-> Absent, project |-> q.token] BY <3>2
      <4> QED BY <1>4, <3>2, <4>1 DEF CheckToken, IInv
    <3> QED BY <3>1, <3>2
  <2>3. /\ new.bearer = q.bearer /\ new.token = q.token /\ new.route = q.route
        /\ new.context.user = Absent
        /\ new.context.project = IF q.route = "events" THEN q.token ELSE Absent
    BY <1>1 DEF Request
  <2>4. Public(q.route) BY <1>4 DEF CheckToken
  <2>5. s = "allowed" => Allowed(new) BY <2>3, <2>4 DEF Allowed, Public
  <2>6. s = "allowed" \/ s = "refused" OBVIOUS
  <2> HIDE DEF s, c
  <2> QED BY <1>2, <2>1, <2>2, <2>5, <2>6
<1> QED BY <1>3, <1>4

\* The context is put into headers that have none.
LEMMA ForwardKeeps ==
  ASSUME GatewayAssumption, IInv, NEW r \in Requests, Forward(r) PROVE IInv'
<1> DEFINE q == req[r]
           s == IF up THEN "forwarded" ELSE "failed"
           h == InjectHeaders(q.headers, q.context)
           new == [q EXCEPT !.stage = s, !.headers = h, !.early = ~q.here]
<1>1. /\ q \in Request /\ q.stage = "allowed" /\ Allowed(q) /\ q.headers = NoHeaders
      /\ seats' = seats
  BY DEF Forward, IInv, OnWay
<1>2. h = InjectHeaders(NoHeaders, q.context) /\ h \in Headers BY <1>1, HeadersCarry
<1>3. req' = [req EXCEPT ![r] = new] BY DEF Forward, IInv
<1>4. s = "forwarded" \/ s = "failed" OBVIOUS
<1> HIDE DEF s, h
<1>5. /\ new \in Request /\ new.stage = s /\ new.headers = h /\ new.context = q.context
      /\ new.route = q.route /\ new.bearer = q.bearer /\ new.token = q.token
  BY <1>1, <1>2, <1>4 DEF Request, Stages
<1> HIDE DEF new
<1>6. Allowed(new) BY <1>1, <1>5 DEF Allowed
<1>7. OnWay(new) /\ new.stage # "streaming" BY <1>2, <1>4, <1>5, <1>6 DEF OnWay
<1> QED BY <1>1, <1>3, <1>5, <1>7, RequestMoves

\* The API takes the headers for the context; a stream takes a seat.
LEMMA HandleKeeps ==
  ASSUME GatewayAssumption, IInv, NEW r \in Requests, Handle(r) PROVE IInv'
<1> DEFINE q == req[r]
           c == IF q.route \in {"capabilities", "login"} THEN Nobody ELSE ContextOf(q.headers)
           stream == Accepts(q) /\ q.route = "stream"
           s == CASE ~Accepts(q) -> "refused" [] stream -> "streaming" [] OTHER -> "handled"
           new == [q EXCEPT !.stage = s, !.context = c]
<1>1. /\ q \in Request /\ q.stage = "forwarded" /\ Allowed(q)
      /\ q.headers = InjectHeaders(NoHeaders, q.context)
  BY DEF Handle, IInv, OnWay
<1>2. c = q.context
  <2>1. CASE q.route \in {"capabilities", "login"}
    <3>1. q.context.user = Absent /\ q.context.project = Absent
      BY <1>1, <2>1 DEF Allowed, Public
    <3> QED BY <1>1, <2>1, <3>1 DEF Nobody, Request, Contexts
  <2>2. CASE q.route \notin {"capabilities", "login"} BY <1>1, <2>2, HeadersCarry
  <2> QED BY <2>1, <2>2
<1>3. req' = [req EXCEPT ![r] = new] BY DEF Handle, IInv
<1>4. /\ ~stream => s = "refused" \/ s = "handled"
      /\ stream => s = "streaming"
  OBVIOUS
<1>5. stream => q.route = "stream" OBVIOUS
<1>6. seats' = IF stream THEN [seats EXCEPT ![q.headers.org] = @ + 1] ELSE seats BY DEF Handle
<1> HIDE DEF s, c, stream
<1>7. /\ new \in Request /\ new.stage = s /\ new.context = q.context
      /\ new.route = q.route /\ new.bearer = q.bearer /\ new.token = q.token
  BY <1>1, <1>2, <1>4 DEF Request, Stages
<1> HIDE DEF new
<1>8. Allowed(new) BY <1>1, <1>7 DEF Allowed
<1>9. OnWay(new) BY <1>4, <1>5, <1>7, <1>8 DEF OnWay
<1>10. CASE ~stream
  <2>1. new.stage # "streaming" BY <1>4, <1>7, <1>10
  <2> QED BY <1>1, <1>3, <1>6, <1>7, <1>9, <1>10, <2>1, RequestMoves
<1>11. CASE stream
  <2>1. ~Public(q.route) BY <1>5, <1>11 DEF Public
  <2>2. /\ q.headers.org = q.bearer.org /\ q.bearer \in UserContexts
        /\ q.context.user = q.bearer
    BY <1>1, <2>1, HeadersCarry DEF Allowed, Request
  <2>3. q.headers.org \in Orgs BY <2>2 DEF UserContexts
  <2>4. PICK o \in Orgs : o = q.headers.org BY <2>3
  <2>5. \A p \in Requests : req'[p] = IF p = r THEN new ELSE req[p] BY <1>3 DEF IInv
  <2>6. req' \in [Requests -> Request] BY <1>3, <1>7 DEF IInv
  <2>7. \A p \in Requests : OnWay(req[p])' BY <1>9, <2>5 DEF IInv, OnWay, Allowed
  <2>8. new.stage = "streaming" /\ new.context.user.org = o BY <1>4, <1>7, <1>11, <2>2, <2>4
  <2>9. StreamsOf(o)' = StreamsOf(o) \cup {r} /\ r \notin StreamsOf(o)
    BY <1>1, <2>5, <2>8 DEF StreamsOf
  <2>10. \A p \in Orgs : p # o => StreamsOf(p)' = StreamsOf(p)
    BY <1>1, <2>5, <2>8 DEF StreamsOf
  <2>11. seats \in [Orgs -> Nat] /\ \A p \in Orgs : seats[p] = Cardinality(StreamsOf(p))
    BY DEF IInv, SeatsAreHeld, StreamsOf
  <2>12. Cardinality(StreamsOf(o)') = Cardinality(StreamsOf(o)) + 1
    BY <2>9, StreamsFinite, FS_AddElement
  <2>13. seats' = [seats EXCEPT ![o] = @ + 1] BY <1>6, <1>11, <2>4
  <2>14. \A p \in Orgs : seats'[p] = Cardinality(StreamsOf(p)')
    BY <2>10, <2>11, <2>12, <2>13
  <2>15. SeatsAreHeld' BY <2>14 DEF SeatsAreHeld, StreamsOf
  <2>16. seats' \in [Orgs -> Nat] BY <2>11, <2>13
  <2> QED BY <2>6, <2>7, <2>15, <2>16 DEF IInv
<1> QED BY <1>10, <1>11

\* A client leaves; nothing follows yet.
LEMMA LeaveKeeps ==
  ASSUME GatewayAssumption, IInv, NEW r \in Requests, Leave(r) PROVE IInv'
<1> DEFINE q == req[r]
           new == [q EXCEPT !.here = FALSE]
<1>1. q \in Request /\ OnWay(q) /\ seats' = seats BY DEF IInv, Leave
<1>2. req' = [req EXCEPT ![r] = new] BY DEF Leave
<1>3. /\ new \in Request /\ new.stage = q.stage /\ new.context = q.context
      /\ new.headers = q.headers /\ new.route = q.route /\ new.bearer = q.bearer
      /\ new.token = q.token
  BY <1>1 DEF Request
<1> HIDE DEF new
<1>4. OnWay(new) BY <1>1, <1>3 DEF OnWay, Allowed
<1> QED BY <1>1, <1>2, <1>3, <1>4, RequestMoves

\* A stream that is torn down gives its seat back; one that has none yet takes none.
LEMMA TearDownKeeps ==
  ASSUME GatewayAssumption, IInv, NEW r \in Requests, TearDown(r) PROVE IInv'
<1> DEFINE q == req[r]
           new == [q EXCEPT !.stage = "closed"]
<1>1. /\ q \in Request /\ OnWay(q) /\ q.stage \in {"forwarded", "streaming"}
      /\ q.route = "stream"
  BY DEF IInv, TearDown
<1>2. req' = [req EXCEPT ![r] = new] BY DEF TearDown, Move
<1>3. CASE q.stage = "forwarded"
  <2>1. seats' = seats /\ Move(r, "closed") BY <1>3 DEF TearDown
  <2> QED BY <1>3, <2>1, StageMoves
<1>4. CASE q.stage = "streaming"
  <2>1. Allowed(q) BY <1>1, <1>4 DEF OnWay
  <2>2. q.bearer \in UserContexts /\ q.context.user = q.bearer
    BY <1>1, <2>1 DEF Allowed, Public, Request
  <2>3. q.context.user.org \in Orgs BY <2>2 DEF UserContexts
  <2>4. PICK o \in Orgs : o = q.context.user.org BY <2>3
  <2>5. new \in Request /\ new.stage = "closed" BY <1>1 DEF Request, Stages
  <2> HIDE DEF new
  <2>6. OnWay(new) BY <2>5 DEF OnWay
  <2>7. \A p \in Requests : req'[p] = IF p = r THEN new ELSE req[p] BY <1>2 DEF IInv
  <2>8. req' \in [Requests -> Request] BY <1>2, <2>5 DEF IInv
  <2>9. \A p \in Requests : OnWay(req[p])' BY <2>6, <2>7 DEF IInv, OnWay, Allowed
  <2>10. StreamsOf(o)' = StreamsOf(o) \ {r} /\ r \in StreamsOf(o)
    BY <1>4, <2>4, <2>5, <2>7 DEF StreamsOf
  <2>11. \A p \in Orgs : p # o => StreamsOf(p)' = StreamsOf(p)
    BY <2>4, <2>5, <2>7 DEF StreamsOf
  <2>12. seats \in [Orgs -> Nat] /\ \A p \in Orgs : seats[p] = Cardinality(StreamsOf(p))
    BY DEF IInv, SeatsAreHeld, StreamsOf
  <2>13. Cardinality(StreamsOf(o)') = Cardinality(StreamsOf(o)) - 1
    BY <2>10, StreamsFinite, FS_RemoveElement
  <2>14. seats' = [seats EXCEPT ![o] = @ - 1] BY <1>4, <2>4 DEF TearDown
  <2>15. \A p \in Orgs : seats'[p] = Cardinality(StreamsOf(p)')
    BY <2>11, <2>12, <2>13, <2>14
  <2>16. SeatsAreHeld' BY <2>15 DEF SeatsAreHeld, StreamsOf
  <2>17. IsFiniteSet(StreamsOf(o)')
    BY <2>10, StreamsFinite, FS_Subset
  <2>18. Cardinality(StreamsOf(o)') \in Nat BY <2>17, FS_CardinalityType
  <2>19. seats' \in [Orgs -> Nat] BY <2>12, <2>13, <2>14, <2>18
  <2> QED BY <2>8, <2>9, <2>16, <2>19 DEF IInv
<1> QED BY <1>1, <1>3, <1>4

\* The API stops: no stream is left, and no seat is taken.
LEMMA StopKeeps == ASSUME GatewayAssumption, IInv, Stop PROVE IInv'
<1>1. ASSUME NEW r \in Requests
      PROVE  req'[r] \in Request /\ OnWay(req[r])' /\ req'[r].stage # "streaming"
  <2>1. req[r] \in Request /\ OnWay(req[r]) BY DEF IInv
  <2>2. CASE req[r].stage = "forwarded"
    <3>1. req'[r] = [req[r] EXCEPT !.stage = "failed"] BY <2>2 DEF Stop
    <3>2. req'[r] \in Request /\ req'[r].stage = "failed" BY <2>1, <3>1 DEF Request, Stages
    <3> QED BY <3>2 DEF OnWay
  <2>3. CASE req[r].stage = "streaming"
    <3>1. req'[r] = [req[r] EXCEPT !.stage = "hanging"] BY <2>3 DEF Stop
    <3>2. req'[r] \in Request /\ req'[r].stage = "hanging" BY <2>1, <3>1 DEF Request, Stages
    <3> QED BY <3>2 DEF OnWay
  <2>4. CASE req[r].stage \notin {"forwarded", "streaming"}
    <3>1. req'[r] = req[r] BY <2>4 DEF Stop
    <3> QED BY <2>1, <2>4, <3>1 DEF OnWay, Allowed
  <2> QED BY <2>2, <2>3, <2>4
<1>2. req' \in [Requests -> Request]
  <2>1. req' = [r \in Requests |-> req'[r]] BY DEF Stop
  <2> QED BY <1>1, <2>1
<1>3. \A o \in Orgs : StreamsOf(o)' = {} BY <1>1 DEF StreamsOf
<1>4. seats' = [o \in Orgs |-> 0] BY DEF Stop
<1>5. SeatsAreHeld' BY <1>3, <1>4, FS_EmptySet DEF SeatsAreHeld, StreamsOf
<1> QED BY <1>1, <1>2, <1>4, <1>5 DEF IInv

\* Every step of the gateway and of the API behind it.
LEMMA StepKeeps == ASSUME GatewayAssumption, IInv, [Next]_vars PROVE IInv'
<1>1. CASE req' = req /\ seats' = seats
  <2>1. \A o \in Orgs : StreamsOf(o)' = StreamsOf(o) BY <1>1 DEF StreamsOf
  <2>2. SeatsAreHeld' BY <1>1, <2>1 DEF IInv, SeatsAreHeld, StreamsOf
  <2> QED BY <1>1, <2>2 DEF IInv, OnWay, Allowed
<1>2. ASSUME NEW r \in Requests, NEW x \in Routes, NEW b \in Bearers \cup {Absent},
             NEW t \in Tokens \cup {Absent}, NEW claim \in Claims, Enter(r, x, b, t, claim)
      PROVE  IInv'
  BY <1>2, EnterKeeps
<1>3. ASSUME NEW r \in Requests, Authenticate(r) \/ CheckToken(r) PROVE IInv'
  BY <1>3, GuardsKeep
<1>4. ASSUME NEW r \in Requests, Forward(r) PROVE IInv' BY <1>4, ForwardKeeps
<1>5. ASSUME NEW r \in Requests, Handle(r) PROVE IInv' BY <1>5, HandleKeeps
<1>6. ASSUME NEW r \in Requests, Leave(r) PROVE IInv' BY <1>6, LeaveKeeps
<1>7. ASSUME NEW r \in Requests, TearDown(r) PROVE IInv' BY <1>7, TearDownKeeps
<1>8. CASE Stop BY <1>8, StopKeeps
<1>9. CASE Minute \/ Restart \/ UNCHANGED vars BY <1>1, <1>9 DEF Minute, Restart, vars
<1> QED BY <1>2, <1>3, <1>4, <1>5, <1>6, <1>7, <1>8, <1>9 DEF Next

\* The API behind the gateway never acts for anybody but the bearer of the token that the
\* gateway has verified, and the seats of an organization are exactly its open streams:
\* InjectHeaders, stripInternalHeaders and the connectionCounts of the stream controller.
THEOREM GatewayCorrect == ASSUME GatewayAssumption PROVE Spec => []ServedForTheBearer
<1>1. Init => IInv BY InitIsRight
<1>2. IInv /\ [Next]_vars => IInv' BY StepKeeps
<1>3. IInv => ServedForTheBearer
  <2> SUFFICES ASSUME IInv PROVE ServedAsAuthenticated BY DEF ServedForTheBearer, IInv
  <2>1. \A r \in Requests : Served(r) => Allowed(req[r]) BY DEF IInv, OnWay, Served
  <2> QED BY <2>1 DEF ServedAsAuthenticated, Allowed
<1> QED BY <1>1, <1>2, <1>3, PTL DEF Spec

-----------------------------------------------------------------------------
\* What is counted stays within its limits.
Bounded ==
  /\ hits \in [Routes -> 0 .. Limit] /\ up \in BOOLEAN
  /\ \A o \in Orgs : seats[o] <= MaxConnections

\* A stream takes a seat only where one is left.
LEMMA BoundsKeep ==
  ASSUME GatewayAssumption, IInv, IInv', Bounded, [Next]_vars PROVE Bounded'
<1>1. /\ Limit \in Nat /\ MaxConnections \in Nat /\ seats \in [Orgs -> Nat]
      /\ hits \in [Routes -> 0 .. Limit] /\ up \in BOOLEAN
  BY DEF GatewayAssumption, IInv, Bounded
<1>2. ASSUME UNCHANGED <<hits, up>>, NEW p, seats' = [seats EXCEPT ![p] = @ + 1],
             seats[p] < MaxConnections
      PROVE  Bounded'
  BY <1>1, <1>2 DEF Bounded
<1>3. ASSUME UNCHANGED <<hits, up>>, NEW p, seats' = [seats EXCEPT ![p] = @ - 1]
      PROVE  Bounded'
  BY <1>1, <1>3 DEF Bounded
<1>4. ASSUME NEW r \in Requests, NEW x \in Routes, NEW b, NEW t, NEW claim,
             Enter(r, x, b, t, claim)
      PROVE  Bounded'
  BY <1>1, <1>4 DEF Enter, Bounded
<1>5. ASSUME NEW r \in Requests, Authenticate(r) \/ CheckToken(r) \/ Forward(r) \/ Leave(r)
      PROVE  Bounded'
  BY <1>5 DEF Authenticate, CheckToken, Forward, Leave, Bounded
<1>6. ASSUME NEW r \in Requests, Handle(r) PROVE Bounded'
  <2> DEFINE q == req[r]
  <2>1. CASE Accepts(q) /\ q.route = "stream"
    <3>1. /\ seats' = [seats EXCEPT ![q.headers.org] = @ + 1]
          /\ UNCHANGED <<hits, up>> /\ seats[q.headers.org] < MaxConnections
      BY <1>6, <2>1 DEF Handle, Accepts
    <3> HIDE DEF q
    <3> QED BY <3>1, <1>2
  <2>2. CASE ~(Accepts(q) /\ q.route = "stream") BY <1>6, <2>2 DEF Handle, Bounded
  <2> QED BY <2>1, <2>2
<1>7. ASSUME NEW r \in Requests, TearDown(r) PROVE Bounded'
  <2>1. CASE req[r].stage = "streaming" BY <1>3, <1>7, <2>1 DEF TearDown
  <2>2. CASE req[r].stage # "streaming" BY <1>7, <2>2 DEF TearDown, Bounded
  <2> QED BY <2>1, <2>2
<1>8. CASE Minute
  <2>1. hits' \in [Routes -> 0 .. Limit] BY <1>1, <1>8 DEF Minute
  <2> QED BY <1>8, <2>1 DEF Minute, Bounded
<1>9. CASE Stop
  <2>1. \A o \in Orgs : seats'[o] <= MaxConnections BY <1>1, <1>9 DEF Stop
  <2> QED BY <1>9, <2>1 DEF Stop, Bounded
<1>10. CASE Restart \/ UNCHANGED vars BY <1>10 DEF Restart, vars, Bounded
<1> QED BY <1>4, <1>5, <1>6, <1>7, <1>8, <1>9, <1>10 DEF Next

\* Requests, contexts and headers have their shape, no handler is called more often in a minute
\* than its limit allows, and no organization has more streams than MAX_CONNECTIONS_PER_ORG.
\* (In Typed of the run.)
THEOREM GatewayTyped == ASSUME GatewayAssumption PROVE Spec => []TypeOK
<1>1. Init => IInv /\ Bounded
  <2>1. Init => Bounded BY DEF Init, Bounded, GatewayAssumption
  <2> QED BY <2>1, InitIsRight
<1>2. IInv /\ Bounded /\ [Next]_vars => (IInv /\ Bounded)' BY StepKeeps, BoundsKeep
<1>3. IInv /\ Bounded => TypeOK
  BY DEF IInv, Bounded, TypeOK, Request, Contexts, Stages, GatewayAssumption
<1> QED BY <1>1, <1>2, <1>3, PTL DEF Spec

-----------------------------------------------------------------------------
(* What a page shows. *)

\* A useApi and its requests are records.
IsRequest(r) == DOMAIN r = {"key", "org", "aborted", "answer"} /\ r.aborted \in BOOLEAN

IsHook(x) ==
  /\ DOMAIN x = {"key", "data", "has", "loading", "error", "requests"}
  /\ x.has \in BOOLEAN /\ x.loading \in BOOLEAN /\ x.error \in BOOLEAN
  /\ \A r \in x.requests : IsRequest(r)

Silent(x) == \A r \in x.requests : r.aborted

\* An answer is that to its request, and only the last request is not aborted.
Answered(x) == \A r \in x.requests : r.answer # D!NoAnswer => r.answer.key = r.key
OnlyLast(x) ==
  \A r, q \in x.requests : ~r.aborted => r.key = x.key /\ (~q.aborted => r = q)

\* What SettledShowsLast says of one useApi.
Shows(x) == (Silent(x) /\ ~x.error) => ~x.loading /\ (x.key # D!NoKey => x.data.key = x.key)

Sound(x) == IsHook(x) /\ Answered(x) /\ OnlyLast(x) /\ Shows(x)

\* What is shown, or will be with the answer on its way, is version v.
Current(x, v) ==
  /\ \A r \in x.requests : r.aborted \/ r.answer = D!NoAnswer \/ r.answer.version = v
  /\ (Silent(x) /\ ~x.error) => x.data.version = v

\* The pages that hear notifications.
Listening(v) == v \in {"runs", "run"}

\* What the hooks a of the page v hold, as far as the version n is known to the page.
HooksSound(a) == DOMAIN a = D!Hooks /\ \A h \in D!Hooks : Sound(a[h])
Asking(a, v)  == /\ Listening(v) => a["main"].key # D!NoKey
                 /\ v = "run" => a["side"].key # D!NoKey
UpToDate(a, v, n) == /\ Listening(v) => Current(a["main"], n)
                     /\ v = "run" => Current(a["side"], n)

PagesInv ==
  /\ HooksSound(api) /\ Asking(api, view) /\ version \in Nat
  /\ view = "runs" => ~missed
  /\ (~note /\ ~timer /\ ~missed) => UpToDate(api, view, version)

-----------------------------------------------------------------------------
(* The useApi. *)

\* Requests that are aborted.
Aborted(x) == {[r EXCEPT !.aborted = TRUE] : r \in x.requests}

\* They are requests still, and their answers are theirs.
LEMMA AbortedAre ==
  ASSUME NEW x, IsHook(x), Answered(x)
  PROVE  \A r \in Aborted(x) : /\ IsRequest(r) /\ r.aborted
                               /\ r.answer # D!NoAnswer => r.answer.key = r.key
<1> SUFFICES ASSUME NEW q \in x.requests
             PROVE  LET r == [q EXCEPT !.aborted = TRUE]
                    IN  /\ IsRequest(r) /\ r.aborted
                        /\ r.answer # D!NoAnswer => r.answer.key = r.key
  BY DEF Aborted
<1> DEFINE r == [q EXCEPT !.aborted = TRUE]
<1>1. IsRequest(q) BY DEF IsHook
<1>2. r.key = q.key /\ r.answer = q.answer /\ r.aborted = TRUE /\ IsRequest(r)
  BY <1>1 DEF IsRequest
<1> QED BY <1>2 DEF Answered

\* A useApi that asks: what it had asked is aborted.
LEMMA FetchSound ==
  ASSUME NEW x, NEW o, IsHook(x), Answered(x), x.key = D!NoKey => OnlyLast(x)
  PROVE  /\ Sound(D!Fetch(x, o)) /\ D!Fetch(x, o).key = x.key
         /\ x.key # D!NoKey => \A v : Current(D!Fetch(x, o), v)
<1> DEFINE y == D!Fetch(x, o)
<1>1. CASE x.key = D!NoKey
  <2>1. /\ y.key = D!NoKey /\ y.loading = FALSE /\ y.requests = x.requests /\ y.has = x.has
        /\ y.error = x.error /\ y.data = x.data /\ DOMAIN y = DOMAIN x
    BY <1>1 DEF IsHook, D!Fetch
  <2> HIDE DEF y
  <2>2. IsHook(y) BY <2>1 DEF IsHook
  <2>3. Answered(y) /\ OnlyLast(y) BY <1>1, <2>1 DEF Answered, OnlyLast
  <2>4. Shows(y) BY <2>1 DEF Shows
  <2> QED BY <1>1, <2>1, <2>2, <2>3, <2>4 DEF Sound, y
<1>2. CASE x.key # D!NoKey
  <2> DEFINE q == [key |-> x.key, org |-> o, aborted |-> FALSE, answer |-> D!NoAnswer]
  <2>1. /\ y.key = x.key /\ y.data = x.data /\ y.has = x.has /\ y.loading = (x.loading \/ ~x.has)
        /\ y.error = FALSE /\ y.requests = Aborted(x) \cup {q} /\ DOMAIN y = DOMAIN x
    BY <1>2 DEF IsHook, D!Fetch, Aborted
  <2>2. IsRequest(q) /\ ~q.aborted /\ q.key = x.key /\ q.answer = D!NoAnswer BY DEF IsRequest
  <2> HIDE DEF y, q
  <2>3. \A r \in y.requests : /\ IsRequest(r) /\ (r.aborted \/ r = q)
                              /\ r.answer # D!NoAnswer => r.answer.key = r.key
    BY <2>1, <2>2, AbortedAre
  <2>4. IsHook(y) BY <2>1, <2>3 DEF IsHook
  <2>5. Answered(y) /\ OnlyLast(y) BY <2>1, <2>2, <2>3 DEF Answered, OnlyLast
  <2>6. ~Silent(y) BY <2>1, <2>2 DEF Silent
  <2>7. Shows(y) /\ \A v : Current(y, v) BY <2>2, <2>3, <2>6 DEF Shows, Current
  <2> QED BY <2>1, <2>4, <2>5, <2>7 DEF Sound, y
<1> QED BY <1>1, <1>2

\* One whose parameters change asks for what they say.
LEMMA RekeySound ==
  ASSUME NEW x, NEW k, NEW o, Sound(x)
  PROVE  /\ Sound(D!Rekey(x, k, o)) /\ D!Rekey(x, k, o).key = k
         /\ \A v : (k # D!NoKey /\ (k = x.key => Current(x, v))) => Current(D!Rekey(x, k, o), v)
<1>1. CASE k = x.key BY <1>1 DEF D!Rekey
<1>2. CASE k # x.key
  <2> DEFINE y == [x EXCEPT !.key = k, !.has = FALSE,
                            !.requests = {[r EXCEPT !.aborted = TRUE] : r \in @}]
  <2>1. D!Rekey(x, k, o) = D!Fetch(y, o) BY <1>2 DEF D!Rekey
  <2>2. /\ y.key = k /\ y.data = x.data /\ y.has = FALSE /\ y.loading = x.loading
        /\ y.error = x.error /\ y.requests = Aborted(x) /\ DOMAIN y = DOMAIN x
    BY DEF Sound, IsHook, Aborted
  <2> HIDE DEF y
  <2>3. \A r \in y.requests : /\ IsRequest(r) /\ r.aborted
                              /\ r.answer # D!NoAnswer => r.answer.key = r.key
    BY <2>2, AbortedAre DEF Sound
  <2>4. IsHook(y) BY <2>2, <2>3 DEF IsHook, Sound
  <2>5. Answered(y) /\ OnlyLast(y) BY <2>3 DEF Answered, OnlyLast
  <2> QED BY <1>2, <2>1, <2>2, <2>4, <2>5, FetchSound
<1> QED BY <1>1, <1>2

\* An answer that has come.
LEMMA AnswerSound ==
  ASSUME NEW x, Sound(x), NEW r \in x.requests, r.answer # D!NoAnswer
  PROVE  /\ Sound(D!KeepAnswer(x, r)) /\ D!KeepAnswer(x, r).key = x.key
         /\ \A v : Current(x, v) => Current(D!KeepAnswer(x, r), v)
<1> DEFINE y == D!KeepAnswer(x, r)
<1>1. CASE r.aborted
  <2>1. /\ y.key = x.key /\ y.data = x.data /\ y.has = x.has /\ y.loading = x.loading
        /\ y.error = x.error /\ y.requests = x.requests \ {r} /\ DOMAIN y = DOMAIN x
    BY <1>1 DEF D!KeepAnswer, Sound, IsHook
  <2> HIDE DEF y
  <2>2. IsHook(y) BY <2>1 DEF Sound, IsHook
  <2>3. Answered(y) /\ OnlyLast(y) BY <2>1 DEF Sound, Answered, OnlyLast
  <2>4. Silent(y) => Silent(x) BY <1>1, <2>1 DEF Silent
  <2>5. Shows(y) BY <2>1, <2>4 DEF Sound, Shows
  <2>6. \A v : Current(x, v) => Current(y, v) BY <2>1, <2>4 DEF Current
  <2> QED BY <2>1, <2>2, <2>3, <2>5, <2>6 DEF Sound, y
<1>2. CASE ~r.aborted
  <2>1. /\ y.key = x.key /\ y.data = r.answer /\ y.has = TRUE /\ y.loading = FALSE
        /\ y.error = x.error /\ y.requests = x.requests \ {r} /\ DOMAIN y = DOMAIN x
    BY <1>2 DEF D!KeepAnswer, Sound, IsHook
  <2> HIDE DEF y
  <2>2. IsHook(y) BY <2>1 DEF Sound, IsHook
  <2>3. Answered(y) /\ OnlyLast(y) BY <2>1 DEF Sound, Answered, OnlyLast
  <2>4. r.answer.key = x.key BY <1>2 DEF Sound, Answered, OnlyLast
  <2>5. Shows(y) BY <2>1, <2>4 DEF Shows
  <2>6. \A v : Current(x, v) => Current(y, v) BY <1>2, <2>1 DEF Current
  <2> QED BY <2>1, <2>2, <2>3, <2>5, <2>6 DEF Sound, y
<1>3. r.aborted \in BOOLEAN BY DEF Sound, IsHook, IsRequest
<1> QED BY <1>1, <1>2, <1>3

-----------------------------------------------------------------------------
(* Renders. *)

\* The provider has one, the page has three.
LEMMA HooksAre == D!Hooks = {"projects", "main", "side", "drawer"} BY DEF D!Hooks

\* The pages that hear notifications ask for something, whatever is selected.
LEMMA KeysAre ==
  ASSUME NEW s, NEW projects
  PROVE  /\ D!MainKey("run", s, projects) # D!NoKey /\ D!MainKey("runs", s, projects) # D!NoKey
         /\ D!SideKey("run", s, projects) # D!NoKey
<1>1. \A b, ids : D!RunsKey(b, ids) # D!NoKey BY DEF D!RunsKey, D!NoKey
<1>2. <<"run">> # D!NoKey /\ <<"tests">> # D!NoKey BY DEF D!NoKey
<1> QED BY <1>1, <1>2 DEF D!MainKey, D!SideKey

\* The page asks for what it is opened with; what it knows for certain stays certain.
LEMMA RenderedSound ==
  ASSUME NEW a, NEW v, NEW s, NEW o, HooksSound(a)
  PROVE  LET b == D!Rendered(a, v, s, o)
         IN  /\ HooksSound(b) /\ Asking(b, v)
             /\ \A n : UpToDate(a, v, n) \/ (a["main"].key = D!NoKey /\ a["side"].key = D!NoKey)
                         => UpToDate(b, v, n)
<1> DEFINE b == D!Rendered(a, v, s, o)
           m == D!MainKey(v, s, D!ProjectsKnown(a))
           d == D!SideKey(v, s, D!ProjectsKnown(a))
<1>1. /\ DOMAIN b = D!Hooks
      /\ b["main"] = D!Rekey(a["main"], m, o) /\ b["side"] = D!Rekey(a["side"], d, o)
      /\ b["projects"] = a["projects"] /\ b["drawer"] = a["drawer"]
  BY HooksAre DEF D!Rendered, HooksSound
<1>2. Sound(a["main"]) /\ Sound(a["side"]) /\ Sound(a["projects"]) /\ Sound(a["drawer"])
  BY HooksAre DEF HooksSound
<1>3. /\ Listening(v) => m # D!NoKey
      /\ v = "run" => d # D!NoKey
  BY KeysAre DEF Listening
<1> HIDE DEF b, m, d
<1>4. Sound(b["main"]) /\ b["main"].key = m /\ Sound(b["side"]) /\ b["side"].key = d
  BY <1>1, <1>2, RekeySound
<1>5. HooksSound(b) BY <1>1, <1>2, <1>4, HooksAre DEF HooksSound
<1>6. Asking(b, v) BY <1>3, <1>4 DEF Asking
<1>7. ASSUME NEW n, UpToDate(a, v, n) \/ (a["main"].key = D!NoKey /\ a["side"].key = D!NoKey)
      PROVE  UpToDate(b, v, n)
  BY <1>1, <1>2, <1>3, <1>7, RekeySound DEF UpToDate
<1> QED BY <1>5, <1>6, <1>7 DEF b

\* So it does when the link has selected a project.
LEMMA RenderSound ==
  ASSUME NEW a, NEW v, NEW s, NEW l, NEW o, HooksSound(a), D!Render(a, v, s, l, o)
  PROVE  /\ HooksSound(api') /\ Asking(api', v)
         /\ \A n : UpToDate(a, v, n) \/ (a["main"].key = D!NoKey /\ a["side"].key = D!NoKey)
                     => UpToDate(api', v, n)
<1> DEFINE b == D!Rendered(a, v, s, o)
<1>1. PICK picked : api' = D!Rendered(b, v, picked, o) BY DEF D!Render
<1>2. HooksSound(b) BY RenderedSound
<1>3. \A n : UpToDate(a, v, n) \/ (a["main"].key = D!NoKey /\ a["side"].key = D!NoKey)
               => UpToDate(b, v, n)
  BY RenderedSound
<1> HIDE DEF b
<1>4. \A n : UpToDate(b, v, n) => UpToDate(api', v, n) BY <1>1, <1>2, RenderedSound
<1> QED BY <1>1, <1>2, <1>3, <1>4, RenderedSound

\* A page that is mounted has asked for nothing.
LEMMA FreshSound ==
  ASSUME NEW a, HooksSound(a)
  PROVE  /\ HooksSound(D!Fresh(a))
         /\ D!Fresh(a)["main"].key = D!NoKey /\ D!Fresh(a)["side"].key = D!NoKey
<1>1. Sound(D!Mounted) /\ D!Mounted.key = D!NoKey
  BY DEF D!Mounted, Sound, IsHook, Answered, OnlyLast, Shows
<1>2. /\ DOMAIN D!Fresh(a) = D!Hooks /\ D!Fresh(a)["projects"] = a["projects"]
      /\ D!Fresh(a)["main"] = D!Mounted /\ D!Fresh(a)["side"] = D!Mounted
      /\ D!Fresh(a)["drawer"] = D!Mounted
  BY HooksAre DEF D!Fresh, HooksSound
<1> QED BY <1>1, <1>2, HooksAre DEF HooksSound

\* A page that is opened shows, or will, what is in the database.
LEMMA Opened ==
  ASSUME PagesInv, NEW v, NEW s, NEW l, NEW o, D!Render(D!Fresh(api), v, s, l, o),
         view' = v, ~missed', version' = version
  PROVE  PagesInv'
<1>1. /\ HooksSound(D!Fresh(api))
      /\ D!Fresh(api)["main"].key = D!NoKey /\ D!Fresh(api)["side"].key = D!NoKey
  BY FreshSound DEF PagesInv
<1>2. HooksSound(api') /\ Asking(api', v) /\ \A n : UpToDate(api', v, n) BY <1>1, RenderSound
<1> QED BY <1>2 DEF PagesInv

\* A page that is rendered again.
LEMMA RenderedAgain ==
  ASSUME PagesInv, NEW a, NEW s, NEW l, NEW o, D!Render(a, view, s, l, o), HooksSound(a),
         UpToDate(api, view, version) => UpToDate(a, view, version),
         UNCHANGED <<view, version, note, timer, missed>>
  PROVE  PagesInv'
<1>1. /\ HooksSound(api') /\ Asking(api', view)
      /\ UpToDate(a, view, version) => UpToDate(api', view, version)
  BY RenderSound
<1> QED BY <1>1 DEF PagesInv

-----------------------------------------------------------------------------
(* Answers and steps. *)

\* One of the hooks changes, and asks for the same as before.
LEMMA OneChanges ==
  ASSUME PagesInv, NEW h \in D!Hooks, NEW y, Sound(y), y.key = api[h].key \/ h = "drawer",
         Current(api[h], version) => Current(y, version)
  PROVE  LET a == [api EXCEPT ![h] = y]
         IN  /\ HooksSound(a) /\ Asking(a, view)
             /\ UpToDate(api, view, version) => UpToDate(a, view, version)
<1> DEFINE a == [api EXCEPT ![h] = y]
<1>1. DOMAIN a = D!Hooks /\ \A g \in D!Hooks : a[g] = IF g = h THEN y ELSE api[g]
  BY DEF PagesInv, HooksSound
<1> HIDE DEF a
<1>2. HooksSound(a) BY <1>1 DEF PagesInv, HooksSound
<1>3. Asking(a, view) BY <1>1, HooksAre DEF PagesInv, Asking
<1>4. UpToDate(api, view, version) => UpToDate(a, view, version) BY <1>1, HooksAre DEF UpToDate
<1> QED BY <1>2, <1>3, <1>4 DEF a

\* The server answers with what the database has now.
LEMMA AnswersKeep ==
  ASSUME PagesInv, NEW h \in D!Hooks, NEW r \in api[h].requests, D!Answers(h, r) PROVE PagesInv'
<1> DEFINE x == api[h]
           q == [r EXCEPT !.answer = [key |-> r.key, org |-> r.org, version |-> version]]
           y == [x EXCEPT !.requests = (@ \ {r}) \cup {q}]
<1>1. Sound(x) /\ version \in Nat /\ DOMAIN api = D!Hooks BY DEF PagesInv, HooksSound
<1>2. api' = [api EXCEPT ![h] = y] BY DEF D!Answers
<1>3. IsRequest(r) BY <1>1 DEF Sound, IsHook
<1>4. /\ IsRequest(q) /\ q.key = r.key /\ q.aborted = r.aborted
      /\ q.answer = [key |-> r.key, org |-> r.org, version |-> version]
  BY <1>3 DEF IsRequest
<1>5. q.answer.key = r.key /\ q.answer.version = version BY <1>4
<1>6. /\ y.key = x.key /\ y.data = x.data /\ y.has = x.has /\ y.loading = x.loading
      /\ y.error = x.error /\ y.requests = (x.requests \ {r}) \cup {q} /\ DOMAIN y = DOMAIN x
  BY <1>1 DEF Sound, IsHook
<1> HIDE DEF x, y, q
<1>7. IsHook(y) BY <1>1, <1>4, <1>6 DEF Sound, IsHook
<1>8. r \in x.requests BY DEF x
<1>9. Answered(y) BY <1>1, <1>4, <1>5, <1>6 DEF Sound, Answered
<1>10. OnlyLast(y) BY <1>1, <1>4, <1>6, <1>8 DEF Sound, OnlyLast
<1>11. Silent(y) => Silent(x) BY <1>4, <1>6, <1>8 DEF Silent
<1>12. Shows(y) BY <1>1, <1>6, <1>11 DEF Sound, Shows
<1>13. Current(x, version) => Current(y, version) BY <1>5, <1>6, <1>11 DEF Current
<1>14. /\ HooksSound(api') /\ Asking(api', view)
       /\ UpToDate(api, view, version) => UpToDate(api', view, version)
  BY <1>2, <1>6, <1>7, <1>9, <1>10, <1>12, <1>13, OneChanges DEF Sound, x
<1> QED BY <1>14 DEF PagesInv, D!Answers

\* The answer comes.
LEMMA DeliverKeeps ==
  ASSUME PagesInv, NEW h \in D!Hooks, NEW r \in api[h].requests, D!Deliver(h, r) PROVE PagesInv'
<1> DEFINE y == D!KeepAnswer(api[h], r)
           a == [api EXCEPT ![h] = y]
<1>1. Sound(api[h]) BY DEF PagesInv, HooksSound
<1>2. Sound(y) /\ y.key = api[h].key /\ (Current(api[h], version) => Current(y, version))
  BY <1>1, AnswerSound DEF D!Deliver
<1> HIDE DEF y
<1>3. HooksSound(a) /\ (UpToDate(api, view, version) => UpToDate(a, view, version))
  BY <1>2, OneChanges
<1>4. D!Render(a, view, selected, link, org) /\ UNCHANGED <<view, version, note, timer, missed>>
  BY DEF D!Deliver, y
<1> HIDE DEF a
<1> QED BY <1>3, <1>4, RenderedAgain

\* A request fails.
LEMMA FailKeeps ==
  ASSUME PagesInv, NEW h \in D!Hooks, NEW r \in api[h].requests, D!Fail(h, r) PROVE PagesInv'
<1> DEFINE x == api[h]
           y == [x EXCEPT !.requests = @ \ {r}, !.error = TRUE, !.loading = FALSE]
<1>1. Sound(x) /\ DOMAIN api = D!Hooks BY DEF PagesInv, HooksSound
<1>2. /\ y.key = x.key /\ y.data = x.data /\ y.has = x.has /\ y.loading = FALSE
      /\ y.error = TRUE /\ y.requests = x.requests \ {r} /\ DOMAIN y = DOMAIN x
  BY <1>1 DEF Sound, IsHook
<1>3. api' = [api EXCEPT ![h] = y] BY <1>1 DEF D!Fail, Sound, IsHook
<1> HIDE DEF x, y
<1>4. IsHook(y) BY <1>1, <1>2 DEF Sound, IsHook
<1>5. Answered(y) /\ OnlyLast(y) BY <1>1, <1>2 DEF Sound, Answered, OnlyLast
<1>6. Shows(y) /\ (Current(x, version) => Current(y, version)) BY <1>2 DEF Shows, Current
<1>7. /\ HooksSound(api') /\ Asking(api', view)
      /\ UpToDate(api, view, version) => UpToDate(api', view, version)
  BY <1>2, <1>3, <1>4, <1>5, <1>6, OneChanges DEF Sound, x
<1> QED BY <1>7 DEF PagesInv, D!Fail

\* The drawer is no part of what notifications are about.
LEMMA ShowKeeps == ASSUME PagesInv, NEW k, D!Show(k) PROVE PagesInv'
<1> DEFINE y == D!Rekey(api["drawer"], k, org)
<1>1. "drawer" \in D!Hooks /\ Sound(api["drawer"]) BY HooksAre DEF PagesInv, HooksSound
<1>2. Sound(y) BY <1>1, RekeySound
<1>3. api' = [api EXCEPT !["drawer"] = y] /\ UNCHANGED <<view, version, note, timer, missed>>
  BY DEF D!Show
<1> HIDE DEF y
<1> DEFINE a == [api EXCEPT !["drawer"] = y]
<1>4. DOMAIN a = D!Hooks /\ a["main"] = api["main"] /\ a["side"] = api["side"]
      /\ a["projects"] = api["projects"] /\ a["drawer"] = y
  BY HooksAre DEF PagesInv, HooksSound
<1>5. api' = a BY <1>3
<1> HIDE DEF a
<1>6. HooksSound(a) BY <1>2, <1>4, HooksAre DEF PagesInv, HooksSound
<1>7. Asking(a, view) BY <1>4 DEF PagesInv, Asking
<1>8. UpToDate(api, view, version) => UpToDate(a, view, version) BY <1>4 DEF UpToDate
<1> QED BY <1>3, <1>5, <1>6, <1>7, <1>8 DEF PagesInv

\* Another selection.
LEMMA SelectKeeps == ASSUME PagesInv, NEW s, D!Select(s) PROVE PagesInv'
<1>1. api' = D!Rendered(api, view, s, org) /\ UNCHANGED <<view, version, note, timer, missed>>
  BY DEF D!Select
<1>2. /\ HooksSound(api') /\ Asking(api', view)
      /\ UpToDate(api, view, version) => UpToDate(api', view, version)
  BY <1>1, RenderedSound DEF PagesInv
<1> QED BY <1>1, <1>2 DEF PagesInv

\* Another organization: the dashboard hears nothing.
LEMMA SwitchKeeps == ASSUME PagesInv, NEW o, D!SwitchOrganization(o) PROVE PagesInv'
<1> DEFINE a == IF view = "dashboard" THEN api ELSE D!Fresh(api)
<1>1. HooksSound(a) BY FreshSound DEF PagesInv
<1>2. D!Render(a, "dashboard", stored[o], NoLink, o) /\ view' = "dashboard" /\ version' = version
  BY DEF D!SwitchOrganization
<1> HIDE DEF a
<1>3. HooksSound(api') /\ Asking(api', "dashboard") BY <1>1, <1>2, RenderSound
<1>4. \A n : UpToDate(api', "dashboard", n) BY DEF UpToDate, Listening
<1> QED BY <1>2, <1>3, <1>4 DEF PagesInv

\* All requests of the page anew, what was ignored included.
LEMMA RefetchKeeps == ASSUME PagesInv, D!Refetch PROVE PagesInv'
<1> DEFINE a == [api EXCEPT !["main"] = D!Fetch(@, org), !["side"] = D!Fetch(@, org)]
<1>1. /\ DOMAIN a = D!Hooks /\ a["projects"] = api["projects"] /\ a["drawer"] = api["drawer"]
      /\ a["main"] = D!Fetch(api["main"], org) /\ a["side"] = D!Fetch(api["side"], org)
  BY HooksAre DEF PagesInv, HooksSound
<1>2. api' = a /\ UNCHANGED <<view, version, note>> /\ ~missed' BY DEF D!Refetch
<1> HIDE DEF a
<1>3. Sound(api["main"]) /\ Sound(api["side"]) /\ Sound(api["projects"]) /\ Sound(api["drawer"])
  BY HooksAre DEF PagesInv, HooksSound
<1>4. /\ Sound(a["main"]) /\ a["main"].key = api["main"].key
      /\ Sound(a["side"]) /\ a["side"].key = api["side"].key
      /\ api["main"].key # D!NoKey => Current(a["main"], version)
      /\ api["side"].key # D!NoKey => Current(a["side"], version)
  BY <1>1, <1>3, FetchSound DEF Sound
<1>5. HooksSound(a) BY <1>1, <1>3, <1>4, HooksAre DEF HooksSound
<1>6. Asking(a, view) /\ UpToDate(a, view, version) BY <1>4 DEF PagesInv, Asking, UpToDate
<1> QED BY <1>2, <1>5, <1>6 DEF PagesInv

-----------------------------------------------------------------------------
\* All of it together is inductive.
LEMMA PagesInvariant == D!Spec => []PagesInv
<1>1. D!Init => PagesInv
  <2> SUFFICES ASSUME D!Init PROVE PagesInv OBVIOUS
  <2> DEFINE b == [h \in D!Hooks |-> D!Mounted]
             p == D!Rekey(D!Mounted, <<"projects">>, Home)
             a == [D!Fresh(b) EXCEPT !["projects"] = p]
  <2>1. Sound(D!Mounted) /\ D!Mounted.key = D!NoKey
    BY DEF D!Mounted, Sound, IsHook, Answered, OnlyLast, Shows
  <2>2. Sound(p) BY <2>1, RekeySound
  <2>3. /\ DOMAIN D!Fresh(b) = D!Hooks
        /\ D!Fresh(b)["main"] = D!Mounted /\ D!Fresh(b)["side"] = D!Mounted
        /\ D!Fresh(b)["drawer"] = D!Mounted /\ D!Fresh(b)["projects"] = D!Mounted
    BY HooksAre DEF D!Fresh
  <2> HIDE DEF b
  <2>4. api = D!Rendered(a, view, stored[Home], Home)
    BY <2>3, HooksAre DEF D!Init, b
  <2> HIDE DEF p
  <2>5. /\ DOMAIN a = D!Hooks
        /\ a["main"] = D!Mounted /\ a["side"] = D!Mounted /\ a["drawer"] = D!Mounted
        /\ a["projects"] = p
    BY <2>3, HooksAre
  <2> HIDE DEF a
  <2>6. HooksSound(a) BY <2>1, <2>2, <2>5, HooksAre DEF HooksSound
  <2>7. HooksSound(api) /\ Asking(api, view) /\ \A n : UpToDate(api, view, n)
    BY <2>1, <2>4, <2>5, <2>6, RenderedSound
  <2> QED BY <2>7 DEF D!Init, PagesInv
<1>2. PagesInv /\ [D!Next]_D!vars => PagesInv'
  <2> SUFFICES ASSUME PagesInv, [D!Next]_D!vars PROVE PagesInv' OBVIOUS
  <2>1. ASSUME NEW v \in D!Views, D!Open(v) PROVE PagesInv' BY <2>1, Opened DEF D!Open
  <2>2. CASE D!ShowTest \/ D!HideTest BY <2>2, ShowKeeps DEF D!ShowTest, D!HideTest
  <2>3. CASE D!OpenErrors BY <2>3, Opened DEF D!OpenErrors
  <2>4. CASE D!SelectProject \/ D!SelectAll BY <2>4, SelectKeeps DEF D!SelectProject, D!SelectAll
  <2>5. ASSUME NEW o \in Orgs, D!SwitchOrganization(o) PROVE PagesInv' BY <2>5, SwitchKeeps
  <2>6. ASSUME NEW h \in D!Hooks, NEW r \in api[h].requests,
               \/ D!ServeRun(h, r) \/ D!ServeTest(h, r) \/ D!Serve(h, r)
               \/ D!Deliver(h, r) \/ D!Fail(h, r)
        PROVE  PagesInv'
    BY <2>6, AnswersKeep, DeliverKeeps, FailKeeps DEF D!ServeRun, D!ServeTest, D!Serve
  <2>7. CASE D!Change BY <2>7 DEF D!Change, PagesInv
  <2>8. CASE D!Hear
    <3>1. /\ UNCHANGED <<api, view, version>>
          /\ timer' = (timer \/ view = "runs" \/ (view = "run" /\ D!ShownActive))
          /\ missed' = (missed \/ ~(view = "runs" \/ (view = "run" /\ D!ShownActive)))
      BY <2>8 DEF D!Hear
    <3>2. (~timer' /\ ~missed') => FALSE BY <3>1
    <3> QED BY <3>1, <3>2 DEF PagesInv
  <2>9. CASE D!Refetch BY <2>9, RefetchKeeps
  <2>10. CASE UNCHANGED D!vars BY <2>10 DEF D!vars, PagesInv
  <2> QED BY <2>1, <2>2, <2>3, <2>4, <2>5, <2>6, <2>7, <2>8, <2>9, <2>10 DEF D!Next
<1> QED BY <1>1, <1>2, PTL DEF D!Spec

\* Whatever the order of the answers, whatever fails, and however often the user selects, opens
\* and switches meanwhile: a useApi for which nothing is in flight and nothing has failed shows
\* the answer to its last parameters, and a page that hears notifications the last version, once
\* they are all heard: fetchData of useApi, and handleSseEvent and debouncedRefetch of the pages.
THEOREM PagesShowTheLast == D!Spec => []D!PagesSettle
<1>1. PagesInv => D!PagesSettle
  <2> SUFFICES ASSUME PagesInv PROVE D!PagesSettle OBVIOUS
  <2>1. ASSUME NEW h \in D!Hooks, D!Quiet(h) PROVE Silent(api[h]) /\ ~api[h].error
    BY <2>1 DEF D!Quiet, D!Waiting, Silent
  <2>2. D!SettledShowsLast BY <2>1 DEF D!SettledShowsLast, PagesInv, HooksSound, Sound, Shows
  <2>3. D!NotifiedPagesAreCurrent
    BY <2>1, HooksAre DEF D!NotifiedPagesAreCurrent, PagesInv, UpToDate, Listening, Current
  <2> QED BY <2>2, <2>3 DEF D!PagesSettle
<1> QED BY <1>1, PagesInvariant, PTL

\* What can be selected: the projects of all organizations.
AllProjects == UNION {ProjectsOf[o] : o \in Orgs}

\* The organization a useApi has asked, and been answered, of.
OfOrgs(x) == /\ x.data.org \in Orgs
             /\ \A r \in x.requests : r.org \in Orgs /\ r.answer.org \in Orgs

PagesTypedInv ==
  /\ D!TypeOK /\ selected \subseteq AllProjects /\ OfOrgs(api["projects"])

\* The provider knows projects.
LEMMA KnownAreProjects ==
  ASSUME NEW a, OfOrgs(a["projects"]) PROVE D!ProjectsKnown(a) \subseteq AllProjects
BY DEF OfOrgs, D!ProjectsKnown, AllProjects

\* A render selects projects, and leaves the useApi of the provider as it is.
LEMMA RenderTyped ==
  ASSUME D!PageDataAssumption, NEW a, NEW v, NEW s \in SUBSET AllProjects, NEW o \in Orgs,
         NEW l \in {RunProject, NoLink}, HooksSound(a), D!Render(a, v, s, l, o),
         stored \in [Orgs -> SUBSET AllProjects]
  PROVE  /\ selected' \subseteq AllProjects /\ stored' \in [Orgs -> SUBSET AllProjects]
         /\ link' \in {RunProject, NoLink} /\ api'["projects"] = a["projects"]
<1>1. RunProject \in AllProjects BY DEF D!PageDataAssumption, AllProjects
<1>2. \A b, w, z : DOMAIN b = D!Hooks => /\ DOMAIN D!Rendered(b, w, z, o) = D!Hooks
                                        /\ D!Rendered(b, w, z, o)["projects"] = b["projects"]
  BY HooksAre DEF D!Rendered
<1>3. api'["projects"] = a["projects"] BY <1>2 DEF D!Render, HooksSound
<1>4. selected' \subseteq AllProjects BY <1>1 DEF D!Render
<1>5. stored' \in [Orgs -> SUBSET AllProjects] BY <1>4 DEF D!Render
<1>6. link' \in {RunProject, NoLink} BY DEF D!Render
<1> QED BY <1>3, <1>4, <1>5, <1>6

\* A useApi that is sound is typed.
LEMMA SoundTyped ==
  ASSUME NEW a, HooksSound(a)
  PROVE  /\ DOMAIN a = D!Hooks
         /\ \A h \in D!Hooks : /\ a[h].has \in BOOLEAN /\ a[h].loading \in BOOLEAN
                               /\ a[h].error \in BOOLEAN
                               /\ \A r \in a[h].requests : r.aborted \in BOOLEAN
BY DEF HooksSound, Sound, IsHook, IsRequest

\* A page that is opened or rendered again.
LEMMA RenderKeepsTypes ==
  ASSUME D!PageDataAssumption, PagesInv, PagesInv', PagesTypedInv, NEW a, HooksSound(a),
         OfOrgs(a["projects"]), NEW v, NEW s \in SUBSET AllProjects,
         NEW l \in {RunProject, NoLink}, D!Render(a, v, s, l, org'), org' \in Orgs,
         view' \in D!Views, version' = version, note' = note, timer' \in BOOLEAN,
         missed' \in BOOLEAN, acts' \in 0 .. MaxActs
  PROVE  PagesTypedInv'
<1>1. stored \in [Orgs -> SUBSET AllProjects] BY DEF PagesTypedInv, D!TypeOK, AllProjects
<1>2. /\ selected' \subseteq AllProjects /\ stored' \in [Orgs -> SUBSET AllProjects]
      /\ link' \in {RunProject, NoLink} /\ api'["projects"] = a["projects"]
  BY <1>1, RenderTyped
<1>3. OfOrgs(api'["projects"]) BY <1>2
<1>4. D!TypeOK'
  BY <1>2, SoundTyped DEF PagesInv, PagesTypedInv, D!TypeOK, AllProjects
<1> QED BY <1>2, <1>3, <1>4 DEF PagesTypedInv

\* A step that leaves selection, link and organization alone, and the answers of the provider.
LEMMA OthersKeepTypes ==
  ASSUME PagesInv', PagesTypedInv, UNCHANGED <<org, stored, selected, view, link>>,
         OfOrgs(api'["projects"]), version' \in 0 .. LastVersion, note' \in BOOLEAN,
         timer' \in BOOLEAN, missed' \in BOOLEAN, acts' \in 0 .. MaxActs
  PROVE  PagesTypedInv'
BY SoundTyped DEF PagesInv, PagesTypedInv, D!TypeOK

\* The answer is of the organization of the request.
LEMMA AnswersKeepOrgs ==
  ASSUME PagesInv, PagesTypedInv, NEW h \in D!Hooks, NEW r \in api[h].requests, D!Answers(h, r)
  PROVE  OfOrgs(api'["projects"])
<1> DEFINE q == [r EXCEPT !.answer = [key |-> r.key, org |-> r.org, version |-> version]]
           y == [api[h] EXCEPT !.requests = (@ \ {r}) \cup {q}]
<1>1. Sound(api[h]) /\ DOMAIN api = D!Hooks BY DEF PagesInv, HooksSound
<1>2. api' = [api EXCEPT ![h] = y] BY DEF D!Answers
<1>3. IsRequest(r) BY <1>1 DEF Sound, IsHook
<1>4. q.org = r.org /\ q.answer.org = r.org BY <1>3 DEF IsRequest
<1>5. y.data = api[h].data /\ y.requests = (api[h].requests \ {r}) \cup {q}
  BY <1>1 DEF Sound, IsHook
<1> HIDE DEF y, q
<1>6. CASE h = "projects"
  <2>1. api'["projects"] = y BY <1>1, <1>2, <1>6
  <2> QED BY <1>4, <1>5, <1>6, <2>1 DEF PagesTypedInv, OfOrgs
<1>7. CASE h # "projects"
  <2>1. api'["projects"] = api["projects"] BY <1>1, <1>2, <1>7, HooksAre
  <2> QED BY <2>1 DEF PagesTypedInv
<1> QED BY <1>6, <1>7

\* What is kept of an answer is of an organization.
LEMMA KeptOfOrgs ==
  ASSUME NEW x, IsHook(x), OfOrgs(x), NEW r \in x.requests
  PROVE  OfOrgs(D!KeepAnswer(x, r))
<1>1. OfOrgs([x EXCEPT !.requests = @ \ {r}]) BY DEF IsHook, OfOrgs
<1>2. OfOrgs([x EXCEPT !.requests = @ \ {r}, !.data = r.answer, !.has = TRUE, !.loading = FALSE])
  BY DEF IsHook, OfOrgs
<1> QED BY <1>1, <1>2 DEF D!KeepAnswer

\* Nothing that is toggled was unknown.
LEMMA ToggledAreProjects ==
  ASSUME PagesTypedInv, NEW p \in D!ProjectsKnown(api)
  PROVE  D!Toggled(p) \subseteq AllProjects
<1>1. D!ProjectsKnown(api) \subseteq AllProjects BY KnownAreProjects DEF PagesTypedInv
<1>2. D!SelectedIds(selected, D!ProjectsKnown(api)) \subseteq AllProjects
  BY <1>1 DEF D!SelectedIds
<1> QED BY <1>1, <1>2 DEF D!Toggled

\* Another selection, by the user.
LEMMA SelectKeepsTypes ==
  ASSUME D!PageDataAssumption, PagesInv, PagesInv', PagesTypedInv,
         NEW s \in SUBSET AllProjects, D!Select(s)
  PROVE  PagesTypedInv'
<1>1. api'["projects"] = api["projects"]
  <2>1. DOMAIN api = D!Hooks BY DEF PagesInv, HooksSound
  <2>2. api' = D!Rendered(api, view, s, org) BY DEF D!Select
  <2> QED BY <2>1, <2>2, HooksAre DEF D!Rendered
<1>2. acts' \in 0 .. MaxActs
  BY DEF PagesTypedInv, D!TypeOK, D!Select, D!Act, D!PageDataAssumption
<1>3. stored' \in [Orgs -> SUBSET AllProjects]
  BY DEF PagesTypedInv, D!TypeOK, D!Select, AllProjects
<1>4. D!TypeOK'
  BY <1>2, <1>3, SoundTyped DEF PagesInv, PagesTypedInv, D!TypeOK, D!Select, AllProjects
<1> QED BY <1>1, <1>4 DEF PagesTypedInv, D!Select

\* All of it is inductive beside PagesInv.
LEMMA PagesStepTypes ==
  ASSUME D!PageDataAssumption, PagesInv, PagesInv', PagesTypedInv, [D!Next]_D!vars
  PROVE  PagesTypedInv'
<1>1. /\ HooksSound(api) /\ HooksSound(D!Fresh(api))
      /\ D!Fresh(api)["projects"] = api["projects"]
  BY FreshSound, HooksAre DEF PagesInv, HooksSound, D!Fresh
<1>2. /\ D!TypeOK /\ selected \in SUBSET AllProjects /\ OfOrgs(api["projects"])
      /\ NoLink \in {RunProject, NoLink} /\ RunProject \in {RunProject, NoLink}
  BY DEF PagesTypedInv
<1>3. D!Act => acts' \in 0 .. MaxActs BY <1>2 DEF D!Act, D!TypeOK, D!PageDataAssumption
<1>4. ASSUME NEW v \in D!Views, D!Open(v) PROVE PagesTypedInv'
  <2>1. /\ D!Render(D!Fresh(api), v, selected, NoLink, org') /\ org' \in Orgs
        /\ view' \in D!Views /\ version' = version /\ note' = note
        /\ timer' \in BOOLEAN /\ missed' \in BOOLEAN /\ acts' \in 0 .. MaxActs
    BY <1>2, <1>3, <1>4 DEF D!Open, D!TypeOK
  <2> QED BY <1>1, <1>2, <2>1, RenderKeepsTypes
<1>5. CASE D!ShowTest \/ D!HideTest
  <2>1. PICK key : D!Show(key) BY <1>5 DEF D!ShowTest, D!HideTest
  <2>2. api'["projects"] = api["projects"] BY <1>1, <2>1, HooksAre DEF D!Show, HooksSound
  <2> QED BY <1>2, <1>3, <2>1, <2>2, OthersKeepTypes DEF D!Show, D!TypeOK
<1>6. CASE D!OpenErrors
  <2>1. /\ D!Render(D!Fresh(api), "errors", selected, RunProject, org') /\ org' \in Orgs
        /\ view' \in D!Views /\ version' = version /\ note' = note
        /\ timer' \in BOOLEAN /\ missed' \in BOOLEAN /\ acts' \in 0 .. MaxActs
    BY <1>2, <1>3, <1>6 DEF D!OpenErrors, D!TypeOK, D!Views
  <2> QED BY <1>1, <1>2, <2>1, RenderKeepsTypes
<1>7. CASE D!SelectProject \/ D!SelectAll
  <2>1. {} \in SUBSET AllProjects OBVIOUS
  <2> QED BY <1>7, <2>1, ToggledAreProjects, SelectKeepsTypes DEF D!SelectProject, D!SelectAll
<1>8. ASSUME NEW o \in Orgs, D!SwitchOrganization(o) PROVE PagesTypedInv'
  <2> DEFINE a == IF view = "dashboard" THEN api ELSE D!Fresh(api)
  <2>1. HooksSound(a) /\ a["projects"] = api["projects"] BY <1>1
  <2>2. D!Render(a, "dashboard", stored[o], NoLink, org') BY <1>8 DEF D!SwitchOrganization
  <2> HIDE DEF a
  <2>3. stored[o] \in SUBSET AllProjects BY <1>2 DEF D!TypeOK, AllProjects
  <2>4. /\ org' \in Orgs
        /\ view' \in D!Views /\ version' = version /\ note' = note
        /\ timer' \in BOOLEAN /\ missed' \in BOOLEAN /\ acts' \in 0 .. MaxActs
    BY <1>2, <1>3, <1>8 DEF D!SwitchOrganization, D!TypeOK, D!Views
  <2> QED BY <1>2, <2>1, <2>2, <2>3, <2>4, RenderKeepsTypes
<1>9. ASSUME NEW h \in D!Hooks, NEW r \in api[h].requests, D!Answers(h, r) PROVE PagesTypedInv'
  BY <1>2, <1>9, AnswersKeepOrgs, OthersKeepTypes DEF D!Answers, D!TypeOK
<1>10. ASSUME NEW h \in D!Hooks, NEW r \in api[h].requests, D!Deliver(h, r) PROVE PagesTypedInv'
  <2> DEFINE y == D!KeepAnswer(api[h], r)
             a == [api EXCEPT ![h] = y]
  <2>1. Sound(api[h]) /\ DOMAIN api = D!Hooks BY DEF PagesInv, HooksSound
  <2>2. Sound(y) /\ y.key = api[h].key /\ (Current(api[h], version) => Current(y, version))
    BY <1>10, <2>1, AnswerSound DEF D!Deliver
  <2>3. ASSUME h = "projects" PROVE OfOrgs(y)
    <3>1. IsHook(api[h]) /\ OfOrgs(api[h]) BY <1>2, <2>1, <2>3 DEF Sound
    <3> QED BY <3>1, KeptOfOrgs
  <2> HIDE DEF y
  <2>4. HooksSound(a) BY <2>2, OneChanges
  <2>5. OfOrgs(a["projects"]) BY <1>2, <2>1, <2>3, HooksAre
  <2>6. D!Render(a, view, selected, link, org') BY <1>10 DEF D!Deliver, y
  <2> HIDE DEF a
  <2>7. /\ org' \in Orgs /\ link \in {RunProject, NoLink}
        /\ view' \in D!Views /\ version' = version /\ note' = note
        /\ timer' \in BOOLEAN /\ missed' \in BOOLEAN /\ acts' \in 0 .. MaxActs
    BY <1>2, <1>10 DEF D!Deliver, D!TypeOK
  <2> QED BY <1>2, <2>4, <2>5, <2>6, <2>7, RenderKeepsTypes
<1>11. ASSUME NEW h \in D!Hooks, NEW r \in api[h].requests, D!Fail(h, r) PROVE PagesTypedInv'
  <2> DEFINE y == [api[h] EXCEPT !.requests = @ \ {r}, !.error = TRUE, !.loading = FALSE]
  <2>1. Sound(api[h]) /\ DOMAIN api = D!Hooks BY DEF PagesInv, HooksSound
  <2>2. api' = [api EXCEPT ![h] = y] BY <1>11, <2>1 DEF D!Fail, Sound, IsHook
  <2>3. ASSUME h = "projects" PROVE OfOrgs(y)
    <3>1. IsHook(api[h]) /\ OfOrgs(api[h]) BY <1>2, <2>1, <2>3 DEF Sound
    <3> QED BY <3>1 DEF IsHook, OfOrgs
  <2> HIDE DEF y
  <2>4. OfOrgs(api'["projects"]) BY <1>2, <2>1, <2>2, <2>3, HooksAre
  <2> QED BY <1>2, <1>11, <2>4, OthersKeepTypes DEF D!Fail, D!TypeOK
<1>12. CASE D!Change
  <2>1. version' \in 0 .. LastVersion
    BY <1>2, <1>12 DEF D!Change, D!TypeOK, D!PageDataAssumption
  <2> QED BY <1>2, <1>12, <2>1, OthersKeepTypes DEF D!Change, D!TypeOK
<1>13. CASE D!Hear
  <2>1. timer' \in BOOLEAN /\ missed' \in BOOLEAN BY <1>13 DEF D!Hear
  <2> QED BY <1>2, <1>13, <2>1, OthersKeepTypes DEF D!Hear, D!TypeOK
<1>14. CASE D!Refetch
  <2>1. api'["projects"] = api["projects"] BY <1>1, <1>14, HooksAre DEF D!Refetch, HooksSound
  <2> QED BY <1>2, <1>14, <2>1, OthersKeepTypes DEF D!Refetch, D!TypeOK
<1>15. CASE UNCHANGED D!vars
  BY <1>2, <1>15, OthersKeepTypes DEF D!vars, D!TypeOK
<1> QED
  BY <1>4, <1>5, <1>6, <1>7, <1>8, <1>9, <1>10, <1>11, <1>12, <1>13, <1>14, <1>15
  DEF D!Next, D!ServeRun, D!ServeTest, D!Serve

\* What the user has selected is of an organization that is there, whichever link is followed
\* and whatever was kept of another organization; a useApi is in one of its states.  (In Typed
\* of the run.)
THEOREM PagesTyped == ASSUME D!PageDataAssumption PROVE D!Spec => []D!TypeOK
<1>1. D!Init /\ PagesInv => PagesTypedInv
  <2> SUFFICES ASSUME D!Init, PagesInv PROVE PagesTypedInv OBVIOUS
  <2> DEFINE p == D!Rekey(D!Mounted, <<"projects">>, Home)
             b == D!Fresh([h \in D!Hooks |-> D!Mounted])
             a == [b EXCEPT !["projects"] = p]
  <2>1. p.data.org = Home /\ p.requests = {[key |-> <<"projects">>, org |-> Home,
                                            aborted |-> FALSE, answer |-> D!NoAnswer]}
    <3>1. <<"projects">> # D!NoKey BY DEF D!NoKey
    <3> DEFINE m == [D!Mounted EXCEPT !.key = <<"projects">>, !.has = FALSE,
                                      !.requests = {[r EXCEPT !.aborted = TRUE] : r \in @}]
    <3>2. D!Mounted.requests = {} /\ D!Mounted.key = D!NoKey /\ D!Mounted.data = D!NoData
      BY DEF D!Mounted
    <3>3. p = D!Fetch(m, Home) BY <3>1, <3>2 DEF D!Rekey
    <3>4. /\ m.key = <<"projects">> /\ m.data = D!NoData /\ m.requests = {}
          /\ DOMAIN m = {"key", "data", "has", "loading", "error", "requests"}
      BY DEF D!Mounted
    <3> HIDE DEF p, m
    <3>5. /\ p.data = m.data
          /\ p.requests = {[r EXCEPT !.aborted = TRUE] : r \in m.requests}
                            \cup {[key |-> m.key, org |-> Home, aborted |-> FALSE,
                                   answer |-> D!NoAnswer]}
      BY <3>1, <3>3, <3>4 DEF D!Fetch
    <3> QED BY <3>4, <3>5 DEF D!NoData
  <2>2. OfOrgs(p) BY <2>1 DEF OfOrgs, D!NoAnswer, D!PageDataAssumption
  <2> HIDE DEF p
  <2>3. DOMAIN a = D!Hooks /\ a["projects"] = p /\ b["projects"] = D!Mounted
    BY HooksAre DEF D!Fresh
  <2> HIDE DEF b
  <2>4. api = D!Rendered(a, view, stored[Home], Home) BY <2>3 DEF D!Init, b, p
  <2> HIDE DEF a
  <2>5. api["projects"] = p BY <2>3, <2>4, HooksAre DEF D!Rendered
  <2>6. stored \in [Orgs -> SUBSET AllProjects] /\ Home \in Orgs
    BY DEF D!Init, D!PageDataAssumption, AllProjects
  <2>7. acts \in 0 .. MaxActs /\ version \in 0 .. LastVersion
    BY DEF D!Init, D!PageDataAssumption
  <2>8. D!TypeOK
    <3>1. HooksSound(api) BY DEF PagesInv
    <3> QED BY <2>6, <2>7, <3>1, SoundTyped DEF D!TypeOK, D!Init, AllProjects
  <2> QED BY <2>2, <2>5, <2>6, <2>8 DEF PagesTypedInv, D!Init
<1>2. PagesInv /\ PagesInv' /\ PagesTypedInv /\ [D!Next]_D!vars => PagesTypedInv' BY PagesStepTypes
<1>3. PagesTypedInv => D!TypeOK BY DEF PagesTypedInv
<1> QED BY <1>1, <1>2, <1>3, PagesInvariant, PTL DEF D!Spec

-----------------------------------------------------------------------------
(* The search parameters of a page.  What the instances share by name they do not *)
(* share: no theorem is about two of them.                                        *)

\* No number of a page outlives its filters.
Fitting == {e \in U!Entries : e.page # 1 => e.chosenFor = e.filters}

\* A timer runs for a text that differs from what is rendered; a text without a timer is
\* rendered, unless the page has yet to render what it was changed for.
TimersDiffer == \A p \in inputTimer : text[p] # rendered.filters[p]
TextsReach   == rendered = url /\ ~unseen => \A p \in Inputs \ inputTimer : text[p] = url.filters[p]

ParametersInv ==
  /\ url \in Fitting /\ rendered \in Fitting /\ past \in Seq(Fitting)
  /\ U!TypeOK /\ TimersDiffer /\ TextsReach

-----------------------------------------------------------------------------
\* A filter that changes takes the list to its first page.
LEMMA FilteredFits ==
  ASSUME U!SearchParamsAssumption,
         NEW e \in Fitting, NEW p \in Inputs \cup Buttons, NEW v \in Values
  PROVE  U!WithFilter(e, p, v) \in Fitting /\ U!WithFilter(e, p, v).filters[p] = v
<1> DEFINE f == U!WithFilter(e, p, v)
<1>1. e \in U!Entries /\ e.filters \in [Inputs \cup Buttons -> Values]
  BY DEF Fitting, U!Entries, U!Filters
<1>2. [e.filters EXCEPT ![p] = v] \in U!Filters BY <1>1 DEF U!Filters
<1>3. f = [filters |-> [e.filters EXCEPT ![p] = v], page |-> 1, chosenFor |-> e.chosenFor]
  <2> DEFINE g == [e.filters EXCEPT ![p] = v]
  <2>1. f = [e EXCEPT !.filters = g, !.page = 1] BY DEF U!WithFilter
  <2> HIDE DEF f, g
  <2>2. f = [filters |-> g, page |-> 1, chosenFor |-> e.chosenFor]
    BY <1>1, <2>1 DEF U!Entries
  <2> QED BY <2>2 DEF g
<1>4. 1 \in 1 .. LastPage BY DEF U!SearchParamsAssumption
<1>5. f \in U!Entries BY <1>1, <1>2, <1>3, <1>4 DEF U!Entries
<1>6. f.page = 1 /\ f.filters[p] = v BY <1>1, <1>3
<1> QED BY <1>5, <1>6 DEF Fitting

\* What is pushed can be gone back to.
LEMMA PushKeeps ==
  ASSUME U!SearchParamsAssumption, ParametersInv, NEW e \in Fitting, U!Push(e),
         rendered' = rendered, text' = text, inputTimer' \subseteq inputTimer,
         inputTimer' = inputTimer \/ rendered # e, debouncing' \subseteq debouncing,
         events' \in 0 .. MaxEvents
  PROVE  ParametersInv'
<1>1. /\ url' = e /\ past' = Append(past, url)
      /\ unseen' = (unseen \/ (rendered # url /\ e = rendered))
  BY DEF U!Push, U!Navigate
<1>2. past' \in Seq(Fitting) BY <1>1 DEF ParametersInv
<1>3. past' \in Seq(U!Entries) BY <1>1 DEF ParametersInv, U!TypeOK
<1>4. U!TypeOK' BY <1>1, <1>3 DEF ParametersInv, U!TypeOK, Fitting
<1>5. TimersDiffer' BY DEF ParametersInv, TimersDiffer
<1>6. TextsReach' BY <1>1 DEF ParametersInv, TextsReach
<1> QED BY <1>1, <1>2, <1>4, <1>5, <1>6 DEF ParametersInv

\* An input that the user types in.
LEMMA TypeKeeps ==
  ASSUME U!SearchParamsAssumption, ParametersInv, NEW p \in Inputs, NEW v \in Values, U!Type(p, v)
  PROVE  ParametersInv'
<1>1. /\ text' = [text EXCEPT ![p] = v] /\ events' = events + 1 /\ events < MaxEvents
      /\ UNCHANGED <<url, past, rendered, unseen>>
  BY DEF U!Type, U!Event
<1>2. \A q \in Inputs : text'[q] = IF q = p THEN v ELSE text[q] BY <1>1 DEF ParametersInv, U!TypeOK
<1>3. inputTimer' = IF v = rendered.filters[p] THEN inputTimer \ {p} ELSE inputTimer \cup {p} BY DEF U!Type
<1>4. debouncing' \subseteq Inputs BY DEF U!Type, ParametersInv, U!TypeOK
<1>5. U!TypeOK' BY <1>1, <1>3, <1>4 DEF ParametersInv, U!TypeOK, U!SearchParamsAssumption
<1>6. TimersDiffer' BY <1>1, <1>2, <1>3 DEF ParametersInv, U!TypeOK, TimersDiffer
<1>7. TextsReach' BY <1>1, <1>2, <1>3 DEF ParametersInv, TextsReach
<1> QED BY <1>1, <1>5, <1>6, <1>7 DEF ParametersInv

\* The timer of an input: what it pushes is not what is rendered.
LEMMA FireKeeps ==
  ASSUME U!SearchParamsAssumption, ParametersInv, NEW p \in Inputs, U!Fire(p) PROVE ParametersInv'
<1> DEFINE e == U!WithFilter(rendered, p, text[p])
<1>1. e \in Fitting /\ e.filters[p] = text[p]
  BY FilteredFits DEF ParametersInv, U!TypeOK
<1>2. e # rendered BY <1>1 DEF U!Fire, ParametersInv, TimersDiffer
<1>3. U!Push(e) /\ inputTimer' \subseteq inputTimer /\ debouncing' \subseteq debouncing
      /\ UNCHANGED <<rendered, text, events>>
  BY DEF U!Fire
<1> HIDE DEF e
<1> QED BY <1>1, <1>2, <1>3, PushKeeps DEF ParametersInv, U!TypeOK

\* A button, and the number of a page.
LEMMA ButtonsKeep ==
  ASSUME U!SearchParamsAssumption, ParametersInv,
         \/ \E p \in Buttons, v \in Values : U!Click(p, v)
         \/ \E n \in 1 .. LastPage : U!TurnTo(n)
  PROVE  ParametersInv'
<1>1. U!Event => events' \in 0 .. MaxEvents
  BY DEF U!Event, ParametersInv, U!TypeOK, U!SearchParamsAssumption
<1>2. ASSUME NEW p \in Buttons, NEW v \in Values, U!Click(p, v) PROVE ParametersInv'
  <2>1. U!WithFilter(rendered, p, v) \in Fitting BY FilteredFits DEF ParametersInv
  <2>2. /\ U!Push(U!WithFilter(rendered, p, v)) /\ U!Event
        /\ UNCHANGED <<rendered, text, inputTimer, debouncing>>
    BY <1>2 DEF U!Click
  <2> QED BY <1>1, <2>1, <2>2, PushKeeps
<1>3. ASSUME NEW n \in 1 .. LastPage, U!TurnTo(n) PROVE ParametersInv'
  <2> DEFINE e == [rendered EXCEPT !.page = n, !.chosenFor = rendered.filters]
  <2>1. e \in Fitting BY DEF Fitting, U!Entries, ParametersInv
  <2>2. U!Push(e) /\ U!Event /\ UNCHANGED <<rendered, text, inputTimer, debouncing>>
    BY <1>3 DEF U!TurnTo
  <2> HIDE DEF e
  <2> QED BY <1>1, <2>1, <2>2, PushKeeps
<1> QED BY <1>2, <1>3

\* Back takes what was pushed.
LEMMA BackKeeps == ASSUME U!SearchParamsAssumption, ParametersInv, U!Back PROVE ParametersInv'
<1>1. /\ past # <<>> /\ past' = U!Front(past) /\ url' = U!Last(past)
      /\ unseen' = (unseen \/ (rendered # url /\ url' = rendered))
      /\ UNCHANGED <<rendered, text, inputTimer, debouncing>> /\ events' = events + 1
      /\ events < MaxEvents
  BY DEF U!Back, U!Event, U!Navigate
<1>2. /\ past \in Seq(Fitting) /\ Len(past) \in Nat /\ Len(past) >= 1
      /\ \A i \in 1 .. Len(past) : past[i] \in Fitting
  BY <1>1 DEF ParametersInv
<1>3. url' \in Fitting BY <1>1, <1>2 DEF U!Last
<1>4. SubSeq(past, 1, Len(past) - 1) \in Seq(Fitting) BY <1>2, SubSeqProperties
<1>5. past' \in Seq(Fitting) BY <1>1, <1>4 DEF U!Front
<1>6. past' \in Seq(U!Entries)
  <2>1. \A i \in 1 .. Len(past) - 1 : past[i] \in U!Entries BY <1>2 DEF Fitting
  <2> QED BY <1>1, <1>2, <2>1, SubSeqProperties DEF U!Front
<1>7. U!TypeOK' BY <1>1, <1>3, <1>6 DEF ParametersInv, U!TypeOK, Fitting, U!SearchParamsAssumption
<1>8. TimersDiffer' BY <1>1 DEF ParametersInv, TimersDiffer
<1>9. TextsReach' BY <1>1 DEF ParametersInv, TextsReach
<1> QED BY <1>1, <1>3, <1>5, <1>7, <1>8, <1>9 DEF ParametersInv

\* A render starts the timers anew: of the texts that differ and do not follow.
LEMMA RenderKeeps == ASSUME U!SearchParamsAssumption, ParametersInv, U!Render PROVE ParametersInv'
<1> DEFINE differ  == {p \in Inputs : text[p] # url.filters[p]}
           follows == {p \in Following \ debouncing : rendered.filters[p] # url.filters[p]}
<1>1. /\ rendered' = url /\ UNCHANGED <<url, past, unseen, events>>
      /\ text' = [p \in Inputs |-> IF p \in follows THEN url.filters[p] ELSE text[p]]
      /\ debouncing' = debouncing \cup (differ \cap Following) /\ inputTimer' = differ \ follows
  BY DEF U!Render
<1>2. /\ differ \subseteq Inputs
      /\ \A p \in Inputs : /\ p \in differ <=> text[p] # url.filters[p]
                           /\ url.filters[p] \in Values
  BY DEF ParametersInv, Fitting, U!Entries, U!Filters
<1> HIDE DEF differ, follows
<1>3. U!TypeOK' BY <1>1, <1>2 DEF ParametersInv, U!TypeOK, Fitting
<1>4. TimersDiffer' BY <1>1, <1>2 DEF TimersDiffer
<1>5. TextsReach' BY <1>1, <1>2 DEF TextsReach
<1> QED BY <1>1, <1>3, <1>4, <1>5 DEF ParametersInv

-----------------------------------------------------------------------------
\* All of it together is inductive.
LEMMA ParametersInvariant == ASSUME U!SearchParamsAssumption PROVE U!Spec => []ParametersInv
<1>1. U!Init => ParametersInv
  <2> SUFFICES ASSUME U!Init PROVE ParametersInv OBVIOUS
  <2>1. U!NoFilter \in U!Filters /\ \A p \in Inputs : U!NoFilter[p] = Empty
    BY DEF U!NoFilter, U!Filters, U!SearchParamsAssumption
  <2>2. url \in U!Entries /\ url.page = 1 /\ url.filters = U!NoFilter
    BY <2>1 DEF U!Init, U!Entries, U!SearchParamsAssumption
  <2>3. U!TypeOK
    <3>1. past \in Seq(U!Entries) BY DEF U!Init
    <3>2. text \in [Inputs -> Values] BY DEF U!Init, U!SearchParamsAssumption
    <3>3. events \in 0 .. MaxEvents BY DEF U!Init, U!SearchParamsAssumption
    <3> QED BY <2>2, <3>1, <3>2, <3>3 DEF U!Init, U!TypeOK
  <2>4. TimersDiffer /\ TextsReach BY <2>1, <2>2 DEF U!Init, TimersDiffer, TextsReach
  <2> QED BY <2>2, <2>3, <2>4 DEF U!Init, ParametersInv, Fitting
<1>2. ParametersInv /\ [U!Next]_U!vars => ParametersInv'
  <2> SUFFICES ASSUME ParametersInv, [U!Next]_U!vars PROVE ParametersInv' OBVIOUS
  <2>1. CASE UNCHANGED U!vars
    BY <2>1 DEF U!vars, ParametersInv, U!TypeOK, TimersDiffer, TextsReach
  <2> QED BY <2>1, TypeKeeps, ButtonsKeep, BackKeeps, RenderKeeps, FireKeeps DEF U!Next
<1> QED BY <1>1, <1>2, PTL DEF U!Spec

\* Although two timers, the buttons and Back write over the parameters of an older render: no
\* number of a page outlives the filters it was chosen for, and a text that nothing undid is
\* what the list is filtered by, or has a timer that will make it so: useUpdateParam and the
\* debounced input.
THEOREM ParametersFollow ==
  ASSUME U!SearchParamsAssumption
  PROVE  U!Spec => [](U!TypeOK /\ U!ParametersAgree)
<1>1. ParametersInv => U!TypeOK /\ U!ParametersAgree
  <2> SUFFICES ASSUME ParametersInv PROVE U!TypeOK /\ U!ParametersAgree OBVIOUS
  <2>1. U!ToSet(past) \subseteq Fitting BY DEF ParametersInv, U!ToSet
  <2>2. U!PageOfItsFilters BY <2>1 DEF ParametersInv, U!PageOfItsFilters, Fitting
  <2> QED BY <2>2 DEF ParametersInv, U!ParametersAgree, U!InputsReachUrl, TextsReach
<1> QED BY <1>1, ParametersInvariant, PTL

-----------------------------------------------------------------------------
(* The card for newcomers. *)

\* The projects whose creation the user was told of.
Told == {p \in ProjectIds : post[p] = "told"}

\* The last request of the provider is the only one that still counts.
OneCounts == \A r, q \in requests : ~r.aborted /\ ~q.aborted => r = q
AreRequests ==
  \A r \in requests : /\ DOMAIN r = {"aborted", "answered", "projects"}
                      /\ r.aborted \in BOOLEAN /\ r.answered \in BOOLEAN

\* Its answer has all that the user was told of, has selected, or sees;
AnswersHaveAll ==
  \A r \in requests : ~r.aborted /\ r.answered => Told \cup chosen \cup known \subseteq r.projects

\* so that when the answer is there, nothing the user has made or selected is unknown.
SettledKnows == N!Settled /\ refused = 0 => Told \cup chosen \subseteq known

OnboardingInv ==
  /\ N!TypeOK /\ AreRequests /\ OneCounts /\ AnswersHaveAll /\ SettledKnows
  /\ N!TokenIsForTheSelected

-----------------------------------------------------------------------------
\* The instance counts as FiniteSets does.
LEMMA CountsAlike == ASSUME NEW S PROVE N!Cardinality(S) = Cardinality(S)
BY DEF N!Cardinality, Cardinality

\* What exists goes on existing.
LEMMA ExistingStays ==
  ASSUME OnboardingInv, NEW p \in ProjectIds,
         \/ post' = [post EXCEPT ![p] = "sent"] /\ post[p] = "none"
         \/ post' = [post EXCEPT ![p] = "made"] /\ post[p] = "sent"
         \/ post' = [post EXCEPT ![p] = "other"] /\ post[p] = "none"
         \/ post' = [post EXCEPT ![p] = "none"] /\ post[p] = "sent"
         \/ post' = [post EXCEPT ![p] = "told"] /\ post[p] = "made"
  PROVE  /\ N!Existing \subseteq N!Existing'
         /\ post' \in [ProjectIds -> {"none", "sent", "made", "told", "other"}]
         /\ post'[p] # "told" => Told' = Told
         /\ Told' \subseteq Told \cup {p} /\ (post'[p] = "told" => p \in N!Existing)
<1>1. post \in [ProjectIds -> {"none", "sent", "made", "told", "other"}]
  BY DEF OnboardingInv, N!TypeOK
<1>2. \A q \in ProjectIds : q # p => post'[q] = post[q] BY <1>1
<1>3. post'[p] # "told" => post[p] \in {"none", "sent"} BY <1>1
<1>4. post[p] \in {"made", "told", "other"} => post'[p] = "told" BY <1>1
<1>5. post'[p] = "told" => post[p] = "made" BY <1>1
<1> QED BY <1>1, <1>2, <1>3, <1>4, <1>5 DEF N!Existing, Told

\* A render: the token that is shown is the one before, or none.
LEMMA PageRenders ==
  ASSUME N!OnboardingAssumption, N!TypeOK, NEW w, NEW a, NEW d, N!Render(w, a, card, d),
         a \in {"unknown", "yes", "no"}, d \in ProjectIds \cup {NoProject}, w \in BOOLEAN
  PROVE  /\ active' \in {"unknown", "yes", "no"} /\ submitting' \in ProjectIds \cup {NoProject}
         /\ waiting' \in BOOLEAN /\ card' \in {card, N!NoToken}
<1>1. active' \in {"unknown", "yes", "no"} BY DEF N!Render, N!Activated
<1>2. submitting' \in {d, NoProject} /\ card' \in {card, N!NoToken} BY DEF N!Render
<1>3. waiting' \in BOOLEAN BY DEF N!Render
<1> QED BY <1>1, <1>2, <1>3

\* Such a token is for the same projects as it was.
LEMMA TokenStays ==
  ASSUME OnboardingInv, card' \in {card, N!NoToken} \/ (card' = [card EXCEPT !.step = "generated"]
                                                     /\ card.step = "generating")
  PROVE  N!TokenIsForTheSelected' /\ card'.step \in {"none", "generating", "generated"}
<1>1. N!NoToken.step = "none" BY DEF N!NoToken
<1>2. CASE card' \in {card, N!NoToken} 
  BY <1>1, <1>2 DEF OnboardingInv, N!TypeOK, N!TokenIsForTheSelected
<1>3. CASE card' = [card EXCEPT !.step = "generated"] /\ card.step = "generating"
  <2>1. /\ card'.settled = card.settled /\ card'.project = card.project
        /\ card'.selected = card.selected /\ (card'.step = "generated" \/ card'.step = card.step)
    BY <1>3
  <2> QED BY <1>3, <2>1 DEF OnboardingInv, N!TypeOK, N!TokenIsForTheSelected
<1> QED BY <1>2, <1>3

\* The provider is left alone, and nobody is told anything.
LEMMA ProviderStays ==
  ASSUME OnboardingInv, UNCHANGED N!provider, N!Existing \subseteq N!Existing', Told' = Told,
         refused' \in 0 .. MaxFailures, refused' = 0 => refused = 0
  PROVE  /\ AreRequests' /\ OneCounts' /\ AnswersHaveAll' /\ SettledKnows'
         /\ known' \subseteq N!Existing' /\ chosen' \subseteq N!Existing'
         /\ \A r \in requests' : r.projects \subseteq N!Existing'
<1>1. UNCHANGED <<known, requests, loading, heard, chosen>> BY DEF N!provider
<1>2. AreRequests' /\ OneCounts' BY <1>1 DEF OnboardingInv, AreRequests, OneCounts
<1>3. AnswersHaveAll' BY <1>1 DEF OnboardingInv, AnswersHaveAll
<1>4. N!Settled' => N!Settled BY <1>1 DEF N!Settled
<1>5. SettledKnows' BY <1>1, <1>4 DEF OnboardingInv, SettledKnows
<1> QED BY <1>1, <1>2, <1>3, <1>5 DEF OnboardingInv, N!TypeOK

-----------------------------------------------------------------------------
\* The dialog is opened or closed, the page answers, the token comes or does not.
LEMMA SmallSteps ==
  ASSUME N!OnboardingAssumption, OnboardingInv,
         \/ N!CreateFirstProject \/ N!NewProject \/ N!CloseDialog
         \/ N!TokenArrives \/ N!TokenFails \/ N!PageAnswers
  PROVE  OnboardingInv'
<1>1. /\ UNCHANGED <<post, N!provider, active, submitting>>
      /\ open' \in BOOLEAN /\ waiting' \in BOOLEAN
      /\ card' \in {card, N!NoToken} \/ (card' = [card EXCEPT !.step = "generated"]
                                       /\ card.step = "generating")
  BY DEF N!CreateFirstProject, N!NewProject, N!OpenDialog, N!CloseDialog,
         N!TokenArrives, N!TokenFails, N!PageAnswers, N!page, OnboardingInv, N!TypeOK
<1>2. refused' \in 0 .. MaxFailures /\ (refused' = 0 => refused = 0)
  BY DEF N!CreateFirstProject, N!NewProject, N!OpenDialog, N!CloseDialog,
         N!TokenArrives, N!TokenFails, N!PageAnswers, N!page, N!Fault,
         OnboardingInv, N!TypeOK, N!OnboardingAssumption
<1>3. N!Existing' = N!Existing /\ Told' = Told BY <1>1 DEF N!Existing, Told
<1>4. /\ AreRequests' /\ OneCounts' /\ AnswersHaveAll' /\ SettledKnows'
      /\ known' \subseteq N!Existing' /\ chosen' \subseteq N!Existing'
      /\ \A r \in requests' : r.projects \subseteq N!Existing'
  BY <1>1, <1>2, <1>3, ProviderStays
<1>5. N!TokenIsForTheSelected' /\ card'.step \in {"none", "generating", "generated"}
  BY <1>1, TokenStays
<1>6. N!TypeOK' BY <1>1, <1>2, <1>4, <1>5 DEF OnboardingInv, N!TypeOK, N!provider
<1> QED BY <1>4, <1>5, <1>6 DEF OnboardingInv

\* A project is asked for, made, or not made.
LEMMA CreationKeeps ==
  ASSUME N!OnboardingAssumption, OnboardingInv, NEW p \in ProjectIds,
         N!Submit(p) \/ N!CreateFails(p) \/ N!Make(p)
  PROVE  OnboardingInv'
<1>1. \/ post' = [post EXCEPT ![p] = "sent"] /\ post[p] = "none"
      \/ post' = [post EXCEPT ![p] = "made"] /\ post[p] = "sent"
      \/ post' = [post EXCEPT ![p] = "other"] /\ post[p] = "none"
      \/ post' = [post EXCEPT ![p] = "none"] /\ post[p] = "sent"
  BY DEF N!Submit, N!CreateFails, N!Make
<1>2. post'[p] # "told" BY <1>1 DEF OnboardingInv, N!TypeOK
<1>3. /\ UNCHANGED <<N!provider, waiting, active, card, open>>
      /\ submitting' \in ProjectIds \cup {NoProject}
  BY DEF N!Submit, N!CreateFails, N!Make, N!Without, N!page, OnboardingInv, N!TypeOK
<1>4. refused' \in 0 .. MaxFailures /\ (refused' = 0 => refused = 0)
  BY DEF N!Submit, N!CreateFails, N!Make, N!Fault, OnboardingInv, N!TypeOK, N!OnboardingAssumption
<1>5. /\ N!Existing \subseteq N!Existing' /\ Told' = Told
      /\ post' \in [ProjectIds -> {"none", "sent", "made", "told", "other"}]
  BY <1>1, <1>2, ExistingStays
<1>6. /\ AreRequests' /\ OneCounts' /\ AnswersHaveAll' /\ SettledKnows'
      /\ known' \subseteq N!Existing' /\ chosen' \subseteq N!Existing'
      /\ \A r \in requests' : r.projects \subseteq N!Existing'
  BY <1>3, <1>4, <1>5, ProviderStays
<1>7. N!TokenIsForTheSelected' /\ card'.step \in {"none", "generating", "generated"}
  BY <1>3, TokenStays
<1>8. N!TypeOK' BY <1>3, <1>4, <1>5, <1>6, <1>7 DEF OnboardingInv, N!TypeOK, N!provider
<1> QED BY <1>6, <1>7, <1>8 DEF OnboardingInv

\* The token is asked for: when the provider waits for nothing, what is selected is known, and
\* so it is for the project that is selected, or for the only one.
LEMMA GenerateKeeps ==
  ASSUME N!OnboardingAssumption, OnboardingInv, N!GenerateToken PROVE OnboardingInv'
<1> DEFINE c == [step |-> "generating", project |-> N!Effective, selected |-> chosen,
                 settled |-> N!Settled /\ refused = 0]
<1>1. /\ card' = c /\ N!Effective # NoProject
      /\ UNCHANGED <<post, N!provider, waiting, active, submitting, open, refused>>
  BY DEF N!GenerateToken
<1>2. N!Existing' = N!Existing /\ Told' = Told BY <1>1 DEF N!Existing, Told
<1>3. /\ AreRequests' /\ OneCounts' /\ AnswersHaveAll' /\ SettledKnows'
      /\ known' \subseteq N!Existing' /\ chosen' \subseteq N!Existing'
      /\ \A r \in requests' : r.projects \subseteq N!Existing'
  BY <1>1, <1>2, ProviderStays DEF OnboardingInv, N!TypeOK
<1>4. N!TypeOK' BY <1>1, <1>3 DEF OnboardingInv, N!TypeOK, N!provider
<1>5. N!Effective \in N!SelectedIds
  <2>1. N!Cardinality(N!SelectedIds) = 1 BY <1>1 DEF N!Effective
  <2>2. N!SelectedIds # {} BY <2>1, CountsAlike, FS_EmptySet
  <2> QED BY <2>1, <2>2 DEF N!Effective
<1>6. N!Settled /\ refused = 0 => N!Effective \in chosen \/ chosen = {}
  BY <1>5 DEF OnboardingInv, SettledKnows, N!SelectedIds
<1>7. N!TokenIsForTheSelected' BY <1>1, <1>6 DEF N!TokenIsForTheSelected
<1> QED BY <1>3, <1>4, <1>7 DEF OnboardingInv

\* The card is done.
LEMMA CompleteKeeps ==
  ASSUME N!OnboardingAssumption, OnboardingInv, N!Complete PROVE OnboardingInv'
<1>1. UNCHANGED <<post, N!provider, open, refused>> /\ N!Render(waiting, "no", card, submitting)
  BY DEF N!Complete
<1>2. N!Existing' = N!Existing /\ Told' = Told BY <1>1 DEF N!Existing, Told
<1>3. /\ AreRequests' /\ OneCounts' /\ AnswersHaveAll' /\ SettledKnows'
      /\ known' \subseteq N!Existing' /\ chosen' \subseteq N!Existing'
      /\ \A r \in requests' : r.projects \subseteq N!Existing'
  BY <1>1, <1>2, ProviderStays DEF OnboardingInv, N!TypeOK
<1>4. /\ active' \in {"unknown", "yes", "no"} /\ submitting' \in ProjectIds \cup {NoProject}
      /\ waiting' \in BOOLEAN /\ card' \in {card, N!NoToken}
  BY <1>1, PageRenders DEF OnboardingInv, N!TypeOK
<1>5. N!TokenIsForTheSelected' /\ card'.step \in {"none", "generating", "generated"}
  BY <1>4, TokenStays
<1>6. N!TypeOK' BY <1>1, <1>3, <1>4, <1>5 DEF OnboardingInv, N!TypeOK, N!provider
<1> QED BY <1>3, <1>5, <1>6 DEF OnboardingInv

\* A render of the page while the provider changes.
LEMMA PageStays ==
  ASSUME N!OnboardingAssumption, OnboardingInv, NEW d \in ProjectIds \cup {NoProject},
         N!Render(waiting, active, card, d), open' \in BOOLEAN,
         refused' \in 0 .. MaxFailures, N!Existing \subseteq N!Existing',
         post' \in [ProjectIds -> {"none", "sent", "made", "told", "other"}],
         known' \subseteq N!Existing', chosen' \subseteq N!Existing',
         \A r \in requests' : r.projects \subseteq N!Existing',
         loading' \in BOOLEAN, heard' \in BOOLEAN
  PROVE  N!TypeOK' /\ N!TokenIsForTheSelected'
<1>1. /\ active' \in {"unknown", "yes", "no"} /\ submitting' \in ProjectIds \cup {NoProject}
      /\ waiting' \in BOOLEAN /\ card' \in {card, N!NoToken}
  BY PageRenders DEF OnboardingInv, N!TypeOK
<1>2. N!TokenIsForTheSelected' /\ card'.step \in {"none", "generating", "generated"}
  BY <1>1, TokenStays
<1> QED BY <1>1, <1>2 DEF N!TypeOK

\* The user is told of a project: the provider asks anew, and no older answer counts.
LEMMA CreatedKeeps ==
  ASSUME N!OnboardingAssumption, OnboardingInv, NEW p \in ProjectIds, N!Created(p)
  PROVE  OnboardingInv'
<1> DEFINE old == {[r EXCEPT !.aborted = TRUE] : r \in requests}
<1>1. /\ post' = [post EXCEPT ![p] = "told"] /\ post[p] = "made" /\ open' = FALSE
      /\ requests' = old \cup {N!Asked} /\ loading' = (loading \/ ~heard) /\ chosen' = {p}
      /\ UNCHANGED <<known, heard, refused>> /\ N!Render(waiting, active, card, N!Without(p))
  BY DEF N!Created
<1>2. ASSUME NEW q \in requests
      PROVE  LET r == [q EXCEPT !.aborted = TRUE]
             IN  /\ DOMAIN r = {"aborted", "answered", "projects"} /\ r.aborted = TRUE
                 /\ r.answered \in BOOLEAN /\ r.projects \subseteq N!Existing
  BY DEF OnboardingInv, AreRequests, N!TypeOK
<1>3. \A r \in old : /\ DOMAIN r = {"aborted", "answered", "projects"} /\ r.aborted = TRUE
                     /\ r.answered \in BOOLEAN /\ r.projects \subseteq N!Existing
  BY <1>2
<1> HIDE DEF old
<1>4. /\ DOMAIN N!Asked = {"aborted", "answered", "projects"} /\ N!Asked.aborted = FALSE
      /\ N!Asked.answered = FALSE /\ N!Asked.projects = {}
  BY DEF N!Asked
<1>5. post'[p] = "told" BY <1>1 DEF OnboardingInv, N!TypeOK
<1>6. /\ N!Existing \subseteq N!Existing' /\ p \in N!Existing
      /\ post' \in [ProjectIds -> {"none", "sent", "made", "told", "other"}]
  BY <1>1, <1>5, ExistingStays
<1>7. AreRequests' /\ OneCounts' BY <1>1, <1>3, <1>4 DEF AreRequests, OneCounts
<1>8. AnswersHaveAll' BY <1>1, <1>3, <1>4 DEF AnswersHaveAll
<1>9. ~N!Settled' BY <1>1, <1>4 DEF N!Settled
<1>10. \A r \in requests' : r.projects \subseteq N!Existing' BY <1>1, <1>3, <1>4, <1>6
<1>11. N!Without(p) \in ProjectIds \cup {NoProject} BY DEF N!Without, OnboardingInv, N!TypeOK
<1>12. known' \subseteq N!Existing' /\ chosen' \subseteq N!Existing'
  BY <1>1, <1>6 DEF OnboardingInv, N!TypeOK
<1>13. N!TypeOK' /\ N!TokenIsForTheSelected'
  <2>1. /\ refused' \in 0 .. MaxFailures /\ open' \in BOOLEAN
        /\ loading' \in BOOLEAN /\ heard' \in BOOLEAN
    BY <1>1 DEF OnboardingInv, N!TypeOK
  <2> QED BY <1>1, <1>6, <1>10, <1>11, <1>12, <2>1, PageStays
<1> QED BY <1>7, <1>8, <1>9, <1>13 DEF OnboardingInv, SettledKnows

\* The user selects some of what is known.
LEMMA SelectionKeeps ==
  ASSUME N!OnboardingAssumption, OnboardingInv, NEW s, s \subseteq known, N!Select(s)
  PROVE  OnboardingInv'
<1>1. /\ chosen' = s /\ UNCHANGED <<post, known, requests, loading, heard, open, refused>>
      /\ N!Render(waiting, active, card, submitting)
  BY DEF N!Select
<1>2. N!Existing' = N!Existing /\ Told' = Told BY <1>1 DEF N!Existing, Told
<1>3. AreRequests' /\ OneCounts' BY <1>1 DEF OnboardingInv, AreRequests, OneCounts
<1>4. AnswersHaveAll' BY <1>1, <1>2 DEF OnboardingInv, AnswersHaveAll
<1>5. SettledKnows' BY <1>1, <1>2 DEF OnboardingInv, SettledKnows, N!Settled
<1>6. N!TypeOK' /\ N!TokenIsForTheSelected'
  BY <1>1, <1>2, PageStays DEF OnboardingInv, N!TypeOK
<1> QED BY <1>3, <1>4, <1>5, <1>6 DEF OnboardingInv

\* The query API lists what there is.
LEMMA ListKeeps ==
  ASSUME N!OnboardingAssumption, OnboardingInv, NEW r \in requests, N!List(r) PROVE OnboardingInv'
<1> DEFINE q == [r EXCEPT !.answered = TRUE, !.projects = N!Existing]
<1>1. /\ requests' = (requests \ {r}) \cup {q}
      /\ UNCHANGED <<post, known, loading, heard, chosen, N!page, open, refused>>
  BY DEF N!List
<1>2. /\ DOMAIN q = {"aborted", "answered", "projects"} /\ q.aborted = r.aborted
      /\ q.answered = TRUE /\ q.projects = N!Existing /\ q.aborted \in BOOLEAN
  BY DEF OnboardingInv, AreRequests
<1> HIDE DEF q
<1>3. N!Existing' = N!Existing /\ Told' = Told BY <1>1 DEF N!Existing, Told
<1>4. AreRequests' BY <1>1, <1>2 DEF OnboardingInv, AreRequests
<1>5. OneCounts' BY <1>1, <1>2 DEF OnboardingInv, OneCounts
<1>6. Told \cup chosen \cup known \subseteq N!Existing
  BY DEF Told, N!Existing, OnboardingInv, N!TypeOK
<1>7. AnswersHaveAll' BY <1>1, <1>2, <1>3, <1>6 DEF OnboardingInv, AnswersHaveAll
<1>8. N!Settled' => N!Settled BY <1>1, <1>2 DEF N!Settled
<1>9. SettledKnows' BY <1>1, <1>3, <1>8 DEF OnboardingInv, SettledKnows
<1>10. N!TypeOK' BY <1>1, <1>2, <1>3 DEF OnboardingInv, N!TypeOK, N!page
<1>11. N!TokenIsForTheSelected' BY <1>1 DEF OnboardingInv, N!TokenIsForTheSelected, N!page
<1> QED BY <1>4, <1>5, <1>7, <1>9, <1>10, <1>11 DEF OnboardingInv

\* The answer comes, or does not.
LEMMA AnswerKeeps ==
  ASSUME N!OnboardingAssumption, OnboardingInv, NEW r \in requests, N!Deliver(r) \/ N!Fail(r)
  PROVE  OnboardingInv'
<1>1. /\ requests' = requests \ {r} /\ UNCHANGED <<post, chosen, open>>
      /\ N!Render(waiting, active, card, submitting)
  BY DEF N!Deliver, N!Fail
<1>2. /\ refused' \in 0 .. MaxFailures
      /\ (N!Fail(r) => refused' # 0) /\ (N!Deliver(r) => refused' = refused)
  BY DEF N!Deliver, N!Fail, N!Fault, OnboardingInv, N!TypeOK, N!OnboardingAssumption
<1>3. N!Existing' = N!Existing /\ Told' = Told BY <1>1 DEF N!Existing, Told
<1>4. AreRequests' /\ OneCounts' BY <1>1 DEF OnboardingInv, AreRequests, OneCounts
<1>5. r.aborted \in BOOLEAN /\ r.projects \subseteq N!Existing
  BY DEF OnboardingInv, AreRequests, N!TypeOK
<1>6. known' \subseteq N!Existing /\ loading' \in BOOLEAN /\ heard' \in BOOLEAN
  BY <1>5 DEF N!Deliver, N!Fail, OnboardingInv, N!TypeOK
<1>7. N!TypeOK' /\ N!TokenIsForTheSelected'
  BY <1>1, <1>2, <1>3, <1>6, PageStays DEF OnboardingInv, N!TypeOK
<1>8. CASE N!Deliver(r) /\ ~r.aborted
  <2>1. known' = r.projects /\ r.answered BY <1>8 DEF N!Deliver
  <2>2. Told \cup chosen \cup known \subseteq known'
    BY <1>8, <2>1 DEF OnboardingInv, AnswersHaveAll
  <2>3. \A q \in requests' : q.aborted BY <1>1, <1>8 DEF OnboardingInv, OneCounts, AreRequests
  <2>4. AnswersHaveAll' BY <2>3 DEF AnswersHaveAll
  <2>5. SettledKnows' BY <1>1, <1>3, <2>2 DEF SettledKnows
  <2> QED BY <1>4, <1>7, <2>4, <2>5 DEF OnboardingInv
<1>9. CASE N!Fail(r) \/ r.aborted
  <2>1. known' = known BY <1>9 DEF N!Deliver, N!Fail
  <2>2. AnswersHaveAll' BY <1>1, <1>3, <2>1 DEF OnboardingInv, AnswersHaveAll
  <2>3. r.aborted => (N!Settled' => N!Settled) BY <1>1 DEF N!Settled
  <2>4. SettledKnows' BY <1>1, <1>2, <1>3, <1>9, <2>1, <2>3 DEF OnboardingInv, SettledKnows
  <2> QED BY <1>4, <1>7, <2>2, <2>4 DEF OnboardingInv
<1> QED BY <1>5, <1>8, <1>9

-----------------------------------------------------------------------------
\* All of it together is inductive.
LEMMA OnboardingInvariant == ASSUME N!OnboardingAssumption PROVE N!Spec => []OnboardingInv
<1>1. N!Init => OnboardingInv
  <2> SUFFICES ASSUME N!Init PROVE OnboardingInv OBVIOUS
  <2>1. /\ DOMAIN N!Asked = {"aborted", "answered", "projects"} /\ N!Asked.aborted = FALSE
        /\ N!Asked.answered = FALSE /\ N!Asked.projects = {} /\ requests = {N!Asked}
    BY DEF N!Init, N!Asked
  <2>2. AreRequests /\ OneCounts /\ AnswersHaveAll /\ SettledKnows
    BY <2>1 DEF AreRequests, OneCounts, AnswersHaveAll, SettledKnows, N!Settled
  <2>3. card.step = "none" BY DEF N!Init, N!NoToken
  <2>4. post \in [ProjectIds -> {"none", "sent", "made", "told", "other"}] BY DEF N!Init
  <2>5. \A r \in requests : r.projects \subseteq N!Existing BY <2>1
  <2>6. refused \in 0 .. MaxFailures BY DEF N!Init, N!OnboardingAssumption
  <2>7. N!TypeOK BY <2>3, <2>4, <2>5, <2>6 DEF N!Init, N!TypeOK
  <2> QED BY <2>2, <2>3, <2>7 DEF OnboardingInv, N!TokenIsForTheSelected
<1>2. OnboardingInv /\ [N!Next]_N!vars => OnboardingInv'
  <2> SUFFICES ASSUME OnboardingInv, [N!Next]_N!vars PROVE OnboardingInv' OBVIOUS
  <2>1. CASE UNCHANGED N!vars
    <3>1. N!Existing' = N!Existing /\ Told' = Told BY <2>1 DEF N!vars, N!Existing, Told
    <3> QED BY <2>1, <3>1 DEF N!vars, OnboardingInv, N!TypeOK, AreRequests, OneCounts,
                              AnswersHaveAll, SettledKnows, N!Settled, N!TokenIsForTheSelected
  <2>2. CASE N!CreateFirstProject \/ N!NewProject \/ N!CloseDialog \/ N!TokenArrives \/ N!TokenFails
             \/ N!PageAnswers
    BY <2>2, SmallSteps
  <2>3. CASE N!GenerateToken \/ N!Complete BY <2>3, GenerateKeeps, CompleteKeeps
  <2>4. ASSUME NEW p \in ProjectIds, N!Submit(p) \/ N!Created(p) \/ N!CreateFails(p) \/ N!Make(p)
        PROVE  OnboardingInv'
    BY <2>4, CreationKeeps, CreatedKeeps
  <2>5. ASSUME NEW r \in requests, N!List(r) \/ N!Deliver(r) \/ N!Fail(r) PROVE OnboardingInv'
    BY <2>5, ListKeeps, AnswerKeeps
  <2>6. CASE N!SelectProjects
    <3>1. \A p \in known : N!Toggled(p) \subseteq known BY DEF N!Toggled, N!SelectedIds
    <3>2. PICK s : N!Select(s) /\ s \subseteq known BY <2>6, <3>1 DEF N!SelectProjects
    <3> QED BY <3>2, SelectionKeeps
  <2> QED BY <2>1, <2>2, <2>3, <2>4, <2>5, <2>6 DEF N!Next
<1> QED BY <1>1, <1>2, PTL DEF N!Spec

\* Whatever the other members create, whatever fails, and in whatever order the answers come:
\* once the provider waits for nothing it knows what the user has created, the token of the card
\* is for a project the user has selected, or the only one, and a newcomer who has created one
\* project is not stuck: fetchData of the provider, handleGenerateToken and effectiveProjectId.
THEOREM NewcomersAreLed ==
  ASSUME N!OnboardingAssumption
  PROVE  N!Spec => [](N!TypeOK /\ N!OnboardingHolds)
<1>1. OnboardingInv => N!TypeOK /\ N!OnboardingHolds
  <2> SUFFICES ASSUME OnboardingInv PROVE N!TypeOK /\ N!OnboardingHolds OBVIOUS
  <2>1. N!CreatedAreKnown BY DEF OnboardingInv, SettledKnows, Told, N!CreatedAreKnown
  <2>2. ASSUME N!Settled, refused = 0, N!Cardinality(chosen) = 1 PROVE N!Effective # NoProject
    <3>1. chosen \subseteq known /\ chosen \subseteq ProjectIds
      BY <2>2 DEF OnboardingInv, SettledKnows, N!TypeOK, N!Existing
    <3>2. chosen # {} BY <2>2, CountsAlike, FS_EmptySet
    <3>3. N!SelectedIds = chosen BY <3>1, <3>2 DEF N!SelectedIds
    <3>4. N!Effective \in chosen BY <2>2, <3>2, <3>3 DEF N!Effective
    <3> QED BY <3>1, <3>4 DEF N!OnboardingAssumption
  <2>3. N!SecondStepHasProject BY <2>2 DEF N!SecondStepHasProject
  <2> QED BY <2>1, <2>3 DEF OnboardingInv, N!OnboardingHolds
<1> QED BY <1>1, OnboardingInvariant, PTL

-----------------------------------------------------------------------------
(* Error fingerprints and the groups of errors. *)

\* What the reporter understands of a message.
Structure(m) == F!ParsePlaywrightError(F!StripAnsi(m))

\* The key of what a reporter sends.
KeyOf(m, r) == F!ComputeFingerprint(F!Payload(m, r))

\* A report has a group, of its key and of a category that says as much as it did;
Grouped(x) ==
  /\ x.message \in Messages /\ x.by \in F!Reporters /\ x.key = KeyOf(x.message, x.by)
  /\ \E g \in groups : g.key = x.key
Informed(x, g) ==
  g.key = x.key /\ x.by = "playwright" =>
    /\ F!Known(x.message) => g.category \in F!Structured
    /\ x.message.name # NoText => g.category # NoText

\* a key has one group, a group a report.
FingerprintsInv ==
  /\ \A x \in reports : Grouped(x)
  /\ \A x \in reports, g \in groups : Informed(x, g)
  /\ \A g, h \in groups : g.key = h.key => g = h
  /\ \A g \in groups : /\ g.category \in {NoText, "runtime"} \cup F!Structured
                       /\ \E x \in reports : x.key = g.key
  /\ IsFiniteSet(reports)

-----------------------------------------------------------------------------
\* A message without its colours.
LEMMA Stripped ==
  ASSUME F!FingerprintsAssumption, NEW m \in Messages
  PROVE  LET s == F!StripAnsi(m)
         IN  /\ ~s.ansi /\ s.name = m.name /\ s.form = m.form /\ s.matcher = m.matcher
             /\ s.target = m.target /\ s.expected = m.expected /\ s.value = m.value
BY DEF F!FingerprintsAssumption, F!StripAnsi

\* What is understood, of each form.
LEMMA StructureIs ==
  ASSUME F!FingerprintsAssumption, NEW m \in Messages
  PROVE  LET f == Structure(m)
         IN  \/ /\ m.form = "assertion"
                /\ f = F!Fields("assertion", m.matcher, m.target, m.expected)
             \/ m.form = "timeout" /\ f = F!Fields("timeout", m.matcher, m.target, NoText)
             \/ f = F!Fields("action", m.matcher, m.matcher, NoText) /\ m.form # "assertion"
             \/ f = F!NoFields
BY Stripped DEF Structure, F!ParsePlaywrightError, F!ParseAssertion, F!ParseTimeout, F!ParseAction

\* The fields of a payload.
LEMMA FieldsAre ==
  ASSUME F!FingerprintsAssumption, NEW m \in Messages, NEW r \in F!Reporters
  PROVE  LET f == F!Payload(m, r).fields
         IN  /\ r = "plain" => f = F!NoFields
             /\ r = "playwright" =>
                  \/ f = Structure(m) /\ f.category \in F!Structured
                  \/ /\ Structure(m) = F!NoFields
                     /\ f = F!Fields(IF m.name = NoText THEN NoText ELSE "runtime",
                                   NoText, NoText, NoText)
<1> DEFINE s == Structure(m)
<1>1. F!StripAnsi(m).name = m.name BY Stripped
<1>2. F!Payload(m, r).fields = IF r = "plain" THEN F!NoFields
        ELSE [s EXCEPT !.category = IF @ = NoText /\ m.name # NoText THEN "runtime" ELSE @]
  BY <1>1 DEF F!Payload, Structure
<1>3. NoText \notin F!Structured BY DEF F!FingerprintsAssumption, F!Structured
<1>4. CASE s = F!NoFields BY <1>2, <1>4 DEF F!NoFields, F!Fields
<1>5. CASE s # F!NoFields
  <2>1. PICK c \in F!Structured : \E x, y, z : s = F!Fields(c, x, y, z)
    BY <1>5, StructureIs DEF F!Structured
  <2>2. s.category = c /\ [s EXCEPT !.category = c] = s BY <2>1 DEF F!Fields
  <2> QED BY <1>2, <1>3, <2>2 DEF F!Reporters
<1> QED BY <1>4, <1>5

\* The key says by its fields, or by its first line, what the message is of.
LEMMA KeyIs ==
  ASSUME F!FingerprintsAssumption, NEW m \in Messages, NEW r \in F!Reporters
  PROVE  \/ /\ r = "playwright" /\ Structure(m).category \in F!Structured /\ m.matcher # NoText
            /\ Structure(m) # F!NoFields /\ KeyOf(m, r) = <<m.name, Structure(m)>>
         \/ /\ r = "playwright" => Structure(m) = F!NoFields \/ m.matcher = NoText
            /\ KeyOf(m, r) = <<m.name, F!NormalizedLine(F!StripAnsi(m))>>
<1> DEFINE p == F!Payload(m, r)
           f == p.fields
<1>1. p.message = m /\ p.name.word = m.name BY Stripped DEF F!Payload, F!ErrorName
<1>2. KeyOf(m, r) = <<m.name, IF f.category # NoText /\ f.matcher # NoText
                              THEN f ELSE F!NormalizedLine(F!StripAnsi(m))>>
  BY <1>1 DEF KeyOf, F!ComputeFingerprint, F!BuildSignature
<1>3. NoText \notin F!Structured BY DEF F!FingerprintsAssumption, F!Structured
<1>4. F!NoFields.matcher = NoText /\ F!NoFields.category = NoText BY DEF F!NoFields, F!Fields
<1> HIDE DEF p
<1>5. CASE r = "plain"
  <2>1. f = F!NoFields BY <1>5, FieldsAre DEF p
  <2> QED BY <1>2, <1>4, <1>5, <2>1
<1>6. CASE r = "playwright"
  <2>1. CASE f = Structure(m) /\ f.category \in F!Structured
    <3>1. f.matcher = m.matcher /\ f # F!NoFields
      BY <1>3, <1>4, <2>1, StructureIs DEF F!Fields
    <3> QED BY <1>2, <1>3, <1>6, <2>1, <3>1
  <2>2. CASE Structure(m) = F!NoFields /\ f.matcher = NoText BY <1>2, <2>2
  <2>3. \/ f = Structure(m) /\ f.category \in F!Structured
        \/ Structure(m) = F!NoFields /\ f.matcher = NoText
    <3>1. \/ f = Structure(m) /\ f.category \in F!Structured
          \/ /\ Structure(m) = F!NoFields
             /\ \E c : f = F!Fields(c, NoText, NoText, NoText)
      BY <1>6, FieldsAre DEF p
    <3>2. \A c : F!Fields(c, NoText, NoText, NoText).matcher = NoText BY DEF F!Fields
    <3> QED BY <3>1, <3>2
  <2> QED BY <2>1, <2>2, <2>3
<1> QED BY <1>5, <1>6 DEF F!Reporters

\* The fields are no first line, and what they are of can be read in both.
LEMMA LineIs ==
  ASSUME F!FingerprintsAssumption, NEW m \in Messages
  PROVE  /\ F!NormalizedLine(F!StripAnsi(m)).matcher = m.matcher
         /\ DOMAIN F!NormalizedLine(F!StripAnsi(m)) = {"form", "name", "matcher", "ansi", "value"}
BY Stripped DEF F!NormalizedLine

LEMMA FieldsHaveDomain ==
  ASSUME F!FingerprintsAssumption, NEW m \in Messages
  PROVE  DOMAIN Structure(m) = {"category", "matcher", "target", "expected"}
BY StructureIs DEF F!Fields, F!NoFields

-----------------------------------------------------------------------------
\* A failure that comes again has the same key.
LEMMA AgainTheSame ==
  ASSUME F!FingerprintsAssumption, NEW m \in Messages, NEW n \in Messages, NEW r \in F!Reporters,
         F!Again(m, n)
  PROVE  KeyOf(m, r) = KeyOf(n, r)
<1>1. /\ m.name = n.name /\ m.form = n.form /\ m.matcher = n.matcher /\ m.target = n.target
      /\ m.expected = n.expected
  <2> DEFINE a == [m EXCEPT !.value = NoText, !.ansi = FALSE]
             b == [n EXCEPT !.value = NoText, !.ansi = FALSE]
  <2>1. /\ a.name = m.name /\ a.form = m.form /\ a.matcher = m.matcher /\ a.target = m.target
        /\ a.expected = m.expected
    BY DEF F!FingerprintsAssumption
  <2>2. /\ b.name = n.name /\ b.form = n.form /\ b.matcher = n.matcher /\ b.target = n.target
        /\ b.expected = n.expected
    BY DEF F!FingerprintsAssumption
  <2>3. a = b BY DEF F!Again
  <2> HIDE DEF a, b
  <2> QED BY <2>1, <2>2, <2>3
<1>2. Structure(m) = Structure(n)
  BY <1>1, Stripped
     DEF Structure, F!ParsePlaywrightError, F!ParseAssertion, F!ParseTimeout, F!ParseAction
<1>3. F!NormalizeErrorMessage(m.value) = F!NormalizeErrorMessage(n.value)
  BY DEF F!Again, F!NormalizeErrorMessage
<1>4. F!NormalizedLine(F!StripAnsi(m)) = F!NormalizedLine(F!StripAnsi(n))
  <2>1. F!StripAnsi(m).ansi = F!StripAnsi(n).ansi BY DEF F!FingerprintsAssumption, F!StripAnsi
  <2>2. F!NormalizeErrorMessage(F!FirstLine(F!StripAnsi(m)))
          = F!NormalizeErrorMessage(F!FirstLine(F!StripAnsi(n)))
    BY <1>1, <1>3, Stripped DEF F!FirstLine
  <2> QED BY <1>1, <2>1, <2>2, Stripped DEF F!NormalizedLine
<1>5. NoText \notin F!Structured BY DEF F!FingerprintsAssumption, F!Structured
<1> QED BY <1>1, <1>2, <1>4, KeyIs DEF F!NoFields

\* One key never mixes names, matchers, nor what an assertion is about.
LEMMA NothingMixed ==
  ASSUME F!FingerprintsAssumption, NEW m \in Messages, NEW n \in Messages,
         NEW r \in F!Reporters, NEW s \in F!Reporters, KeyOf(m, r) = KeyOf(n, s)
  PROVE  /\ m.matcher = n.matcher /\ m.name = n.name
         /\ r = "playwright" /\ m.form = "assertion" /\ F!Known(m) =>
              m.target = n.target /\ m.expected = n.expected
<1>1. /\ DOMAIN Structure(m) # DOMAIN F!NormalizedLine(F!StripAnsi(n))
      /\ DOMAIN Structure(n) # DOMAIN F!NormalizedLine(F!StripAnsi(m))
  BY LineIs, FieldsHaveDomain
<1>2. m.name = n.name BY KeyIs
<1>3. CASE /\ r = "playwright" /\ s = "playwright" /\ Structure(m) = Structure(n)
           /\ Structure(m) # F!NoFields
  <2>1. m.matcher = n.matcher BY <1>3, StructureIs DEF F!Fields
  <2>2. m.form = "assertion" => m.target = n.target /\ m.expected = n.expected
    BY <1>3, StructureIs DEF F!Fields
  <2> QED BY <1>2, <2>1, <2>2
<1>4. CASE /\ F!NormalizedLine(F!StripAnsi(m)) = F!NormalizedLine(F!StripAnsi(n))
           /\ r = "playwright" => Structure(m) = F!NoFields \/ m.matcher = NoText
  <2>1. m.matcher = n.matcher BY <1>4, LineIs
  <2>2. m.form = "assertion" => m.matcher # NoText BY DEF F!FingerprintsAssumption
  <2>3. r = "playwright" /\ m.form = "assertion" => ~F!Known(m) BY <1>4, <2>2 DEF F!Known, Structure
  <2> QED BY <1>2, <2>1, <2>3
<1> QED BY <1>1, <1>3, <1>4, KeyIs

-----------------------------------------------------------------------------
\* The category of a payload.
LEMMA CategoryIs ==
  ASSUME F!FingerprintsAssumption, NEW m \in Messages, NEW r \in F!Reporters
  PROVE  LET c == F!Payload(m, r).fields.category
         IN  /\ c \in {NoText, "runtime"} \cup F!Structured
             /\ r = "playwright" => /\ F!Known(m) => c \in F!Structured
                                    /\ m.name # NoText => c # NoText
<1>1. NoText \notin F!Structured BY DEF F!FingerprintsAssumption, F!Structured
<1>2. NoText # "runtime" BY DEF F!FingerprintsAssumption
<1>3. CASE r = "plain"
  <2>1. F!Payload(m, r).fields = F!NoFields BY <1>3, FieldsAre
  <2>2. F!NoFields.category = NoText BY DEF F!NoFields, F!Fields
  <2> QED BY <1>3, <2>1, <2>2
<1>4. CASE r = "playwright"
  <2>1. CASE F!Payload(m, r).fields.category \in F!Structured BY <1>1, <2>1
  <2>2. CASE /\ Structure(m) = F!NoFields
             /\ F!Payload(m, r).fields.category = IF m.name = NoText THEN NoText ELSE "runtime"
    BY <1>2, <2>2 DEF F!Known, Structure
  <2>3. \A c : F!Fields(c, NoText, NoText, NoText).category = c BY DEF F!Fields
  <2> QED BY <1>4, <2>1, <2>2, <2>3, FieldsAre
<1> QED BY <1>3, <1>4 DEF F!Reporters

\* A category that is upgraded says no less than either.
LEMMA UpgradeKeeps ==
  ASSUME F!FingerprintsAssumption,
         NEW old \in {NoText, "runtime"} \cup F!Structured,
         NEW new \in {NoText, "runtime"} \cup F!Structured
  PROVE  LET c == F!Upgrade(old, new)
         IN  /\ c \in {NoText, "runtime"} \cup F!Structured
             /\ old \in F!Structured \/ new \in F!Structured => c \in F!Structured
             /\ old # NoText \/ new # NoText => c # NoText
BY DEF F!Upgrade, F!Structured, F!FingerprintsAssumption

\* A report: all that was known of its group is known still.
LEMMA ReportKeeps ==
  ASSUME F!FingerprintsAssumption, FingerprintsInv, NEW m \in Messages, NEW r \in F!Reporters,
         F!Report(m, r)
  PROVE  FingerprintsInv'
<1> DEFINE p    == F!Payload(m, r)
           c    == p.fields.category
           key  == KeyOf(m, r)
           same == {g \in groups : g.key = key}
           x    == [message |-> m, by |-> r, key |-> key]
           raised(g) == [key |-> key, name |-> p.name, category |-> F!Upgrade(g.category, c)]
<1>1. reports' = reports \cup {x} BY DEF F!Report, KeyOf
<1>2. /\ same = {} => groups' = groups \cup {[key |-> key, name |-> p.name, category |-> c]}
      /\ \A g \in same : groups' = (groups \ same) \cup {raised(g)}
  <2>1. groups' = (groups \ same) \cup
                     (IF same = {} THEN {[key |-> key, name |-> p.name, category |-> c]}
                      ELSE {raised(g) : g \in same})
    BY DEF F!Report, KeyOf
  <2>2. \A g, h \in same : g = h BY DEF FingerprintsInv
  <2> QED BY <2>1, <2>2
<1>3. c \in {NoText, "runtime"} \cup F!Structured BY CategoryIs
<1>4. PICK n : /\ groups' = (groups \ same) \cup {n} /\ n.key = key
               /\ n.category \in {NoText, "runtime"} \cup F!Structured
               /\ c \in F!Structured => n.category \in F!Structured
               /\ c # NoText => n.category # NoText
               /\ \A g \in same : /\ g.category \in F!Structured => n.category \in F!Structured
                                  /\ g.category # NoText => n.category # NoText
  <2>1. CASE same = {}
    <3> DEFINE n == [key |-> key, name |-> p.name, category |-> c]
    <3>1. n.key = key /\ n.category = c OBVIOUS
    <3> QED BY <1>2, <1>3, <2>1, <3>1
  <2>2. CASE same # {}
    <3>1. PICK g \in same : TRUE BY <2>2
    <3>2. g.category \in {NoText, "runtime"} \cup F!Structured BY <3>1 DEF FingerprintsInv
    <3>3. raised(g).key = key /\ raised(g).category = F!Upgrade(g.category, c) OBVIOUS
    <3>4. \A h \in same : h = g BY DEF FingerprintsInv
    <3> HIDE DEF c, raised
    <3> QED BY <1>2, <1>3, <3>1, <3>2, <3>3, <3>4, UpgradeKeeps
  <2> QED BY <2>1, <2>2
<1>5. /\ r = "playwright" /\ F!Known(m) => n.category \in F!Structured
      /\ r = "playwright" /\ m.name # NoText => n.category # NoText
  BY <1>4, CategoryIs
<1>6. x.message = m /\ x.by = r /\ x.key = key OBVIOUS
<1>7. \A g \in groups' : (g \in groups /\ g.key # key) \/ g = n BY <1>4
<1>8. \A g \in groups : g.key # key => g \in groups' BY <1>4
<1> HIDE DEF x, key, c, p
<1>9. \A y \in reports' : Grouped(y)'
  <2>1. Grouped(x)' BY <1>4, <1>6 DEF Grouped, key
  <2>2. ASSUME NEW y \in reports PROVE Grouped(y)'
    BY <1>4, <1>8 DEF FingerprintsInv, Grouped
  <2> QED BY <1>1, <2>1, <2>2
<1>10. \A y \in reports', g \in groups' : Informed(y, g)
  <2>1. ASSUME NEW g \in groups' PROVE Informed(x, g)
    BY <1>5, <1>6, <1>7 DEF Informed
  <2>2. ASSUME NEW y \in reports, NEW g \in groups' PROVE Informed(y, g)
    <3>1. CASE g \in groups BY <3>1 DEF FingerprintsInv
    <3>2. CASE g = n /\ y.key = key
      <4>1. PICK h \in groups : h.key = y.key BY DEF FingerprintsInv, Grouped
      <4>2. h \in same /\ Informed(y, h) BY <3>2, <4>1 DEF FingerprintsInv
      <4> QED BY <1>4, <3>2, <4>1, <4>2 DEF Informed
    <3> QED BY <1>4, <1>7, <3>1, <3>2 DEF Informed
  <2> QED BY <1>1, <2>1, <2>2
<1>11. \A g, h \in groups' : g.key = h.key => g = h BY <1>4, <1>7 DEF FingerprintsInv
<1>12. \A g \in groups' : /\ g.category \in {NoText, "runtime"} \cup F!Structured
                          /\ \E y \in reports' : y.key = g.key
  BY <1>1, <1>4, <1>6, <1>7 DEF FingerprintsInv
<1>13. IsFiniteSet(reports') BY <1>1, FS_AddElement DEF FingerprintsInv
<1> QED BY <1>9, <1>10, <1>11, <1>12, <1>13 DEF FingerprintsInv

-----------------------------------------------------------------------------
\* All of it together is inductive.
LEMMA FingerprintsInvariant == ASSUME F!FingerprintsAssumption PROVE F!Spec => []FingerprintsInv
<1>1. F!Init => FingerprintsInv BY FS_EmptySet DEF F!Init, FingerprintsInv
<1>2. FingerprintsInv /\ [F!Next]_F!vars => FingerprintsInv'
  <2>1. CASE UNCHANGED F!vars
    BY <2>1 DEF F!vars, FingerprintsInv, Grouped, Informed
  <2> QED BY <2>1, ReportKeeps DEF F!Next
<1> QED BY <1>1, <1>2, PTL DEF F!Spec

\* Whoever reports, in whatever order: a failure that comes again is one error, one error never
\* mixes names, matchers or what an assertion is about, and no less informed report takes from
\* the category of a group: buildSignature, and the upsert of the worker.
THEOREM ErrorsAreGrouped ==
  ASSUME F!FingerprintsAssumption
  PROVE  F!Spec => [](F!TypeOK /\ F!FingerprintsHold)
<1>1. FingerprintsInv => F!FingerprintsHold
  <2> SUFFICES ASSUME FingerprintsInv, NEW x \in reports, NEW y \in reports
               PROVE  LET m == x.message
                          n == y.message
                      IN  /\ x.by = y.by /\ F!Again(m, n) => x.key = y.key
                          /\ x.key = y.key =>
                               /\ m.matcher = n.matcher /\ m.name = n.name
                               /\ x.by = "playwright" /\ m.form = "assertion" /\ F!Known(m) =>
                                    m.target = n.target /\ m.expected = n.expected
                          /\ x.by = "playwright" /\ F!Known(m) =>
                               F!Group(x).category \in F!Structured
                          /\ x.by = "playwright" /\ m.name # NoText => F!Group(x).category # NoText
    BY DEF F!FingerprintsHold
  <2>1. Grouped(x) /\ Grouped(y) BY DEF FingerprintsInv
  <2>2. F!Group(x) \in groups /\ F!Group(x).key = x.key BY <2>1 DEF Grouped, F!Group
  <2>3. Informed(x, F!Group(x)) BY <2>2 DEF FingerprintsInv
  <2>4. x.by = y.by /\ F!Again(x.message, y.message) => x.key = y.key
    BY <2>1, AgainTheSame DEF Grouped
  <2> QED BY <2>1, <2>2, <2>3, <2>4, NothingMixed DEF Grouped, Informed
<1>2. FingerprintsInv => F!TypeOK
  <2> SUFFICES ASSUME FingerprintsInv PROVE Cardinality(groups) <= Cardinality(reports)
    BY DEF FingerprintsInv, F!TypeOK, F!Cardinality, Cardinality
  <2> DEFINE f == [g \in groups |-> CHOOSE x \in reports : x.key = g.key]
  <2>1. \A g \in groups : f[g] \in reports /\ f[g].key = g.key BY DEF FingerprintsInv
  <2>2. f \in [groups -> reports] BY <2>1
  <2> HIDE DEF f
  <2>3. \A g, h \in groups : f[g] = f[h] => g = h BY <2>1 DEF FingerprintsInv
  <2>4. f \in Injection(groups, reports) BY <2>2, <2>3 DEF Injection, IsInjective
  <2> QED BY <2>4, FS_Injection DEF FingerprintsInv
<1> QED BY <1>1, <1>2, FingerprintsInvariant, PTL

-----------------------------------------------------------------------------
(* Analytics. *)

\* The bookings there can be: one of each run.
Bookings == [run : EndedRuns, project : ProjectIds, day : A!Calendar, nth : {1}]

\* The answers hold bookings of what they are to tell of, step by step.
SummaryRight ==
  /\ totals.step \in {"previous", "done"} =>
       totals.current \subseteq A!Summed(A!Asked, A!CurrentDays(totals.clock))
  /\ totals.step = "done" =>
       totals.previous \subseteq A!Summed(A!Asked, A!PreviousDays(totals.clock))
ComparisonRight ==
  /\ comparison.step \in {"previous", "days", "done"} =>
       \A p \in DOMAIN comparison.current :
         /\ p \in A!Asked /\ comparison.current[p] # {}
         /\ comparison.current[p] \subseteq A!Summed({p}, A!CurrentDays(comparison.clock))
  /\ comparison.step \in {"days", "done"} =>
       \A q \in DOMAIN comparison.previous :
         comparison.previous[q] \subseteq A!Summed({q}, A!PreviousDays(comparison.clock))

\* What the backfill has read are runs that have ended, all of those from before the rows
\* were kept among them; until it writes, the rows count what the worker has booked.
BackfillRight ==
  /\ backfill.step # "none" => live
  /\ backfill.step = "insert" =>
       /\ \A r \in backfill.ended : finished[r] # A!Running
       /\ \A r \in EndedRuns : finished[r].how = "unbooked" => r \in backfill.ended
  /\ backfill.step # "done" => \A b \in daily : finished[b.run].how = "booked"

AnalyticsInv ==
  /\ A!TypeOK /\ BackfillRight /\ A!RowsCountOnce
  /\ SummaryRight /\ ComparisonRight /\ A!DaysHoldRuns
  /\ trend.step = "done" => totals.step = "done"

-----------------------------------------------------------------------------
\* The instance counts as the module does.
LEMMA CountedAlike ==
  ASSUME NEW S PROVE A!Cardinality(S) = Cardinality(S) /\ (A!IsFiniteSet(S) <=> IsFiniteSet(S))
BY DEF A!Cardinality, Cardinality, A!IsFiniteSet, IsFiniteSet

\* What is asked for are projects, and days of one period or the other.
LEMMA AskedAreThere ==
  ASSUME A!TypeOK
  PROVE  /\ A!Asked \subseteq ProjectIds
         /\ \A clock : A!CurrentDays(clock) \cap A!PreviousDays(clock) = {}
BY DEF A!TypeOK, A!Asked, A!CurrentDays, A!PreviousDays, A!Since

\* An end is on a day.
LEMMA EndsAreLate ==
  ASSUME A!TypeOK, NEW r \in EndedRuns
  PROVE  /\ A!Running.day = -1 /\ A!Running.how = "running"
         /\ finished[r] # A!Running =>
              /\ finished[r] \in A!Ends /\ finished[r].project \in ProjectIds
              /\ finished[r].day \in A!Calendar /\ finished[r].how # "running"
         /\ finished[r].day \in A!Calendar => finished[r] # A!Running
<1>1. finished[r] \in A!Ends \cup {A!Running} BY DEF A!TypeOK
<1>2. A!Running.day = -1 /\ A!Running.how = "running" BY DEF A!Running
<1>3. A!Running.day \notin A!Calendar BY <1>2 DEF A!Calendar
<1> QED BY <1>1, <1>2, <1>3 DEF A!Ends

\* The rows count runs that have ended, each once, so that a run has one booking.
LEMMA BookedOnce ==
  ASSUME A!TypeOK, \A b \in daily : A!Right(b)
  PROVE  /\ daily \subseteq Bookings
         /\ \A b \in daily : b.run \in EndedRuns /\ finished[b.run] # A!Running
         /\ \A a, b \in daily : a.run = b.run => a = b
<1>1. ASSUME NEW b \in daily
      PROVE  b \in Bookings /\ b.run \in EndedRuns /\ finished[b.run] # A!Running
  <2>1. b \in [run : EndedRuns, project : ProjectIds, day : A!Calendar, nth : Nat \ {0}] /\ A!Right(b)
    BY DEF A!TypeOK
  <2>2. b \in Bookings BY <2>1 DEF A!Right, Bookings
  <2>3. finished[b.run].day \in A!Calendar /\ b.run \in EndedRuns BY <2>1 DEF A!Right
  <2> QED BY <2>2, <2>3, EndsAreLate
<1>2. ASSUME NEW a \in daily, NEW b \in daily, a.run = b.run PROVE a = b
  <2>1. a \in Bookings /\ b \in Bookings /\ A!Right(a) /\ A!Right(b) BY <1>1
  <2> QED BY <1>2, <2>1 DEF A!Right, Bookings
<1> QED BY <1>1, <1>2

\* The bookings of a statement are those of the rows, day by day and project by project.
LEMMA SummedAre ==
  ASSUME NEW P, NEW ds
  PROVE  /\ A!Summed(P, ds) \subseteq daily
         /\ \A b \in A!Summed(P, ds) : /\ b.project \in P /\ b.day \in ds
                                       /\ b \in A!Summed(P, {b.day})
         /\ \A Q \in SUBSET P : A!Summed(Q, ds) \subseteq A!Summed(P, ds)
BY DEF A!Summed

\* The days that are shown hold all of the period.
LEMMA DaysAreAll ==
  ASSUME NEW ds, NEW answer,
         answer.days = [d \in A!DaysWithRuns(ds) |-> A!Summed(A!Asked, {d})]
  PROVE  A!Summed(A!Asked, ds) \subseteq A!RunsOn(answer)
<1> SUFFICES ASSUME NEW b \in A!Summed(A!Asked, ds) PROVE b \in A!RunsOn(answer)
  OBVIOUS
<1>1. b.day \in ds /\ b \in A!Summed(A!Asked, {b.day}) BY SummedAre
<1>2. b.day \in A!DaysWithRuns(ds) BY <1>1 DEF A!DaysWithRuns
<1>3. b.day \in DOMAIN answer.days /\ b \in answer.days[b.day] BY <1>1, <1>2
<1> QED BY <1>3 DEF A!RunsOn

-----------------------------------------------------------------------------
\* A step of the worker, the cleanup or the backfill: rows only grow.
Growing == daily \subseteq daily' /\ UNCHANGED <<days, projectIds, totals, comparison, trend>>

\* What was read is right still.
LEMMA AnswersStay ==
  ASSUME AnalyticsInv, Growing
  PROVE  /\ SummaryRight' /\ ComparisonRight' /\ A!DaysHoldRuns'
         /\ trend'.step = "done" => totals'.step = "done"
<1>1. A!Asked' = A!Asked BY DEF A!Asked, Growing
<1>2. \A clock : /\ A!CurrentDays(clock)' = A!CurrentDays(clock)
                 /\ A!PreviousDays(clock)' = A!PreviousDays(clock)
  BY DEF A!CurrentDays, A!PreviousDays, A!Clamped, Growing
<1>3. \A P, ds : A!Summed(P, ds) \subseteq A!Summed(P, ds)' BY DEF A!Summed, Growing
<1>4. SummaryRight' BY <1>1, <1>2, <1>3 DEF SummaryRight, AnalyticsInv, Growing
<1>5. ComparisonRight' BY <1>1, <1>2, <1>3 DEF ComparisonRight, AnalyticsInv, Growing
<1>6. A!DaysHoldRuns' BY DEF A!DaysHoldRuns, A!RunsOn, AnalyticsInv, Growing
<1> QED BY <1>4, <1>5, <1>6 DEF AnalyticsInv, Growing

\* An end is final: what counted a run once does so still, and what stood for a run from
\* before the rows were kept.
LEMMA BookingsStay ==
  ASSUME AnalyticsInv, NEW r \in EndedRuns, finished[r] = A!Running, NEW e,
         finished' = [finished EXCEPT ![r] = e]
  PROVE  /\ \A x \in EndedRuns : finished'[x] = IF x = r THEN e ELSE finished[x]
         /\ \A b \in daily : b.run # r /\ A!Right(b)' /\ finished'[b.run] = finished[b.run]
<1>1. \A x \in EndedRuns : finished'[x] = IF x = r THEN e ELSE finished[x]
  BY DEF AnalyticsInv, A!TypeOK
<1>2. ASSUME NEW b \in daily
      PROVE  b.run # r /\ A!Right(b)' /\ finished'[b.run] = finished[b.run]
  <2>1. b.run \in EndedRuns /\ finished[b.run] # A!Running /\ A!Right(b)
    BY BookedOnce DEF AnalyticsInv, A!RowsCountOnce
  <2> QED BY <1>1, <2>1 DEF A!Right
<1> QED BY <1>1, <1>2

\* The end of a run that was running is its first booking.
LEMMA FinishKeeps ==
  ASSUME A!AnalyticsAssumption, AnalyticsInv,
         NEW r \in EndedRuns, NEW p \in ProjectIds, NEW d \in A!Calendar, A!Finish(r, p, d)
  PROVE  AnalyticsInv'
<1> DEFINE e == [project |-> p, day |-> d, how |-> IF live THEN "booked" ELSE "unbooked"]
<1>0. PICK new : new = A!Another(r, p, d) OBVIOUS
<1>1. /\ finished[r] = A!Running /\ finished' = [finished EXCEPT ![r] = e]
      /\ daily' = IF live THEN daily \cup {new} ELSE daily
      /\ UNCHANGED <<today, live, backfill, days, projectIds, totals, comparison, trend>>
  BY <1>0 DEF A!Finish
<1>2. e \in A!Ends /\ e.project = p /\ e.day = d /\ e.how = (IF live THEN "booked" ELSE "unbooked")
  BY DEF A!Ends
<1>3. new \in Bookings /\ new.run = r /\ new.project = p /\ new.day = d /\ new.nth = 1
  <2>1. {b \in A!Row(p, d) : b.run = r} = {} BY <1>1, BookingsStay DEF A!Row
  <2>2. A!Cardinality({b \in A!Row(p, d) : b.run = r}) = 0 BY <2>1, CountedAlike, FS_EmptySet
  <2> QED BY <1>0, <2>2 DEF A!Another, Bookings
<1> HIDE DEF e
<1>4. /\ \A x \in EndedRuns : finished'[x] = IF x = r THEN e ELSE finished[x]
      /\ \A b \in daily : b.run # r /\ A!Right(b)' /\ finished'[b.run] = finished[b.run]
  BY <1>1, BookingsStay
<1>5. Growing BY <1>1 DEF Growing
<1>6. A!TypeOK'
  <2>1. new \in [run : EndedRuns, project : ProjectIds, day : A!Calendar, nth : Nat \ {0}]
    BY <1>3 DEF Bookings
  <2>2. daily' \subseteq [run : EndedRuns, project : ProjectIds, day : A!Calendar, nth : Nat \ {0}]
    BY <1>1, <2>1 DEF AnalyticsInv, A!TypeOK
  <2>3. finished' \in [EndedRuns -> A!Ends \cup {A!Running}]
    BY <1>1, <1>2 DEF AnalyticsInv, A!TypeOK
  <2> QED BY <1>1, <2>2, <2>3 DEF AnalyticsInv, A!TypeOK
<1>7. A!RowsCountOnce'
  <2>1. A!Right(new)' BY <1>2, <1>3, <1>4 DEF A!Right
  <2>2. \A b \in daily' : A!Right(b)' BY <1>1, <1>4, <2>1
  <2>3. ASSUME NEW x \in EndedRuns, finished'[x].how = "booked" PROVE \E b \in daily' : b.run = x
    <3>1. CASE x = r BY <1>1, <1>2, <1>3, <1>4, <2>3, <3>1
    <3>2. CASE x # r BY <1>1, <1>4, <2>3, <3>2 DEF AnalyticsInv, A!RowsCountOnce
    <3> QED BY <3>1, <3>2
  <2>4. ASSUME backfill'.step = "done", NEW x \in EndedRuns, finished'[x].how = "unbooked"
        PROVE  \E b \in A!Row(finished[x].project, finished[x].day)' :
                 b.run = x \/ finished'[b.run].how = "booked"
    <3>1. live /\ x # r BY <1>1, <1>2, <1>4, <2>4 DEF AnalyticsInv, BackfillRight
    <3>2. finished'[x] = finished[x] BY <1>4, <3>1
    <3>3. PICK b \in A!Row(finished[x].project, finished[x].day) :
            b.run = x \/ finished[b.run].how = "booked"
      BY <1>1, <2>4, <3>2 DEF AnalyticsInv, A!RowsCountOnce
    <3>4. b \in daily BY DEF A!Row
    <3> QED BY <1>1, <1>4, <3>2, <3>3, <3>4 DEF A!Row
  <2> QED BY <2>2, <2>3, <2>4 DEF A!RowsCountOnce
<1>8. BackfillRight'
  <2>1. backfill.step # "none" => live BY DEF AnalyticsInv, BackfillRight
  <2>2. ASSUME backfill.step = "insert"
        PROVE  /\ \A x \in backfill.ended : finished'[x] # A!Running
               /\ \A x \in EndedRuns : finished'[x].how = "unbooked" => x \in backfill.ended
    <3>1. e.how # "unbooked" BY <1>2, <2>1, <2>2
    <3>2. backfill.ended \subseteq EndedRuns /\ r \notin backfill.ended
      BY <1>1, <2>2 DEF AnalyticsInv, BackfillRight, A!TypeOK
    <3> QED BY <1>4, <2>2, <3>1, <3>2 DEF AnalyticsInv, BackfillRight
  <2>3. ASSUME backfill.step # "done", NEW b \in daily' PROVE finished'[b.run].how = "booked"
    <3>1. CASE b \in daily BY <1>4, <2>3, <3>1 DEF AnalyticsInv, BackfillRight
    <3>2. CASE b \notin daily BY <1>1, <1>2, <1>3, <1>4, <2>3, <3>2
    <3> QED BY <3>1, <3>2
  <2>4. A!Running' = A!Running BY DEF A!Running
  <2> QED BY <1>1, <2>1, <2>2, <2>3, <2>4 DEF BackfillRight
<1> QED BY <1>5, <1>6, <1>7, <1>8, AnswersStay DEF AnalyticsInv

\* The cleanup books nothing.
LEMMA CleanupKeeps ==
  ASSUME AnalyticsInv, NEW r \in EndedRuns, NEW p \in ProjectIds, A!Cleanup(r, p)
  PROVE  AnalyticsInv'
<1> DEFINE e == [project |-> p, day |-> today, how |-> "cleaned"]
<1>1. /\ finished[r] = A!Running /\ finished' = [finished EXCEPT ![r] = e]
      /\ UNCHANGED <<today, live, daily, backfill, days, projectIds, totals, comparison, trend>>
  BY DEF A!Cleanup
<1>2. e \in A!Ends /\ e.how = "cleaned" BY DEF A!Ends, AnalyticsInv, A!TypeOK
<1> HIDE DEF e
<1>3. /\ \A x \in EndedRuns : finished'[x] = IF x = r THEN e ELSE finished[x]
      /\ \A b \in daily : b.run # r /\ A!Right(b)' /\ finished'[b.run] = finished[b.run]
  BY <1>1, BookingsStay
<1>4. Growing BY <1>1 DEF Growing
<1>5. A!TypeOK' BY <1>1, <1>2 DEF AnalyticsInv, A!TypeOK
<1>6. \A x \in EndedRuns : finished'[x].how \in {"booked", "unbooked"} => finished'[x] = finished[x]
  BY <1>2, <1>3
<1>7. A!RowsCountOnce'
  <2>1. ASSUME NEW x \in EndedRuns, finished'[x].how = "booked" PROVE \E b \in daily' : b.run = x
    BY <1>1, <1>6, <2>1 DEF AnalyticsInv, A!RowsCountOnce
  <2>2. ASSUME backfill'.step = "done", NEW x \in EndedRuns, finished'[x].how = "unbooked"
        PROVE  \E b \in A!Row(finished[x].project, finished[x].day)' :
                 b.run = x \/ finished'[b.run].how = "booked"
    <3>1. finished'[x] = finished[x] BY <1>6, <2>2
    <3>2. PICK b \in A!Row(finished[x].project, finished[x].day) :
            b.run = x \/ finished[b.run].how = "booked"
      BY <1>1, <2>2, <3>1 DEF AnalyticsInv, A!RowsCountOnce
    <3> QED BY <1>1, <1>3, <3>1, <3>2 DEF A!Row
  <2> QED BY <1>1, <1>3, <2>1, <2>2 DEF A!RowsCountOnce
<1>8. BackfillRight'
  <2>1. backfill.step = "insert" => backfill.ended \subseteq EndedRuns /\ r \notin backfill.ended
    BY <1>1 DEF AnalyticsInv, BackfillRight, A!TypeOK
  <2>2. A!Running' = A!Running BY DEF A!Running
  <2> QED BY <1>1, <1>2, <1>3, <2>1, <2>2 DEF AnalyticsInv, BackfillRight
<1> QED BY <1>4, <1>5, <1>7, <1>8, AnswersStay DEF AnalyticsInv

LEMMA BackfillSelectKeeps == ASSUME AnalyticsInv, A!BackfillSelect PROVE AnalyticsInv'
<1>1. /\ live /\ backfill.step = "none"
      /\ backfill'.step = "insert" /\ backfill'.ended = {r \in EndedRuns : finished[r] # A!Running}
      /\ UNCHANGED <<today, finished, live, daily, days, projectIds, totals, comparison, trend>>
  BY DEF A!BackfillSelect
<1>2. Growing BY <1>1 DEF Growing
<1>3. A!TypeOK' BY <1>1 DEF AnalyticsInv, A!TypeOK
<1>4. A!RowsCountOnce' BY <1>1 DEF AnalyticsInv, A!RowsCountOnce, A!Right
<1>5. BackfillRight'
  <2>1. A!Running' = A!Running /\ A!Running.how = "running" BY DEF A!Running
  <2> QED BY <1>1, <2>1 DEF AnalyticsInv, BackfillRight
<1> QED BY <1>2, <1>3, <1>4, <1>5, AnswersStay DEF AnalyticsInv

\* What the backfill inserts are the first bookings of days that have none.
LEMMA BackfillInsertKeeps == ASSUME AnalyticsInv, A!BackfillInsert PROVE AnalyticsInv'
<1>1. /\ backfill.step = "insert" /\ backfill'.step = "done" /\ daily' = daily \cup A!Inserted
      /\ UNCHANGED <<today, finished, live, days, projectIds, totals, comparison, trend>>
  BY DEF A!BackfillInsert
<1>2. Growing BY <1>1 DEF Growing
<1>3. ASSUME NEW r \in backfill.ended
      PROVE  LET b == A!Another(r, finished[r].project, finished[r].day)
             IN  /\ b.run = r /\ b.project = finished[r].project /\ b.day = finished[r].day
                 /\ A!Row(b.project, b.day) = {} => b \in A!Inserted /\ b \in Bookings /\ A!Right(b)
  <2> DEFINE p == finished[r].project
             d == finished[r].day
             b == A!Another(r, p, d)
  <2>1. r \in EndedRuns /\ p \in ProjectIds /\ d \in A!Calendar
    BY <1>1, EndsAreLate DEF AnalyticsInv, BackfillRight, A!TypeOK
  <2>2. b.run = r /\ b.project = p /\ b.day = d BY DEF A!Another
  <2>3. ASSUME A!Row(p, d) = {} PROVE b \in Bookings /\ A!Right(b)
    <3>1. {x \in A!Row(p, d) : x.run = r} = {} BY <2>3
    <3>2. A!Cardinality({x \in A!Row(p, d) : x.run = r}) = 0 BY <3>1, CountedAlike, FS_EmptySet
    <3>3. b = [run |-> r, project |-> p, day |-> d, nth |-> 1] BY <3>2 DEF A!Another
    <3> HIDE DEF b, p, d
    <3>4. b \in Bookings BY <2>1, <3>3 DEF Bookings
    <3>5. b.nth = 1 BY <3>3
    <3> QED BY <2>2, <3>4, <3>5 DEF A!Right, p, d
  <2>4. b \in A!Selected BY DEF A!Selected
  <2> QED BY <2>2, <2>3, <2>4 DEF A!Inserted
<1>4. \A b \in A!Inserted : b \in Bookings /\ A!Right(b)
  <2> SUFFICES ASSUME NEW b \in A!Inserted PROVE b \in Bookings /\ A!Right(b) OBVIOUS
  <2>1. PICK r \in backfill.ended : b = A!Another(r, finished[r].project, finished[r].day)
    BY DEF A!Inserted, A!Selected
  <2> QED BY <1>3, <2>1 DEF A!Inserted
<1>5. A!TypeOK'
  <2>1. Bookings \subseteq [run : EndedRuns, project : ProjectIds, day : A!Calendar, nth : Nat \ {0}]
    BY DEF Bookings
  <2>2. daily' \subseteq [run : EndedRuns, project : ProjectIds, day : A!Calendar, nth : Nat \ {0}]
    BY <1>1, <1>4, <2>1 DEF AnalyticsInv, A!TypeOK
  <2> QED BY <1>1, <2>2 DEF AnalyticsInv, A!TypeOK
<1>6. A!RowsCountOnce'
  <2>1. \A b \in daily' : A!Right(b)' BY <1>1, <1>4 DEF AnalyticsInv, A!RowsCountOnce, A!Right
  <2>2. \A r \in EndedRuns : finished'[r].how = "booked" => \E b \in daily' : b.run = r
    BY <1>1 DEF AnalyticsInv, A!RowsCountOnce
  <2>3. ASSUME NEW r \in EndedRuns, finished[r].how = "unbooked"
        PROVE  \E b \in A!Row(finished[r].project, finished[r].day)' :
                 b.run = r \/ finished[b.run].how = "booked"
    <3> DEFINE p == finished[r].project
               d == finished[r].day
    <3>1. CASE A!Row(p, d) = {}
      <4>1. r \in backfill.ended BY <1>1, <2>3 DEF AnalyticsInv, BackfillRight
      <4>2. PICK b \in A!Inserted : b.run = r /\ b.project = p /\ b.day = d BY <1>3, <3>1, <4>1
      <4> QED BY <1>1, <4>2 DEF A!Row
    <3>2. CASE A!Row(p, d) # {}
      <4>1. PICK b \in daily : b.project = p /\ b.day = d BY <3>2 DEF A!Row
      <4>2. finished[b.run].how = "booked" BY <1>1 DEF AnalyticsInv, BackfillRight
      <4> QED BY <1>1, <4>1, <4>2 DEF A!Row
    <3> QED BY <3>1, <3>2
  <2> QED BY <1>1, <2>1, <2>2, <2>3 DEF A!RowsCountOnce
<1>7. BackfillRight' BY <1>1 DEF AnalyticsInv, BackfillRight
<1> QED BY <1>2, <1>5, <1>6, <1>7, AnswersStay DEF AnalyticsInv

\* Deployment and midnight.
LEMMA ClockKeeps ==
  ASSUME A!AnalyticsAssumption, AnalyticsInv, A!Deploy \/ A!Midnight
  PROVE  AnalyticsInv'
<1>1. UNCHANGED <<finished, daily, backfill, days, projectIds, totals, comparison, trend>>
      /\ live' \in BOOLEAN /\ (live => live')
  BY DEF A!Deploy, A!Midnight, A!stored, AnalyticsInv, A!TypeOK
<1>2. Growing BY <1>1 DEF Growing
<1>3. today' \in A!Calendar
  <2>1. LastDay \in Nat BY DEF A!AnalyticsAssumption
  <2>2. today \in 0 .. LastDay BY DEF AnalyticsInv, A!TypeOK, A!Calendar
  <2>3. today' = today \/ (today < LastDay /\ today' = today + 1) BY DEF A!Deploy, A!Midnight
  <2> QED BY <2>1, <2>2, <2>3 DEF A!Calendar
<1>4. A!TypeOK' BY <1>1, <1>3 DEF AnalyticsInv, A!TypeOK
<1>5. A!RowsCountOnce' /\ BackfillRight'
  <2>1. A!Running' = A!Running BY DEF A!Running
  <2> QED BY <1>1, <2>1 DEF AnalyticsInv, A!RowsCountOnce, A!Right, A!Row, BackfillRight
<1> QED BY <1>1, <1>2, <1>4, <1>5, AnswersStay DEF AnalyticsInv

-----------------------------------------------------------------------------
\* A step that leaves the rows and what is asked for: a statement would read what it did.
Reading == UNCHANGED <<today, finished, live, daily, backfill, days, projectIds>>

LEMMA RowsStay ==
  ASSUME AnalyticsInv, Reading
  PROVE  /\ A!Asked' = A!Asked
         /\ \A clock : /\ A!CurrentDays(clock)' = A!CurrentDays(clock)
                       /\ A!PreviousDays(clock)' = A!PreviousDays(clock)
         /\ \A P, ds : A!Summed(P, ds)' = A!Summed(P, ds)
         /\ A!RowsCountOnce' /\ BackfillRight'
<1>1. A!Running' = A!Running BY DEF A!Running
<1>2. A!Asked' = A!Asked /\ \A P, ds : A!Summed(P, ds)' = A!Summed(P, ds)
  BY DEF Reading, A!Asked, A!Summed
<1>3. \A clock : /\ A!CurrentDays(clock)' = A!CurrentDays(clock)
                 /\ A!PreviousDays(clock)' = A!PreviousDays(clock)
  BY DEF Reading, A!CurrentDays, A!PreviousDays, A!Clamped
<1>4. A!RowsCountOnce' BY DEF Reading, AnalyticsInv, A!RowsCountOnce, A!Right, A!Row
<1>5. BackfillRight' BY <1>1 DEF Reading, AnalyticsInv, BackfillRight
<1> QED BY <1>2, <1>3, <1>4, <1>5

\* The statements of the summary and the trend.
LEMMA SummaryKeeps ==
  ASSUME AnalyticsInv, A!AskSummary \/ A!SummaryCurrent \/ A!SummaryPrevious \/ A!AskTrend
  PROVE  AnalyticsInv'
<1>1. Reading /\ comparison' = comparison
  BY DEF A!AskSummary, A!SummaryCurrent, A!SummaryPrevious, A!AskTrend, A!stored, Reading
<1>2. /\ A!Asked' = A!Asked
      /\ \A clock : /\ A!CurrentDays(clock)' = A!CurrentDays(clock)
                    /\ A!PreviousDays(clock)' = A!PreviousDays(clock)
      /\ \A P, ds : A!Summed(P, ds)' = A!Summed(P, ds)
      /\ A!RowsCountOnce' /\ BackfillRight'
  BY <1>1, RowsStay
<1>3. ComparisonRight' BY <1>1, <1>2 DEF AnalyticsInv, ComparisonRight
<1>4. (comparison.step = "done" =>
         UNION {comparison.current[p] : p \in DOMAIN comparison.current}
           \subseteq A!RunsOn(comparison))'
  BY <1>1 DEF AnalyticsInv, A!DaysHoldRuns, A!RunsOn
<1>5. totals'.step \in {"none", "current", "previous", "done"} /\ trend'.step \in {"none", "done"}
        => A!TypeOK'
  BY <1>1 DEF Reading, AnalyticsInv, A!TypeOK
<1>6. CASE A!AskSummary
  <2>1. totals'.step = "current" /\ trend' = trend /\ trend.step = "none"
    BY <1>6 DEF A!AskSummary, AnalyticsInv, A!TypeOK
  <2>2. SummaryRight' BY <2>1 DEF SummaryRight
  <2>3. A!DaysHoldRuns' BY <1>4, <2>1 DEF A!DaysHoldRuns
  <2> QED BY <1>2, <1>3, <1>5, <2>1, <2>2, <2>3 DEF AnalyticsInv
<1>7. CASE A!SummaryCurrent
  <2>1. /\ totals'.step = "previous" /\ totals'.clock = totals.clock
        /\ totals'.current = A!Summed(A!Asked, A!CurrentDays(totals.clock))
        /\ trend' = trend /\ trend.step = "none"
    BY <1>7 DEF A!SummaryCurrent, A!NowOf, AnalyticsInv, A!TypeOK
  <2>2. SummaryRight' BY <1>2, <2>1 DEF SummaryRight
  <2>3. A!DaysHoldRuns' BY <1>4, <2>1 DEF A!DaysHoldRuns
  <2> QED BY <1>2, <1>3, <1>5, <2>1, <2>2, <2>3 DEF AnalyticsInv
<1>8. CASE A!SummaryPrevious
  <2>1. /\ totals.step = "previous" /\ totals'.step = "done" /\ totals'.clock = totals.clock
        /\ totals'.current = totals.current
        /\ totals'.previous = A!Summed(A!Asked, A!PreviousDays(totals.clock))
        /\ trend' = trend /\ trend.step = "none"
    BY <1>8 DEF A!SummaryPrevious, A!NowOf, AnalyticsInv, A!TypeOK
  <2>2. SummaryRight' BY <1>2, <2>1 DEF AnalyticsInv, SummaryRight
  <2>3. A!DaysHoldRuns' BY <1>4, <2>1 DEF A!DaysHoldRuns
  <2> QED BY <1>2, <1>3, <1>5, <2>1, <2>2, <2>3 DEF AnalyticsInv
<1>9. CASE A!AskTrend
  <2>1. /\ totals' = totals /\ totals.step = "done"
        /\ trend'.step = "done" /\ trend'.clock = today
        /\ trend'.days = [d \in A!DaysWithRuns(A!CurrentDays(today)) |-> A!Summed(A!Asked, {d})]
    BY <1>9 DEF A!AskTrend
  <2>2. SummaryRight' BY <1>2, <2>1 DEF SummaryRight, AnalyticsInv
  <2>3. totals.current \subseteq A!Summed(A!Asked, A!CurrentDays(totals.clock))
    BY <2>1 DEF AnalyticsInv, SummaryRight
  <2>4. A!Summed(A!Asked, A!CurrentDays(today)) \subseteq A!RunsOn(trend')
    BY <2>1, DaysAreAll DEF A!RunsOn
  <2>5. A!DaysHoldRuns' BY <1>4, <2>1, <2>3, <2>4 DEF A!DaysHoldRuns, A!RunsOn
  <2> QED BY <1>2, <1>3, <1>5, <2>1, <2>2, <2>5 DEF AnalyticsInv
<1> QED BY <1>6, <1>7, <1>8, <1>9

\* The statements of the comparison, which takes the projects one by one.
LEMMA ComparisonKeeps ==
  ASSUME AnalyticsInv, A!AskComparison \/ A!CompareCurrent \/ A!ComparePrevious \/ A!CompareDays
  PROVE  AnalyticsInv'
<1>1. Reading /\ UNCHANGED <<totals, trend>>
  BY DEF A!AskComparison, A!CompareCurrent, A!ComparePrevious, A!CompareDays, A!stored, Reading
<1>2. /\ A!Asked' = A!Asked
      /\ \A clock : /\ A!CurrentDays(clock)' = A!CurrentDays(clock)
                    /\ A!PreviousDays(clock)' = A!PreviousDays(clock)
      /\ \A P, ds : A!Summed(P, ds)' = A!Summed(P, ds)
      /\ A!RowsCountOnce' /\ BackfillRight'
  BY <1>1, RowsStay
<1>3. SummaryRight' /\ (trend.step = "done" => totals.step = "done")'
  BY <1>1, <1>2 DEF AnalyticsInv, SummaryRight
<1>4. ((trend.step = "done" /\ trend.clock = totals.clock) =>
         totals.current \subseteq A!RunsOn(trend))'
  BY <1>1 DEF AnalyticsInv, A!DaysHoldRuns, A!RunsOn
<1>5. comparison'.step \in {"none", "current", "previous", "days", "done"} => A!TypeOK'
  BY <1>1 DEF Reading, AnalyticsInv, A!TypeOK
<1>6. \A ds : \A p \in DOMAIN A!Projected(ds) :
        /\ p \in A!Asked /\ A!Projected(ds)[p] = A!Summed({p}, ds) /\ A!Projected(ds)[p] # {}
  BY DEF A!Projected
<1>7. CASE A!AskComparison
  <2>1. comparison'.step = "current" BY <1>7 DEF A!AskComparison
  <2>2. ComparisonRight' BY <2>1 DEF ComparisonRight
  <2>3. A!DaysHoldRuns' BY <1>4, <2>1 DEF A!DaysHoldRuns
  <2> QED BY <1>2, <1>3, <1>5, <2>1, <2>2, <2>3 DEF AnalyticsInv
<1>8. CASE A!CompareCurrent
  <2>1. /\ comparison'.step = "previous" /\ comparison'.clock = comparison.clock
        /\ comparison'.current = A!Projected(A!CurrentDays(comparison.clock))
    BY <1>8 DEF A!CompareCurrent, A!NowOf
  <2>2. ComparisonRight' BY <1>2, <1>6, <2>1 DEF ComparisonRight
  <2>3. A!DaysHoldRuns' BY <1>4, <2>1 DEF A!DaysHoldRuns
  <2> QED BY <1>2, <1>3, <1>5, <2>1, <2>2, <2>3 DEF AnalyticsInv
<1>9. CASE A!ComparePrevious
  <2>1. /\ comparison'.step = "days" /\ comparison'.clock = comparison.clock
        /\ comparison'.current = comparison.current /\ comparison.step = "previous"
        /\ comparison'.previous = A!Projected(A!PreviousDays(comparison.clock))
    BY <1>9 DEF A!ComparePrevious, A!NowOf
  <2>2. ComparisonRight' BY <1>2, <1>6, <2>1 DEF ComparisonRight, AnalyticsInv
  <2>3. A!DaysHoldRuns' BY <1>4, <2>1 DEF A!DaysHoldRuns
  <2> QED BY <1>2, <1>3, <1>5, <2>1, <2>2, <2>3 DEF AnalyticsInv
<1>10. CASE A!CompareDays
  <2>1. /\ comparison'.step = "done" /\ comparison'.clock = comparison.clock
        /\ comparison'.current = comparison.current /\ comparison.step = "days"
        /\ comparison'.previous = comparison.previous
        /\ comparison'.days =
             [d \in A!DaysWithRuns(A!CurrentDays(comparison.clock)) |-> A!Summed(A!Asked, {d})]
    BY <1>10 DEF A!CompareDays, A!NowOf
  <2>2. ComparisonRight' BY <1>2, <2>1 DEF ComparisonRight, AnalyticsInv
  <2>3. \A p \in DOMAIN comparison.current :
          comparison.current[p] \subseteq A!Summed(A!Asked, A!CurrentDays(comparison.clock))
    <3> SUFFICES ASSUME NEW p \in DOMAIN comparison.current
                 PROVE  comparison.current[p] \subseteq A!Summed(A!Asked, A!CurrentDays(comparison.clock))
      OBVIOUS
    <3>1. /\ {p} \in SUBSET A!Asked
          /\ comparison.current[p] \subseteq A!Summed({p}, A!CurrentDays(comparison.clock))
      BY <2>1 DEF AnalyticsInv, ComparisonRight
    <3> QED BY <3>1, SummedAre
  <2>4. A!Summed(A!Asked, A!CurrentDays(comparison.clock)) \subseteq A!RunsOn(comparison')
    BY <2>1, DaysAreAll DEF A!RunsOn
  <2>5. UNION {comparison'.current[p] : p \in DOMAIN comparison'.current}
          \subseteq A!RunsOn(comparison')
    BY <2>1, <2>3, <2>4
  <2>6. A!DaysHoldRuns' BY <1>4, <2>1, <2>5 DEF A!DaysHoldRuns, A!RunsOn
  <2> QED BY <1>2, <1>3, <1>5, <2>1, <2>2, <2>6 DEF AnalyticsInv
<1> QED BY <1>7, <1>8, <1>9, <1>10

-----------------------------------------------------------------------------
\* What was read are bookings of the period it is told of, so that none is in two and no run
\* has another.
LEMMA PeriodsAreApart == ASSUME AnalyticsInv PROVE A!PeriodsAdjoin
<1>1. \A P, Q, clock : A!Summed(P, A!CurrentDays(clock)) \cap A!Summed(Q, A!PreviousDays(clock)) = {}
  <2> SUFFICES ASSUME NEW P, NEW Q, NEW clock, NEW b \in A!Summed(P, A!CurrentDays(clock)),
                      b \in A!Summed(Q, A!PreviousDays(clock))
               PROVE  FALSE
    OBVIOUS
  <2>1. b.day \in A!CurrentDays(clock) /\ b.day \in A!PreviousDays(clock) BY SummedAre
  <2> QED BY <2>1, AskedAreThere DEF AnalyticsInv
<1>2. \A bs : bs \subseteq daily => A!Once(bs)
  BY BookedOnce DEF AnalyticsInv, A!RowsCountOnce, A!Once
<1>3. ASSUME totals.step = "done"
      PROVE  A!Once(totals.current \cup totals.previous) /\ totals.current \cap totals.previous = {}
  <2>1. /\ totals.current \subseteq A!Summed(A!Asked, A!CurrentDays(totals.clock))
        /\ totals.previous \subseteq A!Summed(A!Asked, A!PreviousDays(totals.clock))
    BY <1>3 DEF AnalyticsInv, SummaryRight
  <2>2. totals.current \cup totals.previous \subseteq daily BY <2>1, SummedAre
  <2> QED BY <1>1, <1>2, <2>1, <2>2
<1>4. ASSUME comparison.step = "done"
      PROVE  LET current  == UNION {comparison.current[p] : p \in DOMAIN comparison.current}
                 previous == UNION {comparison.previous[p] : p \in DOMAIN comparison.previous}
             IN  A!Once(current \cup previous) /\ current \cap previous = {}
  <2> DEFINE current  == UNION {comparison.current[p] : p \in DOMAIN comparison.current}
             previous == UNION {comparison.previous[p] : p \in DOMAIN comparison.previous}
  <2>1. \A p \in DOMAIN comparison.current :
          comparison.current[p] \subseteq A!Summed({p}, A!CurrentDays(comparison.clock))
    BY <1>4 DEF AnalyticsInv, ComparisonRight
  <2>2. \A q \in DOMAIN comparison.previous :
          comparison.previous[q] \subseteq A!Summed({q}, A!PreviousDays(comparison.clock))
    BY <1>4 DEF AnalyticsInv, ComparisonRight
  <2>3. current \cup previous \subseteq daily
    <3>1. \A P, ds : A!Summed(P, ds) \subseteq daily BY SummedAre
    <3>2. \A p \in DOMAIN comparison.current : comparison.current[p] \subseteq daily
      BY <2>1, <3>1
    <3>3. \A q \in DOMAIN comparison.previous : comparison.previous[q] \subseteq daily
      BY <2>2, <3>1
    <3> QED BY <3>2, <3>3
  <2>4. current \cap previous = {}
    <3> SUFFICES ASSUME NEW b \in current, b \in previous PROVE FALSE OBVIOUS
    <3>1. PICK p \in DOMAIN comparison.current : b \in comparison.current[p] OBVIOUS
    <3>2. PICK q \in DOMAIN comparison.previous : b \in comparison.previous[q] OBVIOUS
    <3>3. /\ b \in A!Summed({p}, A!CurrentDays(comparison.clock))
          /\ b \in A!Summed({q}, A!PreviousDays(comparison.clock))
      BY <2>1, <2>2, <3>1, <3>2
    <3> QED BY <1>1, <3>3
  <2> QED BY <1>2, <2>3, <2>4
<1> QED BY <1>3, <1>4, Zenon DEF A!PeriodsAdjoin

-----------------------------------------------------------------------------
(* Sums.  First, induction over the subsets of a finite set. *)

LEMMA BySubsets ==
  ASSUME NEW S, IsFiniteSet(S), NEW G,
         \A X \in SUBSET S : (\A Y \in SUBSET X : Y # X => Y \in G) => X \in G
  PROVE  \A X \in SUBSET S : X \in G
<1> DEFINE B == (SUBSET S) \ G
<1> SUFFICES ASSUME B # {} PROVE FALSE OBVIOUS
<1>1. B \subseteq FiniteSubsetsOf(S) BY FS_Subset DEF FiniteSubsetsOf
<1>2. IsWellFoundedOn(StrictSubsetOrdering(S), FiniteSubsetsOf(S))
  BY FS_StrictSubsetOrderingWellFounded
<1> HIDE DEF B
<1>3. PICK X \in B : \A Y \in B : <<Y, X>> \notin StrictSubsetOrdering(S) BY <1>1, <1>2, WFMin
<1>4. X \in SUBSET S BY DEF B
<1>5. ASSUME NEW Y \in SUBSET X, Y # X PROVE Y \in G
  <2>1. <<Y, X>> \in StrictSubsetOrdering(S) BY <1>4, <1>5 DEF StrictSubsetOrdering
  <2> QED BY <1>3, <1>4, <2>1 DEF B
<1> QED BY <1>4, <1>5 DEF B

\* What the folds of a module do: an element first, whichever, then the others.
First(s) == CHOOSE x \in s : TRUE
SumStep(f, d, s) == IF s = {} THEN 0 ELSE f[First(s)] + d[s \ {First(s)}]
IsSum(f, d, S) == d = [s \in SUBSET S |-> SumStep(f, d, s)]
Sums(f, d, S) == \A s \in SUBSET S : d[s] = SumStep(f, d, s)

LEMMA FirstIsOne == ASSUME NEW s, s # {} PROVE First(s) \in s
BY DEF First

\* Two sums are the same.
LEMMA SumsAlike ==
  ASSUME NEW S, IsFiniteSet(S), NEW f, NEW d, NEW e, Sums(f, d, S), Sums(f, e, S)
  PROVE  \A s \in SUBSET S : d[s] = e[s]
<1> DEFINE G == {s \in SUBSET S : d[s] = e[s]}
<1>1. ASSUME NEW X \in SUBSET S, \A Y \in SUBSET X : Y # X => Y \in G PROVE X \in G
  <2>1. d[X] = SumStep(f, d, X) /\ e[X] = SumStep(f, e, X) BY DEF Sums
  <2>2. CASE X = {} BY <2>1, <2>2 DEF SumStep
  <2>3. CASE X # {}
    <3>1. First(X) \in X BY <2>3, FirstIsOne
    <3>2. X \ {First(X)} \in G BY <1>1, <3>1
    <3>3. d[X \ {First(X)}] = e[X \ {First(X)}] BY <3>2
    <3> QED BY <2>1, <2>3, <3>3 DEF SumStep
  <2> QED BY <2>2, <2>3
<1> HIDE DEF G
<1>2. \A X \in SUBSET S : X \in G BY <1>1, BySubsets
<1> QED BY <1>2 DEF G

\* There is one.
LEMMA SumsExist ==
  ASSUME NEW S, IsFiniteSet(S), NEW f PROVE \E d : IsSum(f, d, S)
<1> DEFINE G == {X \in SUBSET S : \E d : Sums(f, d, X)}
<1>1. ASSUME NEW X \in SUBSET S, \A Y \in SUBSET X : Y # X => Y \in G PROVE X \in G
  <2> DEFINE c(Y) == CHOOSE d : Sums(f, d, Y)
             e == [s \in SUBSET X |-> SumStep(f, c(s \ {First(s)}), s)]
  <2>1. \A Y \in SUBSET X : Y # X => Sums(f, c(Y), Y) BY <1>1
  <2> HIDE DEF c
  <2>2. ASSUME NEW s \in SUBSET X PROVE e[s] = SumStep(f, e, s)
    <3>1. CASE s = {} BY <3>1 DEF SumStep
    <3>2. CASE s # {}
      <4> DEFINE t == s \ {First(s)}
                 u == t \ {First(t)}
      <4>1. First(s) \in s BY <3>2, FirstIsOne
      <4>2. t \in SUBSET X /\ t # X /\ IsFiniteSet(t) BY <4>1, FS_Subset
      <4>3. Sums(f, c(t), t) BY <2>1, <4>2
      <4>4. e[s] = f[First(s)] + c(t)[t] BY <3>2 DEF SumStep
      <4>5. e[t] = SumStep(f, c(u), t) BY <4>2
      <4>6. c(t)[t] = SumStep(f, c(t), t) BY <4>3 DEF Sums
      <4>7. e[t] = c(t)[t]
        <5>1. CASE t = {} BY <4>5, <4>6, <5>1 DEF SumStep
        <5>2. CASE t # {}
          <6>1. First(t) \in t BY <5>2, FirstIsOne
          <6>2. u \in SUBSET X /\ u # X /\ u \in SUBSET t /\ u \in SUBSET u BY <4>2, <6>1
          <6>3. IsFiniteSet(u) BY <4>2, <6>2, FS_Subset
          <6>4. Sums(f, c(u), u) BY <2>1, <6>2
          <6>5. Sums(f, c(t), u) BY <4>3, <6>2 DEF Sums
          <6> HIDE DEF u
          <6>6. c(t)[u] = c(u)[u] BY <6>2, <6>3, <6>4, <6>5, SumsAlike
          <6> QED BY <4>5, <4>6, <5>2, <6>6 DEF SumStep, u
        <5> QED BY <5>1, <5>2
      <4> HIDE DEF e
      <4> QED BY <3>2, <4>4, <4>7 DEF SumStep
    <3> QED BY <3>1, <3>2
  <2> HIDE DEF e
  <2>3. Sums(f, e, X) BY <2>2 DEF Sums
  <2> QED BY <2>3
<1> HIDE DEF G
<1>2. \A X \in SUBSET S : X \in G BY <1>1, BySubsets
<1>3. PICK d : Sums(f, d, S) BY <1>2 DEF G
<1> DEFINE e == [s \in SUBSET S |-> SumStep(f, d, s)]
<1>4. \A s \in SUBSET S : e[s] = d[s] BY <1>3 DEF Sums
<1>5. ASSUME NEW s \in SUBSET S PROVE SumStep(f, d, s) = SumStep(f, e, s)
  <2> HIDE DEF e
  <2>1. s \ {First(s)} \in SUBSET S OBVIOUS
  <2> QED BY <1>4, <2>1 DEF SumStep
<1>6. e = [s \in SUBSET S |-> SumStep(f, e, s)]
  <2> DEFINE v(s) == SumStep(f, e, s)
             w(s) == SumStep(f, d, s)
  <2>1. \A s \in SUBSET S : w(s) = v(s) BY <1>5
  <2>2. e = [s \in SUBSET S |-> w(s)] OBVIOUS
  <2> HIDE DEF v, w, e
  <2>3. e = [s \in SUBSET S |-> v(s)] BY <2>1, <2>2
  <2> QED BY <2>3 DEF v
<1> QED BY <1>6 DEF IsSum

LEMMA SumSums == ASSUME NEW S, NEW f, NEW d, IsSum(f, d, S) PROVE Sums(f, d, S)
<1>1. \A s \in SUBSET S : d[s] = SumStep(f, d, s) BY Zenon DEF IsSum
<1> QED BY <1>1 DEF Sums

SumOf(f, S) == (CHOOSE d : IsSum(f, d, S))[S]

\* Nothing sums up to nothing, and the sum of some is that of one and of the others.
LEMMA SumIsStep ==
  ASSUME NEW S, IsFiniteSet(S), NEW f
  PROVE  SumOf(f, S) = IF S = {} THEN 0 ELSE f[First(S)] + SumOf(f, S \ {First(S)})
<1> DEFINE c(Y) == CHOOSE d : IsSum(f, d, Y)
           t == S \ {First(S)}
<1>1. \A Y : IsFiniteSet(Y) => IsSum(f, c(Y), Y) BY SumsExist
<1>2. SumOf(f, S) = c(S)[S] /\ SumOf(f, t) = c(t)[t] BY DEF SumOf
<1> HIDE DEF c
<1>3. IsFiniteSet(t) BY FS_Subset
<1>4. Sums(f, c(S), S) BY <1>1, SumSums
<1>5. Sums(f, c(t), t)
  <2> HIDE DEF t
  <2> QED BY <1>1, <1>3, SumSums
<1>6. Sums(f, c(S), t) BY <1>4 DEF Sums
<1>7. t \in SUBSET t /\ S \in SUBSET S OBVIOUS
<1>8. c(S)[t] = c(t)[t]
  <2> HIDE DEF t
  <2> QED BY <1>3, <1>5, <1>6, <1>7, SumsAlike
<1>9. c(S)[S] = SumStep(f, c(S), S) BY <1>4, <1>7 DEF Sums
<1> QED BY <1>2, <1>8, <1>9 DEF SumStep

\* Sums of natural numbers are natural numbers, in whichever order they are taken.
LEMMA SumTakesAny ==
  ASSUME NEW S, IsFiniteSet(S), NEW f, \A x \in S : f[x] \in Nat
  PROVE  \A T \in SUBSET S : /\ SumOf(f, T) \in Nat
                             /\ \A x \in T : SumOf(f, T) = f[x] + SumOf(f, T \ {x})
<1> DEFINE G == {T \in SUBSET S : /\ SumOf(f, T) \in Nat
                                  /\ \A x \in T : SumOf(f, T) = f[x] + SumOf(f, T \ {x})}
<1>1. ASSUME NEW X \in SUBSET S, \A Y \in SUBSET X : Y # X => Y \in G PROVE X \in G
  <2>1. IsFiniteSet(X) BY FS_Subset
  <2>2. CASE X = {}
    <3>1. SumOf(f, X) = 0 BY <2>1, <2>2, SumIsStep
    <3> QED BY <2>2, <3>1
  <2>3. CASE X # {}
    <3> DEFINE y == First(X)
               Z == X \ {y}
    <3>1. y \in X BY <2>3, FirstIsOne
    <3>2. SumOf(f, X) = f[y] + SumOf(f, Z) BY <2>1, <2>3, SumIsStep
    <3> HIDE DEF y
    <3>3. Z \in G BY <1>1, <3>1
    <3>4. SumOf(f, X) \in Nat BY <3>1, <3>2, <3>3
    <3>5. ASSUME NEW x \in X, x # y PROVE SumOf(f, X) = f[x] + SumOf(f, X \ {x})
      <4>1. X \ {x} \in G /\ y \in X \ {x} /\ x \in Z /\ Z \ {x} \in G BY <1>1, <3>1, <3>5
      <4>2. SumOf(f, X \ {x}) = f[y] + SumOf(f, (X \ {x}) \ {y}) BY <4>1
      <4>3. SumOf(f, Z) = f[x] + SumOf(f, Z \ {x}) BY <3>3, <4>1
      <4>4. (X \ {x}) \ {y} = Z \ {x} OBVIOUS
      <4>5. f[x] \in Nat /\ f[y] \in Nat /\ SumOf(f, Z \ {x}) \in Nat BY <3>1, <4>1
      <4>6. SumOf(f, X \ {x}) = f[y] + SumOf(f, Z \ {x}) BY <4>2, <4>4
      <4> HIDE DEF Z
      <4> QED BY <3>2, <4>3, <4>5, <4>6
    <3> QED BY <3>2, <3>4, <3>5
  <2> QED BY <2>2, <2>3
<1> HIDE DEF G
<1>2. \A X \in SUBSET S : X \in G BY <1>1, BySubsets
<1> QED BY <1>2 DEF G

\* The sum of two sets that share nothing.
LEMMA SumOfBoth ==
  ASSUME NEW S, IsFiniteSet(S), NEW f, \A x \in S : f[x] \in Nat,
         NEW T \in SUBSET S, NEW V \in SUBSET S, T \cap V = {}
  PROVE  SumOf(f, T \cup V) = SumOf(f, T) + SumOf(f, V)
<1> DEFINE G == {X \in SUBSET S : X \cap V = {} => SumOf(f, X \cup V) = SumOf(f, X) + SumOf(f, V)}
<1>0. \A X \in SUBSET S : SumOf(f, X) \in Nat BY SumTakesAny
<1>1. ASSUME NEW X \in SUBSET S, \A Y \in SUBSET X : Y # X => Y \in G PROVE X \in G
  <2> SUFFICES ASSUME X \cap V = {} PROVE SumOf(f, X \cup V) = SumOf(f, X) + SumOf(f, V) OBVIOUS
  <2>1. CASE X = {}
    <3>1. IsFiniteSet(X) BY FS_Subset
    <3>2. SumOf(f, X) = 0 BY <2>1, <3>1, SumIsStep
    <3>3. X \cup V = V BY <2>1
    <3> QED BY <1>0, <3>2, <3>3
  <2>2. CASE X # {}
    <3>1. PICK x \in X : TRUE BY <2>2
    <3>2. X \ {x} \in G /\ (X \ {x}) \cap V = {} BY <1>1
    <3>3. SumOf(f, (X \ {x}) \cup V) = SumOf(f, X \ {x}) + SumOf(f, V) BY <3>2
    <3>4. SumOf(f, X) = f[x] + SumOf(f, X \ {x}) BY SumTakesAny
    <3>5. SumOf(f, X \cup V) = f[x] + SumOf(f, (X \cup V) \ {x}) BY SumTakesAny
    <3>6. (X \cup V) \ {x} = (X \ {x}) \cup V OBVIOUS
    <3>7. f[x] \in Nat /\ SumOf(f, X \ {x}) \in Nat /\ SumOf(f, V) \in Nat BY <1>0
    <3> QED BY <3>3, <3>4, <3>5, <3>6, <3>7
  <2> QED BY <2>1, <2>2
<1> HIDE DEF G
<1>2. T \in G BY <1>1, BySubsets
<1> QED BY <1>2 DEF G

\* One is no more than the sum.
LEMMA SumHasEach ==
  ASSUME NEW S, IsFiniteSet(S), NEW f, \A x \in S : f[x] \in Nat, NEW T \in SUBSET S, NEW x \in T
  PROVE  f[x] <= SumOf(f, T)
<1>1. SumOf(f, T) = f[x] + SumOf(f, T \ {x}) /\ SumOf(f, T \ {x}) \in Nat BY SumTakesAny
<1>2. f[x] \in Nat OBVIOUS
<1> QED BY <1>1, <1>2

-----------------------------------------------------------------------------
(* The totals of the analytics *)

Fields == {"tests", "passed", "flaky", "skipped", "ms"}
Column(field) == [b \in Bookings |-> Results[b.run][field]]

\* What the analytics suppose of the runs: a finished test has one outcome.
LEMMA BookingsTyped ==
  ASSUME A!AnalyticsAssumption
  PROVE  /\ \A b \in Bookings :
              /\ Results[b.run] \in [tests : Nat, passed : Nat, flaky : Nat, skipped : Nat, ms : Nat]
              /\ Results[b.run].passed + Results[b.run].flaky + Results[b.run].skipped
                   <= Results[b.run].tests
         /\ IsFiniteSet(Bookings) /\ IsFiniteSet(ProjectIds)
<1>1. A!IsFiniteSet(EndedRuns) /\ A!IsFiniteSet(ProjectIds) BY DEF A!AnalyticsAssumption
<1>2. IsFiniteSet(EndedRuns) /\ IsFiniteSet(ProjectIds) BY <1>1, CountedAlike
<1>3. IsFiniteSet(A!Calendar)
  <2>1. LastDay \in Int /\ 0 \in Int BY DEF A!AnalyticsAssumption
  <2> QED BY <2>1, FS_Interval DEF A!Calendar
<1>4. IsFiniteSet(Bookings)
  <2> DEFINE S == (EndedRuns \X ProjectIds) \X A!Calendar
             f == [x \in S |-> [run |-> x[1][1], project |-> x[1][2], day |-> x[2], nth |-> 1]]
  <2>1. IsFiniteSet(EndedRuns \X ProjectIds) BY <1>2, FS_Product
  <2>2. IsFiniteSet(S) BY <1>3, <2>1, FS_Product
  <2>3. f \in [S -> Bookings] BY DEF Bookings
  <2>4. \A b \in Bookings : \E x \in S : f[x] = b
    <3> SUFFICES ASSUME NEW b \in Bookings PROVE \E x \in S : f[x] = b OBVIOUS
    <3> DEFINE x == <<<<b.run, b.project>>, b.day>>
    <3>1. x \in S /\ x[1][1] = b.run /\ x[1][2] = b.project /\ x[2] = b.day BY DEF Bookings
    <3>2. f[x] = b BY <3>1 DEF Bookings
    <3> QED BY <3>1, <3>2
  <2> HIDE DEF S, f
  <2>5. f \in Surjection(S, Bookings) BY <2>3, <2>4 DEF Surjection
  <2> QED BY <2>2, <2>5, FS_Surjection
<1>5. \A b \in Bookings : b.run \in EndedRuns BY DEF Bookings
<1> QED BY <1>2, <1>4, <1>5 DEF A!AnalyticsAssumption

\* What the statements sum up.
LEMMA TotalIsSum ==
  ASSUME A!AnalyticsAssumption, NEW bs \in SUBSET Bookings, NEW field
  PROVE  A!Total(bs, field) = SumOf(Column(field), bs)
<1> DEFINE f == Column(field)
           own(d, s) == IF s = {} THEN 0
                        ELSE Results[(CHOOSE x \in s : TRUE).run][field] + d[s \ {CHOOSE x \in s : TRUE}]
           c == CHOOSE d : d = [s \in SUBSET bs |-> own(d, s)]
           e == CHOOSE d : IsSum(f, d, bs)
<1>1. A!Total(bs, field) = c[bs] BY DEF A!Total, A!MapThenSumSet, A!MapThenFoldSet
<1>2. SumOf(f, bs) = e[bs] BY DEF SumOf
<1>3. IsFiniteSet(bs)
  <2>1. IsFiniteSet(Bookings) BY BookingsTyped
  <2> QED BY <2>1, FS_Subset
<1>4. ASSUME NEW d, NEW s \in SUBSET bs PROVE own(d, s) = SumStep(f, d, s)
  <2>1. CASE s = {} BY <2>1 DEF SumStep
  <2>2. CASE s # {}
    <3>1. First(s) \in Bookings BY <2>2, FirstIsOne
    <3>2. f[First(s)] = Results[First(s).run][field] BY <3>1 DEF Column
    <3>3. own(d, s) = Results[First(s).run][field] + d[s \ {First(s)}] BY <2>2 DEF First
    <3> HIDE DEF f, own
    <3> QED BY <2>2, <3>2, <3>3 DEF SumStep
  <2> QED BY <2>1, <2>2
<1> HIDE DEF f, own
<1>5. \A d : d = [s \in SUBSET bs |-> own(d, s)] <=> IsSum(f, d, bs)
  <2> SUFFICES ASSUME NEW d
               PROVE  [s \in SUBSET bs |-> own(d, s)] = [s \in SUBSET bs |-> SumStep(f, d, s)]
    BY DEF IsSum
  <2> QED BY <1>4
<1>6. \E d : IsSum(f, d, bs) BY <1>3, SumsExist
<1>7. IsSum(f, e, bs) BY <1>6
<1>8. IsSum(f, c, bs)
  <2>1. \E d : d = [s \in SUBSET bs |-> own(d, s)] BY <1>5, <1>6
  <2>2. c = [s \in SUBSET bs |-> own(c, s)] BY <2>1
  <2> QED BY <1>5, <2>2
<1> HIDE DEF c, e
<1>9. Sums(f, c, bs) /\ Sums(f, e, bs) BY <1>7, <1>8, SumSums
<1>10. c[bs] = e[bs] BY <1>3, <1>9, SumsAlike
<1> QED BY <1>1, <1>2, <1>10 DEF f

LEMMA ColumnTyped ==
  ASSUME A!AnalyticsAssumption, NEW field \in Fields
  PROVE  \A b \in Bookings : Column(field)[b] \in Nat
<1> SUFFICES ASSUME NEW b \in Bookings PROVE Results[b.run][field] \in Nat BY DEF Column
<1>1. Results[b.run] \in [tests : Nat, passed : Nat, flaky : Nat, skipped : Nat, ms : Nat] BY BookingsTyped
<1> QED BY <1>1 DEF Fields

\* The totals of bookings, and those of two sets that share none.
LEMMA TotalsAdd ==
  ASSUME A!AnalyticsAssumption, NEW field \in Fields, NEW bs \in SUBSET Bookings
  PROVE  /\ A!Total(bs, field) \in Nat
         /\ bs = {} => A!Total(bs, field) = 0
         /\ \A cs \in SUBSET Bookings :
              bs \cap cs = {} => A!Total(bs \cup cs, field) = A!Total(bs, field) + A!Total(cs, field)
<1>1. IsFiniteSet(Bookings) /\ \A b \in Bookings : Column(field)[b] \in Nat BY BookingsTyped, ColumnTyped
<1>2. \A cs \in SUBSET Bookings : A!Total(cs, field) = SumOf(Column(field), cs) BY TotalIsSum
<1>3. SumOf(Column(field), bs) \in Nat BY <1>1, SumTakesAny
<1>4. bs = {} => SumOf(Column(field), bs) = 0
  <2>1. IsFiniteSet(bs) BY <1>1, FS_Subset
  <2> QED BY <2>1, SumIsStep
<1>5. ASSUME NEW cs \in SUBSET Bookings, bs \cap cs = {}
      PROVE  A!Total(bs \cup cs, field) = A!Total(bs, field) + A!Total(cs, field)
  <2>1. SumOf(Column(field), bs \cup cs) = SumOf(Column(field), bs) + SumOf(Column(field), cs)
    BY <1>1, <1>5, SumOfBoth
  <2>2. bs \cup cs \in SUBSET Bookings OBVIOUS
  <2> QED BY <1>2, <2>1, <2>2
<1> QED BY <1>2, <1>3, <1>4, <1>5

\* No more tests have passed, were flaky or were skipped than there are.
LEMMA TotalsFit ==
  ASSUME A!AnalyticsAssumption, NEW bs \in SUBSET Bookings
  PROVE  A!Total(bs, "passed") + A!Total(bs, "flaky") + A!Total(bs, "skipped") <= A!Total(bs, "tests")
<1> DEFINE P(X) == A!Total(X, "passed")
           L(X) == A!Total(X, "flaky")
           K(X) == A!Total(X, "skipped")
           T(X) == A!Total(X, "tests")
           G == {X \in SUBSET Bookings : P(X) + L(X) + K(X) <= T(X)}
<1>1. \A X \in SUBSET Bookings : P(X) \in Nat /\ L(X) \in Nat /\ K(X) \in Nat /\ T(X) \in Nat
  BY TotalsAdd DEF Fields
<1>2. IsFiniteSet(Bookings) BY BookingsTyped
<1>3. ASSUME NEW X \in SUBSET Bookings, \A Y \in SUBSET X : Y # X => Y \in G PROVE X \in G
  <2>1. CASE X = {}
    <3>1. P(X) = 0 /\ L(X) = 0 /\ K(X) = 0 /\ T(X) = 0 BY <2>1, TotalsAdd DEF Fields
    <3> HIDE DEF P, L, K, T
    <3> QED BY <3>1
  <2>2. CASE X # {}
    <3>1. PICK b \in X : TRUE BY <2>2
    <3> DEFINE Y == X \ {b}
    <3>2. Y \in G BY <1>3
    <3>3. \A field \in Fields : A!Total(X, field) = Results[b.run][field] + A!Total(Y, field)
      <4> SUFFICES ASSUME NEW field \in Fields
                   PROVE  A!Total(X, field) = Results[b.run][field] + A!Total(Y, field)
        OBVIOUS
      <4>1. SumOf(Column(field), X) = Column(field)[b] + SumOf(Column(field), Y)
        BY <1>2, ColumnTyped, SumTakesAny
      <4>2. Column(field)[b] = Results[b.run][field] BY DEF Column
      <4>3. Y \in SUBSET Bookings OBVIOUS
      <4> QED BY <4>1, <4>2, <4>3, TotalIsSum
    <3>4. /\ P(X) = Results[b.run].passed + P(Y) /\ L(X) = Results[b.run].flaky + L(Y)
          /\ K(X) = Results[b.run].skipped + K(Y) /\ T(X) = Results[b.run].tests + T(Y)
      BY <3>3 DEF Fields
    <3>5. /\ Results[b.run] \in [tests : Nat, passed : Nat, flaky : Nat, skipped : Nat, ms : Nat]
          /\ Results[b.run].passed + Results[b.run].flaky + Results[b.run].skipped
               <= Results[b.run].tests
      BY BookingsTyped
    <3>6. P(Y) + L(Y) + K(Y) <= T(Y) /\ P(Y) \in Nat /\ L(Y) \in Nat /\ K(Y) \in Nat /\ T(Y) \in Nat
      BY <1>1, <3>2
    <3> HIDE DEF P, L, K, T, Y
    <3> QED BY <3>4, <3>5, <3>6
  <2> QED BY <2>1, <2>2
<1> HIDE DEF G
<1>4. bs \in G BY <1>2, <1>3, BySubsets
<1> QED BY <1>4 DEF G

-----------------------------------------------------------------------------
(* Rates and scores *)

LEMMA Quotient ==
  ASSUME NEW x \in Int, NEW d \in Nat \ {0}, NEW k \in Int
  PROVE  /\ x \div d \in Int
         /\ x \div d <= k <=> x < d * (k + 1)
         /\ k <= x \div d <=> d * k <= x
<1> DEFINE q == x \div d
<1>1. q \in Int /\ d * q <= x /\ x < d * (q + 1) OBVIOUS
<1> HIDE DEF q
<1>2. d \in Int /\ d > 0 OBVIOUS
<1>3. ASSUME q <= k PROVE x < d * (k + 1)
  <2>1. d * (q + 1) <= d * (k + 1) BY <1>1, <1>2, <1>3
  <2> QED BY <1>1, <2>1
<1>4. ASSUME x < d * (k + 1), q > k PROVE FALSE
  <2>1. d * (k + 1) <= d * q BY <1>1, <1>2, <1>4
  <2> QED BY <1>1, <1>4, <2>1
<1>5. ASSUME k <= q PROVE d * k <= x
  <2>1. d * k <= d * q BY <1>1, <1>2, <1>5
  <2> QED BY <1>1, <2>1
<1>6. ASSUME d * k <= x, k > q PROVE FALSE
  <2>1. d * (q + 1) <= d * k BY <1>1, <1>2, <1>6
  <2> QED BY <1>1, <1>6, <2>1
<1>7. q <= k \/ q > k BY <1>1
<1>8. k <= q \/ k > q BY <1>1
<1> QED BY <1>1, <1>3, <1>4, <1>5, <1>6, <1>7, <1>8 DEF q

\* The order of quotients is that of what is divided.
LEMMA QuotientsRise ==
  ASSUME NEW x \in Int, NEW y \in Int, x <= y, NEW d \in Nat \ {0}
  PROVE  x \div d <= y \div d
<1>1. x \div d \in Int /\ y \div d \in Int BY Quotient
<1>2. d * (x \div d) <= x BY <1>1, Quotient
<1>3. d * (x \div d) \in Int BY <1>1
<1>4. d * (x \div d) <= y BY <1>2, <1>3
<1> QED BY <1>1, <1>4, Quotient

\* Hundredths of a percent.
Share(x) == x \in Nat /\ x <= 10000

LEMMA RateIsShare ==
  ASSUME NEW n \in Nat, NEW of \in Nat, n <= of
  PROVE  Share(A!Rate(n, of))
<1>1. CASE of = 0 BY <1>1 DEF A!Rate, Share
<1>2. CASE of # 0
  <2> DEFINE x == 2 * 10000 * n + of
             d == 2 * of
  <2>1. x \in Int /\ d \in Nat \ {0} BY <1>2
  <2>2. d * 0 <= x /\ x < d * (10000 + 1) BY <1>2
  <2>3. A!Rate(n, of) = x \div d BY <1>2 DEF A!Rate
  <2> HIDE DEF x, d
  <2>4. 0 <= x \div d /\ x \div d <= 10000 /\ x \div d \in Int BY <2>1, <2>2, Quotient
  <2> QED BY <2>3, <2>4 DEF Share
<1> QED BY <1>1, <1>2

LEMMA RatesRise ==
  ASSUME NEW n \in Nat, NEW m \in Nat, n <= m, NEW of \in Nat
  PROVE  A!Rate(n, of) <= A!Rate(m, of)
<1>1. CASE of = 0 BY <1>1 DEF A!Rate
<1>2. CASE of # 0
  <2>1. 2 * 10000 * n + of \in Int /\ 2 * 10000 * m + of \in Int /\ 2 * of \in Nat \ {0} BY <1>2
  <2>2. 2 * 10000 * n + of <= 2 * 10000 * m + of OBVIOUS
  <2>3. (2 * 10000 * n + of) \div (2 * of) <= (2 * 10000 * m + of) \div (2 * of)
    BY <2>1, <2>2, QuotientsRise
  <2> QED BY <1>2, <2>3 DEF A!Rate
<1> QED BY <1>1, <1>2

LEMMA MaxOfTwo == ASSUME NEW x \in Int PROVE A!Max({0, x}) = IF x > 0 THEN x ELSE 0
<1> DEFINE m == IF x > 0 THEN x ELSE 0
<1>1. m \in {0, x} /\ \A y \in {0, x} : m >= y OBVIOUS
<1>2. \A z \in {0, x} : (\A y \in {0, x} : z >= y) => z = m OBVIOUS
<1> HIDE DEF m
<1>3. A!Max({0, x}) = m BY <1>1, <1>2 DEF A!Max
<1> QED BY <1>3 DEF m

\* The score of the durations.
LEMMA DurationInRange ==
  ASSUME NEW ms \in Nat, NEW tm \in Nat, NEW n \in Nat
  PROVE  Share(A!DurationScore(ms, tm, n))
<1>1. CASE n < 3 \/ tm = 0 \/ 4 * ms <= tm BY <1>1 DEF A!DurationScore, Share
<1>2. CASE ~(n < 3 \/ tm = 0) /\ 4 * ms > tm
  <2> DEFINE q == (8000 * ms) \div tm
  <2>1. tm * 2000 <= 8000 * ms /\ 8000 * ms \in Int /\ tm \in Nat \ {0} BY <1>2
  <2>2. q \in Int /\ 2000 <= q BY <2>1, Quotient
  <2>3. A!DurationScore(ms, tm, n) = A!Max({0, 12000 - q}) BY <1>2 DEF A!DurationScore
  <2> HIDE DEF q
  <2>4. 12000 - q \in Int BY <2>2
  <2>5. A!DurationScore(ms, tm, n) = IF 12000 - q > 0 THEN 12000 - q ELSE 0
    BY <2>3, <2>4, MaxOfTwo
  <2> QED BY <2>2, <2>5 DEF Share
<1> QED BY <1>1, <1>2

\* The parts of the score.
Clean(p, f)     == A!Max({0, p - f})
Square(f)       == ((10000 - f) * (10000 - f)) \div 10000
Raw(c, s, k, d) == 45 * c + 30 * s + 15 * (10000 - k) + 10 * d
Held(r, k)      == IF k > 8000 THEN (r \div 2000) * (10000 - k) ELSE r

LEMMA CleanRises ==
  ASSUME NEW p, NEW f, NEW q, NEW g, Share(p), Share(f), Share(q), Share(g), p <= q, g <= f
  PROVE  Share(Clean(p, f)) /\ Clean(p, f) <= Clean(q, g)
<1>1. p - f \in Int /\ q - g \in Int /\ p - f <= q - g BY DEF Share
<1>2. /\ Clean(p, f) = IF p - f > 0 THEN p - f ELSE 0
      /\ Clean(q, g) = IF q - g > 0 THEN q - g ELSE 0
  BY <1>1, MaxOfTwo DEF Clean
<1> QED BY <1>1, <1>2 DEF Share

LEMMA SquareRises ==
  ASSUME NEW f, NEW g, Share(f), Share(g), g <= f
  PROVE  Share(Square(f)) /\ Square(f) <= Square(g)
<1> DEFINE a == 10000 - f
           b == 10000 - g
<1>1. a \in Nat /\ b \in Nat /\ a <= b /\ a <= 10000 BY DEF Share
<1> HIDE DEF a, b
<1>2. a * a <= b * b /\ a * a \in Int /\ b * b \in Int /\ 0 <= a * a /\ a * a <= 10000 * 10000
  <2>1. a * a <= a * b /\ a * b <= b * b /\ a * b \in Int BY <1>1
  <2>2. a * a <= a * 10000 BY <1>1
  <2> QED BY <1>1, <2>1, <2>2
<1>3. (a * a) \div 10000 <= (b * b) \div 10000 BY <1>2, QuotientsRise
<1>4. 10000 * 0 <= a * a /\ a * a < 10000 * (10000 + 1) BY <1>2
<1>5. (a * a) \div 10000 \in Int /\ 0 <= (a * a) \div 10000 /\ (a * a) \div 10000 <= 10000
  BY <1>2, <1>4, Quotient
<1> QED BY <1>3, <1>5 DEF a, b, Square, Share

LEMMA HeldRises ==
  ASSUME NEW r \in Nat, NEW u \in Nat, r <= u, r <= 1000000, NEW k, Share(k)
  PROVE  Held(r, k) \in Nat /\ Held(r, k) <= 1000000 /\ Held(u, k) \in Nat /\ Held(r, k) <= Held(u, k)
<1>1. CASE k > 8000
  <2> DEFINE h == r \div 2000
             i == u \div 2000
             j == 10000 - k
  <2>1. h <= i BY QuotientsRise
  <2>2. 2000 * 0 <= r /\ r < 2000 * (500 + 1) /\ 2000 * 0 <= u OBVIOUS
  <2>3. h \in Int /\ 0 <= h /\ h <= 500 /\ i \in Int /\ 0 <= i BY <2>2, Quotient
  <2>4. j \in Nat /\ j <= 2000 BY <1>1 DEF Share
  <2>5. Held(r, k) = h * j /\ Held(u, k) = i * j BY <1>1 DEF Held
  <2> HIDE DEF h, i, j
  <2>6. h * j <= i * j /\ h * j \in Nat /\ i * j \in Nat BY <2>1, <2>3, <2>4
  <2>7. h * j <= 500 * j /\ 500 * j <= 500 * 2000 BY <2>3, <2>4
  <2> QED BY <2>4, <2>5, <2>6, <2>7
<1>2. CASE ~(k > 8000) BY <1>2 DEF Held
<1> QED BY <1>1, <1>2

\* The score is in its range; it rises with what passes, and with what is no longer flaky.
LEMMA HealthRises ==
  ASSUME NEW p, NEW f, NEW q, NEW g, NEW k, NEW d,
         Share(p), Share(f), Share(q), Share(g), Share(k), Share(d), p <= q, g <= f
  PROVE  /\ A!HealthScore(p, f, k, d) \in Nat /\ A!HealthScore(p, f, k, d) <= 1000
         /\ A!HealthScore(p, f, k, d) <= A!HealthScore(q, g, k, d)
<1> DEFINE r == Raw(Clean(p, f), Square(f), k, d)
           u == Raw(Clean(q, g), Square(g), k, d)
<1>1. /\ A!HealthScore(p, f, k, d) = (Held(r, k) + 500) \div 1000
      /\ A!HealthScore(q, g, k, d) = (Held(u, k) + 500) \div 1000
  BY DEF A!HealthScore, Held, Raw, Clean, Square
<1>2. /\ Share(Clean(p, f)) /\ Clean(p, f) <= Clean(q, g) /\ Share(Clean(q, g))
      /\ Share(Square(f)) /\ Square(f) <= Square(g) /\ Share(Square(g))
  <2>1. q <= q /\ g <= g BY DEF Share
  <2> QED BY <2>1, CleanRises, SquareRises
<1>3. r \in Nat /\ u \in Nat /\ r <= u /\ r <= 1000000 BY <1>2 DEF Raw, Share
<1> HIDE DEF r, u
<1>4. Held(r, k) \in Nat /\ Held(r, k) <= 1000000 /\ Held(u, k) \in Nat /\ Held(r, k) <= Held(u, k)
  BY <1>3, HeldRises
<1> DEFINE x == Held(r, k) + 500
           y == Held(u, k) + 500
<1>5. x \in Int /\ y \in Int /\ x <= y /\ 1000 * 0 <= x /\ x < 1000 * (1000 + 1) BY <1>4
<1> HIDE DEF x, y
<1>6. x \div 1000 <= y \div 1000 BY <1>5, QuotientsRise
<1>7. x \div 1000 \in Int /\ 0 <= x \div 1000 /\ x \div 1000 <= 1000 BY <1>5, Quotient
<1> QED BY <1>1, <1>6, <1>7 DEF x, y

-----------------------------------------------------------------------------
(* Medians and averages *)

\* A set of natural numbers has a least one.
LEMMA LeastNatural ==
  ASSUME NEW S \in SUBSET Nat, S # {}
  PROVE  \E n \in S : \A m \in S : n <= m
<1> DEFINE J == {0 .. n : n \in S}
<1>1. J \subseteq FiniteSubsetsOf(Nat)
  <2>1. \A n \in S : 0 .. n \in SUBSET Nat /\ IsFiniteSet(0 .. n) BY FS_Interval
  <2> QED BY <2>1 DEF FiniteSubsetsOf
<1>2. IsWellFoundedOn(StrictSubsetOrdering(Nat), FiniteSubsetsOf(Nat))
  BY FS_StrictSubsetOrderingWellFounded
<1>3. J # {} OBVIOUS
<1> HIDE DEF J
<1>4. PICK X \in J : \A Y \in J : <<Y, X>> \notin StrictSubsetOrdering(Nat)
  BY <1>1, <1>2, <1>3, WFMin
<1>5. PICK n \in S : X = 0 .. n BY DEF J
<1>6. ASSUME NEW m \in S, m < n PROVE FALSE
  <2>1. 0 .. m \in J BY DEF J
  <2>2. 0 .. m \subseteq 0 .. n /\ n \in 0 .. n /\ n \notin 0 .. m BY <1>6
  <2>3. 0 .. m \in SUBSET Nat /\ 0 .. n \in SUBSET Nat OBVIOUS
  <2> QED BY <1>4, <1>5, <2>1, <2>2, <2>3 DEF StrictSubsetOrdering
<1> QED BY <1>6

\* A set of natural numbers with a bound has a least and a greatest.
LEMMA Extremes ==
  ASSUME NEW S \in SUBSET Nat, S # {}, NEW b \in Nat, \A x \in S : x <= b
  PROVE  /\ A!Min(S) \in S /\ \A x \in S : A!Min(S) <= x
         /\ A!Max(S) \in S /\ \A x \in S : x <= A!Max(S)
<1>1. A!Min(S) \in S /\ \A x \in S : A!Min(S) <= x
  <2>1. \E n \in S : \A m \in S : n <= m BY LeastNatural
  <2> QED BY <2>1 DEF A!Min
<1>2. \E n \in S : \A m \in S : n >= m
  <2> DEFINE Rest == {b - x : x \in S}
  <2>1. Rest \in SUBSET Nat /\ Rest # {}
    <3>1. \A x \in S : b - x \in Nat
      <4> SUFFICES ASSUME NEW x \in S PROVE b - x \in Nat OBVIOUS
      <4>1. x \in Nat /\ x <= b OBVIOUS
      <4> QED BY <4>1
    <3>2. PICK x \in S : TRUE OBVIOUS
    <3>3. b - x \in Rest OBVIOUS
    <3> QED BY <3>1, <3>3
  <2> HIDE DEF Rest
  <2>2. PICK r \in Rest : \A m \in Rest : r <= m BY <2>1, LeastNatural
  <2>3. PICK n \in S : r = b - n BY DEF Rest
  <2>4. ASSUME NEW m \in S PROVE n >= m
    <3>1. b - m \in Rest BY DEF Rest
    <3>2. b - n <= b - m BY <2>2, <2>3, <3>1
    <3>3. m \in Nat /\ n \in Nat OBVIOUS
    <3> QED BY <3>2, <3>3
  <2> QED BY <2>4
<1>3. A!Max(S) \in S /\ \A x \in S : A!Max(S) >= x BY <1>2 DEF A!Max
<1>4. \A x \in S : x <= A!Max(S) BY <1>3
<1> QED BY <1>1, <1>3, <1>4

\* There is a k-th of n numbers.
LEMMA NthIsThere ==
  ASSUME NEW S, IsFiniteSet(S), NEW ms, \A p \in S : ms[p] \in Nat,
         NEW k \in Nat \ {0}, k <= Cardinality(S)
  PROVE  \E x \in {ms[p] : p \in S} : /\ Cardinality({p \in S : ms[p] < x}) < k
                                      /\ k <= Cardinality({p \in S : ms[p] <= x})
<1> DEFINE upTo(x)  == {p \in S : ms[p] <= x}
           below(x) == {p \in S : ms[p] < x}
           W == {m \in Nat : k <= Cardinality(upTo(m))}
           b == SumOf(ms, S)
<1>0. \A x : /\ IsFiniteSet(upTo(x)) /\ IsFiniteSet(below(x))
             /\ Cardinality(upTo(x)) \in Nat /\ Cardinality(below(x)) \in Nat
  BY FS_Subset, FS_CardinalityType
<1>1. b \in Nat BY SumTakesAny
<1>2. upTo(b) = S
  <2>1. \A p \in S : ms[p] <= b BY SumHasEach
  <2> HIDE DEF b
  <2> QED BY <2>1
<1>3. W \in SUBSET Nat /\ W # {}
  <2> HIDE DEF b, upTo
  <2> QED BY <1>1, <1>2
<1> HIDE DEF W
<1>4. PICK m \in W : \A i \in W : m <= i BY <1>3, LeastNatural
<1>5. m \in Nat /\ k <= Cardinality(upTo(m)) BY <1>3 DEF W
<1>6. Cardinality(below(m)) < k
  <2>1. CASE m = 0
    <3>1. below(m) = {} BY <2>1
    <3>2. Cardinality(below(m)) = 0 BY <3>1, FS_EmptySet
    <3> QED BY <3>2
  <2>2. CASE m # 0
    <3>1. m - 1 \in Nat BY <1>5, <2>2
    <3>2. below(m) = upTo(m - 1) BY <1>5
    <3>3. m - 1 \notin W BY <1>4, <1>5, <3>1
    <3>4. ~(k <= Cardinality(upTo(m - 1))) BY <3>1, <3>3 DEF W
    <3> HIDE DEF upTo, below
    <3> QED BY <1>0, <3>2, <3>4
  <2> QED BY <2>1, <2>2
<1>7. m \in {ms[p] : p \in S}
  <2>1. upTo(m) # below(m)
    <3> HIDE DEF upTo, below
    <3> QED BY <1>0, <1>5, <1>6
  <2>2. below(m) \subseteq upTo(m)
    <3> SUFFICES ASSUME NEW p \in S, ms[p] < m PROVE ms[p] <= m OBVIOUS
    <3>1. ms[p] \in Nat /\ m \in Nat BY <1>5
    <3> QED BY <3>1
  <2>3. PICK p \in S : p \in upTo(m) /\ p \notin below(m) BY <2>1, <2>2
  <2>4. ms[p] <= m /\ ~(ms[p] < m) /\ ms[p] \in Nat BY <2>3
  <2>5. ms[p] = m BY <1>5, <2>4
  <2> QED BY <2>5
<1> QED BY <1>5, <1>6, <1>7

LEMMA MedianIsNatural ==
  ASSUME NEW ms, IsFiniteSet(DOMAIN ms), \A p \in DOMAIN ms : ms[p] \in Nat
  PROVE  A!TwiceMedian(ms) \in Nat
<1> DEFINE S == DOMAIN ms
           n == Cardinality(S)
           nth(k) == CHOOSE x \in {ms[p] : p \in S} : /\ A!Cardinality({p \in S : ms[p] < x}) < k
                                                      /\ k <= A!Cardinality({p \in S : ms[p] <= x})
<1>1. A!TwiceMedian(ms) = IF n = 0 THEN 0 ELSE nth((n + 1) \div 2) + nth(n \div 2 + 1)
  <2>1. A!Cardinality(DOMAIN ms) = n BY CountedAlike
  <2>2. A!TwiceMedian(ms) = IF A!Cardinality(DOMAIN ms) = 0 THEN 0
          ELSE nth((A!Cardinality(DOMAIN ms) + 1) \div 2) + nth(A!Cardinality(DOMAIN ms) \div 2 + 1)
    BY DEF A!TwiceMedian
  <2> HIDE DEF n, nth, S
  <2> QED BY <2>1, <2>2
<1>2. ASSUME NEW k \in Nat \ {0}, k <= n PROVE nth(k) \in Nat
  <2>1. \E x \in {ms[p] : p \in S} :
          Cardinality({p \in S : ms[p] < x}) < k /\ k <= Cardinality({p \in S : ms[p] <= x})
    BY SMTT(60), <1>2, NthIsThere
  <2>2. nth(k) \in {ms[p] : p \in S} BY <2>1, CountedAlike
  <2> HIDE DEF nth
  <2> QED BY <2>2
<1>3. n \in Nat BY FS_CardinalityType
<1> HIDE DEF nth, n
<1>4. CASE n = 0 BY <1>1, <1>4
<1>5. CASE n # 0
  <2>1. (n + 1) \div 2 \in Nat \ {0} /\ (n + 1) \div 2 <= n BY <1>3, <1>5
  <2>2. n \div 2 + 1 \in Nat \ {0} /\ n \div 2 + 1 <= n BY <1>3, <1>5
  <2>3. nth((n + 1) \div 2) \in Nat /\ nth(n \div 2 + 1) \in Nat BY <1>2, <2>1, <2>2
  <2> QED BY <1>1, <1>5, <2>3
<1> QED BY <1>4, <1>5

\* The rate of n of t lies between two others.
Within(n, t, m, u) ==
  IF t = 0 THEN n = 0 /\ m = 0 ELSE 2 * (t * m) <= 20000 * n + t /\ 20000 * n + t < 2 * (t * (u + 1))

LEMMA WithinIsBetween ==
  ASSUME NEW n \in Nat, NEW t \in Nat, n <= t, NEW m \in Nat, NEW u \in Nat
  PROVE  Within(n, t, m, u) <=> m <= A!Rate(n, t) /\ A!Rate(n, t) <= u
<1>1. CASE t = 0 BY <1>1 DEF Within, A!Rate
<1>2. CASE t # 0
  <2> DEFINE x == 2 * 10000 * n + t
             d == 2 * t
  <2>1. A!Rate(n, t) = x \div d BY <1>2 DEF A!Rate
  <2>2. x \in Int /\ d \in Nat \ {0} /\ x = 20000 * n + t BY <1>2
  <2>3. d * m = 2 * (t * m) /\ d * (u + 1) = 2 * (t * (u + 1)) OBVIOUS
  <2> HIDE DEF x, d
  <2>4. /\ x \div d <= u <=> x < d * (u + 1)
        /\ m <= x \div d <=> d * m <= x
    BY <2>2, Quotient
  <2> QED BY <1>2, <2>1, <2>2, <2>3, <2>4 DEF Within
<1> QED BY <1>1, <1>2

LEMMA WithinAdds ==
  ASSUME NEW n \in Nat, NEW t \in Nat, NEW i \in Nat, NEW j \in Nat, NEW m \in Nat, NEW u \in Nat,
         Within(n, t, m, u), Within(i, j, m, u)
  PROVE  Within(n + i, t + j, m, u)
<1>1. /\ (t + j) * m = t * m + j * m /\ (t + j) * (u + 1) = t * (u + 1) + j * (u + 1)
      /\ t * m \in Nat /\ j * m \in Nat /\ t * (u + 1) \in Nat /\ j * (u + 1) \in Nat
  OBVIOUS
<1>2. (t = 0 => t * m = 0 /\ t * (u + 1) = 0) /\ (j = 0 => j * m = 0 /\ j * (u + 1) = 0) OBVIOUS
<1> DEFINE a == t * m
           b == j * m
           c == t * (u + 1)
           e == j * (u + 1)
<1>3. CASE t = 0 BY <1>3 DEF Within
<1>4. CASE j = 0 BY <1>4 DEF Within
<1>5. CASE t # 0 /\ j # 0
  <2>1. /\ 2 * a <= 20000 * n + t /\ 20000 * n + t < 2 * c
        /\ 2 * b <= 20000 * i + j /\ 20000 * i + j < 2 * e
    BY <1>5 DEF Within
  <2>2. a \in Nat /\ b \in Nat /\ c \in Nat /\ e \in Nat OBVIOUS
  <2>3. t + j # 0 BY <1>5
  <2> HIDE DEF a, b, c, e
  <2>4. /\ 2 * (a + b) <= 20000 * (n + i) + (t + j)
        /\ 20000 * (n + i) + (t + j) < 2 * (c + e)
    BY <2>1, <2>2
  <2> QED BY <1>1, <2>3, <2>4 DEF Within, a, b, c, e
<1> QED BY <1>3, <1>4, <1>5

\* What sets of runs that share none have together lies between what each of them has.
LEMMA RateLiesBetween ==
  ASSUME A!AnalyticsAssumption, NEW field \in {"passed", "flaky"},
         NEW P, IsFiniteSet(P), P # {}, NEW C, \A p \in P : C[p] \in SUBSET Bookings,
         \A p, q \in P : p # q => C[p] \cap C[q] = {},
         NEW m \in Nat, NEW u \in Nat,
         \A p \in P : /\ m <= A!Rate(A!Total(C[p], field), A!Total(C[p], "tests"))
                      /\ A!Rate(A!Total(C[p], field), A!Total(C[p], "tests")) <= u
  PROVE  LET bs == UNION {C[p] : p \in P}
         IN  /\ m <= A!Rate(A!Total(bs, field), A!Total(bs, "tests"))
             /\ A!Rate(A!Total(bs, field), A!Total(bs, "tests")) <= u
<1> DEFINE Some(X) == A!Total(X, field)
           T(X) == A!Total(X, "tests")
           All(Q) == UNION {C[p] : p \in Q}
           G == {Q \in SUBSET P : Q # {} => Within(Some(All(Q)), T(All(Q)), m, u)}
<1>1. \A X \in SUBSET Bookings : Some(X) \in Nat /\ T(X) \in Nat /\ Some(X) <= T(X)
  <2> SUFFICES ASSUME NEW X \in SUBSET Bookings PROVE Some(X) \in Nat /\ T(X) \in Nat /\ Some(X) <= T(X)
    OBVIOUS
  <2>1. /\ A!Total(X, "passed") \in Nat /\ A!Total(X, "flaky") \in Nat
        /\ A!Total(X, "skipped") \in Nat /\ A!Total(X, "tests") \in Nat
    BY TotalsAdd DEF Fields
  <2>2. A!Total(X, "passed") + A!Total(X, "flaky") + A!Total(X, "skipped") <= A!Total(X, "tests")
    BY TotalsFit
  <2> QED BY <2>1, <2>2
<1>2. \A Q \in SUBSET P : All(Q) \in SUBSET Bookings OBVIOUS
<1>3. \A p \in P : Within(Some(C[p]), T(C[p]), m, u) BY <1>1, WithinIsBetween
<1>4. ASSUME NEW X \in SUBSET P, \A Y \in SUBSET X : Y # X => Y \in G PROVE X \in G
  <2> SUFFICES ASSUME X # {} PROVE Within(Some(All(X)), T(All(X)), m, u) OBVIOUS
  <2>1. PICK p \in X : TRUE OBVIOUS
  <2> DEFINE Y == X \ {p}
  <2>2. CASE Y = {}
    <3>1. All(X) = C[p] BY <2>2
    <3> QED BY <1>3, <3>1
  <2>3. CASE Y # {}
    <3>1. Y \in G BY <1>4
    <3>2. Within(Some(All(Y)), T(All(Y)), m, u) BY <2>3, <3>1
    <3>3. All(X) = C[p] \cup All(Y) /\ C[p] \cap All(Y) = {} OBVIOUS
    <3>4. All(Y) \in SUBSET Bookings /\ C[p] \in SUBSET Bookings OBVIOUS
    <3>5. field \in Fields /\ "tests" \in Fields BY DEF Fields
    <3> HIDE DEF All, Y
    <3>6. Some(All(X)) = Some(C[p]) + Some(All(Y)) /\ T(All(X)) = T(C[p]) + T(All(Y)) BY <3>3, <3>4, <3>5, TotalsAdd
    <3>7. /\ Some(C[p]) \in Nat /\ Some(All(Y)) \in Nat /\ T(C[p]) \in Nat /\ T(All(Y)) \in Nat BY <1>1, <3>4
    <3>8. Within(Some(C[p]), T(C[p]), m, u) BY <1>3
    <3> HIDE DEF Some, T
    <3> QED BY SMTT(60), <3>2, <3>6, <3>7, <3>8, WithinAdds
  <2> QED BY <2>2, <2>3
<1> HIDE DEF G
<1>5. P \in G BY <1>4, BySubsets
<1>6. Within(Some(All(P)), T(All(P)), m, u) BY <1>5 DEF G
<1>7. /\ Some(All(P)) \in Nat /\ T(All(P)) \in Nat /\ Some(All(P)) <= T(All(P)) BY <1>1, <1>2
<1> HIDE DEF Some, T
<1>8. m <= A!Rate(Some(All(P)), T(All(P))) /\ A!Rate(Some(All(P)), T(All(P))) <= u BY <1>6, <1>7, WithinIsBetween
<1> QED BY <1>8 DEF Some, T

-----------------------------------------------------------------------------
(* What the comparison tells *)

\* What a score is made of.
LEMMA ScoresFit ==
  ASSUME A!AnalyticsAssumption, NEW bs \in SUBSET Bookings, NEW d, Share(d)
  PROVE  LET tests   == A!Total(bs, "tests")
             passed  == A!Total(bs, "passed")
             flaky   == A!Total(bs, "flaky")
             skipped == A!Total(bs, "skipped")
             score   == A!ScoreOf(tests, passed, flaky, skipped, d)
         IN  /\ score \in Nat /\ score <= 1000
             /\ A!Failed(bs) > 0 => score <= A!ScoreOf(tests, passed + 1, flaky, skipped, d)
             /\ flaky > 0 => score <= A!ScoreOf(tests, passed + 1, flaky - 1, skipped, d)
<1> DEFINE t == A!Total(bs, "tests")
           p == A!Total(bs, "passed")
           f == A!Total(bs, "flaky")
           k == A!Total(bs, "skipped")
<1>1. t \in Nat /\ p \in Nat /\ f \in Nat /\ k \in Nat BY TotalsAdd DEF Fields
<1>2. p + f + k <= t BY TotalsFit
<1>3. A!Failed(bs) = t - p - f - k BY DEF A!Failed
<1> HIDE DEF t, p, f, k
<1>4. ASSUME NEW q \in Nat, NEW g \in Nat, q <= t, p <= q, g <= f
      PROVE  /\ A!ScoreOf(t, p, f, k, d) \in Nat /\ A!ScoreOf(t, p, f, k, d) <= 1000
             /\ A!ScoreOf(t, p, f, k, d) <= A!ScoreOf(t, q, g, k, d)
  <2>1. p <= t /\ f <= t /\ k <= t /\ g <= t BY <1>1, <1>2, <1>4
  <2>2. /\ Share(A!Rate(p, t)) /\ Share(A!Rate(f, t)) /\ Share(A!Rate(k, t))
        /\ Share(A!Rate(q, t)) /\ Share(A!Rate(g, t))
    BY <1>1, <1>4, <2>1, RateIsShare
  <2>3. A!Rate(p, t) <= A!Rate(q, t) /\ A!Rate(g, t) <= A!Rate(f, t) BY <1>1, <1>4, RatesRise
  <2> QED BY <2>2, <2>3, HealthRises DEF A!ScoreOf
<1>5. A!ScoreOf(t, p, f, k, d) \in Nat /\ A!ScoreOf(t, p, f, k, d) <= 1000
  <2>1. p <= t /\ p <= p /\ f <= f BY <1>1, <1>2
  <2> QED BY <1>1, <1>4, <2>1
<1>6. ASSUME A!Failed(bs) > 0 PROVE A!ScoreOf(t, p, f, k, d) <= A!ScoreOf(t, p + 1, f, k, d)
  <2>1. p + 1 \in Nat /\ p + 1 <= t /\ p <= p + 1 /\ f <= f BY <1>1, <1>2, <1>3, <1>6
  <2> QED BY <1>1, <1>4, <2>1
<1>7. ASSUME f > 0 PROVE A!ScoreOf(t, p, f, k, d) <= A!ScoreOf(t, p + 1, f - 1, k, d)
  <2>1. p + 1 \in Nat /\ p + 1 <= t /\ p <= p + 1 /\ f - 1 \in Nat /\ f - 1 <= f
    BY <1>1, <1>2, <1>7
  <2> QED BY <1>1, <1>4, <2>1
<1> QED BY <1>5, <1>6, <1>7 DEF t, p, f, k

\* The projects that are compared have bookings, and each its own.
LEMMA ProjectsAreApart ==
  ASSUME A!AnalyticsAssumption, AnalyticsInv, comparison.step = "done"
  PROVE  /\ IsFiniteSet(DOMAIN comparison.current)
         /\ \A p \in DOMAIN comparison.current :
              comparison.current[p] \in SUBSET Bookings /\ comparison.current[p] # {}
         /\ \A p, q \in DOMAIN comparison.current :
              p # q => comparison.current[p] \cap comparison.current[q] = {}
<1>1. \A p \in DOMAIN comparison.current :
        /\ p \in A!Asked /\ comparison.current[p] # {}
        /\ comparison.current[p] \subseteq A!Summed({p}, A!CurrentDays(comparison.clock))
  BY DEF AnalyticsInv, ComparisonRight
<1>2. A!Asked \subseteq ProjectIds /\ IsFiniteSet(ProjectIds)
  BY AskedAreThere, BookingsTyped DEF AnalyticsInv
<1>3. IsFiniteSet(DOMAIN comparison.current)
  <2>1. DOMAIN comparison.current \in SUBSET ProjectIds BY <1>1, <1>2
  <2> QED BY <1>2, <2>1, FS_Subset
<1>4. \A p \in DOMAIN comparison.current : \A b \in comparison.current[p] :
        b \in Bookings /\ b.project = p
  <2>1. daily \subseteq Bookings BY BookedOnce DEF AnalyticsInv, A!RowsCountOnce
  <2>2. \A p, ds : \A b \in A!Summed({p}, ds) : b \in daily /\ b.project = p
    BY DEF A!Summed
  <2> QED BY <1>1, <2>1, <2>2
<1>5. \A p, q \in DOMAIN comparison.current :
        p # q => comparison.current[p] \cap comparison.current[q] = {}
  BY <1>4
<1> QED BY <1>1, <1>3, <1>4, <1>5

LEMMA AverageIsNatural ==
  ASSUME A!AnalyticsAssumption, NEW bs \in SUBSET Bookings, bs # {}
  PROVE  A!AverageMs(bs) \in Nat /\ A!Cardinality(bs) \in Nat \ {0}
<1>1. IsFiniteSet(bs) BY BookingsTyped, FS_Subset
<1>2. A!Cardinality(bs) \in Nat \ {0}
  <2>1. Cardinality(bs) \in Nat /\ Cardinality(bs) # 0 BY <1>1, FS_CardinalityType, FS_EmptySet
  <2> QED BY <2>1, CountedAlike
<1>3. A!Total(bs, "ms") \in Nat BY TotalsAdd DEF Fields
<1>4. \A x \in Nat, n \in Nat \ {0} : x \div n \in Nat
  <2> SUFFICES ASSUME NEW x \in Nat, NEW n \in Nat \ {0} PROVE x \div n \in Nat OBVIOUS
  <2>1. n * 0 <= x OBVIOUS
  <2>2. x \div n \in Int /\ 0 <= x \div n BY <2>1, Quotient
  <2> QED BY <2>2
<1> QED BY <1>2, <1>3, <1>4 DEF A!AverageMs

\* The durations of the projects, and the median of them.
LEMMA DurationsTyped ==
  ASSUME A!AnalyticsAssumption, AnalyticsInv, comparison.step = "done"
  PROVE  LET ms == [x \in DOMAIN comparison.current |-> A!AverageMs(comparison.current[x])]
         IN  /\ \A p \in DOMAIN comparison.current : ms[p] \in Nat
             /\ A!TwiceMedian(ms) \in Nat /\ A!Cardinality(DOMAIN ms) \in Nat
<1> DEFINE S == DOMAIN comparison.current
           ms == [x \in S |-> A!AverageMs(comparison.current[x])]
<1>1. \A p \in S : ms[p] \in Nat BY ProjectsAreApart, AverageIsNatural
<1>2. DOMAIN ms = S /\ IsFiniteSet(S) BY ProjectsAreApart
<1>3. A!Cardinality(S) \in Nat BY <1>2, FS_CardinalityType, CountedAlike
<1> HIDE DEF ms
<1>4. A!TwiceMedian(ms) \in Nat BY <1>1, <1>2, MedianIsNatural
<1> QED BY <1>1, <1>2, <1>3, <1>4 DEF ms

LEMMA ScoresRise ==
  ASSUME A!AnalyticsAssumption, AnalyticsInv PROVE A!ScoreRises
<1> SUFFICES ASSUME comparison.step = "done", NEW p \in DOMAIN comparison.current
             PROVE  /\ A!Score(p, 0, 0) \in 0 .. 1000
                    /\ A!Failed(comparison.current[p]) > 0 => A!Score(p, 0, 0) <= A!Score(p, 1, 0)
                    /\ A!Total(comparison.current[p], "flaky") > 0 =>
                         A!Score(p, 0, 0) <= A!Score(p, 1, -1)
  BY Zenon DEF A!ScoreRises
<1> DEFINE bs == comparison.current[p]
           ms == [x \in DOMAIN comparison.current |-> A!AverageMs(comparison.current[x])]
           d == A!DurationScore(ms[p], A!TwiceMedian(ms), A!Cardinality(DOMAIN ms))
           t == A!Total(bs, "tests")
           o == A!Total(bs, "passed")
           f == A!Total(bs, "flaky")
           k == A!Total(bs, "skipped")
<1>1. bs \in SUBSET Bookings BY ProjectsAreApart
<1>2. ms[p] \in Nat /\ A!TwiceMedian(ms) \in Nat /\ A!Cardinality(DOMAIN ms) \in Nat
  BY DurationsTyped
<1>3. \A i, j : A!Score(p, i, j) = A!ScoreOf(t, o + i, f + j, k, d) BY DEF A!Score
<1> HIDE DEF ms
<1>4. Share(d) BY <1>2, DurationInRange
<1>5. o \in Nat /\ f \in Nat BY <1>1, TotalsAdd DEF Fields
<1> HIDE DEF d, bs
<1>6. /\ A!ScoreOf(t, o, f, k, d) \in Nat /\ A!ScoreOf(t, o, f, k, d) <= 1000
      /\ A!Failed(bs) > 0 => A!ScoreOf(t, o, f, k, d) <= A!ScoreOf(t, o + 1, f, k, d)
      /\ f > 0 => A!ScoreOf(t, o, f, k, d) <= A!ScoreOf(t, o + 1, f - 1, k, d)
  BY <1>1, <1>4, ScoresFit
<1> HIDE DEF t, o, f, k
<1>7. o + 0 = o /\ f + 0 = f /\ f + (-1) = f - 1 BY <1>5
<1>8. /\ A!Score(p, 0, 0) = A!ScoreOf(t, o, f, k, d)
      /\ A!Score(p, 1, 0) = A!ScoreOf(t, o + 1, f, k, d)
      /\ A!Score(p, 1, -1) = A!ScoreOf(t, o + 1, f - 1, k, d)
  BY <1>3, <1>7
<1>9. A!Score(p, 0, 0) \in 0 .. 1000
  <2> DEFINE s == A!Score(p, 0, 0)
  <2>1. s \in Nat /\ s <= 1000 BY <1>6, <1>8
  <2> HIDE DEF s
  <2>2. s \in 0 .. 1000 BY <2>1
  <2> QED BY <2>2 DEF s
<1> QED BY <1>6, <1>8, <1>9 DEF f, bs

\* What the organization is told of itself.
LEMMA AverageIs ==
  ASSUME A!AnalyticsAssumption, AnalyticsInv, comparison.step = "done", DOMAIN comparison.current # {}
  PROVE  LET bs == UNION {comparison.current[p] : p \in DOMAIN comparison.current}
         IN  \E d : /\ Share(d)
                    /\ A!OrgAverage.passRate = A!Rate(A!Total(bs, "passed"), A!Total(bs, "tests"))
                    /\ A!OrgAverage.flakyRate = A!Rate(A!Total(bs, "flaky"), A!Total(bs, "tests"))
                    /\ A!OrgAverage.score = A!ScoreOf(A!Total(bs, "tests"), A!Total(bs, "passed"),
                                              A!Total(bs, "flaky"), A!Total(bs, "skipped"), d)
<1> DEFINE S == DOMAIN comparison.current
           bs == UNION {comparison.current[p] : p \in S}
           ms == [p \in S |-> A!AverageMs(comparison.current[p])]
           weight(p) == ms[p] * A!Cardinality(comparison.current[p])
           own(d, s) == IF s = {} THEN 0
                        ELSE weight(CHOOSE x \in s : TRUE) + d[s \ {CHOOSE x \in s : TRUE}]
           c == CHOOSE d : d = [s \in SUBSET S |-> own(d, s)]
           f == [p \in S |-> weight(p)]
           dur == A!DurationScore(c[S] \div A!Cardinality(bs), A!TwiceMedian(ms), A!Cardinality(S))
<1>1. A!OrgAverage = [passRate  |-> A!Rate(A!Total(bs, "passed"), A!Total(bs, "tests")),
                      flakyRate |-> A!Rate(A!Total(bs, "flaky"), A!Total(bs, "tests")),
                      score     |-> A!ScoreOf(A!Total(bs, "tests"), A!Total(bs, "passed"),
                                      A!Total(bs, "flaky"), A!Total(bs, "skipped"), dur)]
  BY Zenon DEF A!OrgAverage, A!MapThenSumSet, A!MapThenFoldSet
<1>2. /\ A!TwiceMedian(ms) \in Nat /\ A!Cardinality(S) \in Nat /\ \A p \in S : ms[p] \in Nat
  <2>1. DOMAIN ms = S OBVIOUS
  <2> QED BY <2>1, DurationsTyped
<1>3. A!Cardinality(bs) \in Nat \ {0}
  <2>1. bs \in SUBSET Bookings /\ bs # {} BY ProjectsAreApart
  <2> QED BY <2>1, AverageIsNatural
<1>4. IsFiniteSet(S) /\ \A p \in S : f[p] \in Nat
  <2>1. \A p \in S : A!Cardinality(comparison.current[p]) \in Nat
    BY ProjectsAreApart, AverageIsNatural
  <2> HIDE DEF ms
  <2> QED BY <1>2, <2>1, ProjectsAreApart
<1>5. c[S] \in Nat
  <2>1. ASSUME NEW d, NEW s \in SUBSET S PROVE own(d, s) = SumStep(f, d, s)
    <3>1. CASE s = {} BY <3>1 DEF SumStep
    <3>2. CASE s # {}
      <4>1. First(s) \in S BY <3>2, FirstIsOne
      <4>2. f[First(s)] = weight(First(s)) BY <4>1
      <4> HIDE DEF weight, f
      <4>3. own(d, s) = weight(First(s)) + d[s \ {First(s)}] BY <3>2 DEF First
      <4> QED BY <3>2, <4>2, <4>3 DEF SumStep
    <3> QED BY <3>1, <3>2
  <2> HIDE DEF f, own, S
  <2>2. \A d : d = [s \in SUBSET S |-> own(d, s)] <=> IsSum(f, d, S)
    <3> SUFFICES ASSUME NEW d
                 PROVE  [s \in SUBSET S |-> own(d, s)] = [s \in SUBSET S |-> SumStep(f, d, s)]
      BY DEF IsSum
    <3> QED BY <2>1
  <2>3. \E d : IsSum(f, d, S) BY <1>4, SumsExist
  <2>4. IsSum(f, c, S)
    <3>1. \E d : d = [s \in SUBSET S |-> own(d, s)] BY <2>2, <2>3
    <3>2. c = [s \in SUBSET S |-> own(c, s)] BY <3>1
    <3> QED BY <2>2, <3>2
  <2> DEFINE e == CHOOSE d : IsSum(f, d, S)
  <2>5. IsSum(f, e, S) BY <2>3
  <2>6. SumOf(f, S) = e[S] BY DEF SumOf
  <2> HIDE DEF c, e
  <2>7. c[S] = SumOf(f, S) BY <1>4, <2>4, <2>5, <2>6, SumSums, SumsAlike
  <2>8. SumOf(f, S) \in Nat BY <1>4, SumTakesAny
  <2> QED BY <2>7, <2>8
<1>6. Share(dur)
  <2> HIDE DEF c, bs, ms, S
  <2> DEFINE x == c[S]
             n == A!Cardinality(bs)
  <2>1. x \in Nat /\ n \in Nat \ {0} BY <1>3, <1>5
  <2> HIDE DEF x, n
  <2>2. n * 0 <= x BY <2>1
  <2>3. x \div n \in Int /\ 0 <= x \div n BY <2>1, <2>2, Quotient
  <2>4. x \div n \in Nat BY <2>3
  <2> USE DEF x, n
  <2> QED BY <1>2, <2>4, DurationInRange
<1> HIDE DEF dur, bs
<1> QED BY <1>1, <1>6 DEF bs

LEMMA AverageIsBetween ==
  ASSUME A!AnalyticsAssumption, AnalyticsInv PROVE A!AverageLiesBetween
<1> DEFINE S == DOMAIN comparison.current
           bs == UNION {comparison.current[p] : p \in S}
           rate(field, p) == A!Rate(A!Total(comparison.current[p], field),
                                    A!Total(comparison.current[p], "tests"))
           Rates(field) == {rate(field, p) : p \in S}
<1> SUFFICES ASSUME comparison.step = "done", S # {}
             PROVE  /\ A!Min(Rates("passed")) <= A!OrgAverage.passRate
                    /\ A!OrgAverage.passRate <= A!Max(Rates("passed"))
                    /\ A!Min(Rates("flaky")) <= A!OrgAverage.flakyRate
                    /\ A!OrgAverage.flakyRate <= A!Max(Rates("flaky"))
                    /\ A!OrgAverage.score \in 0 .. 1000
  BY ZenonT(60) DEF A!AverageLiesBetween
<1>1. /\ IsFiniteSet(S) /\ \A p \in S : comparison.current[p] \in SUBSET Bookings
      /\ \A p, q \in S : p # q => comparison.current[p] \cap comparison.current[q] = {}
  BY ProjectsAreApart
<1>2. ASSUME NEW field \in {"passed", "flaky"}
      PROVE  LET r == A!Rate(A!Total(bs, field), A!Total(bs, "tests"))
             IN  A!Min(Rates(field)) <= r /\ r <= A!Max(Rates(field))
  <2>1. \A p \in S : Share(rate(field, p))
    <3> SUFFICES ASSUME NEW p \in S PROVE Share(rate(field, p)) OBVIOUS
    <3> DEFINE X == comparison.current[p]
    <3>1. X \in SUBSET Bookings BY <1>1
    <3> HIDE DEF X
    <3>2. /\ A!Total(X, "passed") \in Nat /\ A!Total(X, "flaky") \in Nat
          /\ A!Total(X, "skipped") \in Nat /\ A!Total(X, "tests") \in Nat
      BY <3>1, TotalsAdd DEF Fields
    <3>3. A!Total(X, "passed") + A!Total(X, "flaky") + A!Total(X, "skipped") <= A!Total(X, "tests")
      BY <3>1, TotalsFit
    <3>4. A!Total(X, field) \in Nat /\ A!Total(X, field) <= A!Total(X, "tests") BY <3>2, <3>3
    <3> QED BY <3>2, <3>4, RateIsShare DEF X
  <2> HIDE DEF rate
  <2>2. Rates(field) \in SUBSET Nat /\ Rates(field) # {} /\ \A x \in Rates(field) : x <= 10000
    BY <2>1 DEF Share
  <2>3. \A p \in S : rate(field, p) \in Rates(field) OBVIOUS
  <2> DEFINE m == A!Min(Rates(field))
             u == A!Max(Rates(field))
  <2> HIDE DEF Rates
  <2>4. m \in Nat /\ u \in Nat /\ \A x \in Rates(field) : m <= x /\ x <= u
    <3> DEFINE V == Rates(field)
    <3>1. PICK b \in Nat : V \in SUBSET Nat /\ V # {} /\ \A x \in V : x <= b BY <2>2
    <3>2. m = A!Min(V) /\ u = A!Max(V) OBVIOUS
    <3> HIDE DEF V, m, u
    <3>3. A!Min(V) \in V /\ \A x \in V : A!Min(V) <= x BY <3>1, Extremes
    <3>4. A!Max(V) \in V /\ \A x \in V : x <= A!Max(V) BY <3>1, Extremes
    <3>5. m \in V /\ u \in V /\ \A x \in V : m <= x /\ x <= u BY <3>2, <3>3, <3>4, Zenon
    <3> QED BY <3>1, <3>5 DEF V
  <2>5. \A p \in S : m <= rate(field, p) /\ rate(field, p) <= u BY <2>3, <2>4
  <2> HIDE DEF m, u
  <2>6. \A p \in S : /\ m <= A!Rate(A!Total(comparison.current[p], field),
                                    A!Total(comparison.current[p], "tests"))
                     /\ A!Rate(A!Total(comparison.current[p], field),
                               A!Total(comparison.current[p], "tests")) <= u
    BY <2>5 DEF rate
  <2> QED BY <1>1, <2>4, <2>6, RateLiesBetween DEF m, u
<1>3. PICK d : /\ Share(d)
               /\ A!OrgAverage.passRate = A!Rate(A!Total(bs, "passed"), A!Total(bs, "tests"))
               /\ A!OrgAverage.flakyRate = A!Rate(A!Total(bs, "flaky"), A!Total(bs, "tests"))
               /\ A!OrgAverage.score = A!ScoreOf(A!Total(bs, "tests"), A!Total(bs, "passed"),
                                         A!Total(bs, "flaky"), A!Total(bs, "skipped"), d)
  BY AverageIs
<1>4. A!OrgAverage.score \in 0 .. 1000
  <2>1. bs \in SUBSET Bookings BY <1>1
  <2> HIDE DEF bs
  <2> DEFINE s == A!OrgAverage.score
  <2>2. s \in Nat /\ s <= 1000 BY <1>3, <2>1, ScoresFit
  <2> HIDE DEF s
  <2>3. s \in 0 .. 1000 BY <2>2
  <2> QED BY <2>3 DEF s
<1> HIDE DEF Rates, bs
<1> QED BY <1>2, <1>3, <1>4

\* Whatever the order in which runs end by the worker or are closed by the cleanup, the worker
\* that keeps rows is deployed, and the backfill reads and writes: every booking of the rows is
\* the only one of its run, in the row of the day and project the run ended on, every end the
\* worker was to count is counted, and after the backfill every one from before, unless its row
\* was there already; no answer counts a run twice, in a period or in two, though days pass and
\* runs end between its statements; the days that are shown hold every booking that is summed
\* up; a score stays in its range and no failed or flaky test that passes lowers it; and the
\* rates of an organization lie between those of its projects.
THEOREM RunsAddUp ==
  ASSUME A!AnalyticsAssumption
  PROVE  A!Spec => [](A!TypeOK /\ A!AnalyticsAddUp)
<1>1. A!Init => AnalyticsInv
  <2> SUFFICES ASSUME A!Init PROVE AnalyticsInv OBVIOUS
  <2>1. \A r \in EndedRuns : finished[r].how = "running" BY DEF A!Init, A!Running
  <2>2. 0 \in A!Calendar
    <3>1. LastDay \in Nat BY DEF A!AnalyticsAssumption
    <3> QED BY <3>1 DEF A!Calendar
  <2>3. A!TypeOK BY <2>2 DEF A!Init, A!TypeOK
  <2>4. backfill.step = "none" /\ daily = {} BY DEF A!Init
  <2>5. A!RowsCountOnce /\ BackfillRight BY <2>1, <2>4 DEF A!RowsCountOnce, BackfillRight
  <2>6. totals.step = "none" /\ comparison.step = "none" /\ trend.step = "none" BY DEF A!Init
  <2> QED BY <2>3, <2>5, <2>6 DEF AnalyticsInv, SummaryRight, ComparisonRight, A!DaysHoldRuns
<1>2. AnalyticsInv /\ [A!Next]_A!vars => AnalyticsInv'
  <2> SUFFICES ASSUME AnalyticsInv, [A!Next]_A!vars PROVE AnalyticsInv' OBVIOUS
  <2>1. CASE UNCHANGED A!vars
    <3>1. Growing /\ Reading BY <2>1 DEF A!vars, Growing, Reading
    <3>2. A!TypeOK' BY <2>1 DEF A!vars, AnalyticsInv, A!TypeOK
    <3> QED BY <3>1, <3>2, AnswersStay, RowsStay DEF AnalyticsInv
  <2>2. CASE A!Next
    BY <2>2, FinishKeeps, CleanupKeeps, BackfillSelectKeeps, BackfillInsertKeeps, ClockKeeps,
       SummaryKeeps, ComparisonKeeps
    DEF A!Next
  <2> QED BY <2>1, <2>2
<1>3. AnalyticsInv => A!TypeOK /\ A!AnalyticsAddUp
  BY PeriodsAreApart, ScoresRise, AverageIsBetween DEF AnalyticsInv, A!AnalyticsAddUp
<1> QED BY <1>1, <1>2, <1>3, PTL DEF A!Spec

-----------------------------------------------------------------------------
(* The error explorer. *)

\* What the two statements of a window count at this moment.
InWindow(w)    == E!Occurring(w, filter.branch)
CountOf(w, g)  == E!Cardinality(E!OfGroup(InWindow(w), g))
OfRun(run)     == {o \in occurrences : o.run = run}

\* The rows of the list have not shrunk; with nothing stored since, they are as they were.
ListInv ==
  /\ list.step \in {"count", "done"} =>
       /\ list.since \in Nat /\ list.since <= kept
       /\ DOMAIN list.rows \subseteq E!GroupsIn(InWindow(list.window))
       /\ \A g \in DOMAIN list.rows :
            list.rows[g] \in Nat /\ list.rows[g] <= CountOf(list.window, g)
       /\ kept = list.since =>
            /\ DOMAIN list.rows \in E!Top(E!GroupsIn(E!Where(filter, list.window)), PageSize,
                                      E!Where(filter, list.window), "occurrences")
            /\ \A g \in DOMAIN list.rows : list.rows[g] = CountOf(list.window, g)
  /\ list.step = "done" =>
       /\ list.until \in Nat /\ list.since <= list.until /\ list.until <= kept
       /\ kept = list.until =>
            list.total = E!Cardinality(E!GroupsIn(E!Where(filter, list.window)))
       /\ filter.categories = E!Categories => list.total >= E!Cardinality(DOMAIN list.rows)

\* The same of the timeline.
TimelineInv ==
  /\ timeline.step \in {"series", "done"} =>
       /\ timeline.since \in Nat /\ timeline.since <= kept
       /\ DOMAIN timeline = {"step", "window", "ranked", "series", "since", "until"}
       /\ timeline.ranked \subseteq E!GroupsIn(InWindow(timeline.window))
       /\ kept = timeline.since =>
            timeline.ranked \in E!Top(E!GroupsIn(E!Where(filter, timeline.window)), TopN,
                                  E!Where(filter, timeline.window), filter.metric)
  /\ timeline.step = "done" =>
       /\ timeline.until \in Nat /\ timeline.since <= timeline.until /\ timeline.until <= kept
       /\ DOMAIN timeline.series = timeline.ranked
       /\ \A g \in timeline.ranked :
            timeline.series[g] \in Nat /\ timeline.series[g] <= CountOf(timeline.window, g)
       /\ kept = timeline.until =>
            \A g \in timeline.ranked : timeline.series[g] = CountOf(timeline.window, g)

\* The two parts of TimelineTellsTheList, of which the first holds as soon as the rows are read.
CountsAgree ==
  (list.step \in {"count", "done"} /\ timeline.step = "done" /\ E!SameWindow) =>
    \A g \in DOMAIN list.rows \cap DOMAIN timeline.series :
      /\ list.since <= timeline.until => list.rows[g] <= timeline.series[g]
      /\ timeline.until <= list.since => timeline.series[g] <= list.rows[g]
RanksAgree ==
  (list.step = "done" /\ timeline.step = "done" /\ E!SameWindow /\
    list.since = timeline.until /\ timeline.since = timeline.until
     /\ filter.metric = "occurrences" /\ list.total <= PageSize /\ list.until = list.since) =>
      /\ DOMAIN timeline.series \subseteq DOMAIN list.rows
      /\ E!Cardinality(DOMAIN timeline.series) = E!Min({TopN, list.total})
      /\ \A g \in DOMAIN timeline.series, h \in DOMAIN list.rows \ DOMAIN timeline.series :
           list.rows[g] >= list.rows[h]

\* They are to be remembered as soon as something is stored after an answer.
TellsInv ==
  /\ list.since # kept /\ timeline.until # kept => CountsAgree
  /\ list.since # kept => RanksAgree

\* The branches will count no fewer errors than the row of the list and the tests do.
DetailInv ==
  /\ detail.step \in {"branches", "done"} =>
       /\ detail.listed \in Nat /\ detail.tests \in Nat
       /\ detail.allTests => detail.listed <= detail.tests
  /\ detail.step = "branches" =>
       LET n == E!Cardinality(E!DetailErrors(detail.window, detail.group))
       IN  detail.listed <= n /\ detail.tests <= n
  /\ (detail.step = "done" /\ detail.allBranches) =>
       detail.listed <= detail.branches /\ detail.tests <= detail.branches
SummaryInv ==
  /\ summary.step = "count" => DOMAIN summary.top \subseteq E!GroupsIn(OfRun(summary.run))
  /\ summary.step = "done" => /\ E!Cardinality(DOMAIN summary.top) <= summary.groups
                              /\ summary.groups <= summary.failed

\* What the worker stores: an error for each test of a run.
StoreInv ==
  /\ E!TypeOK
  /\ IsFiniteSet(occurrences) /\ kept = E!Cardinality(occurrences) /\ kept \in Nat
  /\ \A o, q \in occurrences : o.run = q.run /\ o.test = q.test => o = q

ExplorerInv ==
  StoreInv /\ ListInv /\ TimelineInv /\ TellsInv /\ DetailInv /\ SummaryInv

-----------------------------------------------------------------------------
LEMMA ErrorsCountAlike == ASSUME NEW S PROVE E!Cardinality(S) = Cardinality(S)
BY DEF E!Cardinality, Cardinality

\* Cardinalities of parts, images and pairs.
LEMMA FiniteAlike == ASSUME NEW S PROVE E!IsFiniteSet(S) <=> IsFiniteSet(S)
BY DEF E!IsFiniteSet, IsFiniteSet

LEMMA PartIsLess ==
  ASSUME NEW S, IsFiniteSet(S), NEW T \in SUBSET S
  PROVE  /\ IsFiniteSet(T) /\ E!Cardinality(T) \in Nat /\ E!Cardinality(S) \in Nat
         /\ E!Cardinality(T) <= E!Cardinality(S)
         /\ E!Cardinality(T) = E!Cardinality(S) => T = S
<1>1. IsFiniteSet(T) /\ Cardinality(T) <= Cardinality(S)
      /\ (Cardinality(S) = Cardinality(T) => S = T)
  BY FS_Subset
<1>2. Cardinality(T) \in Nat /\ Cardinality(S) \in Nat BY <1>1, FS_CardinalityType
<1> QED BY <1>1, <1>2, ErrorsCountAlike

LEMMA GroupsAreFewer ==
  ASSUME NEW os, IsFiniteSet(os)
  PROVE  IsFiniteSet(E!GroupsIn(os)) /\ E!Cardinality(E!GroupsIn(os)) <= E!Cardinality(os)
<1> DEFINE f == [o \in os |-> o.group]
<1>1. f \in Surjection(os, E!GroupsIn(os)) BY DEF E!GroupsIn, Surjection
<1>2. IsFiniteSet(E!GroupsIn(os)) /\ Cardinality(E!GroupsIn(os)) <= Cardinality(os)
  BY <1>1, FS_Surjection
<1> QED BY <1>2, ErrorsCountAlike

LEMMA MinOfTwo ==
  ASSUME NEW m \in Nat, NEW n \in Nat
  PROVE  E!Min({m, n}) = IF m <= n THEN m ELSE n
<1> DEFINE least == IF m <= n THEN m ELSE n
<1>1. least \in {m, n} /\ \A y \in {m, n} : least <= y OBVIOUS
<1>2. \A x \in {m, n} : (\A y \in {m, n} : x <= y) => x = least OBVIOUS
<1> HIDE DEF least
<1>3. E!Min({m, n}) = CHOOSE x \in {m, n} : \A y \in {m, n} : x <= y BY DEF E!Min
<1> QED BY <1>1, <1>2, <1>3 DEF least

\* Those that rank highest.
LEMMA TopIs ==
  ASSUME NEW G, NEW n, NEW os, NEW metric, NEW T \in E!Top(G, n, os, metric)
  PROVE  /\ T \subseteq G /\ E!Cardinality(T) = E!Min({n, E!Cardinality(G)})
         /\ \A g \in T, h \in G \ T :
              E!Metric(metric, E!OfGroup(os, g)) >= E!Metric(metric, E!OfGroup(os, h))
<1> DEFINE score == [g \in G |-> E!Metric(metric, E!OfGroup(os, g))]
<1>1. T \in E!Highest(n, score) /\ DOMAIN score = G BY DEF E!Top
<1>2. \A g \in G : score[g] = E!Metric(metric, E!OfGroup(os, g)) OBVIOUS
<1> HIDE DEF score
<1>3. /\ T \in SUBSET G /\ E!Cardinality(T) = E!Min({n, E!Cardinality(G)})
      /\ \A g \in T, h \in G \ T : score[g] >= score[h]
  BY <1>1 DEF E!Highest
<1> QED BY <1>2, <1>3

\* Those of a group, of those that count.
LEMMA OfGroupIs ==
  ASSUME StoreInv, NEW w, NEW b, NEW g
  PROVE  /\ E!OfGroup(E!Occurring(w, b), g) \subseteq E!Occurring(w, b)
         /\ E!Occurring(w, b) \subseteq occurrences
         /\ E!Occurring(w, b) \subseteq E!Occurring(w, E!AnyBranch)
         /\ IsFiniteSet(E!Occurring(w, b)) /\ IsFiniteSet(E!OfGroup(E!Occurring(w, b), g))
         /\ E!Cardinality(E!OfGroup(E!Occurring(w, b), g)) \in Nat
         /\ E!Cardinality(E!OfGroup(E!Occurring(w, b), g))
              <= E!Cardinality(E!OfGroup(E!Occurring(w, E!AnyBranch), g))
<1>1. /\ E!OfGroup(E!Occurring(w, b), g) \subseteq E!Occurring(w, b)
      /\ E!Occurring(w, b) \subseteq occurrences
      /\ E!Occurring(w, E!AnyBranch) \subseteq occurrences
      /\ E!Occurring(w, b) \subseteq E!Occurring(w, E!AnyBranch)
      /\ E!OfGroup(E!Occurring(w, b), g) \subseteq E!OfGroup(E!Occurring(w, E!AnyBranch), g)
      /\ E!OfGroup(E!Occurring(w, E!AnyBranch), g) \subseteq occurrences
  BY DEF E!OfGroup, E!Occurring
<1>2. IsFiniteSet(occurrences) BY DEF StoreInv
<1>3. IsFiniteSet(E!Occurring(w, b)) /\ IsFiniteSet(E!OfGroup(E!Occurring(w, E!AnyBranch), g))
  BY <1>1, <1>2, PartIsLess
<1> QED BY <1>1, <1>3, PartIsLess

LEMMA WhereIs ==
  ASSUME StoreInv, NEW w
  PROVE  /\ E!Where(filter, w) \subseteq InWindow(w)
         /\ E!GroupsIn(E!Where(filter, w)) \subseteq E!GroupsIn(InWindow(w))
         /\ \A g \in E!GroupsIn(E!Where(filter, w)) :
              E!OfGroup(E!Where(filter, w), g) = E!OfGroup(InWindow(w), g)
         /\ IsFiniteSet(InWindow(w)) /\ IsFiniteSet(E!Where(filter, w))
         /\ IsFiniteSet(E!GroupsIn(InWindow(w))) /\ IsFiniteSet(E!GroupsIn(E!Where(filter, w)))
         /\ filter.categories = E!Categories => E!Where(filter, w) = InWindow(w)
<1>1. E!Where(filter, w) \subseteq InWindow(w) BY DEF E!Where, InWindow
<1>2. E!GroupsIn(E!Where(filter, w)) \subseteq E!GroupsIn(InWindow(w)) BY <1>1 DEF E!GroupsIn
<1>3. \A g \in E!GroupsIn(E!Where(filter, w)) :
        E!OfGroup(E!Where(filter, w), g) = E!OfGroup(InWindow(w), g)
  BY DEF E!Where, InWindow, E!GroupsIn, E!OfGroup
<1>4. IsFiniteSet(InWindow(w)) BY OfGroupIs DEF InWindow
<1>5. IsFiniteSet(E!Where(filter, w)) BY <1>1, <1>4, PartIsLess
<1>6. filter.categories = E!Categories => E!Where(filter, w) = InWindow(w)
  <2>1. \A o \in occurrences : o.group \in Groups /\ category[o.group] \in E!Categories
    BY DEF StoreInv, E!TypeOK
  <2> QED BY <2>1 DEF E!Where, E!Hit, InWindow, E!Occurring
<1> QED BY <1>1, <1>2, <1>3, <1>4, <1>5, <1>6, GroupsAreFewer

\* The same window has the same errors.
LEMMA SameErrors ==
  ASSUME E!SameWindow
  PROVE  /\ InWindow(list.window) = InWindow(timeline.window)
         /\ E!Where(filter, list.window) = E!Where(filter, timeline.window)
         /\ \A g : CountOf(list.window, g) = CountOf(timeline.window, g)
BY DEF E!SameWindow, InWindow, E!Where, E!Occurring, CountOf

-----------------------------------------------------------------------------
\* With nothing stored since the later of the two, what was read is what is there.
LEMMA CountsAgreeNow ==
  ASSUME ListInv, TimelineInv, StoreInv, list.since = kept \/ timeline.until = kept
  PROVE  CountsAgree
<1> SUFFICES ASSUME list.step \in {"count", "done"}, timeline.step = "done", E!SameWindow,
                    NEW g \in DOMAIN list.rows \cap DOMAIN timeline.series
             PROVE  /\ list.since <= timeline.until => list.rows[g] <= timeline.series[g]
                    /\ timeline.until <= list.since => timeline.series[g] <= list.rows[g]
  BY DEF CountsAgree
<1> DEFINE c == CountOf(list.window, g)
<1>1. c = CountOf(timeline.window, g) BY SameErrors
<1>2. c \in Nat BY OfGroupIs DEF CountOf, InWindow
<1>3. /\ list.since \in Nat /\ list.since <= kept /\ list.rows[g] \in Nat
      /\ list.rows[g] <= c /\ (kept = list.since => list.rows[g] = c)
  BY DEF ListInv
<1>4. /\ timeline.until \in Nat /\ timeline.until <= kept /\ timeline.series[g] \in Nat
      /\ timeline.series[g] <= c /\ (kept = timeline.until => timeline.series[g] = c)
  BY <1>1 DEF TimelineInv
<1>5. kept \in Nat BY DEF StoreInv
<1> HIDE DEF c
<1> QED BY <1>2, <1>3, <1>4, <1>5

LEMMA RanksAgreeNow ==
  ASSUME E!ErrorExplorerAssumption, ListInv, TimelineInv, StoreInv, list.since = kept
  PROVE  RanksAgree
<1> SUFFICES ASSUME list.step = "done", timeline.step = "done", E!SameWindow,
                    list.since = timeline.until, timeline.since = timeline.until,
                    filter.metric = "occurrences", list.total <= PageSize,
                    list.until = list.since
             PROVE  /\ DOMAIN timeline.series \subseteq DOMAIN list.rows
                    /\ E!Cardinality(DOMAIN timeline.series) = E!Min({TopN, list.total})
                    /\ \A g \in DOMAIN timeline.series,
                          h \in DOMAIN list.rows \ DOMAIN timeline.series :
                         list.rows[g] >= list.rows[h]
  BY DEF RanksAgree
<1> DEFINE os == E!Where(filter, list.window)
           G  == E!GroupsIn(os)
           T  == timeline.ranked
<1>1. os = E!Where(filter, timeline.window) BY SameErrors
<1>2. /\ DOMAIN list.rows \in E!Top(G, PageSize, os, "occurrences") /\ list.total = E!Cardinality(G)
      /\ \A g \in DOMAIN list.rows : list.rows[g] = CountOf(list.window, g)
  BY DEF ListInv
<1>3. T \in E!Top(G, TopN, os, "occurrences") /\ DOMAIN timeline.series = T
  BY <1>1 DEF TimelineInv
<1>4. IsFiniteSet(G) /\ E!Cardinality(G) \in Nat BY WhereIs, PartIsLess
<1>5. \A g \in G : E!OfGroup(os, g) = E!OfGroup(InWindow(list.window), g) BY WhereIs
<1> HIDE DEF os, G, T
<1>6. DOMAIN list.rows = G
  <2>1. /\ DOMAIN list.rows \subseteq G
        /\ E!Cardinality(DOMAIN list.rows) = E!Min({PageSize, E!Cardinality(G)})
    <3>1. DOMAIN list.rows \in E!Top(G, PageSize, os, "occurrences") BY <1>2
    <3> QED BY <3>1, TopIs, ZenonT(60)
  <2>2. E!Min({PageSize, E!Cardinality(G)}) = E!Cardinality(G)
    BY <1>2, <1>4, MinOfTwo DEF E!ErrorExplorerAssumption
  <2> QED BY <1>4, <2>1, <2>2, PartIsLess
<1>7. /\ T \subseteq G /\ E!Cardinality(T) = E!Min({TopN, list.total})
      /\ \A g \in T, h \in G \ T :
           E!Cardinality(E!OfGroup(os, g)) >= E!Cardinality(E!OfGroup(os, h))
  <2>1. T \in E!Top(G, TopN, os, "occurrences") BY <1>3
  <2>2. T \subseteq G /\ E!Cardinality(T) = E!Min({TopN, E!Cardinality(G)})
    BY <2>1, TopIs, ZenonT(60)
  <2>3. ASSUME NEW g \in T, NEW h \in G \ T
        PROVE  E!Metric("occurrences", E!OfGroup(os, g)) >= E!Metric("occurrences", E!OfGroup(os, h))
    BY <2>1, TopIs, ZenonT(60)
  <2> QED BY <1>2, <2>2, <2>3 DEF E!Metric
<1>8. \A g \in G : list.rows[g] = E!Cardinality(E!OfGroup(os, g)) BY <1>2, <1>5, <1>6 DEF CountOf
<1> QED BY <1>3, <1>6, <1>7, <1>8

-----------------------------------------------------------------------------
\* A step of the worker or of the clock: errors are added, never taken away, and counted.
Adding ==
  /\ occurrences \subseteq occurrences' /\ IsFiniteSet(occurrences')
  /\ \/ kept' = kept /\ UNCHANGED <<occurrences, category>>
     \/ kept' = kept + 1
  /\ UNCHANGED <<filter, E!answers>>

\* What was answered is right still.
LEMMA AnswersHold ==
  ASSUME E!ErrorExplorerAssumption, ExplorerInv, Adding
  PROVE  ListInv' /\ TimelineInv' /\ TellsInv' /\ DetailInv' /\ SummaryInv'
<1>1. /\ kept \in Nat /\ kept' \in Nat /\ kept <= kept'
      /\ kept' = kept => UNCHANGED <<occurrences, category>>
      /\ UNCHANGED <<filter, list, timeline, detail, summary>>
  BY DEF ExplorerInv, StoreInv, Adding, E!answers
<1>2. \A w, g : /\ CountOf(w, g) \in Nat /\ CountOf(w, g)' \in Nat
                /\ CountOf(w, g) <= CountOf(w, g)'
                /\ E!GroupsIn(InWindow(w)) \subseteq E!GroupsIn(InWindow(w))'
                /\ kept' = kept => CountOf(w, g)' = CountOf(w, g)
  <2> SUFFICES ASSUME NEW w, NEW g
               PROVE  /\ CountOf(w, g) \in Nat /\ CountOf(w, g)' \in Nat
                      /\ CountOf(w, g) <= CountOf(w, g)'
                      /\ E!GroupsIn(InWindow(w)) \subseteq E!GroupsIn(InWindow(w))'
                      /\ kept' = kept => CountOf(w, g)' = CountOf(w, g)
    OBVIOUS
  <2>1. InWindow(w) = E!Occurring(w, filter.branch) /\ InWindow(w)' = E!Occurring(w, filter.branch)'
    BY <1>1 DEF InWindow
  <2>2. kept' = kept => CountOf(w, g)' = CountOf(w, g)
    BY <1>1 DEF CountOf, InWindow, E!Occurring, E!OfGroup
  <2>3. /\ E!Cardinality(E!OfGroup(E!Occurring(w, filter.branch), g)) \in Nat
        /\ CountOf(w, g)' \in Nat
        /\ E!Cardinality(E!OfGroup(E!Occurring(w, filter.branch), g)) <= CountOf(w, g)'
        /\ E!GroupsIn(E!Occurring(w, filter.branch)) \subseteq E!GroupsIn(InWindow(w))'
    <3> DEFINE b == filter.branch
    <3>1. filter' = filter BY <1>1
    <3>2. /\ E!Cardinality(E!OfGroup(E!Occurring(w, b), g)) \in Nat
          /\ E!GroupsIn(E!Occurring(w, b)) \subseteq E!GroupsIn(InWindow(w))'
      BY <3>1, OfGroupIs DEF ExplorerInv, InWindow, E!GroupsIn, E!Occurring, Adding
    <3>3. E!OfGroup(E!Occurring(w, b), g) \subseteq E!OfGroup(InWindow(w), g)'
      BY <3>1 DEF InWindow, E!OfGroup, E!Occurring, Adding
    <3>4. E!OfGroup(InWindow(w), g)' \subseteq occurrences' BY DEF InWindow, E!OfGroup, E!Occurring
    <3>5. IsFiniteSet(E!OfGroup(InWindow(w), g)') BY <3>4, PartIsLess DEF Adding
    <3> QED BY <3>2, <3>3, <3>5, PartIsLess DEF CountOf
  <2> QED BY <2>1, <2>2, <2>3 DEF CountOf
<1>3. kept' = kept => \A w : /\ E!Where(filter, w)' = E!Where(filter, w)
                             /\ InWindow(w)' = InWindow(w)
  BY <1>1 DEF E!Where, E!Occurring, E!Hit, InWindow
<1>4. ListInv'
  <2>1. CASE kept' = kept
    BY <1>1, <1>2, <1>3, <2>1 DEF ExplorerInv, ListInv
  <2>2. CASE kept' = kept + 1
    BY <1>1, <1>2, <2>2 DEF ExplorerInv, ListInv
  <2> QED BY <2>1, <2>2 DEF Adding
<1>5. TimelineInv'
  <2>1. CASE kept' = kept
    BY <1>1, <1>2, <1>3, <2>1 DEF ExplorerInv, TimelineInv
  <2>2. CASE kept' = kept + 1
    BY <1>1, <1>2, <2>2 DEF ExplorerInv, TimelineInv
  <2> QED BY <2>1, <2>2 DEF Adding
<1>6. TellsInv'
  <2>1. CountsAgree BY CountsAgreeNow DEF ExplorerInv, TellsInv
  <2>2. RanksAgree BY RanksAgreeNow DEF ExplorerInv, TellsInv
  <2>3. CountsAgree' BY <1>1, <2>1 DEF CountsAgree, E!SameWindow
  <2>4. RanksAgree' BY <1>1, <2>2 DEF RanksAgree, E!SameWindow
  <2> QED BY <2>3, <2>4 DEF TellsInv
<1>7. DetailInv'
  <2>1. ASSUME detail.step = "branches"
        PROVE  (LET n == E!Cardinality(E!DetailErrors(detail.window, detail.group))
                IN  detail.listed <= n /\ detail.tests <= n)'
    <3> DEFINE S == E!DetailErrors(detail.window, detail.group)
    <3>1. S \subseteq S' /\ S' \subseteq occurrences'
      BY <1>1 DEF E!DetailErrors, E!OfGroup, E!Occurring, Adding
    <3>2. /\ detail.tests \in Nat /\ detail.tests <= E!Cardinality(S)
          /\ detail.listed \in Nat /\ detail.listed <= E!Cardinality(S)
      BY <2>1 DEF ExplorerInv, DetailInv
    <3>3. IsFiniteSet(S') BY <3>1, PartIsLess DEF Adding
    <3>4. /\ E!Cardinality(S) \in Nat /\ E!Cardinality(S') \in Nat
          /\ E!Cardinality(S) <= E!Cardinality(S')
      BY <3>1, <3>3, PartIsLess
    <3> QED BY <1>1, <3>2, <3>4
  <2> QED BY <1>1, <2>1 DEF ExplorerInv, DetailInv
<1>8. SummaryInv' BY <1>1 DEF ExplorerInv, SummaryInv, E!GroupsIn, OfRun, Adding
<1> QED BY <1>4, <1>5, <1>6, <1>7, <1>8

\* The worker stores an error, or time goes on.
LEMMA StoreErrorKeeps ==
  ASSUME E!ErrorExplorerAssumption, ExplorerInv,
         NEW r \in Runs, NEW t \in TestNames, NEW g \in Groups, NEW c \in E!Categories,
         NEW at \in 0 .. now, E!StoreError(r, t, g, c, at)
  PROVE  ExplorerInv'
<1> DEFINE o == [run |-> r, test |-> t, group |-> g, at |-> at]
<1>1. /\ ~ \E q \in occurrences : q.run = r /\ q.test = t
      /\ occurrences' = occurrences \cup {o} /\ kept' = kept + 1
      /\ category' = [category EXCEPT ![g] = E!Upgrade(g, c)]
      /\ UNCHANGED <<now, filter, E!answers>>
  BY DEF E!StoreError
<1>2. o.run = r /\ o.test = t OBVIOUS
<1>3. at \in E!Times
  <2>1. now \in 0 .. MaxTime BY DEF ExplorerInv, StoreInv, E!TypeOK, E!Times
  <2>2. MaxTime \in Nat BY DEF E!ErrorExplorerAssumption
  <2> QED BY <2>1, <2>2 DEF E!Times
<1>4. o \in [run : Runs, test : TestNames, group : Groups, at : E!Times] BY <1>3
<1> HIDE DEF o
<1>5. IsFiniteSet(occurrences') /\ E!Cardinality(occurrences') = E!Cardinality(occurrences) + 1
  <2>1. IsFiniteSet(occurrences) /\ o \notin occurrences BY <1>1, <1>2 DEF ExplorerInv, StoreInv
  <2> QED BY <1>1, <2>1, FS_AddElement, ErrorsCountAlike
<1>6. Adding BY <1>1, <1>5 DEF Adding
<1>7. \A p, q \in occurrences' : p.run = q.run /\ p.test = q.test => p = q
  BY <1>1, <1>2 DEF ExplorerInv, StoreInv
<1>8. occurrences' \subseteq [run : Runs, test : TestNames, group : Groups, at : E!Times]
  BY <1>1, <1>4 DEF ExplorerInv, StoreInv, E!TypeOK
<1>9. kept' = E!Cardinality(occurrences') /\ kept' \in Nat
  BY <1>1, <1>5 DEF ExplorerInv, StoreInv
<1>10. kept' <= E!Cardinality(Runs) * E!Cardinality(TestNames)
  <2> DEFINE f == [q \in occurrences' |-> <<q.run, q.test>>]
  <2>1. f \in Injection(occurrences', Runs \X TestNames)
    <3>1. \A q \in occurrences' : <<q.run, q.test>> \in Runs \X TestNames BY <1>8
    <3>2. f \in [occurrences' -> Runs \X TestNames] BY <3>1
    <3>3. \A p, q \in occurrences' : f[p] = f[q] => p = q BY <1>7
    <3> HIDE DEF f
    <3> QED BY <3>2, <3>3 DEF Injection, IsInjective
  <2>2. IsFiniteSet(Runs) /\ IsFiniteSet(TestNames) BY FiniteAlike DEF E!ErrorExplorerAssumption
  <2>3. /\ IsFiniteSet(Runs \X TestNames)
        /\ Cardinality(Runs \X TestNames) = Cardinality(Runs) * Cardinality(TestNames)
    BY <2>2, FS_Product
  <2>4. Cardinality(occurrences') <= Cardinality(Runs \X TestNames) BY <2>1, <2>3, FS_Injection
  <2> QED BY <1>9, <2>3, <2>4, ErrorsCountAlike
<1>11. category' \in [Groups -> E!Categories]
  <2>1. E!Upgrade(g, c) \in E!Categories BY DEF E!Upgrade, ExplorerInv, StoreInv, E!TypeOK
  <2> QED BY <1>1, <2>1 DEF ExplorerInv, StoreInv, E!TypeOK
<1>12. E!TypeOK'
  <2>1. UNCHANGED <<now, filter, list, timeline, detail, summary>> BY <1>1 DEF E!answers
  <2>2. kept' \in 0 .. E!Cardinality(Runs) * E!Cardinality(TestNames)
    <3>1. E!Cardinality(Runs) \in Nat /\ E!Cardinality(TestNames) \in Nat
      <4>1. IsFiniteSet(Runs) /\ IsFiniteSet(TestNames) BY FiniteAlike DEF E!ErrorExplorerAssumption
      <4> QED BY <4>1, PartIsLess
    <3>2. E!Cardinality(Runs) * E!Cardinality(TestNames) \in Nat BY <3>1
    <3> HIDE DEF o
    <3> QED BY <1>9, <1>10, <3>2
  <2> QED BY <1>8, <1>11, <2>1, <2>2 DEF ExplorerInv, StoreInv, E!TypeOK
<1>13. StoreInv' BY <1>5, <1>7, <1>9, <1>12 DEF StoreInv
<1> QED BY <1>6, <1>13, AnswersHold DEF ExplorerInv

\* A step that stores nothing.
LEMMA StoreStays ==
  ASSUME ExplorerInv, UNCHANGED <<occurrences, category, kept, filter>>, now' \in E!Times,
         list'.step \in {"none", "rows", "count", "done"},
         timeline'.step \in {"none", "rank", "series", "done"},
         detail'.step \in {"none", "branches", "done"}, summary'.step \in {"none", "count", "done"}
  PROVE  StoreInv'
BY DEF ExplorerInv, StoreInv, E!TypeOK

LEMMA TickKeeps == ASSUME E!ErrorExplorerAssumption, ExplorerInv, E!Tick PROVE ExplorerInv'
<1>1. now' \in E!Times
  <2>1. MaxTime \in Nat /\ now \in 0 .. MaxTime /\ now < MaxTime /\ now' = now + 1
    BY DEF E!Tick, E!ErrorExplorerAssumption, ExplorerInv, StoreInv, E!TypeOK, E!Times
  <2> QED BY <2>1 DEF E!Times
<1>2. UNCHANGED <<occurrences, category, kept, filter, list, timeline, detail, summary>>
  BY DEF E!Tick, E!answers
<1>3. Adding BY <1>2 DEF Adding, E!answers, ExplorerInv, StoreInv
<1>4. StoreInv' BY <1>1, <1>2, StoreStays DEF ExplorerInv, StoreInv, E!TypeOK
<1> QED BY <1>3, <1>4, AnswersHold DEF ExplorerInv

-----------------------------------------------------------------------------
\* The statements read; what they do not assign stays as it is.
LEMMA ReadingIs ==
  ASSUME UNCHANGED <<occurrences, category, filter>>
  PROVE  /\ \A w : E!Where(filter, w)' = E!Where(filter, w) /\ InWindow(w)' = InWindow(w)
         /\ \A w, g : CountOf(w, g)' = CountOf(w, g)
         /\ \A w, b : E!Occurring(w, b)' = E!Occurring(w, b)
         /\ \A r : OfRun(r)' = OfRun(r)
BY DEF E!Where, E!Occurring, E!Hit, InWindow, CountOf, E!OfGroup, OfRun

LEMMA ListStays ==
  ASSUME ExplorerInv, UNCHANGED <<occurrences, category, kept, filter, list>>
  PROVE  ListInv'
BY ReadingIs DEF ExplorerInv, ListInv

LEMMA TimelineStays ==
  ASSUME ExplorerInv, UNCHANGED <<occurrences, category, kept, filter, timeline>>
  PROVE  TimelineInv'
BY ReadingIs DEF ExplorerInv, TimelineInv

LEMMA TellsStays ==
  ASSUME ExplorerInv, UNCHANGED <<kept, filter, list, timeline>>
  PROVE  TellsInv'
BY DEF ExplorerInv, TellsInv, CountsAgree, RanksAgree, E!SameWindow

LEMMA DetailStays ==
  ASSUME ExplorerInv, UNCHANGED <<occurrences, detail>>
  PROVE  DetailInv'
<1>1. \A w, g : E!DetailErrors(w, g)' = E!DetailErrors(w, g)
  BY DEF E!DetailErrors, E!OfGroup, E!Occurring
<1> QED BY <1>1 DEF ExplorerInv, DetailInv

LEMMA SummaryStays ==
  ASSUME ExplorerInv, UNCHANGED <<occurrences, summary>>
  PROVE  SummaryInv'
BY DEF ExplorerInv, SummaryInv, OfRun, E!GroupsIn

\* The page asks for the list and the timeline.
LEMMA OpenKeeps == ASSUME ExplorerInv, E!Open PROVE ExplorerInv'
<1>1. /\ list'.step = "rows" /\ timeline'.step = "rank"
      /\ UNCHANGED <<now, occurrences, category, kept, filter, detail, summary>>
  BY DEF E!Open
<1>2. StoreInv' BY <1>1, StoreStays DEF ExplorerInv, StoreInv, E!TypeOK
<1>3. ListInv' /\ TimelineInv' BY <1>1 DEF ListInv, TimelineInv
<1>4. TellsInv' BY <1>1 DEF TellsInv, CountsAgree, RanksAgree
<1> QED BY <1>1, <1>2, <1>3, <1>4, DetailStays, SummaryStays DEF ExplorerInv

LEMMA ListRowsKeeps == ASSUME ExplorerInv, E!ListRows PROVE ExplorerInv'
<1> DEFINE w  == list.window
           os == E!Where(filter, w)
<1>1. PICK T \in E!Top(E!GroupsIn(os), PageSize, os, "occurrences") :
        list' = [step |-> "count", window |-> w, rows |-> E!CountsOf(T, os), since |-> kept]
  BY DEF E!ListRows
<1>2. UNCHANGED <<now, occurrences, category, kept, filter, timeline, detail, summary>>
  BY DEF E!ListRows
<1>3. /\ list'.step = "count" /\ list'.window = w /\ list'.since = kept
      /\ DOMAIN list'.rows = T /\ T \subseteq E!GroupsIn(os)
      /\ \A g \in T : list'.rows[g] = E!Cardinality(E!OfGroup(os, g))
  BY <1>1, TopIs DEF E!CountsOf
<1>4. /\ E!GroupsIn(os) \subseteq E!GroupsIn(InWindow(w))
      /\ \A g \in E!GroupsIn(os) : E!OfGroup(os, g) = E!OfGroup(InWindow(w), g)
      /\ \A g : CountOf(w, g) \in Nat
  BY WhereIs, OfGroupIs DEF ExplorerInv, CountOf, InWindow
<1>5. \A g \in T : list'.rows[g] = CountOf(w, g) BY <1>3, <1>4 DEF CountOf
<1>6. kept \in Nat BY DEF ExplorerInv, StoreInv
<1>7. /\ E!Where(filter, w)' = os /\ InWindow(w)' = InWindow(w)
      /\ \A g : CountOf(w, g)' = CountOf(w, g)
  BY <1>2, <1>3, ReadingIs
<1>8. ListInv'
  <2>1. /\ list'.since \in Nat /\ list'.since <= kept' BY <1>2, <1>3, <1>6
  <2>2. DOMAIN list'.rows \subseteq E!GroupsIn(InWindow(w)) BY <1>3, <1>4
  <2>3. \A g \in DOMAIN list'.rows :
          /\ list'.rows[g] \in Nat /\ list'.rows[g] <= CountOf(w, g)
          /\ list'.rows[g] = CountOf(w, g)
    BY <1>3, <1>4, <1>5
  <2>4. DOMAIN list'.rows \in E!Top(E!GroupsIn(os), PageSize, os, "occurrences") BY <1>3
  <2> HIDE DEF os
  <2> QED BY <1>2, <1>3, <2>1, <2>2, <2>3, <2>4, ReadingIs DEF ListInv, os
<1>9. StoreInv' BY <1>2, <1>3, StoreStays DEF ExplorerInv, StoreInv, E!TypeOK
<1>10. TellsInv' BY <1>2, <1>3 DEF TellsInv, RanksAgree
<1> QED BY <1>2, <1>8, <1>9, <1>10, TimelineStays, DetailStays, SummaryStays DEF ExplorerInv

LEMMA ListCountKeeps == ASSUME ExplorerInv, E!ListCount PROVE ExplorerInv'
<1> DEFINE w  == list.window
           os == E!Where(filter, w)
<1>1. /\ list.step = "count" /\ list'.step = "done" /\ list'.window = w /\ list'.rows = list.rows
      /\ list'.since = list.since /\ list'.until = kept
      /\ list'.total = E!Cardinality(E!GroupsIn(os))
      /\ UNCHANGED <<now, occurrences, category, kept, filter, timeline, detail, summary>>
  BY DEF E!ListCount
<1>2. kept \in Nat /\ list.since \in Nat /\ list.since <= kept
  BY <1>1 DEF ExplorerInv, StoreInv, ListInv
<1>3. filter.categories = E!Categories =>
        E!Cardinality(E!GroupsIn(os)) >= E!Cardinality(DOMAIN list.rows)
  <2> SUFFICES ASSUME filter.categories = E!Categories
               PROVE  E!Cardinality(E!GroupsIn(os)) >= E!Cardinality(DOMAIN list.rows)
    OBVIOUS
  <2>1. DOMAIN list.rows \subseteq E!GroupsIn(os) /\ IsFiniteSet(E!GroupsIn(os))
    BY <1>1, WhereIs DEF ExplorerInv, ListInv
  <2> QED BY <2>1, PartIsLess
<1>4. ListInv'
  <2> HIDE DEF os
  <2> QED BY <1>1, <1>2, <1>3, ReadingIs DEF ExplorerInv, ListInv, os
<1>5. StoreInv' BY <1>1, StoreStays DEF ExplorerInv, StoreInv, E!TypeOK
<1>6. TellsInv'
  <2>1. list.since # kept /\ timeline.until # kept => CountsAgree'
    BY <1>1 DEF ExplorerInv, TellsInv, CountsAgree, E!SameWindow
  <2>2. list.since # kept => RanksAgree' BY <1>1 DEF RanksAgree
  <2> QED BY <1>1, <2>1, <2>2 DEF TellsInv
<1> QED BY <1>1, <1>4, <1>5, <1>6, TimelineStays, DetailStays, SummaryStays DEF ExplorerInv

LEMMA RankKeeps == ASSUME E!ErrorExplorerAssumption, ExplorerInv, E!Rank PROVE ExplorerInv'
<1> DEFINE w  == timeline.window
           os == E!Where(filter, w)
<1>1. PICK T \in E!Top(E!GroupsIn(os), TopN, os, filter.metric) :
        timeline' = [step |-> IF T = {} THEN "done" ELSE "series", window |-> w, ranked |-> T,
                     series |-> E!CountsOf({}, os), since |-> kept, until |-> kept]
  BY DEF E!Rank
<1>2. UNCHANGED <<now, occurrences, category, kept, filter, list, detail, summary>> BY DEF E!Rank
<1>3. /\ timeline'.step = IF T = {} THEN "done" ELSE "series"
      /\ timeline'.window = w /\ timeline'.ranked = T /\ DOMAIN timeline'.series = {}
      /\ timeline'.since = kept /\ timeline'.until = kept
      /\ DOMAIN timeline' = {"step", "window", "ranked", "series", "since", "until"}
  BY <1>1 DEF E!CountsOf
<1>4. T \subseteq E!GroupsIn(InWindow(w))
  <2>1. T \subseteq E!GroupsIn(os) BY <1>1, TopIs, Zenon
  <2> QED BY <2>1, WhereIs DEF ExplorerInv
<1>5. kept \in Nat BY DEF ExplorerInv, StoreInv
<1>6. TimelineInv'
  <2>1. timeline'.step = "done" => timeline'.ranked = {} BY <1>3
  <2>2. timeline'.ranked \in E!Top(E!GroupsIn(os), TopN, os, filter.metric) BY <1>3
  <2> HIDE DEF os
  <2> QED BY <1>2, <1>3, <1>4, <1>5, <2>1, <2>2, ReadingIs DEF TimelineInv, os
<1>7. StoreInv' BY <1>2, <1>3, StoreStays DEF ExplorerInv, StoreInv, E!TypeOK
<1>8. TellsInv'
  <2>1. list.since # kept => RanksAgree' BY <1>2, <1>3 DEF RanksAgree
  <2> QED BY <1>2, <1>3, <2>1 DEF TellsInv
<1> QED BY <1>2, <1>6, <1>7, <1>8, ListStays, DetailStays, SummaryStays DEF ExplorerInv

LEMMA AssembleSeriesKeeps == ASSUME ExplorerInv, E!AssembleSeries PROVE ExplorerInv'
<1> DEFINE w  == timeline.window
           os == InWindow(w)
<1>1. /\ timeline.step = "series"
      /\ timeline' = [timeline EXCEPT !.step = "done", !.series = E!Series, !.until = kept]
      /\ UNCHANGED <<now, occurrences, category, kept, filter, list, detail, summary>>
  BY DEF E!AssembleSeries
<1>2. /\ timeline.ranked \subseteq E!GroupsIn(os)
      /\ timeline.since \in Nat /\ timeline.since <= kept
      /\ kept \in Nat
  BY <1>1 DEF ExplorerInv, TimelineInv, StoreInv
<1>3. E!Series = E!CountsOf(timeline.ranked \cap E!GroupsIn(os), os) BY DEF E!Series, InWindow
<1>4. DOMAIN E!Series = timeline.ranked /\ \A g \in timeline.ranked : E!Series[g] = CountOf(w, g)
  BY <1>2, <1>3 DEF E!CountsOf, CountOf
<1>5. \A g : CountOf(w, g) \in Nat BY OfGroupIs DEF ExplorerInv, CountOf, InWindow
<1>6. /\ timeline'.step = "done" /\ timeline'.window = w /\ timeline'.ranked = timeline.ranked
      /\ timeline'.since = timeline.since /\ timeline'.until = kept /\ timeline'.series = E!Series
      /\ DOMAIN timeline' = {"step", "window", "ranked", "series", "since", "until"}
  BY <1>1 DEF ExplorerInv, TimelineInv
<1> HIDE DEF os
<1>7. TimelineInv'
  BY <1>1, <1>2, <1>4, <1>5, <1>6, ReadingIs DEF ExplorerInv, TimelineInv
<1>8. StoreInv' BY <1>1, <1>6, StoreStays DEF ExplorerInv, StoreInv, E!TypeOK
<1>9. TellsInv'
  <2>1. list.since # kept => RanksAgree' BY <1>1, <1>6 DEF RanksAgree
  <2> QED BY <1>1, <1>6, <2>1 DEF TellsInv
<1> QED BY <1>1, <1>7, <1>8, <1>9, ListStays, DetailStays, SummaryStays DEF ExplorerInv

\* The errors of the group of a page, and those of its tests that are listed.
LEMMA DetailErrorsAre ==
  ASSUME ExplorerInv, NEW w, NEW g
  PROVE  LET os == E!DetailErrors(w, g)
         IN  /\ IsFiniteSet(os) /\ CountOf(w, g) \in Nat /\ E!Cardinality(os) \in Nat
             /\ CountOf(w, g) <= E!Cardinality(os)
BY OfGroupIs DEF ExplorerInv, CountOf, InWindow, E!DetailErrors

LEMMA ListedAre ==
  ASSUME NEW os, IsFiniteSet(os), NEW T
  PROVE  LET n == E!Cardinality({o \in os : o.test \in T})
         IN  /\ n \in Nat /\ n <= E!Cardinality(os)
             /\ T = DOMAIN E!ByTest(os) => n = E!Cardinality(os)
<1> DEFINE these == {o \in os : o.test \in T}
<1>1. these \in SUBSET os OBVIOUS
<1>2. T = DOMAIN E!ByTest(os) => these = os BY DEF E!ByTest
<1> HIDE DEF these
<1>3. E!Cardinality(these) \in Nat /\ E!Cardinality(these) <= E!Cardinality(os) BY <1>1, PartIsLess
<1> QED BY <1>2, <1>3 DEF these

\* The page of one group.
LEMMA DetailTestsKeeps == ASSUME ExplorerInv, NEW g \in Groups, E!DetailTests(g) PROVE ExplorerInv'
<1> DEFINE w == E!Window(filter)
           os == E!DetailErrors(w, g)
           n == E!Cardinality(os)
<1>1. /\ list.step = "done" /\ g \in DOMAIN list.rows
      /\ UNCHANGED <<now, occurrences, category, kept, filter, list, timeline, summary>>
  BY DEF E!DetailTests
<1>2. PICK T : /\ detail'.step = "branches" /\ detail'.group = g /\ detail'.window = w
               /\ detail'.listed = IF w = list.window THEN list.rows[g] ELSE 0
               /\ detail'.tests = E!Cardinality({o \in os : o.test \in T})
               /\ detail'.allTests => T = DOMAIN E!ByTest(os)
  <2>1. PICK T : detail' = [step |-> "branches", group |-> g, window |-> w,
                            listed |-> IF w = list.window THEN list.rows[g] ELSE 0,
                            tests |-> E!Cardinality({o \in os : o.test \in T}),
                            allTests |-> T = DOMAIN E!ByTest(os)]
    BY Zenon DEF E!DetailTests
  <2> HIDE DEF w, os
  <2> QED BY <2>1
<1>3. list.rows[g] \in Nat /\ list.rows[g] <= CountOf(list.window, g)
  BY <1>1 DEF ExplorerInv, ListInv
<1>4. /\ n \in Nat /\ CountOf(w, g) \in Nat /\ CountOf(w, g) <= n
      /\ detail'.tests \in Nat /\ detail'.tests <= n /\ (detail'.allTests => detail'.tests = n)
  <2> HIDE DEF w
  <2>1. IsFiniteSet(os) /\ CountOf(w, g) \in Nat /\ n \in Nat /\ CountOf(w, g) <= n
    BY DetailErrorsAre
  <2> HIDE DEF os
  <2>2. LET m == E!Cardinality({o \in os : o.test \in T})
        IN  m \in Nat /\ m <= n /\ (T = DOMAIN E!ByTest(os) => m = n)
    BY <2>1, ListedAre
  <2> QED BY <1>2, <2>1, <2>2
<1>5. \A v, h : E!DetailErrors(v, h)' = E!DetailErrors(v, h)
  BY <1>1 DEF E!DetailErrors, E!OfGroup, E!Occurring
<1>6. w = list.window => list.rows[g] <= n BY <1>3, <1>4
<1> HIDE DEF w
<1>7. (LET m == E!Cardinality(E!DetailErrors(detail.window, detail.group))
       IN  detail.listed <= m /\ detail.tests <= m)'
  BY <1>2, <1>4, <1>5, <1>6
<1> HIDE DEF os
<1>8. /\ detail'.listed \in Nat /\ detail'.tests \in Nat
      /\ detail'.allTests => detail'.listed <= detail'.tests
  BY <1>2, <1>3, <1>4, <1>6
<1>9. DetailInv' BY <1>2, <1>7, <1>8 DEF DetailInv
<1>10. StoreInv' BY <1>1, <1>2, StoreStays DEF ExplorerInv, StoreInv, E!TypeOK
<1> QED BY <1>1, <1>9, <1>10, ListStays, TimelineStays, TellsStays, SummaryStays DEF ExplorerInv

LEMMA DetailBranchesKeeps == ASSUME ExplorerInv, E!DetailBranches PROVE ExplorerInv'
<1> DEFINE os == E!DetailErrors(detail.window, detail.group)
<1>1. /\ detail.step = "branches"
      /\ UNCHANGED <<now, occurrences, category, kept, filter, list, timeline, summary>>
  BY DEF E!DetailBranches
<1>2. PICK B : /\ detail'.step = "done" /\ detail'.listed = detail.listed
               /\ detail'.tests = detail.tests /\ detail'.allTests = detail.allTests
               /\ detail'.branches = E!Cardinality({o \in os : BranchOf[o.run] \in B})
               /\ detail'.allBranches => B = DOMAIN E!ByBranch(os)
  <2>1. PICK B : detail' = [step |-> "done", group |-> detail.group, listed |-> detail.listed,
                            tests |-> detail.tests, allTests |-> detail.allTests,
                            branches |-> E!Cardinality({o \in os : BranchOf[o.run] \in B}),
                            allBranches |-> B = DOMAIN E!ByBranch(os)]
    BY Zenon DEF E!DetailBranches
  <2> HIDE DEF os
  <2> QED BY <2>1
<1>3. /\ detail.listed \in Nat /\ detail.tests \in Nat
      /\ detail.allTests => detail.listed <= detail.tests
      /\ detail.listed <= E!Cardinality(os) /\ detail.tests <= E!Cardinality(os)
  BY <1>1 DEF ExplorerInv, DetailInv
<1> HIDE DEF os
<1>4. detail'.allBranches => detail'.branches = E!Cardinality(os)
  <2>1. \A X : X = DOMAIN E!ByBranch(os) => {o \in os : BranchOf[o.run] \in X} = os
    BY DEF E!ByBranch
  <2> QED BY <1>2, <2>1
<1>5. DetailInv' BY <1>2, <1>3, <1>4 DEF DetailInv, os
<1>6. StoreInv' BY <1>1, <1>2, StoreStays DEF ExplorerInv, StoreInv, E!TypeOK
<1> QED BY <1>1, <1>5, <1>6, ListStays, TimelineStays, TellsStays, SummaryStays DEF ExplorerInv

\* The errors of one run.
LEMMA SummaryTopKeeps == ASSUME ExplorerInv, NEW r \in Runs, E!SummaryTop(r) PROVE ExplorerInv'
<1>1. PICK T \in E!Top(E!GroupsIn(OfRun(r)), 5, OfRun(r), "occurrences") :
        summary' = [step |-> "count", run |-> r, top |-> E!CountsOf(T, OfRun(r))]
  BY DEF E!SummaryTop, OfRun
<1>2. UNCHANGED <<now, occurrences, category, kept, filter, list, timeline, detail>>
  BY DEF E!SummaryTop
<1>3. /\ summary'.step = "count" /\ summary'.run = r /\ DOMAIN summary'.top = T
      /\ T \subseteq E!GroupsIn(OfRun(r))
  BY <1>1, TopIs DEF E!CountsOf
<1>4. SummaryInv' BY <1>2, <1>3, ReadingIs DEF SummaryInv
<1>5. StoreInv' BY <1>2, <1>3, StoreStays DEF ExplorerInv, StoreInv, E!TypeOK
<1> QED BY <1>2, <1>4, <1>5, ListStays, TimelineStays, TellsStays, DetailStays DEF ExplorerInv

LEMMA SummaryCountsKeeps == ASSUME ExplorerInv, E!SummaryCounts PROVE ExplorerInv'
<1> DEFINE os == OfRun(summary.run)
<1>1. /\ summary.step = "count" /\ summary'.step = "done" /\ summary'.top = summary.top
      /\ summary'.groups = E!Cardinality(E!GroupsIn(os)) /\ summary'.failed = E!Cardinality(os)
      /\ UNCHANGED <<now, occurrences, category, kept, filter, list, timeline, detail>>
  BY DEF E!SummaryCounts, OfRun
<1>2. os \subseteq occurrences /\ IsFiniteSet(occurrences) BY DEF OfRun, ExplorerInv, StoreInv
<1>3. IsFiniteSet(os) BY <1>2, PartIsLess
<1>4. IsFiniteSet(E!GroupsIn(os)) /\ E!Cardinality(E!GroupsIn(os)) <= E!Cardinality(os)
  BY <1>3, GroupsAreFewer
<1>5. DOMAIN summary.top \subseteq E!GroupsIn(os) BY <1>1 DEF ExplorerInv, SummaryInv
<1> HIDE DEF os
<1>6. E!Cardinality(DOMAIN summary.top) <= E!Cardinality(E!GroupsIn(os)) BY <1>4, <1>5, PartIsLess
<1>7. SummaryInv' BY <1>1, <1>4, <1>6 DEF SummaryInv
<1>8. StoreInv' BY <1>1, StoreStays DEF ExplorerInv, StoreInv, E!TypeOK
<1> QED BY <1>1, <1>7, <1>8, ListStays, TimelineStays, TellsStays, DetailStays DEF ExplorerInv

-----------------------------------------------------------------------------
\* The list and the timeline of a page tell the same, whatever the worker stores between their
\* statements; each answer is consistent in itself, and the page of a group counts no fewer
\* errors than the row of the list it was opened from, by its tests or by its branches, if it
\* lists all of them.
THEOREM ErrorsAreTold ==
  ASSUME E!ErrorExplorerAssumption
  PROVE  E!Spec => [](E!TypeOK /\ E!TimelineTellsTheList /\ E!StatementsFollow)
<1>1. E!Init => ExplorerInv
  <2> SUFFICES ASSUME E!Init PROVE ExplorerInv OBVIOUS
  <2>1. /\ list.step = "none" /\ timeline.step = "none" /\ detail.step = "none"
        /\ summary.step = "none"
    BY DEF E!Init, E!NoAnswer
  <2>2. IsFiniteSet({}) /\ E!Cardinality({}) = 0 BY FS_EmptySet, ErrorsCountAlike
  <2>3. IsFiniteSet(Runs) /\ IsFiniteSet(TestNames) BY FiniteAlike DEF E!ErrorExplorerAssumption
  <2>4. E!Cardinality(Runs) \in Nat /\ E!Cardinality(TestNames) \in Nat BY <2>3, PartIsLess
  <2>5. E!Cardinality(Runs) * E!Cardinality(TestNames) \in Nat BY <2>4
  <2>6. 0 \in E!Times
    <3>1. MaxTime \in Nat BY DEF E!ErrorExplorerAssumption
    <3> QED BY <3>1 DEF E!Times
  <2>7. E!TypeOK
    <3>1. kept = 0 /\ kept \in 0 .. E!Cardinality(Runs) * E!Cardinality(TestNames)
      BY <2>5 DEF E!Init
    <3>2. category \in [Groups -> E!Categories] BY DEF E!Init, E!Categories
    <3> QED BY <2>1, <2>6, <3>1, <3>2 DEF E!Init, E!TypeOK
  <2>8. StoreInv BY <2>2, <2>7 DEF StoreInv, E!Init
  <2> QED BY <2>1, <2>8
      DEF ExplorerInv, ListInv, TimelineInv, TellsInv, CountsAgree, RanksAgree, DetailInv,
          SummaryInv
<1>2. ExplorerInv /\ [E!Next]_E!vars => ExplorerInv'
  <2> SUFFICES ASSUME ExplorerInv, [E!Next]_E!vars PROVE ExplorerInv' OBVIOUS
  <2>1. CASE UNCHANGED E!vars
    <3>1. UNCHANGED <<now, occurrences, category, kept, filter, list, timeline, detail, summary>>
      BY <2>1 DEF E!vars
    <3>2. StoreInv' BY <3>1, StoreStays DEF ExplorerInv, StoreInv, E!TypeOK
    <3> QED BY <3>1, <3>2, ListStays, TimelineStays, TellsStays, DetailStays, SummaryStays
        DEF ExplorerInv
  <2>2. CASE E!Next
    BY <2>2, StoreErrorKeeps, OpenKeeps, ListRowsKeeps, ListCountKeeps, RankKeeps,
       AssembleSeriesKeeps, DetailTestsKeeps, DetailBranchesKeeps, SummaryTopKeeps,
       SummaryCountsKeeps, TickKeeps
    DEF E!Next
  <2> QED BY <2>1, <2>2
<1>3. ExplorerInv => E!TypeOK /\ E!TimelineTellsTheList /\ E!StatementsFollow
  <2> SUFFICES ASSUME ExplorerInv PROVE E!TypeOK /\ E!TimelineTellsTheList /\ E!StatementsFollow
    OBVIOUS
  <2>1. CountsAgree BY CountsAgreeNow DEF ExplorerInv, TellsInv
  <2>2. RanksAgree BY RanksAgreeNow DEF ExplorerInv, TellsInv
  <2>3. E!TimelineTellsTheList BY <2>1, <2>2 DEF E!TimelineTellsTheList, CountsAgree, RanksAgree
  <2>4. E!StatementsFollow
    BY DEF ExplorerInv, ListInv, TimelineInv, DetailInv, SummaryInv, E!StatementsFollow
  <2> QED BY <2>3, <2>4 DEF ExplorerInv, StoreInv
<1> QED BY <1>1, <1>2, <1>3, PTL DEF E!Spec

-----------------------------------------------------------------------------
(* The page that creates accounts. *)

\* An answer on its way calls only an invitation invalid that has ended.
EndedAnswers ==
  lost = 0 => /\ \A c \in Checks : check[c] = "invalid" => ~valid
              /\ inviteData = "invalid" => ~valid

\* A session that may still be restored is of the user that is shown.
RestoringIsAlone ==
  ~auth.overtaken => /\ auth.restoring => auth.user = "earlier" /\ auth.token = NoOne
                     /\ auth.token # NoOne => auth.user = auth.token

RegistrationInv == R!TypeOK /\ R!WaitsForAnswers /\ EndedAnswers /\ R!MadeIsTold /\ RestoringIsAlone

-----------------------------------------------------------------------------
\* What is heard of an invitation.
LEMMA HearKeeps ==
  ASSUME R!RegisterPageAssumption, RegistrationInv, NEW c \in Checks,
         NEW data \in {"valid", "invalid"}, R!Hear(c, data),
         \/ data = check[c] /\ UNCHANGED lost
         \/ R!Fault
  PROVE  RegistrationInv'
<1>1. check' \in [Checks -> {"idle", "sent", "valid", "invalid"}]
  BY DEF RegistrationInv, R!TypeOK, R!Hear
<1>2. lost' \in 0 .. MaxFailures /\ (lost' = 0 => lost = 0 /\ data = check[c])
  BY DEF RegistrationInv, R!TypeOK, R!Fault, R!RegisterPageAssumption
<1>3. R!TypeOK' BY <1>1, <1>2 DEF RegistrationInv, R!TypeOK, R!Hear, R!input
<1>4. R!WaitsForAnswers' BY DEF RegistrationInv, R!WaitsForAnswers, R!Hear, R!input
<1>5. EndedAnswers'
  <2>1. \A d \in Checks : check'[d] \in {check[d], "idle"} BY DEF RegistrationInv, R!TypeOK, R!Hear
  <2> QED BY <1>2, <2>1 DEF RegistrationInv, EndedAnswers, R!Hear
<1> QED BY <1>3, <1>4, <1>5 DEF RegistrationInv, R!MadeIsTold, RestoringIsAlone, R!Hear, R!input

LEMMA InvitationKeeps ==
  ASSUME R!RegisterPageAssumption, RegistrationInv,
         \/ R!RegisterWithout \/ R!InvitationEnds
         \/ \E c \in Checks : \/ R!Back(c) \/ R!ValidateToken(c)
                             \/ R!Validated(c) \/ R!ValidationFails(c)
  PROVE  RegistrationInv'
<1>1. CASE R!RegisterWithout
  BY <1>1 DEF R!RegisterWithout, RegistrationInv, R!TypeOK, R!WaitsForAnswers, EndedAnswers,
              R!MadeIsTold, RestoringIsAlone, R!invitation, R!input
<1>2. CASE R!InvitationEnds
  <2>1. ~valid' /\ valid' \in BOOLEAN BY <1>2 DEF R!InvitationEnds
  <2>2. UNCHANGED <<invitation, check, inviteLoading, inviteData, form, error, registering,
                    registration, account, auth, lost>>
    BY <1>2 DEF R!InvitationEnds, R!invitation, R!input
  <2>3. R!TypeOK' BY <2>1, <2>2 DEF RegistrationInv, R!TypeOK
  <2>4. (R!WaitsForAnswers /\ R!MadeIsTold)'
    BY <2>2 DEF RegistrationInv, R!WaitsForAnswers, R!MadeIsTold
  <2>5. (EndedAnswers /\ RestoringIsAlone)'
    BY <2>1, <2>2 DEF RegistrationInv, EndedAnswers, RestoringIsAlone
  <2> QED BY <2>3, <2>4, <2>5 DEF RegistrationInv
<1>3. ASSUME NEW c \in Checks, R!Back(c) PROVE RegistrationInv'
  <2>1. /\ invitation' = "here" /\ check[c] = "idle" /\ check' = [check EXCEPT ![c] = "sent"]
        /\ UNCHANGED <<valid, inviteLoading, inviteData, R!input, registration, account, auth, lost>>
    BY <1>3 DEF R!Back
  <2>2. R!TypeOK' BY <2>1 DEF RegistrationInv, R!TypeOK, R!input
  <2>3. \A d \in Checks : check'[d] = check[d] \/ check'[d] = "sent"
    BY <2>1 DEF RegistrationInv, R!TypeOK
  <2>4. R!WaitsForAnswers' BY <2>1, <2>3 DEF RegistrationInv, R!WaitsForAnswers, R!input
  <2>5. EndedAnswers' BY <2>1, <2>3 DEF RegistrationInv, EndedAnswers
  <2> QED BY <2>1, <2>2, <2>4, <2>5 DEF RegistrationInv, R!MadeIsTold, RestoringIsAlone, R!input
<1>4. ASSUME NEW c \in Checks, R!ValidateToken(c) PROVE RegistrationInv'
  <2> DEFINE told == IF valid THEN "valid" ELSE "invalid"
  <2>1. /\ check' = [check EXCEPT ![c] = told]
        /\ UNCHANGED <<invitation, valid, inviteLoading, inviteData, R!input, registration, account, auth,
                       lost>>
    BY <1>4 DEF R!ValidateToken
  <2>2. R!TypeOK' BY <2>1 DEF RegistrationInv, R!TypeOK, R!input
  <2>3. \A d \in Checks : check'[d] = check[d] \/ check'[d] = told
    BY <2>1 DEF RegistrationInv, R!TypeOK
  <2>4. R!WaitsForAnswers'
    <3>1. \A d \in Checks : check[d] # "idle" => check'[d] # "idle" BY <2>3
    <3> QED BY <2>1, <3>1 DEF RegistrationInv, R!WaitsForAnswers, R!input
  <2>5. EndedAnswers' BY <2>1, <2>3 DEF RegistrationInv, EndedAnswers
  <2> QED BY <2>1, <2>2, <2>4, <2>5 DEF RegistrationInv, R!MadeIsTold, RestoringIsAlone, R!input
<1>5. ASSUME NEW c \in Checks, R!Validated(c) \/ R!ValidationFails(c) PROVE RegistrationInv'
  BY <1>5, HearKeeps DEF R!Validated, R!ValidationFails
<1> QED BY <1>1, <1>2, <1>3, <1>4, <1>5

\* The form, and the requests that register.
LEMMA FormKeeps ==
  ASSUME R!RegisterPageAssumption, RegistrationInv,
         \/ \E f \in R!Forms : R!Fill(f)
         \/ R!Submit \/ R!Refuse \/ R!MakeAccount \/ R!Registered \/ R!RegistrationFails
  PROVE  RegistrationInv'
<1> USE DEF RegistrationInv
<1>1. ASSUME NEW f \in R!Forms, R!Fill(f) PROVE RegistrationInv'
  BY <1>1 DEF R!Fill, R!TypeOK, R!WaitsForAnswers, EndedAnswers, R!MadeIsTold, RestoringIsAlone,
              R!invitation
<1>2. CASE R!Submit
  <2>1. /\ ~registering
        /\ \/ /\ error' = FALSE /\ registering' = TRUE /\ account' = "none"
              /\ registration' = [step |-> "sent", invited |-> invitation = "here"]
           \/ error' = TRUE /\ UNCHANGED <<registering, registration, account>>
        /\ UNCHANGED <<invitation, valid, check, inviteLoading, inviteData, form, auth, lost>>
    BY <1>2 DEF R!Submit, R!invitation
  <2>2. R!TypeOK'
    <3>1. [step |-> "sent", invited |-> invitation = "here"] \in R!Posts BY DEF R!Posts
    <3> QED BY <2>1, <3>1 DEF R!TypeOK
  <2>3. R!WaitsForAnswers' BY <2>1 DEF R!WaitsForAnswers
  <2>4. R!MadeIsTold' BY <2>1 DEF R!MadeIsTold
  <2> QED BY <2>1, <2>2, <2>3, <2>4 DEF EndedAnswers, RestoringIsAlone
<1>3. CASE R!Refuse
  <2>1. registering BY <1>3 DEF R!Refuse, R!WaitsForAnswers
  <2> QED BY <1>3, <2>1 DEF R!Refuse, R!TypeOK, R!Posts, R!WaitsForAnswers, EndedAnswers,
                            R!MadeIsTold, RestoringIsAlone, R!invitation, R!input
<1>4. CASE R!MakeAccount
  <2>1. registering BY <1>4 DEF R!MakeAccount, R!WaitsForAnswers
  <2>2. PICK s \in {"created", "refused"} : registration' = [registration EXCEPT !.step = s]
    BY <1>4 DEF R!MakeAccount
  <2>3. /\ account' = "made" /\ valid' = (valid /\ ~registration.invited)
        /\ UNCHANGED <<invitation, check, inviteLoading, inviteData, form, error, registering, auth,
                       lost>>
    BY <1>4 DEF R!MakeAccount, R!invitation, R!input
  <2>4. R!TypeOK'
    <3>1. registration' \in R!Posts BY <2>2 DEF R!TypeOK, R!Posts
    <3> QED BY <2>3, <3>1 DEF R!TypeOK
  <2>5. R!WaitsForAnswers'
    <3>1. registration'.step = s BY <2>2 DEF R!TypeOK, R!Posts
    <3> QED BY <2>1, <2>3, <3>1 DEF R!WaitsForAnswers
  <2> QED BY <2>1, <2>3, <2>4, <2>5 DEF EndedAnswers, R!MadeIsTold, RestoringIsAlone
<1>5. CASE R!Registered
  <2>1. /\ registration' = R!NoPost /\ registering' = FALSE /\ error' = error /\ account' = "told"
        /\ auth' = [auth EXCEPT !.user = "new", !.token = "new", !.overtaken = auth.restoring]
        /\ UNCHANGED <<invitation, valid, check, inviteLoading, inviteData, form, lost>>
    BY <1>5 DEF R!Registered, R!Over, R!invitation
  <2>2. R!TypeOK'
    <3>1. auth' \in R!Sessions BY <2>1 DEF R!TypeOK, R!Sessions
    <3>2. R!NoPost \in R!Posts BY DEF R!NoPost, R!Posts
    <3> QED BY <2>1, <3>1, <3>2 DEF R!TypeOK
  <2>3. R!WaitsForAnswers' BY <2>1 DEF R!WaitsForAnswers, R!NoPost
  <2>4. auth'.restoring = auth.restoring /\ auth'.overtaken = auth.restoring
        /\ auth'.user = "new" /\ auth'.token = "new"
    BY <2>1 DEF R!TypeOK, R!Sessions
  <2>5. RestoringIsAlone' BY <2>4 DEF RestoringIsAlone
  <2> QED BY <2>1, <2>2, <2>3, <2>5 DEF EndedAnswers, R!MadeIsTold
<1>6. CASE R!RegistrationFails
  <2>1. /\ registration' = R!NoPost /\ registering' = FALSE /\ error' = TRUE
        /\ UNCHANGED <<invitation, valid, check, inviteLoading, inviteData, form, account, auth>>
    BY <1>6 DEF R!RegistrationFails, R!Over, R!invitation
  <2>2. lost' \in 0 .. MaxFailures /\ (lost' = 0 => lost = 0)
    BY <1>6 DEF R!RegistrationFails, R!Fault, R!TypeOK, R!RegisterPageAssumption
  <2>3. R!TypeOK'
    <3>1. R!NoPost \in R!Posts BY DEF R!NoPost, R!Posts
    <3> QED BY <2>1, <2>2, <3>1 DEF R!TypeOK
  <2>4. R!WaitsForAnswers' BY <2>1 DEF R!WaitsForAnswers, R!NoPost
  <2> QED BY <2>1, <2>2, <2>3, <2>4 DEF EndedAnswers, R!MadeIsTold, RestoringIsAlone
<1> QED BY <1>1, <1>2, <1>3, <1>4, <1>5, <1>6

\* The session of before.
LEMMA SessionKeeps ==
  ASSUME RegistrationInv, R!Restored \/ R!NotRestored
  PROVE  RegistrationInv'
<1>1. /\ auth.restoring
      /\ \/ auth' = [auth EXCEPT !.restoring = FALSE, !.token = "earlier"]
         \/ auth' = [auth EXCEPT !.restoring = FALSE, !.user = NoOne]
      /\ UNCHANGED <<invitation, valid, check, inviteLoading, inviteData, form, error, registering, registration,
                     account, lost>>
  BY DEF R!Restored, R!NotRestored, R!invitation, R!input
<1>2. R!TypeOK'
  <2>1. auth' \in R!Sessions BY <1>1 DEF RegistrationInv, R!TypeOK, R!Sessions
  <2> QED BY <1>1, <2>1 DEF RegistrationInv, R!TypeOK
<1>3. RestoringIsAlone'
  <2>1. auth'.overtaken = auth.overtaken /\ auth'.restoring = FALSE
    BY <1>1 DEF RegistrationInv, R!TypeOK, R!Sessions
  <2>2. \/ auth'.token = "earlier" /\ auth'.user = auth.user
        \/ auth'.token = auth.token /\ auth'.user = NoOne
    BY <1>1 DEF RegistrationInv, R!TypeOK, R!Sessions
  <2> QED BY <1>1, <2>1, <2>2 DEF RegistrationInv, RestoringIsAlone
<1> QED BY <1>1, <1>2, <1>3 DEF RegistrationInv, R!WaitsForAnswers, EndedAnswers, R!MadeIsTold

-----------------------------------------------------------------------------
\* Whatever becomes of the invitation and of the session of before, and whichever requests fail:
\* the page waits only for what is on its way, an invitation it calls invalid has ended, an
\* account that was made is not kept from its user, and the token is that of the user shown.
THEOREM RegistrationIsTold ==
  ASSUME R!RegisterPageAssumption
  PROVE  R!Spec => [](R!TypeOK /\ R!RegistrationHolds)
<1>1. R!Init => RegistrationInv
  <2> SUFFICES ASSUME R!Init PROVE RegistrationInv OBVIOUS
  <2>1. PICK c \in Checks :
          check = [d \in Checks |-> IF d = c /\ invitation = "here" THEN "sent" ELSE "idle"]
    BY DEF R!Init
  <2>2. PICK u \in {"earlier", NoOne} : auth = R!Remembered(u) BY DEF R!Init
  <2>3. R!TypeOK
    <3>1. check \in [Checks -> {"idle", "sent", "valid", "invalid"}] BY <2>1
    <3>2. auth \in R!Sessions BY <2>2 DEF R!Remembered, R!Sessions
    <3>3. registration \in R!Posts /\ form \in R!Forms BY DEF R!Init, R!NoPost, R!Posts, R!Forms
    <3>4. inviteLoading \in BOOLEAN /\ valid \in BOOLEAN /\ lost \in 0 .. MaxFailures
      BY DEF R!Init, R!RegisterPageAssumption
    <3>5. error \in BOOLEAN /\ registering \in BOOLEAN BY DEF R!Init
    <3> QED BY <3>1, <3>2, <3>3, <3>4, <3>5 DEF R!Init, R!TypeOK
  <2>4. R!WaitsForAnswers BY <2>1 DEF R!Init, R!WaitsForAnswers, R!NoPost
  <2>5. EndedAnswers BY <2>1 DEF R!Init, EndedAnswers
  <2>6. RestoringIsAlone BY <2>2 DEF RestoringIsAlone, R!Remembered
  <2> QED BY <2>3, <2>4, <2>5, <2>6 DEF R!Init, RegistrationInv, R!MadeIsTold
<1>2. RegistrationInv /\ [R!Next]_R!vars => RegistrationInv'
  <2> SUFFICES ASSUME RegistrationInv, [R!Next]_R!vars PROVE RegistrationInv' OBVIOUS
  <2>1. CASE UNCHANGED R!vars
    BY <2>1 DEF R!vars, RegistrationInv, R!TypeOK, R!WaitsForAnswers, EndedAnswers, R!MadeIsTold,
                RestoringIsAlone
  <2> QED BY <2>1, InvitationKeeps, FormKeeps, SessionKeeps DEF R!Next
<1>3. RegistrationInv => R!TypeOK /\ R!RegistrationHolds
  BY DEF RegistrationInv, EndedAnswers, RestoringIsAlone, R!RegistrationHolds, R!InvalidHasEnded,
         R!TokenIsTheUsers, R!IsAuthenticated
<1> QED BY <1>1, <1>2, <1>3, PTL DEF R!Spec

-----------------------------------------------------------------------------
(* The dashboard. *)

\* The part that moves is always the same, and moves as its specification says.
LEMMA OneMoves ==
  DashboardSpec =>
    /\ [](part # "gateway") \/ Spec
    /\ [](part # "pages") \/ D!Spec
    /\ [](part # "parameters") \/ U!Spec
    /\ [](part # "onboarding") \/ N!Spec
    /\ [](part # "registration") \/ R!Spec
    /\ [](part # "fingerprints") \/ F!Spec
    /\ [](part # "analytics") \/ A!Spec
    /\ [](part # "errors") \/ E!Spec
<1>1. part # "gateway" /\ [FALSE]_part => (part # "gateway")' OBVIOUS
<1>2. part # "pages" /\ [FALSE]_part => (part # "pages")' OBVIOUS
<1>3. part # "parameters" /\ [FALSE]_part => (part # "parameters")' OBVIOUS
<1>4. part # "onboarding" /\ [FALSE]_part => (part # "onboarding")' OBVIOUS
<1>5. part # "registration" /\ [FALSE]_part => (part # "registration")' OBVIOUS
<1>6. part # "fingerprints" /\ [FALSE]_part => (part # "fingerprints")' OBVIOUS
<1>7. part # "analytics" /\ [FALSE]_part => (part # "analytics")' OBVIOUS
<1>8. part # "errors" /\ [FALSE]_part => (part # "errors")' OBVIOUS
<1>9. part = "gateway" =>
       /\ part # "pages" /\ part # "parameters" /\ part # "onboarding" /\ part # "registration"
       /\ part # "fingerprints" /\ part # "analytics" /\ part # "errors"
  OBVIOUS
<1>10. part = "pages" =>
       /\ part # "gateway" /\ part # "parameters" /\ part # "onboarding" /\ part # "registration"
       /\ part # "fingerprints" /\ part # "analytics" /\ part # "errors"
  OBVIOUS
<1>11. part = "parameters" =>
       /\ part # "gateway" /\ part # "pages" /\ part # "onboarding" /\ part # "registration"
       /\ part # "fingerprints" /\ part # "analytics" /\ part # "errors"
  OBVIOUS
<1>12. part = "onboarding" =>
       /\ part # "gateway" /\ part # "pages" /\ part # "parameters" /\ part # "registration"
       /\ part # "fingerprints" /\ part # "analytics" /\ part # "errors"
  OBVIOUS
<1>13. part = "registration" =>
       /\ part # "gateway" /\ part # "pages" /\ part # "parameters" /\ part # "onboarding"
       /\ part # "fingerprints" /\ part # "analytics" /\ part # "errors"
  OBVIOUS
<1>14. part = "fingerprints" =>
       /\ part # "gateway" /\ part # "pages" /\ part # "parameters" /\ part # "onboarding"
       /\ part # "registration" /\ part # "analytics" /\ part # "errors"
  OBVIOUS
<1>15. part = "analytics" =>
       /\ part # "gateway" /\ part # "pages" /\ part # "parameters" /\ part # "onboarding"
       /\ part # "registration" /\ part # "fingerprints" /\ part # "errors"
  OBVIOUS
<1>16. part = "errors" =>
       /\ part # "gateway" /\ part # "pages" /\ part # "parameters" /\ part # "onboarding"
       /\ part # "registration" /\ part # "fingerprints" /\ part # "analytics"
  OBVIOUS
<1> QED BY <1>1, <1>2, <1>3, <1>4, <1>5, <1>6, <1>7, <1>8, <1>9, <1>10, <1>11, <1>12, <1>13, <1>14, <1>15, <1>16, PTL DEF DashboardSpec

\* Whichever part moves, its state has the types that Dashboard names, and, as for every part
\* below, for all values of the constants.
THEOREM DashboardTyped == ASSUME DashboardAssumption PROVE DashboardSpec => []Typed
<1> USE DEF DashboardAssumption
<1>1. Spec => []TypeOK BY GatewayTyped
<1>2. D!Spec => []D!TypeOK BY PagesTyped
<1>3. U!Spec => [](U!TypeOK /\ U!ParametersAgree) BY ParametersFollow
<1>4. N!Spec => [](N!TypeOK /\ N!OnboardingHolds) BY NewcomersAreLed
<1>5. R!Spec => [](R!TypeOK /\ R!RegistrationHolds) BY RegistrationIsTold
<1>6. F!Spec => [](F!TypeOK /\ F!FingerprintsHold) BY ErrorsAreGrouped
<1>7. A!Spec => [](A!TypeOK /\ A!AnalyticsAddUp) BY RunsAddUp
<1>8. E!Spec => [](E!TypeOK /\ E!TimelineTellsTheList /\ E!StatementsFollow) BY ErrorsAreTold
<1>9. /\ part # "gateway" \/ TypeOK
      /\ part # "pages" \/ D!TypeOK
      /\ part # "parameters" \/ U!TypeOK
      /\ part # "onboarding" \/ N!TypeOK
      /\ part # "registration" \/ R!TypeOK
      /\ part # "fingerprints" \/ F!TypeOK
      /\ part # "analytics" \/ A!TypeOK
      /\ part # "errors" \/ E!TypeOK
     => Typed
  BY DEF Typed
<1> QED BY <1>1, <1>2, <1>3, <1>4, <1>5, <1>6, <1>7, <1>8, <1>9, OneMoves, PTL

\* The pages of the dashboard: useApi and ProjectProvider, useSearchParams, OnboardingCard and
\* RegisterPage, see PagesShowTheLast, ParametersFollow, NewcomersAreLed and RegistrationIsTold.
THEOREM PagesAreTrue == ASSUME DashboardAssumption PROVE DashboardSpec => []PagesShowWhatIsAsked
<1> USE DEF DashboardAssumption
<1>1. D!Spec => []D!PagesSettle BY PagesShowTheLast
<1>2. U!Spec => [](U!TypeOK /\ U!ParametersAgree) BY ParametersFollow
<1>3. N!Spec => [](N!TypeOK /\ N!OnboardingHolds) BY NewcomersAreLed
<1>4. R!Spec => [](R!TypeOK /\ R!RegistrationHolds) BY RegistrationIsTold
<1>5. /\ part # "pages" \/ D!PagesSettle
      /\ part # "parameters" \/ U!ParametersAgree
      /\ part # "onboarding" \/ N!OnboardingHolds
      /\ part # "registration" \/ R!RegistrationHolds
     => PagesShowWhatIsAsked
  BY DEF PagesShowWhatIsAsked
<1> QED BY <1>1, <1>2, <1>3, <1>4, <1>5, OneMoves, PTL

\* The statements of AnalyticsService, see RunsAddUp.
THEOREM AnalyticsAreTrue == ASSUME DashboardAssumption PROVE DashboardSpec => []AnalyticsAddUp
<1>1. A!Spec => [](A!TypeOK /\ A!AnalyticsAddUp) BY RunsAddUp DEF DashboardAssumption
<1>2. part # "analytics" \/ A!AnalyticsAddUp => AnalyticsAddUp BY DEF AnalyticsAddUp
<1> QED BY <1>1, <1>2, OneMoves, PTL

\* computeErrorFingerprint and the statements of ErrorExplorerService, see ErrorsAreGrouped and
\* ErrorsAreTold.
THEOREM ErrorsAreTrue == ASSUME DashboardAssumption PROVE DashboardSpec => []ExplorerHolds
<1> USE DEF DashboardAssumption
<1>1. F!Spec => [](F!TypeOK /\ F!FingerprintsHold) BY ErrorsAreGrouped
<1>2. E!Spec => [](E!TypeOK /\ E!TimelineTellsTheList /\ E!StatementsFollow) BY ErrorsAreTold
<1>3. /\ part # "fingerprints" \/ F!FingerprintsHold
      /\ part # "errors" \/ (E!TimelineTellsTheList /\ E!StatementsFollow)
     => ExplorerHolds
  BY DEF ExplorerHolds, E!ExplorerHolds
<1> QED BY <1>1, <1>2, <1>3, OneMoves, PTL
=============================================================================
