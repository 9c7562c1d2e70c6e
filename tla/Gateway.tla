------------------------------ MODULE Gateway -------------------------------
(***************************************************************************)
(* The gateway in front of the query API and the ingestion API.  It alone  *)
(* looks at tokens; the two behind it believe the headers that it puts on  *)
(* a request.  Streams are piped: the client may leave and the query API   *)
(* may stop at any time between two steps.                                 *)
(***************************************************************************)
EXTENDS Naturals, FiniteSets

CONSTANTS Requests, Users, Projects, Orgs,
          Absent,         \* no such header, and no context
          Bearers,        \* what access tokens say: users, organizations, roles
          Tokens,         \* what project tokens say: projects, organizations
          Claims,         \* internal headers that clients send
          Limit,          \* requests of one handler in a minute, from one address
          MaxConnections  \* streams of an organization, MAX_CONNECTIONS_PER_ORG

Roles  == {"owner", "admin", "member", "viewer"}
\* Handlers of the four controllers; "read" is the catch-all, "write" any of the mutations.
Routes == {"capabilities", "events", "login", "read", "write", "stream"}

UserContexts    == [user : Users, org : Orgs, role : Roles]
ProjectContexts == [project : Projects, org : Orgs]

Headers == [user : Users \cup {Absent}, org : Orgs \cup {Absent}, role : Roles \cup {Absent},
            project : Projects \cup {Absent}]

GatewayAssumption ==
  /\ IsFiniteSet(Requests)
  /\ Absent \notin Users \cup Projects \cup Orgs \cup Roles \cup UserContexts \cup ProjectContexts
  /\ Bearers \subseteq UserContexts /\ Tokens \subseteq ProjectContexts /\ Claims \subseteq Headers
  /\ Limit \in Nat \ {0} /\ MaxConnections \in Nat \ {0}

VARIABLES
  req,   \* [Requests -> its way through the gateway and the API behind]
  hits,  \* [Routes -> requests of this minute]
  seats, \* connectionCounts: [Orgs -> Nat]
  up     \* the API behind answers

vars == <<req, hits, seats, up>>

NoHeaders == [user |-> Absent, org |-> Absent, role |-> Absent, project |-> Absent]
Nobody    == [user |-> Absent, project |-> Absent]
Idle == [stage |-> "idle", route |-> "read", bearer |-> Absent, token |-> Absent,
         headers |-> NoHeaders, context |-> Nobody, here |-> TRUE, early |-> FALSE]

Move(r, s) == req' = [req EXCEPT ![r].stage = s]

-----------------------------------------------------------------------------
(* The gateway *)

Public(route) == route \in {"capabilities", "events", "login"}

\* Mutant: the headers of the client stay.
KeepHeaders(headers) == headers

StripInternalHeaders(headers) == NoHeaders

\* Up to the verification of the token, which is awaited.  What the token says is what it
\* said when it was signed; an expired one or none is Absent.
Enter(r, route, bearer, token, claim) ==
  LET counted == route \notin {"capabilities", "events"}
  IN  /\ req[r].stage = "idle"
      /\ hits' = IF counted /\ hits[route] < Limit THEN [hits EXCEPT ![route] = @ + 1] ELSE hits
      /\ req' = [req EXCEPT ![r] =
           [Idle EXCEPT !.stage = IF counted /\ hits[route] = Limit THEN "refused" ELSE "entered",
                        !.route = route, !.bearer = bearer, !.token = token,
                        !.headers = StripInternalHeaders(claim)]]
      /\ UNCHANGED <<seats, up>>

Minute == hits' = [x \in Routes |-> 0] /\ hits # hits' /\ UNCHANGED <<req, seats, up>>

MayWrite(user) == user # Absent /\ user.role \in {"owner", "admin"}

\* JwtAuthGuard and RolesGuard.
Authenticate(r) ==
  /\ req[r].stage = "entered" /\ ~Public(req[r].route)
  /\ LET user == req[r].bearer
         ok   == user # Absent /\ (req[r].route = "write" => MayWrite(user))
     IN  req' = [req EXCEPT ![r].stage = IF ok THEN "allowed" ELSE "refused",
                            ![r].context = [user |-> user, project |-> Absent]]
  /\ UNCHANGED <<hits, seats, up>>

\* ProjectTokenGuard, of the routes that need one; other public routes need nothing.
CheckToken(r) ==
  /\ req[r].stage = "entered" /\ Public(req[r].route)
  /\ IF req[r].route # "events" THEN Move(r, "allowed")
     ELSE req' = [req EXCEPT ![r].stage = IF req[r].token = Absent THEN "refused" ELSE "allowed",
                             ![r].context = [user |-> Absent, project |-> req[r].token]]
  /\ UNCHANGED <<hits, seats, up>>

InjectHeaders(headers, c) ==
  [user    |-> IF c.user = Absent THEN headers.user ELSE c.user.user,
   role    |-> IF c.user = Absent THEN headers.role ELSE c.user.role,
   project |-> IF c.project = Absent THEN headers.project ELSE c.project.project,
   org     |-> IF c.project # Absent THEN c.project.org
               ELSE IF c.user # Absent THEN c.user.org ELSE headers.org]

\* A client that has left before streamToQuery listens is not heard to leave.
Forward(r) ==
  /\ req[r].stage = "allowed"
  /\ req' = [req EXCEPT ![r].stage = IF up THEN "forwarded" ELSE "failed",
                        ![r].headers = InjectHeaders(@, req[r].context),
                        ![r].early = ~req[r].here]
  /\ UNCHANGED <<hits, seats, up>>

-----------------------------------------------------------------------------
(* The API behind *)

\* GatewayTrustGuard: the headers make a context, or the request is refused.
Trusted(h) ==
  /\ (h.user # Absent \/ h.role # Absent) => Absent \notin {h.user, h.org, h.role}
  /\ h.project # Absent => h.org # Absent
  /\ h.user # Absent \/ h.project # Absent

ContextOf(h) ==
  [user    |-> IF h.user = Absent THEN Absent ELSE [user |-> h.user, org |-> h.org, role |-> h.role],
   project |-> IF h.project = Absent THEN Absent ELSE [project |-> h.project, org |-> h.org]]

\* The guards and the handler; the one of streams takes a seat.
Accepts(q) ==
  \/ q.route \in {"capabilities", "login"}
  \/ /\ Trusted(q.headers)
     /\ q.route = "write" => MayWrite(ContextOf(q.headers).user)
     /\ q.route = "stream" => seats[q.headers.org] < MaxConnections

Handle(r) ==
  LET q == req[r]
      stream == Accepts(q) /\ q.route = "stream"
  IN  /\ q.stage = "forwarded"
      /\ req' = [req EXCEPT ![r].stage = CASE ~Accepts(q) -> "refused" [] stream -> "streaming"
                                            [] OTHER -> "handled",
                            ![r].context = IF q.route \in {"capabilities", "login"} THEN Nobody
                                           ELSE ContextOf(q.headers)]
      /\ seats' = IF stream THEN [seats EXCEPT ![q.headers.org] = @ + 1] ELSE seats
      /\ UNCHANGED <<hits, up>>

-----------------------------------------------------------------------------
(* The client leaves, the API behind stops *)

Leave(r) ==
  /\ req[r].stage \in {"entered", "allowed", "forwarded", "streaming"} /\ req[r].here
  /\ req' = [req EXCEPT ![r].here = FALSE] /\ UNCHANGED <<hits, seats, up>>

\* proxyReq.destroy(), and the query API tears the stream down.
TearDown(r) ==
  /\ req[r].route = "stream" /\ ~req[r].here /\ ~req[r].early
  /\ req[r].stage \in {"forwarded", "streaming"} /\ Move(r, "closed")
  /\ seats' = IF req[r].stage = "streaming"
              THEN [seats EXCEPT ![req[r].context.user.org] = @ - 1] ELSE seats
  /\ UNCHANGED <<hits, up>>

\* Before a response the client is told; a piped stream that breaks off just stays open.
Stop ==
  /\ up /\ up' = FALSE /\ seats' = [o \in Orgs |-> 0]
  /\ req' = [r \in Requests |->
       CASE req[r].stage = "forwarded" -> [req[r] EXCEPT !.stage = "failed"]
         [] req[r].stage = "streaming" -> [req[r] EXCEPT !.stage = "hanging"]
         [] OTHER -> req[r]]
  /\ UNCHANGED hits

Restart == ~up /\ up' = TRUE /\ UNCHANGED <<req, hits, seats>>

Init ==
  /\ req = [r \in Requests |-> Idle] /\ hits = [x \in Routes |-> 0]
  /\ seats = [o \in Orgs |-> 0] /\ up = TRUE

Next ==
  \/ \E r \in Requests, x \in Routes, b \in Bearers \cup {Absent}, t \in Tokens \cup {Absent},
        claim \in Claims : Enter(r, x, b, t, claim)
  \/ \E r \in Requests : \/ Authenticate(r) \/ CheckToken(r) \/ Forward(r) \/ Handle(r)
                         \/ Leave(r) \/ TearDown(r)
  \/ Minute \/ Stop \/ Restart

Spec == Init /\ [][Next]_vars

-----------------------------------------------------------------------------
TypeOK ==
  /\ req \in [Requests ->
       [stage : {"idle", "entered", "allowed", "forwarded", "handled", "streaming", "closed",
                 "hanging", "refused", "failed"},
        route : Routes, bearer : UserContexts \cup {Absent}, token : ProjectContexts \cup {Absent},
        headers : Headers,
        context : [user : UserContexts \cup {Absent}, project : ProjectContexts \cup {Absent}],
        here : BOOLEAN, early : BOOLEAN]]
  /\ hits \in [Routes -> 0 .. Limit] /\ seats \in [Orgs -> 0 .. MaxConnections] /\ up \in BOOLEAN

Served(r) == req[r].stage \in {"handled", "streaming"}

\* An API behind the gateway acts for the user or the project whose token the request bears,
\* whatever internal headers the client has sent and whichever guards the route skips; only
\* owners and admins write.
ServedAsAuthenticated ==
  \A r \in Requests : Served(r) =>
    /\ req[r].context.user \in {Absent, req[r].bearer}
    /\ req[r].context.project \in {Absent, IF req[r].route = "events" THEN req[r].token ELSE Absent}
    /\ req[r].route = "write" => MayWrite(req[r].bearer)

\* The seats of an organization that are taken are those of its streams, whoever leaves and
\* whenever the query API stops: no seat is lost to a stream that is gone.
SeatsAreHeld ==
  \A o \in Orgs : seats[o] = Cardinality({r \in Requests :
    req[r].stage = "streaming" /\ req[r].context.user.org = o})

\* GatewayTrustGuard and the stream controller rely on what the gateway puts on requests.
ServedForTheBearer == ServedAsAuthenticated /\ SeatsAreHeld
=============================================================================
