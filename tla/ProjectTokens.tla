--------------------------- MODULE ProjectTokens ----------------------------
(***************************************************************************)
(* Projects, the tokens of their reporters, and the guard of the ingestion *)
(* API: it looks up the rows whose prefix fits, compares the hashes, which *)
(* takes long, and lets the request in; the event is stored after that.    *)
(***************************************************************************)
EXTENDS Integers, FiniteSets

CONSTANTS Organizations, Names, Tokens,
          PrefixOf,  \* [Tokens -> the first characters of the token]
          Requests,
          NoProject

ProjectTokensAssumption == Tokens # {}

VARIABLES projects, \* [organization, name]
          tokens,   \* [Tokens -> [project, state]]: absent, active, revoked
          request,  \* [Requests -> [step, token, candidates, project]]
          late      \* history: requests whose token was revoked when they came

vars == <<projects, tokens, request, late>>

Projects == [organization : Organizations, name : Names]
NoToken == [project |-> NoProject, state |-> "absent"]
Idle == [step |-> "idle", token |-> CHOOSE t \in Tokens : TRUE, candidates |-> {},
         project |-> NoProject]

TypeOK ==
  /\ projects \subseteq Projects /\ late \subseteq Requests
  /\ tokens \in [Tokens -> [project : Projects \cup {NoProject},
                            state : {"absent", "active", "revoked"}]]
  /\ request \in [Requests -> [step : {"idle", "sent", "verify", "allowed", "stored", "refused"},
                               token : Tokens, candidates : SUBSET [token : Tokens, revoked : BOOLEAN],
                               project : Projects \cup {NoProject}]]

Init ==
  /\ projects = {} /\ late = {}
  /\ tokens = [t \in Tokens |-> NoToken]
  /\ request = [q \in Requests |-> Idle]

\* projects_org_name_idx: a second one of the name is refused.
CreateProject(o, n) ==
  /\ [organization |-> o, name |-> n] \notin projects
  /\ projects' = projects \cup {[organization |-> o, name |-> n]}
  /\ UNCHANGED <<tokens, request, late>>

\* By an owner or admin of organization o, who sees only its projects and tokens.
CreateToken(t, o, p) ==
  /\ tokens[t].state = "absent" /\ p \in projects /\ p.organization = o
  /\ tokens' = [tokens EXCEPT ![t] = [project |-> p, state |-> "active"]]
  /\ UNCHANGED <<projects, request, late>>

RevokeToken(t, o) ==
  /\ tokens[t].state = "active" /\ tokens[t].project.organization = o
  /\ tokens' = [tokens EXCEPT ![t].state = "revoked"]
  /\ UNCHANGED <<projects, request, late>>

Send(q, t) ==
  /\ request[q].step = "idle"
  /\ request' = [request EXCEPT ![q] = [Idle EXCEPT !.step = "sent", !.token = t]]
  /\ late' = IF tokens[t].state = "revoked" THEN late \cup {q} ELSE late
  /\ UNCHANGED <<projects, tokens>>

Fitting(q) == {t \in Tokens : PrefixOf[t] = PrefixOf[request[q].token]}

\* validate_project_token_by_prefix
Lookup(q) ==
  /\ request[q].step = "sent"
  /\ request' = [request EXCEPT ![q] =
       [@ EXCEPT !.step = "verify",
                 !.candidates = {[token |-> t, revoked |-> tokens[t].state = "revoked"] :
                                   t \in {u \in Fitting(q) : tokens[u].state = "active"}}]]
  /\ UNCHANGED <<projects, tokens, late>>

Admit(q, rows) ==
  /\ request[q].step = "verify"
  /\ IF rows = {} \/ \E c \in rows : c.revoked
     THEN request' = [request EXCEPT ![q].step = "refused"]
     ELSE \E c \in rows : request' = [request EXCEPT ![q].step = "allowed",
                                                     ![q].project = tokens[c.token].project]
  /\ UNCHANGED <<projects, tokens, late>>

\* Mutant: the first row of the prefix is taken for the token's.
VerifyPrefix(q) == Admit(q, request[q].candidates)

\* The row whose hash fits, if it was not revoked when it was read.
Verify(q) == Admit(q, {c \in request[q].candidates : c.token = request[q].token})

Store(q) ==
  /\ request[q].step = "allowed"
  /\ request' = [request EXCEPT ![q].step = "stored"]
  /\ UNCHANGED <<projects, tokens, late>>

Next ==
  \/ \E o \in Organizations :
       \/ \E n \in Names : CreateProject(o, n)
       \/ \E t \in Tokens : RevokeToken(t, o) \/ \E p \in projects : CreateToken(t, o, p)
  \/ \E q \in Requests : \/ \E t \in Tokens : Send(q, t)
                         \/ Lookup(q) \/ Verify(q) \/ Store(q)

Spec == Init /\ [][Next]_vars

-----------------------------------------------------------------------------

\* An event is stored for the project of the token it came with, never with a token that
\* was revoked before the request began.
StoredWithActiveToken ==
  \A q \in Requests :
    request[q].step = "stored" => /\ q \notin late
                                  /\ request[q].project = tokens[request[q].token].project
                                  /\ request[q].project \in projects
=============================================================================
