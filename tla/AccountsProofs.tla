---------------------------- MODULE AccountsProofs ----------------------------
(* What TLAPS proves about the accounts: the sessions of a browser, in         *)
(* SessionsProofs; the throttle of logins, which reads a count and then adds   *)
(* to it; the guard of the ingestion API, which looks up a token and then      *)
(* compares it; register, which checks an invitation and then accepts it; and  *)
(* the lists of an organization, which move under the one who reads them.      *)
EXTENDS Accounts, SessionsProofs, Sequences

-----------------------------------------------------------------------------
(* The throttle: any number of logins at the same time, any limit, and however *)
(* often Redis does not answer.                                                *)

\* The logins that have passed the check and may still fail.
Checked == {l \in Logins : login[l] = "checked"}

\* Each login that may still fail is one that may still be counted.
CountedWithChecked ==
  count + Cardinality(Checked) <= (MaxFailures - 1) + Cardinality(Logins) + outages

\* A key without a time to live was made of failures whose EXPIRE was lost.
LostAreCounted == expiring \/ unlimited >= count

ThrottleInv == L!TypeOK /\ CountedWithChecked /\ LostAreCounted

-----------------------------------------------------------------------------
\* Numbers of logins, in the instance and here.
LEMMA LoginsAreFinite ==
  ASSUME L!LoginThrottleAssumption
  PROVE  IsFiniteSet(Logins) /\ L!Cardinality(Logins) = Cardinality(Logins)
BY DEF L!LoginThrottleAssumption, L!Cardinality, Cardinality, L!IsFiniteSet, IsFiniteSet

\* The set of checked logins and the number of all of them are finite.
LEMMA CheckedFinite ==
  ASSUME L!LoginThrottleAssumption
  PROVE  /\ IsFiniteSet(Checked) /\ Cardinality(Checked) \in Nat
         /\ Cardinality(Logins) \in Nat /\ Cardinality(Checked) <= Cardinality(Logins)
BY LoginsAreFinite, FS_Subset, FS_CardinalityType DEF Checked

\* A login that has passed the check adds one, unless there was one already.
LEMMA OneMoreChecked ==
  ASSUME L!LoginThrottleAssumption, L!TypeOK, NEW l \in Logins, login[l] = "idle",
         login' = [login EXCEPT ![l] = "checked"]
  PROVE  Cardinality(Checked') <= Cardinality(Logins) /\ Cardinality(Checked') \in Nat
<1>1. Checked' \in SUBSET Logins BY DEF Checked
<1> QED BY <1>1, LoginsAreFinite, FS_Subset, FS_CardinalityType

\* One that has ended takes one away.
LEMMA OneLessChecked ==
  ASSUME L!LoginThrottleAssumption, L!TypeOK, NEW l \in Logins, login[l] = "checked",
         login' = [login EXCEPT ![l] = "idle"]
  PROVE  /\ Cardinality(Checked') = Cardinality(Checked) - 1
         /\ Cardinality(Checked) \in Nat /\ Cardinality(Checked') \in Nat
<1>1. Checked' = Checked \ {l} /\ l \in Checked BY DEF Checked, L!TypeOK
<1>2. Cardinality(Checked') = Cardinality(Checked) - 1
  BY <1>1, CheckedFinite, FS_RemoveElement
<1>3. IsFiniteSet(Checked') BY <1>1, CheckedFinite, FS_RemoveElement
<1> QED BY <1>2, <1>3, CheckedFinite, FS_CardinalityType

-----------------------------------------------------------------------------
\* Nobody has logged in yet.
LEMMA NobodyCame == ASSUME L!LoginThrottleAssumption, L!Init PROVE ThrottleInv
<1>1. L!TypeOK
  <2>1. expiring \in BOOLEAN BY DEF L!Init
  <2>2. login \in [Logins -> {"idle", "checked"}] BY DEF L!Init
  <2>3. count \in Nat /\ unlimited \in Nat /\ outages \in 0 .. MaxOutages
    BY DEF L!Init, L!LoginThrottleAssumption
  <2> QED BY <2>1, <2>2, <2>3 DEF L!TypeOK
<1>2. Checked = {} BY DEF L!Init, Checked
<1>3. Cardinality(Checked) = 0 /\ Cardinality(Logins) \in Nat
  BY <1>2, FS_EmptySet, CheckedFinite
<1> QED
  BY <1>1, <1>3
  DEF ThrottleInv, CountedWithChecked, LostAreCounted, L!Init, L!LoginThrottleAssumption

\* A check that is passed finds fewer failures than the limit, or Redis does not answer.
LEMMA CheckKeeps ==
  ASSUME L!LoginThrottleAssumption, ThrottleInv, NEW l \in Logins, L!Check(l)
  PROVE  ThrottleInv'
<1>1. /\ login[l] = "idle" /\ login' = [login EXCEPT ![l] = "checked"]
      /\ UNCHANGED <<count, expiring, unlimited>>
  BY DEF L!Check
<1>2. L!TypeOK BY DEF ThrottleInv
<1>3. L!TypeOK' BY <1>1, <1>2 DEF L!TypeOK, L!Check, L!Outage, L!LoginThrottleAssumption
<1>4. Cardinality(Checked') <= Cardinality(Logins) /\ Cardinality(Checked') \in Nat
  BY <1>1, <1>2, OneMoreChecked
<1>5. CASE ~L!Blocked /\ UNCHANGED outages
  <2>1. count < MaxFailures BY <1>2, <1>5 DEF L!Blocked, L!TypeOK, L!LoginThrottleAssumption
  <2>2. CountedWithChecked'
    BY <1>1, <1>2, <1>4, <1>5, <2>1, CheckedFinite
    DEF CountedWithChecked, L!TypeOK, L!LoginThrottleAssumption
  <2> QED BY <1>1, <1>3, <2>2 DEF ThrottleInv, LostAreCounted
<1>6. CASE L!Blocked /\ L!Outage
  <2>1. Checked' = Checked \cup {l} BY <1>1, <1>2 DEF Checked, L!TypeOK
  <2>2. Cardinality(Checked') = IF l \in Checked THEN Cardinality(Checked)
                                ELSE Cardinality(Checked) + 1
    BY <2>1, CheckedFinite, FS_AddElement
  <2>3. outages' = outages + 1 BY <1>6 DEF L!Outage
  <2>4. CountedWithChecked'
    BY <1>1, <1>2, <2>2, <2>3, CheckedFinite
    DEF CountedWithChecked, L!TypeOK, L!LoginThrottleAssumption, ThrottleInv
  <2> QED BY <1>1, <1>3, <2>4 DEF ThrottleInv, LostAreCounted
<1> QED BY <1>5, <1>6 DEF L!Check

\* A login that ends is counted at most once.
LEMMA EndKeeps ==
  ASSUME L!LoginThrottleAssumption, ThrottleInv, NEW l \in Logins,
         L!Succeed(l) \/ L!Fail(l) \/ L!Forbid(l)
  PROVE  ThrottleInv'
<1>1. /\ login[l] = "checked" /\ login' = [login EXCEPT ![l] = "idle"]
      /\ count' \in {0, count, count + 1} /\ outages' \in {outages, outages + 1}
      /\ outages' \in 0 .. MaxOutages
  BY DEF L!Succeed, L!Fail, L!Forbid, L!Outage, ThrottleInv, L!TypeOK, L!LoginThrottleAssumption
<1>2. L!TypeOK BY DEF ThrottleInv
<1>3. L!TypeOK'
  <2>1. expiring' \in BOOLEAN BY <1>2 DEF L!TypeOK, L!Succeed, L!Fail, L!Forbid
  <2>2. unlimited' \in Nat /\ count' \in Nat BY <1>2 DEF L!TypeOK, L!Succeed, L!Fail, L!Forbid
  <2> QED BY <1>1, <1>2, <2>1, <2>2 DEF L!TypeOK
<1>4. /\ Cardinality(Checked') = Cardinality(Checked) - 1
      /\ Cardinality(Checked) \in Nat /\ Cardinality(Checked') \in Nat
  BY <1>1, <1>2, OneLessChecked
<1>5. CountedWithChecked'
  BY <1>1, <1>2, <1>4, CheckedFinite
  DEF CountedWithChecked, L!TypeOK, L!LoginThrottleAssumption, ThrottleInv
<1>6. LostAreCounted'
  BY <1>2 DEF LostAreCounted, L!Succeed, L!Fail, L!Forbid, L!TypeOK, ThrottleInv
<1> QED BY <1>3, <1>5, <1>6 DEF ThrottleInv

\* The key expires.
LEMMA WindowEndsKeeps ==
  ASSUME L!LoginThrottleAssumption, ThrottleInv, L!WindowEnds PROVE ThrottleInv'
<1>1. L!TypeOK' BY DEF ThrottleInv, L!TypeOK, L!WindowEnds
<1>2. Checked' = Checked BY DEF L!WindowEnds, Checked
<1>3. CountedWithChecked'
  BY <1>2, CheckedFinite
  DEF CountedWithChecked, L!WindowEnds, ThrottleInv, L!TypeOK, L!LoginThrottleAssumption
<1>4. LostAreCounted' BY DEF LostAreCounted, L!WindowEnds
<1> QED BY <1>1, <1>3, <1>4 DEF ThrottleInv

\* Every step keeps it.
LEMMA ThrottleKeeps ==
  ASSUME L!LoginThrottleAssumption, ThrottleInv, [L!Next]_L!vars PROVE ThrottleInv'
<1>1. CASE L!WindowEnds BY <1>1, WindowEndsKeeps
<1>2. ASSUME NEW l \in Logins, L!Check(l) \/ L!Succeed(l) \/ L!Fail(l) \/ L!Forbid(l)
      PROVE  ThrottleInv'
  BY <1>2, CheckKeeps, EndKeeps
<1>3. CASE UNCHANGED L!vars
  BY <1>3 DEF L!vars, ThrottleInv, L!TypeOK, CountedWithChecked, LostAreCounted, Checked
<1> QED BY <1>1, <1>2, <1>3 DEF L!Next

-----------------------------------------------------------------------------
\* LoginRateLimitService: however many logins come at once and however often Redis does not
\* answer, a window counts a bounded number of failures, and a blocked address has a window
\* that ends, unless every EXPIRE was lost.
THEOREM ThrottleCorrect ==
  ASSUME L!LoginThrottleAssumption PROVE L!Spec => [](L!TypeOK /\ L!ThrottleHolds)
<1>1. L!Init => ThrottleInv BY NobodyCame
<1>2. ThrottleInv /\ [L!Next]_L!vars => ThrottleInv' BY ThrottleKeeps
<1>3. ThrottleInv => L!TypeOK /\ L!ThrottleHolds
  BY CheckedFinite, LoginsAreFinite
  DEF ThrottleInv, L!TypeOK, CountedWithChecked, LostAreCounted, L!ThrottleHolds,
      L!FailuresAreLimited, L!BlockEnds, L!Blocked, L!LoginThrottleAssumption
<1> QED BY <1>1, <1>2, <1>3, PTL DEF L!Spec

-----------------------------------------------------------------------------
(* Project tokens: any projects, tokens, prefixes and requests.              *)

\* Tokens that exist, or have existed, keep their project.
Known(t) == tokens[t].state # "absent" /\ tokens[t].project \in projects

\* Rows that a request has read are of tokens that exist; none of a token that was revoked
\* before the request came.
ReadIsKnown(q) ==
  request[q].step = "verify" =>
    \A c \in request[q].candidates : Known(c.token) /\ c.token \in ApiTokens /\
                                     (c.token = request[q].token => q \notin late)

LetIn(q) ==
  request[q].step \in {"allowed", "stored"} =>
    /\ q \notin late /\ Known(request[q].token)
    /\ request[q].project = tokens[request[q].token].project

TokensInv ==
  /\ P!TypeOK
  /\ \A t \in ApiTokens : tokens[t].state # "absent" => tokens[t].project \in projects
  /\ \A q \in ApiCalls : request[q].step = "idle" => q \notin late
  /\ \A q \in late : tokens[request[q].token].state = "revoked"
  /\ \A q \in ApiCalls : ReadIsKnown(q) /\ LetIn(q)

-----------------------------------------------------------------------------
\* The table of projects and that of tokens: rows are added or revoked, never changed.
LEMMA TablesGrow ==
  ASSUME TokensInv, UNCHANGED <<request, late>>,
         tokens' \in [ApiTokens -> [project : P!Projects \cup {NoProject},
                                 state : {"absent", "active", "revoked"}]],
         projects \subseteq projects', projects' \subseteq P!Projects,
         \A t \in ApiTokens : tokens[t].state # "absent" =>
           tokens'[t].state # "absent" /\ tokens'[t].project = tokens[t].project,
         \A t \in ApiTokens : tokens[t].state = "revoked" => tokens'[t].state = "revoked",
         \A t \in ApiTokens : tokens'[t].state # "absent" => tokens'[t].project \in projects'
  PROVE  TokensInv'
<1>1. P!TypeOK' BY DEF TokensInv, P!TypeOK
<1>2. \A t \in ApiTokens : Known(t) => Known(t)' BY DEF Known
<1>3. \A q \in ApiCalls : request[q].token \in ApiTokens BY DEF TokensInv, P!TypeOK
<1>4. ASSUME NEW q \in ApiCalls PROVE ReadIsKnown(q)' BY <1>2 DEF TokensInv, ReadIsKnown
<1>5. ASSUME NEW q \in ApiCalls PROVE LetIn(q)'
  BY <1>2, <1>3 DEF TokensInv, LetIn, Known
<1>6. \A q \in late' : tokens'[request'[q].token].state = "revoked"
  BY <1>3 DEF TokensInv, P!TypeOK
<1>7. \A q \in ApiCalls : request'[q].step = "idle" => q \notin late' BY DEF TokensInv
<1> QED BY <1>1, <1>4, <1>5, <1>6, <1>7 DEF TokensInv

\* The routes of projects and tokens.
LEMMA RoutesKeep ==
  ASSUME TokensInv,
         \E o \in Organizations :
           \/ \E n \in Names : P!CreateProject(o, n)
           \/ \E t \in ApiTokens : P!RevokeToken(t, o) \/ \E p \in projects : P!CreateToken(t, o, p)
  PROVE  TokensInv'
<1>1. /\ tokens \in [ApiTokens -> [project : P!Projects \cup {NoProject},
                                state : {"absent", "active", "revoked"}]]
      /\ projects \subseteq P!Projects
      /\ \A t \in ApiTokens : tokens[t].state # "absent" => tokens[t].project \in projects
  BY DEF TokensInv, P!TypeOK
<1>2. ASSUME NEW o \in Organizations, NEW n \in Names, P!CreateProject(o, n) PROVE TokensInv'
  <2>1. [organization |-> o, name |-> n] \in P!Projects BY DEF P!Projects
  <2>2. /\ projects' = projects \cup {[organization |-> o, name |-> n]}
        /\ tokens' = tokens /\ UNCHANGED <<request, late>>
    BY <1>2 DEF P!CreateProject
  <2> QED BY <1>1, <2>1, <2>2, TablesGrow
<1>3. ASSUME NEW o, NEW t \in ApiTokens, NEW p \in projects, P!CreateToken(t, o, p) PROVE TokensInv'
  <2> DEFINE new == [project |-> p, state |-> "active"]
  <2>1. new \in [project : P!Projects \cup {NoProject}, state : {"absent", "active", "revoked"}]
    BY <1>1
  <2>2. new.state = "active" /\ new.project = p OBVIOUS
  <2>3. /\ projects' = projects /\ tokens' = [tokens EXCEPT ![t] = new]
        /\ UNCHANGED <<request, late>> /\ tokens[t].state = "absent"
    BY <1>3 DEF P!CreateToken
  <2> HIDE DEF new
  <2>4. \A u \in ApiTokens : tokens'[u] = IF u = t THEN new ELSE tokens[u] BY <1>1, <2>3
  <2>5. tokens' \in [ApiTokens -> [project : P!Projects \cup {NoProject},
                                state : {"absent", "active", "revoked"}]]
    BY <1>1, <2>1, <2>3
  <2> QED BY <1>1, <2>2, <2>3, <2>4, <2>5, TablesGrow
<1>4. ASSUME NEW o, NEW t \in ApiTokens, P!RevokeToken(t, o) PROVE TokensInv'
  <2> DEFINE new == [tokens[t] EXCEPT !.state = "revoked"]
  <2>1. /\ new \in [project : P!Projects \cup {NoProject}, state : {"absent", "active", "revoked"}]
        /\ new.state = "revoked" /\ new.project = tokens[t].project
    BY <1>1
  <2>2. /\ projects' = projects /\ tokens' = [tokens EXCEPT ![t] = new]
        /\ UNCHANGED <<request, late>> /\ tokens[t].state = "active"
    BY <1>4 DEF P!RevokeToken
  <2> HIDE DEF new
  <2>3. \A u \in ApiTokens : tokens'[u] = IF u = t THEN new ELSE tokens[u] BY <1>1, <2>2
  <2>4. tokens' \in [ApiTokens -> [project : P!Projects \cup {NoProject},
                                state : {"absent", "active", "revoked"}]]
    BY <1>1, <2>1, <2>2
  <2> QED BY <1>1, <2>1, <2>2, <2>3, <2>4, TablesGrow
<1> QED BY <1>2, <1>3, <1>4

\* A request goes on beside the tables.
LEMMA RequestMoves ==
  ASSUME TokensInv, NEW q \in ApiCalls, NEW new, UNCHANGED <<projects, tokens>>,
         new \in [step : {"idle", "sent", "verify", "allowed", "stored", "refused"},
                  token : ApiTokens, candidates : SUBSET [token : ApiTokens, revoked : BOOLEAN],
                  project : P!Projects \cup {NoProject}],
         request' = [request EXCEPT ![q] = new], late' \subseteq late \cup {q},
         new.step # "idle", late \subseteq late',
         q \in late' => tokens[new.token].state = "revoked",
         ReadIsKnown(q)', LetIn(q)'
  PROVE  TokensInv'
<1>1. \A p \in ApiCalls : request'[p] = IF p = q THEN new ELSE request[p] BY DEF TokensInv, P!TypeOK
<1>2. P!TypeOK' BY DEF TokensInv, P!TypeOK
<1>3. ASSUME NEW p \in ApiCalls, p # q PROVE ReadIsKnown(p)' /\ LetIn(p)'
  BY <1>1, <1>3 DEF TokensInv, ReadIsKnown, LetIn, Known
<1>4. \A p \in late' : tokens'[request'[p].token].state = "revoked"
  BY <1>1 DEF TokensInv, P!TypeOK
<1>5. \A p \in ApiCalls : request'[p].step = "idle" => p \notin late' BY <1>1 DEF TokensInv
<1>6. \A t \in ApiTokens : tokens'[t].state # "absent" => tokens'[t].project \in projects'
  BY DEF TokensInv
<1>7. \A p \in ApiCalls : ReadIsKnown(p)' /\ LetIn(p)' BY <1>3
<1> QED BY <1>2, <1>4, <1>5, <1>6, <1>7 DEF TokensInv

\* The guard and the handler behind it.
LEMMA GuardKeeps ==
  ASSUME TokensInv, NEW q \in ApiCalls,
         (\E t \in ApiTokens : P!Send(q, t)) \/ P!Lookup(q) \/ P!Verify(q) \/ P!Store(q)
  PROVE  TokensInv'
<1> DEFINE Q == [step : {"idle", "sent", "verify", "allowed", "stored", "refused"},
                 token : ApiTokens, candidates : SUBSET [token : ApiTokens, revoked : BOOLEAN],
                 project : P!Projects \cup {NoProject}]
<1>1. /\ request[q] \in Q /\ UNCHANGED <<projects, tokens>> /\ request \in [ApiCalls -> Q]
      /\ \A t \in ApiTokens : tokens[t].project \in P!Projects \cup {NoProject}
  BY DEF TokensInv, P!TypeOK, P!Send, P!Lookup, P!Verify, P!Admit, P!Store
<1>2. ASSUME NEW t \in ApiTokens, P!Send(q, t) PROVE TokensInv'
  <2> DEFINE new == [P!Idle EXCEPT !.step = "sent", !.token = t]
  <2>1. P!Idle \in Q
    <3>1. (CHOOSE u \in ApiTokens : TRUE) \in ApiTokens BY <1>2
    <3> QED BY <3>1 DEF P!Idle
  <2>2. new \in Q /\ new.step = "sent" /\ new.token = t BY <2>1
  <2>3. request' = [request EXCEPT ![q] = new] /\ request[q].step = "idle"
    BY <1>2 DEF P!Send
  <2>4. late' = IF tokens[t].state = "revoked" THEN late \cup {q} ELSE late
    BY <1>2 DEF P!Send
  <2> HIDE DEF new
  <2>5. request'[q] = new BY <1>1, <2>3
  <2>6. ReadIsKnown(q)' /\ LetIn(q)' BY <2>2, <2>5 DEF ReadIsKnown, LetIn
  <2>7. q \in late' => tokens[new.token].state = "revoked" BY <2>2, <2>3, <2>4 DEF TokensInv
  <2> QED BY <1>1, <2>2, <2>3, <2>4, <2>6, <2>7, RequestMoves
<1>3. ASSUME P!Lookup(q) PROVE TokensInv'
  <2> DEFINE C == {[token |-> t, revoked |-> tokens[t].state = "revoked"] :
                     t \in {u \in P!Fitting(q) : tokens[u].state = "active"}}
             new == [request[q] EXCEPT !.step = "verify", !.candidates = C]
  <2>1. ASSUME NEW c \in C
        PROVE  /\ c \in [token : ApiTokens, revoked : BOOLEAN]
               /\ c.token \in ApiTokens /\ tokens[c.token].state = "active"
    <3>1. PICK t \in ApiTokens : /\ tokens[t].state = "active"
                              /\ c = [token |-> t, revoked |-> tokens[t].state = "revoked"]
      BY DEF P!Fitting
    <3> DEFINE b == tokens[t].state = "revoked"
    <3>2. b \in BOOLEAN OBVIOUS
    <3> HIDE DEF b
    <3>3. c = [token |-> t, revoked |-> b] BY <3>1 DEF b
    <3> QED BY <3>1, <3>2, <3>3
  <2>2. C \subseteq [token : ApiTokens, revoked : BOOLEAN] BY <2>1
  <2>3. request' = [request EXCEPT ![q] = new] /\ late' = late BY <1>3 DEF P!Lookup
  <2> HIDE DEF C
  <2>4. /\ new \in Q /\ new.step = "verify" /\ new.token = request[q].token
        /\ new.candidates = C
    BY <1>1, <2>2
  <2> HIDE DEF new
  <2>5. request'[q] = new BY <1>1, <2>3
  <2>6. LetIn(q)' BY <2>4, <2>5 DEF LetIn
  <2>7. q \in late => tokens[request[q].token].state = "revoked" BY DEF TokensInv
  <2>8. ReadIsKnown(q)'
    BY <1>1, <2>1, <2>3, <2>4, <2>5, <2>7 DEF ReadIsKnown, Known, TokensInv
  <2> QED BY <1>1, <2>3, <2>4, <2>6, <2>7, <2>8, RequestMoves
<1>4. ASSUME P!Verify(q) PROVE TokensInv'
  <2> DEFINE rows == {c \in request[q].candidates : c.token = request[q].token}
             refused == [request[q] EXCEPT !.step = "refused"]
             allowed == [request[q] EXCEPT !.step = "allowed",
                                           !.project = tokens[request[q].token].project]
  <2>1. late' = late /\ request[q].step = "verify" BY <1>4 DEF P!Verify, P!Admit
  <2>2. q \in late => tokens[request[q].token].state = "revoked" BY DEF TokensInv
  <2>3. CASE request' = [request EXCEPT ![q] = refused]
    <3>1. refused \in Q /\ refused.step = "refused" /\ refused.token = request[q].token
      BY <1>1
    <3> HIDE DEF refused
    <3>2. request'[q] = refused BY <1>1, <2>3
    <3>3. ReadIsKnown(q)' /\ LetIn(q)' BY <3>1, <3>2 DEF ReadIsKnown, LetIn
    <3> QED BY <1>1, <2>1, <2>2, <2>3, <3>1, <3>3, RequestMoves
  <2>4. CASE rows # {} /\ request' = [request EXCEPT ![q] = allowed]
    <3>1. Known(request[q].token) /\ q \notin late
      BY <2>1, <2>4 DEF TokensInv, ReadIsKnown
    <3>2. /\ allowed \in Q /\ allowed.step = "allowed" /\ allowed.token = request[q].token
          /\ allowed.project = tokens[request[q].token].project
      BY <1>1
    <3> HIDE DEF allowed
    <3>3. request'[q] = allowed BY <1>1, <2>4
    <3>4. ReadIsKnown(q)' BY <3>2, <3>3 DEF ReadIsKnown
    <3>5. LetIn(q)' BY <1>1, <2>1, <3>1, <3>2, <3>3 DEF LetIn, Known
    <3> QED BY <1>1, <2>1, <2>2, <2>4, <3>2, <3>4, <3>5, RequestMoves
  <2>5. \/ request' = [request EXCEPT ![q] = refused]
        \/ rows # {} /\ request' = [request EXCEPT ![q] = allowed]
    <3>1. \/ request' = [request EXCEPT ![q].step = "refused"]
          \/ \E c \in rows : request' = [request EXCEPT ![q].step = "allowed",
                                                         ![q].project = tokens[c.token].project]
      BY <1>4 DEF P!Verify, P!Admit
    <3>2. \A c \in rows : c.token = request[q].token OBVIOUS
    <3> HIDE DEF rows
    <3> QED BY <1>1, <3>1, <3>2
  <2> QED BY <2>3, <2>4, <2>5
<1>5. ASSUME P!Store(q) PROVE TokensInv'
  <2> DEFINE new == [request[q] EXCEPT !.step = "stored"]
  <2>1. /\ new \in Q /\ new.step = "stored" /\ new.token = request[q].token
        /\ new.project = request[q].project
    BY <1>1
  <2>2. request' = [request EXCEPT ![q] = new] /\ late' = late /\ request[q].step = "allowed"
    BY <1>5 DEF P!Store
  <2> HIDE DEF new
  <2>3. request'[q] = new BY <1>1, <2>2
  <2>4. ReadIsKnown(q)' BY <2>1, <2>3 DEF ReadIsKnown
  <2>5. LetIn(q) /\ (q \in late => tokens[request[q].token].state = "revoked") BY DEF TokensInv
  <2>6. LetIn(q)' BY <1>1, <2>1, <2>2, <2>3, <2>5 DEF LetIn, Known
  <2> QED BY <1>1, <2>1, <2>2, <2>4, <2>5, <2>6, RequestMoves
<1> QED BY <1>2, <1>3, <1>4, <1>5

\* Every step of the API and of the guard.
LEMMA TokensKeep == ASSUME TokensInv, [P!Next]_P!vars PROVE TokensInv'
<1>1. CASE UNCHANGED P!vars
  BY <1>1 DEF P!vars, TokensInv, P!TypeOK, ReadIsKnown, LetIn, Known
<1>2. CASE P!Next
  <2>1. ASSUME NEW q \in ApiCalls,
               (\E t \in ApiTokens : P!Send(q, t)) \/ P!Lookup(q) \/ P!Verify(q) \/ P!Store(q)
        PROVE  TokensInv'
    BY <2>1, GuardKeeps
  <2> QED BY <1>2, <2>1, RoutesKeep DEF P!Next
<1> QED BY <1>1, <1>2

\* An event is stored for the project of its token and never with a token that was revoked
\* before it came, however many tokens have the prefix: ProjectTokenGuard, revokeToken.
THEOREM TokensAdmit ==
  ASSUME P!ProjectTokensAssumption PROVE P!Spec => [](P!TypeOK /\ P!StoredWithActiveToken)
<1>1. P!Init => TokensInv
  <2> SUFFICES ASSUME P!Init PROVE TokensInv OBVIOUS
  <2>1. (CHOOSE t \in ApiTokens : TRUE) \in ApiTokens BY DEF P!ProjectTokensAssumption
  <2>2. P!TypeOK BY <2>1 DEF P!Init, P!TypeOK, P!NoToken, P!Idle
  <2>3. \A q \in ApiCalls : request[q].step = "idle" BY DEF P!Init, P!Idle
  <2>4. \A t \in ApiTokens : tokens[t].state = "absent" BY DEF P!Init, P!NoToken
  <2> QED BY <2>2, <2>3, <2>4 DEF P!Init, TokensInv, ReadIsKnown, LetIn
<1>2. TokensInv /\ [P!Next]_P!vars => TokensInv' BY TokensKeep
<1>3. TokensInv => P!TypeOK /\ P!StoredWithActiveToken
  BY DEF TokensInv, LetIn, Known, P!StoredWithActiveToken
<1> QED BY <1>1, <1>2, <1>3, PTL DEF P!Spec

-----------------------------------------------------------------------------
(* Invitations: any number of them, any calls of register at the same time, and  *)
(* any lifetime.                                                                 *)


\* A call that was let in by the checks has an invitation, and the one for its address; one
\* with an organization of its own has the slug of that.
CallsAreInvited ==
  \A c \in Calls :
    /\ call[c].step = "insert" => call[c].base \in Bases
    /\ call[c].step \in {"validate", "accept"} => call[c].inv \in Invitations
    /\ call[c].step = "accept" =>
         /\ invitations[call[c].inv].status # "none"
         /\ invitations[call[c].inv].email \in {Anyone, call[c].email}

\* An invitation that is accepted has one member, any other has none.
AdmittedOnce ==
  \A i \in Invitations :
    IF invitations[i].status = "accepted" THEN \E m \in members : AdmittedBy(i) = {m}
    ELSE AdmittedBy(i) = {}

\* A member is who the invitation was for, and came while it lasted.
MembersFit ==
  \A m \in members : m.via \in Invitations =>
    /\ m.at <= invitations[m.via].expires /\ m.role = invitations[m.via].role
    /\ invitations[m.via].email \in {Anyone, m.email}

MembershipInv == MembershipTypeOK /\ CallsAreInvited /\ AdmittedOnce /\ MembersFit

Call == [step : {"idle", "insert", "validate", "accept", "store", "done"} \cup Refusals,
         email : Emails, base : Bases \cup {""}, suffix : Suffixes \cup {NoSuffix},
         attempt : 0 .. MaxSlugRetries - 1, inv : Invitations \cup {"none"}]
Invitation == [status : {"none", "pending", "accepted", "revoked", "expired"},
               email : Emails \cup {Anyone}, role : Roles, expires : 0 .. MaxTime + Lifetime]
Member == [email : Emails, organization : Calls \cup {Home}, role : Roles,
           via : Calls \cup Invitations \cup {Home}, at : 0 .. MaxTime]

-----------------------------------------------------------------------------
\* The types, with the sets above.
LEMMA Types ==
  MembershipTypeOK <=> /\ time \in 0 .. MaxTime /\ users \subseteq Emails
             /\ organizations \in [Calls \cup {Home} -> SUBSET Slugs]
             /\ members \subseteq Member
             /\ invitations \in [Invitations -> Invitation] /\ call \in [Calls -> Call]
BY DEF MembershipTypeOK, Member, Invitation, Call

\* A call that has not begun has no invitation.
LEMMA NoCallTyped == ASSUME MembershipAssumption PROVE NoCall \in Call
BY DEF NoCall, Call, MembershipAssumption, NoSuffix

\* At the start there is the founder, who came by no invitation.
LEMMA FounderIsIn == ASSUME MembershipAssumption, MembershipInit PROVE MembershipInv
<1>1. NoInvitation \in Invitation
  BY DEF NoInvitation, Invitation, MembershipAssumption, Roles
<1>2. members \subseteq Member
  BY DEF MembershipInit, Member, MembershipAssumption, Roles
<1>3. organizations \in [Calls \cup {Home} -> SUBSET Slugs]
  BY DEF MembershipInit, Slugs
<1>4. MembershipTypeOK BY <1>1, <1>2, <1>3, NoCallTyped, Types DEF MembershipInit, MembershipAssumption
<1>5. CallsAreInvited BY DEF MembershipInit, CallsAreInvited, NoCall
<1>6. \A m \in members : m.via \notin Invitations BY DEF MembershipInit, MembershipAssumption
<1>7. AdmittedOnce BY <1>6 DEF MembershipInit, AdmittedOnce, AdmittedBy, NoInvitation
<1>8. MembersFit BY <1>6 DEF MembersFit
<1> QED BY <1>4, <1>5, <1>7, <1>8 DEF MembershipInv

\* Steps that leave invitations and members alone, and start or end calls.
LEMMA CallMoves ==
  ASSUME MembershipInv, NEW c \in Calls, NEW new \in Call, call' = [call EXCEPT ![c] = new],
         UNCHANGED <<time, users, organizations, members, invitations>>,
         new.step = "insert" => new.base \in Bases,
         new.step \in {"validate", "accept"} => new.inv \in Invitations,
         new.step = "accept" => /\ invitations[new.inv].status # "none"
                                /\ invitations[new.inv].email \in {Anyone, new.email}
  PROVE  MembershipInv'
<1>1. call \in [Calls -> Call] BY Types DEF MembershipInv
<1>2. MembershipTypeOK' BY <1>1 DEF MembershipInv, MembershipTypeOK, Call
<1>3. CallsAreInvited' BY <1>1 DEF MembershipInv, CallsAreInvited
<1>4. AdmittedOnce' /\ MembersFit' BY DEF MembershipInv, AdmittedOnce, AdmittedBy, MembersFit
<1> QED BY <1>2, <1>3, <1>4 DEF MembershipInv

\* An invitation changes that has admitted nobody.
LEMMA InvitationMoves ==
  ASSUME MembershipInv, NEW i \in Invitations, NEW new \in Invitation,
         invitations' = [invitations EXCEPT ![i] = new],
         UNCHANGED <<time, users, organizations, members, call>>,
         invitations[i].status # "accepted", new.status \notin {"none", "accepted"},
         invitations[i].status = "none" \/ new.email = invitations[i].email
  PROVE  MembershipInv'
<1>1. invitations \in [Invitations -> Invitation] BY Types DEF MembershipInv
<1>2. \A j \in Invitations : invitations'[j] = IF j = i THEN new ELSE invitations[j] BY <1>1
<1>3. MembershipTypeOK' BY <1>1 DEF MembershipInv, MembershipTypeOK, Invitation
<1>4. CallsAreInvited' BY <1>2 DEF MembershipInv, CallsAreInvited
<1>5. AdmittedBy(i) = {} BY DEF MembershipInv, AdmittedOnce
<1>6. AdmittedOnce' BY <1>2, <1>5 DEF MembershipInv, AdmittedOnce, AdmittedBy
<1>7. MembersFit' BY <1>2, <1>5 DEF MembershipInv, MembersFit, AdmittedBy
<1> QED BY <1>3, <1>4, <1>6, <1>7 DEF MembershipInv

-----------------------------------------------------------------------------
\* InvitationsService: an invitation is created once, and revoked while it is pending.
LEMMA InvitationsKeep ==
  ASSUME MembershipAssumption, MembershipInv, NEW i \in Invitations,
         \/ \E e \in Emails \cup {Anyone}, r \in Roles : CreateInvitation(i, e, r)
         \/ RevokeInvitation(i)
  PROVE  MembershipInv'
<1>1. /\ invitations \in [Invitations -> Invitation] /\ time \in 0 .. MaxTime
  BY Types DEF MembershipInv
<1>2. CASE RevokeInvitation(i)
  <2>1. [invitations[i] EXCEPT !.status = "revoked"] \in Invitation BY <1>1 DEF Invitation
  <2>2. invitations' = [invitations EXCEPT ![i] = [invitations[i] EXCEPT !.status = "revoked"]]
    BY <1>1, <1>2 DEF RevokeInvitation
  <2>3. invitations[i] \in Invitation BY <1>1
  <2>4. LET new == [invitations[i] EXCEPT !.status = "revoked"]
        IN new.status = "revoked" /\ new.email = invitations[i].email
    BY <2>3 DEF Invitation
  <2> QED BY <1>2, <2>1, <2>2, <2>4, InvitationMoves DEF RevokeInvitation
<1>3. ASSUME NEW e \in Emails \cup {Anyone}, NEW r \in Roles, CreateInvitation(i, e, r)
      PROVE  MembershipInv'
  <2> DEFINE new == [status |-> "pending", email |-> e, role |-> r, expires |-> time + Lifetime]
  <2>1. new \in Invitation BY <1>1 DEF Invitation, MembershipAssumption
  <2> HIDE DEF new
  <2>2. new.status = "pending" BY DEF new
  <2> QED BY <1>3, <2>1, <2>2, InvitationMoves DEF CreateInvitation, new
<1> QED BY <1>2, <1>3

\* Checks before the transaction.
LEMMA CallsKeep ==
  ASSUME MembershipAssumption, MembershipInv, NEW c \in Calls,
         \/ \E e \in Emails, b \in Bases : Register(c, e, b)
         \/ \E e \in Emails, i \in Invitations : RegisterWithInvite(c, e, i)
         \/ Validate(c) \/ StoreToken(c) \/ StoreInvitedToken(c)
  PROVE  MembershipInv'
<1>1. call[c] \in Call BY Types DEF MembershipInv
<1>2. ASSUME NEW e \in Emails, NEW b \in Bases, Register(c, e, b) PROVE MembershipInv'
  <2> DEFINE new == [NoCall EXCEPT !.step = "insert", !.email = e, !.base = b]
  <2>1. new \in Call /\ new.step = "insert" /\ new.base = b BY NoCallTyped DEF Call
  <2> QED BY <1>2, <2>1, CallMoves DEF Register
<1>3. ASSUME NEW e \in Emails, NEW i \in Invitations, RegisterWithInvite(c, e, i) PROVE MembershipInv'
  <2> DEFINE new == [NoCall EXCEPT !.step = "validate", !.email = e, !.inv = i]
  <2>1. new \in Call /\ new.step = "validate" /\ new.inv = i BY NoCallTyped DEF Call
  <2> QED BY <1>3, <2>1, CallMoves DEF RegisterWithInvite
<1>4. ASSUME NEW s, Goto(c, s), UNCHANGED <<time, users, organizations, members, invitations>>,
             s \in {"accept", "done"} \cup Refusals,
             s = "accept" => /\ call[c].inv \in Invitations
                             /\ invitations[call[c].inv].status # "none"
                             /\ invitations[call[c].inv].email \in {Anyone, call[c].email}
      PROVE  MembershipInv'
  <2> DEFINE new == [call[c] EXCEPT !.step = s]
  <2>1. new \in Call /\ new.step = s /\ new.inv = call[c].inv /\ new.email = call[c].email
    BY <1>1, <1>4 DEF Call
  <2>2. call' = [call EXCEPT ![c] = new] BY <1>4 DEF Goto
  <2>3. s \notin {"validate", "insert"} BY <1>4 DEF Refusals
  <2> HIDE DEF new
  <2> QED BY <1>4, <2>1, <2>2, <2>3, CallMoves
<1>5. CASE Validate(c)
  <2>1. call[c].step = "validate" /\ call[c].inv \in Invitations
    BY <1>5 DEF Validate, Invited, MembershipInv, CallsAreInvited
  <2> DEFINE i == invitations[call[c].inv]
             s == IF i.status # "pending" THEN "not valid"
                  ELSE IF i.expires < time THEN "expired"
                  ELSE IF i.email \notin {Anyone, call[c].email} THEN "other email"
                  ELSE IF i.role \notin Invitable THEN "not valid"
                  ELSE "accept"
  <2>2. Goto(c, s) /\ UNCHANGED <<time, users, organizations, members, invitations>>
    BY <1>5 DEF Validate, Invited
  <2>3. /\ s \in {"accept"} \cup Refusals
        /\ s = "accept" => i.status = "pending" /\ i.email \in {Anyone, call[c].email}
    BY DEF Refusals
  <2> HIDE DEF s
  <2> QED BY <1>4, <2>1, <2>2, <2>3
<1>6. CASE StoreToken(c) \/ StoreInvitedToken(c)
  <2>1. PICK s \in {"done", "error"} : Goto(c, s) BY <1>6 DEF StoreToken, StoreInvitedToken
  <2>2. s \in {"accept", "done"} \cup Refusals /\ s # "accept" BY <2>1 DEF Refusals
  <2> QED BY <1>4, <1>6, <2>1, <2>2 DEF StoreToken, StoreInvitedToken
<1> QED BY <1>2, <1>3, <1>5, <1>6

-----------------------------------------------------------------------------
\* register_user: a member of an organization of his own came by no invitation.
LEMMA InsertKeeps ==
  ASSUME MembershipAssumption, MembershipInv, NEW c \in Calls, Insert(c) PROVE MembershipInv'
<1>1. /\ call \in [Calls -> Call] /\ call[c] \in Call /\ time \in 0 .. MaxTime
      /\ members \subseteq Member /\ organizations \in [Calls \cup {Home} -> SUBSET Slugs]
      /\ users \subseteq Emails
  BY Types DEF MembershipInv
<1>2. PICK new \in Call :
        /\ call' = [call EXCEPT ![c] = new]
        /\ new.step \notin {"validate", "accept"}
        /\ new.step = "insert" => new.base \in Bases
  <2>1. ASSUME NEW s \in {"store"} \cup Refusals, Goto(c, s)
        PROVE  \E new \in Call : /\ call' = [call EXCEPT ![c] = new]
                                 /\ new.step \notin {"validate", "accept"}
                                 /\ new.step = "insert" => new.base \in Bases
    <3> DEFINE new == [call[c] EXCEPT !.step = s]
    <3>1. new \in Call /\ new.step = s BY <1>1, <2>1 DEF Call
    <3>2. s \notin {"validate", "accept", "insert"} BY <2>1 DEF Refusals
    <3> QED BY <2>1, <3>1, <3>2 DEF Goto
  <2>2. ASSUME NEW s \in Suffixes, call[c].attempt # MaxSlugRetries - 1, call[c].step = "insert",
               call' = [call EXCEPT ![c].attempt = @ + 1, ![c].suffix = s]
        PROVE  \E new \in Call : /\ call' = [call EXCEPT ![c] = new]
                                 /\ new.step \notin {"validate", "accept"}
                                 /\ new.step = "insert" => new.base \in Bases
    <3> DEFINE new == [call[c] EXCEPT !.attempt = call[c].attempt + 1, !.suffix = s]
    <3>1. call[c].attempt + 1 \in 0 .. MaxSlugRetries - 1
      <4>1. call[c].attempt \in 0 .. MaxSlugRetries - 1 BY <1>1 DEF Call
      <4> QED BY <2>2, <4>1 DEF MembershipAssumption
    <3>2. new \in Call /\ new.step = "insert" BY <1>1, <2>2, <3>1 DEF Call
    <3>3. new.base \in Bases BY <1>1, <2>2 DEF MembershipInv, CallsAreInvited, Call
    <3>4. call' = [call EXCEPT ![c] = new]
      <4>1. new = [call[c] EXCEPT !.suffix = s, !.attempt = call[c].attempt + 1]
        BY <1>1 DEF Call
      <4> QED BY <1>1, <2>2, <4>1
    <3> HIDE DEF new
    <3> QED BY <3>2, <3>3, <3>4
  <2>3. "error" \in Refusals /\ "email taken" \in Refusals /\ "slug taken" \in Refusals
    BY DEF Refusals
  <2> QED BY <2>1, <2>2, <2>3 DEF Insert, SlugTaken
<1>3. CASE UNCHANGED <<users, organizations, members>>
  BY <1>2, <1>3, CallMoves DEF Insert
<1>4. CASE organizations' = [organizations EXCEPT ![c] = {Slug(c)}] /\ Joins(c, c, "owner", c)
  <2> DEFINE m == [email |-> call[c].email, organization |-> c, role |-> "owner", via |-> c,
                   at |-> time]
  <2>1. members' = members \cup {m} /\ users' = users \cup {call[c].email}
    BY <1>4 DEF Joins
  <2>2. m \in Member /\ call[c].email \in Emails BY <1>1 DEF Member, Call, Roles
  <2>3. m.via \notin Invitations BY DEF MembershipAssumption
  <2>4. Slug(c) \in Slugs
    <3>1. call[c].base \in Bases BY DEF Insert, MembershipInv, CallsAreInvited
    <3>2. call[c].suffix \in Suffixes \cup {NoSuffix} BY <1>1 DEF Call
    <3> QED BY <3>1, <3>2 DEF Slug, Slugs
  <2> HIDE DEF m
  <2>5. organizations' \in [Calls \cup {Home} -> SUBSET Slugs] BY <1>1, <1>4, <2>4
  <2>6. UNCHANGED <<time, invitations>> BY DEF Insert
  <2>7. MembershipTypeOK'
    BY <1>1, <1>2, <2>1, <2>2, <2>5, <2>6, Types DEF MembershipInv, MembershipTypeOK, Member, Call
  <2>8. CallsAreInvited' BY <1>1, <1>2, <2>6 DEF MembershipInv, CallsAreInvited
  <2>9. \A i \in Invitations : AdmittedBy(i)' = AdmittedBy(i)
    BY <2>1, <2>3, <2>6 DEF AdmittedBy
  <2>10. AdmittedOnce' BY <2>1, <2>6, <2>9 DEF MembershipInv, AdmittedOnce
  <2>11. MembersFit' BY <2>1, <2>3, <2>6 DEF MembershipInv, MembersFit
  <2> QED BY <2>7, <2>8, <2>10, <2>11 DEF MembershipInv
<1> QED BY <1>3, <1>4 DEF Insert, SlugTaken

\* register_user_with_invite: under the lock of the invitation, its one member.
LEMMA AcceptKeeps ==
  ASSUME MembershipAssumption, MembershipInv, NEW c \in Calls, Accept(c) PROVE MembershipInv'
<1> DEFINE i == call[c].inv
<1>1. /\ call \in [Calls -> Call] /\ call[c] \in Call /\ time \in 0 .. MaxTime
      /\ members \subseteq Member /\ users \subseteq Emails
      /\ invitations \in [Invitations -> Invitation]
  BY Types DEF MembershipInv
<1>2. /\ call[c].step = "accept" /\ i \in Invitations
      /\ invitations[i].email \in {Anyone, call[c].email}
  BY DEF Accept, MembershipInv, CallsAreInvited
<1>3. ASSUME NEW s \in Refusals, Turn(c, s), UNCHANGED <<time, organizations>> PROVE MembershipInv'
  <2> DEFINE new == [call[c] EXCEPT !.step = s]
  <2>1. new \in Call /\ new.step = s BY <1>1 DEF Call
  <2>2. s \notin {"validate", "accept", "insert"} BY DEF Refusals
  <2> QED BY <1>3, <2>1, <2>2, CallMoves DEF Turn, Goto
<1>4. ASSUME invitations[i].status = "pending", ~(invitations[i].expires < time),
             call[c].email \notin users,
             Joins(c, Home, invitations[i].role, i),
             invitations' = [invitations EXCEPT ![i].status = "accepted"],
             Goto(c, "store"), UNCHANGED <<time, organizations>>
      PROVE  MembershipInv'
  <2> DEFINE m == [email |-> call[c].email, organization |-> Home, role |-> invitations[i].role,
                   via |-> i, at |-> time]
             new == [call[c] EXCEPT !.step = "store"]
             inv == [invitations[i] EXCEPT !.status = "accepted"]
  <2>1. /\ members' = members \cup {m} /\ users' = users \cup {call[c].email}
        /\ call' = [call EXCEPT ![c] = new]
    BY <1>4 DEF Joins, Goto
  <2>2. invitations[i] \in Invitation BY <1>1, <1>2
  <2>3. /\ m \in Member /\ m.via = i /\ m.at = time /\ m.role = invitations[i].role
        /\ m.email = call[c].email /\ m.email \in Emails
    BY <1>1, <1>2, <2>2 DEF Member, Call, Invitation
  <2>4. new \in Call /\ new.step = "store" BY <1>1 DEF Call
  <2>5. /\ inv \in Invitation /\ inv.status = "accepted" /\ inv.email = invitations[i].email
        /\ inv.role = invitations[i].role /\ inv.expires = invitations[i].expires
    BY <2>2 DEF Invitation
  <2>6. time <= invitations[i].expires
    <3>1. invitations[i].expires \in 0 .. MaxTime + Lifetime BY <2>2 DEF Invitation
    <3> QED BY <1>1, <1>4, <3>1 DEF MembershipAssumption
  <2> HIDE DEF m, new, inv
  <2>7. \A j \in Invitations : invitations'[j] = IF j = i THEN inv ELSE invitations[j]
    BY <1>1, <1>4 DEF inv
  <2>8. MembershipTypeOK'
    <3>1. invitations' \in [Invitations -> Invitation] BY <1>1, <1>4, <2>5 DEF inv
    <3>2. call' \in [Calls -> Call] BY <1>1, <2>1, <2>4
    <3>3. members' \subseteq Member /\ users' \subseteq Emails BY <1>1, <2>1, <2>3
    <3> QED BY <1>4, <3>1, <3>2, <3>3 DEF MembershipInv, MembershipTypeOK, Member, Call, Invitation
  <2>9. CallsAreInvited'
    BY <1>1, <2>1, <2>4, <2>5, <2>7 DEF MembershipInv, CallsAreInvited
  <2>10. AdmittedBy(i) = {} BY <1>2, <1>4 DEF MembershipInv, AdmittedOnce
  <2>11. \A j \in Invitations :
           {k \in members' : k.via = j} = IF j = i THEN {m} ELSE {k \in members : k.via = j}
    BY <2>1, <2>3, <2>10 DEF AdmittedBy
  <2>12. AdmittedOnce'
    <3> SUFFICES ASSUME NEW j \in Invitations
                 PROVE  IF invitations'[j].status = "accepted"
                        THEN \E k \in members' : {n \in members' : n.via = j} = {k}
                        ELSE {n \in members' : n.via = j} = {}
      BY DEF AdmittedOnce, AdmittedBy
    <3>1. CASE j = i BY <2>1, <2>5, <2>7, <2>11, <3>1
    <3>2. CASE j # i BY <2>1, <2>7, <2>11, <3>2 DEF MembershipInv, AdmittedOnce, AdmittedBy
    <3> QED BY <3>1, <3>2
  <2>13. MembersFit'
    <3> SUFFICES ASSUME NEW k \in members', k.via \in Invitations
                 PROVE  /\ k.at <= invitations'[k.via].expires
                        /\ k.role = invitations'[k.via].role
                        /\ invitations'[k.via].email \in {Anyone, k.email}
      BY DEF MembersFit
    <3>1. CASE k = m BY <1>2, <2>3, <2>5, <2>6, <2>7, <3>1
    <3>2. CASE k # m
      <4>1. k \in members BY <2>1, <3>2
      <4>2. k.via # i BY <2>10, <4>1 DEF AdmittedBy
      <4> QED BY <2>7, <4>1, <4>2 DEF MembershipInv, MembersFit
    <3> QED BY <3>1, <3>2
  <2> QED BY <2>8, <2>9, <2>12, <2>13 DEF MembershipInv
<1>5. "not valid" \in Refusals /\ "expired" \in Refusals /\ "email taken" \in Refusals
  BY DEF Refusals
<1> QED BY <1>3, <1>4, <1>5 DEF Accept, Admit

\* Time goes on.
LEMMA TickKeeps == ASSUME MembershipAssumption, MembershipInv, Tick PROVE MembershipInv'
<1>1. time' \in 0 .. MaxTime
  <2>1. time \in 0 .. MaxTime BY Types DEF MembershipInv
  <2> QED BY <2>1 DEF Tick, MembershipAssumption
<1> QED
  BY <1>1 DEF Tick, MembershipInv, MembershipTypeOK, CallsAreInvited, AdmittedOnce, AdmittedBy,
              MembersFit

\* Every step keeps it.
LEMMA MembershipKeeps ==
  ASSUME MembershipAssumption, MembershipInv, [MembershipNext]_membershipVars PROVE MembershipInv'
<1>1. CASE Tick BY <1>1, TickKeeps
<1>2. ASSUME NEW i \in Invitations,
             \/ \E e \in Emails \cup {Anyone}, r \in Roles : CreateInvitation(i, e, r)
             \/ RevokeInvitation(i)
      PROVE  MembershipInv'
  BY <1>2, InvitationsKeep
<1>3. ASSUME NEW c \in Calls,
             \/ \E e \in Emails, b \in Bases : Register(c, e, b)
             \/ \E e \in Emails, i \in Invitations : RegisterWithInvite(c, e, i)
             \/ Insert(c) \/ StoreToken(c) \/ Validate(c) \/ Accept(c) \/ StoreInvitedToken(c)
      PROVE  MembershipInv'
  BY <1>3, CallsKeep, InsertKeeps, AcceptKeeps
<1>4. CASE UNCHANGED membershipVars
  BY <1>4 DEF membershipVars, MembershipInv, MembershipTypeOK, CallsAreInvited, AdmittedOnce,
              AdmittedBy, MembersFit
<1> QED BY <1>1, <1>2, <1>3, <1>4 DEF MembershipNext

-----------------------------------------------------------------------------
\* AuthService.registerWithInvite beside InvitationsService: whatever is revoked, expires or
\* is accepted between the check and the transaction, an invitation admits the one it is for,
\* once, and no other.
THEOREM InvitationsAdmit ==
  ASSUME MembershipAssumption PROVE MembershipSpec => [](MembershipTypeOK /\ AdmittedAsInvited)
<1>1. MembershipInit => MembershipInv BY FounderIsIn
<1>2. MembershipInv /\ [MembershipNext]_membershipVars => MembershipInv' BY MembershipKeeps
<1>3. ASSUME MembershipInv PROVE MembershipTypeOK /\ AdmittedAsInvited
  <2> SUFFICES ASSUME NEW i \in Invitations
               PROVE  /\ Cardinality(AdmittedBy(i)) =
                           (IF invitations[i].status = "accepted" THEN 1 ELSE 0)
                      /\ \A m \in AdmittedBy(i) :
                           /\ m.at <= invitations[i].expires /\ m.role = invitations[i].role
                           /\ invitations[i].email \in {Anyone, m.email}
    BY <1>3 DEF AdmittedAsInvited, MembershipInv
  <2>1. \A m \in AdmittedBy(i) :
          /\ m.at <= invitations[i].expires /\ m.role = invitations[i].role
          /\ invitations[i].email \in {Anyone, m.email}
    BY <1>3 DEF MembershipInv, MembersFit, AdmittedBy
  <2>2. CASE invitations[i].status = "accepted"
    <3>1. PICK m \in members : AdmittedBy(i) = {m} BY <1>3, <2>2 DEF MembershipInv, AdmittedOnce
    <3> QED BY <2>1, <2>2, <3>1, FS_Singleton
  <2>3. CASE invitations[i].status # "accepted"
    <3>1. AdmittedBy(i) = {} BY <1>3, <2>3 DEF MembershipInv, AdmittedOnce
    <3> QED BY <2>1, <2>3, <3>1, FS_EmptySet
  <2> QED BY <2>2, <2>3
<1> QED BY <1>1, <1>2, <1>3, PTL DEF MembershipSpec

-----------------------------------------------------------------------------
(* The lists: any rows, pages and trees of suites, and whatever comes between two *)
(* pages.  First, induction over numbers.                                         *)

\* A set of natural numbers has a least one.
LEMMA LeastNatural ==
  ASSUME NEW S \in SUBSET Nat, S # {}
  PROVE  \E n \in S : \A m \in S : n <= m
<1> DEFINE F == {0 .. n : n \in S}
<1>1. F \subseteq FiniteSubsetsOf(Nat)
  <2>1. \A n \in S : 0 .. n \in SUBSET Nat /\ IsFiniteSet(0 .. n) BY FS_Interval
  <2> QED BY <2>1 DEF FiniteSubsetsOf
<1>2. IsWellFoundedOn(StrictSubsetOrdering(Nat), FiniteSubsetsOf(Nat))
  BY FS_StrictSubsetOrderingWellFounded
<1>3. F # {} OBVIOUS
<1> HIDE DEF F
<1>4. PICK X \in F : \A Y \in F : <<Y, X>> \notin StrictSubsetOrdering(Nat)
  BY <1>1, <1>2, <1>3, WFMin
<1>5. PICK n \in S : X = 0 .. n BY DEF F
<1>6. ASSUME NEW m \in S, m < n PROVE FALSE
  <2>1. 0 .. m \in F BY DEF F
  <2>2. 0 .. m \subseteq 0 .. n /\ n \in 0 .. n /\ n \notin 0 .. m BY <1>6
  <2>3. 0 .. m \in SUBSET Nat /\ 0 .. n \in SUBSET Nat OBVIOUS
  <2> QED BY <1>4, <1>5, <2>1, <2>2, <2>3 DEF StrictSubsetOrdering
<1> QED BY <1>6

\* Induction, for a set of numbers.
LEMMA InSteps ==
  ASSUME NEW S, NEW n \in Nat, 0 \in S, \A i \in 1 .. n : i - 1 \in S => i \in S
  PROVE  \A i \in 0 .. n : i \in S
<1> DEFINE B == (0 .. n) \ S
<1> SUFFICES ASSUME B # {} PROVE FALSE OBVIOUS
<1>1. B \in SUBSET Nat OBVIOUS
<1> HIDE DEF B
<1>2. PICK i \in B : \A j \in B : i <= j BY <1>1, LeastNatural
<1>3. i # 0 /\ i \in 1 .. n BY <1>2 DEF B
<1>4. i - 1 \in S \/ i - 1 \in B BY <1>3 DEF B
<1> QED BY <1>2, <1>3, <1>4 DEF B

-----------------------------------------------------------------------------
(* The tree of suites *)

\* The ways down from g, n steps long.
PathsTo(g, x, n) ==
  {path \in [0 .. n -> Groups] : /\ path[0] = g /\ path[n] = x
                                 /\ \A i \in 1 .. n : ParentOf[path[i]] = path[i - 1]}

\* What they reach in at most n steps.
Reached(g, n) == {x \in Groups : \E m \in 0 .. n : PathsTo(g, x, m) # {}}

\* The recursive statement reaches it step by step.
LEMMA ReachedInSteps ==
  ASSUME R!ListsAssumption, NEW g \in Groups, NEW n \in Nat
  PROVE  Reached(g, n) = IF n = 0 THEN {g}
                         ELSE Reached(g, n - 1)
                                \cup {x \in Groups : ParentOf[x] \in Reached(g, n - 1)}
<1>1. CASE n = 0
  <2>1. [i \in 0 .. 0 |-> g] \in PathsTo(g, g, 0) BY DEF PathsTo
  <2>2. \A x : PathsTo(g, x, 0) # {} => x = g BY DEF PathsTo
  <2>3. \A m \in 0 .. n : m = 0 BY <1>1
  <2> QED BY <1>1, <2>1, <2>2, <2>3 DEF Reached
<1>2. CASE n # 0
  <2>0. n - 1 \in Nat /\ n - 1 \in 0 .. n BY <1>2
  <2>1. ASSUME NEW x \in Reached(g, n)
        PROVE  x \in Reached(g, n - 1) \/ ParentOf[x] \in Reached(g, n - 1)
    <3>1. PICK m \in 0 .. n : PathsTo(g, x, m) # {} BY DEF Reached
    <3>2. PICK path \in PathsTo(g, x, m) : TRUE BY <3>1
    <3>3. CASE m = n
      <4> DEFINE upper == [i \in 0 .. n - 1 |-> path[i]]
      <4>1. path \in [0 .. n -> Groups] /\ path[0] = g /\ path[n] = x
            /\ \A i \in 1 .. n : ParentOf[path[i]] = path[i - 1]
        BY <3>2, <3>3 DEF PathsTo
      <4>2. /\ upper \in [0 .. n - 1 -> Groups] /\ upper[0] = g
            /\ upper[n - 1] = ParentOf[x]
            /\ \A i \in 1 .. n - 1 : ParentOf[upper[i]] = upper[i - 1]
        BY <1>2, <4>1
      <4>3. upper \in PathsTo(g, ParentOf[x], n - 1) BY <4>2 DEF PathsTo
      <4>4. ParentOf[x] \in Groups /\ n - 1 \in 0 .. n - 1 BY <2>0, <4>2
      <4> QED BY <4>3, <4>4 DEF Reached
    <3>4. CASE m # n
      <4>1. m \in 0 .. n - 1 BY <3>4
      <4> QED BY <3>2, <4>1 DEF Reached
    <3> QED BY <3>3, <3>4
  <2>2. Reached(g, n - 1) \subseteq Reached(g, n)
    <3>1. 0 .. n - 1 \subseteq 0 .. n OBVIOUS
    <3> QED BY <3>1 DEF Reached
  <2>3. ASSUME NEW x \in Groups, ParentOf[x] \in Reached(g, n - 1) PROVE x \in Reached(g, n)
    <3>1. PICK m \in 0 .. n - 1 : PathsTo(g, ParentOf[x], m) # {} BY <2>3 DEF Reached
    <3>2. PICK path \in PathsTo(g, ParentOf[x], m) : TRUE BY <3>1
    <3> DEFINE lower == [i \in 0 .. m + 1 |-> IF i = m + 1 THEN x ELSE path[i]]
    <3>3. /\ path \in [0 .. m -> Groups] /\ path[0] = g /\ path[m] = ParentOf[x]
          /\ \A i \in 1 .. m : ParentOf[path[i]] = path[i - 1]
      BY <3>2 DEF PathsTo
    <3>4. lower \in [0 .. m + 1 -> Groups] /\ lower[0] = g /\ lower[m + 1] = x BY <3>3
    <3>5. ASSUME NEW i \in 1 .. m + 1 PROVE ParentOf[lower[i]] = lower[i - 1]
      <4>1. CASE i = m + 1 BY <3>3, <4>1
      <4>2. CASE i # m + 1
        <5>1. i \in 1 .. m /\ i - 1 \in 0 .. m + 1 /\ i \in 0 .. m + 1 /\ i - 1 # m + 1
          BY <4>2
        <5> QED BY <3>3, <4>2, <5>1
      <4> QED BY <4>1, <4>2
    <3>6. lower \in PathsTo(g, x, m + 1) BY <3>4, <3>5 DEF PathsTo
    <3>7. m + 1 \in 0 .. n OBVIOUS
    <3> QED BY <3>6, <3>7 DEF Reached
  <2> QED
    <3>1. \A x \in Reached(g, n) : x \in Groups BY DEF Reached
    <3> QED BY <1>2, <2>1, <2>2, <2>3, <3>1
<1> QED BY <1>1, <1>2

\* So it reaches all of it.
LEMMA DescendantsAreReached ==
  ASSUME R!ListsAssumption, NEW g \in Groups
  PROVE  R!DescendantIds(g) = Reached(g, Cardinality(Groups))
<1> DEFINE Down(d) == [n \in Nat |-> IF n = 0 THEN {g}
                                     ELSE d[n - 1] \cup {x \in Groups : ParentOf[x] \in d[n - 1]}]
           reached == [n \in Nat |-> Reached(g, n)]
           down == CHOOSE d : d = Down(d)
           N == Cardinality(Groups)
<1>1. R!DescendantIds(g) = down[R!Cardinality(Groups)] BY DEF R!DescendantIds
<1>2. reached = Down(reached)
  <2>1. ASSUME NEW n \in Nat
        PROVE  reached[n] = IF n = 0 THEN {g}
                            ELSE reached[n - 1] \cup {x \in Groups : ParentOf[x] \in reached[n - 1]}
    <3>1. reached[n] = Reached(g, n) /\ (n # 0 => n - 1 \in Nat) OBVIOUS
    <3>2. n # 0 => reached[n - 1] = Reached(g, n - 1) BY <3>1
    <3> HIDE DEF reached
    <3> QED BY <3>1, <3>2, ReachedInSteps
  <2> QED BY <2>1
<1> HIDE DEF reached
<1>3. down = Down(down) BY <1>2
<1> HIDE DEF down
<1>4. \A n \in Nat : down[n] = IF n = 0 THEN {g}
                     ELSE down[n - 1] \cup {x \in Groups : ParentOf[x] \in down[n - 1]}
  BY <1>3
<1>5. \A n \in Nat : reached[n] = IF n = 0 THEN {g}
                     ELSE reached[n - 1] \cup {x \in Groups : ParentOf[x] \in reached[n - 1]}
  BY <1>2
<1> HIDE DEF Down
<1> DEFINE Same == {n \in Nat : down[n] = reached[n]}
<1>6. N \in Nat /\ R!Cardinality(Groups) = N
  BY FS_CardinalityType DEF R!ListsAssumption, R!IsFiniteSet, IsFiniteSet, R!Cardinality, Cardinality
<1>7. 0 \in Same BY <1>4, <1>5
<1>8. \A i \in 1 .. N : i - 1 \in Same => i \in Same
  <2> SUFFICES ASSUME NEW i \in 1 .. N, i - 1 \in Same PROVE i \in Same OBVIOUS
  <2>1. i \in Nat /\ i # 0 /\ i - 1 \in Nat BY <1>6
  <2>2. down[i - 1] = reached[i - 1] BY <2>1
  <2>3. down[i] = down[i - 1] \cup {x \in Groups : ParentOf[x] \in down[i - 1]} BY <1>4, <2>1
  <2>4. reached[i] = reached[i - 1] \cup {x \in Groups : ParentOf[x] \in reached[i - 1]}
    BY <1>5, <2>1
  <2>5. down[i] = reached[i] BY <2>2, <2>3, <2>4
  <2> QED BY <2>1, <2>5
<1> HIDE DEF Same
<1>9. N \in 0 .. N BY <1>6
<1>10. N \in Same BY <1>6, <1>7, <1>8, <1>9, InSteps
<1> QED BY <1>1, <1>6, <1>10 DEF Same, reached

\* The same for the tree of the page: from a suite to the one above.
Above(x, d, n) == IF n = 0 THEN x
                  ELSE IF d[n - 1] \in Groups THEN ParentOf[d[n - 1]] ELSE NoGroup
IsAscent(x, d, n) == d \in [0 .. n -> Groups \cup {NoGroup}]
                     /\ \A i \in 0 .. n : d[i] = Above(x, d, i)

\* Two ascents are the same as far as they go.
LEMMA AscentsAlike ==
  ASSUME NEW x, NEW n \in Nat, NEW d, NEW e, \A i \in 0 .. n : d[i] = Above(x, d, i),
         \A i \in 0 .. n : e[i] = Above(x, e, i)
  PROVE  \A i \in 0 .. n : d[i] = e[i]
<1> DEFINE S == {i \in 0 .. n : d[i] = e[i]}
<1>1. 0 \in S BY DEF Above
<1>2. \A i \in 1 .. n : i - 1 \in S => i \in S
  <2> SUFFICES ASSUME NEW i \in 1 .. n, i - 1 \in S PROVE i \in S OBVIOUS
  <2>1. i \in 0 .. n /\ i # 0 /\ d[i - 1] = e[i - 1] OBVIOUS
  <2>2. d[i] = e[i] BY <2>1 DEF Above
  <2> QED BY <2>1, <2>2
<1> HIDE DEF S
<1>3. \A i \in 0 .. n : i \in S BY <1>1, <1>2, InSteps
<1> QED BY <1>3 DEF S

\* There is one of every length.
LEMMA AscentsExist ==
  ASSUME R!ListsAssumption, NEW x \in Groups, NEW n \in Nat
  PROVE  \E d : IsAscent(x, d, n)
<1> DEFINE S == {m \in Nat : \E d : IsAscent(x, d, m)}
<1>1. 0 \in S
  <2>1. IsAscent(x, [i \in 0 .. 0 |-> x], 0) BY DEF IsAscent, Above
  <2> QED BY <2>1
<1>2. ASSUME NEW m \in 1 .. n, m - 1 \in S PROVE m \in S
  <2>1. m \in Nat /\ m - 1 \in Nat OBVIOUS
  <2>2. PICK d : IsAscent(x, d, m - 1) BY <1>2
  <2> DEFINE y == Above(x, d, m)
             e == [i \in 0 .. m |-> IF i = m THEN y ELSE d[i]]
  <2>3. d[m - 1] \in Groups \cup {NoGroup} BY <2>1, <2>2 DEF IsAscent
  <2>4. y \in Groups \cup {NoGroup} BY <2>3 DEF Above, R!ListsAssumption
  <2>5. e \in [0 .. m -> Groups \cup {NoGroup}] BY <2>2, <2>4 DEF IsAscent
  <2>6. ASSUME NEW i \in 0 .. m PROVE e[i] = Above(x, e, i)
    <3>1. CASE i = 0
      <4>1. e[0] = d[0] BY <2>1
      <4>2. d[0] = Above(x, d, 0) BY <2>1, <2>2 DEF IsAscent
      <4> QED BY <3>1, <4>1, <4>2 DEF Above
    <3>2. CASE i # 0
      <4>1. i - 1 \in 0 .. m /\ i - 1 # m BY <3>2
      <4>2. e[i - 1] = d[i - 1] BY <4>1
      <4>3. Above(x, e, i) = Above(x, d, i) BY <4>2 DEF Above
      <4>4. CASE i = m BY <4>3, <4>4
      <4>5. CASE i # m
        <5>1. i \in 0 .. m - 1 /\ e[i] = d[i] BY <4>5
        <5> QED BY <2>2, <4>3, <5>1 DEF IsAscent
      <4> QED BY <4>4, <4>5
    <3> QED BY <3>1, <3>2
  <2> HIDE DEF e
  <2> QED BY <2>1, <2>5, <2>6 DEF IsAscent
<1> HIDE DEF S
<1>3. n \in 0 .. n OBVIOUS
<1>4. n \in S BY <1>1, <1>2, <1>3, InSteps
<1> QED BY <1>4 DEF S

\* What the page shows under a suite is what the recursive statement asks for.
LEMMA TreeIsReached ==
  ASSUME R!ListsAssumption, NEW g \in Groups, NEW x \in Groups, R!InTree(x, g)
  PROVE  x \in R!DescendantIds(g)
<1> DEFINE Up(d) == [n \in Nat |-> IF n = 0 THEN x
                                   ELSE IF d[n - 1] \in Groups THEN ParentOf[d[n - 1]] ELSE NoGroup]
           above == CHOOSE d : d = Up(d)
           N == Cardinality(Groups)
<1>1. PICK n \in 0 .. R!Cardinality(Groups) : above[n] = g BY DEF R!InTree
<1>2. N \in Nat /\ R!Cardinality(Groups) = N
  BY FS_CardinalityType DEF R!ListsAssumption, R!IsFiniteSet, IsFiniteSet, R!Cardinality, Cardinality
<1>3. \E d : d = Up(d)
  <2> DEFINE ascent(m) == CHOOSE d : IsAscent(x, d, m)
             e == [m \in Nat |-> ascent(m)[m]]
  <2>1. \A m \in Nat : IsAscent(x, ascent(m), m) BY AscentsExist
  <2> HIDE DEF ascent
  <2>2. ASSUME NEW m \in Nat PROVE e[m] = Above(x, e, m)
    <3>1. CASE m = 0
      <4>1. 0 \in 0 .. 0 OBVIOUS
      <4>2. ascent(0)[0] = Above(x, ascent(0), 0) BY <2>1, <4>1 DEF IsAscent
      <4> QED BY <3>1, <4>2 DEF Above
    <3>2. CASE m # 0
      <4>1. m - 1 \in Nat /\ m - 1 \in 0 .. m - 1 /\ m \in 0 .. m BY <3>2
      <4> DEFINE a == ascent(m)
                 b == ascent(m - 1)
      <4>2. /\ \A i \in 0 .. m - 1 : a[i] = Above(x, a, i)
            /\ \A i \in 0 .. m - 1 : b[i] = Above(x, b, i)
        BY <2>1, <4>1 DEF IsAscent
      <4> HIDE DEF a, b
      <4>3. \A i \in 0 .. m - 1 : a[i] = b[i] BY <4>1, <4>2, AscentsAlike
      <4>4. e[m - 1] = ascent(m)[m - 1] BY <4>1, <4>3 DEF a, b
      <4>5. e[m] = Above(x, ascent(m), m) BY <2>1, <4>1 DEF IsAscent
      <4> HIDE DEF e
      <4> QED BY <3>2, <4>4, <4>5 DEF Above
    <3> QED BY <3>1, <3>2
  <2>3. e = Up(e) BY SMTT(60), <2>2 DEF Above
  <2> QED BY <2>3
<1>4. above = Up(above) BY <1>3
<1> HIDE DEF above
<1>5. \A m \in Nat : above[m] = Above(x, above, m) BY <1>4 DEF Above
<1> HIDE DEF Up
<1> DEFINE path == [i \in 0 .. n |-> above[n - i]]
           S == {i \in 0 .. n : path[i] \in Groups}
<1>6. n \in Nat /\ \A i \in 0 .. n : n - i \in 0 .. n /\ n - i \in Nat BY <1>2
<1>7. 0 \in S BY <1>1, <1>6
<1>8. ASSUME NEW i \in 1 .. n, i - 1 \in S
      PROVE  i \in S /\ ParentOf[path[i]] = path[i - 1]
  <2>1. /\ i \in 0 .. n /\ i - 1 \in 0 .. n /\ n - (i - 1) = (n - i) + 1
        /\ n - i \in Nat /\ (n - i) + 1 \in Nat /\ (n - i) + 1 # 0 /\ ((n - i) + 1) - 1 = n - i
    BY <1>6
  <2>2. path[i - 1] = above[(n - i) + 1] /\ path[i] = above[n - i] BY <2>1
  <2>3. above[(n - i) + 1] = IF above[n - i] \in Groups THEN ParentOf[above[n - i]] ELSE NoGroup
    BY <1>5, <2>1 DEF Above
  <2>4. path[i - 1] \in Groups BY <1>8
  <2> QED BY <2>1, <2>2, <2>3, <2>4 DEF R!ListsAssumption
<1>9. \A i \in 0 .. n : i \in S
  <2> HIDE DEF S
  <2> QED BY <1>6, <1>7, <1>8, InSteps
<1>10. path[n] = x /\ path[0] = g
  <2>1. above[0] = x BY <1>5 DEF Above
  <2> QED BY <1>1, <1>6, <2>1
<1>11. path \in PathsTo(g, x, n)
  <2>1. \A i \in 1 .. n : i - 1 \in 0 .. n BY <1>6
  <2>2. path \in [0 .. n -> Groups] BY <1>9
  <2> HIDE DEF path, S
  <2> QED BY <1>8, <1>9, <1>10, <2>1, <2>2 DEF PathsTo
<1>12. n \in 0 .. N BY <1>2
<1> QED BY <1>2, <1>11, <1>12, DescendantsAreReached DEF Reached

-----------------------------------------------------------------------------
(* The pages *)

\* A page has the rows of its places, and rows of the list only.
LEMMA PageOfPlaces ==
  ASSUME NEW S, NEW n \in Nat, NEW s \in [1 .. n -> S], NEW a \in Nat, NEW k \in Nat
  PROVE  /\ R!ToSet(SubSeq(s, a + 1, R!Min({Len(s), a + k}))) \subseteq S
         /\ \A i \in 1 .. n : a < i /\ i <= a + k
              => s[i] \in R!ToSet(SubSeq(s, a + 1, R!Min({Len(s), a + k})))
<1> DEFINE b == R!Min({Len(s), a + k})
           part == SubSeq(s, a + 1, b)
<1>1. Len(s) = n /\ s \in Seq(S) OBVIOUS
<1>2. b = IF n <= a + k THEN n ELSE a + k
  <2>1. CASE n <= a + k
    <3>1. n \in {n, a + k} /\ \A y \in {n, a + k} : n <= y BY <2>1
    <3>2. \A x \in {n, a + k} : (\A y \in {n, a + k} : x <= y) => x = n BY <2>1
    <3> QED BY <1>1, <2>1, <3>1, <3>2 DEF R!Min
  <2>2. CASE ~(n <= a + k)
    <3>1. a + k \in {n, a + k} /\ \A y \in {n, a + k} : a + k <= y BY <2>2
    <3>2. \A x \in {n, a + k} : (\A y \in {n, a + k} : x <= y) => x = a + k BY <2>2
    <3> QED BY <1>1, <2>2, <3>1, <3>2 DEF R!Min
  <2> QED BY <2>1, <2>2
<1>3. b \in 0 .. n BY <1>2
<1> HIDE DEF b
<1>4. part = [i \in 1 .. ((1 + b) - (a + 1)) |-> s[(i + (a + 1)) - 1]] BY <1>1, <1>3
<1> HIDE DEF part
<1>5. DOMAIN part = 1 .. (b - a) /\ \A i \in 1 .. (b - a) : part[i] = s[i + a]
  <2>1. 1 .. ((1 + b) - (a + 1)) = 1 .. (b - a) BY <1>3
  <2>2. \A i \in 1 .. (b - a) : (i + (a + 1)) - 1 = i + a BY <1>3
  <2> QED BY <1>4, <2>1, <2>2
<1>6. ASSUME NEW r \in R!ToSet(part)
      PROVE  \E j \in 1 .. n : a < j /\ j <= a + k /\ r = s[j]
  <2>1. PICK i \in 1 .. (b - a) : r = s[i + a] BY <1>5 DEF R!ToSet
  <2>2. i + a \in 1 .. n /\ a < i + a /\ i + a <= a + k BY <1>2, <1>3, <2>1
  <2> QED BY <2>1, <2>2
<1>7. ASSUME NEW j \in 1 .. n, a < j, j <= a + k PROVE s[j] \in R!ToSet(part)
  <2>1. j - a \in 1 .. (b - a) /\ (j - a) + a = j BY <1>2, <1>3, <1>7
  <2>2. part[j - a] = s[j] BY <1>5, <2>1
  <2> QED BY <1>5, <2>1, <2>2 DEF R!ToSet
<1> QED BY <1>6, <1>7 DEF part, b

\* The last page is reached when no row is left.
LEMMA PagesAreEnough ==
  ASSUME NEW n \in Nat, NEW k \in Nat \ {0}, NEW p \in Nat, n > p * k
  PROVE  p < (n + k - 1) \div k
<1> DEFINE d == (n + k - 1) \div k
<1>1. n + k - 1 \in Nat /\ k \in Nat /\ k > 0 /\ d \in Nat /\ n + k - 1 < (d + 1) * k
  OBVIOUS
<1> HIDE DEF d
<1>2. ASSUME d <= p PROVE FALSE
  <2>1. (d + 1) * k <= (p + 1) * k BY <1>1, <1>2
  <2>2. (p + 1) * k = p * k + k BY <1>1
  <2>3. p * k \in Nat /\ (d + 1) * k \in Nat BY <1>1
  <2> QED BY <1>1, <2>1, <2>2, <2>3
<1> QED BY <1>1, <1>2 DEF d

\* The instance counts as the module does.
LEMMA CountsAlike ==
  ASSUME NEW S PROVE R!Cardinality(S) = Cardinality(S) /\ (R!IsFiniteSet(S) <=> IsFiniteSet(S))
BY DEF R!Cardinality, Cardinality, R!IsFiniteSet, IsFiniteSet

-----------------------------------------------------------------------------
(* The reader *)

\* An order that does not change, and no status: the case that misses nothing.
Steady == query.sortBy = "createdAt" /\ query.status = AnyStatus

\* No two rows are of the same moment.
MomentsDiffer == \A x, y \in R!Stored : created[x] = created[y] => x = y

\* The rows up to r, and its place among them.
UpTo(r) == {x \in R!Matching(query) : IF query.sortOrder = "asc" THEN created[x] <= created[r]
                                                                 ELSE created[x] >= created[r]}
Place(r) == Cardinality(UpTo(r))

\* A row the reader could have seen has been shown, or is on a page still to come.
Ahead(r) ==
  CASE step = "rows" -> r \in seen \/ Place(r) > R!Offset(page)
    [] step = "count" -> r \in seen \cup shown \/ Place(r) > page * PageSize
    [] step = "answered" -> r \in seen \/ (Place(r) > page * PageSize /\ total > page * PageSize)
    [] OTHER -> FALSE

ReaderInv ==
  /\ R!TypeOK /\ MomentsDiffer
  /\ step = "none" => known = {}
  /\ Steady => \A r \in known : r \in R!Matching(query) /\ Ahead(r)

\* What a query is made of.
LEMMA QueryTyped ==
  ASSUME query \in R!Queries
  PROVE  query \in [sortBy : R!Columns, sortOrder : {"asc", "desc"}, group : Groups \cup {NoGroup},
                    status : {query.status}]
BY DEF R!Queries, R!ListRuns, R!ListTests, R!ListTokens, R!ListInvitations, R!ListMembers,
       R!ListProjects, R!Asked, R!AnyGroup, R!Columns

\* The rows that match are rows that are stored, and there are no more of them than rows.
LEMMA MatchingFinite ==
  ASSUME R!ListsAssumption, NEW q
  PROVE  /\ R!Matching(q) \subseteq R!Stored /\ R!Stored \subseteq Rows /\ IsFiniteSet(R!Matching(q))
         /\ R!Cardinality(R!Matching(q)) = Cardinality(R!Matching(q))
         /\ R!Cardinality(R!Matching(q)) \in 0 .. R!Cardinality(Rows)
<1>1. R!Matching(q) \subseteq R!Stored /\ R!Stored \subseteq Rows BY DEF R!Matching, R!Stored
<1>2. IsFiniteSet(Rows) BY CountsAlike DEF R!ListsAssumption
<1>3. IsFiniteSet(R!Matching(q)) /\ Cardinality(R!Matching(q)) <= Cardinality(Rows)
  BY <1>1, <1>2, FS_Subset
<1>4. Cardinality(R!Matching(q)) \in Nat /\ Cardinality(Rows) \in Nat
  BY <1>2, <1>3, FS_CardinalityType
<1> QED BY <1>1, <1>3, <1>4, CountsAlike

\* What a row's place is in the order of a statement.
LEMMA PlaceInOrder ==
  ASSUME R!ListsAssumption, R!TypeOK, MomentsDiffer, query.sortBy = "createdAt",
         NEW s \in R!Ordered(query), NEW r \in R!Matching(query)
  PROVE  \E i \in 1 .. Len(s) : s[i] = r /\ i = Place(r)
<1> DEFINE M == R!Matching(query)
           n == Cardinality(M)
<1>1. M \subseteq R!Stored /\ R!Stored \subseteq Rows /\ IsFiniteSet(M) /\ R!Cardinality(M) = n /\ n \in Nat
  BY MatchingFinite, FS_CardinalityType
<1> HIDE DEF n
<1>2. s \in [1 .. n -> M] /\ (\A i, j \in 1 .. n : i # j => s[i] # s[j])
  BY <1>1 DEF R!Ordered, R!SetToSeqs
<1>3. Len(s) = n BY <1>1, <1>2
<1>4. \A i, j \in 1 .. n : i < j => IF query.sortOrder = "asc" THEN created[s[i]] <= created[s[j]]
                                                              ELSE created[s[i]] >= created[s[j]]
  BY <1>3 DEF R!Ordered, R!Key
<1> HIDE DEF M
<1>5. s \in Surjection(1 .. n, M)
  <2>1. s \in Injection(1 .. n, M) BY <1>2 DEF Injection, IsInjective
  <2>2. Cardinality(1 .. n) = n BY <1>1, FS_Interval
  <2> QED BY <1>1, <2>1, <2>2, FS_Injection DEF n
<1>6. PICK i \in 1 .. n : s[i] = r BY <1>5 DEF M, Surjection
<1>7. \A x \in M : created[x] \in Int BY <1>1 DEF R!TypeOK, R!Moments, R!NotStored
<1>8. ASSUME NEW j \in 1 .. n PROVE s[j] \in UpTo(r) <=> j <= i
  <2>1. s[j] \in M /\ s[i] \in M BY <1>2
  <2>2. CASE j < i BY <1>4, <1>6, <2>1, <2>2 DEF UpTo, M
  <2>3. CASE j = i BY <1>6, <1>7, <2>1, <2>3 DEF UpTo, M
  <2>4. CASE i < j
    <3>1. s[i] # s[j] BY <1>2, <2>4
    <3>2. created[s[i]] # created[s[j]] BY <1>1, <2>1, <3>1 DEF MomentsDiffer
    <3>3. IF query.sortOrder = "asc" THEN created[s[i]] < created[s[j]]
                                     ELSE created[s[i]] > created[s[j]]
      BY <1>4, <1>7, <2>1, <2>4, <3>2
    <3> QED BY <1>6, <1>7, <2>1, <2>4, <3>3 DEF UpTo
  <2> QED BY <2>2, <2>3, <2>4
<1> DEFINE f == [j \in 1 .. i |-> s[j]]
<1>9. f \in Bijection(1 .. i, UpTo(r))
  <2>0. \A j \in 1 .. i : j \in 1 .. n BY <1>1
  <2>1. f \in [1 .. i -> UpTo(r)] BY <1>8, <2>0
  <2>2. \A j, k \in 1 .. i : f[j] = f[k] => j = k BY <1>2, <2>0
  <2>3. ASSUME NEW x \in UpTo(r) PROVE \E j \in 1 .. i : f[j] = x
    <3>1. x \in M BY DEF UpTo, M
    <3>2. PICK j \in 1 .. n : s[j] = x BY <1>5, <3>1 DEF Surjection
    <3>3. j \in 1 .. i BY <1>8, <3>2
    <3> QED BY <3>2, <3>3
  <2> HIDE DEF f
  <2> QED BY <2>1, <2>2, <2>3 DEF Bijection, Injection, IsInjective, Surjection
<1>10. Cardinality(UpTo(r)) = i
  <2>1. IsFiniteSet(1 .. i) /\ Cardinality(1 .. i) = i BY <1>1, FS_Interval
  <2>2. ExistsBijection(1 .. i, UpTo(r)) BY <1>9 DEF ExistsBijection
  <2> QED BY <2>1, <2>2, FS_Bijection
<1> QED BY <1>3, <1>6, <1>10 DEF Place

\* A row has a place, which is one of the rows that match.
LEMMA PlaceBounds ==
  ASSUME R!ListsAssumption, R!TypeOK, NEW r \in R!Matching(query)
  PROVE  Place(r) \in 1 .. Cardinality(R!Matching(query)) /\ IsFiniteSet(UpTo(r))
<1>1. IsFiniteSet(R!Matching(query)) /\ R!Matching(query) \subseteq Rows BY MatchingFinite
<1>2. UpTo(r) \subseteq R!Matching(query) BY DEF UpTo
<1>3. IsFiniteSet(UpTo(r)) /\ Place(r) <= Cardinality(R!Matching(query)) BY <1>1, <1>2, FS_Subset DEF Place
<1>4. Place(r) \in Nat /\ Cardinality(R!Matching(query)) \in Nat BY <1>1, <1>3, FS_CardinalityType DEF Place
<1>5. r \in UpTo(r)
  <2>1. created[r] \in Int BY <1>1 DEF R!TypeOK, R!Moments, R!NotStored
  <2> QED BY <2>1 DEF UpTo
<1>6. Place(r) # 0 BY <1>3, <1>5, FS_EmptySet DEF Place
<1> QED BY <1>3, <1>4, <1>6

-----------------------------------------------------------------------------
\* What the statement of a page shows.
LEMMA RowsOfThePage ==
  ASSUME R!ListsAssumption, R!TypeOK, NEW s \in R!Ordered(query)
  PROVE  LET shows == R!ToSet(SubSeq(s, R!Offset(page) + 1, R!Min({Len(s), R!Offset(page) + PageSize})))
         IN  /\ shows \subseteq R!Matching(query)
             /\ \A i \in 1 .. Len(s) : R!Offset(page) < i /\ i <= page * PageSize => s[i] \in shows
<1> DEFINE M == R!Matching(query)
           n == Cardinality(M)
           a == R!Offset(page)
<1>1. IsFiniteSet(M) /\ R!Cardinality(M) = n /\ n \in Nat BY MatchingFinite, FS_CardinalityType
<1> HIDE DEF n
<1>2. s \in [1 .. n -> M] BY <1>1 DEF R!Ordered, R!SetToSeqs
<1>3. a \in Nat /\ PageSize \in Nat /\ a + PageSize = page * PageSize
  BY DEF R!Offset, R!TypeOK, R!ListsAssumption
<1> HIDE DEF a, M
<1>4. /\ R!ToSet(SubSeq(s, a + 1, R!Min({Len(s), a + PageSize}))) \subseteq M
      /\ \A i \in 1 .. n : a < i /\ i <= a + PageSize
           => s[i] \in R!ToSet(SubSeq(s, a + 1, R!Min({Len(s), a + PageSize})))
  BY <1>1, <1>2, <1>3, PageOfPlaces
<1>5. Len(s) = n BY <1>1, <1>2
<1> QED BY <1>3, <1>4, <1>5 DEF a, M

\* Nobody has read anything.
LEMMA NothingIsListed == ASSUME R!ListsAssumption, R!Init PROVE ReaderInv
<1>1. R!Min(Statuses) \in Statuses
  <2>1. \E x \in Statuses : \A y \in Statuses : x <= y BY LeastNatural DEF R!ListsAssumption
  <2> QED BY <2>1 DEF R!Min
<1>2. R!Cardinality(Rows) \in Nat
  BY CountsAlike, FS_CardinalityType DEF R!ListsAssumption
<1>3. R!TypeOK BY <1>1, <1>2 DEF R!Init, R!TypeOK, R!ListsAssumption
<1>4. \A x \in R!Stored : FALSE BY DEF R!Init, R!Stored
<1> QED BY <1>3, <1>4 DEF R!Init, ReaderInv, MomentsDiffer

\* Rows that come in between move those of a page to a later one, and never to an earlier.
LEMMA InsertKeepsReader ==
  ASSUME R!ListsAssumption, ReaderInv, NEW r \in Rows, NEW v \in Statuses, R!Insert(r, v)
  PROVE  ReaderInv'
<1>1. PICK m \in R!Moments \ {created[x] : x \in R!Stored} : created' = [created EXCEPT ![r] = m]
  BY DEF R!Insert
<1>2. /\ created[r] = R!NotStored /\ status' = [status EXCEPT ![r] = v]
      /\ UNCHANGED <<updates, query, page, step, shown, total, seen, known>>
  BY DEF R!Insert
<1>3. R!TypeOK /\ created \in [Rows -> {R!NotStored} \cup R!Moments] /\ R!NotStored \notin R!Moments
  BY DEF ReaderInv, R!TypeOK, R!NotStored, R!Moments
<1>4. R!TypeOK' BY <1>1, <1>2, <1>3 DEF R!TypeOK
<1>5. R!Stored' = R!Stored \cup {r} /\ r \notin R!Stored /\ \A x \in R!Stored : created'[x] = created[x]
  BY <1>1, <1>2, <1>3 DEF R!Stored
<1>6. MomentsDiffer'
  <2>1. created'[r] = m /\ \A x \in R!Stored : created[x] # m BY <1>1, <1>3
  <2> QED BY <1>5, <2>1 DEF ReaderInv, MomentsDiffer
<1>7. ASSUME Steady' PROVE \A x \in known' : x \in R!Matching(query)' /\ Ahead(x)'
  <2>1. Steady BY <1>2, <1>7 DEF Steady
  <2>2. R!Matching(query) \subseteq R!Matching(query)'
    BY <1>2, <1>5, <2>1 DEF R!Matching, Steady
  <2> SUFFICES ASSUME NEW x \in known PROVE x \in R!Matching(query)' /\ Ahead(x)' BY <1>2
  <2>3. x \in R!Matching(query) /\ Ahead(x) BY <2>1 DEF ReaderInv
  <2>4. Place(x) <= Place(x)' /\ Place(x) \in Nat /\ Place(x)' \in Nat
    <3>1. x \in R!Stored /\ R!Matching(query) \subseteq R!Stored BY <2>3, MatchingFinite
    <3>2. UpTo(x) \subseteq UpTo(x)' BY <1>2, <1>5, <2>2, <3>1 DEF UpTo
    <3>3. Place(x) \in 1 .. Cardinality(R!Matching(query)) /\ IsFiniteSet(UpTo(x)) BY <1>3, <2>3, PlaceBounds
    <3>4. IsFiniteSet(UpTo(x)')
      <4>1. UpTo(x)' \subseteq Rows BY DEF UpTo, R!Matching, R!Stored
      <4>2. IsFiniteSet(Rows) BY CountsAlike DEF R!ListsAssumption
      <4> QED BY <4>1, <4>2, FS_Subset
    <3>5. Cardinality(UpTo(x)) <= Cardinality(UpTo(x)') BY <3>2, <3>4, FS_Subset
    <3>6. Cardinality(UpTo(x)) \in Nat /\ Cardinality(UpTo(x)') \in Nat BY <3>3, <3>4, FS_CardinalityType
    <3> QED BY <3>5, <3>6 DEF Place
  <2>5. R!Offset(page) \in Nat /\ page * PageSize \in Nat BY <1>3 DEF R!TypeOK, R!ListsAssumption, R!Offset
  <2>6. R!Offset(page)' = R!Offset(page) BY <1>2 DEF R!Offset
  <2>7. Ahead(x)' BY <1>2, <2>3, <2>4, <2>5, <2>6 DEF Ahead
  <2> QED BY <2>2, <2>3, <2>7
<1> QED BY <1>2, <1>4, <1>6, <1>7 DEF ReaderInv

\* A step that leaves the rows and what is asked for leaves the places.
LEMMA PlacesStay ==
  ASSUME R!ListsAssumption, ReaderInv, Steady, UNCHANGED <<created, query>>
  PROVE  /\ R!Stored' = R!Stored /\ R!Matching(query)' = R!Matching(query)
         /\ \A x : Place(x)' = Place(x)
<1>1. R!Stored' = R!Stored BY DEF R!Stored
<1>2. R!Matching(query)' = R!Matching(query) BY <1>1 DEF R!Matching, Steady
<1>3. \A x : UpTo(x)' = UpTo(x) BY <1>2 DEF UpTo
<1> QED BY <1>1, <1>2, <1>3 DEF Place

\* Nor does a row of the order by age move when its status changes.
LEMMA UpdateKeepsReader ==
  ASSUME R!ListsAssumption, ReaderInv, NEW r \in Rows, NEW v \in Statuses, R!Update(r, v)
  PROVE  ReaderInv'
<1>1. /\ status' = [status EXCEPT ![r] = v] /\ updates' = updates + 1 /\ updates < MaxUpdates
      /\ UNCHANGED <<created, query, page, step, shown, total, seen, known>>
  BY DEF R!Update
<1>2. R!TypeOK' BY <1>1 DEF ReaderInv, R!TypeOK, R!ListsAssumption
<1>3. MomentsDiffer' BY <1>1 DEF ReaderInv, MomentsDiffer, R!Stored
<1>4. ASSUME Steady' PROVE \A x \in known' : x \in R!Matching(query)' /\ Ahead(x)'
  <2>1. Steady BY <1>1, <1>4 DEF Steady
  <2>2. R!Matching(query)' = R!Matching(query) /\ \A x : Place(x)' = Place(x) BY <1>1, <2>1, PlacesStay
  <2>3. R!Offset(page)' = R!Offset(page) BY <1>1 DEF R!Offset
  <2> SUFFICES ASSUME NEW x \in known PROVE x \in R!Matching(query) /\ Ahead(x)' BY <1>1, <2>2
  <2>4. x \in R!Matching(query) /\ Ahead(x) BY <2>1 DEF ReaderInv
  <2> QED BY <1>1, <2>2, <2>3, <2>4 DEF Ahead
<1> QED BY <1>1, <1>2, <1>3, <1>4 DEF ReaderInv

\* The first page: all that could be seen is on it or on a later one.
LEMMA ChooseKeepsReader == ASSUME R!ListsAssumption, ReaderInv, R!Choose PROVE ReaderInv'
<1>1. /\ step = "none" /\ page' = 1 /\ step' = "rows"
      /\ UNCHANGED <<created, status, updates, query, shown, total, seen>>
      /\ known' = {r \in R!Matching([query EXCEPT !.group = NoGroup]) :
                     query.group = NoGroup \/ R!InTree(GroupOf[r], query.group)}
  BY DEF R!Choose, R!Ask, R!table
<1>2. R!TypeOK BY DEF ReaderInv
<1>3. R!TypeOK'
  <2>1. known' \subseteq Rows BY <1>1, MatchingFinite
  <2> QED BY <1>1, <1>2, <2>1 DEF R!TypeOK
<1>4. MomentsDiffer' BY <1>1 DEF ReaderInv, MomentsDiffer, R!Stored
<1>5. ASSUME Steady' PROVE \A x \in known' : x \in R!Matching(query)' /\ Ahead(x)'
  <2>1. Steady BY <1>1, <1>5 DEF Steady
  <2>2. R!Matching(query)' = R!Matching(query) /\ \A x : Place(x)' = Place(x) BY <1>1, <2>1, PlacesStay
  <2> SUFFICES ASSUME NEW x \in known' PROVE x \in R!Matching(query) /\ Ahead(x)' BY <2>2
  <2> DEFINE all == [query EXCEPT !.group = NoGroup]
  <2>3. all.status = query.status /\ all.group = NoGroup /\ query.group \in Groups \cup {NoGroup}
    BY <1>2, QueryTyped DEF R!TypeOK
  <2> HIDE DEF all
  <2>4. x \in R!Matching(all) /\ (query.group = NoGroup \/ R!InTree(GroupOf[x], query.group))
    BY <1>1 DEF all
  <2>5. x \in R!Stored /\ query.status \in {AnyStatus, status[x]} BY <2>3, <2>4 DEF R!Matching
  <2>6. query.group # NoGroup => GroupOf[x] \in R!DescendantIds(query.group)
    <3>1. GroupOf[x] \in Groups BY <2>5 DEF R!Stored, R!ListsAssumption
    <3> QED BY <2>3, <2>4, <3>1, TreeIsReached
  <2>7. x \in R!Matching(query) BY <2>5, <2>6 DEF R!Matching
  <2>8. Place(x) > 0 BY <1>2, <2>7, PlaceBounds
  <2>9. R!Offset(page)' = 0 BY <1>1 DEF R!Offset, R!ListsAssumption
  <2> QED BY <1>1, <2>2, <2>7, <2>8, <2>9 DEF Ahead
<1> QED BY <1>1, <1>3, <1>4, <1>5 DEF ReaderInv

\* The rows of a page are those of its places, in an order that has but one.
LEMMA ReadRowsKeepsReader == ASSUME R!ListsAssumption, ReaderInv, R!ReadRows PROVE ReaderInv'
<1>1. PICK s \in R!Ordered(query) :
        shown' = R!ToSet(SubSeq(s, R!Offset(page) + 1, R!Min({Len(s), R!Offset(page) + PageSize})))
  BY DEF R!ReadRows
<1>2. /\ step = "rows" /\ step' = "count"
      /\ UNCHANGED <<created, status, updates, query, page, total, seen, known>>
  BY DEF R!ReadRows, R!table
<1>3. R!TypeOK /\ MomentsDiffer BY DEF ReaderInv
<1>4. /\ shown' \subseteq R!Matching(query)
      /\ \A i \in 1 .. Len(s) : R!Offset(page) < i /\ i <= page * PageSize => s[i] \in shown'
  BY <1>1, <1>3, RowsOfThePage
<1>5. R!TypeOK'
  <2>1. shown' \subseteq Rows BY <1>4, MatchingFinite
  <2> QED BY <1>2, <1>3, <2>1 DEF R!TypeOK
<1>6. MomentsDiffer' BY <1>2 DEF ReaderInv, MomentsDiffer, R!Stored
<1>7. ASSUME Steady' PROVE \A x \in known' : x \in R!Matching(query)' /\ Ahead(x)'
  <2>1. Steady BY <1>2, <1>7 DEF Steady
  <2>2. R!Matching(query)' = R!Matching(query) /\ \A x : Place(x)' = Place(x) BY <1>2, <2>1, PlacesStay
  <2> SUFFICES ASSUME NEW x \in known PROVE x \in R!Matching(query) /\ Ahead(x)' BY <1>2, <2>2
  <2>3. x \in R!Matching(query) /\ (x \in seen \/ Place(x) > R!Offset(page))
    BY <1>2, <2>1 DEF ReaderInv, Ahead
  <2>4. PICK i \in 1 .. Len(s) : s[i] = x /\ i = Place(x) BY <1>3, <2>1, <2>3, PlaceInOrder DEF Steady
  <2>5. Place(x) > R!Offset(page) /\ Place(x) <= page * PageSize => x \in shown' BY <1>4, <2>4
  <2>6. Place(x) \in Nat /\ page * PageSize \in Nat
    BY <1>3, <2>3, PlaceBounds DEF R!TypeOK, R!ListsAssumption
  <2>7. x \in seen \cup shown' \/ Place(x) > page * PageSize BY <2>3, <2>5, <2>6
  <2> QED BY <1>2, <2>2, <2>3, <2>7 DEF Ahead
<1> QED BY <1>2, <1>5, <1>6, <1>7 DEF ReaderInv

\* The count comes after the rows, so a row that is still to come is counted.
LEMMA CountKeepsReader == ASSUME R!ListsAssumption, ReaderInv, R!Count PROVE ReaderInv'
<1>1. /\ step = "count" /\ step' = "answered" /\ total' = R!Cardinality(R!Matching(query))
      /\ seen' = seen \cup shown /\ UNCHANGED <<created, status, updates, query, page, shown, known>>
  BY DEF R!Count, R!table
<1>2. R!TypeOK BY DEF ReaderInv
<1>3. total' \in 0 .. R!Cardinality(Rows) /\ total' = Cardinality(R!Matching(query)) BY <1>1, MatchingFinite
<1>4. R!TypeOK' BY <1>1, <1>2, <1>3 DEF R!TypeOK
<1>5. MomentsDiffer' BY <1>1 DEF ReaderInv, MomentsDiffer, R!Stored
<1>6. ASSUME Steady' PROVE \A x \in known' : x \in R!Matching(query)' /\ Ahead(x)'
  <2>1. Steady BY <1>1, <1>6 DEF Steady
  <2>2. R!Matching(query)' = R!Matching(query) /\ \A x : Place(x)' = Place(x) BY <1>1, <2>1, PlacesStay
  <2> SUFFICES ASSUME NEW x \in known PROVE x \in R!Matching(query) /\ Ahead(x)' BY <1>1, <2>2
  <2>3. x \in R!Matching(query) /\ (x \in seen \cup shown \/ Place(x) > page * PageSize)
    BY <1>1, <2>1 DEF ReaderInv, Ahead
  <2>4. Place(x) \in 1 .. Cardinality(R!Matching(query)) BY <1>2, <2>3, PlaceBounds
  <2>5. page * PageSize \in Nat /\ total' \in Nat /\ Place(x) <= total'
    BY <1>2, <1>3, <2>4 DEF R!TypeOK, R!ListsAssumption
  <2>6. Place(x) > page * PageSize => total' > page * PageSize BY <2>4, <2>5
  <2> QED BY <1>1, <2>2, <2>3, <2>6 DEF Ahead
<1> QED BY <1>1, <1>4, <1>5, <1>6 DEF ReaderInv

\* The next page begins where this one ended; the same page, before.
LEMMA PagesKeepReader ==
  ASSUME R!ListsAssumption, ReaderInv, R!TurnPage \/ R!Refetch
  PROVE  ReaderInv'
<1>1. /\ step = "answered" /\ step' = "rows" /\ page' \in {page, page + 1}
      /\ UNCHANGED <<created, status, updates, query, shown, total, seen, known>>
  BY DEF R!TurnPage, R!Refetch, R!Ask, R!table
<1>2. R!TypeOK /\ page \in Nat \ {0} /\ PageSize \in Nat \ {0} BY DEF ReaderInv, R!TypeOK, R!ListsAssumption
<1>3. R!TypeOK'
  <2>1. page' \in Nat \ {0} BY <1>1, <1>2
  <2> QED BY <1>1, <1>2, <2>1 DEF R!TypeOK
<1>4. MomentsDiffer' BY <1>1 DEF ReaderInv, MomentsDiffer, R!Stored
<1>5. ASSUME Steady' PROVE \A x \in known' : x \in R!Matching(query)' /\ Ahead(x)'
  <2>1. Steady BY <1>1, <1>5 DEF Steady
  <2>2. R!Matching(query)' = R!Matching(query) /\ \A x : Place(x)' = Place(x) BY <1>1, <2>1, PlacesStay
  <2>3. R!Offset(page)' \in Nat /\ R!Offset(page)' <= page * PageSize /\ page * PageSize \in Nat
    <3>1. R!Offset(page)' = (page' - 1) * PageSize BY DEF R!Offset
    <3>2. (page + 1) - 1 = page BY <1>2
    <3>3. (page - 1) * PageSize = page * PageSize - PageSize /\ (page - 1) * PageSize \in Nat BY <1>2
    <3>4. page * PageSize \in Nat /\ page * PageSize - PageSize <= page * PageSize BY <1>2
    <3>5. R!Offset(page)' = (page - 1) * PageSize \/ R!Offset(page)' = page * PageSize
      BY <1>1, <3>1, <3>2
    <3> QED BY <3>3, <3>4, <3>5
  <2> SUFFICES ASSUME NEW x \in known PROVE x \in R!Matching(query) /\ Ahead(x)' BY <1>1, <2>2
  <2>4. x \in R!Matching(query) /\ (x \in seen \/ Place(x) > page * PageSize)
    BY <1>1, <2>1 DEF ReaderInv, Ahead
  <2>5. Place(x) \in Nat BY <1>2, <2>4, PlaceBounds
  <2>6. x \in seen \/ Place(x) > R!Offset(page)' BY <2>3, <2>4, <2>5
  <2> QED BY <1>1, <2>2, <2>4, <2>6 DEF Ahead
<1> QED BY <1>1, <1>3, <1>4, <1>5 DEF ReaderInv

\* Every step keeps it.
LEMMA ReaderKeeps == ASSUME R!ListsAssumption, ReaderInv, [R!Next]_R!vars PROVE ReaderInv'
<1>1. CASE UNCHANGED R!vars
  <2>1. R!TypeOK' BY <1>1 DEF R!vars, ReaderInv, R!TypeOK
  <2>2. MomentsDiffer' BY <1>1 DEF R!vars, ReaderInv, MomentsDiffer, R!Stored
  <2>3. ASSUME Steady PROVE \A x : R!Matching(query)' = R!Matching(query) /\ (Ahead(x)' <=> Ahead(x))
    <3>1. R!Matching(query)' = R!Matching(query) /\ \A x : Place(x)' = Place(x)
      BY <1>1, <2>3, PlacesStay DEF R!vars
    <3>2. R!Offset(page)' = R!Offset(page) BY <1>1 DEF R!vars, R!Offset
    <3> QED BY <1>1, <3>1, <3>2 DEF R!vars, Ahead
  <2> QED BY <1>1, <2>1, <2>2, <2>3 DEF R!vars, ReaderInv, Steady
<1> QED
  BY <1>1, InsertKeepsReader, UpdateKeepsReader, ChooseKeepsReader, ReadRowsKeepsReader, CountKeepsReader,
     PagesKeepReader DEF R!Next

-----------------------------------------------------------------------------
\* usePaginationParams beside the statements of the query API: whoever turns to the last page
\* of an order that does not change has been shown every row that was there at the first,
\* those of the suites below included, whatever is inserted and updated in between.
THEOREM ListsAreRead ==
  ASSUME R!ListsAssumption PROVE R!Spec => [](R!TypeOK /\ R!PagingMissesNothing)
<1>1. R!Init => ReaderInv BY NothingIsListed
<1>2. ReaderInv /\ [R!Next]_R!vars => ReaderInv' BY ReaderKeeps
<1>3. ASSUME ReaderInv PROVE R!TypeOK /\ R!PagingMissesNothing
  <2> SUFFICES ASSUME step = "answered", page >= R!TotalPages, Steady, NEW x \in known, x \notin seen
               PROVE  FALSE
    BY <1>3 DEF ReaderInv, R!PagingMissesNothing, Steady
  <2>1. total > page * PageSize BY <1>3 DEF ReaderInv, Ahead
  <2>2. total \in Nat /\ page \in Nat /\ PageSize \in Nat \ {0}
    <3>1. R!Cardinality(Rows) \in Nat BY CountsAlike, FS_CardinalityType DEF R!ListsAssumption
    <3> QED BY <1>3, <3>1 DEF ReaderInv, R!TypeOK, R!ListsAssumption
  <2>3. page < (total + PageSize - 1) \div PageSize BY <2>1, <2>2, PagesAreEnough
  <2>4. (total + PageSize - 1) \div PageSize \in Int BY <2>2
  <2> QED BY <2>2, <2>3, <2>4 DEF R!TotalPages
<1> QED BY <1>1, <1>2, <1>3, PTL DEF R!Spec

-----------------------------------------------------------------------------
(* All of it together.                                                       *)

\* Sessions, memberships, tokens, counters and pages keep their types.
THEOREM AccountsTyped == ASSUME AccountsAssumption PROVE AccountsSpec => []Typed
<1> USE DEF AccountsAssumption
<1>1. Spec => []TypeOK BY SessionsTyped
<1>2. MembershipSpec => [](MembershipTypeOK /\ AdmittedAsInvited) BY InvitationsAdmit
<1>3. P!Spec => [](P!TypeOK /\ P!StoredWithActiveToken) BY TokensAdmit
<1>4. L!Spec => [](L!TypeOK /\ L!ThrottleHolds) BY ThrottleCorrect
<1>5. R!Spec => [](R!TypeOK /\ R!PagingMissesNothing) BY ListsAreRead
<1> QED BY <1>1, <1>2, <1>3, <1>4, <1>5, PTL DEF AccountsSpec, Typed

\* LoginRateLimitService and ProjectTokenGuard hold at the same time as everything else.
THEOREM GuardsAreKept == ASSUME AccountsAssumption PROVE AccountsSpec => []GuardsHold
<1> USE DEF AccountsAssumption
<1>1. P!Spec => [](P!TypeOK /\ P!StoredWithActiveToken) BY TokensAdmit
<1>2. L!Spec => [](L!TypeOK /\ L!ThrottleHolds) BY ThrottleCorrect
<1> QED BY <1>1, <1>2, PTL DEF AccountsSpec, GuardsHold

\* usePaginationParams beside the statements of the query API, see ListsAreRead.
THEOREM NothingIsMissed == ASSUME AccountsAssumption PROVE AccountsSpec => []PagingMissesNothing
<1>1. R!Spec => [](R!TypeOK /\ R!PagingMissesNothing)
  BY ListsAreRead DEF AccountsAssumption
<1> QED BY <1>1, PTL DEF AccountsSpec, PagingMissesNothing
=============================================================================
