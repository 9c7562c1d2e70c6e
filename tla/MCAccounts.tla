----------------------------- MODULE MCAccounts -----------------------------
(* The accounts, on small sets.  In a behaviour one of the five parts moves.  *)
EXTENDS Accounts, TLC

CONSTANTS none, t1, t2, s1, s2, s3, o1, o2, ann, ben, home, i1, k1, k2, top, sub

\* Two tokens that begin with the same characters.
OnePrefix == k1 :> "spx_" @@ k2 :> "spx_"

\* Three tests, one of a suite and two of the suite below it.
Below   == top :> none @@ sub :> top
InSuite == s1 :> sub @@ s2 :> sub @@ s3 :> top

ASSUME AccountsAssumption

-----------------------------------------------------------------------------
VARIABLE part \* which of the five

tokenVars == <<projects, tokens, request, late>>
loginVars == <<count, expiring, login, outages, unlimited>>
listVars  == <<created, status, updates, query, page, step, shown, total, seen, known>>

MCInit ==
  /\ part \in {"sessions", "membership", "tokens", "throttle", "lists"}
  /\ Init /\ MembershipInit /\ P!Init /\ L!Init /\ R!Init
  /\ part # "membership" => organizations[home] = {<<"acme", NoSuffix>>}
  /\ IF part # "lists" THEN query = CHOOSE q \in R!Queries : TRUE
     \* One status stands for both, and is asked for in one order only.
     ELSE /\ query.status # 2
          /\ query.sortBy = "status" => query.group = none /\ query.status = none

MCNext ==
  /\ UNCHANGED part
  /\ \/ part = "sessions" /\ Next /\ UNCHANGED <<membershipVars, tokenVars, loginVars, listVars>>
     \/ /\ part = "membership" /\ MembershipNext
        /\ UNCHANGED <<vars, tokenVars, loginVars, listVars>>
     \/ /\ UNCHANGED <<vars, membershipVars>>
        /\ \/ part = "tokens" /\ P!Next /\ UNCHANGED <<loginVars, listVars>>
           \/ part = "throttle" /\ L!Next /\ UNCHANGED <<tokenVars, listVars>>
           \/ part = "lists" /\ R!Next /\ UNCHANGED <<tokenVars, loginVars>>

MCSpec ==
  MCInit /\ [][MCNext]_<<vars, membershipVars, tokenVars, loginVars, listVars, part>>

\* Tabs and calls are alike, slots, requests and two of the rows of a list, and organizations.
Symmetric == Permutations({t1, t2}) \cup Permutations({s1, s2}) \cup Permutations({o1, o2})
=============================================================================
