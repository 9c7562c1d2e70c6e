------------------------------ MODULE Accounts ------------------------------
(***************************************************************************)
(* Organizations and who may act for them: the sessions of their members,  *)
(* how somebody becomes one, the tokens of their projects, the throttle    *)
(* that stands before a login, and the lists a member reads.  Each has     *)
(* tables, keys or tabs of its own, and none of them waits for another.    *)
(***************************************************************************)
EXTENDS Sessions, Membership

CONSTANTS Organizations, Names, ApiTokens, PrefixOf, ApiCalls, NoProject,   \* ProjectTokens
          Logins, MaxFailures, MaxOutages,                                  \* LoginThrottle
          Rows, Groups, NoGroup, ParentOf, GroupOf, Statuses, AnyStatus, PageSize, MaxUpdates

VARIABLES projects, tokens, request, late,
          count, expiring, login, outages, unlimited,
          created, status, updates, query, page, step, shown, total, seen, known

P == INSTANCE ProjectTokens WITH Tokens <- ApiTokens, Requests <- ApiCalls
L == INSTANCE LoginThrottle
R == INSTANCE Lists

AccountsAssumption ==
  /\ SessionsAssumption /\ MembershipAssumption
  /\ P!ProjectTokensAssumption /\ L!LoginThrottleAssumption /\ R!ListsAssumption

AccountsSpec == Spec /\ MembershipSpec /\ P!Spec /\ L!Spec /\ R!Spec

Typed == TypeOK /\ MembershipTypeOK /\ P!TypeOK /\ L!TypeOK /\ R!TypeOK

\* The lists of an organization, as explained in Lists,
PagingMissesNothing == R!PagingMissesNothing
\* and what is checked before a login and before an event, by LoginThrottle and ProjectTokens.
GuardsHold == L!ThrottleHolds /\ P!StoredWithActiveToken
=============================================================================
