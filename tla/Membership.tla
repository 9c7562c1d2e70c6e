----------------------------- MODULE Membership -----------------------------
(***************************************************************************)
(* How users come to organizations: by registering with an organization of *)
(* their own, or with an invitation to Home.  A call checks the invitation *)
(* before the transaction that accepts it; in between it may be revoked,   *)
(* accepted by another call or expire.                                     *)
(***************************************************************************)
EXTENDS Integers, FiniteSets

CONSTANTS Emails,
          Founder,      \* the account that owns Home
          Home,         \* an organization
          Calls,        \* calls of register; a call names the organization it creates
          Invitations, Anyone, \* an invitation without an email address is for anyone
          Bases,        \* what generateSlug makes of the names of organizations
          EmailBases,   \* those in which the word email occurs
          LongBases,    \* those that leave no room for a suffix in a varchar(100)
          Suffixes,     \* the random suffixes of a retry
          MaxSlugRetries, Lifetime, MaxTime \* bound: the last moment

NoSuffix == 0
Roles == {"owner", "admin", "member", "viewer"}
Invitable == {"member", "viewer"}
Refusals == {"not valid", "expired", "other email", "email taken", "slug taken", "error"}
NoCall == [step |-> "idle", email |-> Founder, base |-> "", suffix |-> NoSuffix, attempt |-> 0,
           inv |-> "none"]
NoInvitation == [status |-> "none", email |-> Anyone, role |-> "viewer", expires |-> 0]

MembershipAssumption ==
  /\ Founder \in Emails /\ Anyone \notin Emails /\ Home \notin Calls
  /\ Invitations \cap (Calls \cup {Home, "none"}) = {}
  /\ EmailBases \subseteq Bases /\ LongBases \subseteq Bases
  /\ Suffixes \subseteq Nat \ {NoSuffix}
  /\ MaxSlugRetries \in Nat \ {0} /\ Lifetime \in Nat /\ MaxTime \in Nat

VARIABLES time,
          users,         \* emails, each of one account
          organizations, \* [Calls \cup {Home} -> slug, or {} before the organization exists]
          members,       \* memberships; via: the invitation they came by, or the call
          invitations,
          call

membershipVars == <<time, users, organizations, members, invitations, call>>

Slugs == Bases \X (Suffixes \cup {NoSuffix})

MembershipTypeOK ==
  /\ time \in 0 .. MaxTime
  /\ users \subseteq Emails
  /\ organizations \in [Calls \cup {Home} -> SUBSET Slugs]
  /\ members \subseteq [email : Emails, organization : Calls \cup {Home}, role : Roles,
                        via : Calls \cup Invitations \cup {Home}, at : 0 .. MaxTime]
  /\ invitations \in [Invitations ->
       [status : {"none", "pending", "accepted", "revoked", "expired"},
        email : Emails \cup {Anyone}, role : Roles, expires : 0 .. MaxTime + Lifetime]]
  /\ call \in [Calls -> [step : {"idle", "insert", "validate", "accept", "store", "done"} \cup Refusals,
                         email : Emails, base : Bases \cup {""}, suffix : Suffixes \cup {NoSuffix},
                         attempt : 0 .. MaxSlugRetries - 1, inv : Invitations \cup {"none"}]]

MembershipInit ==
  /\ time = 0
  /\ users = {Founder}
  /\ \E b \in Bases : organizations = [o \in Calls \cup {Home} |->
                                         IF o = Home THEN {<<b, NoSuffix>>} ELSE {}]
  /\ members = {[email |-> Founder, organization |-> Home, role |-> "owner", via |-> Home,
                 at |-> 0]}
  /\ invitations = [i \in Invitations |-> NoInvitation]
  /\ call = [c \in Calls |-> NoCall]

-----------------------------------------------------------------------------
(* InvitationsService; the role of a user never changes *)

CreateInvitation(i, e, r) ==
  /\ invitations[i].status = "none" /\ r \in Invitable
  /\ invitations' = [invitations EXCEPT ![i] = [status |-> "pending", email |-> e, role |-> r,
                                                expires |-> time + Lifetime]]
  /\ UNCHANGED <<time, users, organizations, members, call>>

\* Mutant: whatever its status.
RevokeAny(i) ==
  /\ invitations[i].status # "none"
  /\ invitations' = [invitations EXCEPT ![i].status = "revoked"]
  /\ UNCHANGED <<time, users, organizations, members, call>>

RevokeInvitation(i) ==
  /\ invitations[i].status = "pending"
  /\ invitations' = [invitations EXCEPT ![i].status = "revoked"]
  /\ UNCHANGED <<time, users, organizations, members, call>>

-----------------------------------------------------------------------------
(* AuthService.register and register_user *)

Goto(c, step) == call' = [call EXCEPT ![c].step = step]

Register(c, e, b) ==
  /\ call[c].step = "idle"
  /\ call' = [call EXCEPT ![c] = [NoCall EXCEPT !.step = "insert", !.email = e, !.base = b]]
  /\ UNCHANGED <<time, users, organizations, members, invitations>>

Slug(c) == <<call[c].base, call[c].suffix>>
Taken(slug) == \E o \in DOMAIN organizations : slug \in organizations[o]

Joins(c, o, r, via) ==
  /\ users' = users \cup {call[c].email}
  /\ members' = members \cup {[email |-> call[c].email, organization |-> o, role |-> r,
                               via |-> via, at |-> time]}

\* Mutant: one attempt more.
RetryOnceMore(c) ==
  /\ \E s \in Suffixes : call' = [call EXCEPT ![c].attempt = @ + 1, ![c].suffix = s]
  /\ UNCHANGED <<users, organizations, members>>

\* A slug that is taken is tried again with a suffix; but the detail of the violation
\* names the slug, and with the word email in it is read as a violation of users.email.
SlugTaken(c) ==
  /\ IF call[c].base \in EmailBases THEN Goto(c, "email taken")
     ELSE IF call[c].attempt = MaxSlugRetries - 1 THEN Goto(c, "slug taken")
     ELSE \E s \in Suffixes :
            call' = [call EXCEPT ![c].attempt = @ + 1, ![c].suffix = s]
  /\ UNCHANGED <<users, organizations, members>>

\* executeRegister: the organization, the account and the membership, or none of them.
Insert(c) ==
  /\ call[c].step = "insert"
  /\ IF call[c].suffix # NoSuffix /\ call[c].base \in LongBases
     THEN Goto(c, "error") /\ UNCHANGED <<users, organizations, members>>
     ELSE IF Taken(Slug(c)) THEN SlugTaken(c)
     ELSE IF call[c].email \in users
     THEN Goto(c, "email taken") /\ UNCHANGED <<users, organizations, members>>
     ELSE /\ organizations' = [organizations EXCEPT ![c] = {Slug(c)}]
          /\ Joins(c, c, "owner", c) /\ Goto(c, "store")
  /\ UNCHANGED <<time, invitations>>

\* createAndStoreRefreshToken is a transaction of its own: when it fails, the caller sees
\* an error and the account is there.
StoreToken(c) ==
  /\ call[c].step = "store" /\ call[c].inv = "none"
  /\ Goto(c, "done") \/ Goto(c, "error")
  /\ UNCHANGED <<time, users, organizations, members, invitations>>

-----------------------------------------------------------------------------
(* AuthService.registerWithInvite and register_user_with_invite *)

RegisterWithInvite(c, e, i) ==
  /\ call[c].step = "idle"
  /\ call' = [call EXCEPT ![c] = [NoCall EXCEPT !.step = "validate", !.email = e, !.inv = i]]
  /\ UNCHANGED <<time, users, organizations, members, invitations>>

\* validate_invitation_token: the row with the token of the call.
Invited(c) == invitations[call[c].inv]

Validate(c) ==
  LET i == Invited(c)
  IN  /\ call[c].step = "validate"
      /\ Goto(c, IF i.status # "pending" THEN "not valid"
                 ELSE IF i.expires < time THEN "expired"
                 ELSE IF i.email \notin {Anyone, call[c].email} THEN "other email"
                 ELSE IF i.role \notin Invitable THEN "not valid"
                 ELSE "accept")
      /\ UNCHANGED <<time, users, organizations, members, invitations>>

\* The service's answer to what register_user_with_invite raises.
Turn(c, refusal) == Goto(c, refusal) /\ UNCHANGED <<users, members, invitations>>

Admit(c) ==
  LET i == call[c].inv
  IN  IF call[c].email \in users THEN Turn(c, "email taken")
      ELSE /\ Joins(c, Home, invitations[i].role, i)
           /\ invitations' = [invitations EXCEPT ![i].status = "accepted"]
           /\ Goto(c, "store")

\* Mutant: what was validated is not looked at again.
AcceptValidated(c) ==
  /\ call[c].step = "accept"
  /\ Admit(c)
  /\ UNCHANGED <<time, organizations>>

\* Under the lock of the row.  The status `expired' that is set before the exception is
\* rolled back with it.
Accept(c) ==
  LET i == invitations[call[c].inv]
  IN  /\ call[c].step = "accept"
      /\ IF i.status # "pending" THEN Turn(c, "not valid")
         ELSE IF i.expires < time THEN Turn(c, "expired")
         ELSE Admit(c)
      /\ UNCHANGED <<time, organizations>>

\* As StoreToken: the user is a member, whatever comes of the token.
StoreInvitedToken(c) ==
  /\ call[c].step = "store" /\ call[c].inv # "none"
  /\ Goto(c, "done") \/ Goto(c, "error")
  /\ UNCHANGED <<time, users, organizations, members, invitations>>

Tick ==
  /\ time < MaxTime
  /\ time' = time + 1
  /\ UNCHANGED <<users, organizations, members, invitations, call>>

MembershipNext ==
  \/ Tick
  \/ \E i \in Invitations :
       \/ \E e \in Emails \cup {Anyone}, r \in Roles : CreateInvitation(i, e, r)
       \/ RevokeInvitation(i)
  \/ \E c \in Calls :
       \/ \E e \in Emails, b \in Bases : Register(c, e, b)
       \/ \E e \in Emails, i \in Invitations : RegisterWithInvite(c, e, i)
       \/ Insert(c) \/ StoreToken(c) \/ Validate(c) \/ Accept(c) \/ StoreInvitedToken(c)

MembershipSpec == MembershipInit /\ [][MembershipNext]_membershipVars

-----------------------------------------------------------------------------

AdmittedBy(i) == {m \in members : m.via = i}

\* An invitation admits one user, the one it is for, to its role and while it lasts; one
\* that was revoked admits nobody, and one that was accepted cannot be revoked.
AdmittedAsInvited ==
  \A i \in Invitations :
    LET inv == invitations[i]
    IN  /\ Cardinality(AdmittedBy(i)) = (IF inv.status = "accepted" THEN 1 ELSE 0)
        /\ \A m \in AdmittedBy(i) : /\ m.at <= inv.expires /\ m.role = inv.role
                                    /\ inv.email \in {Anyone, m.email}
=============================================================================
