--------------------------- MODULE LoginThrottle ----------------------------
(***************************************************************************)
(* LoginRateLimitService for one email address: a counter in Redis with a  *)
(* time to live.  The counter is read before the password is compared and  *)
(* written after it.                                                       *)
(***************************************************************************)
EXTENDS Integers, FiniteSets

CONSTANTS Logins,      \* calls of login at the same time
          MaxFailures, \* MAX_FAILED_ATTEMPTS
          MaxOutages   \* bound: commands that Redis does not answer

LoginThrottleAssumption ==
  IsFiniteSet(Logins) /\ MaxFailures \in Nat \ {0} /\ MaxOutages \in Nat

VARIABLES count,    \* the counter; 0 when the key is not there
          expiring, \* the key has a time to live
          login,    \* [Logins -> idle, checked]
          outages,
          unlimited \* history: how often EXPIRE was lost since the key is there

vars == <<count, expiring, login, outages, unlimited>>

TypeOK ==
  /\ count \in Nat /\ expiring \in BOOLEAN /\ unlimited \in Nat
  /\ login \in [Logins -> {"idle", "checked"}] /\ outages \in 0 .. MaxOutages

Init ==
  /\ count = 0 /\ expiring = FALSE /\ outages = 0 /\ unlimited = 0
  /\ login = [l \in Logins |-> "idle"]

Outage == outages < MaxOutages /\ outages' = outages + 1

\* Mutant: off by one.
BlockedAbove == count > MaxFailures
Blocked == count >= MaxFailures

\* isBlocked; without an answer from Redis the login goes on.
Check(l) ==
  /\ login[l] = "idle"
  /\ \/ ~Blocked /\ UNCHANGED outages
     \/ Blocked /\ Outage
  /\ login' = [login EXCEPT ![l] = "checked"]
  /\ UNCHANGED <<count, expiring, unlimited>>

\* recordSuccess
Succeed(l) ==
  /\ login[l] = "checked"
  /\ login' = [login EXCEPT ![l] = "idle"]
  /\ \/ count' = 0 /\ expiring' = FALSE /\ unlimited' = 0 /\ UNCHANGED outages
     \/ Outage /\ UNCHANGED <<count, expiring, unlimited>>

\* Mutant: only the first failure sets the time to live.
FailExpiringFirst(l) ==
  /\ login[l] = "checked"
  /\ login' = [login EXCEPT ![l] = "idle"]
  /\ \/ /\ count' = count + 1 /\ expiring' = (expiring \/ count = 0)
        /\ UNCHANGED <<outages, unlimited>>
     \/ count' = count + 1 /\ Outage /\ unlimited' = unlimited + 1 /\ UNCHANGED expiring
     \/ Outage /\ UNCHANGED <<count, expiring, unlimited>>

\* recordFailure: INCR and EXPIRE NX go out together, but the second may be lost alone.
Fail(l) ==
  /\ login[l] = "checked"
  /\ login' = [login EXCEPT ![l] = "idle"]
  /\ \/ count' = count + 1 /\ expiring' = TRUE /\ UNCHANGED <<outages, unlimited>>
     \/ count' = count + 1 /\ Outage /\ unlimited' = unlimited + 1 /\ UNCHANGED expiring
     \/ Outage /\ UNCHANGED <<count, expiring, unlimited>>

\* The login fails for another reason: no organization, no database.
Forbid(l) ==
  /\ login[l] = "checked"
  /\ login' = [login EXCEPT ![l] = "idle"]
  /\ UNCHANGED <<count, expiring, outages, unlimited>>

WindowEnds ==
  /\ expiring
  /\ count' = 0 /\ expiring' = FALSE /\ unlimited' = 0
  /\ UNCHANGED <<login, outages>>

Next == WindowEnds \/ \E l \in Logins : Check(l) \/ Succeed(l) \/ Fail(l) \/ Forbid(l)

Spec == Init /\ [][Next]_vars

-----------------------------------------------------------------------------

\* Logins at the same time pass the check together: in a window no more failures are
\* counted than the limit, and one for each of the others.
FailuresAreLimited == count < MaxFailures + Cardinality(Logins) + outages

\* A blocked address has a window that ends, unless the EXPIRE of every single failure
\* was lost.
BlockEnds == Blocked => expiring \/ unlimited >= MaxFailures

\* The throttle neither lets failures through without end nor locks anybody out for ever.
ThrottleHolds == FailuresAreLimited /\ BlockEnds
=============================================================================
