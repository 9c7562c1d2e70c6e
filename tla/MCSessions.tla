----------------------------- MODULE MCSessions -----------------------------
(* One browser of a user with two organizations.                            *)
EXTENDS Sessions, TLC

CONSTANTS t1, t2, s1, s2, o1, o2

Symmetric == Permutations(Tabs) \cup Permutations(Slots) \cup Permutations(Orgs)
=============================================================================
