--------------------------- MODULE MCNotifications ---------------------------
(* One tab of a user with two organizations.                                 *)
EXTENDS Notifications, TLC

CONSTANTS tab1, home, away, s1, s2

AtHome == [t \in Tabs |-> home]

\* Slots only tell the streams of a tab apart.
SlotSymmetry == Permutations(Slots)
=============================================================================
