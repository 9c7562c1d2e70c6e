----------------------------- MODULE MCPageData -----------------------------
(* The browser of a user with one or two organizations.                     *)
EXTENDS PageData, TLC

CONSTANTS home, away, p1, p2, q1

TwoAndOne == home :> {p1, p2} @@ away :> {q1}
OnlyOne   == home :> {p1}
=============================================================================
