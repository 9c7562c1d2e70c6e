---------------------------- MODULE MCArtifacts -----------------------------
(* Two artifacts to expire, one of a foreign path, two workers.              *)
EXTENDS Artifacts, TLC

CONSTANTS a1, a2, a3, w1, w2
=============================================================================
