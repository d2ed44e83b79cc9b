----------------------------- MODULE MCElection -----------------------------
(* A small instance of the election for TLC: two persons, three keys, and  *)
(* the three phases of the README.                                         *)
EXTENDS Election, TLC

CONSTANTS v1, v2, k1, k2, k3, A, B

MCChoice == (k1 :> A) @@ (k2 :> B) @@ (k3 :> A)
MCPhases == <<{"REGS"}, {"JOIN", "VOTE"}, {"OPEN"}>>
=============================================================================
