---------------------------- MODULE MCAccountant ----------------------------
(* Small instances of the Accountant for TLC.                              *)
EXTENDS Accountant, TLC

CONSTANTS k1, k2, a, b, s1, s2

AllModes  == {{"JOIN", "VOTE", "OPEN"}}
DayModes  == {{"JOIN", "VOTE"}, {"OPEN"}}
NoFaults  == {}

(* Candidates are interchangeable, and so are symmetric keys; the keys of  *)
(* the voters are not, since only some devices are honest.                 *)
Symmetry == Permutations(Candidates) \cup Permutations(OpenKeys)
=============================================================================
