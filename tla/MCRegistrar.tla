---------------------------- MODULE MCRegistrar ----------------------------
(* Small instances of the Registrar for TLC.                              *)
EXTENDS Registrar, TLC

CONSTANTS p1, p2, p3, p4, b1, b2, x1, x2, x3, x4, x5

RegistrationMode == {{"REGS"}}
AnyMode == {{"REGS"}, {}}

Symmetry == Permutations(Secrets) \cup Permutations(Blinds) \cup Permutations(Invited)
=============================================================================
