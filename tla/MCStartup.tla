------------------------------ MODULE MCStartup ------------------------------
(* A small instance of the start for TLC.                                  *)
EXTENDS Startup, TLC

CONSTANTS g1, g2, g3, g4, g5, g6, g7

Symmetry == Permutations(KeyPairs)
=============================================================================
