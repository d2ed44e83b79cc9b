----------------------------- MODULE MCMainLoop -----------------------------
(* A small instance of the main loop for TLC.                              *)
EXTENDS MainLoop

CONSTANTS c1, w1, w2
=============================================================================
