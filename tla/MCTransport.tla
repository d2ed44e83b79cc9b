----------------------------- MODULE MCTransport -----------------------------
(* A small instance of the packet port for TLC.                            *)
EXTENDS Transport

CONSTANTS c1, c2
=============================================================================
