------------------------------ MODULE MCPages ------------------------------
(* A small instance of the published record, and of the arithmetic below   *)
(* the signatures, for TLC: the inputs of the functions are chosen while   *)
(* the tables are still empty.  The curve y^2 = x^3 + 2 over the field of  *)
(* 19 elements has a prime number of points, 13, and is the curve of the   *)
(* code for u = -1; the two generators generate the same groups there.     *)
EXTENDS WebPages, Arithmetic

MCCandidates == <<"a", "b">>
MCRequests == {<<"R", 0>>, <<"C", 0>>}

MCGenerator == [infinity |-> FALSE, x |-> 4, y |-> 3]
MCGenerator2 == [infinity |-> FALSE, x |-> <<1, 8>>, y |-> <<8, 11>>]

(* Every place in a block of three bytes, and seven bytes; the generator's *)
(* one-way function is some function.                                      *)
MCStreams ==
  UNION {[1..n -> {0, 65, 200}] : n \in 0..2}
    \cup {SubSeq(<<250, 71, 148, 225, 46, 123, 200>>, 1, n) : n \in 1..7}
MCOneWay(state) == <<(5 * state[1] + state[2] + 3) % 256, (7 * state[2] + 1) % 256>>

PagesInit == Init /\ input = Idle
PagesNext ==
  \/ Next /\ input = Idle /\ UNCHANGED input
  \/ Init /\ Choose /\ UNCHANGED vars
  \/ PutAway /\ UNCHANGED vars
PagesSpec == PagesInit /\ [][PagesNext]_<<vars, input>>
=============================================================================
