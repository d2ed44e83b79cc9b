----------------------------- MODULE Credentials -----------------------------
(***************************************************************************)
(* What the Registrar promises, without packets, statements or crashes: a  *)
(* person's first blinded point is signed, and whoever asks again for that *)
(* person is handed the same signature.  Of a person's session only one    *)
(* thing is left: whether its secret is one that everybody knows.          *)
(***************************************************************************)
CONSTANTS Listed, Points, Null

VARIABLES
  signed,  \* signed[p] is the blinded point signed for person p
  handed,  \* the signatures that were handed out, and for whom
  exposed  \* the persons whose session has a secret that everybody knows

Init ==
  /\ signed = [p \in Listed |-> Null] /\ handed = {}
  /\ exposed = {}

(* Anybody opens a session in the name of p.                               *)
Agree(p) ==
  /\ exposed' \in {exposed \cup {p}, exposed \ {p}}
  /\ UNCHANGED <<signed, handed>>

(* A person's own point is signed, or anybody's for an exposed person.     *)
Sign(p, point) ==
  /\ signed[p] = Null
  /\ point.owner = p \/ p \in exposed
  /\ signed' = [signed EXCEPT ![p] = point]
  /\ UNCHANGED <<handed, exposed>>

Hand(p) ==
  /\ signed[p] # Null
  /\ handed' = handed \cup {[id |-> p, sig |-> signed[p]]}
  /\ UNCHANGED <<signed, exposed>>

Next ==
  \/ \E p \in Listed, point \in Points : Sign(p, point)
  \/ \E p \in Listed : Agree(p) \/ Hand(p)

Spec == Init /\ [][Next]_<<signed, handed, exposed>>
=============================================================================
