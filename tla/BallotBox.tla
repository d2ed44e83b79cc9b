------------------------------ MODULE BallotBox ------------------------------
(***************************************************************************)
(* What the Accountant promises, without packets, statements or crashes: a *)
(* ballot is issued to a key, receives one encrypted vote, and the vote is *)
(* disclosed as the text that was encrypted.  A ticket is signed only for  *)
(* what the box holds at that moment.                                      *)
(***************************************************************************)
EXTENDS Integers, Sequences

CONSTANTS Keys, Candidates, Ciphers, Null

VARIABLES
  box,     \* box[i] is ballot number i
  tickets  \* the tickets signed so far

Init == box = <<>> /\ tickets = {}

(* A key gets at most one ballot.                                          *)
Issue(k) ==
  /\ \A i \in DOMAIN box : box[i].key # k
  /\ box' = Append(box, [key |-> k, vot |-> Null])
  /\ UNCHANGED tickets

Cast(i, c) ==
  /\ box[i].vot = Null
  /\ box' = [box EXCEPT ![i].vot = c]
  /\ UNCHANGED tickets

Disclose(i, text) ==
  /\ box[i].vot \in Ciphers /\ box[i].vot.cand = text
  /\ box' = [box EXCEPT ![i].vot = text]
  /\ UNCHANGED tickets

Holds(t) ==
  \/ t.type = "JOIN" /\ t.key = box[t.id].key
  \/ t.type = "VOTE" /\ t.vot = box[t.id].vot /\ t.vot \in Ciphers
  \/ t.type = "OPEN" /\ t.vot = box[t.id].vot /\ t.vot \in Candidates

Certify(t) ==
  /\ t.id \in DOMAIN box
  /\ Holds(t)
  /\ tickets' = tickets \cup {t}
  /\ UNCHANGED box

Next ==
  \/ \E k \in Keys : Issue(k)
  \/ \E i \in DOMAIN box, c \in Ciphers : Cast(i, c)
  \/ \E i \in DOMAIN box, text \in Candidates : Disclose(i, text)
  \/ \E t \in tickets' : Certify(t)

Spec == Init /\ [][Next]_<<box, tickets>>
=============================================================================
