------------------------------ MODULE Election ------------------------------
(***************************************************************************)
(* The whole election: voters' devices between the Registrar and the       *)
(* Accountant.  Both roles are taken as what they promise (Credentials,    *)
(* BallotBox); crashes, repetitions and lost answers inside a role are the *)
(* subject of Registrar and Accountant, which implement these promises.    *)
(* Here a lost answer is a signature that is not handed or a ticket that   *)
(* is not signed yet.  The operator restarts the server in one set of      *)
(* modes after the other.                                                  *)
(*                                                                         *)
(* Data.  A blinded point is the person who blinds and the public key that *)
(* is hidden in it; unblinding the signature gives a signature of the key. *)
(* A ciphertext names the candidate and the public key of the ballot       *)
(* owner, who alone knows the symmetric key.                               *)
(***************************************************************************)
EXTENDS Integers, Sequences, FiniteSets

CONSTANTS
  Voters,     \* the persons with an invitation
  Keys,       \* the public keys of all devices; a voter may have several
  Choice,     \* Choice[k]: the candidate the owner of key k votes for
  Candidates,
  Null,
  Phases      \* the sets of modes the server is started with, in this order

Points  == [owner : Voters, key : Keys]
Ciphers == [cand : Candidates, owner : Keys]
Types   == {"JOIN", "VOTE", "OPEN"}

ASSUME VotersAssumption ==
  /\ IsFiniteSet(Voters)
  /\ Choice \in [Keys -> Candidates]
  /\ Null \notin Points \cup Ciphers \cup Candidates
  /\ Ciphers \cap Candidates = {}
ASSUME PhasesAssumption ==
  Phases \in Seq(SUBSET (Types \cup {"REGS"})) /\ Phases # <<>>

VARIABLES
  signed,  \* Credentials: the point signed for each person
  handed,  \* Credentials: the signatures that were handed out
  exposed, \* Credentials: the persons whose session secret is known
  box,     \* BallotBox: the ballots
  tickets, \* BallotBox: the tickets
  phase    \* the phase of the election

roles == <<signed, handed, exposed, box, tickets>>
vars  == <<roles, phase>>

Registrar  == INSTANCE Credentials WITH Listed <- Voters
Accountant == INSTANCE BallotBox

Init == Registrar!Init /\ Accountant!Init /\ phase = 1

-----------------------------------------------------------------------------
(* Deviation: the mode letters of the command line are only printed.       *)
AnyMode(type) == TRUE

Allowed(type) == type \in Phases[phase]

(* The operator ends one phase and starts the server for the next.         *)
NextPhase ==
  /\ phase < Len(Phases)
  /\ phase' = phase + 1
  /\ UNCHANGED roles

(* IDNT for voter v, by anybody.                                           *)
Identify(v) ==
  /\ Allowed("REGS")
  /\ Registrar!Agree(v)
  /\ UNCHANGED <<box, tickets, phase>>

(* REGS for voter v, of a device that knows the secret of the session.     *)
Register(v, point) ==
  /\ Allowed("REGS")
  /\ Registrar!Sign(v, point)
  /\ UNCHANGED <<box, tickets, phase>>

(* Deviation: REGS is answered although nothing was signed.                *)
ObtainUnsigned(v) ==
  /\ Allowed("REGS")
  /\ handed' = handed \cup {[id |-> v, sig |-> signed[v]]}
  /\ UNCHANGED <<signed, exposed, box, tickets, phase>>

(* The answer to REGS, or to its repetition.                               *)
Obtain(v) ==
  /\ Allowed("REGS")
  /\ Registrar!Hand(v)
  /\ UNCHANGED <<box, tickets, phase>>

(* Deviation: the Registrar's signature is not verified.                   *)
AnySignature(k) == TRUE

(* bls_verify of the key's signature with the Registrar's public key.      *)
Certified(k) == \E h \in handed : h.sig.key = k

Join(k) ==
  /\ Allowed("JOIN")
  /\ Certified(k)
  /\ Accountant!Issue(k)
  /\ UNCHANGED <<signed, handed, exposed, phase>>

(* Deviation: the packet is not verified with the key of the ballot.       *)
SignedByAnybody(i, k) == TRUE

SignedByOwner(i, k) == box[i].key = k

(* VOTE for ballot i sent by the device of key k.                          *)
Vote(i, k) ==
  /\ Allowed("VOTE")
  /\ SignedByOwner(i, k)
  /\ Accountant!Cast(i, [cand |-> Choice[k], owner |-> k])
  /\ UNCHANGED <<signed, handed, exposed, phase>>

(* Deviation: OPEN asks for the flag of VOTE.                              *)
OpenOnVotingDay(i) ==
  /\ Allowed("VOTE")
  /\ box[i].vot \in Ciphers
  /\ Accountant!Disclose(i, box[i].vot.cand)
  /\ UNCHANGED <<signed, handed, exposed, phase>>

(* OPEN of the device that made the ciphertext.                            *)
Open(i) ==
  /\ Allowed("OPEN")
  /\ box[i].vot \in Ciphers
  /\ Accountant!Disclose(i, box[i].vot.cand)
  /\ UNCHANGED <<signed, handed, exposed, phase>>

TicketFor(type, i) ==
  IF type = "JOIN"
    THEN [type |-> type, id |-> i, key |-> box[i].key]
    ELSE [type |-> type, id |-> i, vot |-> box[i].vot]

(* The answer to a packet, or to its repetition.                           *)
Confirm(type, i) ==
  /\ Allowed(type)
  /\ Accountant!Certify(TicketFor(type, i))
  /\ UNCHANGED <<signed, handed, exposed, phase>>

Next ==
  \/ NextPhase
  \/ \E v \in Voters : Identify(v) \/ Obtain(v)
  \/ \E v \in Voters, point \in Points : Register(v, point)
  \/ \E k \in Keys : Join(k)
  \/ \E i \in DOMAIN box : Open(i) \/ \E k \in Keys : Vote(i, k)
  \/ \E i \in DOMAIN box, type \in Types : Confirm(type, i)

Spec == Init /\ [][Next]_vars

(* A device that waits for the disclosure of its vote repeats OPEN.        *)
FairSpec ==
  /\ Spec
  /\ WF_vars(NextPhase)
  /\ \A i \in 1 .. Cardinality(Keys) : WF_vars(i \in DOMAIN box /\ Open(i))

-----------------------------------------------------------------------------
(* Properties *)

Registered == {v \in Voters : signed[v] # Null}
TallyOf(c) == {i \in DOMAIN box : box[i].vot = c}
Counted    == UNION {TallyOf(c) : c \in Candidates}

(* The types of all variables.                                             *)
TypeOK ==
  /\ signed \in [Voters -> Points \cup {Null}]
  /\ handed \subseteq [id : Voters, sig : Points]
  /\ exposed \subseteq Voters
  /\ box \in Seq([key : Keys, vot : Ciphers \cup Candidates \cup {Null}])
  /\ \A t \in tickets : t.type \in Types /\ t.id \in DOMAIN box
  /\ phase \in DOMAIN Phases

(* One person, one vote: however many keys the voters make, in whose name  *)
(* ever they are signed, and whatever is exchanged and repeated, there are *)
(* never more ballots than persons the Registrar shows as registered.      *)
BallotsAreBacked == Cardinality(DOMAIN box) <= Cardinality(Registered)

(* A counted vote is the choice of the owner of the ballot's key.          *)
CountedAsChosen ==
  \A i \in Counted : box[i].vot = Choice[box[i].key]

(* In the phases of the README (registration, voting, opening) nobody      *)
(* votes or gets a ballot when the first disclosed vote is known.          *)
NoVoteAfterDisclosure ==
  [][Counted # {} =>
       /\ Len(box') = Len(box)
       /\ \A i \in DOMAIN box : box[i].vot = Null => box'[i].vot = Null]_vars

(* Who has voted is counted in the end.                                    *)
EveryVoteIsCounted ==
  \A i \in 1 .. Cardinality(Keys) :
    (i \in DOMAIN box /\ box[i].vot # Null) ~> (i \in Counted)
=============================================================================
