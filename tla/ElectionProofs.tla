--------------------------- MODULE ElectionProofs ---------------------------
(***************************************************************************)
(* One person, one vote, for any number of voters, keys and phases.        *)
(***************************************************************************)
EXTENDS Election, FiniteSetTheorems, TLAPS

(* What a voter holds is what the Registrar signed for that person.        *)
HandedIsSigned == \A h \in handed : signed[h.id] = h.sig

(* The key of a ballot was certified once and for all.                     *)
BallotsAreCertified == \A i \in DOMAIN box : Certified(box[i].key)

OneBallotPerKey ==
  \A i, j \in DOMAIN box : box[i].key = box[j].key => i = j

(* A ballot holds nothing, its owner's ciphertext, or its owner's choice.  *)
BallotIsOwners ==
  \A i \in DOMAIN box :
    box[i].vot \in {Null, Choice[box[i].key],
                    [cand |-> Choice[box[i].key], owner |-> box[i].key]}

IInv ==
  /\ TypeOK
  /\ HandedIsSigned /\ BallotsAreCertified /\ OneBallotPerKey /\ BallotIsOwners

Ballots == [key : Keys, vot : Ciphers \cup Candidates \cup {Null}]

LEMMA BallotTypes ==
  ASSUME TypeOK
  PROVE  /\ box \in Seq(Ballots)
         /\ \A i \in DOMAIN box : box[i] \in Ballots /\ box[i].key \in Keys
<1>1. box \in Seq(Ballots)
  BY DEF TypeOK, Ballots
<1>2. \A i \in DOMAIN box : box[i] \in Ballots
  BY <1>1
<1>3. \A b \in Ballots : b.key \in Keys
  BY DEF Ballots
<1> QED
  BY <1>1, <1>2, <1>3

LEMMA InitInvariant == Init => IInv
<1>1. Init => TypeOK
  BY PhasesAssumption
  DEF Init, TypeOK, Registrar!Init, Accountant!Init
<1>2. Init => HandedIsSigned /\ BallotsAreCertified /\ OneBallotPerKey /\ BallotIsOwners
  BY DEF Init, Registrar!Init, Accountant!Init, HandedIsSigned, BallotsAreCertified,
         OneBallotPerKey, BallotIsOwners
<1> QED
  BY <1>1, <1>2 DEF IInv

(* The Registrar's steps: what was signed stays signed.                    *)
LEMMA RegistrarInvariant ==
  ASSUME IInv, NEW v \in Voters,
         Identify(v) \/ Obtain(v) \/ \E point \in Points : Register(v, point)
  PROVE  IInv'
<1> USE DEF IInv
<1>1. UNCHANGED <<box, tickets, phase>>
  BY DEF Identify, Obtain, Register
<1>2. CASE Obtain(v)
  <2>1. /\ signed[v] # Null /\ signed' = signed /\ exposed' = exposed
        /\ handed' = handed \cup {[id |-> v, sig |-> signed[v]]}
    BY <1>2 DEF Obtain, Registrar!Hand
  <2>2. TypeOK'
    BY <1>1, <2>1 DEF TypeOK
  <2>3. HandedIsSigned'
    BY <2>1 DEF HandedIsSigned
  <2>4. BallotsAreCertified'
    BY <1>1, <2>1 DEF BallotsAreCertified, Certified
  <2> QED
    BY <1>1, <2>2, <2>3, <2>4 DEF OneBallotPerKey, BallotIsOwners
<1>3. CASE \E point \in Points : Register(v, point)
  <2>1. PICK point \in Points : Register(v, point)
    BY <1>3
  <2>2. /\ signed[v] = Null /\ handed' = handed /\ exposed' = exposed
        /\ signed' = [signed EXCEPT ![v] = point]
    BY <2>1 DEF Register, Registrar!Sign
  <2>3. TypeOK'
    BY <1>1, <2>1, <2>2 DEF TypeOK
  <2>4. HandedIsSigned'
    <3>1. ASSUME NEW h \in handed
          PROVE  h.id # v
      BY <2>2, VotersAssumption DEF HandedIsSigned, TypeOK
    <3> QED
      BY <2>2, <3>1 DEF HandedIsSigned, TypeOK
  <2>5. BallotsAreCertified'
    BY <1>1, <2>2 DEF BallotsAreCertified, Certified
  <2> QED
    BY <1>1, <2>3, <2>4, <2>5 DEF OneBallotPerKey, BallotIsOwners
<1>4. CASE Identify(v)
  <2>1. /\ signed' = signed /\ handed' = handed
        /\ exposed' \in {exposed \cup {v}, exposed \ {v}}
    BY <1>4 DEF Identify, Registrar!Agree
  <2>2. TypeOK'
    BY <1>1, <2>1 DEF TypeOK
  <2> QED
    BY <1>1, <2>1, <2>2
    DEF HandedIsSigned, BallotsAreCertified, Certified, OneBallotPerKey, BallotIsOwners
<1> QED
  BY <1>2, <1>3, <1>4

LEMMA JoinInvariant ==
  ASSUME IInv, NEW k \in Keys, Join(k)
  PROVE  IInv'
<1> USE DEF IInv
<1> DEFINE blank == [key |-> k, vot |-> Null]
<1>1. /\ Certified(k) /\ \A i \in DOMAIN box : box[i].key # k
      /\ box' = Append(box, blank)
      /\ UNCHANGED <<signed, handed, exposed, tickets, phase>>
  BY DEF Join, Accountant!Issue
<1>2. box \in Seq(Ballots) /\ blank \in Ballots
  BY DEF TypeOK, Ballots
<1> HIDE DEF blank
<1>3. /\ box' \in Seq(Ballots)
      /\ DOMAIN box' = DOMAIN box \cup {Len(box) + 1}
      /\ \A i \in DOMAIN box : box'[i] = box[i]
      /\ box'[Len(box) + 1] = blank
      /\ Len(box) + 1 \notin DOMAIN box
  BY <1>1, <1>2
<1> USE DEF blank
<1>4. TypeOK'
  BY <1>1, <1>3 DEF TypeOK, Ballots
<1>5. BallotsAreCertified'
  BY <1>1, <1>3 DEF BallotsAreCertified, Certified
<1>6. OneBallotPerKey'
  BY <1>1, <1>3 DEF OneBallotPerKey
<1>7. BallotIsOwners'
  BY <1>1, <1>3 DEF BallotIsOwners
<1> QED
  BY <1>1, <1>4, <1>5, <1>6, <1>7 DEF HandedIsSigned

(* VOTE and OPEN change what one ballot holds.                             *)
LEMMA BallotInvariant ==
  ASSUME IInv, NEW i \in DOMAIN box, NEW c,
         c \in {Choice[box[i].key],
                [cand |-> Choice[box[i].key], owner |-> box[i].key]},
         box' = [box EXCEPT ![i].vot = c],
         UNCHANGED <<signed, handed, exposed, tickets, phase>>
  PROVE  IInv'
<1> USE DEF IInv
<1>1. box \in Seq(Ballots) /\ box[i] \in Ballots
  BY BallotTypes
<1>2. c \in Ciphers \cup Candidates
  BY <1>1, VotersAssumption DEF Ballots, Ciphers
<1>3. /\ DOMAIN box' = DOMAIN box
      /\ \A j \in DOMAIN box : box'[j].key = box[j].key
      /\ \A j \in DOMAIN box : j # i => box'[j] = box[j]
      /\ box'[i].vot = c
  BY <1>1 DEF Ballots
<1>4. TypeOK'
  <2>1. [box[i] EXCEPT !.vot = c] \in Ballots
    BY <1>1, <1>2 DEF Ballots
  <2>2. box' \in Seq(Ballots)
    BY <1>1, <2>1
  <2> QED
    BY <1>3, <2>2 DEF TypeOK, Ballots
<1>5. BallotsAreCertified'
  BY <1>3 DEF BallotsAreCertified, Certified
<1>6. OneBallotPerKey'
  BY <1>3 DEF OneBallotPerKey
<1>7. BallotIsOwners'
  BY <1>3 DEF BallotIsOwners
<1> QED
  BY <1>4, <1>5, <1>6, <1>7 DEF HandedIsSigned

LEMMA VoteInvariant ==
  ASSUME IInv, NEW i \in DOMAIN box, NEW k \in Keys, Vote(i, k)
  PROVE  IInv'
<1>1. /\ box[i].key = k
      /\ box' = [box EXCEPT ![i].vot = [cand |-> Choice[k], owner |-> k]]
      /\ UNCHANGED <<signed, handed, exposed, tickets, phase>>
  BY DEF Vote, SignedByOwner, Accountant!Cast
<1> QED
  BY <1>1, BallotInvariant

(* Opening discloses the owner's choice, because only the owner's          *)
(* ciphertext can be stored.                                               *)
LEMMA OpenInvariant ==
  ASSUME IInv, NEW i \in DOMAIN box, Open(i)
  PROVE  IInv'
<1>1. /\ box[i].vot \in Ciphers
      /\ box' = [box EXCEPT ![i].vot = box[i].vot.cand]
      /\ UNCHANGED <<signed, handed, exposed, tickets, phase>>
  BY DEF Open, Accountant!Disclose
<1>2. box[i].key \in Keys
  BY BallotTypes DEF IInv
<1>3. box[i].vot = [cand |-> Choice[box[i].key], owner |-> box[i].key]
  BY <1>1, <1>2, VotersAssumption DEF IInv, BallotIsOwners
<1>4. box[i].vot.cand = Choice[box[i].key]
  BY <1>3
<1> QED
  BY <1>1, <1>4, BallotInvariant

LEMMA ConfirmInvariant ==
  ASSUME IInv, NEW i \in DOMAIN box, NEW type \in Types, Confirm(type, i)
  PROVE  IInv'
<1>1. /\ tickets' = tickets \cup {TicketFor(type, i)}
      /\ UNCHANGED <<signed, handed, exposed, box, phase>>
  BY DEF Confirm, Accountant!Certify
<1>2. TicketFor(type, i).type = type /\ TicketFor(type, i).id = i
  BY DEF TicketFor
<1>3. TypeOK'
  BY <1>1, <1>2 DEF IInv, TypeOK
<1> QED
  BY <1>1, <1>3
  DEF IInv, HandedIsSigned, BallotsAreCertified, Certified, OneBallotPerKey, BallotIsOwners

LEMMA PhaseInvariant ==
  ASSUME IInv, NextPhase
  PROVE  IInv'
<1>1. TypeOK'
  BY PhasesAssumption DEF IInv, TypeOK, NextPhase, roles
<1> QED
  BY <1>1
  DEF IInv, NextPhase, roles, HandedIsSigned, BallotsAreCertified, Certified,
      OneBallotPerKey, BallotIsOwners

LEMMA StepInvariant == IInv /\ [Next]_vars => IInv'
<1> SUFFICES ASSUME IInv, [Next]_vars
             PROVE  IInv'
  OBVIOUS
<1>1. CASE NextPhase
  BY <1>1, PhaseInvariant
<1>2. ASSUME NEW v \in Voters,
             Identify(v) \/ Obtain(v) \/ \E point \in Points : Register(v, point)
      PROVE  IInv'
  BY <1>2, RegistrarInvariant
<1>3. ASSUME NEW k \in Keys, Join(k)
      PROVE  IInv'
  BY <1>3, JoinInvariant
<1>4. ASSUME NEW i \in DOMAIN box, Open(i)
      PROVE  IInv'
  BY <1>4, OpenInvariant
<1>5. ASSUME NEW i \in DOMAIN box, NEW k \in Keys, Vote(i, k)
      PROVE  IInv'
  BY <1>5, VoteInvariant
<1>6. ASSUME NEW i \in DOMAIN box, NEW type \in Types, Confirm(type, i)
      PROVE  IInv'
  BY <1>6, ConfirmInvariant
<1>7. CASE UNCHANGED vars
  BY <1>7
  DEF vars, roles, IInv, TypeOK, HandedIsSigned, BallotsAreCertified, Certified,
      OneBallotPerKey, BallotIsOwners
<1> QED
  BY <1>1, <1>2, <1>3, <1>4, <1>5, <1>6, <1>7 DEF Next

(* IInv holds in every state of every election.                            *)
THEOREM Invariance == Spec => []IInv
  BY InitInvariant, StepInvariant, PTL DEF Spec

(* The types of all variables.                                             *)
THEOREM TypeCorrect == Spec => []TypeOK
<1>1. IInv => TypeOK
  BY DEF IInv
<1> QED
  BY <1>1, Invariance, PTL

-----------------------------------------------------------------------------
(* Ballots are mapped to the persons whose signature certified their keys. *)
(* A person has one signature, which certifies one key, which has one      *)
(* ballot: the map is an injection.                                        *)
LEMMA BackedLemma == IInv => BallotsAreBacked
<1> SUFFICES ASSUME IInv
             PROVE  BallotsAreBacked
  OBVIOUS
<1> DEFINE Backs(v, i) == signed[v].key = box[i].key
           backer == [i \in DOMAIN box |-> CHOOSE v \in Registered : Backs(v, i)]
<1>1. ASSUME NEW i \in DOMAIN box
      PROVE  \E v \in Registered : Backs(v, i)
  <2>1. PICK h \in handed : h.sig.key = box[i].key
    BY DEF IInv, BallotsAreCertified, Certified
  <2>2. h.id \in Voters /\ h.sig \in Points /\ signed[h.id] = h.sig
    BY DEF IInv, TypeOK, HandedIsSigned
  <2>3. h.sig # Null
    BY <2>2, VotersAssumption
  <2> QED
    BY <2>1, <2>2, <2>3 DEF Registered
<1>2. ASSUME NEW i \in DOMAIN box
      PROVE  backer[i] \in Registered /\ Backs(backer[i], i)
  BY <1>1
<1> HIDE DEF backer
<1>3. ASSUME NEW i \in DOMAIN box, NEW j \in DOMAIN box, backer[i] = backer[j]
      PROVE  i = j
  BY <1>2, <1>3 DEF IInv, OneBallotPerKey
<1>4. backer \in [DOMAIN box -> Registered]
  BY <1>2 DEF backer
<1>5. backer \in Injection(DOMAIN box, Registered)
  BY <1>3, <1>4 DEF Injection, IsInjective
<1>6. IsFiniteSet(Registered)
  BY VotersAssumption, FS_Subset DEF Registered
<1> QED
  BY <1>5, <1>6, FS_Injection DEF BallotsAreBacked

(* One person, one vote: there are never more ballots than registered      *)
(* persons.                                                                *)
THEOREM OnePersonOneVote == Spec => []BallotsAreBacked
  BY BackedLemma, Invariance, PTL

(* A counted vote is the choice of the owner of the ballot's key.          *)
THEOREM CountsChoices == Spec => []CountedAsChosen
<1>1. IInv => CountedAsChosen
  <2> SUFFICES ASSUME IInv, NEW c \in Candidates, NEW i \in DOMAIN box, box[i].vot = c
               PROVE  box[i].vot = Choice[box[i].key]
    BY DEF CountedAsChosen, Counted, TallyOf
  <2>1. box[i].key \in Keys
    BY BallotTypes DEF IInv
  <2> QED
    BY <2>1, VotersAssumption DEF IInv, BallotIsOwners, Ciphers
<1> QED
  BY <1>1, Invariance, PTL

-----------------------------------------------------------------------------
(* The README's advice to the operator: no phase with OPEN comes before,   *)
(* or is, a phase in which ballots are issued or cast.                     *)
SeparatePhases ==
  \A p, q \in DOMAIN Phases :
    "OPEN" \in Phases[p] /\ Phases[q] \cap {"JOIN", "VOTE"} # {} => q < p

OpeningBegan == \E p \in 1 .. phase : "OPEN" \in Phases[p]

(* A vote is disclosed only when the opening began.                        *)
DisclosedInOpening == Counted # {} => OpeningBegan

LEMMA CountedBallot ==
  Counted # {} <=> \E i \in DOMAIN box : box[i].vot \in Candidates
  BY DEF Counted, TallyOf

(* The opening does not end.                                               *)
LEMMA OpeningStays ==
  ASSUME TypeOK, TypeOK', phase' \in {phase, phase + 1}, OpeningBegan
  PROVE  OpeningBegan'
  BY PhasesAssumption DEF TypeOK, OpeningBegan

LEMMA DisclosureStep ==
  IInv /\ DisclosedInOpening /\ [Next]_vars => DisclosedInOpening'
<1> SUFFICES ASSUME IInv, DisclosedInOpening, [Next]_vars, Counted' # {}
             PROVE  OpeningBegan'
  BY DEF DisclosedInOpening
<1>1. TypeOK /\ TypeOK'
  BY StepInvariant DEF IInv
<1>2. PICK i \in DOMAIN box' : box'[i].vot \in Candidates
  BY DEF Counted, TallyOf
<1>3. CASE \E j \in DOMAIN box : Open(j)
  <2>1. phase' = phase /\ "OPEN" \in Phases[phase]
    BY <1>3 DEF Open, Allowed
  <2> QED
    BY <1>1, <2>1, PhasesAssumption DEF OpeningBegan, TypeOK
<1>4. ASSUME phase' \in {phase, phase + 1}, i \in DOMAIN box, box[i].vot \in Candidates
      PROVE  OpeningBegan'
  BY <1>1, <1>4, CountedBallot, OpeningStays DEF DisclosedInOpening
<1>5. ASSUME box' = box, phase' \in {phase, phase + 1}
      PROVE  OpeningBegan'
  BY <1>2, <1>4, <1>5
<1>6. CASE NextPhase
  BY <1>5, <1>6 DEF NextPhase, roles
<1>7. ASSUME NEW v \in Voters,
             Identify(v) \/ Obtain(v) \/ \E point \in Points : Register(v, point)
      PROVE  OpeningBegan'
  BY <1>5, <1>7 DEF Identify, Obtain, Register
<1>8. ASSUME NEW k \in Keys, Join(k)
      PROVE  OpeningBegan'
  <2>1. box' = Append(box, [key |-> k, vot |-> Null]) /\ phase' = phase
    BY <1>8 DEF Join, Accountant!Issue
  <2>2. box \in Seq(Ballots)
    BY <1>1, BallotTypes
  <2>3. \/ i \in DOMAIN box /\ box'[i] = box[i]
        \/ box'[i] = [key |-> k, vot |-> Null]
    BY <1>2, <2>1, <2>2
  <2>4. [key |-> k, vot |-> Null].vot \notin Candidates
    BY VotersAssumption
  <2> QED
    BY <1>2, <1>4, <2>1, <2>3, <2>4
<1>9. ASSUME NEW j \in DOMAIN box, NEW k \in Keys, Vote(j, k)
      PROVE  OpeningBegan'
  <2>1. /\ box' = [box EXCEPT ![j].vot = [cand |-> Choice[k], owner |-> k]]
        /\ phase' = phase
    BY <1>9 DEF Vote, Accountant!Cast
  <2>2. box \in Seq(Ballots) /\ box[j] \in Ballots
    BY <1>1, BallotTypes
  <2>3. box'[j].vot = [cand |-> Choice[k], owner |-> k]
    BY <2>1, <2>2 DEF Ballots
  <2>4. [cand |-> Choice[k], owner |-> k] \notin Candidates
    BY VotersAssumption DEF Ciphers
  <2>5. i # j /\ i \in DOMAIN box /\ box'[i] = box[i]
    BY <1>2, <2>1, <2>2, <2>3, <2>4
  <2> QED
    BY <1>2, <1>4, <2>1, <2>5
<1>10. ASSUME NEW j \in DOMAIN box, NEW type \in Types, Confirm(type, j)
       PROVE  OpeningBegan'
  BY <1>5, <1>10 DEF Confirm, Accountant!Certify
<1>11. CASE UNCHANGED vars
  BY <1>5, <1>11 DEF vars, roles
<1> QED
  BY <1>3, <1>6, <1>7, <1>8, <1>9, <1>10, <1>11 DEF Next

(* In separate phases nobody votes or gets a ballot when the first         *)
(* disclosed vote is known.                                                *)
THEOREM NoLateVotes == SeparatePhases => (Spec => NoVoteAfterDisclosure)
<1> SUFFICES ASSUME SeparatePhases
             PROVE  Spec => NoVoteAfterDisclosure
  OBVIOUS
<1>1. Init => DisclosedInOpening
  BY CountedBallot DEF Init, Accountant!Init, DisclosedInOpening
<1> DEFINE Kept ==
      /\ Len(box') = Len(box)
      /\ \A i \in DOMAIN box : box[i].vot = Null => box'[i].vot = Null
<1>2. ASSUME IInv, DisclosedInOpening, Next, Counted # {}
      PROVE  Kept
  <2>1. box \in Seq(Ballots)
    BY <1>2, BallotTypes DEF IInv
  <2>2. ~ Allowed("JOIN") /\ ~ Allowed("VOTE")
    <3>1. PICK p \in 1 .. phase : "OPEN" \in Phases[p]
      BY <1>2 DEF DisclosedInOpening, OpeningBegan
    <3>2. p \in DOMAIN Phases /\ phase \in DOMAIN Phases /\ ~ (phase < p)
      BY <1>2, <3>1, PhasesAssumption DEF IInv, TypeOK
    <3> QED
      BY <3>1, <3>2 DEF SeparatePhases, Allowed
  <2>3. CASE box' = box
    BY <2>3
  <2>4. ASSUME NEW j \in DOMAIN box, Open(j)
        PROVE  Kept
    <3>1. /\ box[j].vot \in Ciphers
          /\ box' = [box EXCEPT ![j].vot = box[j].vot.cand]
      BY <2>4 DEF Open, Accountant!Disclose
    <3>2. Null \notin Ciphers
      BY VotersAssumption
    <3> QED
      BY <2>1, <3>1, <3>2
  <2>5. CASE NextPhase
    BY <2>3, <2>5 DEF NextPhase, roles
  <2>6. ASSUME NEW v \in Voters,
               Identify(v) \/ Obtain(v) \/ \E point \in Points : Register(v, point)
        PROVE  Kept
    BY <2>3, <2>6 DEF Identify, Obtain, Register
  <2>7. ASSUME NEW j \in DOMAIN box, NEW type \in Types, Confirm(type, j)
        PROVE  Kept
    BY <2>3, <2>7 DEF Confirm, Accountant!Certify
  <2> QED
    BY <1>2, <2>2, <2>4, <2>5, <2>6, <2>7 DEF Next, Join, Vote
<1>3. IInv /\ DisclosedInOpening /\ [Next]_vars => [Counted # {} => Kept]_vars
  BY <1>2
<1> QED
  BY <1>1, <1>3, Invariance, DisclosureStep, PTL DEF Spec, NoVoteAfterDisclosure
=============================================================================
