-------------------------- MODULE RegistrarProofs --------------------------
(***************************************************************************)
(* Proofs about the Registrar, for every list of persons, every set of     *)
(* invitations, blinding factors and secrets, and every choice of faults.  *)
(*                                                                         *)
(* What a voter was handed says something about the table only through     *)
(* what the handler knew when it answered.  IInv carries that knowledge    *)
(* from the SELECT of srv_regs over the UPDATE to the answer.  Nothing is  *)
(* assumed of strangers but what Sendable says: that they do not make the  *)
(* MAC of a secret they do not know.                                       *)
(***************************************************************************)
EXTENDS Registrar, TLAPS

(* What a voter was handed is what the table holds.                        *)
HeldIsStored ==
  \A h \in handed : h.id \in Listed /\ db[h.id].sig = h.sig

(* A packet that reached its handler, not yet looked at.                   *)
Reading ==
  /\ pc \in {"idle", "down", "IDNT", "REGS"} => e = "NONE"
  /\ pc = "IDNT" => req.type \in {"IDNT", "DENY"}
  /\ pc = "REGS" => req.type \in {"REGS", "DENY"}
  /\ pc = "REGS" /\ req.type = "REGS" /\ req.mac \in Secrets =>
       (req.point \in Points => req.point.owner = req.id)

SavingSec ==
  pc = "SAVE_SEC" =>
    /\ req \in IdntRequests /\ req.id \in Invited /\ e = "NONE"
    /\ res \in Shared /\ (req.key = "password" => res \in Secrets)

(* Between the MAC and the UPDATE: the point is the person's own, but in a *)
(* session with the common secret, and nothing was signed for that person  *)
(* before.                                                                 *)
SavingSig ==
  pc = "SAVE_SIG" =>
    /\ req \in RegsRequests /\ req.id \in Invited /\ e = "NONE"
    /\ res \in Points
    /\ res.owner = req.id \/ db[req.id].sec = Common
    /\ db[req.id].sig = Null

Answering ==
  pc = "ANSWER" /\ e = "NONE" =>
    /\ req.id \in Invited
    /\ \/ req \in IdntRequests /\ res \in Shared
             /\ (req.key = "password" => res \in Secrets)
       \/ req \in RegsRequests /\ res \in Points /\ res = db[req.id].sig

IInv ==
  /\ TypeOK
  /\ HeldIsStored
  /\ Reading /\ SavingSec /\ SavingSig /\ Answering

-----------------------------------------------------------------------------
(* A packet that was not denied is what its type says.                     *)
LEMMA PacketKinds ==
  ASSUME TypeOK
  PROVE  /\ req.type = "IDNT" => req \in IdntRequests
         /\ req.type = "REGS" => req \in RegsRequests
<1>1. Denied.type = "DENY" /\ NoRequest.type = "NONE"
  BY DEF Denied, NoRequest
<1>2. req \in Requests \cup {NoRequest, Denied}
  BY DEF TypeOK
<1> QED
  BY <1>1, <1>2 DEF Requests, IdntRequests, RegsRequests

(* What an UPDATE of the column Sec leaves as it was.                      *)
LEMMA SecUpdated ==
  ASSUME NEW t \in [Listed -> Rows], NEW p \in Listed, NEW s \in Shared
  PROVE  LET u == [t EXCEPT ![p].sec = s]
         IN  /\ u \in [Listed -> Rows]
             /\ u[p].sec = s
             /\ \A q \in Listed : u[q].sig = t[q].sig
             /\ \A q \in Listed : q # p => u[q] = t[q]
BY DEF Rows

(* What an UPDATE of the column Sig leaves as it was.                      *)
LEMMA SigUpdated ==
  ASSUME NEW t \in [Listed -> Rows], NEW p \in Listed, NEW s \in Points
  PROVE  LET u == [t EXCEPT ![p].sig = s]
         IN  /\ u \in [Listed -> Rows]
             /\ u[p].sig = s
             /\ \A q \in Listed : q # p => u[q] = t[q]
BY DEF Rows

-----------------------------------------------------------------------------
(* The inductive invariant *)

LEMMA InitInv == Init => IInv
<1> SUFFICES ASSUME Init PROVE IInv
  OBVIOUS
<1>1. TypeOK
  BY DEF Init, TypeOK, Steps, Rows
<1> QED
  BY <1>1
     DEF Init, IInv, HeldIsStored, Reading, SavingSec, SavingSig, Answering

LEMMA RecordsKept ==
  ASSUME IInv, UNCHANGED <<db, handed>>
  PROVE  HeldIsStored'
BY DEF IInv, HeldIsStored

LEMMA StartInv == ASSUME IInv, Start PROVE IInv'
<1> USE DEF Start
<1>1. TypeOK'
  BY FaultAssumption DEF IInv, TypeOK, Steps
<1>2. HeldIsStored'
  BY RecordsKept
<1>3. (Reading /\ SavingSec /\ SavingSig /\ Answering)'
  BY DEF IInv, Reading, SavingSec, SavingSig, Answering
<1> QED
  BY <1>1, <1>2, <1>3 DEF IInv

LEMMA CrashInv == ASSUME IInv, Crash PROVE IInv'
<1> USE DEF Crash, Forget
<1>1. TypeOK'
  BY DEF IInv, TypeOK, Steps
<1>2. HeldIsStored'
  BY RecordsKept
<1>3. (Reading /\ SavingSec /\ SavingSig /\ Answering)'
  BY DEF Reading, SavingSec, SavingSig, Answering
<1> QED
  BY <1>1, <1>2, <1>3 DEF IInv

LEMMA ReceiveInv ==
  ASSUME IInv, NEW q \in Requests, Receive(q)
  PROVE  IInv'
<1> USE DEF Receive
<1>1. q.type \in {"IDNT", "REGS"} /\ Denied.type = "DENY"
  BY DEF Requests, IdntRequests, RegsRequests, Denied
<1>2. req' \in {q, Denied}
  OBVIOUS
<1>3. TypeOK'
  BY <1>1, <1>2 DEF IInv, TypeOK, Steps
<1>4. HeldIsStored'
  BY RecordsKept
<1>5. Reading'
  BY <1>1 DEF IInv, Reading, Sendable
<1>6. (SavingSec /\ SavingSig /\ Answering)'
  BY <1>1 DEF SavingSec, SavingSig, Answering
<1> QED
  BY <1>3, <1>4, <1>5, <1>6 DEF IInv

(* A handler that gives up leaves the table alone and hands out nothing.   *)
LEMMA FailInv ==
  ASSUME IInv, NEW code \in IdntErrors \cup RegsErrors, Fail(code)
  PROVE  IInv'
<1> USE DEF Fail, Goto
<1>1. TypeOK'
  BY DEF IInv, TypeOK, Steps
<1>2. HeldIsStored'
  BY RecordsKept
<1>3. e' # "NONE"
  BY DEF IdntErrors, RegsErrors
<1>4. (Reading /\ SavingSec /\ SavingSig /\ Answering)'
  BY <1>3 DEF Reading, SavingSec, SavingSig, Answering
<1> QED
  BY <1>1, <1>2, <1>4 DEF IInv

LEMMA IdntInv == ASSUME IInv, Idnt PROVE IInv'
<1>1. CASE \E code \in IdntErrors : Fail(code)
  BY <1>1, FailInv
<1>2. CASE /\ pc = "IDNT" /\ req.type = "IDNT" /\ req.id \in Invited
           /\ r' \in {"SRV_IDNT_ISREGS", r} /\ res' \in SharedSecrets(req.key)
           /\ Goto("SAVE_SEC") /\ UNCHANGED <<db, e>>
  <2>1. /\ req \in IdntRequests /\ res' \in Shared
        /\ req.key = "password" => res' \in Secrets
    BY <1>2, PacketKinds DEF IInv, SharedSecrets, FreshSecrets, Shared
  <2>2. TypeOK'
    BY <1>2, <2>1 DEF IInv, TypeOK, Goto, Steps
  <2>3. HeldIsStored'
    BY <1>2, RecordsKept DEF Goto
  <2>4. (Reading /\ SavingSec /\ SavingSig /\ Answering)'
    BY <1>2, <2>1 DEF IInv, Goto, Reading, SavingSec, SavingSig, Answering
  <2> QED
    BY <2>2, <2>3, <2>4 DEF IInv
<1> QED
  BY <1>1, <1>2 DEF Idnt, IdntErrors

LEMMA SaveSecInv == ASSUME IInv, SaveSec PROVE IInv'
<1>1. CASE Fail("ERR_IDNT_DBSAVESS")
  BY <1>1, FailInv DEF IdntErrors
<1>2. CASE /\ pc = "SAVE_SEC" /\ db' = [db EXCEPT ![req.id].sec = res]
           /\ Goto("ANSWER") /\ UNCHANGED <<res, e, r>>
  <2>1. /\ req \in IdntRequests /\ req.id \in Invited /\ req.id \in Listed
        /\ res \in Shared /\ (req.key = "password" => res \in Secrets)
    BY <1>2, RowsAssumption DEF IInv, SavingSec
  <2>2. /\ db' \in [Listed -> Rows]
        /\ \A p \in Listed : db'[p].sig = db[p].sig
    BY <1>2, <2>1, SecUpdated DEF IInv, TypeOK
  <2>3. TypeOK'
    BY <1>2, <2>2 DEF IInv, TypeOK, Goto, Steps
  <2>4. HeldIsStored'
    BY <1>2, <2>2 DEF IInv, HeldIsStored, Goto
  <2>5. (Reading /\ SavingSec /\ SavingSig /\ Answering)'
    BY <1>2, <2>1 DEF Goto, Reading, SavingSec, SavingSig, Answering
  <2> QED
    BY <2>3, <2>4, <2>5 DEF IInv
<1> QED
  BY <1>1, <1>2 DEF SaveSec

(* What the checks of srv_regs establish.                                  *)
LEMMA RegsChecked ==
  ASSUME IInv, pc = "REGS", req.type = "REGS", RegsCheck = "NONE"
  PROVE  /\ req \in RegsRequests /\ req.id \in Invited /\ req.id \in Listed
         /\ db[req.id].sig \in Points
              \/ /\ db[req.id].sig = Null
                 /\ req.point \in Points
                 /\ req.point.owner = req.id \/ db[req.id].sec = Common
<1>1. req \in RegsRequests
  BY PacketKinds DEF IInv
<1>2. /\ req.id \in Invited /\ req.id \in Listed
      /\ req.mac = db[req.id].sec /\ req.mac # Null
      /\ db[req.id].sig # Null \/ req.point # BadPoint
  BY DEF RegsCheck, MacVerifies, IsSigned, Uncompresses
<1>3. db[req.id].sig \in Points \cup {Null}
  BY <1>2 DEF IInv, TypeOK, Rows
<1>4. req.point \in Points \cup {BadPoint}
  BY <1>1 DEF RegsRequests
<1>5. req.mac \in Secrets \/ req.mac = Common
  BY <1>1, <1>2 DEF RegsRequests, Shared
<1> QED
  BY <1>1, <1>2, <1>3, <1>4, <1>5 DEF IInv, Reading

LEMMA RegsInv == ASSUME IInv, Regs PROVE IInv'
<1>1. CASE \E code \in RegsErrors : Fail(code)
  BY <1>1, FailInv
<1>2. CASE /\ pc = "REGS" /\ req.type = "REGS" /\ RegsCheck = "NONE"
           /\ IsSigned(db[req.id])
           /\ r' = "SRV_REGS_ISREGS" /\ res' = db[req.id].sig
           /\ Goto("ANSWER") /\ UNCHANGED <<db, e>>
  <2>1. req \in RegsRequests /\ req.id \in Invited /\ db[req.id].sig \in Points
    BY <1>2, RegsChecked DEF IsSigned
  <2>2. TypeOK'
    BY <1>2, <2>1 DEF IInv, TypeOK, Goto, Steps
  <2>3. HeldIsStored'
    BY <1>2, RecordsKept DEF Goto
  <2>4. (Reading /\ SavingSec /\ SavingSig /\ Answering)'
    BY <1>2, <2>1 DEF IInv, Goto, Reading, SavingSec, SavingSig, Answering
  <2> QED
    BY <2>2, <2>3, <2>4 DEF IInv
<1>3. CASE /\ pc = "REGS" /\ req.type = "REGS" /\ RegsCheck = "NONE"
           /\ ~IsSigned(db[req.id])
           /\ r' = r /\ res' = req.point
           /\ Goto("SAVE_SIG") /\ UNCHANGED <<db, e>>
  <2>1. /\ req \in RegsRequests /\ req.id \in Invited
        /\ db[req.id].sig = Null
        /\ req.point \in Points
        /\ req.point.owner = req.id \/ db[req.id].sec = Common
    BY <1>3, RegsChecked, NullAssumption DEF IsSigned
  <2>2. TypeOK'
    BY <1>3, <2>1 DEF IInv, TypeOK, Goto, Steps
  <2>3. HeldIsStored'
    BY <1>3, RecordsKept DEF Goto
  <2>4. (Reading /\ SavingSec /\ SavingSig /\ Answering)'
    BY <1>3, <2>1 DEF IInv, Goto, Reading, SavingSec, SavingSig, Answering
  <2> QED
    BY <2>2, <2>3, <2>4 DEF IInv
<1>4. RegsCheck \in RegsErrors \cup {"NONE"}
  BY DEF RegsCheck, RegsErrors
<1> QED
  BY <1>1, <1>2, <1>3, <1>4 DEF Regs, RegsErrors

LEMMA SaveSigInv == ASSUME IInv, SaveSig PROVE IInv'
<1>1. CASE Fail("ERR_REGS_DBSAVESIG")
  BY <1>1, FailInv DEF RegsErrors
<1>2. CASE /\ pc = "SAVE_SIG" /\ db' = [db EXCEPT ![req.id].sig = res]
           /\ Goto("ANSWER") /\ UNCHANGED <<res, e, r>>
  <2>1. /\ req \in RegsRequests /\ req.id \in Invited /\ req.id \in Listed
        /\ res \in Points /\ db[req.id].sig = Null
    BY <1>2, RowsAssumption DEF IInv, SavingSig
  <2>2. /\ db' \in [Listed -> Rows]
        /\ db'[req.id].sig = res
        /\ \A p \in Listed : p # req.id => db'[p] = db[p]
    BY <1>2, <2>1, SigUpdated DEF IInv, TypeOK
  <2>3. TypeOK'
    BY <1>2, <2>2 DEF IInv, TypeOK, Goto, Steps
  <2>4. HeldIsStored'
    <3>1. \A h \in handed : h.id \in Listed /\ h.id # req.id
      BY <2>1, NullAssumption DEF IInv, HeldIsStored, TypeOK
    <3> QED
      BY <1>2, <2>2, <3>1 DEF IInv, HeldIsStored, Goto
  <2>5. (Reading /\ SavingSec /\ SavingSig /\ Answering)'
    BY <1>2, <2>1, <2>2 DEF Goto, Reading, SavingSec, SavingSig, Answering
  <2> QED
    BY <2>3, <2>4, <2>5 DEF IInv
<1> QED
  BY <1>1, <1>2 DEF SaveSig

LEMMA AnswerInv == ASSUME IInv, Answer PROVE IInv'
<1> USE DEF Answer, Forget
<1>1. /\ knows' \in [Ids -> Secrets \cup {Null}]
      /\ handed' \subseteq [id : Listed, sig : Points]
      /\ \A h \in handed' : h.id \in Listed /\ db[h.id].sig = h.sig
  <2>1. CASE UNCHANGED <<knows, handed>>
    BY <2>1 DEF IInv, TypeOK, HeldIsStored
  <2>2. CASE /\ e = "NONE" /\ req.type = "IDNT" /\ req.key = "password"
             /\ UNCHANGED handed
             /\ knows' = [knows EXCEPT ![req.id] = res]
    <3>1. res \in Secrets
      BY <2>2 DEF IInv, Answering, RegsRequests
    <3> QED
      BY <2>2, <3>1 DEF IInv, TypeOK, HeldIsStored
  <2>3. CASE /\ e = "NONE" /\ req.type = "REGS" /\ UNCHANGED knows
             /\ handed' = handed \cup {[id |-> req.id, sig |-> res]}
    <3>1. res \in Points /\ res = db[req.id].sig /\ req.id \in Listed
      BY <2>3, RowsAssumption DEF IInv, Answering, IdntRequests
    <3> QED
      BY <2>3, <3>1 DEF IInv, TypeOK, HeldIsStored
  <2> QED
    BY <2>1, <2>2, <2>3
<1>2. TypeOK'
  BY <1>1 DEF IInv, TypeOK, Steps
<1>3. HeldIsStored'
  BY <1>1 DEF IInv, HeldIsStored
<1>4. (Reading /\ SavingSec /\ SavingSig /\ Answering)'
  BY DEF Reading, SavingSec, SavingSig, Answering
<1> QED
  BY <1>2, <1>3, <1>4 DEF IInv

LEMMA NextInv == ASSUME IInv, [Next]_vars PROVE IInv'
<1>1. CASE UNCHANGED vars
  BY <1>1 DEF IInv, vars, TypeOK, HeldIsStored, Reading, SavingSec,
              SavingSig, Answering
<1> QED
  BY <1>1, StartInv, CrashInv, ReceiveInv, IdntInv, SaveSecInv, RegsInv,
     SaveSigInv, AnswerInv DEF Next, Handle

(* The inductive invariant holds in every reachable state.                 *)
THEOREM Invariance == Spec => []IInv
BY InitInv, NextInv, PTL DEF Spec

(* The variables of the Registrar keep their types.                        *)
THEOREM TypeCorrect == Spec => []TypeOK
BY Invariance, PTL DEF IInv

(* Nobody gets two blind signatures, whatever is lost, retried, refused by *)
(* the database or cut short by a crash.                                   *)
THEOREM OneCredentialPerPerson == Spec => []OneCredential
<1>1. IInv => OneCredential
  BY DEF IInv, HeldIsStored, OneCredential
<1> QED
  BY <1>1, Invariance, PTL

(* Whoever holds a signature is shown as registered with that signature.   *)
THEOREM HoldersAreShown == Spec => []HolderIsShown
<1>1. IInv => HolderIsShown
  BY NullAssumption DEF IInv, TypeOK, HeldIsStored, HolderIsShown, WebFlag
<1> QED
  BY <1>1, Invariance, PTL

-----------------------------------------------------------------------------
(* The steps of the table Persons *)

(* A new secret for one person, signatures as before.                      *)
Agrees(p, s) == /\ db' \in [Listed -> Rows]
                /\ db' = [db EXCEPT ![p].sec = s]

(* The first signature of one person.                                      *)
Signs(p, point) == /\ db' \in [Listed -> Rows]
                   /\ db[p].sig = Null
                   /\ point.owner = p \/ db[p].sec = Common
                   /\ db' = [db EXCEPT ![p].sig = point]

TableStep ==
  \/ UNCHANGED db
  \/ UNCHANGED handed /\ \E p \in Listed, s \in Shared : Agrees(p, s)
  \/ UNCHANGED handed /\ \E p \in Listed, point \in Points : Signs(p, point)

LEMMA TableSteps == ASSUME IInv, [Next]_vars PROVE TableStep
<1>1. db' \in [Listed -> Rows]
  BY NextInv DEF IInv, TypeOK
<1>2. CASE SaveSec
  <2>1. req.id \in Listed /\ res \in Shared
    BY <1>2, RowsAssumption DEF SaveSec, IInv, SavingSec
  <2>2. /\ UNCHANGED handed
        /\ UNCHANGED db \/ db' = [db EXCEPT ![req.id].sec = res]
    BY <1>2 DEF SaveSec, Fail, Goto
  <2>3. UNCHANGED db \/ Agrees(req.id, res)
    BY <1>1, <2>2, Zenon DEF Agrees
  <2> QED
    BY <2>1, <2>2, <2>3 DEF TableStep
<1>3. CASE SaveSig
  <2>1. /\ req.id \in Listed /\ res \in Points /\ db[req.id].sig = Null
        /\ res.owner = req.id \/ db[req.id].sec = Common
    BY <1>3, RowsAssumption DEF SaveSig, IInv, SavingSig
  <2>2. /\ UNCHANGED handed
        /\ UNCHANGED db \/ db' = [db EXCEPT ![req.id].sig = res]
    BY <1>3 DEF SaveSig, Fail, Goto
  <2>3. UNCHANGED db \/ Signs(req.id, res)
    BY <1>1, <2>1, <2>2, Zenon DEF Signs
  <2> QED
    BY <2>1, <2>2, <2>3 DEF TableStep
<1>4. ~SaveSec /\ ~SaveSig => UNCHANGED db
  BY DEF Next, Handle, Start, Crash, Receive, Idnt, Regs, Answer, Fail, Goto, vars
<1> QED
  BY <1>2, <1>3, <1>4 DEF TableStep

(* What a step of the table does to the published flag of one person.      *)
LEMMA FlagSteps ==
  ASSUME IInv, TableStep, NEW p \in Listed
  PROVE  Rank[WebFlag(p)'] >= Rank[WebFlag(p)]
<1> USE DEF WebFlag, Rank
<1>1. CASE UNCHANGED db
  BY <1>1
<1>2. ASSUME NEW q \in Listed, NEW s \in Shared, Agrees(q, s)
      PROVE  Rank[WebFlag(p)'] >= Rank[WebFlag(p)]
  <2>1. db'[q].sec = s /\ s # Null /\ db'[p].sig = db[p].sig
    BY <1>2, SecUpdated, NullAssumption DEF Agrees, IInv, TypeOK, Shared
  <2>2. p # q => db'[p] = db[p]
    BY <1>2, SecUpdated DEF Agrees, IInv, TypeOK
  <2> QED
    BY <2>1, <2>2
<1>3. ASSUME NEW q \in Listed, NEW s \in Points, Signs(q, s)
      PROVE  Rank[WebFlag(p)'] >= Rank[WebFlag(p)]
  <2>1. db'[q].sig = s /\ s # Null /\ (p # q => db'[p] = db[p])
    BY <1>3, SigUpdated, NullAssumption DEF Signs, IInv, TypeOK
  <2> QED
    BY <2>1
<1> QED
  BY <1>1, <1>2, <1>3 DEF TableStep

(* The published flag of a person never goes back.                         *)
THEOREM FlagsAdvance == Spec => FlagOneWay
<1>1. IInv /\ [Next]_vars => [\A p \in Listed :
                                Rank[WebFlag(p)'] >= Rank[WebFlag(p)]]_vars
  BY TableSteps, FlagSteps
<1> QED
  BY <1>1, Invariance, PTL DEF Spec, FlagOneWay

(* What is signed for a person is the person's own blinded point, but in a *)
(* session with the common secret.                                         *)
THEOREM OwnPointSigned == Spec => OwnPoint
<1> DEFINE Own(p) == db[p].sig' # db[p].sig =>
                       db[p].sig'.owner = p \/ db[p].sec = Common
<1>1. ASSUME IInv, [Next]_vars, NEW p \in Listed
      PROVE  Own(p)
  <2>1. TableStep
    BY <1>1, TableSteps
  <2>2. ASSUME NEW q \in Listed, NEW s \in Shared, Agrees(q, s)
        PROVE  Own(p)
    BY <1>1, <2>2, SecUpdated DEF Agrees, IInv, TypeOK
  <2>3. ASSUME NEW q \in Listed, NEW s \in Points, Signs(q, s)
        PROVE  Own(p)
    BY <1>1, <2>3, SigUpdated DEF Signs, IInv, TypeOK
  <2> QED
    BY <2>1, <2>2, <2>3 DEF TableStep
<1>2. IInv /\ [Next]_vars => [\A p \in Listed : Own(p)]_vars
  BY <1>1
<1> QED
  BY <1>2, Invariance, PTL DEF Spec, OwnPoint

-----------------------------------------------------------------------------
(* The Registrar implements Credentials *)

Signed == [p \in Listed |-> db[p].sig]
Exposed == {p \in Listed : db[p].sec = Common}

LEMMA AgreesMaps ==
  ASSUME IInv, NEW p \in Listed, NEW s \in Shared, Agrees(p, s),
         UNCHANGED handed
  PROVE  Promise!Agree(p)
<1>1. /\ \A q \in Listed : db'[q].sig = db[q].sig
      /\ \A q \in Listed : q # p => db'[q] = db[q]
  BY SecUpdated DEF Agrees, IInv, TypeOK
<1>2. Signed' = Signed
  BY <1>1 DEF Signed
<1>3. Exposed' \in {Exposed \cup {p}, Exposed \ {p}}
  BY <1>1 DEF Exposed
<1> QED
  BY <1>2, <1>3 DEF Promise!Agree, Signed, Exposed

LEMMA SignsMaps ==
  ASSUME IInv, NEW p \in Listed, NEW point \in Points, Signs(p, point),
         UNCHANGED handed
  PROVE  Promise!Sign(p, point)
<1>1. /\ db'[p].sig = point /\ \A q \in Listed : q # p => db'[q] = db[q]
      /\ db'[p].sec = db[p].sec
  BY SigUpdated DEF Signs, IInv, TypeOK
<1>2. Signed' = [Signed EXCEPT ![p] = point]
  BY <1>1 DEF Signed
<1>3. Signed[p] = Null /\ (point.owner = p \/ p \in Exposed)
  BY DEF Signs, Signed, Exposed
<1>4. Exposed' = Exposed
  BY <1>1 DEF Exposed
<1> QED
  BY <1>2, <1>3, <1>4 DEF Promise!Sign, Signed, Exposed

LEMMA AnswerMaps ==
  ASSUME IInv, Answer
  PROVE  Promise!Next \/ UNCHANGED <<Signed, handed, Exposed>>
<1>1. Signed' = Signed /\ Exposed' = Exposed
  BY DEF Answer, Signed, Exposed
<1>2. CASE handed' = handed
  BY <1>1, <1>2
<1>3. CASE /\ e = "NONE" /\ req.type = "REGS"
           /\ handed' = handed \cup {[id |-> req.id, sig |-> res]}
  <2>1. res \in Points /\ res = db[req.id].sig /\ req.id \in Listed
    BY <1>3, RowsAssumption DEF IInv, Answer, Answering, IdntRequests
  <2>2. Signed[req.id] = res /\ res # Null
    BY <2>1, NullAssumption DEF Signed
  <2>3. Promise!Hand(req.id)
    BY <1>1, <1>3, <2>1, <2>2 DEF Promise!Hand, Signed, Exposed
  <2> QED
    BY <2>1, <2>3 DEF Promise!Next
<1> QED
  BY <1>2, <1>3 DEF Answer

(* Every step of the Registrar opens a session, signs a person's first     *)
(* point, the person's own or in an exposed session anybody's, hands out   *)
(* the stored signature, or changes none of these.                         *)
THEOREM Refinement == Spec => CredentialSpec
<1>1. Init => Promise!Init
  BY NullAssumption DEF Init, Promise!Init
<1>2. ASSUME IInv, [Next]_vars
      PROVE  Promise!Next \/ UNCHANGED <<Signed, handed, Exposed>>
  <2>1. CASE Answer
    BY <1>2, <2>1, AnswerMaps
  <2>2. CASE UNCHANGED <<db, handed>>
    BY <2>2 DEF Signed, Exposed
  <2>3. ASSUME UNCHANGED handed,
               NEW p \in Listed, NEW s \in Shared, Agrees(p, s)
        PROVE  Promise!Next
    BY <1>2, <2>3, AgreesMaps DEF Promise!Next
  <2>4. ASSUME UNCHANGED handed,
               NEW p \in Listed, NEW point \in Points, Signs(p, point)
        PROVE  Promise!Next
    BY <1>2, <2>4, SignsMaps DEF Promise!Next
  <2>5. ~Answer => UNCHANGED handed
    BY <1>2 DEF Next, Handle, Start, Crash, Receive, Idnt, SaveSec, Regs,
                SaveSig, Fail, Goto, vars
  <2> QED
    BY <1>2, <2>1, <2>2, <2>3, <2>4, <2>5, TableSteps DEF TableStep
<1>3. IInv /\ [Next]_vars => [Promise!Next]_<<Signed, handed, Exposed>>
  BY <1>2
<1> QED
  BY <1>1, <1>3, Invariance, PTL
     DEF Spec, CredentialSpec, Promise!Spec, Signed, Exposed
=============================================================================
