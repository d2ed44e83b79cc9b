------------------------------ MODULE Registrar ------------------------------
(***************************************************************************)
(* The Registrar of the voting server: the handlers of IDNT and REGS       *)
(* packets (srv_idnt.c, srv_regs.c) and the table Persons.  A voter first  *)
(* agrees a secret with the server (SPEKE: both sides get the same secret  *)
(* when the client knows the password of the invitation), then sends a     *)
(* blinded point authenticated with that secret and receives the blind     *)
(* signature that buys one anonymous ballot.  Anybody may send an IDNT for *)
(* anybody: the secret is stored before the client has shown that it knows *)
(* the password, and any 32 bytes are taken for the client's key, since    *)
(* the check of the point is commented out (srv_idnt.c:116-124).           *)
(*                                                                         *)
(* Data.  A secret is a name.  The deterministic signature of a blinded    *)
(* point is named by the point.  The MAC of a packet is named by the       *)
(* secret it was made with, or Null when it was made with none that the    *)
(* server ever stored.  A client's SPEKE key is named by what its sender   *)
(* knows of the secret that comes of it.                                   *)
(***************************************************************************)
EXTENDS Integers, FiniteSets

CONSTANTS
  Ids,      \* the Idn that clients put in their packets
  Listed,   \* the rows of Persons, entered before the election
  Invited,  \* the rows with a password
  Owners,   \* whoever blinds points: the invited voters, and strangers
  Blinds,   \* the blinding factors they may choose
  BadPoint, \* 32 bytes that are no compressed point
  Secrets,  \* names for shared secrets
  Common,   \* the secret that every degenerate key gives
  Null,     \* an empty Sec or Sig field
  Modes,    \* sets of flags the server may be started with
  Faults    \* the faults of a run: a subset of {"sql", "crash", "lost"}

Points == [owner : Owners, blind : Blinds]

ASSUME RowsAssumption ==
  Invited \subseteq Listed /\ Listed \subseteq Ids /\ Invited \subseteq Owners
ASSUME NullAssumption ==
  /\ Common \notin Secrets
  /\ Null \notin Secrets \cup {Common} \cup Points
  /\ BadPoint \notin Points \cup {Null}
ASSUME FaultAssumption ==
  /\ Modes \subseteq SUBSET {"REGS"}
  /\ Faults \subseteq {"sql", "crash", "lost"}

VARIABLES
  db,     \* table Persons: the columns Sec and Sig of every row
  mode,   \* the SRV_ALLOW_* flags of this execution of the server
  pc,     \* where the single thread is: idle, inside a handler, or down
  req,    \* the packet being processed (srv_pkt)
  res,    \* the handler's local result: the new secret, or the signature
  e,      \* the handler's error code
  r,      \* the handler's note
  knows,  \* the secret of the voter's latest session, on the voter's device
  handed  \* the answers to REGS that arrived: for whom, and the signature

vars == <<db, mode, pc, req, res, e, r, knows, handed>>

-----------------------------------------------------------------------------
Shared == Secrets \cup {Common}
Rows == [sec : Shared \cup {Null}, sig : Points \cup {Null}]

(* The client's SPEKE key was made with the password of the invitation; or *)
(* it is degenerate, zero or a point of small order, and every multiple of *)
(* 8 of it is zero, the factor to which scalarmult rounds the server's     *)
(* random number; or it is anything else.                                  *)
SpekeKeys == {"password", "degenerate", "other"}

IdntRequests ==
  [type : {"IDNT"}, good : BOOLEAN, id : Ids, key : SpekeKeys]
RegsRequests ==
  [type : {"REGS"}, good : BOOLEAN, id : Ids,
   point : Points \cup {BadPoint}, mac : Shared \cup {Null}]
Requests == IdntRequests \cup RegsRequests
NoRequest == [type |-> "NONE"]
Denied == [type |-> "DENY"]

(* Only the voter's device makes a MAC with the secret of the voter's      *)
(* session, and it never sends a point that another voter blinded.  The    *)
(* common secret is the hash of a constant: anybody makes a MAC with it,   *)
(* for anybody and on any point.                                           *)
Sendable(q) ==
  q.type = "REGS" /\ q.mac \in Secrets =>
    /\ q.mac = knows[q.id]
    /\ q.point \in Points => q.point.owner = q.id

IdntErrors == {"ERR_IDNT_TYPE", "ERR_IDNT_CRC", "ERR_IDNT_DBREAD",
  "ERR_IDNT_DBFIND", "ERR_IDNT_NOPASS", "ERR_IDNT_DBSAVESS"}
RegsErrors == {"ERR_REGS_TYPE", "ERR_REGS_CRC", "ERR_REGS_DBREAD",
  "ERR_REGS_DBFIND", "ERR_REGS_NOPASS", "ERR_REGS_NOSSEC", "ERR_REGS_MAC",
  "ERR_REGS_POINT", "ERR_REGS_DBSAVESIG"}
Steps == {"IDNT", "SAVE_SEC", "REGS", "SAVE_SIG", "ANSWER", "idle", "down"}

-----------------------------------------------------------------------------
(* The process *)

Init ==
  /\ db = [p \in Listed |-> [sec |-> Null, sig |-> Null]]
  /\ mode = {} /\ pc = "down"
  /\ req = NoRequest /\ res = Null /\ e = "NONE" /\ r = "NEW"
  /\ knows = [p \in Ids |-> Null] /\ handed = {}

Start ==
  /\ pc = "down"
  /\ mode' \in Modes
  /\ pc' = "idle"
  /\ UNCHANGED <<db, req, res, e, r, knows, handed>>

Forget == req' = NoRequest /\ res' = Null /\ e' = "NONE" /\ r' = "NEW"

Crash ==
  /\ "crash" \in Faults
  /\ pc # "down"
  /\ pc' = "down" /\ mode' = {}
  /\ Forget
  /\ UNCHANGED <<db, knows, handed>>

(* srv_process: a packet of a disabled mode is renamed to DENY and still   *)
(* given to its handler, which looks at the type first.                    *)
Receive(q) ==
  /\ pc = "idle"
  /\ Sendable(q)
  /\ req' = IF "REGS" \in mode THEN q ELSE Denied
  /\ pc' = q.type
  /\ UNCHANGED <<db, mode, res, e, r, knows, handed>>

Goto(step) == pc' = step /\ UNCHANGED <<mode, req, knows, handed>>
Fail(code) == e' = code /\ Goto("ANSWER") /\ UNCHANGED <<db, res, r>>

SqlFails == "sql" \in Faults

-----------------------------------------------------------------------------
(* IDNT: agree a secret *)

(* A random multiple of a client's key of large order: the secret differs  *)
(* from all those still in use.                                            *)
FreshSecrets ==
  Secrets \ ({db[p].sec : p \in Listed} \cup {knows[p] : p \in Ids})

(* scalarmult refuses no key; the secret is the hash of what it returns.   *)
SharedSecrets(key) == IF key = "degenerate" THEN {Common} ELSE FreshSecrets

Idnt ==
  /\ pc = "IDNT"
  /\ IF req.type # "IDNT" THEN Fail("ERR_IDNT_TYPE")
     ELSE IF ~req.good THEN Fail("ERR_IDNT_CRC")
     ELSE \/ SqlFails /\ Fail("ERR_IDNT_DBREAD")
          \/ req.id \notin Listed /\ Fail("ERR_IDNT_DBFIND")
          \/ req.id \in Listed \ Invited /\ Fail("ERR_IDNT_NOPASS")
          \/ /\ req.id \in Invited
             /\ r' = IF db[req.id].sig # Null THEN "SRV_IDNT_ISREGS" ELSE r
             /\ res' \in SharedSecrets(req.key)
             /\ Goto("SAVE_SEC")
             /\ UNCHANGED <<db, e>>

(* Deviation: a secret agreed before is kept.                              *)
SaveSecOnce ==
  /\ pc = "SAVE_SEC"
  /\ db' = IF db[req.id].sec = Null THEN [db EXCEPT ![req.id].sec = res] ELSE db
  /\ Goto("ANSWER")
  /\ UNCHANGED <<res, e, r>>

(* Deviation: a new session clears what the earlier one obtained.          *)
SaveSecAnew ==
  /\ pc = "SAVE_SEC"
  /\ db' = [db EXCEPT ![req.id] = [sec |-> res, sig |-> Null]]
  /\ Goto("ANSWER")
  /\ UNCHANGED <<res, e, r>>

SaveSec ==
  /\ pc = "SAVE_SEC"
  /\ \/ /\ db' = [db EXCEPT ![req.id].sec = res]
        /\ Goto("ANSWER")
        /\ UNCHANGED <<res, e, r>>
     \/ SqlFails /\ Fail("ERR_IDNT_DBSAVESS")

-----------------------------------------------------------------------------
(* REGS: sign the blinded point *)

(* Deviation: the MAC is not compared.                                     *)
AnyMac(row) == TRUE

MacVerifies(row) == req.mac = row.sec

(* Deviation: a person who is registered already is signed for again.      *)
NeverSigned(row) == FALSE

IsSigned(row) == row.sig # Null

(* Deviation: bls_uncompress is trusted.                                   *)
AnyPoint(point) == TRUE

Uncompresses(point) == point # BadPoint

(* The checks between the SELECT and the signature, in the order of the    *)
(* code.                                                                   *)
RegsCheck ==
  IF req.id \notin Listed THEN "ERR_REGS_DBFIND"
  ELSE IF req.id \notin Invited THEN "ERR_REGS_NOPASS"
  ELSE IF db[req.id].sec = Null THEN "ERR_REGS_NOSSEC"
  ELSE IF ~MacVerifies(db[req.id]) THEN "ERR_REGS_MAC"
  ELSE IF IsSigned(db[req.id]) THEN "NONE"
  ELSE IF ~Uncompresses(req.point) THEN "ERR_REGS_POINT"
  ELSE "NONE"

Regs ==
  /\ pc = "REGS"
  /\ IF req.type # "REGS" THEN Fail("ERR_REGS_TYPE")
     ELSE IF ~req.good THEN Fail("ERR_REGS_CRC")
     ELSE \/ SqlFails /\ Fail("ERR_REGS_DBREAD")
          \/ RegsCheck # "NONE" /\ Fail(RegsCheck)
          \/ /\ RegsCheck = "NONE"
             /\ IF IsSigned(db[req.id])
                  THEN /\ r' = "SRV_REGS_ISREGS"
                       /\ res' = db[req.id].sig
                       /\ Goto("ANSWER")
                  ELSE /\ r' = r
                       /\ res' = req.point
                       /\ Goto("SAVE_SIG")
             /\ UNCHANGED <<db, e>>

(* Deviation: a failing UPDATE of Sig is printed and ignored.              *)
SaveSigUnchecked ==
  /\ pc = "SAVE_SIG"
  /\ \/ db' = [db EXCEPT ![req.id].sig = res]
     \/ SqlFails /\ UNCHANGED db
  /\ Goto("ANSWER")
  /\ UNCHANGED <<res, e, r>>

SaveSig ==
  /\ pc = "SAVE_SIG"
  /\ \/ /\ db' = [db EXCEPT ![req.id].sig = res]
        /\ Goto("ANSWER")
        /\ UNCHANGED <<res, e, r>>
     \/ SqlFails /\ Fail("ERR_REGS_DBSAVESIG")

-----------------------------------------------------------------------------
(* The answer, which the client receives unless the connection breaks.     *)
(* The secret of an IDNT becomes known to a client that made its key with  *)
(* the password; the common secret was known before.                       *)
Answer ==
  /\ pc = "ANSWER"
  /\ \/ /\ knows' = IF e = "NONE" /\ req.type = "IDNT" /\ req.key = "password"
                      THEN [knows EXCEPT ![req.id] = res] ELSE knows
        /\ handed' = IF e = "NONE" /\ req.type = "REGS"
                       THEN handed \cup {[id |-> req.id, sig |-> res]}
                       ELSE handed
     \/ "lost" \in Faults /\ UNCHANGED <<knows, handed>>
  /\ pc' = "idle"
  /\ Forget
  /\ UNCHANGED <<db, mode>>

-----------------------------------------------------------------------------
(* The flag the web page shows for a person (srv_webr_cb).  The legend of  *)
(* the page names it Q, not P (websrv.c:357, "Q - invited").               *)
WebFlag(p) ==
  IF db[p].sig # Null THEN "R"
  ELSE IF db[p].sec # Null THEN "I"
  ELSE IF p \in Invited THEN "P"
  ELSE "X"

Rank == [X |-> 0, P |-> 1, I |-> 2, R |-> 3]

-----------------------------------------------------------------------------
Handle == Idnt \/ SaveSec \/ Regs \/ SaveSig \/ Answer

Next == \/ Start \/ Crash
        \/ \E q \in Requests : Receive(q)
        \/ Handle

Spec == Init /\ [][Next]_vars

(* A voter who identifies, and one who registers with the secret of the    *)
(* latest session.                                                         *)
Identify(p) ==
  Receive([type |-> "IDNT", good |-> TRUE, id |-> p, key |-> "password"])
Register(p) ==
  /\ knows[p] # Null
  /\ \E blind \in Blinds :
       Receive([type |-> "REGS", good |-> TRUE, id |-> p,
                point |-> [owner |-> p, blind |-> blind], mac |-> knows[p]])

(* The main loop goes on by itself; voters repeat both packets until they  *)
(* have the signature.                                                     *)
FairSpec ==
  /\ Spec
  /\ WF_vars(Handle) /\ WF_vars(Start)
  /\ \A p \in Invited : SF_vars(Identify(p)) /\ SF_vars(Register(p))

-----------------------------------------------------------------------------
(* Properties *)

(* The types of all variables.                                             *)
TypeOK ==
  /\ db \in [Listed -> Rows]
  /\ mode \in SUBSET {"REGS"}
  /\ pc \in Steps
  /\ req \in Requests \cup {NoRequest, Denied}
  /\ res \in Shared \cup Points \cup {Null}
  /\ e \in IdntErrors \cup RegsErrors \cup {"NONE"}
  /\ r \in {"NEW", "SRV_IDNT_ISREGS", "SRV_REGS_ISREGS"}
  /\ knows \in [Ids -> Secrets \cup {Null}]
  /\ handed \subseteq [id : Listed, sig : Points]

(* A person obtains at most one blind signature, however often the answer  *)
(* is lost, the server dies or an UPDATE fails in between: two would buy   *)
(* two ballots.                                                            *)
OneCredential ==
  \A h, g \in handed : h.id = g.id => h.sig = g.sig

(* What is signed for a person was blinded by that person, whoever else    *)
(* started sessions in that person's name before or after, unless the      *)
(* session that the server holds at that moment came of a degenerate key:  *)
(* then the point is anybody's.  An earlier session of that kind does no   *)
(* harm.                                                                   *)
OwnPoint ==
  [][\A p \in Listed :
       db[p].sig' # db[p].sig =>
         db[p].sig'.owner = p \/ db[p].sec = Common]_vars

(* README: the registrar publishes "the fact of their registration": a     *)
(* person for whom a signature was handed out is shown as registered.      *)
HolderIsShown ==
  \A h \in handed : WebFlag(h.id) = "R" /\ db[h.id].sig = h.sig

(* The published flag only advances: X or P, then I, then R.               *)
FlagOneWay ==
  [][\A p \in Listed : Rank[WebFlag(p)'] >= Rank[WebFlag(p)]]_vars

(* Once strangers stop opening sessions in the names of others, every      *)
(* invited voter who keeps trying is handed the signature of the table: on *)
(* a point of the voter, but for the exception of OwnPoint.                *)
RegistrationCompletes ==
  (<>[](~(req.type = "IDNT" /\ req.key # "password")))
    => \A p \in Invited : <>(\E h \in handed : h.id = p)

(* The promise the Registrar implements.                                   *)
Promise == INSTANCE Credentials
  WITH signed <- [p \in Listed |-> db[p].sig],
       exposed <- {p \in Listed : db[p].sec = Common}
CredentialSpec == Promise!Spec
=============================================================================
