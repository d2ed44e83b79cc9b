----------------------------- MODULE Accountant -----------------------------
(***************************************************************************)
(* The Accountant ("Scorer") of the voting server: the handlers of JOIN,   *)
(* VOTE and OPEN packets (srv_join.c, srv_vote.c, srv_open.c), the table   *)
(* Voters they read and update, the start of the process and its sudden    *)
(* end.  The server is one thread that finishes a packet before it reads   *)
(* the next, so two handlers never interleave; what does interleave is a   *)
(* crash (or a failing SQL statement) with the several UPDATEs of one      *)
(* handler.  Each SQL statement is therefore a step of its own.            *)
(*                                                                         *)
(* Data.  A ciphertext is the triple it was made of: the candidate, the    *)
(* voter's symmetric key and the counter used as IV.  A MAC is named by    *)
(* the ciphertext it authenticates.  A public key and its 16-byte stamp    *)
(* are one value of Keys.                                                  *)
(***************************************************************************)
EXTENDS Integers, Sequences

CONSTANTS
  Keys,         \* stamps of the voters' public keys
  NoKey,        \* the Key field of the cleared scratch record
  Honest,       \* the keys whose devices make MACs and IVs as they should
  Candidates,   \* texts a ballot may hold once it is decrypted
  OpenKeys,     \* symmetric keys the ballots are encrypted with
  Counters,     \* every value of Tmr: the clients' counters, 0, 1 and Opened
  SentCounters, \* the counters that clients put in their VOTE packets
  Opened,       \* 0x7FFFFFFF, the Tmr of an opened ballot
  Ids,          \* ballot numbers that clients put in their packets
  Null,         \* an empty Vot or Mac field
  Modes,        \* sets of flags the server may be started with
  Faults        \* the faults of a run: a subset of {"sql", "crash"}

Ciphers == [cand : Candidates, key : OpenKeys, iv : SentCounters]

ASSUME CounterAssumption ==
  /\ Counters \subseteq Int
  /\ {0, 1, Opened} \subseteq Counters
  /\ \A c \in Counters : c <= Opened
  /\ SentCounters \subseteq Counters
  /\ Opened > 1
ASSUME IdAssumption == Ids \subseteq Nat \ {0}
ASSUME VoteTextAssumption ==
  /\ Null \notin Ciphers \cup Candidates
  /\ Ciphers \cap Candidates = {}
ASSUME KeyAssumption == NoKey \notin Keys /\ Honest \subseteq Keys
ASSUME ModeAssumption ==
  /\ Modes \subseteq SUBSET {"JOIN", "VOTE", "OPEN"}
  /\ Faults \subseteq {"sql", "crash"}

VARIABLES
  db,      \* table Voters: row i has Idn = i (rows are never deleted)
  mode,    \* the SRV_ALLOW_* flags of this execution of the server
  pc,      \* where the single thread is: idle, inside a handler, or down
  req,     \* the packet being processed (srv_pkt)
  id,      \* the handler's local id
  vdata,   \* the global scratch record the SELECT fills
  e,       \* the handler's error code
  r,       \* the handler's note
  tickets  \* every signed ticket sent so far (the clients keep them)

vars == <<db, mode, pc, req, id, vdata, e, r, tickets>>

-----------------------------------------------------------------------------
(* Values *)

Votes == Ciphers \cup Candidates \cup {Null}
Macs  == Ciphers \cup {Null}
Rows  == [key : Keys, vot : Votes, mac : Macs, tmr : Counters]
Blank == [key |-> NoKey, vot |-> Null, mac |-> Null, tmr |-> 0]

(* good: length and CRC are right; sig: the signature verifies.            *)
JoinRequests == [type : {"JOIN"}, good : BOOLEAN, key : Keys, sig : BOOLEAN]

(* The counter is the IV of the ciphertext, and the MAC is of both.        *)
Sealed(q) == q.vot.iv = q.tt /\ q.mac = q.vot

(* Nothing of this is looked at before OPEN: the owner of a key may sign   *)
(* any counter, ciphertext and MAC.  The contents of a packet that does    *)
(* not verify are never used, so one kind of them is enough.               *)
VoteRequests ==
  {q \in [type : {"VOTE"}, good : BOOLEAN, id : Ids, tt : SentCounters,
          vot : Ciphers, mac : Ciphers, key : Keys, sig : BOOLEAN] :
     Sealed(q) \/ (q.good /\ q.sig /\ q.key \notin Honest)}
OpenRequests ==
  [type : {"OPEN"}, good : BOOLEAN, id : Ids, key : OpenKeys]
Requests == JoinRequests \cup VoteRequests \cup OpenRequests

NoRequest == [type |-> "NONE"]
Denied    == [type |-> "DENY"]

Handlers == {"JOIN", "VOTE", "OPEN"}
Steps == Handlers \cup {"INSERT", "SAVE_T", "SAVE_M", "SAVE_V", "ECHO",
                        "OPEN_V", "OPEN_T", "ANSWER", "idle", "down"}

VoteErrors == {"ERR_VOTE_TYPE", "ERR_VOTE_CRC", "ERR_VOTE_DBREAD",
  "ERR_VOTE_DBFIND", "ERR_VOTE_TMRF", "ERR_VOTE_TMRL", "ERR_VOTE_PUB",
  "ERR_VOTE_VERIFY", "ERR_VOTE_DBSAVET", "ERR_VOTE_DBSAVEM",
  "ERR_VOTE_DBSAVEV"}
JoinErrors == {"ERR_JOIN_TYPE", "ERR_JOIN_CRC", "ERR_JOIN_DBREAD",
  "ERR_JOIN_DBFIND", "ERR_JOIN_VERIFY", "ERR_JOIN_DBSAVEK"}
OpenErrors == {"ERR_OPEN_TYPE", "ERR_OPEN_CRC", "ERR_OPEN_DBREAD",
  "ERR_OPEN_DBFIND", "ERR_OPEN_VLEN", "ERR_OPEN_MLEN", "ERR_OPEN_MAC",
  "ERR_OPEN_DBSAVEV", "ERR_OPEN_DBSAVET"}
Errors == VoteErrors \cup JoinErrors \cup OpenErrors
Notes  == {"NEW", "SRV_JOIN_ISJOIN", "SRV_VOTE_REPLAY", "SRV_OPEN_ISOPEN"}

(* str2bin(field, res, 16) = 16: only a ciphertext or a MAC is 32 hex      *)
(* digits; an opened vote is cut to 15 characters and "" has none.         *)
IsHex16(field) == field \in Ciphers

(* The sponge, keyed with the stored counter and the key of the OPEN       *)
(* packet, reproduces the stored MAC.                                      *)
MacVerifies(row, key) ==
  /\ row.mac = row.vot
  /\ row.vot.iv = row.tmr
  /\ row.vot.key = key

-----------------------------------------------------------------------------
(* The process *)

Init ==
  /\ db = <<>> /\ mode = {} /\ pc = "down"
  /\ req = NoRequest /\ id = 0 /\ vdata = Blank /\ e = "NONE" /\ r = "NEW"
  /\ tickets = {}

(* srv_init: the flags come from the command line.                         *)
Start ==
  /\ pc = "down"
  /\ mode' \in Modes
  /\ pc' = "idle"
  /\ UNCHANGED <<db, req, id, vdata, e, r, tickets>>

(* What a handler forgets when it returns, or the process when it dies.    *)
Forget ==
  /\ req' = NoRequest /\ id' = 0 /\ vdata' = Blank
  /\ e' = "NONE" /\ r' = "NEW"

(* The process is killed, or the machine fails, between two statements.    *)
Crash ==
  /\ "crash" \in Faults
  /\ pc # "down"
  /\ pc' = "down" /\ mode' = {}
  /\ Forget
  /\ UNCHANGED <<db, tickets>>

(* Deviation: the mode flags are only printed, never asked.                *)
ReceiveAnyMode(q) ==
  /\ pc = "idle"
  /\ req' = q
  /\ pc' = q.type
  /\ id' = IF q.type = "JOIN" THEN 0 ELSE q.id
  /\ UNCHANGED <<db, mode, vdata, e, r, tickets>>

(* srv_process: a packet of a disabled mode is renamed to DENY and still   *)
(* given to its handler, which looks at the type first.                    *)
Receive(q) ==
  /\ pc = "idle"
  /\ req' = IF q.type \in mode THEN q ELSE Denied
  /\ pc' = q.type
  /\ id' = IF q.type = "JOIN" THEN 0 ELSE q.id
  /\ UNCHANGED <<db, mode, vdata, e, r, tickets>>

Goto(step) == pc' = step /\ UNCHANGED <<mode, req, tickets>>

(* break out of the handler's loop with an error code                      *)
Break(code, next) == e' = code /\ Goto(next) /\ UNCHANGED <<id, r>>
Fail(code, next)  == Break(code, next) /\ UNCHANGED <<db, vdata>>

SqlFails == "sql" \in Faults

-----------------------------------------------------------------------------
(* JOIN: give a ballot number to a key the Registrar signed *)

(* Deviation: the SELECT finds only ballots that hold a vote.              *)
KnownVoter(key) == {i \in DOMAIN db : db[i].key = key /\ db[i].vot # Null}

KnownAs(key) == {i \in DOMAIN db : db[i].key = key}

Join ==
  /\ pc = "JOIN"
  /\ IF req.type # "JOIN" THEN Fail("ERR_JOIN_TYPE", "ANSWER")
     ELSE IF ~req.good THEN Fail("ERR_JOIN_CRC", "ANSWER")
     ELSE \/ SqlFails /\ Fail("ERR_JOIN_DBREAD", "ANSWER")
          \/ IF KnownAs(req.key) = {}
               THEN IF req.sig
                      THEN Goto("INSERT") /\ UNCHANGED <<db, id, vdata, e, r>>
                      ELSE Fail("ERR_JOIN_VERIFY", "ANSWER")
               ELSE \E i \in KnownAs(req.key) :
                      IF KnownAs(req.key) = {i}
                        THEN /\ id' = i /\ vdata' = db[i]
                             /\ r' = "SRV_JOIN_ISJOIN"
                             /\ Goto("ANSWER")
                             /\ UNCHANGED <<db, e>>
                        ELSE Fail("ERR_JOIN_DBFIND", "ANSWER")

(* INSERT INTO Voters (Key, Tmr): the column Key is UNIQUE.                *)
Insert ==
  /\ pc = "INSERT"
  /\ \/ /\ KnownAs(req.key) = {}
        /\ db' = Append(db, [key |-> req.key, vot |-> Null, mac |-> Null,
                             tmr |-> 1])
        /\ id' = Len(db) + 1
        /\ Goto("ANSWER")
        /\ UNCHANGED <<vdata, e, r>>
     \/ /\ SqlFails \/ KnownAs(req.key) # {}
        /\ Fail("ERR_JOIN_DBSAVEK", "ANSWER")

-----------------------------------------------------------------------------
(* VOTE: store the encrypted ballot *)

(* Deviation: a second vote replaces the first.                            *)
VoteAgain == FALSE

VoteOnce == TRUE

(* Deviation: the stored counter is not compared with the packet's.        *)
VoteCheckNoCounter(row) ==
  IF row.tmr = Opened THEN "ERR_VOTE_TMRF"
  ELSE IF row.key # req.key THEN "ERR_VOTE_PUB"
  ELSE IF ~req.sig THEN "ERR_VOTE_VERIFY"
  ELSE "NONE"

(* The checks after the SELECT, in the order of the code.                  *)
VoteCheck(row) ==
  IF row.tmr = Opened THEN "ERR_VOTE_TMRF"
  ELSE IF row.tmr > req.tt \/ row.tmr = 0 THEN "ERR_VOTE_TMRL"
  ELSE IF row.key # req.key THEN "ERR_VOTE_PUB"
  ELSE IF ~req.sig THEN "ERR_VOTE_VERIFY"
  ELSE "NONE"

Vote ==
  /\ pc = "VOTE"
  /\ IF req.type # "VOTE" THEN Fail("ERR_VOTE_TYPE", "ECHO")
     ELSE IF ~req.good THEN Fail("ERR_VOTE_CRC", "ECHO")
     ELSE \/ SqlFails /\ Fail("ERR_VOTE_DBREAD", "ECHO")
          \/ id \notin DOMAIN db /\ Fail("ERR_VOTE_DBFIND", "ECHO")
          \/ /\ id \in DOMAIN db
             /\ vdata' = db[id]
             /\ e' = VoteCheck(db[id])
             /\ IF e' = "NONE" /\ db[id].vot # Null
                  THEN /\ r' = "SRV_VOTE_REPLAY"
                       /\ Goto(IF VoteOnce THEN "ECHO" ELSE "SAVE_T")
                  ELSE /\ r' = r
                       /\ Goto(IF e' = "NONE" THEN "SAVE_T" ELSE "ECHO")
             /\ UNCHANGED <<db, id>>

(* The three UPDATEs.  The scratch copy of Mac and Vot is set before the   *)
(* statement runs, hence also when it fails.                               *)
(* Deviation: the counter of the ballot is not brought up to date.         *)
SaveTKeepsCounter ==
  /\ pc = "SAVE_T"
  /\ Goto("SAVE_M")
  /\ UNCHANGED <<db, id, vdata, e, r>>

SaveT ==
  /\ pc = "SAVE_T"
  /\ \/ /\ db' = [db EXCEPT ![id].tmr = req.tt]
        /\ Goto("SAVE_M")
        /\ UNCHANGED <<id, vdata, e, r>>
     \/ SqlFails /\ Fail("ERR_VOTE_DBSAVET", "ECHO")

(* Deviation: a failing UPDATE of Mac is printed and ignored.              *)
SaveMUnchecked ==
  /\ pc = "SAVE_M"
  /\ vdata' = [vdata EXCEPT !.mac = req.mac]
  /\ Goto("SAVE_V")
  /\ \/ db' = [db EXCEPT ![id].mac = req.mac]
     \/ SqlFails /\ UNCHANGED db
  /\ UNCHANGED <<id, e, r>>

SaveM ==
  /\ pc = "SAVE_M"
  /\ vdata' = [vdata EXCEPT !.mac = req.mac]
  /\ \/ /\ db' = [db EXCEPT ![id].mac = req.mac]
        /\ Goto("SAVE_V")
        /\ UNCHANGED <<id, e, r>>
     \/ SqlFails /\ Break("ERR_VOTE_DBSAVEM", "ECHO") /\ UNCHANGED db

SaveV ==
  /\ pc = "SAVE_V"
  /\ vdata' = [vdata EXCEPT !.vot = req.vot]
  /\ \/ /\ db' = [db EXCEPT ![id].vot = req.vot]
        /\ Goto("ECHO")
        /\ UNCHANGED <<id, e, r>>
     \/ SqlFails /\ Break("ERR_VOTE_DBSAVEV", "ECHO") /\ UNCHANGED db

(* Deviation: the scratch fields are used without a look at their length.  *)
EchoUnchecked ==
  /\ pc = "ECHO"
  /\ Goto("ANSWER")
  /\ UNCHANGED <<db, id, vdata, e, r>>

(* The second loop of srv_vote decodes the scratch Vot and Mac for the     *)
(* ticket, and overwrites e when one of them is not 16 bytes of hex.       *)
Echo ==
  /\ pc = "ECHO"
  /\ e' = IF ~IsHex16(vdata.vot) THEN "ERR_OPEN_VLEN"
          ELSE IF ~IsHex16(vdata.mac) THEN "ERR_OPEN_MLEN"
          ELSE e
  /\ Goto("ANSWER")
  /\ UNCHANGED <<db, id, vdata, r>>

-----------------------------------------------------------------------------
(* OPEN: decrypt the stored ballot with the voter's key *)

OpenCheck(row, key) ==
  IF ~IsHex16(row.vot) THEN "ERR_OPEN_VLEN"
  ELSE IF ~IsHex16(row.mac) THEN "ERR_OPEN_MLEN"
  ELSE IF ~MacVerifies(row, key) THEN "ERR_OPEN_MAC"
  ELSE "NONE"

Open ==
  /\ pc = "OPEN"
  /\ IF req.type # "OPEN" THEN Fail("ERR_OPEN_TYPE", "ANSWER")
     ELSE IF ~req.good THEN Fail("ERR_OPEN_CRC", "ANSWER")
     ELSE \/ SqlFails /\ Fail("ERR_OPEN_DBREAD", "ANSWER")
          \/ id \notin DOMAIN db /\ Fail("ERR_OPEN_DBFIND", "ANSWER")
          \/ /\ id \in DOMAIN db
             /\ vdata' = db[id]
             /\ IF db[id].tmr = Opened
                  THEN /\ r' = "SRV_OPEN_ISOPEN" /\ e' = e
                       /\ Goto("ANSWER")
                  ELSE /\ e' = OpenCheck(db[id], req.key) /\ r' = r
                       /\ Goto(IF e' = "NONE" THEN "OPEN_V" ELSE "ANSWER")
             /\ UNCHANGED <<db, id>>

(* The local vd: the stored text of an opened ballot, else the decryption. *)
OpenedVote == IF r = "SRV_OPEN_ISOPEN" THEN vdata.vot ELSE vdata.vot.cand

(* Deviation: a failing UPDATE of Vot is printed and ignored.              *)
OpenVUnchecked ==
  /\ pc = "OPEN_V"
  /\ \/ db' = [db EXCEPT ![id].vot = OpenedVote]
     \/ SqlFails /\ UNCHANGED db
  /\ Goto("OPEN_T")
  /\ UNCHANGED <<id, vdata, e, r>>

(* Deviation: the ticket is sent without the ballot being marked opened.   *)
OpenVUnmarked ==
  /\ pc = "OPEN_V"
  /\ db' = [db EXCEPT ![id].vot = OpenedVote]
  /\ Goto("ANSWER")
  /\ UNCHANGED <<id, vdata, e, r>>

(* The plaintext replaces the ciphertext first, the mark comes second.     *)
OpenV ==
  /\ pc = "OPEN_V"
  /\ \/ /\ db' = [db EXCEPT ![id].vot = OpenedVote]
        /\ Goto("OPEN_T")
        /\ UNCHANGED <<id, vdata, e, r>>
     \/ SqlFails /\ Fail("ERR_OPEN_DBSAVEV", "ANSWER")

OpenT ==
  /\ pc = "OPEN_T"
  /\ \/ /\ db' = [db EXCEPT ![id].tmr = Opened]
        /\ Goto("ANSWER")
        /\ UNCHANGED <<id, vdata, e, r>>
     \/ SqlFails /\ Fail("ERR_OPEN_DBSAVET", "ANSWER")

-----------------------------------------------------------------------------
(* The answer: an error packet, or a ticket signed with the server's key *)

JoinTickets == [type : {"JOIN"}, id : Nat \ {0}, key : Keys]
VoteTickets == [type : {"VOTE"}, id : Ids, tt : SentCounters,
                vot : Ciphers, mac : Ciphers]
OpenTickets == [type : {"OPEN"}, id : Ids, vot : Votes]

Ticket ==
  CASE req.type = "JOIN" -> [type |-> "JOIN", id |-> id, key |-> req.key]
    [] req.type = "VOTE" -> [type |-> "VOTE", id |-> id, tt |-> req.tt,
                             vot |-> vdata.vot, mac |-> vdata.mac]
    [] req.type = "OPEN" -> [type |-> "OPEN", id |-> id, vot |-> OpenedVote]

Answer ==
  /\ pc = "ANSWER"
  /\ tickets' = IF e = "NONE" THEN tickets \cup {Ticket} ELSE tickets
  /\ pc' = "idle"
  /\ Forget
  /\ UNCHANGED <<db, mode>>

-----------------------------------------------------------------------------
(* The published record: the flag shown for a ballot (srv_webv_cb) and the *)
(* ballots counted for a candidate (srv_statv_get)                         *)

WebFlag(row) ==
  IF row.tmr = Opened THEN "O"
  ELSE IF row.vot # Null THEN "V"
  ELSE "B"

TallyOf(cand) == {i \in DOMAIN db : db[i].vot = cand}

-----------------------------------------------------------------------------
Handle == \/ Join \/ Insert
          \/ Vote \/ SaveT \/ SaveM \/ SaveV \/ Echo
          \/ Open \/ OpenV \/ OpenT
          \/ Answer

Next == \/ Start \/ Crash
        \/ \E q \in Requests : Receive(q)
        \/ Handle

Spec == Init /\ [][Next]_vars

(* The main loop goes on by itself; a voter who wants the ballot opened    *)
(* repeats the OPEN packet, and the listening socket serves it again and   *)
(* again.                                                                  *)
FairSpec ==
  /\ Spec
  /\ WF_vars(Handle) /\ WF_vars(Start)
  /\ \A i \in Ids, k \in OpenKeys :
       SF_vars(Receive([type |-> "OPEN", good |-> TRUE, id |-> i, key |-> k]))
-----------------------------------------------------------------------------
(* Properties *)

(* The types of all variables.                                             *)
TypeOK ==
  /\ db \in Seq(Rows)
  /\ mode \in SUBSET Handlers
  /\ pc \in Steps
  /\ req \in Requests \cup {NoRequest, Denied}
  /\ id \in Nat
  /\ vdata \in Rows \cup {Blank}
  /\ e \in Errors \cup {"NONE"}
  /\ r \in Notes
  /\ tickets \subseteq JoinTickets \cup VoteTickets \cup OpenTickets

(* A ciphertext in the table comes with the counter and the MAC of the     *)
(* same packet, whatever failed or crashed between the three UPDATEs of    *)
(* srv_vote, and whatever others sent: if its owner's device sealed it,    *)
(* the key it was encrypted with opens it.                                 *)
StoredBallotOpens ==
  \A i \in DOMAIN db :
    db[i].key \in Honest /\ db[i].vot \in Ciphers
      => MacVerifies(db[i], db[i].vot.key)

(* README: "All transactions with the server are confirmed by tickets".    *)
(* A ticket stays true: the ballot still belongs to the key, still holds   *)
(* the confirmed vote (encrypted or disclosed), still holds the disclosed  *)
(* text.                                                                   *)
TicketsStayTrue ==
  \A t \in tickets :
    /\ t.id \in DOMAIN db
    /\ CASE t.type = "JOIN" -> db[t.id].key = t.key
         [] t.type = "VOTE" -> db[t.id].vot \in {t.vot, t.vot.cand}
         [] t.type = "OPEN" -> db[t.id].vot = t.vot

(* A ballot leaves the encrypted form only as its own plaintext, and an    *)
(* opened ballot never changes: no packet, retry or restart replaces a     *)
(* vote (vote_once in srv_vote).                                           *)
VoteFinal ==
  [][\A i \in DOMAIN db :
       /\ db[i].vot \in Ciphers =>
            db'[i].vot \in {db[i].vot, db[i].vot.cand}
       /\ db[i].vot \in Candidates => db'[i].vot = db[i].vot]_vars

(* "one-way revoting counter" (packets.h): the counter of a ballot never   *)
(* goes back, even when an earlier VOTE was interrupted after its first    *)
(* UPDATE and an older packet arrives next.                                *)
CounterOneWay == [][\A i \in DOMAIN db : db'[i].tmr >= db[i].tmr]_vars

(* "allow only the specified modes" (README): the table gains ballots,     *)
(* votes and disclosed texts only while the running server allows JOIN,    *)
(* VOTE and OPEN.                                                          *)
ModesRespected ==
  [][/\ Len(db') > Len(db) => "JOIN" \in mode
     /\ \A i \in DOMAIN db : db'[i] # db[i] =>
          \/ "VOTE" \in mode /\ db[i].vot = Null
          \/ "OPEN" \in mode /\ db'[i].vot \in Candidates]_vars

(* The page of a ballot says "O - opened" only for a ballot that some      *)
(* candidate's tally counts.                                               *)
FlaggedIsCounted ==
  \A i \in DOMAIN db :
    WebFlag(db[i]) = "O" => \E c \in Candidates : i \in TallyOf(c)

(* The converse, whenever the pages can be read: a counted ballot is one   *)
(* the record shows as opened.                                             *)
CountedIsFlagged ==
  pc = "idle" =>
    \A c \in Candidates : \A i \in TallyOf(c) : WebFlag(db[i]) = "O"

(* Without faults, a stored ballot that its owner's device sealed, and for *)
(* which it keeps asking, is opened.                                       *)
VotesGetOpened ==
  \A i \in Ids :
    (i \in DOMAIN db /\ db[i].key \in Honest /\ db[i].vot \in Ciphers)
      ~> (i \in DOMAIN db /\ db[i].vot \in Candidates /\ db[i].tmr = Opened)

(* The promise the Accountant implements.                                  *)
Box == INSTANCE BallotBox WITH
  box <- [i \in DOMAIN db |-> [key |-> db[i].key, vot |-> db[i].vot]]
BoxSpec == Box!Spec
=============================================================================
