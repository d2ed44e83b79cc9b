-------------------------- MODULE AccountantProofs --------------------------
(***************************************************************************)
(* Proofs about the Accountant, for every set of keys, candidates,         *)
(* counters, ballot numbers and every choice of faults.                    *)
(*                                                                         *)
(* The invariants the runs check are not inductive: a state in the middle  *)
(* of a handler says nothing about the row it is about to update.  IInv    *)
(* adds, for each place the thread can be at, what the handler has already *)
(* established about the packet, the scratch record and the row.           *)
(***************************************************************************)
EXTENDS Accountant, TLAPS

(* The INSERT follows a SELECT that found nothing.                         *)
Inserting ==
  pc = "INSERT" => req \in JoinRequests /\ "JOIN" \in mode

(* Between the SELECT of srv_vote and its last UPDATE the row holds no     *)
(* vote, its counter is at most the packet's, the packet is of its owner,  *)
(* and nobody has a ticket that says the ballot is opened.                 *)
Saving ==
  pc \in {"SAVE_T", "SAVE_M", "SAVE_V"} =>
    /\ req \in VoteRequests /\ "VOTE" \in mode
    /\ id \in DOMAIN db /\ id \in Ids
    /\ req.key \in Honest => Sealed(req)
    /\ db[id].key = req.key /\ db[id].vot = Null /\ db[id].tmr <= req.tt
    /\ \A t \in tickets : t.type = "OPEN" => t.id # id
    /\ vdata \in Rows /\ vdata.vot = Null /\ e = "NONE"
    /\ pc # "SAVE_T" => db[id].tmr = req.tt
    /\ pc = "SAVE_V" => db[id].mac = req.mac /\ vdata.mac = req.mac

(* A handler of VOTE that found no error answers with what the row holds.  *)
Echoing ==
  pc = "ECHO" =>
    e # "NONE" \/ /\ req \in VoteRequests
                  /\ id \in DOMAIN db /\ id \in Ids
                  /\ vdata.vot = db[id].vot

Opening ==
  pc \in {"OPEN_V", "OPEN_T"} =>
    /\ req \in OpenRequests /\ "OPEN" \in mode
    /\ id \in DOMAIN db /\ id \in Ids
    /\ vdata \in Rows /\ vdata.vot \in Ciphers
    /\ e = "NONE" /\ r = "NEW" /\ db[id].tmr # Opened
    /\ db[id].vot = IF pc = "OPEN_V" THEN vdata.vot ELSE vdata.vot.cand

Answering ==
  pc = "ANSWER" /\ e = "NONE" =>
    /\ id \in DOMAIN db
    /\ \/ req \in JoinRequests /\ db[id].key = req.key
       \/ /\ req \in VoteRequests /\ id \in Ids
          /\ vdata.vot = db[id].vot
          /\ vdata.vot \in Ciphers /\ vdata.mac \in Ciphers
       \/ /\ req \in OpenRequests /\ id \in Ids
          /\ OpenedVote = db[id].vot /\ db[id].tmr = Opened

(* The note of an opened ballot is given by srv_open only.                 *)
Resting ==
  /\ pc \in {"idle", "down"} \cup Handlers => e = "NONE" /\ r = "NEW"
  /\ pc \in {"idle", "down"} => vdata = Blank /\ req = NoRequest
  /\ pc = "VOTE" => req.type \in {"VOTE", "DENY"}
  /\ pc = "OPEN" => req.type \in {"OPEN", "DENY"}
  /\ pc \in {"VOTE", "OPEN"} => id \in Ids
  /\ req.type \in Handlers => req.type \in mode

(* A ballot somebody has an opening ticket for is marked opened.           *)
OpenTicketsMarked ==
  \A t \in tickets :
    t.type = "OPEN" => t.id \in DOMAIN db /\ db[t.id].tmr = Opened

KeysDistinct ==
  \A i, j \in DOMAIN db : db[i].key = db[j].key => i = j

IInv ==
  /\ TypeOK
  /\ StoredBallotOpens /\ KeysDistinct
  /\ TicketsStayTrue /\ OpenTicketsMarked
  /\ Inserting /\ Saving /\ Echoing /\ Opening /\ Answering /\ Resting
-----------------------------------------------------------------------------
(* Facts about sequences of rows and about packets *)

(* A row of the table is a Row.                                            *)
LEMMA RowAt ==
  ASSUME NEW s \in Seq(Rows), NEW i \in DOMAIN s
  PROVE  s[i] \in Rows /\ i \in Nat \ {0} /\ i \in 1..Len(s)
OBVIOUS

(* What an UPDATE of one row leaves as it was.                             *)
LEMMA Updated ==
  ASSUME NEW s \in Seq(Rows), NEW i \in DOMAIN s, NEW row \in Rows
  PROVE  LET t == [s EXCEPT ![i] = row]
         IN  /\ t \in Seq(Rows) /\ DOMAIN t = DOMAIN s /\ Len(t) = Len(s)
             /\ t[i] = row
             /\ \A j \in DOMAIN s : j # i => t[j] = s[j]
OBVIOUS

(* An INSERT adds one row behind the others.                               *)
LEMMA Appended ==
  ASSUME NEW s \in Seq(Rows), NEW row \in Rows
  PROVE  LET t == Append(s, row)
         IN  /\ t \in Seq(Rows) /\ Len(t) = Len(s) + 1
             /\ DOMAIN t = DOMAIN s \cup {Len(s) + 1}
             /\ t[Len(s) + 1] = row
             /\ \A j \in DOMAIN s : j # Len(s) + 1 /\ t[j] = s[j]
OBVIOUS

(* A packet that was not denied is what its type says.                     *)
LEMMA PacketKinds ==
  ASSUME TypeOK
  PROVE  /\ req.type = "JOIN" => req \in JoinRequests
         /\ req.type = "VOTE" => req \in VoteRequests
         /\ req.type = "OPEN" => req \in OpenRequests
<1>1. req = Denied => req.type = "DENY"
  BY DEF Denied
<1>2. req = NoRequest => req.type = "NONE"
  BY DEF NoRequest
<1>3. req \in Requests \cup {NoRequest, Denied}
  BY DEF TypeOK
<1> QED
  BY <1>1, <1>2, <1>3
     DEF Requests, JoinRequests, VoteRequests, OpenRequests
-----------------------------------------------------------------------------
(* The inductive invariant *)

LEMMA InitInv == Init => IInv
<1> SUFFICES ASSUME Init PROVE IInv
  OBVIOUS
<1>1. TypeOK
  BY DEF Init, TypeOK, Steps, Notes, Handlers
<1> QED
  BY <1>1
     DEF Init, IInv, StoredBallotOpens, KeysDistinct, TicketsStayTrue,
         OpenTicketsMarked, Inserting, Saving, Echoing, Opening, Answering,
         Resting, NoRequest, Handlers

(* The parts of IInv that speak of the table and the tickets only.         *)
Records == /\ StoredBallotOpens /\ KeysDistinct
           /\ TicketsStayTrue /\ OpenTicketsMarked

(* A step that changes neither the table nor the tickets keeps them.       *)
LEMMA RecordsKept ==
  ASSUME IInv, UNCHANGED <<db, tickets>>
  PROVE  Records'
BY DEF IInv, Records, StoredBallotOpens, KeysDistinct, TicketsStayTrue,
       OpenTicketsMarked, MacVerifies

LEMMA StartInv == ASSUME IInv, Start PROVE IInv'
<1> USE DEF Start
<1>1. TypeOK'
  BY ModeAssumption DEF IInv, TypeOK, Handlers, Steps
<1>2. Records'
  BY RecordsKept
<1>3. (Inserting /\ Saving /\ Echoing /\ Opening /\ Answering)'
  BY DEF Inserting, Saving, Echoing, Opening, Answering
<1>4. Resting'
  BY DEF IInv, Resting, Handlers, NoRequest
<1> QED
  BY <1>1, <1>2, <1>3, <1>4 DEF IInv, Records

LEMMA CrashInv == ASSUME IInv, Crash PROVE IInv'
<1> USE DEF Crash, Forget
<1>1. TypeOK'
  BY DEF IInv, TypeOK, Handlers, Steps, Notes
<1>2. Records'
  BY RecordsKept
<1>3. (Inserting /\ Saving /\ Echoing /\ Opening /\ Answering)'
  BY DEF Inserting, Saving, Echoing, Opening, Answering
<1>4. Resting'
  BY DEF Resting, Handlers, NoRequest
<1> QED
  BY <1>1, <1>2, <1>3, <1>4 DEF IInv, Records

LEMMA ReceiveInv ==
  ASSUME IInv, NEW q \in Requests, Receive(q)
  PROVE  IInv'
<1> USE DEF Receive
<1>1. /\ q.type \in Handlers
      /\ q.type # "JOIN" => q.id \in Ids
      /\ Denied.type = "DENY"
  BY DEF Requests, JoinRequests, VoteRequests, OpenRequests, Handlers, Denied
<1>2. req' \in Requests \cup {Denied}
  OBVIOUS
<1>3. id' \in Nat
  BY <1>1, IdAssumption
<1>4. TypeOK'
  BY <1>1, <1>2, <1>3 DEF IInv, TypeOK, Handlers, Steps
<1>5. Records'
  BY RecordsKept
<1>6. (Inserting /\ Saving /\ Echoing /\ Opening /\ Answering)'
  BY <1>1 DEF Handlers, Inserting, Saving, Echoing, Opening, Answering
<1>7. Resting'
  BY <1>1 DEF IInv, Resting, Handlers
<1> QED
  BY <1>4, <1>5, <1>6, <1>7 DEF IInv, Records
(* A handler that gives up leaves the table alone and answers no ticket.   *)
LEMMA FailInv ==
  ASSUME IInv, NEW code \in Errors, NEW next \in {"ANSWER", "ECHO"},
         Fail(code, next)
  PROVE  IInv'
<1> USE DEF Fail, Break, Goto
<1>1. TypeOK'
  BY DEF IInv, TypeOK, Steps
<1>2. Records'
  BY RecordsKept
<1>3. e' # "NONE"
  BY DEF Errors, VoteErrors, JoinErrors, OpenErrors
<1>4. (Inserting /\ Saving /\ Echoing /\ Opening /\ Answering)'
  BY <1>3 DEF Inserting, Saving, Echoing, Opening, Answering
<1>5. Resting'
  BY DEF IInv, Resting, Handlers
<1> QED
  BY <1>1, <1>2, <1>4, <1>5 DEF IInv, Records

LEMMA JoinInv == ASSUME IInv, Join PROVE IInv'
<1> USE DEF Join
<1>1. CASE \E code \in JoinErrors : Fail(code, "ANSWER")
  BY <1>1, FailInv DEF Errors
<1>2. CASE \E i \in KnownAs(req.key) :
             /\ req.type = "JOIN"
             /\ id' = i /\ vdata' = db[i] /\ r' = "SRV_JOIN_ISJOIN"
             /\ Goto("ANSWER")
             /\ UNCHANGED <<db, e>>
  <2>1. /\ id' \in DOMAIN db /\ id' \in Nat
        /\ db[id'].key = req.key /\ vdata' = db[id'] /\ db[id'] \in Rows
    BY <1>2, RowAt DEF KnownAs, IInv, TypeOK
  <2>2. req \in JoinRequests
    BY <1>2, PacketKinds DEF IInv
  <2>3. TypeOK'
    BY <1>2, <2>1 DEF IInv, TypeOK, Goto, Notes, Steps
  <2>4. Records'
    BY <1>2, RecordsKept DEF Goto
  <2>5. (Inserting /\ Saving /\ Echoing /\ Opening)'
    BY <1>2 DEF Goto, Inserting, Saving, Echoing, Opening
  <2>6. Answering'
    BY <1>2, <2>1, <2>2 DEF Goto, Answering
  <2>7. Resting'
    BY <1>2 DEF IInv, Goto, Resting, Handlers
  <2> QED
    BY <2>3, <2>4, <2>5, <2>6, <2>7 DEF IInv, Records
<1>3. CASE /\ req.type = "JOIN"
           /\ Goto("INSERT") /\ UNCHANGED <<db, id, vdata, e, r>>
  <2>1. req \in JoinRequests /\ "JOIN" \in mode
    BY <1>3, PacketKinds DEF IInv, Resting, Handlers
  <2>2. TypeOK'
    BY <1>3 DEF IInv, TypeOK, Goto, Steps
  <2>3. Records'
    BY <1>3, RecordsKept DEF Goto
  <2>4. (Inserting /\ Saving /\ Echoing /\ Opening /\ Answering)'
    BY <1>3, <2>1 DEF Goto, Inserting, Saving, Echoing, Opening, Answering
  <2>5. Resting'
    BY <1>3 DEF IInv, Goto, Resting, Handlers
  <2> QED
    BY <2>2, <2>3, <2>4, <2>5 DEF IInv, Records
<1> QED
  BY <1>1, <1>2, <1>3 DEF JoinErrors

LEMMA InsertInv == ASSUME IInv, Insert PROVE IInv'
<1> DEFINE row == [key |-> req.key, vot |-> Null, mac |-> Null, tmr |-> 1]
<1>1. CASE Fail("ERR_JOIN_DBSAVEK", "ANSWER")
  BY <1>1, FailInv DEF Errors, JoinErrors
<1>2. CASE /\ pc = "INSERT"
           /\ KnownAs(req.key) = {}
           /\ db' = Append(db, row)
           /\ id' = Len(db) + 1
           /\ Goto("ANSWER")
           /\ UNCHANGED <<vdata, e, r>>
  <2> USE <1>2 DEF Goto
  <2>1. req \in JoinRequests /\ row \in Rows /\ db \in Seq(Rows)
    BY CounterAssumption
       DEF IInv, Inserting, JoinRequests, Rows, Votes, Macs, TypeOK
  <2>2. /\ db' \in Seq(Rows) /\ DOMAIN db' = DOMAIN db \cup {id'}
        /\ db'[id'] = row /\ id' \in Nat
        /\ \A i \in DOMAIN db : i # id' /\ db'[i] = db[i]
    BY <2>1, Appended
  <2>3. TypeOK'
    BY <2>2 DEF IInv, TypeOK, Steps
  <2> HIDE DEF row
  <2>4. StoredBallotOpens'
    <3>1. row.vot \notin Ciphers
      BY VoteTextAssumption DEF row
    <3> QED
      BY <2>2, <3>1 DEF IInv, StoredBallotOpens, MacVerifies
  <2>5. KeysDistinct'
    <3>1. \A i \in DOMAIN db : db[i].key # row.key
      BY DEF KnownAs, row
    <3> QED
      BY <2>2, <3>1 DEF IInv, KeysDistinct
  <2>6. (TicketsStayTrue /\ OpenTicketsMarked)'
    BY <2>2 DEF IInv, TicketsStayTrue, OpenTicketsMarked
  <2>7. (Inserting /\ Saving /\ Echoing /\ Opening)'
    BY DEF Inserting, Saving, Echoing, Opening
  <2>8. Answering'
    BY <2>1, <2>2 DEF Answering, row
  <2>9. Resting'
    BY DEF IInv, Resting, Handlers
  <2> QED
    BY <2>3, <2>4, <2>5, <2>6, <2>7, <2>8, <2>9 DEF IInv
<1> QED
  BY <1>1, <1>2 DEF Insert
-----------------------------------------------------------------------------
(* VOTE *)

(* An UPDATE of row id keeps the records if the new row can be opened and  *)
(* still says what the tickets of that ballot say.                         *)
LEMMA RowUpdateKeepsRecords ==
  ASSUME IInv, id \in DOMAIN db, NEW row \in Rows,
         db' = [db EXCEPT ![id] = row], UNCHANGED tickets,
         row.key = db[id].key,
         row.key \in Honest /\ row.vot \in Ciphers
           => MacVerifies(row, row.vot.key),
         \A t \in tickets : t.id = id =>
           /\ t.type = "VOTE" => row.vot \in {t.vot, t.vot.cand}
           /\ t.type = "OPEN" => row.vot = t.vot /\ row.tmr = Opened
  PROVE  /\ Records' /\ db' \in Seq(Rows) /\ DOMAIN db' = DOMAIN db
         /\ db'[id] = row
<1>1. /\ db' \in Seq(Rows) /\ DOMAIN db' = DOMAIN db
      /\ db'[id] = row
      /\ \A j \in DOMAIN db : j # id => db'[j] = db[j]
  BY Updated DEF IInv, TypeOK
<1>2. StoredBallotOpens'
  BY <1>1 DEF IInv, StoredBallotOpens, MacVerifies
<1>3. KeysDistinct'
  BY <1>1 DEF IInv, KeysDistinct
<1>4. ASSUME NEW t \in tickets'
      PROVE  /\ t.id \in DOMAIN db'
             /\ CASE t.type = "JOIN" -> db'[t.id].key = t.key
                  [] t.type = "VOTE" -> db'[t.id].vot \in {t.vot, t.vot.cand}
                  [] t.type = "OPEN" -> db'[t.id].vot = t.vot
             /\ t.type = "OPEN" => db'[t.id].tmr = Opened
  <2>1. t \in tickets /\ t.type \in {"JOIN", "VOTE", "OPEN"}
    BY DEF IInv, TypeOK, JoinTickets, VoteTickets, OpenTickets
  <2>2. t.id \in DOMAIN db
    BY <2>1 DEF IInv, TicketsStayTrue
  <2>3. /\ t.type = "JOIN" => db[t.id].key = t.key
        /\ t.type = "VOTE" => db[t.id].vot \in {t.vot, t.vot.cand}
        /\ t.type = "OPEN" => db[t.id].vot = t.vot
        /\ t.type = "OPEN" => db[t.id].tmr = Opened
    BY <2>1 DEF IInv, TicketsStayTrue, OpenTicketsMarked
  <2>4. CASE t.id = id
    BY <1>1, <2>1, <2>2, <2>3, <2>4
  <2>5. CASE t.id # id
    BY <1>1, <2>1, <2>2, <2>3, <2>5
  <2> QED
    BY <2>4, <2>5
<1>5. (TicketsStayTrue /\ OpenTicketsMarked)'
  BY <1>4 DEF TicketsStayTrue, OpenTicketsMarked
<1> QED
  BY <1>1, <1>2, <1>3, <1>5 DEF Records

(* A ballot that holds no vote has no VOTE ticket.                         *)
LEMMA NoVoteNoTicket ==
  ASSUME IInv, id \in DOMAIN db, db[id].vot = Null, NEW t \in tickets,
         t.type = "VOTE"
  PROVE  t.id # id
<1>1. t.vot \in Ciphers /\ t.vot.cand \in Candidates
  BY DEF IInv, TypeOK, JoinTickets, VoteTickets, OpenTickets, Ciphers
<1>2. db[t.id].vot \in {t.vot, t.vot.cand}
  BY DEF IInv, TicketsStayTrue
<1> QED
  BY <1>1, <1>2, VoteTextAssumption

LEMMA VoteInv == ASSUME IInv, Vote PROVE IInv'
<1> USE DEF Vote
<1>1. CASE \E code \in VoteErrors : Fail(code, "ECHO")
  BY <1>1, FailInv DEF Errors
<1>2. CASE /\ req.type = "VOTE"
           /\ id \in DOMAIN db
           /\ vdata' = db[id]
           /\ e' = VoteCheck(db[id])
           /\ IF e' = "NONE" /\ db[id].vot # Null
                THEN /\ r' = "SRV_VOTE_REPLAY"
                     /\ Goto(IF VoteOnce THEN "ECHO" ELSE "SAVE_T")
                ELSE /\ r' = r
                     /\ Goto(IF e' = "NONE" THEN "SAVE_T" ELSE "ECHO")
           /\ UNCHANGED <<db, id>>
  <2> USE <1>2 DEF VoteOnce, Goto
  <2>1. req \in VoteRequests /\ id \in Ids /\ "VOTE" \in mode
    BY PacketKinds DEF IInv, Resting, Handlers
  <2>2. db[id] \in Rows
    BY RowAt DEF IInv, TypeOK
  <2>3. e' \in VoteErrors \cup {"NONE"}
    BY DEF VoteCheck, VoteErrors
  <2>4. pc' \in {"ECHO", "SAVE_T"} /\ r' \in Notes
    BY DEF IInv, TypeOK, Notes
  <2>5. TypeOK'
    BY <2>2, <2>3, <2>4 DEF IInv, TypeOK, Errors, Steps
  <2>6. Records'
    BY RecordsKept
  <2>7. (Inserting /\ Opening /\ Answering)'
    BY <2>4 DEF Inserting, Opening, Answering
  <2>8. Echoing'
    BY <2>1 DEF Echoing
  <2>9. Saving'
    <3> SUFFICES ASSUME pc' = "SAVE_T"
                 PROVE  Saving'
      BY <2>4 DEF Saving
    <3>1. e' = "NONE" /\ db[id].vot = Null
      OBVIOUS
    <3>2. db[id].tmr # Opened /\ ~(db[id].tmr > req.tt)
      BY <3>1 DEF VoteCheck
    <3>3. db[id].tmr \in Int /\ req.tt \in Int
      BY <2>1, <2>2, CounterAssumption DEF Rows, VoteRequests
    <3>4. \A t \in tickets : t.type = "OPEN" => t.id # id
      BY <3>2 DEF IInv, OpenTicketsMarked
    <3>5. db[id].key = req.key /\ (req.key \in Honest => Sealed(req))
      BY <2>1, <3>1 DEF VoteCheck, VoteRequests
    <3> QED
      BY <2>1, <2>2, <3>1, <3>2, <3>3, <3>4, <3>5 DEF Saving, Sealed
  <2>10. Resting'
    BY <2>4 DEF IInv, Resting, Handlers
  <2> QED
    BY <2>5, <2>6, <2>7, <2>8, <2>9, <2>10 DEF IInv, Records
<1> QED
  BY <1>1, <1>2 DEF VoteErrors

LEMMA SaveTInv == ASSUME IInv, SaveT PROVE IInv'
<1> USE DEF Goto
<1>1. CASE Fail("ERR_VOTE_DBSAVET", "ECHO")
  BY <1>1, FailInv DEF Errors, VoteErrors
<1>2. CASE /\ pc = "SAVE_T"
           /\ db' = [db EXCEPT ![id].tmr = req.tt]
           /\ Goto("SAVE_M")
           /\ UNCHANGED <<id, vdata, e, r>>
  <2> USE <1>2
  <2> DEFINE row == [db[id] EXCEPT !.tmr = req.tt]
  <2>1. Saving /\ pc = "SAVE_T"
    BY DEF IInv
  <2>2. db[id] \in Rows /\ req.tt \in Counters /\ req.tt \in Int
    BY <2>1, RowAt, CounterAssumption DEF IInv, TypeOK, Saving, VoteRequests
  <2>3. row \in Rows /\ row.vot = Null /\ row.key = db[id].key
        /\ row.tmr = req.tt
    BY <2>1, <2>2 DEF Rows, Saving
  <2>4. db' = [db EXCEPT ![id] = row]
    OBVIOUS
  <2> HIDE DEF row
  <2>5. \A t \in tickets : t.id = id => t.type \notin {"VOTE", "OPEN"}
    BY <2>1, NoVoteNoTicket DEF Saving
  <2>6. /\ Records' /\ db' \in Seq(Rows) /\ DOMAIN db' = DOMAIN db
        /\ db'[id] = row
    BY <2>1, <2>3, <2>4, <2>5, RowUpdateKeepsRecords, VoteTextAssumption
       DEF Saving
  <2>7. TypeOK'
    BY <2>6 DEF IInv, TypeOK, Steps
  <2>8. (Inserting /\ Echoing /\ Opening /\ Answering)'
    BY DEF Inserting, Echoing, Opening, Answering
  <2>9. Saving'
    BY <2>1, <2>2, <2>3, <2>6 DEF Saving
  <2>10. Resting'
    BY DEF IInv, Resting, Handlers
  <2> QED
    BY <2>6, <2>7, <2>8, <2>9, <2>10 DEF IInv, Records
<1> QED
  BY <1>1, <1>2 DEF SaveT
(* SAVE_M that succeeds writes Mac; one that fails changes the scratch     *)
(* record and breaks.                                                      *)
LEMMA SaveMInv == ASSUME IInv, SaveM PROVE IInv'
<1> USE DEF SaveM, Goto
<1>1. /\ Saving /\ pc = "SAVE_M" /\ vdata \in Rows /\ req.vot \in Ciphers
      /\ req.mac \in Ciphers
      /\ vdata' \in Rows /\ vdata'.vot = Null /\ vdata'.mac = req.mac
  BY DEF IInv, Saving, VoteRequests, Rows, Macs
<1>2. CASE Break("ERR_VOTE_DBSAVEM", "ECHO") /\ UNCHANGED db
  <2> USE <1>2 DEF Break
  <2>1. TypeOK'
    BY <1>1 DEF IInv, TypeOK, Errors, VoteErrors, Steps
  <2>2. Records'
    BY RecordsKept
  <2>3. (Inserting /\ Saving /\ Echoing /\ Opening /\ Answering)'
    BY DEF Inserting, Saving, Echoing, Opening, Answering
  <2>4. Resting'
    BY DEF IInv, Resting, Handlers
  <2> QED
    BY <2>1, <2>2, <2>3, <2>4 DEF IInv, Records
<1>3. CASE /\ db' = [db EXCEPT ![id].mac = req.mac]
           /\ Goto("SAVE_V")
           /\ UNCHANGED <<id, e, r>>
  <2> USE <1>3
  <2> DEFINE row == [db[id] EXCEPT !.mac = req.mac]
  <2>1. db[id] \in Rows
    BY <1>1, RowAt DEF IInv, TypeOK, Saving
  <2>2. row \in Rows /\ row.vot = Null /\ row.key = db[id].key
        /\ row.tmr = db[id].tmr /\ row.mac = req.mac
    BY <1>1, <2>1 DEF Rows, Saving, Macs
  <2>3. db' = [db EXCEPT ![id] = row]
    OBVIOUS
  <2> HIDE DEF row
  <2>4. \A t \in tickets : t.id = id => t.type \notin {"VOTE", "OPEN"}
    BY <1>1, NoVoteNoTicket DEF Saving
  <2>5. /\ Records' /\ db' \in Seq(Rows) /\ DOMAIN db' = DOMAIN db
        /\ db'[id] = row
    BY <1>1, <2>2, <2>3, <2>4, RowUpdateKeepsRecords, VoteTextAssumption
       DEF Saving
  <2>6. TypeOK'
    BY <1>1, <2>5 DEF IInv, TypeOK, Steps
  <2>7. (Inserting /\ Echoing /\ Opening /\ Answering)'
    BY DEF Inserting, Echoing, Opening, Answering
  <2>8. Saving'
    BY <1>1, <2>2, <2>5 DEF Saving
  <2>9. Resting'
    BY DEF IInv, Resting, Handlers
  <2> QED
    BY <2>5, <2>6, <2>7, <2>8, <2>9 DEF IInv, Records
<1> QED
  BY <1>2, <1>3

(* Only SAVE_V makes the ciphertext visible; by then the counter and the   *)
(* MAC of the same packet are stored.                                      *)
LEMMA SaveVInv == ASSUME IInv, SaveV PROVE IInv'
<1> USE DEF SaveV, Goto
<1>1. /\ Saving /\ pc = "SAVE_V" /\ vdata \in Rows /\ req \in VoteRequests
      /\ req.vot \in Ciphers /\ db[id].key = req.key
      /\ vdata' \in Rows /\ vdata'.vot = req.vot /\ vdata'.mac = req.mac
  BY DEF IInv, Saving, VoteRequests, Rows, Votes
<1>2. CASE Break("ERR_VOTE_DBSAVEV", "ECHO") /\ UNCHANGED db
  <2> USE <1>2 DEF Break
  <2>1. TypeOK'
    BY <1>1 DEF IInv, TypeOK, Errors, VoteErrors, Steps
  <2>2. Records'
    BY RecordsKept
  <2>3. (Inserting /\ Saving /\ Echoing /\ Opening /\ Answering)'
    BY DEF Inserting, Saving, Echoing, Opening, Answering
  <2>4. Resting'
    BY DEF IInv, Resting, Handlers
  <2> QED
    BY <2>1, <2>2, <2>3, <2>4 DEF IInv, Records
<1>3. CASE /\ db' = [db EXCEPT ![id].vot = req.vot]
           /\ Goto("ECHO")
           /\ UNCHANGED <<id, e, r>>
  <2> USE <1>3
  <2> DEFINE row == [db[id] EXCEPT !.vot = req.vot]
  <2>1. db[id] \in Rows
    BY <1>1, RowAt DEF IInv, TypeOK, Saving
  <2>2. row \in Rows /\ row.vot = req.vot /\ row.key = db[id].key
        /\ row.tmr = req.tt /\ row.mac = req.mac
    BY <1>1, <2>1 DEF Rows, Saving, Votes
  <2>3. db' = [db EXCEPT ![id] = row]
    OBVIOUS
  <2> HIDE DEF row
  <2>4. \A t \in tickets : t.id = id => t.type \notin {"VOTE", "OPEN"}
    BY <1>1, NoVoteNoTicket DEF Saving
  <2>5. row.key \in Honest => MacVerifies(row, row.vot.key)
    BY <1>1, <2>2 DEF MacVerifies, Saving, Sealed
  <2>6. /\ Records' /\ db' \in Seq(Rows) /\ DOMAIN db' = DOMAIN db
        /\ db'[id] = row
    BY <1>1, <2>2, <2>3, <2>4, <2>5, RowUpdateKeepsRecords DEF Saving
  <2>7. TypeOK'
    BY <1>1, <2>6 DEF IInv, TypeOK, Steps
  <2>8. (Inserting /\ Saving /\ Opening /\ Answering)'
    BY DEF Inserting, Saving, Opening, Answering
  <2>9. Echoing'
    BY <1>1, <2>2, <2>6 DEF Echoing, Saving
  <2>10. Resting'
    BY DEF IInv, Resting, Handlers
  <2> QED
    BY <2>6, <2>7, <2>8, <2>9, <2>10 DEF IInv, Records
<1> QED
  BY <1>2, <1>3

LEMMA EchoInv == ASSUME IInv, Echo PROVE IInv'
<1> USE DEF Echo, Goto
<1>1. e' = "NONE" => e = "NONE" /\ vdata.vot \in Ciphers /\ vdata.mac \in Ciphers
  BY DEF IsHex16
<1>2. TypeOK'
  BY DEF IInv, TypeOK, Errors, OpenErrors, Steps
<1>3. Records'
  BY RecordsKept
<1>4. (Inserting /\ Saving /\ Echoing /\ Opening)'
  BY DEF Inserting, Saving, Echoing, Opening
<1>5. Answering'
  BY <1>1 DEF IInv, Echoing, Answering
<1>6. Resting'
  BY DEF IInv, Resting, Handlers
<1> QED
  BY <1>2, <1>3, <1>4, <1>5, <1>6 DEF IInv, Records

-----------------------------------------------------------------------------
(* OPEN and the answer *)

LEMMA OpenInv == ASSUME IInv, Open PROVE IInv'
<1> USE DEF Open, Goto
<1>1. CASE \E code \in OpenErrors : Fail(code, "ANSWER")
  BY <1>1, FailInv DEF Errors
<1>2. CASE /\ req.type = "OPEN"
           /\ id \in DOMAIN db
           /\ vdata' = db[id]
           /\ IF db[id].tmr = Opened
                THEN /\ r' = "SRV_OPEN_ISOPEN" /\ e' = e
                     /\ Goto("ANSWER")
                ELSE /\ e' = OpenCheck(db[id], req.key) /\ r' = r
                     /\ Goto(IF e' = "NONE" THEN "OPEN_V" ELSE "ANSWER")
           /\ UNCHANGED <<db, id>>
  <2> USE <1>2
  <2>1. req \in OpenRequests /\ id \in Ids /\ "OPEN" \in mode
    BY PacketKinds DEF IInv, Resting, Handlers
  <2>2. db[id] \in Rows /\ e = "NONE" /\ r = "NEW"
    BY RowAt DEF IInv, TypeOK, Resting, Handlers
  <2>3. e' \in OpenErrors \cup {"NONE"}
    BY <2>2 DEF OpenCheck, OpenErrors
  <2>4. pc' \in {"ANSWER", "OPEN_V"} /\ r' \in Notes
    BY <2>2 DEF Notes
  <2>5. TypeOK'
    BY <2>2, <2>3, <2>4 DEF IInv, TypeOK, Errors, Steps
  <2>6. Records'
    BY RecordsKept
  <2>7. (Inserting /\ Saving /\ Echoing)'
    BY <2>4 DEF Inserting, Saving, Echoing
  <2>8. Opening'
    <3> SUFFICES ASSUME pc' = "OPEN_V"
                 PROVE  Opening'
      BY <2>4 DEF Opening
    <3>1. db[id].tmr # Opened /\ e' = "NONE" /\ db[id].vot \in Ciphers
      BY DEF OpenCheck, IsHex16
    <3> QED
      BY <2>1, <2>2, <3>1 DEF Opening
  <2>9. Answering'
    <3> SUFFICES ASSUME pc' = "ANSWER", e' = "NONE"
                 PROVE  Answering'
      BY <2>4 DEF Answering
    <3>1. db[id].tmr = Opened /\ r' = "SRV_OPEN_ISOPEN"
      OBVIOUS
    <3> QED
      BY <2>1, <3>1 DEF Answering, OpenedVote
  <2>10. Resting'
    BY <2>4 DEF IInv, Resting, Handlers
  <2> QED
    BY <2>5, <2>6, <2>7, <2>8, <2>9, <2>10 DEF IInv, Records
<1> QED
  BY <1>1, <1>2 DEF OpenErrors

(* The plaintext takes the place of its ciphertext: VOTE tickets stay true.*)
LEMMA OpenVInv == ASSUME IInv, OpenV PROVE IInv'
<1> USE DEF Goto
<1>1. CASE Fail("ERR_OPEN_DBSAVEV", "ANSWER")
  BY <1>1, FailInv DEF Errors, OpenErrors
<1>2. CASE /\ pc = "OPEN_V"
           /\ db' = [db EXCEPT ![id].vot = OpenedVote]
           /\ Goto("OPEN_T")
           /\ UNCHANGED <<id, vdata, e, r>>
  <2> USE <1>2
  <2> DEFINE row == [db[id] EXCEPT !.vot = OpenedVote]
  <2>1. /\ Opening /\ pc = "OPEN_V" /\ vdata.vot = db[id].vot
        /\ OpenedVote = vdata.vot.cand /\ OpenedVote \in Candidates
    BY DEF IInv, Opening, OpenedVote, Ciphers
  <2>2. db[id] \in Rows
    BY <2>1, RowAt DEF IInv, TypeOK, Opening
  <2>3. row \in Rows /\ row.vot = OpenedVote /\ row.key = db[id].key
        /\ row.tmr = db[id].tmr
    BY <2>1, <2>2 DEF Rows, Votes
  <2>4. db' = [db EXCEPT ![id] = row]
    OBVIOUS
  <2> HIDE DEF row
  <2>5. ASSUME NEW t \in tickets, t.id = id
        PROVE  /\ t.type = "VOTE" => row.vot \in {t.vot, t.vot.cand}
               /\ t.type # "OPEN"
    <3>1. t.type # "OPEN"
      BY <2>1, <2>5 DEF IInv, OpenTicketsMarked, Opening
    <3>2. CASE t.type = "VOTE"
      <4>1. t.vot.cand \in Candidates
        BY <3>2 DEF IInv, TypeOK, JoinTickets, VoteTickets, OpenTickets, Ciphers
      <4>2. db[id].vot \in {t.vot, t.vot.cand}
        BY <2>5, <3>2 DEF IInv, TicketsStayTrue
      <4>3. db[id].vot = t.vot
        BY <2>1, <4>1, <4>2, VoteTextAssumption DEF Opening
      <4> QED
        BY <2>1, <2>3, <3>1, <4>3
    <3> QED
      BY <3>1, <3>2
  <2>6. row.vot \notin Ciphers
    BY <2>1, <2>3, VoteTextAssumption
  <2>7. /\ Records' /\ db' \in Seq(Rows) /\ DOMAIN db' = DOMAIN db
        /\ db'[id] = row
    BY <2>1, <2>3, <2>4, <2>5, <2>6, RowUpdateKeepsRecords DEF Opening
  <2>8. TypeOK'
    BY <2>7 DEF IInv, TypeOK, Steps
  <2>9. (Inserting /\ Saving /\ Echoing /\ Answering)'
    BY DEF Inserting, Saving, Echoing, Answering
  <2>10. Opening'
    BY <2>1, <2>3, <2>7 DEF Opening
  <2>11. Resting'
    BY DEF IInv, Resting, Handlers
  <2> QED
    BY <2>7, <2>8, <2>9, <2>10, <2>11 DEF IInv, Records
<1> QED
  BY <1>1, <1>2 DEF OpenV
LEMMA OpenTInv == ASSUME IInv, OpenT PROVE IInv'
<1> USE DEF Goto
<1>1. CASE Fail("ERR_OPEN_DBSAVET", "ANSWER")
  BY <1>1, FailInv DEF Errors, OpenErrors
<1>2. CASE /\ pc = "OPEN_T"
           /\ db' = [db EXCEPT ![id].tmr = Opened]
           /\ Goto("ANSWER")
           /\ UNCHANGED <<id, vdata, e, r>>
  <2> USE <1>2
  <2> DEFINE row == [db[id] EXCEPT !.tmr = Opened]
  <2>1. /\ Opening /\ pc = "OPEN_T" /\ db[id].vot = vdata.vot.cand
        /\ OpenedVote = vdata.vot.cand /\ OpenedVote \in Candidates
    BY DEF IInv, Opening, OpenedVote, Ciphers
  <2>2. db[id] \in Rows
    BY <2>1, RowAt DEF IInv, TypeOK, Opening
  <2>3. row \in Rows /\ row.vot = db[id].vot /\ row.key = db[id].key
        /\ row.tmr = Opened
    BY <2>2, CounterAssumption DEF Rows
  <2>4. db' = [db EXCEPT ![id] = row]
    OBVIOUS
  <2> HIDE DEF row
  <2>5. ASSUME NEW t \in tickets, t.id = id
        PROVE  /\ t.type = "VOTE" => row.vot \in {t.vot, t.vot.cand}
               /\ t.type # "OPEN"
    BY <2>1, <2>3, <2>5
       DEF IInv, OpenTicketsMarked, Opening, TicketsStayTrue
  <2>6. row.vot \notin Ciphers
    BY <2>1, <2>3, VoteTextAssumption
  <2>7. /\ Records' /\ db' \in Seq(Rows) /\ DOMAIN db' = DOMAIN db
        /\ db'[id] = row
    BY <2>1, <2>3, <2>4, <2>5, <2>6, RowUpdateKeepsRecords DEF Opening
  <2>8. TypeOK'
    BY <2>7 DEF IInv, TypeOK, Steps
  <2>9. (Inserting /\ Saving /\ Echoing /\ Opening)'
    BY DEF Inserting, Saving, Echoing, Opening
  <2>10. Answering'
    BY <2>1, <2>3, <2>7 DEF Answering, Opening, OpenedVote
  <2>11. Resting'
    BY DEF IInv, Resting, Handlers
  <2> QED
    BY <2>7, <2>8, <2>9, <2>10, <2>11 DEF IInv, Records
<1> QED
  BY <1>1, <1>2 DEF OpenT

(* The ticket that is signed is true of the table at that moment.          *)
LEMMA TicketIsTrue ==
  ASSUME IInv, pc = "ANSWER", e = "NONE"
  PROVE  /\ Ticket \in JoinTickets \cup VoteTickets \cup OpenTickets
         /\ Ticket.id = id /\ id \in DOMAIN db
         /\ Ticket.type = "JOIN" => Ticket.key = db[id].key
         /\ Ticket.type = "VOTE" =>
              Ticket.vot = db[id].vot /\ Ticket.vot \in Ciphers
         /\ Ticket.type = "OPEN" =>
              Ticket.vot = db[id].vot /\ db[id].tmr = Opened
<1>1. Answering /\ id \in DOMAIN db /\ db[id] \in Rows /\ id \in Nat \ {0}
  BY RowAt DEF IInv, Answering, TypeOK
<1>2. CASE req \in JoinRequests /\ db[id].key = req.key
  BY <1>1, <1>2 DEF Ticket, JoinRequests, JoinTickets
<1>3. CASE /\ req \in VoteRequests /\ id \in Ids
           /\ vdata.vot = db[id].vot
           /\ vdata.vot \in Ciphers /\ vdata.mac \in Ciphers
  BY <1>1, <1>3 DEF Ticket, VoteRequests, VoteTickets
<1>4. CASE /\ req \in OpenRequests /\ id \in Ids
           /\ OpenedVote = db[id].vot /\ db[id].tmr = Opened
  BY <1>1, <1>4 DEF Ticket, OpenRequests, OpenTickets, Rows
<1> QED
  BY <1>1, <1>2, <1>3, <1>4 DEF Answering

LEMMA AnswerInv == ASSUME IInv, Answer PROVE IInv'
<1> USE DEF Answer, Forget
<1>1. /\ tickets' \subseteq JoinTickets \cup VoteTickets \cup OpenTickets
      /\ \A t \in tickets' : t \in tickets \/ (t = Ticket /\ e = "NONE")
  BY TicketIsTrue DEF IInv, TypeOK
<1>2. TypeOK'
  BY <1>1 DEF IInv, TypeOK, Steps, Notes
<1>3. (StoredBallotOpens /\ KeysDistinct)'
  BY DEF IInv, StoredBallotOpens, KeysDistinct, MacVerifies
<1>4. ASSUME NEW t \in tickets'
      PROVE  /\ t.id \in DOMAIN db
             /\ CASE t.type = "JOIN" -> db[t.id].key = t.key
                  [] t.type = "VOTE" -> db[t.id].vot \in {t.vot, t.vot.cand}
                  [] t.type = "OPEN" -> db[t.id].vot = t.vot
             /\ t.type = "OPEN" => db[t.id].tmr = Opened
  <2>1. CASE t \in tickets
    BY <2>1 DEF IInv, TicketsStayTrue, OpenTicketsMarked
  <2>2. CASE t = Ticket /\ e = "NONE"
    <3>1. t.type \in {"JOIN", "VOTE", "OPEN"}
      BY <1>1 DEF JoinTickets, VoteTickets, OpenTickets
    <3> QED
      BY <2>2, <3>1, TicketIsTrue
  <2> QED
    BY <1>1, <2>1, <2>2
<1>5. (TicketsStayTrue /\ OpenTicketsMarked)'
  BY <1>4 DEF TicketsStayTrue, OpenTicketsMarked
<1>6. (Inserting /\ Saving /\ Echoing /\ Opening /\ Answering)'
  BY DEF Inserting, Saving, Echoing, Opening, Answering
<1>7. Resting'
  BY DEF Resting, Handlers, NoRequest
<1> QED
  BY <1>2, <1>3, <1>5, <1>6, <1>7 DEF IInv

-----------------------------------------------------------------------------
(* The theorems *)

LEMMA NextInv == ASSUME IInv, [Next]_vars PROVE IInv'
<1>1. CASE Start
  BY <1>1, StartInv
<1>2. CASE Crash
  BY <1>2, CrashInv
<1>3. CASE \E q \in Requests : Receive(q)
  BY <1>3, ReceiveInv
<1>4. CASE Handle
  BY <1>4, JoinInv, InsertInv, VoteInv, SaveTInv, SaveMInv, SaveVInv,
     EchoInv, OpenInv, OpenVInv, OpenTInv, AnswerInv DEF Handle
<1>5. CASE UNCHANGED vars
  <2> USE <1>5 DEF vars
  <2>1. TypeOK'
    BY DEF IInv, TypeOK
  <2>2. Records'
    BY RecordsKept
  <2>3. (Inserting /\ Saving /\ Echoing /\ Opening /\ Answering /\ Resting)'
    BY DEF IInv, Inserting, Saving, Echoing, Opening, Answering, Resting,
           OpenedVote
  <2> QED
    BY <2>1, <2>2, <2>3 DEF IInv, Records
<1> QED
  BY <1>1, <1>2, <1>3, <1>4, <1>5 DEF Next

(* IInv is an invariant of the Accountant.                                 *)
THEOREM Invariance == Spec => []IInv
<1>1. Init => IInv
  BY InitInv
<1>2. IInv /\ [Next]_vars => IInv'
  BY NextInv
<1> QED
  BY <1>1, <1>2, PTL DEF Spec

(* Every variable keeps its type.                                          *)
THEOREM TypeCorrect == Spec => []TypeOK
BY Invariance, PTL DEF IInv

(* Whatever fails between the UPDATEs of srv_vote and whatever the other   *)
(* devices send, a ciphertext of an honest device is one its key opens.    *)
THEOREM BallotsOpen == Spec => []StoredBallotOpens
BY Invariance, PTL DEF IInv

(* srv_join never gives one key two ballots.                               *)
THEOREM OneBallotPerKey == Spec => []KeysDistinct
BY Invariance, PTL DEF IInv

(* What a ticket of the server says stays true.                            *)
THEOREM TicketsTrue == Spec => []TicketsStayTrue
BY Invariance, PTL DEF IInv
-----------------------------------------------------------------------------
(* How a step can change the table: every result about steps rests on this *)

Issues ==
  /\ "JOIN" \in mode /\ req.key \in Keys
  /\ \A i \in DOMAIN db : db[i].key # req.key
  /\ db' = Append(db, [key |-> req.key, vot |-> Null, mac |-> Null, tmr |-> 1])

Updates(row) ==
  /\ id \in DOMAIN db /\ row \in Rows /\ db' = [db EXCEPT ![id] = row]
  /\ row.key = db[id].key

Saves(row) ==
  /\ "VOTE" \in mode /\ Updates(row)
  /\ db[id].vot = Null /\ row.vot \in Ciphers \cup {Null}
  /\ row.tmr >= db[id].tmr /\ row.tmr \in {db[id].tmr} \cup SentCounters
  /\ row.vot \in Ciphers => row.tmr \in SentCounters

Discloses(row) ==
  /\ "OPEN" \in mode /\ Updates(row)
  /\ db[id].vot \in Ciphers /\ row.vot = db[id].vot.cand
  /\ row.tmr = db[id].tmr /\ row.tmr # Opened

Marks(row) ==
  /\ "OPEN" \in mode /\ Updates(row)
  /\ row.vot = db[id].vot /\ row.vot \in Candidates
  /\ row.tmr = Opened

TableStep ==
  \/ UNCHANGED db
  \/ /\ UNCHANGED tickets
     /\ Issues \/ \E row \in Rows : Saves(row) \/ Discloses(row) \/ Marks(row)

LEMMA TableSteps == ASSUME IInv, [Next]_vars PROVE TableStep
<1>1. db \in Seq(Rows) /\ (id \in DOMAIN db => db[id] \in Rows)
  BY RowAt DEF IInv, TypeOK
<1>2. CASE Insert
  BY <1>2 DEF Insert, Fail, Break, Goto, IInv, Inserting, KnownAs, TableStep,
              Issues, JoinRequests
<1>3. CASE SaveT
  <2> DEFINE row == [db[id] EXCEPT !.tmr = req.tt]
  <2>1. Saving /\ pc = "SAVE_T"
    BY <1>3 DEF IInv, SaveT
  <2>2. /\ row \in Rows /\ row.key = db[id].key /\ row.vot = Null
        /\ row.tmr = req.tt /\ req.tt >= db[id].tmr /\ req.tt \in SentCounters
        /\ Null \notin Ciphers
    BY <1>1, <2>1, CounterAssumption, VoteTextAssumption
       DEF Saving, Rows, VoteRequests
  <2>3. db' = [db EXCEPT ![id] = row] => Saves(row)
    BY <2>1, <2>2 DEF Saves, Updates, Saving
  <2>4. UNCHANGED tickets /\ (UNCHANGED db \/ db' = [db EXCEPT ![id] = row])
    BY <1>3 DEF SaveT, Fail, Break, Goto
  <2> QED
    BY <2>2, <2>3, <2>4 DEF TableStep
<1>4. CASE SaveM
  <2> DEFINE row == [db[id] EXCEPT !.mac = req.mac]
  <2>1. Saving /\ pc = "SAVE_M"
    BY <1>4 DEF IInv, SaveM
  <2>2. /\ row \in Rows /\ row.key = db[id].key /\ row.vot = Null
        /\ row.tmr = db[id].tmr /\ row.tmr >= db[id].tmr
        /\ Null \notin Ciphers
    BY <1>1, <2>1, CounterAssumption, VoteTextAssumption
       DEF Saving, Rows, VoteRequests, Macs
  <2>3. db' = [db EXCEPT ![id] = row] => Saves(row)
    BY <2>1, <2>2 DEF Saves, Updates, Saving
  <2>4. UNCHANGED tickets /\ (UNCHANGED db \/ db' = [db EXCEPT ![id] = row])
    BY <1>4 DEF SaveM, Break, Goto
  <2> QED
    BY <2>2, <2>3, <2>4 DEF TableStep
<1>5. CASE SaveV
  <2> DEFINE row == [db[id] EXCEPT !.vot = req.vot]
  <2>1. Saving /\ pc = "SAVE_V"
    BY <1>5 DEF IInv, SaveV
  <2>2. /\ row \in Rows /\ row.key = db[id].key /\ row.vot \in Ciphers
        /\ row.tmr = db[id].tmr /\ row.tmr >= db[id].tmr
        /\ row.tmr \in SentCounters
    BY <1>1, <2>1, CounterAssumption DEF Saving, Rows, VoteRequests, Votes
  <2>3. db' = [db EXCEPT ![id] = row] => Saves(row)
    BY <2>1, <2>2 DEF Saves, Updates, Saving
  <2>4. UNCHANGED tickets /\ (UNCHANGED db \/ db' = [db EXCEPT ![id] = row])
    BY <1>5 DEF SaveV, Break, Goto
  <2> QED
    BY <2>2, <2>3, <2>4 DEF TableStep
<1>6. CASE OpenV
  <2> DEFINE row == [db[id] EXCEPT !.vot = OpenedVote]
  <2>1. Opening /\ pc = "OPEN_V"
    BY <1>6 DEF IInv, OpenV
  <2>2. OpenedVote = db[id].vot.cand /\ OpenedVote \in Candidates
    BY <2>1 DEF Opening, OpenedVote, Ciphers
  <2>3. /\ row \in Rows /\ row.key = db[id].key /\ row.tmr = db[id].tmr
        /\ row.vot = db[id].vot.cand
    BY <1>1, <2>1, <2>2 DEF Opening, Rows, Votes
  <2>4. db' = [db EXCEPT ![id] = row] => Discloses(row)
    BY <2>1, <2>3 DEF Discloses, Updates, Opening
  <2>5. UNCHANGED tickets /\ (UNCHANGED db \/ db' = [db EXCEPT ![id] = row])
    BY <1>6 DEF OpenV, Fail, Break, Goto
  <2> QED
    BY <2>3, <2>4, <2>5 DEF TableStep
<1>7. CASE OpenT
  <2> DEFINE row == [db[id] EXCEPT !.tmr = Opened]
  <2>1. Opening /\ pc = "OPEN_T"
    BY <1>7 DEF IInv, OpenT
  <2>2. db[id].vot \in Candidates
    BY <2>1 DEF Opening, Ciphers
  <2>3. /\ row \in Rows /\ row.key = db[id].key /\ row.tmr = Opened
        /\ row.vot = db[id].vot
    BY <1>1, <2>1, CounterAssumption DEF Opening, Rows
  <2>4. db' = [db EXCEPT ![id] = row] => Marks(row)
    BY <2>1, <2>2, <2>3 DEF Marks, Updates, Opening
  <2>5. UNCHANGED tickets /\ (UNCHANGED db \/ db' = [db EXCEPT ![id] = row])
    BY <1>7 DEF OpenT, Fail, Break, Goto
  <2> QED
    BY <2>3, <2>4, <2>5 DEF TableStep
<1>8. CASE Start \/ Crash \/ (\E q \in Requests : Receive(q)) \/ UNCHANGED vars
  BY <1>8 DEF Start, Crash, Receive, vars, TableStep
<1>9. CASE Join \/ Vote \/ Echo \/ Open \/ Answer
  BY <1>9 DEF Join, Vote, Echo, Open, Answer, Fail, Break, Goto, TableStep
<1> QED
  BY <1>2, <1>3, <1>4, <1>5, <1>6, <1>7, <1>8, <1>9 DEF Next, Handle
(* What the four kinds of change do to a ballot that was there before.     *)
LEMMA RowSteps ==
  ASSUME IInv, [Next]_vars, NEW i \in DOMAIN db
  PROVE  /\ i \in DOMAIN db' /\ db[i] \in Rows /\ db'[i] \in Rows
         /\ db'[i].key = db[i].key
         /\ \/ db'[i] = db[i]
            \/ i = id /\ (Saves(db'[i]) \/ Discloses(db'[i]) \/ Marks(db'[i]))
<1>1. db \in Seq(Rows) /\ db[i] \in Rows /\ TableStep
  BY RowAt, TableSteps DEF IInv, TypeOK
<1>2. CASE UNCHANGED db
  BY <1>1, <1>2
<1>3. CASE Issues
  <2>1. [key |-> req.key, vot |-> Null, mac |-> Null, tmr |-> 1] \in Rows
    BY <1>3, CounterAssumption DEF Issues, Rows, Votes, Macs
  <2> QED
    BY <1>1, <1>3, <2>1, Appended DEF Issues
<1>4. ASSUME NEW row \in Rows, Saves(row) \/ Discloses(row) \/ Marks(row)
      PROVE  /\ i \in DOMAIN db' /\ db'[i] \in Rows
             /\ db'[i].key = db[i].key
             /\ IF i = id THEN db'[i] = row ELSE db'[i] = db[i]
  <2>1. Updates(row)
    BY <1>4 DEF Saves, Discloses, Marks
  <2> QED
    BY <1>1, <2>1, Updated DEF Updates
<1> QED
  BY <1>1, <1>2, <1>3, <1>4 DEF TableStep

(* No step replaces a stored vote by anything but its own plaintext.       *)
THEOREM VotesAreFinal == Spec => VoteFinal
<1>1. ASSUME IInv, [Next]_vars, NEW i \in DOMAIN db
      PROVE  /\ db[i].vot \in Ciphers =>
                  db'[i].vot \in {db[i].vot, db[i].vot.cand}
             /\ db[i].vot \in Candidates => db'[i].vot = db[i].vot
  BY <1>1, RowSteps, VoteTextAssumption DEF Saves, Discloses, Marks
<1>2. IInv /\ [Next]_vars =>
        [\A i \in DOMAIN db :
           /\ db[i].vot \in Ciphers =>
                db'[i].vot \in {db[i].vot, db[i].vot.cand}
           /\ db[i].vot \in Candidates => db'[i].vot = db[i].vot]_vars
  BY <1>1
<1> QED
  BY <1>2, Invariance, PTL DEF Spec, VoteFinal

(* The revoting counter of a ballot goes one way.                          *)
THEOREM CountersGoOneWay == Spec => CounterOneWay
<1>1. ASSUME IInv, [Next]_vars, NEW i \in DOMAIN db
      PROVE  db'[i].tmr >= db[i].tmr
  <2>1. db[i].tmr \in Int /\ db[i].tmr <= Opened
    BY <1>1, RowSteps, CounterAssumption DEF Rows
  <2> QED
    BY <1>1, <2>1, RowSteps DEF Saves, Discloses, Marks
<1>2. IInv /\ [Next]_vars =>
        [\A i \in DOMAIN db : db'[i].tmr >= db[i].tmr]_vars
  BY <1>1
<1> QED
  BY <1>2, Invariance, PTL DEF Spec, CounterOneWay

(* The table changes only in the modes the server was started with.        *)
THEOREM ModesAreRespected == Spec => ModesRespected
<1> DEFINE Respected ==
      /\ Len(db') > Len(db) => "JOIN" \in mode
      /\ \A i \in DOMAIN db : db'[i] # db[i] =>
           \/ "VOTE" \in mode /\ db[i].vot = Null
           \/ "OPEN" \in mode /\ db'[i].vot \in Candidates
<1>1. ASSUME IInv, [Next]_vars, Len(db') > Len(db)
      PROVE  "JOIN" \in mode
  <2>1. db \in Seq(Rows) /\ TableStep
    BY <1>1, TableSteps DEF IInv, TypeOK
  <2>2. ASSUME NEW row \in Rows, Updates(row)
        PROVE  Len(db') = Len(db)
    BY <2>1, <2>2, Updated DEF Updates
  <2> QED
    BY <1>1, <2>1, <2>2 DEF TableStep, Issues, Saves, Discloses, Marks
<1>2. ASSUME IInv, [Next]_vars, NEW i \in DOMAIN db, db'[i] # db[i]
      PROVE  \/ "VOTE" \in mode /\ db[i].vot = Null
             \/ "OPEN" \in mode /\ db'[i].vot \in Candidates
  <2>1. db[i].vot \in Ciphers => db[i].vot.cand \in Candidates
    BY DEF Ciphers
  <2> QED
    BY <1>2, <2>1, RowSteps DEF Saves, Discloses, Marks
<1>3. IInv /\ [Next]_vars => [Respected]_vars
  BY <1>1, <1>2
<1> QED
  BY <1>3, Invariance, PTL DEF Spec, ModesRespected

-----------------------------------------------------------------------------
(* The results that need the clients to leave 0x7FFFFFFF alone: a VOTE     *)
(* packet with that counter marks its ballot opened.                       *)

Marked == \A i \in DOMAIN db : db[i].tmr = Opened => db[i].vot \in Candidates

LEMMA MarkedInv ==
  ASSUME Opened \notin SentCounters
  PROVE  Spec => []Marked
<1>1. Init => Marked
  BY DEF Init, Marked
<1>2. ASSUME IInv, Marked, [Next]_vars
      PROVE  Marked'
  <2>1. ASSUME NEW i \in DOMAIN db, db'[i].tmr = Opened
        PROVE  db'[i].vot \in Candidates
    BY <1>2, <2>1, RowSteps, VoteTextAssumption
       DEF Marked, Saves, Discloses, Marks
  <2>2. ASSUME NEW i \in DOMAIN db', i \notin DOMAIN db
        PROVE  db'[i].tmr # Opened
    <3>1. db \in Seq(Rows) /\ TableStep
      BY <1>2, TableSteps DEF IInv, TypeOK
    <3>2. Issues
      <4>1. \A row \in Rows : ~Updates(row)
        BY <2>2, <3>1, Updated DEF Updates
      <4> QED
        BY <2>2, <3>1, <4>1 DEF TableStep, Saves, Discloses, Marks
    <3>3. [key |-> req.key, vot |-> Null, mac |-> Null, tmr |-> 1] \in Rows
      BY <3>2, CounterAssumption DEF Issues, Rows, Votes, Macs
    <3> QED
      BY <2>2, <3>1, <3>2, <3>3, Appended, CounterAssumption DEF Issues
  <2> QED
    BY <2>1, <2>2 DEF Marked
<1> QED
  BY <1>1, <1>2, Invariance, PTL DEF Spec

(* A ballot the record shows as opened is counted.                         *)
THEOREM FlaggedAreCounted ==
  ASSUME Opened \notin SentCounters
  PROVE  Spec => []FlaggedIsCounted
<1>1. Marked => FlaggedIsCounted
  BY DEF Marked, FlaggedIsCounted, WebFlag, TallyOf
<1> QED
  BY <1>1, MarkedInv, PTL
-----------------------------------------------------------------------------
(* The result that needs every UPDATE to succeed and nobody to kill the    *)
(* process: a ballot is disclosed by one statement and marked by the next. *)

Disclosing ==
  \A i \in DOMAIN db :
    db[i].vot \in Candidates /\ db[i].tmr # Opened => pc = "OPEN_T" /\ i = id

LEMMA DisclosingInv ==
  ASSUME Faults = {}
  PROVE  Spec => []Disclosing
<1>1. Init => Disclosing
  BY DEF Init, Disclosing
<1>2. ASSUME IInv, Disclosing, [Next]_vars
      PROVE  Disclosing'
  <2>1. db \in Seq(Rows) /\ ~SqlFails /\ ~Crash
    BY <1>2 DEF IInv, TypeOK, SqlFails, Crash
  <2>2. CASE OpenV
    <3>1. pc # "OPEN_T" /\ pc' = "OPEN_T" /\ id' = id /\ Opening
          /\ db' = [db EXCEPT ![id].vot = OpenedVote]
      BY <1>2, <2>1, <2>2 DEF OpenV, Goto, IInv
    <3>2. /\ DOMAIN db' = DOMAIN db
          /\ \A j \in DOMAIN db : j # id => db'[j] = db[j]
      BY <3>1
    <3> QED
      BY <1>2, <3>1, <3>2 DEF Disclosing
  <2>3. CASE OpenT
    <3>1. pc = "OPEN_T" /\ db' = [db EXCEPT ![id].tmr = Opened]
      BY <2>1, <2>3 DEF OpenT
    <3>2. id \in DOMAIN db /\ db[id] \in Rows
      BY <1>2, <3>1, RowAt DEF IInv, Opening, TypeOK
    <3>3. /\ DOMAIN db' = DOMAIN db /\ db'[id].tmr = Opened
          /\ \A j \in DOMAIN db : j # id => db'[j] = db[j]
      BY <3>1, <3>2 DEF Rows
    <3> QED
      BY <1>2, <3>1, <3>3 DEF Disclosing
  <2>4. CASE SaveT \/ SaveM \/ SaveV
    <3>1. pc # "OPEN_T" /\ db[id].vot = Null /\ Saving
      BY <1>2, <2>4 DEF SaveT, SaveM, SaveV, IInv, Saving
    <3>2. DOMAIN db' = DOMAIN db
      BY <2>4 DEF SaveT, SaveM, SaveV, Fail, Break
    <3>3. ASSUME NEW i \in DOMAIN db
          PROVE  db'[i] = db[i] \/ db'[i].vot \notin Candidates
      BY <1>2, <3>1, RowSteps, VoteTextAssumption DEF Saves, Discloses, Marks
    <3> QED
      BY <1>2, <3>1, <3>2, <3>3 DEF Disclosing
  <2>5. CASE Insert
    <3> DEFINE row == [key |-> req.key, vot |-> Null, mac |-> Null, tmr |-> 1]
    <3>1. pc # "OPEN_T" /\ (UNCHANGED db \/ (db' = Append(db, row) /\ Inserting /\ pc = "INSERT"))
      BY <1>2, <2>5 DEF Insert, Fail, Break, IInv
    <3>2. CASE UNCHANGED db
      BY <1>2, <3>1, <3>2 DEF Disclosing
    <3>3. CASE db' = Append(db, row) /\ Inserting /\ pc = "INSERT"
      <4>1. row \in Rows /\ row.vot = Null
        BY <3>3, CounterAssumption DEF Inserting, JoinRequests, Rows, Votes, Macs
      <4> HIDE DEF row
      <4>2. /\ DOMAIN db' = DOMAIN db \cup {Len(db) + 1} /\ db'[Len(db) + 1] = row
            /\ \A j \in DOMAIN db : db'[j] = db[j]
        BY <2>1, <3>3, <4>1, Appended
      <4> QED
        BY <1>2, <3>1, <4>1, <4>2, VoteTextAssumption DEF Disclosing
    <3> QED
      BY <3>1, <3>2, <3>3
  <2>6. CASE UNCHANGED vars
    BY <1>2, <2>6 DEF vars, Disclosing
  <2>7. CASE Start \/ (\E q \in Requests : Receive(q)) \/ Join \/ Vote \/ Echo \/ Open \/ Answer
    <3>1. UNCHANGED db /\ pc # "OPEN_T"
      BY <2>7 DEF Start, Receive, Join, Vote, Echo, Open, Answer, Fail, Break, Goto
    <3> QED
      BY <1>2, <3>1 DEF Disclosing
  <2> QED
    BY <1>2, <2>1, <2>2, <2>3, <2>4, <2>5, <2>6, <2>7 DEF Next, Handle
<1> QED
  BY <1>1, <1>2, Invariance, PTL DEF Spec

(* Where no statement fails and nobody kills the process, a counted ballot *)
(* is shown as opened whenever the pages can be read.                      *)
THEOREM CountedAreFlagged ==
  ASSUME Faults = {}
  PROVE  Spec => []CountedIsFlagged
<1>1. Disclosing => CountedIsFlagged
  BY DEF Disclosing, CountedIsFlagged, WebFlag, TallyOf
<1> QED
  BY <1>1, DisclosingInv, PTL
-----------------------------------------------------------------------------
(* The Accountant implements the ballot box *)

TheBox == [i \in DOMAIN db |-> [key |-> db[i].key, vot |-> db[i].vot]]

LEMMA IssueMaps ==
  ASSUME IInv, Issues, UNCHANGED tickets
  PROVE  Box!Next
<1> DEFINE new == [key |-> req.key, vot |-> Null]
           row == [key |-> req.key, vot |-> Null, mac |-> Null, tmr |-> 1]
           BoxRows == [key : Keys, vot : Votes]
<1>1. db \in Seq(Rows) /\ row \in Rows /\ new \in BoxRows
  BY CounterAssumption DEF IInv, TypeOK, Issues, Rows, Votes, Macs
<1>2. TheBox \in Seq(BoxRows) /\ Len(TheBox) = Len(db) /\ DOMAIN TheBox = DOMAIN db
  <2>1. \A i \in DOMAIN db : TheBox[i] \in BoxRows
    BY <1>1, RowAt DEF TheBox, Rows
  <2>2. DOMAIN db = 1..Len(db) /\ Len(db) \in Nat /\ DOMAIN TheBox = DOMAIN db
    BY <1>1 DEF TheBox
  <2>3. TheBox = [i \in 1..Len(db) |-> TheBox[i]]
    BY <2>2 DEF TheBox
  <2> HIDE DEF BoxRows
  <2>4. TheBox \in [1..Len(db) -> BoxRows]
    BY <2>1, <2>2, <2>3
  <2> QED
    BY <2>2, <2>4
<1>3. /\ db' \in Seq(Rows) /\ DOMAIN db' = 1..(Len(db) + 1)
      /\ db'[Len(db) + 1] = row
      /\ \A j \in DOMAIN db : j # Len(db) + 1 /\ db'[j] = db[j]
  BY <1>1, Appended DEF Issues
<1>4. Append(TheBox, new) =
        [i \in 1..(Len(db) + 1) |-> IF i = Len(db) + 1 THEN new ELSE TheBox[i]]
  BY <1>1, <1>2
<1>5. TheBox' =
        [i \in 1..(Len(db) + 1) |-> IF i = Len(db) + 1 THEN new ELSE TheBox[i]]
  <2>1. TheBox' = [i \in 1..(Len(db) + 1) |->
                     [key |-> db'[i].key, vot |-> db'[i].vot]]
    BY <1>3 DEF TheBox
  <2>2. ASSUME NEW i \in 1..(Len(db) + 1)
        PROVE  [key |-> db'[i].key, vot |-> db'[i].vot] =
                 IF i = Len(db) + 1 THEN new ELSE TheBox[i]
    <3>1. CASE i = Len(db) + 1
      BY <1>3, <3>1
    <3>2. CASE i # Len(db) + 1
      <4>1. i \in DOMAIN db
        BY <1>1, <3>2
      <4> QED
        BY <1>3, <3>2, <4>1 DEF TheBox
    <3> QED
      BY <3>1, <3>2
  <2> QED
    BY <2>1, <2>2
<1>6. TheBox' = Append(TheBox, new)
  BY <1>4, <1>5
<1>7. \A i \in DOMAIN TheBox : TheBox[i].key # req.key
  BY <1>2 DEF Issues, TheBox
<1> QED
  BY <1>6, <1>7 DEF Issues, TheBox, Box!Next, Box!Issue

LEMMA UpdateMaps ==
  ASSUME IInv, NEW row \in Rows, Updates(row)
  PROVE  /\ id \in DOMAIN TheBox /\ TheBox[id].vot = db[id].vot
         /\ TheBox' = [TheBox EXCEPT ![id].vot = row.vot]
<1>1. /\ DOMAIN db' = DOMAIN db /\ db'[id] = row
      /\ \A j \in DOMAIN db : j # id => db'[j] = db[j]
  BY Updated DEF IInv, TypeOK, Updates
<1> QED
  BY <1>1 DEF TheBox, Updates

LEMMA RowStepMaps ==
  ASSUME IInv, UNCHANGED tickets, NEW row \in Rows,
         Saves(row) \/ Discloses(row) \/ Marks(row)
  PROVE  Box!Next \/ TheBox' = TheBox
<1>1. Updates(row)
  BY DEF Saves, Discloses, Marks
<1>2. /\ id \in DOMAIN TheBox /\ TheBox[id].vot = db[id].vot
      /\ TheBox' = [TheBox EXCEPT ![id].vot = row.vot]
  BY <1>1, UpdateMaps
<1>3. CASE row.vot = db[id].vot
  <2>1. [TheBox[id] EXCEPT !.vot = db[id].vot] = TheBox[id]
    BY <1>2 DEF TheBox
  <2>2. [TheBox EXCEPT ![id].vot = db[id].vot] = TheBox
    BY <1>2, <2>1 DEF TheBox
  <2> QED
    BY <1>2, <1>3, <2>2
<1>4. CASE Saves(row) /\ row.vot # db[id].vot
  <2>1. row.vot \in Ciphers /\ TheBox[id].vot = Null
    BY <1>2, <1>4 DEF Saves
  <2>2. Box!Cast(id, row.vot)
    BY <1>2, <2>1 DEF Box!Cast, TheBox
  <2> QED
    BY <1>2, <2>1, <2>2 DEF Box!Next, TheBox
<1>5. CASE Discloses(row)
  <2>1. /\ TheBox[id].vot \in Ciphers /\ TheBox[id].vot.cand = row.vot
        /\ row.vot \in Candidates
    BY <1>2, <1>5 DEF Discloses, Ciphers
  <2>2. Box!Disclose(id, row.vot)
    BY <1>2, <2>1 DEF Box!Disclose, TheBox
  <2> QED
    BY <1>2, <2>1, <2>2 DEF Box!Next, TheBox
<1> QED
  BY <1>3, <1>4, <1>5 DEF Marks

LEMMA AnswerMaps ==
  ASSUME IInv, Marked, Answer
  PROVE  Box!Next \/ UNCHANGED <<TheBox, tickets>>
<1>1. TheBox' = TheBox
  BY DEF Answer, TheBox
<1>2. CASE e # "NONE"
  BY <1>1, <1>2 DEF Answer
<1>3. CASE e = "NONE"
  <2> DEFINE t == Ticket
  <2>1. /\ t \in JoinTickets \cup VoteTickets \cup OpenTickets
        /\ t.id = id /\ id \in DOMAIN db
        /\ t.type = "JOIN" => t.key = db[id].key
        /\ t.type = "VOTE" => t.vot = db[id].vot /\ t.vot \in Ciphers
        /\ t.type = "OPEN" => t.vot = db[id].vot /\ db[id].tmr = Opened
    BY <1>3, TicketIsTrue DEF Answer
  <2>2. tickets' = tickets \cup {t}
    BY <1>3 DEF Answer
  <2> HIDE DEF t
  <2>3. t.type \in {"JOIN", "VOTE", "OPEN"}
    BY <2>1 DEF JoinTickets, VoteTickets, OpenTickets
  <2>4. t.type = "OPEN" => t.vot \in Candidates
    BY <2>1 DEF Marked
  <2>5. id \in DOMAIN TheBox /\ TheBox[id].key = db[id].key
        /\ TheBox[id].vot = db[id].vot
    BY <2>1 DEF TheBox
  <2>6. Box!Certify(t)
    BY <1>1, <2>1, <2>2, <2>3, <2>4, <2>5 DEF Box!Certify, Box!Holds, TheBox
  <2> QED
    BY <2>2, <2>6 DEF Box!Next
<1> QED
  BY <1>2, <1>3

(* Every step of the Accountant is a step of the ballot box or changes     *)
(* neither box nor tickets, as long as no client sends the counter         *)
(* 0x7FFFFFFF.                                                             *)
THEOREM Refinement ==
  ASSUME Opened \notin SentCounters
  PROVE  Spec => BoxSpec
<1>1. Init => Box!Init
  BY DEF Init, Box!Init
<1>2. ASSUME IInv, Marked, [Next]_vars
      PROVE  Box!Next \/ UNCHANGED <<TheBox, tickets>>
  <2>1. CASE Answer
    BY <1>2, <2>1, AnswerMaps
  <2>2. CASE Issues /\ UNCHANGED tickets
    BY <1>2, <2>2, IssueMaps
  <2>3. CASE UNCHANGED tickets /\ \E row \in Rows :
               Saves(row) \/ Discloses(row) \/ Marks(row)
    BY <1>2, <2>3, RowStepMaps
  <2>4. CASE UNCHANGED <<db, tickets>>
    BY <2>4 DEF TheBox
  <2>5. ~Answer => UNCHANGED tickets
    BY <1>2 DEF Next, Handle, Start, Crash, Receive, Join, Insert, Vote, SaveT,
                SaveM, SaveV, Echo, Open, OpenV, OpenT, Fail, Break, Goto, vars
  <2> QED
    BY <1>2, <2>1, <2>2, <2>3, <2>4, <2>5, TableSteps DEF TableStep
<1>3. IInv /\ Marked /\ [Next]_vars => [Box!Next]_<<TheBox, tickets>>
  BY <1>2
<1> QED
  BY <1>1, <1>3, Invariance, MarkedInv, PTL
     DEF Spec, BoxSpec, Box!Spec, TheBox
=============================================================================
