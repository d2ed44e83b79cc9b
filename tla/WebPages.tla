------------------------------ MODULE WebPages ------------------------------
(***************************************************************************)
(* The published record: the pages of websrv.c (English) and websrv_ru.c   *)
(* (Russian), with what srv_webr.c and srv_webv.c read from the tables.  A *)
(* page is a request (websrv_put), one row of the table per call           *)
(* (websrv_get) and the links (websrv_end); the tables grow between the    *)
(* pages, and other clients ask for other pages in between.  A reader      *)
(* walks through a table along the link "Next".                            *)
(***************************************************************************)
EXTENDS Integers, Sequences, FiniteSets

CONSTANTS Ids,             \* numbers the operator gives to persons
          MaxBallots,      \* bound: ballots that are issued
          LINES_PER_PAGE,  \* 20 in the code
          Candidates,      \* vkeys->cnd: the names, without the empty ones
          MAX_CANDIDATES,  \* 12 in the code
          MaxNumber,       \* bound: the numbers the reader asks for
          Texts,           \* what a ballot may disclose
          Cipher,          \* an encrypted vote
          None,            \* SQL's NULL
          Requests         \* what clients other than the reader ask for

Letters == {"R", "V", "G", "P", "K", "C"}

(* The numbers behind the links of a page, and a reader's walk: the page   *)
(* he came from, the one he is at, the rows that were there at the start,  *)
(* and those he has seen on complete pages.                                *)
LinkNumbers == [prev : Int, lang : Int, next : Int]
Walks == [letter : {"R", "V", "P", "K"}, from : Nat, at : Nat \ {0},
          links : {None} \cup LinkNumbers, had : SUBSET Nat, seen : Seq(Nat)]

ASSUME WebAssumption ==
  /\ Ids \subseteq Nat \ {0}
  /\ MaxBallots \in Nat /\ MaxNumber \in Nat
  /\ LINES_PER_PAGE \in Nat \ {0}
  /\ MAX_CANDIDATES \in Nat /\ Candidates \in Seq(Texts) /\ Len(Candidates) <= MAX_CANDIDATES
  /\ Cipher \notin Texts
  /\ None \notin Texts \cup {Cipher} \cup LinkNumbers \cup Walks
  /\ Requests \subseteq Letters \X Nat

VARIABLES
  persons,  \* table Persons: number -> which of Psw, Sec, Sig are set
  voters,   \* table Voters: row i has Idn i; Vot, and whether Tmr is 0x7FFFFFFF
  pc,       \* "idle", "page" while rows are sent, "end" before the links
  asked,    \* the letter of the request: web_req, and ru
  web_first, web_cnt,  \* of the language of the request
  stat,     \* the numbers on the first page: rstat and vstat
  rows,     \* the rows sent of this page
  client,   \* "reader" or "other"
  reader    \* the walk of the reader

tables == <<persons, voters>>
page == <<pc, asked, web_first, web_cnt, stat, rows, client>>
vars == <<persons, voters, pc, asked, web_first, web_cnt, stat, rows, client, reader>>

(* The first letter of the path; P, K and C are R, V and G in Russian.     *)
web_req(letter) == CASE letter \in {"R", "P"} -> "R"
                     [] letter \in {"V", "K"} -> "V"
                     [] OTHER -> "G"
OtherLanguage(letter) ==
  CASE letter = "R" -> "P" [] letter = "V" -> "K" [] letter = "G" -> "C"
    [] letter = "P" -> "R" [] letter = "K" -> "V" [] OTHER -> "G"

Listed(letter) == IF web_req(letter) = "R" THEN DOMAIN persons ELSE 1..Len(voters)

Init ==
  /\ persons = << >> /\ voters = << >>
  /\ pc = "idle" /\ asked = "G" /\ web_first = 0 /\ web_cnt = 0
  /\ stat = None /\ rows = << >> /\ client = "other"
  /\ reader = None

-----------------------------------------------------------------------------
(* Between two pages the handlers of the packet port and the operator      *)
(* change the tables.                                                      *)
Between == pc = "idle" /\ UNCHANGED <<page, reader>>

Enlist(i, invited) ==
  /\ Between /\ i \notin DOMAIN persons
  /\ persons' = [j \in DOMAIN persons \cup {i} |->
                   IF j = i THEN [Psw |-> invited, Sec |-> FALSE, Sig |-> FALSE]
                   ELSE persons[j]]
  /\ UNCHANGED voters

Identify(i) ==
  /\ Between /\ persons[i].Psw
  /\ persons' = [persons EXCEPT ![i].Sec = TRUE]
  /\ UNCHANGED voters

Register(i) ==
  /\ Between /\ persons[i].Sec
  /\ persons' = [persons EXCEPT ![i].Sig = TRUE]
  /\ UNCHANGED voters

Join ==
  /\ Between /\ Len(voters) < MaxBallots
  /\ voters' = Append(voters, [Vot |-> None, Opened |-> FALSE])
  /\ UNCHANGED persons

Vote(i) ==
  /\ Between /\ voters[i].Vot = None
  /\ voters' = [voters EXCEPT ![i].Vot = Cipher]
  /\ UNCHANGED persons

(* Deviation: the ballot is not marked.                                    *)
OpenUnmarked(i, text) ==
  /\ Between /\ voters[i].Vot = Cipher
  /\ voters' = [voters EXCEPT ![i].Vot = text]
  /\ UNCHANGED persons

Open(i, text) ==
  /\ Between /\ voters[i].Vot = Cipher
  /\ voters' = [voters EXCEPT ![i] = [Vot |-> text, Opened |-> TRUE]]
  /\ UNCHANGED persons

-----------------------------------------------------------------------------
(* What the pages read of the tables.                                      *)

PersonFlag(row) ==
  IF row.Sig THEN "R" ELSE IF row.Sec THEN "I" ELSE IF row.Psw THEN "P" ELSE "X"
BallotFlag(row) ==
  IF row.Opened THEN "O" ELSE IF row.Vot # None THEN "V" ELSE "B"

(* The callbacks of the statistics, called for every row selected.         *)
srv_statr_get ==
  LET Count(P(_)) == Cardinality({i \in DOMAIN persons : P(persons[i])}) IN
  [idn |-> Count(LAMBDA row : TRUE),
   psw |-> Count(LAMBDA row : row.Psw),
   regs |-> Count(LAMBDA row : row.Sig /\ row.Psw)]
srv_statv_get ==
  LET Count(P(_)) == Cardinality({i \in 1..Len(voters) : P(voters[i])}) IN
  [key |-> Count(LAMBDA row : TRUE),
   vot |-> Count(LAMBDA row : row.Vot # None),
   opn |-> Count(LAMBDA row : row.Opened)]
(* SELECT ... WHERE Vot = name: of a candidate.                            *)
srv_statv_of(name) == Cardinality({i \in 1..Len(voters) : voters[i].Vot = name})

-----------------------------------------------------------------------------
(* websrv_put: the page that is asked for.  The number n after "=" asks    *)
(* for the rows from n on; 0 stands for no number too.                     *)
FirstOf(letter, n) == IF web_req(letter) = "G" \/ n = 0 THEN 0 ELSE n - 1

Put(letter, n) ==
  /\ pc = "idle" /\ pc' = "page"
  /\ asked' = letter
  /\ web_first' = FirstOf(letter, n)
  /\ web_cnt' = IF web_req(letter) = "G" THEN MAX_CANDIDATES ELSE LINES_PER_PAGE
  /\ stat' = IF web_req(letter) = "G" THEN [r |-> srv_statr_get, v |-> srv_statv_get]
             ELSE None
  /\ rows' = << >>
  /\ UNCHANGED tables

(* websrv_get skips numbers without a row, sends one row per call, and     *)
(* ends the page when the count is used up.                                *)
Present(i) ==
  IF web_req(asked) = "G" THEN i <= Len(Candidates) ELSE i \in Listed(asked)
Left == {i \in web_first + 1..web_first + web_cnt : Present(i)}
Row(i) ==
  IF web_req(asked) = "G" THEN [name |-> Candidates[i], all |-> srv_statv_of(Candidates[i])]
  ELSE i

Get ==
  /\ pc = "page" /\ Left # {}
  /\ LET i == CHOOSE i \in Left : \A j \in Left : i <= j IN
     /\ rows' = Append(rows, Row(i))
     /\ web_first' = i
     /\ web_cnt' = web_cnt - (i - web_first)
  /\ UNCHANGED <<tables, pc, asked, stat, client, reader>>

GetNothing ==
  /\ pc = "page" /\ Left = {}
  /\ pc' = "end"
  /\ web_first' = web_first + web_cnt /\ web_cnt' = 0
  /\ UNCHANGED <<tables, asked, stat, rows, client, reader>>

(* Deviation: the next page begins with the last row of this one.          *)
LinksRepeatRow(letter, first) ==
  [prev |-> first + 1, lang |-> first + 1, next |-> first]

(* websrv_end: the numbers behind the three links.  The English page of    *)
(* persons sends a reader to the next page in Russian, the others to the   *)
(* same page, except that the first page sends him to the second.          *)
Links(letter, first) ==
  LET prev == IF first - (2 * LINES_PER_PAGE - 1) < 1 THEN 1
              ELSE first - (2 * LINES_PER_PAGE - 1)
  IN [prev |-> prev,
      lang |-> IF letter = "R" THEN first + 1 ELSE prev + LINES_PER_PAGE,
      next |-> first + 1]

End ==
  /\ pc = "end" /\ pc' = "idle"
  /\ web_first' = 0 /\ web_cnt' = 0
  /\ stat' = None /\ rows' = << >>
  /\ reader' = IF client = "reader"
               THEN [reader EXCEPT !.links = Links(asked, web_first), !.seen = @ \o rows]
               ELSE reader
  /\ UNCHANGED <<tables, asked, client>>

(* The socket fails: the page ends here, and what it leaves is overwritten *)
(* by the next websrv_put.                                                 *)
Broken ==
  /\ pc = "page" /\ pc' = "idle"
  /\ stat' = None /\ rows' = << >>
  /\ UNCHANGED <<tables, asked, web_first, web_cnt, client, reader>>

-----------------------------------------------------------------------------
(* Clients.  The reader starts at the first page of a table, follows the   *)
(* link "Next" of each complete page, and asks again for a broken one.     *)

AskOther ==
  /\ \E request \in Requests : Put(request[1], request[2])
  /\ client' = "other" /\ UNCHANGED reader

StartWalk(letter) ==
  /\ reader = None
  /\ Put(letter, 0) /\ client' = "reader"
  /\ reader' = [letter |-> letter, from |-> 0, at |-> 1, links |-> None,
                had |-> Listed(letter), seen |-> << >>]

AskAgain ==
  /\ reader # None /\ reader.links = None
  /\ Put(reader.letter, reader.at) /\ client' = "reader"
  /\ UNCHANGED reader

FollowNext ==
  /\ reader # None /\ reader.links # None /\ reader.links.next <= MaxNumber
  /\ Put(reader.letter, reader.links.next) /\ client' = "reader"
  /\ reader' = [reader EXCEPT !.from = reader.at, !.at = reader.links.next, !.links = None]

Next ==
  \/ \E i \in Ids, invited \in BOOLEAN : Enlist(i, invited)
  \/ \E i \in DOMAIN persons : Identify(i) \/ Register(i)
  \/ Join
  \/ \E i \in 1..Len(voters) : Vote(i) \/ \E text \in Texts : Open(i, text)
  \/ Get \/ GetNothing \/ End \/ Broken
  \/ AskOther
  \/ \E letter \in {"R", "V", "P", "K"} : StartWalk(letter)
  \/ AskAgain \/ FollowNext

Spec == Init /\ [][Next]_vars

-----------------------------------------------------------------------------
(* Properties.                                                             *)

(* The sequence of rows the reader has seen, and the number up to which.   *)
SeenRows == IF client = "reader" /\ pc # "idle" THEN reader.seen \o rows ELSE reader.seen
SeenUpTo == IF reader.links = None THEN reader.at - 1 ELSE reader.links.next - 1

(* Whoever walks through a table along "Next" sees the rows in order, none *)
(* twice, and every row that was there at the start, whatever is added     *)
(* meanwhile and whatever other clients ask for between the pages;         *)
(* "Previous" leads to the page he came from and, except on the first page *)
(* and on the English page of persons, the link to the other language to   *)
(* the same rows (websrv_get, websrv_end).                                 *)
PagesShowAll ==
  reader # None =>
    /\ \A i, j \in DOMAIN SeenRows : i < j => SeenRows[i] < SeenRows[j]
    /\ \A id \in reader.had : id <= SeenUpTo => \E i \in DOMAIN SeenRows : SeenRows[i] = id
    /\ reader.links # None /\ reader.from # 0 =>
         /\ reader.links.prev = reader.from
         /\ reader.letter # "R" => reader.links.lang = reader.at

(* The numbers on the first page agree with the flags the other pages      *)
(* show, and the rows of the candidates count each ballot that is shown as *)
(* opened with a candidate's name, and no other (srv_statr_cb,             *)
(* srv_statv_cb, srv_webr_cb, srv_webv_cb).                                *)
TotalsAgree ==
  LET Flagged(flags) == {i \in DOMAIN persons : PersonFlag(persons[i]) \in flags}
      Shown(flags) == {i \in 1..Len(voters) : BallotFlag(voters[i]) \in flags}
  IN
  pc = "end" /\ web_req(asked) = "G" =>
    /\ stat.r.psw = Cardinality(Flagged({"P", "I", "R"}))
    /\ stat.r.regs = Cardinality(Flagged({"R"}))
    /\ stat.v.key = Cardinality(Shown({"B", "V", "O"}))
    /\ stat.v.vot = Cardinality(Shown({"V", "O"}))
    /\ stat.v.opn = Cardinality(Shown({"O"}))
    /\ Len(rows) = Len(Candidates)
    /\ \A k \in DOMAIN rows :
         rows[k] = [name |-> Candidates[k],
                    all |-> Cardinality({i \in Shown({"O"}) : voters[i].Vot = Candidates[k]})]
=============================================================================
