--------------------------- MODULE WebPagesProofs ---------------------------
(***************************************************************************)
(* Proofs about the published record, for any number of persons, ballots,  *)
(* candidates and lines per page, whatever other clients ask for.          *)
(*                                                                         *)
(* What a reader has seen says nothing about the page that is being sent   *)
(* to him; IInv adds what the pair web_first, web_cnt says of the rows     *)
(* already on the page, and that the rows of persons and ballots only      *)
(* grow.  The totals agree with the flags because the flags of a row are   *)
(* set in one order, and a page counts tables that stand still.            *)
(***************************************************************************)
EXTENDS MCPages, ArithmeticProofs, FiniteSetTheorems

Person == [Psw : BOOLEAN, Sec : BOOLEAN, Sig : BOOLEAN]
Ballot == [Vot : Texts \cup {Cipher, None}, Opened : BOOLEAN]
Counts == [r : [idn : Nat, psw : Nat, regs : Nat],
            v : [key : Nat, vot : Nat, opn : Nat]]
CandidateRows == [name : Texts, all : Nat]

(* The types of all variables.                                             *)
TypeOK ==
  /\ persons \in [DOMAIN persons -> Person]
  /\ DOMAIN persons \subseteq Ids /\ IsFiniteSet(DOMAIN persons)
  /\ voters \in Seq(Ballot)
  /\ pc \in {"idle", "page", "end"} /\ asked \in Letters
  /\ web_first \in Nat /\ web_cnt \in Nat
  /\ stat \in Counts \cup {None}
  /\ rows \in Seq(IF web_req(asked) = "G" THEN CandidateRows ELSE Nat)
  /\ client \in {"reader", "other"}
  /\ reader \in Walks \cup {None}

(* Sec is set after Psw and Sig after Sec.                                 *)
FlagsInOrder ==
  \A i \in DOMAIN persons :
    /\ persons[i].Sig => persons[i].Sec
    /\ persons[i].Sec => persons[i].Psw

(* The text of a ballot and its mark are set in one step of this model.    *)
OpenedHasText ==
  \A i \in DOMAIN voters : voters[i].Opened <=> voters[i].Vot \in Texts

(* The first page holds the numbers of the tables as they are, and a row   *)
(* for each candidate up to the one web_first is at.                       *)
CountingPage ==
  pc # "idle" /\ web_req(asked) = "G" =>
    /\ stat = [r |-> srv_statr_get, v |-> srv_statv_get]
    /\ \A k \in DOMAIN rows :
         rows[k] = [name |-> Candidates[k], all |-> srv_statv_of(Candidates[k])]
    /\ pc = "page" => /\ web_first = Len(rows) /\ Len(rows) <= Len(Candidates)
                      /\ web_first + web_cnt = MAX_CANDIDATES
    /\ pc = "end" => Len(rows) = Len(Candidates)

Ascending(s) == \A i, j \in DOMAIN s : i < j => s[i] < s[j]

(* The rows s are numbers of a+1..b in ascending order, and every number   *)
(* of a+1..b that is in the set is one of them.                            *)
Covers(s, a, b, set) ==
  /\ Ascending(s)
  /\ \A i \in DOMAIN s : a < s[i] /\ s[i] <= b
  /\ \A id \in set : a < id /\ id <= b => \E i \in DOMAIN s : s[i] = id

(* The page that is being sent to the reader holds what he misses, up to   *)
(* the row web_first is at.                                                *)
ReadersPage ==
  client = "reader" /\ pc # "idle" =>
    /\ reader # None /\ reader.links = None /\ asked = reader.letter
    /\ web_first >= reader.at - 1
    /\ web_first + web_cnt = reader.at - 1 + LINES_PER_PAGE
    /\ pc = "end" => web_cnt = 0
    /\ Covers(rows, reader.at - 1, web_first, reader.had)

(* What a reader has seen reaches up to the next page he asks for, and     *)
(* his pages follow each other.                                            *)
Walked ==
  reader # None =>
    /\ reader.had \subseteq Listed(reader.letter)
    /\ Covers(reader.seen, 0, SeenUpTo, reader.had)
    /\ reader.from # 0 => reader.at = reader.from + LINES_PER_PAGE
    /\ reader.links # None =>
         reader.links = Links(reader.letter, reader.at - 1 + LINES_PER_PAGE)

IInv ==
  /\ TypeOK
  /\ FlagsInOrder /\ OpenedHasText
  /\ CountingPage /\ ReadersPage /\ Walked
-----------------------------------------------------------------------------
(* Facts about the operators *)

(* The letter of a request decides the language and the table.             *)
LEMMA RequestKinds ==
  ASSUME NEW letter \in Letters
  PROVE  /\ web_req(letter) \in {"R", "V", "G"}
         /\ letter \in {"R", "V", "P", "K"} => web_req(letter) # "G"
BY DEF Letters, web_req

(* A set of numbers that is not empty has a least one, and CHOOSE finds it.*)
LEMMA LeastNumber ==
  ASSUME NEW S \in SUBSET Nat, S # {}
  PROVE  LET i == CHOOSE i \in S : \A j \in S : i <= j
         IN  i \in S /\ \A j \in S : i <= j
<1> DEFINE Below == {p \in Nat \X Nat : p[1] < p[2]}
<1>1. IsWellFoundedOn(Below, Nat)
  BY NatLessThanWellFounded, Zenon DEF OpToRel
<1> HIDE DEF Below
<1>2. PICK x \in S : \A y \in S : ~ (<<y, x>> \in Below)
  <2>1. S \subseteq Nat /\ S # {}
    OBVIOUS
  <2> QED
    BY <1>1, <2>1, WFMin
<1>3. ASSUME NEW y \in S PROVE x <= y
  <2>1. x \in Nat /\ y \in Nat
    OBVIOUS
  <2>2. y < x => <<y, x>> \in Below
    BY <2>1 DEF Below
  <2> QED
    BY <1>2, <2>1, <2>2
<1> QED
  BY <1>3

(* The statistics are numbers: the tables are finite.                      *)
LEMMA CountsAreNumbers ==
  ASSUME TypeOK
  PROVE  /\ srv_statr_get \in [idn : Nat, psw : Nat, regs : Nat]
         /\ srv_statv_get \in [key : Nat, vot : Nat, opn : Nat]
         /\ \A name : srv_statv_of(name) \in Nat
<1>1. ASSUME NEW T \in SUBSET DOMAIN persons
      PROVE  Cardinality(T) \in Nat
  BY FS_Subset, FS_CardinalityType DEF TypeOK
<1>2. ASSUME NEW T \in SUBSET 1..Len(voters)
      PROVE  Cardinality(T) \in Nat
  <2>1. Len(voters) \in Nat
    BY DEF TypeOK
  <2>2. IsFiniteSet(1..Len(voters))
    BY <2>1, FS_Interval
  <2> QED
    BY <2>2, FS_Subset, FS_CardinalityType
<1>3. srv_statr_get \in [idn : Nat, psw : Nat, regs : Nat]
  BY <1>1 DEF srv_statr_get
<1>4. srv_statv_get \in [key : Nat, vot : Nat, opn : Nat]
  BY <1>2 DEF srv_statv_get
<1> QED
  BY <1>2, <1>3, <1>4 DEF srv_statv_of
(* One more row, behind which no number of the set was left out.           *)
LEMMA CoversAppend ==
  ASSUME NEW s \in Seq(Nat), NEW a \in Nat, NEW b \in Nat, NEW n \in Nat,
         NEW set \in SUBSET Nat, Covers(s, a, b, set), a <= b, b < n,
         \A id \in set : b < id /\ id <= n => id = n
  PROVE  Append(s, n) \in Seq(Nat) /\ Covers(Append(s, n), a, n, set)
<1> DEFINE t == Append(s, n)
<1>1. /\ t \in Seq(Nat) /\ DOMAIN t = DOMAIN s \cup {Len(s) + 1}
      /\ Len(s) \in Nat /\ DOMAIN s = 1..Len(s) /\ t[Len(s) + 1] = n
      /\ \A i \in DOMAIN s : t[i] = s[i] /\ s[i] \in Nat
  OBVIOUS
<1> HIDE DEF t
<1>2. Ascending(t)
  BY <1>1 DEF Ascending, Covers
<1>3. \A i \in DOMAIN t : a < t[i] /\ t[i] <= n
  BY <1>1 DEF Covers
<1>4. \A id \in set : a < id /\ id <= n => \E i \in DOMAIN t : t[i] = id
  <2> SUFFICES ASSUME NEW id \in set, a < id, id <= n
               PROVE  \E i \in DOMAIN t : t[i] = id
    OBVIOUS
  <2>1. CASE id <= b
    BY <1>1, <2>1 DEF Covers
  <2>2. CASE ~ id <= b
    BY <1>1, <2>2
  <2> QED
    BY <2>1, <2>2
<1> QED
  BY <1>1, <1>2, <1>3, <1>4 DEF Covers, t

(* Two pages that follow each other.                                       *)
LEMMA CoversConcat ==
  ASSUME NEW s \in Seq(Nat), NEW t \in Seq(Nat), NEW a \in Nat, NEW b \in Nat,
         NEW c \in Nat, NEW set \in SUBSET Nat, a <= b, b <= c,
         Covers(s, a, b, set), Covers(t, b, c, set)
  PROVE  s \o t \in Seq(Nat) /\ Covers(s \o t, a, c, set)
<1> DEFINE u == s \o t
<1>1. /\ u \in Seq(Nat) /\ Len(s) \in Nat /\ Len(t) \in Nat
      /\ DOMAIN u = 1..Len(s) + Len(t) /\ DOMAIN s = 1..Len(s) /\ DOMAIN t = 1..Len(t)
      /\ \A i \in DOMAIN s : u[i] = s[i] /\ s[i] \in Nat
      /\ \A i \in DOMAIN t : u[Len(s) + i] = t[i] /\ t[i] \in Nat
  OBVIOUS
<1> HIDE DEF u
<1>2. ASSUME NEW i \in DOMAIN u
      PROVE  \/ i \in DOMAIN s /\ u[i] = s[i]
             \/ i > Len(s) /\ i - Len(s) \in DOMAIN t /\ u[i] = t[i - Len(s)]
  <2>1. CASE i <= Len(s)
    BY <1>1, <2>1
  <2>2. CASE i > Len(s)
    <3>1. i - Len(s) \in DOMAIN t /\ Len(s) + (i - Len(s)) = i
      BY <1>1, <2>2
    <3> QED
      BY <1>1, <2>2, <3>1
  <2> QED
    BY <1>1, <2>1, <2>2
<1>3. Ascending(u)
  <2> SUFFICES ASSUME NEW i \in DOMAIN u, NEW j \in DOMAIN u, i < j
               PROVE  u[i] < u[j]
    BY DEF Ascending
  <2>1. CASE i \in DOMAIN s /\ u[i] = s[i] /\ j \in DOMAIN s /\ u[j] = s[j]
    BY <2>1 DEF Covers, Ascending
  <2>2. CASE i \in DOMAIN s /\ u[i] = s[i] /\ j - Len(s) \in DOMAIN t /\ u[j] = t[j - Len(s)]
    BY <1>1, <2>2 DEF Covers
  <2>3. CASE /\ i - Len(s) \in DOMAIN t /\ u[i] = t[i - Len(s)]
             /\ j - Len(s) \in DOMAIN t /\ u[j] = t[j - Len(s)]
    BY <1>1, <2>3 DEF Covers, Ascending
  <2>4. ~ (i > Len(s) /\ j \in DOMAIN s)
    BY <1>1
  <2>5. /\ \/ i \in DOMAIN s /\ u[i] = s[i]
           \/ i > Len(s) /\ i - Len(s) \in DOMAIN t /\ u[i] = t[i - Len(s)]
        /\ \/ j \in DOMAIN s /\ u[j] = s[j]
           \/ j > Len(s) /\ j - Len(s) \in DOMAIN t /\ u[j] = t[j - Len(s)]
    BY <1>2
  <2> QED
    BY <2>1, <2>2, <2>3, <2>4, <2>5
<1>4. ASSUME NEW i \in DOMAIN u
      PROVE  a < u[i] /\ u[i] <= c
  <2>1. CASE i \in DOMAIN s /\ u[i] = s[i]
    BY <1>1, <2>1 DEF Covers
  <2>2. CASE i - Len(s) \in DOMAIN t /\ u[i] = t[i - Len(s)]
    BY <1>1, <2>2 DEF Covers
  <2> QED
    BY <1>2, <2>1, <2>2
<1>5. \A id \in set : a < id /\ id <= c => \E i \in DOMAIN u : u[i] = id
  <2> SUFFICES ASSUME NEW id \in set, a < id, id <= c
               PROVE  \E i \in DOMAIN u : u[i] = id
    OBVIOUS
  <2>1. CASE id <= b
    <3>1. PICK i \in DOMAIN s : s[i] = id
      BY <2>1 DEF Covers
    <3> QED
      BY <1>1, <3>1
  <2>2. CASE ~ id <= b
    <3>1. PICK i \in DOMAIN t : t[i] = id
      BY <2>2 DEF Covers
    <3>2. Len(s) + i \in DOMAIN u
      BY <1>1
    <3> QED
      BY <1>1, <3>1, <3>2
  <2> QED
    BY <2>1, <2>2
<1> QED
  BY <1>1, <1>3, <1>4, <1>5 DEF Covers, u
-----------------------------------------------------------------------------
(* The inductive invariant *)

LEMMA InitInv == Init => IInv
<1> SUFFICES ASSUME Init PROVE IInv
  OBVIOUS
<1>1. TypeOK
  BY FS_EmptySet DEF Init, TypeOK, Letters
<1> QED
  BY <1>1 DEF Init, IInv, FlagsInOrder, OpenedHasText, CountingPage, ReadersPage, Walked

(* The part of TypeOK that speaks of the tables.                           *)
TablesOK ==
  /\ persons \in [DOMAIN persons -> Person]
  /\ DOMAIN persons \subseteq Ids /\ IsFiniteSet(DOMAIN persons)
  /\ voters \in Seq(Ballot)
  /\ FlagsInOrder /\ OpenedHasText

(* Between two pages the tables may grow under the reader.                 *)
LEMMA BetweenInv ==
  ASSUME IInv, Between, TablesOK',
         DOMAIN persons \subseteq DOMAIN persons', Len(voters) <= Len(voters')
  PROVE  IInv'
<1> USE DEF Between, page
<1>1. TypeOK'
  BY DEF IInv, TypeOK, TablesOK
<1>2. (CountingPage /\ ReadersPage)'
  BY DEF CountingPage, ReadersPage
<1>3. Walked'
  <2>1. \A letter : Listed(letter) \subseteq Listed(letter)'
    BY DEF Listed, IInv, TypeOK, TablesOK
  <2>2. SeenUpTo' = SeenUpTo
    BY DEF SeenUpTo
  <2> QED
    BY <2>1, <2>2 DEF IInv, Walked, Covers
<1> QED
  BY <1>1, <1>2, <1>3 DEF IInv, TablesOK

LEMMA EnlistInv ==
  ASSUME IInv, NEW i \in Ids, NEW invited \in BOOLEAN, Enlist(i, invited)
  PROVE  IInv'
<1> USE DEF Enlist
<1>1. /\ DOMAIN persons' = DOMAIN persons \cup {i}
      /\ persons'[i] = [Psw |-> invited, Sec |-> FALSE, Sig |-> FALSE]
      /\ \A j \in DOMAIN persons : persons'[j] = persons[j]
  OBVIOUS
<1>2. IsFiniteSet(DOMAIN persons')
  BY <1>1, FS_AddElement DEF IInv, TypeOK
<1>3. persons' \in [DOMAIN persons' -> Person]
  BY <1>1 DEF IInv, TypeOK, Person
<1>4. TablesOK'
  BY <1>1, <1>2, <1>3 DEF IInv, TypeOK, TablesOK, FlagsInOrder, OpenedHasText
<1>5. DOMAIN persons \subseteq DOMAIN persons' /\ Len(voters) <= Len(voters')
  BY <1>1 DEF IInv, TypeOK
<1>6. Between
  OBVIOUS
<1> HIDE DEF Enlist
<1> QED
  BY <1>4, <1>5, <1>6, BetweenInv

LEMMA FlagInv ==
  ASSUME IInv, NEW i \in DOMAIN persons, Identify(i) \/ Register(i)
  PROVE  IInv'
<1> USE DEF Identify, Register
<1>1. persons[i] \in Person
  BY DEF IInv, TypeOK
<1>2. /\ DOMAIN persons' = DOMAIN persons
      /\ persons'[i] \in Person
      /\ persons'[i].Sig => persons'[i].Sec
      /\ persons'[i].Sec => persons'[i].Psw
      /\ \A j \in DOMAIN persons : j # i => persons'[j] = persons[j]
  BY <1>1 DEF Person, IInv, FlagsInOrder, TypeOK
<1>3. TablesOK'
  BY <1>2 DEF IInv, TypeOK, TablesOK, FlagsInOrder, OpenedHasText
<1> QED
  BY <1>2, <1>3, BetweenInv DEF IInv, TypeOK

LEMMA JoinInv == ASSUME IInv, Join PROVE IInv'
<1> USE DEF Join
<1> DEFINE row == [Vot |-> None, Opened |-> FALSE]
<1>1. row \in Ballot /\ row.Vot \notin Texts
  BY WebAssumption DEF Ballot
<1> HIDE DEF row
<1>2. /\ voters' \in Seq(Ballot) /\ DOMAIN voters' = DOMAIN voters \cup {Len(voters) + 1}
      /\ Len(voters') = Len(voters) + 1 /\ voters'[Len(voters) + 1] = row
      /\ \A j \in DOMAIN voters : j # Len(voters) + 1 /\ voters'[j] = voters[j]
  BY <1>1 DEF IInv, TypeOK, row
<1>3. ~row.Opened
  BY DEF row
<1>4. TablesOK'
  BY <1>1, <1>2, <1>3 DEF IInv, TypeOK, TablesOK, FlagsInOrder, OpenedHasText
<1> QED
  BY <1>2, <1>4, BetweenInv DEF IInv, TypeOK

LEMMA BallotInv ==
  ASSUME IInv, NEW i \in 1..Len(voters),
         Vote(i) \/ \E text \in Texts : Open(i, text)
  PROVE  IInv'
<1>1. voters \in Seq(Ballot) /\ voters[i] \in Ballot
  BY DEF IInv, TypeOK
<1>2. PICK row \in Ballot :
        /\ voters' = [voters EXCEPT ![i] = row]
        /\ row.Opened <=> row.Vot \in Texts
  <2>1. CASE Vote(i)
    <3> DEFINE row == [voters[i] EXCEPT !.Vot = Cipher]
    <3>1. voters' = [voters EXCEPT ![i] = row]
      BY <1>1, <2>1 DEF Vote
    <3>2. row \in Ballot /\ row.Vot = Cipher /\ row.Opened = voters[i].Opened
      BY <1>1 DEF Ballot
    <3>3. ~voters[i].Opened
      BY <2>1, WebAssumption DEF Vote, IInv, OpenedHasText, TypeOK
    <3> QED
      BY <3>1, <3>2, <3>3, WebAssumption
  <2>2. CASE \E text \in Texts : Open(i, text)
    <3>1. PICK text \in Texts : Open(i, text)
      BY <2>2
    <3>2. [Vot |-> text, Opened |-> TRUE] \in Ballot
      BY DEF Ballot
    <3> QED
      BY <3>1, <3>2 DEF Open
  <2> QED
    BY <2>1, <2>2
<1>3. /\ voters' \in Seq(Ballot) /\ DOMAIN voters' = DOMAIN voters
      /\ Len(voters') = Len(voters) /\ voters'[i] = row
      /\ \A j \in DOMAIN voters : j # i => voters'[j] = voters[j]
  BY <1>1, <1>2
<1>4. Between /\ UNCHANGED persons
  BY DEF Vote, Open
<1>5. TablesOK'
  BY <1>2, <1>3, <1>4 DEF IInv, TypeOK, TablesOK, FlagsInOrder, OpenedHasText
<1> QED
  BY <1>1, <1>3, <1>4, <1>5, BetweenInv DEF IInv, TypeOK
-----------------------------------------------------------------------------
(* A page is asked for *)

(* What websrv_put makes of any request.                                   *)
LEMMA PutInv ==
  ASSUME IInv, NEW letter \in Letters, NEW n \in Nat, Put(letter, n),
         client' \in {"reader", "other"}, reader' \in Walks \cup {None}
  PROVE  (TypeOK /\ FlagsInOrder /\ OpenedHasText /\ CountingPage)'
<1> USE DEF Put, tables
<1>1. /\ web_first' \in Nat /\ web_cnt' \in Nat
      /\ web_req(letter) = "G" => web_first' = 0 /\ web_cnt' = MAX_CANDIDATES
  BY WebAssumption DEF FirstOf
<1>2. stat' \in Counts \cup {None}
  BY CountsAreNumbers DEF IInv, Counts
<1>3. TypeOK'
  BY <1>1, <1>2 DEF IInv, TypeOK
<1>4. (FlagsInOrder /\ OpenedHasText)'
  BY DEF IInv, FlagsInOrder, OpenedHasText
<1>5. /\ srv_statr_get' = srv_statr_get /\ srv_statv_get' = srv_statv_get
  BY DEF srv_statr_get, srv_statv_get
<1>6. rows' = << >> /\ Len(rows') = 0 /\ DOMAIN rows' = {}
  OBVIOUS
<1>7. Len(Candidates) \in Nat
  BY WebAssumption
<1>8. CountingPage'
  BY <1>1, <1>5, <1>6, <1>7, WebAssumption DEF CountingPage
<1> QED
  BY <1>3, <1>4, <1>8

LEMMA AskOtherInv == ASSUME IInv, AskOther PROVE IInv'
<1> USE DEF AskOther
<1>1. PICK request \in Requests : Put(request[1], request[2])
  OBVIOUS
<1>2. request[1] \in Letters /\ request[2] \in Nat
  BY WebAssumption
<1>3. (TypeOK /\ FlagsInOrder /\ OpenedHasText /\ CountingPage)'
  BY <1>1, <1>2, PutInv DEF IInv, TypeOK
<1>4. ReadersPage'
  BY DEF ReadersPage
<1>5. UNCHANGED <<persons, voters, reader>>
  BY <1>1 DEF Put, tables
<1>6. Walked'
  BY <1>5 DEF IInv, Walked, Listed, SeenUpTo
<1> QED
  BY <1>3, <1>4, <1>6 DEF IInv

(* The rows of a table are numbers.                                        *)
LEMMA ListedAreNumbers ==
  ASSUME TypeOK, NEW letter PROVE Listed(letter) \subseteq Nat
BY WebAssumption DEF TypeOK, Listed

(* Nothing is covered by no rows.                                          *)
LEMMA CoversNothing ==
  ASSUME NEW a \in Nat, NEW set \in SUBSET Nat PROVE Covers(<< >>, a, a, set)
BY DEF Covers, Ascending

LEMMA StartWalkInv ==
  ASSUME IInv, NEW letter \in {"R", "V", "P", "K"}, StartWalk(letter)
  PROVE  IInv'
<1> USE DEF StartWalk
<1> DEFINE walk == [letter |-> letter, from |-> 0, at |-> 1, links |-> None,
                    had |-> Listed(letter), seen |-> << >>]
<1>1. walk \in Walks /\ walk # None /\ Listed(letter) \in SUBSET Nat
  <2>1. Listed(letter) \in SUBSET Nat
    BY ListedAreNumbers DEF IInv
  <2>2. walk \in Walks
    BY <2>1 DEF Walks
  <2> QED
    BY <2>1, <2>2, WebAssumption
<1>2. reader' = walk /\ Put(letter, 0) /\ client' = "reader"
  OBVIOUS
<1>3. letter \in Letters /\ web_req(letter) # "G" /\ 0 \in Nat
  BY RequestKinds DEF Letters
<1>4. (TypeOK /\ FlagsInOrder /\ OpenedHasText /\ CountingPage)'
  BY <1>1, <1>2, <1>3, PutInv
<1>5. UNCHANGED <<persons, voters>> /\ Listed(letter)' = Listed(letter)
  BY DEF Put, tables, Listed
<1>6. Covers(<< >>, 0, 0, Listed(letter))
  BY <1>1, CoversNothing
<1>7. Walked'
  BY <1>1, <1>5, <1>6 DEF Walked, SeenUpTo
<1>8. ReadersPage'
  BY <1>1, <1>2, <1>3, <1>6, WebAssumption DEF ReadersPage, Put, FirstOf
<1> QED
  BY <1>4, <1>7, <1>8 DEF IInv

LEMMA AskAgainInv == ASSUME IInv, AskAgain PROVE IInv'
<1> USE DEF AskAgain
<1>1. reader \in Walks /\ reader # None /\ reader.links = None
  BY DEF IInv, TypeOK
<1>2. /\ reader.letter \in Letters /\ web_req(reader.letter) # "G"
      /\ reader.at \in Nat \ {0} /\ reader.had \in SUBSET Nat
  BY <1>1, RequestKinds DEF Walks, Letters
<1>3. (TypeOK /\ FlagsInOrder /\ OpenedHasText /\ CountingPage)'
  BY <1>1, <1>2, PutInv
<1>4. UNCHANGED <<persons, voters, reader>>
  BY DEF Put, tables
<1>5. Walked'
  BY <1>4 DEF IInv, Walked, Listed, SeenUpTo
<1>6. Covers(<< >>, reader.at - 1, reader.at - 1, reader.had)
  <2>1. reader.at - 1 \in Nat /\ reader.had \in SUBSET Nat
    BY <1>2
  <2> QED BY <2>1, CoversNothing, Zenon
<1>7. ReadersPage'
  BY <1>1, <1>2, <1>4, <1>6, WebAssumption DEF ReadersPage, Put, FirstOf
<1> QED
  BY <1>3, <1>5, <1>7 DEF IInv

LEMMA FollowNextInv == ASSUME IInv, FollowNext PROVE IInv'
<1> USE DEF FollowNext
<1>1. reader \in Walks /\ reader # None /\ reader.links # None
  BY DEF IInv, TypeOK
<1>2. /\ reader.letter \in Letters /\ web_req(reader.letter) # "G"
      /\ reader.at \in Nat \ {0} /\ reader.had \in SUBSET Nat
  BY <1>1, RequestKinds DEF Walks, Letters
<1>3. reader.links.next = reader.at + LINES_PER_PAGE
  BY <1>1, <1>2, WebAssumption DEF IInv, Walked, Links
<1> DEFINE walk == [reader EXCEPT !.from = reader.at, !.at = reader.links.next, !.links = None]
           n == reader.links.next
<1>4. n \in Nat \ {0} /\ n - 1 \in Nat
  BY <1>2, <1>3, WebAssumption
<1>5. /\ walk \in Walks /\ walk.from = reader.at /\ walk.at = n /\ walk.links = None
      /\ walk.letter = reader.letter /\ walk.had = reader.had /\ walk.seen = reader.seen
  BY <1>1, <1>4 DEF Walks
<1>6. walk # None
  BY <1>5, WebAssumption
<1>7. reader' = walk /\ Put(reader.letter, n) /\ client' = "reader"
  OBVIOUS
<1> HIDE DEF walk, n, FollowNext
<1>8. (TypeOK /\ FlagsInOrder /\ OpenedHasText /\ CountingPage)'
  BY <1>2, <1>4, <1>5, <1>7, PutInv
<1>9. UNCHANGED <<persons, voters>> /\ Listed(reader.letter)' = Listed(walk.letter)
  BY <1>5, <1>7 DEF Put, tables, Listed
<1>10. Walked'
  <2>1. SeenUpTo' = n - 1 /\ SeenUpTo = n - 1
    BY <1>1, <1>5, <1>7 DEF SeenUpTo, n
  <2>2. walk.at = walk.from + LINES_PER_PAGE
    BY <1>3, <1>5 DEF n
  <2>3. walk.had \subseteq Listed(walk.letter)
    BY <1>1, <1>5 DEF IInv, Walked
  <2>4. Covers(walk.seen, 0, n - 1, walk.had)
    BY <1>1, <1>5, <2>1 DEF IInv, Walked
  <2> QED
    BY <1>5, <1>7, <1>9, <2>1, <2>2, <2>3, <2>4 DEF Walked
<1>11. Covers(<< >>, n - 1, n - 1, reader.had)
  BY <1>2, <1>4, CoversNothing
<1>12. ReadersPage'
  BY <1>2, <1>4, <1>5, <1>6, <1>7, <1>11, WebAssumption DEF ReadersPage, Put, FirstOf
<1> QED
  BY <1>8, <1>10, <1>12 DEF IInv
-----------------------------------------------------------------------------
(* A page is sent *)

(* The next row is the first one that is left.                             *)
LEMMA NextRow ==
  ASSUME IInv, Get
  PROVE  \E i \in Left :
           /\ \A j \in Left : i <= j
           /\ i \in Nat /\ web_first < i /\ i <= web_first + web_cnt
           /\ rows' = Append(rows, Row(i)) /\ web_first' = i
           /\ web_cnt' \in Nat /\ web_first' + web_cnt' = web_first + web_cnt
<1> DEFINE i == CHOOSE i \in Left : \A j \in Left : i <= j
<1>1. Left \in SUBSET Nat /\ Left # {}
  BY DEF Left, Get, IInv, TypeOK
<1>2. i \in Left /\ \A j \in Left : i <= j
  BY <1>1, LeastNumber
<1>3. /\ rows' = Append(rows, Row(i)) /\ web_first' = i
      /\ web_cnt' = web_cnt - (i - web_first)
  BY DEF Get
<1> HIDE DEF i
<1>4. web_first \in Nat /\ web_cnt \in Nat
  BY DEF IInv, TypeOK
<1>5. i \in Nat /\ web_first < i /\ i <= web_first + web_cnt
  BY <1>2, <1>4 DEF Left
<1>6. web_cnt' \in Nat /\ web_first' + web_cnt' = web_first + web_cnt
  BY <1>3, <1>4, <1>5
<1> QED
  BY <1>2, <1>3, <1>5, <1>6

(* What the first page does with it.                                       *)
LEMMA GetCandidateInv ==
  ASSUME IInv, Get, web_req(asked) = "G"
  PROVE  IInv'
<1> USE DEF Get, tables
<1>1. PICK i \in Left :
        /\ \A j \in Left : i <= j
        /\ i \in Nat /\ web_first < i /\ i <= web_first + web_cnt
        /\ rows' = Append(rows, Row(i)) /\ web_first' = i
        /\ web_cnt' \in Nat /\ web_first' + web_cnt' = web_first + web_cnt
  BY NextRow
<1>2. /\ rows \in Seq(CandidateRows) /\ web_first \in Nat /\ web_cnt \in Nat
      /\ web_first = Len(rows) /\ web_first + web_cnt = MAX_CANDIDATES
      /\ stat = [r |-> srv_statr_get, v |-> srv_statv_get]
      /\ \A k \in DOMAIN rows :
           rows[k] = [name |-> Candidates[k], all |-> srv_statv_of(Candidates[k])]
  BY DEF IInv, TypeOK, CountingPage
<1>3. i = Len(rows) + 1 /\ i <= Len(Candidates) /\ Len(Candidates) \in Nat
  <2>1. i <= Len(Candidates) /\ Len(Candidates) \in Nat
    BY WebAssumption DEF Left, Present
  <2>2. web_first + 1 \in Left
    BY <1>1, <1>2, <2>1 DEF Left, Present
  <2> QED
    BY <1>1, <1>2, <2>1, <2>2
<1> DEFINE row == [name |-> Candidates[i], all |-> srv_statv_of(Candidates[i])]
<1>4. Row(i) = row /\ row \in CandidateRows
  <2>1. Candidates[i] \in Texts
    BY <1>1, <1>3, WebAssumption
  <2> QED
    BY <2>1, CountsAreNumbers DEF Row, CandidateRows, IInv
<1> HIDE DEF row
<1>5. /\ rows' \in Seq(CandidateRows) /\ Len(rows') = i
      /\ DOMAIN rows' = DOMAIN rows \cup {i} /\ rows'[i] = row
      /\ \A k \in DOMAIN rows : k # i /\ rows'[k] = rows[k]
  BY <1>1, <1>2, <1>3, <1>4
<1>6. TypeOK'
  <2>1. web_first' \in Nat /\ web_cnt' \in Nat
    BY <1>1, <1>2
  <2>2. rows' \in Seq(IF web_req(asked)' = "G" THEN CandidateRows ELSE Nat)
    BY <1>5
  <2> QED
    BY <2>1, <2>2 DEF IInv, TypeOK
<1>7. /\ srv_statr_get' = srv_statr_get /\ srv_statv_get' = srv_statv_get
      /\ \A name : srv_statv_of(name)' = srv_statv_of(name)
  BY DEF srv_statr_get, srv_statv_get, srv_statv_of
<1>8. CountingPage'
  <2>1. ASSUME NEW k \in DOMAIN rows'
        PROVE  rows'[k] = [name |-> Candidates[k], all |-> srv_statv_of(Candidates[k])']
    BY <1>2, <1>5, <1>7 DEF row
  <2>2. /\ web_first' = Len(rows') /\ Len(rows') <= Len(Candidates)
        /\ web_first' + web_cnt' = MAX_CANDIDATES
    BY <1>1, <1>2, <1>3, <1>5, WebAssumption
  <2>3. stat' = [r |-> srv_statr_get', v |-> srv_statv_get'] /\ pc' = "page"
    BY <1>2, <1>7
  <2> HIDE DEF Get
  <2> QED
    BY <2>1, <2>2, <2>3 DEF CountingPage
<1>9. (FlagsInOrder /\ OpenedHasText)'
  BY DEF IInv, FlagsInOrder, OpenedHasText
<1>10. Walked'
  BY DEF IInv, Walked, Listed, SeenUpTo
<1>11. ReadersPage'
  <2>1. ~(client = "reader")
    BY RequestKinds DEF IInv, TypeOK, ReadersPage, Walks
  <2> QED
    BY <2>1 DEF ReadersPage
<1> QED
  BY <1>6, <1>8, <1>9, <1>10, <1>11 DEF IInv

(* What a page of persons or ballots does with it.                         *)
LEMMA GetRowInv ==
  ASSUME IInv, Get, web_req(asked) # "G"
  PROVE  IInv'
<1> USE DEF Get, tables
<1>1. PICK i \in Left :
        /\ \A j \in Left : i <= j
        /\ i \in Nat /\ web_first < i /\ i <= web_first + web_cnt
        /\ rows' = Append(rows, Row(i)) /\ web_first' = i
        /\ web_cnt' \in Nat /\ web_first' + web_cnt' = web_first + web_cnt
  BY NextRow
<1>2. rows \in Seq(Nat) /\ web_first \in Nat /\ web_cnt \in Nat /\ Row(i) = i
  BY DEF IInv, TypeOK, Row
<1>3. rows' \in Seq(Nat)
  BY <1>1, <1>2
<1>4. TypeOK'
  <2>1. rows' \in Seq(IF web_req(asked)' = "G" THEN CandidateRows ELSE Nat)
    BY <1>3
  <2> QED
    BY <1>1, <2>1 DEF IInv, TypeOK
<1>5. (FlagsInOrder /\ OpenedHasText)'
  BY DEF IInv, FlagsInOrder, OpenedHasText
<1>6. CountingPage'
  BY DEF CountingPage
<1>7. Walked'
  BY DEF IInv, Walked, Listed, SeenUpTo
<1>8. ReadersPage'
  <2> SUFFICES ASSUME client = "reader" PROVE ReadersPage'
    BY DEF ReadersPage
  <2>1. /\ reader \in Walks /\ reader # None /\ reader.links = None
        /\ asked = reader.letter
        /\ web_first >= reader.at - 1
        /\ web_first + web_cnt = reader.at - 1 + LINES_PER_PAGE
        /\ Covers(rows, reader.at - 1, web_first, reader.had)
    BY DEF IInv, TypeOK, ReadersPage
  <2>2. reader.at - 1 \in Nat /\ reader.had \in SUBSET Nat
    BY <2>1 DEF Walks
  <2>3. reader.had \subseteq Listed(asked)
    BY <2>1 DEF IInv, Walked
  <2>4. ASSUME NEW n \in reader.had, web_first < n, n <= i
        PROVE  n = i
    <3>1. n \in Left
      BY <1>1, <1>2, <2>2, <2>3, <2>4 DEF Left, Present
    <3> QED
      BY <1>1, <2>2, <2>4, <3>1
  <2>5. Covers(rows', reader.at - 1, i, reader.had)
    BY <1>1, <1>2, <2>1, <2>2, <2>4, CoversAppend
  <2>6. /\ web_first' >= reader.at - 1
        /\ web_first' + web_cnt' = reader.at - 1 + LINES_PER_PAGE
    <3> DEFINE a == reader.at - 1
    <3>1. a \in Nat /\ web_first >= a /\ web_first + web_cnt = a + LINES_PER_PAGE
      BY <2>1, <2>2
    <3> HIDE DEF a, Get
    <3>2. web_first' >= a
      <4>1. web_first' = i /\ i \in Nat /\ web_first < i
        BY <1>1
      <4> QED
        BY <1>2, <3>1, <4>1
    <3>3. web_first' + web_cnt' = a + LINES_PER_PAGE
      BY <1>1, <3>1
    <3> QED
      BY <3>2, <3>3 DEF a
  <2>7. pc' = "page" /\ UNCHANGED <<asked, client, reader>>
    OBVIOUS
  <2> HIDE DEF Get
  <2> QED
    BY <1>1, <2>1, <2>5, <2>6, <2>7 DEF ReadersPage
<1> QED
  BY <1>4, <1>5, <1>6, <1>7, <1>8 DEF IInv

LEMMA GetNothingInv == ASSUME IInv, GetNothing PROVE IInv'
<1> USE DEF GetNothing, tables
<1>1. web_first \in Nat /\ web_cnt \in Nat
  BY DEF IInv, TypeOK
<1>2. TypeOK'
  BY <1>1 DEF IInv, TypeOK
<1>3. (FlagsInOrder /\ OpenedHasText)'
  BY DEF IInv, FlagsInOrder, OpenedHasText
<1>4. Walked'
  BY DEF IInv, Walked, Listed, SeenUpTo
<1>5. CountingPage'
  <2> SUFFICES ASSUME web_req(asked) = "G" PROVE CountingPage'
    BY DEF CountingPage
  <2>1. /\ stat = [r |-> srv_statr_get, v |-> srv_statv_get]
        /\ \A k \in DOMAIN rows :
             rows[k] = [name |-> Candidates[k], all |-> srv_statv_of(Candidates[k])]
        /\ web_first = Len(rows) /\ Len(rows) <= Len(Candidates)
        /\ web_first + web_cnt = MAX_CANDIDATES
    BY DEF IInv, CountingPage
  <2>2. Len(rows) = Len(Candidates)
    <3>1. Len(rows) \in Nat /\ Len(Candidates) \in Nat /\ MAX_CANDIDATES \in Nat
      BY <1>1, <2>1, WebAssumption
    <3>2. Len(rows) + 1 \notin Left
      OBVIOUS
    <3> QED
      BY <2>1, <3>1, <3>2, WebAssumption DEF Left, Present
  <2>3. /\ srv_statr_get' = srv_statr_get /\ srv_statv_get' = srv_statv_get
        /\ \A name : srv_statv_of(name)' = srv_statv_of(name)
    BY DEF srv_statr_get, srv_statv_get, srv_statv_of
  <2>4. ASSUME NEW k \in DOMAIN rows'
        PROVE  rows'[k] = [name |-> Candidates[k], all |-> srv_statv_of(Candidates[k])']
    BY <2>1, <2>3
  <2>5. /\ pc' = "end" /\ rows' = rows
        /\ stat' = [r |-> srv_statr_get', v |-> srv_statv_get']
    BY <2>1, <2>3
  <2> HIDE DEF GetNothing
  <2> QED
    BY <2>2, <2>4, <2>5 DEF CountingPage
<1>6. ReadersPage'
  <2> SUFFICES ASSUME client = "reader" PROVE ReadersPage'
    BY DEF ReadersPage
  <2>1. /\ reader \in Walks /\ reader # None /\ reader.links = None
        /\ asked = reader.letter
        /\ web_first >= reader.at - 1
        /\ web_first + web_cnt = reader.at - 1 + LINES_PER_PAGE
        /\ Covers(rows, reader.at - 1, web_first, reader.had)
    BY DEF IInv, TypeOK, ReadersPage
  <2>2. reader.at - 1 \in Nat /\ reader.had \in SUBSET Nat /\ web_req(asked) # "G"
    BY <2>1, RequestKinds DEF Walks, Letters
  <2>3. reader.had \subseteq Listed(asked)
    BY <2>1 DEF IInv, Walked
  <2>4. ASSUME NEW n \in reader.had, web_first < n, n <= web_first + web_cnt
        PROVE  FALSE
    <3>1. n \in Left
      BY <1>1, <2>2, <2>3, <2>4 DEF Left, Present
    <3> QED
      BY <3>1
  <2>5. rows \in Seq(Nat)
    BY <2>2 DEF IInv, TypeOK
  <2>6. \A i \in DOMAIN rows : rows[i] \in Nat
    BY <2>5
  <2>7. Covers(rows, reader.at - 1, web_first + web_cnt, reader.had)
    BY <1>1, <2>1, <2>2, <2>4, <2>6 DEF Covers
  <2>8. /\ web_first' = web_first + web_cnt /\ web_cnt' = 0
        /\ web_first' + web_cnt' = reader.at - 1 + LINES_PER_PAGE
        /\ web_first' >= reader.at - 1
    BY <1>1, <2>1, <2>2, WebAssumption
  <2>9. UNCHANGED <<asked, client, reader, rows>>
    OBVIOUS
  <2> HIDE DEF GetNothing
  <2> QED
    BY <2>1, <2>7, <2>8, <2>9 DEF ReadersPage
<1> QED
  BY <1>2, <1>3, <1>4, <1>5, <1>6 DEF IInv

LEMMA BrokenInv == ASSUME IInv, Broken PROVE IInv'
<1> USE DEF Broken, tables
<1>1. TypeOK'
  BY DEF IInv, TypeOK
<1>2. (FlagsInOrder /\ OpenedHasText /\ CountingPage /\ ReadersPage)'
  BY DEF IInv, FlagsInOrder, OpenedHasText, CountingPage, ReadersPage
<1>3. Walked'
  BY DEF IInv, Walked, Listed, SeenUpTo
<1> QED
  BY <1>1, <1>2, <1>3 DEF IInv

(* The links of a page are numbers, and "Next" leads on.                   *)
LEMMA LinksAreNumbers ==
  ASSUME NEW letter \in Letters, NEW at \in Nat \ {0}
  PROVE  LET links == Links(letter, at - 1 + LINES_PER_PAGE)
         IN  links \in LinkNumbers /\ links # None /\ links.next = at + LINES_PER_PAGE
<1> DEFINE links == Links(letter, at - 1 + LINES_PER_PAGE)
<1>1. links \in LinkNumbers /\ links.next = at + LINES_PER_PAGE
  BY WebAssumption DEF Links, LinkNumbers
<1> HIDE DEF links
<1>2. links # None
  BY <1>1, WebAssumption
<1> QED
  BY <1>1, <1>2 DEF links

LEMMA EndInv == ASSUME IInv, End PROVE IInv'
<1> USE DEF End, tables
<1>1. (FlagsInOrder /\ OpenedHasText /\ CountingPage /\ ReadersPage)'
  BY DEF IInv, FlagsInOrder, OpenedHasText, CountingPage, ReadersPage
<1>2. CASE client # "reader"
  <2>1. reader' = reader
    BY <1>2
  <2>2. TypeOK'
    BY <2>1 DEF IInv, TypeOK
  <2>3. Walked'
    BY <2>1 DEF IInv, Walked, Listed, SeenUpTo
  <2> QED
    BY <1>1, <2>2, <2>3 DEF IInv
<1>3. CASE client = "reader"
  <2> DEFINE a == reader.at - 1
             links == Links(reader.letter, a + LINES_PER_PAGE)
             seen == reader.seen \o rows
             walk == [reader EXCEPT !.links = links, !.seen = seen]
  <2>1. /\ reader \in Walks /\ reader # None /\ reader.links = None
        /\ asked = reader.letter
        /\ web_first >= a
        /\ web_first + web_cnt = a + LINES_PER_PAGE /\ web_cnt = 0
        /\ Covers(rows, a, web_first, reader.had)
    BY <1>3 DEF IInv, TypeOK, ReadersPage
  <2>2. /\ a \in Nat /\ reader.had \in SUBSET Nat /\ web_req(asked) # "G"
        /\ reader.letter \in Letters /\ reader.at \in Nat \ {0} /\ reader.seen \in Seq(Nat)
    BY <2>1, RequestKinds DEF Walks, Letters
  <2>3. rows \in Seq(Nat) /\ web_first \in Nat /\ web_first = a + LINES_PER_PAGE
    BY <2>1, <2>2 DEF IInv, TypeOK
  <2>4. links \in LinkNumbers /\ links # None /\ links.next = reader.at + LINES_PER_PAGE
    BY <2>2, LinksAreNumbers
  <2>5. Covers(reader.seen, 0, a, reader.had)
    BY <2>1 DEF IInv, Walked, SeenUpTo
  <2>6. seen \in Seq(Nat) /\ Covers(seen, 0, web_first, reader.had)
    <3>1. Covers(rows, a, web_first, reader.had) /\ a <= web_first /\ 0 <= a /\ 0 \in Nat
      BY <2>1, <2>2, <2>3, WebAssumption
    <3> HIDE DEF a
    <3> QED
      BY <2>2, <2>3, <2>5, <3>1, CoversConcat
  <2>7. reader' = walk
    BY <1>3, <2>1, <2>3
  <2> HIDE DEF links, seen
  <2>8. /\ walk \in Walks /\ walk.links = links /\ walk.seen = seen
        /\ walk.letter = reader.letter /\ walk.from = reader.from
        /\ walk.at = reader.at /\ walk.had = reader.had
    BY <2>1, <2>4, <2>6 DEF Walks
  <2> HIDE DEF walk
  <2>9. TypeOK'
    BY <2>7, <2>8 DEF IInv, TypeOK
  <2>10. SeenUpTo' = web_first
    <3>1. links.next - 1 = web_first
      BY <2>2, <2>3, <2>4, WebAssumption
    <3> QED
      BY <2>4, <2>7, <2>8, <3>1 DEF SeenUpTo
  <2>11. Walked'
    <3>1. /\ reader.had \subseteq Listed(reader.letter)
          /\ reader.from # 0 => reader.at = reader.from + LINES_PER_PAGE
      BY <2>1 DEF IInv, Walked
    <3>2. walk.links = Links(walk.letter, walk.at - 1 + LINES_PER_PAGE)
      BY <2>8 DEF links
    <3>3. Listed(reader.letter)' = Listed(reader.letter)
      BY <2>7, <2>8 DEF Listed
    <3> QED
      BY <2>6, <2>7, <2>8, <2>10, <3>1, <3>2, <3>3 DEF Walked
  <2> QED
    BY <1>1, <2>9, <2>11 DEF IInv
<1> QED
  BY <1>2, <1>3
-----------------------------------------------------------------------------
(* The theorems *)

(* The inductive invariant holds in every reachable state.                 *)
THEOREM Invariance == Spec => []IInv
<1>1. ASSUME IInv, [Next]_vars PROVE IInv'
  <2>1. CASE \E i \in Ids, invited \in BOOLEAN : Enlist(i, invited)
    BY <1>1, <2>1, EnlistInv
  <2>2. CASE \E i \in DOMAIN persons : Identify(i) \/ Register(i)
    BY <1>1, <2>2, FlagInv
  <2>3. CASE Join
    BY <1>1, <2>3, JoinInv
  <2>4. CASE \E i \in 1..Len(voters) : Vote(i) \/ \E text \in Texts : Open(i, text)
    BY <1>1, <2>4, BallotInv
  <2>5. CASE Get
    BY <1>1, <2>5, GetCandidateInv, GetRowInv
  <2>6. CASE GetNothing
    BY <1>1, <2>6, GetNothingInv
  <2>7. CASE End
    BY <1>1, <2>7, EndInv
  <2>8. CASE Broken
    BY <1>1, <2>8, BrokenInv
  <2>9. CASE AskOther
    BY <1>1, <2>9, AskOtherInv
  <2>10. CASE \E letter \in {"R", "V", "P", "K"} : StartWalk(letter)
    BY <1>1, <2>10, StartWalkInv
  <2>11. CASE AskAgain
    BY <1>1, <2>11, AskAgainInv
  <2>12. CASE FollowNext
    BY <1>1, <2>12, FollowNextInv
  <2>13. CASE UNCHANGED vars
    BY <1>1, <2>13
       DEF vars, IInv, TypeOK, FlagsInOrder, OpenedHasText, CountingPage, ReadersPage,
           Walked, Listed, SeenUpTo, srv_statr_get, srv_statv_get, srv_statv_of
  <2> QED
    BY <1>1, <2>1, <2>2, <2>3, <2>4, <2>5, <2>6, <2>7, <2>8, <2>9, <2>10, <2>11, <2>12,
       <2>13 DEF Next
<1> QED
  BY <1>1, InitInv, PTL DEF Spec

(* The variables of the pages keep their types.                            *)
THEOREM TypeCorrect == Spec => []TypeOK
<1>1. IInv => TypeOK
  BY DEF IInv
<1> QED
  BY <1>1, Invariance, PTL

(* Whoever walks through a table along "Next" sees its rows in order, none *)
(* twice, and every row that was there at the start; "Previous" and the    *)
(* other language lead where PagesShowAll says.                            *)
THEOREM PagesAreComplete == Spec => []PagesShowAll
<1>1. ASSUME IInv, reader # None
      PROVE  /\ Ascending(SeenRows)
             /\ \A id \in reader.had : id <= SeenUpTo => \E i \in DOMAIN SeenRows : SeenRows[i] = id
  <2>1. /\ reader \in Walks /\ reader.had \in SUBSET Nat /\ reader.seen \in Seq(Nat)
        /\ reader.at - 1 \in Nat
    BY <1>1 DEF IInv, TypeOK, Walks
  <2>2. \A id \in reader.had : 0 < id
    BY <1>1, <2>1, WebAssumption DEF IInv, TypeOK, Walked, Listed
  <2>3. CASE ~(client = "reader" /\ pc # "idle")
    BY <1>1, <2>1, <2>2, <2>3 DEF SeenRows, IInv, Walked, Covers
  <2>4. CASE client = "reader" /\ pc # "idle"
    <3> DEFINE a == reader.at - 1
    <3>1. /\ Covers(rows, a, web_first, reader.had) /\ a <= web_first
          /\ reader.links = None /\ asked = reader.letter
      BY <1>1, <2>1, <2>4 DEF IInv, TypeOK, ReadersPage
    <3>2. rows \in Seq(Nat) /\ web_first \in Nat
      BY <1>1, <2>1, <3>1, RequestKinds DEF IInv, TypeOK, Walks, Letters
    <3>3. Covers(reader.seen, 0, a, reader.had) /\ SeenUpTo = a
      BY <1>1, <3>1 DEF IInv, Walked, SeenUpTo
    <3>4. a \in Nat /\ 0 <= a /\ 0 \in Nat
      BY <2>1
    <3> HIDE DEF a
    <3>5. Covers(reader.seen \o rows, 0, web_first, reader.had)
      BY <2>1, <3>1, <3>2, <3>3, <3>4, CoversConcat
    <3>6. SeenRows = reader.seen \o rows
      BY <2>4 DEF SeenRows
    <3>7. \A id \in reader.had : id <= SeenUpTo => 0 < id /\ id <= web_first
      BY <2>1, <2>2, <3>1, <3>2, <3>3, <3>4
    <3> QED
      BY <3>5, <3>6, <3>7 DEF Covers
  <2> QED
    BY <2>3, <2>4
<1>2. ASSUME IInv, reader # None, reader.links # None, reader.from # 0
      PROVE  /\ reader.links.prev = reader.from
             /\ reader.letter # "R" => reader.links.lang = reader.at
  <2>1. /\ reader.at \in Nat \ {0} /\ reader.from \in Nat /\ reader.from # 0
        /\ reader.at = reader.from + LINES_PER_PAGE
        /\ reader.links = Links(reader.letter, reader.at - 1 + LINES_PER_PAGE)
    BY <1>2 DEF IInv, TypeOK, Walks, Walked
  <2> DEFINE first == reader.at - 1 + LINES_PER_PAGE
  <2>2. first - (2 * LINES_PER_PAGE - 1) = reader.from /\ ~(reader.from < 1)
    BY <2>1, WebAssumption
  <2> QED
    BY <2>1, <2>2 DEF Links
<1>3. IInv => PagesShowAll
  BY <1>1, <1>2 DEF PagesShowAll, Ascending
<1> QED
  BY <1>3, Invariance, PTL

(* The flag of a row as a condition on the row.                            *)
LEMMA FlagsOfRows ==
  ASSUME IInv
  PROVE  /\ \A i \in DOMAIN persons :
              /\ PersonFlag(persons[i]) \in {"P", "I", "R"} <=> persons[i].Psw
              /\ PersonFlag(persons[i]) \in {"R"} <=> persons[i].Sig /\ persons[i].Psw
         /\ \A i \in 1..Len(voters) :
              /\ BallotFlag(voters[i]) \in {"B", "V", "O"}
              /\ BallotFlag(voters[i]) \in {"V", "O"} <=> voters[i].Vot # None
              /\ BallotFlag(voters[i]) \in {"O"} <=> voters[i].Opened
              /\ \A text \in Texts :
                   voters[i].Vot = text <=> voters[i].Opened /\ voters[i].Vot = text
<1>1. ASSUME NEW i \in DOMAIN persons
      PROVE  /\ PersonFlag(persons[i]) \in {"P", "I", "R"} <=> persons[i].Psw
             /\ PersonFlag(persons[i]) \in {"R"} <=> persons[i].Sig /\ persons[i].Psw
  BY DEF PersonFlag, IInv, FlagsInOrder
<1>2. ASSUME NEW i \in 1..Len(voters)
      PROVE  /\ BallotFlag(voters[i]) \in {"B", "V", "O"}
             /\ BallotFlag(voters[i]) \in {"V", "O"} <=> voters[i].Vot # None
             /\ BallotFlag(voters[i]) \in {"O"} <=> voters[i].Opened
             /\ \A text \in Texts :
                  voters[i].Vot = text <=> voters[i].Opened /\ voters[i].Vot = text
  <2>1. i \in DOMAIN voters
    BY DEF IInv, TypeOK
  <2>2. voters[i].Opened <=> voters[i].Vot \in Texts
    BY <2>1 DEF IInv, OpenedHasText
  <2> QED
    BY <2>2, WebAssumption DEF BallotFlag
<1> QED
  BY <1>1, <1>2

(* The numbers on the first page agree with the flags on the other pages,  *)
(* and each candidate's row with the ballots shown as opened.              *)
THEOREM TotalsAreFlags == Spec => []TotalsAgree
<1>1. ASSUME IInv, pc = "end", web_req(asked) = "G"
      PROVE  TotalsAgree
  <2> DEFINE Flagged(flags) == {i \in DOMAIN persons : PersonFlag(persons[i]) \in flags}
             Shown(flags) == {i \in 1..Len(voters) : BallotFlag(voters[i]) \in flags}
  <2>1. /\ stat = [r |-> srv_statr_get, v |-> srv_statv_get]
        /\ Len(rows) = Len(Candidates)
        /\ \A k \in DOMAIN rows :
             rows[k] = [name |-> Candidates[k], all |-> srv_statv_of(Candidates[k])]
        /\ rows \in Seq(CandidateRows)
    BY <1>1 DEF IInv, TypeOK, CountingPage
  <2>2. /\ Flagged({"P", "I", "R"}) = {i \in DOMAIN persons : persons[i].Psw}
        /\ Flagged({"R"}) = {i \in DOMAIN persons : persons[i].Sig /\ persons[i].Psw}
        /\ Shown({"B", "V", "O"}) = {i \in 1..Len(voters) : TRUE}
        /\ Shown({"V", "O"}) = {i \in 1..Len(voters) : voters[i].Vot # None}
        /\ Shown({"O"}) = {i \in 1..Len(voters) : voters[i].Opened}
    BY <1>1, FlagsOfRows
  <2>3. /\ srv_statr_get.psw = Cardinality(Flagged({"P", "I", "R"}))
        /\ srv_statr_get.regs = Cardinality(Flagged({"R"}))
    BY <2>2 DEF srv_statr_get
  <2>4. /\ srv_statv_get.key = Cardinality(Shown({"B", "V", "O"}))
        /\ srv_statv_get.vot = Cardinality(Shown({"V", "O"}))
        /\ srv_statv_get.opn = Cardinality(Shown({"O"}))
    BY <2>2 DEF srv_statv_get
  <2>5. ASSUME NEW k \in DOMAIN rows
        PROVE  rows[k] = [name |-> Candidates[k],
                          all |-> Cardinality({i \in Shown({"O"}) : voters[i].Vot = Candidates[k]})]
    <3>1. Candidates[k] \in Texts
      BY <2>1, WebAssumption
    <3>2. {i \in 1..Len(voters) : voters[i].Vot = Candidates[k]}
            = {i \in Shown({"O"}) : voters[i].Vot = Candidates[k]}
      BY <1>1, <2>2, <3>1, FlagsOfRows
    <3> QED
      BY <2>1, <3>2 DEF srv_statv_of
  <2> HIDE DEF Flagged, Shown
  <2>6. /\ stat.r.psw = Cardinality(Flagged({"P", "I", "R"}))
        /\ stat.r.regs = Cardinality(Flagged({"R"}))
        /\ stat.v.key = Cardinality(Shown({"B", "V", "O"}))
        /\ stat.v.vot = Cardinality(Shown({"V", "O"}))
        /\ stat.v.opn = Cardinality(Shown({"O"}))
    BY <2>1, <2>3, <2>4
  <2> QED
    BY <2>1, <2>5, <2>6 DEF TotalsAgree, Flagged, Shown
<1>2. IInv => TotalsAgree
  <2> SUFFICES ASSUME IInv PROVE TotalsAgree
    OBVIOUS
  <2>1. CASE pc = "end" /\ web_req(asked) = "G"
    BY <1>1, <2>1
  <2>2. CASE ~(pc = "end" /\ web_req(asked) = "G")
    BY <2>2 DEF TotalsAgree
  <2> QED
    BY <2>1, <2>2
<1> QED
  BY <1>2, Invariance, PTL

-----------------------------------------------------------------------------
(* The functions below the pages.  An input is chosen while the tables are *)
(* empty, and only WordInputs are words, so whatever pair of numbers comes *)
(* is one of those that ArithmeticProofs speaks of.                        *)
WordsInRange == input.kind = "words" => input.a \in 0..R-1 /\ input.b \in 0..R-1

(* The invariant is kept by every step.                                    *)
LEMMA WordsInRangeStays ==
  ASSUME WordsInRange, [PagesNext]_<<vars, input>>
  PROVE  WordsInRange'
<1>1. CASE Choose
  <2>1. CASE input' \in WordInputs
    BY <2>1 DEF WordInputs, WordsInRange
  <2>2. CASE input' \notin WordInputs
    <3>1. input'.kind # "words"
      BY <1>1, <2>2 DEF Choose, FieldInputs, PointInputs, NumberInputs, SignInputs, StreamInputs
    <3> QED BY <3>1 DEF WordsInRange
  <2> QED BY <2>1, <2>2
<1>2. CASE PutAway
  BY <1>2 DEF PutAway, Idle, WordsInRange
<1>3. CASE UNCHANGED input
  BY <1>3 DEF WordsInRange
<1> QED BY <1>1, <1>2, <1>3 DEF PagesNext

(* The words of the run are integers in every state, for any size of a     *)
(* word and any number of words: every routine of bi.c, fp.c and fp2.c     *)
(* returns what integers or residues return.  The bound routines meet the  *)
(* hypotheses (StandardWordsAreExact); eight words of 32 bits satisfy      *)
(* ColumnsFit, and the prime of the code, of 254 bits, is GoodModulus.     *)
THEOREM WordsStayIntegers ==
  ASSUME ExactWords, ExactProducts, StandardProduct, ColumnsFit, \A p \in Moduli : GoodModulus(p)
  PROVE  PagesSpec => []WordsAreIntegers
<1>1. ASSUME PagesInit PROVE WordsInRange
  BY <1>1 DEF PagesInit, Idle, WordsInRange
<1>2. ASSUME WordsInRange, [PagesNext]_<<vars, input>> PROVE WordsInRange'
  BY <1>2, WordsInRangeStays
<1>3. ASSUME WordsInRange PROVE WordsAreIntegers
  <2>1. SUFFICES ASSUME input.kind = "words" PROVE WordsAgree(input.a, input.b)
    BY DEF WordsAreIntegers
  <2>2. input.a \in 0..R-1 /\ input.b \in 0..R-1
    BY <1>3, <2>1 DEF WordsInRange
  <2> QED BY <2>2, WordsAgreeAlways
<1> QED BY <1>1, <1>2, <1>3, PTL DEF PagesSpec
=============================================================================
