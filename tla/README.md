# vote_server in TLA+

`vote_server` is the server of a secret ballot. A *Registrar* knows the
persons: it authenticates an invited person and signs one blinded point. An
*Accountant* ("Scorer", "Calculator" in the sources) knows ballots only: it
issues a ballot to any key the Registrar signed, stores one encrypted vote on
it and discloses the vote when its owner sends the symmetric key. Both live in
one process with one thread and two SQLite tables, `Persons` and `Voters`.

The modules here model the two roles statement by statement, the start of the
server file by file, the two network ports call by call and the published pages
row by row, state what they promise, compose the promises to the whole
election, check it with TLC on small instances and prove the safety part with
TLAPS for all instances. Below them the functions that the handlers call, from
checksums to the pairing behind the signatures, are written as operators and
compared with reference definitions; what words and encodings compute is
proved.

## The system

| component | state | operations | interacts with |
|---|---|---|---|
| main loop, modes (`srv/server.c`, `vote.c`) | `srv_mode`, `srv_pkt` | `srv_init`, `srv_process` | polls both transports in turn, hands a packet to its handler, sends the answer, closes the connection |
| Registrar (`srv_idnt.c`, `srv_regs.c`) | table `Persons(Idn, Fio, Inn, Psw, Sec, Sig)`, scratch `rdata` | `srv_idnt`, `srv_regs` | voters with an invitation; its public key is what the Accountant verifies with |
| Accountant (`srv_join.c`, `srv_vote.c`, `srv_open.c`) | table `Voters(Idn, Key, Vot, Mac, Tmr)`, scratch `vdata` | `srv_join`, `srv_vote`, `srv_open` | anonymous voters; every success is answered by a signed ticket |
| public keys (`srv_gets.c`) | none | `srv_gets` | answers the keys of the start, signed by the Accountant |
| start (`srv_inir.c`, `srv_iniv.c`) | key files `reg_data/*`, `vot_data/*`, the list of candidates, the databases | `srv_inir`, `srv_iniv`, `srv_get_voter_pubkey`, `srv_get_reg_pubkey` | each role reads the other's public key file |
| published record (`srv_webr.c`, `srv_webv.c`) | none (reads the tables) | `srv_webr_get`, `srv_statr_get`, `srv_webv_get`, `srv_statv_get` | the web pages |
| packet transport (`tcp/trr.c`) | one socket, buffer, `tcp_req`, time-out | `tcp_read`, `tcp_write`, `tcp_close` | main loop |
| web transport (`web/webtcp.c`) | one socket | `webtcp_read`, `webtcp_send` | main loop |
| web pages (`web/websrv.c`, `websrv_ru.c`) | `web_req`, paging counters | `websrv_put`, `websrv_get`, `websrv_end` | main loop, published record |
| encodings (`tools/amath.c`, `b64.c`, `base32.c`, `convert.c`) | none | checksums, hex, base32, base64, alphabets | handlers, pages |
| words and fields (`pair/.../bigint`, `fp`) | none | arithmetic on words, Montgomery and lazy reduction, the fields of 2, 4 and 12 dimensions | curves, pairing |
| curves, pairing, signatures (`pair/.../ec`, `pbc`, `pair/src/gss/bls.c`) | none | point multiplication, hashing to a point, compression, blind signing, unblinding, verifying | all handlers that sign or verify |
| hashes, random numbers (`shake`, `pair/src/hash`, `rnd`) | the pool of the generator | Keccak sponges, SHA-1, stream cipher, generators | handlers, keys |
| group signatures, encryption to identities, X25519 (`gss_hwang.c`, `sdh_zk.c`, `ecc`) | none | the first two are not called by the server | |
| SQLite (`sql`) | the tables | statements | handlers, pages |

What is hard here:

* No two handlers interleave (one thread, a packet is finished before the next
  is read), but one handler is **several SQL statements without a
  transaction**. A crash or an error between two of them leaves a mixture, and
  the next packet, perhaps after a restart in another mode, meets it.
* Every answer can be **lost**, so every request is repeated, and may be
  repeated with other contents.
* The **scratch record** is global: what the SELECT left there is used for the
  answer, also after an error.
* **Strangers** may send an IDNT for anybody, and the secret is replaced before
  they have shown that they know the password. The check that their key is a
  point is commented out (`srv_idnt.c:110`), and some keys are degenerate: the
  secret they give is the same for everybody.
* The counter of a ballot doubles as the **mark** that it is opened.
* The operator restarts the server in another **mode** between the phases of
  the election.
* The **ports** never block and never wait: one connection each, kept in global
  buffers and counters, received in whatever pieces come, ended by a time-out
  with a clock that is read late (packet port) or by the next client (web port).
* The **pages** are walked through with one global cursor, while the tables
  grow and other readers page in between.
* Carries, borrows, padding and singular points: **edges of numbers** that a
  test with random inputs never meets.
* Each role's keys are **two files** written one after the other at the first
  start, and the secret decides what later starts do with the public one.

## Modules

| module | models | source |
|---|---|---|
| `Accountant` | JOIN, VOTE, OPEN on the table `Voters`, start and crash of the process, the published flag and tally | `srv_join.c`, `srv_vote.c`, `srv_open.c`, `srv_webv.c`, `server.c` |
| `BallotBox` | what the Accountant promises: a ballot is issued, cast once, disclosed as the text that was encrypted; tickets say what the box holds | abstract |
| `Registrar` | IDNT, REGS on the table `Persons`, strangers, lost answers, start and crash, the published flag | `srv_idnt.c`, `srv_regs.c`, `srv_webr.c`, `server.c` |
| `Credentials` | what the Registrar promises: a person's first blinded point (anybody's, if everybody knows the secret of the session) is signed, later requests are handed the same signature | abstract |
| `Startup` | the start of the process: random generator, list of candidates, databases, key files of both roles, creation, comparison, exchange, faults and crashes; the answer of GETS | `srv_inir.c`, `srv_iniv.c`, `srv_gets.c`, `server.c`, `vote.c` |
| `Transport` | the packet port: accept, receiving, length check, time-out, answer and close, with clients and the clock | `tcp/trr.c` |
| `WebTransport` | the web port: accept with eviction, the GET buffer | `web/webtcp.c` |
| `MainLoop` | the loop of `srv_process` over both ports | `server.c` |
| `Election` | voters with several keys, `Credentials` and `BallotBox` together, the phases as sets of modes one after the other | `srv_regs.c`, `srv_join.c`, `srv_vote.c`, `srv_open.c`, `server.c` |
| `WebPages` | the published record: requests, rows, links and totals of the pages in both languages, over tables that grow, and a reader who walks through them | `websrv.c`, `websrv_ru.c`, `srv_webr.c`, `srv_webv.c` |
| `Words` | big integers as sequences of words: carries, borrows, Montgomery and lazy reduction, inversion | `bi.c`, `fp.c`, `fp2.c` |
| `Fields` | the tower of fields above one prime: products, squares, inverses, roots, Frobenius maps, the final exponent | `fp.c`, `fp2.c`, `fp4.c`, `fp12.c` |
| `EC` | the group law that both curves share, with the field as a parameter | `ecfp.c`, `ecfp2.c` |
| `Curves` | the two curves (`EC` twice), hashing to them, compression | `ecfp.c`, `ecfp2.c`, `bls.c` |
| `Pairing` | the optimal ate pairing, products and quotients of pairings, the blind signatures | `pbc_bn.c`, `bls.c` |
| `Encodings` | checksums, integers in packets, hex, base32, base64, alphabets | `tools/*.c` |
| `Sponges` | both Keccak permutations and sponges, stream, hash, SHA-1, generators | `shake`, `pair/src/hash`, `rnd` |
| `WordValues`, `TowerValues`, `Arithmetic`, `Formats` | the reference definitions and the comparisons with them: numbers and residues (`WordValues`), polynomials (`TowerValues`), repeated addition (`Arithmetic`); text books of the encodings and sponges (`Formats`) | |
| `MCAccountant`, `MCRegistrar`, `MCStartup`, `MCTransport`, `MCMainLoop`, `MCElection`, `MCPages` | instances for TLC | |
| `AccountantProofs`, `RegistrarProofs`, `ServerProofs`, `ElectionProofs`, `WebPagesProofs`, `WordProofs`, `ArithmeticProofs`, `FunctionProofs` | inductive invariants, theorems and proofs | |

Some functions of the pairing library are modelled although the server does
not call them (products of pairings, the inversions `fp_inv_binary` and
`fp_inv_exp_var`, parts of the encodings): they are the same code base, and the
headers choose between them.

### State and actions

`pc` says where the single thread is: `idle` in the main loop, the name of a
handler whose packet was just read, the SQL statement it is about to execute
(`INSERT`, `SAVE_T`, `SAVE_M`, `SAVE_V`, `OPEN_V`, `OPEN_T`, `SAVE_SEC`,
`SAVE_SIG`), the second loop of `srv_vote` (`ECHO`), or `ANSWER`; `down` is no
process. `req` is `srv_pkt`, `id`, `e`, `r` and `res` are the handler's locals
of the same names, `vdata` is the scratch record, `db` the table, `mode` the
`SRV_ALLOW_*` flags. `tickets` (Accountant) and `handed`, `knows` (Registrar)
are what voters keep; no action of the server reads them, except that a voter
can use in REGS only a secret it `knows`. The secret of a degenerate key is
`Common`, and anybody can use it (`Sendable`).

One action is one stretch of code between two SQL statements: `Vote` is
`srv_vote` from its first line over the SELECT and all checks to the first
UPDATE, `SaveT`, `SaveM`, `SaveV` are the UPDATEs with the code up to the next,
`Echo` is the second loop, `Answer` composes the ticket or the error packet,
clears the scratch data and returns to the main loop. `Receive` is the dispatch
of `srv_process`, including the DENY of a disabled mode, which still runs the
handler. `Crash` may come between any two actions.

`Startup` has a coarser thread: `place` is the place in `srv_init`, `role` the role
it works for (`srv_inir` and `srv_iniv` are the same code for two directories,
but for the list of candidates and the signature `rps` over the Registrar's key,
which only the Accountant has). `sec`, `pub` and `list` are the files, `own` and
`peer` the keys in memory (`x`, `XX` and `YY`), `e` the error of the latest
start. Its steps are filling the random generator (`InitGenerator`), reading or
creating the list (`LoadList`), opening the database with its tables (`OpenDb`),
the secret (`LoadSec`, `Create`, `WriteSec`), the public key (`OpenPub`,
`WritePub`, `CheckPub`), the other role's key (`LoadPeer`) and the socket
(`Listen`). A step ends where a file changes: `fopen(.., "wt")` truncates
(`Create`, `OpenPub`), `fclose` makes the contents visible (`WriteSec`,
`WritePub`). `Faults` says what the environment may refuse: entropy, opening a
file for writing, the database, the table, opening or reading a file that is
there (`ReadAs`), the port. An own or foreign public key that cannot be read ends
the start; a secret that cannot be read is replaced; a list of candidates that
cannot be opened is created anew, which truncates it. `srv_gets` is an operator: it
reads the keys and changes nothing. `served`, `unread` and `failed` (the files that
failed in this start) record history and are read by no action.

`Transport` keeps the names of `trr.c`. One call of `tcp_read` is one action
(`Accept`, `Poll` or `NoConnection`), as the code cannot be interrupted between
its lines; clients connect, send any number of bytes and leave between the
calls. `wire` is the receive buffer of the kernel. `WebTransport` is built the
same way. `MainLoop` extends both and adds the place in the loop; the handlers
are one action there, since `Registrar` and `Accountant` model what they do.

`Election` instantiates the two abstract specifications, which the detailed
modules implement, and adds what joins them: `Allowed` is the test of the mode
flag before each handler, `Certified` the check of the Registrar's signature in
`srv_join`, `SignedByOwner` the check of stamp and signature in `srv_vote`.
`Identify` is `srv_idnt`, of which `exposed` keeps whether everybody knows the
secret of the session. Each of its actions is one handler without its statements. `Phases` is what the
operator does: `NextPhase` restarts the server with other letters.

`WebPages` has one action per call of the main loop: `Put` parses the request,
`Get` writes one row (`GetNothing` when there is none), `End` the links. Between
the pages the handlers change the tables; these actions repeat of `Registrar`
and `Accountant` only what a page shows: `Sec`, `Sig`, `Vot` and the mark. The
reader is a client who follows the link "Next" (`StartWalk`, `AskAgain`,
`FollowNext`); `AskOther` is everybody else. `reader` is history, no action of
the server reads it.

The functions have no state. A loop of the code is a recursive function over
its index, a result and its carry a record, a sequence of assignments one
expression. Where a header binds a name to one of several implementations
(`bi_add`, `fp2_mul`, `ecfp_mul`, ...), the name is a CONSTANT operator and
`Pages.cfg` binds it as the header does. In `Arithmetic` a state is the input of
one function: `Choose` takes an input, the invariants compare the function with
its reference there, and the input is put away.

### Abstractions

* A ciphertext is the triple (candidate, symmetric key, counter) it was made
  of; a MAC is named by the ciphertext it authenticates; a decryption succeeds
  exactly when counter and key are those of the triple. Public key and 16-byte
  stamp are one value. A blind signature is named by the blinded point
  (the signature is deterministic), a shared secret by a name that differs
  from all names in use (32 random bytes), or by the name `Common` if the client's
  key is zero or a point of small order: the server's random number is a multiple
  of 8, so the product is then zero, whoever multiplies.
* The server does not check at VOTE that the counter belongs to the encrypted
  text or that the MAC is one. The devices of the keys in `Honest` send what the
  client's protocol makes (`Sealed`); those of other keys sign any combination.
  `StoredBallotOpens` and `VotesGetOpened` are about honest keys, everything else
  is about all.
* `good` stands for the length and CRC checks, `sig` for the signature checks
  (`ERR_*_POINT`, `ERR_*_HASH`, `ERR_*_SIG`, `ERR_*_VERIFY` have no effect but
  the code). `ERR_*_LEN` is merged with `ERR_*_CRC`. `ERR_*_DBOPEN` and the
  failure to hash a ticket are left out of the handlers: `srv_init` stops when a
  database does not open (module `Startup`), and the hash to the curve succeeds. `ERR_REGS_SSLEN`,
  `ERR_REGS_BADSIG` and `ERR_VOTE_KEY` need a field that no handler writes.
* In `WebPages` the mark and the text of a ballot are set in one step: that they
  are two is the matter of `Accountant`. The text of a row is left out, its
  number and its mark are kept. The length of a candidate's name is layout.
* In `Fields` and above, an element is a number, not its Montgomery form; what
  looks at the words (signs, compression, hashes to a point) says so with
  `MONT_R`. That the words compute these numbers is the matter of `Words`.
* A SQL statement is atomic: it happens, or returns an error and changes
  nothing. Rows are never deleted, so row *i* of `Voters` has `Idn` *i*.
* Candidates' names fit the 15 characters of a disclosed vote.
* A key pair is one value; two values are equal exactly when the bytes are. A
  key file is missing, too short, or holds a key: nobody edits it. What a
  closed file holds survives a crash.
* A client encrypts the name of a candidate; an empty or another plaintext is
  not modelled.
* A byte on a port is named by its sender and its position, the length in a
  header is a number chosen by the client. Times are seconds relative to the
  accept of the present connection, cut off where comparisons cannot tell them
  apart; the clock does not run backwards. `tcp_job` only decides whether
  `tcp_read` sleeps first and is left out. Whether an answer or a page reaches
  the client makes no difference to the server: it closes the connection.
* A message in flight is a `Receive` that may come at any later time; a
  duplicate is a second `Receive`. A packet whose handler the mode forbids reaches
  the handler with the type DENY (`Denied`). Only the answers of the Registrar can be
  lost explicitly; for the Accountant a lost ticket is one nobody uses.

Definitions whose comment begins with "Deviation" are plausible wrong versions
of the definition that follows them. Nothing uses them: they document what each
property distinguishes (put one in the place of its neighbour and the property
named in `PROJECT.json` fails).

## What TLC checks

| run | instance | result |
|---|---|---|
| `accountant_safety` | 2 keys, one honest and one that signs anything, 2 candidates, 2 symmetric keys, counters 0-2 and the mark 3, a day mode `jv` and a later mode `o`, crashes and failing statements | all safety properties and `BoxSpec` hold |
| `accountant_live` | 2 keys, 2 ballots, no faults, all modes | `CountedIsFlagged` and `VotesGetOpened` hold |
| `accountant_sentinel` | as above, one ballot, clients may send the counter 0x7FFFFFFF | violates `FlaggedIsCounted` |
| `accountant_torn_open` | one ballot, crashes | violates `CountedIsFlagged` |
| `registrar_safety` | 2 invited voters with 2 blinding factors each, 1 person without a password, 1 unlisted number, 5 secrets and the common one of degenerate keys, all faults, modes on and off | all safety properties and `CredentialSpec` hold |
| `registrar_live` | 2 invited voters, strangers, no faults | `RegistrationCompletes` holds |
| `startup_safety` | 7 key pairs, at most two crashes, all of `Faults` at any time (any file can fail to open or to read) | all safety properties hold |
| `startup_torn` | one crash, no other fault | violates `ComesUp` |
| `transport` | 2 packet clients that come back for ever, headers of 2 bytes, lengths below, at and above the limits, 1 second of time-out | all properties hold |
| `main_loop` | 1 packet client and 2 web clients that come back for ever | all properties hold |
| `election` | 2 persons, 3 keys, 2 candidates, the phases `r`, `jv`, `o` of the repository's README | all properties hold |
| `pages` | 2 persons, 2 ballots, 2 lines per page, a reader and others in both languages; words of 2 bits, a curve over 19 elements, byte sequences up to 7 bytes | all properties hold |

Safety properties of the Accountant:

* `StoredBallotOpens`: counter, MAC and ciphertext of an honest key's row always
  belong to the same packet, although they are written by three statements.
* `TicketsStayTrue`: no ticket is ever contradicted by the table. Replays,
  repeated OPENs and torn VOTEs must all respect it.
* `VoteFinal`, `CounterOneWay`, `ModesRespected`: what a step may never do.
* `FlaggedIsCounted`, `CountedIsFlagged`: the two halves of the published
  record agree.
* `BoxSpec`: the refinement; it contains "one ballot per key".

Of the Registrar:

* `OneCredential`: no person obtains two blind signatures.
* `OwnPoint`: what is signed for a person is the person's own point, unless the
  session held at that moment has the secret of a degenerate key. Strangers'
  other sessions, and degenerate ones that were replaced, never lead to a
  signature of a stranger's point.
* `HolderIsShown`, `FlagOneWay`: the published fact of registration.
* `CredentialSpec`: the refinement.

Of the start:

* `RunsWithMatchingKeys`: a server that serves clients signs with the keys its
  files hold, the roles verify with each other's keys, and GETS gives these keys
  to the clients.
* `KeysAreKept`: keys change only for a role whose secret file could not be
  read; then they do change, silently (`srv_iniv.c:153`).
* `RefusesForReason`: a server that once served clients is refused by its keys or
  its list (`KeyErrors`) only if a file failed in this very start, or a complete
  secret could not be read in an earlier one. A public key that cannot be opened
  stops one start and leaves no trace; an unreadable secret is the only fault
  whose effect outlives the start, besides the names of the candidates.

Of the ports:

* `PacketIsOwn`, `RequestIsOwn`: what is handled or served is exactly what the
  client that gets the answer has sent, although buffers and counters are
  global and connections end at any point.
* `NoEarlyClose`: `tcp_timenow` is up to 200 polls and a whole idle period old,
  and yet no client loses the connection before its time.
* `EveryoneLeaves`: no client holds the packet port for ever, checked for the
  port alone and again below a web port with clients that never stop coming.
* `RequestIsAnswered`: a complete web request is answered or told "busy".
  It assumes that clients who leave before they are accepted do not keep
  coming: `webtcp_read` returns early for each of them.

Of the election:

* `BallotsAreBacked`: one person, one vote. The Accountant knows no persons; it
  is the one signature per person, its check at JOIN and the one ballot per key
  together that keep ballots below registrations.
* `CountedAsChosen`: who knows the number of a ballot cannot vote on it.
* `NoVoteAfterDisclosure`: no vote depends on a disclosed one.
* `EveryVoteIsCounted`: what was stored on one day is counted after the others.

Of the pages:

* `PagesShowAll`: who follows "Next" to the end has seen every row that was in
  the table when he began, although persons are added, ballots are issued and
  others page in between with the same global cursor.
* `TotalsAgree`: the numbers of the first page are counted by other code than
  the marks in the rows, and agree with them.

Of the functions, each with the reference beside it in `WordValues`,
`TowerValues`, `Arithmetic` or `Formats`:

* `WordsAreIntegers`: words, carries and reductions are integers and residues.
  Of two routines that nothing calls under `config.h` only a part is asked: `bi_subtract_word`
  where the lowest word borrows nothing, `bi_subtract_vl` with one word to
  subtract: beyond that both are wrong (see below).
* `FieldsAgree`: Karatsuba, Toom-Cook, Chung-Hasan, conjugation, Frobenius
  constants and cyclotomic squares are the product, the power and the square.
* `CurvesAgree`: every way to multiply is repeated addition; hashes lie in the
  groups; a number is accepted as a short form exactly if its residue is the `x`
  of a point, and stands for that point. `bls_uncompress` drops a bit and reduces,
  so numbers above the prime are further names of the same points (in the run 31
  and 63 are 12).
* `SignaturesVerify`: the pairing is bilinear and not constant, and a signature
  that was blinded, signed and unblinded is one that `bls_verify` accepts. What
  else it accepts is not asked: it compares one of twelve coefficients, which a
  signature shares with its negative, and in the small field with others.
* `StreamsAgree`: decoders undo encoders, checksums notice a changed byte, and
  data in pieces count as the whole. UTF-8 that the server writes is right by
  RFC 3629; the code's own decoder is asked for characters of one byte or three
  only, since it reads no character of two bytes.

`CHECK_DEADLOCK` is off in `Election.cfg`, where the election ends when nobody
has anything left to do in the last phase, and in `Pages.cfg`, where the tables
are full and the reader has come to the end.

**What the violations say.** The server accepts 0x7FFFFFFF as the counter of a
VOTE, and that ballot is published as opened and never counted
(`accountant_sentinel`); with the counter excluded (`SentCounters` without
`Opened`) the property is proved. A crash between the two UPDATEs of OPEN makes
a ballot that is counted but not shown as opened, and that no OPEN can repair
(`accountant_torn_open`). A crash between the two key files of
the first start leaves a secret without a public key; every later start loads
the secret, misses the public key and gives up, until somebody removes the
secret file by hand (`startup_torn`). 
What the models show besides, without a run of its own:

* A list of candidates that exists but cannot be opened is truncated by the
  attempt to create it (`LoadList`, `srv_iniv.c:107`).
* In a session with a degenerate key a point is signed that is not the person's
  (`SharedSecrets`, `srv_idnt.c:110-124`); `OwnPoint` says so.
* The legend of the web page explains a flag "Q - invited" (`websrv.c:357`) where
  `srv_webr.c:48` writes `P` (`WebFlag`).
* `bi_subtract_vl` takes `(*b+i)` for `*(b+i)` in its borrow (`bi.c:184`): with a
  subtrahend of two words or more it is not `a - b`, not even 0 - 0.
* `utf2wchar` reads no character of two bytes (`Lead`, `convert.c:161`), so a text
  ends at its first Cyrillic letter. `win2utf` writes such characters; the server
  calls neither this decoder nor `bi_subtract_vl`.

**Bounds.** Constants bound the data; nothing is bounded by a constraint. Two
keys and two persons are enough for every pair of rows or actors to disturb
each other; there is no code that relates three. Two counters a client may send
give older, equal and newer packets; with the row's initial 1 and the mark they
distinguish all comparisons of `srv_vote`. `Ids = {1}` in `accountant_safety`
lets clients vote on the first ballot only, while the second is issued;
handlers touch one row. Five secrets are two stored, two held by voters, and a
fresh one, so that a new session is always possible. Seven key pairs are two in
each of the secret files, public files and the clients' memory, and a fresh
one; two crashes (`MaxCrashes`) let a start that follows a crash crash again.
Two packet clients give a first, a waiting and (coming back) a next one. A
header of 2, packets of 3 and a limit of 4 bytes are the smallest sizes at
which a header can be split and the length be too small, right and too large;
`GET_LEN = 2` with requests of up to 3 bytes lets a request be split and be too
long. Two persons and three keys let a person have more keys than ballots and
try each other's. In `pages`, two lines per page and two rows give an empty, a half,
a full and a following page; `Ids = {2, 3}` leaves a gap before the first number,
as persons' numbers need not begin with 1; a reader may ask for the numbers up
to 3. Three words of two bits give a first, a middle and a last word, each of
which can be 0, all ones or neither, so every carry chain occurs; the moduli 17,
19 and 21 fill the words as the code's prime does (three times the prime fits).
The curve y² = x³ + 2 over the field of 19 elements with u = -1 is the curve of
the code's family for the smallest u: it has 13 points, a sextic twist, and the
same formulas throughout; its generators are (4, 3) and ((1, 8), (8, 11)).
`MONT_R = 13` and `NUMBER_BITS = 5` make the Montgomery form and the sign bit
visible. The sponges are cut to lanes of 8 bits and 2 rounds, with blocks of 3
and 4 bytes, so that padding begins at every place of a block; the 800-bit
permutations differ in numbers only. Symmetry is used in the safety runs only, over candidates and symmetric keys (not
over the Accountant's keys, one of which is honest), over secrets, blinding
factors and invited persons, or over key pairs.

**Fairness.** `WF(Handle)` and `WF(Start)`: the main loop is a sequential
program that blocks on nothing inside a handler, and the operator starts the
server (of `Startup`: `WF(Initialize)` and `WF(Start)`; of the ports: `WF` of the loop,
whose calls are all non-blocking, and of the clock; clients are never fair;
of `Election`: `WF(NextPhase)`, the operator's calendar, and `WF(Open(i))`, a voter
who repeats OPEN, which `VotesGetOpened` shows to succeed). A request of a client is strongly fair: the listening socket is polled
for ever and a client that repeats a packet is served again and again, although
not at every poll. `RegistrationCompletes` assumes in addition that strangers
stop at some time; without that assumption TLC shows the endless race in which
every REGS finds its secret replaced (`srv_idnt.c:154`), and nothing in the
code prevents it.

## What is proved

All theorems are for arbitrary constants under the named assumptions of the
modules (`CounterAssumption`, `IdAssumption`, `VoteTextAssumption`,
`KeyAssumption`, `ModeAssumption` of `Accountant`; `RowsAssumption`,
`NullAssumption`, `FaultAssumption` of `Registrar`; `ContentsAssumption` of
`Startup`; `VotersAssumption`, `PhasesAssumption` of `Election`;
`LengthAssumption` of `Transport`; a `WebAssumption` each of `WebTransport` and
`WebPages`; `WordsAssumption` of `Words`; `PrimeAssumption` of `Fields`), which
TLC evaluates on every run that extends the module.

**Accountant** (`AccountantProofs`). The invariants of the runs are not
inductive: in the middle of a handler they say nothing of the row about to be
written. `IInv` adds one conjunct per place of the thread:

* `Saving`: between the SELECT of `srv_vote` and its last UPDATE the packet of an
  honest key is `Sealed`, the row holds
  no vote, its counter is at most the packet's, and the column already written
  equals the packet's. This is why the three UPDATEs, in the order counter, MAC,
  vote, keep `StoredBallotOpens`: the vote is last, so an interruption never
  leaves a ciphertext with a foreign counter or MAC.
* `Opening`: the scratch record holds the ciphertext, and the row holds it too
  or, after the first UPDATE, its plaintext.
* `Echoing`, `Answering`: when there is no error, the scratch record holds what
  the row holds, so the ticket is true when it is signed; `TicketsStayTrue` is
  then kept because rows change only as `VoteFinal` says.
* `OpenTicketsMarked`: whoever has an opening ticket, the ballot carries the
  mark; therefore no VOTE is accepted for it.
* `KeysDistinct`: no two rows have one key (the INSERT follows an empty SELECT).

`Invariance` proves `IInv`; `TypeCorrect`, `BallotsOpen`, `OneBallotPerKey` and
`TicketsTrue` follow. The action properties (`VotesAreFinal`, `CountersGoOneWay`,
`ModesAreRespected`) are proved from `IInv` and one lemma, `TableSteps`, that
classifies what a step can do to the table: issue, save one column, disclose,
mark. `Refinement` maps these to the actions of `BallotBox`; it and
`FlaggedAreCounted` assume `Opened \notin SentCounters`, and use a second
invariant, `Marked`: under that assumption a marked ballot holds a candidate's
name. `CountedAreFlagged` assumes `Faults = {}` and adds `Disclosing`: a text
without its mark is seen only between the two UPDATEs of OPEN. With faults the
property is false (`accountant_torn_open`), so the assumption cannot go.

**Registrar** (`RegistrarProofs`). `IInv` carries over the UPDATE what the
SELECT established: the person has no signature yet, the point is the person's
own because the MAC was made with the stored secret (or the secret is `Common`),
and what is answered is what the table holds. `OneCredentialPerPerson`,
`OwnPointSigned`, `HoldersAreShown`, `FlagsAdvance` and `Refinement` follow, for any
losses, crashes and strangers, whose keys may be degenerate. One assumption on
strangers is in the model: nobody makes the MAC of a secret he does not know
(`Sendable`), and only what is said of a point's owner rests on it. `Common` is
known to all.

**Start** (`ServerProofs`). `StartIInv` says for each place of the initialization
which files agree already (`SecretAgrees`, `FirstIsAgreed`, `BothAreAgreed`,
`PeersAreRead`), that files of a role whose secret was always read still hold
the served keys (`FilesAreKept`), that a start which ended over a file has it in
`failed`, lost a secret before or never served, and that new keys are made only at a first
start or for an unreadable secret (`CreatesForReason`). `MatchingKeys`,
`KeysKept` and `StartsAgain` (`RefusesForReason`) follow, for any number of crashes and any faults.

**Election** (`ElectionProofs`). A person's signature may be on anybody's point
while the person is `exposed`; the counts do not depend on whose it is. `IInv`
says that what voters hold is what was
signed (`HandedIsSigned`), that the key of every ballot is certified
(`BallotsAreCertified`) and has one ballot (`OneBallotPerKey`), and that a ballot
holds nothing, its owner's ciphertext or its owner's choice (`BallotIsOwners`).
`OnePersonOneVote` maps each ballot to the person whose signature certified its
key; the map is an injection, because a person has one signature and the
signature one key, so ballots are at most as many as registered persons.
`NoLateVotes` assumes `SeparatePhases`, the advice of the repository's README:
the server itself may be run in all modes at once, and then the property is
false.

**Ports** (`ServerProofs`). `TcpIInv` says that the buffer is the beginning of the
present client's stream (`BufferIsOwn`), that the kernel holds the rest
(`StreamsAreWhole`), that the counters agree with the header received so far
(`Expected`), and that the clock is late and the time-out set from a fresh
reading (`ClockLags`). `PacketsAreOwn` and `ConnectionsLast` follow for any
clients, lengths and cuts. `LoopKeepsPort` is a refinement: the main loop never
polls before the last packet is answered, so what is proved of the port holds in
the loop. `WebIInv` does the same for the web port, whose clients replace each
other; `RequestsAreOwn` follows.

**Pages** (`WebPagesProofs`). `IInv` says in which order the flags of a row are
set (`FlagsInOrder`, `OpenedHasText`), that a page which counts reads tables that
stand still (`CountingPage`), that the rows already on a page are all the rows
between the page's first number and the cursor (`ReadersPage`, with `Covers`),
and that the reader's pages join without a gap (`Walked`). `PagesAreComplete` and
`TotalsAreFlags` follow for tables and pages of any size. The state machine of
the functions is part of the same run, so the theorem on the words of every
state, `WordsStayIntegers`, stands here too; see **Arithmetic**.

**Encodings** (`FunctionProofs`). A CRC is linear: the difference of two
sequences that differ in one byte runs through the register like a sequence of
its own, and a register that is not zero never becomes zero, because the
polynomial has its highest bit (`ChecksumsDetectAByte`). `HexTextReturns` and
`ShortsReturn` are the two conversions that packets and keys pass.

`Base64Returns` and `Base32Returns` are round trips. Base64 goes block by block:
three bytes give four characters and these the three bytes. What a short last
block lacks is written as `=`, which the decoder skips like any other character
that stands for nothing, so the number of characters that are left tells how many
bytes they hold. A text that does not fit the room is refused. Base32 reads ten
bytes as sixteen groups of five bits; that five bytes come back from eight groups
is one lemma (`FiveBytes`).

`StreamCipherReturns` (the stream of `shake.c`) and `AbsorbedInPieces` (the sponge
of `shake.c`, the hash of `Keccak-compact.c` and the CRC that `convert.c` carries
from call to call) hold whatever the permutation computes: the proofs use that it
maps sets of bits to sets of bits (`PermutationTyped`) and nothing else. The
invariant of the stream is that both sides are in the same state before each byte,
because what goes back into the state is the same byte on both sides (`Duplex`).
Absorbing is a loop over the bytes, so the loop over `a \o b` is the one over `b`
that starts where the one over `a` ended. They assume that widths and rounds are
numbers (`SpongeNumbers`) and that the hash has at most the 24 rounds for which
the code has constants (`HashNumbers`); `AbsorbedInPieces` is of whole bytes.

**Arithmetic** (`WordProofs`, `ArithmeticProofs`). For every width of a word,
number of words and modulus. The argument is a tower of contracts:

* `SumsAreExact`, `DifferencesAreExact`, `ComparisonsAreExact`,
  `ProductsAreExact`: words and carry together are the integer result; the
  invariant of each loop is the value of the words so far.
* `ExactWords` and `ExactProducts` say the same of the names that the headers
  bind; `StandardWordsAreExact` shows that the bound routines meet them, so the
  theorems that assume them are about a binding that exists.
* `FieldSumsAreReduced`, `FieldDifferencesAreReduced`,
  `FieldNegativesAreReduced`, `FieldDoublesAreReduced`: the result is below the
  modulus and is the residue, whether the words overflow or not.
* `LazyFieldIsExact`: the results stay congruent without being reduced, if
  `multipleMod` is the highest multiple of the modulus that fits the words
  (`HighestMultiple`).
* `MontyReductionIsExact`: the rows make the words vanish one by one; the result
  needs at most one subtraction if three times the modulus fits the words, as it
  does for the code's prime of 254 bits in 256; its argument may be the
  difference of two products that borrowed, and then stands for a negative
  number. `MontyProductIsExact` and `ExtensionProductIsExact` (the product of
  the quadratic extension, with three multiplications, unreduced sums and a
  borrowed difference) rest on it. `WholeMontyIsExact` says the same of the
  product with one multiple of the modulus for all words at once.
* `LazyProductIsExact`: operands that are not reduced may be multiplied too; the
  one subtraction of `multipleMod` leaves a congruent result that fits the words.
* `FieldHalvesAreReduced` and `DomainReturns`: the half modulo an odd modulus,
  and that an element comes back unchanged from Montgomery's domain.
* `BarrettIsExact`: the quotient that is estimated from the highest words is too
  small by two at most, so that two subtractions and their borrows decide between
  three numbers. `RepeatedSubtractionIsExact`: a modulus whose highest word is not
  zero is subtracted fewer than `Base` times.
* `ShiftsAreExact`, `ThirdsAreExact`, `HighestBitIsFound`, `SetBitsAreSet`,
  `BytesAreIndependent`: the routines of `bi.c` on bits and bytes. Two words side
  by side are shifted as one number; three has an inverse modulo every power of
  two, and the words of `bi_div3` are that inverse.
* `PowersAreExact` (from here on `ArithmeticProofs`, which extends `WordProofs`):
  the invariant of the loop from the highest bit down is that the result stands
  for the power by the bits read so far. `InversePowersAreExact` is the same with
  exponent p - 2 and Barrett's product.
* `InversesAreExact`: `fp_inv_binary` keeps two congruences between its four
  numbers and has the two that it halves without a common divisor (`Bezout`), so
  the last of them is 1; each turn halves the product of the two, so the loop ends
  within its bound; the power of two that was taken out is known from the number
  of turns and put back by one or two products. It needs an odd modulus and an
  inverse, and no prime.
* `ColumnProductIsExact`: `fp_mul_monty_fips` adds up columns instead of rows. The
  columns below the one that is gathered are the low words of the rows, and the
  three words of the accumulator hold a column with its carry if
  `2 * BI_WORDS <= Base` (`ColumnsFit`). The code's 8 words of 32 bits satisfy it
  by far. The 3 words of 2 bits of `Pages.cfg` do not; for them TLC checks the
  product for every pair.
* `BigsAreIntegers`, `LazyFieldsAreIntegers`, `ResiduesAreIntegers`: together the
  three comparisons of `WordValues`, and so `WordsStayIntegers`
  (`WebPagesProofs`): `WordsAreIntegers` holds in every state of the run, for
  every width and number of words with `ColumnsFit` and all moduli that are odd,
  fill their highest word and leave room for two more (`GoodModulus`). The
  hypotheses on the bindings (`ExactWords`, `ExactProducts`, `StandardProduct`) are
  those of the headers' bindings.

The loops are recursive functions (the lemmas on them open `WordProofs`, and
`FunctionProofs` uses them too). That such a function exists and that what
holds at its start and is kept by each step holds at the end is proved once
(`Iterates` and the lemmas on it), by taking the least index at which it would
fail: the library's induction theorems take a predicate as parameter, which the
provers cannot instantiate.

**The tower** (`FunctionProofs`). `TowerProductIsExact`, `TowerSquaresAreExact`
and `SparseProductIsExact` hold for every prime above 3, from the bindings of
the headers (`StandardTower`). The operations are first done over the integers
(`Int2`, `Int4`, `Int12`), where products commute and distribute; taking
residues commutes with each of them (`Residues2`, `Residues4`, `Residues12`),
although every `fp_` call reduces its own result. So Karatsuba's formulas, which
hold over the integers, hold for the code's elements, and the coefficients of
the result are the six sums that `Product12` of the reference adds up
(`ProductCoefficients`).

**Model-checked only.** The liveness properties (`VotesGetOpened`,
`RegistrationCompletes`, `EveryoneLeaves`, `RequestIsAnswered`,
`EveryVoteIsCounted`): TLAPS does not reason about fairness. Of `FieldsAgree`:
Toom and Cook's product of Fp12, inverses, powers, Frobenius maps, cyclotomic
squares, roots and residue symbols. `CurvesAgree` and `SignaturesVerify` are
properties of particular curves and identities of a degree beyond the provers'
arithmetic. Of `StreamsAgree`: the comparisons with text-book definitions, the
conversions of alphabets, and `ConstantsAgree`, which says that the code's
constants are the ones of Keccak and that SHA-1 gives its known values; it is an
evaluation, which is TLC's work. The round trips, the absorption in pieces and the
detection of a wrong byte are theorems, for data of any length. Of
`WordsAreIntegers`, with the two exceptions in its comment, nothing is left for
moduli of full length.

## Not modelled, and the plan

| left out | why |
|---|---|
| the HTML of the pages, the index page, the page of a denied request, error texts | text layout |
| names of 16 characters | the tally compares texts cut to 15; length is layout in these models |
| the Tor process, the address file, the search of the executable's path | other programs, the operating system |
| SQLite | vendored; a statement is atomic and durable, or fails and changes nothing |
| group signatures, encryption to identities | the server does not call them |
| X25519 | the shared secret is a name; that no key is refused, and that keys of small order give one common secret, is in `Registrar` |
| the sources of entropy | the generators are modelled from the bytes they are given |

Next: Toom and Cook's product and the inverses of the tower as lemmas over the
integers of its degree, and X25519 beside the curves.

The election takes the Accountant at the promise it keeps when no client sends
the counter 0x7FFFFFFF (see `Refinement`).
