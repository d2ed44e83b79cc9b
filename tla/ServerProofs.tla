---------------------------- MODULE ServerProofs ----------------------------
(***************************************************************************)
(* The process of a server.  Its start: keys and files, for any number of  *)
(* crashes, any set of faults and any set of key pairs.  Both ports and    *)
(* the loop that polls them: requests are not mixed up and connections are *)
(* not closed early, for any number of clients, any sizes of packets and   *)
(* any cuts of the byte streams.                                           *)
(***************************************************************************)
EXTENDS Startup, MainLoop, SequenceTheorems, TLAPS

-----------------------------------------------------------------------------
(* The start.                                                              *)

(* The key of role x is the same in its two files and in memory.           *)
Agreed(x) == own[x] \in KeyPairs /\ own[x] = sec[x] /\ own[x] = pub[x]

(* From the loaded or written secret on, memory and file agree.            *)
SecretAgrees ==
  place \in {"OPEN_PUB", "WRITE_PUB", "CHECK_PUB"} =>
    own[role] \in KeyPairs /\ own[role] = sec[role]

KeyInMemory == place = "WRITE_SEC" => own[role] \in KeyPairs

(* What the steps before have established, in the order of srv_init.       *)
FirstIsAgreed ==
  role = "vot" /\ place # "down" => Agreed("reg")

BothAreAgreed ==
  place \in {"LOAD_PEER", "LISTEN", "run"} => \A x \in Roles : Agreed(x)

PeersAreRead ==
  /\ place = "LOAD_PEER" /\ role = "vot" => peer["reg"] = own["vot"]
  /\ place \in {"LISTEN", "run"} =>
       /\ \A x \in Roles : peer[Other(x)] = own[x]
       /\ rps = [by |-> own["vot"], of |-> own["reg"]]

(* After the list was read or created it exists.                           *)
ListExists ==
  \/ list # "missing"
  \/ served = NoKeys /\ (place \in {"down", "RNG", "LIST"} \/ role = "reg")
                      /\ place \notin {"LOAD_PEER", "LISTEN", "run"}

(* The files of a role whose secret was always read hold the served keys.  *)
FilesAreKept ==
  served # NoKeys =>
    \A x \in Roles \ unread :
      served[x] \in KeyPairs /\ sec[x] = served[x] /\ pub[x] = served[x]

(* New keys are made at a first start, or for a secret nobody could read.  *)
CreatesForReason ==
  place \in {"CREATE", "WRITE_SEC", "OPEN_PUB", "WRITE_PUB"} =>
    served = NoKeys \/ role \in unread

(* A running server has published its keys; an error ended the start.      *)
Published == place = "run" => served # NoKeys
ErrorEnds == e # "NONE" => place = "down"

StartIInv ==
  /\ StartTypeOK
  /\ SecretAgrees /\ KeyInMemory /\ FirstIsAgreed /\ BothAreAgreed /\ PeersAreRead
  /\ ListExists /\ FilesAreKept /\ CreatesForReason /\ Published /\ ErrorEnds
  /\ RefusesForReason

USE DEF Roles, Other

LEMMA StartInitInvariant == StartInit => StartIInv
  BY ContentsAssumption
  DEF StartInit, StartIInv, StartTypeOK, Contents, Lists, Steps, Errors, KeyErrors, NoKeys, NoSignature, SecretAgrees, KeyInMemory,
      FirstIsAgreed, BothAreAgreed, PeersAreRead, ListExists, FilesAreKept, CreatesForReason,
      Published, ErrorEnds, RefusesForReason, NoSignature, KeyErrors

(* A start that stops leaves the files as they are; its error must have a  *)
(* reason.                                                                 *)
LEMMA StopInvariant ==
  ASSUME StartIInv, NEW error \in Errors \cup {"NONE"}, Stop(error),
         failed' \subseteq {"list", "sec", "pub"},
         error \in KeyErrors => failed' # {} \/ served = NoKeys \/ unread # {}
  PROVE  StartIInv'
  BY DEF Stop, Files, StartIInv, StartTypeOK, Contents, Lists, Steps, Errors, KeyErrors, NoKeys, NoSignature, SecretAgrees,
      KeyInMemory, FirstIsAgreed, BothAreAgreed, PeersAreRead, ListExists, FilesAreKept,
      CreatesForReason, Published, ErrorEnds, RefusesForReason

LEMMA StartInvariant == ASSUME StartIInv, Start PROVE StartIInv'
  BY DEF Start, Files, Memory, StartIInv, StartTypeOK, Contents, Lists, Steps, Errors, KeyErrors, NoKeys, NoSignature, SecretAgrees,
      KeyInMemory, FirstIsAgreed, BothAreAgreed, PeersAreRead, ListExists, FilesAreKept,
      CreatesForReason, Published, ErrorEnds, RefusesForReason

LEMMA CrashInvariant == ASSUME StartIInv, Crash PROVE StartIInv'
  BY ContentsAssumption DEF Crash, Files, Memory, StartIInv, StartTypeOK, Contents, Lists, Steps, Errors, KeyErrors, NoKeys, NoSignature, SecretAgrees,
      KeyInMemory, FirstIsAgreed, BothAreAgreed, PeersAreRead, ListExists, FilesAreKept,
      CreatesForReason, Published, ErrorEnds, RefusesForReason

LEMMA QuitInvariant == ASSUME StartIInv, Quit PROVE StartIInv'
  BY StopInvariant DEF Quit, StartIInv, StartTypeOK, KeyErrors

LEMMA InitGeneratorInvariant == ASSUME StartIInv, InitGenerator PROVE StartIInv'
  <1>1. CASE Stop("RNG")
    BY <1>1, StopInvariant DEF InitGenerator, StartIInv, StartTypeOK, Errors, KeyErrors
  <1>2. CASE ~Stop("RNG")
    <2>1. /\ place = "RNG" /\ place' = IF role = "vot" THEN "LIST" ELSE "OPEN_DB"
          /\ UNCHANGED <<sec, pub, list, own, peer, rps, role, e, served, unread, failed, crashes>>
      BY <1>2 DEF InitGenerator, Files, Memory, Rest
    <2> QED
      BY <2>1 DEF StartIInv, StartTypeOK, Contents, Lists, Steps, Errors, KeyErrors, NoKeys, SecretAgrees,
        KeyInMemory, FirstIsAgreed, Agreed, BothAreAgreed, PeersAreRead, ListExists,
        FilesAreKept, CreatesForReason, Published, ErrorEnds, RefusesForReason
  <1> QED BY <1>1, <1>2

(* What was noted of a file in this start.                                 *)
LEMMA NoteType ==
  ASSUME StartTypeOK, NEW file \in {"list", "sec", "pub"}, NEW failure \in BOOLEAN,
         Note(file, failure)
  PROVE  /\ failed' \subseteq {"list", "sec", "pub"}
         /\ failure => failed' # {}
  BY DEF Note, StartTypeOK

(* The list of candidates is only missing before a first start.            *)
LEMMA LoadListInvariant == ASSUME StartIInv, role = "vot", LoadList PROVE StartIInv'
  <1> DEFINE Opened(unreadable) == list # "missing" /\ ~unreadable
  <1>1. PICK unreadable \in BOOLEAN, refused \in BOOLEAN :
          /\ Note("list", ~Opened(unreadable) /\ (list # "missing" \/ refused))
          /\ IF ~Opened(unreadable) /\ refused
               THEN Stop("SAVEXX")
               ELSE /\ list' = IF Opened(unreadable) THEN list ELSE "empty"
                    /\ place' = "OPEN_DB"
                    /\ UNCHANGED <<sec, pub, Memory, role, Rest>>
    BY DEF LoadList, MayFail
  <1>2. StartTypeOK /\ place = "LIST" BY DEF StartIInv, LoadList
  <1>3. /\ failed' \subseteq {"list", "sec", "pub"}
        /\ ~Opened(unreadable) /\ (list # "missing" \/ refused) => failed' # {}
    BY <1>1, <1>2, NoteType
  <1>4. CASE ~Opened(unreadable) /\ refused
    BY <1>1, <1>3, <1>4, StopInvariant DEF Errors, KeyErrors
  <1>5. CASE ~(~Opened(unreadable) /\ refused)
    <2>1. /\ place = "LIST" /\ place' = "OPEN_DB"
          /\ list' \in {list, "empty"} /\ list' # "missing" /\ list' \in Lists
          /\ UNCHANGED <<sec, pub, own, peer, rps, role, e, served, unread, crashes>>
      BY <1>1, <1>2, <1>5 DEF Memory, Rest, StartTypeOK, Lists
    <2> QED
      BY <1>3, <2>1 DEF StartIInv, StartTypeOK, Contents, Lists, Steps, Errors, KeyErrors, NoKeys,
        SecretAgrees, KeyInMemory, FirstIsAgreed, Agreed, BothAreAgreed, PeersAreRead, ListExists,
        FilesAreKept, CreatesForReason, Published, ErrorEnds, RefusesForReason
  <1> QED BY <1>4, <1>5

(* The databases open after the list.                                      *)
LEMMA OpenDbInvariant == ASSUME StartIInv, OpenDb PROVE StartIInv'
  <1>1. CASE Stop("DBOPEN") \/ Stop("DBTAB")
    BY <1>1, StopInvariant DEF OpenDb, StartIInv, StartTypeOK, Errors, KeyErrors
  <1>2. CASE ~(Stop("DBOPEN") \/ Stop("DBTAB"))
    <2>1. /\ place = "OPEN_DB" /\ place' = "LOAD_SEC"
          /\ UNCHANGED <<sec, pub, list, own, peer, rps, role, e, served, unread, failed, crashes>>
      BY <1>2 DEF OpenDb, Files, Memory, Rest
    <2> QED
      BY <2>1 DEF StartIInv, StartTypeOK, Contents, Lists, Steps, Errors, KeyErrors, NoKeys, SecretAgrees,
        KeyInMemory, FirstIsAgreed, Agreed, BothAreAgreed, PeersAreRead, ListExists,
        FilesAreKept, CreatesForReason, Published, ErrorEnds, RefusesForReason
  <1> QED BY <1>1, <1>2

(* A file may read as missing or short, but never as another key.          *)
LEMMA ReadsOnlyWhatIsThere ==
  ASSUME NEW file, NEW line \in ReadAs(file)
  PROVE  line = file \/ line \in {"missing", "short"}
  BY DEF ReadAs

LEMMA LoadSecInvariant == ASSUME StartIInv, LoadSec PROVE StartIInv'
  <1> USE DEF StartIInv, StartTypeOK, Contents, Lists, Files
  <1>1. PICK line \in ReadAs(sec[role]) :
          /\ IF SecretLoaded(line)
               THEN own' = [own EXCEPT ![role] = line] /\ place' = "CHECK_PUB"
               ELSE own' = own /\ place' = "CREATE"
          /\ unread' = IF line # sec[role] /\ sec[role] \in KeyPairs
                         THEN unread \cup {role} ELSE unread
          /\ Note("sec", line # sec[role])
    BY DEF LoadSec
  <1>0. /\ failed' \subseteq {"list", "sec", "pub"}
        /\ line \in KeyPairs => line = sec[role]
    BY <1>1, NoteType, ReadsOnlyWhatIsThere, ContentsAssumption
  <1>2. /\ place = "LOAD_SEC" /\ role \in Roles
        /\ UNCHANGED <<sec, pub, peer, rps, role, e, served, crashes, list>>
    BY DEF LoadSec
  <1>3. StartTypeOK'
    BY <1>0, <1>1, <1>2 DEF SecretLoaded, Steps, Errors, KeyErrors
  <1>4. SecretAgrees'
    BY <1>0, <1>1, <1>2 DEF SecretLoaded, SecretAgrees
  <1>5. FirstIsAgreed'
    BY <1>0, <1>1, <1>2 DEF SecretLoaded, FirstIsAgreed, Agreed
  <1>6. CreatesForReason'
    BY <1>0, <1>1, <1>2 DEF SecretLoaded, CreatesForReason, FilesAreKept
  <1>7. FilesAreKept'
    BY <1>1, <1>2 DEF FilesAreKept, NoKeys
  <1>8. (KeyInMemory /\ BothAreAgreed /\ PeersAreRead /\ Published /\ ErrorEnds /\ ListExists)'
    BY <1>1, <1>2 DEF KeyInMemory, BothAreAgreed, PeersAreRead, Published, ErrorEnds, ListExists
  <1>9. RefusesForReason'
    BY <1>2 DEF ErrorEnds, KeyErrors, RefusesForReason
  <1> QED BY <1>3, <1>4, <1>5, <1>6, <1>7, <1>8, <1>9

(* Creating may replace the secret of the role that is initialized: the    *)
(* other role's files, and files that must be kept, are out of its reach.  *)
LEMMA CreateInvariant == ASSUME StartIInv, Create PROVE StartIInv'
  <1> USE DEF StartIInv, StartTypeOK, Contents, Lists
  <1>1. place = "CREATE" /\ role \in Roles /\ (served = NoKeys \/ role \in unread)
    BY DEF Create, CreatesForReason
  <1>n. failed' \subseteq {"list", "sec", "pub"}
    BY NoteType DEF Create, MayFail
  <1>2. CASE Stop("SAVEX")
    BY <1>1, <1>n, <1>2, StopInvariant DEF Errors, KeyErrors
  <1>3. CASE ~Stop("SAVEX")
    <2>1. PICK k \in FreshKeyPairs :
            /\ own' = [own EXCEPT ![role] = k]
            /\ sec' = [sec EXCEPT ![role] = "short"]
            /\ place' = "WRITE_SEC"
            /\ UNCHANGED <<pub, list, peer, rps, role, Rest>>
      BY <1>3 DEF Create
    <2>2. k \in KeyPairs BY DEF FreshKeyPairs
    <2>3. StartTypeOK' BY <1>1, <1>n, <2>1, <2>2 DEF Rest, Steps, Errors, KeyErrors
    <2>4. (SecretAgrees /\ KeyInMemory /\ BothAreAgreed /\ PeersAreRead /\ Published /\ ErrorEnds /\ ListExists)'
      BY <1>1, <2>1, <2>2 DEF Rest, SecretAgrees, KeyInMemory, BothAreAgreed,
        PeersAreRead, Published, ErrorEnds, ListExists
    <2>5. FirstIsAgreed' BY <1>1, <2>1 DEF FirstIsAgreed, Agreed
    <2>6. FilesAreKept' BY <1>1, <2>1 DEF Rest, FilesAreKept, NoKeys
    <2>7. (CreatesForReason /\ RefusesForReason)'
      BY <1>1, <2>1 DEF Rest, CreatesForReason, RefusesForReason, ErrorEnds, KeyErrors, NoKeys
    <2> QED BY <2>3, <2>4, <2>5, <2>6, <2>7
  <1> QED BY <1>2, <1>3

LEMMA WriteSecInvariant == ASSUME StartIInv, WriteSec PROVE StartIInv'
  <1> USE DEF StartIInv, StartTypeOK, Contents, Lists
  <1>1. /\ place = "WRITE_SEC" /\ role \in Roles /\ own[role] \in KeyPairs
        /\ served = NoKeys \/ role \in unread
    BY DEF WriteSec, CreatesForReason, KeyInMemory
  <1>2. /\ sec' = [sec EXCEPT ![role] = own[role]]
        /\ place' = "OPEN_PUB"
        /\ UNCHANGED <<pub, own, peer, rps, role, e, served, unread, failed, crashes, list>>
    BY DEF WriteSec, Memory, Rest
  <1>3. StartTypeOK' BY <1>1, <1>2 DEF Steps, Errors, KeyErrors
  <1>4. (SecretAgrees /\ KeyInMemory /\ BothAreAgreed /\ PeersAreRead /\ Published /\ ErrorEnds /\ ListExists)'
    BY <1>1, <1>2 DEF SecretAgrees, KeyInMemory, BothAreAgreed,
      PeersAreRead, Published, ErrorEnds, ListExists
  <1>5. FirstIsAgreed' BY <1>1, <1>2 DEF FirstIsAgreed, Agreed
  <1>6. FilesAreKept' BY <1>1, <1>2 DEF FilesAreKept, NoKeys
  <1>7. (CreatesForReason /\ RefusesForReason)'
    BY <1>1, <1>2 DEF CreatesForReason, RefusesForReason, ErrorEnds, KeyErrors, NoKeys
  <1> QED BY <1>3, <1>4, <1>5, <1>6, <1>7

LEMMA OpenPubInvariant == ASSUME StartIInv, OpenPub PROVE StartIInv'
  <1> USE DEF StartIInv, StartTypeOK, Contents, Lists
  <1>1. /\ place = "OPEN_PUB" /\ role \in Roles
        /\ own[role] \in KeyPairs /\ own[role] = sec[role]
        /\ served = NoKeys \/ role \in unread
    BY DEF OpenPub, CreatesForReason, SecretAgrees
  <1>n. failed' \subseteq {"list", "sec", "pub"}
    BY NoteType DEF OpenPub, MayFail
  <1>2. CASE Stop("SAVEXX")
    BY <1>1, <1>n, <1>2, StopInvariant DEF Errors, KeyErrors
  <1>3. CASE ~Stop("SAVEXX")
    <2>1. /\ pub' = [pub EXCEPT ![role] = "short"]
          /\ place' = "WRITE_PUB"
          /\ UNCHANGED <<sec, own, peer, rps, role, e, served, unread, crashes, list>>
      BY <1>3 DEF OpenPub, Memory, Rest
    <2>3. StartTypeOK' BY <1>1, <1>n, <2>1 DEF Steps, Errors, KeyErrors
    <2>4. (SecretAgrees /\ KeyInMemory /\ BothAreAgreed /\ PeersAreRead /\ Published /\ ErrorEnds /\ ListExists)'
      BY <1>1, <2>1 DEF SecretAgrees, KeyInMemory, BothAreAgreed,
        PeersAreRead, Published, ErrorEnds, ListExists
    <2>5. FirstIsAgreed' BY <1>1, <2>1 DEF FirstIsAgreed, Agreed
    <2>6. FilesAreKept' BY <1>1, <2>1 DEF FilesAreKept, NoKeys
    <2>7. (CreatesForReason /\ RefusesForReason)'
      BY <1>1, <2>1 DEF CreatesForReason, RefusesForReason, ErrorEnds, KeyErrors, NoKeys
    <2> QED BY <2>3, <2>4, <2>5, <2>6, <2>7
  <1> QED BY <1>2, <1>3

LEMMA WritePubInvariant == ASSUME StartIInv, WritePub PROVE StartIInv'
  <1> USE DEF StartIInv, StartTypeOK, Contents, Lists
  <1>1. /\ place = "WRITE_PUB" /\ role \in Roles
        /\ own[role] \in KeyPairs /\ own[role] = sec[role]
        /\ served = NoKeys \/ role \in unread
    BY DEF WritePub, CreatesForReason, SecretAgrees
  <1>2. /\ pub' = [pub EXCEPT ![role] = own[role]]
        /\ place' = "CHECK_PUB"
        /\ UNCHANGED <<sec, own, peer, rps, role, e, served, unread, failed, crashes, list>>
    BY DEF WritePub, Memory, Rest
  <1>3. StartTypeOK' BY <1>1, <1>2 DEF Steps, Errors, KeyErrors
  <1>4. (SecretAgrees /\ KeyInMemory /\ BothAreAgreed /\ PeersAreRead /\ Published /\ ErrorEnds /\ ListExists)'
    BY <1>1, <1>2 DEF SecretAgrees, KeyInMemory, BothAreAgreed,
      PeersAreRead, Published, ErrorEnds, ListExists
  <1>5. FirstIsAgreed' BY <1>1, <1>2 DEF FirstIsAgreed, Agreed
  <1>6. FilesAreKept' BY <1>1, <1>2 DEF FilesAreKept, NoKeys
  <1>7. (CreatesForReason /\ RefusesForReason)'
    BY <1>1, <1>2 DEF CreatesForReason, RefusesForReason, ErrorEnds, KeyErrors, NoKeys
  <1> QED BY <1>3, <1>4, <1>5, <1>6, <1>7

(* The comparison with the key that was computed lets agreed files pass,   *)
(* and refuses the files of a role only before they were served, when the  *)
(* secret could not be read, or when the public key cannot be read now.    *)
LEMMA CheckPubInvariant == ASSUME StartIInv, CheckPub PROVE StartIInv'
  <1> USE DEF StartIInv, StartTypeOK, Contents, Lists
  <1>1. /\ place = "CHECK_PUB" /\ role \in Roles
        /\ own[role] \in KeyPairs /\ own[role] = sec[role]
    BY DEF CheckPub, SecretAgrees
  <1>a. PICK line \in ReadAs(pub[role]) :
          /\ Note("pub", line # pub[role])
          /\ IF PubChecked(line, own[role]) # "NONE"
               THEN Stop(PubChecked(line, own[role]))
               ELSE /\ role' = Other(role)
                    /\ place' = IF role = "reg" THEN "RNG" ELSE "LOAD_PEER"
                    /\ UNCHANGED <<Files, Memory, Rest>>
    BY DEF CheckPub
  <1>n. /\ failed' \subseteq {"list", "sec", "pub"}
        /\ line # pub[role] => failed' # {}
    BY <1>a, NoteType
  <1>2. CASE PubChecked(line, own[role]) # "NONE"
    <2>1. Stop(PubChecked(line, own[role])) BY <1>a, <1>2
    <2>2. failed' # {} \/ served = NoKeys \/ unread # {}
      BY <1>1, <1>n, <1>2, ContentsAssumption DEF PubChecked, FilesAreKept
    <2>3. PubChecked(line, own[role]) \in Errors BY <1>2 DEF PubChecked, Errors, KeyErrors
    <2> QED BY <1>n, <2>1, <2>2, <2>3, StopInvariant
  <1>3. CASE PubChecked(line, own[role]) = "NONE"
    <2>1. /\ role' = Other(role)
          /\ place' = IF role = "reg" THEN "RNG" ELSE "LOAD_PEER"
          /\ UNCHANGED <<sec, pub, own, peer, rps, e, served, unread, crashes, list>>
      BY <1>a, <1>3 DEF Files, Memory, Rest
    <2>2. Agreed(role)
      BY <1>1, <1>3, ReadsOnlyWhatIsThere, ContentsAssumption DEF PubChecked, Agreed
    <2>3. StartTypeOK' BY <1>1, <1>n, <2>1 DEF Steps, Errors, KeyErrors
    <2>4. (SecretAgrees /\ KeyInMemory /\ PeersAreRead /\ Published /\ ErrorEnds /\ ListExists)'
      BY <1>1, <2>1 DEF SecretAgrees, KeyInMemory, PeersAreRead, Published, ErrorEnds, ListExists
    <2>5. (FirstIsAgreed /\ BothAreAgreed)'
      BY <1>1, <2>1, <2>2 DEF FirstIsAgreed, BothAreAgreed, Agreed
    <2>6. (FilesAreKept /\ CreatesForReason /\ RefusesForReason)'
      BY <1>1, <2>1
      DEF FilesAreKept, CreatesForReason, RefusesForReason, ErrorEnds, KeyErrors, NoKeys
    <2> QED BY <2>3, <2>4, <2>5, <2>6
  <1> QED BY <1>2, <1>3

(* Of agreed files only one that cannot be read now is refused.            *)
LEMMA LoadPeerInvariant == ASSUME StartIInv, LoadPeer PROVE StartIInv'
  <1> USE DEF StartIInv, StartTypeOK, Contents, Lists
  <1>1. /\ place = "LOAD_PEER" /\ role \in Roles
        /\ \A x \in Roles : Agreed(x)
    BY DEF LoadPeer, BothAreAgreed
  <1>a. PICK line \in ReadAs(pub[Other(role)]) :
          /\ Note("pub", line # pub[Other(role)])
          /\ IF line = "missing" THEN Stop("LOADYY")
             ELSE IF line = "short" THEN Stop("LENYY")
             ELSE /\ peer' = [peer EXCEPT ![role] = line]
                  /\ rps' = IF role = "vot" THEN [by |-> own[role], of |-> line] ELSE rps
                  /\ role' = Other(role)
                  /\ place' = IF role = "reg" THEN "LOAD_PEER" ELSE "LISTEN"
                  /\ UNCHANGED <<Files, own, Rest>>
    BY DEF LoadPeer
  <1>n. /\ failed' \subseteq {"list", "sec", "pub"}
        /\ line # pub[Other(role)] => failed' # {}
    BY <1>a, NoteType
  <1>b. pub[Other(role)] \in KeyPairs
    BY <1>1 DEF Agreed
  <1>c. CASE line \in {"missing", "short"}
    <2>1. Stop("LOADYY") \/ Stop("LENYY") BY <1>a, <1>c
    <2>2. failed' # {} BY <1>n, <1>b, <1>c, ContentsAssumption
    <2> QED BY <1>n, <2>1, <2>2, StopInvariant DEF Errors, KeyErrors
  <1>d. CASE line \notin {"missing", "short"}
    <2>1. line = pub[Other(role)] BY <1>d, ReadsOnlyWhatIsThere
    <2>2. /\ peer' = [peer EXCEPT ![role] = pub[Other(role)]]
          /\ rps' = IF role = "vot" THEN [by |-> own[role], of |-> pub[Other(role)]] ELSE rps
          /\ role' = Other(role)
          /\ place' = IF role = "reg" THEN "LOAD_PEER" ELSE "LISTEN"
          /\ UNCHANGED <<sec, pub, own, e, served, unread, crashes, list>>
      BY <1>a, <1>d, <2>1 DEF Files, Rest
    <2>3. StartTypeOK' BY <1>1, <1>n, <2>2 DEF Steps, Errors, KeyErrors, Agreed
    <2>4. (SecretAgrees /\ KeyInMemory /\ Published /\ ErrorEnds /\ ListExists)'
      BY <1>1, <2>2 DEF SecretAgrees, KeyInMemory, Published, ErrorEnds, ListExists
    <2>5. (FirstIsAgreed /\ BothAreAgreed)'
      BY <1>1, <2>2 DEF FirstIsAgreed, BothAreAgreed, Agreed
    <2>6. PeersAreRead' BY <1>1, <2>2 DEF PeersAreRead, Agreed
    <2>7. (FilesAreKept /\ CreatesForReason /\ RefusesForReason)'
      BY <1>1, <2>2
      DEF FilesAreKept, CreatesForReason, RefusesForReason, ErrorEnds, KeyErrors, NoKeys
    <2> QED BY <2>3, <2>4, <2>5, <2>6, <2>7
  <1> QED BY <1>c, <1>d

LEMMA ListenInvariant == ASSUME StartIInv, Listen PROVE StartIInv'
  <1> USE DEF StartIInv, StartTypeOK, Contents, Lists
  <1>1. /\ place = "LISTEN" /\ role \in Roles
        /\ \A x \in Roles : Agreed(x) /\ peer[Other(x)] = own[x]
        /\ rps = [by |-> own["vot"], of |-> own["reg"]]
    BY DEF Listen, BothAreAgreed, PeersAreRead
  <1>n. failed' = failed BY DEF Listen
  <1>2. CASE Stop("NONE") BY <1>2, <1>n, StopInvariant DEF KeyErrors
  <1>3. CASE ~Stop("NONE")
    <2>1. /\ place' = "run"
          /\ served' = IF served = NoKeys THEN own ELSE served
          /\ UNCHANGED <<sec, pub, own, peer, rps, role, e, unread, crashes, list>>
      BY <1>3 DEF Listen, Files, Memory
    <2>2. StartTypeOK' BY <1>1, <1>n, <2>1 DEF Steps, Errors, KeyErrors
    <2>3. (SecretAgrees /\ KeyInMemory /\ FirstIsAgreed /\ BothAreAgreed /\ PeersAreRead)'
      BY <1>1, <2>1 DEF SecretAgrees, KeyInMemory, FirstIsAgreed, BothAreAgreed,
        PeersAreRead, Agreed
    <2>4. own # NoKeys BY <1>1, ContentsAssumption DEF Agreed, NoKeys
    <2>5. FilesAreKept' BY <1>1, <2>1 DEF FilesAreKept, Agreed, NoKeys
    <2>6. (CreatesForReason /\ Published /\ ErrorEnds /\ ListExists)'
      BY <1>1, <2>1, <2>4 DEF CreatesForReason, Published, ErrorEnds, ListExists, NoKeys
    <2>7. RefusesForReason'
      BY <1>1, <2>1 DEF RefusesForReason, ErrorEnds, KeyErrors
    <2> QED BY <2>2, <2>3, <2>5, <2>6, <2>7
  <1> QED BY <1>2, <1>3

(* The inductive invariant of the start.                                   *)
THEOREM StartInvariance == StartSpec => []StartIInv
  <1>1. StartIInv /\ [StartNext]_startVars => StartIInv'
    <2> SUFFICES ASSUME StartIInv, [StartNext]_startVars PROVE StartIInv'
      OBVIOUS
    <2>1. CASE UNCHANGED startVars
      BY <2>1 DEF startVars, StartIInv, StartTypeOK, Contents, Lists, SecretAgrees, KeyInMemory, FirstIsAgreed,
        BothAreAgreed, Agreed, PeersAreRead, ListExists, FilesAreKept, CreatesForReason, Published,
        ErrorEnds, RefusesForReason, NoKeys
    <2>2. CASE StartNext
      BY <2>2, StartInvariant, QuitInvariant, CrashInvariant,
        InitGeneratorInvariant, LoadListInvariant, OpenDbInvariant, LoadSecInvariant,
        CreateInvariant, WriteSecInvariant, OpenPubInvariant, WritePubInvariant,
        CheckPubInvariant, LoadPeerInvariant, ListenInvariant
      DEF StartNext, Initialize, InitRole, srv_inir, srv_iniv, srv_get_voter_pubkey,
        srv_get_reg_pubkey
    <2> QED BY <2>1, <2>2
  <1> QED BY StartInitInvariant, <1>1, PTL DEF StartSpec

(* The variables keep their types.                                         *)
THEOREM StartTypeCorrect == StartSpec => []StartTypeOK
  <1>1. StartIInv => StartTypeOK BY DEF StartIInv
  <1> QED BY StartInvariance, <1>1, PTL

(* Both roles of a running server hold the keys of the files, and verify   *)
(* with each other's key, whatever faults and crashes came before, and     *)
(* clients are given these keys.                                           *)
THEOREM MatchingKeys == StartSpec => []RunsWithMatchingKeys
  <1>1. StartIInv => RunsWithMatchingKeys
    BY DEF StartIInv, BothAreAgreed, PeersAreRead, Agreed, RunsWithMatchingKeys, srv_gets
  <1> QED BY StartInvariance, <1>1, PTL

(* The keys of a role change only when its secret could not be read.       *)
THEOREM KeysKept == StartSpec => []KeysAreKept
  <1>1. StartIInv => KeysAreKept
    BY DEF StartIInv, BothAreAgreed, FilesAreKept, Published, Agreed, KeysAreKept
  <1> QED BY StartInvariance, <1>1, PTL

(* A start is refused for a reason: a file fails now, a secret could not   *)
(* be read before, or no server ever ran.                                  *)
THEOREM StartsAgain == StartSpec => []RefusesForReason
  <1>1. StartIInv => RefusesForReason BY DEF StartIInv
  <1> QED BY StartInvariance, <1>1, PTL

-----------------------------------------------------------------------------
(* The ports.                                                              *)

(* Pieces of a stream of bytes. *)
Positions(S, m) == S \X (1 .. m)

LEMMA SegmentIs ==
  ASSUME NEW c, NEW i \in Nat \ {0}, NEW j \in Nat, i <= j + 1
  PROVE  /\ Len(Segment(c, i, j)) = j - i + 1
         /\ \A n \in 1 .. Len(Segment(c, i, j)) : Segment(c, i, j)[n] = <<c, i + n - 1>>
<1> DEFINE k == j - i + 1
           s == [n \in 1 .. k |-> <<c, i + n - 1>>]
<1>1. k \in Nat
  OBVIOUS
<1>2. s \in [1 .. k -> {c} \X Nat]
  OBVIOUS
<1>3. s \in Seq({c} \X Nat) /\ Len(s) = k
  BY <1>1, <1>2
<1> QED
  BY <1>3 DEF Segment

LEMMA SegmentType ==
  ASSUME NEW S, NEW c \in S, NEW m \in Nat, NEW i \in Nat \ {0}, NEW j \in Nat,
         i <= j + 1, j <= m
  PROVE  Segment(c, i, j) \in Seq(Positions(S, m))
<1> DEFINE k == j - i + 1
           s == [n \in 1 .. k |-> <<c, i + n - 1>>]
<1>1. k \in Nat
  OBVIOUS
<1>2. \A n \in 1 .. k : <<c, i + n - 1>> \in Positions(S, m)
  BY DEF Positions
<1>3. s \in [1 .. k -> Positions(S, m)]
  BY <1>2
<1>4. s \in Seq(Positions(S, m))
  BY <1>1, <1>3
<1> QED
  BY <1>4 DEF Segment

LEMMA SegmentConcat ==
  ASSUME NEW c, NEW i \in Nat \ {0}, NEW j \in Nat, NEW k \in Nat,
         i <= j + 1, j <= k
  PROVE  Segment(c, i, j) \o Segment(c, j + 1, k) = Segment(c, i, k)
<1> DEFINE P == Positions({c}, k)
           s == Segment(c, i, j)
           t == Segment(c, j + 1, k)
           u == Segment(c, i, k)
<1>0. i <= k + 1 /\ j + 1 \in Nat \ {0} /\ j + 1 <= k + 1 /\ k <= k
  OBVIOUS
<1>1. s \in Seq(P) /\ t \in Seq(P) /\ u \in Seq(P)
  <2>1. s \in Seq(P)
    BY SegmentType
  <2>2. t \in Seq(P)
    BY <1>0, SegmentType
  <2>3. u \in Seq(P)
    BY <1>0, SegmentType
  <2> QED
    BY <2>1, <2>2, <2>3
<1>2. Len(s) = j - i + 1 /\ Len(t) = k - j /\ Len(u) = k - i + 1
  <2>1. Len(s) = j - i + 1
    BY SegmentIs
  <2>2. Len(t) = k - (j + 1) + 1
    BY <1>0, SegmentIs
  <2>3. Len(u) = k - i + 1
    BY <1>0, SegmentIs
  <2> QED
    BY <2>1, <2>2, <2>3
<1>3. /\ \A n \in 1 .. Len(s) : s[n] = <<c, i + n - 1>>
      /\ \A n \in 1 .. Len(t) : t[n] = <<c, j + 1 + n - 1>>
      /\ \A n \in 1 .. Len(u) : u[n] = <<c, i + n - 1>>
  <2>1. \A n \in 1 .. Len(s) : s[n] = <<c, i + n - 1>>
    BY SegmentIs
  <2>2. \A n \in 1 .. Len(t) : t[n] = <<c, j + 1 + n - 1>>
    BY <1>0, SegmentIs
  <2>3. \A n \in 1 .. Len(u) : u[n] = <<c, i + n - 1>>
    BY <1>0, SegmentIs
  <2> QED
    BY <2>1, <2>2, <2>3
<1> DEFINE r == s \o t
<1> HIDE DEF s, t, u, P
<1>4. /\ r \in Seq(P) /\ Len(r) = Len(s) + Len(t)
      /\ \A n \in 1 .. Len(s) + Len(t) :
           r[n] = IF n <= Len(s) THEN s[n] ELSE t[n - Len(s)]
  BY <1>1, ConcatProperties
<1> HIDE DEF r
<1>5. ASSUME NEW n \in 1 .. Len(u)
      PROVE  r[n] = u[n]
  <2>0. n \in 1 .. Len(s) + Len(t)
    BY <1>2
  <2>1. CASE n <= Len(s)
    <3>1. n \in 1 .. Len(s)
      BY <1>2, <2>1
    <3>2. r[n] = s[n]
      BY <1>4, <2>0, <2>1
    <3> QED
      BY <1>3, <3>1, <3>2
  <2>2. CASE n > Len(s)
    <3>1. n - Len(s) \in 1 .. Len(t) /\ j + 1 + (n - Len(s)) - 1 = i + n - 1
      BY <1>2, <2>2
    <3>2. r[n] = t[n - Len(s)]
      BY <1>2, <1>4, <2>0, <2>2
    <3> QED
      BY <1>3, <3>1, <3>2
  <2> QED
    BY <2>1, <2>2, <1>2
<1>6. Len(r) = Len(u)
  BY <1>2, <1>4
<1>7. r = u
  BY <1>1, <1>4, <1>5, <1>6, SeqEqual
<1> QED
  BY <1>7 DEF r, s, t, u

LEMMA SegmentSplit ==
  ASSUME NEW c, NEW i \in Nat \ {0}, NEW k \in Nat, i <= k + 1,
         NEW n \in 0 .. k - i + 1
  PROVE  /\ SubSeq(Segment(c, i, k), 1, n) = Segment(c, i, i + n - 1)
         /\ SubSeq(Segment(c, i, k), n + 1, k - i + 1) = Segment(c, i + n, k)
<1>a. PICK m \in Nat : m = i + n - 1
  OBVIOUS
<1>b. PICK p \in Nat \ {0} : p = i + n
  OBVIOUS
<1> DEFINE P == Positions({c}, k)
           u == Segment(c, i, k)
           s == Segment(c, i, m)
           t == Segment(c, p, k)
           v == SubSeq(u, n + 1, Len(u))
<1>0. i <= m + 1 /\ m <= k /\ p <= k + 1 /\ k <= k
  BY <1>a, <1>b
<1>1. s \in Seq(P) /\ t \in Seq(P) /\ u \in Seq(P)
  <2>1. s \in Seq(P)
    BY <1>0, SegmentType
  <2>2. t \in Seq(P)
    BY <1>0, SegmentType
  <2>3. u \in Seq(P)
    BY <1>0, SegmentType
  <2> QED
    BY <2>1, <2>2, <2>3
<1>2. Len(s) = n /\ Len(t) = k - i + 1 - n /\ Len(u) = k - i + 1
  <2>1. Len(s) = m - i + 1
    BY <1>0, SegmentIs
  <2>2. Len(t) = k - p + 1
    BY <1>0, SegmentIs
  <2>3. Len(u) = k - i + 1
    BY <1>0, SegmentIs
  <2> QED
    BY <1>a, <1>b, <2>1, <2>2, <2>3
<1>3. /\ \A x \in 1 .. Len(s) : s[x] = <<c, i + x - 1>>
      /\ \A x \in 1 .. Len(t) : t[x] = <<c, p + x - 1>>
      /\ \A x \in 1 .. Len(u) : u[x] = <<c, i + x - 1>>
  <2>1. \A x \in 1 .. Len(s) : s[x] = <<c, i + x - 1>>
    BY <1>0, SegmentIs
  <2>2. \A x \in 1 .. Len(t) : t[x] = <<c, p + x - 1>>
    BY <1>0, SegmentIs
  <2>3. \A x \in 1 .. Len(u) : u[x] = <<c, i + x - 1>>
    BY <1>0, SegmentIs
  <2> QED
    BY <2>1, <2>2, <2>3
<1> HIDE DEF u, s, t, P
<1>4. \A x \in 1 .. Len(u) : u[x] \in P
  BY <1>1, ElementOfSeq
<1>5. SubSeq(u, 1, n) = s
  <2>1. \A x \in 1 .. n : u[x] \in P
    BY <1>2, <1>4
  <2>2. /\ SubSeq(u, 1, n) \in Seq(P)
        /\ Len(SubSeq(u, 1, n)) = IF 1 <= n THEN n - 1 + 1 ELSE 0
        /\ \A x \in 1 .. n - 1 + 1 : SubSeq(u, 1, n)[x] = u[1 + x - 1]
    BY <2>1, SubSeqProperties
  <2>3. ASSUME NEW x \in 1 .. n PROVE SubSeq(u, 1, n)[x] = s[x]
    <3>1. x \in 1 .. n - 1 + 1 /\ x \in 1 .. Len(u) /\ x \in 1 .. Len(s) /\ 1 + x - 1 = x
      BY <1>2
    <3> QED
      BY <1>3, <2>2, <3>1
  <2>4. Len(SubSeq(u, 1, n)) = Len(s)
    BY <1>2, <2>2
  <2> QED
    BY <1>1, <1>2, <2>2, <2>3, <2>4, SeqEqual
<1>6. v = t
  <2>1. \A x \in n + 1 .. Len(u) : u[x] \in P
    BY <1>4
  <2>2. Len(u) \in Int /\ n + 1 \in Int
    BY <1>2
  <2>3. /\ v \in Seq(P)
        /\ Len(v) = IF n + 1 <= Len(u) THEN Len(u) - (n + 1) + 1 ELSE 0
        /\ \A x \in 1 .. Len(u) - (n + 1) + 1 : v[x] = u[n + 1 + x - 1]
    BY <2>1, <2>2, SubSeqProperties
  <2> HIDE DEF v
  <2>4. Len(v) = Len(t)
    BY <1>2, <2>3
  <2>5. ASSUME NEW x \in 1 .. Len(t) PROVE v[x] = t[x]
    <3>1. /\ x \in 1 .. Len(u) - (n + 1) + 1 /\ n + 1 + x - 1 \in 1 .. Len(u)
          /\ i + (n + 1 + x - 1) - 1 = p + x - 1
      BY <1>2, <1>b
    <3> QED
      BY <1>3, <2>3, <3>1
  <2> QED
    BY <1>1, <1>2, <2>3, <2>4, <2>5, SeqEqual
<1> QED
  BY <1>a, <1>b, <1>2, <1>5, <1>6 DEF u, s, t

LEMMA SegmentHead ==
  ASSUME NEW c, NEW i \in Nat \ {0}, NEW k \in Nat, i <= k + 1, NEW n \in 0 .. k - i + 1
  PROVE  SubSeq(Segment(c, i, k), 1, n) = Segment(c, i, i + n - 1)
  BY SegmentSplit

LEMMA SegmentTail ==
  ASSUME NEW c, NEW i \in Nat \ {0}, NEW k \in Nat, i <= k + 1, NEW n \in 0 .. k - i + 1
  PROVE  SubSeq(Segment(c, i, k), n + 1, k - i + 1) = Segment(c, i + n, k)
  BY SegmentSplit

LEMMA SegmentEmpty ==
  ASSUME NEW c
  PROVE  Segment(c, 1, 0) = <<>>
<1>1. Segment(c, 1, 0) \in Seq(Positions({c}, 0))
  BY SegmentType
<1>2. Len(Segment(c, 1, 0)) = 0
  BY SegmentIs
<1> QED
  BY <1>1, <1>2, EmptySeq

-----------------------------------------------------------------------------
(* The packet port *)

(* How many bytes of a client are in the buffer.                           *)
Got(c) == IF c = tcp_sock THEN Len(tcp_buf) ELSE 0

(* No byte is lost or moved: what is not in the buffer is on the wire.     *)
StreamsAreWhole ==
  \A c \in Clients :
    Got(c) <= sent[c] /\ wire[c] = Segment(c, Got(c) + 1, sent[c])

BufferIsOwn == tcp_sock # None => tcp_buf = Segment(tcp_sock, 1, Len(tcp_buf))

(* The server waits for the rest of the header, or for the rest of the     *)
(* length that a header announced and that was found good.                 *)
Expected ==
  tcp_sock # None =>
    \/ tcp_req > 0 /\ Len(tcp_buf) + tcp_req = TCP_HDR_LEN
    \/ /\ Len(tcp_buf) >= TCP_HDR_LEN /\ LengthOk(sizes[tcp_sock])
       /\ Len(tcp_buf) + tcp_req = sizes[tcp_sock]

IdleIsClean ==
  tcp_sock = None =>
    tcp_buf = <<>> /\ tcp_req = 0 /\ tcp_timeout = 0 /\ now = 0 /\ srv_pkt = <<>>

(* The timestamp may be old, but it is never ahead of the clock.           *)
ClockLags == tcp_timenow <= now /\ (tcp_sock # None => tcp_timeout = TCP_TOUT)

PacketIsBuffer ==
  srv_pkt # <<>> => tcp_sock # None /\ srv_pkt = tcp_buf /\ tcp_req = 0

TcpIInv ==
  /\ TcpTypeOK
  /\ StreamsAreWhole /\ BufferIsOwn /\ Expected /\ IdleIsClean /\ ClockLags
  /\ PacketIsBuffer

LEMMA TcpInitInvariant == TcpInit => TcpIInv
<1> SUFFICES ASSUME TcpInit PROVE TcpIInv
  OBVIOUS
<1> USE LengthAssumption DEF TcpInit
<1>1. TcpTypeOK
  BY DEF TcpTypeOK, Late
<1>2. StreamsAreWhole
  BY SegmentEmpty DEF StreamsAreWhole, Got
<1>3. BufferIsOwn /\ Expected /\ IdleIsClean /\ ClockLags /\ PacketIsBuffer
  BY DEF BufferIsOwn, Expected, IdleIsClean, ClockLags, PacketIsBuffer
<1> QED
  BY <1>1, <1>2, <1>3 DEF TcpIInv

(* A connection begins; its streams are empty already.                     *)
LEMMA ConnectInvariant ==
  ASSUME TcpIInv, NEW c \in Clients, Connect(c)
  PROVE  TcpIInv'
<1> USE LengthAssumption DEF Connect, serverVars, clockVars
<1>1. PICK n \in Sizes : sizes' = [sizes EXCEPT ![c] = n]
  OBVIOUS
<1>2. TcpTypeOK'
  <2>1. queue' \in Seq(Clients) /\ Len(queue') = Len(queue) + 1
    BY AppendProperties DEF TcpIInv, TcpTypeOK
  <2> QED
    BY <1>1, <2>1 DEF TcpIInv, TcpTypeOK
<1>3. tcp_sock # None => sizes'[tcp_sock] = sizes[tcp_sock]
  BY <1>1 DEF TcpIInv, TcpTypeOK, Connected
<1>4. StreamsAreWhole' /\ BufferIsOwn' /\ IdleIsClean' /\ ClockLags' /\ PacketIsBuffer'
  BY DEF TcpIInv, StreamsAreWhole, Got, BufferIsOwn, IdleIsClean, ClockLags, PacketIsBuffer
<1>5. Expected'
  BY <1>3 DEF TcpIInv, Expected, LengthOk
<1> QED
  BY <1>2, <1>4, <1>5 DEF TcpIInv

(* More bytes continue the stream.                                         *)
LEMMA SendInvariant ==
  ASSUME TcpIInv, NEW c \in Clients, Send(c)
  PROVE  TcpIInv'
<1> USE LengthAssumption DEF Send, serverVars, clockVars
<1>1. PICK n \in (sent[c] + 1) .. TCP_MAXLEN :
        /\ sent' = [sent EXCEPT ![c] = n]
        /\ wire' = [wire EXCEPT ![c] = @ \o Segment(c, sent[c] + 1, n)]
  OBVIOUS
<1>2. /\ sent \in [Clients -> 0 .. TCP_MAXLEN] /\ sent[c] \in Nat /\ n \in Nat
      /\ wire \in [Clients -> Seq(Bytes)]
  BY DEF TcpIInv, TcpTypeOK
<1>3. Got(c) \in Nat /\ Got(c) <= sent[c] /\ wire[c] = Segment(c, Got(c) + 1, sent[c])
  BY EmptySeq DEF TcpIInv, StreamsAreWhole, Got, TcpTypeOK
<1>4. wire'[c] = Segment(c, Got(c) + 1, n)
  <2>1. PICK i \in Nat \ {0} : i = Got(c) + 1
    BY <1>3
  <2>a. i <= sent[c] + 1 /\ sent[c] <= n
    BY <1>2, <1>3, <2>1
  <2>2. Segment(c, i, sent[c]) \o Segment(c, sent[c] + 1, n) = Segment(c, i, n)
    BY <1>2, <2>a, SegmentConcat
  <2>3. wire'[c] = wire[c] \o Segment(c, sent[c] + 1, n)
    BY <1>1, <1>2
  <2> QED
    BY <1>3, <2>1, <2>2, <2>3
<1>5. Segment(c, Got(c) + 1, n) \in Seq(Bytes)
  <2>1. PICK i \in Nat \ {0} : i = Got(c) + 1
    BY <1>3
  <2>2. i <= n + 1 /\ n <= TCP_MAXLEN
    BY <1>2, <1>3, <2>1
  <2>3. Segment(c, i, n) \in Seq(Positions(Clients, TCP_MAXLEN))
    BY <1>2, <2>2, SegmentType
  <2> QED
    BY <2>1, <2>3 DEF Positions, Bytes
<1>6. TcpTypeOK'
  <2>1. sent' \in [Clients -> 0 .. TCP_MAXLEN]
    BY <1>1, <1>2
  <2>2. wire' = [wire EXCEPT ![c] = Segment(c, Got(c) + 1, n)]
    BY <1>1, <1>2, <1>4
  <2>3. wire' \in [Clients -> Seq(Bytes)]
    BY <1>2, <1>5, <2>2
  <2> QED
    BY <2>1, <2>3 DEF TcpIInv, TcpTypeOK
<1>7. StreamsAreWhole'
  <2>1. \A d \in Clients : Got(d)' = Got(d)
    BY DEF Got
  <2>2. ASSUME NEW d \in Clients, d # c
        PROVE  sent'[d] = sent[d] /\ wire'[d] = wire[d]
    BY <1>1, <1>2, <2>2
  <2>3. sent'[c] = n /\ Got(c) <= n
    BY <1>1, <1>2, <1>3
  <2> QED
    BY <1>4, <2>1, <2>2, <2>3 DEF TcpIInv, StreamsAreWhole
<1>8. BufferIsOwn' /\ Expected' /\ IdleIsClean' /\ ClockLags' /\ PacketIsBuffer'
  BY DEF TcpIInv, BufferIsOwn, Expected, IdleIsClean, ClockLags, PacketIsBuffer, LengthOk
<1> QED
  BY <1>6, <1>7, <1>8 DEF TcpIInv

LEMMA LeaveInvariant ==
  ASSUME TcpIInv, NEW c \in Clients, Leave(c)
  PROVE  TcpIInv'
  BY DEF Leave, serverVars, clockVars, TcpIInv, TcpTypeOK, StreamsAreWhole, Got, BufferIsOwn,
         Expected, IdleIsClean, ClockLags, PacketIsBuffer, LengthOk

LEMMA TickInvariant ==
  ASSUME TcpIInv, Tick
  PROVE  TcpIInv'
<1> USE LengthAssumption DEF Tick, clientVars, TcpIInv
<1>1. TcpTypeOK' /\ ClockLags' /\ IdleIsClean'
  BY DEF TcpTypeOK, ClockLags, IdleIsClean, Min2, Max2, Late
<1>2. StreamsAreWhole' /\ BufferIsOwn' /\ Expected' /\ PacketIsBuffer'
  BY DEF StreamsAreWhole, Got, BufferIsOwn, Expected, PacketIsBuffer, LengthOk
<1> QED
  BY <1>1, <1>2

(* The end of a connection: nothing of it is left.                         *)
LEMMA CloseInvariant ==
  ASSUME TcpIInv, tcp_sock # None,
         NEW t \in -1 .. Late, t <= now, Close(t), tcp_timecnt' \in 0 .. TCP_TIMECNT
  PROVE  TcpIInv'
<1> USE LengthAssumption DEF Close, Hangup
<1>1. tcp_sock \in Clients /\ None \notin Clients
  BY DEF TcpIInv, TcpTypeOK
<1>2. TcpTypeOK'
  <2>1. <<>> \in Seq(Bytes)
    OBVIOUS
  <2>2. tcp_timenow' \in -1 .. Late /\ now' \in 0 .. Late
    BY DEF TcpIInv, TcpTypeOK, Max2, Late
  <2> QED
    BY <1>1, <2>1, <2>2 DEF TcpIInv, TcpTypeOK
<1>3. StreamsAreWhole'
  <2>1. \A c \in Clients : Got(c)' = 0
    BY <1>1 DEF Got
  <2>2. ASSUME NEW c \in Clients, c # tcp_sock
        PROVE  sent'[c] = sent[c] /\ wire'[c] = wire[c] /\ Got(c) = 0
    BY <2>2 DEF TcpIInv, TcpTypeOK, Got
  <2>3. sent'[tcp_sock] = 0 /\ wire'[tcp_sock] = <<>>
    BY <1>1 DEF TcpIInv, TcpTypeOK
  <2> QED
    BY <2>1, <2>2, <2>3, SegmentEmpty DEF TcpIInv, StreamsAreWhole
<1>4. ClockLags'
  BY DEF TcpIInv, TcpTypeOK, ClockLags, Max2, Late
<1>5. BufferIsOwn' /\ Expected' /\ IdleIsClean' /\ PacketIsBuffer'
  BY DEF BufferIsOwn, Expected, IdleIsClean, PacketIsBuffer
<1> QED
  BY <1>2, <1>3, <1>4, <1>5 DEF TcpIInv

LEMMA AcceptInvariant ==
  ASSUME TcpIInv, Accept
  PROVE  TcpIInv'
<1> USE LengthAssumption DEF Accept, clockVars
<1>1. /\ tcp_sock = None /\ now = 0 /\ tcp_buf = <<>> /\ tcp_req = 0 /\ srv_pkt = <<>>
      /\ tcp_timeout = 0 /\ queue \in Seq(Clients) /\ queue # <<>>
  BY DEF TcpIInv, TcpTypeOK, IdleIsClean
<1>2. /\ Head(queue) \in Clients /\ Tail(queue) \in Seq(Clients)
      /\ Len(Tail(queue)) = Len(queue) - 1 /\ Len(queue) <= Backlog
  BY <1>1, HeadTailProperties DEF TcpIInv, TcpTypeOK
<1>3. Len(queue') <= Backlog
  BY <1>1, <1>2
<1>4. \A c \in Clients : Got(c) = 0
  BY <1>1 DEF Got
<1>5. CASE /\ tcp_sock' = Head(queue)
           /\ tcp_timeout' = TimeoutFromNow
           /\ tcp_buf' = <<>> /\ tcp_req' = TCP_HDR_LEN
           /\ UNCHANGED <<sizes, sent, wire, gone>>
  <2>1. \A c \in Clients : Got(c)' = 0
    BY <1>5 DEF Got
  <2>2. StreamsAreWhole'
    BY <1>4, <1>5, <2>1 DEF TcpIInv, StreamsAreWhole
  <2>3. BufferIsOwn'
    BY <1>5, SegmentEmpty DEF BufferIsOwn
  <2>4. TcpTypeOK'
    BY <1>1, <1>2, <1>3, <1>5 DEF TcpIInv, TcpTypeOK, TimeoutFromNow
  <2>5. Expected' /\ IdleIsClean' /\ ClockLags' /\ PacketIsBuffer'
    BY <1>1, <1>2, <1>5 DEF TcpIInv, Expected, IdleIsClean, ClockLags, PacketIsBuffer,
                            TimeoutFromNow
  <2> QED
    BY <2>2, <2>3, <2>4, <2>5 DEF TcpIInv
<1>6. CASE /\ Head(queue) \in gone
           /\ Hangup(Head(queue))
           /\ UNCHANGED <<tcp_sock, tcp_timeout, tcp_buf, tcp_req>>
  <2> DEFINE c == Head(queue)
  <2>1. /\ sizes' = [sizes EXCEPT ![c] = 0] /\ sent' = [sent EXCEPT ![c] = 0]
        /\ wire' = [wire EXCEPT ![c] = <<>>] /\ gone' = gone \ {c}
    BY <1>6 DEF Hangup
  <2> HIDE DEF c
  <2>2. c \in Clients
    BY <1>2 DEF c
  <2>3. TcpTypeOK'
    BY <1>1, <1>2, <1>3, <1>6, <2>1, <2>2 DEF TcpIInv, TcpTypeOK
  <2>4. StreamsAreWhole'
    <3>1. \A d \in Clients : Got(d)' = 0
      BY <1>1, <1>6 DEF Got
    <3>2. ASSUME NEW d \in Clients, d # c
          PROVE  sent'[d] = sent[d] /\ wire'[d] = wire[d]
      BY <2>1, <3>2 DEF TcpIInv, TcpTypeOK
    <3>3. sent'[c] = 0 /\ wire'[c] = <<>>
      BY <2>1, <2>2 DEF TcpIInv, TcpTypeOK
    <3> QED
      BY <1>4, <3>1, <3>2, <3>3, SegmentEmpty DEF TcpIInv, StreamsAreWhole
  <2>5. BufferIsOwn' /\ Expected' /\ IdleIsClean' /\ ClockLags' /\ PacketIsBuffer'
    BY <1>1, <1>6 DEF TcpIInv, BufferIsOwn, Expected, IdleIsClean, ClockLags, PacketIsBuffer
  <2> QED
    BY <2>3, <2>4, <2>5 DEF TcpIInv
<1> QED
  BY <1>5, <1>6

(* The clock is never read from the future.                                *)
LEMMA TimestampRange ==
  ASSUME TcpIInv
  PROVE  /\ Timestamp \in -1 .. Late /\ Timestamp <= now
         /\ Countdown \in 0 .. TCP_TIMECNT
  BY LengthAssumption DEF TcpIInv, TcpTypeOK, ClockLags, Timestamp, Countdown, Max2, Late

(* What recv returns continues the buffer, and the header in it is known   *)
(* as soon as it is complete.                                              *)
LEMMA ReceivedIsOwn ==
  ASSUME TcpIInv, tcp_sock # None, tcp_req > 0, wire[tcp_sock] # <<>>,
         NEW n, n = Min2(Len(wire[tcp_sock]), tcp_req)
  PROVE  LET c   == tcp_sock
             buf == tcp_buf \o SubSeq(wire[c], 1, n)
         IN  /\ c \in Clients /\ n \in Nat \ {0} /\ n <= tcp_req /\ Len(tcp_buf) \in Nat
             /\ Len(tcp_buf) + n <= sent[c]
             /\ buf = Segment(c, 1, Len(tcp_buf) + n)
             /\ Len(buf) = Len(tcp_buf) + n
             /\ Declared(buf) = sizes[c]
             /\ SubSeq(wire[c], n + 1, Len(wire[c])) = Segment(c, Len(tcp_buf) + n + 1, sent[c])
<1> DEFINE c == tcp_sock
           k == Len(tcp_buf)
           w == wire[c]
<1>1. /\ c \in Clients /\ k \in Nat /\ tcp_req \in Nat /\ sent[c] \in Nat
      /\ w \in Seq(Bytes) /\ tcp_buf \in Seq(Bytes)
  BY DEF TcpIInv, TcpTypeOK
<1>2. k <= sent[c] /\ w = Segment(c, k + 1, sent[c]) /\ tcp_buf = Segment(c, 1, k)
  BY <1>1 DEF TcpIInv, StreamsAreWhole, BufferIsOwn, Got
<1>3. PICK i \in Nat \ {0} : i = k + 1
  BY <1>1
<1>4. Len(w) = sent[c] - k
  <2>1. i <= sent[c] + 1
    BY <1>1, <1>2, <1>3
  <2>2. Len(Segment(c, i, sent[c])) = sent[c] - i + 1
    BY <1>1, <2>1, SegmentIs
  <2> QED
    BY <1>1, <1>2, <1>3, <2>2
<1>5. Len(w) # 0
  BY <1>1, EmptySeq
<1>6. n \in Nat \ {0} /\ n <= tcp_req /\ n <= Len(w) /\ k + n <= sent[c]
  BY <1>1, <1>4, <1>5, <1>2 DEF Min2
<1>7. /\ SubSeq(w, 1, n) = Segment(c, k + 1, k + n)
      /\ SubSeq(w, n + 1, Len(w)) = Segment(c, k + n + 1, sent[c])
  <2>1. n \in 0 .. sent[c] - i + 1 /\ i <= sent[c] + 1
    BY <1>1, <1>2, <1>3, <1>4, <1>6
  <2>2. PICK m \in Nat : m = sent[c]
    BY <1>1
  <2>3. n \in 0 .. m - i + 1 /\ i <= m + 1
    BY <2>1, <2>2
  <2>4. SubSeq(Segment(c, i, m), 1, n) = Segment(c, i, i + n - 1)
    BY <2>3, SegmentHead
  <2>5. SubSeq(Segment(c, i, m), n + 1, m - i + 1) = Segment(c, i + n, m)
    BY <2>3, SegmentTail
  <2>6. i + n - 1 = k + n /\ i + n = k + n + 1 /\ Len(w) = m - i + 1
    <3>1. k \in Nat /\ n \in Nat
      BY <1>1, <1>6
    <3>2. i = k + 1 /\ Len(w) = m - k
      BY <1>3, <1>4, <2>2
    <3> QED BY <2>2, <3>1, <3>2
  <2> QED
    BY <1>2, <1>3, <2>2, <2>4, <2>5, <2>6
<1>8. tcp_buf \o SubSeq(w, 1, n) = Segment(c, 1, k + n)
  <2>1. 1 \in Nat \ {0} /\ 1 <= k + 1 /\ k <= k + n /\ k + n \in Nat
    BY <1>1, <1>6
  <2>2. Segment(c, 1, k) \o Segment(c, k + 1, k + n) = Segment(c, 1, k + n)
    BY <1>1, <2>1, SegmentConcat
  <2> QED
    BY <1>2, <1>7, <2>2
<1>9. /\ Len(Segment(c, 1, k + n)) = k + n
      /\ Segment(c, 1, k + n)[1] = <<c, 1>>
  <2>1. PICK j \in Nat : j = k + n
    BY <1>1, <1>6
  <2>2. 1 <= j + 1 /\ j >= 1
    BY <1>1, <1>6, <2>1
  <2>3. Len(Segment(c, 1, j)) = j - 1 + 1
    BY <2>2, 1 \in Nat \ {0}, SegmentIs
  <2>4. Len(Segment(c, 1, j)) = j /\ 1 \in 1 .. Len(Segment(c, 1, j))
    BY <2>2, <2>3
  <2>5. Segment(c, 1, j)[1] = <<c, 1 + 1 - 1>>
    BY <2>2, <2>4, SegmentIs
  <2> QED
    BY <2>1, <2>4, <2>5
<1>10. Declared(tcp_buf \o SubSeq(w, 1, n)) = sizes[c]
  <2> DEFINE b == tcp_buf \o SubSeq(w, 1, n)
  <2>1. b[1] = <<c, 1>>
    BY <1>8, <1>9
  <2> HIDE DEF b
  <2>2. Declared(b) = sizes[c]
    BY <2>1 DEF Declared
  <2> QED
    BY <2>2 DEF b
<1> QED
  BY <1>1, <1>6, <1>7, <1>8, <1>9, <1>10

LEMMA ReceiveInvariant ==
  ASSUME TcpIInv, tcp_sock # None, tcp_req > 0, wire[tcp_sock] # <<>>, srv_pkt = <<>>,
         tcp_timecnt' = Countdown, Receive
  PROVE  TcpIInv'
<1> DEFINE c      == tcp_sock
           n      == Min2(Len(wire[c]), tcp_req)
           buf    == tcp_buf \o SubSeq(wire[c], 1, n)
           header == n = tcp_req /\ Len(buf) = TCP_HDR_LEN
<1>1. /\ c \in Clients /\ n \in Nat \ {0} /\ n <= tcp_req /\ Len(tcp_buf) \in Nat
      /\ Len(tcp_buf) + n <= sent[c]
      /\ buf = Segment(c, 1, Len(tcp_buf) + n)
      /\ Len(buf) = Len(tcp_buf) + n
      /\ Declared(buf) = sizes[c]
      /\ SubSeq(wire[c], n + 1, Len(wire[c])) = Segment(c, Len(tcp_buf) + n + 1, sent[c])
  BY ReceivedIsOwn
<1>2. Timestamp \in -1 .. Late /\ Timestamp <= now /\ Countdown \in 0 .. TCP_TIMECNT
  BY TimestampRange
<1>3. /\ sizes \in [Clients -> Sizes \cup {0}] /\ sizes[c] \in Nat
      /\ sent \in [Clients -> 0 .. TCP_MAXLEN] /\ sent[c] \in 0 .. TCP_MAXLEN
      /\ wire \in [Clients -> Seq(Bytes)] /\ tcp_req \in Nat
  <2>1. /\ sizes \in [Clients -> Sizes \cup {0}] /\ c \in Clients
        /\ sent \in [Clients -> 0 .. TCP_MAXLEN]
        /\ wire \in [Clients -> Seq(Bytes)] /\ tcp_req \in Nat
    BY <1>1 DEF TcpIInv, TcpTypeOK
  <2>2. Sizes \cup {0} \subseteq Nat
    BY LengthAssumption
  <2>3. sizes[c] \in Sizes \cup {0}
    BY <2>1
  <2> QED
    BY <2>1, <2>2, <2>3
<1>4. CASE header /\ ~LengthOk(Declared(buf))
  <2>1. Close(Timestamp)
    BY <1>4 DEF Receive
  <2> QED
    BY <1>2, <2>1, CloseInvariant
<1>5. CASE ~(header /\ ~LengthOk(Declared(buf)))
  <2>1. /\ wire' = [wire EXCEPT ![c] = SubSeq(@, n + 1, Len(@))]
        /\ tcp_buf' = buf
        /\ tcp_req' = IF header THEN Declared(buf) - TCP_HDR_LEN ELSE tcp_req - n
        /\ srv_pkt' = IF n = tcp_req /\ ~header THEN buf ELSE <<>>
        /\ tcp_timenow' = Timestamp
        /\ UNCHANGED <<queue, sizes, sent, gone, tcp_sock, tcp_timeout, now>>
    BY <1>5 DEF Receive
  <2>2. wire'[c] = Segment(c, Len(tcp_buf') + 1, sent[c])
    BY <1>1, <1>3, <2>1
  <2>3. /\ \A d \in Clients : d # c => wire'[d] = wire[d] /\ Got(d)' = Got(d)
        /\ Got(c)' = Len(tcp_buf')
    BY <1>3, <2>1 DEF Got
  <2> HIDE DEF n, buf, header
  <2>4. StreamsAreWhole'
    BY <1>1, <2>1, <2>2, <2>3 DEF TcpIInv, StreamsAreWhole
  <2>5. BufferIsOwn'
    BY <1>1, <2>1 DEF BufferIsOwn
  <2>6. Segment(c, 1, Len(tcp_buf) + n) \in Seq(Bytes) /\ wire'[c] \in Seq(Bytes)
    <3>1. PICK j \in Nat : j = Len(tcp_buf) + n
      BY <1>1
    <3>2. 1 \in Nat \ {0} /\ 1 <= j + 1 /\ j <= TCP_MAXLEN /\ TCP_MAXLEN \in Nat
      BY <1>1, <1>3, <3>1, LengthAssumption
    <3>3. Segment(c, 1, j) \in Seq(Positions(Clients, TCP_MAXLEN))
      BY <1>1, <3>2, SegmentType
    <3>4. PICK k \in Nat \ {0} : k = j + 1
      OBVIOUS
    <3>5. k <= sent[c] + 1 /\ sent[c] <= TCP_MAXLEN /\ sent[c] \in Nat
      BY <1>1, <1>3, <3>1, <3>4, LengthAssumption
    <3>6. Segment(c, k, sent[c]) \in Seq(Positions(Clients, TCP_MAXLEN))
      BY <1>1, <3>2, <3>5, SegmentType
    <3> QED
      BY <1>1, <2>1, <2>2, <3>1, <3>3, <3>4, <3>6 DEF Positions, Bytes
  <2>7. Expected' /\ (srv_pkt' # <<>> => tcp_req' = 0)
    <3>1. CASE header
      <4>1. /\ tcp_req' = sizes[c] - TCP_HDR_LEN /\ LengthOk(sizes[c])
            /\ Len(tcp_buf') = TCP_HDR_LEN /\ srv_pkt' = <<>>
        BY <1>1, <1>5, <2>1, <3>1 DEF header
      <4>2. sizes' = sizes /\ tcp_sock' = tcp_sock
        BY <2>1
      <4> QED
        BY <1>3, <4>1, <4>2, LengthAssumption DEF Expected, LengthOk
    <3>2. CASE ~header
      <4>1. tcp_req' = tcp_req - n /\ Len(tcp_buf') = Len(tcp_buf) + n
        BY <1>1, <2>1, <3>2
      <4>2. srv_pkt' # <<>> => tcp_req' = 0
        BY <1>1, <1>3, <2>1, <4>1
      <4>3. CASE Len(tcp_buf) + tcp_req = TCP_HDR_LEN
        <5>1. n < tcp_req
          BY <1>1, <1>3, <3>2, <4>3, LengthAssumption DEF header
        <5>2. n \in Nat /\ tcp_req \in Nat /\ Len(tcp_buf) \in Nat
          BY <1>1, <1>3
        <5>3. tcp_req' > 0
          BY <4>1, <5>1, <5>2
        <5>4. Len(tcp_buf') + tcp_req' = Len(tcp_buf) + tcp_req
          BY <4>1, <5>2
        <5> QED
          BY <4>2, <4>3, <5>3, <5>4 DEF Expected
      <4>4. CASE /\ Len(tcp_buf) >= TCP_HDR_LEN /\ LengthOk(sizes[c])
                 /\ Len(tcp_buf) + tcp_req = sizes[c]
        <5>1. sizes' = sizes /\ tcp_sock' = tcp_sock
          BY <2>1
        <5> QED
          BY <1>1, <1>3, <4>1, <4>2, <4>4, <5>1, LengthAssumption DEF Expected, LengthOk
      <4> QED
        BY <4>3, <4>4 DEF TcpIInv, Expected
    <3> QED
      BY <3>1, <3>2
  <2>8. TcpTypeOK'
    <3>1. wire' \in [Clients -> Seq(Bytes)]
      BY <1>1, <1>3, <2>1, <2>6
    <3>2. tcp_req' \in Nat
      BY <1>1, <1>3, <1>5, <2>1, LengthAssumption DEF LengthOk
    <3>3. tcp_buf' \in Seq(Bytes) /\ srv_pkt' \in Seq(Bytes)
      <4>1. buf \in Seq(Bytes) /\ <<>> \in Seq(Bytes)
        BY <1>1, <2>6
      <4> QED
        BY <2>1, <4>1
    <3> QED
      BY <1>2, <2>1, <3>1, <3>2, <3>3 DEF TcpIInv, TcpTypeOK
  <2>9. IdleIsClean' /\ ClockLags' /\ PacketIsBuffer'
    BY <1>2, <2>1, <2>7 DEF TcpIInv, IdleIsClean, ClockLags, PacketIsBuffer
  <2> QED
    BY <2>4, <2>5, <2>7, <2>8, <2>9 DEF TcpIInv
<1> QED
  BY <1>4, <1>5

LEMMA PollInvariant ==
  ASSUME TcpIInv, Poll, srv_pkt = <<>>
  PROVE  TcpIInv'
<1>1. Timestamp \in -1 .. Late /\ Timestamp <= now /\ Countdown \in 0 .. TCP_TIMECNT
  BY TimestampRange
<1>2. tcp_sock # None /\ tcp_timecnt' = Countdown
  BY DEF Poll
<1>3. CASE Close(Timestamp)
  BY <1>1, <1>2, <1>3, CloseInvariant
<1>4. CASE tcp_req > 0 /\ wire[tcp_sock] # <<>> /\ Receive
  BY <1>2, <1>4, ReceiveInvariant
<1>5. CASE /\ tcp_timenow' = Timestamp
           /\ srv_pkt' = <<>>
           /\ UNCHANGED <<clientVars, tcp_sock, tcp_buf, tcp_req, tcp_timeout, now>>
  <2>1. TcpTypeOK' /\ ClockLags' /\ IdleIsClean' /\ PacketIsBuffer'
    BY <1>1, <1>2, <1>5 DEF TcpIInv, TcpTypeOK, ClockLags, IdleIsClean, PacketIsBuffer,
                            clientVars
  <2>2. StreamsAreWhole' /\ BufferIsOwn' /\ Expected'
    BY <1>5 DEF TcpIInv, StreamsAreWhole, Got, BufferIsOwn, Expected, LengthOk, clientVars
  <2> QED
    BY <2>1, <2>2 DEF TcpIInv
<1> QED
  BY <1>3, <1>4, <1>5 DEF Poll

LEMMA NoConnectionInvariant ==
  ASSUME TcpIInv, NoConnection
  PROVE  TcpIInv'
<1>1. srv_pkt' = srv_pkt
  BY DEF NoConnection, TcpIInv, IdleIsClean
<1> QED
  BY <1>1 DEF NoConnection, clientVars, clockVars, TcpIInv, TcpTypeOK, StreamsAreWhole, Got,
     BufferIsOwn, Expected, IdleIsClean, ClockLags, PacketIsBuffer, LengthOk

LEMMA AnswerInvariant ==
  ASSUME TcpIInv, AnswerAndClose, srv_pkt # <<>>
  PROVE  TcpIInv'
<1>1. tcp_sock # None /\ tcp_timenow \in -1 .. Late /\ tcp_timenow <= now
  BY DEF TcpIInv, TcpTypeOK, PacketIsBuffer, ClockLags
<1>2. tcp_timecnt' \in 0 .. TCP_TIMECNT /\ Close(tcp_timenow)
  BY DEF AnswerAndClose, TcpIInv, TcpTypeOK
<1> QED
  BY <1>1, <1>2, CloseInvariant

LEMMA TcpNextInvariant ==
  ASSUME TcpIInv, [TcpNext]_tcpVars
  PROVE  TcpIInv'
<1>1. ASSUME NEW c \in Clients, Connect(c) \/ Send(c) \/ Leave(c)
      PROVE  TcpIInv'
  BY <1>1, ConnectInvariant, SendInvariant, LeaveInvariant
<1>2. CASE Tick
  BY <1>2, TickInvariant
<1>3. CASE srv_pkt = <<>> /\ TcpRead
  BY <1>3, AcceptInvariant, PollInvariant, NoConnectionInvariant DEF TcpRead
<1>4. CASE srv_pkt # <<>> /\ AnswerAndClose
  BY <1>4, AnswerInvariant
<1>5. CASE UNCHANGED tcpVars
  BY <1>5 DEF tcpVars, clientVars, clockVars, TcpIInv, TcpTypeOK, StreamsAreWhole, Got,
     BufferIsOwn, Expected, IdleIsClean, ClockLags, PacketIsBuffer, LengthOk
<1> QED
  BY <1>1, <1>2, <1>3, <1>4, <1>5 DEF TcpNext, TcpServer, TcpClients

LEMMA TcpInvariance == TcpSpec => []TcpIInv
<1>1. TcpInit => TcpIInv
  BY TcpInitInvariant
<1>2. TcpIInv /\ [TcpNext]_tcpVars => TcpIInv'
  BY TcpNextInvariant
<1> QED
  BY <1>1, <1>2, PTL DEF TcpSpec

(* The types of the packet port, for any clients, sizes and limits.        *)
THEOREM TcpTypeCorrect == TcpSpec => []TcpTypeOK
<1>1. TcpIInv => TcpTypeOK
  BY DEF TcpIInv
<1> QED
  BY <1>1, TcpInvariance, PTL

(* tcp_read returns the packet of the connected client and nothing else,   *)
(* for any number of clients and however recv cuts the stream.             *)
THEOREM PacketsAreOwn == TcpSpec => []PacketIsOwn
<1>1. TcpIInv => PacketIsOwn
  <2> SUFFICES ASSUME TcpIInv, srv_pkt # <<>>
               PROVE  /\ tcp_sock # None
                      /\ srv_pkt = Segment(tcp_sock, 1, sizes[tcp_sock])
                      /\ Len(srv_pkt) < TCP_MAXLEN
    BY DEF PacketIsOwn
  <2>1. tcp_sock # None /\ srv_pkt = tcp_buf /\ tcp_req = 0 /\ Len(tcp_buf) \in Nat
    BY DEF TcpIInv, PacketIsBuffer, TcpTypeOK
  <2>2. sizes[tcp_sock] \in Nat
    BY <2>1, LengthAssumption DEF TcpIInv, TcpTypeOK
  <2>3. LengthOk(sizes[tcp_sock]) /\ Len(tcp_buf) = sizes[tcp_sock]
    BY <2>1, <2>2 DEF TcpIInv, Expected
  <2> QED
    BY <2>1, <2>3 DEF TcpIInv, BufferIsOwn, LengthOk
<1> QED
  BY <1>1, TcpInvariance, PTL

(* A connection that ends without an answer ends for a reason, although    *)
(* the clock that tcp_read compares is read only after a countdown.        *)
THEOREM ConnectionsLast == TcpSpec => NoEarlyClose
<1> DEFINE Reason == \/ tcp_sock \in gone
                     \/ sent[tcp_sock] >= TCP_HDR_LEN /\ ~LengthOk(sizes[tcp_sock])
                     \/ now > TCP_TOUT
<1>1. ASSUME TcpIInv, [TcpNext]_tcpVars, tcp_sock # None, tcp_sock' = None, srv_pkt = <<>>
      PROVE  Reason
  <2>1. Poll
    BY <1>1 DEF TcpNext, TcpServer, TcpClients, TcpRead, Connect, Send, Leave, Tick, Accept,
                NoConnection, tcpVars, clientVars, serverVars
  <2>2. CASE Timestamp > tcp_timeout
    <3>1. Timestamp \in -1 .. Late /\ Timestamp <= now /\ now \in 0 .. Late
      BY <1>1, TimestampRange DEF TcpIInv, TcpTypeOK
    <3>2. tcp_timeout = TCP_TOUT
      BY <1>1 DEF TcpIInv, ClockLags
    <3> QED
      BY <2>2, <3>1, <3>2, LengthAssumption DEF Late
  <2>3. CASE tcp_req > 0 /\ wire[tcp_sock] # <<>> /\ Receive
    <3> DEFINE n   == Min2(Len(wire[tcp_sock]), tcp_req)
               buf == tcp_buf \o SubSeq(wire[tcp_sock], 1, n)
    <3>1. /\ Len(buf) <= sent[tcp_sock] /\ Declared(buf) = sizes[tcp_sock]
      BY <1>1, <2>3, ReceivedIsOwn
    <3>2. Len(buf) = TCP_HDR_LEN /\ ~LengthOk(Declared(buf))
      BY <1>1, <2>3 DEF Receive
    <3> QED
      BY <3>1, <3>2
  <2>4. CASE tcp_sock \in gone
    BY <2>4
  <2> QED
    BY <1>1, <2>1, <2>2, <2>3, <2>4 DEF Poll
<1>2. TcpIInv /\ [TcpNext]_tcpVars =>
        [tcp_sock # None /\ tcp_sock' = None /\ srv_pkt = <<>> => Reason]_tcpVars
  BY <1>1
<1> QED
  BY <1>2, TcpInvariance, PTL DEF TcpSpec, NoEarlyClose

-----------------------------------------------------------------------------
(* The web port *)

WebQueueDistinct ==
  /\ \A i, j \in DOMAIN web_queue : web_queue[i] = web_queue[j] => i = j
  /\ \A i \in DOMAIN web_queue : web_queue[i] # web_sock

(* Nothing was received from a client that was not accepted.               *)
WebStreamsWait ==
  \A c \in WebClients : c # web_sock => web_wire[c] = Segment(c, 1, web_sent[c])

(* Until the request is complete, its buffer and the wire are the stream.  *)
WebStreamGoesOn ==
  web_sock # NoClient /\ ~web_ready =>
    /\ Len(web_getbuf) < GET_LEN /\ Len(web_getbuf) <= web_sent[web_sock]
    /\ web_getbuf = Segment(web_sock, 1, Len(web_getbuf))
    /\ web_wire[web_sock] = Segment(web_sock, Len(web_getbuf) + 1, web_sent[web_sock])

WebRequestIsWhole ==
  web_ready => web_sock # NoClient /\ web_getbuf = Segment(web_sock, 1, GET_LEN)

WebIInv ==
  /\ WebTypeOK
  /\ WebQueueDistinct /\ WebStreamsWait /\ WebStreamGoesOn /\ WebRequestIsWhole

LEMMA WebSegmentIs == \A c, i, j : WebSegment(c, i, j) = Segment(c, i, j)
  BY DEF WebSegment, Segment

LEMMA WebInitInvariant == WebInit => WebIInv
<1> SUFFICES ASSUME WebInit PROVE WebIInv
  OBVIOUS
<1> USE WebAssumption DEF WebInit
<1>1. WebTypeOK
  <2>1. web_queue \in Seq(WebClients) /\ Len(web_queue) = 0
    OBVIOUS
  <2>2. web_getbuf \in Seq(WebBytes) /\ Len(web_getbuf) = 0
    OBVIOUS
  <2>3. web_wire \in [WebClients -> Seq(WebBytes)]
    OBVIOUS
  <2>4. web_sent \in [WebClients -> 0 .. MaxRequest]
    OBVIOUS
  <2>5. Len(web_queue) <= WebBacklog /\ Len(web_getbuf) <= GET_LEN
    BY <2>1, <2>2
  <2>6. web_gone \subseteq WebClients /\ web_sock \in WebClients \cup {NoClient}
    OBVIOUS
  <2>7. web_ready \in BOOLEAN
    OBVIOUS
  <2> HIDE DEF WebInit
  <2> QED
    BY <2>1, <2>2, <2>3, <2>4, <2>5, <2>6, <2>7 DEF WebTypeOK
<1>2. WebStreamsWait
  BY SegmentEmpty DEF WebStreamsWait
<1>3. WebQueueDistinct /\ WebStreamGoesOn /\ WebRequestIsWhole
  BY DEF WebQueueDistinct, WebStreamGoesOn, WebRequestIsWhole
<1> QED
  BY <1>1, <1>2, <1>3 DEF WebIInv

LEMMA WebConnectInvariant ==
  ASSUME WebIInv, NEW c \in WebClients, WebConnect(c)
  PROVE  WebIInv'
<1> USE WebAssumption DEF WebConnect
<1>1. /\ web_queue \in Seq(WebClients) /\ web_sock \in WebClients \cup {NoClient}
      /\ web_queue' = Append(web_queue, c) /\ Len(web_queue) < WebBacklog
  BY DEF WebIInv, WebTypeOK
<1>2. /\ web_queue' \in Seq(WebClients) /\ Len(web_queue') = Len(web_queue) + 1
      /\ \A i \in 1 .. Len(web_queue) : web_queue'[i] = web_queue[i]
      /\ web_queue'[Len(web_queue) + 1] = c
  BY <1>1, AppendProperties
<1>3. WebTypeOK'
  BY <1>1, <1>2 DEF WebIInv, WebTypeOK
<1>4. WebQueueDistinct'
  <2>1. /\ c # web_sock
        /\ \A i \in 1 .. Len(web_queue) : web_queue[i] # c
    BY <1>1 DEF WebConnected
  <2>2. \A i \in DOMAIN web_queue' : i \in 1 .. Len(web_queue) \/ i = Len(web_queue) + 1
    BY <1>1, <1>2
  <2>3. web_sock' = web_sock
    OBVIOUS
  <2> QED
    BY <1>1, <1>2, <2>1, <2>2, <2>3 DEF WebIInv, WebQueueDistinct
<1>5. WebStreamsWait' /\ WebStreamGoesOn' /\ WebRequestIsWhole'
  BY DEF WebIInv, WebStreamsWait, WebStreamGoesOn, WebRequestIsWhole
<1> QED
  BY <1>3, <1>4, <1>5 DEF WebIInv

LEMMA WebSendInvariant ==
  ASSUME WebIInv, NEW c \in WebClients, WebSend(c)
  PROVE  WebIInv'
<1> USE WebAssumption DEF WebSend
<1>1. PICK n \in (web_sent[c] + 1) .. MaxRequest :
        /\ web_sent' = [web_sent EXCEPT ![c] = n]
        /\ web_wire' = [web_wire EXCEPT ![c] = @ \o WebSegment(c, web_sent[c] + 1, n)]
  OBVIOUS
<1>2. /\ web_sent \in [WebClients -> 0 .. MaxRequest] /\ web_sent[c] \in Nat /\ n \in Nat
      /\ web_wire \in [WebClients -> Seq(WebBytes)] /\ web_getbuf \in Seq(WebBytes)
      /\ Len(web_getbuf) \in Nat /\ n <= MaxRequest /\ web_sent[c] + 1 <= n
  BY DEF WebIInv, WebTypeOK
<1>3. web_wire'[c] = web_wire[c] \o Segment(c, web_sent[c] + 1, n)
  BY <1>1, <1>2, WebSegmentIs
<1>4. ASSUME NEW i \in Nat \ {0}, i <= web_sent[c] + 1,
             web_wire[c] = Segment(c, i, web_sent[c])
      PROVE  web_wire'[c] = Segment(c, i, n)
  <2>1. i <= web_sent[c] + 1 /\ web_sent[c] <= n
    BY <1>2, <1>4
  <2>2. Segment(c, i, web_sent[c]) \o Segment(c, web_sent[c] + 1, n) = Segment(c, i, n)
    BY <1>2, <2>1, SegmentConcat
  <2> QED
    BY <1>3, <1>4, <2>2
<1>5. WebTypeOK'
  <2>1. PICK i \in Nat \ {0} : i = web_sent[c] + 1
    BY <1>2
  <2>2. i <= n + 1 /\ n <= MaxRequest /\ MaxRequest \in Nat
    BY <1>2, <2>1
  <2>3. Segment(c, i, n) \in Seq(WebBytes)
    BY <1>2, <2>2, SegmentType DEF Positions, WebBytes
  <2>4. web_wire[c] \o Segment(c, i, n) \in Seq(WebBytes)
    BY <1>2, <2>3
  <2>5. web_wire' \in [WebClients -> Seq(WebBytes)]
    BY <1>1, <1>2, <2>1, <2>4, WebSegmentIs
  <2>6. web_sent' \in [WebClients -> 0 .. MaxRequest]
    BY <1>1, <1>2
  <2> QED
    BY <2>5, <2>6 DEF WebIInv, WebTypeOK
<1>6. /\ web_sent'[c] = n
      /\ \A d \in WebClients : d # c => web_sent'[d] = web_sent[d] /\ web_wire'[d] = web_wire[d]
  BY <1>1, <1>2
<1>7. WebStreamsWait'
  <2>1. CASE c # web_sock
    <3>1. web_wire[c] = Segment(c, 1, web_sent[c]) /\ 1 \in Nat \ {0} /\ 1 <= web_sent[c] + 1
      BY <1>2, <2>1 DEF WebIInv, WebStreamsWait
    <3>2. web_wire'[c] = Segment(c, 1, n)
      BY <1>4, <3>1
    <3>3. web_wire'[c] = Segment(c, 1, web_sent'[c])
      BY <1>6, <3>2
    <3> QED
      BY <1>6, <3>3 DEF WebIInv, WebStreamsWait
  <2>2. CASE c = web_sock
    BY <1>6, <2>2 DEF WebIInv, WebStreamsWait
  <2> QED
    BY <2>1, <2>2
<1>8. WebStreamGoesOn'
  <2> SUFFICES ASSUME web_sock # NoClient, ~web_ready
               PROVE  WebStreamGoesOn'
    BY DEF WebStreamGoesOn
  <2>0. web_sock \in WebClients
    BY DEF WebIInv, WebTypeOK
  <2>1. /\ Len(web_getbuf) < GET_LEN /\ Len(web_getbuf) <= web_sent[web_sock]
        /\ web_getbuf = Segment(web_sock, 1, Len(web_getbuf))
        /\ web_wire[web_sock] = Segment(web_sock, Len(web_getbuf) + 1, web_sent[web_sock])
    BY DEF WebIInv, WebStreamGoesOn
  <2>2. CASE c # web_sock
    BY <1>6, <2>0, <2>1, <2>2 DEF WebStreamGoesOn
  <2>3. CASE c = web_sock
    <3>1. PICK i \in Nat \ {0} : i = Len(web_getbuf) + 1
      BY <1>2
    <3>2. web_wire'[c] = Segment(c, i, n)
      BY <1>2, <1>4, <2>1, <2>3, <3>1
    <3>3. Len(web_getbuf) <= n
      BY <1>2, <2>1, <2>3
    <3> QED
      BY <1>6, <2>1, <2>3, <3>1, <3>2, <3>3 DEF WebStreamGoesOn
  <2> QED
    BY <2>2, <2>3
<1>9. WebQueueDistinct' /\ WebRequestIsWhole'
  BY DEF WebIInv, WebQueueDistinct, WebRequestIsWhole
<1> QED
  BY <1>5, <1>7, <1>8, <1>9 DEF WebIInv

LEMMA WebLeaveInvariant ==
  ASSUME WebIInv, NEW c \in WebClients, WebLeave(c)
  PROVE  WebIInv'
  BY DEF WebLeave, WebIInv, WebTypeOK, WebQueueDistinct, WebStreamsWait, WebStreamGoesOn,
         WebRequestIsWhole

(* A stream that ends is empty afterwards.                                 *)
LEMMA HangupStream ==
  ASSUME WebIInv, NEW c \in WebClients, WebHangup(c)
  PROVE  /\ web_sent' \in [WebClients -> 0 .. MaxRequest] /\ web_gone' \subseteq WebClients
         /\ web_wire' \in [WebClients -> Seq(WebBytes)]
         /\ web_wire'[c] = Segment(c, 1, web_sent'[c]) /\ web_sent'[c] = 0
         /\ \A d \in WebClients :
              d # c => web_sent'[d] = web_sent[d] /\ web_wire'[d] = web_wire[d]
<1>1. /\ web_sent \in [WebClients -> 0 .. MaxRequest] /\ web_gone \subseteq WebClients
      /\ web_wire \in [WebClients -> Seq(WebBytes)] /\ <<>> \in Seq(WebBytes)
  BY DEF WebIInv, WebTypeOK
<1>2. web_wire'[c] = <<>> /\ web_sent'[c] = 0
  BY <1>1 DEF WebHangup
<1> QED
  BY <1>1, <1>2, SegmentEmpty, WebAssumption DEF WebHangup

LEMMA WebAcceptInvariant ==
  ASSUME WebIInv, ~web_ready, WebAccept
  PROVE  WebIInv'
<1> USE WebAssumption DEF WebAccept
<1> DEFINE c == Head(web_queue)
<1>1. /\ web_queue \in Seq(WebClients) /\ Len(web_queue) <= WebBacklog
      /\ web_sock \in WebClients \cup {NoClient} /\ web_getbuf \in Seq(WebBytes)
      /\ Len(web_getbuf) <= GET_LEN /\ web_ready' = FALSE /\ web_queue # <<>>
  BY DEF WebIInv, WebTypeOK
<1>2. /\ c \in WebClients /\ web_queue' \in Seq(WebClients)
      /\ Len(web_queue') = Len(web_queue) - 1 /\ c = web_queue[1]
      /\ \A i \in 1 .. Len(web_queue') : web_queue'[i] = web_queue[i + 1]
  BY <1>1, HeadTailProperties
<1>3. /\ Len(web_queue') <= WebBacklog /\ Len(web_queue) \in Nat /\ Len(web_queue) >= 1
      /\ 1 \in DOMAIN web_queue
      /\ \A i \in 1 .. Len(web_queue') : i + 1 \in DOMAIN web_queue /\ i + 1 # 1
      /\ DOMAIN web_queue' = 1 .. Len(web_queue')
  BY <1>1, <1>2
<1>4. /\ \A i, j \in DOMAIN web_queue' : web_queue'[i] = web_queue'[j] => i = j
      /\ \A i \in DOMAIN web_queue' : web_queue'[i] # c /\ web_queue'[i] # web_sock
      /\ c # web_sock
  <2>1. ASSUME NEW i \in DOMAIN web_queue', NEW j \in DOMAIN web_queue',
               web_queue'[i] = web_queue'[j]
        PROVE  i = j
    <3>1. i + 1 = j + 1
      BY <1>2, <1>3, <2>1 DEF WebIInv, WebQueueDistinct
    <3> QED
      BY <1>3, <3>1
  <2>2. ASSUME NEW i \in DOMAIN web_queue'
        PROVE  web_queue'[i] # c /\ web_queue'[i] # web_sock
    BY <1>2, <1>3 DEF WebIInv, WebQueueDistinct
  <2>3. c # web_sock
    BY <1>2, <1>3 DEF WebIInv, WebQueueDistinct
  <2> QED
    BY <2>1, <2>2, <2>3
<1> HIDE DEF c
<1>5. web_wire[c] = Segment(c, 1, web_sent[c])
  BY <1>2, <1>4 DEF WebIInv, WebStreamsWait
<1>6. CASE /\ web_sock' = c
           /\ web_getbuf' = BufferForNewClient
           /\ IF web_sock # NoClient
                THEN WebHangup(web_sock)
                ELSE UNCHANGED <<web_sent, web_wire, web_gone>>
  <2>1. /\ web_sent' \in [WebClients -> 0 .. MaxRequest] /\ web_gone' \subseteq WebClients
        /\ web_wire' \in [WebClients -> Seq(WebBytes)]
        /\ \A d \in WebClients : web_wire'[d] = Segment(d, 1, web_sent'[d])
    <3>1. CASE web_sock # NoClient
      <4>1. web_sock \in WebClients /\ WebHangup(web_sock)
        BY <1>1, <1>6, <3>1
      <4>2. /\ web_sent' \in [WebClients -> 0 .. MaxRequest] /\ web_gone' \subseteq WebClients
            /\ web_wire' \in [WebClients -> Seq(WebBytes)]
        BY <4>1, HangupStream
      <4>3. web_wire'[web_sock] = Segment(web_sock, 1, web_sent'[web_sock])
        BY <4>1, HangupStream
      <4>4. \A d \in WebClients :
              d # web_sock => web_sent'[d] = web_sent[d] /\ web_wire'[d] = web_wire[d]
        BY <4>1, HangupStream
      <4>5. \A d \in WebClients : web_wire'[d] = Segment(d, 1, web_sent'[d])
        BY <4>3, <4>4 DEF WebIInv, WebStreamsWait
      <4> QED
        BY <4>2, <4>5
    <3>2. CASE web_sock = NoClient
      BY <1>6, <3>2 DEF WebIInv, WebTypeOK, WebStreamsWait
    <3> QED
      BY <3>1, <3>2
  <2>2. /\ web_getbuf' = <<>> /\ web_getbuf' \in Seq(WebBytes) /\ Len(web_getbuf') = 0
        /\ web_getbuf' = Segment(c, 1, 0)
    BY <1>6, SegmentEmpty DEF BufferForNewClient
  <2>3. WebTypeOK'
    <3>1. web_sock' \in WebClients \cup {NoClient} /\ Len(web_getbuf') <= GET_LEN
      BY <1>2, <1>6, <2>2
    <3>2. web_ready' \in BOOLEAN
      BY <1>1
    <3> QED
      BY <1>2, <1>3, <2>1, <2>2, <3>1, <3>2 DEF WebTypeOK
  <2>4. WebQueueDistinct'
    BY <1>4, <1>6 DEF WebQueueDistinct
  <2>5. WebStreamsWait' /\ WebRequestIsWhole'
    BY <1>1, <2>1 DEF WebStreamsWait, WebRequestIsWhole
  <2>6. WebStreamGoesOn'
    <3>1. web_sent'[c] \in Nat /\ web_wire'[c] = Segment(c, 0 + 1, web_sent'[c])
      BY <1>2, <2>1
    <3> QED
      BY <1>6, <2>2, <3>1 DEF WebStreamGoesOn
  <2> QED
    BY <2>3, <2>4, <2>5, <2>6 DEF WebIInv
<1>7. CASE /\ WebHangup(c)
           /\ UNCHANGED <<web_sock, web_getbuf>>
  <2>1. /\ web_sent' \in [WebClients -> 0 .. MaxRequest] /\ web_gone' \subseteq WebClients
        /\ web_wire' \in [WebClients -> Seq(WebBytes)]
        /\ web_wire'[c] = Segment(c, 1, web_sent'[c])
        /\ \A d \in WebClients :
              d # c => web_sent'[d] = web_sent[d] /\ web_wire'[d] = web_wire[d]
    BY <1>2, <1>7, HangupStream
  <2>2. WebTypeOK'
    BY <1>1, <1>2, <1>3, <1>7, <2>1 DEF WebTypeOK
  <2>3. WebQueueDistinct'
    BY <1>4, <1>7 DEF WebQueueDistinct
  <2>4. WebStreamsWait'
    BY <1>7, <2>1 DEF WebIInv, WebStreamsWait
  <2>5. WebStreamGoesOn'
    BY <1>1, <1>4, <1>7, <2>1 DEF WebIInv, WebStreamGoesOn
  <2>6. WebRequestIsWhole'
    BY <1>1 DEF WebRequestIsWhole
  <2> QED
    BY <2>2, <2>3, <2>4, <2>5, <2>6 DEF WebIInv
<1> QED
  BY <1>6, <1>7 DEF c

LEMMA WebEndInvariant ==
  ASSUME WebIInv, web_sock \in WebClients, WebHangup(web_sock),
         web_sock' = NoClient, web_ready' = FALSE, UNCHANGED <<web_queue, web_getbuf>>
  PROVE  WebIInv'
<1> USE WebAssumption
<1>1. /\ web_sent' \in [WebClients -> 0 .. MaxRequest] /\ web_gone' \subseteq WebClients
      /\ web_wire' \in [WebClients -> Seq(WebBytes)]
      /\ web_wire'[web_sock] = Segment(web_sock, 1, web_sent'[web_sock])
      /\ \A d \in WebClients :
            d # web_sock => web_sent'[d] = web_sent[d] /\ web_wire'[d] = web_wire[d]
  BY HangupStream
<1>2. WebTypeOK'
  BY <1>1 DEF WebIInv, WebTypeOK
<1>3. WebStreamsWait'
  BY <1>1 DEF WebIInv, WebStreamsWait
<1>4. WebQueueDistinct'
  <2>1. \A i \in DOMAIN web_queue : web_queue[i] # NoClient
    BY DEF WebIInv, WebTypeOK
  <2> QED
    BY <2>1 DEF WebIInv, WebQueueDistinct
<1>5. WebStreamGoesOn' /\ WebRequestIsWhole'
  BY DEF WebStreamGoesOn, WebRequestIsWhole
<1> QED
  BY <1>2, <1>3, <1>4, <1>5 DEF WebIInv

LEMMA WebReceiveInvariant ==
  ASSUME WebIInv, ~web_ready, WebReceive
  PROVE  WebIInv'
<1> DEFINE c     == web_sock
           k     == Len(web_getbuf)
           w     == web_wire[c]
           taken == IF Len(w) > Room THEN Room ELSE Len(w)
<1>1. /\ c \in WebClients /\ web_getbuf \in Seq(WebBytes) /\ k \in Nat /\ k < GET_LEN
      /\ w \in Seq(WebBytes) /\ web_sent[c] \in 0 .. MaxRequest /\ k <= web_sent[c]
      /\ web_getbuf = Segment(c, 1, k) /\ w = Segment(c, k + 1, web_sent[c]) /\ w # <<>>
  BY DEF WebReceive, WebIInv, WebTypeOK, WebStreamGoesOn
<1>2. PICK m \in Nat : m = web_sent[c]
  BY <1>1
<1>3. PICK i \in Nat \ {0} : i = k + 1
  BY <1>1
<1>4. Len(w) = m - k
  <2>1. i <= m + 1
    BY <1>1, <1>2, <1>3
  <2>2. Len(Segment(c, i, m)) = m - i + 1
    BY <2>1, SegmentIs
  <2> QED
    BY <1>1, <1>2, <1>3, <2>2
<1>5. taken \in Nat /\ k + taken <= m /\ k + taken <= GET_LEN
      /\ (k + taken < GET_LEN => k + taken = m)
  <2>1. Room = GET_LEN - k /\ GET_LEN \in Nat
    BY WebAssumption DEF Room
  <2>2. CASE Len(w) > Room
    BY <1>1, <1>2, <1>4, <2>1, <2>2
  <2>3. CASE Len(w) <= Room
    <3>1. taken = m - k
      BY <1>1, <1>2, <1>4, <2>1, <2>3
    <3> QED
      BY <1>1, <1>2, <1>4, <2>1, <2>3, <3>1
  <2> QED
    BY <1>1, <1>4, <2>1, <2>2, <2>3
<1>6. web_getbuf' = web_getbuf \o SubSeq(w, 1, taken)
  BY DEF WebReceive
<1> HIDE DEF taken
<1>7. web_getbuf' = Segment(c, 1, k + taken)
  <2>1. taken \in 0 .. m - i + 1 /\ i <= m + 1
    BY <1>1, <1>2, <1>3, <1>5
  <2>2. SubSeq(Segment(c, i, m), 1, taken) = Segment(c, i, i + taken - 1)
    BY <2>1, SegmentHead
  <2>3. SubSeq(w, 1, taken) = Segment(c, k + 1, k + taken)
    <3>1. i + taken - 1 = k + taken
      BY <1>1, <1>3, <1>5
    <3> QED
      BY <1>1, <1>2, <1>3, <2>2, <3>1
  <2>4. 1 \in Nat \ {0} /\ 1 <= k + 1 /\ k <= k + taken /\ k + taken \in Nat
    BY <1>1, <1>5
  <2>5. Segment(c, 1, k) \o Segment(c, k + 1, k + taken) = Segment(c, 1, k + taken)
    BY <1>1, <2>4, SegmentConcat
  <2> QED
    BY <1>1, <1>6, <2>3, <2>5
<1>8. PICK j \in Nat : j = k + taken
  BY <1>1, <1>5
<1>9. Len(web_getbuf') = j /\ web_getbuf' \in Seq(WebBytes)
  <2>1. 1 \in Nat \ {0} /\ 1 <= j + 1 /\ j <= MaxRequest /\ MaxRequest \in Nat
    BY <1>1, <1>2, <1>5, <1>8, WebAssumption
  <2>2. Len(Segment(c, 1, j)) = j - 1 + 1
    BY <2>1, SegmentIs
  <2>3. Segment(c, 1, j) \in Seq(WebBytes)
    BY <1>1, <2>1, SegmentType DEF Positions, WebBytes
  <2> QED
    BY <1>7, <1>8, <2>2, <2>3
<1>10. web_ready' = (j >= GET_LEN)
  BY <1>9 DEF WebReceive, Complete
<1>a. (web_ready' => j >= GET_LEN) /\ (~web_ready' => ~(j >= GET_LEN))
  BY <1>10, Zenon
<1>b. k + taken <= GET_LEN /\ k + taken = j /\ GET_LEN \in Nat
  BY <1>5, <1>8, WebAssumption
<1>11. /\ web_wire'[c] = <<>> /\ web_wire' \in [WebClients -> Seq(WebBytes)]
       /\ \A d \in WebClients : d # c => web_wire'[d] = web_wire[d]
       /\ UNCHANGED <<web_queue, web_sent, web_gone, web_sock>>
  <2>1. web_wire \in [WebClients -> Seq(WebBytes)] /\ <<>> \in Seq(WebBytes)
    BY DEF WebIInv, WebTypeOK
  <2> QED
    BY <1>1, <2>1 DEF WebReceive
<1>12. WebTypeOK'
  <2>1. Len(web_getbuf') <= GET_LEN
    BY <1>5, <1>8, <1>9
  <2>2. web_ready' \in BOOLEAN
    BY <1>10
  <2> QED
    BY <1>9, <1>11, <2>1, <2>2 DEF WebIInv, WebTypeOK
<1>13. WebQueueDistinct' /\ WebStreamsWait'
  BY <1>11 DEF WebIInv, WebQueueDistinct, WebStreamsWait
<1>14. WebStreamGoesOn'
  <2> SUFFICES ASSUME ~web_ready'
               PROVE  /\ Len(web_getbuf') < GET_LEN /\ Len(web_getbuf') <= web_sent[c]
                      /\ web_getbuf' = Segment(c, 1, Len(web_getbuf'))
                      /\ web_wire'[c] = Segment(c, Len(web_getbuf') + 1, web_sent[c])
    BY <1>11 DEF WebStreamGoesOn
  <2>1. j < GET_LEN /\ j = m
    BY <1>5, <1>a, <1>b
  <2>2. Segment(c, m + 1, m) = <<>>
    <3>1. PICK p \in Nat \ {0} : p = m + 1
      OBVIOUS
    <3>2. p <= m + 1 /\ m <= m
      BY <3>1
    <3>3. Segment(c, p, m) \in Seq(Positions({c}, m)) /\ Len(Segment(c, p, m)) = m - p + 1
      BY <3>2, SegmentIs, SegmentType
    <3> QED
      BY <3>1, <3>3, EmptySeq
  <2> QED
    BY <1>2, <1>7, <1>8, <1>9, <1>11, <2>1, <2>2
<1>15. WebRequestIsWhole'
  <2>1. web_ready' => j = GET_LEN
    BY <1>a, <1>b
  <2>2. web_sock # NoClient
    BY DEF WebReceive
  <2> QED
    BY <1>7, <1>8, <1>11, <2>1, <2>2 DEF WebRequestIsWhole
<1> QED
  BY <1>12, <1>13, <1>14, <1>15 DEF WebIInv

LEMMA WebReadInvariant ==
  ASSUME WebIInv, ~web_ready, WebRead
  PROVE  WebIInv'
<1>1. CASE WebClosedRemotely
  <2>1. web_sock \in WebClients
    BY <1>1 DEF WebClosedRemotely, WebIInv, WebTypeOK
  <2> QED
    BY <1>1, <2>1, WebEndInvariant DEF WebClosedRemotely
<1>2. CASE WebNothing
  BY <1>2 DEF WebNothing, webClientVars, WebIInv, WebTypeOK, WebQueueDistinct,
              WebStreamsWait, WebStreamGoesOn, WebRequestIsWhole
<1> QED
  BY <1>1, <1>2, WebAcceptInvariant, WebReceiveInvariant DEF WebRead

LEMMA WebServeInvariant ==
  ASSUME WebIInv, web_ready, WebServe
  PROVE  WebIInv'
<1>1. web_sock \in WebClients
  BY DEF WebIInv, WebTypeOK, WebRequestIsWhole
<1> QED
  BY <1>1, WebEndInvariant DEF WebServe

LEMMA WebStutter ==
  ASSUME WebIInv, UNCHANGED webVars
  PROVE  WebIInv'
  BY DEF webVars, webClientVars, WebIInv, WebTypeOK, WebQueueDistinct, WebStreamsWait,
         WebStreamGoesOn, WebRequestIsWhole

-----------------------------------------------------------------------------
(* The loop over both ports *)

(* The loop serves what it has just read, and nothing older.               *)
LoopAgrees ==
  /\ pc \in {"WEB", "PAGE", "TCP", "HANDLE"}
  /\ (pc = "HANDLE") <=> (srv_pkt # <<>>)
  /\ (pc = "PAGE") <=> web_ready

(* A turn of the loop, or a step around it, is a step of the packet port.  *)
LEMMA LoopStepMaps ==
  ASSUME LoopAgrees, [Next]_vars
  PROVE  [TcpNext]_tcpVars /\ LoopAgrees'
<1> USE DEF LoopAgrees
<1>1. CASE PollWeb
  <2>1. UNCHANGED tcpVars /\ srv_pkt' = srv_pkt
    BY <1>1 DEF PollWeb, tcpVars
  <2> QED
    BY <1>1, <2>1 DEF PollWeb
<1>2. CASE Page
  BY <1>2 DEF Page, WebServe, tcpVars
<1>3. CASE PollTcp
  <2>1. TcpNext /\ web_ready' = web_ready
    BY <1>3 DEF PollTcp, TcpNext, TcpServer, webVars
  <2> QED
    BY <1>3, <2>1 DEF PollTcp
<1>4. CASE Handle
  <2>1. TcpNext /\ web_ready' = web_ready /\ srv_pkt' = <<>>
    BY <1>4 DEF Handle, TcpNext, TcpServer, AnswerAndClose, Close, webVars
  <2> QED
    BY <1>4, <2>1 DEF Handle
<1>5. CASE Environment
  <2>1. CASE Tick /\ UNCHANGED webVars
    BY <1>5, <2>1 DEF Environment, Tick, TcpNext, webVars
  <2>2. CASE TcpClients /\ UNCHANGED webVars
    <3>1. TcpNext
      BY <2>2 DEF TcpNext
    <3>2. srv_pkt' = srv_pkt
      BY <2>2 DEF TcpClients, Connect, Send, Leave, serverVars
    <3>3. pc' = pc /\ web_ready' = web_ready
      BY <1>5, <2>2 DEF Environment, webVars
    <3> QED
      BY <3>1, <3>2, <3>3
  <2>3. CASE \E c \in WebClients :
               (WebConnect(c) \/ WebSend(c) \/ WebLeave(c)) /\ UNCHANGED tcpVars
    <3>1. web_ready' = web_ready /\ pc' = pc
      BY <1>5, <2>3 DEF Environment, WebConnect, WebSend, WebLeave
    <3>2. UNCHANGED tcpVars /\ srv_pkt' = srv_pkt
      BY <2>3 DEF tcpVars
    <3> QED
      BY <3>1, <3>2
  <2> QED
    BY <1>5, <2>1, <2>2, <2>3 DEF Environment
<1>6. CASE UNCHANGED vars
  BY <1>6 DEF vars, tcpVars, webVars
<1> QED
  BY <1>1, <1>2, <1>3, <1>4, <1>5, <1>6 DEF Next, Server

LEMMA LoopAgreesAlways == Spec => []LoopAgrees
<1>1. Init => LoopAgrees
  BY DEF Init, TcpInit, WebInit, LoopAgrees
<1>2. LoopAgrees /\ [Next]_vars => LoopAgrees'
  BY LoopStepMaps
<1> QED
  BY <1>1, <1>2, PTL DEF Spec

(* The loop uses the packet port as the port expects: it polls only when   *)
(* the packet before is answered.                                          *)
THEOREM LoopKeepsPort == Spec => TcpSpec
<1>1. Init => TcpInit
  BY DEF Init
<1>2. LoopAgrees /\ [Next]_vars => [TcpNext]_tcpVars
  BY LoopStepMaps
<1> QED
  BY <1>1, <1>2, LoopAgreesAlways, PTL DEF Spec, TcpSpec

LEMMA WebStepInvariant ==
  ASSUME WebIInv, LoopAgrees, [Next]_vars
  PROVE  WebIInv'
<1>1. CASE PollWeb
  BY <1>1, WebReadInvariant DEF PollWeb, LoopAgrees
<1>2. CASE Page
  BY <1>2, WebServeInvariant DEF Page, LoopAgrees
<1>3. CASE \E c \in WebClients :
             (WebConnect(c) \/ WebSend(c) \/ WebLeave(c)) /\ UNCHANGED tcpVars
  BY <1>3, WebConnectInvariant, WebSendInvariant, WebLeaveInvariant
<1>4. CASE UNCHANGED webVars
  BY <1>4, WebStutter
<1> QED
  BY <1>1, <1>2, <1>3, <1>4 DEF Next, Server, PollTcp, Handle, Environment, vars

LEMMA WebInvariance == Spec => []WebIInv
<1>1. Init => WebIInv
  BY WebInitInvariant DEF Init
<1>2. WebIInv /\ LoopAgrees /\ [Next]_vars => WebIInv'
  BY WebStepInvariant
<1> QED
  BY <1>1, <1>2, LoopAgreesAlways, PTL DEF Spec

(* The types of the whole loop, for any clients and limits.                *)
THEOREM LoopTypeCorrect == Spec => []TypeOK
<1>1. WebIInv /\ LoopAgrees /\ TcpTypeOK => TypeOK
  BY DEF WebIInv, LoopAgrees, TypeOK
<1> QED
  BY <1>1, WebInvariance, LoopAgreesAlways, LoopKeepsPort, TcpTypeCorrect, PTL

(* A page answers the request of the client it is sent to, for any number  *)
(* of web clients that replace each other.                                 *)
THEOREM RequestsAreOwn == Spec => []RequestIsOwn
<1>1. WebIInv => RequestIsOwn
  BY WebSegmentIs DEF WebIInv, WebRequestIsWhole, RequestIsOwn
<1> QED
  BY <1>1, WebInvariance, PTL
=============================================================================
