------------------------------- MODULE Startup -------------------------------
(***************************************************************************)
(* The start of the voting server: srv_init calls srv_inir, srv_iniv,      *)
(* srv_get_voter_pubkey and srv_get_reg_pubkey in this order.  Each role   *)
(* fills its random generator, opens its database, keeps a file with its   *)
(* secret key and one with its public key, creates them when the secret    *)
(* cannot be read, and reads the public key of the other; the Accountant   *)
(* signs it, for the answers of srv_gets.  A file is truncated by fopen    *)
(* and has its contents only after fclose, and the process may die between *)
(* any two of these steps.                                                 *)
(*                                                                         *)
(* Data.  A key pair is one value: the secret file, the public file and    *)
(* the memory hold the same value when they belong together.  bls_key and  *)
(* bls_hash refuse a random number only if it is 0, and the blind          *)
(* signature by which a start tests its key succeeds for every key         *)
(* (module Arithmetic), so the errors GENX, GENXX, HASHYY, TEST are left   *)
(* out.                                                                    *)
(***************************************************************************)
EXTENDS Integers

CONSTANTS
  KeyPairs,   \* the key pairs the generator may produce
  Null,       \* no key in memory
  MaxCrashes, \* bound: how often the process may die
  Faults      \* the faults of a run: a subset of AllFaults

Roles == {"reg", "vot"}
Other(role) == IF role = "reg" THEN "vot" ELSE "reg"

(* A file is missing, or shorter than a key, or holds a key.               *)
Contents == KeyPairs \cup {"missing", "short"}

(* The list of candidates, with or without names.                          *)
Lists == {"missing", "empty", "names"}

AllFaults == {"entropy", "open", "database", "table", "read", "port"}

ASSUME ContentsAssumption ==
  /\ {"missing", "short", Null} \cap KeyPairs = {}
  /\ MaxCrashes \in Nat
  /\ Faults \subseteq AllFaults

VARIABLES
  sec,     \* reg.sec and vot.sec
  pub,     \* reg.pub and vot.pub
  list,    \* vot.txt with the candidates
  own,     \* rkeys->x, XX and vkeys->x, XX
  peer,    \* rkeys->YY and vkeys->YY: the public key read from the other
  rps,     \* vkeys->rps: who signed, and whose public key
  role,    \* the role that is being initialized
  place,   \* where the initialization is
  e,       \* the error of the latest start
  served,  \* the key pairs of the first server that ran: the clients' view
  unread,  \* the roles whose complete secret file once could not be read
  failed,  \* the files that this start could not open or read
  crashes  \* how often the process died

startVars ==
  <<sec, pub, list, own, peer, rps, role, place, e, served, unread, failed, crashes>>

KeyErrors == {"SAVEX", "SAVEXX", "LOADXX", "LENXX", "CHECKXX", "LOADYY", "LENYY"}
Errors == KeyErrors \cup {"RNG", "DBOPEN", "DBTAB"}
Steps == {"down", "RNG", "LIST", "OPEN_DB", "LOAD_SEC", "CREATE", "WRITE_SEC", "OPEN_PUB", "WRITE_PUB",
          "CHECK_PUB", "LOAD_PEER", "LISTEN", "run"}

NoKeys == [x \in Roles |-> Null]
NoSignature == [by |-> Null, of |-> Null]

-----------------------------------------------------------------------------
(* The operator may have entered the candidates before the first start.    *)
StartInit ==
  /\ sec = [x \in Roles |-> "missing"] /\ pub = [x \in Roles |-> "missing"]
  /\ list \in {"missing", "names"} /\ own = NoKeys /\ peer = NoKeys /\ rps = NoSignature
  /\ role = "reg" /\ place = "down" /\ e = "NONE"
  /\ served = NoKeys /\ unread = {} /\ failed = {} /\ crashes = 0

Files  == <<sec, pub, list>>
Memory == <<own, peer, rps>>
Rest   == <<e, served, unread, crashes>>

(* The operator starts the program.                                        *)
Start ==
  /\ place = "down"
  /\ place' = "RNG" /\ role' = "reg" /\ e' = "NONE" /\ failed' = {}
  /\ UNCHANGED <<Files, Memory, served, unread, crashes>>

(* Deviation: a start that fails removes the public key it worked on.      *)
StopCleaning(error) ==
  /\ place' = "down" /\ e' = error
  /\ own' = NoKeys /\ peer' = NoKeys /\ rps' = NoSignature
  /\ pub' = IF error # "NONE" THEN [pub EXCEPT ![role] = "missing"] ELSE pub
  /\ UNCHANGED <<sec, list, role, served, unread, crashes>>

(* srv_init returns 0 and main leaves.                                     *)
Stop(error) ==
  /\ place' = "down" /\ e' = error
  /\ own' = NoKeys /\ peer' = NoKeys /\ rps' = NoSignature
  /\ UNCHANGED <<Files, role, served, unread, crashes>>

(* The process is killed, or the machine fails.                            *)
Crash ==
  /\ place # "down" /\ crashes < MaxCrashes
  /\ crashes' = crashes + 1
  /\ place' = "down" /\ own' = NoKeys /\ peer' = NoKeys /\ rps' = NoSignature
  /\ UNCHANGED <<Files, role, e, served, unread, failed>>

(* The operator ends the server, to start it in another mode.              *)
Quit == place = "run" /\ Stop("NONE") /\ UNCHANGED failed

MayFail(fault) == IF fault \in Faults THEN BOOLEAN ELSE {FALSE}

(* What fopen and fgets make of a file with a key: either may fail.        *)
ReadAs(file) ==
  {file} \cup
    (IF "read" \notin Faults THEN {}
     ELSE {"missing"} \cup (IF file \in KeyPairs THEN {"short"} ELSE {}))

Note(file, failure) == failed' = IF failure THEN failed \cup {file} ELSE failed

-----------------------------------------------------------------------------
(* srv_inir and srv_iniv *)

(* Up to 1000 times trng_init, until both sources gave randomness.         *)
InitGenerator ==
  /\ place = "RNG"
  /\ \E poor \in MayFail("entropy") :
       IF poor
         THEN Stop("RNG")
         ELSE /\ place' = IF role = "vot" THEN "LIST" ELSE "OPEN_DB"
              /\ UNCHANGED <<Files, Memory, role, Rest>>
  /\ UNCHANGED failed

(* The candidates are read from vot.txt; one that cannot be opened is      *)
(* created, empty, or truncated.                                           *)
LoadList ==
  /\ place = "LIST"
  /\ \E unreadable \in MayFail("read"), refused \in MayFail("open") :
       LET opened == list # "missing" /\ ~unreadable
       IN  /\ Note("list", ~opened /\ (list # "missing" \/ refused))
           /\ IF ~opened /\ refused
                THEN Stop("SAVEXX")
                ELSE /\ list' = IF opened THEN list ELSE "empty"
                     /\ place' = "OPEN_DB"
                     /\ UNCHANGED <<sec, pub, Memory, role, Rest>>

(* sqlite3_open, and CREATE TABLE IF NOT EXISTS.                           *)
OpenDb ==
  /\ place = "OPEN_DB"
  /\ \E closed \in MayFail("database"), broken \in MayFail("table") :
       IF closed THEN Stop("DBOPEN")
       ELSE IF broken THEN Stop("DBTAB")
       ELSE /\ place' = "LOAD_SEC"
            /\ UNCHANGED <<Files, Memory, role, Rest>>
  /\ UNCHANGED failed

(* Deviation: the length of a secret is never the expected one.            *)
SecretMistaken(line) == FALSE

(* Deviation: any file that opens holds a secret.                          *)
SecretOpened(line) == line # "missing"

SecretLoaded(line) == line \in KeyPairs

(* A secret that cannot be opened or is too short is taken for a first     *)
(* start.                                                                  *)
LoadSec ==
  /\ place = "LOAD_SEC"
  /\ \E line \in ReadAs(sec[role]) :
       /\ IF SecretLoaded(line)
            THEN own' = [own EXCEPT ![role] = line] /\ place' = "CHECK_PUB"
            ELSE own' = own /\ place' = "CREATE"
       /\ unread' = IF line # sec[role] /\ sec[role] \in KeyPairs
                      THEN unread \cup {role} ELSE unread
       /\ Note("sec", line # sec[role])
  /\ UNCHANGED <<Files, peer, rps, role, e, served, crashes>>

(* 32 random bytes: a key pair nobody has.                                 *)
FreshKeyPairs ==
  KeyPairs \ UNION {{sec[x], pub[x], own[x], served[x]} : x \in Roles}

(* bls_key of new random bytes, then fopen(.sec, "wt") truncates the file. *)
Create ==
  /\ place = "CREATE"
  /\ \E refused \in MayFail("open"), k \in FreshKeyPairs :
       /\ Note("sec", refused)
       /\ IF refused
            THEN Stop("SAVEX")
            ELSE /\ own' = [own EXCEPT ![role] = k]
                 /\ sec' = [sec EXCEPT ![role] = "short"]
                 /\ place' = "WRITE_SEC"
                 /\ UNCHANGED <<pub, list, peer, rps, role, Rest>>

WriteSec ==
  /\ place = "WRITE_SEC"
  /\ sec' = [sec EXCEPT ![role] = own[role]]
  /\ place' = "OPEN_PUB"
  /\ UNCHANGED <<pub, list, Memory, role, Rest, failed>>

OpenPub ==
  /\ place = "OPEN_PUB"
  /\ \E refused \in MayFail("open") :
       /\ Note("pub", refused)
       /\ IF refused
            THEN Stop("SAVEXX")
            ELSE /\ pub' = [pub EXCEPT ![role] = "short"]
                 /\ place' = "WRITE_PUB"
                 /\ UNCHANGED <<sec, list, Memory, role, Rest>>

WritePub ==
  /\ place = "WRITE_PUB"
  /\ pub' = [pub EXCEPT ![role] = own[role]]
  /\ place' = "CHECK_PUB"
  /\ UNCHANGED <<sec, list, Memory, role, Rest, failed>>

(* Deviation: a public key file of the right length is not compared with   *)
(* the key computed from the secret.                                       *)
LengthChecked(file, key) ==
  IF file = "missing" THEN "LOADXX"
  ELSE IF file = "short" THEN "LENXX"
  ELSE "NONE"

PubChecked(file, key) ==
  IF file = "missing" THEN "LOADXX"
  ELSE IF file = "short" THEN "LENXX"
  ELSE IF file # key THEN "CHECKXX"
  ELSE "NONE"

(* The public key is read back and compared; then the other role, then the *)
(* exchange.                                                               *)
CheckPub ==
  /\ place = "CHECK_PUB"
  /\ \E line \in ReadAs(pub[role]) :
       /\ Note("pub", line # pub[role])
       /\ IF PubChecked(line, own[role]) # "NONE"
            THEN Stop(PubChecked(line, own[role]))
            ELSE /\ role' = Other(role)
                 /\ place' = IF role = "reg" THEN "RNG" ELSE "LOAD_PEER"
                 /\ UNCHANGED <<Files, Memory, Rest>>

-----------------------------------------------------------------------------
(* srv_get_voter_pubkey, srv_get_reg_pubkey: the latter also signs.        *)
LoadPeer ==
  /\ place = "LOAD_PEER"
  /\ \E line \in ReadAs(pub[Other(role)]) :
       /\ Note("pub", line # pub[Other(role)])
       /\ IF line = "missing" THEN Stop("LOADYY")
          ELSE IF line = "short" THEN Stop("LENYY")
          ELSE /\ peer' = [peer EXCEPT ![role] = line]
               /\ rps' = IF role = "vot" THEN [by |-> own[role], of |-> line] ELSE rps
               /\ role' = Other(role)
               /\ place' = IF role = "reg" THEN "LOAD_PEER" ELSE "LISTEN"
               /\ UNCHANGED <<Files, own, Rest>>

(* tcp_init and web_tcp_init end srv_init: the keys are served from now on. *)
Listen ==
  /\ place = "LISTEN"
  /\ \E refused \in MayFail("port") :
       IF refused
         THEN Stop("NONE")
         ELSE /\ place' = "run"
              /\ served' = IF served = NoKeys THEN own ELSE served
              /\ UNCHANGED <<Files, Memory, role, e, unread, crashes>>
  /\ UNCHANGED failed

(* The functions that initialize the roles.                                *)
InitRole == \/ InitGenerator \/ OpenDb \/ LoadSec \/ Create \/ WriteSec
            \/ OpenPub \/ WritePub \/ CheckPub
srv_inir == role = "reg" /\ InitRole
srv_iniv == role = "vot" /\ (LoadList \/ InitRole)
srv_get_voter_pubkey == role = "reg" /\ LoadPeer
srv_get_reg_pubkey == role = "vot" /\ LoadPeer

Initialize == \/ srv_inir \/ srv_iniv
              \/ srv_get_voter_pubkey \/ srv_get_reg_pubkey \/ Listen

StartNext == Start \/ Initialize \/ Quit \/ Crash

StartSpec == StartInit /\ [][StartNext]_startVars

(* The initialization runs by itself, and the operator starts a program    *)
(* that stopped.                                                           *)
FairStart == StartSpec /\ WF_startVars(Start) /\ WF_startVars(Initialize)

-----------------------------------------------------------------------------
(* srv_gets: anyone may ask for the Accountant's public key and its        *)
(* signature on the Registrar's; a wrong packet gets an error and no keys. *)
GetsPackets == [type : {"GETS", "other"}, length : {"GETS_RL", "other"}, crc : BOOLEAN]

GetsError(pkt) ==
  CASE pkt.type # "GETS" -> "TYPE"
    [] pkt.type = "GETS" /\ pkt.length # "GETS_RL" -> "LEN"
    [] pkt.type = "GETS" /\ pkt.length = "GETS_RL" /\ ~pkt.crc -> "CRC"
    [] OTHER -> "NONE"

srv_gets(pkt) ==
  IF GetsError(pkt) = "NONE"
    THEN [note |-> "NONE", AS |-> rps, AV |-> own["vot"]]
    ELSE [note |-> GetsError(pkt), AS |-> NoSignature, AV |-> Null]

-----------------------------------------------------------------------------
(* Properties *)

(* The types of all variables.                                             *)
StartTypeOK ==
  /\ sec \in [Roles -> Contents] /\ pub \in [Roles -> Contents]
  /\ own \in [Roles -> KeyPairs \cup {Null}]
  /\ peer \in [Roles -> KeyPairs \cup {Null}]
  /\ list \in Lists
  /\ rps \in [by : KeyPairs \cup {Null}, of : KeyPairs \cup {Null}]
  /\ served \in [Roles -> KeyPairs \cup {Null}]
  /\ role \in Roles /\ place \in Steps /\ e \in Errors \cup {"NONE"}
  /\ unread \subseteq Roles /\ failed \subseteq {"list", "sec", "pub"}
  /\ crashes \in Nat

(* Whatever happened to the files before (secrets that could not be read   *)
(* and were replaced, starts that ended between two files), a server that  *)
(* serves clients signs with the keys that its files hold, and each role   *)
(* verifies with the key that the other signs with.  The keys that srv_gets *)
(* gives to clients are these: its answer holds the Accountant's key, and  *)
(* the signature under it belongs to the key the Registrar signs with.     *)
RunsWithMatchingKeys ==
  place = "run" =>
    /\ \A x \in Roles : own[x] = sec[x] /\ own[x] = pub[x] /\ peer[Other(x)] = own[x]
    /\ \A pkt \in GetsPackets :
         srv_gets(pkt).note = "NONE" =>
           /\ srv_gets(pkt).AV = own["vot"]
           /\ srv_gets(pkt).AS = [by |-> own["vot"], of |-> own["reg"]]

(* Signatures and tickets stay verifiable: a later server runs with the    *)
(* keys of the first, except for a role whose secret file could not be     *)
(* read.                                                                   *)
KeysAreKept ==
  place = "run" => \A x \in Roles : x \notin unread => own[x] = served[x]

(* A start ends with an error of the keys or of the list of candidates for *)
(* one of three reasons: a file could not be opened or read in this very   *)
(* start, a secret file could not be read in an earlier one, or no server  *)
(* ever ran because the first start was interrupted.  A server that once   *)
(* served clients starts again whatever crashes came in between, and a     *)
(* public key or a list that could not be opened harms that start only.    *)
RefusesForReason ==
  e \in KeyErrors => failed # {} \/ unread # {} \/ served = NoKeys

(* README: "At the first start Registrar and Accountant generate key pair  *)
(* and exchange each other by public keys": at last the server runs.       *)
ComesUp == <>(place = "run")
=============================================================================
