------------------------------ MODULE MainLoop ------------------------------
(***************************************************************************)
(* srv_process: the infinite loop of the server.  Each turn polls the web  *)
(* port, serves a web request that is complete, polls the packet port, and *)
(* handles and answers a packet that is complete.  Clients of both ports   *)
(* act at any time between these steps.  What the handlers do is the       *)
(* subject of Registrar and Accountant.                                    *)
(***************************************************************************)
EXTENDS Transport, WebTransport

VARIABLE pc  \* where the loop is

vars == <<tcpVars, webVars, pc>>

Init == TcpInit /\ WebInit /\ pc = "WEB"

(* Deviation: a new web client is looked at again before the packet port.  *)
PollWebAgain ==
  /\ pc = "WEB"
  /\ WebRead
  /\ pc' = IF web_ready' THEN "PAGE" ELSE IF web_sock' # web_sock THEN "WEB" ELSE "TCP"
  /\ UNCHANGED tcpVars

PollWeb ==
  /\ pc = "WEB"
  /\ WebRead
  /\ pc' = IF web_ready' THEN "PAGE" ELSE "TCP"
  /\ UNCHANGED tcpVars

Page ==
  /\ pc = "PAGE"
  /\ WebServe
  /\ pc' = "TCP"
  /\ UNCHANGED tcpVars

PollTcp ==
  /\ pc = "TCP"
  /\ TcpRead
  /\ pc' = IF srv_pkt' # <<>> THEN "HANDLE" ELSE "WEB"
  /\ UNCHANGED webVars

Handle ==
  /\ pc = "HANDLE"
  /\ AnswerAndClose
  /\ pc' = "WEB"
  /\ UNCHANGED webVars

Server == PollWeb \/ Page \/ PollTcp \/ Handle

Environment ==
  /\ \/ Tick /\ UNCHANGED webVars
     \/ TcpClients /\ UNCHANGED webVars
     \/ \E c \in WebClients :
          (WebConnect(c) \/ WebSend(c) \/ WebLeave(c)) /\ UNCHANGED tcpVars
  /\ UNCHANGED pc

Next == Server \/ Environment

Spec == Init /\ [][Next]_vars

(* The loop never blocks, and time passes.  Clients may do nothing.        *)
FairSpec == Spec /\ WF_vars(Server) /\ WF_vars(Tick /\ UNCHANGED <<webVars, pc>>)

-----------------------------------------------------------------------------
(* Properties *)

(* The types of all variables.                                             *)
TypeOK ==
  /\ TcpTypeOK /\ WebTypeOK
  /\ pc \in {"WEB", "PAGE", "TCP", "HANDLE"}
=============================================================================
