---------------------------- MODULE WebTransport ----------------------------
(***************************************************************************)
(* The web port (web/webtcp.c): one client at a time, whose request counts *)
(* once GET_LEN bytes of it have come, however few or many follow.  There  *)
(* is no timeout; instead the next client takes the place of one whose     *)
(* request is not complete, and the loser is sent the page "Server is      *)
(* overloaded, try again!".                                                *)
(***************************************************************************)
EXTENDS Integers, Sequences, SequencesExt

CONSTANTS
  WebClients, \* those who connect to the web port
  NoClient,   \* INVALID_SOCKET
  GET_LEN,    \* the bytes of a request that are looked at
  MaxRequest, \* bound: the longest request
  WebBacklog  \* connections that wait for accept

ASSUME WebAssumption ==
  /\ GET_LEN \in Nat \ {0} /\ MaxRequest \in Nat /\ MaxRequest >= GET_LEN
  /\ WebBacklog \in Nat
  /\ NoClient \notin WebClients

VARIABLES
  web_queue,  \* the connections that wait for accept
  web_sent,   \* how many bytes each connected client has sent
  web_wire,   \* the bytes of each client that the server did not receive yet
  web_gone,   \* the connected clients that closed their side
  web_sock,   \* the accepted client
  web_getbuf, \* the web_getlen bytes in the GET buffer
  web_ready   \* webtcp_read returned a request

webClientVars == <<web_queue, web_sent, web_wire, web_gone>>
webVars == <<webClientVars, web_sock, web_getbuf, web_ready>>

WebBytes == WebClients \X (1 .. MaxRequest)

WebConnected == {web_queue[i] : i \in DOMAIN web_queue} \cup ({web_sock} \ {NoClient})

WebSegment(c, i, j) == [n \in 1 .. (j - i + 1) |-> <<c, i + n - 1>>]

WebInit ==
  /\ web_queue = <<>>
  /\ web_sent = [c \in WebClients |-> 0] /\ web_wire = [c \in WebClients |-> <<>>]
  /\ web_gone = {}
  /\ web_sock = NoClient /\ web_getbuf = <<>> /\ web_ready = FALSE

-----------------------------------------------------------------------------
(* The clients *)

WebConnect(c) ==
  /\ c \notin WebConnected /\ Len(web_queue) < WebBacklog
  /\ web_queue' = Append(web_queue, c)
  /\ UNCHANGED <<web_sent, web_wire, web_gone, web_sock, web_getbuf, web_ready>>

WebSend(c) ==
  /\ c \in WebConnected \ web_gone
  /\ \E n \in (web_sent[c] + 1) .. MaxRequest :
       /\ web_sent' = [web_sent EXCEPT ![c] = n]
       /\ web_wire' = [web_wire EXCEPT ![c] = @ \o WebSegment(c, web_sent[c] + 1, n)]
  /\ UNCHANGED <<web_queue, web_gone, web_sock, web_getbuf, web_ready>>

WebLeave(c) ==
  /\ c \in WebConnected \ web_gone
  /\ web_gone' = web_gone \cup {c}
  /\ UNCHANGED <<web_queue, web_sent, web_wire, web_sock, web_getbuf, web_ready>>

-----------------------------------------------------------------------------
(* The server *)

(* web_close for client c: what was not received is lost.                  *)
WebHangup(c) ==
  /\ web_sent' = [web_sent EXCEPT ![c] = 0]
  /\ web_wire' = [web_wire EXCEPT ![c] = <<>>]
  /\ web_gone' = web_gone \ {c}

(* Deviation: the bytes of the client before stay in the GET buffer.       *)
BufferKept == web_getbuf

BufferForNewClient == <<>>

(* A new connection; a client that is still there is sent the busy page    *)
(* and has to go.  Setting TCP_NODELAY fails when the new client is gone   *)
(* already.                                                                *)
WebAccept ==
  /\ web_queue # <<>>
  /\ web_queue' = Tail(web_queue)
  /\ web_ready' = FALSE
  /\ \/ /\ web_sock' = Head(web_queue)
        /\ web_getbuf' = BufferForNewClient
        /\ IF web_sock # NoClient
             THEN WebHangup(web_sock)
             ELSE UNCHANGED <<web_sent, web_wire, web_gone>>
     \/ /\ Head(web_queue) \in web_gone
        /\ WebHangup(Head(web_queue))
        /\ UNCHANGED <<web_sock, web_getbuf>>

WebClosedRemotely ==
  /\ web_queue = <<>> /\ web_sock \in web_gone /\ web_wire[web_sock] = <<>>
  /\ WebHangup(web_sock)
  /\ web_sock' = NoClient /\ web_ready' = FALSE
  /\ UNCHANGED <<web_queue, web_getbuf>>

(* Deviation: a request is complete when it does not fit the buffer.       *)
Overfull(len) == len > GET_LEN

Complete(len) == len >= GET_LEN

(* Deviation: the bytes that are in the GET buffer are forgotten.          *)
WholeBuffer == GET_LEN

Room == GET_LEN - Len(web_getbuf)

(* recv takes all there is; what does not fit the GET buffer is dropped.   *)
WebReceive ==
  /\ web_queue = <<>> /\ web_sock # NoClient /\ web_wire[web_sock] # <<>>
  /\ LET len   == Len(web_wire[web_sock])
         taken == IF len > Room THEN Room ELSE len
     IN  web_getbuf' = web_getbuf \o SubSeq(web_wire[web_sock], 1, taken)
  /\ web_wire' = [web_wire EXCEPT ![web_sock] = <<>>]
  /\ web_ready' = Complete(Len(web_getbuf'))
  /\ UNCHANGED <<web_queue, web_sent, web_gone, web_sock>>

WebNothing ==
  /\ web_queue = <<>>
  /\ web_sock # NoClient => web_sock \notin web_gone /\ web_wire[web_sock] = <<>>
  /\ web_ready' = FALSE
  /\ UNCHANGED <<webClientVars, web_sock, web_getbuf>>

WebRead == WebAccept \/ WebClosedRemotely \/ WebReceive \/ WebNothing

(* The page, or the page that says the interface is disabled, or nothing   *)
(* for a request that is no GET; then the connection ends.                 *)
WebServe ==
  /\ WebHangup(web_sock)
  /\ web_sock' = NoClient /\ web_ready' = FALSE
  /\ UNCHANGED <<web_queue, web_getbuf>>

-----------------------------------------------------------------------------
(* Properties *)

(* The types of the variables of this port.                                *)
WebTypeOK ==
  /\ web_queue \in Seq(WebClients) /\ Len(web_queue) <= WebBacklog
  /\ web_sent \in [WebClients -> 0 .. MaxRequest] /\ web_gone \subseteq WebClients
  /\ web_wire \in [WebClients -> Seq(WebBytes)]
  /\ web_sock \in WebClients \cup {NoClient}
  /\ web_getbuf \in Seq(WebBytes) /\ Len(web_getbuf) <= GET_LEN
  /\ web_ready \in BOOLEAN

(* A page answers the first GET_LEN bytes of the client it is sent to,     *)
(* although clients replace each other before their requests are complete. *)
RequestIsOwn ==
  web_ready => web_getbuf = WebSegment(web_sock, 1, GET_LEN)

(* A web client that sent all of a request is sent the page, or is told    *)
(* that the server is busy, unless clients that leave before they are      *)
(* accepted keep coming for ever.                                          *)
RequestIsAnswered ==
  (<>[](\A i \in DOMAIN web_queue : web_queue[i] \notin web_gone)) =>
    \A c \in WebClients :
      (c \in WebConnected /\ web_sent[c] >= GET_LEN) ~> (c \notin WebConnected)
=============================================================================
