----------------------------- MODULE Transport -----------------------------
(***************************************************************************)
(* The packet transport (tcp/trr.c): one listening socket, at most one     *)
(* accepted connection, one packet and one answer per connection.  The     *)
(* server never blocks: tcp_read is called again and again by the main     *)
(* loop and does one thing per call (accept, look at the clock, receive    *)
(* what is there).                                                         *)
(*                                                                         *)
(* Data.  A byte is named by the client that sent it and its position; the *)
(* length that a client puts in its header is sizes[c].  Times are         *)
(* relative to the accept of the connection, or to the present while there *)
(* is none, and are capped where they cannot be told apart any more: -1 is *)
(* any time before.                                                        *)
(***************************************************************************)
EXTENDS Integers, Sequences, SequencesExt

CONSTANTS
  Clients,     \* those who connect to the packet port
  None,        \* INVALID_SOCKET
  TCP_HDR_LEN, \* bytes in a packet's header
  TCP_MAXLEN,  \* one more than the longest packet
  TCP_TOUT,    \* seconds a connection may last
  TCP_TIMECNT, \* polls before the clock is read for the first time
  Sizes,       \* the lengths clients put in their headers
  Backlog      \* connections that wait for accept

ASSUME LengthAssumption ==
  /\ TCP_HDR_LEN \in Nat \ {0} /\ TCP_MAXLEN \in Nat
  /\ TCP_TOUT \in Nat \ {0} /\ TCP_TIMECNT \in Nat
  /\ Sizes \subseteq Nat /\ Backlog \in Nat
  /\ None \notin Clients

VARIABLES
  queue,       \* the connections that wait for accept
  sizes,       \* the length in the header of each connected client
  sent,        \* how many bytes each connected client has sent
  wire,        \* the bytes of each client that the server did not receive yet
  gone,        \* the connected clients that closed their side
  tcp_sock,    \* the accepted connection
  tcp_buf,     \* the tcp_ptr bytes in the buffer
  tcp_req,     \* bytes still to be received
  tcp_timenow, \* the last timestamp
  tcp_timecnt, \* the counter of polls
  tcp_timeout, \* when the connection is closed
  now,         \* the time of day
  srv_pkt      \* the packet tcp_read returns, or <<>>

clientVars == <<queue, sizes, sent, wire, gone>>
clockVars  == <<tcp_timenow, tcp_timecnt, now>>
tcpVars == <<clientVars, tcp_sock, tcp_buf, tcp_req, clockVars, tcp_timeout, srv_pkt>>

Bytes == Clients \X (1 .. TCP_MAXLEN)
Late  == TCP_TOUT + 1  \* the cap of all times

Connected == {queue[i] : i \in DOMAIN queue} \cup ({tcp_sock} \ {None})

(* The bytes that client c sends from position i to position j.            *)
Segment(c, i, j) == [n \in 1 .. (j - i + 1) |-> <<c, i + n - 1>>]

TcpInit ==
  /\ queue = <<>> /\ sizes = [c \in Clients |-> 0]
  /\ sent = [c \in Clients |-> 0] /\ wire = [c \in Clients |-> <<>>]
  /\ gone = {}
  /\ tcp_sock = None /\ tcp_buf = <<>> /\ tcp_req = 0
  /\ tcp_timenow = 0 /\ tcp_timecnt = TCP_TIMECNT /\ tcp_timeout = 0 /\ now = 0
  /\ srv_pkt = <<>>

-----------------------------------------------------------------------------
(* The clients and the clock *)

serverVars == <<tcp_sock, tcp_buf, tcp_req, clockVars, tcp_timeout, srv_pkt>>

Connect(c) ==
  /\ c \notin Connected /\ Len(queue) < Backlog
  /\ queue' = Append(queue, c)
  /\ \E n \in Sizes : sizes' = [sizes EXCEPT ![c] = n]
  /\ UNCHANGED <<sent, wire, gone, serverVars>>

(* A client sends some more bytes, possibly more than its header says.     *)
Send(c) ==
  /\ c \in Connected \ gone
  /\ \E n \in (sent[c] + 1) .. TCP_MAXLEN :
       /\ sent' = [sent EXCEPT ![c] = n]
       /\ wire' = [wire EXCEPT ![c] = @ \o Segment(c, sent[c] + 1, n)]
  /\ UNCHANGED <<queue, sizes, gone, serverVars>>

Leave(c) ==
  /\ c \in Connected \ gone
  /\ gone' = gone \cup {c}
  /\ UNCHANGED <<queue, sizes, sent, wire, serverVars>>

Min2(a, b) == IF a < b THEN a ELSE b
Max2(a, b) == IF a > b THEN a ELSE b

(* One second.                                                             *)
Tick ==
  /\ IF tcp_sock # None
       THEN now' = Min2(now + 1, Late) /\ UNCHANGED tcp_timenow
       ELSE tcp_timenow' = Max2(tcp_timenow - 1, -1) /\ UNCHANGED now
  /\ UNCHANGED <<clientVars, tcp_sock, tcp_buf, tcp_req, tcp_timecnt, tcp_timeout, srv_pkt>>

-----------------------------------------------------------------------------
(* The server *)

(* The client of a closed connection may connect again with another        *)
(* packet; what the server did not receive is lost.                        *)
Hangup(c) ==
  /\ sizes' = [sizes EXCEPT ![c] = 0]
  /\ sent' = [sent EXCEPT ![c] = 0]
  /\ wire' = [wire EXCEPT ![c] = <<>>]
  /\ gone' = gone \ {c}

(* tcp_close at the time of day "now"; times start to be relative to it.   *)
Close(timenow) ==
  /\ Hangup(tcp_sock)
  /\ tcp_sock' = None /\ tcp_buf' = <<>> /\ tcp_req' = 0 /\ tcp_timeout' = 0
  /\ tcp_timenow' = Max2(timenow - now, -1) /\ now' = 0
  /\ srv_pkt' = <<>>
  /\ UNCHANGED queue

(* Deviation: the timeout starts at the last timestamp.                    *)
TimeoutFromStamp == TCP_TOUT + tcp_timenow

TimeoutFromNow == TCP_TOUT + now

(* accept; setting TCP_NODELAY fails when the client is gone already.      *)
Accept ==
  /\ tcp_sock = None /\ queue # <<>>
  /\ queue' = Tail(queue)
  /\ \/ /\ tcp_sock' = Head(queue)
        /\ tcp_timeout' = TimeoutFromNow
        /\ tcp_buf' = <<>> /\ tcp_req' = TCP_HDR_LEN
        /\ UNCHANGED <<sizes, sent, wire, gone>>
     \/ /\ Head(queue) \in gone
        /\ Hangup(Head(queue))
        /\ UNCHANGED <<tcp_sock, tcp_timeout, tcp_buf, tcp_req>>
  /\ srv_pkt' = <<>>
  /\ UNCHANGED clockVars

(* Deviation: the clock is read only while the counter runs.               *)
TimestampOnce == IF tcp_timecnt > 0 THEN now ELSE tcp_timenow

(* The clock is not read before the counter has run down, which happens    *)
(* once in the life of the server: nothing sets the counter again.         *)
Timestamp == IF tcp_timecnt > 0 THEN tcp_timenow ELSE now

(* mtos of the first bytes of the buffer.                                  *)
Declared(buf) == sizes[buf[1][1]]

(* Deviation: a packet of any length is received.                          *)
AnyLength(len) == TRUE

LengthOk(len) == TCP_HDR_LEN < len /\ len < TCP_MAXLEN

(* recv returns what is there, but no more than was asked for.             *)
Receive ==
  LET n      == Min2(Len(wire[tcp_sock]), tcp_req)
      buf    == tcp_buf \o SubSeq(wire[tcp_sock], 1, n)
      header == n = tcp_req /\ Len(buf) = TCP_HDR_LEN
  IN  IF header /\ ~LengthOk(Declared(buf))
        THEN Close(Timestamp)
        ELSE /\ wire' = [wire EXCEPT ![tcp_sock] = SubSeq(@, n + 1, Len(@))]
             /\ tcp_buf' = buf
             /\ tcp_req' = IF header THEN Declared(buf) - TCP_HDR_LEN ELSE tcp_req - n
             /\ srv_pkt' = IF n = tcp_req /\ ~header THEN buf ELSE <<>>
             /\ tcp_timenow' = Timestamp
             /\ UNCHANGED <<queue, sizes, sent, gone, tcp_sock, tcp_timeout, now>>

Countdown == Max2(tcp_timecnt - 1, 0)

(* A call of tcp_read with a connection.                                   *)
Poll ==
  /\ tcp_sock # None
  /\ tcp_timecnt' = Countdown
  /\ IF Timestamp > tcp_timeout
       THEN Close(Timestamp)
     ELSE IF tcp_req > 0 /\ wire[tcp_sock] # <<>>
       THEN Receive
     ELSE IF tcp_req > 0 /\ tcp_sock \in gone
       THEN Close(Timestamp)
     ELSE /\ tcp_timenow' = Timestamp
          /\ srv_pkt' = <<>>
          /\ UNCHANGED <<clientVars, tcp_sock, tcp_buf, tcp_req, tcp_timeout, now>>

NoConnection ==
  /\ tcp_sock = None /\ queue = <<>>
  /\ srv_pkt' = <<>>
  /\ UNCHANGED <<clientVars, tcp_sock, tcp_buf, tcp_req, clockVars, tcp_timeout>>

TcpRead == Accept \/ Poll \/ NoConnection

(* tcp_write of the handler's answer, if there is one, and tcp_close: the  *)
(* connection ends whether or not the answer could be sent.                *)
AnswerAndClose == Close(tcp_timenow) /\ UNCHANGED tcp_timecnt

-----------------------------------------------------------------------------
(* The port by itself: it is polled again and again, and a packet is       *)
(* answered before the next poll.                                          *)

TcpServer ==
  \/ srv_pkt = <<>> /\ TcpRead
  \/ srv_pkt # <<>> /\ AnswerAndClose

TcpClients == \E c \in Clients : Connect(c) \/ Send(c) \/ Leave(c)

TcpNext == TcpServer \/ TcpClients \/ Tick

TcpSpec == TcpInit /\ [][TcpNext]_tcpVars

(* The loop never blocks, and time passes.  Clients may do nothing.        *)
TcpFairSpec == TcpSpec /\ WF_tcpVars(TcpServer) /\ WF_tcpVars(Tick)

-----------------------------------------------------------------------------
(* Properties *)

(* The types of all variables.                                             *)
TcpTypeOK ==
  /\ queue \in Seq(Clients) /\ Len(queue) <= Backlog
  /\ sizes \in [Clients -> Sizes \cup {0}]
  /\ sent \in [Clients -> 0 .. TCP_MAXLEN] /\ gone \subseteq Clients
  /\ wire \in [Clients -> Seq(Bytes)]
  /\ tcp_sock \in Clients \cup {None}
  /\ tcp_buf \in Seq(Bytes) /\ tcp_req \in Nat
  /\ tcp_timenow \in -1 .. Late /\ now \in 0 .. Late
  /\ tcp_timecnt \in 0 .. TCP_TIMECNT /\ tcp_timeout \in {0, TCP_TOUT}
  /\ srv_pkt \in Seq(Bytes)

(* The packet that is handled is exactly what the client that will get the *)
(* answer has sent, from its first byte to the length in its header,       *)
(* however it was cut into pieces and whoever was connected before; and it *)
(* fits the buffers.                                                       *)
PacketIsOwn ==
  srv_pkt # <<>> =>
    /\ tcp_sock # None
    /\ srv_pkt = Segment(tcp_sock, 1, sizes[tcp_sock])
    /\ Len(srv_pkt) < TCP_MAXLEN

(* The server ends a connection without an answer only when the client     *)
(* left, or announced a wrong length, or its time is over: the stale clock *)
(* never makes it close early.                                             *)
NoEarlyClose ==
  [][tcp_sock # None /\ tcp_sock' = None /\ srv_pkt = <<>> =>
       \/ tcp_sock \in gone
       \/ sent[tcp_sock] >= TCP_HDR_LEN /\ ~LengthOk(sizes[tcp_sock])
       \/ now > TCP_TOUT]_tcpVars

(* Nobody holds the packet port for ever: whoever connects gets an answer  *)
(* or is disconnected, also behind clients that connect and send nothing.  *)
EveryoneLeaves == \A c \in Clients : (c \in Connected) ~> (c \notin Connected)
=============================================================================
