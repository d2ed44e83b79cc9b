SPECIFICATION TcpFairSpec
CONSTANTS
  c1 = c1
  c2 = c2
  None = None
  Clients = {c1, c2}
  TCP_HDR_LEN = 2
  TCP_MAXLEN = 4
  TCP_TOUT = 1
  TCP_TIMECNT = 1
  Sizes = {2, 3, 4}
  Backlog = 2
INVARIANTS
  PacketIsOwn
PROPERTIES
  NoEarlyClose
  EveryoneLeaves
