SPECIFICATION FairSpec
CONSTANTS
  c1 = c1
  w1 = w1
  w2 = w2
  None = None
  NoClient = NoClient
  Clients = {c1}
  WebClients = {w1, w2}
  TCP_HDR_LEN = 1
  TCP_MAXLEN = 3
  TCP_TOUT = 1
  TCP_TIMECNT = 1
  Sizes = {2}
  Backlog = 1
  GET_LEN = 2
  MaxRequest = 3
  WebBacklog = 1
INVARIANTS
  TypeOK
  RequestIsOwn
PROPERTIES
  EveryoneLeaves
  RequestIsAnswered
