SPECIFICATION FairSpec
CONSTANTS
  p = p  q = q  c = c  d = d
  Prog = {p, q}
  Conn = {c, d}
  NoConn = NoConn
  DataSize <- MCDataSize
  SocketBuffer = 1
  nSendBufferMaxSize = 2
  nReceiveFloodSize = 2
  Worlds <- MCWorlds
CHECK_DEADLOCK FALSE
INVARIANTS
  ReferencesExact
  QueuesExact
PROPERTIES
  DisconnectedIsDeleted
  MessagesArrive
