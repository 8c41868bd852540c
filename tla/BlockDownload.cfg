SPECIFICATION FairSpec
CHECK_DEADLOCK FALSE
CONSTANTS
  p1 = p1
  p2 = p2
  g = g
  a1 = a1
  a2 = a2
  a3 = a3
  b2 = b2
  Null = Null
  Genesis = g
  Peer = {p1, p2}
  Block <- MCBlock
  Prev <- MCPrev
  Worlds <- MCWorlds
  BLOCK_DOWNLOAD_WINDOW = 1
  MAX_BLOCKS_IN_TRANSIT_PER_PEER = 2
  MAX_HEADERS_RESULTS = 2
INVARIANTS
  BookkeepingExact
  InFlightIsOwed
  StallingIsAsked

  
