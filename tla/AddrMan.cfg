SPECIFICATION Spec
CONSTANTS
  a1 = a1  a2 = a2  a3 = a3  s1 = s1  s2 = s2
  Addr = {a1, a2, a3}
  Source = {s1, s2}
  Bucket = {0, 1}
  Pos = {0, 1}
  Tried = {0, 1}
  Free = Free
  ADDRMAN_NEW_BUCKETS_PER_ADDRESS = 2
  ADDRMAN_GETADDR_MAX_PCT = 50
  Worlds <- MCWorlds
INVARIANTS
  TablesConsistent
  
PROPERTIES
  TriedIsKept
