SPECIFICATION FairSpec
CHECK_DEADLOCK FALSE
CONSTANTS
  g = g
  a1 = a1
  a2 = a2
  a3 = a3
  b1 = b1
  b2 = b2
  b3 = b3
  x = x
  t1 = t1
  t2 = t2
  Null = Null
  Genesis = g
  Block <- MCBlockX
  Parent <- MCParent
  Chain <- MCChain
  Work <- MCWork
  Addr <- MCAddr
  BadContext <- MCBadContext
  Thread = {t1, t2}
  MinBlocksToKeep = 1
  MinSequenceId <- MCMinSequenceId
  Worlds <- MCWorlds
INVARIANTS
  ChainTxExactUntouched
  CandidatesExact
  WaitingIsRemembered
  ActiveChainValid
  MostWorkActiveAlone

  
  
