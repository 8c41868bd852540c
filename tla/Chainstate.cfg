SPECIFICATION FairSpec
CONSTANTS
  g = g
  c = c
  a1 = a1
  a2 = a2
  b1 = b1
  b2 = b2
  x = x
  p = p
  t = t
  q = q
  r = r
  Spent = Spent
  Null = Null
  Genesis = g
  Block <- MCBlock
  Parent <- MCParent
  Ancestors <- MCAncestors
  Outpoint <- MCOutpoint
  Creates <- MCCreates
  Spends <- MCSpends
  UtxoAt <- MCUtxoAt
INVARIANTS
  CoinsMatch
  UndoWorks
PROPERTIES
  CommitByFlush
  ComesUp
