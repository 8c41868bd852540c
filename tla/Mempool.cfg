SPECIFICATION Spec
CONSTANTS
  g = g
  ca = ca
  cb = cb
  cd = cd
  ce = ce
  cf = cf
  t1 = t1
  t2 = t2
  t3 = t3
  x = x
  y = y
  z = z
  s = s
  Tx <- MCTx
  Coinbase <- MCCoinbase
  Out <- MCOut
  vin <- MCVin
  Fee <- MCFee
  Size <- MCSize
  FinalHeight <- MCFinal
  Base <- MCBase
  Block <- MCBlock
  ForkBlocks <- MCFork
  Maturity = 2
  MaxHeight = 3
  MaxAncestors = 3
  MaxDescendants = 3
  MaxMempool = 3
  MaxDisconnected = 3
  PerK = 6
  Increment = 6
  Deltas <- MCDeltas
INVARIANTS
  IndexesExact
  PackagesFollowLinks
  Minable
