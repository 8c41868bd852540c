SPECIFICATION Spec
CHECK_DEADLOCK FALSE
CONSTANTS
  t = t
  r = r
  p = p
  s = s
  c = c
  q = q
  g = g
  e = e
  f = f
  o = o
  a1 = a1
  a2 = a2
  a3 = a3
  b1 = b1
  b2 = b2
  Null = Null
  Abandoned = Abandoned
  Tx = {t, r, p, s, c, q, g}
  Coin = {e, f}
  Mine = {t, p, c}
  Block = {o, a1, a2, a3, b1, b2}
  Genesis = o
  Inputs <- MCInputs
  TxIdOrder <- MCTxIdOrder
  Parent <- MCParent
  Chain <- MCChain
  Worlds <- MCAbandonWorlds
PROPERTY
  AbandonsDescendants
