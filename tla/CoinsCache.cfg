SPECIFICATION Spec
CONSTANTS
  o1 = o1
  o2 = o2
  small = small
  large = large
  opReturn = opReturn
  b1 = b1
  b2 = b2
  Spent = Spent
  NoEntry = NoEntry
  Null = Null
  Outpoint <- MCOutpoint
  Coin <- MCCoin
  Unspendable <- MCUnspendable
  CoinSize <- MCCoinSize
  Block <- MCBlock
INVARIANTS
  FlagsSound
  
PROPERTIES
  ImplementsUtxoSet
