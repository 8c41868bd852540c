-------------------------- MODULE ChainstateProofs --------------------------
(***************************************************************************)
(* Chainstate keeps the coins exact for every tree of blocks.  The         *)
(* argument: between two batches, and while ReplayBlocks works, every coin *)
(* is the one of the new tip or the one of the block the replay stands at  *)
(* (Mixed).  Undoing or redoing a block sets each coin it touches to the   *)
(* right value whatever was there, and does not tell the two apart on the  *)
(* others, so Mixed moves with the replay until both blocks are the same.  *)
(***************************************************************************)
EXTENDS Chainstate, TLAPS

\* Every coin of c is as after block new or as in the coins d.
Mixed(c, new, d) == \A o \in Outpoint : c[o] = UtxoAt[new][o] \/ c[o] = d[o]

\* A non-genesis block that passed ConnectBlock on its parent's coins.
ValidOn(b) == Connects(UtxoAt[Parent[b]], b)

\* Undo records say what the block spent.
UndoRight ==
  /\ undo = [b \in Block |-> undo[b]]
  /\ \A b \in Block \ {Genesis} :
       undo[b] # Null => ValidOn(b) /\ undo[b] = UndoOf(UtxoAt[Parent[b]], b)

\* All blocks up to b have been connected once.
Connected(u, b) == \A a \in Ancestors[b] \ {Genesis} : u[a] # Null

ChainsConnected ==
  /\ best # Null => Connected(undo, best)
  /\ cacheBest # Null => Connected(undo, cacheBest)
  /\ at # Null => Connected(undo, at)
  /\ heads # <<>> => /\ Connected(undo, heads[1])
                     /\ heads[2] # Null => Connected(undo, heads[2])

DiskRight ==
  /\ heads = <<>> => db = CoinsOf(best)
  /\ heads # <<>> => best = Null /\ Mixed(db, heads[1], CoinsOf(heads[2]))

MemoryRight ==
  /\ mode = "up" => heads = <<>>
  /\ mode \in {"up", "flushing"} => cache = CoinsOf(cacheBest)
  /\ mode = "flushing" /\ heads # <<>> => heads[1] = cacheBest
  /\ mode = "replay" => /\ heads # <<>> /\ at # Null
                        /\ Mixed(cache, heads[1], UtxoAt[at])

IInv == TypeOK /\ UndoRight /\ ChainsConnected /\ DiskRight /\ MemoryRight

-----------------------------------------------------------------------------
(* What connecting and disconnecting a block does to any set of coins.     *)

\* The reference, coin by coin.
LEMMA UtxoStep ==
  ASSUME NEW b \in Block \ {Genesis}, ValidOn(b), NEW o \in Outpoint
  PROVE  /\ o \in Spends[b] => UtxoAt[b][o] = Spent
         /\ o \in Creates[b] \ Spends[b] => UtxoAt[b][o] = b
         /\ o \notin Creates[b] \cup Spends[b] => UtxoAt[b][o] = UtxoAt[Parent[b]][o]
BY UtxoAssumption DEF ValidOn

\* ConnectCoins sets what the block touches as the reference does.
LEMMA ConnectRight ==
  ASSUME NEW b \in Block \ {Genesis}, ValidOn(b), NEW c \in [Outpoint -> Coin],
         NEW o \in Outpoint
  PROVE  /\ ConnectCoins(c, b) \in [Outpoint -> Coin]
         /\ o \in Creates[b] \cup Spends[b] => ConnectCoins(c, b)[o] = UtxoAt[b][o]
         /\ o \notin Creates[b] \cup Spends[b] =>
              ConnectCoins(c, b)[o] = c[o] /\ UtxoAt[b][o] = UtxoAt[Parent[b]][o]
BY UtxoStep DEF ConnectCoins, Coin

\* DisconnectCoins sets it as it was after the parent.
LEMMA DisconnectRight ==
  ASSUME NEW b \in Block \ {Genesis}, ValidOn(b), NEW c \in [Outpoint -> Coin],
         NEW o \in Outpoint
  PROVE  LET d == DisconnectCoins(c, b, UndoOf(UtxoAt[Parent[b]], b))
         IN  /\ d \in [Outpoint -> Coin]
             /\ o \in Creates[b] \cup Spends[b] => d[o] = UtxoAt[Parent[b]][o]
             /\ o \notin Creates[b] \cup Spends[b] =>
                  d[o] = c[o] /\ UtxoAt[b][o] = UtxoAt[Parent[b]][o]
<1> DEFINE d == DisconnectCoins(c, b, UndoOf(UtxoAt[Parent[b]], b))
<1>1. Parent[b] \in Block /\ UtxoAt[Parent[b]] \in [Outpoint -> Coin]
  BY TreeAssumption, UtxoAssumption
<1>2. \A p \in Outpoint :
        d[p] = IF p \in Creates[b] THEN Spent
               ELSE IF p \in Spends[b] THEN UtxoAt[Parent[b]][p] ELSE c[p]
  BY <1>1 DEF DisconnectCoins, UndoOf
<1>3. d \in [Outpoint -> Coin]
  <2>1. d = [p \in Outpoint |-> d[p]]
    BY DEF DisconnectCoins
  <2>2. \A p \in Outpoint : d[p] \in Coin
    BY <1>1, <1>2 DEF Coin
  <2> HIDE DEF d
  <2>3. QED BY <2>1, <2>2
<1>4. o \in Creates[b] => UtxoAt[Parent[b]][o] = Spent
  BY DEF ValidOn, Connects
<1> HIDE DEF d
<1>5. QED BY <1>2, <1>3, <1>4, UtxoStep DEF d

LEMMA DisconnectType ==
  ASSUME NEW b \in Block \ {Genesis}, ValidOn(b), NEW c \in [Outpoint -> Coin]
  PROVE  DisconnectCoins(c, b, UndoOf(UtxoAt[Parent[b]], b)) \in [Outpoint -> Coin]
<1>1. CASE Outpoint = {}
  BY <1>1 DEF DisconnectCoins
<1>2. CASE Outpoint # {}
  BY <1>2, DisconnectRight
<1>3. QED BY <1>1, <1>2

\* Right after its connection a block can be disconnected cleanly.
LEMMA CleanRight ==
  ASSUME NEW b \in Block \ {Genesis}, ValidOn(b)
  PROVE  Clean(UtxoAt[b], b)
<1>1. Creates[b] \subseteq Outpoint /\ Spends[b] \subseteq Outpoint
  BY EffectAssumption
<1>2. QED BY <1>1, UtxoStep, TreeAssumption DEF Clean

\* Both operations carry a mixture over to the next block.
LEMMA ConnectMixed ==
  ASSUME NEW b \in Block \ {Genesis}, ValidOn(b), NEW c \in [Outpoint -> Coin],
         NEW new \in Block, Mixed(c, new, UtxoAt[Parent[b]])
  PROVE  Mixed(ConnectCoins(c, b), new, UtxoAt[b])
BY ConnectRight DEF Mixed

LEMMA DisconnectMixed ==
  ASSUME NEW b \in Block \ {Genesis}, ValidOn(b), NEW c \in [Outpoint -> Coin],
         NEW new \in Block, Mixed(c, new, UtxoAt[b])
  PROVE  Mixed(DisconnectCoins(c, b, UndoOf(UtxoAt[Parent[b]], b)), new, UtxoAt[Parent[b]])
BY DisconnectRight DEF Mixed

\* On the exact coins they give the exact coins.
LEMMA ExactSteps ==
  ASSUME NEW b \in Block \ {Genesis}, ValidOn(b)
  PROVE  /\ ConnectCoins(UtxoAt[Parent[b]], b) = UtxoAt[b]
         /\ DisconnectCoins(UtxoAt[b], b, UndoOf(UtxoAt[Parent[b]], b)) = UtxoAt[Parent[b]]
<1> DEFINE u == UtxoAt[b]
           p == UtxoAt[Parent[b]]
           up == ConnectCoins(p, b)
           down == DisconnectCoins(u, b, UndoOf(p, b))
<1>1. u \in [Outpoint -> Coin] /\ p \in [Outpoint -> Coin]
  BY TreeAssumption, UtxoAssumption
<1>2. up = [o \in Outpoint |-> up[o]] /\ down = [o \in Outpoint |-> down[o]]
  BY DEF ConnectCoins, DisconnectCoins
<1>3. \A o \in Outpoint : up[o] = u[o] /\ down[o] = p[o]
  BY <1>1, ConnectRight, DisconnectRight
<1> HIDE DEF u, p, up, down
<1>4. up = u /\ down = p
  BY <1>1, <1>2, <1>3
<1>5. QED BY <1>4 DEF u, p, up, down

\* An undo record has no missing coins.
LEMMA UndoType ==
  ASSUME NEW b \in Block \ {Genesis}, ValidOn(b)
  PROVE  UndoOf(UtxoAt[Parent[b]], b) \in [Spends[b] -> Block]
<1>1. UtxoAt[Parent[b]] \in [Outpoint -> Coin] /\ Spends[b] \subseteq Outpoint
  BY TreeAssumption, UtxoAssumption, EffectAssumption
<1>2. QED BY <1>1 DEF UndoOf, ValidOn, Connects, Coin

\* The blocks before b are those before its parent, and b.
LEMMA ConnectedStep ==
  ASSUME NEW b \in Block \ {Genesis}, NEW u
  PROVE  /\ b \in Ancestors[b]
         /\ Connected(u, b) <=> u[b] # Null /\ Connected(u, Parent[b])
BY TreeAssumption DEF Connected

LEMMA CoinsOfType ==
  ASSUME NEW b \in Block \cup {Null}
  PROVE  CoinsOf(b) \in [Outpoint -> Coin]
BY UtxoAssumption DEF CoinsOf, EmptySet, Coin

-----------------------------------------------------------------------------
(* The invariant is inductive.                                             *)

LEMMA InitKeeps == Init => IInv
BY TreeAssumption DEF Init, IInv, TypeOK, UndoRight, ChainsConnected, DiskRight, MemoryRight,
   EmptySet, CoinsOf, Coin

LEMMA StepKeeps == IInv /\ [Next]_vars => IInv'
<1> SUFFICES ASSUME IInv, [Next]_vars PROVE IInv'
  OBVIOUS
<1> USE DEF IInv
<1>0. Genesis \in Block /\ Null \notin Block /\ Spent \notin Block
  BY TreeAssumption
<1>1. CASE ConnectGenesis
  <2>1. CoinsOf(Genesis) = EmptySet /\ CoinsOf(Null) = EmptySet
    BY <1>0, UtxoAssumption DEF CoinsOf, EmptySet
  <2>2. Connected(undo, Genesis)
    BY TreeAssumption DEF Connected
  <2>3. QED
    BY <1>0, <1>1, <2>1, <2>2
    DEF ConnectGenesis, disk, TypeOK, UndoRight, ChainsConnected, DiskRight, MemoryRight
<1>2. ASSUME NEW b \in Block, ConnectTip(b) PROVE IInv'
  <2>1. /\ b \in Block \ {Genesis} /\ Parent[b] \in Block /\ cacheBest = Parent[b]
        /\ mode = "up" /\ heads = <<>>
        /\ cache = UtxoAt[Parent[b]]
    BY <1>0, <1>2, TreeAssumption DEF ConnectTip, MemoryRight, CoinsOf
  <2>2. ValidOn(b)
    BY <1>2, <2>1 DEF ConnectTip, ValidOn
  <2>3. cache' = UtxoAt[b] /\ cacheBest' = b /\ UNCHANGED <<db, best, heads, mode, at>>
    BY <1>2, <2>1, <2>2, ExactSteps DEF ConnectTip
  <2>4. undo' = IF undo[b] = Null
                  THEN [undo EXCEPT ![b] = UndoOf(UtxoAt[Parent[b]], b)] ELSE undo
    BY <1>2, <2>1 DEF ConnectTip
  <2>5. UndoOf(UtxoAt[Parent[b]], b) \in [Spends[b] -> Block]
    BY <2>1, <2>2, UndoType
  <2>6. UndoOf(UtxoAt[Parent[b]], b) # Null
    BY <2>5, EffectAssumption
  <2>7. /\ undo' = [x \in Block |-> undo'[x]]
        /\ undo'[b] = UndoOf(UtxoAt[Parent[b]], b)
        /\ \A x \in Block \ {b} : undo'[x] = undo[x]
        /\ \A x \in Block : undo[x] # Null => undo'[x] # Null
    BY <2>1, <2>4, <2>6 DEF UndoRight
  <2>8. UndoRight'
    BY <2>2, <2>7 DEF UndoRight, ValidOn
  <2>9. \A x \in Block : Connected(undo, x) => Connected(undo', x)
    BY <2>7, TreeAssumption DEF Connected
  <2>10. Connected(undo', b)
    BY <1>0, <2>1, <2>6, <2>7, <2>9, ConnectedStep DEF ChainsConnected
  <2>11. TypeOK'
    <3>1. UtxoAt[b] \in [Outpoint -> Coin]
      BY UtxoAssumption
    <3>2. \A x \in Block : undo'[x] = Null \/ undo'[x] \in [Spends[x] -> Block]
      BY <2>5, <2>7 DEF TypeOK
    <3>3. QED BY <2>3, <3>1, <3>2 DEF TypeOK
  <2>12. ChainsConnected'
    BY <2>1, <2>3, <2>9, <2>10 DEF ChainsConnected, TypeOK
  <2>13. DiskRight' /\ MemoryRight'
    BY <1>0, <2>1, <2>3 DEF DiskRight, MemoryRight, CoinsOf
  <2>14. QED BY <2>8, <2>11, <2>12, <2>13
<1>3. CASE DisconnectTip
  <2> DEFINE b == cacheBest
  <2>1. /\ b \in Block \ {Genesis} /\ Parent[b] \in Block
        /\ mode = "up" /\ heads = <<>>
        /\ cache = UtxoAt[b] /\ undo[b] # Null
    BY <1>0, <1>3, TreeAssumption DEF DisconnectTip, MemoryRight, CoinsOf, TypeOK
  <2>2. ValidOn(b) /\ undo[b] = UndoOf(UtxoAt[Parent[b]], b)
    BY <2>1 DEF UndoRight
  <2>3. cache' = UtxoAt[Parent[b]] /\ cacheBest' = Parent[b] /\ UNCHANGED <<disk, mode, at>>
    BY <1>3, <2>1, <2>2, ExactSteps DEF DisconnectTip
  <2>4. Connected(undo, Parent[b])
    BY <1>0, <2>1, ConnectedStep DEF ChainsConnected
  <2> HIDE DEF b
  <2>5. TypeOK'
    BY <2>1, <2>3, UtxoAssumption DEF TypeOK, disk
  <2>6. UndoRight' /\ ChainsConnected'
    BY <2>1, <2>3, <2>4 DEF UndoRight, ChainsConnected, disk
  <2>7. DiskRight' /\ MemoryRight'
    BY <1>0, <2>1, <2>3 DEF DiskRight, MemoryRight, CoinsOf, disk
  <2>8. QED BY <2>5, <2>6, <2>7
<1>4. CASE Flush
  BY <1>4 DEF Flush, disk, TypeOK, UndoRight, ChainsConnected, DiskRight, MemoryRight
<1>5. ASSUME NEW written \in SUBSET Dirty, WritePartialBatch(written) PROVE IInv'
  <2>1. /\ mode = "flushing" /\ cacheBest \in Block /\ best' = Null
        /\ UNCHANGED <<undo, mode, cache, cacheBest, at>>
        /\ cache = UtxoAt[cacheBest]
    BY <1>0, <1>5 DEF WritePartialBatch, TypeOK, MemoryRight, CoinsOf
  <2>2. OldTip \in Block \cup {Null} /\ (OldTip # Null => Connected(undo, OldTip))
    BY DEF OldTip, TypeOK, ChainsConnected
  <2>3. /\ heads' = <<cacheBest, OldTip>> /\ heads' # <<>>
        /\ heads'[1] = cacheBest /\ heads'[2] = OldTip
    BY <1>5 DEF WritePartialBatch
  <2>4. db' = [o \in Outpoint |-> IF o \in written THEN cache[o] ELSE db[o]]
    BY <1>5 DEF WritePartialBatch
  <2>5. Mixed(db, cacheBest, CoinsOf(OldTip))
    BY <2>1 DEF Mixed, DiskRight, MemoryRight, OldTip
  <2>6. Mixed(db', cacheBest, CoinsOf(OldTip))
    BY <2>1, <2>4, <2>5 DEF Mixed
  <2>7. TypeOK'
    <3>1. db' \in [Outpoint -> Coin]
      BY <2>4 DEF TypeOK
    <3>2. heads' \in Block \X (Block \cup {Null})
      BY <2>1, <2>2, <2>3
    <3>3. QED BY <2>1, <3>1, <3>2 DEF TypeOK
  <2>8. UndoRight' /\ ChainsConnected'
    BY <1>0, <2>1, <2>2, <2>3 DEF UndoRight, ChainsConnected
  <2>9. DiskRight' /\ MemoryRight'
    BY <2>1, <2>3, <2>6 DEF DiskRight, MemoryRight, CoinsOf
  <2>10. QED BY <2>7, <2>8, <2>9
<1>6. CASE WriteFinalBatch
  BY <1>6 DEF WriteFinalBatch, TypeOK, UndoRight, ChainsConnected, DiskRight, MemoryRight
<1>7. CASE Crash
  <2>1. EmptySet \in [Outpoint -> Coin]
    BY DEF EmptySet, Coin
  <2>2. QED
    BY <1>7, <2>1 DEF Crash, disk, TypeOK, UndoRight, ChainsConnected, DiskRight, MemoryRight
<1>8. CASE Restart
  BY <1>8 DEF Restart, disk, TypeOK, UndoRight, ChainsConnected, DiskRight, MemoryRight
<1>9. CASE StartReplay
  <2>1. /\ mode = "down" /\ mode' = "replay" /\ heads # <<>> /\ cache' = db
        /\ UNCHANGED <<disk, cacheBest>>
        /\ heads[1] \in Block /\ heads[2] \in Block \cup {Null}
    BY <1>9 DEF StartReplay, TypeOK
  <2>2. at' = IF heads[2] = Null THEN Genesis ELSE heads[2]
    BY <1>9 DEF StartReplay
  <2>3. at' \in Block /\ at' # Null /\ UtxoAt[at'] = CoinsOf(heads[2])
    BY <1>0, <2>1, <2>2, UtxoAssumption DEF CoinsOf, EmptySet
  <2>4. Connected(undo, at')
    BY <2>1, <2>2, TreeAssumption DEF Connected, ChainsConnected
  <2>5. TypeOK' /\ UndoRight' /\ ChainsConnected' /\ DiskRight'
    BY <2>1, <2>3, <2>4 DEF disk, TypeOK, UndoRight, ChainsConnected, DiskRight
  <2>6. MemoryRight'
    BY <2>1, <2>3 DEF disk, MemoryRight, DiskRight
  <2>7. QED BY <2>5, <2>6
<1>10. CASE RollbackBlock
  <2>1. /\ mode = "replay" /\ heads # <<>> /\ heads[1] \in Block
        /\ at \in Block \ {Genesis} /\ Parent[at] \in Block
        /\ undo[at] # Null /\ UNCHANGED <<disk, mode, cacheBest>>
        /\ at' = Parent[at]
        /\ Mixed(cache, heads[1], UtxoAt[at]) /\ cache \in [Outpoint -> Coin]
    BY <1>0, <1>10, TreeAssumption DEF RollbackBlock, TypeOK, MemoryRight
  <2>2. ValidOn(at) /\ undo[at] = UndoOf(UtxoAt[Parent[at]], at)
    BY <2>1 DEF UndoRight
  <2>3. cache' = DisconnectCoins(cache, at, UndoOf(UtxoAt[Parent[at]], at))
    BY <1>10, <2>2 DEF RollbackBlock
  <2>4. Mixed(cache', heads[1], UtxoAt[at'])
    BY <2>1, <2>2, <2>3, DisconnectMixed
  <2>5. cache' \in [Outpoint -> Coin]
    BY <2>1, <2>2, <2>3, DisconnectType
  <2>6. Connected(undo, at')
    BY <1>0, <2>1, ConnectedStep DEF ChainsConnected
  <2>7. TypeOK' /\ UndoRight' /\ ChainsConnected' /\ DiskRight'
    BY <2>1, <2>5, <2>6 DEF disk, TypeOK, UndoRight, ChainsConnected, DiskRight
  <2>8. MemoryRight'
    BY <1>0, <2>1, <2>4 DEF disk, MemoryRight
  <2>9. QED BY <2>7, <2>8
<1>11. ASSUME NEW b \in Block, RollforwardBlock(b) PROVE IInv'
  <2>1. /\ mode = "replay" /\ heads # <<>> /\ heads[1] \in Block
        /\ b \in Block \ {Genesis} /\ b \in Ancestors[heads[1]] /\ at = Parent[b]
        /\ UNCHANGED <<disk, mode, cacheBest>>
        /\ at' = b /\ cache' = ConnectCoins(cache, b)
        /\ Mixed(cache, heads[1], UtxoAt[at]) /\ cache \in [Outpoint -> Coin]
    BY <1>11 DEF RollforwardBlock, TypeOK, MemoryRight
  <2>2. undo[b] # Null
    BY <2>1 DEF ChainsConnected, Connected
  <2>3. ValidOn(b)
    BY <2>1, <2>2 DEF UndoRight
  <2>4. Mixed(cache', heads[1], UtxoAt[b])
    BY <2>1, <2>3, ConnectMixed
  <2>5. cache' \in [Outpoint -> Coin]
    BY <2>1 DEF ConnectCoins, Coin
  <2>6. Connected(undo, b)
    BY <1>0, <2>1, <2>2, ConnectedStep, TreeAssumption DEF ChainsConnected
  <2>7. TypeOK' /\ UndoRight' /\ ChainsConnected' /\ DiskRight'
    BY ZenonT(30), <2>1, <2>5, <2>6 DEF disk, TypeOK, UndoRight, ChainsConnected, DiskRight
  <2>8. MemoryRight'
    BY ZenonT(30), <1>0, <2>1, <2>4 DEF disk, MemoryRight
  <2>9. QED BY <2>7, <2>8
<1>12. CASE EndReplay
  <2>1. /\ mode = "replay" /\ mode' = "flushing" /\ heads # <<>> /\ heads[1] \in Block
        /\ at = heads[1] /\ cacheBest' = heads[1]
        /\ UNCHANGED <<disk, cache, at>>
        /\ Mixed(cache, heads[1], UtxoAt[at]) /\ cache \in [Outpoint -> Coin]
    BY <1>12 DEF EndReplay, TypeOK, MemoryRight
  <2>2. UtxoAt[heads[1]] \in [Outpoint -> Coin]
    BY <2>1, UtxoAssumption
  <2>3. \A o \in Outpoint : cache[o] = UtxoAt[heads[1]][o]
    BY <2>1 DEF Mixed
  <2>4. cache = UtxoAt[heads[1]]
    BY <2>1, <2>2, <2>3
  <2>5. TypeOK' /\ UndoRight' /\ ChainsConnected' /\ DiskRight'
    BY <2>1 DEF disk, TypeOK, UndoRight, ChainsConnected, DiskRight
  <2>6. MemoryRight'
    BY <1>0, <2>1, <2>4 DEF disk, MemoryRight, CoinsOf
  <2>7. QED BY <2>5, <2>6
<1>13. CASE UNCHANGED vars
  BY ZenonT(40), <1>13 DEF vars, TypeOK, UndoRight, ChainsConnected, DiskRight, MemoryRight, Connected, CoinsOf
<1>14. QED
  BY <1>1, <1>2, <1>3, <1>4, <1>5, <1>6, <1>7, <1>8, <1>9, <1>10, <1>11, <1>12, <1>13
  DEF Next, Recover

\* The inductive invariant holds in every reachable state.
THEOREM Invariance == Spec => []IInv
<1>1. QED BY InitKeeps, StepKeeps, PTL DEF Spec

\* Whatever the tree, the blocks and the moments of the crashes: a database that
\* names a best block holds its coins, and the running node has its tip's coins.
THEOREM CoinsExact == Spec => [](TypeOK /\ CoinsMatch)
<1>1. IInv => TypeOK /\ CoinsMatch
  BY DEF IInv, DiskRight, MemoryRight, CoinsMatch, BestExact, TipExact
<1>2. QED BY <1>1, Invariance, PTL

\* DisconnectTip and ReplayBlocks always find usable undo records, and the
\* assertion of BatchWrite on the interrupted flush holds.
THEOREM RecoverySteps == Spec => [](UndoWorks /\ HeadsAgree)
<1>1. IInv => DisconnectWorks
  <2> SUFFICES ASSUME IInv, mode = "up", cacheBest \notin {Null, Genesis}
               PROVE  undo[cacheBest] # Null /\ Clean(cache, cacheBest)
    BY DEF DisconnectWorks
  <2>1. cacheBest \in Block \ {Genesis} /\ cache = UtxoAt[cacheBest]
    BY DEF IInv, TypeOK, MemoryRight, CoinsOf
  <2>2. undo[cacheBest] # Null
    BY <2>1, ConnectedStep DEF IInv, ChainsConnected
  <2>3. ValidOn(cacheBest)
    BY <2>1, <2>2 DEF IInv, UndoRight
  <2>4. QED BY <2>1, <2>2, <2>3, CleanRight
<1>2. IInv => ReplayWorks
  <2> SUFFICES ASSUME IInv, mode = "replay", at \notin Ancestors[heads[1]]
               PROVE  undo[at] # Null
    BY DEF ReplayWorks
  <2>1. at \in Block \ {Genesis}
    BY TreeAssumption DEF IInv, TypeOK, MemoryRight
  <2>2. QED BY <2>1, ConnectedStep, TreeAssumption DEF IInv, ChainsConnected
<1>3. IInv => HeadsAgree
  BY DEF IInv, MemoryRight, HeadsAgree
<1>4. IInv => UndoWorks /\ HeadsAgree
  BY <1>1, <1>2, <1>3 DEF UndoWorks
<1>5. QED BY <1>4, Invariance, PTL

\* The block a restart ends at moves only with the first batch of a flush.
THEOREM CommitPoint == Spec => CommitByFlush
<1>1. IInv /\ [Next]_vars
        => [Committed' # Committed => mode = "flushing" /\ Committed' = cacheBest]_vars
  <2> SUFFICES ASSUME IInv, [Next]_vars, Committed' # Committed
               PROVE  mode = "flushing" /\ Committed' = cacheBest
    OBVIOUS
  <2>1. CASE \E written \in SUBSET Dirty : WritePartialBatch(written)
    BY <2>1 DEF WritePartialBatch, Committed
  <2>2. CASE WriteFinalBatch
    BY <2>2 DEF WriteFinalBatch, Committed
  <2>3. CASE UNCHANGED <<best, heads>>
    BY <2>3 DEF Committed
  <2>4. QED
    BY <2>1, <2>2, <2>3 DEF Next, Recover, ConnectGenesis, ConnectTip, DisconnectTip, Flush,
       Crash, Restart, StartReplay, RollbackBlock, RollforwardBlock, EndReplay, disk, vars
<1>2. QED BY <1>1, Invariance, PTL DEF Spec, CommitByFlush
=============================================================================
