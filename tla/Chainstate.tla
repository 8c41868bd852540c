----------------------------- MODULE Chainstate -----------------------------
(***************************************************************************)
(* The chainstate database across crashes.  pcoinsTip is written in        *)
(* several LevelDB batches (CCoinsViewDB::BatchWrite); a crash between two *)
(* leaves a mixture of the unspent outputs of two blocks on disk, which    *)
(* ReplayBlocks repairs at the next start by rolling back the old branch   *)
(* and rolling forward the new one over it.                                *)
(*                                                                         *)
(* A coin is the block that created it: the same transaction may be mined  *)
(* in two branches, and the coins then differ in their height.  UtxoAt is  *)
(* the reference: the unspent outputs after a block, by applying the       *)
(* blocks from genesis.  The caches' flags are the subject of CoinsCache;  *)
(* here a cache is the function it shows.  Block and undo data are taken   *)
(* to be readable, which is the subject of DiskFlush.                      *)
(***************************************************************************)
EXTENDS Integers, Sequences

CONSTANTS
  Block, Genesis,
  Parent,      \* CBlockIndex::pprev
  Ancestors,   \* the block itself and all blocks before it
  Outpoint,
  Creates,     \* the outputs of the transactions of a block
  Spends,      \* their inputs
  UtxoAt,      \* the unspent outputs after a block
  Spent,       \* no coin
  Null         \* the null hash, and a missing undo record

Coin == Block \cup {Spent}

-----------------------------------------------------------------------------
(* The effect of a block on a set c of coins.                              *)

\* HaveInputs of every transaction, and BIP30: no output exists already.
Connects(c, b) ==
  /\ \A o \in Spends[b] \ Creates[b] : c[o] # Spent
  /\ \A o \in Creates[b] : c[o] = Spent

\* AddCoins and SpendCoins of every transaction; an output spent in the same
\* block is gone at its end.
ConnectCoins(c, b) ==
  [o \in Outpoint |-> IF o \in Spends[b] THEN Spent
                      ELSE IF o \in Creates[b] THEN b ELSE c[o]]

\* The CBlockUndo: what SpendCoin moved out of the view.
UndoOf(c, b) == [o \in Spends[b] |-> IF o \in Creates[b] THEN b ELSE c[o]]

\* ApplyBlockUndo: first restore inputs, then remove created outputs.
DisconnectCoins(c, b, u) ==
  [o \in Outpoint |-> IF o \in Creates[b] THEN Spent
                      ELSE IF o \in Spends[b] THEN u[o] ELSE c[o]]

\* DISCONNECT_OK: no restored coin overwrites one, every removed one was there.
Clean(c, b) ==
  /\ \A o \in Spends[b] : c[o] = Spent
  /\ \A o \in Creates[b] \ Spends[b] : c[o] # Spent

ASSUME TreeAssumption ==
  /\ Genesis \in Block /\ Null \notin Block /\ Spent \notin Block
  /\ Parent \in [Block \ {Genesis} -> Block]
  /\ Ancestors \in [Block -> SUBSET Block]
  /\ Ancestors[Genesis] = {Genesis}
  /\ \A b \in Block : Genesis \in Ancestors[b]
  /\ \A b \in Block \ {Genesis} : Ancestors[b] = {b} \cup Ancestors[Parent[b]]

ASSUME EffectAssumption ==
  /\ Creates \in [Block -> SUBSET Outpoint] /\ Spends \in [Block -> SUBSET Outpoint]
  /\ Creates[Genesis] = {} /\ Spends[Genesis] = {}
  /\ \A b \in Block : Null \notin [Spends[b] -> Block]

ASSUME UtxoAssumption ==
  /\ UtxoAt \in [Block -> [Outpoint -> Coin]]
  /\ UtxoAt[Genesis] = [o \in Outpoint |-> Spent]
  /\ \A b \in Block \ {Genesis} :
       Connects(UtxoAt[Parent[b]], b)
         => \A o \in Outpoint :
              UtxoAt[b][o] = CASE o \in Spends[b] -> Spent
                               [] o \in Creates[b] \ Spends[b] -> b
                               [] OTHER -> UtxoAt[Parent[b]][o]

VARIABLES
  db,          \* the coins on disk
  best,        \* DB_BEST_BLOCK
  heads,       \* DB_HEAD_BLOCKS: <<>>, or <<new tip, old tip>>
  undo,        \* the undo record of each block, or Null
  mode,        \* "up", "flushing", "down", "replay"
  cache,       \* the coins pcoinsTip, or the cache of ReplayBlocks, shows
  cacheBest,   \* its best block
  at           \* pindexOld of ReplayBlocks, then the last block rolled forward

vars == <<db, best, heads, undo, mode, cache, cacheBest, at>>
disk == <<db, best, heads, undo>>

EmptySet == [o \in Outpoint |-> Spent]

\* A new data directory.
Init ==
  /\ db = EmptySet /\ best = Null /\ heads = <<>>
  /\ undo = [b \in Block |-> Null]
  /\ mode = "up" /\ cache = EmptySet /\ cacheBest = Null /\ at = Null

-----------------------------------------------------------------------------
(* Running.                                                                *)

\* ConnectBlock of the genesis block only sets the best block.
ConnectGenesis ==
  /\ mode = "up" /\ cacheBest = Null
  /\ cacheBest' = Genesis
  /\ UNCHANGED <<disk, mode, cache, at>>

\* ConnectTip of a block that passes ConnectBlock.  The undo record is written
\* once.
ConnectTip(b) ==
  /\ mode = "up" /\ b # Genesis /\ cacheBest = Parent[b]
  /\ Connects(cache, b)
  /\ undo' = IF undo[b] = Null THEN [undo EXCEPT ![b] = UndoOf(cache, b)] ELSE undo
  /\ cache' = ConnectCoins(cache, b)
  /\ cacheBest' = b
  /\ UNCHANGED <<db, best, heads, mode, at>>

\* Mutant of DisconnectTip: the undo record goes with the block.
DisconnectTipForgets ==
  /\ mode = "up" /\ cacheBest \notin {Null, Genesis}
  /\ undo[cacheBest] # Null /\ Clean(cache, cacheBest)
  /\ cache' = DisconnectCoins(cache, cacheBest, undo[cacheBest])
  /\ undo' = [undo EXCEPT ![cacheBest] = Null]
  /\ cacheBest' = Parent[cacheBest]
  /\ UNCHANGED <<db, best, heads, mode, at>>

\* DisconnectTip wants DISCONNECT_OK.
DisconnectTip ==
  /\ mode = "up" /\ cacheBest \notin {Null, Genesis}
  /\ undo[cacheBest] # Null /\ Clean(cache, cacheBest)
  /\ cache' = DisconnectCoins(cache, cacheBest, undo[cacheBest])
  /\ cacheBest' = Parent[cacheBest]
  /\ UNCHANGED <<disk, mode, at>>

-----------------------------------------------------------------------------
(* CCoinsViewDB::BatchWrite.                                               *)

\* pcoinsTip->Flush() in FlushStateToDisk.  It may come before the genesis block
\* is connected, from Shutdown(); then the assertion of BatchWrite on the hash
\* aborts the program and only Crash is left.
Flush ==
  /\ mode = "up"
  /\ mode' = "flushing"
  /\ UNCHANGED <<disk, cache, cacheBest, at>>

\* Entries that are written: those that differ; others are no change.
Dirty == {o \in Outpoint : cache[o] # db[o]}

\* old_tip; heads[1] = cacheBest is asserted, see HeadsAgree.
OldTip == IF best = Null /\ heads # <<>> THEN heads[2] ELSE best

\* Mutant of WritePartialBatch: the database is not marked.
WritePartialBatchUnmarked(written) ==
  /\ mode = "flushing" /\ cacheBest # Null
  /\ db' = [o \in Outpoint |-> IF o \in written THEN cache[o] ELSE db[o]]
  /\ UNCHANGED <<best, heads, undo, mode, cache, cacheBest, at>>

\* A batch that is not the last; the first one marks the database.
WritePartialBatch(written) ==
  /\ mode = "flushing" /\ cacheBest # Null
  /\ db' = [o \in Outpoint |-> IF o \in written THEN cache[o] ELSE db[o]]
  /\ best' = Null
  /\ heads' = <<cacheBest, OldTip>>
  /\ UNCHANGED <<undo, mode, cache, cacheBest, at>>

\* The last batch clears the mark.
WriteFinalBatch ==
  /\ mode = "flushing" /\ cacheBest # Null
  /\ db' = cache
  /\ best' = cacheBest
  /\ heads' = <<>>
  /\ mode' = "up"
  /\ UNCHANGED <<undo, cache, cacheBest, at>>

-----------------------------------------------------------------------------
(* Crash, restart and ReplayBlocks.                                        *)

\* Everything in memory is lost.
Crash ==
  /\ mode # "down"
  /\ mode' = "down"
  /\ cache' = EmptySet /\ cacheBest' = Null /\ at' = Null
  /\ UNCHANGED disk

\* Without heads LoadChainTip takes the best block.
Restart ==
  /\ mode = "down" /\ heads = <<>>
  /\ mode' = "up"
  /\ cache' = db /\ cacheBest' = best
  /\ UNCHANGED <<disk, at>>

\* "The old tip is allowed to be 0, indicating it's the first flush": roll
\* forward from height 1.
StartReplay ==
  /\ mode = "down" /\ heads # <<>>
  /\ mode' = "replay"
  /\ cache' = db
  /\ at' = IF heads[2] = Null THEN Genesis ELSE heads[2]
  /\ UNCHANGED <<disk, cacheBest>>

\* Until at is LastCommonAncestor(pindexOld, pindexNew).  DISCONNECT_UNCLEAN is
\* accepted.
RollbackBlock ==
  /\ mode = "replay" /\ at \notin Ancestors[heads[1]]
  /\ undo[at] # Null
  /\ cache' = DisconnectCoins(cache, at, undo[at])
  /\ at' = Parent[at]
  /\ UNCHANGED <<disk, mode, cacheBest>>

\* Mutant of RollforwardBlock: nHeight < pindexNew->nHeight.
RollforwardBlockShort(b) ==
  /\ mode = "replay" /\ at \in Ancestors[heads[1]]
  /\ b \notin {Genesis, heads[1]} /\ Parent[b] = at /\ b \in Ancestors[heads[1]]
  /\ cache' = ConnectCoins(cache, b)
  /\ at' = b
  /\ UNCHANGED <<disk, mode, cacheBest>>

\* RollforwardBlock: AddCoins with check = true for all, then SpendCoin, neither
\* minding what is there.
RollforwardBlock(b) ==
  /\ mode = "replay" /\ at \in Ancestors[heads[1]]
  /\ b # Genesis /\ Parent[b] = at /\ b \in Ancestors[heads[1]]
  /\ cache' = ConnectCoins(cache, b)
  /\ at' = b
  /\ UNCHANGED <<disk, mode, cacheBest>>

\* Mutant of EndReplay: the mark is cleared before the coins are written.
EndReplayUnmark ==
  /\ mode = "replay" /\ at = heads[1]
  /\ cacheBest' = heads[1]
  /\ heads' = <<>>
  /\ mode' = "flushing"
  /\ UNCHANGED <<db, best, undo, cache, at>>

\* cache.SetBestBlock and cache.Flush().
EndReplay ==
  /\ mode = "replay" /\ at = heads[1]
  /\ cacheBest' = heads[1]
  /\ mode' = "flushing"
  /\ UNCHANGED <<disk, cache, at>>

Recover ==
  \/ Restart
  \/ StartReplay
  \/ RollbackBlock
  \/ \E b \in Block : RollforwardBlock(b)
  \/ EndReplay

Next ==
  \/ ConnectGenesis
  \/ \E b \in Block : ConnectTip(b)
  \/ DisconnectTip
  \/ Flush
  \/ \E written \in SUBSET Dirty : WritePartialBatch(written)
  \/ WriteFinalBatch
  \/ Crash
  \/ Recover

Spec == Init /\ [][Next]_vars

\* Recovery and flushing run on one thread that nothing blocks.
FairSpec == Spec /\ WF_vars(Recover) /\ WF_vars(WriteFinalBatch)

-----------------------------------------------------------------------------
(* Properties.                                                             *)

CoinsOf(b) == IF b = Null THEN EmptySet ELSE UtxoAt[b]

\* The variables keep their types.
TypeOK ==
  /\ db \in [Outpoint -> Coin]
  /\ best \in Block \cup {Null}
  /\ heads \in {<<>>} \cup (Block \X (Block \cup {Null}))
  /\ \A b \in Block : undo[b] = Null \/ undo[b] \in [Spends[b] -> Block]
  /\ mode \in {"up", "flushing", "down", "replay"}
  /\ cache \in [Outpoint -> Coin]
  /\ cacheBest \in Block \cup {Null}
  /\ at \in Block \cup {Null}

\* A database that names a best block holds exactly that block's coins: no
\* crash, replay or crash during a replay leaves anything behind.
BestExact == heads = <<>> => db = CoinsOf(best)

\* The coins of the running node are those of its tip, however it got there.
TipExact == mode \in {"up", "flushing"} => cache = CoinsOf(cacheBest)

\* Both: what is on disk and what is in memory is some block's coins, exactly.
CoinsMatch == BestExact /\ TipExact

\* DisconnectTip finds its undo record and is never unclean: a reorganisation
\* after a recovery cannot fail halfway.
DisconnectWorks ==
  mode = "up" /\ cacheBest \notin {Null, Genesis}
    => undo[cacheBest] # Null /\ Clean(cache, cacheBest)

\* ReplayBlocks finds the undo record of every block it rolls back.
ReplayWorks == mode = "replay" /\ at \notin Ancestors[heads[1]] => undo[at] # Null

\* No reorganisation and no recovery stops at a missing or unclean undo record.
UndoWorks == DisconnectWorks /\ ReplayWorks

\* The assertion of BatchWrite, txdb.cpp:97: a flush over an interrupted flush
\* completes the same one.
HeadsAgree == mode = "flushing" /\ heads # <<>> => heads[1] = cacheBest

\* The first batch is the commit point: the block a restart ends at changes only
\* by a flush, and then to the flushed tip.  Crashes and repairs keep it.
Committed == IF heads = <<>> THEN best ELSE heads[1]
CommitByFlush == [][Committed' # Committed => mode = "flushing" /\ Committed' = cacheBest]_vars

\* txdb.cpp:90, assert(!hashBlock.IsNull()): whoever flushes has a best block.
FlushHasHash == mode = "flushing" => cacheBest # Null

\* If the node stops crashing it comes up.
ComesUp == <>[][~Crash]_vars => (mode = "down" ~> mode = "up")
=============================================================================
