------------------------------- MODULE Wallet -------------------------------
(***************************************************************************)
(* The transactions of the wallet and how they follow the chain: mapWallet *)
(* and mapTxSpends, the notifications that update them, abandonment,       *)
(* sending, the locator in the wallet file and the rescan after a restart. *)
(*                                                                         *)
(* cs_main is held through a step of ActivateBestChain, during which the   *)
(* wallet is told of disconnected blocks at once and of connected ones at  *)
(* the end; every other call runs between steps.  The steps are cut where  *)
(* something is written, so that the node can die there.                   *)
(*                                                                         *)
(* A transaction has one output, named by the transaction, and no coinbase *)
(* is the wallet's; mapTxSpends is what the inputs in mapWallet give.  All *)
(* positions in a block are 0.  Every change of mapWallet is written to    *)
(* the file at once (WriteTx), so the two are one variable; what a power   *)
(* loss takes from the database log is left out.  Cached balances,         *)
(* metadata, accounts and keys are left out.                               *)
(***************************************************************************)
EXTENDS Integers, Sequences, SequencesExt, FiniteSets, FiniteSetsExt

CONSTANTS
  Tx, Coin,      \* transactions; confirmed outputs that existed before
  Inputs,        \* CTransaction::vin: the outputs spent
  Mine,          \* transactions whose output pays the wallet
  TxIdOrder,     \* the order of the transaction ids
  Block, Genesis, Parent,
  Chain,         \* a block and all blocks before it
  Null, Abandoned,  \* uint256(), ABANDON_HASH
  Worlds         \* what a behaviour may meet, see World

\* The transactions of every block, the transactions that others send, those
\* the wallet makes, and bounds on evictions from the pool, on abandontransaction
\* and on the deaths of the node.
World == [vtx : [Block -> Seq(Tx)], foreign : SUBSET Tx, own : SUBSET Tx,
          evictions : Nat, abandons : Nat, deaths : Nat]

ASSUME ChainAssumption ==
  /\ Genesis \in Block /\ Parent \in [Block \ {Genesis} -> Block]
  /\ Chain[Genesis] = {Genesis}
  /\ \A b \in Block \ {Genesis} : Chain[b] = {b} \cup Chain[Parent[b]] /\ b \notin Chain[Parent[b]]

ASSUME TxAssumption ==
  /\ Inputs \in [Tx -> SUBSET (Tx \cup Coin)] /\ \A x \in Tx : Inputs[x] # {}
  /\ Tx \cap Coin = {} /\ Mine \subseteq Tx
  /\ {Null, Abandoned} \cap Block = {} /\ Null # Abandoned
  /\ Range(TxIdOrder) = Tx /\ IsInjective(TxIdOrder)

VARIABLES
  mapWallet,     \* the transactions of the wallet: [hashBlock, nIndex, nOrderPos]
  locator,       \* the best block recorded in the wallet file
  tip, flushed,  \* chainActive.Tip(); the best block of the coins database
  mempool,
  pc,            \* what holds cs_main
  pindexMostWork, pindexOldTip, connectTrace, disconnectpool,
  prepared,      \* transactions made and not yet committed
  refused,       \* transactions committed when the pool refused them
  fReaccept,     \* postInitProcess is still to come
  told,          \* the blocks of one branch the wallet was told of, or that
                 \* its locator did not cover when it was loaded
  world, used

step == <<pindexMostWork, pindexOldTip, connectTrace, disconnectpool>>
others == <<prepared, refused, fReaccept, world>>
vars == <<mapWallet, locator, tip, flushed, mempool, pc, step, told, others, used>>

-----------------------------------------------------------------------------
Height(b) == Cardinality(Chain[b]) - 1

InChain(t) == UNION {Range(world.vtx[b]) : b \in Chain[t]}

Fork(a, b) == CHOOSE c \in Chain[a] \cap Chain[b] : Chain[a] \cap Chain[b] \subseteq Chain[c]

\* The blocks after a, up to b, in order.
Blocks(a, b) == SetToSortSeq(Chain[b] \ Chain[a], LAMBDA x, y : Height(x) < Height(y))

SpentBy(S) == UNION {Inputs[x] : x \in S}

Conflict(x, y) == x # y /\ Inputs[x] \cap Inputs[y] # {}

\* The least part of S that has x and what in S spends one of its own: the walk
\* over mapTxSpends of MarkConflicted, and removeRecursive of the pool.
Reached(x, S) ==
  {d \in S : \A T \in SUBSET S :
     (x \in T /\ \A y \in S : Inputs[y] \cap T # {} => y \in T) => d \in T}

-----------------------------------------------------------------------------
(* The wallet's functions, on mapWallet w with the chain at t.             *)

\* CMerkleTx::GetDepthInMainChain.
GetDepthInMainChain(w, t, x) ==
  IF w[x].hashBlock \notin Chain[t] THEN 0
  ELSE (IF w[x].nIndex = -1 THEN -1 ELSE 1) * (Height(t) - Height(w[x].hashBlock) + 1)

isAbandoned(w, x) == w[x].hashBlock = Abandoned

\* Mutant of MarkConflicted: the latest block counts.
MarkConflictedLatest(w, t, b, x) ==
  IF b \notin Chain[t] THEN w
  ELSE [d \in DOMAIN w |->
          IF d \in Reached(x, DOMAIN w) THEN [w[d] EXCEPT !.hashBlock = b, !.nIndex = -1] ELSE w[d]]

\* MarkConflicted: x and what spends it, as far as they are not already in
\* conflict with a block as deep.
MarkConflicted(w, t, b, x) ==
  LET conflictconfirms == -(Height(t) - Height(b) + 1)
      Update == {d \in DOMAIN w : conflictconfirms < GetDepthInMainChain(w, t, d)}
  IN IF b \notin Chain[t] \/ x \notin Update THEN w
     ELSE [d \in DOMAIN w |->
             IF d \in Reached(x, Update) THEN [w[d] EXCEPT !.hashBlock = b, !.nIndex = -1]
             ELSE w[d]]

\* IsFromMe: an input spends an output of the wallet.
IsFromMe(w, x) == Inputs[x] \cap DOMAIN w \cap Mine # {}

\* AddToWallet: insert, or merge what is known of its block.
AddToWallet(w, x, b, n) ==
  IF x \notin DOMAIN w
  THEN [d \in DOMAIN w \cup {x} |->
          IF d = x THEN [hashBlock |-> b, nIndex |-> n, nOrderPos |-> Cardinality(DOMAIN w)]
          ELSE w[d]]
  ELSE [w EXCEPT ![x] =
          [@ EXCEPT !.hashBlock = IF b # Null \/ @ = Abandoned THEN b ELSE @,
                    !.nIndex = IF n # -1 THEN n ELSE @]]

\* AddToWalletIfInvolvingMe with fUpdate, and SyncTransaction: x is in block b,
\* or b is Null.
SyncTransaction(w, t, x, b) ==
  LET Rivals == IF b = Null THEN {} ELSE {d \in DOMAIN w : Conflict(x, d)}
      marked == FoldSet(LAMBDA d, acc : MarkConflicted(acc, t, b, d), w, Rivals)
  IN IF x \in DOMAIN w \cup Mine \/ IsFromMe(w, x)
     THEN AddToWallet(marked, x, b, IF b = Null THEN -1 ELSE 0)
     ELSE marked

\* BlockConnected and BlockDisconnected; a rescanned block is connected without
\* conflicts from the pool.
BlockConnected(w, t, b, vtxConflicted) ==
  FoldLeft(LAMBDA acc, x : SyncTransaction(acc, t, x, b),
           FoldSet(LAMBDA x, acc : SyncTransaction(acc, t, x, Null), w, vtxConflicted),
           world.vtx[b])

BlockDisconnected(w, t, b) ==
  FoldLeft(LAMBDA acc, x : SyncTransaction(acc, t, x, Null), w, world.vtx[b])

\* Mutant of IsSpent: a transaction that is not confirmed spends nothing.
IsSpentConfirmed(w, t, x) ==
  \E d \in DOMAIN w : x \in Inputs[d] /\ GetDepthInMainChain(w, t, d) > 0

\* IsSpent: by a transaction that is neither in conflict nor abandoned.
IsSpent(w, t, x) ==
  \E d \in DOMAIN w :
    /\ x \in Inputs[d]
    /\ \/ GetDepthInMainChain(w, t, d) > 0
       \/ GetDepthInMainChain(w, t, d) = 0 /\ ~isAbandoned(w, d)

\* IsTrusted: confirmed, or in the pool and made from coins of the wallet.
IsTrusted(w, t, x) ==
  \/ GetDepthInMainChain(w, t, x) > 0
  \/ /\ GetDepthInMainChain(w, t, x) = 0
     /\ x \in mempool
     /\ Inputs[x] \subseteq DOMAIN w \cap Mine

\* AvailableCoins with fOnlySafe.
AvailableCoins == {x \in DOMAIN mapWallet \cap Mine : /\ IsTrusted(mapWallet, tip, x)
                                                      /\ ~IsSpent(mapWallet, tip, x)}

-----------------------------------------------------------------------------
(* The pool and the files.                                                 *)

\* AcceptToMemoryPool takes x into pool: its inputs exist and are not spent.
Acceptable(pool, t, x) ==
  LET known == InChain(t) \cup pool
  IN /\ x \notin known
     /\ Inputs[x] \subseteq Coin \cup known
     /\ Inputs[x] \cap SpentBy(known) = {}

\* What LimitMempoolSize may remove: nothing, or a transaction and what spends it.
Evicted(pool) ==
  {{}} \cup (IF used.evictions = world.evictions THEN {} ELSE {Reached(y, pool) : y \in pool})

CountEviction(out) ==
  used' = IF out = {} THEN used ELSE [used EXCEPT !.evictions = @ + 1]

\* FlushStateToDisk: not due, SetBestChain alone, or all of it.  coins is the
\* best block of pcoinsTip, t is chainActive.Tip().
FlushStateToDisk(kind, coins, t) ==
  /\ flushed' = IF kind = "full" THEN coins ELSE flushed
  /\ locator' = IF kind # "none" THEN t ELSE locator

PERIODIC == {"none", "locator", "full"}
IF_NEEDED == {"none", "full"}

\* AcceptToMemoryPool of x, with mapWallet at w: the pool is limited, the wallet
\* is told if x stays, and what is due is flushed.
AcceptToMemoryPool(w, x) ==
  \E out \in Evicted(mempool \cup {x}), kind \in PERIODIC :
    /\ mempool' = (mempool \cup {x}) \ out
    /\ mapWallet' = IF x \in out THEN w ELSE SyncTransaction(w, tip, x, Null)
    /\ CountEviction(out)
    /\ FlushStateToDisk(kind, tip, tip)

\* A transaction arrives, or the wallet sends one of its own again
\* (RelayWalletTransaction).
ReceiveTransaction(x) ==
  /\ pc = "idle"
  /\ \/ x \in world.foreign
     \/ /\ x \in DOMAIN mapWallet /\ ~isAbandoned(mapWallet, x)
        /\ GetDepthInMainChain(mapWallet, tip, x) = 0
  /\ Acceptable(mempool, tip, x)
  /\ AcceptToMemoryPool(mapWallet, x)
  /\ UNCHANGED <<tip, pc, step, told, others>>

-----------------------------------------------------------------------------
(* Calls of the user.                                                      *)

\* CreateTransaction chooses coins that are available now.
CreateTransaction(x) ==
  /\ pc = "idle"
  /\ x \in world.own \ (DOMAIN mapWallet \cup prepared)
  /\ Inputs[x] \subseteq AvailableCoins
  /\ prepared' = prepared \cup {x}
  /\ UNCHANGED <<mapWallet, locator, tip, flushed, mempool, pc, step, told, refused, fReaccept, world,
                 used>>

\* CommitTransaction records it and then offers it to the pool.
CommitTransaction(x) ==
  LET w == AddToWallet(mapWallet, x, Null, -1)
  IN /\ pc = "idle" /\ x \in prepared
     /\ prepared' = prepared \ {x}
     /\ \/ Acceptable(mempool, tip, x) /\ AcceptToMemoryPool(w, x) /\ UNCHANGED refused
        \/ /\ ~Acceptable(mempool, tip, x)
           /\ mapWallet' = w
           /\ refused' = refused \cup {x}
           /\ \E kind \in PERIODIC : FlushStateToDisk(kind, tip, tip)
           /\ UNCHANGED <<mempool, used>>
     /\ UNCHANGED <<tip, pc, step, told, fReaccept, world>>

\* What AbandonTransaction(x) visits: its iterator always starts at the outputs
\* of x, so it does not get past those that spend x itself.
Visited(x) ==
  {x} \cup (IF GetDepthInMainChain(mapWallet, tip, x) = 0 /\ ~isAbandoned(mapWallet, x)
            THEN {d \in DOMAIN mapWallet : x \in Inputs[d]} ELSE {})

\* Mutant of MayAbandon: a transaction in the pool may be abandoned.
MayAbandonPooled(x) ==
  x \in DOMAIN mapWallet /\ GetDepthInMainChain(mapWallet, tip, x) <= 0

\* AbandonTransaction does not return false: not confirmed nor in the pool.
MayAbandon(x) ==
  x \in DOMAIN mapWallet /\ GetDepthInMainChain(mapWallet, tip, x) <= 0 /\ x \notin mempool

\* abandontransaction.
AbandonTransaction(x) ==
  /\ pc = "idle" /\ used.abandons < world.abandons
  /\ MayAbandon(x)
  /\ mapWallet' = [d \in DOMAIN mapWallet |->
                     IF d \in Visited(x) /\ GetDepthInMainChain(mapWallet, tip, d) = 0
                     THEN [mapWallet[d] EXCEPT !.hashBlock = Abandoned, !.nIndex = -1]
                     ELSE mapWallet[d]]
  /\ used' = [used EXCEPT !.abandons = @ + 1]
  /\ UNCHANGED <<locator, tip, flushed, mempool, pc, step, told, others>>

-----------------------------------------------------------------------------
(* A step of ActivateBestChain.                                            *)

Begin(b) ==
  /\ pc = "idle" /\ Height(b) > Height(tip)
  /\ pc' = "step"
  /\ pindexMostWork' = b /\ pindexOldTip' = tip
  /\ connectTrace' = <<>> /\ disconnectpool' = <<>>
  /\ UNCHANGED <<mapWallet, locator, tip, flushed, mempool, told, others, used>>

\* DisconnectTip: chainActive follows the flush, and the wallet is told.
DisconnectTip ==
  /\ pc = "step" /\ tip \notin Chain[pindexMostWork]
  /\ \E kind \in IF_NEEDED : FlushStateToDisk(kind, Parent[tip], tip)
  /\ disconnectpool' = disconnectpool \o Reverse(world.vtx[tip])
  /\ tip' = Parent[tip]
  /\ mapWallet' = BlockDisconnected(mapWallet, tip', tip)
  /\ UNCHANGED <<mempool, pc, pindexMostWork, pindexOldTip, connectTrace, told, others, used>>

\* The block ConnectTip connects next, until the chain is better than it was.
ToConnect ==
  IF tip \notin Chain[pindexMostWork] \/ Height(tip) > Height(pindexOldTip) THEN {}
  ELSE {b \in Chain[pindexMostWork] : Height(b) = Height(tip) + 1}

\* What removeForBlock removes as conflicting.
RemovedConflicts(pool, b) ==
  UNION {Reached(d, pool) : d \in {e \in pool : \E x \in Range(world.vtx[b]) : Conflict(x, e)}}

\* ConnectTip: the wallet is told at the end of the step.
ConnectTip ==
  /\ pc = "step"
  /\ \E b \in ToConnect, kind \in IF_NEEDED :
       LET pool == mempool \ Range(world.vtx[b])
           conflicts == RemovedConflicts(pool, b)
       IN /\ FlushStateToDisk(kind, b, tip)
          /\ mempool' = pool \ conflicts
          /\ disconnectpool' = SelectSeq(disconnectpool, LAMBDA x : x \notin Range(world.vtx[b]))
          /\ tip' = b
          /\ connectTrace' = Append(connectTrace, [pindex |-> b, conflictedTxs |-> conflicts])
  /\ UNCHANGED <<mapWallet, pc, pindexMostWork, pindexOldTip, told, others, used>>

\* UpdateMempoolForReorg with fAddToMempool: the pool and the wallet.
UpdateMempoolForReorg ==
  FoldLeft(LAMBDA acc, x :
             IF Acceptable(acc.pool, tip, x)
             THEN [pool |-> acc.pool \cup {x}, w |-> SyncTransaction(acc.w, tip, x, Null)]
             ELSE [acc EXCEPT !.pool = @ \ Reached(x, @ \cup {x})],
           [pool |-> mempool, w |-> mapWallet], Reverse(disconnectpool))

\* The end of ActivateBestChainStep.  Every AcceptToMemoryPool ends in a flush.
EndStep ==
  /\ pc = "step" /\ tip \in Chain[pindexMostWork] /\ ToConnect = {}
  /\ \E out \in Evicted(UpdateMempoolForReorg.pool),
        kind \in IF disconnectpool = <<>> THEN {"none"} ELSE PERIODIC :
       /\ mempool' = UpdateMempoolForReorg.pool \ out
       /\ CountEviction(out)
       /\ FlushStateToDisk(kind, tip, tip)
  /\ mapWallet' = UpdateMempoolForReorg.w
  /\ disconnectpool' = <<>>
  /\ pc' = "notify"
  /\ UNCHANGED <<tip, pindexMostWork, pindexOldTip, connectTrace, told, others>>

\* ActivateBestChain tells the wallet of the next block; after the last one it
\* releases cs_main, and at the end of its loop flushes.
Notify ==
  /\ pc = "notify"
  /\ mapWallet' = BlockConnected(mapWallet, tip, Head(connectTrace).pindex,
                               Head(connectTrace).conflictedTxs)
  /\ told' = (told \cap Chain[tip]) \cup {Head(connectTrace).pindex}
  /\ connectTrace' = Tail(connectTrace)
  /\ pc' = IF Len(connectTrace) = 1 THEN "idle" ELSE "notify"
  /\ \E kind \in IF Len(connectTrace) = 1 /\ tip = pindexMostWork THEN PERIODIC ELSE {"none"} :
       FlushStateToDisk(kind, tip, tip)
  /\ UNCHANGED <<tip, mempool, pindexMostWork, pindexOldTip, disconnectpool, others, used>>

-----------------------------------------------------------------------------
(* Shutdown and start.                                                     *)

\* LoadToWallet, in the order of the ids: what spends a transaction in conflict
\* with a block is in conflict with it too.
LoadToWallet(w, t, x) ==
  FoldSet(LAMBDA p, acc :
            IF acc[p].nIndex = -1 /\ acc[p].hashBlock \in Block
            THEN MarkConflicted(acc, t, acc[p].hashBlock, x) ELSE acc,
          [d \in DOMAIN w \cup {x} |-> IF d = x THEN mapWallet[x] ELSE w[d]],
          Inputs[x] \cap DOMAIN w)

LoadWallet(t) ==
  FoldLeft(LAMBDA acc, x : IF x \in DOMAIN mapWallet THEN LoadToWallet(acc, t, x) ELSE acc,
           [x \in {} |-> Null], TxIdOrder)

\* Mutant of Rescanned: what is after the locator in the chain, if it is there.
RescannedAhead(t, loc) == IF loc \in Chain[t] THEN Blocks(loc, t) ELSE <<>>

\* The blocks CreateWalletFromFile scans: from the last one the chain and the
\* locator share, if that is not the tip.
Rescanned(t, loc) ==
  IF Fork(t, loc) = t THEN <<>> ELSE <<Fork(t, loc)>> \o Blocks(Fork(t, loc), t)

\* The next start, with the chainstate at t and the wallet file at loc.
Restart(t, loc) ==
  /\ used.deaths < world.deaths
  /\ used' = [used EXCEPT !.deaths = @ + 1]
  /\ tip' = t /\ flushed' = t
  /\ mapWallet' = FoldLeft(LAMBDA acc, b : BlockConnected(acc, t, b, {}), LoadWallet(t),
                           Rescanned(t, loc))
  /\ told' = (told \cap Chain[t]) \cup (Chain[t] \ Chain[loc])
  /\ locator' = IF Fork(t, loc) = t THEN loc ELSE t
  /\ mempool' = {} /\ prepared' = {} /\ fReaccept' = TRUE
  /\ pc' = "idle" /\ connectTrace' = <<>> /\ disconnectpool' = <<>>
  /\ UNCHANGED <<pindexMostWork, pindexOldTip, refused, world>>

Crash == Restart(flushed, locator)

\* Shutdown flushes all, whether the operator stops the node or the step met a
\* system error and returned without telling the wallet.
Shutdown == pc \in {"idle", "step"} /\ Restart(tip, tip)

\* postInitProcess: ReacceptWalletTransactions, in the order of nOrderPos.
ReacceptWalletTransactions ==
  LET pending == {x \in DOMAIN mapWallet : /\ GetDepthInMainChain(mapWallet, tip, x) = 0
                                           /\ ~isAbandoned(mapWallet, x)}
      mapSorted == SetToSortSeq(pending, LAMBDA x, y : mapWallet[x].nOrderPos < mapWallet[y].nOrderPos)
  IN /\ pc = "idle" /\ fReaccept
     /\ fReaccept' = FALSE
     /\ mempool' = FoldLeft(LAMBDA pool, x : IF Acceptable(pool, tip, x) THEN pool \cup {x} ELSE pool,
                            mempool, mapSorted)
     /\ \E kind \in IF pending = {} THEN {"none"} ELSE PERIODIC : FlushStateToDisk(kind, tip, tip)
     /\ UNCHANGED <<mapWallet, tip, pc, step, told, prepared, refused, world, used>>

-----------------------------------------------------------------------------
Init ==
  /\ mapWallet = [x \in {} |-> Null] /\ locator = Genesis
  /\ tip = Genesis /\ flushed = Genesis /\ mempool = {}
  /\ pc = "idle" /\ pindexMostWork = Genesis /\ pindexOldTip = Genesis
  /\ connectTrace = <<>> /\ disconnectpool = <<>>
  /\ prepared = {} /\ refused = {} /\ fReaccept = FALSE /\ told = {Genesis}
  /\ world \in Worlds /\ used = [evictions |-> 0, abandons |-> 0, deaths |-> 0]

Next ==
  \/ \E x \in Tx : \/ ReceiveTransaction(x) \/ CreateTransaction(x)
                   \/ CommitTransaction(x) \/ AbandonTransaction(x)
  \/ \E b \in Block : Begin(b)
  \/ DisconnectTip \/ ConnectTip \/ EndStep \/ Notify
  \/ Crash \/ Shutdown \/ ReacceptWalletTransactions

Spec == Init /\ [][Next]_vars

-----------------------------------------------------------------------------
(* Properties.                                                             *)

\* What the user can see: cs_main is free, and the wallet was told of the chain
\* there is.  A crash can take that away: when the chainstate on disk is that of
\* a step whose notifications did not come and the locator is too, or of a
\* branch left since, with the locator on it.  It comes back with the next
\* chain the wallet is told of from the fork on.
Synced == pc = "idle" /\ Chain[tip] \subseteq told

Depth(x) == GetDepthInMainChain(mapWallet, tip, x)

Confirmations(b) == Height(tip) - Height(b) + 1

\* The wallet shows a transaction as confirmed exactly when a block of the
\* active chain has it, with that block's depth, and knows every transaction of
\* the chain that involves it, after any reorganisation, crash and restart.
ConfirmedExact ==
  Synced =>
    /\ \A x \in DOMAIN mapWallet :
         IF x \in InChain(tip)
         THEN \E b \in Chain[tip] : x \in Range(world.vtx[b]) /\ Depth(x) = Confirmations(b)
         ELSE Depth(x) <= 0
    /\ \A x \in InChain(tip) : x \in Mine \/ IsFromMe(mapWallet, x) => x \in DOMAIN mapWallet

\* The blocks of the active chain that x, or a transaction of the wallet it
\* depends on, conflicts with.
ConflictBlocks(x) ==
  {b \in Chain[tip] : \E d \in DOMAIN mapWallet, y \in Range(world.vtx[b]) :
     Conflict(d, y) /\ x \in Reached(d, DOMAIN mapWallet)}

\* A transaction is shown in conflict only if it or a transaction of the wallet
\* it depends on conflicts with a block of the active chain, with the depth of
\* such a block; and whenever it conflicts itself, with the earliest of those or
\* an earlier one.  (A transaction prepared before the block came and committed
\* after it is recorded without a look at its inputs.)
ConflictShown ==
  Synced => \A x \in DOMAIN mapWallet \ InChain(tip) :
    /\ Depth(x) # 0 => \E b \in ConflictBlocks(x) : Depth(x) = -Confirmations(b)
    /\ x \notin refused => \A b \in Chain[tip] :
         (\E y \in Range(world.vtx[b]) : Conflict(x, y)) => Depth(x) <= -Confirmations(b)

\* wallet.h, 194: "the earliest block in the chain we know this or any in-wallet
\* dependency conflicts with".
ConflictExact ==
  Synced => \A x \in DOMAIN mapWallet \ (InChain(tip) \cup refused) :
    IF ConflictBlocks(x) = {} THEN Depth(x) = 0
    ELSE Depth(x) = -Max({Confirmations(b) : b \in ConflictBlocks(x)})

\* AvailableCoins offers no coin that the chain or the pool spends, and only
\* coins that exist there.
AvailableUnspent ==
  Synced =>
    /\ AvailableCoins \cap SpentBy(InChain(tip) \cup mempool) = {}
    /\ AvailableCoins \subseteq InChain(tip) \cup mempool

\* The assertions of AbandonTransaction: none of what it visits is confirmed, or
\* in the pool and not abandoned; and no transaction in the pool is abandoned.
AbandonSafe ==
  Synced =>
    /\ \A x \in DOMAIN mapWallet : MayAbandon(x) => \A d \in Visited(x) :
         Depth(d) <= 0 /\ (Depth(d) = 0 /\ ~isAbandoned(mapWallet, d) => d \notin mempool)
    /\ \A x \in mempool \cap DOMAIN mapWallet : ~isAbandoned(mapWallet, x)

\* rpcwallet.cpp, 2290: "This will mark this transaction and all its in-wallet
\* descendants as abandoned".  Said of the call that marks x.
AbandonsDescendants ==
  [][\A x \in DOMAIN mapWallet :
       (AbandonTransaction(x) /\ ~isAbandoned(mapWallet, x) /\ isAbandoned(mapWallet', x)) =>
         \A d \in Reached(x, DOMAIN mapWallet) :
           GetDepthInMainChain(mapWallet', tip, d) = 0 => isAbandoned(mapWallet', d)]_vars
=============================================================================
