------------------------------ MODULE Mempool ------------------------------
(***************************************************************************)
(* CTxMemPool (txmempool.cpp) and what validation.cpp does to it: accept a *)
(* transaction, connect and disconnect blocks, bring transactions of       *)
(* disconnected blocks back, expire and trim.                              *)
(*                                                                         *)
(* The pool keeps, for every entry, its parents and children in the pool   *)
(* (mapLinks) and the count, size and fees of the entry with its ancestors *)
(* and with its descendants, all by increments.  addUnchecked takes the    *)
(* entry to have no children, which is wrong while a reorganisation brings *)
(* transactions back; UpdateTransactionsFromBlock repairs that at its end. *)
(*                                                                         *)
(* Everything here runs under cs_main, so a reorganisation is a sequence   *)
(* of steps that nothing interrupts, but readers of the pool hold its own  *)
(* lock only and see the states between the steps.  A transaction has one  *)
(* size; signature operations are counted like it and left out, as are     *)
(* the fee estimator, vTxHashes and the byte counts.  Scripts, standardness*)
(* and the rate limit are a choice to reject.                              *)
(***************************************************************************)
EXTENDS Integers, Sequences, FiniteSets, FiniteSetsExt, SequencesExt

CONSTANTS
  Tx,
  Coinbase,          \* the coinbases among them
  Out,               \* output numbers
  vin,               \* the outpoints <<t, n>> each spends
  Fee, Size,
  FinalHeight,       \* the first block it may be in (nLockTime)
  Base,              \* outpoints unspent before the first block
  Block,             \* vtx of the blocks there are
  ForkBlocks,        \* those that turn replay protection on
  Maturity,          \* COINBASE_MATURITY
  MaxHeight,         \* bound
  MaxAncestors, MaxDescendants,   \* -limitancestorcount, -limitdescendantcount
  MaxMempool,        \* -maxmempool, in units of size
  MaxDisconnected,   \* MAX_DISCONNECTED_TX_POOL_SIZE, in transactions
  PerK,              \* the 1000 of a fee per kilobyte
  Increment,         \* MEMPOOL_FULL_FEE_INCREMENT
  Deltas             \* the fee deltas prioritisetransaction may give each

ASSUME MempoolAssumption ==
  /\ Coinbase \subseteq Tx /\ Block \subseteq Seq(Tx) /\ ForkBlocks \subseteq Block
  /\ vin \in [Tx -> Seq(Base \cup (Tx \X Out))]
  /\ Fee \in [Tx -> Nat] /\ Size \in [Tx -> Nat \ {0}] /\ FinalHeight \in [Tx -> Nat]
  /\ \A o \in Base : o[1] \notin Tx
  /\ \A c \in Coinbase : vin[c] = <<>>
  /\ Deltas \in [Tx -> SUBSET Int] /\ \A t \in Tx : \A n \in Deltas[t] : Fee[t] + n >= 0

\* What may be an entry.
Entry == Tx \ Coinbase

Inputs == [t \in Tx |-> Range(vin[t])]

VARIABLES
  pool,              \* the members of CTxMemPool, see EmptyPool
  mapDeltas,
  rollingMinimumFeeRate, blockSinceLastRollingFeeBump,
  chain,             \* the blocks of chainActive after the genesis block
  phase,             \* "idle", or the step of the call under way
  queuedTx,          \* disconnectpool, in the order in which it is worked off
  fAddToMempool,
  vHashUpdate

fees == <<rollingMinimumFeeRate, blockSinceLastRollingFeeBump>>
reorg == <<queuedTx, fAddToMempool, vHashUpdate>>
vars == <<pool, mapDeltas, fees, chain, phase, reorg>>

\* mapTx, mapLinks and mapNextTx; fee is GetModifiedFee(), and anc and desc are the
\* sums with ancestors and with descendants.
NoSum == [n |-> 0, size |-> 0, fee |-> 0]
EmptyPool ==
  [tx |-> {}, parents |-> [t \in Entry |-> {}], children |-> [t \in Entry |-> {}],
   next |-> {}, fee |-> [t \in Entry |-> 0],
   anc |-> [t \in Entry |-> NoSum], desc |-> [t \in Entry |-> NoSum]]

-----------------------------------------------------------------------------
(* The chain.                                                              *)

Height == Len(chain)
Confirmed == UNION {Range(chain[i]) : i \in DOMAIN chain}
Outputs(t) == {t} \X Out

\* What pcoinsTip shows.
Coins(confirmed) ==
  (Base \cup UNION {Outputs(t) : t \in confirmed}) \ UNION {Inputs[t] : t \in confirmed}

\* The height of the block a confirmed transaction is in.
HeightOf(t) == CHOOSE i \in DOMAIN chain : t \in Range(chain[i])

\* No coinbase t spends is too young for the next block.
Mature(t) ==
  \A o \in Inputs[t] : o[1] \in Coinbase =>
    o[1] \in Confirmed /\ Height + 1 - HeightOf(o[1]) >= Maturity

\* ContextualCheckTransactionForCurrentBlock and CheckSequenceLocks.
Final(t) == FinalHeight[t] <= Height + 1

\* The block can be connected: nothing it spends is missing, at its place.
Connects(b) ==
  /\ Range(b) \cap Confirmed = {}
  /\ \A i \in DOMAIN b :
       /\ Inputs[b[i]] \subseteq Coins(Confirmed \cup {b[j] : j \in 1..(i - 1)})
       /\ Mature(b[i]) /\ Final(b[i])

-----------------------------------------------------------------------------
(* CTxMemPool.                                                             *)

\* What can be reached from S along next.
Reach(next, S) ==
  LET step[i \in 0..Cardinality(Entry)] ==
        IF i = 0 THEN S ELSE step[i - 1] \cup UNION {next[t] : t \in step[i - 1]}
  IN step[Cardinality(Entry)]

\* CalculateMemPoolAncestors along mapLinks, and CalculateDescendants.
Ancestors(m, t) == Reach(m.parents, m.parents[t])
Descendants(m, S) == Reach(m.children, S)

\* The count, size and fees of a set of entries.
SumOf(m, S) == [n |-> Cardinality(S), size |-> MapThenSumSet(LAMBDA t : Size[t], S),
                fee |-> MapThenSumSet(LAMBDA t : m.fee[t], S)]
Plus(a, b) == [n |-> a.n + b.n, size |-> a.size + b.size, fee |-> a.fee + b.fee]
Minus(a, b) == [n |-> a.n - b.n, size |-> a.size - b.size, fee |-> a.fee - b.fee]

\* The parents of t in the pool, by looking for them.
PoolParents(m, t) == {o[1] : o \in Inputs[t]} \cap m.tx

\* addUnchecked: t has no children.
AddUnchecked(m, t) ==
  LET parents == PoolParents(m, t)
      anc == Reach(m.parents, parents)
      fee == Fee[t] + mapDeltas[t]
      self == [n |-> 1, size |-> Size[t], fee |-> fee]
  IN [m EXCEPT !.tx = @ \cup {t},
        !.parents[t] = parents,
        !.children = [p \in Entry |-> IF p \in parents THEN @[p] \cup {t} ELSE @[p]],
        !.next = @ \cup {<<o, t>> : o \in Inputs[t]},
        !.fee[t] = fee,
        !.anc[t] = Plus(self, SumOf(m, anc)),
        !.desc = [a \in Entry |-> IF a = t THEN self
                               ELSE IF a \in anc THEN Plus(@[a], self) ELSE @[a]]]

\* UpdateForRemoveFromMempool takes the entries S off the sums of their descendants
\* (unless those go too) and of their ancestors.
AncestorSums(m, S, updateDescendants) ==
  [d \in Entry |-> IF updateDescendants
                THEN Minus(m.anc[d], SumOf(m, {r \in S : d \in Descendants(m, {r}) \ {r}}))
                ELSE m.anc[d]]
DescendantSums(m, S) ==
  [a \in Entry |-> Minus(m.desc[a], SumOf(m, {r \in S : a \in Ancestors(m, r)}))]

\* RemoveStaged: the sums, the links, then removeUnchecked for each.
RemoveStaged(m, S, updateDescendants) ==
  LET left == m.tx \ S
      keep(f, none) == [t \in Entry |-> IF t \in left THEN f[t] ELSE none]
  IN [m EXCEPT !.tx = left,
        !.parents = keep([c \in Entry |-> @[c] \ {r \in S : c \in m.children[r]}], {}),
        !.children = keep([p \in Entry |-> @[p] \ {r \in S : p \in m.parents[r]}], {}),
        !.next = {e \in @ : e[1] \notin UNION {Inputs[r] : r \in S}},
        !.fee = keep(@, 0),
        !.anc = keep(AncestorSums(m, S, updateDescendants), NoSum),
        !.desc = keep(DescendantSums(m, S), NoSum)]

\* What removeRecursive starts from: t, or what spends it if t is not in the pool.
Roots(m, t) == IF t \in m.tx THEN {t} ELSE {e[2] : e \in {x \in m.next : x[1] \in Outputs(t)}}

RemoveRecursive(m, t) == RemoveStaged(m, Descendants(m, Roots(m, t)), FALSE)

\* removeConflicts, for one input o of t: of what else spends it the fee delta is
\* cleared, and it goes.  A pool and the fee deltas are a pair here.
RemoveConflict(st, o, t) ==
  LET conflicts == {e[2] : e \in {x \in st.pool.next : x[1] = o}} \ {t}
  IN [pool |-> RemoveStaged(st.pool, Descendants(st.pool, conflicts), FALSE),
      deltas |-> [u \in Tx |-> IF u \in conflicts THEN 0 ELSE st.deltas[u]]]
RemoveConflicts(st, t) == FoldLeft(LAMBDA a, o : RemoveConflict(a, o, t), st, vin[t])

\* removeForBlock.
RemoveForTx(st, t) ==
  LET m == IF t \in st.pool.tx THEN RemoveStaged(st.pool, {t}, TRUE) ELSE st.pool
  IN [RemoveConflicts([st EXCEPT !.pool = m], t) EXCEPT !.deltas[t] = 0]
RemoveForBlock(m, vtx) == FoldLeft(RemoveForTx, [pool |-> m, deltas |-> mapDeltas], vtx)

\* UpdateTransactionsFromBlock for one transaction of the set hashes: link its
\* children outside the set, and add what UpdateForDescendants finds below it.
UpdateFromBlock(m, t, hashes) ==
  LET new == {e[2] : e \in {x \in m.next : x[1] \in Outputs(t)}} \ hashes
      children == [m.children EXCEPT ![t] = @ \cup new]
      below == Reach(children, children[t]) \ hashes
      self == SumOf(m, {t})
  IN [m EXCEPT !.children = children,
        !.parents = [c \in Entry |-> IF c \in new THEN @[c] \cup {t} ELSE @[c]],
        !.anc = [d \in Entry |-> IF d \in below THEN Plus(@[d], self) ELSE @[d]],
        !.desc[t] = Plus(@, SumOf(m, below))]

\* Mutant of UpdateTransactionsFromBlock: in the order of the block.
UpdateTransactionsFromBlockForward(m, hashes) ==
  FoldLeft(LAMBDA a, t : IF t \in a.tx THEN UpdateFromBlock(a, t, Range(hashes)) ELSE a,
           m, hashes)

UpdateTransactionsFromBlock(m, hashes) ==
  FoldLeft(LAMBDA a, t : IF t \in a.tx THEN UpdateFromBlock(a, t, Range(hashes)) ELSE a,
           m, Reverse(hashes))

\* What removeForReorg starts from.
Unminable(m) ==
  {t \in m.tx : \/ ~ Final(t)
                \/ /\ \E o \in Inputs[t] : o[1] \in Coinbase
                   /\ \/ ~ Mature(t)
                      \/ \E o \in Inputs[t] : o[1] \notin m.tx /\ o \notin Coins(Confirmed)}

RemoveForReorg(m) == RemoveStaged(m, Descendants(m, Unminable(m)), FALSE)

-----------------------------------------------------------------------------
(* Fee rates.                                                              *)

\* CFeeRate(fee, size) and GetFee(size).
FeeRate(fee, size) == (fee * PerK) \div size
GetFee(rate, size) ==
  LET fee == (rate * size) \div PerK IN IF fee = 0 /\ rate > 0 THEN 1 ELSE fee

\* The sum that CompareTxMemPoolEntryByDescendantScore ranks an entry by.
Score(m, t) ==
  LET self == SumOf(m, {t})
  IN IF m.desc[t].fee * self.size > self.fee * m.desc[t].size THEN m.desc[t] ELSE self
Worst(m) ==
  {t \in m.tx : \A u \in m.tx :
     Score(m, t).fee * Score(m, u).size <= Score(m, u).fee * Score(m, t).size}

DynamicMemoryUsage(m) == SumOf(m, m.tx).size

-----------------------------------------------------------------------------
(* AcceptToMemoryPool.                                                     *)

\* The limits of CalculateMemPoolAncestors.
WithinLimits(m, t) ==
  LET anc == Reach(m.parents, PoolParents(m, t))
  IN /\ Cardinality(anc) + 1 <= MaxAncestors
     /\ \A a \in anc : m.desc[a].n + 1 <= MaxDescendants

NoConflict(m, t) == \A e \in m.next : e[1] \notin Inputs[t]

\* The mempool minimum fee is met.
FeeMet(m, t) == Fee[t] + mapDeltas[t] >= GetFee(rollingMinimumFeeRate, Size[t])

\* The checks of AcceptToMemoryPoolWorker that look at the pool or the chain.
Acceptable(m, t) ==
  /\ t \notin Coinbase /\ Final(t)
  /\ t \notin m.tx /\ NoConflict(m, t)
  /\ Outputs(t) \cap Coins(Confirmed) = {}
  /\ \A o \in Inputs[t] : o[1] \in m.tx \/ o \in Coins(Confirmed)
  /\ FeeMet(m, t)
  /\ WithinLimits(m, t)
  /\ Mature(t)

\* A transaction arrives and is accepted; LimitMempoolSize follows.
AcceptToMemoryPool(t) ==
  /\ phase = "idle"
  /\ Acceptable(pool, t)
  /\ pool' = AddUnchecked(pool, t)
  /\ phase' = "limit"
  /\ UNCHANGED <<mapDeltas, fees, chain, reorg>>

\* LimitMempoolSize: Expire, of entries of any age, ...
Expire ==
  /\ phase = "limit"
  /\ \E old \in SUBSET pool.tx : pool' = RemoveStaged(pool, Descendants(pool, old), FALSE)
  /\ phase' = "trim"
  /\ UNCHANGED <<mapDeltas, fees, chain, reorg>>

\* ... and TrimToSize, an iteration at a time; trackPackageRemoved is in it.
TrimToSize ==
  /\ phase = "trim" /\ DynamicMemoryUsage(pool) > MaxMempool
  /\ \E t \in Worst(pool) :
       LET removed == FeeRate(pool.desc[t].fee, pool.desc[t].size) + Increment
       IN /\ IF removed > rollingMinimumFeeRate
             THEN rollingMinimumFeeRate' = removed /\ blockSinceLastRollingFeeBump' = FALSE
             ELSE UNCHANGED fees
          /\ pool' = RemoveStaged(pool, Descendants(pool, {t}), FALSE)
  /\ UNCHANGED <<mapDeltas, chain, phase, reorg>>

Trimmed ==
  /\ phase = "trim" /\ DynamicMemoryUsage(pool) <= MaxMempool
  /\ phase' = "idle"
  /\ UNCHANGED <<pool, mapDeltas, fees, chain, reorg>>

\* GetMinFee, after some time: the rate decays once a block has come.
GetMinFee ==
  /\ phase = "idle" /\ blockSinceLastRollingFeeBump /\ rollingMinimumFeeRate > 0
  /\ rollingMinimumFeeRate' \in {0, rollingMinimumFeeRate \div 2}
  /\ UNCHANGED <<pool, mapDeltas, blockSinceLastRollingFeeBump, chain, phase, reorg>>

\* An entry's fee changes by d.
Reprioritised(m, t, d) ==
  [m EXCEPT !.fee[t] = @ + d,
     !.anc = [x \in Entry |-> IF x \in Descendants(m, {t}) THEN [@[x] EXCEPT !.fee = @ + d]
                           ELSE @[x]],
     !.desc = [x \in Entry |-> IF x \in Ancestors(m, t) \cup {t}
                            THEN [@[x] EXCEPT !.fee = @ + d] ELSE @[x]]]

\* prioritisetransaction.
PrioritiseTransaction(t) ==
  /\ phase = "idle"
  /\ \E new \in Deltas[t] \ {mapDeltas[t]} :
       /\ mapDeltas' = [mapDeltas EXCEPT ![t] = new]
       /\ pool' = IF t \in pool.tx THEN Reprioritised(pool, t, new - mapDeltas[t]) ELSE pool
  /\ UNCHANGED <<fees, chain, phase, reorg>>

-----------------------------------------------------------------------------
(* Blocks.                                                                 *)

\* ConnectTip, of the next block or of one on the way of a reorganisation.
ConnectTip(b) ==
  /\ phase \in {"idle", "reorg"}
  /\ Height < MaxHeight /\ Connects(b)
  /\ chain' = Append(chain, b)
  /\ \E st \in {RemoveForBlock(pool, b)} : pool' = st.pool /\ mapDeltas' = st.deltas
  /\ queuedTx' = SelectSeq(queuedTx, LAMBDA t : t \notin Range(b))
  /\ blockSinceLastRollingFeeBump' = TRUE
  /\ UNCHANGED <<rollingMinimumFeeRate, phase, fAddToMempool, vHashUpdate>>

\* disconnectpool is cut to its size: the last transactions to be worked off are
\* dropped, with what depends on them.
Dropped(q) == SubSeq(q, MaxDisconnected + 1, Len(q))

\* Mutant of KeptPool: what depends on them stays.
KeptPoolAll(m, q) == m

KeptPool(m, q) == FoldLeft(RemoveRecursive, m, Reverse(Dropped(q)))

\* DisconnectTip.  A block that turned replay protection on clears the pool.
DisconnectTip ==
  /\ phase \in {"idle", "reorg"} /\ Height > 0
  /\ LET b == Last(chain)
         clear == b \in ForkBlocks
         q == IF clear THEN b ELSE b \o queuedTx
     IN /\ queuedTx' = SubSeq(q, 1, Min({Len(q), MaxDisconnected}))
        /\ pool' = KeptPool(IF clear THEN EmptyPool ELSE pool, q)
        /\ rollingMinimumFeeRate' = IF clear THEN 0 ELSE rollingMinimumFeeRate
        /\ blockSinceLastRollingFeeBump' = (blockSinceLastRollingFeeBump /\ ~ clear)
  /\ chain' = Front(chain)
  /\ phase' = "reorg"
  /\ UNCHANGED <<mapDeltas, fAddToMempool, vHashUpdate>>

\* UpdateMempoolForReorg is called, with fAddToMempool = FALSE after a fatal error.
UpdateMempoolForReorg ==
  /\ phase = "reorg"
  /\ phase' = "readd"
  /\ fAddToMempool' \in BOOLEAN
  /\ UNCHANGED <<pool, mapDeltas, fees, chain, queuedTx, vHashUpdate>>

\* Mutant of Readd: vHashUpdate misses what comes back.
ReaddUnrecorded ==
  /\ phase = "readd" /\ queuedTx # <<>> /\ fAddToMempool
  /\ Acceptable(pool, Head(queuedTx))
  /\ pool' = AddUnchecked(pool, Head(queuedTx))
  /\ queuedTx' = Tail(queuedTx)
  /\ UNCHANGED <<mapDeltas, fees, chain, phase, fAddToMempool, vHashUpdate>>

\* Its loop: a transaction comes back, without LimitMempoolSize, ...
Readd ==
  /\ phase = "readd" /\ queuedTx # <<>> /\ fAddToMempool
  /\ Acceptable(pool, Head(queuedTx))
  /\ pool' = AddUnchecked(pool, Head(queuedTx))
  /\ vHashUpdate' = Append(vHashUpdate, Head(queuedTx))
  /\ queuedTx' = Tail(queuedTx)
  /\ UNCHANGED <<mapDeltas, fees, chain, phase, fAddToMempool>>

\* ... or does not, and what depends on it goes.
Reject ==
  /\ phase = "readd" /\ queuedTx # <<>>
  /\ pool' = RemoveRecursive(pool, Head(queuedTx))
  /\ queuedTx' = Tail(queuedTx)
  /\ UNCHANGED <<mapDeltas, fees, chain, phase, fAddToMempool, vHashUpdate>>

\* Its end; LimitMempoolSize follows.
EndReorg ==
  /\ phase = "readd" /\ queuedTx = <<>>
  /\ pool' = RemoveForReorg(UpdateTransactionsFromBlock(pool, vHashUpdate))
  /\ vHashUpdate' = <<>> /\ fAddToMempool' = FALSE
  /\ phase' = "limit"
  /\ UNCHANGED <<mapDeltas, fees, chain, queuedTx>>

-----------------------------------------------------------------------------
Init ==
  /\ pool = EmptyPool /\ mapDeltas = [t \in Tx |-> 0]
  /\ rollingMinimumFeeRate = 0 /\ blockSinceLastRollingFeeBump = FALSE
  /\ chain = <<>> /\ phase = "idle"
  /\ queuedTx = <<>> /\ fAddToMempool = FALSE /\ vHashUpdate = <<>>

Next ==
  \/ \E t \in Tx : AcceptToMemoryPool(t)
  \/ \E t \in Tx : PrioritiseTransaction(t)
  \/ \E b \in Block : ConnectTip(b)
  \/ DisconnectTip
  \/ UpdateMempoolForReorg
  \/ Readd
  \/ Reject
  \/ EndReorg
  \/ Expire
  \/ TrimToSize
  \/ Trimmed
  \/ GetMinFee

Spec == Init /\ [][Next]_vars

-----------------------------------------------------------------------------
(* Properties.                                                             *)

\* No call is under way.
Quiet == phase = "idle"

\* CTxMemPool::check, 738-742 and 820-826: mapNextTx has exactly the inputs of the
\* entries, and so no two entries spend the same outpoint, in the middle of a
\* reorganisation too.
NextTxExact ==
  /\ pool.next = UNION {Inputs[t] \X {t} : t \in pool.tx}
  /\ \A d, e \in pool.next : d[1] = e[1] => d = e

\* CTxMemPool::check, 745 and 782: the links are those the inputs give.
LinksExact ==
  Quiet => \A t \in pool.tx :
    /\ pool.parents[t] = PoolParents(pool, t)
    /\ pool.children[t] = {c \in pool.tx : t \in PoolParents(pool, c)}

\* The indexes of the pool are what its entries make them.
IndexesExact == NextTxExact /\ LinksExact

\* UpdateForRemoveFromMempool, 332-344: also in the middle of a reorganisation "the set
\* of ancestors reachable via mapLinks will be the same as the set of ancestors whose
\* packages include this transaction": the sums of every entry are those of the entries
\* above and below it by the links, with the fee deltas of today.  With LinksExact they
\* are, between calls, the sums CTxMemPool::check computes anew.
PackagesFollowLinks ==
  \A t \in pool.tx :
    /\ pool.fee[t] = Fee[t] + mapDeltas[t]
    /\ pool.anc[t] = SumOf(pool, Ancestors(pool, t) \cup {t})
    /\ pool.desc[t] = SumOf(pool, Descendants(pool, {t}))
    /\ \A u \in pool.tx : t \in pool.children[u] <=> u \in pool.parents[t]

\* CTxMemPool::check, 721-737: every input of an entry is an output of an entry or an
\* unspent coin of the tip, after every reorganisation, whatever came back.
InputsAvailable ==
  Quiet => \A t \in pool.tx : \A o \in Inputs[t] : o[1] \in pool.tx \/ o \in Coins(Confirmed)

\* Every entry could be in the next block: its inputs are there, and none is
\* confirmed already, not final or spends an immature coinbase ("we don't want our
\* mempool filled up with transactions that can't be mined yet").
Minable ==
  /\ InputsAvailable
  /\ Quiet => pool.tx \cap Confirmed = {} /\ \A t \in pool.tx : Final(t) /\ Mature(t)
=============================================================================
