--------------------------- MODULE ChainSelection ---------------------------
(***************************************************************************)
(* The block index and the choice of the active chain: mapBlockIndex,      *)
(* setBlockIndexCandidates, mapBlocksUnlinked, chainActive, and the        *)
(* functions that change them.  Every action is what one thread does under *)
(* one hold of cs_main; ActivateBestChain releases it after every step and *)
(* keeps its target pindexMostWork in a local variable meanwhile.          *)
(*                                                                         *)
(* A flag of nStatus is the set of blocks that have it.  nTx # 0 is        *)
(* `processed`, nChainTx # 0 is `chainTx`.  mapBlocksUnlinked is the set   *)
(* of its second components.  Nothing in this version parks a block, and   *)
(* pindexBestInvalid only feeds warnings: both are left out.  A block that *)
(* fails CheckBlock or the header checks changes nothing and never arrives.*)
(***************************************************************************)
EXTENDS Integers, FiniteSets

CONSTANTS
  Block, Genesis,
  Parent,        \* CBlockIndex::pprev
  Chain,         \* the block itself and all blocks before it
  Work,          \* CBlockIndex::nChainWork
  Addr,          \* the address of the CBlockIndex object
  BadContext,    \* blocks that fail ContextualCheckBlock
  Thread, Null,
  MinBlocksToKeep,  \* MIN_BLOCKS_TO_KEEP
  MinSequenceId,    \* std::numeric_limits<int32_t>::min()
  Worlds         \* what a behaviour may meet, see World

Command == {"invalidate", "reconsider", "precious", "prune", "restart"}

\* The threads at work, the blocks that exist, those of them that fail
\* ConnectBlock, and a bound on the calls of each command.
World == [threads : SUBSET Thread, blocks : SUBSET Block, badConnect : SUBSET Block,
          calls : [Command -> Nat]]

ASSUME TreeAssumption ==
  /\ Genesis \in Block /\ Parent \in [Block \ {Genesis} -> Block]
  /\ Chain[Genesis] = {Genesis}
  /\ \A b \in Block \ {Genesis} :
       /\ Chain[b] = {b} \cup Chain[Parent[b]]
       /\ b \notin Chain[Parent[b]]
       /\ Work[b] > Work[Parent[b]]
  /\ \A b \in Block : Work[b] \in Nat /\ Addr[b] \in Nat /\ IsFiniteSet(Chain[b])
  /\ \A a, b \in Block : Addr[a] = Addr[b] => a = b

ASSUME OtherAssumption ==
  /\ BadContext \subseteq Block \ {Genesis}
  /\ Null \notin Block /\ IsFiniteSet(Thread)
  /\ MinBlocksToKeep \in Nat /\ MinSequenceId \in Int /\ MinSequenceId < 0
  /\ Worlds \subseteq World
  /\ \A w \in Worlds : Genesis \in w.blocks \ w.badConnect

VARIABLES
  index,         \* the blocks of mapBlockIndex
  processed, scripts,        \* validity at least TRANSACTIONS, SCRIPTS
  data, undo, failed, failedParent,
  unsaved,       \* FAILED_PARENT flags set without marking the entry dirty
  chainTx, nSequenceId,
  candidates, unlinked,
  tip, pindexBestHeader,
  nBlockSequenceId, nBlockReverseSequenceId, nLastPreciousChainwork,
  fHavePruned, shutdown,
  pc, pindexMostWork,        \* of every thread
  world, calls

status == <<processed, scripts, data, undo, failed, failedParent, unsaved>>
headers == <<index, pindexBestHeader>>
sequence == <<nSequenceId, nBlockSequenceId, nBlockReverseSequenceId, nLastPreciousChainwork>>
threads == <<pc, pindexMostWork>>
vars == <<status, headers, sequence, threads, chainTx, candidates, unlinked, tip,
          fHavePruned, shutdown, world, calls>>

-----------------------------------------------------------------------------
Height(b) == Cardinality(Chain[b]) - 1

Highest(S) == CHOOSE b \in S : \A o \in S : Height(o) <= Height(b)

Invalid == failed \cup failedParent

\* CBlockIndexWorkComparator: most work, then first received, then address.
Less(seq, a, b) ==
  \/ Work[a] < Work[b]
  \/ Work[a] = Work[b] /\ seq[a] > seq[b]
  \/ Work[a] = Work[b] /\ seq[a] = seq[b] /\ Addr[a] > Addr[b]

Best(seq, S) == CHOOSE b \in S : \A o \in S : ~Less(seq, b, o)

\* PruneBlockIndexCandidates, for the tip b.
PruneBlockIndexCandidates(seq, S, b) == {c \in S : ~Less(seq, c, b)}

\* The loop of FindMostWorkChain: a candidate all of whose blocks up to the
\* active chain are valid and present, and the first block that is not.
Path(c) == Chain[c] \ Chain[tip]


Obstacles(c) == {b \in Path(c) : b \in Invalid \/ b \notin data}
Usable == {c \in candidates : Obstacles(c) = {}}
Obstacle(c) == Highest(Obstacles(c))

Above(c) == {b \in Path(c) : Height(b) > Height(Obstacle(c))}

\* The candidates that FindMostWorkChain discards before it finds a usable one.
Discarded ==
  {c \in candidates \ Usable : \A u \in Usable : Less(nSequenceId, u, c)}

\* The blocks it marks FAILED_PARENT, and those it puts back into
\* mapBlocksUnlinked because only data is missing.
Marked == UNION {Above(c) : c \in {d \in Discarded : Obstacle(d) \in Invalid}}

\* Mutant of Relinked: they are just dropped.
RelinkedNone == {}

Relinked == UNION {Above(c) : c \in {d \in Discarded : Obstacle(d) \notin Invalid}}

\* What FindMostWorkChain returns and leaves behind.  Its FAILED_PARENT flags
\* are not entered into setDirtyBlockIndex.
FindMostWorkChain ==
  [block |-> IF Usable = {} THEN Null ELSE Best(nSequenceId, Usable),
   candidates |-> candidates \ UNION {Above(c) \cup {Obstacle(c)} : c \in Discarded},
   failedParent |-> failedParent \cup Marked,
   unsaved |-> unsaved \cup (Marked \ failedParent),
   unlinked |-> unlinked \cup Relinked]

\* A return to the caller without looking for a better chain.
Unselected == [block |-> Null, candidates |-> candidates, failedParent |-> failedParent,
               unsaved |-> unsaved, unlinked |-> unlinked]

-----------------------------------------------------------------------------
(* Headers and blocks that arrive.                                         *)

\* The checks of AcceptBlockHeader.
HeaderAccepted(b) ==
  IF b \in index THEN b \notin Invalid
                 ELSE Parent[b] \in index /\ Parent[b] \notin Invalid

\* AddToBlockIndex.
AddToBlockIndex(b) ==
  /\ index' = index \cup {b}
  /\ pindexBestHeader' = IF b \notin index /\ Work[pindexBestHeader] < Work[b]
                         THEN b ELSE pindexBestHeader

\* ProcessNewBlockHeaders, header by header.
ProcessNewBlockHeaders(t, b) ==
  /\ pc[t] = "idle" /\ ~shutdown
  /\ b \notin index /\ HeaderAccepted(b)
  /\ AddToBlockIndex(b)
  /\ UNCHANGED <<status, sequence, threads, chainTx, candidates, unlinked, tip,
                 fHavePruned, shutdown, world, calls>>

\* AcceptBlock drops blocks it has, and unrequested ones that were pruned, have
\* no more work than the tip or are too far ahead.
Dropped(b, fRequested) ==
  \/ b \in data
  \/ /\ ~fRequested
     /\ \/ b \in processed
        \/ Work[b] <= Work[tip]
        \/ Height(b) > Height(tip) + MinBlocksToKeep

\* Mutant of Linked: what waited for the block is forgotten.
LinkedAlone(b) == {b}

\* The blocks ReceivedBlockTransactions links: b and what waited for it.
Linked(b) ==
  {d \in {b} \cup unlinked : b \in Chain[d] /\ Chain[d] \ Chain[b] \subseteq unlinked}

\* The orders in which its queue can meet them.
LinkOrders(L) ==
  {f \in [L -> 0 .. Cardinality(L) - 1] :
     \A x, y \in L : /\ f[x] = f[y] => x = y
                     /\ Height(x) < Height(y) => f[x] < f[y]}

\* Mutant of Waiting: nothing waits.
WaitingNever(b) == {}

\* A block without a linked parent waits for it, unless it is known invalid.
Waiting(b) == IF Parent[b] \in Invalid THEN {} ELSE {b}

\* Mark a block as received, and link it if its parent is.
ReceivedBlockTransactions(b) ==
  /\ data' = data \cup {b}
  /\ processed' = processed \cup {b}
  /\ unsaved' = unsaved \ {b}
  /\ IF Parent[b] \in chainTx
     THEN \E f \in LinkOrders(Linked(b)) :
            /\ chainTx' = chainTx \cup Linked(b)
            /\ nSequenceId' = [d \in Block |-> IF d \in Linked(b) THEN nBlockSequenceId + f[d]
                                               ELSE nSequenceId[d]]
            /\ nBlockSequenceId' = nBlockSequenceId + Cardinality(Linked(b))
            /\ candidates' = candidates \cup {d \in Linked(b) : ~Less(nSequenceId', d, tip)}
            /\ unlinked' = unlinked \ (Linked(b) \ {b})
     ELSE /\ chainTx' = chainTx \ {b}
          /\ unlinked' = unlinked \cup Waiting(b)
          /\ UNCHANGED <<nSequenceId, nBlockSequenceId, candidates>>

Activate(t) == pc' = [pc EXCEPT ![t] = "activate"]

\* AcceptBlock and the rest of ProcessNewBlock up to ActivateBestChain.
ProcessNewBlock(t, b, fRequested) ==
  /\ pc[t] = "idle" /\ ~shutdown
  /\ HeaderAccepted(b)
  /\ AddToBlockIndex(b)
  /\ \/ /\ Dropped(b, fRequested)
        /\ Activate(t)
        /\ UNCHANGED <<status, chainTx, nSequenceId, nBlockSequenceId, candidates, unlinked>>
     \/ /\ ~Dropped(b, fRequested) /\ b \in BadContext
        /\ failed' = failed \cup {b}
        /\ unsaved' = unsaved \ {b}
        /\ UNCHANGED <<processed, scripts, data, undo, failedParent, chainTx, nSequenceId,
                       nBlockSequenceId, candidates, unlinked, pc>>
     \/ /\ ~Dropped(b, fRequested) /\ b \notin BadContext
        /\ ReceivedBlockTransactions(b)
        /\ Activate(t)
        /\ UNCHANGED <<scripts, undo, failed, failedParent>>
  /\ UNCHANGED <<nBlockReverseSequenceId, nLastPreciousChainwork, pindexMostWork, tip,
                 fHavePruned, shutdown, world, calls>>

-----------------------------------------------------------------------------
(* ActivateBestChain.                                                      *)

\* ActivateBestChainStep from the candidates sel leaves, towards target: it
\* disconnects to the fork, then connects until a block has more work than the
\* tip it started from or fails.  A block whose data is gone ends the node.
ActivateBestChainStep(sel, target) ==
  LET Missing == (Chain[tip] \ Chain[target]) \ data
      ToConnect == IF Missing = {} THEN Chain[target] \ Chain[tip] ELSE {}
      Bad == {b \in ToConnect : b \in world.badConnect \/ b \notin data}
      Enough == {b \in ToConnect : Work[b] > Work[tip]}
      Connected == {b \in ToConnect : /\ \A x \in Bad : Height(b) < Height(x)
                                      /\ \A x \in Enough : Height(b) <= Height(x)}
      Failing == {b \in Bad : Parent[b] \in Connected \cup Chain[tip] /\ Enough \cap Connected = {}}
      newTip == IF Missing # {} THEN Highest(Missing)
                ELSE Highest((Chain[tip] \cap Chain[target]) \cup Connected)
  IN [tip |-> newTip, connected |-> Connected, invalid |-> Failing \cap data,
      abort |-> Missing # {} \/ ~(Failing \subseteq data),
      candidates |-> (IF Connected = {} THEN sel
                      ELSE PruneBlockIndexCandidates(nSequenceId, sel, newTip))
                     \ (Failing \cap data)]

\* Mutant of RaiseValidity: only the new tip is raised.
RaiseValidityTip(S, bad) == {b \in S : b = Highest(S)} \ bad

\* CBlockIndex::RaiseValidity, to SCRIPTS, of the blocks connected.
RaiseValidity(S, bad) == S \ bad

\* pindexMostWork of this iteration.
Target(t) ==
  IF pindexMostWork[t] = Null THEN FindMostWorkChain
  ELSE [Unselected EXCEPT !.block = pindexMostWork[t]]

\* The iteration ends the call: there is no better chain.
NothingToDo(t, sel) ==
  /\ sel.block \in {Null, tip}
  /\ pc' = [pc EXCEPT ![t] = "idle"]
  /\ pindexMostWork' = [pindexMostWork EXCEPT ![t] = Null]
  /\ candidates' = sel.candidates
  /\ unsaved' = sel.unsaved
  /\ UNCHANGED <<tip, scripts, undo, failed, shutdown>>

\* The iteration made a step: the call goes on until the target is the tip, and
\* looks for a new target after an invalid block.
MakeStep(t, sel, step) ==
  LET again == ~step.abort /\ (step.invalid # {} \/ step.tip # sel.block)
  IN /\ pc' = [pc EXCEPT ![t] = IF again THEN "activate" ELSE "idle"]
     /\ pindexMostWork' = [pindexMostWork EXCEPT ![t] =
                             IF again /\ step.invalid = {} THEN sel.block ELSE Null]
     /\ tip' = step.tip
     /\ candidates' = step.candidates
     /\ undo' = undo \cup step.connected
     /\ scripts' = scripts \cup RaiseValidity(step.connected, failed \cup sel.failedParent)
     /\ failed' = failed \cup step.invalid
     /\ unsaved' = sel.unsaved \ (step.invalid \cup step.connected)
     /\ shutdown' = step.abort

\* One iteration of the loop of ActivateBestChain.
ActivateBestChain(t) ==
  /\ pc[t] = "activate" /\ ~shutdown
  /\ \E sel \in {Target(t)} :
       /\ failedParent' = sel.failedParent
       /\ unlinked' = sel.unlinked
       /\ \/ NothingToDo(t, sel)
          \/ /\ sel.block \notin {Null, tip}
             /\ \E step \in {ActivateBestChainStep(sel.candidates, sel.block)} :
                  MakeStep(t, sel, step)
  /\ UNCHANGED <<processed, data, headers, sequence, chainTx, fHavePruned, world,
                 calls>>

-----------------------------------------------------------------------------
(* Commands of the operator, pruning and restarts.                         *)

Call(t, c) ==
  /\ pc[t] = "idle" /\ ~shutdown
  /\ calls[c] < world.calls[c]
  /\ calls' = [calls EXCEPT ![c] = @ + 1]
  /\ UNCHANGED world

\* Mutant of Revived: only the new tip is put back.
RevivedTip(b, bad) == {b}

\* The candidates InvalidateBlock adds when the tip has become b.
Revived(b, bad) ==
  {i \in (processed \cap chainTx) \ bad : ~Less(nSequenceId, i, b)}

\* invalidateblock: InvalidateBlock, then ActivateBestChain.  Failing to read a
\* block it has to disconnect ends the node.
InvalidateBlock(t, b) ==
  LET Doomed == {x \in Chain[tip] : b \in Chain[x]}
      Missing == Doomed \ data
      Walked == IF Missing = {} THEN Doomed
                ELSE {x \in Doomed : Height(x) >= Height(Highest(Missing))}
      newTip == IF Doomed = {} THEN tip
                ELSE IF Missing = {} THEN Parent[b] ELSE Highest(Missing)
      left == candidates \ (Walked \cup {b})
  IN /\ Call(t, "invalidate") /\ b \in index
     /\ failed' = failed \cup {b}
     /\ failedParent' = failedParent \cup Walked
     /\ unsaved' = unsaved \ (Walked \cup {b})
     /\ tip' = newTip
     /\ IF Missing = {}
        THEN /\ candidates' = left \cup Revived(newTip, failed' \cup failedParent')
             /\ Activate(t)
             /\ UNCHANGED shutdown
        ELSE /\ candidates' = left
             /\ shutdown' = TRUE
             /\ UNCHANGED pc
     /\ UNCHANGED <<processed, scripts, data, undo, headers, sequence, pindexMostWork,
                    chainTx, unlinked, fHavePruned>>

\* reconsiderblock: ResetBlockFailureFlags, then ActivateBestChain.
ReconsiderBlock(t, b) ==
  LET Cleared == {x \in index : b \in Chain[x] /\ (x \in Invalid \/ x \notin processed)}
      Clean == Cleared \cup Chain[b]
  IN /\ Call(t, "reconsider") /\ b \in index
     /\ failed' = failed \ Clean
     /\ failedParent' = failedParent \ Clean
     /\ unsaved' = unsaved \ Clean
     /\ candidates' = candidates \cup
                        {x \in Cleared \cap processed \cap chainTx : Less(nSequenceId, tip, x)}
     /\ Activate(t)
     /\ UNCHANGED <<processed, scripts, data, undo, headers, sequence, pindexMostWork,
                    chainTx, unlinked, tip, fHavePruned, shutdown>>


\* nBlockReverseSequenceId starts over when the chain has grown.
ReverseSequenceId ==
  IF Work[tip] > nLastPreciousChainwork THEN -1 ELSE nBlockReverseSequenceId

\* preciousblock.
PreciousBlock(t, b) ==
  LET reverse == ReverseSequenceId
      seq == [nSequenceId EXCEPT ![b] = reverse]
  IN /\ Call(t, "precious") /\ b \in index
     /\ IF Work[b] < Work[tip]
        THEN UNCHANGED <<sequence, candidates, pc>>
        ELSE /\ nLastPreciousChainwork' = Work[tip]
             /\ nSequenceId' = seq
             /\ nBlockReverseSequenceId' = IF reverse > MinSequenceId THEN reverse - 1 ELSE reverse
             /\ candidates' = IF b \in (processed \cap chainTx) \ Invalid
                              THEN PruneBlockIndexCandidates(seq, candidates \cup {b}, tip)
                              ELSE candidates \ {b}
             /\ Activate(t)
             /\ UNCHANGED nBlockSequenceId
     /\ UNCHANGED <<status, headers, pindexMostWork, chainTx, unlinked, tip, fHavePruned,
                    shutdown>>

\* PruneOneBlockFile, of a file that holds one block and that FindFilesToPrune
\* may choose.
PruneOneBlockFile(t, b) ==
  /\ Call(t, "prune")
  /\ b \in data /\ Height(b) <= Height(tip) - MinBlocksToKeep
  /\ data' = data \ {b}
  /\ undo' = undo \ {b}
  /\ unsaved' = unsaved \ {b}
  /\ unlinked' = unlinked \ {b}
  /\ fHavePruned' = TRUE
  /\ UNCHANGED <<processed, scripts, failed, failedParent, headers, sequence, threads, chainTx,
                 candidates, tip, shutdown>>

\* A clean shutdown, which writes every dirty entry, and the next start:
\* LoadBlockIndexDB, LoadChainTip, and ActivateBestChain in ThreadImport.
Restart(t) ==
  /\ calls["restart"] < world.calls["restart"]
  /\ calls' = [calls EXCEPT !["restart"] = @ + 1]
  /\ \E lost \in SUBSET unsaved : failedParent' = failedParent \ lost
  /\ unsaved' = {}
  /\ nSequenceId' = [b \in Block |-> 0]
  /\ nBlockSequenceId' = 1 /\ nBlockReverseSequenceId' = -1 /\ nLastPreciousChainwork' = 0
  /\ chainTx' = {b \in processed : Chain[b] \subseteq processed}
  /\ unlinked' = {b \in processed \ {Genesis} : Parent[b] \notin chainTx'}
  /\ candidates' = PruneBlockIndexCandidates(nSequenceId', chainTx' \ (failed \cup failedParent'), tip)
  /\ pindexBestHeader' = Best(nSequenceId', index \ (failed \cup failedParent'))
  /\ shutdown' = FALSE
  /\ pc' = [u \in Thread |-> IF u = t THEN "activate" ELSE "idle"]
  /\ pindexMostWork' = [u \in Thread |-> Null]
  /\ UNCHANGED <<processed, scripts, data, undo, failed, index, tip, fHavePruned, world>>

-----------------------------------------------------------------------------
\* The genesis block has been stored and connected.
Init ==
  /\ index = {Genesis} /\ processed = {Genesis} /\ data = {Genesis} /\ chainTx = {Genesis}
  /\ scripts = {} /\ undo = {}
  /\ failed = {} /\ failedParent = {} /\ unsaved = {}
  /\ nSequenceId = [b \in Block |-> IF b = Genesis THEN 1 ELSE 0]
  /\ nBlockSequenceId = 2 /\ nBlockReverseSequenceId = -1 /\ nLastPreciousChainwork = 0
  /\ candidates = {Genesis} /\ unlinked = {}
  /\ tip = Genesis /\ pindexBestHeader = Genesis
  /\ fHavePruned = FALSE /\ shutdown = FALSE
  /\ pc = [t \in Thread |-> "idle"] /\ pindexMostWork = [t \in Thread |-> Null]
  /\ world \in Worlds /\ calls = [c \in Command |-> 0]

Next ==
  \E t \in world.threads :
    \/ ActivateBestChain(t)
    \/ Restart(t)
    \/ \E b \in world.blocks \ {Genesis} :
         \/ ProcessNewBlockHeaders(t, b)
         \/ \E fRequested \in BOOLEAN : ProcessNewBlock(t, b, fRequested)
         \/ InvalidateBlock(t, b)
         \/ ReconsiderBlock(t, b)
    \/ \E b \in world.blocks : PreciousBlock(t, b) \/ PruneOneBlockFile(t, b)

Spec == Init /\ [][Next]_vars

\* An iteration of ActivateBestChain that would leave everything as it is.
Spins(t) ==
  \E sel \in {Target(t)} :
    /\ sel.block \notin {Null, tip} /\ pindexMostWork[t] = Null
    /\ sel.failedParent = failedParent /\ sel.unlinked = unlinked
    /\ \E step \in {ActivateBestChainStep(sel.candidates, sel.block)} :
         /\ step.tip = tip /\ step.candidates = candidates
         /\ ~step.abort /\ step.invalid # {} /\ step.invalid \subseteq failed

\* A thread in ActivateBestChain keeps going: weak fairness of its action,
\* written out.
FairSpec ==
  /\ Spec
  /\ \A t \in Thread :
       \/ []<>(pc[t] # "activate" \/ shutdown \/ Spins(t))
       \/ []<><<ActivateBestChain(t)>>_vars

-----------------------------------------------------------------------------
(* Properties.                                                             *)

\* Every variable has its type; all sets of blocks lie in mapBlockIndex.
TypeOK ==
  /\ index \subseteq Block
  /\ \A S \in {processed, scripts, data, undo, failed, failedParent, unsaved, chainTx,
               candidates, unlinked} : S \subseteq index
  /\ tip \in index /\ pindexBestHeader \in index
  /\ nSequenceId \in [Block -> Int]
  /\ nBlockSequenceId \in Nat /\ nBlockReverseSequenceId \in Int /\ nLastPreciousChainwork \in Nat
  /\ fHavePruned \in BOOLEAN /\ shutdown \in BOOLEAN
  /\ pc \in [Thread -> {"idle", "activate"}]
  /\ pindexMostWork \in [Thread -> Block \cup {Null}]
  /\ world \in Worlds /\ calls \in [Command -> Nat]

\* No call is in progress: CheckBlockIndex has just run or could run.
Quiet == ~shutdown /\ \A t \in Thread : pc[t] = "idle"

\* CheckBlockIndex, 5186-5195: "nChainTx != 0 is used to signal that all parent
\* blocks have been processed (but may have been pruned)."
ChainTxExact == \A b \in index : b \in chainTx <=> Chain[b] \subseteq processed

\* It is so as long as the operator invalidates no block and no block is pruned
\* (both take blocks out of mapBlocksUnlinked, or keep them out, for good).
ChainTxExactUntouched == calls["invalidate"] = 0 /\ ~fHavePruned => ChainTxExact

\* One thread at a time calls ActivateBestChain.
Alone == Cardinality(world.threads) = 1

\* Histories without the commands that take candidates or sequence numbers away
\* from blocks that may become active later: reconsiderblock, which does not see to
\* the ancestors it clears, and invalidateblock together with preciousblock
\* (whose numbers start over) or with pruning (which can stop it half-way).
Undisturbed ==
  /\ calls["reconsider"] = 0
  /\ calls["invalidate"] = 0 \/ (calls["precious"] = 0 /\ ~fHavePruned)

\* CheckBlockIndex, 5228-5238: a block that sorts at least as good as the tip,
\* with every ancestor received and none failed, is a candidate, unless data is
\* missing; the tip always is.
CandidatesComplete ==
  Quiet => \A b \in index :
    (/\ ~Less(nSequenceId, b, tip)
     /\ Chain[b] \subseteq processed /\ Chain[b] \cap failed = {}
     /\ Chain[b] \subseteq data \/ b = tip)
    => b \in candidates

\* CheckBlockIndex, 5244-5249: a block that sorts worse than the tip or has an
\* ancestor never received is no candidate.
CandidatesSound ==
  Quiet => \A b \in candidates : ~Less(nSequenceId, b, tip) /\ Chain[b] \subseteq processed

\* PruneBlockIndexCandidates asserts that the set is not empty, at every step of
\* ActivateBestChain.
HasCandidate == ~shutdown => candidates # {}

\* What CheckBlockIndex asserts of setBlockIndexCandidates, in both directions,
\* as long as one thread at a time calls ActivateBestChain: with two, the one
\* that keeps an old target leaves a tip worse than blocks already pruned away.
\* The set is not empty with any number of threads, if they only bring blocks.
CandidatesExact ==
  Undisturbed =>
    /\ Alone \/ (calls["invalidate"] + calls["precious"] = 0 /\ ~fHavePruned) => HasCandidate
    /\ Alone => CandidatesComplete /\ CandidatesSound

\* CheckBlockIndex, 5263-5270: a received block that waits for an ancestor, and
\* has no failed one, is in mapBlocksUnlinked, so it will be linked, as long as
\* the operator neither marks blocks nor clears their marks (a block received
\* below a marked one is not entered, and not entered later either).
WaitingIsUnlinked ==
  calls["invalidate"] = 0 /\ calls["reconsider"] = 0 =>
    \A b \in data : (~(Chain[b] \subseteq processed) /\ Chain[b] \cap failed = {}) => b \in unlinked

\* CheckBlockIndex, 5280-5302: a block as good as the tip that lacks the data
\* of an ancestor is a candidate or waits in mapBlocksUnlinked.
MissingIsRemembered ==
  Quiet /\ Alone /\ Undisturbed => \A b \in data :
    (/\ ~Less(nSequenceId, b, tip)
     /\ Chain[b] \subseteq processed /\ ~(Chain[b] \subseteq data)
     /\ Chain[b] \cap failed = {})
    => fHavePruned /\ (b \in candidates \/ b \in unlinked)

\* No received block is lost: whatever it lacks, its arrival finds the block in
\* mapBlocksUnlinked or among the candidates.
WaitingIsRemembered == WaitingIsUnlinked /\ MissingIsRemembered

\* Histories in which no mark falls on a block that is being connected or cannot
\* be disconnected: the operator invalidates no block, or invalidates with no other
\* thread in ActivateBestChain and with every block still on disk.
MarksInTime == calls["invalidate"] = 0 \/ (Alone /\ ~fHavePruned)

\* Every block of the active chain passed ConnectBlock and is not marked invalid.
ActiveChainValid ==
  MarksInTime => Chain[tip] \cap Invalid = {} /\ Chain[tip] \ {Genesis} \subseteq scripts

\* ActivateBestChain did what it is for: no block sorts better than the tip if
\* it and all blocks up to the active chain are present and not known invalid.
MostWorkActive ==
  Quiet => \A b \in index :
    (/\ Path(b) \subseteq data /\ Chain[b] \subseteq processed
     /\ Chain[b] \cap Invalid = {})
    => ~Less(nSequenceId, tip, b)

\* It is so as long as one thread at a time calls ActivateBestChain.
MostWorkActiveAlone == Undisturbed /\ Alone => MostWorkActive


\* validation.h, 691-697: successive calls to PreciousBlock override the
\* effects of earlier ones: the block sorts before a tip of its work, unless the
\* counter is exhausted.
OverridesTip ==
  \A b \in (processed \cap chainTx) \ (Invalid \cup {tip}) : \A t \in Thread :
    (PreciousBlock(t, b) /\ Work[b] = Work[tip] /\ nSequenceId'[b] > MinSequenceId)
      => Less(nSequenceId', tip, b)

=============================================================================
