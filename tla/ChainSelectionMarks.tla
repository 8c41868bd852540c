------------------------ MODULE ChainSelectionMarks ------------------------
EXTENDS ChainSelectionFacts

(***************************************************************************)
(* The second and the third layer of the inductive invariant of             *)
(* ChainSelection: the marks of failed blocks, which make the active chain  *)
(* valid, and the links between blocks, which make nChainTx and             *)
(* mapBlocksUnlinked exact.                                                 *)
(***************************************************************************)

-----------------------------------------------------------------------------
(* Marks: the active chain is valid.                                       *)

\* Blocks that fail a check whoever looks at them.
Wrong == world.badConnect \cup BadContext

\* Until invalidateblock is called a mark means that something below is wrong, and
\* the target a thread keeps has no marked block ahead of the tip.
Marks ==
  /\ ActiveChainValid
  /\ ~Invalidated => \A y \in Invalid : Chain[y] \cap Wrong # {}
  /\ Alone /\ ~fHavePruned =>
       \A t \in Thread : pindexMostWork[t] # Null =>
         (Chain[pindexMostWork[t]] \ Chain[tip]) \cap Invalid = {}

\* A step that leaves the active chain alone and marks no block.
LEMMA MarksShrink ==
  ASSUME Marks, tip' = tip, scripts' = scripts, failed' \subseteq failed,
         failedParent' \subseteq failedParent, world' = world,
         calls'["invalidate"] = calls["invalidate"], fHavePruned => fHavePruned',
         \A u \in Thread : pindexMostWork'[u] = pindexMostWork[u] \/ pindexMostWork'[u] = Null
  PROVE  Marks'
<1>1. Invalid' \subseteq Invalid
  BY DEF Invalid
<1>2. ActiveChainValid'
  BY <1>1 DEF Marks, ActiveChainValid, MarksInTime, Alone
<1>3. (~Invalidated => \A y \in Invalid : Chain[y] \cap Wrong # {})'
  BY <1>1 DEF Marks, Invalidated, Wrong
<1>4. (Alone /\ ~fHavePruned =>
         \A t \in Thread : pindexMostWork[t] # Null =>
           (Chain[pindexMostWork[t]] \ Chain[tip]) \cap Invalid = {})'
  <2> SUFFICES ASSUME Alone, ~fHavePruned, NEW u \in Thread, pindexMostWork'[u] # Null
               PROVE  (Chain[pindexMostWork'[u]] \ Chain[tip]) \cap Invalid' = {}
    BY DEF Alone
  <2>1. (Chain[pindexMostWork[u]] \ Chain[tip]) \cap Invalid = {} /\ pindexMostWork'[u] = pindexMostWork[u]
    BY DEF Marks
  <2> QED
    BY <2>1, <1>1
<1> QED
  BY <1>2, <1>3, <1>4 DEF Marks

\* An iteration of ActivateBestChain connects no block that is marked, and none
\* that it marks itself.
LEMMA MarksActivate ==
  ASSUME Base, Busy, Marks, NEW t \in world.threads, ActivateBestChain(t)
  PROVE  Marks'
<1> DEFINE sel == Target(t)
           marks == failed \cup sel.failedParent
<1>0. sel = Target(t) /\ t \in Thread
  BY WorldFacts
<1>m. marks = failed \cup sel.failedParent
  OBVIOUS
<1> HIDE DEF sel, marks
<1>1. /\ failedParent' = sel.failedParent
      /\ UNCHANGED <<processed, data, fHavePruned, world, calls>>
      /\ Ends(t, sel) \/ \E step, again : Steps(t, sel, step, again)
  BY <1>0, ActivateCases
<1>2. /\ sel.block # Null => Received(sel.block)
      /\ failedParent \subseteq sel.failedParent
      /\ \A y \in sel.failedParent \ failedParent :
           /\ Received(y) /\ y \notin Chain[tip]
           /\ \E o \in Chain[y] : o \in Invalid /\ o \notin Chain[tip]
      /\ pindexMostWork[t] # Null =>
           sel.block = pindexMostWork[t] /\ sel.failedParent = failedParent
      /\ pindexMostWork[t] = Null => sel = FindMostWorkChain
  BY <1>0, TargetFacts, Zenon
<1>3. /\ tip \in Block /\ data \subseteq processed /\ processed \subseteq Block
      /\ processed \cap BadContext = {}
      /\ Chain[tip] \subseteq processed /\ Chain[tip] \cap world.badConnect = {}
      /\ failed \subseteq Block /\ failedParent \subseteq Block
      /\ pindexMostWork \in [Thread -> Block \cup {Null}]
  BY DEF Base, Shape, Links, Received
<1>4. ~Invalidated => \A y \in marks : Chain[y] \cap Wrong # {}
  <2> SUFFICES ASSUME ~Invalidated, NEW y \in marks
               PROVE  Chain[y] \cap Wrong # {}
    OBVIOUS
  <2>1. CASE y \in Invalid
    BY <2>1 DEF Marks
  <2>2. CASE y \notin Invalid
    <3>1. y \in sel.failedParent \ failedParent
      BY <2>2, <1>m DEF Invalid
    <3>2. PICK o \in Chain[y] : o \in Invalid
      BY <3>1, <1>2
    <3>3. Chain[o] \cap Wrong # {} /\ y \in Block
      BY <3>1, <3>2, <1>2 DEF Marks, Received
    <3> QED
      BY <3>2, <3>3, ChainTransitive
  <2> QED
    BY <2>1, <2>2
<1>5. marks \cap Chain[tip] \subseteq Invalid
  BY <1>2, <1>m DEF Invalid
<1>6. ASSUME Alone, ~fHavePruned, sel.block # Null
      PROVE  (Chain[sel.block] \ Chain[tip]) \cap marks = {}
  <2>1. CASE pindexMostWork[t] # Null
    <3>1. (Chain[sel.block] \ Chain[tip]) \cap Invalid = {} /\ marks = Invalid
      BY <2>1, <1>0, <1>2, <1>6, <1>m DEF Marks, Invalid
    <3> QED
      BY <3>1
  <2>2. CASE pindexMostWork[t] = Null
    <3>1. Obstacles(sel.block) = {} /\ sel.block \in Block
      BY <2>2, <1>2, <1>6, SelectFacts DEF Received
    <3>2. (Chain[sel.block] \ Chain[tip]) \cap Invalid = {}
      BY <3>1 DEF Obstacles, Path
    <3> SUFFICES ASSUME NEW y \in Chain[sel.block] \ Chain[tip], y \in marks
                 PROVE  FALSE
      BY Zenon
    <3>3. y \in sel.failedParent \ failedParent
      BY <3>2, <1>m DEF Invalid
    <3>4. PICK o \in Chain[y] : o \in Invalid /\ o \notin Chain[tip]
      BY <3>3, <1>2
    <3>5. o \in Chain[sel.block]
      BY <3>1, <3>4, ChainTransitive
    <3> QED
      BY <3>2, <3>4, <3>5
  <2> QED
    BY <2>1, <2>2
<1>7. \A u \in Thread \ {t} : Alone => pindexMostWork[u] = Null
  BY AloneOthers
<1> DEFINE After ==
             /\ MarksInTime => Chain[tip'] \cap (failed' \cup marks) = {}
                               /\ Chain[tip'] \ {Genesis} \subseteq scripts'
             /\ ~Invalidated => \A y \in failed' \cup marks : Chain[y] \cap Wrong # {}
             /\ Alone /\ ~fHavePruned => \A u \in Thread : pindexMostWork'[u] # Null =>
                  (Chain[pindexMostWork'[u]] \ Chain[tip']) \cap (failed' \cup marks) = {}
<1>8. ASSUME Ends(t, sel)
      PROVE  After
  <2>1. /\ pindexMostWork' = [pindexMostWork EXCEPT ![t] = Null]
        /\ tip' = tip /\ scripts' = scripts /\ failed' = failed
    BY <1>8 DEF Ends
  <2>2. failed' \cup marks = marks
    BY <2>1, <1>m
  <2>3. \A u \in Thread : pindexMostWork'[u] = Null \/ ~Alone
    BY <2>1, <1>3, <1>7
  <2>4. MarksInTime => Chain[tip] \cap Invalid = {} /\ Chain[tip] \ {Genesis} \subseteq scripts
    BY DEF Marks, ActiveChainValid
  <2> QED
    BY <2>1, <2>2, <2>3, <2>4, <1>4, <1>5
<1>9. ASSUME NEW step, NEW again, Steps(t, sel, step, again)
      PROVE  After
  <2>0. /\ sel.block \notin {Null, tip} /\ sel.block \in Block
        /\ step = ActivateBestChainStep(sel.candidates, sel.block)
        /\ again = (~step.abort /\ (step.invalid # {} \/ step.tip # sel.block))
        /\ pindexMostWork' = [pindexMostWork EXCEPT ![t] =
                                IF again /\ step.invalid = {} THEN sel.block ELSE Null]
        /\ tip' = step.tip
        /\ scripts' = scripts \cup (step.connected \ marks)
        /\ failed' = failed \cup step.invalid
    BY <1>9, <1>m, ZenonT(40) DEF Steps
  <2>1. /\ step.connected \subseteq ((Chain[sel.block] \ Chain[tip]) \cap data) \ world.badConnect
        /\ step.invalid \subseteq (Chain[sel.block] \ Chain[tip]) \cap data \cap world.badConnect
        /\ \A y \in step.connected : Chain[y] \subseteq Chain[tip] \cup step.connected
        /\ Chain[step.tip] \subseteq Chain[tip] \cup step.connected
        /\ ~step.abort => Chain[tip] \cap Chain[sel.block] \subseteq Chain[step.tip]
    BY <2>0, <1>3, StepFacts
  <2>2. MarksInTime => step.connected \cap marks = {}
    <3>1. CASE Invalidated
      BY <3>1, <1>6, <2>0, <2>1 DEF MarksInTime, Invalidated
    <3>2. CASE ~Invalidated
      <4> SUFFICES ASSUME NEW y \in step.connected, y \in marks
                   PROVE  FALSE
        OBVIOUS
      <4>1. PICK x \in Chain[y] : x \in Wrong
        BY <3>2, <1>4
      <4>2. x \in Chain[tip] \cup step.connected
        BY <4>1, <2>1
      <4> QED
        BY <4>1, <4>2, <2>1, <1>3 DEF Wrong
    <3> QED
      BY ZenonT(40), <3>1, <3>2
  <2>3. failed' \cup marks = marks \cup step.invalid
    BY <2>0, <1>m
  <2>4. MarksInTime => Chain[tip] \cap Invalid = {} /\ Chain[tip] \ {Genesis} \subseteq scripts
    BY DEF Marks, ActiveChainValid
  <2>5. MarksInTime => Chain[tip'] \cap (failed' \cup marks) = {}
    BY ZenonT(40), <2>0, <2>1, <2>2, <2>3, <2>4, <1>5
  <2>6. MarksInTime => Chain[tip'] \ {Genesis} \subseteq scripts'
    BY <2>0, <2>1, <2>2, <2>4
  <2>7. ~Invalidated => \A y \in failed' \cup marks : Chain[y] \cap Wrong # {}
    <3>1. \A y \in step.invalid : y \in Chain[y] /\ y \in Wrong
      BY ZenonT(40), <2>1, <1>3, ChainHolds DEF Wrong
    <3> QED
      BY <3>1, <2>3, <1>4
  <2>8. ASSUME Alone, ~fHavePruned, NEW u \in Thread, pindexMostWork'[u] # Null
        PROVE  (Chain[pindexMostWork'[u]] \ Chain[tip']) \cap (failed' \cup marks) = {}
    <3>1. u = t
      BY <2>8, <2>0, <1>3, <1>7
    <3>2. pindexMostWork'[u] = sel.block /\ ~step.abort /\ step.invalid = {}
      BY ZenonT(40), <3>1, <2>8, <2>0, <1>0, <1>3
    <3>3. (Chain[sel.block] \ Chain[tip]) \cap marks = {}
      BY <2>8, <2>0, <1>6
    <3> QED
      BY ZenonT(40), <3>2, <3>3, <2>0, <2>1, <2>3
  <2> QED
    BY <2>5, <2>6, <2>7, <2>8
<1>10. After
  <2> HIDE DEF After
  <2> QED
    BY <1>1, <1>8, <1>9
<1>11. Invalid' = failed' \cup marks
  <2>1. failed \subseteq failed'
    <3>1. Ends(t, sel) => failed' = failed
      BY DEF Ends
    <3>2. ASSUME NEW step, NEW again, Steps(t, sel, step, again)
          PROVE  failed' = failed \cup step.invalid
      BY <3>2, ZenonT(40) DEF Steps
    <3> QED
      BY <3>1, <3>2, <1>1
  <2> QED
    BY <2>1, <1>1, <1>m DEF Invalid
<1>12. /\ Alone' = Alone /\ MarksInTime' = MarksInTime /\ Invalidated' = Invalidated
       /\ Wrong' = Wrong /\ fHavePruned' = fHavePruned
  BY <1>1 DEF Alone, MarksInTime, Invalidated, Wrong
<1> QED
  BY <1>10, <1>11, <1>12 DEF Marks, ActiveChainValid

\* The arrival of a block.
LEMMA MarksProcess ==
  ASSUME Base, Busy, Marks, NEW t \in world.threads, NEW b \in Block \ {Genesis},
         NEW fRequested, ProcessNewBlock(t, b, fRequested)
  PROVE  Marks'
<1>1. /\ UNCHANGED <<failedParent, scripts, tip, pindexMostWork, fHavePruned, world, calls>>
      /\ pc[t] = "idle"
  BY DEF ProcessNewBlock, status
<1>2. failed' = failed \/ (failed' = failed \cup {b} /\ b \in BadContext)
  BY DEF ProcessNewBlock, status
<1>3. CASE failed' = failed
  BY ZenonT(40), <1>1, <1>3, MarksShrink
<1>4. CASE failed' = failed \cup {b} /\ b \in BadContext
  <2>1. b \notin Chain[tip] /\ b \in Chain[b] /\ b \in Wrong
    BY <1>4, ChainHolds DEF Base, Shape, Links, Received, Wrong
  <2>2. Invalid' = Invalid \cup {b}
    BY <1>1, <1>4 DEF Invalid
  <2>3. ActiveChainValid'
    BY <1>1, <2>1, <2>2 DEF Marks, ActiveChainValid, MarksInTime, Alone
  <2>4. (~Invalidated => \A y \in Invalid : Chain[y] \cap Wrong # {})'
    BY ZenonT(40), <1>1, <2>1, <2>2 DEF Marks, Invalidated, Wrong
  <2>5. Alone' => \A u \in Thread : pindexMostWork'[u] = Null
    BY <1>1, AloneIdle DEF Alone
  <2> QED
    BY <2>3, <2>4, <2>5 DEF Marks
<1> QED
  BY ZenonT(40), <1>2, <1>3, <1>4

\* InvalidateBlock marks a block of the active chain only where it takes it off.
LEMMA MarksInvalidate ==
  ASSUME Base, Busy, Marks, NEW t \in world.threads, NEW b \in Block \ {Genesis},
         InvalidateBlock(t, b)
  PROVE  Marks'
<1>0. t \in Thread
  BY WorldFacts
<1>1. /\ pc[t] = "idle" /\ calls' = [calls EXCEPT !["invalidate"] = @ + 1]
      /\ failed' = failed \cup {b} /\ failedParent \subseteq failedParent'
      /\ \A y \in failedParent' \ failedParent : b \in Chain[y] /\ y \in Chain[tip]
      /\ tip' \in Chain[tip]
      /\ ~fHavePruned => b \notin Chain[tip']
      /\ UNCHANGED <<scripts, pindexMostWork, fHavePruned, world>>
  BY <1>0, InvalidateFacts, ZenonT(40)
<1>2. tip \in Block /\ calls \in [Command -> Nat]
  BY DEF Base, Shape, Links, Received
<1>3. Chain[tip'] \subseteq Chain[tip] /\ tip' \in Block
  BY <1>1, <1>2, ChainTransitive, ChainHolds
<1>4. Invalidated'
  BY <1>1, <1>2 DEF Invalidated, Command
<1>5. MarksInTime' => Alone /\ ~fHavePruned /\ MarksInTime
  BY <1>1, <1>4 DEF MarksInTime, Invalidated, Alone
<1>6. ActiveChainValid'
  <2> SUFFICES ASSUME MarksInTime'
               PROVE  Chain[tip'] \cap Invalid' = {} /\ Chain[tip'] \ {Genesis} \subseteq scripts'
    BY DEF ActiveChainValid
  <2>1. Chain[tip] \cap Invalid = {} /\ Chain[tip] \ {Genesis} \subseteq scripts
    BY <1>5 DEF Marks, ActiveChainValid
  <2>2. \A y \in Chain[tip'] : b \notin Chain[y]
    BY <1>1, <1>3, <1>5, ChainTransitive
  <2>3. b \in Chain[b]
    BY ChainHolds
  <2> QED
    BY <2>1, <2>2, <2>3, <1>1, <1>3 DEF Invalid
<1>7. Alone' => \A u \in Thread : pindexMostWork'[u] = Null
  BY <1>1, AloneIdle DEF Alone
<1> QED
  BY <1>4, <1>6, <1>7 DEF Marks

\* Every step.
LEMMA MarksNext ==
  Base /\ Busy /\ Marks /\ [Next]_vars => Marks'
<1> SUFFICES ASSUME Base, Busy, Marks, [Next]_vars
             PROVE  Marks'
  OBVIOUS
<1>1. CASE UNCHANGED vars
  BY <1>1, MarksShrink DEF vars, status, threads
<1>2. CASE Next
  <2>1. PICK t \in world.threads :
           \/ ActivateBestChain(t)
           \/ Restart(t)
           \/ \E b \in Block \ {Genesis} :
                \/ ProcessNewBlockHeaders(t, b)
                \/ \E fRequested \in BOOLEAN : ProcessNewBlock(t, b, fRequested)
                \/ InvalidateBlock(t, b)
                \/ ReconsiderBlock(t, b)
           \/ \E b \in Block : PreciousBlock(t, b) \/ PruneOneBlockFile(t, b)
    BY <1>2, NextCases, ZenonT(40)
  <2>2. t \in Thread /\ calls \in [Command -> Nat]
    BY WorldFacts DEF Base, Shape
  <2>3. CASE ActivateBestChain(t)
    BY <2>3, MarksActivate
  <2>4. CASE Restart(t)
    <3>1. /\ calls' = [calls EXCEPT !["restart"] = @ + 1]
          /\ failedParent' \subseteq failedParent
          /\ pindexMostWork' = [u \in Thread |-> Null]
          /\ UNCHANGED <<scripts, failed, tip, fHavePruned, world>>
      BY <2>2, <2>4, RestartFacts, ZenonT(40)
    <3>2. calls'["invalidate"] = calls["invalidate"]
      BY <3>1, <2>2 DEF Command
    <3> QED
      BY <3>1, <3>2, MarksShrink
  <2>5. ASSUME NEW b \in Block \ {Genesis}, ProcessNewBlockHeaders(t, b)
        PROVE  Marks'
    <3>1. UNCHANGED <<scripts, failed, failedParent, tip, fHavePruned, world, calls, pindexMostWork>>
      BY <2>5 DEF ProcessNewBlockHeaders, status, threads
    <3> QED
      BY <3>1, MarksShrink
  <2>6. ASSUME NEW b \in Block \ {Genesis}, NEW fRequested \in BOOLEAN,
               ProcessNewBlock(t, b, fRequested)
        PROVE  Marks'
    BY <2>6, MarksProcess
  <2>7. ASSUME NEW b \in Block \ {Genesis}, InvalidateBlock(t, b)
        PROVE  Marks'
    BY <2>7, MarksInvalidate
  <2>8. ASSUME NEW b \in Block \ {Genesis}, ReconsiderBlock(t, b)
        PROVE  Marks'
    <3>1. /\ calls' = [calls EXCEPT !["reconsider"] = @ + 1]
          /\ failed' \subseteq failed /\ failedParent' \subseteq failedParent
          /\ UNCHANGED <<scripts, tip, fHavePruned, world, pindexMostWork>>
      BY <2>8 DEF ReconsiderBlock, Call
    <3>2. calls'["invalidate"] = calls["invalidate"]
      BY <3>1, <2>2 DEF Command
    <3> QED
      BY ZenonT(40), <3>1, <3>2, MarksShrink
  <2>9. ASSUME NEW b \in Block, PreciousBlock(t, b)
        PROVE  Marks'
    <3>1. /\ calls' = [calls EXCEPT !["precious"] = @ + 1]
          /\ UNCHANGED <<scripts, failed, failedParent, tip, fHavePruned, world, pindexMostWork>>
      BY ZenonT(40), <2>2, <2>9, PreciousFacts
    <3>2. calls'["invalidate"] = calls["invalidate"]
      BY <3>1, <2>2 DEF Command
    <3> QED
      BY <3>1, <3>2, MarksShrink
  <2>10. ASSUME NEW b \in Block, PruneOneBlockFile(t, b)
         PROVE  Marks'
    <3>1. /\ calls' = [calls EXCEPT !["prune"] = @ + 1] /\ fHavePruned'
          /\ UNCHANGED <<scripts, failed, failedParent, tip, world, pindexMostWork>>
      BY <2>10 DEF PruneOneBlockFile, Call, threads
    <3>2. calls'["invalidate"] = calls["invalidate"]
      BY <3>1, <2>2 DEF Command
    <3> QED
      BY <3>1, <3>2, MarksShrink
  <2> QED
    BY <2>1, <2>3, <2>4, <2>5, <2>6, <2>7, <2>8, <2>9, <2>10, ZenonT(40)
<1> QED
  BY <1>1, <1>2

\* Every block of the active chain passed ConnectBlock and is not marked invalid.
THEOREM ActiveChainIsValid ==
  Spec => []ActiveChainValid
<1>1. Init => Marks
  BY TreeAssumption DEF Init, Marks, ActiveChainValid, Invalid
<1>2. (Base /\ Counters /\ Busy) /\ Marks /\ [Next]_vars => Marks'
  BY MarksNext
<1>3. Marks => ActiveChainValid
  BY DEF Marks
<1> QED
  BY <1>1, <1>2, <1>3, BaseInvariant, PTL DEF Spec

-----------------------------------------------------------------------------
(* Waits, Failures and Lasting: what is linked, and what waits.            *)

\* The chain of the block has arrived and none of it is marked by itself.
Eligible(b) == Received(b) /\ Chain[b] \cap failed = {}

\* A block that arrived is linked, waits for a parent in mapBlocksUnlinked, or has
\* a failed block below it. The third conjunct is about nodes that never pruned.
Waits ==
  /\ ~Invalidated =>
       /\ \A y \in failedParent : Received(y)
       /\ \A y \in failed : y \in BadContext \/ Received(y)
  /\ ~Invalidated /\ ~Reconsidered => \A b \in data :
       Received(b) \/ b \in unlinked \/ Chain[b] \cap failed # {}
  /\ ~Invalidated /\ ~fHavePruned =>
       /\ \A b \in processed : b \in chainTx \/ b \in unlinked \/ Chain[b] \cap BadContext # {}
       /\ \A b \in Block : Received(b) => b \in chainTx

\* FAILED_PARENT is put only above a block that is marked FAILED.
Failures ==
  ~Reconsidered => \A y \in Invalid : Chain[y] \cap failed # {}

\* What Waits says, with invalidateblock: a block is linked or waits unless one
\* below it is marked, and every eligible block is linked.
Lasting ==
  ~Reconsidered /\ ~fHavePruned =>
    /\ \A b \in processed : b \in chainTx \/ b \in unlinked \/ Chain[b] \cap failed # {}
    /\ \A b \in Block : Eligible(b) => b \in chainTx

\* The third layer.
Linking == Waits /\ Failures /\ Lasting

\* What the arrival of a block that passes ContextualCheckBlock does.
LEMMA LinkCases ==
  ASSUME Base, NEW t \in Thread, NEW b \in Block \ {Genesis}, NEW fRequested,
         ProcessNewBlock(t, b, fRequested), ~Dropped(b, fRequested), b \notin BadContext
  PROVE  /\ pc[t] = "idle" /\ b \notin data
         /\ data' = data \cup {b} /\ processed' = processed \cup {b}
         /\ pc' = [pc EXCEPT ![t] = "activate"]
         /\ UNCHANGED <<scripts, failed, failedParent, nBlockReverseSequenceId,
                        nLastPreciousChainwork, pindexMostWork, tip, fHavePruned, world, calls>>
         /\ \/ /\ Parent[b] \in chainTx
               /\ chainTx' = chainTx \cup Linked(b)
               /\ unlinked' = unlinked \ (Linked(b) \ {b})
               /\ candidates' = candidates \cup {d \in Linked(b) : ~Less(nSequenceId', d, tip)}
               /\ \A d \in Block \ Linked(b) : nSequenceId'[d] = nSequenceId[d]
               /\ \A d \in Linked(b) : nSequenceId'[d] \in Nat
            \/ /\ Parent[b] \notin chainTx
               /\ chainTx' = chainTx \ {b}
               /\ unlinked' = unlinked \cup Waiting(b)
               /\ UNCHANGED <<nSequenceId, candidates>>
<1>1. pc[t] = "idle" /\ b \notin data
  BY DEF ProcessNewBlock, Dropped
<1>2. ReceivedBlockTransactions(b) /\ Activate(t)
      /\ UNCHANGED <<scripts, failed, failedParent>>
  BY DEF ProcessNewBlock
<1>3. UNCHANGED <<nBlockReverseSequenceId, nLastPreciousChainwork, pindexMostWork, tip,
                  fHavePruned, world, calls>>
  BY ZenonT(40) DEF ProcessNewBlock
<1>4. data' = data \cup {b} /\ processed' = processed \cup {b}
  BY <1>2 DEF ReceivedBlockTransactions
<1>5. pc' = [pc EXCEPT ![t] = "activate"]
  BY <1>2 DEF Activate
<1>6. CASE Parent[b] \in chainTx
  <2>1. PICK f \in LinkOrders(Linked(b)) :
          /\ chainTx' = chainTx \cup Linked(b)
          /\ nSequenceId' = [d \in Block |-> IF d \in Linked(b) THEN nBlockSequenceId + f[d]
                                             ELSE nSequenceId[d]]
          /\ candidates' = candidates \cup {d \in Linked(b) : ~Less(nSequenceId', d, tip)}
          /\ unlinked' = unlinked \ (Linked(b) \ {b})
    BY ZenonT(40), <1>2, <1>6 DEF ReceivedBlockTransactions
  <2>2. f \in [Linked(b) -> 0 .. Cardinality(Linked(b)) - 1]
    BY DEF LinkOrders
  <2>3. Linked(b) \subseteq Block /\ Linked(b) \subseteq index \cup {b}
    BY ZenonT(40), LinkFacts DEF Base, Shape, Links
  <2>4. IsFiniteSet(Linked(b))
    BY ZenonT(40), <2>3, FS_AddElement, FS_Subset DEF Base, Shape
  <2>5. Cardinality(Linked(b)) \in Nat /\ nBlockSequenceId \in Nat
    BY <2>4, FS_CardinalityType DEF Base, Shape
  <2>6. \A d \in Linked(b) : f[d] \in Nat
    BY <2>2, <2>5
  <2>7. \A d \in Block \ Linked(b) : nSequenceId'[d] = nSequenceId[d]
    BY ZenonT(40), <2>1
  <2>8. \A d \in Linked(b) : nSequenceId'[d] \in Nat
    BY <2>1, <2>3, <2>5, <2>6
  <2> QED
    BY ZenonT(40), <1>1, <1>2, <1>3, <1>4, <1>5, <1>6, <2>1, <2>7, <2>8
<1>7. CASE Parent[b] \notin chainTx
  <2>1. /\ chainTx' = chainTx \ {b} /\ unlinked' = unlinked \cup Waiting(b)
        /\ UNCHANGED <<nSequenceId, nBlockSequenceId, candidates>>
    BY <1>2, <1>7, ZenonT(40) DEF ReceivedBlockTransactions
  <2> QED
    BY ZenonT(40), <1>1, <1>2, <1>3, <1>4, <1>5, <1>7, <2>1
<1> QED
  BY ZenonT(40), <1>6, <1>7

\* A block all of whose blocks above b were waiting is linked together with b.
LEMMA LinkCovers ==
  ASSUME Base, NEW b \in Block \ {Genesis}, NEW d \in Block, b \in Chain[d],
         \A y \in Chain[d] \ Chain[b] : y \in unlinked
  PROVE  d \in Linked(b)
<1>1. CASE d = b
  BY <1>1, LinkFacts
<1>2. CASE d # b
  <2>1. d \notin Chain[b]
    BY <1>2, ChainHeight, HeightStep
  <2>2. d \in unlinked
    BY <2>1, ChainHolds
  <2> QED
    BY <2>2, LinkFacts
<1> QED
  BY <1>1, <1>2

\* Two blocks of a chain, one of them not below the other.
LEMMA ChainAbove ==
  ASSUME NEW d \in Block, NEW b \in Chain[d], NEW y \in Chain[d], y \notin Chain[b]
  PROVE  b \in Chain[y]
<1>1. b \in Block /\ y \in Block
  BY ChainHolds
<1>2. Height(b) \in Int /\ Height(y) \in Int
  BY <1>1, HeightStep
<1>3. Height(b) <= Height(y) \/ Height(y) <= Height(b)
  BY <1>2
<1> QED
  BY <1>3, ChainLinear

\* The steps that neither receive a block nor take a waiting one away.
LEMMA LinkingKeep ==
  ASSUME Linking, processed' = processed, data' = data, chainTx' = chainTx,
         unlinked \subseteq unlinked', fHavePruned' = fHavePruned,
         Invalidated => Invalidated', Reconsidered => Reconsidered',
         ~Reconsidered' => failed \subseteq failed',
         \A y \in failedParent' \ failedParent :
           /\ y \in Block /\ (~Invalidated' => Received(y))
           /\ \E o \in Chain[y] : o \in Invalid \/ o \in failed',
         \A y \in failed' \ failed : ~Invalidated' => y \in BadContext \/ Received(y),
         failed' \subseteq Block
  PROVE  Linking'
<1>0. \A y : Received(y)' <=> Received(y)
  BY ZenonT(40) DEF Received
<1>1. Waits'
  <2>1. (~Invalidated =>
           /\ \A y \in failedParent : Received(y)
           /\ \A y \in failed : y \in BadContext \/ Received(y))'
    BY <1>0 DEF Linking, Waits
  <2>2. (~Invalidated /\ ~Reconsidered => \A b \in data :
           Received(b) \/ b \in unlinked \/ Chain[b] \cap failed # {})'
    BY ZenonT(40), <1>0 DEF Linking, Waits
  <2>3. (~Invalidated /\ ~fHavePruned =>
           /\ \A b \in processed : b \in chainTx \/ b \in unlinked \/ Chain[b] \cap BadContext # {}
           /\ \A b \in Block : Received(b) => b \in chainTx)'
    BY <1>0 DEF Linking, Waits
  <2> QED
    BY ZenonT(40), <2>1, <2>2, <2>3 DEF Waits
<1>2. Failures'
  <2> SUFFICES ASSUME ~Reconsidered', NEW y \in Invalid'
               PROVE  Chain[y] \cap failed' # {}
    BY DEF Failures
  <2>1. failed \subseteq failed' /\ ~Reconsidered
    OBVIOUS
  <2>2. \A o \in Invalid : Chain[o] \cap failed # {}
    BY <2>1 DEF Linking, Failures
  <2>3. CASE y \in Invalid
    BY ZenonT(40), <2>1, <2>2, <2>3
  <2>4. CASE y \in failed'
    BY ZenonT(40), <2>4, ChainHolds
  <2>5. CASE y \in failedParent' \ failedParent
    <3>1. PICK o \in Chain[y] : o \in Invalid \/ o \in failed'
      BY ZenonT(40), <2>5
    <3>2. y \in Block /\ Chain[o] \subseteq Chain[y]
      BY ZenonT(40), <2>5, <3>1, ChainTransitive
    <3> QED
      BY ZenonT(40), <3>1, <3>2, <2>1, <2>2
  <2> QED
    BY ZenonT(40), <2>3, <2>4, <2>5 DEF Invalid
<1>3. Lasting'
  <2>1. \A b \in Block : ~Reconsidered' /\ Eligible(b)' => Eligible(b)
    BY <1>0 DEF Eligible
  <2> QED
    BY <2>1 DEF Linking, Lasting
<1> QED
  BY ZenonT(40), <1>1, <1>2, <1>3 DEF Linking

\* The arrival of a block: it and all that waited for it alone are linked, or it
\* waits itself.
LEMMA LinkingLink ==
  ASSUME Base, Linking, NEW t \in Thread, NEW b \in Block \ {Genesis}, NEW fRequested,
         ProcessNewBlock(t, b, fRequested), ~Dropped(b, fRequested), b \notin BadContext
  PROVE  Linking'
<1>1. /\ b \notin data /\ data' = data \cup {b} /\ processed' = processed \cup {b}
      /\ UNCHANGED <<failed, failedParent, tip, fHavePruned, world, calls>>
      /\ \/ /\ Parent[b] \in chainTx
            /\ chainTx' = chainTx \cup Linked(b)
            /\ unlinked' = unlinked \ (Linked(b) \ {b})
         \/ /\ Parent[b] \notin chainTx
            /\ chainTx' = chainTx \ {b}
            /\ unlinked' = unlinked \cup Waiting(b)
  BY LinkCases, ZenonT(40)
<1>2. UNCHANGED <<Invalidated, Reconsidered, Invalid>>
  BY <1>1 DEF Invalidated, Reconsidered, Invalid
<1>3. /\ processed \subseteq Block /\ data \subseteq processed /\ processed \cap BadContext = {}
      /\ ~fHavePruned => b \notin processed
      /\ \A d \in chainTx : Received(d)
  BY ZenonT(40), <1>1 DEF Base, Shape, Links
<1>4. /\ Parent[b] \in Block /\ Chain[b] = {b} \cup Chain[Parent[b]]
      /\ b \notin Chain[Parent[b]] /\ Parent[b] \in Chain[b] /\ b \in Chain[b]
  BY ChainParent
<1>5. \A d \in Block : Received(d) => Received(d)'
  BY ZenonT(40), <1>1 DEF Received
<1>6. Parent[b] \in chainTx => \A d \in Linked(b) : Received(d)'
  BY ZenonT(40), <1>1, LinkFacts DEF Received
<1>7. Received(Parent[b]) => Received(b)'
  BY ZenonT(40), <1>1, <1>4 DEF Received
<1>8. /\ Parent[b] \in chainTx => b \in Linked(b)
      /\ Linked(b) \subseteq Block
  BY LinkFacts
<1>9. Waiting(b) = IF Parent[b] \in Invalid THEN {} ELSE {b}
  BY ZenonT(40) DEF Waiting
<1>10. ASSUME NEW d \in Block, ~Received(d), Received(d)', ~fHavePruned
       PROVE  b \in Chain[d] /\ Received(Parent[b])
  <2>1. b \in Chain[d] /\ Chain[d] \subseteq processed \cup {b}
    BY ZenonT(40), <1>1, <1>10 DEF Received
  <2>2. Chain[b] \subseteq Chain[d]
    BY ZenonT(40), <2>1, ChainTransitive
  <2> QED
    BY <2>1, <2>2, <1>4 DEF Received
<1>11. ASSUME NEW d \in Block, b \in Chain[d], NEW y \in Chain[d], y \notin Chain[b], ~fHavePruned
       PROVE  y \notin chainTx /\ y # b /\ Chain[y] \subseteq Chain[d]
  <2>1. b \in Chain[y] /\ Chain[y] \subseteq Chain[d]
    BY ZenonT(40), <1>11, ChainAbove, ChainTransitive
  <2> QED
    BY ZenonT(40), <2>1, <1>3, <1>4, <1>11 DEF Received
<1>12. Waits'
  <2>1. (~Invalidated =>
           /\ \A y \in failedParent : Received(y)
           /\ \A y \in failed : y \in BadContext \/ Received(y))'
    BY ZenonT(40), <1>1, <1>2, <1>5 DEF Linking, Waits, Received
  <2>2. ASSUME ~Invalidated, ~Reconsidered, NEW d \in data'
        PROVE  Received(d)' \/ d \in unlinked' \/ Chain[d] \cap failed # {}
    <3>1. CASE Parent[b] \in chainTx
      <4>1. Received(b)'
        BY ZenonT(40), <3>1, <1>3, <1>7
      <4>2. CASE d \in Linked(b) \/ d = b
        BY ZenonT(40), <4>1, <4>2, <3>1, <1>6
      <4>3. CASE d \notin Linked(b) /\ d # b
        <5>1. Received(d) \/ d \in unlinked \/ Chain[d] \cap failed # {}
          BY ZenonT(40), <4>3, <2>2, <1>1 DEF Linking, Waits
        <5> QED
          BY ZenonT(40), <5>1, <4>3, <3>1, <1>1, <1>5 DEF Received
      <4> QED
        BY <4>2, <4>3
    <3>2. CASE Parent[b] \notin chainTx
      <4>1. CASE d = b
        <5>1. Parent[b] \in Invalid => Received(Parent[b]) \/ Parent[b] \in failed
          BY ZenonT(40), <2>2 DEF Linking, Waits, Invalid
        <5> QED
          BY ZenonT(40), <5>1, <4>1, <3>2, <1>1, <1>4, <1>7, <1>9
      <4>2. CASE d # b
        <5>1. Received(d) \/ d \in unlinked \/ Chain[d] \cap failed # {}
          BY ZenonT(40), <4>2, <2>2, <1>1 DEF Linking, Waits
        <5> QED
          BY ZenonT(40), <5>1, <3>2, <1>1, <1>5 DEF Received
      <4> QED
        BY <4>1, <4>2
    <3> QED
      BY ZenonT(40), <3>1, <3>2
  <2>3. ASSUME ~Invalidated, ~fHavePruned
        PROVE  /\ \A d \in processed' : d \in chainTx' \/ d \in unlinked' \/ Chain[d] \cap BadContext # {}
               /\ \A d \in Block : Received(d)' => d \in chainTx'
    <3>1. /\ \A d \in processed : d \in chainTx \/ d \in unlinked \/ Chain[d] \cap BadContext # {}
          /\ \A d \in Block : Received(d) => d \in chainTx
      BY ZenonT(40), <2>3 DEF Linking, Waits
    <3>2. b \notin chainTx
      BY ZenonT(40), <2>3, <1>3, <1>4 DEF Received
    <3>3. CASE Parent[b] \in chainTx
      <4>1. \A d \in processed' : d \in chainTx' \/ d \in unlinked' \/ Chain[d] \cap BadContext # {}
        BY ZenonT(40), <3>3, <3>1, <1>1, <1>8
      <4>2. ASSUME NEW d \in Block, Received(d)', ~Received(d)
            PROVE  d \in chainTx'
        <5>1. b \in Chain[d] /\ Chain[d] \cap BadContext = {} /\ Chain[d] \subseteq processed \cup {b}
          BY ZenonT(40), <4>2, <2>3, <1>1, <1>3, <1>10 DEF Received
        <5>2. ASSUME NEW y \in Chain[d], y \notin Chain[b]
              PROVE  y \in unlinked
          <6>1. y \notin chainTx /\ y # b /\ Chain[y] \subseteq Chain[d]
            BY ZenonT(40), <5>1, <5>2, <2>3, <1>11
          <6>2. y \in processed /\ Chain[y] \cap BadContext = {}
            BY ZenonT(40), <6>1, <5>1, <5>2
          <6> QED
            BY ZenonT(40), <6>1, <6>2, <3>1
        <5>3. d \in Linked(b)
          BY ZenonT(40), <5>1, <5>2, LinkCovers
        <5> QED
          BY ZenonT(40), <5>3, <3>3, <1>1
      <4> QED
        BY ZenonT(40), <4>1, <4>2, <3>1, <3>3, <1>1
    <3>4. CASE Parent[b] \notin chainTx
      <4>1. ~Received(Parent[b])
        BY ZenonT(40), <3>4, <3>1, <1>4
      <4>2. \A d \in Block : Received(d)' => Received(d)
        BY ZenonT(40), <4>1, <2>3, <1>10
      <4>3. Parent[b] \in Invalid => Chain[b] \cap BadContext # {}
        BY ZenonT(40), <4>1, <2>3, <1>4 DEF Linking, Waits, Invalid
      <4>4. b \in unlinked' \/ Chain[b] \cap BadContext # {}
        BY ZenonT(40), <4>3, <3>4, <1>1, <1>9
      <4> QED
        BY ZenonT(40), <4>2, <4>4, <3>1, <3>2, <3>4, <1>1
    <3> QED
      BY ZenonT(40), <3>3, <3>4
  <2> QED
    BY ZenonT(40), <2>1, <2>2, <2>3, <1>1, <1>2 DEF Waits
<1>13. Failures'
  BY ZenonT(40), <1>1, <1>2 DEF Linking, Failures
<1>14. Lasting'
  <2> SUFFICES ASSUME ~Reconsidered, ~fHavePruned
               PROVE  /\ \A d \in processed' : d \in chainTx' \/ d \in unlinked' \/ Chain[d] \cap failed # {}
                      /\ \A d \in Block : Eligible(d)' => d \in chainTx'
    BY ZenonT(40), <1>1, <1>2 DEF Lasting
  <2>1. /\ \A d \in processed : d \in chainTx \/ d \in unlinked \/ Chain[d] \cap failed # {}
        /\ \A d \in Block : Eligible(d) => d \in chainTx
    BY ZenonT(40) DEF Linking, Lasting
  <2>2. b \notin chainTx
    BY ZenonT(40), <1>3, <1>4 DEF Received
  <2>3. \A d \in Block : Eligible(d)' <=> Received(d)' /\ Chain[d] \cap failed = {}
    BY <1>1 DEF Eligible
  <2>4. CASE Parent[b] \in chainTx
    <3>1. \A d \in processed' : d \in chainTx' \/ d \in unlinked' \/ Chain[d] \cap failed # {}
      BY <2>4, <2>1, <1>1, <1>8
    <3>2. ASSUME NEW d \in Block, Eligible(d)', ~Received(d)
          PROVE  d \in chainTx'
      <4>1. /\ b \in Chain[d] /\ Chain[d] \cap failed = {} /\ Chain[d] \subseteq processed \cup {b}
        BY ZenonT(40), <3>2, <2>3, <1>1, <1>10 DEF Received
      <4>2. ASSUME NEW y \in Chain[d], y \notin Chain[b]
            PROVE  y \in unlinked
        <5>1. y \notin chainTx /\ y # b /\ Chain[y] \subseteq Chain[d]
          BY ZenonT(40), <4>1, <4>2, <1>11
        <5>2. y \in processed /\ Chain[y] \cap failed = {}
          BY ZenonT(40), <5>1, <4>1, <4>2
        <5> QED
          BY ZenonT(40), <5>1, <5>2, <2>1
      <4>3. d \in Linked(b)
        BY ZenonT(40), <4>1, <4>2, LinkCovers
      <4> QED
        BY ZenonT(40), <4>3, <2>4, <1>1
    <3> QED
      BY ZenonT(40), <3>1, <3>2, <2>1, <2>3, <2>4, <1>1 DEF Eligible
  <2>5. CASE Parent[b] \notin chainTx
    <3>1. ~Eligible(Parent[b])
      BY ZenonT(40), <2>5, <2>1, <1>4
    <3>2. ASSUME NEW d \in Block, Eligible(d)', ~Received(d)
          PROVE  FALSE
      <4>1. b \in Chain[d] /\ Received(Parent[b]) /\ Chain[d] \cap failed = {}
        BY ZenonT(40), <3>2, <2>3, <1>10
      <4>2. Chain[b] \subseteq Chain[d]
        BY ZenonT(40), <4>1, ChainTransitive
      <4> QED
        BY ZenonT(40), <4>1, <4>2, <3>1, <1>4 DEF Eligible
    <3>3. Parent[b] \in Invalid => Chain[b] \cap failed # {}
      BY ZenonT(40), <1>4 DEF Linking, Failures
    <3>4. b \in unlinked' \/ Chain[b] \cap failed # {}
      BY ZenonT(40), <3>3, <2>5, <1>1, <1>9
    <3>5. \A d \in Block : Eligible(d)' => d \in chainTx'
      BY ZenonT(40), <3>2, <2>1, <2>2, <2>3, <2>5, <1>1 DEF Eligible
    <3> QED
      BY ZenonT(40), <3>4, <3>5, <2>1, <2>2, <2>5, <1>1
  <2> QED
    BY ZenonT(40), <2>4, <2>5
<1> QED
  BY <1>12, <1>13, <1>14 DEF Linking

\* A restart computes the links from what has been received.
LEMMA LinkingRestart ==
  ASSUME Base, Linking, NEW t \in Thread, Restart(t)
  PROVE  Linking'
<1>1. /\ calls' = [calls EXCEPT !["restart"] = @ + 1]
      /\ failedParent' \subseteq failedParent
      /\ \A b : b \in chainTx' <=> b \in processed /\ Chain[b] \subseteq processed
      /\ \A b : b \in unlinked' <=> b \in processed \ {Genesis} /\ Parent[b] \notin chainTx'
      /\ UNCHANGED <<processed, data, failed, fHavePruned, world>>
  BY RestartFacts, ZenonT(40)
<1>2. calls \in [Command -> Nat] /\ processed \subseteq Block /\ data \subseteq processed
      /\ Genesis \in processed
  BY ZenonT(40) DEF Base, Shape
<1>3. UNCHANGED <<Invalidated, Reconsidered>>
  BY <1>1, <1>2 DEF Invalidated, Reconsidered, Command
<1>4. \A y : Received(y)' <=> Received(y)
  BY <1>1 DEF Received
<1>5. \A b \in Block : Received(b) => b \in chainTx'
  BY <1>1, ChainHolds DEF Received
<1>6. ASSUME NEW b \in processed, ~Received(b)
      PROVE  b \in unlinked'
  <2>1. b \in Block \ {Genesis}
    BY <1>2, <1>6, TreeAssumption DEF Received
  <2>2. Chain[b] = {b} \cup Chain[Parent[b]] /\ Parent[b] \in Block
    BY ZenonT(40), <2>1, ChainParent
  <2>3. Parent[b] \notin chainTx'
    BY ZenonT(40), <2>1, <2>2, <1>1, <1>6 DEF Received
  <2> QED
    BY ZenonT(40), <2>1, <2>3, <1>1
<1>7. \A b \in processed : Received(b) \/ b \in unlinked'
  BY ZenonT(40), <1>6
<1>8. Waits'
  <2>1. (~Invalidated =>
           /\ \A y \in failedParent : Received(y)
           /\ \A y \in failed : y \in BadContext \/ Received(y))'
    BY ZenonT(40), <1>1, <1>3, <1>4 DEF Linking, Waits
  <2>2. (~Invalidated /\ ~Reconsidered => \A b \in data :
           Received(b) \/ b \in unlinked \/ Chain[b] \cap failed # {})'
    BY ZenonT(40), <1>1, <1>2, <1>4, <1>7
  <2>3. (/\ \A b \in processed : b \in chainTx \/ b \in unlinked \/ Chain[b] \cap BadContext # {}
         /\ \A b \in Block : Received(b) => b \in chainTx)'
    BY ZenonT(40), <1>1, <1>2, <1>4, <1>5, <1>7
  <2> QED
    BY ZenonT(40), <2>1, <2>2, <2>3 DEF Waits
<1>9. Failures'
  BY ZenonT(40), <1>1, <1>3 DEF Linking, Failures, Invalid
<1>10. Lasting'
  BY ZenonT(40), <1>1, <1>2, <1>4, <1>5, <1>7 DEF Lasting, Eligible
<1> QED
  BY <1>8, <1>9, <1>10 DEF Linking

\* Pruning a block's file takes it out of mapBlocksUnlinked.
LEMMA LinkingPrune ==
  ASSUME Base, Linking, NEW t \in Thread, NEW b \in Block, PruneOneBlockFile(t, b)
  PROVE  Linking'
<1>1. /\ calls' = [calls EXCEPT !["prune"] = @ + 1]
      /\ data' = data \ {b} /\ unlinked' = unlinked \ {b} /\ fHavePruned' = TRUE
      /\ UNCHANGED <<processed, failed, failedParent, chainTx, world>>
  BY DEF PruneOneBlockFile, Call
<1>2. calls \in [Command -> Nat]
  BY DEF Base, Shape
<1>3. UNCHANGED <<Invalidated, Reconsidered>>
  BY ZenonT(40), <1>1, <1>2 DEF Invalidated, Reconsidered, Command
<1>4. \A y : Received(y)' <=> Received(y)
  BY <1>1 DEF Received
<1>5. Waits'
  BY ZenonT(40), <1>1, <1>3, <1>4 DEF Linking, Waits
<1>6. Failures'
  BY ZenonT(40), <1>1, <1>3 DEF Linking, Failures, Invalid
<1>7. Lasting'
  BY <1>1 DEF Lasting
<1> QED
  BY ZenonT(40), <1>5, <1>6, <1>7 DEF Linking

\* An iteration of ActivateBestChain marks only blocks whose chain was received,
\* and that have a marked one among them.
LEMMA LinkingActivate ==
  ASSUME Base, Linking, NEW t \in Thread, ActivateBestChain(t)
  PROVE  Linking'
<1> DEFINE sel == Target(t)
<1>0. sel = Target(t)
  OBVIOUS
<1> HIDE DEF sel
<1>1. /\ failedParent' = sel.failedParent /\ unlinked' = sel.unlinked
      /\ UNCHANGED <<processed, data, chainTx, fHavePruned, world, calls>>
      /\ Ends(t, sel) \/ \E step, again : Steps(t, sel, step, again)
  BY ZenonT(40), <1>0, ActivateCases
<1>2. /\ sel.block # Null => Received(sel.block)
      /\ \A y \in sel.failedParent \ failedParent :
           /\ Received(y)
           /\ \E o \in Chain[y] : o \in Invalid
      /\ unlinked \subseteq sel.unlinked
  BY <1>0, TargetFacts
<1>3. failed \subseteq failed' /\ \A y \in failed' \ failed : Received(y)
  <2>1. ASSUME Ends(t, sel)
        PROVE  failed' = failed
    BY <2>1 DEF Ends
  <2>2. ASSUME NEW step, NEW again, Steps(t, sel, step, again)
        PROVE  failed \subseteq failed' /\ \A y \in failed' \ failed : Received(y)
    <3>1. /\ sel.block # Null /\ sel.block \in Block
          /\ step = ActivateBestChainStep(sel.candidates, sel.block)
          /\ failed' = failed \cup step.invalid
      BY <2>2, ZenonT(40) DEF Steps
    <3>2. step.invalid \subseteq Chain[sel.block]
      <4>1. tip \in Block
        BY ZenonT(40) DEF Base, Links, Received
      <4>2. step.invalid \subseteq (Chain[sel.block] \ Chain[tip]) \cap data \cap world.badConnect
        BY <4>1, <3>1, StepFacts
      <4> QED
        BY ZenonT(40), <4>2
    <3>3. \A y \in step.invalid : Received(y)
      BY ZenonT(40), <3>1, <3>2, <1>2, ChainTransitive, ChainHolds DEF Received
    <3> QED
      BY <3>1, <3>3
  <2> QED
    BY <2>1, <2>2, <1>1
<1>4. failed' \subseteq Block
  BY ZenonT(40), <1>3 DEF Received, Base, Shape
<1>5. UNCHANGED <<Invalidated, Reconsidered>>
  BY <1>1 DEF Invalidated, Reconsidered
<1>6. \A y \in failedParent' \ failedParent :
        /\ y \in Block /\ (~Invalidated' => Received(y))
        /\ \E o \in Chain[y] : o \in Invalid \/ o \in failed'
  BY ZenonT(40), <1>1, <1>2 DEF Received
<1> QED
  BY ZenonT(40), <1>1, <1>2, <1>3, <1>4, <1>5, <1>6, LinkingKeep

\* Every step.
LEMMA LinkingNext ==
  Base /\ Linking /\ [Next]_vars => Linking'
<1> SUFFICES ASSUME Base, Linking, [Next]_vars
             PROVE  Linking'
  OBVIOUS
<1>0. calls \in [Command -> Nat] /\ failed \subseteq Block
  BY DEF Base, Shape
<1>1. CASE UNCHANGED vars
  <2>1. UNCHANGED <<processed, data, chainTx, unlinked, fHavePruned, failed, failedParent, calls>>
    BY <1>1 DEF vars, status
  <2> QED
    BY ZenonT(40), <2>1, <1>0, LinkingKeep DEF Invalidated, Reconsidered
<1>2. CASE Next
  <2>1. PICK t \in world.threads :
           \/ ActivateBestChain(t)
           \/ Restart(t)
           \/ \E b \in Block \ {Genesis} :
                \/ ProcessNewBlockHeaders(t, b)
                \/ \E fRequested \in BOOLEAN : ProcessNewBlock(t, b, fRequested)
                \/ InvalidateBlock(t, b)
                \/ ReconsiderBlock(t, b)
           \/ \E b \in Block : PreciousBlock(t, b) \/ PruneOneBlockFile(t, b)
    BY <1>2, NextCases, ZenonT(40)
  <2>2. t \in Thread
    BY WorldFacts
  <2>3. CASE ActivateBestChain(t)
    BY ZenonT(40), <2>2, <2>3, LinkingActivate
  <2>4. CASE Restart(t)
    BY ZenonT(40), <2>2, <2>4, LinkingRestart
  <2>5. ASSUME NEW b \in Block \ {Genesis}, ProcessNewBlockHeaders(t, b)
        PROVE  Linking'
    <3>1. UNCHANGED <<processed, data, chainTx, unlinked, fHavePruned, failed, failedParent, calls>>
      BY <2>5 DEF ProcessNewBlockHeaders, status
    <3> QED
      BY ZenonT(40), <3>1, <1>0, LinkingKeep DEF Invalidated, Reconsidered
  <2>6. ASSUME NEW b \in Block \ {Genesis}, NEW fRequested \in BOOLEAN,
               ProcessNewBlock(t, b, fRequested)
        PROVE  Linking'
    <3>1. CASE ~Dropped(b, fRequested) /\ b \notin BadContext
      BY ZenonT(40), <2>2, <2>6, <3>1, LinkingLink
    <3>2. CASE Dropped(b, fRequested) \/ b \in BadContext
      <4>1. /\ UNCHANGED <<processed, data, failedParent, chainTx, unlinked, fHavePruned, calls>>
            /\ failed' = failed \/ (failed' = failed \cup {b} /\ b \in BadContext)
        BY ZenonT(40), <2>6, <3>2 DEF ProcessNewBlock, status
      <4>2. failed \subseteq failed' /\ failed' \subseteq Block
            /\ \A y \in failed' \ failed : y \in BadContext
        BY ZenonT(40), <4>1, <1>0
      <4>3. failedParent' \ failedParent = {}
        BY <4>1
      <4> QED
        BY ZenonT(40), <4>1, <4>2, <4>3, LinkingKeep DEF Invalidated, Reconsidered
    <3> QED
      BY ZenonT(40), <3>1, <3>2
  <2>7. ASSUME NEW b \in Block \ {Genesis}, InvalidateBlock(t, b)
        PROVE  Linking'
    <3>1. /\ calls' = [calls EXCEPT !["invalidate"] = @ + 1]
          /\ failed' = failed \cup {b}
          /\ \A y \in failedParent' \ failedParent : b \in Chain[y] /\ y \in Chain[tip]
          /\ UNCHANGED <<processed, data, chainTx, unlinked, fHavePruned>>
      BY <2>2, <2>7, InvalidateFacts, ZenonT(40)
    <3>2. Invalidated' /\ Reconsidered' = Reconsidered
      BY <3>1, <1>0 DEF Invalidated, Reconsidered, Command
    <3>3. tip \in Block
      BY ZenonT(40) DEF Base, Links, Received
    <3>4. \A y \in failedParent' \ failedParent : y \in Block /\ \E o \in Chain[y] : o \in failed'
      BY ZenonT(40), <3>1, <3>3, ChainHolds
    <3> QED
      BY ZenonT(40), <3>1, <3>2, <3>4, <1>0, LinkingKeep
  <2>8. ASSUME NEW b \in Block \ {Genesis}, ReconsiderBlock(t, b)
        PROVE  Linking'
    <3>1. /\ calls' = [calls EXCEPT !["reconsider"] = @ + 1]
          /\ failed' \subseteq failed /\ failedParent' \subseteq failedParent
          /\ UNCHANGED <<processed, data, chainTx, unlinked, fHavePruned>>
      BY ZenonT(40), <2>8 DEF ReconsiderBlock, Call
    <3>2. Reconsidered' /\ Invalidated' = Invalidated
      BY <3>1, <1>0 DEF Invalidated, Reconsidered, Command
    <3> QED
      BY ZenonT(40), <3>1, <3>2, <1>0, LinkingKeep
  <2>9. ASSUME NEW b \in Block, PreciousBlock(t, b)
        PROVE  Linking'
    <3>1. /\ calls' = [calls EXCEPT !["precious"] = @ + 1]
          /\ UNCHANGED <<processed, data, failed, failedParent, chainTx, unlinked, fHavePruned>>
      BY ZenonT(40), <2>2, <2>9, PreciousFacts
    <3>2. Reconsidered' = Reconsidered /\ Invalidated' = Invalidated
      BY <3>1, <1>0 DEF Invalidated, Reconsidered, Command
    <3> QED
      BY <3>1, <3>2, <1>0, LinkingKeep
  <2>10. ASSUME NEW b \in Block, PruneOneBlockFile(t, b)
         PROVE  Linking'
    BY <2>2, <2>10, LinkingPrune
  <2> QED
    BY <2>1, <2>3, <2>4, <2>5, <2>6, <2>7, <2>8, <2>9, <2>10, ZenonT(40)
<1> QED
  BY <1>1, <1>2

\* The initial state.
LEMMA LinkingInit ==
  Init => Linking
<1> SUFFICES ASSUME Init
             PROVE  Linking
  OBVIOUS
<1>1. Received(Genesis)
  BY ZenonT(40), TreeAssumption DEF Init, Received
<1>2. \A b \in Block : Received(b) => b = Genesis
  BY ZenonT(40), ChainHolds DEF Init, Received
<1>3. Waits
  BY ZenonT(40), <1>1, <1>2 DEF Init, Waits
<1>4. Failures /\ Lasting
  BY <1>1, <1>2 DEF Init, Failures, Lasting, Eligible, Invalid
<1> QED
  BY <1>3, <1>4 DEF Linking

\* nChainTx is set exactly for the blocks all of whose ancestors were received, as
\* CheckBlockIndex asserts, while no block is invalidated or pruned.
THEOREM ChainTxIsExact ==
  Spec => []ChainTxExactUntouched
<1>1. Base /\ Linking => ChainTxExactUntouched
  <2> SUFFICES ASSUME Base, Linking, ~Invalidated, ~fHavePruned, NEW b \in index
               PROVE  b \in chainTx <=> Chain[b] \subseteq processed
    BY ZenonT(40) DEF ChainTxExactUntouched, ChainTxExact, Invalidated
  <2>1. b \in Block /\ (b \in chainTx => Received(b))
    BY ZenonT(40) DEF Base, Shape, Links
  <2>2. Received(b) => b \in chainTx
    BY <2>1 DEF Linking, Waits
  <2> QED
    BY ZenonT(40), <2>1, <2>2 DEF Received
<1>2. (Base /\ Counters /\ Busy) /\ Linking /\ [Next]_vars => Linking'
  BY ZenonT(40), LinkingNext
<1> QED
  BY <1>1, <1>2, LinkingInit, BaseInvariant, PTL DEF Spec

\* A received block that waits for an ancestor, and has no failed one, is in
\* mapBlocksUnlinked, while the operator neither marks blocks nor clears marks.
THEOREM WaitingIsInUnlinked ==
  Spec => []WaitingIsUnlinked
<1>1. Base /\ Linking => WaitingIsUnlinked
  BY DEF Base, Shape, Linking, Waits, WaitingIsUnlinked, Invalidated, Reconsidered, Received
<1>2. (Base /\ Counters /\ Busy) /\ Linking /\ [Next]_vars => Linking'
  BY LinkingNext
<1> QED
  BY <1>1, <1>2, LinkingInit, BaseInvariant, PTL DEF Spec
=============================================================================
