------------------------ MODULE ChainSelectionProofs ------------------------
EXTENDS ChainSelectionMarks

(***************************************************************************)
(* The last layer of the inductive invariant of ChainSelection, the set of  *)
(* candidates and the choice among them, and the theorems about the         *)
(* properties that rest on all layers.                                      *)
(***************************************************************************)

-----------------------------------------------------------------------------
(* Kept, Settled and Numbers: the candidates and the choice.               *)

\* An eligible block with nothing below it that fails ConnectBlock.
Good(b) == Eligible(b) /\ Chain[b] \cap world.badConnect = {}

\* The histories of which the choice is exact: no reconsiderblock, nothing pruned,
\* invalidateblock and preciousblock not both, and with several threads neither.
Simple ==
  /\ ~Reconsidered /\ ~fHavePruned
  /\ ~Invalidated \/ calls["precious"] = 0
  /\ Alone \/ (~Invalidated /\ calls["precious"] = 0)

\* An eligible block is a candidate unless a better good one is known, and no
\* candidate sorts before the tip.
Kept ==
  Simple =>
    /\ \A b \in Block : Eligible(b) =>
         b \in candidates \/ \E c \in Block : Good(c) /\ Less(nSequenceId, b, c)
    /\ \A c \in candidates : ~Less(nSequenceId, c, tip)

\* One thread: no eligible block sorts after the kept target, nor after the tip
\* once the thread is done.
Settled ==
  Simple /\ Alone =>
    /\ \A t \in Thread : pindexMostWork[t] # Null =>
         \A b \in Block : Eligible(b) => ~Less(nSequenceId, pindexMostWork[t], b)
    /\ (\A t \in Thread : pc[t] = "idle") =>
         \A b \in Block : Eligible(b) => ~Less(nSequenceId, tip, b)

\* The numbers preciousblock has given away are at or below the work it remembers,
\* and the next one is below all of them unless the last number was reached.
Numbers ==
  Simple /\ Alone /\ ~Invalidated =>
    /\ \A b \in Block : Eligible(b) /\ nSequenceId[b] < 0 => Work[b] <= nLastPreciousChainwork
    /\ \A b \in Block : Eligible(b) /\ Work[b] = nLastPreciousChainwork =>
         \/ nSequenceId[b] > nBlockReverseSequenceId
         \/ nBlockReverseSequenceId = MinSequenceId /\ nSequenceId[b] = MinSequenceId
    /\ \/ nLastPreciousChainwork = 0
       \/ \E c \in Block : Good(c) /\ Work[c] >= nLastPreciousChainwork

\* The last layer.
Choosing == Kept /\ Settled /\ Numbers

\* The tip is a block that can be active.
LEMMA TipGood ==
  ASSUME Base, Marks, Simple
  PROVE  Good(tip) /\ Eligible(tip) /\ tip \in Block
<1>1. MarksInTime
  BY DEF Simple, MarksInTime, Invalidated
<1>2. Chain[tip] \cap failed = {}
  BY <1>1 DEF Marks, ActiveChainValid, Invalid
<1> QED
  BY <1>2 DEF Base, Links, Good, Eligible, Received

\* So is the tip after a step.
LEMMA TipGoodAfter ==
  ASSUME Base', Marks', Simple'
  PROVE  Good(tip)' /\ tip' \in Block
<1>1. MarksInTime'
  BY DEF Simple, MarksInTime, Invalidated
<1>2. Chain[tip'] \cap failed' = {}
  BY <1>1 DEF Marks, ActiveChainValid, Invalid
<1> QED
  BY <1>2 DEF Base, Links, Good, Eligible, Received

\* Nothing on the way to a block without failed ancestors stands against it.
LEMMA EligibleClear ==
  ASSUME Base, Linking, Simple, NEW b \in Block, Eligible(b)
  PROVE  /\ b \in processed /\ b \in chainTx /\ b \notin Invalid /\ Obstacles(b) = {}
         /\ \A o \in Chain[b] : o \notin Invalid /\ o \in data
<1>1. Chain[b] \subseteq processed /\ Chain[b] \cap failed = {} /\ b \in Chain[b]
  BY ChainHolds DEF Eligible, Received
<1>2. data = processed
  BY DEF Base, Shape, Simple
<1>3. \A o \in Chain[b] : o \notin Invalid
  <2> SUFFICES ASSUME NEW o \in Chain[b], o \in Invalid
               PROVE  FALSE
    OBVIOUS
  <2>1. Chain[o] \cap failed # {}
    BY DEF Linking, Failures, Simple
  <2>2. Chain[o] \subseteq Chain[b]
    BY ChainTransitive
  <2> QED
    BY <2>1, <2>2, <1>1
<1>4. b \in chainTx
  BY DEF Linking, Lasting, Simple
<1> QED
  BY <1>1, <1>2, <1>3, <1>4 DEF Obstacles, Path

\* Of the blocks without failed ancestors the best is a candidate.
LEMMA BestEligible ==
  ASSUME Base, Marks, Linking, Kept, Simple
  PROVE  \E m \in candidates :
           /\ m \in Block /\ Eligible(m) /\ Obstacles(m) = {}
           /\ \A b \in Block : Eligible(b) => ~Less(nSequenceId, m, b)
<1> DEFINE E == {b \in index : Eligible(b)}
           m == Best(nSequenceId, E)
<1>1. \A b \in Block : Eligible(b) => b \in E
  BY ChainHolds DEF Eligible, Received, Base, Shape
<1>2. E \subseteq Block /\ IsFiniteSet(E) /\ E # {} /\ (\A b \in E : Eligible(b))
  BY <1>1, TipGood, FS_Subset DEF Base, Shape
<1>3. nSequenceId \in [Block -> Int]
  BY DEF Base, Shape
<1>4. m \in E /\ \A o \in E : ~Less(nSequenceId, m, o)
  BY <1>2, <1>3, BestIn
<1> HIDE DEF E, m
<1>5. m \in Block /\ Eligible(m) /\ Obstacles(m) = {}
  BY <1>2, <1>4, EligibleClear
<1>6. m \in candidates
  <2>1. m \in candidates \/ \E c \in Block : Good(c) /\ Less(nSequenceId, m, c)
    BY <1>5 DEF Kept
  <2> QED
    BY <2>1, <1>1, <1>4 DEF Good
<1> QED
  BY <1>1, <1>4, <1>5, <1>6

\* The history only grows.
LEMMA SimpleGrows ==
  ASSUME Base, world' = world, fHavePruned => fHavePruned',
         calls' = calls \/ \E c \in Command : calls' = [calls EXCEPT ![c] = @ + 1]
  PROVE  /\ Simple' => Simple /\ ~fHavePruned'
         /\ Alone' = Alone
         /\ Invalidated => Invalidated'
<1>1. \A c \in Command : calls[c] \in Nat /\ calls'[c] \in Nat /\ calls'[c] >= calls[c]
  <2>1. calls \in [Command -> Nat]
    BY DEF Base, Shape
  <2> QED
    BY <2>1
<1>2. /\ Invalidated => Invalidated'
      /\ Reconsidered => Reconsidered'
      /\ calls'["precious"] = 0 => calls["precious"] = 0
  BY <1>1 DEF Invalidated, Reconsidered, Command
<1>3. Alone' = Alone
  BY DEF Alone
<1> QED
  BY <1>2, <1>3 DEF Simple

\* A step that moves neither the tip nor a sequence number nor a candidate.
LEMMA ChoosingKeep ==
  ASSUME Choosing, Simple' => Simple, Alone' = Alone, Invalidated => Invalidated',
         processed' = processed, failed \subseteq failed', world' = world,
         \A y \in failed' \ failed : y \in BadContext, processed \cap BadContext = {},
         UNCHANGED <<nSequenceId, candidates, tip, nBlockReverseSequenceId,
                     nLastPreciousChainwork, pindexMostWork>>,
         \A t \in Thread : pc'[t] = "idle" => pc[t] = "idle"
  PROVE  Choosing'
<1>1. \A b \in Block : Eligible(b)' => Eligible(b)
  BY DEF Eligible, Received
<1>2. \A b \in Block : Good(b) => Good(b)'
  BY DEF Good, Eligible, Received
<1>3. Kept'
  BY <1>1, <1>2 DEF Choosing, Kept
<1>4. Settled'
  BY <1>1 DEF Choosing, Settled
<1>5. Numbers'
  BY <1>1, <1>2 DEF Choosing, Numbers
<1> QED
  BY <1>3, <1>4, <1>5 DEF Choosing

\* An iteration of ActivateBestChain: it moves towards the best block there is.
LEMMA ChoosingActivate ==
  ASSUME Base, Busy, Marks, Linking, Choosing, Marks',
         NEW t \in world.threads, ActivateBestChain(t)
  PROVE  Choosing'
<1> DEFINE sel == Target(t)
<1>0. sel = Target(t) /\ t \in Thread
  BY WorldFacts
<1> HIDE DEF sel
<1>1. /\ UNCHANGED <<processed, data, nSequenceId, nBlockReverseSequenceId,
                     nLastPreciousChainwork, fHavePruned, world, calls>>
      /\ Ends(t, sel) \/ \E step, again : Steps(t, sel, step, again)
  BY <1>0, ActivateCases
<1>2. /\ sel.block # Null => Received(sel.block)
      /\ sel.candidates \subseteq candidates
      /\ \A c \in candidates \ sel.candidates :
           \E o \in Chain[c] : o \in Invalid \/ o \notin data
      /\ pindexMostWork[t] # Null => sel.block = pindexMostWork[t]
      /\ pindexMostWork[t] = Null => sel = FindMostWorkChain
  BY <1>0, TargetFacts, ZenonT(40)
<1>3. UNCHANGED <<Simple, Alone, Invalidated>>
  BY <1>1 DEF Simple, Alone, Invalidated, Reconsidered
<1>4. /\ tip \in Block /\ nSequenceId \in [Block -> Int]
      /\ pc \in [Thread -> {"idle", "activate"}]
      /\ pindexMostWork \in [Thread -> Block \cup {Null}]
      /\ candidates \subseteq Block /\ Chain[tip] \subseteq processed
      /\ Simple => data = processed
  BY DEF Base, Shape, Links, Received, Simple
<1>5. ASSUME Simple
      PROVE  \A b \in candidates : Eligible(b) => b \in sel.candidates
  BY ZenonT(40), <1>2, <1>4, <1>5, EligibleClear
<1>6. ASSUME Simple, Alone
      PROVE  sel.block # Null /\ \A b \in Block : Eligible(b) => ~Less(nSequenceId, sel.block, b)
  <2>1. CASE pindexMostWork[t] # Null
    BY ZenonT(40), <2>1, <1>0, <1>2, <1>6 DEF Choosing, Settled
  <2>2. CASE pindexMostWork[t] = Null
    <3>1. PICK m \in candidates :
            /\ m \in Block /\ Obstacles(m) = {}
            /\ \A b \in Block : Eligible(b) => ~Less(nSequenceId, m, b)
      BY <1>6, BestEligible DEF Choosing
    <3>2. sel.block # Null /\ ~Less(nSequenceId, sel.block, m)
      BY <3>1, <2>2, <1>2, SelectFacts
    <3>3. sel.block \in Block
      BY <3>2, <1>2 DEF Received
    <3> QED
      BY ZenonT(40), <3>1, <3>2, <3>3, <1>4, LessOrder
  <2> QED
    BY <2>1, <2>2
<1>7. \A u \in Thread \ {t} : Alone => pindexMostWork[u] = Null
  BY AloneOthers
<1> DEFINE After ==
             /\ failed \subseteq failed'
             /\ \A y \in failed' \ failed : y \in world.badConnect
             /\ Simple => \A b \in candidates \ candidates' :
                            \/ Chain[b] \cap failed' # {}
                            \/ Less(nSequenceId, b, tip')
             /\ Simple => \A c \in candidates' : ~Less(nSequenceId, c, tip')
             /\ Simple /\ Alone => \A u \in Thread : pindexMostWork'[u] # Null =>
                  \A b \in Block : Eligible(b) => ~Less(nSequenceId, pindexMostWork'[u], b)
             /\ Simple /\ Alone /\ (\A u \in Thread : pc'[u] = "idle") =>
                  \A b \in Block : Eligible(b) => ~Less(nSequenceId, tip', b)
<1>8. ASSUME Ends(t, sel)
      PROVE  After
  <2>1. /\ sel.block \in {Null, tip}
        /\ pindexMostWork' = [pindexMostWork EXCEPT ![t] = Null]
        /\ candidates' = sel.candidates /\ tip' = tip /\ failed' = failed
    BY <1>8 DEF Ends
  <2>2. \A u \in Thread : Alone => pindexMostWork'[u] = Null
    BY <2>1, <1>4, <1>7
  <2>3. Simple => \A b \in candidates \ candidates' : Chain[b] \cap failed' # {}
    <3> SUFFICES ASSUME Simple, NEW b \in candidates \ sel.candidates
                 PROVE  Chain[b] \cap failed # {}
      BY <2>1
    <3>1. ~Eligible(b) /\ Received(b)
      BY <1>5 DEF Base, Links
    <3> QED
      BY <3>1 DEF Eligible
  <2>4. Simple => \A c \in candidates' : ~Less(nSequenceId, c, tip')
    BY <2>1, <1>2 DEF Choosing, Kept
  <2>5. Simple /\ Alone => \A b \in Block : Eligible(b) => ~Less(nSequenceId, tip', b)
    BY ZenonT(40), <2>1, <1>6
  <2> QED
    BY ZenonT(40), <2>1, <2>2, <2>3, <2>4, <2>5
<1>9. ASSUME NEW step, NEW again, Steps(t, sel, step, again)
      PROVE  After
  <2>0. /\ sel.block \notin {Null, tip} /\ sel.block \in Block
        /\ step = ActivateBestChainStep(sel.candidates, sel.block)
        /\ again = (~step.abort /\ (step.invalid # {} \/ step.tip # sel.block))
        /\ pc' = [pc EXCEPT ![t] = IF again THEN "activate" ELSE "idle"]
        /\ pindexMostWork' = [pindexMostWork EXCEPT ![t] =
                                IF again /\ step.invalid = {} THEN sel.block ELSE Null]
        /\ tip' = step.tip /\ candidates' = step.candidates
        /\ failed' = failed \cup step.invalid
    BY <1>9, ZenonT(40) DEF Steps
  <2>1. /\ step.invalid \subseteq world.badConnect /\ step.invalid \subseteq Block
        /\ step.tip \in Block
        /\ step.connected = {} => step.tip \in Chain[tip]
        /\ step.candidates \subseteq sel.candidates
        /\ \A c \in sel.candidates \ step.candidates :
             c \in step.invalid \/ Less(nSequenceId, c, step.tip)
        /\ \A c \in step.candidates :
             step.connected = {} \/ ~Less(nSequenceId, c, step.tip)
        /\ Chain[tip] \cup Chain[sel.block] \subseteq data => ~step.abort
    BY <2>0, <1>4, StepFacts, ChainHolds
  <2>2. Simple => \A b \in candidates \ candidates' :
                    \/ Chain[b] \cap failed' # {}
                    \/ Less(nSequenceId, b, tip')
    <3> SUFFICES ASSUME Simple, NEW b \in candidates, b \notin candidates'
                 PROVE  Chain[b] \cap failed' # {} \/ Less(nSequenceId, b, tip')
      BY ZenonT(40)
    <3>1. CASE b \notin sel.candidates
      <4>1. ~Eligible(b) /\ Received(b)
        BY ZenonT(40), <3>1, <1>5 DEF Base, Links, Received
      <4> QED
        BY <4>1, <2>0 DEF Eligible
    <3>2. CASE b \in sel.candidates
      BY ZenonT(40), <3>2, <2>0, <2>1, ChainHolds
    <3> QED
      BY <3>1, <3>2
  <2>3. Simple => \A c \in candidates' : ~Less(nSequenceId, c, tip')
    <3> SUFFICES ASSUME Simple, NEW c \in candidates'
                 PROVE  ~Less(nSequenceId, c, tip')
      BY ZenonT(40)
    <3>1. CASE step.connected # {}
      BY ZenonT(40), <3>1, <2>0, <2>1
    <3>2. CASE step.connected = {}
      <4>1. ~Less(nSequenceId, c, tip) /\ c \in Block
        BY <2>0, <2>1, <1>2, <1>4 DEF Choosing, Kept
      <4>2. tip' = tip \/ Less(nSequenceId, tip', tip)
        BY ZenonT(40), <3>2, <2>0, <2>1, <1>4, ChainWork, LessOrder
      <4>3. /\ tip \in Block /\ tip' \in Block
            /\ \A x, y, z \in Block : Less(nSequenceId, x, y) /\ Less(nSequenceId, y, z) =>
                                       Less(nSequenceId, x, z)
        BY ZenonT(40), <2>0, <2>1, <1>4, LessOrder
      <4> QED
        BY ZenonT(40), <4>1, <4>2, <4>3
    <3> QED
      BY <3>1, <3>2
  <2>4. ASSUME Simple, Alone, NEW u \in Thread, pindexMostWork'[u] # Null
        PROVE  pindexMostWork'[u] = sel.block
    BY <2>4, <2>0, <1>4, <1>7
  <2>5. ASSUME Simple, Alone, \A u \in Thread : pc'[u] = "idle"
        PROVE  tip' = sel.block
    <3>1. ~again
      BY ZenonT(40), <2>5, <2>0, <1>0, <1>4
    <3>2. ~step.abort
      BY ZenonT(40), <2>5, <2>0, <2>1, <1>2, <1>4 DEF Received
    <3> QED
      BY ZenonT(40), <3>1, <3>2, <2>0
  <2>6. Simple /\ Alone => \A b \in Block : Eligible(b) => ~Less(nSequenceId, sel.block, b)
    BY ZenonT(40), <1>6
  <2> QED
    BY <2>0, <2>1, <2>2, <2>3, <2>4, <2>5, <2>6
<1>10. After
  <2> HIDE DEF After
  <2> QED
    BY ZenonT(40), <1>1, <1>8, <1>9
<1>11. \A b \in Block : Eligible(b)' <=> Eligible(b) /\ Chain[b] \cap failed' = {}
  BY ZenonT(40), <1>1, <1>10 DEF Eligible, Received
<1>12. \A b \in Block : Good(b) => Good(b)'
  BY ZenonT(40), <1>1, <1>10 DEF Good, Eligible, Received
<1>13. Simple => Good(tip)' /\ tip' \in Block
  <2>1. Base'
    BY <1>0, BaseActivate
  <2> QED
    BY ZenonT(40), <2>1, <1>3, TipGoodAfter
<1>14. Kept'
  BY ZenonT(40), <1>1, <1>3, <1>10, <1>11, <1>12, <1>13 DEF Choosing, Kept
<1>15. Settled'
  BY ZenonT(40), <1>1, <1>3, <1>10, <1>11 DEF Settled
<1>16. Numbers'
  BY ZenonT(40), <1>1, <1>3, <1>11, <1>12 DEF Choosing, Numbers
<1> QED
  BY <1>14, <1>15, <1>16 DEF Choosing

\* The arrival of a block: what is linked sorts before the tip or is a candidate.
LEMMA ChoosingLink ==
  ASSUME Base, Busy, Marks, Linking, Choosing, Counters, Base', Marks', Linking',
         NEW t \in world.threads, NEW b \in Block \ {Genesis}, NEW fRequested,
         ProcessNewBlock(t, b, fRequested), ~Dropped(b, fRequested), b \notin BadContext
  PROVE  Choosing'
<1>0. t \in Thread
  BY WorldFacts
<1>1. /\ pc[t] = "idle" /\ b \notin data
      /\ data' = data \cup {b} /\ processed' = processed \cup {b}
      /\ pc' = [pc EXCEPT ![t] = "activate"]
      /\ UNCHANGED <<failed, nBlockReverseSequenceId, nLastPreciousChainwork, pindexMostWork,
                     tip, fHavePruned, world, calls>>
      /\ \/ /\ Parent[b] \in chainTx
            /\ chainTx' = chainTx \cup Linked(b)
            /\ candidates' = candidates \cup {d \in Linked(b) : ~Less(nSequenceId', d, tip)}
            /\ \A d \in Block \ Linked(b) : nSequenceId'[d] = nSequenceId[d]
            /\ \A d \in Linked(b) : nSequenceId'[d] \in Nat
         \/ /\ Parent[b] \notin chainTx
            /\ chainTx' = chainTx \ {b}
            /\ nSequenceId' = nSequenceId /\ candidates' = candidates
  BY <1>0, LinkCases, ZenonT(40)
<1>2. UNCHANGED <<Simple, Alone, Invalidated>>
  BY <1>1 DEF Simple, Alone, Invalidated, Reconsidered
<1>3. /\ nSequenceId \in [Block -> Int] /\ nSequenceId' \in [Block -> Int]
      /\ pc \in [Thread -> {"idle", "activate"}] /\ tip \in Block /\ Received(tip)
      /\ Simple => b \notin processed
      /\ \A c \in candidates : Received(c)
  BY ZenonT(40), <1>1 DEF Base, Shape, Links, Received, Simple
<1>4. Linked(b) \subseteq Block /\ \A d \in Linked(b) : b \in Chain[d]
  BY ZenonT(40), LinkFacts
<1>5. Simple => \A d \in Block : Received(d) => nSequenceId'[d] = nSequenceId[d]
  BY ZenonT(40), <1>1, <1>3, <1>4 DEF Received
<1>6. \A d \in Block : /\ Eligible(d) => Eligible(d)'
                       /\ Good(d) => Good(d)'
                       /\ Eligible(d)' /\ Received(d) => Eligible(d)
  BY ZenonT(40), <1>1 DEF Good, Eligible, Received
<1>7. ASSUME Simple, NEW d \in Block, Eligible(d)', ~Received(d)
      PROVE  d \in Linked(b) /\ Parent[b] \in chainTx
  <2>1. d \in chainTx'
    BY ZenonT(40), <1>2, <1>7 DEF Linking, Lasting, Simple
  <2>2. d \notin chainTx
    BY ZenonT(40), <1>7 DEF Base, Links
  <2> QED
    BY ZenonT(40), <2>1, <2>2, <1>1
<1>8. Simple => Good(tip)'
  BY <1>2, TipGoodAfter
<1>9. Simple => \A a, c \in Block : Received(a) /\ Received(c) =>
                  (Less(nSequenceId', a, c) <=> Less(nSequenceId, a, c))
  BY ZenonT(40), <1>5 DEF Less
<1>10. Kept'
  <2> SUFFICES ASSUME Simple
               PROVE  /\ \A d \in Block : Eligible(d)' => d \in candidates'
                            \/ \E c \in Block : Good(c)' /\ Less(nSequenceId', d, c)
                      /\ \A c \in candidates' : ~Less(nSequenceId', c, tip')
    BY ZenonT(40), <1>2 DEF Kept
  <2>1. ASSUME NEW d \in Block, Eligible(d)'
        PROVE  d \in candidates' \/ \E c \in Block : Good(c)' /\ Less(nSequenceId', d, c)
    <3>1. CASE Received(d)
      <4>1. d \in candidates \/ \E c \in Block : Good(c) /\ Less(nSequenceId, d, c)
        BY ZenonT(40), <3>1, <2>1, <1>6 DEF Choosing, Kept
      <4>2. candidates \subseteq candidates'
        BY ZenonT(40), <1>1
      <4> QED
        BY ZenonT(40), <4>1, <4>2, <3>1, <1>6, <1>9 DEF Good, Eligible
    <3>2. CASE ~Received(d)
      <4>1. d \in Linked(b) /\ Parent[b] \in chainTx
        BY ZenonT(40), <3>2, <2>1, <1>7
      <4>2. d \in candidates' \/ Less(nSequenceId', d, tip)
        BY ZenonT(40), <4>1, <1>1
      <4> QED
        BY ZenonT(40), <4>2, <1>1, <1>3, <1>8
    <3> QED
      BY <3>1, <3>2
  <2>2. ASSUME NEW c \in candidates'
        PROVE  ~Less(nSequenceId', c, tip')
    <3>1. CASE c \in candidates
      <4>1. ~Less(nSequenceId, c, tip) /\ Received(c) /\ c \in Block
        BY ZenonT(40), <3>1, <1>3 DEF Choosing, Kept, Received
      <4> QED
        BY ZenonT(40), <4>1, <1>1, <1>3, <1>9
    <3>2. CASE c \notin candidates
      BY ZenonT(40), <3>2, <1>1
    <3> QED
      BY <3>1, <3>2
  <2> QED
    BY <2>1, <2>2
<1>11. Settled'
  <2>1. pc'[t] # "idle"
    BY ZenonT(40), <1>0, <1>1, <1>3
  <2>2. Alone => \A u \in Thread : pindexMostWork'[u] = Null
    BY ZenonT(40), <1>1, AloneIdle
  <2> QED
    BY ZenonT(40), <2>1, <2>2, <1>0, <1>2 DEF Settled
<1>12. Numbers'
  <2> SUFFICES ASSUME Simple, Alone, ~Invalidated
               PROVE  /\ \A d \in Block : Eligible(d)' /\ nSequenceId'[d] < 0
                           => Work[d] <= nLastPreciousChainwork
                      /\ \A d \in Block : Eligible(d)' /\ Work[d] = nLastPreciousChainwork =>
                           \/ nSequenceId'[d] > nBlockReverseSequenceId
                           \/ nBlockReverseSequenceId = MinSequenceId /\ nSequenceId'[d] = MinSequenceId
                      /\ nLastPreciousChainwork = 0
                           \/ \E c \in Block : Good(c)' /\ Work[c] >= nLastPreciousChainwork
    BY ZenonT(40), <1>1, <1>2 DEF Numbers
  <2>1. \A d \in Block : Eligible(d)' => (Eligible(d) /\ nSequenceId'[d] = nSequenceId[d])
                                          \/ nSequenceId'[d] \in Nat
    BY ZenonT(40), <1>1, <1>5, <1>6, <1>7
  <2>2. nBlockReverseSequenceId \in Int /\ nBlockReverseSequenceId < 0
    BY DEF Counters
  <2>3. /\ \A d \in Block : Eligible(d) /\ nSequenceId[d] < 0 => Work[d] <= nLastPreciousChainwork
        /\ \A d \in Block : Eligible(d) /\ Work[d] = nLastPreciousChainwork =>
             \/ nSequenceId[d] > nBlockReverseSequenceId
             \/ nBlockReverseSequenceId = MinSequenceId /\ nSequenceId[d] = MinSequenceId
        /\ nLastPreciousChainwork = 0 \/ \E c \in Block : Good(c) /\ Work[c] >= nLastPreciousChainwork
    BY ZenonT(40) DEF Choosing, Numbers
  <2> QED
    BY <2>1, <2>2, <2>3, <1>6
<1> QED
  BY ZenonT(40), <1>10, <1>11, <1>12 DEF Choosing

\* The number PreciousBlock gives: below the number of every block that sorts with
\* the tip, unless the counter is exhausted.
LEMMA PreciousNumber ==
  ASSUME Base, Marks, Choosing, Counters, Simple, Alone, ~Invalidated,
         \A t \in Thread : pc[t] = "idle",
         NEW d \in Block, Eligible(d), Work[d] = Work[tip]
  PROVE  /\ ReverseSequenceId \in Int /\ ReverseSequenceId < 0 /\ ReverseSequenceId >= MinSequenceId
         /\ \/ nSequenceId[d] > ReverseSequenceId
            \/ ReverseSequenceId = MinSequenceId /\ nSequenceId[d] = MinSequenceId
<1>1. ReverseSequenceId = IF Work[tip] > nLastPreciousChainwork THEN -1
                          ELSE nBlockReverseSequenceId
  BY ZenonT(40) DEF ReverseSequenceId
<1>2. /\ nBlockReverseSequenceId \in Int /\ nBlockReverseSequenceId < 0
      /\ nBlockReverseSequenceId >= MinSequenceId /\ nLastPreciousChainwork \in Nat
      /\ MinSequenceId \in Int /\ MinSequenceId < 0
      /\ \A b \in Block : nSequenceId[b] \in Int /\ Work[b] \in Nat
      /\ tip \in Block /\ nSequenceId \in [Block -> Int]
  BY ZenonT(40), OtherAssumption, TreeAssumption DEF Counters, Base, Shape, Links, Received
<1>3. /\ nSequenceId[d] < 0 => Work[d] <= nLastPreciousChainwork
      /\ Work[d] = nLastPreciousChainwork =>
           \/ nSequenceId[d] > nBlockReverseSequenceId
           \/ nBlockReverseSequenceId = MinSequenceId /\ nSequenceId[d] = MinSequenceId
      /\ nLastPreciousChainwork = 0 \/ \E c \in Block : Good(c) /\ Work[c] >= nLastPreciousChainwork
  BY DEF Choosing, Numbers
<1>4. \A c \in Block : Good(c) => ~(Work[tip] < Work[c])
  BY ZenonT(40), <1>2, LessOrder DEF Choosing, Settled, Good
<1>5. Work[tip] >= nLastPreciousChainwork
  <2>1. CASE nLastPreciousChainwork = 0
    BY <2>1, <1>2
  <2>2. CASE nLastPreciousChainwork # 0
    <3>1. PICK c \in Block : Good(c) /\ Work[c] >= nLastPreciousChainwork
      BY <2>2, <1>3
    <3> QED
      BY <3>1, <1>2, <1>4
  <2> QED
    BY <2>1, <2>2
<1>6. ReverseSequenceId \in Int /\ ReverseSequenceId < 0 /\ ReverseSequenceId >= MinSequenceId
  BY <1>1, <1>2
<1>7. CASE Work[tip] > nLastPreciousChainwork
  <2>1. /\ ReverseSequenceId = -1 /\ nSequenceId[d] \in Int
        /\ nLastPreciousChainwork \in Nat /\ Work[d] \in Nat /\ Work[d] = Work[tip]
        /\ nSequenceId[d] < 0 => Work[d] <= nLastPreciousChainwork
    BY ZenonT(40), <1>1, <1>2, <1>3, <1>7
  <2>2. ~(nSequenceId[d] < 0)
    BY <2>1, <1>7
  <2>3. nSequenceId[d] > ReverseSequenceId
    BY <2>1, <2>2
  <2> QED
    BY ZenonT(40), <2>3, <1>6
<1>8. CASE Work[tip] = nLastPreciousChainwork
  <2>1. nLastPreciousChainwork \in Nat
    BY ZenonT(40), <1>2
  <2>2. ~(Work[tip] > nLastPreciousChainwork)
    BY <2>1, <1>8
  <2>3. ReverseSequenceId = nBlockReverseSequenceId
    BY ZenonT(40), <2>2, <1>1
  <2> QED
    BY ZenonT(40), <2>3, <1>3, <1>6, <1>8
<1>9. Work[tip] > nLastPreciousChainwork \/ Work[tip] = nLastPreciousChainwork
  <2>1. Work[tip] \in Nat /\ nLastPreciousChainwork \in Nat
    BY ZenonT(40), <1>2
  <2> QED
    BY <2>1, <1>5
<1> QED
  BY ZenonT(40), <1>7, <1>8, <1>9

\* preciousblock, from a state in which no block sorts after the tip.
LEMMA ChoosingPrecious ==
  ASSUME Base, Busy, Marks, Linking, Choosing, Counters,
         NEW t \in world.threads, NEW b \in Block, PreciousBlock(t, b)
  PROVE  Choosing'
<1>0. t \in Thread
  BY WorldFacts
<1> DEFINE rev == ReverseSequenceId
           Moves ==
             /\ ~(Work[b] < Work[tip])
             /\ pc' = [pc EXCEPT ![t] = "activate"]
             /\ nLastPreciousChainwork' = Work[tip]
             /\ nSequenceId' = [nSequenceId EXCEPT ![b] = rev]
             /\ nBlockReverseSequenceId' = IF rev > MinSequenceId THEN rev - 1 ELSE rev
             /\ candidates' = IF b \in (processed \cap chainTx) \ Invalid
                              THEN PruneBlockIndexCandidates(nSequenceId', candidates \cup {b}, tip)
                              ELSE candidates \ {b}
<1>1. /\ pc[t] = "idle" /\ calls' = [calls EXCEPT !["precious"] = @ + 1]
      /\ UNCHANGED <<processed, failed, failedParent, pindexMostWork, chainTx, tip, fHavePruned,
                     world>>
      /\ \/ UNCHANGED <<nSequenceId, nBlockReverseSequenceId, nLastPreciousChainwork, candidates, pc>>
         \/ Moves
  BY <1>0, PreciousFacts, ZenonT(40)
<1>2. /\ calls \in [Command -> Nat] /\ processed \cap BadContext = {}
      /\ pc \in [Thread -> {"idle", "activate"}]
      /\ nSequenceId \in [Block -> Int] /\ tip \in Block
      /\ \A d \in Block : nSequenceId[d] \in Int /\ Work[d] \in Nat
  BY ZenonT(40), TreeAssumption DEF Base, Shape, Links, Received
<1>3. /\ Simple' => Simple
      /\ Alone' = Alone
      /\ Invalidated => Invalidated'
  BY ZenonT(40), <1>1, SimpleGrows DEF Command
<1>4. calls'["precious"] # 0 /\ Invalidated' = Invalidated
  BY <1>1, <1>2 DEF Command, Invalidated
<1>5. CASE UNCHANGED <<nSequenceId, nBlockReverseSequenceId, nLastPreciousChainwork, candidates, pc>>
  BY ZenonT(40), <1>1, <1>2, <1>3, <1>5, ChoosingKeep
<1>6. CASE Moves
  <2>1. Simple' => Simple /\ Alone /\ ~Invalidated /\ \A u \in Thread : pc[u] = "idle" /\ pindexMostWork'[u] = Null
    <3>1. Simple' => Simple /\ Alone /\ ~Invalidated
      BY ZenonT(40), <1>3, <1>4 DEF Simple
    <3> QED
      BY ZenonT(40), <3>1, <1>1, AloneIdle
  <2>2. \A d \in Block : (Eligible(d)' <=> Eligible(d)) /\ (Good(d)' <=> Good(d))
    BY ZenonT(40), <1>1 DEF Eligible, Good, Received
  <2>3. ASSUME Simple'
        PROVE  /\ rev \in Int /\ rev < 0 /\ rev >= MinSequenceId
               /\ \A d \in Block : Eligible(d) /\ Work[d] = Work[tip] =>
                    \/ nSequenceId[d] > rev
                    \/ rev = MinSequenceId /\ nSequenceId[d] = MinSequenceId
    <3>1. \A d \in Block : Eligible(d) /\ Work[d] = Work[tip] =>
            /\ rev \in Int /\ rev < 0 /\ rev >= MinSequenceId
            /\ \/ nSequenceId[d] > rev
               \/ rev = MinSequenceId /\ nSequenceId[d] = MinSequenceId
      BY ZenonT(40), <2>1, <2>3, PreciousNumber
    <3> QED
      BY ZenonT(40), <3>1, <2>1, <2>3, TipGood
  <2>4. Simple' => /\ Good(tip) /\ Eligible(tip)
                   /\ \A d \in Block : Eligible(d) => ~Less(nSequenceId, tip, d)
                   /\ tip \in candidates
    <3> SUFFICES ASSUME Simple'
                 PROVE  /\ Good(tip) /\ Eligible(tip)
                        /\ \A d \in Block : Eligible(d) => ~Less(nSequenceId, tip, d)
                        /\ tip \in candidates
      OBVIOUS
    <3>1. Good(tip) /\ Eligible(tip)
      BY ZenonT(40), <2>1, TipGood
    <3>2. \A d \in Block : Eligible(d) => ~Less(nSequenceId, tip, d)
      BY ZenonT(40), <2>1 DEF Choosing, Settled
    <3>3. tip \in candidates \/ \E c \in Block : Good(c) /\ Less(nSequenceId, tip, c)
      BY ZenonT(40), <2>1, <3>1, <1>2 DEF Choosing, Kept
    <3> QED
      BY ZenonT(40), <3>1, <3>2, <3>3 DEF Good
  <2> HIDE DEF rev
  <2>m. /\ pc' = [pc EXCEPT ![t] = "activate"]
        /\ nLastPreciousChainwork' = Work[tip]
        /\ nSequenceId' = [nSequenceId EXCEPT ![b] = rev]
        /\ nBlockReverseSequenceId' = IF rev > MinSequenceId THEN rev - 1 ELSE rev
        /\ candidates' = IF b \in (processed \cap chainTx) \ Invalid
                         THEN PruneBlockIndexCandidates(nSequenceId', candidates \cup {b}, tip)
                         ELSE candidates \ {b}
    BY ZenonT(40), <1>6
  <2> HIDE DEF Moves
  <2>5. /\ nSequenceId'[b] = rev
        /\ \A d \in Block \ {b} : nSequenceId'[d] = nSequenceId[d]
    BY ZenonT(40), <2>m, <1>2
  <2>6. /\ b \in (processed \cap chainTx) \ Invalid =>
             \A c : c \in candidates' <=> (c \in candidates \/ c = b) /\ ~Less(nSequenceId', c, tip)
        /\ b \notin (processed \cap chainTx) \ Invalid => candidates' = candidates \ {b}
    BY ZenonT(40), <2>m DEF PruneBlockIndexCandidates
  <2>7. Simple' => /\ nSequenceId' \in [Block -> Int]
                   /\ Eligible(b) => b \in (processed \cap chainTx) \ Invalid
    BY ZenonT(40), <2>m, <2>1, <2>3, <1>2, EligibleClear
  <2>8. Kept'
    <3> SUFFICES ASSUME Simple'
                 PROVE  /\ \A d \in Block : Eligible(d) => d \in candidates'
                             \/ \E c \in Block : Good(c) /\ Less(nSequenceId', d, c)
                        /\ \A c \in candidates' : ~Less(nSequenceId', c, tip)
      BY ZenonT(40), <2>2, <1>1 DEF Kept
    <3>1. ASSUME NEW d \in Block, Eligible(d)
          PROVE  d \in candidates' \/ Less(nSequenceId', d, tip)
      <4>1. d = tip \/ Less(nSequenceId, d, tip)
        BY ZenonT(40), <3>1, <2>4, <1>2, LessOrder
      <4>2. CASE d = b
        BY ZenonT(40), <4>2, <3>1, <2>6, <2>7
      <4>3. CASE d # b /\ b # tip
        <5>1. Less(nSequenceId, d, tip) => Less(nSequenceId', d, tip)
          BY ZenonT(40), <4>3, <2>5, <1>2 DEF Less
        <5>2. ~Less(nSequenceId', tip, tip)
          BY ZenonT(40), <2>7, <1>2, LessOrder
        <5> QED
          BY ZenonT(40), <5>1, <5>2, <4>1, <4>3, <2>4, <2>6
      <4>4. CASE d # b /\ b = tip
        <5>1. rev <= nSequenceId[tip] /\ rev \in Int
          <6>1. /\ rev \in Int /\ nSequenceId[tip] \in Int
                /\ nSequenceId[tip] > rev \/ (rev = MinSequenceId /\ nSequenceId[tip] = MinSequenceId)
            BY ZenonT(40), <2>3, <2>4, <1>2
          <6> QED
            BY <6>1
        <5>2. Less(nSequenceId, d, tip)
          BY ZenonT(40), <4>1, <4>4
        <5>3. /\ nSequenceId'[tip] = rev /\ nSequenceId'[d] = nSequenceId[d]
              /\ nSequenceId[tip] \in Int /\ nSequenceId[d] \in Int
          BY ZenonT(40), <4>4, <2>5, <1>2
        <5>4. /\ nSequenceId[d] > nSequenceId[tip] => nSequenceId'[d] > nSequenceId'[tip]
              /\ nSequenceId[d] = nSequenceId[tip] =>
                   nSequenceId'[d] > nSequenceId'[tip] \/ nSequenceId'[d] = nSequenceId'[tip]
          BY <5>1, <5>3
        <5> QED
          BY ZenonT(40), <5>2, <5>4 DEF Less
      <4> QED
        BY ZenonT(40), <4>2, <4>3, <4>4
    <3>2. ASSUME NEW c \in candidates'
          PROVE  ~Less(nSequenceId', c, tip)
      <4>1. CASE b \in (processed \cap chainTx) \ Invalid
        BY <4>1, <2>6
      <4>2. CASE b \notin (processed \cap chainTx) \ Invalid
        <5>1. b # tip /\ c \in candidates /\ c # b
          BY ZenonT(40), <4>2, <2>4, <2>6, <2>7
        <5>2. ~Less(nSequenceId, c, tip) /\ c \in Block
          BY ZenonT(40), <5>1, <2>1 DEF Choosing, Kept, Base, Links, Received
        <5> QED
          BY ZenonT(40), <5>1, <5>2, <2>5, <1>2 DEF Less
      <4> QED
        BY <4>1, <4>2
    <3> QED
      BY ZenonT(40), <3>1, <3>2, <2>4, <1>2
  <2>9. Settled'
    <3>1. pc'[t] # "idle"
      BY ZenonT(40), <2>m, <1>0, <1>2
    <3> QED
      BY ZenonT(40), <3>1, <2>1, <1>0 DEF Settled
  <2>10. Numbers'
    <3> SUFFICES ASSUME Simple'
                 PROVE  /\ \A d \in Block : Eligible(d) => Work[d] <= Work[tip]
                        /\ \A d \in Block : Eligible(d) /\ Work[d] = Work[tip] =>
                             \/ nSequenceId'[d] > nBlockReverseSequenceId'
                             \/ nBlockReverseSequenceId' = MinSequenceId /\ nSequenceId'[d] = MinSequenceId
                        /\ Good(tip)
      <4>1. Work[tip] \in Nat /\ Work[tip] >= Work[tip] /\ tip \in Block
        BY <1>2
      <4> QED
        BY ZenonT(40), <4>1, <2>2, <2>m, <1>1 DEF Numbers
    <3>1. \A d \in Block : Eligible(d) => Work[d] <= Work[tip]
      <4>1. \A d \in Block : Eligible(d) => ~(Work[tip] < Work[d])
        BY ZenonT(40), <2>4, <1>2, LessOrder
      <4> QED
        BY <4>1, <1>2
    <3>2. MinSequenceId \in Int
      BY OtherAssumption
    <3>3. /\ nBlockReverseSequenceId' \in Int /\ nBlockReverseSequenceId' <= rev
          /\ rev > MinSequenceId => nBlockReverseSequenceId' < rev
          /\ rev = MinSequenceId => nBlockReverseSequenceId' = MinSequenceId
      BY <2>3, <2>m, <3>2
    <3>4. ASSUME NEW d \in Block, Eligible(d), Work[d] = Work[tip]
          PROVE  \/ nSequenceId'[d] > nBlockReverseSequenceId'
                 \/ nBlockReverseSequenceId' = MinSequenceId /\ nSequenceId'[d] = MinSequenceId
      <4>1. CASE d = b
        <5>1. nSequenceId'[d] = rev /\ rev \in Int /\ rev >= MinSequenceId
          BY ZenonT(40), <4>1, <2>3, <2>5
        <5> QED
          BY <5>1, <3>2, <3>3
      <4>2. CASE d # b
        <5>1. /\ nSequenceId'[d] = nSequenceId[d] /\ nSequenceId[d] \in Int
              /\ rev \in Int /\ rev >= MinSequenceId
              /\ nSequenceId[d] > rev \/ (rev = MinSequenceId /\ nSequenceId[d] = MinSequenceId)
          BY ZenonT(40), <4>2, <3>4, <2>3, <2>5, <1>2
        <5> QED
          BY <5>1, <3>2, <3>3
      <4> QED
        BY ZenonT(40), <4>1, <4>2
    <3> QED
      BY ZenonT(40), <3>1, <3>4, <2>4
  <2> QED
    BY ZenonT(40), <2>8, <2>9, <2>10 DEF Choosing
<1> QED
  BY <1>1, <1>5, <1>6

\* invalidateblock puts back every block that can be active and does not sort
\* before the new tip.
LEMMA ChoosingInvalidate ==
  ASSUME Base, Busy, Marks, Linking, Choosing, Base', Marks', Linking',
         NEW t \in world.threads, NEW b \in Block \ {Genesis}, InvalidateBlock(t, b)
  PROVE  Choosing'
<1>0. t \in Thread
  BY WorldFacts
<1>1. /\ pc[t] = "idle" /\ calls' = [calls EXCEPT !["invalidate"] = @ + 1]
      /\ failed' = failed \cup {b} /\ tip' \in Chain[tip]
      /\ ~fHavePruned => /\ pc' = [pc EXCEPT ![t] = "activate"]
                         /\ Revived(tip', failed' \cup failedParent') \subseteq candidates'
                         /\ candidates' \subseteq candidates \cup Revived(tip', failed' \cup failedParent')
      /\ UNCHANGED <<processed, nSequenceId, pindexMostWork, chainTx, fHavePruned, world>>
  BY <1>0, InvalidateFacts, ZenonT(40)
<1>2. /\ calls \in [Command -> Nat] /\ pc \in [Thread -> {"idle", "activate"}]
      /\ nSequenceId \in [Block -> Int] /\ tip \in Block /\ candidates \subseteq Block
  BY ZenonT(40) DEF Base, Shape, Links, Received
<1>3. /\ Simple' => Simple /\ ~fHavePruned
      /\ Alone' = Alone
  BY ZenonT(40), <1>1, SimpleGrows DEF Command
<1>4. Invalidated'
  BY <1>1, <1>2 DEF Command, Invalidated
<1>5. Simple' => Alone
  BY ZenonT(40), <1>3, <1>4 DEF Simple
<1>6. Numbers'
  BY ZenonT(40), <1>4 DEF Numbers
<1>7. Settled'
  <2> SUFFICES ASSUME Simple', Alone'
               PROVE  pc'[t] # "idle" /\ \A u \in Thread : pindexMostWork'[u] = Null
    BY ZenonT(40), <1>0 DEF Settled
  <2>1. pc'[t] # "idle"
    BY ZenonT(40), <1>0, <1>1, <1>2, <1>3
  <2> QED
    BY ZenonT(40), <2>1, <1>1, <1>3, AloneIdle
<1>8. Kept'
  <2> SUFFICES ASSUME Simple'
               PROVE  /\ \A d \in Block : Eligible(d)' => d \in candidates'
                            \/ \E c \in Block : Good(c)' /\ Less(nSequenceId, d, c)
                      /\ \A c \in candidates' : ~Less(nSequenceId, c, tip')
    BY ZenonT(40), <1>1 DEF Kept
  <2>1. Good(tip)' /\ tip' \in Block
    BY ZenonT(40), TipGoodAfter
  <2>2. \A c : c \in Revived(tip', failed' \cup failedParent') <=>
          c \in processed /\ c \in chainTx /\ c \notin Invalid' /\ ~Less(nSequenceId, c, tip')
    BY ZenonT(40) DEF Revived, Invalid
  <2>3. ASSUME NEW d \in Block, Eligible(d)'
        PROVE  d \in candidates' \/ Less(nSequenceId, d, tip')
    <3>1. d \in chainTx'
      BY ZenonT(40), <2>3 DEF Linking, Lasting, Simple
    <3>2. d \notin Invalid'
      BY ZenonT(40), <2>3 DEF Linking, Failures, Simple, Eligible
    <3>3. d \in processed
      BY ZenonT(40), <2>3, <1>1, ChainHolds DEF Eligible, Received
    <3> QED
      BY ZenonT(40), <3>1, <3>2, <3>3, <2>2, <1>1, <1>3
  <2>4. ASSUME NEW c \in candidates'
        PROVE  ~Less(nSequenceId, c, tip')
    <3>1. CASE c \in candidates
      <4>1. ~Less(nSequenceId, c, tip) /\ c \in Block
        BY <3>1, <1>2, <1>3 DEF Choosing, Kept
      <4>2. tip' = tip \/ Less(nSequenceId, tip', tip)
        BY ZenonT(40), <2>1, <1>1, <1>2, ChainWork, LessOrder
      <4> QED
        BY ZenonT(40), <4>1, <4>2, <2>1, <1>2, LessOrder
    <3>2. CASE c \notin candidates
      BY ZenonT(40), <3>2, <2>2, <1>1, <1>3
    <3> QED
      BY <3>1, <3>2
  <2> QED
    BY ZenonT(40), <2>1, <2>3, <2>4
<1> QED
  BY ZenonT(40), <1>6, <1>7, <1>8 DEF Choosing

\* A restart computes the candidates from what has been received.
LEMMA ChoosingRestart ==
  ASSUME Base, Base', Marks', Linking', NEW t \in Thread, Restart(t)
  PROVE  Choosing'
<1>1. /\ nSequenceId' = [b \in Block |-> 0]
      /\ nBlockReverseSequenceId' = -1 /\ nLastPreciousChainwork' = 0
      /\ \A b : b \in chainTx' <=> b \in processed /\ Chain[b] \subseteq processed
      /\ \A b : b \in candidates' <=>
           /\ b \in chainTx' /\ b \notin failed /\ b \notin failedParent'
           /\ ~Less(nSequenceId', b, tip)
      /\ pc' = [u \in Thread |-> IF u = t THEN "activate" ELSE "idle"]
      /\ pindexMostWork' = [u \in Thread |-> Null]
      /\ UNCHANGED <<processed, failed, tip, fHavePruned, world>>
  BY RestartFacts, ZenonT(40)
<1>2. Kept'
  <2> SUFFICES ASSUME Simple'
               PROVE  /\ \A d \in Block : Eligible(d)' => d \in candidates'
                            \/ \E c \in Block : Good(c)' /\ Less(nSequenceId', d, c)
                      /\ \A c \in candidates' : ~Less(nSequenceId', c, tip')
    BY DEF Kept
  <2>1. Good(tip)' /\ tip' \in Block
    BY ZenonT(40), TipGoodAfter
  <2>2. ASSUME NEW d \in Block, Eligible(d)'
        PROVE  d \in candidates' \/ Less(nSequenceId', d, tip')
    <3>1. d \in chainTx'
      BY ZenonT(40), <2>2, <1>1, ChainHolds DEF Eligible, Received
    <3>2. d \notin Invalid'
      BY ZenonT(40), <2>2 DEF Linking, Failures, Simple, Eligible
    <3> QED
      BY ZenonT(40), <3>1, <3>2, <1>1 DEF Invalid
  <2> QED
    BY ZenonT(40), <2>1, <2>2, <1>1
<1>3. Settled'
  BY ZenonT(40), <1>1 DEF Settled
<1>4. Numbers'
  BY <1>1 DEF Numbers
<1> QED
  BY <1>2, <1>3, <1>4 DEF Choosing

\* Every step.
LEMMA ChoosingNext ==
  /\ Base /\ Counters /\ Busy /\ Marks /\ Linking /\ Choosing
  /\ Base' /\ Marks' /\ Linking' /\ [Next]_vars
  => Choosing'
<1> SUFFICES ASSUME Base, Counters, Busy, Marks, Linking, Choosing,
                    Base', Marks', Linking', [Next]_vars
             PROVE  Choosing'
  BY ZenonT(40)
<1>0. calls \in [Command -> Nat] /\ processed \cap BadContext = {}
  BY DEF Base, Shape
<1>1. CASE UNCHANGED vars
  <2>1. UNCHANGED <<processed, failed, world, calls, fHavePruned, nSequenceId, candidates, tip,
                    nBlockReverseSequenceId, nLastPreciousChainwork, pindexMostWork, pc>>
    BY <1>1 DEF vars, status, sequence, threads
  <2>2. (Simple' => Simple) /\ Alone' = Alone /\ (Invalidated => Invalidated')
    BY <2>1, SimpleGrows
  <2> QED
    BY ZenonT(40), <2>1, <2>2, <1>0, ChoosingKeep
<1>2. CASE Next
  <2>1. PICK t \in world.threads :
           \/ ActivateBestChain(t)
           \/ Restart(t)
           \/ \E b \in Block \ {Genesis} :
                \/ ProcessNewBlockHeaders(t, b)
                \/ \E fRequested \in BOOLEAN : ProcessNewBlock(t, b, fRequested)
                \/ InvalidateBlock(t, b)
                \/ ReconsiderBlock(t, b)
           \/ \E b \in Block : PreciousBlock(t, b) \/ PruneOneBlockFile(t, b)
    BY <1>2, NextCases, ZenonT(40)
  <2>2. t \in Thread
    BY WorldFacts
  <2>3. CASE ActivateBestChain(t)
    BY ZenonT(40), <2>3, ChoosingActivate
  <2>4. CASE Restart(t)
    BY ZenonT(40), <2>2, <2>4, ChoosingRestart
  <2>5. ASSUME NEW b \in Block \ {Genesis}, ProcessNewBlockHeaders(t, b)
        PROVE  Choosing'
    <3>1. UNCHANGED <<processed, failed, world, calls, fHavePruned, nSequenceId, candidates, tip,
                      nBlockReverseSequenceId, nLastPreciousChainwork, pindexMostWork, pc>>
      BY ZenonT(40), <2>5 DEF ProcessNewBlockHeaders, status, sequence, threads
    <3>2. (Simple' => Simple) /\ Alone' = Alone /\ (Invalidated => Invalidated')
      BY ZenonT(40), <3>1, SimpleGrows
    <3> QED
      BY <3>1, <3>2, <1>0, ChoosingKeep
  <2>6. ASSUME NEW b \in Block \ {Genesis}, NEW fRequested \in BOOLEAN,
               ProcessNewBlock(t, b, fRequested)
        PROVE  Choosing'
    <3>1. CASE ~Dropped(b, fRequested) /\ b \notin BadContext
      BY <2>6, <3>1, ChoosingLink
    <3>2. CASE Dropped(b, fRequested) \/ b \in BadContext
      <4>1. /\ UNCHANGED <<processed, world, calls, fHavePruned, nSequenceId, candidates, tip,
                           nBlockReverseSequenceId, nLastPreciousChainwork, pindexMostWork>>
            /\ failed' = failed \/ (failed' = failed \cup {b} /\ b \in BadContext)
            /\ pc' = pc \/ pc' = [pc EXCEPT ![t] = "activate"]
        BY ZenonT(40), <2>6, <3>2 DEF ProcessNewBlock, status, Activate
      <4>2. (Simple' => Simple) /\ Alone' = Alone /\ (Invalidated => Invalidated')
        BY ZenonT(40), <4>1, SimpleGrows
      <4>3. failed \subseteq failed' /\ \A y \in failed' \ failed : y \in BadContext
        BY ZenonT(40), <4>1
      <4>4. \A u \in Thread : pc'[u] = "idle" => pc[u] = "idle"
        BY ZenonT(40), <4>1, <2>2 DEF Base, Shape
      <4> QED
        BY ZenonT(40), <4>1, <4>2, <4>3, <4>4, <1>0, ChoosingKeep
    <3> QED
      BY ZenonT(40), <3>1, <3>2
  <2>7. ASSUME NEW b \in Block \ {Genesis}, InvalidateBlock(t, b)
        PROVE  Choosing'
    BY <2>7, ChoosingInvalidate
  <2>8. ASSUME NEW b \in Block \ {Genesis}, ReconsiderBlock(t, b)
        PROVE  Choosing'
    <3>1. calls' = [calls EXCEPT !["reconsider"] = @ + 1]
      BY ZenonT(40), <2>8 DEF ReconsiderBlock, Call
    <3>2. ~Simple'
      BY <3>1, <1>0 DEF Reconsidered, Simple, Command
    <3> QED
      BY ZenonT(40), <3>2 DEF Choosing, Kept, Settled, Numbers
  <2>9. ASSUME NEW b \in Block, PreciousBlock(t, b)
        PROVE  Choosing'
    BY <2>9, ChoosingPrecious
  <2>10. ASSUME NEW b \in Block, PruneOneBlockFile(t, b)
         PROVE  Choosing'
    <3>1. ~Simple'
      BY <2>10 DEF PruneOneBlockFile, Simple
    <3> QED
      BY ZenonT(40), <3>1 DEF Choosing, Kept, Settled, Numbers
  <2> QED
    BY <2>1, <2>3, <2>4, <2>5, <2>6, <2>7, <2>8, <2>9, <2>10, ZenonT(40)
<1> QED
  BY <1>1, <1>2

\* The initial state.
LEMMA ChoosingInit ==
  Init => Choosing
<1> SUFFICES ASSUME Init
             PROVE  Choosing
  BY ZenonT(40)
<1>1. \A b \in Block : Received(b) => b = Genesis
  BY ZenonT(40), ChainHolds DEF Init, Received
<1>2. nSequenceId \in [Block -> Int] /\ Genesis \in Block
  BY TreeAssumption DEF Init
<1>3. ~Less(nSequenceId, Genesis, Genesis)
  BY ZenonT(40), <1>2, LessOrder
<1>4. Kept
  BY ZenonT(40), <1>1, <1>3 DEF Init, Kept, Eligible
<1>5. Settled
  BY ZenonT(40), <1>1, <1>3 DEF Init, Settled, Eligible
<1>6. Numbers
  BY <1>1, <1>2 DEF Init, Numbers, Eligible
<1> QED
  BY <1>4, <1>5, <1>6 DEF Choosing

\* The layers together.
AllLayers == Base /\ Counters /\ Busy /\ Marks /\ Linking /\ Choosing

\* They hold in every state.
THEOREM AllLayersHold ==
  Spec => []AllLayers
<1>1. Init => AllLayers
  <2> SUFFICES ASSUME Init
               PROVE  Counters /\ Busy /\ Marks
    BY ZenonT(40), BaseInit, LinkingInit, ChoosingInit DEF AllLayers
  <2>1. Counters
    BY OtherAssumption DEF Init, Counters
  <2>2. Busy
    BY DEF Init, Busy
  <2>3. Marks
    BY ZenonT(40), TreeAssumption DEF Init, Marks, ActiveChainValid, Invalid
  <2> QED
    BY <2>1, <2>2, <2>3
<1>2. AllLayers /\ [Next]_vars => AllLayers'
  BY ZenonT(40), BaseNext, BusyNext, MarksNext, LinkingNext, ChoosingNext DEF AllLayers
<1> QED
  BY <1>1, <1>2, PTL DEF Spec

\* setBlockIndexCandidates is what CheckBlockIndex asserts of it, as long as no
\* block has been pruned: complete and sound between the calls of one thread, and
\* never empty, with any number of threads if they only bring blocks.
THEOREM CandidatesAreExact ==
  Spec => [](~fHavePruned => CandidatesExact)
<1>1. AllLayers => (~fHavePruned => CandidatesExact)
  <2> SUFFICES ASSUME AllLayers, ~fHavePruned, Undisturbed
               PROVE  /\ Alone \/ calls["invalidate"] + calls["precious"] = 0 => HasCandidate
                      /\ Alone => CandidatesComplete /\ CandidatesSound
    BY DEF CandidatesExact
  <2>0. /\ Base /\ Counters /\ Busy /\ Marks /\ Linking /\ Kept /\ Settled
        /\ nSequenceId \in [Block -> Int] /\ index \subseteq Block
    BY DEF AllLayers, Choosing, Base, Shape
  <2>1. ASSUME Alone \/ calls["invalidate"] + calls["precious"] = 0
        PROVE  Simple
    <3>1. calls["invalidate"] \in Nat /\ calls["precious"] \in Nat
      BY <2>0 DEF Base, Shape, Command
    <3> QED
      BY <2>1, <3>1 DEF Undisturbed, Simple, Invalidated, Reconsidered
  <2>2. Simple => HasCandidate
    BY <2>0, BestEligible DEF HasCandidate
  <2>3. ASSUME Alone, Quiet, NEW b \in index, ~Less(nSequenceId, b, tip),
               Chain[b] \subseteq processed, Chain[b] \cap failed = {}
        PROVE  b \in candidates
    <3>1. Simple /\ Eligible(b) /\ b \in Block /\ tip \in Block
      BY ZenonT(40), <2>0, <2>1, <2>3, TipGood DEF Eligible, Received
    <3>2. b \in candidates \/ \E c \in Block : Good(c) /\ Less(nSequenceId, b, c)
      BY ZenonT(40), <3>1, <2>0 DEF Kept
    <3>3. \A c \in Block : Good(c) => ~Less(nSequenceId, tip, c)
      BY ZenonT(40), <3>1, <2>0, <2>3 DEF Settled, Quiet, Good
    <3> QED
      BY ZenonT(40), <3>1, <3>2, <3>3, <2>0, <2>3, LessOrder
  <2>4. Alone => CandidatesComplete
    BY ZenonT(40), <2>3 DEF CandidatesComplete
  <2>5. Alone => CandidatesSound
    BY ZenonT(40), <2>0, <2>1 DEF CandidatesSound, Kept, Base, Links, Received
  <2> QED
    BY ZenonT(40), <2>1, <2>2, <2>4, <2>5
<1> QED
  BY <1>1, AllLayersHold, PTL

\* ActivateBestChain, called by one thread at a time, leaves the best valid block
\* active, as long as no block has been pruned.
THEOREM MostWorkIsActive ==
  Spec => [](~fHavePruned => MostWorkActiveAlone)
<1>1. AllLayers => (~fHavePruned => MostWorkActiveAlone)
  <2> SUFFICES ASSUME AllLayers, ~fHavePruned, Undisturbed, Alone, Quiet, NEW b \in index,
                      Chain[b] \subseteq processed, Chain[b] \cap Invalid = {}
               PROVE  ~Less(nSequenceId, tip, b)
    BY DEF MostWorkActiveAlone, MostWorkActive
  <2>1. Simple
    BY ZenonT(40) DEF Undisturbed, Simple, Invalidated, Reconsidered
  <2>2. b \in Block /\ Eligible(b)
    BY DEF AllLayers, Base, Shape, Eligible, Received, Invalid
  <2> QED
    BY ZenonT(40), <2>1, <2>2 DEF AllLayers, Choosing, Settled, Quiet
<1> QED
  BY <1>1, AllLayersHold, PTL

\* A received block is never lost while no block has been pruned.
THEOREM WaitingIsNotLost ==
  Spec => [](~fHavePruned => WaitingIsRemembered)
<1>1. AllLayers => (~fHavePruned => MissingIsRemembered)
  BY DEF AllLayers, Base, Shape, MissingIsRemembered
<1>2. WaitingIsUnlinked /\ (~fHavePruned => MissingIsRemembered)
        => (~fHavePruned => WaitingIsRemembered)
  BY ZenonT(40) DEF WaitingIsRemembered
<1> QED
  BY <1>1, <1>2, WaitingIsInUnlinked, AllLayersHold, PTL

\* The step of PreciousOverrides: a block made precious that can be active sorts
\* after a tip of its work, unless the counter is exhausted.
LEMMA PreciousSortsAfter ==
  ASSUME AllLayers, Undisturbed, Alone, ~Invalidated, ~fHavePruned,
         NEW t \in world.threads, NEW b \in (processed \cap chainTx) \ (Invalid \cup {tip}),
         PreciousBlock(t, b), Work[b] = Work[tip], nSequenceId'[b] > MinSequenceId
  PROVE  Less(nSequenceId', tip, b)
<1>1. Base /\ Busy /\ Marks /\ Choosing /\ Counters
  BY DEF AllLayers
<1>2. Simple
  BY ZenonT(40) DEF Undisturbed, Simple, Invalidated, Reconsidered
<1>3. b \in Block /\ t \in Thread /\ nSequenceId \in [Block -> Int] /\ MinSequenceId \in Int
  BY ZenonT(40), <1>1, WorldFacts, OtherAssumption DEF Base, Shape
<1>4. pc[t] = "idle" /\ tip \in Block /\ Eligible(tip) /\ ~(Work[b] < Work[tip])
  <2>1. pc[t] = "idle"
    BY ZenonT(40), <1>1, <1>3, PreciousFacts
  <2>2. tip \in Block /\ Eligible(tip)
    BY ZenonT(40), <1>1, <1>2, TipGood
  <2>3. Work[b] \in Nat
    BY <1>3, TreeAssumption
  <2> QED
    BY <2>1, <2>2, <2>3
<1>5. \A u \in Thread : pc[u] = "idle"
  BY ZenonT(40), <1>1, <1>4, AloneIdle
<1>6. /\ ReverseSequenceId \in Int /\ ReverseSequenceId >= MinSequenceId
      /\ \/ nSequenceId[tip] > ReverseSequenceId
         \/ ReverseSequenceId = MinSequenceId /\ nSequenceId[tip] = MinSequenceId
  BY ZenonT(40), <1>1, <1>2, <1>4, <1>5, PreciousNumber
<1>7. nSequenceId' = [nSequenceId EXCEPT ![b] = ReverseSequenceId]
  BY ZenonT(40), <1>1, <1>3, <1>4, PreciousFacts
<1>8. nSequenceId'[b] = ReverseSequenceId /\ nSequenceId'[tip] = nSequenceId[tip]
  BY ZenonT(40), <1>3, <1>4, <1>7
<1> QED
  BY ZenonT(40), <1>3, <1>6, <1>8 DEF Less

\* preciousblock overrides the effects of earlier calls, as validation.h promises,
\* as long as no block has been pruned.
THEOREM PreciousOverridesEarlier ==
  Spec => [][~fHavePruned /\ Undisturbed /\ Alone /\ calls["invalidate"] = 0 => OverridesTip]_vars
<1>1. AllLayers /\ AllLayers' /\ [Next]_vars =>
        [~fHavePruned /\ Undisturbed /\ Alone /\ calls["invalidate"] = 0 => OverridesTip]_vars
  <2> SUFFICES ASSUME AllLayers, Busy', ~fHavePruned, Undisturbed, Alone, ~Invalidated,
                      NEW b \in (processed \cap chainTx) \ (Invalid \cup {tip}),
                      NEW t \in Thread, PreciousBlock(t, b), Work[b] = Work[tip],
                      nSequenceId'[b] > MinSequenceId
               PROVE  Less(nSequenceId', tip, b)
    BY ZenonT(40) DEF OverridesTip, AllLayers, Invalidated
  <2>1. Base /\ b \in Block /\ pc \in [Thread -> {"idle", "activate"}]
    BY ZenonT(40) DEF AllLayers, Base, Shape
  <2>2. Work[b] \in Nat /\ ~(Work[b] < Work[tip])
    BY <2>1, TreeAssumption
  <2>3. pc' = [pc EXCEPT ![t] = "activate"] /\ world' = world
    BY <2>1, <2>2, PreciousFacts, ZenonT(40)
  <2>4. t \in world.threads
    BY <2>1, <2>3 DEF Busy
  <2> QED
    BY ZenonT(40), <2>4, PreciousSortsAfter
<1> QED
  BY <1>1, AllLayersHold, PTL DEF Spec
=============================================================================
