------------------------ MODULE ChainSelectionFacts -------------------------
EXTENDS ChainSelection, FiniteSetTheorems, WellFoundedInduction, TLAPS

(***************************************************************************)
(* What the proofs about ChainSelection rest on: the tree of blocks and the *)
(* order of the candidates, the first layer of the inductive invariant, and *)
(* for each handler the facts about its step that the other layers use.     *)
(***************************************************************************)

-----------------------------------------------------------------------------
(***************************************************************************)
(* The tree of blocks.                                                     *)
(***************************************************************************)

\* Every non-empty set of naturals has a least element: what the proofs below
\* use in place of induction.
LEMMA NatMin ==
  ASSUME NEW T, T \subseteq Nat, T # {}
  PROVE  \E x \in T : \A y \in T : x <= y
<1> DEFINE R == OpToRel(<, Nat)
<1>1. \A y, x \in Nat : <<y, x>> \in R <=> y < x
  BY SMT DEF OpToRel
<1>2. IsWellFoundedOn(R, Nat)
  BY NatLessThanWellFounded, Zenon
<1> HIDE DEF R
<1>3. \E x \in T : \A y \in T : ~ (<<y, x>> \in R)
  BY WFMin, <1>2, Zenon
<1>4. PICK x \in T : \A y \in T : ~(<<y, x>> \in R)
  BY <1>3
<1>5. \A y \in T : ~(y < x)
  BY ZenonT(40), <1>1, <1>4
<1> QED
  BY <1>5

\* Heights are naturals and grow by one from a block to the next.
LEMMA HeightStep ==
  /\ \A b \in Block : Height(b) \in Nat
  /\ Height(Genesis) = 0
  /\ \A b \in Block \ {Genesis} : Parent[b] \in Block /\ Height(b) = Height(Parent[b]) + 1
<1>1. \A b \in Block : IsFiniteSet(Chain[b])
  BY TreeAssumption
<1>2. \A b \in Block : b \in Chain[b]
  BY TreeAssumption
<1>3. \A b \in Block : Height(b) \in Nat
  <2> TAKE b \in Block
  <2>1. Cardinality(Chain[b]) \in Nat
    BY <1>1, FS_CardinalityType
  <2>2. Cardinality(Chain[b]) # 0
    BY <1>1, <1>2, FS_EmptySet
  <2> QED
    BY <2>1, <2>2 DEF Height
<1>4. Height(Genesis) = 0
  <2>1. Cardinality({Genesis}) = 1
    BY FS_Singleton
  <2> QED
    BY <2>1, TreeAssumption DEF Height
<1>5. ASSUME NEW b \in Block \ {Genesis}
      PROVE  Parent[b] \in Block /\ Height(b) = Height(Parent[b]) + 1
  <2>1. Parent[b] \in Block
    BY TreeAssumption
  <2>2. Chain[b] = Chain[Parent[b]] \cup {b} /\ b \notin Chain[Parent[b]]
    BY TreeAssumption
  <2>3. Cardinality(Chain[Parent[b]] \cup {b}) = Cardinality(Chain[Parent[b]]) + 1
    BY ZenonT(40), <2>1, <2>2, <1>1, FS_AddElement
  <2>4. Cardinality(Chain[Parent[b]]) \in Nat
    BY <2>1, <1>1, FS_CardinalityType
  <2> QED
    BY <2>1, <2>2, <2>3, <2>4 DEF Height
<1> QED
  BY <1>3, <1>4, <1>5

\* What holds of Genesis and of every block whose parent has it holds of every
\* block of the tree.
LEMMA TreeInduction ==
  ASSUME NEW S, Genesis \in S,
         \A b \in Block \ {Genesis} : Parent[b] \in S => b \in S
  PROVE  Block \subseteq S
<1> SUFFICES ASSUME NEW b \in Block, b \notin S
             PROVE  FALSE
  OBVIOUS
<1> DEFINE T == {Height(x) : x \in Block \ S}
<1>1. T \subseteq Nat /\ T # {}
  BY HeightStep
<1>2. PICK n \in T : \A y \in T : n <= y
  BY <1>1, NatMin, Zenon
<1>3. PICK c \in Block \ S : n = Height(c)
  BY <1>2
<1>4. c # Genesis /\ Parent[c] \in Block \ S /\ Height(c) = Height(Parent[c]) + 1
  BY <1>3, HeightStep
<1>5. Height(c) <= Height(Parent[c]) /\ Height(Parent[c]) \in Nat
  BY <1>2, <1>3, <1>4, HeightStep
<1> QED
  BY <1>4, <1>5

\* A block belongs to its own chain, Genesis to every chain, and chains hold blocks.
LEMMA ChainHolds ==
  \A b \in Block : b \in Chain[b] /\ Genesis \in Chain[b] /\ Chain[b] \subseteq Block
<1> DEFINE S == {b \in Block : Genesis \in Chain[b] /\ Chain[b] \subseteq Block}
<1>1. Genesis \in S
  BY TreeAssumption
<1>2. \A b \in Block \ {Genesis} : Parent[b] \in S => b \in S
  BY TreeAssumption
<1>3. Block \subseteq S
  <2> HIDE DEF S
  <2> QED
    BY <1>1, <1>2, TreeInduction
<1> QED
  BY <1>3, TreeAssumption

\* A block is at the end of its own chain, which goes through its parent.
LEMMA ChainParent ==
  ASSUME NEW b \in Block \ {Genesis}
  PROVE  /\ Parent[b] \in Block /\ Chain[b] = {b} \cup Chain[Parent[b]]
         /\ b \notin Chain[Parent[b]] /\ Parent[b] \in Chain[b]
BY TreeAssumption, ChainHolds

\* A block's chain contains the chains of its blocks.
LEMMA ChainTransitive ==
  \A b \in Block : \A a \in Chain[b] : Chain[a] \subseteq Chain[b]
<1> DEFINE S == {b \in Block : \A a \in Chain[b] : Chain[a] \subseteq Chain[b]}
<1>1. Genesis \in S
  BY TreeAssumption
<1>2. \A b \in Block \ {Genesis} : Parent[b] \in S => b \in S
  BY TreeAssumption
<1>3. Block \subseteq S
  <2> HIDE DEF S
  <2> QED
    BY <1>1, <1>2, TreeInduction
<1> QED
  BY <1>3

\* The blocks of a chain are no higher than its block, and the only one as high
\* is the block itself.
LEMMA ChainHeight ==
  \A b \in Block : \A a \in Chain[b] : a = b \/ Height(a) < Height(b)
<1> DEFINE S == {b \in Block : \A a \in Chain[b] : a = b \/ Height(a) < Height(b)}
<1>1. Genesis \in S
  BY TreeAssumption
<1>2. ASSUME NEW b \in Block \ {Genesis}, Parent[b] \in S
      PROVE  b \in S
  <2> SUFFICES ASSUME NEW a \in Chain[b], a # b
               PROVE  Height(a) < Height(b)
    OBVIOUS
  <2>1. a \in Chain[Parent[b]] /\ Parent[b] \in Block
    BY TreeAssumption
  <2>2. a \in Block
    BY <2>1, ChainHolds
  <2>3. a = Parent[b] \/ Height(a) < Height(Parent[b])
    BY <1>2, <2>1
  <2> QED
    BY <2>1, <2>2, <2>3, HeightStep
<1>3. Block \subseteq S
  <2> HIDE DEF S
  <2> QED
    BY <1>1, <1>2, TreeInduction
<1> QED
  BY <1>3

\* The chain of the higher of two blocks of a chain contains the other.
LEMMA ChainLinear ==
  \A b \in Block : \A a, c \in Chain[b] : Height(a) <= Height(c) => a \in Chain[c]
<1> DEFINE S == {b \in Block : \A a, c \in Chain[b] : Height(a) <= Height(c) => a \in Chain[c]}
<1>1. Genesis \in S
  BY TreeAssumption
<1>2. ASSUME NEW b \in Block \ {Genesis}, Parent[b] \in S
      PROVE  b \in S
  <2> SUFFICES ASSUME NEW a \in Chain[b], NEW c \in Chain[b], Height(a) <= Height(c)
               PROVE  a \in Chain[c]
    OBVIOUS
  <2>1. CASE c = b
    BY <2>1
  <2>2. CASE c # b /\ a # b
    BY <2>2, <1>2, TreeAssumption
  <2>3. CASE c # b /\ a = b
    <3>1. Height(c) < Height(b)
      BY <2>3, ChainHeight
    <3>2. Height(c) \in Nat /\ Height(b) \in Nat
      BY ChainHolds, HeightStep
    <3> QED
      BY <3>1, <3>2, <2>3
  <2> QED
    BY <2>1, <2>2, <2>3
<1>3. Block \subseteq S
  <2> HIDE DEF S
  <2> QED
    BY <1>1, <1>2, TreeInduction
<1> QED
  BY <1>3

\* The blocks below a block have less work.
LEMMA ChainWork ==
  \A b \in Block : \A a \in Chain[b] : a = b \/ Work[a] < Work[b]
<1> DEFINE S == {b \in Block : \A a \in Chain[b] : a = b \/ Work[a] < Work[b]}
<1>1. Genesis \in S
  BY TreeAssumption
<1>2. ASSUME NEW b \in Block \ {Genesis}, Parent[b] \in S
      PROVE  b \in S
  <2> SUFFICES ASSUME NEW a \in Chain[b], a # b
               PROVE  Work[a] < Work[b]
    OBVIOUS
  <2>1. a \in Chain[Parent[b]] /\ Parent[b] \in Block
    BY TreeAssumption
  <2>2. a \in Block
    BY <2>1, ChainHolds
  <2>3. a = Parent[b] \/ Work[a] < Work[Parent[b]]
    BY <1>2, <2>1
  <2>4. Work[a] \in Nat /\ Work[b] \in Nat /\ Work[Parent[b]] \in Nat
        /\ Work[Parent[b]] < Work[b]
    BY <2>1, <2>2, TreeAssumption
  <2> QED
    BY <2>3, <2>4
<1>3. Block \subseteq S
  <2> HIDE DEF S
  <2> QED
    BY <1>1, <1>2, TreeInduction
<1> QED
  BY <1>3

\* Highest picks a highest block of a non-empty set of blocks of one chain.
LEMMA HighestIn ==
  ASSUME NEW b \in Block, NEW S, S \subseteq Chain[b], S # {}
  PROVE  Highest(S) \in S /\ \A o \in S : Height(o) <= Height(Highest(S))
<1>1. \A o \in S : o \in Block /\ Height(o) \in Nat /\ Height(o) <= Height(b)
  BY ChainHolds, ChainHeight, HeightStep
<1>2. Height(b) \in Nat
  BY HeightStep
<1> DEFINE T == {Height(b) - Height(o) : o \in S}
<1>3. T \subseteq Nat /\ T # {}
  BY <1>1, <1>2
<1>4. PICK n \in T : \A y \in T : n <= y
  BY <1>3, NatMin, Zenon
<1>5. PICK h \in S : n = Height(b) - Height(h)
  BY <1>4
<1>6. \A o \in S : Height(b) - Height(h) <= Height(b) - Height(o)
  BY <1>4, <1>5
<1>7. \A o \in S : Height(o) <= Height(h)
  BY <1>1, <1>2, <1>6
<1>8. \E x \in S : \A o \in S : Height(o) <= Height(x)
  BY <1>7
<1> QED
  BY <1>8 DEF Highest

\* Every non-empty set of blocks has a lowest one.
LEMMA LowestIn ==
  ASSUME NEW S, S \subseteq Block, S # {}
  PROVE  \E x \in S : \A o \in S : Height(x) <= Height(o)
<1> DEFINE T == {Height(o) : o \in S}
<1>1. T \subseteq Nat /\ T # {}
  BY HeightStep
<1>2. PICK n \in T : \A y \in T : n <= y
  BY <1>1, NatMin, Zenon
<1>3. PICK x \in S : n = Height(x)
  BY <1>2
<1> QED
  BY <1>2, <1>3

-----------------------------------------------------------------------------
(* The order of CBlockIndexWorkComparator.                                 *)

\* It is a strict total order of the blocks, whatever the sequence numbers are.
LEMMA LessOrder ==
  ASSUME NEW seq \in [Block -> Int]
  PROVE  /\ \A a \in Block : ~Less(seq, a, a)
         /\ \A a, b, c \in Block : Less(seq, a, b) /\ Less(seq, b, c) => Less(seq, a, c)
         /\ \A a, b \in Block : a = b \/ Less(seq, a, b) \/ Less(seq, b, a)
         /\ \A a, b \in Block : Work[a] < Work[b] => Less(seq, a, b)
         /\ \A a, b \in Block : Less(seq, a, b) => Work[a] <= Work[b]
<1>1. \A a \in Block : Work[a] \in Int /\ Addr[a] \in Int /\ seq[a] \in Int
  BY TreeAssumption
<1>2. \A a, b \in Block : Addr[a] = Addr[b] => a = b
  BY TreeAssumption
<1>3. \A a \in Block : ~Less(seq, a, a)
  BY <1>1 DEF Less
<1>4. ASSUME NEW a \in Block, NEW b \in Block, NEW c \in Block,
             Less(seq, a, b), Less(seq, b, c)
      PROVE  Less(seq, a, c)
  BY <1>1, <1>4, SMT DEF Less
<1>5. \A a, b \in Block : a = b \/ Less(seq, a, b) \/ Less(seq, b, a)
  BY <1>1, <1>2, SMT DEF Less
<1>6. \A a, b \in Block : Work[a] < Work[b] => Less(seq, a, b)
  BY DEF Less
<1>7. \A a, b \in Block : Less(seq, a, b) => Work[a] <= Work[b]
  BY <1>1, SMT DEF Less
<1> QED
  BY <1>3, <1>4, <1>5, <1>6, <1>7, Zenon

\* A finite non-empty set of blocks has a block that sorts last, and Best picks one.
LEMMA BestIn ==
  ASSUME NEW seq \in [Block -> Int], NEW S, S \subseteq Block, IsFiniteSet(S), S # {}
  PROVE  Best(seq, S) \in S /\ \A o \in S : ~Less(seq, Best(seq, S), o)
<1> DEFINE HasBest(X) == \E b \in X : \A o \in X : ~Less(seq, b, o)
           F == {X \in SUBSET Block : IsFiniteSet(X) /\ X # {} /\ ~HasBest(X)}
           T == {Cardinality(X) : X \in F}
<1>1. HasBest(S)
  <2> SUFFICES ASSUME ~HasBest(S)
               PROVE  FALSE
    OBVIOUS
  <2>1. S \in F
    OBVIOUS
  <2>2. T \subseteq Nat /\ T # {}
    BY ZenonT(40), <2>1, FS_CardinalityType
  <2>3. PICK n \in T : \A y \in T : n <= y
    <3> HIDE DEF T
    <3> QED
      BY <2>2, NatMin, Zenon
  <2>4. PICK X \in F : n = Cardinality(X)
    BY <2>3
  <2>5. PICK x : x \in X
    BY <2>4
  <2> DEFINE Y == X \ {x}
  <2>6. IsFiniteSet(Y) /\ Cardinality(Y) = Cardinality(X) - 1 /\ Cardinality(X) \in Nat
    BY ZenonT(40), <2>4, <2>5, FS_RemoveElement, FS_CardinalityType
  <2>7. Y \notin F
    <3> SUFFICES ASSUME Y \in F
                 PROVE  FALSE
      OBVIOUS
    <3>1. Cardinality(Y) \in T
      BY Zenon
    <3>2. Cardinality(X) <= Cardinality(Y)
      BY ZenonT(40), <3>1, <2>3, <2>4
    <3> QED
      BY <3>2, <2>6
  <2>8. CASE Y = {}
    <3>1. X = {x} /\ x \in Block
      BY <2>8, <2>5
    <3>2. HasBest(X)
      BY <3>1, LessOrder
    <3> QED
      BY <3>2, <2>4
  <2>9. CASE Y # {}
    <3>1. HasBest(Y)
      BY <2>9, <2>7, <2>6
    <3>2. PICK y \in Y : \A o \in Y : ~Less(seq, y, o)
      BY <3>1
    <3>3. x \in Block /\ y \in Block /\ y \in X /\ \A o \in X : o \in Block /\ (o = x \/ o \in Y)
      BY <2>5
    <3>4. HasBest(X)
      <4>1. CASE Less(seq, y, x)
        <5>1. \A o \in X : ~Less(seq, x, o)
          BY <4>1, <3>2, <3>3, LessOrder
        <5> QED
          BY <5>1, <2>5
      <4>2. CASE ~Less(seq, y, x)
        BY <4>2, <3>2, <3>3
      <4> QED
        BY <4>1, <4>2
    <3> QED
      BY <3>4
  <2> QED
    BY <2>8, <2>9
<1> QED
  BY <1>1, Zenon DEF Best

-----------------------------------------------------------------------------
(***************************************************************************)
(* The inductive invariant, in layers.                                     *)
(***************************************************************************)

\* Types; everything received is on disk unless something was pruned.
Shape ==
  /\ index \subseteq Block /\ IsFiniteSet(index)
  /\ Genesis \in processed /\ processed \subseteq index /\ data \subseteq processed
  /\ failed \subseteq Block /\ failedParent \subseteq Block
  /\ processed \cap BadContext = {}
  /\ nSequenceId \in [Block -> Int] /\ nBlockSequenceId \in Nat
  /\ pc \in [Thread -> {"idle", "activate"}]
  /\ pindexMostWork \in [Thread -> Block \cup {Null}]
  /\ world \in Worlds /\ calls \in [Command -> Nat]
  /\ fHavePruned \in BOOLEAN
  /\ ~fHavePruned => data = processed

\* The transactions of every block of the chain have arrived.
Received(b) == b \in Block /\ Chain[b] \subseteq processed

\* Linked blocks, candidates, kept targets and the tip have their whole chain, a
\* thread between calls keeps no target, and nothing that fails ConnectBlock is
\* connected.
Links ==
  /\ \A b \in chainTx : Received(b)
  /\ \A b \in candidates : Received(b)
  /\ unlinked \subseteq processed
  /\ \A t \in Thread : pindexMostWork[t] # Null => Received(pindexMostWork[t])
  /\ \A t \in Thread : pc[t] = "idle" => pindexMostWork[t] = Null
  /\ Received(tip) /\ Chain[tip] \cap world.badConnect = {}

\* The numbers of preciousblock stay below zero and within int32_t.
Counters ==
  /\ nBlockReverseSequenceId \in Int /\ nBlockReverseSequenceId < 0
  /\ nBlockReverseSequenceId >= MinSequenceId
  /\ nLastPreciousChainwork \in Nat

\* Only the threads of the world are at work.
Busy == \A t \in Thread \ world.threads : pc[t] = "idle"

\* The first layer: what no command and no second thread can disturb.
Base == Shape /\ Links

\* invalidateblock, or reconsiderblock, has been called since the start.
Invalidated == calls["invalidate"] # 0
Reconsidered == calls["reconsider"] # 0

-----------------------------------------------------------------------------
(* What one step of ActivateBestChain does.                                *)

\* ActivateBestChainStep towards target: the blocks it connects are on the way
\* to the target, on disk and pass ConnectBlock, with nothing left out below them;
\* the new tip is on them or on the old chain; only a block that fails
\* ConnectBlock is marked; only blocks that sort before the new tip, and the one
\* marked, cease to be candidates.
LEMMA StepFacts ==
  ASSUME NEW target \in Block, NEW sel, tip \in Block,
         NEW step, step = ActivateBestChainStep(sel, target)
  PROVE  /\ step.connected \subseteq ((Chain[target] \ Chain[tip]) \cap data) \ world.badConnect
         /\ step.invalid \subseteq (Chain[target] \ Chain[tip]) \cap data \cap world.badConnect
         /\ \A y \in step.connected : Chain[y] \subseteq Chain[tip] \cup step.connected
         /\ step.tip \in Block /\ Chain[step.tip] \subseteq Chain[tip] \cup step.connected
         /\ step.connected = {} => step.tip \in Chain[tip]
         /\ step.candidates \subseteq sel \ step.invalid
         /\ \A c \in sel \ step.candidates :
              c \in step.invalid \/ Less(nSequenceId, c, step.tip)
         /\ \A c \in step.candidates :
              step.connected = {} \/ ~Less(nSequenceId, c, step.tip)
         /\ ~step.abort => step.tip \in Chain[target]
                             /\ Chain[tip] \cap Chain[target] \subseteq Chain[step.tip]
         /\ ~step.abort /\ step.invalid = {} =>
              step.tip = target \/ Work[tip] < Work[step.tip]
         /\ Chain[tip] \cup Chain[target] \subseteq data => ~step.abort
<1> DEFINE Missing == (Chain[tip] \ Chain[target]) \ data
           ToConnect == IF Missing = {} THEN Chain[target] \ Chain[tip] ELSE {}
           Bad == {b \in ToConnect : b \in world.badConnect \/ b \notin data}
           Enough == {b \in ToConnect : Work[b] > Work[tip]}
           Connected == {b \in ToConnect : /\ \A x \in Bad : Height(b) < Height(x)
                                           /\ \A x \in Enough : Height(b) <= Height(x)}
           Failing == {b \in Bad : Parent[b] \in Connected \cup Chain[tip]
                                   /\ Enough \cap Connected = {}}
           Fork == Chain[tip] \cap Chain[target]
           newTip == IF Missing # {} THEN Highest(Missing) ELSE Highest(Fork \cup Connected)
<1>1. /\ step.connected = Connected
      /\ step.invalid = Failing \cap data
      /\ step.abort = (Missing # {} \/ ~(Failing \subseteq data))
      /\ step.tip = newTip
      /\ step.candidates = (IF Connected = {} THEN sel
                            ELSE PruneBlockIndexCandidates(nSequenceId, sel, newTip))
                           \ (Failing \cap data)
  BY Zenon DEF ActivateBestChainStep
<1>2. ToConnect \subseteq Chain[target] \ Chain[tip] /\ ToConnect \subseteq Block
  BY ChainHolds
<1>3. Bad \subseteq ToConnect /\ Enough \subseteq ToConnect /\ Connected \subseteq ToConnect
      /\ Failing \subseteq Bad
  OBVIOUS
<1>4. \A b \in Bad : b \in ToConnect /\ (b \in world.badConnect \/ b \notin data)
  OBVIOUS
<1>5. \A b \in ToConnect : b \in world.badConnect \/ b \notin data => b \in Bad
  OBVIOUS
<1>6. \A b \in Connected : /\ \A x \in Bad : Height(b) < Height(x)
                           /\ \A x \in Enough : Height(b) <= Height(x)
  OBVIOUS
<1>7. \A b \in ToConnect : (/\ \A x \in Bad : Height(b) < Height(x)
                            /\ \A x \in Enough : Height(b) <= Height(x)) => b \in Connected
  OBVIOUS
<1>8. \A b \in Enough : b \in ToConnect /\ Work[b] > Work[tip]
  BY ZenonT(40)
<1>9. \A b \in Bad : Parent[b] \in Connected \cup Chain[tip] /\ Enough \cap Connected = {}
                    => b \in Failing
  OBVIOUS
<1>10. Missing = {} => ToConnect = Chain[target] \ Chain[tip]
  OBVIOUS
<1>11. Missing # {} => ToConnect = {}
  OBVIOUS
<1>12. newTip = IF Missing # {} THEN Highest(Missing) ELSE Highest(Fork \cup Connected)
  OBVIOUS
<1>13. Missing \subseteq Chain[tip] /\ Missing \cap data = {} /\ Fork = Chain[tip] \cap Chain[target]
  OBVIOUS
<1>14. Chain[tip] \cup Chain[target] \subseteq data => Missing = {}
  OBVIOUS
<1> HIDE DEF Missing, ToConnect, Bad, Enough, Connected, Failing, Fork, newTip
<1>20. Connected \subseteq ((Chain[target] \ Chain[tip]) \cap data) \ world.badConnect
  <2> SUFFICES ASSUME NEW b \in Connected
               PROVE  b \in Chain[target] \ Chain[tip] /\ b \in data /\ b \notin world.badConnect
    BY Zenon
  <2>1. b \in ToConnect /\ b \in Block
    BY <1>2, <1>3
  <2>2. b \notin Bad
    BY <2>1, <1>6, HeightStep
  <2> QED
    BY <2>1, <2>2, <1>2, <1>5
<1>21. Failing \cap data \subseteq (Chain[target] \ Chain[tip]) \cap data \cap world.badConnect
  BY <1>2, <1>3, <1>4
<1>22. \A y \in Connected : Chain[y] \subseteq Chain[tip] \cup Connected
  <2> SUFFICES ASSUME NEW y \in Connected, NEW a \in Chain[y], a \notin Chain[tip]
               PROVE  a \in Connected
    BY Zenon
  <2>1. y \in ToConnect /\ y \in Chain[target] /\ y \in Block
    BY <1>2, <1>3
  <2>2. a \in Chain[target] /\ a \in Block
    BY <2>1, ChainTransitive, ChainHolds
  <2>3. Height(a) <= Height(y) /\ Height(a) \in Nat /\ Height(y) \in Nat
    BY <2>1, <2>2, ChainHeight, HeightStep
  <2>4. a \in ToConnect
    BY <2>1, <2>2, <1>10, <1>11
  <2>5. \A x \in Bad : Height(a) < Height(x)
    BY <2>3, <1>6, <1>2, <1>3, HeightStep
  <2>6. \A x \in Enough : Height(a) <= Height(x)
    BY <2>3, <1>6, <1>2, <1>3, HeightStep
  <2> QED
    BY <2>4, <2>5, <2>6, <1>7
<1>23. ASSUME Missing # {}
       PROVE  newTip \in Chain[tip] /\ Connected = {}
  <2>1. Highest(Missing) \in Missing
    BY <1>23, <1>13, HighestIn
  <2> QED
    BY <2>1, <1>23, <1>12, <1>13, <1>11, <1>3
<1>24. ASSUME Missing = {}
       PROVE  /\ newTip \in Fork \cup Connected
              /\ newTip \in Chain[target]
              /\ \A a \in Fork \cup Connected : a \in Chain[newTip]
  <2>1. Fork \cup Connected \subseteq Chain[target] /\ Fork \cup Connected # {}
    BY <1>13, <1>2, <1>3, ChainHolds
  <2>2. newTip = Highest(Fork \cup Connected)
    BY <1>24, <1>12
  <2>3. newTip \in Fork \cup Connected /\ \A o \in Fork \cup Connected : Height(o) <= Height(newTip)
    BY <2>1, <2>2, HighestIn
  <2> QED
    BY <2>1, <2>3, ChainLinear
<1>25. newTip \in Block /\ Chain[newTip] \subseteq Chain[tip] \cup Connected
       /\ (Connected = {} => newTip \in Chain[tip])
  BY <1>23, <1>24, <1>13, <1>22, ChainHolds, ChainTransitive
<1>26. step.candidates \subseteq sel \ (Failing \cap data)
  BY <1>1 DEF PruneBlockIndexCandidates
<1>27. \A c \in sel \ step.candidates : c \in Failing \cap data \/ Less(nSequenceId, c, newTip)
  BY <1>1 DEF PruneBlockIndexCandidates
<1>28. \A c \in step.candidates : Connected = {} \/ ~Less(nSequenceId, c, newTip)
  BY <1>1 DEF PruneBlockIndexCandidates
<1>29. ~step.abort => newTip \in Chain[target] /\ Fork \subseteq Chain[newTip]
  BY ZenonT(40), <1>1, <1>24
<1>30. ASSUME ~step.abort, Failing \cap data = {}
       PROVE  newTip = target \/ Work[tip] < Work[newTip]
  <2>1. Missing = {} /\ Failing = {}
    BY ZenonT(40), <1>1, <1>30
  <2>2. CASE Enough \cap Connected # {}
    <3>1. PICK e \in Enough \cap Connected : TRUE
      BY <2>2
    <3>2. e \in Chain[newTip] /\ Work[e] > Work[tip] /\ e \in Block
      BY <3>1, <2>1, <1>24, <1>8, <1>2
    <3>3. Work[e] <= Work[newTip] /\ Work[e] \in Nat /\ Work[newTip] \in Nat /\ Work[tip] \in Nat
      BY <3>2, <1>25, ChainWork, TreeAssumption
    <3> QED
      BY <3>2, <3>3
  <2>3. CASE Enough \cap Connected = {}
    <3>1. Bad = {}
      <4> SUFFICES ASSUME Bad # {}
                   PROVE  FALSE
        OBVIOUS
      <4>1. PICK x \in Bad : \A o \in Bad : Height(x) <= Height(o)
        BY <1>2, <1>3, LowestIn
      <4>2. x \in Block /\ x \in Chain[target] /\ x \notin Chain[tip] /\ x # Genesis
        BY <1>2, <1>3, ChainHolds
      <4>3. Parent[x] \in Block /\ Height(x) = Height(Parent[x]) + 1
        BY <4>2, HeightStep
      <4>4. Parent[x] \in Chain[target]
        <5>1. Parent[x] \in Chain[x]
          BY <4>2, <4>3, TreeAssumption, ChainHolds
        <5> QED
          BY <5>1, <4>2, ChainTransitive
      <4>5. \A e \in Enough : Height(x) <= Height(e)
        <5> SUFFICES ASSUME NEW e \in Enough, ~(Height(x) <= Height(e))
                     PROVE  FALSE
          OBVIOUS
        <5>1. PICK m \in Enough : \A o \in Enough : Height(m) <= Height(o)
          BY <1>2, <1>3, LowestIn
        <5>2. m \in ToConnect /\ m \in Block /\ e \in Block
          BY <1>2, <1>3
        <5>3. Height(m) < Height(x)
          BY <5>1, <5>2, <4>2, HeightStep
        <5>4. \A o \in Bad : Height(m) < Height(o)
          BY <5>3, <4>1, <5>2, <4>2, <1>2, <1>3, HeightStep
        <5>5. m \in Connected
          BY <5>1, <5>2, <5>4, <1>7
        <5> QED
          BY <5>1, <5>5, <2>3
      <4>6. Parent[x] \notin Connected \cup Chain[tip]
        BY <2>1, <2>3, <1>9
      <4>7. Parent[x] \in ToConnect
        BY <4>4, <4>6, <2>1, <1>10
      <4>8. \A o \in Bad : Height(Parent[x]) < Height(o)
        BY <4>1, <4>2, <4>3, <1>2, <1>3, HeightStep
      <4>9. \A o \in Enough : Height(Parent[x]) <= Height(o)
        BY <4>5, <4>2, <4>3, <1>2, <1>3, HeightStep
      <4> QED
        BY <4>6, <4>7, <4>8, <4>9, <1>7
    <3>2. Enough = {}
      <4> SUFFICES ASSUME Enough # {}
                   PROVE  FALSE
        OBVIOUS
      <4>1. PICK m \in Enough : \A o \in Enough : Height(m) <= Height(o)
        BY <1>2, <1>3, LowestIn
      <4>2. m \in Connected
        BY <4>1, <3>1, <1>3, <1>7
      <4> QED
        BY <4>1, <4>2, <2>3
    <3>3. Connected = Chain[target] \ Chain[tip]
      BY <3>1, <3>2, <2>1, <1>10, <1>7, <1>3
    <3>4. target \in Fork \cup Connected
      BY <3>3, <1>13, ChainHolds
    <3>5. target \in Chain[newTip] /\ newTip \in Chain[target]
      BY <3>4, <2>1, <1>24
    <3> QED
      BY <3>5, <1>25, ChainHeight, HeightStep
  <2> QED
    BY <2>2, <2>3
<1>31. Chain[tip] \cup Chain[target] \subseteq data => ~step.abort
  BY ZenonT(40), <1>1, <1>14, <1>2, <1>3
<1> QED
  BY <1>1, <1>13, <1>20, <1>21, <1>22, <1>25, <1>26, <1>27, <1>28, <1>29, <1>30, <1>31, ZenonT(40)

\* FindMostWorkChain: the block it returns is a candidate with a clear way from
\* the active chain, and none with a clear way sorts after it.  It drops only
\* candidates with an obstacle below them; the blocks it marks lie off the active
\* chain and above a block that is marked already.
LEMMA SelectFacts ==
  ASSUME Base, NEW sel, sel = FindMostWorkChain
  PROVE  /\ sel.block # Null => sel.block \in candidates /\ Obstacles(sel.block) = {}
         /\ \A u \in candidates : Obstacles(u) = {} =>
              sel.block # Null /\ ~Less(nSequenceId, sel.block, u)
         /\ sel.candidates \subseteq candidates
         /\ \A c \in candidates \ sel.candidates :
              \E o \in Chain[c] : o \in Invalid \/ o \notin data
         /\ failedParent \subseteq sel.failedParent
         /\ \A y \in sel.failedParent \ failedParent :
              /\ Received(y) /\ y \notin Chain[tip]
              /\ \E o \in Chain[y] : o \in Invalid /\ o \notin Chain[tip]
         /\ unlinked \subseteq sel.unlinked /\ sel.unlinked \subseteq processed
<1>1. /\ sel.block = (IF Usable = {} THEN Null ELSE Best(nSequenceId, Usable))
      /\ sel.candidates = candidates \ UNION {Above(c) \cup {Obstacle(c)} : c \in Discarded}
      /\ sel.failedParent = failedParent \cup Marked
      /\ sel.unlinked = unlinked \cup Relinked
  BY Zenon DEF FindMostWorkChain
<1>2. Usable \subseteq candidates /\ (\A u \in candidates : u \in Usable <=> Obstacles(u) = {})
  BY DEF Usable
<1>3. candidates \subseteq index /\ index \subseteq Block /\ IsFiniteSet(index)
      /\ nSequenceId \in [Block -> Int] /\ tip \in Block
  BY ChainHolds DEF Base, Shape, Links, Received
<1>4. IsFiniteSet(Usable) /\ Usable \subseteq Block
  BY <1>2, <1>3, FS_Subset
<1>5. Usable # {} => /\ Best(nSequenceId, Usable) \in Usable
                     /\ \A o \in Usable : ~Less(nSequenceId, Best(nSequenceId, Usable), o)
  BY <1>3, <1>4, BestIn
<1>6. Null \notin Block
  BY OtherAssumption
<1>7. ASSUME NEW d \in Discarded
      PROVE  /\ d \in Block /\ Chain[d] \subseteq processed /\ Above(d) \subseteq Chain[d] \ Chain[tip]
             /\ Obstacle(d) \in Obstacles(d) /\ Obstacle(d) \in Chain[d] \ Chain[tip]
             /\ Obstacle(d) \in Invalid \/ Obstacle(d) \notin data
             /\ \A y \in Above(d) \cup {Obstacle(d)} : Obstacle(d) \in Chain[y]
  <2>1. d \in candidates /\ d \notin Usable
    BY DEF Discarded
  <2>2. d \in Block /\ Chain[d] \subseteq processed /\ Obstacles(d) # {}
    BY <2>1, <1>2 DEF Base, Links, Received
  <2>3. Obstacles(d) \subseteq Chain[d]
    BY DEF Obstacles, Path
  <2>4. Obstacle(d) \in Obstacles(d)
    BY <2>2, <2>3, HighestIn DEF Obstacle
  <2>5. Obstacle(d) \in Chain[d] \ Chain[tip] /\ (Obstacle(d) \in Invalid \/ Obstacle(d) \notin data)
    BY <2>4 DEF Obstacles, Path
  <2>6. Above(d) \subseteq Chain[d] \ Chain[tip]
    BY DEF Above, Path
  <2>7. \A y \in Above(d) : Obstacle(d) \in Chain[y]
    <3> SUFFICES ASSUME NEW y \in Above(d)
                 PROVE  Obstacle(d) \in Chain[y]
      OBVIOUS
    <3>1. Height(y) > Height(Obstacle(d)) /\ y \in Chain[d]
      BY DEF Above, Path
    <3>2. y \in Block /\ Obstacle(d) \in Block
      BY <3>1, <2>5, <2>2, ChainHolds
    <3>3. Height(Obstacle(d)) <= Height(y)
      BY <3>1, <3>2, HeightStep
    <3> QED
      BY <3>1, <3>3, <2>2, <2>5, ChainLinear
  <2>8. Obstacle(d) \in Chain[Obstacle(d)]
    BY <2>2, <2>5, ChainHolds
  <2> QED
    BY <2>2, <2>4, <2>5, <2>6, <2>7, <2>8
<1>8. sel.block # Null => sel.block \in candidates /\ Obstacles(sel.block) = {}
  BY <1>1, <1>2, <1>5
<1>9. \A u \in candidates : Obstacles(u) = {} =>
        sel.block # Null /\ ~Less(nSequenceId, sel.block, u)
  BY <1>1, <1>2, <1>4, <1>5, <1>6
<1>10. \A c \in candidates \ sel.candidates : \E o \in Chain[c] : o \in Invalid \/ o \notin data
  <2> SUFFICES ASSUME NEW c \in candidates, c \notin sel.candidates
               PROVE  \E o \in Chain[c] : o \in Invalid \/ o \notin data
    BY Zenon
  <2>1. PICK d \in Discarded : c \in Above(d) \cup {Obstacle(d)}
    BY <1>1
  <2> QED
    BY <2>1, <1>7
<1>11. \A y \in Marked : /\ Received(y) /\ y \notin Chain[tip]
                         /\ \E o \in Chain[y] : o \in Invalid /\ o \notin Chain[tip]
  <2> SUFFICES ASSUME NEW y \in Marked
               PROVE  /\ Received(y) /\ y \notin Chain[tip]
                      /\ \E o \in Chain[y] : o \in Invalid /\ o \notin Chain[tip]
    BY Zenon
  <2>1. PICK d \in Discarded : Obstacle(d) \in Invalid /\ y \in Above(d)
    BY DEF Marked
  <2>2. d \in Block /\ Chain[d] \subseteq processed /\ y \in Chain[d] \ Chain[tip]
        /\ Obstacle(d) \in Chain[d] \ Chain[tip] /\ Obstacle(d) \in Chain[y]
    BY <2>1, <1>7
  <2>3. Received(y)
    BY <2>2, ChainTransitive, ChainHolds DEF Received
  <2> QED
    BY <2>1, <2>2, <2>3
<1>12. Relinked \subseteq processed
  BY <1>7 DEF Relinked
<1>13. unlinked \subseteq processed
  BY DEF Base, Links
<1> QED
  BY <1>1, <1>8, <1>9, <1>10, <1>11, <1>12, <1>13

\* The target of an iteration, found anew or kept from the one before.
LEMMA TargetFacts ==
  ASSUME Base, NEW t \in Thread, NEW sel, sel = Target(t)
  PROVE  /\ sel.block # Null => Received(sel.block)
         /\ sel.candidates \subseteq candidates
         /\ \A c \in candidates \ sel.candidates :
              \E o \in Chain[c] : o \in Invalid \/ o \notin data
         /\ failedParent \subseteq sel.failedParent
         /\ \A y \in sel.failedParent \ failedParent :
              /\ Received(y) /\ y \notin Chain[tip]
              /\ \E o \in Chain[y] : o \in Invalid /\ o \notin Chain[tip]
         /\ unlinked \subseteq sel.unlinked /\ sel.unlinked \subseteq processed
         /\ pindexMostWork[t] # Null =>
              sel.block = pindexMostWork[t] /\ sel.failedParent = failedParent
         /\ pindexMostWork[t] = Null => sel = FindMostWorkChain
<1>1. CASE pindexMostWork[t] = Null
  <2>1. sel = FindMostWorkChain
    BY <1>1 DEF Target
  <2>2. sel.block # Null => Received(sel.block)
    BY <2>1, SelectFacts DEF Base, Links
  <2> QED
    BY <1>1, <2>1, <2>2, SelectFacts
<1>2. CASE pindexMostWork[t] # Null
  <2>1. sel = [Unselected EXCEPT !.block = pindexMostWork[t]]
    BY <1>2 DEF Target
  <2>2. /\ sel.block = pindexMostWork[t] /\ sel.candidates = candidates
        /\ sel.failedParent = failedParent /\ sel.unlinked = unlinked
    BY <2>1 DEF Unselected
  <2>3. Received(pindexMostWork[t]) /\ unlinked \subseteq processed
    BY ZenonT(40), <1>2 DEF Base, Links
  <2> QED
    BY <1>2, <2>2, <2>3
<1> QED
  BY <1>1, <1>2

\* ReceivedBlockTransactions links a block and what waited for it: their chains
\* consist of the chain of the parent, the block and blocks that were waiting.
LEMMA LinkFacts ==
  ASSUME Base, NEW b \in Block \ {Genesis}
  PROVE  /\ b \in Linked(b) /\ Linked(b) \subseteq {b} \cup unlinked
         /\ \A d \in Linked(b) : b \in Chain[d] /\ Chain[d] \ Chain[b] \subseteq unlinked
         /\ \A d \in unlinked : b \in Chain[d] /\ Chain[d] \ Chain[b] \subseteq unlinked => d \in Linked(b)
         /\ Linked(b) \subseteq Block
         /\ Parent[b] \in chainTx =>
              \A d \in Linked(b) : Chain[d] \subseteq processed \cup {b}
<1>1. b \in Linked(b)
  BY ChainHolds DEF Linked
<1>2. unlinked \subseteq processed /\ processed \subseteq Block
  BY DEF Base, Shape, Links
<1>3. ASSUME Parent[b] \in chainTx, NEW d \in Linked(b)
      PROVE  Chain[d] \subseteq processed \cup {b}
  <2>1. Chain[Parent[b]] \subseteq processed
    BY <1>3 DEF Base, Links, Received
  <2>2. Chain[b] \subseteq processed \cup {b}
    BY <2>1, TreeAssumption
  <2>3. Chain[d] \ Chain[b] \subseteq unlinked
    BY DEF Linked
  <2> QED
    BY <2>2, <2>3, <1>2
<1> QED
  BY ZenonT(40), <1>1, <1>2, <1>3 DEF Linked

-----------------------------------------------------------------------------
(* Shape and Links.                                                        *)

\* Nothing but the genesis block is there at the start.
LEMMA BaseInit ==
  Init => Base
<1> SUFFICES ASSUME Init
             PROVE  Base
  OBVIOUS
<1>1. Genesis \in Block /\ Chain[Genesis] = {Genesis} /\ Genesis \notin BadContext
  BY TreeAssumption, OtherAssumption
<1>2. IsFiniteSet({Genesis})
  BY ZenonT(40), FS_Singleton
<1>3. Shape
  <2>1. nSequenceId \in [Block -> Int] /\ nBlockSequenceId \in Nat
    BY DEF Init
  <2>2. pc \in [Thread -> {"idle", "activate"}]
    BY DEF Init
  <2>4. pindexMostWork \in [Thread -> Block \cup {Null}]
    BY DEF Init
  <2>3. world \in Worlds /\ calls \in [Command -> Nat]
    BY DEF Init
  <2> QED
    BY ZenonT(40), <1>1, <1>2, <2>1, <2>2, <2>3, <2>4 DEF Init, Shape
<1>4. Genesis \notin world.badConnect
  BY OtherAssumption DEF Init
<1>5. Links
  BY <1>1, <1>4, ZenonT(40) DEF Init, Links, Received
<1> QED
  BY <1>3, <1>5 DEF Base

\* The arrival of a header.
LEMMA BaseHeaders ==
  ASSUME Base, NEW t, NEW b \in Block, ProcessNewBlockHeaders(t, b)
  PROVE  Base'
<1>1. IsFiniteSet(index \cup {b})
  BY ZenonT(40), FS_AddElement DEF Base, Shape
<1>2. index' = index \cup {b}
  BY DEF ProcessNewBlockHeaders, AddToBlockIndex
<1> QED
  BY <1>1, <1>2 DEF Base, Shape, Links, Received, ProcessNewBlockHeaders, AddToBlockIndex, status,
       sequence, threads

\* The arrival of a block that is linked.
LEMMA BaseLink ==
  ASSUME Base, NEW t \in Thread, NEW b \in Block \ {Genesis}, NEW fRequested,
         ProcessNewBlock(t, b, fRequested), ~Dropped(b, fRequested), b \notin BadContext
  PROVE  Base'
<1>1. IsFiniteSet(index \cup {b}) /\ index' = index \cup {b}
  BY FS_AddElement DEF ProcessNewBlock, AddToBlockIndex, Base, Shape
<1>2. ReceivedBlockTransactions(b) /\ Activate(t)
      /\ UNCHANGED <<scripts, undo, failed, failedParent>>
  BY DEF ProcessNewBlock
<1>3. UNCHANGED <<pindexMostWork, tip, fHavePruned, world, calls>>
  BY ZenonT(40) DEF ProcessNewBlock
<1>4. data' = data \cup {b} /\ processed' = processed \cup {b}
  BY ZenonT(40), <1>2 DEF ReceivedBlockTransactions
<1>5. pc' = [pc EXCEPT ![t] = "activate"]
  BY <1>2 DEF Activate
<1>6. /\ nSequenceId' \in [Block -> Int] /\ nBlockSequenceId' \in Nat
      /\ \A d \in chainTx' : d \in chainTx \/ (d \in Linked(b) /\ Parent[b] \in chainTx)
      /\ \A d \in candidates' : d \in candidates \/ (d \in Linked(b) /\ Parent[b] \in chainTx)
      /\ unlinked' \subseteq unlinked \cup {b}
  <2>1. CASE Parent[b] \in chainTx
    <3>1. PICK f \in LinkOrders(Linked(b)) :
            /\ chainTx' = chainTx \cup Linked(b)
            /\ nSequenceId' = [d \in Block |-> IF d \in Linked(b) THEN nBlockSequenceId + f[d]
                                               ELSE nSequenceId[d]]
            /\ nBlockSequenceId' = nBlockSequenceId + Cardinality(Linked(b))
            /\ candidates' = candidates \cup {d \in Linked(b) : ~Less(nSequenceId', d, tip)}
            /\ unlinked' = unlinked \ (Linked(b) \ {b})
      BY ZenonT(40), <1>2, <2>1 DEF ReceivedBlockTransactions
    <3>2. f \in [Linked(b) -> 0 .. Cardinality(Linked(b)) - 1]
      BY DEF LinkOrders
    <3>3. IsFiniteSet(Linked(b))
      <4>1. Linked(b) \subseteq index \cup {b}
        BY ZenonT(40), LinkFacts DEF Base, Shape, Links
      <4> QED
        BY <4>1, <1>1, FS_Subset
    <3>4. Cardinality(Linked(b)) \in Nat
      BY <3>3, FS_CardinalityType
    <3>5. nSequenceId \in [Block -> Int] /\ nBlockSequenceId \in Nat
      BY DEF Base, Shape
    <3>6. \A d \in Linked(b) : f[d] \in Nat
      BY <3>2, <3>4
    <3>7. nSequenceId' \in [Block -> Int] /\ nBlockSequenceId' \in Nat
      BY <3>1, <3>4, <3>5, <3>6
    <3>8. \A d \in candidates' : d \in candidates \/ d \in Linked(b)
      BY <3>1
    <3> QED
      BY ZenonT(40), <3>1, <3>7, <3>8, <2>1
  <2>2. CASE Parent[b] \notin chainTx
    <3>1. /\ chainTx' = chainTx \ {b} /\ unlinked' = unlinked \cup Waiting(b)
          /\ UNCHANGED <<nSequenceId, nBlockSequenceId, candidates>>
      BY <1>2, <2>2, Zenon DEF ReceivedBlockTransactions
    <3>2. Waiting(b) \subseteq {b}
      BY DEF Waiting
    <3>3. nSequenceId \in [Block -> Int] /\ nBlockSequenceId \in Nat
      BY DEF Base, Shape
    <3>4. nSequenceId' \in [Block -> Int] /\ nBlockSequenceId' \in Nat
      BY <3>1, <3>3
    <3>5. unlinked' \subseteq unlinked \cup {b}
      BY <3>1, <3>2
    <3>6. candidates' = candidates /\ chainTx' \subseteq chainTx
      BY ZenonT(40), <3>1
    <3> QED
      BY <3>4, <3>5, <3>6
  <2> QED
    BY ZenonT(40), <2>1, <2>2
<1>7. \A d \in Block : Received(d) => Received(d)'
  BY ZenonT(40), <1>4 DEF Received
<1>8. \A d \in Linked(b) : Parent[b] \in chainTx => Received(d)'
  BY ZenonT(40), <1>4, LinkFacts DEF Received
<1>9. Shape'
  <2>1. data' \subseteq processed' /\ processed' \subseteq index' /\ index' \subseteq Block
        /\ processed' \cap BadContext = {} /\ Genesis \in processed'
    BY <1>1, <1>4 DEF Base, Shape
  <2>2. ~fHavePruned' => data' = processed'
    BY <1>3, <1>4 DEF Base, Shape
  <2>3. pc' \in [Thread -> {"idle", "activate"}]
    BY ZenonT(40), <1>5 DEF Base, Shape
  <2> QED
    BY ZenonT(40), <1>1, <1>2, <1>3, <1>6, <2>1, <2>2, <2>3 DEF Base, Shape
<1>10. Links'
  <2>1. \A d \in chainTx' : Received(d)'
    BY ZenonT(40), <1>6, <1>7, <1>8 DEF Base, Links, Received
  <2>2. \A d \in candidates' : Received(d)'
    BY ZenonT(40), <1>6, <1>7, <1>8 DEF Base, Links, Received
  <2>3. unlinked' \subseteq processed'
    BY ZenonT(40), <1>4, <1>6 DEF Base, Links
  <2>4. \A u \in Thread : pindexMostWork'[u] # Null => (Received(pindexMostWork[u]))'
    BY ZenonT(40), <1>3, <1>4 DEF Base, Links, Received
  <2>5. \A u \in Thread : pc'[u] = "idle" => pindexMostWork'[u] = Null
    BY ZenonT(40), <1>3, <1>5 DEF Base, Shape, Links
  <2>6. (Received(tip))' /\ Chain[tip'] \cap world'.badConnect = {}
    BY <1>3, <1>4 DEF Base, Links, Received
  <2> QED
    BY ZenonT(40), <2>1, <2>2, <2>3, <2>4, <2>5, <2>6 DEF Links
<1> QED
  BY ZenonT(40), <1>9, <1>10 DEF Base

\* The arrival of a block that is dropped or fails ContextualCheckBlock.
LEMMA BaseNoLink ==
  ASSUME Base, NEW t \in Thread, NEW b \in Block \ {Genesis}, NEW fRequested,
         ProcessNewBlock(t, b, fRequested), Dropped(b, fRequested) \/ b \in BadContext
  PROVE  Base'
<1>1. IsFiniteSet(index \cup {b}) /\ index' = index \cup {b}
  BY ZenonT(40), FS_AddElement DEF ProcessNewBlock, AddToBlockIndex, Base, Shape
<1>2. /\ UNCHANGED <<processed, data, failedParent, chainTx, nSequenceId, nBlockSequenceId,
                     candidates, unlinked, pindexMostWork, tip, fHavePruned, world, calls>>
      /\ failed' \subseteq failed \cup {b}
      /\ pc' = pc \/ pc' = [pc EXCEPT ![t] = "activate"]
  BY ZenonT(40) DEF ProcessNewBlock, Activate, status
<1>3. Shape'
  BY <1>1, <1>2 DEF Base, Shape
<1>4. Links'
  BY ZenonT(40), <1>2 DEF Base, Shape, Links, Received
<1> QED
  BY <1>3, <1>4 DEF Base

\* The two outcomes of an iteration of ActivateBestChain, as far as the layers
\* need them: it ends the call, or makes a step.
Ends(t, sel) ==
  /\ sel.block \in {Null, tip}
  /\ pc' = [pc EXCEPT ![t] = "idle"]
  /\ pindexMostWork' = [pindexMostWork EXCEPT ![t] = Null]
  /\ candidates' = sel.candidates
  /\ UNCHANGED <<tip, scripts, failed>>

\* A call of ActivateBestChainStep towards the target; again: the loop goes on.
Steps(t, sel, step, again) ==
  /\ sel.block \notin {Null, tip} /\ sel.block \in Block
  /\ step = ActivateBestChainStep(sel.candidates, sel.block)
  /\ again = (~step.abort /\ (step.invalid # {} \/ step.tip # sel.block))
  /\ pc' = [pc EXCEPT ![t] = IF again THEN "activate" ELSE "idle"]
  /\ pindexMostWork' = [pindexMostWork EXCEPT ![t] =
                          IF again /\ step.invalid = {} THEN sel.block ELSE Null]
  /\ tip' = step.tip /\ candidates' = step.candidates
  /\ scripts' = scripts \cup (step.connected \ (failed \cup sel.failedParent))
  /\ failed' = failed \cup step.invalid

\* One turn of the loop of ActivateBestChain either ends it or takes a step.
LEMMA ActivateCases ==
  ASSUME Base, NEW t \in Thread, ActivateBestChain(t), NEW sel, sel = Target(t)
  PROVE  /\ pc[t] = "activate"
         /\ failedParent' = sel.failedParent /\ unlinked' = sel.unlinked
         /\ UNCHANGED <<processed, data, index, nSequenceId, nBlockSequenceId,
                        nBlockReverseSequenceId, nLastPreciousChainwork, chainTx, fHavePruned,
                        world, calls>>
         /\ Ends(t, sel) \/ \E step, again : Steps(t, sel, step, again)
<1>1. sel.block # Null => sel.block \in Block
  BY ZenonT(40), TargetFacts DEF Received
<1>2. /\ pc[t] = "activate"
      /\ failedParent' = sel.failedParent /\ unlinked' = sel.unlinked
      /\ \/ NothingToDo(t, sel)
         \/ /\ sel.block \notin {Null, tip}
            /\ MakeStep(t, sel, ActivateBestChainStep(sel.candidates, sel.block))
  BY ZenonT(40) DEF ActivateBestChain
<1>3. UNCHANGED <<processed, data, index, nSequenceId, nBlockSequenceId,
                  nBlockReverseSequenceId, nLastPreciousChainwork, chainTx, fHavePruned,
                  world, calls>>
  BY DEF ActivateBestChain, headers, sequence
<1>4. CASE NothingToDo(t, sel)
  BY ZenonT(40), <1>2, <1>3, <1>4 DEF NothingToDo, Ends
<1>5. CASE /\ sel.block \notin {Null, tip}
           /\ MakeStep(t, sel, ActivateBestChainStep(sel.candidates, sel.block))
  <2> DEFINE step == ActivateBestChainStep(sel.candidates, sel.block)
             again == ~step.abort /\ (step.invalid # {} \/ step.tip # sel.block)
  <2>1. Steps(t, sel, step, again)
    BY <1>1, <1>5, Zenon DEF MakeStep, RaiseValidity, Steps
  <2> HIDE DEF step, again
  <2> QED
    BY <2>1, <1>2, <1>3
<1> QED
  BY <1>2, <1>4, <1>5

\* ActivateBestChain: the new tip and the kept target have their whole chain.
LEMMA BaseActivate ==
  ASSUME Base, NEW t \in Thread, ActivateBestChain(t)
  PROVE  Base'
<1> DEFINE sel == Target(t)
<1>1. sel = Target(t)
  OBVIOUS
<1> HIDE DEF sel
<1>2. UNCHANGED <<processed, data, index, nSequenceId, nBlockSequenceId, chainTx, fHavePruned,
                  world, calls>>
      /\ failedParent' = sel.failedParent /\ unlinked' = sel.unlinked
  BY <1>1, ActivateCases
<1>3. /\ sel.block # Null => Received(sel.block)
      /\ sel.candidates \subseteq candidates
      /\ sel.failedParent \subseteq Block /\ sel.unlinked \subseteq processed
  BY ZenonT(40), <1>1, TargetFacts DEF Received, Base, Shape
<1>4. /\ tip \in Block /\ failed \subseteq Block /\ processed \subseteq Block /\ data \subseteq processed
      /\ pc \in [Thread -> {"idle", "activate"}]
      /\ pindexMostWork \in [Thread -> Block \cup {Null}]
      /\ Chain[tip] \subseteq processed /\ Chain[tip] \cap world.badConnect = {}
      /\ \A c \in candidates : Received(c)
      /\ \A u \in Thread : pindexMostWork[u] # Null => Received(pindexMostWork[u])
      /\ \A u \in Thread : pc[u] = "idle" => pindexMostWork[u] = Null
  BY ZenonT(40) DEF Base, Shape, Links, Received
<1> DEFINE After ==
             /\ pc' \in [Thread -> {"idle", "activate"}]
             /\ pindexMostWork' \in [Thread -> Block \cup {Null}]
             /\ failed' \subseteq Block
             /\ candidates' \subseteq candidates
             /\ \A u \in Thread : pindexMostWork'[u] # Null => Received(pindexMostWork'[u])
             /\ \A u \in Thread : pc'[u] = "idle" => pindexMostWork'[u] = Null
             /\ Received(tip') /\ Chain[tip'] \cap world.badConnect = {}
<1>5. After
  <2>1. CASE Ends(t, sel)
    BY ZenonT(40), <2>1, <1>3, <1>4 DEF Received, Ends
  <2>2. ASSUME NEW step, NEW again, Steps(t, sel, step, again)
        PROVE  After
    <3>0. /\ sel.block \notin {Null, tip} /\ sel.block \in Block
          /\ step = ActivateBestChainStep(sel.candidates, sel.block)
          /\ pc' = [pc EXCEPT ![t] = IF again THEN "activate" ELSE "idle"]
          /\ pindexMostWork' = [pindexMostWork EXCEPT ![t] =
                                  IF again /\ step.invalid = {} THEN sel.block ELSE Null]
          /\ tip' = step.tip /\ candidates' = step.candidates
          /\ failed' = failed \cup step.invalid
      BY <2>2, ZenonT(40) DEF Steps
    <3>1. /\ step.connected \subseteq data \ world.badConnect
          /\ step.invalid \subseteq data
          /\ step.tip \in Block /\ Chain[step.tip] \subseteq Chain[tip] \cup step.connected
          /\ step.candidates \subseteq sel.candidates
      <4>1. /\ step.connected \subseteq ((Chain[sel.block] \ Chain[tip]) \cap data) \ world.badConnect
            /\ step.invalid \subseteq (Chain[sel.block] \ Chain[tip]) \cap data \cap world.badConnect
            /\ step.tip \in Block /\ Chain[step.tip] \subseteq Chain[tip] \cup step.connected
            /\ step.candidates \subseteq sel.candidates \ step.invalid
        <5>1. tip \in Block
          BY ZenonT(40), <1>4
        <5>2. sel.block \in Block /\ step = ActivateBestChainStep(sel.candidates, sel.block)
          BY ZenonT(40), <3>0
        <5> QED
          BY <5>1, <5>2, StepFacts
      <4> QED
        BY ZenonT(40), <4>1
    <3>2. Received(tip') /\ Chain[tip'] \cap world.badConnect = {}
      BY ZenonT(40), <3>0, <3>1, <1>4 DEF Received
    <3>3. failed' \subseteq Block /\ candidates' \subseteq candidates
      BY ZenonT(40), <3>0, <3>1, <1>3, <1>4
    <3>4. pc' \in [Thread -> {"idle", "activate"}]
      BY ZenonT(40), <3>0, <1>4
    <3>5. pindexMostWork' \in [Thread -> Block \cup {Null}]
      BY ZenonT(40), <3>0, <1>4
    <3>6. \A u \in Thread : pindexMostWork'[u] # Null => Received(pindexMostWork'[u])
      BY ZenonT(40), <3>0, <1>3, <1>4
    <3>7. \A u \in Thread : pc'[u] = "idle" => pindexMostWork'[u] = Null
      BY ZenonT(40), <3>0, <1>4
    <3> QED
      BY ZenonT(40), <3>2, <3>3, <3>4, <3>5, <3>6, <3>7
  <2>3. Ends(t, sel) \/ \E step, again : Steps(t, sel, step, again)
    BY ZenonT(40), <1>1, ActivateCases
  <2> HIDE DEF After
  <2> QED
    BY ZenonT(40), <2>1, <2>2, <2>3
<1>6. Shape'
  BY <1>2, <1>3, <1>5 DEF Base, Shape
<1>7. Links'
  BY ZenonT(40), <1>2, <1>3, <1>4, <1>5 DEF Base, Links, Received
<1> QED
  BY <1>6, <1>7 DEF Base

\* InvalidateBlock marks the block and blocks above it, and goes back to a block of
\* the active chain: with everything on disk, to one below the block it marks.
LEMMA InvalidateFacts ==
  ASSUME Base, NEW t \in Thread, NEW b \in Block \ {Genesis}, InvalidateBlock(t, b)
  PROVE  /\ pc[t] = "idle" /\ calls' = [calls EXCEPT !["invalidate"] = @ + 1]
         /\ failed' = failed \cup {b} /\ failedParent \subseteq failedParent'
         /\ \A y \in failedParent' \ failedParent : b \in Chain[y] /\ y \in Chain[tip]
         /\ tip' \in Chain[tip]
         /\ pc' = pc \/ pc' = [pc EXCEPT ![t] = "activate"]
         /\ candidates' \subseteq candidates \cup (processed \cap chainTx)
         /\ ~fHavePruned => /\ b \notin Chain[tip']
                            /\ pc' = [pc EXCEPT ![t] = "activate"]
                            /\ Revived(tip', failed' \cup failedParent') \subseteq candidates'
                            /\ candidates' \subseteq candidates \cup Revived(tip', failed' \cup failedParent')
         /\ UNCHANGED <<processed, scripts, data, index, nSequenceId, nBlockSequenceId,
                        nBlockReverseSequenceId, nLastPreciousChainwork, pindexMostWork,
                        chainTx, unlinked, fHavePruned, world>>
<1> DEFINE Doomed == {x \in Chain[tip] : b \in Chain[x]}
           Missing == Doomed \ data
           Walked == IF Missing = {} THEN Doomed
                     ELSE {x \in Doomed : Height(x) >= Height(Highest(Missing))}
           newTip == IF Doomed = {} THEN tip
                     ELSE IF Missing = {} THEN Parent[b] ELSE Highest(Missing)
           left == candidates \ (Walked \cup {b})
<1>1. /\ Call(t, "invalidate")
      /\ failed' = failed \cup {b}
      /\ failedParent' = failedParent \cup Walked
      /\ tip' = newTip
      /\ IF Missing = {}
         THEN candidates' = left \cup Revived(newTip, failed' \cup failedParent') /\ Activate(t)
         ELSE candidates' = left /\ UNCHANGED pc
      /\ UNCHANGED <<processed, scripts, data, undo, headers, sequence, pindexMostWork,
                     chainTx, unlinked, fHavePruned>>
  BY ZenonT(40) DEF InvalidateBlock
<1>2. /\ Doomed \subseteq Chain[tip] /\ (\A x \in Doomed : b \in Chain[x])
      /\ Missing \subseteq Doomed /\ Walked \subseteq Doomed /\ Missing \cap data = {}
      /\ left \subseteq candidates
      /\ b \in Chain[b] /\ (b \in Chain[tip] => b \in Doomed)
  BY ZenonT(40), ChainHolds
<1>3. newTip = IF Doomed = {} THEN tip ELSE IF Missing = {} THEN Parent[b] ELSE Highest(Missing)
  BY ZenonT(40)
<1>4. tip \in Block /\ Chain[tip] \subseteq processed /\ (~fHavePruned => data = processed)
      /\ tip \in Chain[tip]
  BY ChainHolds DEF Base, Shape, Links, Received
<1> HIDE DEF Doomed, Missing, Walked, newTip, left
<1>5. Doomed # {} => b \in Chain[tip] /\ Parent[b] \in Chain[tip]
  <2> SUFFICES ASSUME NEW x \in Doomed
               PROVE  b \in Chain[tip] /\ Parent[b] \in Chain[tip]
    OBVIOUS
  <2>1. b \in Chain[tip]
    BY ZenonT(40), <1>2, <1>4, ChainTransitive
  <2>2. Parent[b] \in Chain[b]
    BY ZenonT(40), ChainParent
  <2> QED
    BY ZenonT(40), <2>1, <2>2, <1>4, ChainTransitive
<1>6. tip' \in Chain[tip]
  <2>1. Missing # {} => Highest(Missing) \in Missing
    BY ZenonT(40), <1>2, <1>4, HighestIn
  <2> QED
    BY ZenonT(40), <2>1, <1>1, <1>2, <1>3, <1>4, <1>5
<1>7. ASSUME ~fHavePruned
      PROVE  Missing = {} /\ b \notin Chain[tip']
  <2>1. Missing = {}
    BY ZenonT(40), <1>7, <1>2, <1>4
  <2>2. b \notin Chain[Parent[b]]
    BY ZenonT(40), TreeAssumption
  <2> QED
    BY ZenonT(40), <2>1, <2>2, <1>1, <1>2, <1>3
<1>8. /\ pc[t] = "idle" /\ calls' = [calls EXCEPT !["invalidate"] = @ + 1]
      /\ UNCHANGED world
  BY ZenonT(40), <1>1 DEF Call
<1>9. UNCHANGED <<processed, scripts, data, index, nSequenceId, nBlockSequenceId,
                  nBlockReverseSequenceId, nLastPreciousChainwork, pindexMostWork,
                  chainTx, unlinked, fHavePruned>>
  BY <1>1 DEF headers, sequence
<1>10. Revived(newTip, failed' \cup failedParent') \subseteq processed \cap chainTx
  BY DEF Revived
<1>11. /\ candidates' \subseteq candidates \cup (processed \cap chainTx)
       /\ pc' = pc \/ pc' = [pc EXCEPT ![t] = "activate"]
  BY ZenonT(40), <1>1, <1>2, <1>10 DEF Activate
<1>12. Missing = {} => /\ pc' = [pc EXCEPT ![t] = "activate"]
                       /\ Revived(tip', failed' \cup failedParent') \subseteq candidates'
                       /\ candidates' \subseteq candidates \cup Revived(tip', failed' \cup failedParent')
  BY ZenonT(40), <1>1, <1>2 DEF Activate
<1>13. \A y \in failedParent' \ failedParent : b \in Chain[y] /\ y \in Chain[tip]
  BY <1>1, <1>2
<1> QED
  BY ZenonT(40), <1>1, <1>6, <1>7, <1>8, <1>9, <1>11, <1>12, <1>13

\* invalidateblock: the tip only goes down, and revived candidates are linked.
LEMMA BaseInvalidate ==
  ASSUME Base, NEW t \in Thread, NEW b \in Block \ {Genesis}, InvalidateBlock(t, b)
  PROVE  Base'
<1>1. /\ calls' = [calls EXCEPT !["invalidate"] = @ + 1]
      /\ failed' = failed \cup {b}
      /\ \A y \in failedParent' \ failedParent : y \in Chain[tip]
      /\ tip' \in Chain[tip]
      /\ pc' = pc \/ pc' = [pc EXCEPT ![t] = "activate"]
      /\ candidates' \subseteq candidates \cup (processed \cap chainTx)
      /\ UNCHANGED <<processed, data, index, nSequenceId, nBlockSequenceId, pindexMostWork,
                     chainTx, unlinked, fHavePruned, world>>
  BY InvalidateFacts, ZenonT(40)
<1>2. tip \in Block /\ Chain[tip] \subseteq processed
  BY DEF Base, Links, Received
<1>3. Chain[tip'] \subseteq Chain[tip] /\ tip' \in Block /\ Chain[tip] \subseteq Block
  BY ZenonT(40), <1>1, <1>2, ChainTransitive, ChainHolds
<1>4. Shape'
  <2>1. calls' \in [Command -> Nat]
    BY <1>1 DEF Base, Shape, Command
  <2>2. pc' \in [Thread -> {"idle", "activate"}]
    BY ZenonT(40), <1>1 DEF Base, Shape
  <2>3. failed' \subseteq Block /\ failedParent' \subseteq Block
    BY <1>1, <1>3 DEF Base, Shape
  <2> QED
    BY ZenonT(40), <1>1, <2>1, <2>2, <2>3 DEF Base, Shape
<1>5. Links'
  <2>1. \A c \in candidates' : Received(c)'
    BY ZenonT(40), <1>1 DEF Base, Links, Received
  <2>2. (Received(tip))' /\ Chain[tip'] \cap world'.badConnect = {}
    BY ZenonT(40), <1>1, <1>2, <1>3 DEF Base, Links, Received
  <2>3. \A u \in Thread : pc'[u] = "idle" => pindexMostWork'[u] = Null
    BY <1>1 DEF Base, Shape, Links
  <2> QED
    BY ZenonT(40), <1>1, <2>1, <2>2, <2>3 DEF Base, Links, Received
<1> QED
  BY <1>4, <1>5 DEF Base

\* reconsiderblock only clears marks and adds linked blocks to the candidates.
LEMMA BaseReconsider ==
  ASSUME Base, NEW t \in Thread, NEW b, ReconsiderBlock(t, b)
  PROVE  Base'
<1>1. /\ calls' = [calls EXCEPT !["reconsider"] = @ + 1]
      /\ failed' \subseteq failed /\ failedParent' \subseteq failedParent
      /\ candidates' \subseteq candidates \cup (processed \cap chainTx)
      /\ pc' = [pc EXCEPT ![t] = "activate"]
      /\ UNCHANGED <<processed, data, index, nSequenceId, nBlockSequenceId, pindexMostWork,
                     chainTx, unlinked, tip, fHavePruned, world>>
  BY ZenonT(40) DEF ReconsiderBlock, Call, Activate, headers, sequence
<1>2. Shape'
  <2>1. calls' \in [Command -> Nat]
    BY <1>1 DEF Base, Shape, Command
  <2>2. pc' \in [Thread -> {"idle", "activate"}]
    BY <1>1 DEF Base, Shape
  <2> QED
    BY ZenonT(40), <1>1, <2>1, <2>2 DEF Base, Shape
<1>3. Links'
  <2>1. \A c \in candidates' : Received(c)'
    BY ZenonT(40), <1>1 DEF Base, Links, Received
  <2>2. \A u \in Thread : pc'[u] = "idle" => pindexMostWork'[u] = Null
    BY ZenonT(40), <1>1 DEF Base, Shape, Links
  <2> QED
    BY ZenonT(40), <1>1, <2>1, <2>2 DEF Base, Links, Received
<1> QED
  BY <1>2, <1>3 DEF Base

\* PreciousBlock: nothing but the sequence numbers and the candidates.
LEMMA PreciousFacts ==
  ASSUME Base, NEW t \in Thread, NEW b \in Block, PreciousBlock(t, b)
  PROVE  /\ pc[t] = "idle" /\ calls' = [calls EXCEPT !["precious"] = @ + 1]
         /\ UNCHANGED <<processed, scripts, data, failed, failedParent, index, nBlockSequenceId,
                        pindexMostWork, chainTx, unlinked, tip, fHavePruned, world>>
         /\ \/ /\ Work[b] < Work[tip]
               /\ UNCHANGED <<nSequenceId, nBlockReverseSequenceId, nLastPreciousChainwork,
                              candidates, pc>>
            \/ /\ ~(Work[b] < Work[tip])
               /\ pc' = [pc EXCEPT ![t] = "activate"]
               /\ nLastPreciousChainwork' = Work[tip]
               /\ nSequenceId' = [nSequenceId EXCEPT ![b] = ReverseSequenceId]
               /\ nBlockReverseSequenceId' = IF ReverseSequenceId > MinSequenceId
                                             THEN ReverseSequenceId - 1 ELSE ReverseSequenceId
               /\ candidates' = IF b \in (processed \cap chainTx) \ Invalid
                                THEN PruneBlockIndexCandidates(nSequenceId', candidates \cup {b}, tip)
                                ELSE candidates \ {b}
<1>1. /\ pc[t] = "idle" /\ calls' = [calls EXCEPT !["precious"] = @ + 1]
      /\ UNCHANGED <<processed, scripts, data, failed, failedParent, index,
                     pindexMostWork, chainTx, unlinked, tip, fHavePruned, world>>
  BY ZenonT(40) DEF PreciousBlock, Call, status, headers
<1>2. CASE Work[b] < Work[tip]
  BY ZenonT(40), <1>1, <1>2 DEF PreciousBlock, sequence
<1>3. CASE ~(Work[b] < Work[tip])
  BY <1>1, <1>3, Zenon DEF PreciousBlock, Activate
<1> QED
  BY ZenonT(40), <1>2, <1>3

\* preciousblock moves numbers and at most one linked block.
LEMMA BasePrecious ==
  ASSUME Base, NEW t \in Thread, NEW b \in Block, PreciousBlock(t, b),
         Counters
  PROVE  Base'
<1>1. /\ calls' = [calls EXCEPT !["precious"] = @ + 1]
      /\ UNCHANGED <<processed, data, failed, failedParent, index, nBlockSequenceId,
                     pindexMostWork, chainTx, unlinked, tip, fHavePruned, world>>
  BY ZenonT(40), PreciousFacts
<1>2. /\ pc' = pc \/ pc' = [pc EXCEPT ![t] = "activate"]
      /\ nSequenceId' = nSequenceId \/ nSequenceId' = [nSequenceId EXCEPT ![b] = ReverseSequenceId]
      /\ candidates' \subseteq candidates \cup (processed \cap chainTx)
  BY ZenonT(40), PreciousFacts DEF PruneBlockIndexCandidates
<1>3. ReverseSequenceId \in Int
  BY DEF ReverseSequenceId, Counters
<1>4. Shape'
  <2>1. calls' \in [Command -> Nat]
    BY <1>1 DEF Base, Shape, Command
  <2>2. pc' \in [Thread -> {"idle", "activate"}]
    BY <1>2 DEF Base, Shape
  <2>3. nSequenceId' \in [Block -> Int]
    BY <1>2, <1>3 DEF Base, Shape
  <2> QED
    BY ZenonT(40), <1>1, <2>1, <2>2, <2>3 DEF Base, Shape
<1>5. Links'
  <2>1. \A c \in candidates' : Received(c)'
    BY ZenonT(40), <1>1, <1>2 DEF Base, Links, Received
  <2>2. \A u \in Thread : pc'[u] = "idle" => pindexMostWork'[u] = Null
    BY ZenonT(40), <1>1, <1>2 DEF Base, Shape, Links
  <2> QED
    BY ZenonT(40), <1>1, <2>1, <2>2 DEF Base, Links, Received
<1> QED
  BY <1>4, <1>5 DEF Base

\* Pruning takes blocks off the disk and leaves what was received.
LEMMA BasePrune ==
  ASSUME Base, NEW t \in Thread, NEW b \in Block, PruneOneBlockFile(t, b)
  PROVE  Base'
<1>1. /\ calls' = [calls EXCEPT !["prune"] = @ + 1]
      /\ data' \subseteq data /\ unlinked' \subseteq unlinked /\ fHavePruned' = TRUE
      /\ UNCHANGED <<processed, failed, failedParent, index, nSequenceId, nBlockSequenceId,
                     pc, pindexMostWork, chainTx, candidates, tip, world>>
  BY ZenonT(40) DEF PruneOneBlockFile, Call, headers, sequence, threads
<1>2. Shape'
  <2>1. calls' \in [Command -> Nat]
    BY <1>1 DEF Base, Shape, Command
  <2> QED
    BY ZenonT(40), <1>1, <2>1 DEF Base, Shape
<1>3. Links'
  BY ZenonT(40), <1>1 DEF Base, Links, Received
<1> QED
  BY <1>2, <1>3 DEF Base

\* A restart recomputes the links and the candidates, and no thread keeps a target.
LEMMA RestartFacts ==
  ASSUME Base, NEW t \in Thread, Restart(t)
  PROVE  /\ calls' = [calls EXCEPT !["restart"] = @ + 1]
         /\ failedParent' \subseteq failedParent
         /\ nSequenceId' = [b \in Block |-> 0] /\ nBlockSequenceId' = 1
         /\ nBlockReverseSequenceId' = -1 /\ nLastPreciousChainwork' = 0
         /\ \A b : b \in chainTx' <=> b \in processed /\ Chain[b] \subseteq processed
         /\ \A b : b \in unlinked' <=> b \in processed \ {Genesis} /\ Parent[b] \notin chainTx'
         /\ \A b : b \in candidates' <=>
              /\ b \in chainTx' /\ b \notin failed /\ b \notin failedParent'
              /\ ~Less(nSequenceId', b, tip)
         /\ pc' = [u \in Thread |-> IF u = t THEN "activate" ELSE "idle"]
         /\ pindexMostWork' = [u \in Thread |-> Null]
         /\ UNCHANGED <<processed, scripts, data, failed, index, tip, fHavePruned, world>>
<1>1. failedParent' \subseteq failedParent
  BY ZenonT(40) DEF Restart
<1>2. \A b : b \in candidates' <=>
        /\ b \in chainTx' /\ b \notin failed /\ b \notin failedParent'
        /\ ~Less(nSequenceId', b, tip)
  <2>1. candidates' = PruneBlockIndexCandidates(nSequenceId', chainTx' \ (failed \cup failedParent'), tip)
    BY ZenonT(40) DEF Restart
  <2> QED
    BY <2>1 DEF PruneBlockIndexCandidates
<1>3. \A b : b \in chainTx' <=> b \in processed /\ Chain[b] \subseteq processed
  BY ZenonT(40) DEF Restart
<1>4. \A b : b \in unlinked' <=> b \in processed \ {Genesis} /\ Parent[b] \notin chainTx'
  BY ZenonT(40) DEF Restart
<1> QED
  BY <1>1, <1>2, <1>3, <1>4, ZenonT(40) DEF Restart

\* A restart rebuilds the links and the candidates from the block index.
LEMMA BaseRestart ==
  ASSUME Base, NEW t \in Thread, Restart(t)
  PROVE  Base'
<1>1. /\ calls' = [calls EXCEPT !["restart"] = @ + 1]
      /\ failedParent' \subseteq failedParent
      /\ nSequenceId' = [b \in Block |-> 0] /\ nBlockSequenceId' = 1
      /\ pc' = [u \in Thread |-> IF u = t THEN "activate" ELSE "idle"]
      /\ pindexMostWork' = [u \in Thread |-> Null]
      /\ UNCHANGED <<processed, scripts, data, failed, index, tip, fHavePruned, world>>
  BY RestartFacts, ZenonT(40)
<1>2. /\ \A b \in chainTx' : b \in processed /\ Chain[b] \subseteq processed
      /\ candidates' \subseteq chainTx' /\ unlinked' \subseteq processed
  BY ZenonT(40), RestartFacts
<1>3. Shape'
  <2>1. calls' \in [Command -> Nat]
    BY <1>1 DEF Base, Shape, Command
  <2>2. pc' \in [Thread -> {"idle", "activate"}]
    BY <1>1
  <2>3. nSequenceId' \in [Block -> Int]
    BY <1>1
  <2>4. pindexMostWork' \in [Thread -> Block \cup {Null}]
    BY <1>1
  <2> QED
    BY ZenonT(40), <1>1, <2>1, <2>2, <2>3, <2>4 DEF Base, Shape
<1>4. Links'
  <2>1. \A u \in Thread : pindexMostWork'[u] = Null
    BY <1>1
  <2> QED
    BY ZenonT(40), <1>1, <1>2, <2>1 DEF Base, Shape, Links, Received
<1> QED
  BY <1>3, <1>4 DEF Base

\* The threads and blocks of a world exist.
LEMMA WorldFacts ==
  ASSUME Base
  PROVE  world.threads \subseteq Thread /\ world.blocks \subseteq Block /\ Genesis \notin world.badConnect
BY OtherAssumption DEF Base, Shape, World

\* The actions, one by one, for the invariance proofs below.
LEMMA NextCases ==
  ASSUME Base, Next
  PROVE  \E t \in world.threads :
           \/ ActivateBestChain(t)
           \/ Restart(t)
           \/ \E b \in Block \ {Genesis} :
                \/ ProcessNewBlockHeaders(t, b)
                \/ \E fRequested \in BOOLEAN : ProcessNewBlock(t, b, fRequested)
                \/ InvalidateBlock(t, b)
                \/ ReconsiderBlock(t, b)
           \/ \E b \in Block : PreciousBlock(t, b) \/ PruneOneBlockFile(t, b)
BY WorldFacts, Zenon DEF Next

\* Every step keeps the first layer and the numbers of preciousblock in range.
LEMMA BaseNext ==
  Base /\ Counters /\ [Next]_vars => Base' /\ Counters'
<1> SUFFICES ASSUME Base, Counters, [Next]_vars
             PROVE  Base' /\ Counters'
  OBVIOUS
<1>1. CASE UNCHANGED vars
  BY <1>1, ZenonT(40) DEF vars, status, headers, sequence, threads, Base, Shape, Links, Received, Counters
<1>2. CASE Next
  <2> USE WorldFacts
  <2>1. PICK t \in world.threads :
           \/ ActivateBestChain(t)
           \/ Restart(t)
           \/ \E b \in Block \ {Genesis} :
                \/ ProcessNewBlockHeaders(t, b)
                \/ \E fRequested \in BOOLEAN : ProcessNewBlock(t, b, fRequested)
                \/ InvalidateBlock(t, b)
                \/ ReconsiderBlock(t, b)
           \/ \E b \in Block : PreciousBlock(t, b) \/ PruneOneBlockFile(t, b)
    BY <1>2, NextCases, ZenonT(40)
  <2>2. CASE ActivateBestChain(t)
    <3>1. UNCHANGED <<nBlockReverseSequenceId, nLastPreciousChainwork>>
      BY ZenonT(40), <2>2 DEF ActivateBestChain, sequence
    <3> QED
      BY <3>1, <2>2, BaseActivate DEF Counters
  <2>3. CASE Restart(t)
    <3>1. nBlockReverseSequenceId' = -1 /\ nLastPreciousChainwork' = 0
      BY ZenonT(40), <2>3, RestartFacts
    <3>2. Counters'
      BY <3>1, OtherAssumption DEF Counters
    <3> QED
      BY ZenonT(40), <3>2, <2>3, BaseRestart
  <2>4. ASSUME NEW b \in Block \ {Genesis}, ProcessNewBlockHeaders(t, b)
        PROVE  Base' /\ Counters'
    <3>1. UNCHANGED <<nBlockReverseSequenceId, nLastPreciousChainwork>>
      BY <2>4 DEF ProcessNewBlockHeaders, sequence
    <3> QED
      BY ZenonT(40), <3>1, <2>4, BaseHeaders DEF Counters
  <2>5. ASSUME NEW b \in Block \ {Genesis}, NEW fRequested \in BOOLEAN,
               ProcessNewBlock(t, b, fRequested)
        PROVE  Base' /\ Counters'
    <3>1. UNCHANGED <<nBlockReverseSequenceId, nLastPreciousChainwork>>
      BY ZenonT(40), <2>5 DEF ProcessNewBlock
    <3>2. Base'
      BY <2>5, BaseLink, BaseNoLink, ZenonT(40)
    <3> QED
      BY <3>1, <3>2 DEF Counters
  <2>6. ASSUME NEW b \in Block \ {Genesis}, InvalidateBlock(t, b)
        PROVE  Base' /\ Counters'
    <3>1. UNCHANGED <<nBlockReverseSequenceId, nLastPreciousChainwork>>
      BY ZenonT(40), <2>6, InvalidateFacts
    <3> QED
      BY ZenonT(40), <3>1, <2>6, BaseInvalidate DEF Counters
  <2>7. ASSUME NEW b \in Block \ {Genesis}, ReconsiderBlock(t, b)
        PROVE  Base' /\ Counters'
    <3>1. UNCHANGED <<nBlockReverseSequenceId, nLastPreciousChainwork>>
      BY ZenonT(40), <2>7 DEF ReconsiderBlock, sequence
    <3> QED
      BY <3>1, <2>7, BaseReconsider DEF Counters
  <2>8. ASSUME NEW b \in Block, PreciousBlock(t, b)
        PROVE  Base' /\ Counters'
    <3>1. tip \in Block /\ Work[tip] \in Nat
      BY ZenonT(40), TreeAssumption DEF Base, Links, Received
    <3>2. /\ nBlockReverseSequenceId' = nBlockReverseSequenceId \/ nBlockReverseSequenceId' =
               IF ReverseSequenceId > MinSequenceId THEN ReverseSequenceId - 1 ELSE ReverseSequenceId
          /\ nLastPreciousChainwork' \in {nLastPreciousChainwork, Work[tip]}
      BY <2>8, PreciousFacts, ZenonT(40)
    <3>3. ReverseSequenceId \in Int /\ ReverseSequenceId < 0 /\ ReverseSequenceId >= MinSequenceId
          /\ MinSequenceId \in Int
      BY OtherAssumption DEF ReverseSequenceId, Counters
    <3>4. Counters'
      BY <3>1, <3>2, <3>3, OtherAssumption DEF Counters
    <3> QED
      BY <3>4, <2>8, BasePrecious
  <2>9. ASSUME NEW b \in Block, PruneOneBlockFile(t, b)
        PROVE  Base' /\ Counters'
    <3>1. UNCHANGED <<nBlockReverseSequenceId, nLastPreciousChainwork>>
      BY <2>9 DEF PruneOneBlockFile, sequence
    <3> QED
      BY ZenonT(40), <3>1, <2>9, BasePrune DEF Counters
  <2> QED
    BY ZenonT(40), <2>1, <2>2, <2>3, <2>4, <2>5, <2>6, <2>7, <2>8, <2>9
<1> QED
  BY <1>1, <1>2

\* A step puts only threads of the world to work.
LEMMA BusyNext ==
  Base /\ Busy /\ [Next]_vars => Busy'
<1> SUFFICES ASSUME Base, Busy, [Next]_vars, NEW u \in Thread, u \notin world'.threads
             PROVE  pc'[u] = "idle"
  BY DEF Busy
<1>1. CASE UNCHANGED vars
  BY ZenonT(40), <1>1 DEF vars, threads, Busy
<1>2. CASE Next
  <2> DEFINE Only(t) == world' = world /\ (pc' = pc \/ (\E v : pc' = [pc EXCEPT ![t] = v])
                                           \/ pc' = [w \in Thread |-> IF w = t THEN "activate" ELSE "idle"])
  <2>1. PICK t \in world.threads :
           \/ ActivateBestChain(t)
           \/ Restart(t)
           \/ \E b \in Block \ {Genesis} :
                \/ ProcessNewBlockHeaders(t, b)
                \/ \E fRequested \in BOOLEAN : ProcessNewBlock(t, b, fRequested)
                \/ InvalidateBlock(t, b)
                \/ ReconsiderBlock(t, b)
           \/ \E b \in Block : PreciousBlock(t, b) \/ PruneOneBlockFile(t, b)
    BY <1>2, NextCases, ZenonT(40)
  <2>2. t \in Thread
    BY WorldFacts
  <2>5. ASSUME NEW b \in Block \ {Genesis}, ProcessNewBlockHeaders(t, b)
        PROVE  Only(t)
    BY <2>5, Zenon DEF ProcessNewBlockHeaders, threads
  <2>6. ASSUME NEW b \in Block \ {Genesis}, NEW fRequested \in BOOLEAN,
               ProcessNewBlock(t, b, fRequested)
        PROVE  Only(t)
    BY <2>6, Zenon DEF ProcessNewBlock, Activate
  <2>7. ASSUME NEW b \in Block \ {Genesis}, InvalidateBlock(t, b)
        PROVE  Only(t)
    BY <2>2, <2>7, InvalidateFacts, ZenonT(40)
  <2>8. ASSUME NEW b \in Block \ {Genesis}, ReconsiderBlock(t, b)
        PROVE  Only(t)
    BY <2>8, Zenon DEF ReconsiderBlock, Activate, Call
  <2>9. ASSUME NEW b \in Block, PreciousBlock(t, b)
        PROVE  Only(t)
    BY <2>2, <2>9, PreciousFacts, ZenonT(40)
  <2>10. ASSUME NEW b \in Block, PruneOneBlockFile(t, b)
        PROVE  Only(t)
    BY <2>10, ZenonT(40) DEF PruneOneBlockFile, Call, threads
  <2>11. Only(t)
    <3>1. Only(t) \/ ActivateBestChain(t) \/ Restart(t)
      BY <2>1, <2>5, <2>6, <2>7, <2>8, <2>9, <2>10, ZenonT(40)
    <3>2. ActivateBestChain(t) => Only(t)
      BY Zenon DEF ActivateBestChain, NothingToDo, MakeStep
    <3>3. Restart(t) => Only(t)
      BY ZenonT(40) DEF Restart
    <3> QED
      BY <3>1, <3>2, <3>3
  <2>12. u \notin world.threads /\ u # t /\ pc[u] = "idle" /\ pc \in [Thread -> {"idle", "activate"}]
    BY ZenonT(40), <2>11 DEF Busy, Base, Shape
  <2>13. CASE pc' = pc
    BY ZenonT(40), <2>12, <2>13
  <2>14. CASE \E v : pc' = [pc EXCEPT ![t] = v]
    BY ZenonT(40), <2>12, <2>14
  <2>15. CASE pc' = [w \in Thread |-> IF w = t THEN "activate" ELSE "idle"]
    BY ZenonT(40), <2>12, <2>15
  <2> QED
    BY <2>11, <2>13, <2>14, <2>15
<1> QED
  BY <1>1, <1>2

\* With one thread at work, no other is in a call.
LEMMA AloneOthers ==
  ASSUME Base, Busy, Alone, NEW t \in world.threads
  PROVE  \A u \in Thread \ {t} : pc[u] = "idle" /\ pindexMostWork[u] = Null
<1>1. IsFiniteSet(world.threads)
  BY ZenonT(40), WorldFacts, OtherAssumption, FS_Subset
<1>2. PICK x : world.threads = {x}
  BY ZenonT(40), <1>1, FS_Singleton DEF Alone
<1>3. \A u \in Thread \ {t} : pc[u] = "idle"
  BY ZenonT(40), <1>2 DEF Busy
<1> QED
  BY <1>3 DEF Base, Links

\* With one thread at work that is idle, no call is in progress.
LEMMA AloneIdle ==
  ASSUME Base, Busy, Alone, NEW t \in world.threads, pc[t] = "idle"
  PROVE  \A u \in Thread : pc[u] = "idle" /\ pindexMostWork[u] = Null
BY AloneOthers DEF Base, Links

\* The first layer is an invariant of every behaviour: whatever is linked, a
\* candidate, a kept target or active has its whole chain, and no block that fails
\* ConnectBlock is ever part of the active chain.
THEOREM BaseInvariant ==
  Spec => [](Base /\ Counters /\ Busy)
<1>1. Init => Base /\ Counters /\ Busy
  <2> SUFFICES ASSUME Init
               PROVE  Counters /\ Busy
    BY ZenonT(40), BaseInit
  <2>1. Counters
    BY OtherAssumption DEF Init, Counters
  <2>2. Busy
    BY DEF Init, Busy
  <2> QED
    BY <2>1, <2>2
<1>2. Base /\ Counters /\ Busy /\ [Next]_vars => (Base /\ Counters /\ Busy)'
  BY BaseNext, BusyNext
<1> QED
  BY <1>1, <1>2, PTL DEF Spec
=============================================================================
