--------------------------- MODULE BlockDownload ---------------------------
(***************************************************************************)
(* Which blocks are asked of which peer (net_processing.cpp): CNodeState,  *)
(* mapBlocksInFlight and the counters beside them, under the handlers of   *)
(* INV, HEADERS, CMPCTBLOCK, BLOCKTXN and BLOCK and the parts of           *)
(* SendMessages that start the synchronisation, detect a peer that stalls, *)
(* and ask for blocks.                                                     *)
(*                                                                         *)
(* A handler runs in the message thread under cs_main and is one action.   *)
(* BLOCK and BLOCKTXN release cs_main before ProcessNewBlock; only         *)
(* submitblock could run there, and it may as well run before the handler. *)
(* A handler is an operator from the state to [dl, chain, ask], ask being  *)
(* the requests it sends to the peer.                                      *)
(*                                                                         *)
(* Peers follow the protocol: they announce blocks of their chain, answer  *)
(* a request once, at any later time and in any order, or never, and their *)
(* blocks are valid.  Misbehaviour scores, rejects and the choice of the   *)
(* peers that announce by compact blocks are left out: any peer of         *)
(* world.cmpct may do so.  Every caller of MarkBlockAsInFlight passes a    *)
(* pindex, so fValidatedHeaders is true and nBlocksInFlightValidHeaders is *)
(* nBlocksInFlight.  A time is modelled by whether it has come.            *)
(* No peer is whitelisted, a client or a one-shot connection, and no block *)
(* is too far ahead of the tip to be stored.                               *)
(***************************************************************************)
EXTENDS Integers, Sequences, FiniteSets, FiniteSetsExt, SequencesExt

CONSTANTS
  Peer, Null, Genesis,
  Block,            \* the blocks beyond Genesis
  Prev,             \* hashPrevBlock of each
  Worlds,           \* who the peers are; one of them is chosen in Init
  BLOCK_DOWNLOAD_WINDOW, MAX_BLOCKS_IN_TRANSIT_PER_PEER, MAX_HEADERS_RESULTS

Index == Block \cup {Genesis}

ASSUME BlockDownloadAssumption ==
  /\ IsFiniteSet(Peer) /\ IsFiniteSet(Block) /\ Genesis \notin Block
  /\ Prev \in [Block -> Index]
  /\ Null \notin Peer \cup Index
  /\ BLOCK_DOWNLOAD_WINDOW \in Nat \ {0}
  /\ MAX_BLOCKS_IN_TRANSIT_PER_PEER \in Nat \ {0}
  /\ MAX_HEADERS_RESULTS \in Nat \ {0}

\* CBlockIndex: nHeight, and the block with its ancestors.  Blocks have the same
\* work, so nHeight also stands for nChainWork.
Height ==
  LET h[b \in Index] == IF b = Genesis THEN 0 ELSE 1 + h[Prev[b]] IN h
Chain ==
  LET c[b \in Index] == IF b = Genesis THEN {b} ELSE {b} \cup c[Prev[b]] IN c

VARIABLES
  dl,     \* mapNodeState and the variables of the anonymous namespace
  chain,  \* mapBlockIndex, the blocks on disk, the active tip, pindexBestHeader
  owed,   \* the requests each peer has not answered
  conns,  \* the connections each peer has made
  world   \* tips: each peer's chain; mute: peers that never send a block;
          \* preferred: outbound peers; cmpct: peers that know compact blocks;
          \* recent: the height from which the tip is recent; submit: whether
          \* submitblock is used; conns: a bound on the connections of each

vars == <<dl, chain, owed, conns, world>>

NewState ==
  [phase |-> "none", fDisconnect |-> FALSE,
   pindexBestKnownBlock |-> Null, hashLastUnknownBlock |-> Null,
   pindexLastCommonBlock |-> Null, fSyncStarted |-> FALSE,
   nStallingSince |-> FALSE, \* whether it is not 0
   vBlocksInFlight |-> <<>>, nBlocksInFlight |-> 0,
   fPreferredDownload |-> FALSE]

Init ==
  /\ dl = [state |-> [p \in Peer |-> NewState],
           mapBlocksInFlight |-> [b \in Index |-> Null],
           mapBlockSource |-> [b \in Index |-> Null],
           nSyncStarted |-> 0, nPreferredDownload |-> 0,
           nPeersWithValidatedDownloads |-> 0]
  /\ chain = [known |-> {Genesis}, data |-> {Genesis}, tip |-> Genesis,
              pindexBestHeader |-> Genesis]
  /\ owed = [p \in Peer |-> {}]
  /\ conns = [p \in Peer |-> 0]
  /\ world \in Worlds

Highest(S) == CHOOSE b \in S : \A c \in S : Height[c] <= Height[b]

LastCommonAncestor(b, c) == Highest(Chain[b] \cap Chain[c])

\* The tip is young enough (CanDirectFetch), and IsInitialBlockDownload, which is
\* over from then on as the tip's height never falls.
CanDirectFetch(c) == Height[c.tip] >= world.recent
IsInitialBlockDownload(c) == ~CanDirectFetch(c)

GetData(type, b) == [type |-> type, hash |-> b, from |-> Null]
GetHeaders(from, stop) == [type |-> "headers", hash |-> stop, from |-> from]

InFlight(d, b) == d.mapBlocksInFlight[b] # Null
Held(c, b) == b \in c.data
Missing(d, c, b) == ~Held(c, b) /\ ~InFlight(d, b)

-----------------------------------------------------------------------------
(* What is in flight.                                                      *)

\* Mutant of MarkBlockAsReceived: the stalling mark is kept.
MarkBlockAsReceivedStalling(d, b) ==
  LET p == d.mapBlocksInFlight[b]
  IN  IF p = Null THEN d ELSE
        [d EXCEPT !.state[p].vBlocksInFlight = SelectSeq(@, LAMBDA e : e.hash # b),
                  !.state[p].nBlocksInFlight = @ - 1,
                  !.nPeersWithValidatedDownloads =
                     IF d.state[p].nBlocksInFlight = 1 THEN @ - 1 ELSE @,
                  !.mapBlocksInFlight[b] = Null]

MarkBlockAsReceived(d, b) ==
  LET p == d.mapBlocksInFlight[b]
  IN  IF p = Null THEN d ELSE
        [d EXCEPT !.state[p].vBlocksInFlight = SelectSeq(@, LAMBDA e : e.hash # b),
                  !.state[p].nBlocksInFlight = @ - 1,
                  !.state[p].nStallingSince = FALSE,
                  !.nPeersWithValidatedDownloads =
                     IF d.state[p].nBlocksInFlight = 1 THEN @ - 1 ELSE @,
                  !.mapBlocksInFlight[b] = Null]

\* For a block that is not in flight from p; partial is whether the entry gets a
\* PartiallyDownloadedBlock.
MarkBlockAsInFlight(d, p, b, partial) ==
  LET r == MarkBlockAsReceived(d, b)
  IN  [r EXCEPT !.state[p].vBlocksInFlight = Append(@, [hash |-> b, partialBlock |-> partial]),
                !.state[p].nBlocksInFlight = @ + 1,
                !.nPeersWithValidatedDownloads =
                   IF r.state[p].nBlocksInFlight = 0 THEN @ + 1 ELSE @,
                !.mapBlocksInFlight[b] = p]

\* The loops over vToDownload and vToFetch.
MarkAll(d, p, bs) ==
  FoldLeft(LAMBDA e, b : MarkBlockAsInFlight(e, p, b, FALSE), d, bs)

Partial(d, p, b) ==
  \E i \in DOMAIN d.state[p].vBlocksInFlight :
    d.state[p].vBlocksInFlight[i] = [hash |-> b, partialBlock |-> TRUE]

SetPartial(d, p, b) ==
  [d EXCEPT !.state[p].vBlocksInFlight =
     [i \in DOMAIN @ |-> IF @[i].hash = b THEN [@[i] EXCEPT !.partialBlock = TRUE] ELSE @[i]]]

-----------------------------------------------------------------------------
(* What a peer has.                                                        *)

\* b is at least as good as the best block known of the peer.
Better(s, b) ==
  s.pindexBestKnownBlock = Null \/ Height[b] >= Height[s.pindexBestKnownBlock]

ProcessBlockAvailability(s, c) ==
  LET b == s.hashLastUnknownBlock
  IN  IF b \in c.known
        THEN [s EXCEPT !.pindexBestKnownBlock = IF Better(s, b) THEN b ELSE @,
                       !.hashLastUnknownBlock = Null]
        ELSE s

UpdateBlockAvailability(d, c, p, b) ==
  LET s == ProcessBlockAvailability(d.state[p], c)
      t == IF b \notin c.known THEN [s EXCEPT !.hashLastUnknownBlock = b]
           ELSE IF Better(s, b) THEN [s EXCEPT !.pindexBestKnownBlock = b]
           ELSE s
  IN  [d EXCEPT !.state[p] = t]

-----------------------------------------------------------------------------
(* Validation, as far as download sees it.                                 *)

\* ProcessNewBlockHeaders on headers that end in b and whose parent is known.
AcceptHeaders(c, b) ==
  [c EXCEPT !.known = @ \cup Chain[b],
            !.pindexBestHeader = IF Height[b] > Height[@] THEN b ELSE @]

\* The tips ActivateBestChain may settle on.
BestTips(data, tip) ==
  LET linked == {b \in data : Chain[b] \subseteq data}
      most == Height[Highest(linked)]
  IN  IF Height[tip] = most THEN {tip} ELSE {b \in linked : Height[b] = most}

\* ProcessNewBlock of a valid block, with BlockChecked for the blocks that are
\* connected; fForce is fForceProcessing, tip one of BestTips.
ProcessNewBlock(d, c, b, fForce, tip) ==
  LET h == AcceptHeaders(c, b)
      stores == b \notin c.data /\ (fForce \/ Height[b] > Height[c.tip])
  IN  IF ~stores THEN [dl |-> d, chain |-> h, ask |-> {}] ELSE
        [dl |-> [d EXCEPT !.mapBlockSource =
                   [x \in Index |-> IF x \in Chain[tip] \ Chain[c.tip] THEN Null ELSE @[x]]],
         chain |-> [h EXCEPT !.data = @ \cup {b}, !.tip = tip],
         ask |-> {}]

\* mapBlockSource.emplace
Sourced(d, p, b) ==
  [d EXCEPT !.mapBlockSource[b] = IF @ = Null THEN p ELSE @]

Results(d, c, b, fForce) ==
  {ProcessNewBlock(d, c, b, fForce, tip) : tip \in BestTips(c.data \cup {b}, c.tip)}

-----------------------------------------------------------------------------
(* FindNextBlocksToDownload.                                               *)

\* The state of p with pindexLastCommonBlock brought back to its chain.
WithCommon(s, c) ==
  LET best == s.pindexBestKnownBlock
      guess == CHOOSE b \in Chain[c.tip] :
                 Height[b] = Min({Height[best], Height[c.tip]})
      last == IF s.pindexLastCommonBlock = Null THEN guess ELSE s.pindexLastCommonBlock
  IN  [s EXCEPT !.pindexLastCommonBlock = LastCommonAncestor(last, best)]

ByHeight(S) == SetToSortSeq(S, LAMBDA a, b : Height[a] < Height[b])

\* Every linked block of the walk is reached, as the walk only ends at a missing
\* one; waitingfor is the peer of the first block of the walk that is in flight.
FindNextBlocksToDownload(d, c, p, count) ==
  LET s == ProcessBlockAvailability(d.state[p], c)
      best == s.pindexBestKnownBlock
      t == WithCommon(s, c)
      nWindowEnd == Height[t.pindexLastCommonBlock] + BLOCK_DOWNLOAD_WINDOW
      walk == {b \in Chain[best] : /\ Height[b] > Height[t.pindexLastCommonBlock]
                                   /\ Height[b] <= nWindowEnd + 1}
      wanted == {b \in walk : Missing(d, c, b) /\ Height[b] <= nWindowEnd}
      beyond == \E b \in walk : Missing(d, c, b) /\ Height[b] > nWindowEnd
      waiting == ByHeight({b \in walk : ~Held(c, b) /\ InFlight(d, b)})
      waitingfor == d.mapBlocksInFlight[Head(waiting)]
      linked == {b \in walk : Chain[b] \subseteq c.data}
      nothing == [s |-> s, vBlocks |-> <<>>, staller |-> Null]
  IN  IF best = Null THEN nothing
      ELSE IF Height[best] < Height[c.tip] THEN nothing
      ELSE IF t.pindexLastCommonBlock = best THEN [nothing EXCEPT !.s = t]
      ELSE [s |-> IF linked = {} THEN t ELSE [t EXCEPT !.pindexLastCommonBlock = Highest(linked)],
            vBlocks |-> SubSeq(ByHeight(wanted), 1, Min({count, Cardinality(wanted)})),
            staller |-> IF wanted = {} /\ beyond /\ waiting # <<>> /\ waitingfor # p
                          THEN waitingfor
                          ELSE Null]

-----------------------------------------------------------------------------
(* The handlers.                                                           *)

\* An operator instead of a set of states where nothing is left to chance.
Done(d, c, ask) == [dl |-> d, chain |-> c, ask |-> ask]

\* INV of block b.
Inv(d, c, p, b) ==
  Done(UpdateBlockAvailability(d, c, p, b), c,
       IF b \notin c.known /\ ~InFlight(d, b) THEN {GetHeaders(c.pindexBestHeader, b)} ELSE {})

\* The direct fetch of HEADERS: the blocks on the way from the active chain to
\* last, unless there are more than can be in transit.
DirectFetch(d, c, p, last) ==
  LET path == Chain[last] \ Chain[c.tip]
      down == Reverse(ByHeight({b \in path : Missing(d, c, b)}))
      limit == MAX_BLOCKS_IN_TRANSIT_PER_PEER
      large == Len(down) > limit /\ Prev[down[limit + 1]] \notin Chain[c.tip]
      up == Reverse(SubSeq(down, 1, Min({Len(down), limit + 1})))
      free == Max({0, limit - d.state[p].nBlocksInFlight})
  IN  IF large \/ ~CanDirectFetch(c) \/ Height[c.tip] > Height[last]
        THEN <<>>
        ELSE SubSeq(up, 1, Min({Len(up), free}))

\* HEADERS, with the headers of bs, each the parent of the next.
Headers(d, c, p, bs) ==
  LET last == bs[Len(bs)]
      h == AcceptHeaders(c, last)
      e == UpdateBlockAvailability(d, h, p, last)
      fetch == DirectFetch(e, h, p, last)
      f == MarkAll(e, p, fetch)
      compact == /\ p \in world.cmpct
                 /\ Len(fetch) = 1
                 /\ Cardinality({b \in Index : InFlight(f, b)}) = 1
                 /\ Chain[Prev[last]] \subseteq h.data
  IN  IF bs = <<>> THEN Done(d, c, {})
      ELSE IF Prev[bs[1]] \notin c.known
        THEN Done(UpdateBlockAvailability(d, c, p, last), c, {GetHeaders(c.pindexBestHeader, Null)})
        ELSE Done(f, h,
               {GetData(IF compact THEN "cmpct" ELSE "block", b) : b \in ToSet(fetch)}
                 \cup IF Len(bs) = MAX_HEADERS_RESULTS THEN {GetHeaders(last, Null)} ELSE {})

\* BLOCK: the block is taken off the list of whichever peer it was asked of.
GotBlock(d, c, p, b) ==
  Results(Sourced(MarkBlockAsReceived(d, b), p, b), c, b, InFlight(d, b))

\* BLOCKTXN; filled is whether FillBlock finds no collision of short ids.
GotBlockTxn(d, c, p, b, filled) ==
  IF d.mapBlocksInFlight[b] # p \/ ~Partial(d, p, b) THEN {Done(d, c, {})}
  ELSE IF ~filled THEN {Done(d, c, {GetData("block", b)})}
  ELSE Results(Sourced(MarkBlockAsReceived(d, b), p, b), c, b, TRUE)

\* The optimistic reconstruction of a block that is in flight from another peer
\* or for which p has too many in flight.
Reconstruct(d, c, p, b, status, filled) ==
  IF status # "complete" \/ ~filled THEN {Done(d, c, {})}
  ELSE {[r EXCEPT !.dl = MarkBlockAsReceived(@, b)] : r \in Results(Sourced(d, p, b), c, b, TRUE)}

\* Mutant of Decode: a compact block that cannot be decoded is dropped.
DecodeDropped(d, c, p, b, status, filled) ==
  CASE status = "failed"   -> {Done(d, c, {})}
    [] status = "missing"  -> {Done(d, c, {GetData("txn", b)})}
    [] status = "complete" -> GotBlockTxn(d, c, p, b, filled)

\* InitData and what follows it; status is "failed" for duplicate short ids,
\* "missing" when transactions have to be asked for.
Decode(d, c, p, b, status, filled) ==
  CASE status = "failed"   -> {Done(d, c, {GetData("block", b)})}
    [] status = "missing"  -> {Done(d, c, {GetData("txn", b)})}
    [] status = "complete" -> GotBlockTxn(d, c, p, b, filled)

\* CMPCTBLOCK.
CmpctBlock(d, c, p, b, status, filled) ==
  LET h == AcceptHeaders(c, b)
      e == UpdateBlockAvailability(d, h, p, b)
      mine == e.mapBlocksInFlight[b] = p
      room == ~InFlight(e, b) /\ e.state[p].nBlocksInFlight < MAX_BLOCKS_IN_TRANSIT_PER_PEER
      byGetData == {Done(e, h, IF InFlight(e, b) THEN {GetData("block", b)} ELSE {})}
      marked == IF mine THEN SetPartial(e, p, b) ELSE MarkBlockAsInFlight(e, p, b, TRUE)
  IN  IF Prev[b] \notin c.known
        THEN {Done(d, c, IF IsInitialBlockDownload(c) THEN {}
                         ELSE {GetHeaders(c.pindexBestHeader, Null)})}
      ELSE IF Held(h, b) THEN {Done(e, h, {})}
      ELSE IF Height[b] <= Height[h.tip] THEN byGetData
      ELSE IF ~InFlight(e, b) /\ ~CanDirectFetch(h) THEN {Done(e, h, {})}
      ELSE IF Height[b] > Height[h.tip] + 2
        THEN IF InFlight(e, b) THEN byGetData ELSE {Headers(e, h, p, <<b>>)}
      ELSE IF ~(mine \/ room) THEN Reconstruct(e, h, p, b, status, filled)
      ELSE IF mine /\ Partial(e, p, b) THEN {Done(e, h, {})}
      ELSE Decode(marked, h, p, b, status, filled)

\* SendMessages: fFetch, and the start of the synchronisation of headers.
Fetches(d, p) == d.state[p].fPreferredDownload \/ d.nPreferredDownload = 0

StartSync(d, c, p) ==
  LET start == IF c.pindexBestHeader = Genesis THEN Genesis ELSE Prev[c.pindexBestHeader]
  IN  IF ~d.state[p].fSyncStarted
           /\ ((d.nSyncStarted = 0 /\ Fetches(d, p)) \/ Height[c.pindexBestHeader] >= world.recent)
        THEN Done([d EXCEPT !.state[p].fSyncStarted = TRUE, !.nSyncStarted = @ + 1], c,
                  {GetHeaders(start, Null)})
        ELSE Done(d, c, {})

\* Its last part: ask for blocks, and mark the peer that holds up the window.
AskForBlocks(d, c, p) ==
  LET find == FindNextBlocksToDownload(d, c, p,
                MAX_BLOCKS_IN_TRANSIT_PER_PEER - d.state[p].nBlocksInFlight)
      e == MarkAll([d EXCEPT !.state[p] = find.s], p, find.vBlocks)
      stalls == find.staller # Null /\ e.state[p].nBlocksInFlight = 0
  IN  IF (Fetches(d, p) \/ ~IsInitialBlockDownload(c))
           /\ d.state[p].nBlocksInFlight < MAX_BLOCKS_IN_TRANSIT_PER_PEER
        THEN Done(IF stalls THEN [e EXCEPT !.state[find.staller].nStallingSince = TRUE] ELSE e, c,
                  {GetData("block", b) : b \in ToSet(find.vBlocks)})
        ELSE Done(d, c, {})

-----------------------------------------------------------------------------
(* The actions.                                                            *)

Talking(p) == dl.state[p].phase = "ready" /\ ~dl.state[p].fDisconnect

\* The result of a handler for p, with the request msgs it answers.
Apply(p, msgs, r) ==
  /\ dl' = r.dl
  /\ chain' = r.chain
  /\ owed' = [owed EXCEPT ![p] = (@ \ msgs) \cup r.ask]
  /\ UNCHANGED <<conns, world>>

InitializeNode(p) ==
  /\ dl.state[p].phase = "none" /\ conns[p] < world.conns[p]
  /\ dl' = [dl EXCEPT !.state[p] = [NewState EXCEPT !.phase = "init"]]
  /\ conns' = [conns EXCEPT ![p] = @ + 1]
  /\ UNCHANGED <<chain, owed, world>>

\* VERSION: UpdatePreferredDownload.
Version(p) ==
  /\ dl.state[p].phase = "init" /\ ~dl.state[p].fDisconnect
  /\ dl' = [dl EXCEPT !.state[p].phase = "version",
                      !.state[p].fPreferredDownload = p \in world.preferred,
                      !.nPreferredDownload = IF p \in world.preferred THEN @ + 1 ELSE @]
  /\ UNCHANGED <<chain, owed, conns, world>>

Verack(p) ==
  /\ dl.state[p].phase = "version" /\ ~dl.state[p].fDisconnect
  /\ dl' = [dl EXCEPT !.state[p].phase = "ready"]
  /\ UNCHANGED <<chain, owed, conns, world>>

\* The peer announces its tip by inv, by header or by compact block.
AnnounceInv(p) == Talking(p) /\ Apply(p, {}, Inv(dl, chain, p, world.tips[p]))

AnnounceHeader(p) == Talking(p) /\ Apply(p, {}, Headers(dl, chain, p, <<world.tips[p]>>))

AnnounceCmpctBlock(p) ==
  /\ Talking(p) /\ p \in world.cmpct \ world.mute
  /\ \E status \in {"failed", "missing", "complete"}, filled \in BOOLEAN :
       \E r \in CmpctBlock(dl, chain, p, world.tips[p], status, filled) : Apply(p, {}, r)

\* The peer answers a getheaders: what follows the fork with the locator, up to
\* the stop hash, or to its tip.
AnswerHeaders(p) ==
  /\ Talking(p)
  /\ \E msg \in {m \in owed[p] : m.type = "headers"} :
       LET end == IF msg.hash = Null THEN world.tips[p] ELSE msg.hash
           fork == Height[LastCommonAncestor(msg.from, world.tips[p])]
           bs == {b \in Chain[end] : Height[b] \in fork + 1 .. fork + MAX_HEADERS_RESULTS}
       IN  Apply(p, {msg}, Headers(dl, chain, p, ByHeight(bs)))

\* The peer answers a getdata or getblocktxn.
AnswerBlock(p) ==
  /\ Talking(p) /\ p \notin world.mute
  /\ \E msg \in owed[p] : \E filled \in BOOLEAN :
       \/ /\ msg.type = "block"
          /\ \E r \in GotBlock(dl, chain, p, msg.hash) : Apply(p, {msg}, r)
       \/ /\ msg.type = "txn"
          /\ \E r \in GotBlockTxn(dl, chain, p, msg.hash, filled) : Apply(p, {msg}, r)
       \/ /\ msg.type = "cmpct"
          /\ \E status \in {"failed", "missing", "complete"} :
               \E r \in CmpctBlock(dl, chain, p, msg.hash, status, filled) : Apply(p, {msg}, r)

\* SendMessages when no timeout has passed.
Sent(p) ==
  LET r == StartSync(dl, chain, p)
      a == AskForBlocks(r.dl, chain, p)
  IN  [a EXCEPT !.ask = @ \cup r.ask]

SendMessages(p) == Talking(p) /\ Apply(p, {}, Sent(p))

\* A peer that answers is lost a bounded number of times.
MayLose(p) == p \in world.mute \/ conns[p] < world.conns[p]


Overdue(s) == s.nStallingSince \/ Len(s.vBlocksInFlight) > 0

\* SendMessages when BLOCK_STALLING_TIMEOUT or the download timeout has passed.
SendMessagesLate(p) ==
  /\ Talking(p) /\ MayLose(p)
  /\ Overdue(dl.state[p])
  /\ LET r == StartSync(dl, chain, p)
     IN  Apply(p, {}, [r EXCEPT !.dl.state[p].fDisconnect = TRUE])

\* The connection is lost.
Disconnect(p) ==
  /\ dl.state[p].phase # "none" /\ ~dl.state[p].fDisconnect /\ MayLose(p)
  /\ dl' = [dl EXCEPT !.state[p].fDisconnect = TRUE]
  /\ UNCHANGED <<chain, owed, conns, world>>

\* Mutant of Finalized: the blocks in flight are left in the map.
FinalizedKept(d, p) ==
  LET s == d.state[p]
      minus(n, cond) == IF cond THEN n - 1 ELSE n
  IN  [d EXCEPT !.nSyncStarted = minus(@, s.fSyncStarted),
                !.mapBlockSource = [b \in Index |-> IF @[b] = p THEN Null ELSE @[b]],
                !.nPreferredDownload = minus(@, s.fPreferredDownload),
                !.nPeersWithValidatedDownloads = minus(@, s.nBlocksInFlight # 0),
                !.state[p] = NewState]

Finalized(d, p) ==
  LET s == d.state[p]
      listed == {s.vBlocksInFlight[i].hash : i \in DOMAIN s.vBlocksInFlight}
      minus(n, cond) == IF cond THEN n - 1 ELSE n
  IN  [d EXCEPT !.nSyncStarted = minus(@, s.fSyncStarted),
                !.mapBlocksInFlight = [b \in Index |-> IF b \in listed THEN Null ELSE @[b]],
                !.mapBlockSource = [b \in Index |-> IF @[b] = p THEN Null ELSE @[b]],
                !.nPreferredDownload = minus(@, s.fPreferredDownload),
                !.nPeersWithValidatedDownloads = minus(@, s.nBlocksInFlight # 0),
                !.state[p] = NewState]

\* From CConnman::DeleteNode; a later connection of the peer has another NodeId,
\* of which nothing may be recorded yet.
FinalizeNode(p) ==
  /\ dl.state[p].phase # "none" /\ dl.state[p].fDisconnect
  /\ dl' = Finalized(dl, p)
  /\ owed' = [owed EXCEPT ![p] = {}]
  /\ UNCHANGED <<chain, conns, world>>

\* submitblock hands in a block in the RPC thread.
SubmitBlock ==
  /\ world.submit
  /\ \E b \in Block :
       /\ Prev[b] \in chain.known /\ b \notin chain.data
       /\ \E r \in Results(dl, chain, b, TRUE) : dl' = r.dl /\ chain' = r.chain
  /\ world' = [world EXCEPT !.submit = FALSE]
  /\ UNCHANGED <<owed, conns>>

Next ==
  \/ \E p \in Peer :
       \/ InitializeNode(p) \/ Version(p) \/ Verack(p)
       \/ AnnounceInv(p) \/ AnnounceHeader(p) \/ AnnounceCmpctBlock(p)
       \/ AnswerHeaders(p) \/ AnswerBlock(p)
       \/ SendMessages(p) \/ SendMessagesLate(p)
       \/ Disconnect(p) \/ FinalizeNode(p)
  \/ SubmitBlock

\* When the step of p can change the state.
CanAnswerHeaders(p) == Talking(p) /\ \E m \in owed[p] : m.type = "headers"
CanAnswerBlock(p) == Talking(p) /\ p \notin world.mute /\ \E m \in owed[p] : m.type # "headers"
Answered(p, types) == \E m \in owed[p] \ owed'[p] : m.type \in types
CanAnnounce(p) ==
  Talking(p) /\ world.tips[p] \notin {dl.state[p].pindexBestKnownBlock, dl.state[p].hashLastUnknownBlock}
CanSend(p) == Talking(p) /\ Sent(p) # Done(dl, chain, {})
CanTimeOut(p) == Talking(p) /\ p \in world.mute /\ Overdue(dl.state[p])

\* The message and socket threads serve every peer; a peer connects, answers
\* getheaders and, unless it is mute, getdata, and announces its tip; time passes.
\* Where ENABLED is costly to evaluate, weak fairness is written out; to announce
\* and to time out make their condition false, so that it may not hold forever.
Fairness ==
  \A p \in Peer :
    /\ WF_vars(InitializeNode(p)) /\ WF_vars(Version(p)) /\ WF_vars(Verack(p))
    /\ WF_vars(FinalizeNode(p))
    /\ []<>~CanAnswerHeaders(p) \/ []<><<Answered(p, {"headers"})>>_vars
    /\ []<>~CanAnswerBlock(p) \/ []<><<Answered(p, {"block", "cmpct", "txn"})>>_vars
    /\ []<>~CanAnnounce(p)
    /\ []<>~CanTimeOut(p)
    /\ []<>~CanSend(p) \/ []<><<SendMessages(p)>>_vars

Spec == Init /\ [][Next]_vars
FairSpec == Spec /\ Fairness

-----------------------------------------------------------------------------
(* Properties.                                                             *)

Listed(p) == dl.state[p].vBlocksInFlight
Asked(p) == {Listed(p)[i].hash : i \in DOMAIN Listed(p)}
Count(P(_)) == Cardinality({p \in Peer : P(p)})

\* mapBlocksInFlight and the peers' lists record the same blocks, each once and
\* with its peer, and the counters beside them are exact: the assertions that
\* FinalizeNode makes when the last peer leaves, here of every state, over any
\* order of requests, late answers, timeouts and disconnections.
BookkeepingExact ==
  /\ \A p \in Peer, b \in Index : dl.mapBlocksInFlight[b] = p <=> b \in Asked(p)
  /\ \A p \in Peer :
       /\ Len(Listed(p)) = Cardinality(Asked(p))
       /\ dl.state[p].nBlocksInFlight = Len(Listed(p))
       /\ Len(Listed(p)) <= MAX_BLOCKS_IN_TRANSIT_PER_PEER
  /\ dl.nPeersWithValidatedDownloads = Count(LAMBDA p : Listed(p) # <<>>)
  /\ dl.nPreferredDownload = Count(LAMBDA p : dl.state[p].fPreferredDownload)
  /\ dl.nSyncStarted = Count(LAMBDA p : dl.state[p].fSyncStarted)
  /\ \A b \in Index : dl.mapBlockSource[b] # Null => dl.state[dl.mapBlockSource[b]].phase # "none"

\* A block is in flight only while its peer owes an answer that will take it off:
\* no path of the handlers of compact blocks forgets a block, which would hold
\* it back from every other peer until the download timeout.  A block that was
\* stored without its peer's answer is not waited for.
InFlightIsOwed ==
  \A p \in Peer : \A b \in Asked(p) \ chain.data :
    \E msg \in owed[p] : msg.hash = b /\ msg.type \in {"block", "cmpct", "txn"}

\* Only a peer that has a block in flight is marked as stalling, and so can be
\* disconnected for it.
StallingIsAsked == \A p \in Peer : dl.state[p].nStallingSince => Listed(p) # <<>>

=============================================================================
