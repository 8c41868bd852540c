------------------------------ MODULE DiskFlush ------------------------------
(***************************************************************************)
(* Block files, undo files, the block index database and the chainstate    *)
(* database, and the order in which FlushStateToDisk writes them.  The     *)
(* question is what a crash finds: every record of a database that points  *)
(* into a file must find there what it points to, and the next start must  *)
(* find the blocks it needs.                                               *)
(*                                                                         *)
(* The chain is linear and a block is its height; arrival is in any order. *)
(* The unit of size is one block, or one undo record.  All of it runs      *)
(* under cs_main, so between the steps of one flush only a crash can come. *)
(* A crash of the process keeps what the system has buffered; a loss of    *)
(* power may lose what was not committed.  How the coins are rolled back   *)
(* and forward after a partial write is the subject of Chainstate; here    *)
(* the chainstate is the block, or the pair of blocks, it stands for.      *)
(***************************************************************************)
EXTENDS Integers, Sequences

CONSTANTS
  MaxHeight, MaxFile,
  MaxBlockfileSize,  \* MAX_BLOCKFILE_SIZE
  MinBlocksToKeep,   \* MIN_BLOCKS_TO_KEEP
  PruneAfterHeight,  \* CChainParams::PruneAfterHeight
  MaxCrashes,        \* bound
  Worlds,            \* what a behaviour may meet, see World
  Null

\* The height and the files it may reach, whether it prunes, whether crashes lose
\* what was not committed, the operations that may fail (see Fails) and how often.
World == [height : 0..MaxHeight, files : 0..MaxFile, fPruneMode : BOOLEAN, power : BOOLEAN,
          failing : SUBSET {"space", "write", "open", "index", "coins"}, fails : Nat]

ASSUME SizeAssumption ==
  /\ MaxHeight \in Nat /\ MaxFile \in Nat /\ MaxCrashes \in Nat
  /\ MaxBlockfileSize \in Nat /\ MaxBlockfileSize >= 2
  /\ MinBlocksToKeep \in Nat /\ PruneAfterHeight \in Nat
  /\ MinBlocksToKeep <= PruneAfterHeight
  /\ Worlds \subseteq World

Block == 0..MaxHeight
File == 0..MaxFile

\* A place of a block file ("blk") or undo file ("rev").
Place == {"blk", "rev"} \X File \X Nat

VARIABLES
  index,              \* mapBlockIndex, by block: an Entry or NoEntry
  info,               \* vinfoBlockFile
  nLastBlockFile,
  setDirtyBlockIndex,
  setDirtyFileInfo,
  fCheckForPruning,
  fHavePruned,
  tip,                \* chainActive.Tip()
  coinsBest,          \* pcoinsTip->GetBestBlock()
  flush,              \* the flush under way, or NoFlush
  content,            \* what the places written so far hold, as a set of pairs
  unsynced,           \* the places written and not committed
  files,              \* the block files that exist
  db,                 \* the block index database, as committed
  flag,               \* "prunedblockfiles" as written, committed or not
  coinsDb,            \* the chainstate database: <<best block>> or <<new, old>>
  coinsLog,           \* the values it may have after a crash
  crashes, fails,
  world

memory == <<index, info, nLastBlockFile, setDirtyBlockIndex, setDirtyFileInfo,
            fCheckForPruning, fHavePruned, tip, coinsBest>>
disk == <<content, unsynced, files, db, flag, coinsDb, coinsLog>>
vars == <<memory, flush, disk, crashes, fails, world>>

\* CBlockIndex: nStatus, nFile, nDataPos, nUndoPos.
Entry == [data : BOOLEAN, undo : BOOLEAN, nFile : File, nDataPos : Nat, nUndoPos : Nat]
NoEntry == Null
ASSUME NullAssumption == Null \notin Entry

\* A header alone, and a block whose file was pruned.
Bare == [data |-> FALSE, undo |-> FALSE, nFile |-> 0, nDataPos |-> 0, nUndoPos |-> 0]

\* BlockStatus::hasData and hasUndo.
HaveData(e) == e # NoEntry /\ e.data
HaveUndo(e) == e # NoEntry /\ e.undo

NoInfo == [nSize |-> 0, nUndoSize |-> 0, nHeightLast |-> 0]

NoFlush == [step |-> "none", mode |-> "none", height |-> 0, toPrune |-> {},
            full |-> FALSE, update |-> FALSE]

\* FlushStateToDisk(mode, height) is called; with update, UpdateTip follows it.
Called(mode, height, update) ==
  [step |-> "begin", mode |-> mode, height |-> height, toPrune |-> {},
   full |-> FALSE, update |-> update]

\* InitBlockIndex, the connection of the genesis block and a first full flush.
Init ==
  LET genesis == [Bare EXCEPT !.data = TRUE]
      first == [NoInfo EXCEPT !.nSize = 1]
  IN /\ index = [b \in Block |-> IF b = 0 THEN genesis ELSE NoEntry]
     /\ info = [f \in File |-> IF f = 0 THEN first ELSE NoInfo]
     /\ nLastBlockFile = 0
     /\ setDirtyBlockIndex = {} /\ setDirtyFileInfo = {}
     /\ fCheckForPruning = FALSE /\ fHavePruned = FALSE
     /\ tip = 0 /\ coinsBest = 0
     /\ flush = NoFlush
     /\ content = {<<<<"blk", 0, 0>>, 0>>} /\ unsynced = {} /\ files = {0}
     /\ db = [index |-> index, info |-> info, last |-> 0, flag |-> FALSE]
     /\ flag = FALSE
     /\ coinsDb = <<0>> /\ coinsLog = {<<0>>}
     /\ crashes = 0 /\ fails = 0 /\ world \in Worlds

Idle == flush.step = "none"

\* An operation fails: "space" (CheckDiskSpace), "write" (an exception of a file
\* write), "open" (OpenBlockFile), "index" (WriteBatchSync), "coins" (Flush).
Fails(what) == what \in world.failing /\ fails < world.fails /\ fails' = fails + 1

-----------------------------------------------------------------------------
(* Files.                                                                  *)

\* Writing x at place p.
Put(c, p, x) == {e \in c : e[1] # p} \cup {<<p, x>>}

BlockPlace(e) == <<"blk", e.nFile, e.nDataPos>>
UndoPlace(e) == <<"rev", e.nFile, e.nUndoPos>>

\* ReadBlockFromDisk and UndoReadFromDisk find the block, or its undo record.
BlockReadable(e, b) == <<BlockPlace(e), b>> \in content
UndoReadable(e, b) == <<UndoPlace(e), b>> \in content

\* Mutant of Committed: the undo file only.
CommittedUndo(u, f) == {p \in u : p[2] # f \/ p[1] = "blk"}

\* FlushBlockFile of the current file f: its places are committed.
Committed(u, f) == {p \in u : p[2] # f}

\* With fFinalize, both files are cut to the sizes vinfoBlockFile has for them.
Truncated(c, f) ==
  {e \in c : \/ e[1][2] # f
             \/ e[1][1] = "blk" /\ e[1][3] < info[f].nSize
             \/ e[1][1] = "rev" /\ e[1][3] < info[f].nUndoSize}

\* The file FindBlockPos chooses: the first from the last one on with room.
Room(f) == info[f].nSize + 1 < MaxBlockfileSize
Chosen(f) ==
  /\ nLastBlockFile <= f /\ f <= world.files /\ Room(f)
  /\ \A g \in nLastBlockFile..(f - 1) : ~ Room(g)

\* CBlockFileInfo::AddBlock, and the size.
AddBlock(i, b) ==
  [i EXCEPT !.nSize = @ + 1, !.nHeightLast = IF b > @ THEN b ELSE @]

\* FindBlockPos moves to file f, flushing and finalizing the one it leaves.
LeftContent(f) == IF f = nLastBlockFile THEN content ELSE Truncated(content, nLastBlockFile)
LeftUnsynced(f) == IF f = nLastBlockFile THEN unsynced ELSE Committed(unsynced, nLastBlockFile)

-----------------------------------------------------------------------------
(* Arrival and connection of blocks.                                       *)

\* fCheckForPruning is set when a chunk of a file is allocated.
MaybeChunk ==
  fCheckForPruning' \in IF world.fPruneMode THEN {fCheckForPruning, TRUE} ELSE {fCheckForPruning}

\* The index entry ReceivedBlockTransactions leaves for a block written to f.
Received(f) == [Bare EXCEPT !.data = TRUE, !.nFile = f, !.nDataPos = info[f].nSize]

\* The header is accepted and recorded, if it is new.
Header(b) == IF index[b] = NoEntry THEN Bare ELSE index[b]

\* AcceptBlock takes a block that it does not have; a block of the active chain
\* that was pruned is not asked for, and ignored if it comes.
Wanted(b) == b > tip /\ b <= world.height /\ ~ HaveData(index[b])

\* AcceptBlock: the block is written at the end of the current file.  If the file
\* cannot be opened (written = FALSE), AbortNode is called and the block is recorded
\* all the same.
AcceptBlock(b) ==
  /\ Idle
  /\ Wanted(b)
  /\ \E f \in File, written \in BOOLEAN :
       LET p == <<"blk", f, info[f].nSize>>
       IN /\ Chosen(f)
          /\ IF written THEN UNCHANGED fails ELSE Fails("open")
          /\ nLastBlockFile' = f
          /\ content' = IF written THEN Put(LeftContent(f), p, b) ELSE LeftContent(f)
          /\ unsynced' = IF written THEN LeftUnsynced(f) \cup {p} ELSE LeftUnsynced(f)
          /\ files' = IF written THEN files \cup {f} ELSE files
          /\ info' = [info EXCEPT ![f] = AddBlock(@, b)]
          /\ setDirtyFileInfo' = setDirtyFileInfo \cup {f}
          /\ index' = [index EXCEPT ![b] = Received(f)]
          /\ setDirtyBlockIndex' = setDirtyBlockIndex \cup {b}
  /\ MaybeChunk
  /\ flush' = IF fCheckForPruning' THEN Called("none", 0, FALSE) ELSE NoFlush
  /\ UNCHANGED <<fHavePruned, tip, coinsBest, db, flag, coinsDb, coinsLog, crashes>>

\* AcceptBlock gives up: FindBlockPos finds no space, after it has counted the block
\* and before it marks the file dirty, or writing the block throws.
AcceptBlockFails(b) ==
  /\ Idle
  /\ Wanted(b)
  /\ \E f \in File :
       /\ Chosen(f)
       /\ nLastBlockFile' = f
       /\ content' = LeftContent(f) /\ unsynced' = LeftUnsynced(f)
       /\ info' = [info EXCEPT ![f] = AddBlock(@, b)]
       /\ \/ Fails("space") /\ UNCHANGED <<setDirtyFileInfo, files>>
          \/ /\ Fails("write")
             /\ setDirtyFileInfo' = setDirtyFileInfo \cup {f}
             /\ files' = files \cup {f}
  /\ index' = [index EXCEPT ![b] = Header(b)]
  /\ setDirtyBlockIndex' = IF index[b] = NoEntry THEN setDirtyBlockIndex \cup {b}
                           ELSE setDirtyBlockIndex
  /\ MaybeChunk
  /\ UNCHANGED <<fHavePruned, tip, coinsBest, flush, db, flag, coinsDb, coinsLog, crashes>>

\* The next block of the chain, with its data; it is read from disk.
Connectable(b) ==
  /\ Idle /\ coinsBest = tip /\ b = tip + 1
  /\ HaveData(index[b]) /\ BlockReadable(index[b], b)

\* Mutant of UndoRoom: the size is not advanced.
UndoRoomSame(f) == info

\* The undo record FindUndoPos makes room for.
UndoRoom(f) == [info EXCEPT ![f].nUndoSize = @ + 1]

\* ConnectTip: ConnectBlock writes the undo record, unless the block has one, into
\* the undo file that belongs to the block's file; the flush comes before UpdateTip.
ConnectTip(b) ==
  /\ Connectable(b)
  /\ LET e == index[b]
         p == <<"rev", e.nFile, info[e.nFile].nUndoSize>>
     IN IF e.undo
        THEN UNCHANGED <<index, info, setDirtyBlockIndex, setDirtyFileInfo, content, unsynced,
                         fCheckForPruning>>
        ELSE /\ index' = [index EXCEPT ![b].undo = TRUE, ![b].nUndoPos = p[3]]
             /\ info' = UndoRoom(e.nFile)
             /\ setDirtyBlockIndex' = setDirtyBlockIndex \cup {b}
             /\ setDirtyFileInfo' = setDirtyFileInfo \cup {e.nFile}
             /\ content' = Put(content, p, b)
             /\ unsynced' = unsynced \cup {p}
             /\ MaybeChunk
  /\ coinsBest' = b
  /\ flush' = Called("if_needed", 0, TRUE)
  /\ UNCHANGED <<nLastBlockFile, fHavePruned, tip, files, db, flag, coinsDb, coinsLog,
                 crashes, fails>>

\* FindUndoPos finds no space, or the undo record cannot be written.
ConnectTipFails(b) ==
  /\ Connectable(b) /\ ~ index[b].undo
  /\ Fails("space") \/ Fails("write")
  /\ info' = UndoRoom(index[b].nFile)
  /\ setDirtyFileInfo' = setDirtyFileInfo \cup {index[b].nFile}
  /\ MaybeChunk
  /\ UNCHANGED <<index, nLastBlockFile, setDirtyBlockIndex, fHavePruned, tip, coinsBest, flush,
                 disk, crashes>>

\* DisconnectTip of the tip: the block and its undo record are read from disk.
DisconnectTip ==
  /\ Idle /\ coinsBest = tip /\ tip > 0
  /\ HaveData(index[tip]) /\ BlockReadable(index[tip], tip)
  /\ HaveUndo(index[tip]) /\ UndoReadable(index[tip], tip)
  /\ coinsBest' = tip - 1
  /\ flush' = Called("if_needed", 0, TRUE)
  /\ UNCHANGED <<index, info, nLastBlockFile, setDirtyBlockIndex, setDirtyFileInfo,
                 fCheckForPruning, fHavePruned, tip, disk, crashes, fails>>

-----------------------------------------------------------------------------
(* FlushStateToDisk.                                                       *)

\* Callers that change nothing themselves: ActivateBestChain and AcceptToMemoryPool
\* (periodic), Shutdown and gettxoutsetinfo (always), PruneAndFlush (none).
CallFlush ==
  /\ Idle
  /\ \E mode \in {"none", "periodic", "always"} :
       /\ fCheckForPruning' = (fCheckForPruning \/ (mode = "none" /\ world.fPruneMode))
       /\ flush' = Called(mode, 0, FALSE)
  /\ UNCHANGED <<index, info, nLastBlockFile, setDirtyBlockIndex, setDirtyFileInfo,
                 fHavePruned, tip, coinsBest, disk, crashes, fails>>

\* The pruneblockchain RPC: not in a chain that is too short.
PruneBlockFilesManual ==
  /\ Idle /\ world.fPruneMode /\ tip >= PruneAfterHeight
  /\ \E height \in 1..tip : flush' = Called("none", height, FALSE)
  /\ UNCHANGED <<memory, disk, crashes, fails>>

\* Mutant of Prunable: one block too many.
PrunableOne(limit) ==
  {f \in File : f < nLastBlockFile /\ info[f].nSize # 0 /\ info[f].nHeightLast <= limit + 1}

\* The files that hold no block above a height; never the last file.
Prunable(limit) ==
  {f \in File : f < nLastBlockFile /\ info[f].nSize # 0 /\ info[f].nHeightLast <= limit}

\* FindFilesToPruneManual.
FindFilesToPruneManual(height) ==
  Prunable(IF height < tip - MinBlocksToKeep THEN height ELSE tip - MinBlocksToKeep)

\* FindFilesToPrune: the oldest of them, as many as the target asks for.
FindFilesToPrune ==
  IF tip <= PruneAfterHeight THEN {{}}
  ELSE {{f \in Prunable(tip - MinBlocksToKeep) : f < n} : n \in 0..(MaxFile + 1)}

\* The sets setFilesToPrune may become.
SetsToPrune ==
  CASE world.fPruneMode /\ flush.height > 0 -> {FindFilesToPruneManual(flush.height)}
    [] world.fPruneMode /\ flush.height = 0 /\ fCheckForPruning -> FindFilesToPrune
    [] OTHER -> {{}}

\* The blocks of a set of files.  (A header alone has nFile = 0.)
BlocksOf(s) == {b \in Block : index[b] # NoEntry /\ index[b].nFile \in s}

\* PruneOneBlockFile of every file of s.
PruneFiles(s) ==
  /\ index' = [b \in Block |-> IF b \in BlocksOf(s) THEN Bare ELSE index[b]]
  /\ info' = [f \in File |-> IF f \in s THEN NoInfo ELSE info[f]]
  /\ setDirtyFileInfo' = setDirtyFileInfo \cup s
  /\ setDirtyBlockIndex' = setDirtyBlockIndex \cup BlocksOf(s)

\* Mutant of RecordPruned: only in memory.
RecordPrunedMemory(s) == fHavePruned' = (fHavePruned \/ s # {}) /\ UNCHANGED flag

\* The first file to be pruned is recorded in the database.
RecordPruned(s) ==
  /\ fHavePruned' = (fHavePruned \/ s # {})
  /\ flag' = (flag \/ (s # {} /\ ~ fHavePruned))

\* FlushStateToDisk returns true; UpdateTip follows in ConnectTip and DisconnectTip.
Return == flush' = NoFlush /\ tip' = IF flush.update THEN coinsBest ELSE tip

\* FlushStateToDisk returns false.
ReturnError == flush' = NoFlush /\ UNCHANGED tip

\* What to prune and whether to write: always, or for a prune, or as the clock and
\* the cache's size decide.
BeginFlush ==
  /\ flush.step = "begin"
  /\ \E s \in SetsToPrune, full \in BOOLEAN, write \in BOOLEAN :
       /\ flush.mode = "always" \/ s # {} => full
       /\ full => flush.mode # "none" \/ s # {}
       /\ write => flush.mode = "periodic" \/ full
       /\ full => write
       /\ PruneFiles(s) /\ RecordPruned(s)
       /\ IF write
          THEN /\ flush' = [Called("none", 0, flush.update) EXCEPT
                            !.step = "files", !.toPrune = s, !.full = full]
               /\ UNCHANGED tip
          ELSE Return
  /\ fCheckForPruning' = (fCheckForPruning /\ ~ (world.fPruneMode /\ flush.height = 0))
  /\ UNCHANGED <<nLastBlockFile, coinsBest, content, unsynced, files, db, coinsDb, coinsLog,
                 crashes, fails>>

\* CheckDiskSpace fails, here or before the coins are written.
NoSpace ==
  /\ flush.step \in {"files", "coins"}
  /\ Fails("space")
  /\ ReturnError
  /\ UNCHANGED <<index, info, nLastBlockFile, setDirtyBlockIndex, setDirtyFileInfo,
                 fCheckForPruning, fHavePruned, coinsBest, disk, crashes>>

\* FlushBlockFile.
CommitFiles ==
  /\ flush.step = "files"
  /\ unsynced' = Committed(unsynced, nLastBlockFile)
  /\ flush' = [flush EXCEPT !.step = "index"]
  /\ UNCHANGED <<memory, content, files, db, flag, coinsDb, coinsLog, crashes, fails>>

\* The step after the index is written.
AfterIndex ==
  CASE flush.toPrune # {} -> "unlink" [] flush.toPrune = {} /\ flush.full -> "coins"
    [] OTHER -> "return"

\* Mutant of Batch: nothing is written.
BatchNone == db.index

\* The index entries after WriteBatchSync.
Batch == [b \in Block |-> IF b \in setDirtyBlockIndex THEN index[b] ELSE db.index[b]]

\* WriteBatchSync; an earlier WriteFlag is committed with it.  The sets of dirty
\* entries are cleared first, and stay so if it fails.
WriteIndex ==
  /\ flush.step = "index"
  /\ setDirtyBlockIndex' = {} /\ setDirtyFileInfo' = {}
  /\ \/ /\ db' = [index |-> Batch,
                  info |-> [f \in File |-> IF f \in setDirtyFileInfo THEN info[f] ELSE db.info[f]],
                  last |-> nLastBlockFile, flag |-> flag]
        /\ IF AfterIndex = "return" THEN Return
           ELSE flush' = [flush EXCEPT !.step = AfterIndex] /\ UNCHANGED tip
        /\ UNCHANGED fails
     \/ Fails("index") /\ ReturnError /\ UNCHANGED db
  /\ UNCHANGED <<index, info, nLastBlockFile, fCheckForPruning, fHavePruned, coinsBest,
                 content, unsynced, files, flag, coinsDb, coinsLog, crashes>>

\* UnlinkPrunedFiles, one file after the other.
UnlinkPrunedFile ==
  /\ flush.step = "unlink"
  /\ \E f \in flush.toPrune :
       /\ \A g \in flush.toPrune : f <= g
       /\ files' = files \ {f}
       /\ content' = {e \in content : e[1][2] # f}
       /\ unsynced' = Committed(unsynced, f)
       /\ flush' = [flush EXCEPT !.toPrune = @ \ {f},
                                 !.step = IF flush.toPrune = {f} THEN "coins" ELSE "unlink"]
  /\ UNCHANGED <<memory, db, flag, coinsDb, coinsLog, crashes, fails>>

\* The states a crash may leave, after one more write: none of them is committed.
Survivors(c) == IF world.power THEN coinsLog \cup {c} ELSE {c}

\* A batch of CCoinsViewDB::BatchWrite that is not the last.  In the middle of a
\* transition its assertion holds the new block to be the same.
WriteCoinsPartly ==
  /\ flush.step = "coins"
  /\ Len(coinsDb) = 2 => coinsDb[1] = coinsBest
  /\ coinsDb' = <<coinsBest, coinsDb[Len(coinsDb)]>>
  /\ coinsLog' = Survivors(coinsDb')
  /\ \/ flush' = [flush EXCEPT !.step = "last"] /\ UNCHANGED <<tip, fails>>
     \/ Fails("coins") /\ ReturnError
  /\ UNCHANGED <<index, info, nLastBlockFile, setDirtyBlockIndex, setDirtyFileInfo,
                 fCheckForPruning, fHavePruned, coinsBest, content, unsynced, files, db, flag,
                 crashes>>

\* The last batch.
WriteCoins ==
  /\ flush.step \in {"coins", "last"}
  /\ Len(coinsDb) = 2 => coinsDb[1] = coinsBest
  /\ coinsDb' = <<coinsBest>>
  /\ coinsLog' = Survivors(coinsDb')
  /\ Return
  /\ UNCHANGED <<index, info, nLastBlockFile, setDirtyBlockIndex, setDirtyFileInfo,
                 fCheckForPruning, fHavePruned, coinsBest, content, unsynced, files, db, flag,
                 crashes, fails>>

-----------------------------------------------------------------------------
(* Crash and start.                                                        *)

\* The blocks whose effect ReplayBlocks applies, and takes back, for <<new, old>>.
RolledForward(c) == (c[2] + 1)..c[1]
RolledBack(c) == (c[1] + 1)..c[2]

\* ReplayBlocks can read all it needs from content k.
Replayable(c, k) ==
  Len(c) = 2 =>
    /\ \A b \in RolledForward(c) \cup RolledBack(c) :
         HaveData(db.index[b]) /\ <<BlockPlace(db.index[b]), b>> \in k
    /\ \A b \in RolledBack(c) :
         HaveUndo(db.index[b]) /\ <<UndoPlace(db.index[b]), b>> \in k

\* The node stops at any moment and starts again, if it can: LoadBlockIndexDB finds
\* the block files, LoadChainTip the best block and ReplayBlocks its blocks.  lost are
\* the places, coins the state of the chainstate that the crash left.
Crash(lost, coins, written) ==
  LET kept == {e \in content : e[1] \notin lost}
  IN /\ crashes < MaxCrashes /\ crashes' = crashes + 1
     /\ \A b \in Block : HaveData(db.index[b]) => db.index[b].nFile \in files
     /\ db.index[coins[1]] # NoEntry
     /\ Replayable(coins, kept)
     /\ content' = kept
     /\ unsynced' = IF world.power THEN {} ELSE unsynced
     /\ coinsDb' = <<coins[1]>> /\ coinsLog' = IF world.power THEN {coins, <<coins[1]>>} ELSE {<<coins[1]>>}
     /\ coinsBest' = coins[1] /\ tip' = coins[1]
     /\ index' = db.index /\ info' = db.info /\ nLastBlockFile' = db.last
     /\ fHavePruned' = written /\ flag' = written /\ db' = [db EXCEPT !.flag = written]
     /\ setDirtyBlockIndex' = {} /\ setDirtyFileInfo' = {}
     /\ fCheckForPruning' = FALSE /\ flush' = NoFlush
     /\ UNCHANGED <<files, fails>>

CrashOfProcess == ~ world.power /\ Crash({}, coinsDb, flag)

\* Every place not committed may be lost, the unwritten flag, and the chainstate may
\* be any it has been.
LossOfPower ==
  /\ world.power
  /\ \E lost \in SUBSET unsynced, coins \in coinsLog, written \in {flag, db.flag} :
       Crash(lost, coins, written)

Next ==
  /\ UNCHANGED world
  /\ \/ \E b \in Block : AcceptBlock(b)
     \/ \E b \in Block : AcceptBlockFails(b)
     \/ \E b \in Block : ConnectTip(b)
     \/ \E b \in Block : ConnectTipFails(b)
     \/ DisconnectTip
     \/ CallFlush
     \/ PruneBlockFilesManual
     \/ BeginFlush
     \/ NoSpace
     \/ CommitFiles
     \/ WriteIndex
     \/ UnlinkPrunedFile
     \/ WriteCoinsPartly
     \/ WriteCoins
     \/ CrashOfProcess
     \/ LossOfPower

Spec == Init /\ [][Next]_vars

-----------------------------------------------------------------------------
(* Properties.                                                             *)

\* The values the variables take.
Info == [nSize : Nat, nUndoSize : Nat, nHeightLast : Block]
TypeOK ==
  /\ index \in [Block -> Entry \cup {NoEntry}]
  /\ info \in [File -> Info]
  /\ nLastBlockFile \in File
  /\ setDirtyBlockIndex \subseteq Block /\ setDirtyFileInfo \subseteq File
  /\ fCheckForPruning \in BOOLEAN /\ fHavePruned \in BOOLEAN
  /\ tip \in Block /\ coinsBest \in Block
  /\ flush \in [step : {"none", "begin", "files", "index", "unlink", "coins", "last"},
                mode : {"none", "if_needed", "periodic", "always"}, height : Block,
                toPrune : SUBSET File, full : BOOLEAN, update : BOOLEAN]
  /\ unsynced \subseteq Place /\ content \subseteq Place \X Block
  /\ files \subseteq File
  /\ db \in [index : [Block -> Entry \cup {NoEntry}], info : [File -> Info], last : File,
             flag : BOOLEAN]
  /\ flag \in BOOLEAN
  /\ coinsDb \in Seq(Block) /\ Len(coinsDb) \in {1, 2}
  /\ coinsDb \in coinsLog
  /\ crashes \in 0..MaxCrashes /\ fails \in Nat /\ world \in Worlds

\* A block that an entry of the database says is on disk (HAVE_DATA) is there,
\* committed, at the place the entry names, whatever was written over it since and
\* at whatever step of a flush or a prune the node stops.  LoadBlockIndexDB refuses
\* to start when the file is missing.
DataDurable ==
  \A b \in Block : LET e == db.index[b] IN
    HaveData(e) => e.nFile \in files /\ BlockReadable(e, b) /\ BlockPlace(e) \notin unsynced

\* The same of undo records (HAVE_UNDO): "First make sure all block and undo data is
\* flushed to disk."
UndoDurable ==
  \A b \in Block : LET e == db.index[b] IN
    HaveUndo(e) => UndoReadable(e, b) /\ UndoPlace(e) \notin unsynced

\* ReadBlockFromDisk and UndoReadFromDisk find what the index in memory says they
\* will, so that neither ConnectTip nor DisconnectTip aborts the node; after a loss of
\* power, the blocks at least.  It does not hold in a world where opening a block file
\* may fail ("open"), as AcceptBlock then records a block that was not written.
IndexReadable ==
  \A b \in Block : LET e == index[b] IN
    /\ HaveData(e) => BlockReadable(e, b)
    /\ HaveUndo(e) => UndoReadable(e, b) \/ (world.power /\ crashes > 0)

\* The chainstate, in any state a crash may leave it, names blocks that the block
\* index database has, with all blocks before them: "This can only be done if the
\* blocks / block index write was also done."
BestBlockIndexed ==
  \A c \in coinsLog : \A i \in DOMAIN c : \A b \in 0..c[i] : db.index[b] # NoEntry

\* It is so as long as no write fails.
BestBlockIndexedUnfailed == fails = 0 => BestBlockIndexed

\* A partial write of the chainstate can be finished: the blocks between the old and
\* the new tip can be read, unless there are more than MIN_BLOCKS_TO_KEEP of them, a
\* write failed or an undo record went with a loss of power.
PartialWriteReplayable ==
  (/\ Len(coinsDb) = 2 /\ coinsDb[1] - coinsDb[2] <= MinBlocksToKeep
   /\ fails = 0 /\ ~ (world.power /\ crashes > 0))
  => Replayable(coinsDb, content)

\* The blocks a step takes from the index in memory are MIN_BLOCKS_TO_KEEP below the
\* tip; a start reads the index anew.
PrunesOnlyOld ==
  crashes' = crashes =>
    \A b \in Block : HaveData(index[b]) /\ ~ HaveData(index'[b]) => b <= tip - MinBlocksToKeep

\* "Pruning will never delete a block within a defined distance (currently 288) from
\* the active chain's tip", nor one above it.  And a connected block without data
\* means that fHavePruned is set, before and after any crash: CheckBlockIndex and the
\* wallet's rescan rely on it.  (A failed write of the index loses the flag with the
\* rest.)
PrunesSafely ==
  [][/\ PrunesOnlyOld
     /\ fails' = 0 => \A b \in 0..tip' : ~ HaveData(index'[b]) => fHavePruned']_vars
=============================================================================
