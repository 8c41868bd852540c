-------------------------- MODULE DiskFlushProofs --------------------------
(***************************************************************************)
(* For any number of blocks, files, crashes and failed writes: a block the *)
(* index database has is on disk where the database says, and pruning      *)
(* takes no block near the tip.                                            *)
(*                                                                         *)
(* DataDurable alone is not inductive.  That no write lands on a recorded  *)
(* block, and no file is cut before one, rests on the sizes in             *)
(* vinfoBlockFile, in memory and, as a crash goes back to them, in the     *)
(* database.  The two disagree after a prune that is not yet written, or   *)
(* whose write failed: Superseded says what still holds then.              *)
(***************************************************************************)
EXTENDS DiskFlush, TLAPS

\* No world has failures of OpenBlockFile, after which AcceptBlock records a block
\* that was not written.
OpensSucceed == \A w \in Worlds : "open" \notin w.failing

CoinsState == {<<b>> : b \in Block} \cup {<<b, c>> : b \in Block, c \in Block}

Flushing == [step : {"none", "begin", "files", "index", "unlink", "coins", "last"},
             mode : {"none", "if_needed", "periodic", "always"}, height : Block,
             toPrune : SUBSET File, full : BOOLEAN, update : BOOLEAN]

Types ==
  /\ index \in [Block -> Entry \cup {NoEntry}]
  /\ info \in [File -> Info]
  /\ nLastBlockFile \in File
  /\ db \in [index : [Block -> Entry \cup {NoEntry}], info : [File -> Info], last : File,
             flag : BOOLEAN]
  /\ unsynced \subseteq Place
  /\ tip \in Block /\ coinsBest \in Block
  /\ coinsDb \in CoinsState /\ coinsLog \subseteq CoinsState
  /\ flush \in Flushing
  /\ flag \in BOOLEAN /\ crashes \in Nat /\ world \in Worlds

\* The size and the height of a file of vinfoBlockFile cover the block.
Covers(i, e, b) == e.nDataPos < i[e.nFile].nSize /\ b <= i[e.nFile].nHeightLast

Stored(e, b) == e.nFile \in files /\ <<BlockPlace(e), b>> \in content

\* The index in memory.
MemoryOK ==
  \A b \in Block : HaveData(index[b]) =>
    /\ index[b].nFile <= nLastBlockFile
    /\ Covers(info, index[b], b)
    /\ OpensSucceed => Stored(index[b], b)
    /\ b \in setDirtyBlockIndex => index[b].nFile \in setDirtyFileInfo

\* Memory has the block at the same place.
Same(b) ==
  /\ HaveData(index[b])
  /\ index[b].nFile = db.index[b].nFile /\ index[b].nDataPos = db.index[b].nDataPos

\* The file was pruned in memory; what was in it is written no later than the file.
Superseded(b) ==
  LET f == db.index[b].nFile
  IN /\ f < nLastBlockFile /\ info[f].nSize = 0
     /\ f \in setDirtyFileInfo => b \in setDirtyBlockIndex

\* The index database.
DatabaseOK ==
  \A b \in Block : HaveData(db.index[b]) =>
    /\ db.index[b].nFile <= db.last
    /\ Covers(db.info, db.index[b], b)
    /\ OpensSucceed => Stored(db.index[b], b)
    /\ BlockPlace(db.index[b]) \notin unsynced
    /\ Same(b) \/ Superseded(b)

\* No file after the last one has been used, and only the last one is uncommitted.
FilesOK ==
  /\ db.last <= nLastBlockFile
  /\ \A f \in File : f > nLastBlockFile => info[f].nSize = 0
  /\ \A f \in File : f > db.last => db.info[f].nSize = 0
  /\ \A p \in unsynced : p[1] = "blk" => p[2] >= nLastBlockFile

\* The flush under way: files are committed before the index is written, and the
\* index says that files were pruned before they are unlinked.
FlushOK ==
  /\ flush.step = "index" => \A p \in unsynced : p[1] = "blk" => p[2] > nLastBlockFile
  /\ flush.step \in {"none", "begin"} => flush.toPrune = {}
  /\ \A f \in flush.toPrune :
       /\ f \in File /\ f < nLastBlockFile /\ info[f].nSize = 0
       /\ flush.step \in {"files", "index"} => f \in setDirtyFileInfo
       /\ flush.step \notin {"files", "index"} =>
            \A b \in Block : HaveData(db.index[b]) => db.index[b].nFile # f

IInv == Types /\ MemoryOK /\ DatabaseOK /\ FilesOK /\ FlushOK

\* What MemoryOK, DatabaseOK and FilesOK are about.
indexed == <<index, info, nLastBlockFile, setDirtyBlockIndex, setDirtyFileInfo, content,
             unsynced, files, db>>

-----------------------------------------------------------------------------
(* The steps that leave blocks and files alone.                            *)

\* The genesis block, written and flushed.
LEMMA InitOK == Init => IInv
<1> SUFFICES ASSUME Init PROVE IInv
  OBVIOUS
<1> USE SizeAssumption
<1>1. 0 \in Block /\ 0 \in File
  BY DEF Block, File
<1>2. Types
  <2>1. index \in [Block -> Entry \cup {NoEntry}]
    BY Zenon, <1>1 DEF Init, Entry, Bare
  <2>2. info \in [File -> Info]
    BY <1>1 DEF Init, Info, NoInfo
  <2>3. db \in [index : [Block -> Entry \cup {NoEntry}], info : [File -> Info], last : File,
                flag : BOOLEAN]
    BY Zenon, <1>1, <2>1, <2>2 DEF Init
  <2>4. coinsDb \in CoinsState /\ coinsLog \subseteq CoinsState
    BY <1>1 DEF Init, CoinsState
  <2>5. QED BY Zenon, <1>1, <2>1, <2>2, <2>3, <2>4 DEF Init, Types, NoFlush, Flushing
<1>3. \A b \in Block : HaveData(index[b]) => b = 0
  BY DEF Init, HaveData, NoEntry
<1>4. HaveData(index[0]) =>
        index[0].nFile = 0 /\ index[0].nDataPos = 0 /\ Covers(info, index[0], 0) /\ Stored(index[0], 0)
  BY <1>1 DEF Init, Covers, Stored, Bare, NoInfo, BlockPlace
<1>5. db.index = index /\ db.info = info /\ db.last = 0 /\ nLastBlockFile = 0 /\ unsynced = {}
      /\ setDirtyBlockIndex = {}
  BY DEF Init
<1>6. MemoryOK
  BY <1>3, <1>4, <1>5 DEF MemoryOK
<1>7. DatabaseOK
  BY <1>3, <1>4, <1>5 DEF DatabaseOK, Same
<1>8. FilesOK
  BY <1>1, <1>5 DEF FilesOK, Init, NoInfo, File
<1>9. FlushOK
  BY DEF FlushOK, Init, NoFlush
<1>10. QED BY <1>2, <1>6, <1>7, <1>8, <1>9 DEF IInv

\* Only the flush under way, or the tips, change.
LEMMA FlushKeeps ==
  ASSUME IInv, UNCHANGED indexed, Types', FlushOK'
  PROVE  IInv'
<1>1. MemoryOK'
  BY ZenonT(40) DEF IInv, indexed, MemoryOK, Covers, Stored, HaveData
<1>2. DatabaseOK'
  BY DEF IInv, indexed, DatabaseOK, Covers, Stored, Same, Superseded, HaveData
<1>3. FilesOK'
  BY DEF IInv, indexed, FilesOK
<1>4. QED BY <1>1, <1>2, <1>3 DEF IInv

\* The calls of FlushStateToDisk that change nothing themselves, and its writes of the
\* chainstate.
LEMMA CallsKeep ==
  ASSUME IInv, UNCHANGED world,
         \/ DisconnectTip \/ CallFlush \/ PruneBlockFilesManual \/ NoSpace
  PROVE  IInv'
<1> USE SizeAssumption DEF IInv
<1>1. CASE DisconnectTip
  <2>1. Types'
    BY <1>1 DEF Types, DisconnectTip, disk, Called, Flushing, Block
  <2>2. FlushOK'
    BY <1>1 DEF FlushOK, DisconnectTip, Called
  <2>3. UNCHANGED indexed
    BY <1>1 DEF DisconnectTip, disk, indexed
  <2>4. QED BY <2>1, <2>2, <2>3, FlushKeeps
<1>2. CASE CallFlush
  <2>1. Types'
    BY <1>2 DEF Types, CallFlush, disk, Called, Flushing, Block
  <2>2. FlushOK'
    BY <1>2 DEF FlushOK, CallFlush, Called
  <2>3. UNCHANGED indexed
    BY <1>2 DEF CallFlush, disk, indexed
  <2>4. QED BY <2>1, <2>2, <2>3, FlushKeeps
<1>3. CASE PruneBlockFilesManual
  <2>1. Types'
    BY <1>3 DEF Types, PruneBlockFilesManual, disk, memory, Called, Flushing, Block
  <2>2. FlushOK'
    BY <1>3 DEF FlushOK, PruneBlockFilesManual, Called
  <2>3. UNCHANGED indexed
    BY <1>3 DEF PruneBlockFilesManual, disk, memory, indexed
  <2>4. QED BY <2>1, <2>2, <2>3, FlushKeeps
<1>4. CASE NoSpace
  <2>1. Types'
    BY <1>4 DEF Types, NoSpace, ReturnError, disk, NoFlush, Flushing, Block
  <2>2. FlushOK'
    BY <1>4 DEF FlushOK, NoSpace, ReturnError, NoFlush
  <2>3. UNCHANGED indexed
    BY <1>4 DEF NoSpace, disk, indexed
  <2>4. QED BY <2>1, <2>2, <2>3, FlushKeeps
<1>5. QED BY <1>1, <1>2, <1>3, <1>4

\* The chainstate is written, in one batch or several.
LEMMA CoinsKeep ==
  ASSUME IInv, UNCHANGED world, WriteCoinsPartly \/ WriteCoins
  PROVE  IInv'
<1> USE SizeAssumption DEF IInv
<1>1. coinsDb[Len(coinsDb)] \in Block
  <2>1. CASE \E b \in Block : coinsDb = <<b>>
    BY <2>1
  <2>2. CASE \E b \in Block, c \in Block : coinsDb = <<b, c>>
    BY <2>2
  <2>3. QED BY <2>1, <2>2 DEF Types, CoinsState
<1>2. coinsDb' \in CoinsState /\ coinsLog' \subseteq CoinsState
  BY <1>1 DEF WriteCoinsPartly, WriteCoins, Types, CoinsState, Survivors
<1>3. /\ flush' = NoFlush \/ flush' = [flush EXCEPT !.step = "last"]
      /\ flush.step \in {"coins", "last"}
      /\ tip' \in {tip, coinsBest} /\ coinsBest' = coinsBest
  BY DEF WriteCoinsPartly, WriteCoins, Return, ReturnError
<1>4. UNCHANGED indexed /\ UNCHANGED <<flag, crashes>>
  BY DEF WriteCoinsPartly, WriteCoins, indexed
<1>5. flush' \in Flushing
  <2>1. CASE flush' = NoFlush
    BY <2>1 DEF NoFlush, Flushing, Block
  <2>2. CASE flush' = [flush EXCEPT !.step = "last"]
    BY <2>2 DEF Types, Flushing
  <2>3. QED BY <1>3, <2>1, <2>2
<1>6. Types'
  BY <1>2, <1>3, <1>4, <1>5 DEF Types, indexed
<1>7. FlushOK'
  BY <1>3, <1>4 DEF FlushOK, indexed, NoFlush, Types, Flushing
<1>8. QED BY <1>4, <1>6, <1>7, FlushKeeps
-----------------------------------------------------------------------------
(* The steps of FlushStateToDisk.                                          *)

\* FlushBlockFile commits the last file, and nothing after it is in the index.
LEMMA CommitKeeps ==
  ASSUME IInv, UNCHANGED world, CommitFiles
  PROVE  IInv'
<1> USE DEF IInv
<1>1. /\ unsynced' = {p \in unsynced : p[2] # nLastBlockFile}
      /\ flush' = [flush EXCEPT !.step = "index"] /\ flush.step = "files"
      /\ UNCHANGED <<index, info, nLastBlockFile, setDirtyBlockIndex, setDirtyFileInfo, content,
                     files, db, tip, coinsBest, flag, coinsDb, coinsLog, crashes>>
  BY DEF CommitFiles, Committed, memory
<1>2. Types'
  BY <1>1 DEF Types, Flushing
<1>3. MemoryOK'
  BY ZenonT(40), <1>1 DEF MemoryOK, Covers, Stored, HaveData
<1>4. DatabaseOK'
  BY <1>1 DEF DatabaseOK, Covers, Stored, Same, Superseded, HaveData
<1>5. FilesOK'
  BY <1>1 DEF FilesOK
<1>6. FlushOK'
  <2>1. \A p \in unsynced' : p[1] = "blk" => p[2] > nLastBlockFile
    BY <1>1, SizeAssumption DEF FilesOK, Types, Place, File
  <2>2. QED BY <1>1, <2>1 DEF FlushOK, Types, Flushing, HaveData
<1>7. QED BY <1>2, <1>3, <1>4, <1>5, <1>6

\* WriteBatchSync: an entry written is covered by file information written with it,
\* and an entry that stays is covered by the old or the new.
LEMMA WriteKeeps ==
  ASSUME IInv, UNCHANGED world, WriteIndex
  PROVE  IInv'
<1> USE DEF IInv
<1> DEFINE NewInfo == [f \in File |-> IF f \in setDirtyFileInfo THEN info[f] ELSE db.info[f]]
           Written == db' = [index |-> Batch, info |-> NewInfo, last |-> nLastBlockFile,
                             flag |-> flag]
<1>1. /\ UNCHANGED <<index, info, nLastBlockFile, coinsBest, content, unsynced, files, flag,
                     coinsDb, coinsLog, crashes>>
      /\ setDirtyBlockIndex' = {} /\ setDirtyFileInfo' = {} /\ flush.step = "index"
  BY DEF WriteIndex
<1>2. \/ Written /\ (flush' = NoFlush \/ flush' = [flush EXCEPT !.step = AfterIndex])
      \/ db' = db /\ flush' = NoFlush
  BY DEF WriteIndex, Return, ReturnError
<1>3. tip' \in Block
  BY DEF WriteIndex, Return, ReturnError, Types
<1>4. AfterIndex \in {"unlink", "coins", "return"} /\ (AfterIndex # "unlink" => flush.toPrune = {})
  BY DEF AfterIndex
<1>5. flush' = NoFlush \/ (flush' = [flush EXCEPT !.step = AfterIndex] /\ AfterIndex # "return")
  BY <1>4 DEF WriteIndex, Return, ReturnError
<1>6. flush' \in Flushing
  <2>1. CASE flush' = NoFlush
    BY <2>1, SizeAssumption DEF NoFlush, Flushing, Block
  <2>2. CASE flush' = [flush EXCEPT !.step = AfterIndex] /\ AfterIndex # "return"
    BY <1>4, <2>2 DEF Types, Flushing
  <2>3. QED BY <1>5, <2>1, <2>2
<1>7. MemoryOK'
  BY <1>1 DEF MemoryOK, Covers, Stored, HaveData
<1>8. CASE db' = db /\ flush' = NoFlush
  <2>1. Types'
    BY ZenonT(40), <1>1, <1>3, <1>6, <1>8 DEF Types
  <2>2. DatabaseOK'
    BY <1>1, <1>8 DEF DatabaseOK, Covers, Stored, Same, Superseded, HaveData
  <2>3. FilesOK'
    BY <1>1, <1>8 DEF FilesOK
  <2>4. FlushOK'
    BY <1>8 DEF FlushOK, NoFlush
  <2>5. QED BY <1>7, <2>1, <2>2, <2>3, <2>4
<1>9. CASE Written
  <2>1. /\ Batch \in [Block -> Entry \cup {NoEntry}] /\ NewInfo \in [File -> Info]
    BY DEF Batch, Types
  <2>2. Types'
    BY ZenonT(40), <1>1, <1>3, <1>6, <1>9, <2>1 DEF Types
  <2>3. \A b \in Block : db'.index[b] = IF b \in setDirtyBlockIndex THEN index[b] ELSE db.index[b]
    BY <1>9 DEF Batch
  <2>4. \A f \in File : db'.info[f] = IF f \in setDirtyFileInfo THEN info[f] ELSE db.info[f]
    BY <1>9
  <2>5. db'.last = nLastBlockFile
    BY <1>9
  <2>6. ASSUME NEW b \in Block, HaveData(db'.index[b])
        PROVE  /\ db'.index[b].nFile <= db'.last
               /\ Covers(db'.info, db'.index[b], b)
               /\ OpensSucceed => Stored(db'.index[b], b)
               /\ BlockPlace(db'.index[b]) \notin unsynced
               /\ Same(b)' \/ Superseded(b)'
               /\ db'.index[b].nFile \notin flush.toPrune
    <3>1. CASE b \in setDirtyBlockIndex
      <4>1. db'.index[b] = index[b] /\ index[b] \in Entry
        BY <2>3, <2>6, <3>1 DEF HaveData, Types
      <4>2. /\ index[b].nFile <= nLastBlockFile /\ Covers(info, index[b], b)
            /\ OpensSucceed => Stored(index[b], b)
            /\ index[b].nFile \in setDirtyFileInfo /\ index[b].nFile \in File
        BY <2>6, <3>1, <4>1 DEF MemoryOK, Entry
      <4>3. Covers(db'.info, index[b], b)
        BY <2>4, <4>2 DEF Covers
      <4>4. BlockPlace(index[b]) \notin unsynced
        <5>1. \A p \in unsynced : p[1] = "blk" => p[2] > nLastBlockFile
          BY <1>1 DEF FlushOK
        <5>2. ~(index[b].nFile > nLastBlockFile)
          BY <4>2, SizeAssumption DEF Types, File
        <5>3. BlockPlace(index[b])[1] = "blk" /\ BlockPlace(index[b])[2] = index[b].nFile
          BY DEF BlockPlace
        <5>4. QED BY <5>1, <5>2, <5>3
      <4>5. Same(b)'
        BY <1>1, <2>6, <4>1 DEF Same
      <4>6. index[b].nFile \notin flush.toPrune
        BY <4>1, <4>2 DEF FlushOK, Covers, Entry
      <4>7. QED BY <2>5, <4>1, <4>2, <4>3, <4>4, <4>5, <4>6
    <3>2. CASE b \notin setDirtyBlockIndex
      <4>1. db'.index[b] = db.index[b] /\ db.index[b] \in Entry
        BY <2>3, <2>6, <3>2 DEF HaveData, Types
      <4>2. /\ db.index[b].nFile <= db.last /\ Covers(db.info, db.index[b], b)
            /\ OpensSucceed => Stored(db.index[b], b)
            /\ BlockPlace(db.index[b]) \notin unsynced
            /\ (Same(b) \/ Superseded(b)) /\ db.index[b].nFile \in File
        BY <2>6, <4>1 DEF DatabaseOK, Entry
      <4>3. Same(b) => Covers(info, db.index[b], b)
        BY DEF Same, MemoryOK, Covers
      <4>4. Superseded(b) => db.index[b].nFile \notin setDirtyFileInfo
        BY ZenonT(40), <3>2 DEF Superseded
      <4>5. Covers(db'.info, db.index[b], b)
        BY ZenonT(40), <2>4, <4>2, <4>3, <4>4 DEF Covers
      <4>6. Same(b)' \/ Superseded(b)'
        BY ZenonT(40), <1>1, <4>1, <4>2 DEF Same, Superseded
      <4>7. db.index[b].nFile \notin flush.toPrune
        BY <1>1, <4>1, <4>2, <4>3, <4>4 DEF FlushOK, Covers, Entry
      <4>8. db.index[b].nFile <= nLastBlockFile
        <5>1. db.last \in Nat /\ nLastBlockFile \in Nat /\ db.index[b].nFile \in Nat
          BY <4>2, SizeAssumption DEF Types, File
        <5>2. db.last <= nLastBlockFile
          BY Zenon DEF FilesOK
        <5>3. QED BY <4>2, <5>1, <5>2
      <4>9. QED BY <2>5, <4>1, <4>2, <4>5, <4>6, <4>7, <4>8
    <3>3. QED BY <3>1, <3>2
  <2>7. DatabaseOK'
    BY ZenonT(40), <1>1, <2>6 DEF DatabaseOK, Covers, Stored
  <2>8. FilesOK'
    <3>1. ASSUME NEW f \in File, f > nLastBlockFile PROVE db'.info[f].nSize = 0
      <4>1. db.last \in Nat /\ nLastBlockFile \in Nat /\ f \in Nat
        BY SizeAssumption DEF Types, File
      <4>2. f > db.last
        BY <3>1, <4>1 DEF FilesOK
      <4>3. QED BY <2>4, <3>1, <4>2 DEF FilesOK
    <3>2. QED BY <1>1, <2>5, <3>1, SizeAssumption DEF FilesOK, Types, File
  <2>9. FlushOK'
    <3>1. CASE flush' = NoFlush
      BY Zenon, <3>1 DEF FlushOK, NoFlush
    <3>2. CASE flush' = [flush EXCEPT !.step = AfterIndex] /\ AfterIndex # "return"
      <4>1. flush'.step = AfterIndex /\ flush'.toPrune = flush.toPrune
        BY <3>2 DEF Types, Flushing
      <4>2. flush'.step \in {"unlink", "coins"}
        BY <1>4, <3>2, <4>1
      <4>3. QED BY Zenon, <1>1, <2>6, <4>1, <4>2 DEF FlushOK
    <3>3. QED BY Zenon, <1>5, <3>1, <3>2
  <2>10. QED BY <1>7, <2>2, <2>7, <2>8, <2>9
<1>10. QED BY <1>2, <1>8, <1>9
\* UnlinkPrunedFiles: neither index has a block in the file.
LEMMA UnlinkKeeps ==
  ASSUME IInv, UNCHANGED world, UnlinkPrunedFile
  PROVE  IInv'
<1> USE DEF IInv
<1>1. PICK f \in flush.toPrune :
        /\ files' = files \ {f}
        /\ content' = {e \in content : e[1][2] # f}
        /\ unsynced' = Committed(unsynced, f)
        /\ flush' = [flush EXCEPT !.toPrune = @ \ {f},
                                  !.step = IF flush.toPrune = {f} THEN "coins" ELSE "unlink"]
  BY Zenon DEF UnlinkPrunedFile
<1>2. /\ UNCHANGED <<index, info, nLastBlockFile, setDirtyBlockIndex, setDirtyFileInfo, tip,
                     coinsBest, db, flag, coinsDb, coinsLog, crashes>>
      /\ flush.step = "unlink"
  BY Zenon DEF UnlinkPrunedFile, memory
<1>3. /\ f \in File /\ info[f].nSize = 0
      /\ \A b \in Block : HaveData(db.index[b]) => db.index[b].nFile # f
  BY Zenon, <1>2 DEF FlushOK
<1>4. \A b \in Block : HaveData(index[b]) => index[b] \in Entry /\ index[b].nFile # f
  BY <1>3 DEF MemoryOK, Covers, HaveData, Types, Entry
<1>5. \A e, b : e.nFile # f /\ Stored(e, b) => Stored(e, b)'
  BY <1>1 DEF Stored, BlockPlace
<1>6. unsynced' \subseteq unsynced
  BY Zenon, <1>1 DEF Committed
<1>7. /\ flush'.toPrune = flush.toPrune \ {f}
      /\ flush'.step \in {"coins", "unlink"}
      /\ flush' \in Flushing
  BY ZenonT(40), <1>1 DEF Types, Flushing
<1>8. Types'
  BY Zenon, <1>2, <1>6, <1>7 DEF Types
<1>9. MemoryOK'
  <2> SUFFICES ASSUME NEW b \in Block, HaveData(index[b])
               PROVE  /\ index[b].nFile <= nLastBlockFile /\ Covers(info, index[b], b)
                      /\ OpensSucceed => Stored(index[b], b)'
                      /\ b \in setDirtyBlockIndex => index[b].nFile \in setDirtyFileInfo
    BY <1>2 DEF MemoryOK, Covers, Stored, HaveData
  <2>1. QED BY ZenonT(40), <1>2, <1>4, <1>5 DEF MemoryOK, Stored
<1>10. DatabaseOK'
  <2> SUFFICES ASSUME NEW b \in Block, HaveData(db.index[b])
               PROVE  /\ db.index[b].nFile <= db.last /\ Covers(db.info, db.index[b], b)
                      /\ OpensSucceed => Stored(db.index[b], b)'
                      /\ BlockPlace(db.index[b]) \notin unsynced'
                      /\ Same(b) \/ Superseded(b)
    BY ZenonT(40), <1>2 DEF DatabaseOK, Covers, Stored, HaveData, Same, Superseded, BlockPlace
  <2>1. QED BY ZenonT(40), <1>2, <1>3, <1>5, <1>6 DEF DatabaseOK, Stored
<1>11. FilesOK'
  BY <1>2, <1>6 DEF FilesOK
<1>12. FlushOK'
  BY <1>2, <1>7 DEF FlushOK, HaveData
<1>13. QED BY Zenon, <1>8, <1>9, <1>10, <1>11, <1>12

\* FindFilesToPrune and FindFilesToPruneManual choose files before the last one, in
\* use, whose blocks are all MIN_BLOCKS_TO_KEEP below the tip.
LEMMA FilesToPrune ==
  ASSUME IInv, NEW s \in SetsToPrune
  PROVE  s \subseteq {f \in File : /\ f < nLastBlockFile /\ info[f].nSize # 0
                                   /\ info[f].nHeightLast <= tip - MinBlocksToKeep}
<1> DEFINE limit == tip - MinBlocksToKeep
<1>1. limit \in Int /\ flush.height \in Int
  BY SizeAssumption DEF IInv, Types, Block, Flushing
<1>2. \A f \in File : info[f].nHeightLast \in Int
  BY SizeAssumption DEF IInv, Types, Info, Block
<1>3. Prunable(limit) = {f \in File : f < nLastBlockFile /\ info[f].nSize # 0
                                      /\ info[f].nHeightLast <= limit}
  BY DEF Prunable
<1>4. FindFilesToPruneManual(flush.height) \subseteq Prunable(limit)
  BY <1>1, <1>2 DEF FindFilesToPruneManual, Prunable
<1>5. \A t \in FindFilesToPrune : t \subseteq Prunable(limit)
  BY DEF FindFilesToPrune
<1>6. \/ s = FindFilesToPruneManual(flush.height)
      \/ s \in FindFilesToPrune
      \/ s = {}
  BY DEF SetsToPrune
<1>7. s \subseteq Prunable(limit)
  BY <1>4, <1>5, <1>6
<1>8. QED BY <1>3, <1>7

\* The start of a flush: the blocks of pruned files leave the index in memory and,
\* dirty, will leave the database with their file.
LEMMA BeginKeeps ==
  ASSUME IInv, UNCHANGED world, BeginFlush
  PROVE  IInv'
<1> USE DEF IInv
<1>1. PICK s \in SetsToPrune :
        /\ PruneFiles(s)
        /\ flag' = (flag \/ (s # {} /\ ~ fHavePruned))
        /\ \/ \E full \in BOOLEAN :
                  flush' = [Called("none", 0, flush.update) EXCEPT
                            !.step = "files", !.toPrune = s, !.full = full]
           \/ flush' = NoFlush
        /\ tip' \in {tip, coinsBest}
  BY ZenonT(40) DEF BeginFlush, RecordPruned, Return
<1>2. UNCHANGED <<nLastBlockFile, coinsBest, content, unsynced, files, db, coinsDb, coinsLog,
                  crashes>>
  BY DEF BeginFlush
<1>3. s \subseteq File /\ \A f \in s : f < nLastBlockFile /\ info[f].nSize # 0
  BY FilesToPrune
<1>4. \A b \in Block : index'[b] = IF index[b] # NoEntry /\ index[b].nFile \in s THEN Bare ELSE index[b]
  BY Zenon, <1>1 DEF PruneFiles, BlocksOf
<1>5. \A f \in File : info'[f] = IF f \in s THEN NoInfo ELSE info[f]
  BY Zenon, <1>1 DEF PruneFiles
<1>6. /\ setDirtyFileInfo' = setDirtyFileInfo \cup s
      /\ \A b \in Block : b \in setDirtyBlockIndex' <=>
           b \in setDirtyBlockIndex \/ (index[b] # NoEntry /\ index[b].nFile \in s)
  BY Zenon, <1>1 DEF PruneFiles, BlocksOf
<1>7. \A b \in Block : HaveData(index'[b]) =>
        index'[b] = index[b] /\ index[b].nFile \notin s /\ index[b] \in Entry
  BY SMT, <1>4 DEF HaveData, Bare, Types
<1>8. flush'.step \in {"files", "none"} /\ flush'.toPrune \subseteq s /\ flush' \in Flushing
      /\ (flush'.step = "none" => flush'.toPrune = {})
  <2>1. CASE flush' = NoFlush
    BY <2>1, SizeAssumption DEF NoFlush, Flushing, Block
  <2>2. CASE \E full \in BOOLEAN :
               flush' = [Called("none", 0, flush.update) EXCEPT
                         !.step = "files", !.toPrune = s, !.full = full]
    <3>1. PICK full \in BOOLEAN :
            flush' = [step |-> "files", mode |-> "none", height |-> 0, toPrune |-> s,
                      full |-> full, update |-> flush.update]
      BY Zenon, <2>2 DEF Called
    <3>2. flush.update \in BOOLEAN /\ 0 \in Block /\ s \in SUBSET File
      BY <1>3, SizeAssumption DEF Types, Flushing, Block
    <3>3. QED BY <3>1, <3>2 DEF Flushing
  <2>3. QED BY Zenon, <1>1, <2>1, <2>2
<1>9. Types'
  <2>1. index' \in [Block -> Entry \cup {NoEntry}]
    <3>1. Bare \in Entry
      BY SMT, SizeAssumption DEF Bare, Entry, File
    <3>2. QED BY Zenon, <1>1, <3>1 DEF PruneFiles, Types
  <2>2. info' \in [File -> Info]
    <3>1. NoInfo \in Info
      BY SMT, SizeAssumption DEF NoInfo, Info, Block
    <3>2. QED BY Zenon, <1>1, <3>1 DEF PruneFiles, Types
  <2>3. flag' \in BOOLEAN
    BY Zenon, <1>1
  <2>4. tip' \in Block
    BY Zenon, <1>1 DEF Types
  <2>5. QED BY <1>2, <1>8, <2>1, <2>2, <2>3, <2>4 DEF Types
<1>10. MemoryOK'
  <2> SUFFICES ASSUME NEW b \in Block, HaveData(index'[b])
               PROVE  /\ index'[b].nFile <= nLastBlockFile
                      /\ Covers(info', index'[b], b)
                      /\ OpensSucceed => Stored(index'[b], b)
                      /\ b \in setDirtyBlockIndex' => index'[b].nFile \in setDirtyFileInfo'
    BY ZenonT(40), <1>2 DEF MemoryOK, Covers, Stored
  <2>1. index'[b] = index[b] /\ index[b].nFile \notin s /\ index[b].nFile \in File /\ HaveData(index[b])
    BY <1>7 DEF Entry
  <2>2. Covers(info', index[b], b)
    BY ZenonT(40), <1>5, <2>1 DEF MemoryOK, Covers
  <2>3. b \in setDirtyBlockIndex' => index[b].nFile \in setDirtyFileInfo'
    BY <1>6, <2>1 DEF MemoryOK
  <2>4. QED BY Zenon, <2>1, <2>2, <2>3 DEF MemoryOK
<1>11. DatabaseOK'
  <2> SUFFICES ASSUME NEW b \in Block, HaveData(db.index[b])
               PROVE  Same(b)' \/ Superseded(b)'
    BY <1>2 DEF DatabaseOK, Covers, Stored, HaveData
  <2>1. db.index[b].nFile \in File
    BY ZenonT(40) DEF HaveData, Types, Entry
  <2>2. CASE Same(b) /\ db.index[b].nFile \notin s
    BY <1>2, <1>4, <2>2 DEF Same
  <2>3. CASE Same(b) /\ db.index[b].nFile \in s
    <3>1. info'[db.index[b].nFile].nSize = 0
      BY <1>5, <2>1, <2>3 DEF NoInfo
    <3>2. b \in setDirtyBlockIndex'
      BY ZenonT(40), <1>6, <2>3 DEF Same, HaveData
    <3>3. QED BY ZenonT(40), <1>2, <1>3, <2>3, <3>1, <3>2 DEF Superseded
  <2>4. CASE Superseded(b)
    <3>1. db.index[b].nFile \notin s
      BY <1>3, <2>4 DEF Superseded
    <3>2. QED BY <1>2, <1>5, <1>6, <2>1, <2>4, <3>1 DEF Superseded
  <2>5. QED BY ZenonT(40), <2>2, <2>3, <2>4 DEF DatabaseOK
<1>12. FilesOK'
  BY <1>2, <1>5 DEF FilesOK, NoInfo
<1>13. FlushOK'
  BY <1>2, <1>3, <1>5, <1>6, <1>8 DEF FlushOK, NoInfo
<1>14. QED BY Zenon, <1>9, <1>10, <1>11, <1>12, <1>13
-----------------------------------------------------------------------------
(* AcceptBlock and ConnectTip.                                             *)

\* FindBlockPos stays in the last file or takes the next, which is not in use.
LEMMA NextFile ==
  ASSUME IInv, NEW f \in File, Chosen(f)
  PROVE  f = nLastBlockFile \/ f = nLastBlockFile + 1
<1>1. nLastBlockFile \in Nat /\ nLastBlockFile <= MaxFile /\ f \in Nat /\ f <= MaxFile
      /\ nLastBlockFile <= f
  BY SizeAssumption DEF IInv, Types, File, Chosen
<1>2. CASE f > nLastBlockFile + 1
  <2>1. nLastBlockFile + 1 \in File /\ nLastBlockFile + 1 \in nLastBlockFile..(f - 1)
    BY <1>1, <1>2, SizeAssumption DEF File
  <2>2. info[nLastBlockFile + 1].nSize = 0
    BY <1>1, <2>1 DEF IInv, FilesOK
  <2>3. Room(nLastBlockFile + 1)
    BY <2>2, SizeAssumption DEF Room
  <2>4. QED BY <2>1, <2>3 DEF Chosen
<1>3. QED BY <1>1, <1>2

\* Leaving a file commits it, and cuts it behind the blocks that are recorded.
LEMMA Leaving ==
  ASSUME IInv, NEW f \in File, Chosen(f)
  PROVE  /\ LeftUnsynced(f) \subseteq unsynced
         /\ \A p \in LeftUnsynced(f) : p[1] = "blk" => p[2] >= f
         /\ \A b \in Block : HaveData(index[b]) /\ <<BlockPlace(index[b]), b>> \in content
              => <<BlockPlace(index[b]), b>> \in LeftContent(f)
         /\ \A b \in Block : HaveData(db.index[b]) /\ <<BlockPlace(db.index[b]), b>> \in content
              => <<BlockPlace(db.index[b]), b>> \in LeftContent(f)
<1> USE DEF IInv
<1>1. f = nLastBlockFile \/ f = nLastBlockFile + 1
  BY NextFile
<1>2. nLastBlockFile \in Nat /\ f \in Nat
  BY SizeAssumption DEF Types, File
<1>3. \A p \in unsynced : p[2] \in Nat
  BY SizeAssumption DEF Types, Place, File
<1>4. LeftUnsynced(f) \subseteq unsynced
  BY DEF LeftUnsynced, Committed
<1>5. ASSUME NEW p \in LeftUnsynced(f), p[1] = "blk" PROVE p[2] >= f
  <2>1. p \in unsynced /\ p[2] >= nLastBlockFile
    BY <1>4, <1>5 DEF FilesOK
  <2>2. f # nLastBlockFile => p[2] # nLastBlockFile
    BY DEF LeftUnsynced, Committed
  <2>3. QED BY <1>1, <1>2, <1>3, <2>1, <2>2
<1>6. ASSUME NEW e, NEW b, <<BlockPlace(e), b>> \in content,
             e.nFile # nLastBlockFile \/ e.nDataPos < info[e.nFile].nSize
      PROVE  <<BlockPlace(e), b>> \in LeftContent(f)
  BY ZenonT(40), <1>6 DEF LeftContent, Truncated, BlockPlace
<1>7. \A b \in Block : HaveData(index[b]) => index[b].nDataPos < info[index[b].nFile].nSize
  BY ZenonT(40) DEF MemoryOK, Covers
<1>8. \A b \in Block : HaveData(db.index[b]) =>
        db.index[b].nFile # nLastBlockFile \/ db.index[b].nDataPos < info[db.index[b].nFile].nSize
  BY <1>7, <1>2 DEF DatabaseOK, Same, Superseded
<1>9. QED BY <1>4, <1>5, <1>6, <1>7, <1>8

\* AddBlock counts the block and never lowers the height.
LEMMA AddBlockGrows ==
  ASSUME NEW i \in Info, NEW b \in Block
  PROVE  /\ AddBlock(i, b) \in Info /\ AddBlock(i, b).nSize = i.nSize + 1
         /\ AddBlock(i, b).nHeightLast >= i.nHeightLast /\ AddBlock(i, b).nHeightLast >= b
<1>1. i.nSize \in Nat /\ i.nHeightLast \in Block /\ i.nUndoSize \in Nat
  BY DEF Info
<1> DEFINE top == IF b > i.nHeightLast THEN b ELSE i.nHeightLast
<1>2. AddBlock(i, b) = [[i EXCEPT !.nSize = i.nSize + 1] EXCEPT !.nHeightLast = top]
  BY DEF AddBlock
<1>3. top \in Block /\ top >= i.nHeightLast /\ top >= b /\ i.nSize + 1 \in Nat
  BY <1>1, SizeAssumption DEF Block
<1> HIDE DEF top
<1>4. /\ AddBlock(i, b) \in Info /\ AddBlock(i, b).nSize = i.nSize + 1
      /\ AddBlock(i, b).nHeightLast = top
  BY Zenon, <1>2, <1>3 DEF Info
<1>5. QED BY <1>3, <1>4

\* A block, or room for one, is added at the end of the file FindBlockPos chose: no
\* recorded block is there.  entry is what the index gets for the block b.
LEMMA AcceptKeeps ==
  ASSUME IInv, NEW b \in Block, NEW f \in File, NEW entry \in Entry \cup {NoEntry},
         Chosen(f), ~ HaveData(index[b]),
         nLastBlockFile' = f, info' = [info EXCEPT ![f] = AddBlock(@, b)],
         index' = [index EXCEPT ![b] = entry],
         \A e \in LeftContent(f) : e[1] # <<"blk", f, info[f].nSize>> => e \in content',
         unsynced' \subseteq LeftUnsynced(f) \cup {<<"blk", f, info[f].nSize>>},
         files \subseteq files',
         setDirtyFileInfo \subseteq setDirtyFileInfo',
         setDirtyFileInfo' \subseteq setDirtyFileInfo \cup {f},
         setDirtyBlockIndex \subseteq setDirtyBlockIndex',
         setDirtyBlockIndex' \subseteq setDirtyBlockIndex \cup {b},
         HaveData(entry) => /\ entry.nFile = f /\ entry.nDataPos = info[f].nSize
                            /\ f \in setDirtyFileInfo'
                            /\ OpensSucceed =>
                                 /\ f \in files'
                                 /\ <<<<"blk", f, info[f].nSize>>, b>> \in content',
         db' = db, Types', FlushOK'
  PROVE  IInv'
<1> USE DEF IInv
<1>1. (f = nLastBlockFile \/ f = nLastBlockFile + 1) /\ nLastBlockFile \in Nat /\ f \in Nat
      /\ \A g \in File : g \in Nat
  BY SMT, NextFile, SizeAssumption DEF Types, File
<1>2. \A g \in File : g # f => info'[g] = info[g]
  BY Zenon DEF Types
<1>3. info[f] \in Info /\ info'[f] = AddBlock(info[f], b)
  BY ZenonT(40) DEF Types
<1>4. /\ info[f].nSize \in Nat /\ info[f].nHeightLast \in Nat /\ b \in Nat
      /\ info'[f].nSize = info[f].nSize + 1 /\ info'[f].nHeightLast \in Nat
      /\ info'[f].nHeightLast >= info[f].nHeightLast /\ info'[f].nHeightLast >= b
  BY <1>3, AddBlockGrows, SizeAssumption DEF Info, Block
<1>5. ASSUME NEW x \in Block, NEW e \in Entry, Covers(info, e, x)
      PROVE  Covers(info', e, x) /\ BlockPlace(e) # <<"blk", f, info[f].nSize>>
  <2>1. e.nFile \in File /\ e.nDataPos \in Nat /\ x \in Nat
    BY SizeAssumption DEF Entry, Block
  <2>2. info[e.nFile].nHeightLast \in Nat
    <3>1. info[e.nFile] \in Info
      BY ZenonT(40), <2>1 DEF Types
    <3>2. QED BY <3>1, SizeAssumption DEF Info, Block
  <2>3. Covers(info', e, x)
    BY SMT, <1>2, <1>4, <1>5, <2>1, <2>2 DEF Covers
  <2>4. QED BY <1>4, <1>5, <2>1, <2>3 DEF Covers, BlockPlace
<1>6. ASSUME NEW x \in Block, x # b, HaveData(index[x])
      PROVE  /\ index'[x] = index[x] /\ index[x] \in Entry
             /\ Covers(info', index[x], x)
             /\ OpensSucceed => Stored(index[x], x)'
  <2>1. index'[x] = index[x] /\ index[x] \in Entry
    BY Zenon, <1>6 DEF HaveData, Types
  <2>2. Covers(info', index[x], x) /\ BlockPlace(index[x]) # <<"blk", f, info[f].nSize>>
    BY ZenonT(40), <1>5, <1>6, <2>1 DEF MemoryOK
  <2>3. OpensSucceed => <<BlockPlace(index[x]), x>> \in content'
    BY Zenon, <1>6, <2>2, Leaving DEF MemoryOK, Stored
  <2>4. OpensSucceed => Stored(index[x], x)'
    BY Zenon, <1>6, <2>1, <2>3 DEF MemoryOK, Stored, BlockPlace
  <2>5. QED BY Zenon, <2>1, <2>2, <2>4
<1>7. MemoryOK'
  <2> SUFFICES ASSUME NEW x \in Block, HaveData(index'[x])
               PROVE  /\ index'[x].nFile <= f
                      /\ Covers(info', index'[x], x)
                      /\ OpensSucceed => (index'[x].nFile \in files'
                                          /\ <<BlockPlace(index'[x]), x>> \in content')
                      /\ x \in setDirtyBlockIndex' => index'[x].nFile \in setDirtyFileInfo'
    BY ZenonT(40) DEF MemoryOK, Covers, Stored, BlockPlace
  <2>1. CASE x = b
    <3>1. index'[x] = entry /\ HaveData(entry)
      BY ZenonT(40), <2>1 DEF Types
    <3>2. Covers(info', entry, x)
      BY SMT, <1>4, <2>1, <3>1 DEF Covers
    <3>3. BlockPlace(entry) = <<"blk", f, info[f].nSize>>
      BY ZenonT(40), <3>1 DEF BlockPlace
    <3>4. entry.nFile <= f
      BY SMT, <1>1, <3>1
    <3>5. QED BY Zenon, <2>1, <3>1, <3>2, <3>3, <3>4
  <2>2. CASE x # b
    <3>1. index'[x] = index[x] /\ HaveData(index[x])
      BY Zenon, <2>2 DEF Types
    <3>2. index[x] \in Entry /\ Covers(info', index[x], x) /\ (OpensSucceed => Stored(index[x], x)')
      BY Zenon, <1>6, <2>2, <3>1
    <3>3. index[x].nFile <= f
      <4>1. index[x].nFile \in Nat /\ index[x].nFile <= nLastBlockFile
        BY ZenonT(40), <1>1, <3>1, <3>2 DEF MemoryOK, Entry
      <4>2. QED BY <1>1, <4>1
    <3>4. x \in setDirtyBlockIndex' => index[x].nFile \in setDirtyFileInfo'
      BY <2>2, <3>1 DEF MemoryOK
    <3>5. QED BY Zenon, <3>1, <3>2, <3>3, <3>4 DEF Stored, BlockPlace
  <2>3. QED BY Zenon, <2>1, <2>2
<1>8. DatabaseOK'
  <2> SUFFICES ASSUME NEW x \in Block, HaveData(db.index[x])
               PROVE  /\ OpensSucceed => (db.index[x].nFile \in files'
                                          /\ <<BlockPlace(db.index[x]), x>> \in content')
                      /\ BlockPlace(db.index[x]) \notin unsynced'
                      /\ Same(x)' \/ Superseded(x)'
    BY Zenon DEF DatabaseOK, Covers, Stored, HaveData, BlockPlace
  <2>1. db.index[x] \in Entry /\ db.index[x].nFile \in File /\ db.index[x].nFile \in Nat
    BY Zenon, <1>1 DEF HaveData, Types, Entry
  <2>2. BlockPlace(db.index[x]) # <<"blk", f, info[f].nSize>>
    <3>1. CASE Same(x)
      BY ZenonT(40), <1>5, <2>1, <3>1 DEF Same, MemoryOK, Covers
    <3>2. CASE Superseded(x)
      BY SMT, <1>1, <2>1, <3>2 DEF Superseded, BlockPlace
    <3>3. QED BY Zenon, <3>1, <3>2 DEF DatabaseOK
  <2>3. OpensSucceed => <<BlockPlace(db.index[x]), x>> \in content'
    BY Zenon, <2>2, Leaving DEF DatabaseOK, Stored
  <2>4. BlockPlace(db.index[x]) \notin unsynced'
    BY Zenon, <2>2, Leaving DEF DatabaseOK
  <2>5. CASE Same(x)
    <3>1. x # b
      BY Zenon, <2>5 DEF Same
    <3>2. Same(x)'
      BY Zenon, <2>5, <3>1 DEF Same, Types
    <3>3. QED BY Zenon, <2>3, <2>4, <3>2 DEF DatabaseOK, Stored
  <2>6. CASE Superseded(x)
    <3>1. db.index[x].nFile # f /\ db.index[x].nFile < f
      BY SMT, <1>1, <2>1, <2>6 DEF Superseded
    <3>2. Superseded(x)'
      BY Zenon, <1>2, <2>1, <2>6, <3>1 DEF Superseded
    <3>3. QED BY ZenonT(40), <2>3, <2>4, <3>2 DEF DatabaseOK, Stored
  <2>7. QED BY Zenon, <2>5, <2>6 DEF DatabaseOK
<1>9. FilesOK'
  <2>1. db.last \in Nat
    BY SMT, SizeAssumption DEF Types, File
  <2>2. \A g \in File : g > f => info'[g].nSize = 0
    BY SMT, <1>1, <1>2 DEF FilesOK
  <2>3. \A p \in unsynced' : p[1] = "blk" => p[2] >= f
    BY SMT, <1>1, Leaving
  <2>4. db.last <= f
    BY <1>1, <2>1 DEF FilesOK
  <2>5. QED BY ZenonT(40), <1>1, <2>2, <2>3, <2>4 DEF FilesOK
<1>10. QED BY ZenonT(40), <1>7, <1>8, <1>9

\* The block is written, or it could not be opened and is recorded all the same.
LEMMA AcceptBlockKeeps ==
  ASSUME IInv, UNCHANGED world, NEW b \in Block, AcceptBlock(b)
  PROVE  IInv'
<1> USE DEF IInv
<1>1. PICK f \in File, written \in BOOLEAN :
        LET p == <<"blk", f, info[f].nSize>>
        IN /\ Chosen(f)
           /\ ~ written => Fails("open")
           /\ nLastBlockFile' = f
           /\ content' = IF written THEN Put(LeftContent(f), p, b) ELSE LeftContent(f)
           /\ unsynced' = IF written THEN LeftUnsynced(f) \cup {p} ELSE LeftUnsynced(f)
           /\ files' = IF written THEN files \cup {f} ELSE files
           /\ info' = [info EXCEPT ![f] = AddBlock(@, b)]
           /\ setDirtyFileInfo' = setDirtyFileInfo \cup {f}
           /\ index' = [index EXCEPT ![b] = Received(f)]
           /\ setDirtyBlockIndex' = setDirtyBlockIndex \cup {b}
  BY Zenon DEF AcceptBlock
<1>2. /\ ~ HaveData(index[b])
      /\ flush' = Called("none", 0, FALSE) \/ flush' = NoFlush
      /\ UNCHANGED <<tip, coinsBest, db, flag, coinsDb, coinsLog, crashes>>
  BY Zenon DEF AcceptBlock, Wanted
<1>3. /\ info[f].nSize \in Nat /\ Received(f) \in Entry
      /\ Received(f).nFile = f /\ Received(f).nDataPos = info[f].nSize
  <2>1. info[f].nSize \in Nat
    BY DEF Types, Info
  <2>2. QED BY Zenon, <2>1 DEF Received, Bare, Entry
<1>4. flush' \in Flushing /\ flush'.toPrune = {} /\ flush'.step # "index"
  <2>1. 0 \in Block
    BY SMT, SizeAssumption DEF Block
  <2>2. CASE flush' = NoFlush
    BY Zenon, <2>1, <2>2 DEF NoFlush, Flushing
  <2>3. CASE flush' = Called("none", 0, FALSE)
    BY Zenon, <2>1, <2>3 DEF Called, Flushing
  <2>4. QED BY Zenon, <1>2, <2>2, <2>3
<1>5. Types'
  <2>1. index' \in [Block -> Entry \cup {NoEntry}]
    BY <1>1, <1>3 DEF Types
  <2>2. info' \in [File -> Info]
    BY ZenonT(40), <1>1, AddBlockGrows DEF Types
  <2>3. unsynced' \subseteq Place
    <3>1. <<"blk", f, info[f].nSize>> \in Place
      BY SMT, <1>3 DEF Place
    <3>2. LeftUnsynced(f) \subseteq unsynced /\ unsynced \subseteq Place
      BY ZenonT(40), <1>1, Leaving DEF Types
    <3>3. QED BY ZenonT(40), <1>1, <3>1, <3>2
  <2>4. QED BY ZenonT(40), <1>1, <1>2, <1>4, <2>1, <2>2, <2>3 DEF Types
<1>6. FlushOK'
  BY ZenonT(40), <1>4 DEF FlushOK
<1>7. OpensSucceed => written
  BY ZenonT(40), <1>1 DEF Types, OpensSucceed, Fails
<1>8. /\ \A e \in LeftContent(f) : e[1] # <<"blk", f, info[f].nSize>> => e \in content'
      /\ OpensSucceed => f \in files' /\ <<<<"blk", f, info[f].nSize>>, b>> \in content'
  BY <1>1, <1>7 DEF Put
<1>9. /\ unsynced' \subseteq LeftUnsynced(f) \cup {<<"blk", f, info[f].nSize>>}
      /\ files \subseteq files'
  BY Zenon, <1>1
<1>10. QED BY Zenon, <1>1, <1>2, <1>3, <1>5, <1>6, <1>8, <1>9, AcceptKeeps

\* The block is not written, but the room for it is counted.
LEMMA AcceptBlockFailsKeeps ==
  ASSUME IInv, UNCHANGED world, NEW b \in Block, AcceptBlockFails(b)
  PROVE  IInv'
<1> USE DEF IInv
<1>1. PICK f \in File :
        /\ Chosen(f) /\ nLastBlockFile' = f
        /\ content' = LeftContent(f) /\ unsynced' = LeftUnsynced(f)
        /\ info' = [info EXCEPT ![f] = AddBlock(@, b)]
        /\ setDirtyFileInfo' = setDirtyFileInfo \/ setDirtyFileInfo' = setDirtyFileInfo \cup {f}
        /\ files' = files \/ files' = files \cup {f}
  BY Zenon DEF AcceptBlockFails
<1>2. /\ ~ HaveData(index[b]) /\ index' = [index EXCEPT ![b] = Header(b)]
      /\ setDirtyBlockIndex' = setDirtyBlockIndex \cup {b} \/ setDirtyBlockIndex' = setDirtyBlockIndex
      /\ flush' = flush /\ flush.step = "none"
      /\ UNCHANGED <<tip, coinsBest, db, flag, coinsDb, coinsLog, crashes>>
  BY DEF AcceptBlockFails, Wanted, Idle
<1>3. Header(b) \in Entry \cup {NoEntry} /\ ~ HaveData(Header(b))
  <2>1. Bare \in Entry
    BY SizeAssumption DEF Bare, Entry, File
  <2>2. ~ HaveData(Bare)
    BY ZenonT(40) DEF HaveData, Bare
  <2>3. QED BY <1>2, <2>1, <2>2 DEF Header, Types
<1>4. Types'
  <2>1. index' \in [Block -> Entry \cup {NoEntry}]
    BY <1>2, <1>3 DEF Types
  <2>2. info' \in [File -> Info]
    BY Zenon, <1>1, AddBlockGrows DEF Types
  <2>3. unsynced' \subseteq Place
    BY Zenon, <1>1, Leaving DEF Types
  <2>4. QED BY ZenonT(40), <1>1, <1>2, <2>1, <2>2, <2>3 DEF Types
<1>5. FlushOK'
  BY Zenon, <1>2 DEF FlushOK
<1>6. /\ setDirtyFileInfo \subseteq setDirtyFileInfo'
      /\ setDirtyFileInfo' \subseteq setDirtyFileInfo \cup {f}
      /\ setDirtyBlockIndex \subseteq setDirtyBlockIndex'
      /\ setDirtyBlockIndex' \subseteq setDirtyBlockIndex \cup {b}
      /\ files \subseteq files'
      /\ unsynced' \subseteq LeftUnsynced(f) \cup {<<"blk", f, info[f].nSize>>}
      /\ \A e \in LeftContent(f) : e[1] # <<"blk", f, info[f].nSize>> => e \in content'
  BY Zenon, <1>1, <1>2
<1>7. QED BY Zenon, <1>1, <1>2, <1>3, <1>4, <1>5, <1>6, AcceptKeeps

\* The index has the same blocks at the same places.
PlacesKept ==
  \A x \in Block : /\ HaveData(index'[x]) => HaveData(index[x])
                   /\ HaveData(index[x]) => /\ HaveData(index'[x])
                                            /\ index'[x].nFile = index[x].nFile
                                            /\ index'[x].nDataPos = index[x].nDataPos

\* No block file changes.
BlockFilesKept ==
  /\ \A c \in content : c[1][1] = "blk" => c \in content'
  /\ \A u \in unsynced' : u \in unsynced \/ u[1] = "rev"

\* An undo record of block b, or room for one, is added to the undo file of its file.
AddsUndo(b) ==
  /\ info' = UndoRoom(index[b].nFile)
  /\ PlacesKept
  /\ setDirtyFileInfo' = setDirtyFileInfo \cup {index[b].nFile}
  /\ setDirtyBlockIndex \subseteq setDirtyBlockIndex'
  /\ setDirtyBlockIndex' \subseteq setDirtyBlockIndex \cup {b}
  /\ BlockFilesKept
  /\ nLastBlockFile' = nLastBlockFile /\ files' = files /\ db' = db

\* The file is in use, so it is not one that was pruned.
LEMMA UndoKeeps ==
  ASSUME IInv, NEW b \in Block, HaveData(index[b]), AddsUndo(b), Types', FlushOK'
  PROVE  IInv'
<1> USE DEF IInv
<1> DEFINE g == index[b].nFile
<1>1. index[b] \in Entry /\ g \in File /\ info[g].nSize # 0
  <2>1. index[b] \in Entry /\ g \in File /\ index[b].nDataPos \in Nat
    BY Zenon DEF HaveData, Types, Entry
  <2>2. index[b].nDataPos < info[g].nSize
    BY Zenon DEF MemoryOK, Covers
  <2>3. info[g].nSize \in Nat
    BY <2>1 DEF Types, Info
  <2>4. QED BY <2>1, <2>2, <2>3
<1> USE DEF AddsUndo, BlockFilesKept, PlacesKept
<1>2. \A f \in File : /\ info'[f].nSize = info[f].nSize
                      /\ info'[f].nHeightLast = info[f].nHeightLast
  BY ZenonT(40), <1>1 DEF UndoRoom, Types, Info
<1>3. \A e, x : <<BlockPlace(e), x>> \in content => <<BlockPlace(e), x>> \in content'
  BY Zenon DEF BlockPlace
<1>4. \A e : BlockPlace(e) \in unsynced' => BlockPlace(e) \in unsynced
  BY Zenon DEF BlockPlace
<1>5. MemoryOK'
  <2> SUFFICES ASSUME NEW x \in Block, HaveData(index'[x])
               PROVE  /\ index'[x].nFile <= nLastBlockFile
                      /\ Covers(info', index'[x], x)
                      /\ OpensSucceed => (index'[x].nFile \in files
                                          /\ <<BlockPlace(index'[x]), x>> \in content')
                      /\ x \in setDirtyBlockIndex' => index'[x].nFile \in setDirtyFileInfo'
    BY ZenonT(40) DEF MemoryOK, Covers, Stored, BlockPlace
  <2>1. /\ HaveData(index[x]) /\ index[x] \in Entry /\ index[x].nFile \in File
        /\ index'[x].nFile = index[x].nFile /\ index'[x].nDataPos = index[x].nDataPos
    BY Zenon DEF HaveData, Types, Entry
  <2>2. Covers(info', index'[x], x)
    BY ZenonT(40), <1>2, <2>1 DEF MemoryOK, Covers
  <2>3. BlockPlace(index'[x]) = BlockPlace(index[x])
    BY Zenon, <2>1 DEF BlockPlace
  <2>4. OpensSucceed => (index'[x].nFile \in files /\ <<BlockPlace(index'[x]), x>> \in content')
    BY Zenon, <1>3, <2>1, <2>3 DEF MemoryOK, Stored
  <2>5. QED BY Zenon, <2>1, <2>2, <2>4 DEF MemoryOK
<1>6. DatabaseOK'
  <2> SUFFICES ASSUME NEW x \in Block, HaveData(db.index[x])
               PROVE  /\ OpensSucceed => <<BlockPlace(db.index[x]), x>> \in content'
                      /\ BlockPlace(db.index[x]) \notin unsynced'
                      /\ Same(x)' \/ Superseded(x)'
    BY Zenon DEF DatabaseOK, Covers, Stored, HaveData, BlockPlace
  <2>1. db.index[x].nFile \in File
    BY ZenonT(40) DEF HaveData, Types, Entry
  <2>2. Same(x) => Same(x)'
    BY Zenon DEF Same
  <2>3. Superseded(x) => Superseded(x)'
    BY Zenon, <1>1, <1>2, <2>1 DEF Superseded
  <2>4. QED BY Zenon, <1>3, <1>4, <2>2, <2>3 DEF DatabaseOK, Stored
<1>7. FilesOK'
  BY Zenon, <1>2 DEF FilesOK
<1>8. QED BY ZenonT(40), <1>5, <1>6, <1>7
\* The entry of a block that gets its undo record.
WithUndo(e, n) == [e EXCEPT !.undo = TRUE, !.nUndoPos = n]

\* Where the block is does not change.
LEMMA EntryWithUndo ==
  ASSUME NEW e \in Entry, NEW n \in Nat
  PROVE  /\ WithUndo(e, n) \in Entry /\ WithUndo(e, n).nFile = e.nFile
         /\ WithUndo(e, n).nDataPos = e.nDataPos /\ WithUndo(e, n).data = e.data
<1>1. WithUndo(e, n) = [[e EXCEPT !.undo = TRUE] EXCEPT !.nUndoPos = n]
  BY DEF WithUndo
<1>2. [e EXCEPT !.undo = TRUE] \in Entry
  BY Zenon DEF Entry
<1>3. QED BY Zenon, <1>1, <1>2 DEF Entry

\* ConnectBlock writes the undo record, unless there is one, or fails to.
LEMMA ConnectKeeps ==
  ASSUME IInv, UNCHANGED world, NEW b \in Block, ConnectTip(b) \/ ConnectTipFails(b)
  PROVE  IInv'
<1> USE DEF IInv
<1>1. HaveData(index[b]) /\ index[b] \in Entry /\ index[b].nFile \in File
      /\ info[index[b].nFile] \in Info
  BY Zenon DEF ConnectTip, ConnectTipFails, Connectable, HaveData, Types, Entry
<1>2. UNCHANGED <<nLastBlockFile, files, db, tip, flag, coinsDb, coinsLog, crashes>>
  BY Zenon DEF ConnectTip, ConnectTipFails, disk
<1>3. UndoRoom(index[b].nFile) \in [File -> Info]
  <2>1. info[index[b].nFile].nUndoSize + 1 \in Nat
    BY <1>1 DEF Info
  <2>2. [info[index[b].nFile] EXCEPT !.nUndoSize = @ + 1] \in Info
    BY <1>1, <2>1 DEF Info
  <2>3. QED BY ZenonT(40), <1>1, <2>2 DEF UndoRoom, Types
<1>4. CASE ConnectTip(b)
  <2>1. flush' = Called("if_needed", 0, TRUE) /\ coinsBest' = b
    BY <1>4 DEF ConnectTip
  <2>2. flush' \in Flushing /\ flush'.toPrune = {} /\ flush'.step # "index"
    <3>1. 0 \in Block
      BY SMT, SizeAssumption DEF Block
    <3>2. QED BY Zenon, <2>1, <3>1 DEF Called, Flushing
  <2>3. FlushOK'
    BY <2>2 DEF FlushOK
  <2>4. CASE index[b].undo
    <3>1. UNCHANGED indexed
      BY Zenon, <1>2, <1>4, <2>4 DEF ConnectTip, indexed
    <3>2. Types'
      BY Zenon, <1>2, <2>1, <2>2, <3>1 DEF Types, indexed
    <3>3. QED BY <2>3, <3>1, <3>2, FlushKeeps
  <2>5. CASE ~ index[b].undo
    <3> DEFINE e == index[b]
               n == info[e.nFile].nUndoSize
               p == <<"rev", e.nFile, n>>
    <3>1. /\ index' = [index EXCEPT ![b] = WithUndo(e, n)]
          /\ info' = UndoRoom(index[b].nFile)
          /\ setDirtyBlockIndex' = setDirtyBlockIndex \cup {b}
          /\ setDirtyFileInfo' = setDirtyFileInfo \cup {index[b].nFile}
          /\ content' = Put(content, p, b)
          /\ unsynced' = unsynced \cup {p}
      BY ZenonT(40), <1>4, <2>5 DEF ConnectTip, WithUndo
    <3>2. n \in Nat
      BY ZenonT(40), <1>1 DEF Info
    <3>3. p \in Place /\ p[1] = "rev"
      BY ZenonT(40), <1>1, <3>2 DEF Place
    <3> HIDE DEF n, p
    <3>4. /\ WithUndo(e, n) \in Entry /\ WithUndo(e, n).nFile = e.nFile
          /\ WithUndo(e, n).nDataPos = e.nDataPos /\ WithUndo(e, n).data = e.data
      BY ZenonT(40), <1>1, <3>2, EntryWithUndo
    <3>5. /\ index' \in [Block -> Entry \cup {NoEntry}]
          /\ index'[b] = WithUndo(e, n) /\ \A x \in Block : x # b => index'[x] = index[x]
      BY <3>1, <3>4 DEF Types
    <3>6. HaveData(index'[b])
      <4>1. e.data
        BY ZenonT(40), <1>1 DEF HaveData
      <4>2. index'[b] # NoEntry
        BY <3>4, <3>5, NullAssumption DEF NoEntry
      <4>3. QED BY Zenon, <3>4, <3>5, <4>1, <4>2 DEF HaveData
    <3>7. Types'
      BY Zenon, <1>2, <1>3, <2>1, <2>2, <3>1, <3>3, <3>5 DEF Types
    <3>8. BlockFilesKept
      BY Zenon, <3>1, <3>3 DEF Put, BlockFilesKept
    <3>9. PlacesKept
      BY Zenon, <1>1, <3>4, <3>5, <3>6 DEF PlacesKept
    <3>10. /\ setDirtyBlockIndex \subseteq setDirtyBlockIndex'
           /\ setDirtyBlockIndex' \subseteq setDirtyBlockIndex \cup {b}
           /\ nLastBlockFile' = nLastBlockFile /\ files' = files /\ db' = db
           /\ info' = UndoRoom(index[b].nFile)
           /\ setDirtyFileInfo' = setDirtyFileInfo \cup {index[b].nFile}
      BY <1>2, <3>1
    <3> HIDE DEF e
    <3>11. AddsUndo(b)
      BY Zenon, <3>8, <3>9, <3>10 DEF AddsUndo
    <3>12. QED BY Zenon, <1>1, <2>3, <3>7, <3>11, UndoKeeps
  <2>6. QED BY <2>4, <2>5
<1>5. CASE ConnectTipFails(b)
  <2>1. /\ info' = UndoRoom(index[b].nFile)
        /\ setDirtyFileInfo' = setDirtyFileInfo \cup {index[b].nFile}
        /\ UNCHANGED <<index, setDirtyBlockIndex, coinsBest, flush, content, unsynced>>
        /\ flush.step = "none"
    BY <1>5 DEF ConnectTipFails, disk, Connectable, Idle
  <2>2. Types'
    BY Zenon, <1>2, <1>3, <2>1 DEF Types
  <2>3. FlushOK'
    BY ZenonT(40), <2>1 DEF FlushOK
  <2>4. AddsUndo(b)
    BY Zenon, <1>2, <2>1 DEF AddsUndo, BlockFilesKept, PlacesKept
  <2>5. QED BY ZenonT(40), <1>1, <2>2, <2>3, <2>4, UndoKeeps
<1>6. QED BY <1>4, <1>5

-----------------------------------------------------------------------------
(* A crash leaves what the database has, and that is on disk.              *)

\* The node starts again on the databases and the files that are left.
LEMMA CrashKeeps ==
  ASSUME IInv, UNCHANGED world, NEW lost \in SUBSET unsynced, NEW coins \in CoinsState,
         NEW written \in BOOLEAN, Crash(lost, coins, written)
  PROVE  IInv'
<1> USE DEF IInv
<1>1. /\ content' = {e \in content : e[1] \notin lost} /\ files' = files
      /\ unsynced' = IF world.power THEN {} ELSE unsynced
      /\ index' = db.index /\ info' = db.info /\ nLastBlockFile' = db.last
      /\ setDirtyBlockIndex' = {} /\ setDirtyFileInfo' = {} /\ flush' = NoFlush
      /\ db' = [db EXCEPT !.flag = written] /\ flag' = written
      /\ coinsBest' = coins[1] /\ tip' = coins[1]
      /\ coinsDb' = <<coins[1]>>
      /\ coinsLog' = IF world.power THEN {coins, <<coins[1]>>} ELSE {<<coins[1]>>}
      /\ crashes' = crashes + 1
  BY DEF Crash
<1>2. db'.index = db.index /\ db'.info = db.info /\ db'.last = db.last
  BY <1>1 DEF Types
<1>3. Types'
  <2>1. coins[1] \in Block
    BY DEF CoinsState
  <2>2. coinsDb' \in CoinsState /\ coinsLog' \subseteq CoinsState
    BY <1>1, <2>1 DEF CoinsState
  <2>3. db' \in [index : [Block -> Entry \cup {NoEntry}], info : [File -> Info], last : File,
                 flag : BOOLEAN]
    BY <1>1 DEF Types
  <2>4. flush' \in Flushing
    BY <1>1, SizeAssumption DEF NoFlush, Flushing, Block
  <2>5. QED BY <1>1, <2>1, <2>2, <2>3, <2>4 DEF Types
<1>4. \A b \in Block : HaveData(db.index[b]) =>
        /\ BlockPlace(db.index[b]) \notin unsynced'
        /\ OpensSucceed => (db.index[b].nFile \in files'
                            /\ <<BlockPlace(db.index[b]), b>> \in content')
  BY Zenon, <1>1 DEF DatabaseOK, Stored
<1>5. MemoryOK'
  BY ZenonT(40), <1>1, <1>4 DEF MemoryOK, DatabaseOK, Covers, Stored, HaveData, BlockPlace
<1>6. DatabaseOK'
  BY <1>1, <1>2, <1>4 DEF DatabaseOK, Covers, Stored, Same, HaveData, BlockPlace
<1>7. FilesOK'
  <2>1. db.last \in Nat /\ nLastBlockFile \in Nat /\ \A p \in unsynced : p[2] \in Nat
    BY SizeAssumption DEF Types, File, Place
  <2>2. \A p \in unsynced' : p[1] = "blk" => p[2] >= db.last
    BY <1>1, <2>1 DEF FilesOK
  <2>3. QED BY <1>1, <1>2, <2>1, <2>2 DEF FilesOK
<1>8. FlushOK'
  BY <1>1 DEF FlushOK, NoFlush
<1>9. QED BY <1>3, <1>5, <1>6, <1>7, <1>8
-----------------------------------------------------------------------------
(* The theorems.                                                           *)

\* The invariant holds at every step of a flush, a prune and a start.
THEOREM Invariance == Spec => []IInv
<1>1. Init => IInv
  BY InitOK
<1>2. IInv /\ [Next]_vars => IInv'
  <2> SUFFICES ASSUME IInv, [Next]_vars PROVE IInv'
    OBVIOUS
  <2>1. CASE UNCHANGED vars
    <3>1. UNCHANGED indexed /\ UNCHANGED <<tip, coinsBest, coinsDb, coinsLog, flush, flag, crashes,
                                          world>>
      BY Zenon, <2>1 DEF vars, memory, disk, indexed
    <3>2. Types' /\ FlushOK'
      BY Zenon, <3>1 DEF IInv, Types, FlushOK, indexed, HaveData
    <3>3. QED BY <3>1, <3>2, FlushKeeps
  <2>2. CASE Next
    <3> UNCHANGED world
      BY <2>2 DEF Next
    <3>1. CASE \E b \in Block : AcceptBlock(b)
      BY <3>1, AcceptBlockKeeps
    <3>2. CASE \E b \in Block : AcceptBlockFails(b)
      BY <3>2, AcceptBlockFailsKeeps
    <3>3. CASE \E b \in Block : ConnectTip(b) \/ ConnectTipFails(b)
      BY <3>3, ConnectKeeps
    <3>4. CASE DisconnectTip \/ CallFlush \/ PruneBlockFilesManual \/ NoSpace
      BY <3>4, CallsKeep
    <3>5. CASE BeginFlush
      BY <3>5, BeginKeeps
    <3>6. CASE CommitFiles
      BY <3>6, CommitKeeps
    <3>7. CASE WriteIndex
      BY <3>7, WriteKeeps
    <3>8. CASE UnlinkPrunedFile
      BY <3>8, UnlinkKeeps
    <3>9. CASE WriteCoinsPartly \/ WriteCoins
      BY <3>9, CoinsKeep
    <3>10. CASE CrashOfProcess
      <4>1. coinsDb \in CoinsState /\ flag \in BOOLEAN /\ {} \in SUBSET unsynced
        BY DEF IInv, Types
      <4>2. QED BY <3>10, <4>1, CrashKeeps DEF CrashOfProcess
    <3>11. CASE LossOfPower
      <4>1. PICK lost \in SUBSET unsynced, coins \in coinsLog, written \in {flag, db.flag} :
              Crash(lost, coins, written)
        BY <3>11 DEF LossOfPower
      <4>2. coins \in CoinsState /\ written \in BOOLEAN
        BY DEF IInv, Types
      <4>3. QED BY <4>1, <4>2, CrashKeeps
    <3>12. QED BY <2>2, <3>1, <3>2, <3>3, <3>4, <3>5, <3>6, <3>7, <3>8, <3>9, <3>10, <3>11 DEF Next
  <2>3. QED BY <2>1, <2>2
<1>3. QED BY <1>1, <1>2, PTL DEF Spec

\* While block files can be opened, every block that the index database says is on
\* disk is there and committed, for any sizes, crashes and failures of other writes:
\* FlushStateToDisk writes in a safe order.
THEOREM BlocksDurable ==
  ASSUME OpensSucceed
  PROVE  Spec => []DataDurable
<1>1. IInv => DataDurable
  BY DEF IInv, DatabaseOK, Stored, DataDurable, BlockReadable
<1>2. QED BY <1>1, Invariance, PTL

\* No step but a start takes a block from the index that is within MIN_BLOCKS_TO_KEEP
\* of the tip, or above it, whatever failed before.
THEOREM NeverPrunesRecent == Spec => [][PrunesOnlyOld]_vars
<1>1. IInv /\ [Next]_vars => [PrunesOnlyOld]_vars
  <2> SUFFICES ASSUME IInv, Next, crashes' = crashes, NEW b \in Block,
                      HaveData(index[b]), ~ HaveData(index'[b])
               PROVE  b <= tip - MinBlocksToKeep
    BY DEF PrunesOnlyOld
  <2>1. index' # index
    BY ZenonT(40)
  <2>2. CASE BeginFlush
    <3>1. PICK s \in SetsToPrune : PruneFiles(s)
      BY ZenonT(40), <2>2 DEF BeginFlush
    <3>2. index[b].nFile \in s
      BY <3>1 DEF PruneFiles, BlocksOf
    <3>3. /\ index[b].nFile \in File
          /\ info[index[b].nFile].nHeightLast <= tip - MinBlocksToKeep
      BY ZenonT(40), <3>2, FilesToPrune
    <3>4. b <= info[index[b].nFile].nHeightLast
      BY ZenonT(40) DEF IInv, MemoryOK, Covers
    <3>5. info[index[b].nFile].nHeightLast \in Int /\ b \in Int /\ tip - MinBlocksToKeep \in Int
      BY SMT, <3>3, SizeAssumption DEF IInv, Types, Info, Block
    <3>6. QED BY <3>3, <3>4, <3>5
  <2>3. CASE \E x \in Block : AcceptBlock(x) \/ AcceptBlockFails(x)
    <3>1. PICK x \in Block : ~ HaveData(index[x]) /\ \E e : index' = [index EXCEPT ![x] = e]
      BY ZenonT(40), <2>3 DEF AcceptBlock, AcceptBlockFails, Wanted
    <3>2. QED BY <3>1 DEF IInv, Types
  <2>4. CASE \E x \in Block : ConnectTip(x)
    <3>1. PICK x \in Block, n \in Nat : index' = [index EXCEPT ![x] = WithUndo(index[x], n)]
                                       /\ HaveData(index[x]) /\ index[x] \in Entry
      <4>1. PICK x \in Block : ConnectTip(x)
        BY ZenonT(40), <2>4
      <4>2. HaveData(index[x]) /\ index[x] \in Entry /\ info[index[x].nFile].nUndoSize \in Nat
        <5>1. HaveData(index[x]) /\ index[x] \in Entry /\ index[x].nFile \in File
          BY <4>1 DEF ConnectTip, Connectable, HaveData, IInv, Types, Entry
        <5>2. QED BY <5>1 DEF IInv, Types, Info
      <4>3. index' = [index EXCEPT ![x] = WithUndo(index[x], info[index[x].nFile].nUndoSize)]
        BY Zenon, <2>1, <4>1 DEF ConnectTip, WithUndo
      <4>4. QED BY Zenon, <4>2, <4>3
    <3>2. CASE x = b
      <4>1. index'[b] = WithUndo(index[b], n) /\ index'[b] \in Entry /\ index'[b].data = index[b].data
        BY <3>1, <3>2, EntryWithUndo DEF IInv, Types
      <4>2. QED BY ZenonT(40), <4>1, NullAssumption DEF HaveData, NoEntry
    <3>3. CASE x # b
      BY <3>1, <3>3 DEF IInv, Types
    <3>4. QED BY <3>2, <3>3
  <2>5. CASE CrashOfProcess \/ LossOfPower
    <3>1. crashes' = crashes + 1
      BY Zenon, <2>5 DEF CrashOfProcess, LossOfPower, Crash
    <3>2. crashes \in Nat
      BY DEF IInv, Types
    <3>3. QED BY <3>1, <3>2
  <2>6. CASE \/ DisconnectTip \/ CallFlush \/ PruneBlockFilesManual \/ NoSpace \/ CommitFiles
             \/ WriteIndex \/ UnlinkPrunedFile \/ WriteCoinsPartly \/ WriteCoins
             \/ \E x \in Block : ConnectTipFails(x)
    BY Zenon, <2>1, <2>6 DEF DisconnectTip, CallFlush, PruneBlockFilesManual, NoSpace, CommitFiles,
       WriteIndex, UnlinkPrunedFile, WriteCoinsPartly, WriteCoins, ConnectTipFails, memory
  <2>7. QED BY <2>2, <2>3, <2>4, <2>5, <2>6 DEF Next
<1>2. QED BY <1>1, Invariance, PTL DEF Spec
=============================================================================
