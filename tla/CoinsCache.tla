----------------------------- MODULE CoinsCache -----------------------------
(***************************************************************************)
(* The layered cache of unspent outputs: the chainstate database (class    *)
(* CCoinsViewDB), the global cache pcoinsTip over it and the short-lived   *)
(* cache that ConnectTip, DisconnectTip and VerifyDB put over pcoinsTip    *)
(* for one block (both class CCoinsViewCache).                             *)
(*                                                                         *)
(* A coin is an element of Coin, or Spent for Coin::IsSpent().  A cache is *)
(* a function from outpoints to entries, NoEntry where cacheCoins has no   *)
(* key.  Only the layers' mutual consistency matters here, so transactions *)
(* and blocks are left to other modules: this one takes any call the       *)
(* callers' contracts allow, in any order.                                 *)
(***************************************************************************)
EXTENDS Integers, FiniteSets, FiniteSetsExt

CONSTANTS
  Outpoint,      \* COutPoint
  Coin,          \* unspent Coin values
  Spent,         \* a cleared Coin, and the absence of a database record
  Unspendable,   \* the coins whose script IsUnspendable()
  CoinSize,      \* Coin::DynamicMemoryUsage() of an unspent coin
  NoEntry,       \* cacheCoins.end()
  Block,         \* block hashes
  Null           \* the null hash

ASSUME CoinAssumption ==
  /\ Spent \notin Coin
  /\ Unspendable \subseteq Coin
  /\ Null \notin Block

ASSUME SizeAssumption == CoinSize \in [Coin -> Nat]

Flags == {"DIRTY", "FRESH"}

Entry == [coin : Coin \cup {Spent}, flags : SUBSET Flags]

ASSUME EntryAssumption == NoEntry \notin Entry

VARIABLES
  db,          \* the coins on disk
  dbHash,      \* DB_BEST_BLOCK
  tip,         \* pcoinsTip->cacheCoins
  tipHash,     \* pcoinsTip->hashBlock, Null until first asked for
  tipUsage,    \* pcoinsTip->cachedCoinsUsage
  view,        \* cacheCoins of the cache over pcoinsTip
  viewHash,    \* its hashBlock
  viewUsage,   \* its cachedCoinsUsage
  open,        \* whether that cache exists
  logicError   \* whether a std::logic_error was thrown

tipVars == <<tip, tipHash, tipUsage>>
viewVars == <<view, viewHash, viewUsage>>
vars == <<db, dbHash, tip, tipHash, tipUsage, view, viewHash, viewUsage, open,
          logicError>>

EmptyCache == [o \in Outpoint |-> NoEntry]

Init ==
  /\ db \in [Outpoint -> (Coin \ Unspendable) \cup {Spent}]
  /\ dbHash \in Block
  /\ tip = EmptyCache /\ tipHash = Null /\ tipUsage = 0
  /\ view = EmptyCache /\ viewHash = Null /\ viewUsage = 0
  /\ open = FALSE
  /\ logicError = FALSE

-----------------------------------------------------------------------------
(* What the views hold, whatever layer the coin is found in.               *)

\* The coin shown where the entry is e and the parent shows d.
Shown(e, d) == IF e # NoEntry THEN e.coin ELSE d

TipCoins == [o \in Outpoint |-> Shown(tip[o], db[o])]
ViewCoins == [o \in Outpoint |-> Shown(view[o], TipCoins[o])]

TipBest == IF tipHash = Null THEN dbHash ELSE tipHash
ViewBest == IF viewHash = Null THEN TipBest ELSE viewHash

(* Coin::DynamicMemoryUsage, and the same of an entry that may be missing. *)
CoinUsage(c) == IF c = Spent THEN 0 ELSE CoinSize[c]
EntryUsage(e) == IF e = NoEntry THEN 0 ELSE CoinUsage(e.coin)

-----------------------------------------------------------------------------
(* The methods of CCoinsViewCache, as operators on the entry of one        *)
(* outpoint.                                                               *)

\* base is the coin the parent's GetCoin yields, found whether it yields one.
FetchCoin(e, found, base) ==
  IF e # NoEntry \/ ~found
    THEN e
    ELSE [coin |-> base, flags |-> IF base = Spent THEN {"FRESH"} ELSE {}]

\* Mutant of AddCoin: FRESH without looking at DIRTY, so that a coin spent and
\* added again in the same view hides the parent's copy.
AddCoinFreshAlways(e, c, possible_overwrite) ==
  [coin |-> c,
   flags |-> (IF e = NoEntry THEN {} ELSE e.flags) \cup {"DIRTY"}
             \cup (IF possible_overwrite THEN {} ELSE {"FRESH"})]

\* AddCoin past its checks; a new entry is default-constructed.
AddCoin(e, c, possible_overwrite) ==
  LET flags == IF e = NoEntry THEN {} ELSE e.flags
      fresh == ~possible_overwrite /\ "DIRTY" \notin flags
  IN  [coin |-> c,
       flags |-> flags \cup {"DIRTY"} \cup (IF fresh THEN {"FRESH"} ELSE {})]

AddCoinThrows(e, possible_overwrite) ==
  ~possible_overwrite /\ e # NoEntry /\ e.coin # Spent

SpendCoin(e) ==
  IF e = NoEntry THEN e
  ELSE IF "FRESH" \in e.flags THEN NoEntry
  ELSE [coin |-> Spent, flags |-> e.flags \cup {"DIRTY"}]

\* Mutant of MergeEntry: a new entry of the parent is FRESH whether or not the
\* child's was.
MergeEntryFresh(e, us) ==
  IF e = NoEntry THEN us
  ELSE IF "DIRTY" \notin e.flags THEN us
  ELSE IF us = NoEntry THEN [coin |-> e.coin, flags |-> {"DIRTY", "FRESH"}]
  ELSE IF "FRESH" \in us.flags /\ e.coin = Spent THEN NoEntry
  ELSE [coin |-> e.coin, flags |-> us.flags \cup {"DIRTY"}]

\* The parent's entry after BatchWrite has merged the child's entry e into it.
MergeEntry(e, us) ==
  IF e = NoEntry THEN us
  ELSE IF "DIRTY" \notin e.flags THEN us
  ELSE IF us = NoEntry
    THEN IF "FRESH" \in e.flags /\ e.coin = Spent
           THEN NoEntry
           ELSE [coin |-> e.coin, flags |-> {"DIRTY"} \cup (e.flags \cap {"FRESH"})]
  ELSE IF "FRESH" \in us.flags /\ e.coin = Spent
    THEN NoEntry
    ELSE [coin |-> e.coin, flags |-> us.flags \cup {"DIRTY"}]

MergeThrows(e, us) ==
  /\ e # NoEntry /\ us # NoEntry
  /\ {"DIRTY", "FRESH"} \subseteq e.flags
  /\ us.coin # Spent

\* CCoinsViewDB::BatchWrite on one outpoint.
WriteEntry(e, stored) ==
  IF e # NoEntry /\ "DIRTY" \in e.flags THEN e.coin ELSE stored

-----------------------------------------------------------------------------
(* Fetching: GetCoin, AccessCoin and HaveCoin all go through FetchCoin.    *)

\* The entry in pcoinsTip after its own lookup over the database's d, after a
\* lookup through the view's entry v, and the view's entry after the latter.  The
\* database is asked only when neither cache has the outpoint.
LookupTip(t, d) == FetchCoin(t, d # Spent, d)
TipAfterLookup(v, t, d) == IF v # NoEntry THEN t ELSE LookupTip(t, d)
LookupView(v, t, d) ==
  FetchCoin(v, LookupTip(t, d) # NoEntry, Shown(LookupTip(t, d), Spent))

\* Replace the entry of o in the view (and, by a fetch, in pcoinsTip), keeping
\* the byte counts the way the code does, by the difference.
SetView(o, e) ==
  /\ view' = [view EXCEPT ![o] = e]
  /\ viewUsage' = viewUsage - EntryUsage(view[o]) + EntryUsage(e)

SetTip(o, e) ==
  /\ tip' = [tip EXCEPT ![o] = e]
  /\ tipUsage' = tipUsage - EntryUsage(tip[o]) + EntryUsage(e)

TipGetCoin(o) ==
  /\ ~open
  /\ SetTip(o, LookupTip(tip[o], db[o]))
  /\ UNCHANGED <<db, dbHash, tipHash, viewVars, open, logicError>>

ViewGetCoin(o) ==
  /\ open
  /\ SetTip(o, TipAfterLookup(view[o], tip[o], db[o]))
  /\ SetView(o, LookupView(view[o], tip[o], db[o]))
  /\ UNCHANGED <<db, dbHash, tipHash, viewHash, open, logicError>>

-----------------------------------------------------------------------------
(* Changes to the view.                                                    *)

\* AddCoin; coins.h wants possible_overwrite "if a non-pruned version may
\* already exist".
ViewAddCoin(o, c, possible_overwrite) ==
  LET throws == c \notin Unspendable /\ AddCoinThrows(view[o], possible_overwrite)
  IN  /\ open
      /\ possible_overwrite \/ ViewCoins[o] = Spent
      /\ logicError' = (logicError \/ throws)
      /\ SetView(o, IF c \in Unspendable \/ throws
                      THEN view[o] ELSE AddCoin(view[o], c, possible_overwrite))
      /\ UNCHANGED <<db, dbHash, tipVars, viewHash, open>>

\* AddCoins with check = true, and UndoCoinSpend: HaveCoin is asked first and
\* its answer is the overwrite flag.
ViewAddCoinChecked(o, c) ==
  LET e == LookupView(view[o], tip[o], db[o])
      overwrite == e # NoEntry /\ e.coin # Spent
  IN  /\ open
      /\ c \notin Unspendable
      /\ SetTip(o, TipAfterLookup(view[o], tip[o], db[o]))
      /\ SetView(o, AddCoin(e, c, overwrite))
      /\ UNCHANGED <<db, dbHash, tipHash, viewHash, open, logicError>>

ViewSpendCoin(o) ==
  /\ open
  /\ SetTip(o, TipAfterLookup(view[o], tip[o], db[o]))
  /\ SetView(o, SpendCoin(LookupView(view[o], tip[o], db[o])))
  /\ UNCHANGED <<db, dbHash, tipHash, viewHash, open, logicError>>

-----------------------------------------------------------------------------
(* Best block, life cycle of the view, and flushing.                       *)

TipGetBestBlock ==
  /\ ~open
  /\ tipHash' = TipBest
  /\ UNCHANGED <<db, dbHash, tip, tipUsage, viewVars, open, logicError>>

ViewGetBestBlock ==
  /\ open
  /\ viewHash' = ViewBest
  /\ tipHash' = IF viewHash = Null THEN TipBest ELSE tipHash
  /\ UNCHANGED <<db, dbHash, tip, tipUsage, view, viewUsage, open, logicError>>

SetBestBlock(b) ==
  /\ open
  /\ viewHash' = b
  /\ UNCHANGED <<db, dbHash, tipVars, view, viewUsage, open, logicError>>

OpenView ==
  /\ ~open
  /\ open' = TRUE
  /\ UNCHANGED <<db, dbHash, tipVars, viewVars, logicError>>

\* The view goes out of scope unflushed: a failed ConnectBlock, a fJustCheck.
DropView ==
  /\ open
  /\ open' = FALSE
  /\ view' = EmptyCache /\ viewHash' = Null /\ viewUsage' = 0
  /\ UNCHANGED <<db, dbHash, tipVars, logicError>>

\* view.Flush() in ConnectTip and DisconnectTip, that is pcoinsTip->BatchWrite.
\* Both have called SetBestBlock by then.
FlushView ==
  /\ open
  /\ viewHash # Null
  /\ IF \E o \in Outpoint : MergeThrows(view[o], tip[o])
       THEN /\ logicError' = TRUE
            /\ UNCHANGED <<tipVars, viewVars, open>>
       ELSE /\ tip' = [o \in Outpoint |-> MergeEntry(view[o], tip[o])]
            /\ tipUsage' = tipUsage
                 + MapThenSumSet(LAMBDA o : EntryUsage(MergeEntry(view[o], tip[o]))
                                              - EntryUsage(tip[o]), Outpoint)
            /\ tipHash' = viewHash
            /\ view' = EmptyCache /\ viewHash' = Null /\ viewUsage' = 0
            /\ open' = FALSE
            /\ UNCHANGED logicError
  /\ UNCHANGED <<db, dbHash>>

\* pcoinsTip->Flush() in FlushStateToDisk; CCoinsViewDB::BatchWrite asserts a
\* hash.
FlushTip ==
  /\ ~open
  /\ tipHash # Null
  /\ db' = [o \in Outpoint |-> WriteEntry(tip[o], db[o])]
  /\ dbHash' = tipHash
  /\ tip' = EmptyCache /\ tipUsage' = 0
  /\ UNCHANGED <<tipHash, viewVars, open, logicError>>


\* pcoinsTip->Uncache, after a transaction was refused by the mempool.
Uncache(o) ==
  /\ ~open
  /\ tip[o] # NoEntry
  /\ tip[o].flags = {}
  /\ SetTip(o, NoEntry)
  /\ UNCHANGED <<db, dbHash, tipHash, viewVars, open, logicError>>

Next ==
  \/ \E o \in Outpoint :
       \/ TipGetCoin(o)
       \/ ViewGetCoin(o)
       \/ ViewSpendCoin(o)
       \/ Uncache(o)
       \/ \E c \in Coin : ViewAddCoinChecked(o, c)
       \/ \E c \in Coin, possible_overwrite \in BOOLEAN :
            ViewAddCoin(o, c, possible_overwrite)
  \/ TipGetBestBlock
  \/ ViewGetBestBlock
  \/ \E b \in Block : SetBestBlock(b)
  \/ OpenView
  \/ DropView
  \/ FlushView
  \/ FlushTip

Spec == Init /\ [][Next]_vars

-----------------------------------------------------------------------------
(* Properties.                                                             *)

\* The variables keep their types; the byte counts are the subject of
\* UsageExact.
TypeOK ==
  /\ db \in [Outpoint -> Coin \cup {Spent}]
  /\ dbHash \in Block
  /\ tip \in [Outpoint -> Entry \cup {NoEntry}]
  /\ tipHash \in Block \cup {Null}
  /\ view \in [Outpoint -> Entry \cup {NoEntry}]
  /\ viewHash \in Block \cup {Null}
  /\ open \in BOOLEAN
  /\ logicError \in BOOLEAN

\* FRESH means what coins.h:102 says, "the parent view does not have this entry
\* (or it is pruned)": SpendCoin and BatchWrite throw such entries away without
\* telling the parent, so a FRESH entry over a live coin would resurrect it.
FreshSound ==
  \A o \in Outpoint :
    /\ tip[o] # NoEntry /\ "FRESH" \in tip[o].flags => db[o] = Spent
    /\ view[o] # NoEntry /\ "FRESH" \in view[o].flags => TipCoins[o] = Spent

\* An entry without DIRTY equals the parent's coin: Flush, BatchWrite and
\* Uncache drop such entries, which is harmless only if nothing is lost.
CleanMatchesParent ==
  \A o \in Outpoint :
    /\ tip[o] # NoEntry /\ "DIRTY" \notin tip[o].flags => tip[o].coin = db[o]
    /\ view[o] # NoEntry /\ "DIRTY" \notin view[o].flags => view[o].coin = TipCoins[o]

\* The flags of both caches tell the truth.
FlagsSound == FreshSound /\ CleanMatchesParent

\* The two std::logic_error throws (coins.cpp:120 and 225) are out of reach of
\* callers that keep AddCoin's contract.
NoLogicError == ~logicError


\* Only a commit of a block's view changes what pcoinsTip holds: no fetch, no
\* uncaching, no write-back of the cache to disk and no abandoned view does.
OnlyFlushViewChangesTip ==
  [][TipCoins' # TipCoins \/ TipBest' # TipBest => open /\ ~open']_vars

\* The whole stack implements the plain set of unspent outputs with one scratch
\* copy, whatever mixture of layers the coins are found in.
Abstract == INSTANCE UtxoSet WITH
  utxo <- TipCoins,
  best <- TipBest,
  work <- ViewCoins,
  workBest <- ViewBest

ImplementsUtxoSet == Abstract!Spec
=============================================================================
