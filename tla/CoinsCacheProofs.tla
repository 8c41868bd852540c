-------------------------- MODULE CoinsCacheProofs --------------------------
(***************************************************************************)
(* CoinsCache keeps its layers consistent and implements UtxoSet, for      *)
(* every set of outpoints, coins and blocks.                               *)
(*                                                                         *)
(* Everything rests on one relation between a cache entry and the coin of  *)
(* the parent view, EntryOK, which each method of CCoinsViewCache          *)
(* preserves.  The lemmas of the first part say so about the operators;    *)
(* the theorems lift them to the two caches of the stack.                  *)
(***************************************************************************)
EXTENDS CoinsCache, TLAPS

MaybeCoin == Coin \cup {Spent}
MaybeEntry == Entry \cup {NoEntry}

\* FRESH and DIRTY tell the truth about the parent's coin d.
EntryOK(e, d) ==
  e # NoEntry =>
    /\ "FRESH" \in e.flags => d = Spent
    /\ "DIRTY" \notin e.flags => e.coin = d

LayersOK ==
  \A o \in Outpoint :
    /\ EntryOK(tip[o], db[o])
    /\ EntryOK(view[o], Shown(tip[o], db[o]))

IInv == TypeOK /\ LayersOK /\ NoLogicError

\* FetchCoin copies the parent's coin, so it shows the same coin as before and
\* its flags are right.
LEMMA FetchKeeps ==
  ASSUME NEW e \in MaybeEntry, NEW d \in MaybeCoin, NEW found \in BOOLEAN,
         EntryOK(e, d)
  PROVE  /\ FetchCoin(e, found, d) \in MaybeEntry
         /\ EntryOK(FetchCoin(e, found, d), d)
         /\ Shown(FetchCoin(e, found, d), d) = Shown(e, d)
         /\ FetchCoin(e, found, d) = NoEntry => e = NoEntry /\ ~found
  BY EntryAssumption DEF MaybeEntry, MaybeCoin, Entry, Flags, EntryOK, FetchCoin, Shown

\* AddCoin, called within its contract, does not throw, shows the new coin and
\* sets FRESH only over a spent coin.
LEMMA AddKeeps ==
  ASSUME NEW e \in MaybeEntry, NEW d \in MaybeCoin, NEW c \in Coin,
         NEW ow \in BOOLEAN, EntryOK(e, d), ow \/ Shown(e, d) = Spent
  PROVE  /\ ~AddCoinThrows(e, ow)
         /\ AddCoin(e, c, ow) \in Entry
         /\ EntryOK(AddCoin(e, c, ow), d)
         /\ Shown(AddCoin(e, c, ow), d) = c
<1>1. AddCoin(e, c, ow) \in Entry
  BY EntryAssumption DEF MaybeEntry, Entry, Flags, AddCoin
<1>2. ~AddCoinThrows(e, ow)
  BY DEF AddCoinThrows, Shown
<1>3. Shown(AddCoin(e, c, ow), d) = c
  BY <1>1, EntryAssumption DEF Shown, AddCoin
<1>4. EntryOK(AddCoin(e, c, ow), d)
  <2>1. CASE e = NoEntry
    BY <2>1 DEF EntryOK, AddCoin, Shown
  <2>2. CASE e # NoEntry
    BY <2>2 DEF EntryOK, AddCoin, Shown
  <2>3. QED BY <2>1, <2>2
<1>5. QED BY <1>1, <1>2, <1>3, <1>4

\* SpendCoin on a fetched entry shows a spent coin, also when it erases a FRESH
\* entry instead of marking it.
LEMMA SpendKeeps ==
  ASSUME NEW e \in MaybeEntry, NEW d \in MaybeCoin, EntryOK(e, d),
         e = NoEntry => d = Spent
  PROVE  /\ SpendCoin(e) \in MaybeEntry
         /\ EntryOK(SpendCoin(e), d)
         /\ Shown(SpendCoin(e), d) = Spent
  BY EntryAssumption DEF MaybeEntry, MaybeCoin, Entry, Flags, EntryOK, SpendCoin, Shown

\* BatchWrite on a cache: the merge does not throw, the parent then shows what
\* the child showed, and the parent's flags are right for the grandparent.
LEMMA MergeKeeps ==
  ASSUME NEW e \in MaybeEntry, NEW us \in MaybeEntry, NEW d \in MaybeCoin,
         EntryOK(us, d), EntryOK(e, Shown(us, d))
  PROVE  /\ ~MergeThrows(e, us)
         /\ MergeEntry(e, us) \in MaybeEntry
         /\ EntryOK(MergeEntry(e, us), d)
         /\ Shown(MergeEntry(e, us), d) = Shown(e, Shown(us, d))
<1>1. ~MergeThrows(e, us)
  BY DEF MergeThrows, EntryOK, Shown
<1>2. MergeEntry(e, us) \in MaybeEntry
  BY DEF MaybeEntry, Entry, Flags, MergeEntry
<1>3. CASE e = NoEntry \/ (e # NoEntry /\ "DIRTY" \notin e.flags)
  BY <1>1, <1>2, <1>3 DEF EntryOK, MergeEntry, Shown
<1>4. CASE e # NoEntry /\ "DIRTY" \in e.flags /\ us = NoEntry
  <2>1. CASE "FRESH" \in e.flags /\ e.coin = Spent
    BY <1>1, <1>2, <1>4, <2>1 DEF EntryOK, MergeEntry, Shown
  <2>2. CASE ~("FRESH" \in e.flags /\ e.coin = Spent)
    <3>1. MergeEntry(e, us) =
            [coin |-> e.coin, flags |-> {"DIRTY"} \cup (e.flags \cap {"FRESH"})]
      BY <1>4, <2>2 DEF MergeEntry
    <3>2. MergeEntry(e, us) # NoEntry
      BY <3>1, <1>4, EntryAssumption DEF MaybeEntry, Entry, Flags
    <3>3. QED BY <1>1, <1>2, <1>4, <3>1, <3>2 DEF EntryOK, Shown
  <2>3. QED BY <2>1, <2>2
<1>5. CASE e # NoEntry /\ "DIRTY" \in e.flags /\ us # NoEntry
  <2>1. CASE "FRESH" \in us.flags /\ e.coin = Spent
    BY <1>1, <1>2, <1>5, <2>1 DEF EntryOK, MergeEntry, Shown
  <2>2. CASE ~("FRESH" \in us.flags /\ e.coin = Spent)
    <3>1. MergeEntry(e, us) = [coin |-> e.coin, flags |-> us.flags \cup {"DIRTY"}]
      BY <1>5, <2>2 DEF MergeEntry
    <3>2. MergeEntry(e, us) # NoEntry
      BY <3>1, <1>5, EntryAssumption DEF MaybeEntry, Entry, Flags
    <3>3. QED BY <1>1, <1>2, <1>5, <3>1, <3>2 DEF EntryOK, Shown
  <2>3. QED BY <2>1, <2>2
<1>6. QED BY <1>3, <1>4, <1>5

\* CCoinsViewDB::BatchWrite stores what the cache showed.
LEMMA WriteKeeps ==
  ASSUME NEW e \in MaybeEntry, NEW d \in MaybeCoin, EntryOK(e, d)
  PROVE  /\ WriteEntry(e, d) = Shown(e, d)
         /\ WriteEntry(e, d) \in MaybeCoin
  BY DEF MaybeEntry, MaybeCoin, Entry, EntryOK, WriteEntry, Shown

\* FlagsSound of the model is LayersOK.
LEMMA LayersOKIsTheInvariants == LayersOK <=> FlagsSound
  BY DEF LayersOK, EntryOK, Shown, FlagsSound, FreshSound, CleanMatchesParent, TipCoins

-----------------------------------------------------------------------------
(* The invariant and the refinement, one step per action.                  *)

\* What each outpoint's entries satisfy under the invariant.
LEMMA PerOutpoint ==
  IInv =>
    \A o \in Outpoint :
      /\ tip[o] \in MaybeEntry
      /\ view[o] \in MaybeEntry
      /\ db[o] \in MaybeCoin
      /\ TipCoins[o] = Shown(tip[o], db[o])
      /\ TipCoins[o] \in MaybeCoin
      /\ ViewCoins[o] = Shown(view[o], TipCoins[o])
      /\ ViewCoins[o] \in MaybeCoin
      /\ EntryOK(tip[o], db[o])
      /\ EntryOK(view[o], TipCoins[o])
<1> SUFFICES ASSUME IInv, NEW o \in Outpoint
             PROVE  /\ tip[o] \in MaybeEntry
                    /\ view[o] \in MaybeEntry
                    /\ db[o] \in MaybeCoin
                    /\ TipCoins[o] = Shown(tip[o], db[o])
                    /\ TipCoins[o] \in MaybeCoin
                    /\ ViewCoins[o] = Shown(view[o], TipCoins[o])
                    /\ ViewCoins[o] \in MaybeCoin
                    /\ EntryOK(tip[o], db[o])
                    /\ EntryOK(view[o], TipCoins[o])
  OBVIOUS
<1>1. tip[o] \in MaybeEntry /\ view[o] \in MaybeEntry /\ db[o] \in MaybeCoin
  BY DEF IInv, TypeOK, MaybeEntry, MaybeCoin
<1>2. TipCoins[o] = Shown(tip[o], db[o]) /\ ViewCoins[o] = Shown(view[o], TipCoins[o])
  BY DEF TipCoins, ViewCoins, Shown
<1>3. TipCoins[o] \in MaybeCoin
  BY <1>1, <1>2 DEF Shown, MaybeEntry, MaybeCoin, Entry
<1>4. ViewCoins[o] \in MaybeCoin
  BY <1>1, <1>2, <1>3 DEF Shown, MaybeEntry, MaybeCoin, Entry
<1>5. EntryOK(tip[o], db[o]) /\ EntryOK(view[o], TipCoins[o])
  BY <1>2 DEF IInv, LayersOK
<1>6. QED BY <1>1, <1>2, <1>3, <1>4, <1>5

\* A lookup through both caches changes neither what pcoinsTip nor what the view
\* shows, and finds no entry only where there is no coin.
LEMMA LookupKeeps ==
  IInv =>
    \A o \in Outpoint :
      /\ LookupTip(tip[o], db[o]) \in MaybeEntry
      /\ EntryOK(LookupTip(tip[o], db[o]), db[o])
      /\ Shown(LookupTip(tip[o], db[o]), db[o]) = TipCoins[o]
      /\ TipAfterLookup(view[o], tip[o], db[o]) \in MaybeEntry
      /\ EntryOK(TipAfterLookup(view[o], tip[o], db[o]), db[o])
      /\ Shown(TipAfterLookup(view[o], tip[o], db[o]), db[o]) = TipCoins[o]
      /\ LookupView(view[o], tip[o], db[o]) \in MaybeEntry
      /\ EntryOK(LookupView(view[o], tip[o], db[o]), TipCoins[o])
      /\ Shown(LookupView(view[o], tip[o], db[o]), TipCoins[o]) = ViewCoins[o]
      /\ LookupView(view[o], tip[o], db[o]) = NoEntry => TipCoins[o] = Spent
<1> HAVE IInv
<1> TAKE o \in Outpoint
<1>1. /\ LookupTip(tip[o], db[o]) \in MaybeEntry
      /\ EntryOK(LookupTip(tip[o], db[o]), db[o])
      /\ Shown(LookupTip(tip[o], db[o]), db[o]) = TipCoins[o]
      /\ LookupTip(tip[o], db[o]) = NoEntry => db[o] = Spent /\ tip[o] = NoEntry
  BY ZenonT(40), PerOutpoint, FetchKeeps DEF LookupTip
<1>2. /\ TipAfterLookup(view[o], tip[o], db[o]) \in MaybeEntry
      /\ EntryOK(TipAfterLookup(view[o], tip[o], db[o]), db[o])
      /\ Shown(TipAfterLookup(view[o], tip[o], db[o]), db[o]) = TipCoins[o]
  BY <1>1, PerOutpoint DEF TipAfterLookup
<1>3. LookupView(view[o], tip[o], db[o]) = FetchCoin(view[o], LookupTip(tip[o], db[o]) # NoEntry, TipCoins[o])
  BY <1>1, PerOutpoint DEF LookupView, Shown
<1>4. /\ LookupView(view[o], tip[o], db[o]) \in MaybeEntry
      /\ EntryOK(LookupView(view[o], tip[o], db[o]), TipCoins[o])
      /\ Shown(LookupView(view[o], tip[o], db[o]), TipCoins[o]) = ViewCoins[o]
      /\ LookupView(view[o], tip[o], db[o]) = NoEntry => LookupTip(tip[o], db[o]) = NoEntry
  <2> DEFINE found == LookupTip(tip[o], db[o]) # NoEntry
  <2>1. found \in BOOLEAN
    OBVIOUS
  <2>2. FetchCoin(view[o], found, TipCoins[o]) = LookupView(view[o], tip[o], db[o])
    BY <1>3
  <2> HIDE DEF found
  <2>3. /\ FetchCoin(view[o], found, TipCoins[o]) \in MaybeEntry
        /\ EntryOK(FetchCoin(view[o], found, TipCoins[o]), TipCoins[o])
        /\ Shown(FetchCoin(view[o], found, TipCoins[o]), TipCoins[o])
             = Shown(view[o], TipCoins[o])
        /\ FetchCoin(view[o], found, TipCoins[o]) = NoEntry => ~found
    BY <2>1, PerOutpoint, FetchKeeps
  <2>4. QED BY <2>2, <2>3, PerOutpoint DEF found
<1>5. LookupTip(tip[o], db[o]) = NoEntry => TipCoins[o] = Spent
  BY <1>1 DEF Shown
<1>6. QED BY <1>1, <1>2, <1>4, <1>5

\* How a change of one outpoint's entries that is right for that outpoint
\* carries over to the caches: all the actions on a single outpoint.
OneEntryChange(o, t, v) ==
  /\ tip' = [tip EXCEPT ![o] = t]
  /\ view' = [view EXCEPT ![o] = v]
  /\ UNCHANGED <<db, dbHash, tipHash, viewHash, open, logicError>>

LEMMA OneEntry ==
  IInv =>
    \A o \in Outpoint, t \in MaybeEntry, v \in MaybeEntry :
      /\ EntryOK(t, db[o])
      /\ Shown(t, db[o]) = TipCoins[o]
      /\ EntryOK(v, TipCoins[o])
      /\ OneEntryChange(o, t, v)
      => /\ IInv'
         /\ \A p \in Outpoint : TipCoins'[p] = TipCoins[p]
         /\ \A p \in Outpoint : ViewCoins'[p] =
                IF p = o THEN Shown(v, TipCoins[o]) ELSE ViewCoins[p]
         /\ TipBest' = TipBest
         /\ ViewBest' = ViewBest
         /\ open' = open
<1> HAVE IInv
<1> TAKE o \in Outpoint, t \in MaybeEntry, v \in MaybeEntry
<1> HAVE /\ EntryOK(t, db[o])
         /\ Shown(t, db[o]) = TipCoins[o]
         /\ EntryOK(v, TipCoins[o])
         /\ OneEntryChange(o, t, v)
<1> USE DEF OneEntryChange
<1>1. TypeOK'
  BY DEF IInv, TypeOK, MaybeEntry
<1>2. \A p \in Outpoint : /\ tip'[p] = IF p = o THEN t ELSE tip[p]
                          /\ view'[p] = IF p = o THEN v ELSE view[p]
  BY DEF IInv, TypeOK
<1>3. ASSUME NEW p \in Outpoint
      PROVE  /\ EntryOK(tip'[p], db[p])
             /\ Shown(tip'[p], db[p]) = TipCoins[p]
             /\ EntryOK(view'[p], TipCoins[p])
             /\ Shown(view'[p], TipCoins[p]) =
                  IF p = o THEN Shown(v, TipCoins[o]) ELSE ViewCoins[p]
  BY <1>2, PerOutpoint
<1>4. \A p \in Outpoint : TipCoins'[p] = TipCoins[p]
  BY <1>3 DEF TipCoins, Shown
<1>5. LayersOK'
  BY <1>3 DEF LayersOK
<1>6. \A p \in Outpoint :
         ViewCoins'[p] = IF p = o THEN Shown(v, TipCoins[o]) ELSE ViewCoins[p]
  <2> TAKE p \in Outpoint
  <2>1. ViewCoins'[p] = Shown(view'[p], TipCoins[p])
    BY <1>4 DEF ViewCoins, Shown
  <2>2. QED BY <2>1, <1>3
<1>7. TipBest' = TipBest /\ ViewBest' = ViewBest
  BY DEF TipBest, ViewBest
<1>8. QED BY <1>1, <1>4, <1>5, <1>6, <1>7 DEF IInv, NoLogicError

\* The views are functions on Outpoint: they are equal if they agree everywhere.
LEMMA ViewsAreFunctions ==
  /\ TipCoins = [o \in Outpoint |-> TipCoins[o]]
  /\ ViewCoins = [o \in Outpoint |-> ViewCoins[o]]
  /\ TipCoins' = [o \in Outpoint |-> TipCoins'[o]]
  /\ ViewCoins' = [o \in Outpoint |-> ViewCoins'[o]]
  BY DEF TipCoins, ViewCoins

\* OneEntry in the terms of the abstract specification: a Put at o of what the
\* view now shows there.
LEMMA OneEntryIsPut ==
  IInv =>
    \A o \in Outpoint, t \in MaybeEntry, v \in MaybeEntry :
      /\ EntryOK(t, db[o])
      /\ Shown(t, db[o]) = TipCoins[o]
      /\ EntryOK(v, TipCoins[o])
      /\ OneEntryChange(o, t, v)
      => /\ IInv'
         /\ UNCHANGED <<TipCoins, TipBest, open, ViewBest>>
         /\ ViewCoins' = [ViewCoins EXCEPT ![o] = Shown(v, TipCoins[o])]
<1> HAVE IInv
<1> TAKE o \in Outpoint, t \in MaybeEntry, v \in MaybeEntry
<1> HAVE /\ EntryOK(t, db[o])
         /\ Shown(t, db[o]) = TipCoins[o]
         /\ EntryOK(v, TipCoins[o])
         /\ OneEntryChange(o, t, v)
<1>1. /\ IInv'
      /\ \A p \in Outpoint : TipCoins'[p] = TipCoins[p]
      /\ \A p \in Outpoint : ViewCoins'[p] =
             IF p = o THEN Shown(v, TipCoins[o]) ELSE ViewCoins[p]
      /\ TipBest' = TipBest
      /\ ViewBest' = ViewBest
      /\ open' = open
  BY OneEntry
<1>2. TipCoins' = TipCoins
  BY <1>1, ViewsAreFunctions
<1>3. ViewCoins' = [ViewCoins EXCEPT ![o] = Shown(v, TipCoins[o])]
  BY <1>1, ViewsAreFunctions
<1>4. QED BY <1>1, <1>2, <1>3

\* Every step preserves the invariant and is a step of UtxoSet or a stutter.
LEMMA StepKeeps == IInv /\ [Next]_vars => IInv' /\ [Abstract!Next]_(Abstract!uvars)
<1> SUFFICES ASSUME IInv, [Next]_vars
             PROVE  IInv' /\ [Abstract!Next]_(Abstract!uvars)
  OBVIOUS
<1>0. TypeOK
  BY DEF IInv
<1>a. \A o \in Outpoint : /\ tip = [tip EXCEPT ![o] = tip[o]]
                          /\ view = [view EXCEPT ![o] = view[o]]
  BY <1>0 DEF TypeOK
<1>b. \A o \in Outpoint : ViewCoins = [ViewCoins EXCEPT ![o] = ViewCoins[o]]
  BY ViewsAreFunctions
<1>1. ASSUME NEW o \in Outpoint, TipGetCoin(o)
      PROVE  IInv' /\ UNCHANGED Abstract!uvars
  <2>1. OneEntryChange(o, LookupTip(tip[o], db[o]), view[o])
    BY <1>1, <1>a DEF TipGetCoin, SetTip, viewVars, OneEntryChange
  <2>2. QED BY <2>1, <1>b, PerOutpoint, LookupKeeps, OneEntryIsPut DEF Abstract!uvars
<1>2. ASSUME NEW o \in Outpoint, ViewGetCoin(o)
      PROVE  IInv' /\ UNCHANGED Abstract!uvars
  <2>1. OneEntryChange(o, TipAfterLookup(view[o], tip[o], db[o]),
                          LookupView(view[o], tip[o], db[o]))
    BY <1>2 DEF ViewGetCoin, SetTip, SetView, OneEntryChange
  <2>2. QED BY <2>1, <1>b, PerOutpoint, LookupKeeps, OneEntryIsPut DEF Abstract!uvars
<1>3. ASSUME NEW o \in Outpoint, ViewSpendCoin(o)
      PROVE  IInv' /\ Abstract!Next
  <2> DEFINE v == LookupView(view[o], tip[o], db[o])
  <2>1. /\ OneEntryChange(o, TipAfterLookup(view[o], tip[o], db[o]), SpendCoin(v))
        /\ open
    BY <1>3 DEF ViewSpendCoin, SetTip, SetView, OneEntryChange
  <2>2. /\ v \in MaybeEntry
        /\ EntryOK(v, TipCoins[o])
        /\ v = NoEntry => TipCoins[o] = Spent
        /\ TipCoins[o] \in MaybeCoin
    BY LookupKeeps, PerOutpoint
  <2> HIDE DEF v
  <2>3. /\ SpendCoin(v) \in MaybeEntry
        /\ EntryOK(SpendCoin(v), TipCoins[o])
        /\ Shown(SpendCoin(v), TipCoins[o]) = Spent
    BY <2>2, SpendKeeps
  <2>4. IInv' /\ Abstract!Put(o, Spent)
    BY ZenonT(40), <2>1, <2>3, LookupKeeps, OneEntryIsPut DEF Abstract!Put
  <2>5. QED BY <2>4 DEF Abstract!Next
<1>4. ASSUME NEW o \in Outpoint, Uncache(o)
      PROVE  IInv' /\ UNCHANGED Abstract!uvars
  <2>1. /\ OneEntryChange(o, NoEntry, view[o])
        /\ tip[o] # NoEntry
        /\ tip[o].flags = {}
    BY <1>4, <1>a DEF Uncache, SetTip, viewVars, OneEntryChange
  <2>2. tip[o].coin = db[o]
    BY <2>1, PerOutpoint DEF EntryOK
  <2>3. /\ NoEntry \in MaybeEntry
        /\ EntryOK(NoEntry, db[o])
        /\ Shown(NoEntry, db[o]) = TipCoins[o]
    BY <2>1, <2>2, PerOutpoint DEF MaybeEntry, EntryOK, Shown
  <2>4. QED BY <2>1, <2>3, <1>b, PerOutpoint, OneEntryIsPut DEF Abstract!uvars
<1>5. ASSUME NEW o \in Outpoint, NEW c \in Coin, ViewAddCoinChecked(o, c)
      PROVE  IInv' /\ Abstract!Next
  <2> DEFINE v == LookupView(view[o], tip[o], db[o])
             ow == v # NoEntry /\ v.coin # Spent
  <2>1. /\ OneEntryChange(o, TipAfterLookup(view[o], tip[o], db[o]), AddCoin(v, c, ow))
        /\ open
    BY <1>5 DEF ViewAddCoinChecked, SetTip, SetView, OneEntryChange
  <2>2. /\ v \in MaybeEntry
        /\ EntryOK(v, TipCoins[o])
        /\ v = NoEntry => TipCoins[o] = Spent
        /\ TipCoins[o] \in MaybeCoin
    BY LookupKeeps, PerOutpoint
  <2>3. ow \in BOOLEAN /\ (ow \/ Shown(v, TipCoins[o]) = Spent)
    BY <2>2 DEF Shown
  <2> HIDE DEF v, ow
  <2>4. /\ AddCoin(v, c, ow) \in MaybeEntry
        /\ EntryOK(AddCoin(v, c, ow), TipCoins[o])
        /\ Shown(AddCoin(v, c, ow), TipCoins[o]) = c
    BY <2>2, <2>3, AddKeeps DEF MaybeEntry
  <2>5. IInv' /\ Abstract!Put(o, c)
    BY ZenonT(40), <2>1, <2>4, LookupKeeps, OneEntryIsPut DEF Abstract!Put
  <2>6. QED BY <2>5 DEF Abstract!Next
<1>6. ASSUME NEW o \in Outpoint, NEW c \in Coin, NEW ow \in BOOLEAN,
             ViewAddCoin(o, c, ow)
      PROVE  IInv' /\ [Abstract!Next]_(Abstract!uvars)
  <2>1. ow \/ Shown(view[o], TipCoins[o]) = Spent
    BY <1>6, PerOutpoint DEF ViewAddCoin
  <2>2. /\ ~AddCoinThrows(view[o], ow)
        /\ AddCoin(view[o], c, ow) \in MaybeEntry
        /\ EntryOK(AddCoin(view[o], c, ow), TipCoins[o])
        /\ Shown(AddCoin(view[o], c, ow), TipCoins[o]) = c
    <3>1. /\ view[o] \in MaybeEntry
          /\ TipCoins[o] \in MaybeCoin
          /\ EntryOK(view[o], TipCoins[o])
      BY PerOutpoint
    <3>2. QED BY <2>1, <3>1, AddKeeps DEF MaybeEntry
  <2>3. open /\ logicError' = logicError
    BY <1>6, <2>2, <1>0 DEF ViewAddCoin, TypeOK
  <2>4. CASE c \in Unspendable
    <3>1. OneEntryChange(o, tip[o], view[o])
      BY <1>6, <2>3, <2>4, <1>a DEF ViewAddCoin, SetView, tipVars, OneEntryChange
    <3>2. QED BY <3>1, <1>b, PerOutpoint, OneEntryIsPut DEF Abstract!uvars
  <2>5. CASE c \notin Unspendable
    <3>1. OneEntryChange(o, tip[o], AddCoin(view[o], c, ow))
      BY ZenonT(40), <1>6, <2>2, <2>3, <2>5, <1>a DEF ViewAddCoin, SetView, tipVars, OneEntryChange
    <3>2. tip[o] \in MaybeEntry /\ EntryOK(tip[o], db[o]) /\ Shown(tip[o], db[o]) = TipCoins[o]
      BY PerOutpoint
    <3>3. /\ IInv'
          /\ UNCHANGED <<TipCoins, TipBest, open, ViewBest>>
          /\ ViewCoins' = [ViewCoins EXCEPT ![o] = c]
      BY <3>1, <3>2, <2>2, OneEntryIsPut
    <3>4. QED BY ZenonT(40), <3>3, <2>3 DEF Abstract!Put, Abstract!Next
  <2>6. QED BY <2>4, <2>5
<1>7. CASE TipGetBestBlock
  <2>1. UNCHANGED <<db, dbHash, tip, view, viewHash, open, logicError>>
    BY <1>7 DEF TipGetBestBlock, viewVars
  <2>2. tipHash' = TipBest /\ TipBest \in Block
    BY <1>7, <1>0 DEF TipGetBestBlock, TipBest, TypeOK
  <2>3. IInv'
    BY <2>1, <2>2 DEF IInv, TypeOK, LayersOK, NoLogicError
  <2>4. UNCHANGED Abstract!uvars
    BY <2>1, <2>2, CoinAssumption
    DEF Abstract!uvars, TipCoins, ViewCoins, TipBest, ViewBest
  <2>5. QED BY <2>3, <2>4
<1>8. CASE ViewGetBestBlock
  <2>1. UNCHANGED <<db, dbHash, tip, view, open, logicError>>
    BY <1>8 DEF ViewGetBestBlock
  <2>2. /\ tipHash' \in Block \cup {Null}
        /\ viewHash' \in Block
        /\ TipBest' = TipBest
        /\ ViewBest' = ViewBest
    BY <1>8, <1>0, CoinAssumption DEF ViewGetBestBlock, TipBest, ViewBest, TypeOK
  <2>3. IInv'
    BY <2>1, <2>2 DEF IInv, TypeOK, LayersOK, NoLogicError
  <2>4. UNCHANGED Abstract!uvars
    BY <2>1, <2>2 DEF Abstract!uvars, TipCoins, ViewCoins
  <2>5. QED BY <2>3, <2>4
<1>9. ASSUME NEW b \in Block, SetBestBlock(b)
      PROVE  IInv' /\ Abstract!Next
  <2>1. IInv'
    BY <1>9 DEF SetBestBlock, tipVars, IInv, TypeOK, LayersOK, NoLogicError
  <2>2. Abstract!Stamp(b)
    BY <1>9, CoinAssumption
    DEF SetBestBlock, tipVars, Abstract!Stamp, TipCoins, ViewCoins, TipBest, ViewBest
  <2>3. QED BY <2>1, <2>2 DEF Abstract!Next
<1>10. CASE OpenView
  <2>1. IInv'
    BY <1>10 DEF OpenView, tipVars, viewVars, IInv, TypeOK, LayersOK, NoLogicError
  <2>2. Abstract!Begin
    BY <1>10 DEF OpenView, tipVars, viewVars, Abstract!Begin, TipCoins, ViewCoins,
                 TipBest, ViewBest
  <2>3. QED BY <2>1, <2>2 DEF Abstract!Next
<1>11. CASE DropView
  <2>1. IInv'
    BY ZenonT(40), <1>11 DEF DropView, tipVars, IInv, TypeOK, LayersOK, NoLogicError, EmptyCache,
                 EntryOK
  <2>2. Abstract!Forget
    BY <1>11 DEF DropView, tipVars, Abstract!Forget, TipCoins, ViewCoins, TipBest,
                 ViewBest, EmptyCache, Shown
  <2>3. QED BY <2>1, <2>2 DEF Abstract!Next
<1>12. CASE FlushView
  <2>1. \A o \in Outpoint :
          /\ ~MergeThrows(view[o], tip[o])
          /\ MergeEntry(view[o], tip[o]) \in MaybeEntry
          /\ EntryOK(MergeEntry(view[o], tip[o]), db[o])
          /\ Shown(MergeEntry(view[o], tip[o]), db[o]) = ViewCoins[o]
    BY PerOutpoint, MergeKeeps
  <2>2. /\ open /\ ~open'
        /\ viewHash # Null
        /\ tip' = [o \in Outpoint |-> MergeEntry(view[o], tip[o])]
        /\ view' = EmptyCache
        /\ tipHash' = viewHash /\ viewHash' = Null
        /\ UNCHANGED <<db, dbHash, logicError>>
    BY ZenonT(40), <1>12, <2>1 DEF FlushView
  <2>3. \A o \in Outpoint : /\ EntryOK(tip'[o], db[o])
                            /\ Shown(tip'[o], db[o]) = ViewCoins[o]
                            /\ tip'[o] \in MaybeEntry
                            /\ view'[o] = NoEntry
    BY <2>1, <2>2 DEF EmptyCache
  <2>4. TypeOK'
    BY <2>2, <2>3, <1>0, <1>12 DEF TypeOK, MaybeEntry, EmptyCache, FlushView
  <2>5. LayersOK'
    BY <2>2, <2>3 DEF LayersOK, EntryOK
  <2>6. TipCoins' = ViewCoins /\ ViewCoins' = ViewCoins
    <3>1. TipCoins' = [o \in Outpoint |-> ViewCoins[o]]
      BY <2>2, <2>3 DEF TipCoins
    <3>2. ViewCoins' = [o \in Outpoint |-> TipCoins'[o]]
      BY <2>3 DEF ViewCoins, Shown
    <3>3. QED BY <3>1, <3>2, ViewsAreFunctions
  <2>7. TipBest' = ViewBest /\ ViewBest' = ViewBest
    BY <2>2 DEF TipBest, ViewBest
  <2>8. open' = FALSE
    BY <1>12, <2>1 DEF FlushView
  <2>9. IInv' /\ Abstract!Commit
    BY <2>2, <2>4, <2>5, <2>6, <2>7, <2>8 DEF IInv, NoLogicError, Abstract!Commit
  <2>10. QED BY <2>9 DEF Abstract!Next
<1>13. CASE FlushTip
  <2>1. /\ tip' = EmptyCache
        /\ tipHash # Null
        /\ tipHash' = tipHash /\ dbHash' = tipHash
        /\ db' = [o \in Outpoint |-> WriteEntry(tip[o], db[o])]
        /\ UNCHANGED <<view, viewHash, open, logicError>>
    BY <1>13 DEF FlushTip, viewVars
  <2>2. \A o \in Outpoint : /\ db'[o] = TipCoins[o]
                            /\ db'[o] \in MaybeCoin
                            /\ tip'[o] = NoEntry
    BY <2>1, PerOutpoint, WriteKeeps DEF EmptyCache
  <2>3. TypeOK'
    BY <2>1, <2>2, <1>0 DEF TypeOK, MaybeCoin, EmptyCache
  <2>4. \A o \in Outpoint : Shown(tip'[o], db'[o]) = TipCoins[o]
    BY <2>2 DEF Shown
  <2>5. LayersOK'
    BY <2>1, <2>2, <2>4, PerOutpoint DEF LayersOK, EntryOK
  <2>6. TipCoins' = TipCoins
    <3>1. TipCoins' = [o \in Outpoint |-> TipCoins[o]]
      BY <2>4 DEF TipCoins
    <3>2. QED BY <3>1, ViewsAreFunctions
  <2>7. ViewCoins' = ViewCoins
    BY <2>1, <2>6 DEF ViewCoins
  <2>8. TipBest' = TipBest /\ ViewBest' = ViewBest
    BY <2>1 DEF TipBest, ViewBest
  <2>9. QED BY <2>1, <2>3, <2>5, <2>6, <2>7, <2>8 DEF IInv, NoLogicError, Abstract!uvars
<1>14. CASE UNCHANGED vars
  <2>1. UNCHANGED <<db, dbHash, tip, tipHash, view, viewHash, open, logicError>>
    BY <1>14 DEF vars
  <2>2. IInv'
    BY <2>1 DEF IInv, TypeOK, LayersOK, NoLogicError
  <2>3. UNCHANGED Abstract!uvars
    BY <2>1 DEF Abstract!uvars, TipCoins, ViewCoins, TipBest, ViewBest
  <2>4. QED BY <2>2, <2>3
<1>15. QED
  BY <1>1, <1>2, <1>3, <1>4, <1>5, <1>6, <1>7, <1>8, <1>9, <1>10, <1>11, <1>12, <1>13,
     <1>14 DEF Next

\* The initial state satisfies the invariant and is an initial state of UtxoSet.
LEMMA InitKeeps == Init => IInv /\ Abstract!Init
<1> SUFFICES ASSUME Init PROVE IInv /\ Abstract!Init
  OBVIOUS
<1>1. \A o \in Outpoint : tip[o] = NoEntry /\ view[o] = NoEntry
  BY DEF Init, EmptyCache
<1>2. IInv
  BY ZenonT(40), <1>1, CoinAssumption
  DEF Init, EmptyCache, IInv, TypeOK, LayersOK, EntryOK, NoLogicError
<1>3. TipCoins = db /\ ViewCoins = db
  <2>1. db = [o \in Outpoint |-> db[o]]
    BY DEF Init
  <2>2. TipCoins = [o \in Outpoint |-> db[o]]
    BY <1>1 DEF TipCoins, Shown
  <2>3. ViewCoins = [o \in Outpoint |-> TipCoins[o]]
    BY <1>1 DEF ViewCoins, Shown
  <2>4. QED BY <2>1, <2>2, <2>3, ViewsAreFunctions
<1>4. Abstract!Init
  BY <1>3, CoinAssumption DEF Init, Abstract!Init, TipBest, ViewBest
<1>5. QED BY <1>2, <1>4

\* The inductive invariant holds in every reachable state.
THEOREM Invariance == Spec => []IInv
<1>1. Init => IInv
  BY InitKeeps
<1>2. IInv /\ [Next]_vars => IInv'
  BY StepKeeps
<1>3. QED BY <1>1, <1>2, PTL DEF Spec

\* The flags of every entry of every cache tell the truth about its parent, and
\* neither logic_error of coins.cpp is ever thrown.
THEOREM CacheConsistent ==
  Spec => [](TypeOK /\ FlagsSound /\ NoLogicError)
<1>1. IInv => TypeOK /\ FlagsSound /\ NoLogicError
  BY LayersOKIsTheInvariants DEF IInv
<1>2. QED BY <1>1, Invariance, PTL

\* No fetch, uncaching, write-back or abandoned view changes what pcoinsTip
\* shows: only FlushView, the commit of a block's view, does.
THEOREM TipChangesByFlushView == Spec => OnlyFlushViewChangesTip
<1>1. IInv /\ [Next]_vars
        => [TipCoins' # TipCoins \/ TipBest' # TipBest => open /\ ~open']_vars
  <2> SUFFICES ASSUME IInv, [Next]_vars
               PROVE  TipCoins' # TipCoins \/ TipBest' # TipBest => open /\ ~open'
    OBVIOUS
  <2>1. [Abstract!Next]_(Abstract!uvars)
    BY StepKeeps
  <2>2. QED
    BY <2>1 DEF Abstract!Next, Abstract!uvars, Abstract!Begin, Abstract!Put,
                Abstract!Stamp, Abstract!Commit, Abstract!Forget
<1>2. QED BY <1>1, Invariance, PTL DEF Spec, OnlyFlushViewChangesTip

\* The caches and the database together behave as one set of unspent outputs
\* with a scratch copy: view, pcoinsTip and disk never lose, invent or resurrect
\* a coin, whatever is fetched, uncached, flushed or dropped in between.
THEOREM Refinement == Spec => ImplementsUtxoSet
<1>1. Init => Abstract!Init
  BY InitKeeps
<1>2. IInv /\ [Next]_vars => [Abstract!Next]_(Abstract!uvars)
  BY StepKeeps
<1>3. QED BY <1>1, <1>2, Invariance, PTL DEF Spec, ImplementsUtxoSet, Abstract!Spec
=============================================================================
