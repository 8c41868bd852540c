------------------------------ MODULE AddrMan ------------------------------
(***************************************************************************)
(* The address manager (addrman.h, addrman.cpp) and peers.dat (addrdb.cpp):*)
(* addresses not yet tried sit in the "new" table, each in one or more     *)
(* buckets, and addresses that answered sit in the "tried" table, each in  *)
(* one slot.  mapInfo, mapAddr, vRandom, nNew and nTried index the same    *)
(* entries and every operation has to keep them in step.                   *)
(*                                                                         *)
(* Every operation holds cs and is one action.  Where an address goes is   *)
(* decided by hashes keyed with nKey; they are functions of the world.     *)
(* The times, services and attempts of an entry only decide whether it is  *)
(* terrible, whether an announcement brings new information and the chance *)
(* of being selected: those are free choices here, so Attempt_, Connected_ *)
(* and SetServices_, which change nothing else, are not actions.           *)
(*                                                                         *)
(* peers.dat is replaced by rename, so a crash at any time leaves the last *)
(* complete dump, and the next start reads it, possibly by a program with  *)
(* another number of buckets.  Positions in vRandom count from 1.          *)
(***************************************************************************)
EXTENDS Integers, Sequences, FiniteSets, SequencesExt

CONSTANTS
  Addr,      \* the services: address and port
  Source,    \* where the knowledge of an address comes from
  Bucket,    \* the buckets of the new table
  Pos,       \* the positions in a bucket
  Tried,     \* the slots of the tried table: its buckets and positions
  Free,      \* the -1 of an empty slot
  ADDRMAN_NEW_BUCKETS_PER_ADDRESS, ADDRMAN_GETADDR_MAX_PCT,
  Worlds     \* hash functions and what happens to the file

ASSUME AddrManAssumption ==
  /\ IsFiniteSet(Addr) /\ IsFiniteSet(Bucket) /\ IsFiniteSet(Pos)
  /\ Free \notin Nat
  /\ ADDRMAN_NEW_BUCKETS_PER_ADDRESS \in Nat \ {0}
  /\ ADDRMAN_GETADDR_MAX_PCT \in 1 .. 100

VARIABLES
  am,      \* CAddrMan; build: which program runs (their numbers of new
           \* buckets differ); ok: no assertion has failed
  file,    \* peers.dat
  dumped,  \* history: the tables when peers.dat was written
  world    \* ip: the address of each service, without the port;
           \* hash[build][key]: newBucket, newPos, triedSlot;
           \* first: the first program, upgrade: the programs that may replace
           \* it; short: a file of right checksum may lack entries; addrs: the
           \* services announced; maxId: a bound on nIdCount; dumps: the file
           \* is written

vars == <<am, file, dumped, world>>

Slot == Bucket \X Pos

NewSlot(m, a, src) ==
  LET h == world.hash[m.build][m.key]
      b == h.newBucket[a][src]
  IN <<b, h.newPos[a][b]>>
TriedSlot(m, a) == world.hash[m.build][m.key].triedSlot[a]
NewPos(m, a, b) == world.hash[m.build][m.key].newPos[a][b]

----------------------------------------------------------------------------
(* The private operations, from manager to manager.                        *)

\* A failed assertion ends the program: nothing after it happens.
Assert_(m, cond, then) == IF m.ok /\ cond THEN then ELSE [m EXCEPT !.ok = FALSE]

Drop(f, x) == [y \in DOMAIN f \ {x} |-> f[y]]
Put(f, x, v) == [y \in DOMAIN f \cup {x} |-> IF y = x THEN v ELSE f[y]]

Find(m, a) ==
  LET p == world.ip[a]
  IN IF p \in DOMAIN m.mapAddr /\ m.mapAddr[p] \in DOMAIN m.mapInfo
     THEN m.mapAddr[p] ELSE Free

Info(a, src) == [addr |-> a, source |-> src, nRefCount |-> 0, fInTried |-> FALSE,
                 nRandomPos |-> -1]

Create(m, a, src) ==
  [m EXCEPT !.nIdCount = @ + 1,
            !.mapInfo = Put(@, m.nIdCount,
               [Info(a, src) EXCEPT !.nRandomPos = Len(m.vRandom) + 1]),
            !.mapAddr = Put(@, world.ip[a], m.nIdCount),
            !.vRandom = Append(@, m.nIdCount)]

SwapRandom(m, i, j) ==
  IF i = j THEN m
  ELSE Assert_(m, /\ {i, j} \subseteq DOMAIN m.vRandom
                  /\ {m.vRandom[i], m.vRandom[j]} \subseteq DOMAIN m.mapInfo,
         [m EXCEPT !.mapInfo[m.vRandom[i]].nRandomPos = j,
                   !.mapInfo[m.vRandom[j]].nRandomPos = i,
                   !.vRandom[i] = m.vRandom[j], !.vRandom[j] = m.vRandom[i]])

\* SwapRandom, pop_back and the erasures.
Erased(m, id) ==
  IF ~m.ok THEN m
  ELSE [m EXCEPT !.vRandom = SubSeq(@, 1, Len(@) - 1),
                 !.mapAddr = Drop(@, world.ip[m.mapInfo[id].addr]),
                 !.mapInfo = Drop(@, id),
                 !.nNew = @ - 1]

\* Mutant of Delete: the order is cut without moving the entry to its end.
DeleteUnswapped(m, id) ==
  Assert_(m, /\ id \in DOMAIN m.mapInfo
             /\ ~m.mapInfo[id].fInTried /\ m.mapInfo[id].nRefCount = 0,
          Erased(m, id))

Delete(m, id) ==
  Assert_(m, /\ id \in DOMAIN m.mapInfo
             /\ ~m.mapInfo[id].fInTried /\ m.mapInfo[id].nRefCount = 0,
          Erased(SwapRandom(m, m.mapInfo[id].nRandomPos, Len(m.vRandom)), id))

ClearNew(m, s) ==
  LET id == m.vvNew[s]
      left == [m EXCEPT !.mapInfo[id].nRefCount = @ - 1, !.vvNew[s] = Free]
  IN IF id = Free THEN m
     ELSE Assert_(m, id \in DOMAIN m.mapInfo /\ m.mapInfo[id].nRefCount > 0,
            IF left.mapInfo[id].nRefCount = 0 THEN Delete(left, id) ELSE left)

\* The entry takes the slot of the new table, after ClearNew.
Enter(m, s, id) ==
  IF ~m.ok THEN m
  ELSE [m EXCEPT !.vvNew[s] = id, !.mapInfo[id].nRefCount = @ + 1]

----------------------------------------------------------------------------
(* Add_ and Good_.                                                         *)

Place(m, id, src, terrible) ==
  LET s == NewSlot(m, m.mapInfo[id].addr, src)
      at == m.vvNew[s]
      overwrite == \/ at = Free
                   \/ terrible
                   \/ (m.mapInfo[at].nRefCount > 1 /\ m.mapInfo[id].nRefCount = 0)
  IN IF at = id THEN m
     ELSE IF overwrite THEN Enter(ClearNew(m, s), s, id)
     ELSE IF m.mapInfo[id].nRefCount = 0 THEN Delete(m, id)
     ELSE m

\* update: the announcement brings new information and the stochastic test, if it is
\* made, succeeds; terrible: IsTerrible of the entry that has the slot.
Add_(m, a, src, update, terrible) ==
  LET id == Find(m, a)
  IN IF id = Free
     THEN Place([Create(m, a, src) EXCEPT !.nNew = @ + 1], m.nIdCount, src, terrible)
     ELSE IF \/ ~update \/ m.mapInfo[id].fInTried
             \/ m.mapInfo[id].nRefCount = ADDRMAN_NEW_BUCKETS_PER_ADDRESS
          THEN m ELSE Place(m, id, src, terrible)

\* The entry leaves every bucket of the new table.
LeaveNew(m, id) ==
  LET mine == {s \in Slot : /\ m.vvNew[s] = id
                            /\ s[2] = NewPos(m, m.mapInfo[id].addr, s[1])}
  IN [m EXCEPT !.vvNew = [s \in Slot |-> IF s \in mine THEN Free ELSE @[s]],
               !.mapInfo[id].nRefCount = @ - Cardinality(mine),
               !.nNew = @ - 1]

\* Mutant of Evict: the displaced entry is dropped if its slot is taken.
EvictLost(m, k) ==
  LET old == m.vvTried[k]
  IN IF old = Free THEN m
     ELSE Assert_(m, old \in DOMAIN m.mapInfo,
            LET n == [m EXCEPT !.mapInfo[old].fInTried = FALSE, !.vvTried[k] = Free,
                               !.nTried = @ - 1]
                s == NewSlot(m, m.mapInfo[old].addr, m.mapInfo[old].source)
            IN IF m.vvNew[s] # Free THEN Delete([n EXCEPT !.nNew = @ + 1], old)
               ELSE [Enter(n, s, old) EXCEPT !.nNew = @ + 1])

\* What is in the tried slot goes back to the new table, under its own source.
Evict(m, k) ==
  LET old == m.vvTried[k]
  IN IF old = Free THEN m
     ELSE Assert_(m, old \in DOMAIN m.mapInfo,
            LET n == [m EXCEPT !.mapInfo[old].fInTried = FALSE, !.vvTried[k] = Free,
                               !.nTried = @ - 1]
                s == NewSlot(m, m.mapInfo[old].addr, m.mapInfo[old].source)
                c == ClearNew(n, s)
            IN IF ~c.ok THEN c
               ELSE [c EXCEPT !.vvNew[s] = old, !.mapInfo[old].nRefCount = 1,
                              !.nNew = @ + 1])

MakeTried(m, id) ==
  LET n == LeaveNew(m, id)
      k == TriedSlot(m, m.mapInfo[id].addr)
      e == Evict(n, k)
  IN Assert_(n, n.mapInfo[id].nRefCount = 0,
       IF ~e.ok THEN e
       ELSE [e EXCEPT !.vvTried[k] = id, !.nTried = @ + 1,
                      !.mapInfo[id].fInTried = TRUE])

Good_(m, a) ==
  LET id == Find(m, a)
  IN IF \/ id = Free
        \/ m.mapInfo[id].addr # a        \* another port
        \/ m.mapInfo[id].fInTried
        \/ \A b \in Bucket : m.vvNew[<<b, NewPos(m, a, b)>>] # id
     THEN m ELSE MakeTried(m, id)

\* The swaps at 1 .. Len(to), each with a position not before it.
Shuffled(m, to) == FoldLeft(LAMBDA n, i : SwapRandom(n, i, to[i]), m,
                            [i \in 1 .. Len(to) |-> i])

----------------------------------------------------------------------------
(* peers.dat.                                                              *)

Sorted(S) == SetToSortSeq(S, <)
Entry(m, id) == [addr |-> m.mapInfo[id].addr, source |-> m.mapInfo[id].source]

\* The entries of the new table and then those of the tried one, each in the
\* order of their ids, and for each bucket the numbers of its entries.
Serialize(m) ==
  LET new == Sorted({id \in DOMAIN m.mapInfo : m.mapInfo[id].nRefCount # 0})
      tried == Sorted({id \in DOMAIN m.mapInfo : m.mapInfo[id].fInTried})
      Number(id) == CHOOSE n \in DOMAIN new : new[n] = id
  IN [key |-> m.key, build |-> m.build, nNew |-> m.nNew, nTried |-> m.nTried,
      entries |-> [n \in DOMAIN (new \o tried) |-> Entry(m, (new \o tried)[n])],
      buckets |-> {<<s[1], Number(m.vvNew[s])>> : s \in {t \in Slot : m.vvNew[t] # Free}}]
SerializeAsserts(m) ==
  /\ Cardinality({id \in DOMAIN m.mapInfo : m.mapInfo[id].nRefCount # 0}) <= m.nNew
  /\ Cardinality({id \in DOMAIN m.mapInfo : m.mapInfo[id].fInTried}) <= m.nTried

\* What Clear resets; the members it does not mention stay.
Clear(m, key) ==
  [m EXCEPT !.vRandom = <<>>, !.vvNew = [s \in Slot |-> Free],
            !.vvTried = [k \in Tried |-> Free], !.nIdCount = 0,
            !.nNew = 0, !.nTried = 0, !.key = key]

Constructed(b, key) ==
  Clear([mapInfo |-> <<>>, mapAddr |-> <<>>, vRandom |-> <<>>, vvNew |-> <<>>,
         vvTried |-> <<>>, nNew |-> 0, nTried |-> 0, nIdCount |-> 0, key |-> key,
         build |-> b, ok |-> TRUE], key)

\* One entry of the new table; without usable positions it is placed by its source.
ReadNew(m, f, n) ==
  LET e == f.entries[n]
      s == NewSlot(m, e.addr, e.source)
      place == f.build # m.build /\ m.vvNew[s] = Free
      info == [Info(e.addr, e.source) EXCEPT !.nRandomPos = Len(m.vRandom) + 1,
                                             !.nRefCount = IF place THEN 1 ELSE 0]
  IN [m EXCEPT !.mapInfo = Put(@, n - 1, info),
               !.mapAddr = Put(@, world.ip[e.addr], n - 1),
               !.vRandom = Append(@, n - 1),
               !.vvNew[s] = IF place THEN n - 1 ELSE @,
               !.nIdCount = n]

\* One entry of the tried table, lost when its slot is taken.
ReadTried(m, f, n) ==
  LET e == f.entries[n]
      k == TriedSlot(m, e.addr)
      info == [Info(e.addr, e.source) EXCEPT !.nRandomPos = Len(m.vRandom) + 1,
                                             !.fInTried = TRUE]
  IN IF m.vvTried[k] # Free THEN [m EXCEPT !.nTried = @ - 1]
     ELSE [m EXCEPT !.mapInfo = Put(@, m.nIdCount, info),
                    !.mapAddr = Put(@, world.ip[e.addr], m.nIdCount),
                    !.vRandom = Append(@, m.nIdCount),
                    !.vvTried[k] = m.nIdCount,
                    !.nIdCount = @ + 1]

ReadEntry(m, f, n) == IF n <= f.nNew THEN ReadNew(m, f, n) ELSE ReadTried(m, f, n)


\* One number of a bucket.
ReadPosition(m, f, bn) ==
  LET id == bn[2] - 1
      s == <<bn[1], NewPos(m, m.mapInfo[id].addr, bn[1])>>
  IN IF /\ id < m.nNew /\ f.build = m.build /\ m.vvNew[s] = Free
        /\ m.mapInfo[id].nRefCount < ADDRMAN_NEW_BUCKETS_PER_ADDRESS
     THEN Enter(m, s, id) ELSE m

Prune(m) ==
  FoldLeft(Delete, m, Sorted({id \in DOMAIN m.mapInfo :
             ~m.mapInfo[id].fInTried /\ m.mapInfo[id].nRefCount = 0}))

\* The header and the first n entries of the file.
Read(m, f, n) ==
  LET header == [Clear(m, f.key) EXCEPT !.nNew = f.nNew, !.nTried = f.nTried]
  IN FoldLeft(LAMBDA r, i : ReadEntry(r, f, i), header, [i \in 1 .. n |-> i])

Unserialize(m, f) ==
  Prune(FoldLeft(LAMBDA r, bn : ReadPosition(r, f, bn), Read(m, f, f.nNew + f.nTried),
                 SetToSeq(f.buckets)))

----------------------------------------------------------------------------
Name(m, id) == IF id = Free THEN Free ELSE m.mapInfo[id].addr
View(m) == [new |-> [s \in Slot |-> Name(m, m.vvNew[s])],
            tried |-> [k \in Tried |-> Name(m, m.vvTried[k])]]

Init ==
  /\ world \in Worlds
  /\ \E key \in DOMAIN world.hash[world.first] : am = Constructed(world.first, key)
  /\ file = Serialize(am) /\ dumped = View(am)

Add(a, src) ==
  /\ am.ok /\ (Find(am, a) # Free \/ am.nIdCount < world.maxId)
  /\ \E update, terrible \in BOOLEAN : am' = Add_(am, a, src, update, terrible)
  /\ UNCHANGED <<file, dumped, world>>

Good(a) ==
  /\ am.ok
  /\ am' = Good_(am, a)
  /\ UNCHANGED <<file, dumped, world>>

\* A terrible address is passed over, so any number of swaps from nNodes up.
GetAddr ==
  LET size == Len(am.vRandom)
      nNodes == (ADDRMAN_GETADDR_MAX_PCT * size) \div 100
  IN /\ am.ok /\ nNodes > 0
     /\ \E k \in nNodes .. size : \E to \in [1 .. k -> 1 .. size] :
          /\ \A i \in 1 .. k : to[i] >= i
          /\ am' = Shuffled(am, to)
     /\ UNCHANGED <<file, dumped, world>>

\* m is written to peers.dat.
Dump(m) ==
  /\ am' = Assert_(m, SerializeAsserts(m), m)
  /\ file' = IF am'.ok THEN Serialize(m) ELSE file
  /\ dumped' = IF am'.ok THEN View(m) ELSE dumped

DumpAddresses ==
  /\ am.ok /\ world.dumps
  /\ Dump(am)
  /\ UNCHANGED world

\* The process ends, at any time, and program b starts on the file.
Start(b) ==
  /\ b = am.build \/ b \in world.upgrade
  /\ \E key \in DOMAIN world.hash[b] : am' = Unserialize(Constructed(b, key), file)
  /\ UNCHANGED <<file, dumped, world>>

\* The same, and the file is missing or damaged (n is 0), or ends after n entries:
\* Read and then CConnman::Start clear the manager and write it.
StartFails(b, n) ==
  /\ b = am.build \/ b \in world.upgrade
  /\ n = 0 \/ (world.short /\ n < Len(file.entries))
  /\ \E key \in DOMAIN world.hash[b] :
       Dump(Clear(Read(Constructed(b, key), file, n), key))
  /\ UNCHANGED world

Next ==
  \/ \E a \in world.addrs, src \in Source : Add(a, src)
  \/ \E a \in world.addrs : Good(a)
  \/ GetAddr
  \/ DumpAddresses
  \/ \E b \in DOMAIN world.hash : Start(b)
  \/ \E b \in DOMAIN world.hash, n \in 0 .. Len(file.entries) : StartFails(b, n)

Spec == Init /\ [][Next]_vars

----------------------------------------------------------------------------
\* No assertion of addrman.h and addrman.cpp fails, in any order of operations,
\* dumps, crashes and starts; Serialize's own say that nNew and nTried are right.
NoAssertFails == am.ok

\* What Check_ verifies after every operation of a debugging build: the two tables,
\* the counters, the index by address and the random order describe the same
\* entries, and every entry sits where the hashes put it.  Select_ relies on it:
\* its search ends only if a table whose counter is positive has an entry.
TablesConsistent ==
  /\ NoAssertFails
  /\ LET new == {id \in DOMAIN am.mapInfo : ~am.mapInfo[id].fInTried}
         tried == DOMAIN am.mapInfo \ new
         at(id) == {s \in Slot : am.vvNew[s] = id}
     IN /\ am.nNew = Cardinality(new) /\ am.nTried = Cardinality(tried)
        /\ Len(am.vRandom) = am.nNew + am.nTried
        /\ {am.vvNew[s] : s \in Slot} \subseteq new \cup {Free}
        /\ {am.vvTried[k] : k \in Tried} \subseteq tried \cup {Free}
        /\ \A id \in DOMAIN am.mapInfo :
             LET info == am.mapInfo[id]
             IN /\ info.nRefCount = Cardinality(at(id))
                /\ IF info.fInTried
                   THEN {k \in Tried : am.vvTried[k] = id} = {TriedSlot(am, info.addr)}
                        /\ info.nRefCount = 0
                   ELSE info.nRefCount \in 1 .. ADDRMAN_NEW_BUCKETS_PER_ADDRESS
                /\ \A s \in at(id) : s[2] = NewPos(am, info.addr, s[1])
                /\ am.mapAddr[world.ip[info.addr]] = id
                /\ info.nRandomPos \in DOMAIN am.vRandom
                /\ am.vRandom[info.nRandomPos] = id

Known(m) == {m.mapInfo[id].addr : id \in DOMAIN m.mapInfo}
TriedAddrs(m) == {m.mapInfo[id].addr : id \in {i \in DOMAIN m.mapInfo : m.mapInfo[i].fInTried}}
Starts == \E b \in DOMAIN world.hash :
            Start(b) \/ \E n \in 0 .. Len(file.entries) : StartFails(b, n)

\* While the program runs, an address that has been tried is never forgotten in the
\* step in which it leaves the tried table: whoever displaces it, it is in the new
\* table afterwards, at the price of an address that was never tried.
TriedIsKept == [][TriedAddrs(am) \subseteq Known(am') \/ Starts]_vars

=============================================================================
