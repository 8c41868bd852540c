---------------------------- MODULE MC_AddrMan ----------------------------
(***************************************************************************)
(* AddrMan on three addresses, two sources, two buckets and few positions, *)
(* with hash functions chosen so that entries meet in both tables.         *)
(***************************************************************************)
EXTENDS AddrMan, TLC

CONSTANTS a1, a2, a3, s1, s2

\* Two buckets of one position; a1 and a2 share a tried slot.
Crowded ==
  [newBucket |-> a1 :> (s1 :> 0 @@ s2 :> 1) @@ a2 :> (s1 :> 0 @@ s2 :> 1)
                 @@ a3 :> (s1 :> 1 @@ s2 :> 0),
   newPos |-> [a \in Addr |-> [b \in Bucket |-> 0]],
   triedSlot |-> (a1 :> 0 @@ a2 :> 0 @@ a3 :> 1)]

\* Room for every address in the new table, one slot for all in the tried one.
Roomy ==
  [newBucket |-> a1 :> (s1 :> 0 @@ s2 :> 1) @@ a2 :> (s1 :> 0 @@ s2 :> 0)
                 @@ a3 :> (s1 :> 1 @@ s2 :> 1),
   newPos |-> [a \in Addr |-> [b \in Bucket |-> IF a = a2 THEN 1 ELSE 0]],
   triedSlot |-> [a \in Addr |-> 0]]

\* A program with one new bucket.
OneBucket ==
  [newBucket |-> [a \in Addr |-> [s \in Source |-> 0]],
   newPos |-> [a \in Addr |-> [b \in Bucket |-> IF a = a3 THEN 1 ELSE 0]],
   triedSlot |-> (a1 :> 1 @@ a2 :> 0 @@ a3 :> 0)]

Distinct == [a \in Addr |-> a]
World(ip, hash, first, addrs, maxId) ==
  [ip |-> ip, hash |-> hash, first |-> first, upgrade |-> {}, short |-> FALSE,
   addrs |-> addrs, maxId |-> maxId, dumps |-> FALSE]

MCWorlds == {
  \* operations only
  World(Distinct, "now" :> ("k" :> Crowded), "now", Addr, 5),
  \* two services of one address, and a key that is replaced with the file
  [World([Distinct EXCEPT ![a3] = a2], "now" :> ("k" :> Crowded @@ "l" :> Roomy), "now", Addr, 3)
     EXCEPT !.dumps = TRUE],
  \* the file is read by the same program and by one with another bucket count
  [World(Distinct, "old" :> ("k" :> Roomy) @@ "now" :> ("k" :> OneBucket), "old", Addr, 3)
     EXCEPT !.dumps = TRUE, !.upgrade = {"now"}]}

ShortWorlds == {[World(Distinct, "now" :> ("k" :> Crowded), "now", Addr, 4)
                   EXCEPT !.dumps = TRUE, !.short = TRUE]}
=============================================================================
