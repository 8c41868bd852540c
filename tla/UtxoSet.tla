------------------------------ MODULE UtxoSet ------------------------------
(***************************************************************************)
(* What a stack of coin views promises its users: one set of unspent       *)
(* outputs with the block it belongs to, and at most one scratch copy of   *)
(* it on which a block is tried out (coins.h, class CCoinsView and the     *)
(* comments on CCoinsViewCache).  The scratch copy is committed as a whole *)
(* or forgotten as a whole.  No cache, no flag and no database appears     *)
(* here; CoinsCache is shown to implement this module.                     *)
(***************************************************************************)
CONSTANTS Outpoint, Coin, Spent, Block

VARIABLES utxo,      \* outpoint -> the coin it holds, or Spent
          best,      \* the block whose effects utxo contains
          open,      \* whether a scratch copy exists
          work,      \* the scratch copy
          workBest   \* the block the scratch copy stands for

uvars == <<utxo, best, open, work, workBest>>

Init ==
  /\ utxo \in [Outpoint -> Coin \cup {Spent}]
  /\ best \in Block
  /\ open = FALSE
  /\ work = utxo
  /\ workBest = best

Begin ==
  /\ ~open
  /\ open' = TRUE
  /\ UNCHANGED <<utxo, best, work, workBest>>

Put(o, c) ==
  /\ open
  /\ work' = [work EXCEPT ![o] = c]
  /\ UNCHANGED <<utxo, best, open, workBest>>

Stamp(b) ==
  /\ open
  /\ workBest' = b
  /\ UNCHANGED <<utxo, best, open, work>>

Commit ==
  /\ open
  /\ utxo' = work
  /\ best' = workBest
  /\ open' = FALSE
  /\ UNCHANGED <<work, workBest>>

Forget ==
  /\ open
  /\ work' = utxo
  /\ workBest' = best
  /\ open' = FALSE
  /\ UNCHANGED <<utxo, best>>

Next ==
  \/ Begin
  \/ \E o \in Outpoint, c \in Coin \cup {Spent} : Put(o, c)
  \/ \E b \in Block : Stamp(b)
  \/ Commit
  \/ Forget

Spec == Init /\ [][Next]_uvars
=============================================================================
