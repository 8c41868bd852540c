--------------------------- MODULE MC_Chainstate ---------------------------
(***************************************************************************)
(* Chainstate on a tree of two branches of two blocks over a common block. *)
(* Branch a spends p in a transaction with output t and then t; branch b   *)
(* holds the same transaction one block later, so t exists at two heights, *)
(* and creates and spends r within a block.  Block x spends p a second     *)
(* time and never connects.                                                *)
(***************************************************************************)
EXTENDS Chainstate

CONSTANTS g, c, a1, a2, b1, b2, x, p, t, q, r

MCBlock == {g, c, a1, a2, b1, b2, x}
MCParent == [b \in MCBlock \ {g} |->
  CASE b = c -> g [] b \in {a1, b1} -> c [] b \in {a2, x} -> a1 [] b = b2 -> b1]
MCOutpoint == {p, t, q, r}
MCCreates == [b \in MCBlock |->
  CASE b = c -> {p} [] b = a1 -> {t} [] b = b1 -> {q} [] b = b2 -> {t, r} [] OTHER -> {}]
MCSpends == [b \in MCBlock |->
  CASE b = a1 -> {p} [] b = a2 -> {t} [] b = b2 -> {p, r} [] b = x -> {p} [] OTHER -> {}]

MCAncestors[b \in MCBlock] == IF b = g THEN {g} ELSE {b} \cup MCAncestors[MCParent[b]]

MCApply(coins, b) ==
  [o \in MCOutpoint |-> IF o \in MCSpends[b] THEN Spent
                        ELSE IF o \in MCCreates[b] THEN b ELSE coins[o]]
MCUtxoAt[b \in MCBlock] ==
  IF b = g THEN [o \in MCOutpoint |-> Spent] ELSE MCApply(MCUtxoAt[MCParent[b]], b)
=============================================================================
