----------------------------- MODULE MC_Mempool -----------------------------
(***************************************************************************)
(* Mempool on a chain of up to three blocks.  t2 spends t1, t3 both (a     *)
(* diamond); x conflicts with both, and y and z are below x; s spends the  *)
(* coinbase of the first block; t3 is final from the second block on.  The *)
(* last block turns replay protection on.                                  *)
(***************************************************************************)
EXTENDS Mempool

CONSTANTS g, ca, cb, cd, ce, cf, t1, t2, t3, x, y, z, s

MCCoinbase == {ca, cb, cd, ce, cf}
MCTx == MCCoinbase \cup {t1, t2, t3, x, y, z, s}
MCOut == {0, 1}
MCBase == {<<g, 0>>, <<g, 1>>}
MCVin == [t \in MCTx |->
  CASE t = t1 -> <<<<g, 0>>>>
    [] t = t2 -> <<<<t1, 0>>>>
    [] t = t3 -> <<<<t1, 1>>, <<t2, 0>>>>
    [] t = x -> <<<<t1, 1>>, <<t1, 0>>>>
    [] t = y -> <<<<x, 0>>, <<g, 1>>>>
    [] t = z -> <<<<y, 0>>, <<x, 1>>>>
    [] t = s -> <<<<ca, 0>>>>
    [] OTHER -> <<>>]
MCFee == [t \in MCTx |-> CASE t = t1 -> 1 [] t = t2 -> 3 [] OTHER -> 2]
MCSize == [t \in MCTx |-> IF t = t3 THEN 2 ELSE 1]
MCFinal == [t \in MCTx |-> IF t = t3 THEN 2 ELSE 0]
MCBlock == {<<ca, t1>>, <<cb, t2>>, <<cd, t1, x>>, <<ce, t1, t2>>, <<cf>>}
MCFork == {<<cf>>}
MCDeltas == [t \in MCTx |->
  CASE t \in {t1, t3, y} -> {0, 2} [] t = t2 -> {0, -2} [] OTHER -> {0}]
=============================================================================
