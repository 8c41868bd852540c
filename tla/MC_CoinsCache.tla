--------------------------- MODULE MC_CoinsCache ---------------------------
(***************************************************************************)
(* CoinsCache on two outpoints, a small and a large coin and a provably    *)
(* unspendable one.  The entries of different outpoints never interact     *)
(* except in the sum of their sizes, so two are enough.                    *)
(***************************************************************************)
EXTENDS CoinsCache

CONSTANTS o1, o2, small, large, opReturn, b1, b2

MCOutpoint == {o1, o2}
MCCoin == {small, large, opReturn}
MCUnspendable == {opReturn}
MCCoinSize == [c \in MCCoin |-> CASE c = small -> 1 [] c = large -> 3 [] OTHER -> 0]
MCBlock == {b1, b2}
=============================================================================
