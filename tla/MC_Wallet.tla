----------------------------- MODULE MC_Wallet -----------------------------
(***************************************************************************)
(* Wallet on two branches, a of three blocks and b of two, so that the     *)
(* chain goes over to b and back.  t pays the wallet; the wallet makes p,  *)
(* which spends t, and s, which spends p.  c spends t too, with a coin of  *)
(* another party, and g spends c.  r is the rival of t, q that of c.       *)
(***************************************************************************)
EXTENDS Wallet

CONSTANTS t, r, p, s, c, q, g, e, f, o, a1, a2, a3, b1, b2

MCInputs == [x \in Tx |-> CASE x \in {t, r} -> {e} [] x = p -> {t} [] x = s -> {p}
                            [] x = c -> {t, f} [] x = q -> {f} [] x = g -> {c}]
MCTxIdOrder == <<s, c, p, t, g, r, q>>
MCParent == [x \in Block \ {o} |-> CASE x \in {a1, b1} -> o [] x = a2 -> a1 [] x = a3 -> a2 [] x = b2 -> b1]
MCChain == [x \in Block |-> CASE x = o -> {o} [] x = a1 -> {o, a1} [] x = a2 -> {o, a1, a2}
                              [] x = a3 -> {o, a1, a2, a3} [] x = b1 -> {o, b1} [] x = b2 -> {o, b1, b2}]
Vtx(xa1, xa2, xb1, xb2) == [x \in Block |-> CASE x = a1 -> xa1 [] x = a2 -> xa2 [] x = b1 -> xb1
                                             [] x = b2 -> xb2 [] OTHER -> <<>>]

MCWorlds ==
  {[vtx |-> Vtx(<<t>>, <<p>>, <<r>>, <<>>), foreign |-> {t, r}, own |-> {p, s},
    evictions |-> 0, abandons |-> 1, deaths |-> 2],
   [vtx |-> Vtx(<<t, c>>, <<g>>, <<q>>, <<r>>), foreign |-> {t, c, r, q}, own |-> {g},
    evictions |-> 1, abandons |-> 1, deaths |-> 1],
   [vtx |-> Vtx(<<t>>, <<p>>, <<t>>, <<c>>), foreign |-> {t, c}, own |-> {p, s},
    evictions |-> 0, abandons |-> 1, deaths |-> 1]}
MCReturnWorlds ==
  {[vtx |-> Vtx(<<r>>, <<>>, <<>>, <<>>), foreign |-> {t, c}, own |-> {},
    evictions |-> 1, abandons |-> 0, deaths |-> 0]}
MCAbandonWorlds ==
  {[vtx |-> Vtx(<<t>>, <<>>, <<r>>, <<>>), foreign |-> {t, c, g}, own |-> {},
    evictions |-> 1, abandons |-> 1, deaths |-> 1]}
=============================================================================
