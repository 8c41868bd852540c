------------------------- MODULE MC_ChainSelection -------------------------
(***************************************************************************)
(* ChainSelection on two branches of three blocks: equal work at every     *)
(* height, so that arrival order and address decide.  Block x fails        *)
(* ContextualCheckBlock; b2, in the middle of a branch, or b3, at its end, *)
(* fails ConnectBlock.                                                     *)
(***************************************************************************)
EXTENDS ChainSelection

CONSTANTS g, a1, a2, a3, x, b1, b2, b3, t1, t2

MCBlock5 == {g, a1, a2, b1, b2, b3}
MCBlock6 == MCBlock5 \cup {a3}
MCBlockX == MCBlock5 \cup {a3, x}
MCParentOf(b) ==
  CASE b \in {a1, b1} -> g [] b \in {a2, x} -> a1 [] b = a3 -> a2 [] b = b2 -> b1 [] b = b3 -> b2
MCParent == [b \in Block \ {g} |-> MCParentOf(b)]
MCChain == [b \in Block |->
  CASE b = g -> {g} [] b = a1 -> {g, a1} [] b = a2 -> {g, a1, a2} [] b = x -> {g, a1, x}
    [] b = a3 -> {g, a1, a2, a3}
    [] b = b1 -> {g, b1} [] b = b2 -> {g, b1, b2} [] b = b3 -> {g, b1, b2, b3}]
MCWork == [b \in Block |-> CASE b = g -> 1 [] b \in {a1, b1} -> 2
                             [] b \in {a2, x, b2} -> 3 [] b \in {a3, b3} -> 4]
MCAddr == [b \in Block |-> CASE b = g -> 1 [] b = b1 -> 2 [] b = a2 -> 3 [] b = a1 -> 4
                             [] b = b2 -> 5 [] b = b3 -> 6 [] b = x -> 7 [] b = a3 -> 8]
MCMinSequenceId == -2
MCBadContext == {x}

Calls(inv, rec, pre, pru, res) ==
  [c \in Command |-> CASE c = "invalidate" -> inv [] c = "reconsider" -> rec
                       [] c = "precious" -> pre [] c = "prune" -> pru [] c = "restart" -> res]

\* One thread: invalid blocks and a restart; pruning; the operator's commands.
\* Two threads and blocks alone.
MCWorlds ==
  {[threads |-> {t1}, blocks |-> MCBlockX, badConnect |-> {b2}, calls |-> Calls(0, 0, 0, 0, 1)],
   [threads |-> {t1}, blocks |-> MCBlock6, badConnect |-> {b2}, calls |-> Calls(0, 0, 0, 2, 1)],
   [threads |-> {t1}, blocks |-> MCBlock5, badConnect |-> {b3}, calls |-> Calls(1, 0, 2, 0, 0)],
   [threads |-> {t1}, blocks |-> MCBlock6, badConnect |-> {b3}, calls |-> Calls(1, 1, 0, 0, 0)],
   [threads |-> {t1, t2}, blocks |-> MCBlock6, badConnect |-> {b2}, calls |-> Calls(0, 0, 0, 0, 0)]}
MCRaceWorlds ==
  {[threads |-> {t1, t2}, blocks |-> MCBlock5, badConnect |-> {}, calls |-> Calls(0, 0, 0, 0, 0)]}
=============================================================================
