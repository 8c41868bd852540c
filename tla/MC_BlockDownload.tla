-------------------------- MODULE MC_BlockDownload --------------------------
(***************************************************************************)
(* BlockDownload with two peers and a chain of three blocks with a fork    *)
(* below its second: one block more than the download window of one, and   *)
(* one more than may be in transit from a peer.                            *)
(***************************************************************************)
EXTENDS BlockDownload

CONSTANTS p1, p2, g, a1, a2, a3, b2

MCBlock == {a1, a2, a3, b2}
MCPrev == [b \in MCBlock |-> CASE b = a1 -> g [] b \in {a2, b2} -> a1 [] b = a3 -> a2]

World(t1, t2, mute, preferred, cmpct, recent, submit, c1, c2) ==
  [tips |-> [p \in Peer |-> IF p = p1 THEN t1 ELSE t2], mute |-> mute,
   preferred |-> preferred, cmpct |-> cmpct, recent |-> recent, submit |-> submit,
   conns |-> [p \in Peer |-> IF p = p1 THEN c1 ELSE c2]]

\* The initial download with a mute outbound peer, over a chain longer than the
\* window, and again with a peer that reconnects; forks of equal work, near the
\* tip from the first block on; compact blocks beside a mute peer; a lone peer
\* with compact blocks beyond the tip, and with submitblock.
MCWorlds ==
  {World(a3, a3, {p1}, {p1}, {}, 9, FALSE, 1, 1),
   World(a2, a2, {p1}, {p1}, {}, 9, FALSE, 1, 2),
   World(a2, b2, {p2}, {p2}, {}, 1, FALSE, 1, 1),
   World(a2, a1, {p2}, {p2}, {p1}, 0, FALSE, 1, 1),
   World(a3, a3, {}, {}, {p1}, 0, FALSE, 1, 0),
   World(a2, a2, {}, {}, {p1}, 0, TRUE, 2, 0)}
=============================================================================
