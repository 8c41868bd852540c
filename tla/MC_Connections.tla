-------------------------- MODULE MC_Connections --------------------------
(***************************************************************************)
(* Connections with one program and remotes that hang up (the life of the  *)
(* CNode objects), and with two programs that talk (the queues).           *)
(***************************************************************************)
EXTENDS Connections, TLC

CONSTANTS p, q, c, d

MCDataSize == <<2, 0>>

Quiet == [live |-> {p}, up |-> {}, inbound |-> {}, outbound |-> {},
          budget |-> [x \in Prog |-> 0], commands |-> FALSE, hangs |-> FALSE,
          bans |-> FALSE, stops |-> FALSE]

MCWorlds == {
  \* two connections, one accepted and one opened, that the remote may close
  [Quiet EXCEPT !.inbound = {<<p, c>>}, !.outbound = {<<p, d>>}, !.hangs = TRUE],
  \* commands and a shutdown
  [Quiet EXCEPT !.up = {c}, !.outbound = {<<p, d>>}, !.commands = TRUE, !.stops = TRUE],
  \* two programs that both have much to say
  [Quiet EXCEPT !.live = {p, q}, !.up = {c}, !.budget = (p :> 2 @@ q :> 1)],
  \* one opens the connection and speaks, the other may end the connection
  [Quiet EXCEPT !.live = {p, q}, !.outbound = {<<p, c>>}, !.inbound = {<<q, c>>},
                !.budget = (p :> 2 @@ q :> 0), !.bans = TRUE]}
=============================================================================
