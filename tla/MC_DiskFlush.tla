---------------------------- MODULE MC_DiskFlush ----------------------------
(* Small instances of DiskFlush: files of two blocks.                      *)
EXTENDS DiskFlush

\* Pruning and crashes of the process; loss of power; failing writes.
MCPrune == [height |-> 3, files |-> 1, fPruneMode |-> TRUE, power |-> FALSE,
            failing |-> {}, fails |-> 0]
MCPower == [height |-> 2, files |-> 1, fPruneMode |-> FALSE, power |-> TRUE,
            failing |-> {}, fails |-> 0]
MCErrors == [height |-> 2, files |-> 2, fPruneMode |-> TRUE, power |-> FALSE,
             failing |-> {"space", "write", "index", "coins"}, fails |-> 1]

MCWorlds == {MCPrune, MCPower, MCErrors}

MCUndoWorlds == {[MCPower EXCEPT !.height = 3, !.files = 2]}
MCIndexWorlds == {[MCErrors EXCEPT !.fPruneMode = FALSE, !.failing = {"index"}]}
=============================================================================
