--------------------------- MODULE MC_CheckQueue ---------------------------
(***************************************************************************)
(* CheckQueue with two workers and four checks: enough for a batch of two  *)
(* (a queue of four seen by a lone thread), for two batches in flight      *)
(* while the master waits, and for a failure that makes another batch be   *)
(* skipped.  Checks are alike but for their result, so one set of failing  *)
(* checks of each size stands for all.                                     *)
(***************************************************************************)
EXTENDS CheckQueue

CONSTANTS w1, w2, c1, c2, c3, c4

MCWorker == {w1, w2}
MCCheck == {c1, c2, c3, c4}
MCFailingSets == {{}, {c1}, {c1, c2}, {c1, c2, c3}, MCCheck}
=============================================================================
