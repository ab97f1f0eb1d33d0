--------------------------- MODULE MCQueueManager ---------------------------
(***************************************************************************)
(* A small instance of QueueManager.                                       *)
(***************************************************************************)
EXTENDS QueueManager

CONSTANTS t1, t2

Symmetry == Permutations(Torrents)
=============================================================================
