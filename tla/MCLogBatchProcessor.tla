------------------------- MODULE MCLogBatchProcessor -------------------------
(* LogBatchProcessor for TLC: the .cfg files LogBatch*.cfg give the        *)
(* constants their values.                                                 *)
EXTENDS LogBatchProcessor, TLC

Symmetry == Permutations(Records) \union Permutations(Flushers) \union Permutations(Closers)
=============================================================================
