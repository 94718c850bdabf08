------------------------ MODULE MCBatchSpanProcessor ------------------------
(* Instances of BatchSpanProcessor for TLC: the .cfg files Bsp*.cfg give   *)
(* the constants their values.                                             *)
EXTENDS BatchSpanProcessor, TLC

SpanSymmetry == Permutations(Spans)
CallSymmetry == SpanSymmetry \union Permutations(Flushers) \union Permutations(Closers)
=============================================================================
