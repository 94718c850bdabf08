-------------------------- MODULE MCLimitedSyncMap --------------------------
(* LimitedSyncMap for TLC: several calls for the same attribute set.       *)
EXTENDS LimitedSyncMap, TLC

CONSTANTS c1, c2, c3, c4, c5, a, b, c

MCAttrOf == c1 :> a @@ c2 :> a @@ c3 :> b @@ c4 :> b @@ c5 :> c
=============================================================================
