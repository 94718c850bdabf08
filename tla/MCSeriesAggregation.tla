------------------------- MODULE MCSeriesAggregation -------------------------
(* SeriesAggregation for TLC: two measurements of one attribute set and    *)
(* one each of two others, with values whose sums tell them apart, two of  *)
(* them fractional and one of these negative.                              *)
EXTENDS SeriesAggregation

CONSTANTS w1, w2, w3, w4, a, b, c

MCAttrOf == w1 :> a @@ w2 :> a @@ w3 :> b @@ w4 :> c
MCAmount == w1 :> 2 @@ w2 :> 1 @@ w3 :> 4 @@ w4 :> -9
=============================================================================
