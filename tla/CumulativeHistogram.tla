------------------------- MODULE CumulativeHistogram -------------------------
(***************************************************************************)
(* One series of the cumulative histogram of sdk/metric/internal/          *)
(* aggregate/histogram.go: measurements write to the hot one of two sets   *)
(* of counters without a lock; collect reads the cold one, then merges it  *)
(* into the hot one while measurements go on there.                        *)
(*                                                                         *)
(* The writers of the wait group are the calls of measure.  Steps that     *)
(* touch counters nobody else can read at that moment are one step here:   *)
(* the reads of the cold point, and its counts on their way to the hot one.*)
(***************************************************************************)
EXTENDS HotColdWaitGroup, FiniteSetsExt, Sequences

CONSTANTS
  Value,    (* the value each call of measure records                      *)
  Bounds    (* the upper bounds of the buckets, sorted                     *)

ASSUME HistogramAssumption ==
  /\ Value \in [Writers -> Int]
  /\ Bounds \in Seq(Int)
  /\ \A i, j \in DOMAIN Bounds : i < j => Bounds[i] <= Bounds[j]

VARIABLES
  step,     (* the next step of each call of measure                       *)
  merge,    (* the next step of collect after it has its side              *)
  counts,   (* histogramPointCounters.counts of the two points             *)
  total,    (* histogramPointCounters.total                                *)
  extrema,  (* histogramPointCounters.minMax: set, minimum and maximum     *)
  report,   (* the data point of the last collection                       *)
  seen      (* history: the calls of measure that started before its swap  *)

pointVars == <<counts, total, extrema>>
vars == <<groupVars, step, merge, pointVars, report, seen>>

Buckets == 0..Len(Bounds)
NoExtrema == [set |-> FALSE, min |-> 0, max |-> 0]

(* sort.SearchFloat64s: the first bound that is not below the value.       *)
Bucket(v) == Min({i \in Buckets : i = Len(Bounds) \/ Bounds[i + 1] >= v})

Init ==
  /\ GroupInit
  /\ step = [w \in Writers |-> "start"] /\ merge = "none"
  /\ counts = [i \in Sides |-> [b \in Buckets |-> 0]]
  /\ total = [i \in Sides |-> 0]
  /\ extrema = [i \in Sides |-> NoExtrema]
  /\ report = [counts |-> [b \in Buckets |-> 0], sum |-> 0, extrema |-> NoExtrema]
  /\ seen = {}

-----------------------------------------------------------------------------
(* atomicMinMax.Update: the first value is both extrema, under a mutex; a  *)
(* later one lowers the minimum and is done, or goes on to the maximum.    *)
(* Each compare-and-swap loop takes effect in one step.                    *)
Settles(e, v) == ~e.set \/ v < e.min

WithMin(e, v) ==
  IF ~e.set THEN [set |-> TRUE, min |-> v, max |-> v]
  ELSE IF v < e.min THEN [e EXCEPT !.min = v] ELSE e

WithMax(e, v) == IF e.max < v THEN [e EXCEPT !.max = v] ELSE e

-----------------------------------------------------------------------------
(* measure                                                                 *)
MeasureStart(w) ==
  /\ Start(w)
  /\ step' = [step EXCEPT ![w] = "count"]
  /\ UNCHANGED <<merge, pointVars, report, seen>>

MeasureCount(w) ==
  /\ step[w] = "count"
  /\ counts' = [counts EXCEPT ![side[w]][Bucket(Value[w])] = @ + 1]
  /\ step' = [step EXCEPT ![w] = "min"]
  /\ UNCHANGED <<groupVars, merge, total, extrema, report, seen>>

MeasureMin(w) ==
  LET e == extrema[side[w]] IN
  /\ step[w] = "min"
  /\ extrema' = [extrema EXCEPT ![side[w]] = WithMin(e, Value[w])]
  /\ step' = [step EXCEPT ![w] = IF Settles(e, Value[w]) THEN "sum" ELSE "max"]
  /\ UNCHANGED <<groupVars, merge, counts, total, report, seen>>

MeasureMax(w) ==
  /\ step[w] = "max"
  /\ extrema' = [extrema EXCEPT ![side[w]] = WithMax(@, Value[w])]
  /\ step' = [step EXCEPT ![w] = "sum"]
  /\ UNCHANGED <<groupVars, merge, counts, total, report, seen>>

MeasureSum(w) ==
  /\ step[w] = "sum"
  /\ total' = [total EXCEPT ![side[w]] = @ + Value[w]]
  /\ step' = [step EXCEPT ![w] = "done"]
  /\ UNCHANGED <<groupVars, merge, counts, extrema, report, seen>>

MeasureDone(w) ==
  /\ step[w] = "done"
  /\ Done(w)
  /\ step' = [step EXCEPT ![w] = "returned"]
  /\ UNCHANGED <<merge, pointVars, report, seen>>

-----------------------------------------------------------------------------
(* collect, one call at a time; a data point that has been read is merged  *)
(* before the next collection.                                             *)
CollectStart ==
  /\ merge = "none"
  /\ SwapLoad
  /\ UNCHANGED <<step, merge, pointVars, report, seen>>

CollectSwap ==
  /\ Swap
  /\ seen' = {w \in Writers : writer[w] # "idle"}
  /\ UNCHANGED <<step, merge, pointVars, report>>

CollectWaited ==
  /\ Waited
  /\ merge' = "read"
  /\ UNCHANGED <<step, pointVars, report, seen>>

CollectRead ==
  /\ merge = "read"
  /\ report' = [counts |-> counts[readIdx], sum |-> total[readIdx],
                extrema |-> extrema[readIdx]]
  /\ merge' = "counts"
  /\ UNCHANGED <<groupVars, step, pointVars, seen>>

(* mergeIntoAndReset: the side merged into.                                *)
hotIdx == (readIdx + 1) % 2

MergeCounts ==
  /\ merge = "counts"
  /\ counts' = [counts EXCEPT
       ![hotIdx] = [b \in Buckets |-> @[b] + counts[readIdx][b]],
       ![readIdx] = [b \in Buckets |-> 0]]
  /\ merge' = IF extrema[readIdx].set THEN "min1" ELSE "sum"
  /\ UNCHANGED <<groupVars, step, total, extrema, report, seen>>

(* Update(minimum) and Update(maximum), each with its two parts; the       *)
(* extrema of the cold point are kept.                                     *)
MergeExtrema ==
  LET e == extrema[hotIdx]
      low == extrema[readIdx].min
      high == extrema[readIdx].max IN
  /\ \/ /\ merge = "min1"
        /\ extrema' = [extrema EXCEPT ![hotIdx] = WithMin(e, low)]
        /\ merge' = IF Settles(e, low) THEN "min2" ELSE "max1"
     \/ /\ merge = "max1"
        /\ extrema' = [extrema EXCEPT ![hotIdx] = WithMax(e, low)]
        /\ merge' = "min2"
     \/ /\ merge = "min2"
        /\ extrema' = [extrema EXCEPT ![hotIdx] = WithMin(e, high)]
        /\ merge' = IF Settles(e, high) THEN "sum" ELSE "max2"
     \/ /\ merge = "max2"
        /\ extrema' = [extrema EXCEPT ![hotIdx] = WithMax(e, high)]
        /\ merge' = "sum"
  /\ UNCHANGED <<groupVars, step, counts, total, report, seen>>

AfterMerge_NoReset == total[readIdx]
AfterMerge == 0

MergeSum ==
  /\ merge = "sum"
  /\ total' = [total EXCEPT ![hotIdx] = @ + total[readIdx], ![readIdx] = AfterMerge]
  /\ merge' = "none"
  /\ UNCHANGED <<groupVars, step, counts, extrema, report, seen>>

MeasureStep(w) ==
  \/ MeasureCount(w) \/ MeasureMin(w) \/ MeasureMax(w)
  \/ MeasureSum(w) \/ MeasureDone(w)

Measure(w) == MeasureStart(w) \/ MeasureStep(w)

Collect ==
  \/ CollectStart \/ CollectSwap \/ CollectWaited \/ CollectRead
  \/ MergeCounts \/ MergeExtrema \/ MergeSum

Next == (\E w \in Writers : Measure(w)) \/ Collect

Spec == Init /\ [][Next]_vars

-----------------------------------------------------------------------------
(* What a histogram of the measurements M is, from its definition: bucket  *)
(* b counts the values above bound b - 1 and not above bound b.            *)
InBucket(b, v) ==
  /\ b > 0 => Bounds[b] < v
  /\ b < Len(Bounds) => v <= Bounds[b + 1]

Values(M) == {Value[w] : w \in M}
SumOf(M) == MapThenSumSet(LAMBDA w : Value[w], M)

Read == merge \notin {"none", "read"}

(* A data point counts exactly the measurements that had started when the  *)
(* collection swapped the sides: all their values in their buckets and in  *)
(* the sum, nothing of any later one, nothing twice, although measurements *)
(* and the merge of the previous data point interleave field by field.     *)
(* Its extrema are theirs as well, which a race of two updates with the    *)
(* first one, or with the merge, might lose.                               *)
SnapshotExact ==
  Read =>
    /\ \A b \in Buckets :
         report.counts[b] = Cardinality({w \in seen : InBucket(b, Value[w])})
    /\ report.sum = SumOf(seen)
    /\ (report.extrema.set <=> seen # {})
    /\ seen # {} => /\ report.extrema.min = Min(Values(seen))
                    /\ report.extrema.max = Max(Values(seen))

-----------------------------------------------------------------------------
(* Why: at any moment each point holds the measurements of a known set, as *)
(* far as they have got.                                                   *)
Entered == {w \in Writers : writer[w] # "idle"}

StepsOK ==
  /\ step \in [Writers -> {"start", "count", "min", "max", "sum", "done", "returned"}]
  /\ merge \in {"none", "read", "counts", "min1", "max1", "min2", "max2", "sum"}
  /\ total \in [Sides -> Int] /\ counts \in [Sides -> [Buckets -> Nat]]
  /\ extrema \in [Sides -> [set : BOOLEAN, min : Int, max : Int]]
  /\ \A w \in Writers : /\ step[w] = "start" <=> writer[w] = "idle"
                        /\ step[w] = "returned" <=> writer[w] = "out"
  /\ merge # "none" => reader = "reading"

(* What has begun had begun at the last swap, or did so on the hot side.   *)
SeenOrHot ==
  /\ IsFiniteSet(seen)
  /\ Entered = seen \union members[hot] /\ seen \intersect members[hot] = {}

(* The measurements whose place is point i, before or after the cold point *)
(* is merged into the hot one.                                             *)
Place(i, merged) ==
  IF i = hot THEN IF merged THEN Entered ELSE members[hot]
  ELSE IF merged THEN {} ELSE seen

CountsMerged == reader # "waiting" /\ merge \notin {"read", "counts"}
SumMerged == reader # "waiting" /\ merge = "none"

Counted == {w \in Writers : step[w] \notin {"start", "count"}}
AddedUp == {w \in Writers : step[w] \in {"done", "returned"}}

CountsRight ==
  \A i \in Sides, b \in Buckets :
    counts[i][b] =
      Cardinality({w \in Place(i, CountsMerged) \intersect Counted : Bucket(Value[w]) = b})

SumsRight ==
  \A i \in Sides :
    total[i] = SumOf(Place(i, SumMerged) \intersect AddedUp)

(* The extrema of a point are values of measurements: of those that were   *)
(* seen, once the point is cold.                                           *)
ExtremaOf(i) == IF i = readIdx /\ reader \in {"waiting", "reading"} THEN seen ELSE Entered

ExtremaTaken ==
  \A i \in Sides :
    extrema[i].set =>
      /\ extrema[i].min <= extrema[i].max
      /\ {extrema[i].min, extrema[i].max} \subseteq Values(ExtremaOf(i))

(* And they are extreme, with respect to the measurements that have got so *)
(* far; those of a cold point are kept.                                    *)
MinDone(w) == step[w] \notin {"start", "count", "min"}
MaxDone(w) == step[w] \in {"sum", "done", "returned"}

Covers(e, w) ==
  /\ MinDone(w) => e.set /\ e.min <= Value[w]
  /\ MaxDone(w) => e.max >= Value[w]

ExtremaRight ==
  /\ \A w \in Place(hot, SumMerged) : Covers(extrema[hot], w)
  /\ \A w \in seen : Covers(extrema[1 - hot], w)

(* How far the merge of the extrema is.                                    *)
ExtremaMerge ==
  LET cold == extrema[1 - hot] IN
  /\ merge \in {"min1", "max1", "min2", "max2"} => cold.set
  /\ merge \in {"max1", "min2", "max2", "sum"} /\ cold.set =>
       extrema[hot].set /\ extrema[hot].min <= cold.min
  /\ merge = "sum" /\ cold.set => extrema[hot].max >= cold.max

HistogramIInv ==
  /\ GroupInv /\ StepsOK /\ SeenOrHot /\ CountsRight /\ SumsRight
  /\ ExtremaTaken /\ ExtremaRight /\ ExtremaMerge /\ SnapshotExact
=============================================================================
