-------------------------- MODULE SeriesAggregation --------------------------
(***************************************************************************)
(* The four aggregations of sums and last values of sdk/metric/internal/   *)
(* aggregate (sum.go, lastvalue.go) over all their series.                 *)
(*                                                                         *)
(* The cumulative ones, Sum and LastValue, keep one map of series, which   *)
(* collect ranges over while measurements go on.  The precomputed ones     *)
(* keep two maps, hot and cold, behind a hotColdWaitGroup: a measurement   *)
(* works on the hot map; cumulative swaps the maps, waits, reads the cold  *)
(* one and clears it.                                                      *)
(*                                                                         *)
(* Values count halves, so that an odd one has a fraction: atomicCounter   *)
(* keeps fractions and whole numbers apart.                                *)
(***************************************************************************)
EXTENDS HotColdWaitGroup, LimitedSyncMap, SequencesExt

CONSTANTS
  Kinds,    (* the aggregations there are                                  *)
  Amount    (* the value each call of measure is given, in halves          *)

AllKinds == {"Sum", "LastValue", "PrecomputedSum", "PrecomputedLastValue"}

ASSUME SeriesAssumption ==
  /\ Maps = Sides /\ Calls = Writers /\ Kinds \subseteq AllKinds
  /\ Amount \in [Writers -> Int]

VARIABLES
  kind,       (* the aggregation aggregateFunc has picked                  *)
  cells,      (* the value of each key of each map, in its two parts       *)
  added,      (* the calls of measure that have changed their cell         *)
  collector,  (* the next step of collect or cumulative                    *)
  n,          (* the length cumulative sizes its result with               *)
  points,     (* the data points of the collection so far, by key          *)
  loading,    (* load: the key and the fractional part that was read       *)
  todo,       (* the keys Range found at its start and has not visited     *)
  known,      (* history: the calls of measure the collection must count   *)
  floor,      (* history: the last data points of a cumulative sum         *)
  held,       (* history: the values of the counter since its load began   *)
  before      (* history: the calls of the cycle that had returned when    *)
              (* each call of a last value started                         *)

NoPoints == [k \in {} |-> 0]
NotLoading == [key |-> None, frac |-> 0]

collectVars == <<collector, n, points, loading, todo, known, floor, held>>
seriesVars == <<groupVars, mapVars, kind, cells, added, collectVars, before>>

Cumulative == kind \in {"Sum", "LastValue"}
Sums == kind \in {"Sum", "PrecomputedSum"}

(* The map a collection reads.                                             *)
Source == IF Cumulative THEN 0 ELSE readIdx

Returned == {w \in Writers : IF Cumulative THEN w \in added ELSE writer[w] = "out"}

(* A new sum is 0; a new last value already holds the first value.         *)
Zero == [int |-> 0, frac |-> 0]
Stored(v) == [int |-> v, frac |-> 0]
Initial(v) == IF Sums THEN Zero ELSE Stored(v)

(* atomicCounter.add and atomicN.Store                                     *)
Whole(v) == v % 2 = 0
Added(cell, v) ==
  IF ~Sums THEN Stored(v)
  ELSE IF Whole(v) THEN [cell EXCEPT !.int = @ + v] ELSE [cell EXCEPT !.frac = @ + v]

SeriesInit ==
  /\ GroupInit /\ MapInit
  /\ kind \in Kinds
  /\ at = [w \in Writers |-> 0]
  /\ cells = [i \in Sides |-> [k \in Keys |-> Zero]]
  /\ added = {} /\ collector = "none" /\ n = 0
  /\ points = NoPoints /\ loading = NotLoading
  /\ todo = {} /\ known = {} /\ floor = NoPoints /\ held = {}
  /\ before = [w \in Writers |-> {}]

-----------------------------------------------------------------------------
(* measure; the precomputed aggregations call start first.                 *)
Follows(w, M) ==
  before' = IF Sums THEN before ELSE [before EXCEPT ![w] = Returned \intersect M]

RecordStart(w) ==
  /\ ~Cumulative
  /\ Start(w)
  /\ Follows(w, members[hot])
  /\ UNCHANGED <<mapVars, kind, cells, added, collectVars>>

(* LoadOrStoreAttr on the only map or on that of the side start returned.  *)
RecordLookup(w) ==
  /\ \/ Cumulative /\ LoadOwn(w, 0) /\ Follows(w, Writers)
     \/ writer[w] = "in" /\ LoadOwn(w, side[w]) /\ UNCHANGED before
     \/ (LoadOverflow(w) \/ Lock(w)) /\ UNCHANGED before
  /\ UNCHANGED <<groupVars, kind, cells, added, collectVars>>

RecordStore(w) ==
  /\ Store(w)
  /\ cells' = IF key[w] \in table[at[w]] THEN cells
              ELSE [cells EXCEPT ![at[w]][key[w]] = Initial(Amount[w])]
  /\ UNCHANGED <<groupVars, kind, added, collectVars, before>>

Total(cell) == cell.int + cell.frac

RecordAdd(w) ==
  /\ call[w] = "returned" /\ w \notin added
  /\ cells' = [cells EXCEPT ![at[w]][series[w]] = Added(@, Amount[w])]
  /\ added' = added \union {w}
  /\ held' = IF loading.key = series[w] /\ at[w] = Source
               THEN held \union {Total(cells'[at[w]][series[w]])} ELSE held
  /\ UNCHANGED <<groupVars, mapVars, kind, collector, n, points, loading, todo, known,
                 floor, before>>

RecordDone(w) ==
  /\ w \in added
  /\ Done(w)
  /\ UNCHANGED <<mapVars, kind, cells, added, collectVars, before>>

-----------------------------------------------------------------------------
(* cumulative of a precomputed aggregation; like collect, it is called     *)
(* under the lock of the pipeline.                                         *)
GatherSwap ==
  /\ ~Cumulative /\ collector = "none"
  /\ \/ SwapLoad /\ UNCHANGED known
     \/ Swap /\ known' = members[hot]
  /\ UNCHANGED <<mapVars, kind, cells, added, collector, n, points, loading, todo,
                 floor, held, before>>

GatherWaited ==
  /\ ~Cumulative /\ collector = "none"
  /\ Waited
  /\ collector' = "len"
  /\ UNCHANGED <<mapVars, kind, cells, added, n, points, loading, todo, known,
                 floor, held, before>>

(* Len takes lenMux.  collect uses it only for the capacity of its slice.  *)
GatherLen ==
  /\ collector = IF Cumulative THEN "none" ELSE "len"
  /\ mux[Source] = None
  /\ n' = IF Cumulative THEN n ELSE len[Source]
  /\ collector' = "range"
  /\ todo' = table[Source]
  /\ known' = IF Cumulative THEN Returned ELSE known
  /\ UNCHANGED <<groupVars, mapVars, kind, cells, added, points, loading, floor, held, before>>

(* Range visits each series that is there all along once, and any series   *)
(* that is added meanwhile at most once.  load reads the fraction first.   *)
Report(k, v) ==
  points' = [x \in DOMAIN points \union {k} |-> IF x = k THEN v ELSE points[x]]

GatherVisit(k) ==
  /\ collector = "range" /\ loading = NotLoading
  /\ k \in table[Source] \ DOMAIN points
  /\ todo' = todo \ {k}
  /\ IF Sums
       THEN /\ loading' = [key |-> k, frac |-> cells[Source][k].frac]
            /\ held' = {Total(cells[Source][k])}
            /\ UNCHANGED points
       ELSE Report(k, cells[Source][k].int) /\ UNCHANGED <<loading, held>>
  /\ UNCHANGED <<groupVars, mapVars, kind, cells, added, collector, n, known, floor,
                 before>>

GatherLoad ==
  /\ loading # NotLoading
  /\ Report(loading.key, loading.frac + cells[Source][loading.key].int)
  /\ loading' = NotLoading /\ held' = {}
  /\ UNCHANGED <<groupVars, mapVars, kind, cells, added, collector, n, todo, known,
                 floor, before>>

GatherEnd ==
  /\ collector = "range" /\ loading = NotLoading /\ todo = {}
  /\ collector' = "end"
  /\ UNCHANGED <<groupVars, mapVars, kind, cells, added, n, points, loading, todo,
                 known, floor, held, before>>

(* The cold map is cleared for the cycle after the next.                   *)
AfterRange_Kept == UNCHANGED mapVars
AfterRange == IF Cumulative THEN UNCHANGED mapVars ELSE Clear(readIdx)

GatherReturn ==
  /\ collector = "end"
  /\ AfterRange
  /\ collector' = "none"
  /\ points' = NoPoints /\ known' = {} /\ n' = 0
  /\ floor' = IF kind = "Sum" THEN points ELSE floor
  /\ UNCHANGED <<groupVars, kind, cells, added, loading, todo, held, before>>

RecordStep(w) ==
  RecordLookup(w) \/ RecordStore(w) \/ RecordAdd(w) \/ RecordDone(w)

SeriesNext ==
  \/ \E w \in Writers : RecordStart(w) \/ RecordStep(w)
  \/ GatherSwap \/ GatherWaited \/ GatherLen
  \/ \E k \in Keys : GatherVisit(k)
  \/ GatherLoad \/ GatherEnd \/ GatherReturn

SeriesSpec == SeriesInit /\ [][SeriesNext]_seriesVars

-----------------------------------------------------------------------------
(* What a collection that must count the measurements of known and may     *)
(* count those of possible can report for a series, from the definition of *)
(* the aggregation.                                                        *)
OfSeries(M, k) == {w \in M : series[w] = k}

SumsBetween(k, possible) ==
  LET must == OfSeries(known, k)
      may  == OfSeries(possible, k) \ must
  IN  {MapThenSumSet(LAMBDA w : Amount[w], must \union S) : S \in SUBSET may}

LastsBetween(k, possible) ==
  {Amount[w] : w \in {v \in OfSeries(possible, k) :
                        \A u \in OfSeries(known, k) : v \notin before[u]}}

Between(k, possible) ==
  IF Sums THEN SumsBetween(k, possible) ELSE LastsBetween(k, possible)

(* Nothing negative is added to the series by the measurements of M, as    *)
(* for a counter; an up-down counter has the same aggregation.             *)
Rising(M, k) == \A w \in OfSeries(M, k) : Amount[w] >= 0

(* A collection counts every measurement that had returned when it began,  *)
(* or that started in its cycle, in the series it was given, and each only *)
(* once; a last value is never one that a later measurement had replaced.  *)
(* No series is missed, although measurements, new series and the clearing *)
(* of the map go on meanwhile.  "The len will not change while we iterate  *)
(* over values, since we waited for all writes to finish": cumulative      *)
(* sizes its result with Len and writes it by position, so that each       *)
(* series must have a place and no place may stay empty.  And from one     *)
(* collection to the next no series of a cumulative sum is dropped, and    *)
(* none falls to which nothing negative was added, though the two parts of *)
(* the sum are loaded at different moments: a backend would take a counter *)
(* that falls for a restart.                                               *)
ReportBetween ==
  collector = "end" =>
    LET possible == IF Cumulative THEN Writers ELSE known
    IN  /\ ~Cumulative => Cardinality(DOMAIN points) = n
        /\ {series[w] : w \in known} \subseteq DOMAIN points
        /\ DOMAIN points \subseteq {series[w] : w \in possible}
        /\ \A k \in DOMAIN points : points[k] \in Between(k, possible)
        /\ \A k \in DOMAIN floor : /\ k \in DOMAIN points
                                       /\ Rising(added, k) => points[k] >= floor[k]

(* "load returns the current value": what a collection loads is a value    *)
(* the counter had at some moment of the load.                             *)
LoadsHeldValue ==
  [][loading # NotLoading /\ loading' = NotLoading =>
       points'[loading.key] \in held]_seriesVars
=============================================================================
