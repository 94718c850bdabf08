--------------------------- MODULE AggregationProofs ---------------------------
(***************************************************************************)
(* Proofs about the aggregations of the metrics: the wait group they       *)
(* share, for any set of writers; the cumulative histogram, for any values *)
(* and bounds; the map of series with its limit, for any maps, calls and   *)
(* attribute sets; and the sums and last values, for any measurements.     *)
(***************************************************************************)
EXTENDS CumulativeHistogram, SeriesAggregation, SharedLemmas

-----------------------------------------------------------------------------
(* The wait group and the histogram.                                       *)

(* A side whose members have all counted themselves out has no other       *)
(* members: equal numbers mean equal sets.                                 *)
LEMMA AllFinished ==
  ASSUME NEW i \in Sides, IsFiniteSet(members[i]),
         Cardinality(members[i]) = Cardinality(Finished(i))
  PROVE  members[i] = Finished(i)
<1>1. Finished(i) \in SUBSET members[i]  BY DEF Finished
<1>2. QED  BY <1>1, FS_Subset

(* The invariant holds initially.                                          *)
LEMMA GroupInitInv == GroupInit => GroupInv
<1> SUFFICES ASSUME GroupInit PROVE GroupInv
  OBVIOUS
<1>1. \A i \in Sides : Finished(i) = {} /\ members[i] = {}
  BY DEF GroupInit, Finished
<1>2. MembersFinite /\ CountsExact
  BY <1>1, FS_EmptySet DEF GroupInit, MembersFinite, CountsExact, Sides
<1>3. QED
  BY <1>2 DEF GroupInit, GroupInv, GroupTypeOK, ReaderPhases, Sides, WritersAreMembers,
              ReaderKnows

(* A writer that starts becomes a member of the hot side and is counted.   *)
LEMMA StartInv ==
  ASSUME GroupInv, NEW w \in Writers, Start(w) PROVE GroupInv'
<1> USE DEF GroupInv, GroupTypeOK
<1>1. w \notin members[0] /\ w \notin members[1]
  BY DEF Start, WritersAreMembers, Sides
<1>2. \A i \in Sides : members'[i] = IF i = hot THEN members[i] \union {w} ELSE members[i]
  BY DEF Start
<1>3. \A i \in Sides : Finished(i)' = Finished(i)
  BY <1>1, <1>2 DEF Start, Finished, Sides
<1>4. PICK M : M = members[hot]
  OBVIOUS
<1>5. IsFiniteSet(M) /\ w \notin M
  BY <1>1, <1>4 DEF MembersFinite, Sides
<1>6. IsFiniteSet(M \union {w}) /\ Cardinality(M \union {w}) = Cardinality(M) + 1
  BY <1>5, FS_AddElement
<1>7. MembersFinite'
  BY <1>2, <1>4, <1>6 DEF MembersFinite
<1>8. CountsExact'
  BY <1>2, <1>3, <1>4, <1>6 DEF CountsExact, Start
<1>9. GroupTypeOK'
  BY DEF Start
<1>10. WritersAreMembers'
  BY <1>2 DEF WritersAreMembers, Start
<1>11. ReaderKnows'
  BY <1>2 DEF ReaderKnows, Start, Sides
<1>12. QED  BY <1>7, <1>8, <1>9, <1>10, <1>11

(* A writer that is done counts itself out on its own side.                *)
LEMMA DoneInv ==
  ASSUME GroupInv, NEW w \in Writers, Done(w) PROVE GroupInv'
<1> USE DEF GroupInv, GroupTypeOK
<1>0. PICK k \in Sides : k = side[w]
  OBVIOUS
<1>1. w \in members[k] /\ writer[w] = "in"
  BY <1>0 DEF Done, WritersAreMembers
<1>2. \A i \in Sides : i # k => w \notin members[i]
  BY <1>0 DEF WritersAreMembers
<1>3. \A i \in Sides : Finished(i)' = IF i = k THEN Finished(i) \union {w} ELSE Finished(i)
  BY <1>1, <1>2 DEF Done, Finished
<1>4. IsFiniteSet(Finished(k)) /\ w \notin Finished(k)
  <2>1. Finished(k) \in SUBSET members[k] /\ IsFiniteSet(members[k])
    BY DEF Finished, MembersFinite
  <2>2. QED  BY <1>1, <2>1, FS_Subset DEF Finished
<1>5. Cardinality(Finished(k) \union {w}) = ended[k] + 1
  <2>1. ended[k] = Cardinality(Finished(k))
    BY DEF CountsExact
  <2>2. Cardinality(Finished(k) \union {w}) = Cardinality(Finished(k)) + 1
    <3> HIDE DEF GroupInv, GroupTypeOK
    <3>1. QED  BY <1>4, FS_AddElement
  <2>3. QED  BY <2>1, <2>2
<1>6. CountsExact'
  BY <1>0, <1>3, <1>5 DEF CountsExact, Done, DoneSide
<1>7. GroupTypeOK'
  BY <1>0 DEF Done, DoneSide
<1>8. QED
  BY <1>6, <1>7 DEF MembersFinite, WritersAreMembers, ReaderKnows, Done

(* The reader begins a collection: nothing is counted.                     *)
LEMMA SwapLoadInv ==
  ASSUME GroupInv, SwapLoad PROVE GroupInv'
<1> USE DEF GroupInv, GroupTypeOK
<1>1. \A i \in Sides : Finished(i)' = Finished(i)
  BY DEF SwapLoad, Finished
<1>2. QED
  BY <1>1 DEF SwapLoad, MembersFinite, CountsExact, WritersAreMembers, ReaderKnows,
              ReaderPhases

(* The exchange turns the count of the old hot side into what the reader   *)
(* is owed; the new hot side has no members.                               *)
LEMMA SwapInv ==
  ASSUME GroupInv, Swap PROVE GroupInv'
<1> USE DEF GroupInv, GroupTypeOK
<1>1. readIdx = hot /\ hot' = 1 - hot /\ hot' \in Sides /\ members' = members
  BY DEF Swap, ReaderKnows, Sides
<1>2. members[1 - hot] = {}
  BY DEF Swap, ReaderKnows
<1>3. \A i \in Sides : Finished(i)' = Finished(i)
  BY DEF Swap, Finished
<1>4. CountsExact'
  BY <1>1, <1>2, <1>3, FS_EmptySet DEF CountsExact, Swap
<1>5. owed' = Cardinality(members[hot]) /\ readIdx' = hot /\ hot = 1 - hot'
  BY <1>1 DEF Swap, Owed, CountsExact, Sides
<1>6. QED
  BY <1>1, <1>4, <1>5 DEF Swap, Owed, MembersFinite, WritersAreMembers, ReaderKnows,
                          ReaderPhases

(* When the counts agree every member of the cold side has finished.       *)
LEMMA WaitedInv ==
  ASSUME GroupInv, Waited PROVE GroupInv'
<1> USE DEF GroupInv, GroupTypeOK
<1>1. readIdx \in Sides /\ readIdx = 1 - hot /\ readIdx # hot
  BY DEF Waited, ReaderKnows, Sides
<1>2. members[readIdx] = Finished(readIdx)
  BY <1>1, AllFinished DEF Waited, ReaderKnows, CountsExact, MembersFinite
<1>3. \A i \in Sides : members'[i] = IF i = readIdx THEN {} ELSE members[i]
  BY DEF Waited
<1>4. \A i \in Sides : Finished(i)' = IF i = readIdx THEN {} ELSE Finished(i)
  BY <1>3 DEF Waited, Finished
<1>5. MembersFinite'
  BY <1>3, FS_EmptySet DEF MembersFinite
<1>6. CountsExact'
  BY <1>1, <1>3, <1>4, FS_EmptySet DEF CountsExact, Waited, Emptied
<1>7. WritersAreMembers'
  BY <1>2, <1>3 DEF WritersAreMembers, Waited, Finished
<1>8. GroupTypeOK'
  BY <1>3 DEF Waited, Emptied, ReaderPhases
<1>9. ReaderKnows'
  BY <1>1, <1>3 DEF ReaderKnows, Waited
<1>10. QED  BY <1>5, <1>6, <1>7, <1>8, <1>9

(* Every step preserves the invariant.                                     *)
LEMMA GroupNextInv == GroupInv /\ [GroupNext]_groupVars => GroupInv'
<1> SUFFICES ASSUME GroupInv, [GroupNext]_groupVars PROVE GroupInv'
  OBVIOUS
<1>1. CASE GroupNext
  BY <1>1, StartInv, DoneInv, SwapLoadInv, SwapInv, WaitedInv DEF GroupNext
<1>2. CASE UNCHANGED groupVars
  BY <1>2 DEF groupVars, GroupInv, GroupTypeOK, MembersFinite, CountsExact, Finished,
              WritersAreMembers, ReaderKnows
<1>3. QED  BY <1>1, <1>2

-----------------------------------------------------------------------------
(* The counts are those of the members in every reachable state.           *)
THEOREM GroupInvariant == GroupSpec => []GroupInv
<1>1. QED  BY GroupInitInv, GroupNextInv, PTL DEF GroupSpec

(* The invariant gives the reader its side alone.                          *)
LEMMA InvExclusive == GroupInv => Exclusive
BY DEF GroupInv, GroupTypeOK, WritersAreMembers, ReaderKnows, Exclusive, Sides

(* Whatever the writers do, the reader never reads a side that one of them *)
(* is working on.                                                          *)
THEOREM ReaderIsAlone == GroupSpec => []Exclusive
<1>1. QED  BY GroupInvariant, InvExclusive, PTL

(* When no member of its side is at work, all of them have been counted.   *)
LEMMA InvSpinsForSomeone == GroupInv => SpinsForSomeone
<1> SUFFICES ASSUME GroupInv, reader = "waiting",
                    \A w \in Writers : writer[w] = "in" => side[w] # readIdx
             PROVE owed = ended[readIdx]
  BY DEF SpinsForSomeone
<1>1. readIdx \in Sides
  BY DEF GroupInv, GroupTypeOK
<1>2. members[readIdx] = Finished(readIdx)
  BY <1>1 DEF GroupInv, GroupTypeOK, WritersAreMembers, Finished
<1>3. QED
  BY <1>1, <1>2 DEF GroupInv, CountsExact, ReaderKnows

(* The spinning load always has a writer to wait for.                      *)
THEOREM ReaderSpinsForSomeone == GroupSpec => []SpinsForSomeone
<1>1. QED  BY GroupInvariant, InvSpinsForSomeone, PTL

-----------------------------------------------------------------------------
(* The histogram.                                                          *)
USE HistogramAssumption

-----------------------------------------------------------------------------
(* The bucket of a value is the one its definition says.                   *)
LEMMA BucketAsDefined ==
  ASSUME NEW v \in Int
  PROVE  /\ Bucket(v) \in Buckets
         /\ \A b \in Buckets : Bucket(v) = b <=> InBucket(b, v)
<1> DEFINE L == Len(Bounds)
           S == {i \in Buckets : i = L \/ Bounds[i + 1] >= v}
<1>1. L \in Nat /\ DOMAIN Bounds = 1..L /\ \A i \in 1..L : Bounds[i] \in Int
  OBVIOUS
<1>2. \A i, j \in 1..L : i < j => Bounds[i] <= Bounds[j]
  BY <1>1
<1>3. Buckets = 0..L  BY DEF Buckets
<1> HIDE DEF L
<1>4. L \in S /\ S \subseteq Nat  BY <1>1, <1>3
<1>5. PICK b \in S : \A i \in S : b <= i
  <2> DEFINE R == OpToRel(<, Nat)
  <2>1. IsWellFoundedOn(R, Nat)  BY NatLessThanWellFounded
  <2>2. \A x, y \in Nat : y < x => <<y, x>> \in R  BY DEF OpToRel
  <2> HIDE DEF R
  <2> HIDE DEF S
  <2>3. \E x \in S : \A y \in S : ~ (<<y, x>> \in R)  BY <1>4, <2>1, WFMin
  <2>4. PICK b \in S : \A y \in S : ~ (<<y, b>> \in R)  BY <2>3
  <2>5. ASSUME NEW i \in S PROVE b <= i
    <3>1. i \in Nat /\ b \in Nat  BY <1>4
    <3>2. ~ (i < b)  BY <2>2, <2>4, <3>1
    <3>3. QED  BY <3>1, <3>2
  <2>6. QED  BY <2>5
<1>6. Bucket(v) \in S /\ \A i \in S : Bucket(v) <= i
  BY <1>5 DEF Bucket, Min, L
<1>7. ASSUME NEW c \in Buckets, Bucket(v) = c PROVE InBucket(c, v)
  <2>1. c = L \/ Bounds[c + 1] >= v  BY <1>6, <1>7
  <2>2. ASSUME c > 0 PROVE Bounds[c] < v
    <3>1. c - 1 \notin S  BY <1>3, <1>6, <1>7, <2>2
    <3>2. c - 1 \in Buckets /\ c - 1 # L /\ c \in 1..L /\ (c - 1) + 1 = c
      BY <1>1, <1>3, <2>2
    <3>3. QED  BY <1>1, <3>1, <3>2
  <2>3. QED  BY <1>1, <2>1, <2>2 DEF InBucket, L
<1>8. ASSUME NEW c \in Buckets, InBucket(c, v) PROVE Bucket(v) = c
  <2>1. c \in S
    <3>1. c < L => v <= Bounds[c + 1]  BY <1>8 DEF InBucket, L
    <3>2. c \in 0..L /\ (c < L => c + 1 \in 1..L)  BY <1>1, <1>3
    <3>3. c < L => Bounds[c + 1] \in Int  BY <1>1, <3>2
    <3>4. c = L \/ Bounds[c + 1] >= v  BY <1>1, <3>1, <3>2, <3>3
    <3>5. QED  BY <3>4
  <2>2. Bucket(v) \in 0..L /\ Bucket(v) <= c  BY <1>3, <1>6, <2>1
  <2>3. ASSUME Bucket(v) < c PROVE FALSE
    <3> DEFINE k == Bucket(v)
    <3>1. k \in 0..L /\ k < c /\ c \in 0..L  BY <1>3, <2>2, <2>3
    <3>2. k \in S  BY <1>6
    <3> HIDE DEF k
    <3>3. k + 1 \in 1..L /\ c \in 1..L /\ k # L /\ k + 1 <= c  BY <1>1, <3>1
    <3>4. Bounds[k + 1] >= v  BY <3>2, <3>3
    <3>5. Bounds[c] < v  BY <1>8, <3>1, <3>3 DEF InBucket
    <3>6. Bounds[k + 1] <= Bounds[c]  BY <1>1, <1>2, <3>3
    <3>7. QED  BY <1>1, <3>3, <3>4, <3>5, <3>6
  <2>4. QED  BY <1>1, <1>3, <2>2, <2>3
<1>9. QED  BY <1>6, <1>7, <1>8

-----------------------------------------------------------------------------
(* Where the writers are.                                                  *)
LEMMA AtHome ==
  ASSUME GroupInv, SeenOrHot, NEW w \in Writers, writer[w] = "in"
  PROVE  /\ side[w] \in Sides /\ hot \in Sides
         /\ side[w] = hot => w \in members[hot] /\ w \notin seen
         /\ side[w] # hot => /\ w \in seen /\ w \notin members[hot]
                             /\ reader = "waiting" /\ side[w] = readIdx
<1>1. side[w] \in Sides /\ hot \in Sides /\ readIdx \in Sides /\ w \in members[side[w]]
  BY DEF GroupInv, GroupTypeOK, WritersAreMembers
<1>2. w \in Entered  BY DEF Entered
<1>3. side[w] = hot => w \notin seen  BY <1>1 DEF SeenOrHot
<1>4. ASSUME side[w] # hot
      PROVE  w \notin members[hot] /\ reader = "waiting" /\ side[w] = readIdx
  <2>1. w \notin members[hot]
    BY <1>1, <1>4 DEF GroupInv, WritersAreMembers
  <2>2. side[w] = 1 - hot  BY <1>1, <1>4 DEF Sides
  <2>3. QED  BY <1>1, <2>1, <2>2 DEF GroupInv, ReaderKnows
<1>5. QED  BY <1>1, <1>2, <1>3, <1>4 DEF SeenOrHot

(* One that is at work has its place on its side, and no other.            *)
LEMMA OnePlace ==
  ASSUME GroupInv, SeenOrHot, NEW w \in Writers, writer[w] = "in",
         NEW m \in BOOLEAN, reader = "waiting" => ~m, NEW i \in Sides
  PROVE  w \in Place(i, m) <=> i = side[w]
<1>1. w \in Entered  BY DEF Entered
<1>2. QED  BY <1>1, AtHome DEF Place, Sides

(* What is seen has returned when the reader has its side.                 *)
LEMMA SeenReturned ==
  ASSUME GroupInv, StepsOK, SeenOrHot, reader = "reading", NEW w \in seen
  PROVE  w \in Writers /\ writer[w] = "out" /\ step[w] = "returned"
<1>1. w \in Writers /\ writer[w] \in {"in", "out"}
  BY DEF SeenOrHot, Entered, GroupInv, GroupTypeOK
<1>2. writer[w] # "in"  BY <1>1, AtHome
<1>3. QED  BY <1>1, <1>2 DEF StepsOK

LEMMA PlacesFinite ==
  ASSUME GroupInv, SeenOrHot, NEW i \in Sides, NEW m
  PROVE  IsFiniteSet(Place(i, m)) /\ Place(i, m) \subseteq Writers
<1>1. hot \in Sides /\ IsFiniteSet(members[hot]) /\ members[hot] \subseteq Writers
  BY DEF GroupInv, GroupTypeOK, MembersFinite
<1>2. IsFiniteSet(seen) /\ Entered = seen \union members[hot]  BY DEF SeenOrHot
<1>3. IsFiniteSet(Entered)  BY <1>1, <1>2, FS_Union
<1>4. Entered \subseteq Writers  BY DEF Entered
<1>5. QED  BY <1>1, <1>2, <1>3, <1>4, FS_EmptySet DEF Place

(* A step that moves nobody moves no place.                                *)
LEMMA SamePlaces ==
  ASSUME UNCHANGED <<hot, seen>>, members'[hot] = members[hot], Entered' = Entered
  PROVE  \A i, m : Place(i, m)' = Place(i, m)
BY DEF Place

-----------------------------------------------------------------------------
(* The histogram's steps are the group's, or leave it alone.               *)
LEMMA GroupSteps == [Next]_vars => [GroupNext]_groupVars
BY DEF Next, vars, GroupNext, groupVars, Measure, MeasureStep, MeasureStart, MeasureCount,
       MeasureMin, MeasureMax, MeasureSum, MeasureDone, Collect, CollectStart, CollectSwap,
       CollectWaited, CollectRead, MergeCounts, MergeExtrema, MergeSum

LEMMA ExtremaTyped ==
  ASSUME NEW e \in [set : BOOLEAN, min : Int, max : Int], NEW v \in Int
  PROVE  /\ WithMin(e, v) \in [set : BOOLEAN, min : Int, max : Int]
         /\ WithMax(e, v) \in [set : BOOLEAN, min : Int, max : Int]
BY DEF WithMin, WithMax

LEMMA HotAndCold ==
  ASSUME GroupInv, StepsOK, merge # "none"
  PROVE  /\ hot \in Sides /\ readIdx \in Sides /\ readIdx = 1 - hot /\ readIdx # hot
         /\ hotIdx = hot /\ reader = "reading"
<1>1. hot \in {0, 1} /\ readIdx = 1 - hot /\ reader = "reading"
  BY DEF GroupInv, GroupTypeOK, ReaderKnows, StepsOK, Sides
<1>2. (hot = 0 /\ readIdx = 1) \/ (hot = 1 /\ readIdx = 0)  BY <1>1
<1>3. (1 + 1) % 2 = 0 /\ (0 + 1) % 2 = 1  OBVIOUS
<1>4. QED  BY <1>1, <1>2, <1>3 DEF Sides, hotIdx

LEMMA MeasureSteps ==
  ASSUME StepsOK, GroupInv, NEW w \in Writers, Measure(w)
  PROVE  StepsOK'
<1>0. Value[w] \in Int /\ Bucket(Value[w]) \in Buckets /\ side[w] \in Sides
  BY BucketAsDefined DEF GroupInv, GroupTypeOK
<1>1. CASE MeasureStart(w)
  BY <1>1 DEF MeasureStart, Start, StepsOK, pointVars, GroupInv, GroupTypeOK
<1>2. CASE MeasureCount(w)
  <2>1. counts' \in [Sides -> [Buckets -> Nat]]  BY <1>0, <1>2 DEF MeasureCount, StepsOK
  <2>2. QED  BY <1>2, <2>1 DEF MeasureCount, StepsOK, groupVars
<1>3. CASE MeasureMin(w)
  <2>1. WithMin(extrema[side[w]], Value[w]) \in [set : BOOLEAN, min : Int, max : Int]
    BY <1>0, ExtremaTyped DEF StepsOK
  <2>2. QED  BY <1>3, <2>1 DEF MeasureMin, StepsOK, groupVars
<1>4. CASE MeasureMax(w)
  <2>1. WithMax(extrema[side[w]], Value[w]) \in [set : BOOLEAN, min : Int, max : Int]
    BY <1>0, ExtremaTyped DEF StepsOK
  <2>2. QED  BY <1>4, <2>1 DEF MeasureMax, StepsOK, groupVars
<1>5. CASE MeasureSum(w)
  <2>1. total' \in [Sides -> Int]  BY <1>0, <1>5 DEF MeasureSum, StepsOK
  <2>2. QED  BY <1>5, <2>1 DEF MeasureSum, StepsOK, groupVars
<1>6. CASE MeasureDone(w)
  BY <1>6 DEF MeasureDone, Done, StepsOK, pointVars, GroupInv, GroupTypeOK
<1>7. QED  BY <1>1, <1>2, <1>3, <1>4, <1>5, <1>6 DEF Measure, MeasureStep

LEMMA CollectSteps ==
  ASSUME StepsOK, GroupInv, Collect
  PROVE  StepsOK'
<1>1. CASE CollectStart
  BY <1>1 DEF CollectStart, SwapLoad, StepsOK, pointVars
<1>2. CASE CollectSwap
  BY <1>2 DEF CollectSwap, Swap, StepsOK, pointVars
<1>3. CASE CollectWaited
  BY <1>3 DEF CollectWaited, Waited, StepsOK, pointVars
<1>4. CASE CollectRead
  BY <1>4 DEF CollectRead, StepsOK, pointVars, groupVars
<1>5. CASE MergeCounts
  <2>1. merge # "none"  BY <1>5 DEF MergeCounts
  <2> DEFINE cold == [b \in Buckets |-> 0]
             merged == [b \in Buckets |-> counts[hotIdx][b] + counts[readIdx][b]]
  <2>2. cold \in [Buckets -> Nat] /\ merged \in [Buckets -> Nat]
    BY <2>1, HotAndCold DEF StepsOK
  <2>3. counts' = [counts EXCEPT ![hotIdx] = merged, ![readIdx] = cold]
    BY <1>5 DEF MergeCounts
  <2> HIDE DEF cold, merged
  <2>4. counts' \in [Sides -> [Buckets -> Nat]]  BY <2>2, <2>3 DEF StepsOK
  <2>5. QED  BY <1>5, <2>4 DEF MergeCounts, StepsOK, groupVars
<1>6. CASE MergeExtrema
  <2>1. merge \in {"min1", "max1", "min2", "max2"}  BY <1>6 DEF MergeExtrema
  <2>2. hotIdx \in Sides /\ readIdx \in Sides  BY <2>1, HotAndCold
  <2>3. extrema' \in [Sides -> [set : BOOLEAN, min : Int, max : Int]]
    <3>1. \A i \in Sides : extrema[i] \in [set : BOOLEAN, min : Int, max : Int]
      BY DEF StepsOK
    <3>2. extrema[readIdx].min \in Int /\ extrema[readIdx].max \in Int  BY <2>2, <3>1
    <3>3. \E e \in [set : BOOLEAN, min : Int, max : Int] :
            extrema' = [extrema EXCEPT ![hotIdx] = e]
      BY <1>6, <2>2, <3>1, <3>2, ExtremaTyped DEF MergeExtrema
    <3>4. QED  BY <3>3 DEF StepsOK
  <2>4. QED  BY <1>6, <2>3 DEF MergeExtrema, StepsOK, groupVars
<1>7. CASE MergeSum
  <2>1. merge # "none"  BY <1>7 DEF MergeSum
  <2>2. total' \in [Sides -> Int]
    BY <1>7, <2>1, HotAndCold DEF MergeSum, StepsOK, AfterMerge
  <2>3. QED  BY <1>7, <2>2 DEF MergeSum, StepsOK, groupVars
<1>8. QED  BY <1>1, <1>2, <1>3, <1>4, <1>5, <1>6, <1>7 DEF Collect

(* A measurement begins on the hot side; the swap sees all that have begun.*)
LEMMA SeenStep ==
  ASSUME SeenOrHot, GroupInv, StepsOK, [Next]_vars
  PROVE  SeenOrHot'
<1>0. hot \in Sides /\ members \in [Sides -> SUBSET Writers] /\ IsFiniteSet(members[hot])
  BY DEF GroupInv, GroupTypeOK, MembersFinite
<1>1. ASSUME NEW w \in Writers, MeasureStart(w) PROVE SeenOrHot'
  <2>1. w \notin Entered /\ Entered' = Entered \union {w}
    BY <1>1 DEF MeasureStart, Start, Entered, GroupInv, GroupTypeOK
  <2>2. members'[hot'] = members[hot] \union {w} /\ seen' = seen
    BY <1>0, <1>1 DEF MeasureStart, Start
  <2>3. QED  BY <2>1, <2>2 DEF SeenOrHot
<1>2. ASSUME NEW w \in Writers, MeasureStep(w) PROVE SeenOrHot'
  <2>1. UNCHANGED <<hot, members, seen>>
    BY <1>2 DEF MeasureStep, MeasureCount, MeasureMin, MeasureMax, MeasureSum, MeasureDone,
                Done, groupVars
  <2>2. Entered' = Entered
    BY <1>2 DEF MeasureStep, MeasureCount, MeasureMin, MeasureMax, MeasureSum, MeasureDone,
                Done, groupVars, Entered, GroupInv, GroupTypeOK
  <2>3. QED  BY <2>1, <2>2 DEF SeenOrHot
<1>3. CASE CollectSwap
  <2>1. seen' = Entered /\ Entered' = Entered  BY <1>3 DEF CollectSwap, Swap, Entered
  <2>2. hot' = 1 - hot /\ members' = members /\ members[1 - hot] = {}
    BY <1>3 DEF CollectSwap, Swap, GroupInv, ReaderKnows
  <2>3. IsFiniteSet(Entered)  BY <1>0, FS_Union DEF SeenOrHot
  <2>4. QED  BY <2>1, <2>2, <2>3 DEF SeenOrHot
<1>4. CASE CollectStart \/ CollectRead \/ MergeCounts \/ MergeExtrema \/ MergeSum
           \/ UNCHANGED vars
  <2>1. UNCHANGED <<hot, members, writer, seen>>
    BY <1>4 DEF CollectStart, SwapLoad, CollectRead, MergeCounts, MergeExtrema, MergeSum,
                groupVars, vars
  <2>2. QED  BY <2>1 DEF SeenOrHot, Entered
<1>5. CASE CollectWaited
  <2>1. UNCHANGED <<hot, writer, seen>> /\ readIdx \in Sides /\ readIdx # hot
    BY <1>0, <1>5 DEF CollectWaited, Waited, GroupInv, ReaderKnows, Sides
  <2>2. members'[hot] = members[hot]  BY <1>0, <1>5, <2>1 DEF CollectWaited, Waited
  <2>3. QED  BY <2>1, <2>2 DEF SeenOrHot, Entered
<1>6. QED
  BY <1>1, <1>2, <1>3, <1>4, <1>5 DEF Next, Measure, Collect

-----------------------------------------------------------------------------
(* The counts and the sums of the points.                                  *)
CountSet(i, m, b) == {w \in Place(i, m) \intersect Counted : Bucket(Value[w]) = b}
TotalSet(i, m) == Place(i, m) \intersect AddedUp

LEMMA SetsFinite ==
  ASSUME GroupInv, SeenOrHot, NEW i \in Sides, NEW m, NEW b
  PROVE  /\ IsFiniteSet(CountSet(i, m, b)) /\ IsFiniteSet(TotalSet(i, m))
         /\ CountSet(i, m, b) \subseteq Writers /\ TotalSet(i, m) \subseteq Writers
BY PlacesFinite, FS_Subset DEF CountSet, TotalSet

LEMMA DisjointCardinality ==
  ASSUME NEW S, IsFiniteSet(S), NEW T, IsFiniteSet(T), S \intersect T = {}
  PROVE  Cardinality(S \union T) = Cardinality(S) + Cardinality(T)
<1>1. Cardinality(S \intersect T) = 0  BY FS_EmptySet
<1>2. Cardinality(S) \in Nat /\ Cardinality(T) \in Nat  BY FS_CardinalityType
<1>3. Cardinality(S \union T) = Cardinality(S) + Cardinality(T) - Cardinality(S \intersect T)
  BY FS_Union
<1>4. QED  BY <1>1, <1>2, <1>3

(* A step that changes nothing of what the counts, or the sums, are about. *)
LEMMA CountsKept ==
  ASSUME CountsRight, UNCHANGED <<counts, CountsMerged, Counted>>,
         \A i \in Sides : Place(i, CountsMerged)' = Place(i, CountsMerged)
  PROVE  CountsRight'
BY DEF CountsRight

LEMMA SumsKept ==
  ASSUME SumsRight, UNCHANGED <<total, SumMerged, AddedUp>>,
         \A i \in Sides : Place(i, SumMerged)' = Place(i, SumMerged)
  PROVE  SumsRight'
BY DEF SumsRight

LEMMA SumOfIsSum == \A M : SumOf(M) = SumOn(Value, M)
BY DEF SumOf, SumOn

(* The places of the counts, before and after a step.                      *)
LEMMA PlacesKept ==
  ASSUME SeenOrHot, GroupInv, StepsOK,
         \/ \E w \in Writers : MeasureStep(w)
         \/ CollectStart \/ CollectSwap \/ CollectWaited \/ CollectRead
         \/ MergeCounts \/ MergeExtrema \/ MergeSum \/ UNCHANGED vars
  PROVE  /\ ~MergeCounts => \A i \in Sides : Place(i, CountsMerged)' = Place(i, CountsMerged)
         /\ ~MergeSum => \A i \in Sides : Place(i, SumMerged)' = Place(i, SumMerged)
         /\ ~CollectSwap => \A i, m : Place(i, m)' = Place(i, m)
<1>0. hot \in Sides /\ members \in [Sides -> SUBSET Writers]
  BY DEF GroupInv, GroupTypeOK
<1>1. ASSUME NEW w \in Writers, MeasureStep(w)
      PROVE  UNCHANGED <<hot, members, seen, Entered, reader, merge>>
  BY <1>1 DEF MeasureStep, MeasureCount, MeasureMin, MeasureMax, MeasureSum, MeasureDone,
              Done, groupVars, Entered, GroupInv, GroupTypeOK
<1>2. CASE CollectStart \/ CollectRead \/ MergeCounts \/ MergeExtrema \/ MergeSum
           \/ UNCHANGED vars
  <2>1. UNCHANGED <<hot, members, writer, seen>>
    BY <1>2 DEF CollectStart, SwapLoad, CollectRead, MergeCounts, MergeExtrema, MergeSum,
                groupVars, vars
  <2>2. \A i, m : Place(i, m)' = Place(i, m)
    BY <2>1, SamePlaces DEF Entered
  <2>3. ~MergeCounts => CountsMerged' = CountsMerged
    BY <1>2 DEF CollectStart, SwapLoad, CollectRead, MergeExtrema, MergeSum, groupVars, vars,
                CountsMerged, StepsOK
  <2>4. ~MergeSum => SumMerged' = SumMerged
    BY <1>2 DEF CollectStart, SwapLoad, CollectRead, MergeCounts, MergeExtrema, groupVars,
                vars, SumMerged, StepsOK
  <2>5. QED  BY <2>2, <2>3, <2>4
<1>3. CASE CollectWaited
  <2>1. UNCHANGED <<hot, writer, seen>> /\ readIdx \in Sides /\ readIdx # hot
    BY <1>0, <1>3 DEF CollectWaited, Waited, GroupInv, ReaderKnows, Sides
  <2>2. members'[hot] = members[hot]  BY <1>0, <1>3, <2>1 DEF CollectWaited, Waited
  <2>3. \A i, m : Place(i, m)' = Place(i, m)  BY <2>1, <2>2, SamePlaces DEF Entered
  <2>4. CountsMerged' = CountsMerged /\ SumMerged' = SumMerged
    BY <1>3 DEF CollectWaited, Waited, CountsMerged, SumMerged
  <2>5. QED  BY <2>3, <2>4
<1>4. CASE CollectSwap
  <2>1. seen' = Entered /\ hot' = 1 - hot /\ members' = members /\ members[1 - hot] = {}
    BY <1>4 DEF CollectSwap, Swap, Entered, GroupInv, ReaderKnows
  <2>2. /\ CountsMerged /\ SumMerged /\ ~CountsMerged' /\ ~SumMerged'
        /\ CollectSwap /\ ~MergeCounts /\ ~MergeSum
    BY <1>4 DEF CollectSwap, Swap, CountsMerged, SumMerged, StepsOK, MergeCounts, MergeSum,
                groupVars
  <2>3. \A i \in Sides : Place(i, FALSE)' = Place(i, TRUE)
    BY <1>0, <2>1 DEF Place, Sides
  <2>4. QED  BY <2>2, <2>3 DEF Place
<1>5. CASE \E w \in Writers : MeasureStep(w)
  <2>1. UNCHANGED <<hot, members, seen, Entered, reader, merge>>  BY <1>1, <1>5
  <2>2. \A i, m : Place(i, m)' = Place(i, m)  BY <2>1, SamePlaces
  <2>3. CountsMerged' = CountsMerged /\ SumMerged' = SumMerged
    BY <2>1 DEF CountsMerged, SumMerged
  <2>4. QED  BY <2>2, <2>3
<1>6. QED  BY <1>2, <1>3, <1>4, <1>5

LEMMA StartPlaces ==
  ASSUME SeenOrHot, GroupInv, StepsOK, NEW w \in Writers, MeasureStart(w)
  PROVE  /\ UNCHANGED <<hot, seen, CountsMerged, SumMerged, Counted, AddedUp, pointVars>>
         /\ w \notin Counted /\ w \notin AddedUp
         /\ \A i, m : Place(i, m)' \in {Place(i, m), Place(i, m) \union {w}}
<1>0. hot \in Sides /\ members \in [Sides -> SUBSET Writers]
  BY DEF GroupInv, GroupTypeOK
<1>1. UNCHANGED <<hot, seen, CountsMerged, SumMerged, pointVars>>
  BY DEF MeasureStart, Start, CountsMerged, SumMerged
<1>2. /\ UNCHANGED <<Counted, AddedUp>>
      /\ w \notin Counted /\ w \notin AddedUp
  BY DEF MeasureStart, Start, Counted, AddedUp, StepsOK
<1>3. members'[hot] = members[hot] \union {w} /\ Entered' = Entered \union {w}
  BY <1>0 DEF MeasureStart, Start, Entered, GroupInv, GroupTypeOK
<1>4. QED  BY <1>1, <1>2, <1>3 DEF Place

LEMMA CountsStep ==
  ASSUME CountsRight, SeenOrHot, GroupInv, StepsOK, [Next]_vars
  PROVE  CountsRight'
<1>0. hot \in Sides /\ 1 - hot \in Sides  BY DEF GroupInv, GroupTypeOK, Sides
<1>1. ASSUME NEW w \in Writers, MeasureStart(w) PROVE CountsRight'
  <2>1. \A i, m : Place(i, m)' \intersect Counted' = Place(i, m) \intersect Counted
    BY <1>1, StartPlaces
  <2>2. UNCHANGED <<counts, CountsMerged>>  BY <1>1, StartPlaces DEF pointVars
  <2>3. QED  BY <2>1, <2>2 DEF CountsRight
<1>2. ASSUME NEW w \in Writers, MeasureCount(w) PROVE CountsRight'
  <2>1. writer[w] = "in" /\ step[w] = "count" /\ Counted' = Counted \union {w} /\ w \notin Counted
    BY <1>2 DEF MeasureCount, StepsOK, Counted, GroupInv, GroupTypeOK
  <2>2. side[w] \in Sides /\ Bucket(Value[w]) \in Buckets /\ Value[w] \in Int
    BY <2>1, AtHome, BucketAsDefined
  <2>3. ~MergeCounts /\ ~CollectSwap /\ MeasureStep(w)
    <3>1. UNCHANGED <<merge, reader>>  BY <1>2 DEF MeasureCount, groupVars
    <3>2. MergeCounts => merge' # merge  BY DEF MergeCounts
    <3>3. CollectSwap => reader' # reader  BY DEF CollectSwap, Swap
    <3>4. QED  BY <1>2, <3>1, <3>2, <3>3 DEF MeasureStep
  <2>4. \A i, m : Place(i, m)' = Place(i, m)  BY <2>3, PlacesKept
  <2>5. CountsMerged' = CountsMerged  BY <1>2 DEF MeasureCount, groupVars, CountsMerged
  <2> DEFINE M == CountsMerged
  <2>6. M \in BOOLEAN /\ (reader = "waiting" => ~M)  BY DEF CountsMerged
  <2>7. ASSUME NEW i \in Sides, NEW b \in Buckets
        PROVE  counts'[i][b] = Cardinality(CountSet(i, M, b)')
    <3>1. CASE i = side[w] /\ b = Bucket(Value[w])
      <4>1. w \in Place(i, M)  BY <2>1, <2>6, <3>1, OnePlace
      <4>2. CountSet(i, M, b)' = CountSet(i, M, b) \union {w} /\ w \notin CountSet(i, M, b)
        BY <2>1, <2>4, <2>5, <3>1, <4>1 DEF CountSet
      <4>3. Cardinality(CountSet(i, M, b)') = Cardinality(CountSet(i, M, b)) + 1
        BY <4>2, SetsFinite, FS_AddElement
      <4>4. counts'[i][b] = counts[i][b] + 1  BY <1>2, <2>2, <3>1 DEF MeasureCount, StepsOK
      <4>5. QED  BY <4>3, <4>4 DEF CountsRight, CountSet
    <3>2. CASE ~(i = side[w] /\ b = Bucket(Value[w]))
      <4>1. i = side[w] \/ w \notin Place(i, M)  BY <2>1, <2>6, OnePlace
      <4>2. CountSet(i, M, b)' = CountSet(i, M, b)
        BY <2>1, <2>4, <2>5, <3>2, <4>1 DEF CountSet
      <4>3. counts'[i][b] = counts[i][b]  BY <1>2, <2>2, <3>2 DEF MeasureCount, StepsOK
      <4>4. QED  BY <4>2, <4>3 DEF CountsRight, CountSet
    <3>3. QED  BY <3>1, <3>2
  <2>8. QED  BY <2>7 DEF CountsRight, CountSet
<1>3. ASSUME NEW w \in Writers,
             MeasureMin(w) \/ MeasureMax(w) \/ MeasureSum(w) \/ MeasureDone(w)
      PROVE  CountsRight'
  <2>1. UNCHANGED <<counts, Counted, CountsMerged>>
    BY <1>3 DEF MeasureMin, MeasureMax, MeasureSum, MeasureDone, Done, Counted, StepsOK,
                CountsMerged, groupVars, pointVars
  <2>2. ~MergeCounts /\ MeasureStep(w)
    BY <1>3 DEF MeasureStep, MergeCounts, MeasureMin, MeasureMax, MeasureSum, MeasureDone,
                StepsOK
  <2>3. QED  BY <2>1, <2>2, PlacesKept, CountsKept
<1>4. CASE MergeCounts
  <2>1. merge = "counts" /\ merge' \in {"min1", "sum"} /\ UNCHANGED <<groupVars, step, seen>>
    BY <1>4 DEF MergeCounts
  <2>2. PICK k \in Sides, c \in Sides :
          /\ k = hot /\ c = readIdx /\ hotIdx = k /\ k # c /\ c = 1 - k
          /\ reader = "reading"
    BY <2>1, HotAndCold
  <2>3. CountsMerged = FALSE /\ CountsMerged' = TRUE
    BY <2>1, <2>2 DEF CountsMerged, groupVars
  <2>4. Counted' = Counted /\ Entered' = Entered /\ hot' = k
    BY <2>1, <2>2 DEF Counted, Entered, groupVars
  <2>5. /\ Place(k, TRUE)' = Place(k, FALSE) \union Place(c, FALSE)
        /\ Place(k, FALSE) \intersect Place(c, FALSE) = {}
        /\ Place(c, TRUE)' = {}
    BY <2>1, <2>2, <2>4 DEF Place, SeenOrHot
  <2>6. ASSUME NEW b \in Buckets PROVE counts'[k][b] = Cardinality(CountSet(k, TRUE, b)')
    <3> DEFINE A == CountSet(k, FALSE, b)
               B == CountSet(c, FALSE, b)
               merged == [d \in Buckets |-> counts[k][d] + counts[c][d]]
               empty == [d \in Buckets |-> 0]
    <3>1. counts' = [counts EXCEPT ![k] = merged, ![c] = empty]
      BY <1>4, <2>2 DEF MergeCounts
    <3>2. merged[b] = counts[k][b] + counts[c][b]  OBVIOUS
    <3>3. counts'[k][b] = counts[k][b] + counts[c][b]
      <4> HIDE DEF merged, empty
      <4>1. QED  BY <2>2, <3>1, <3>2 DEF StepsOK
    <3>4. counts[k][b] = Cardinality(A) /\ counts[c][b] = Cardinality(B)
      BY <2>3 DEF CountsRight, CountSet, Place
    <3>5. CountSet(k, TRUE, b)' = A \union B /\ A \intersect B = {}
      BY <2>4, <2>5 DEF CountSet
    <3>6. IsFiniteSet(A) /\ IsFiniteSet(B)  BY SetsFinite
    <3> HIDE DEF A, B
    <3>7. Cardinality(A \union B) = Cardinality(A) + Cardinality(B)
      BY <3>5, <3>6, DisjointCardinality
    <3>8. QED  BY <3>3, <3>4, <3>5, <3>7
  <2>7. ASSUME NEW b \in Buckets PROVE counts'[c][b] = Cardinality(CountSet(c, TRUE, b)')
    <3>1. counts'[c][b] = 0  BY <1>4, <2>2 DEF MergeCounts, StepsOK
    <3>2. CountSet(c, TRUE, b)' = {}  BY <2>5 DEF CountSet
    <3>3. QED  BY <3>1, <3>2, FS_EmptySet
  <2>8. \A i \in Sides : i = k \/ i = c  BY <2>2 DEF Sides
  <2>9. ASSUME NEW i \in Sides, NEW b \in Buckets
        PROVE  counts'[i][b] = Cardinality(CountSet(i, TRUE, b)')
    BY <2>6, <2>7, <2>8
  <2>10. QED  BY <2>3, <2>9 DEF CountsRight, CountSet, Place
<1>5. CASE \/ CollectStart \/ CollectSwap \/ CollectWaited \/ CollectRead
           \/ MergeExtrema \/ MergeSum \/ UNCHANGED vars
  <2>1. UNCHANGED <<counts, Counted>>
    BY <1>5 DEF CollectStart, CollectSwap, CollectWaited, CollectRead, MergeExtrema, MergeSum,
                vars, Counted, pointVars
  <2>2. CASE ~MergeCounts
    <3>1. \A i \in Sides : Place(i, CountsMerged)' = Place(i, CountsMerged)
      BY <1>5, <2>2, PlacesKept
    <3>2. QED  BY <2>1, <3>1 DEF CountsRight
  <2>3. QED  BY <1>4, <2>2
<1>6. QED
  BY <1>1, <1>2, <1>3, <1>4, <1>5 DEF Next, Measure, MeasureStep, Collect

LEMMA SumsStep ==
  ASSUME SumsRight, SeenOrHot, GroupInv, StepsOK, [Next]_vars
  PROVE  SumsRight'
<1>0. hot \in Sides /\ 1 - hot \in Sides  BY DEF GroupInv, GroupTypeOK, Sides
<1>1. ASSUME NEW w \in Writers, MeasureStart(w) PROVE SumsRight'
  <2>1. \A i, m : Place(i, m)' \intersect AddedUp' = Place(i, m) \intersect AddedUp
    BY <1>1, StartPlaces
  <2>2. UNCHANGED <<total, SumMerged>>  BY <1>1, StartPlaces DEF pointVars
  <2>3. QED  BY <2>1, <2>2 DEF SumsRight
<1>2. ASSUME NEW w \in Writers, MeasureSum(w) PROVE SumsRight'
  <2>1. writer[w] = "in" /\ step[w] = "sum" /\ AddedUp' = AddedUp \union {w} /\ w \notin AddedUp
    BY <1>2 DEF MeasureSum, StepsOK, AddedUp, GroupInv, GroupTypeOK
  <2>2. side[w] \in Sides /\ Value[w] \in Int  BY <2>1, AtHome
  <2>3. ~MergeSum /\ ~CollectSwap /\ MeasureStep(w)
    <3>1. UNCHANGED <<merge, reader>>  BY <1>2 DEF MeasureSum, groupVars
    <3>2. MergeSum => merge' # merge  BY DEF MergeSum
    <3>3. CollectSwap => reader' # reader  BY DEF CollectSwap, Swap
    <3>4. QED  BY <1>2, <3>1, <3>2, <3>3 DEF MeasureStep
  <2>4. \A i, m : Place(i, m)' = Place(i, m)  BY <2>3, PlacesKept
  <2>5. SumMerged' = SumMerged  BY <1>2 DEF MeasureSum, groupVars, SumMerged
  <2> DEFINE M == SumMerged
  <2>6. M \in BOOLEAN /\ (reader = "waiting" => ~M)  BY DEF SumMerged
  <2>7. ASSUME NEW i \in Sides PROVE total'[i] = SumOf(TotalSet(i, M)')
    <3>1. CASE i = side[w]
      <4>1. w \in Place(i, M)  BY <2>1, <2>6, <3>1, OnePlace
      <4>2. TotalSet(i, M)' = TotalSet(i, M) \union {w} /\ w \notin TotalSet(i, M)
        BY <2>1, <2>4, <2>5, <4>1 DEF TotalSet
      <4>3. \A v \in TotalSet(i, M) \union {w} : Value[v] \in Int  BY SetsFinite
      <4>4. SumOf(TotalSet(i, M) \union {w}) = SumOf(TotalSet(i, M)) + Value[w]
        BY <4>2, <4>3, SetsFinite, SumOfIsSum, SumWithOneMore
      <4>5. total'[i] = total[i] + Value[w]  BY <1>2, <2>2, <3>1 DEF MeasureSum, StepsOK
      <4>6. total[i] = SumOf(TotalSet(i, M))  BY DEF SumsRight, TotalSet
      <4>7. QED  BY <4>2, <4>4, <4>5, <4>6
    <3>2. CASE i # side[w]
      <4>1. w \notin Place(i, M)  BY <2>1, <2>6, <3>2, OnePlace
      <4>2. TotalSet(i, M)' = TotalSet(i, M)  BY <2>1, <2>4, <2>5, <4>1 DEF TotalSet
      <4>3. total'[i] = total[i]  BY <1>2, <2>2, <3>2 DEF MeasureSum, StepsOK
      <4>4. QED  BY <4>2, <4>3 DEF SumsRight, TotalSet
    <3>3. QED  BY <3>1, <3>2
  <2>8. QED  BY <2>7 DEF SumsRight, TotalSet
<1>3. ASSUME NEW w \in Writers,
             MeasureCount(w) \/ MeasureMin(w) \/ MeasureMax(w) \/ MeasureDone(w)
      PROVE  SumsRight'
  <2>1. UNCHANGED <<total, AddedUp, SumMerged>>
    BY <1>3 DEF MeasureCount, MeasureMin, MeasureMax, MeasureDone, Done, AddedUp, StepsOK,
                SumMerged, groupVars, pointVars
  <2>2. ~MergeSum /\ MeasureStep(w)
    BY <1>3 DEF MeasureStep, MergeSum, MeasureCount, MeasureMin, MeasureMax, MeasureDone,
                StepsOK
  <2>3. QED  BY <2>1, <2>2, PlacesKept, SumsKept
<1>4. CASE MergeSum
  <2>1. merge = "sum" /\ merge' = "none" /\ UNCHANGED <<groupVars, step, seen>>
    BY <1>4 DEF MergeSum
  <2>2. PICK k \in Sides, c \in Sides :
          /\ k = hot /\ c = readIdx /\ hotIdx = k /\ k # c /\ c = 1 - k
          /\ reader = "reading"
    BY <2>1, HotAndCold
  <2>3. SumMerged = FALSE /\ SumMerged' = TRUE
    BY <2>1, <2>2 DEF SumMerged, groupVars
  <2>4. AddedUp' = AddedUp /\ Entered' = Entered /\ hot' = k
    BY <2>1, <2>2 DEF AddedUp, Entered, groupVars
  <2>5. /\ Place(k, TRUE)' = Place(k, FALSE) \union Place(c, FALSE)
        /\ Place(k, FALSE) \intersect Place(c, FALSE) = {}
        /\ Place(c, TRUE)' = {}
    BY <2>1, <2>2, <2>4 DEF Place, SeenOrHot
  <2>6. total'[k] = SumOf(TotalSet(k, TRUE)')
    <3> DEFINE A == TotalSet(k, FALSE)
               B == TotalSet(c, FALSE)
    <3>1. total'[k] = total[k] + total[c]  BY <1>4, <2>2 DEF MergeSum, StepsOK
    <3>2. total[k] = SumOf(A) /\ total[c] = SumOf(B)
      BY <2>3 DEF SumsRight, TotalSet, Place
    <3>3. TotalSet(k, TRUE)' = A \union B /\ A \intersect B = {}  BY <2>4, <2>5 DEF TotalSet
    <3>4. IsFiniteSet(A) /\ IsFiniteSet(B) /\ A \subseteq Writers /\ B \subseteq Writers
      BY SetsFinite
    <3>5. \A v \in A \union B : Value[v] \in Int  BY <3>4
    <3> HIDE DEF A, B
    <3>6. SumOf(A \union B) = SumOf(A) + SumOf(B)
      BY <3>3, <3>4, <3>5, SumOfIsSum, SumOfDisjoint
    <3>7. QED  BY <3>1, <3>2, <3>3, <3>6
  <2>7. total'[c] = SumOf(TotalSet(c, TRUE)')
    <3>1. total'[c] = 0  BY <1>4, <2>2 DEF MergeSum, StepsOK, AfterMerge
    <3>2. TotalSet(c, TRUE)' = {}  BY <2>5 DEF TotalSet
    <3>3. QED  BY <3>1, <3>2, SumOfIsSum, SumOfNone
  <2>8. \A i \in Sides : i = k \/ i = c  BY <2>2 DEF Sides
  <2>9. ASSUME NEW i \in Sides PROVE total'[i] = SumOf(TotalSet(i, TRUE)')
    BY <2>6, <2>7, <2>8
  <2>10. QED  BY <2>3, <2>9 DEF SumsRight, TotalSet, Place
<1>5. CASE \/ CollectStart \/ CollectSwap \/ CollectWaited \/ CollectRead
           \/ MergeCounts \/ MergeExtrema \/ UNCHANGED vars
  <2>1. UNCHANGED <<total, AddedUp>>
    BY <1>5 DEF CollectStart, CollectSwap, CollectWaited, CollectRead, MergeCounts,
                MergeExtrema, vars, AddedUp, pointVars
  <2>2. CASE ~MergeSum
    <3>1. \A i \in Sides : Place(i, SumMerged)' = Place(i, SumMerged)
      BY <1>5, <2>2, PlacesKept
    <3>2. QED  BY <2>1, <3>1 DEF SumsRight
  <2>3. QED  BY <1>4, <2>2
<1>6. QED
  BY <1>1, <1>2, <1>3, <1>4, <1>5 DEF Next, Measure, MeasureStep, Collect

-----------------------------------------------------------------------------
(* The extrema of the points.                                              *)
ExtremaType == [set : BOOLEAN, min : Int, max : Int]

(* u is what e becomes by an update.                                       *)
Widens(e, u) ==
  /\ u.set /\ u.min <= u.max
  /\ e.set => u.min <= e.min /\ u.max >= e.max

LEMMA MinFacts ==
  ASSUME NEW e \in ExtremaType, NEW v \in Int, e.set => e.min <= e.max
  PROVE  /\ Widens(e, WithMin(e, v)) /\ WithMin(e, v).min <= v
         /\ Settles(e, v) => WithMin(e, v).max >= v
         /\ WithMin(e, v).min = v \/ (e.set /\ WithMin(e, v).min = e.min)
         /\ WithMin(e, v).max = v \/ (e.set /\ WithMin(e, v).max = e.max)
BY DEF ExtremaType, WithMin, Settles, Widens

LEMMA MaxFacts ==
  ASSUME NEW e \in ExtremaType, NEW v \in Int, e.set, e.min <= e.max
  PROVE  /\ Widens(e, WithMax(e, v)) /\ WithMax(e, v).max >= v
         /\ WithMax(e, v).min = e.min
         /\ WithMax(e, v).max = v \/ WithMax(e, v).max = e.max
BY DEF ExtremaType, WithMax, Widens

(* An update covers what was covered.                                      *)
LEMMA StillCovers ==
  ASSUME NEW e \in ExtremaType, NEW u \in ExtremaType, Widens(e, u), NEW w \in Writers,
         Covers(e, w), MaxDone(w) => MinDone(w)
  PROVE  Covers(u, w)
BY DEF ExtremaType, Widens, Covers

ExtremaInv == ExtremaTaken /\ ExtremaRight /\ ExtremaMerge

LEMMA DoneMonotone == StepsOK => \A w \in Writers : MaxDone(w) => MinDone(w)
BY DEF StepsOK, MaxDone, MinDone

(* A step that leaves the extrema alone.                                   *)
LEMMA TakenKept ==
  ASSUME ExtremaTaken, UNCHANGED extrema,
         \A i \in Sides : ExtremaOf(i) \subseteq ExtremaOf(i)'
  PROVE  ExtremaTaken'
BY DEF ExtremaTaken, Values

LEMMA MeasureKeepsExtrema ==
  ASSUME ExtremaInv, SeenOrHot, GroupInv, StepsOK, NEW w \in Writers,
         MeasureStart(w) \/ MeasureCount(w) \/ MeasureSum(w) \/ MeasureDone(w)
  PROVE  ExtremaInv'
<1>1. /\ UNCHANGED <<extrema, hot, readIdx, reader, merge, seen>>
      /\ Entered \subseteq Entered'
  BY DEF MeasureStart, MeasureCount, MeasureSum, MeasureDone, Start, Done, groupVars,
         pointVars, Entered, GroupInv, GroupTypeOK
<1>2. ExtremaTaken'
  <2>1. \A i \in Sides : ExtremaOf(i) \subseteq ExtremaOf(i)'  BY <1>1 DEF ExtremaOf
  <2>2. QED  BY <1>1, <2>1, TakenKept DEF ExtremaInv
<1>3. ExtremaMerge'  BY <1>1 DEF ExtremaInv, ExtremaMerge
<1>4. ExtremaRight'
  <2>1. \A x \in Writers : /\ MinDone(x)' => MinDone(x)
                           /\ MaxDone(x)' => MaxDone(x)
    BY DEF MeasureStart, MeasureCount, MeasureSum, MeasureDone, MinDone, MaxDone, StepsOK
  <2>2. \A x \in Writers : \A e : Covers(e, x) => Covers(e, x)'  BY <2>1 DEF Covers
  <2>3. ASSUME NEW x \in Place(hot, SumMerged)' PROVE Covers(extrema[hot], x)'
    <3>1. CASE x \in Place(hot, SumMerged)
      <4>1. x \in Writers
        BY <3>1, PlacesFinite DEF GroupInv, GroupTypeOK
      <4>2. QED  BY <1>1, <2>2, <3>1, <4>1 DEF ExtremaInv, ExtremaRight, Covers
    <3>2. CASE x \notin Place(hot, SumMerged)
      <4>1. CASE MeasureStart(w)
        <5>1. x = w  BY <1>1, <2>3, <3>2, <4>1, StartPlaces DEF SumMerged
        <5>2. step'[w] = "count"  BY <4>1 DEF MeasureStart, StepsOK
        <5>3. QED  BY <5>1, <5>2 DEF Covers, MinDone, MaxDone
      <4>2. CASE ~MeasureStart(w)
        <5>1. MeasureStep(w) /\ ~MergeSum
          BY <1>1, <4>2 DEF MeasureStep, MergeSum
        <5>2. Place(hot, SumMerged)' = Place(hot, SumMerged)
          <6>1. ~CollectSwap  BY <1>1 DEF CollectSwap, Swap
          <6>2. \A i, m : Place(i, m)' = Place(i, m)  BY <5>1, <6>1, PlacesKept
          <6>3. SumMerged' = SumMerged  BY <1>1 DEF SumMerged
          <6>4. QED  BY <1>1, <6>2, <6>3 DEF Place
        <5>3. QED  BY <2>3, <3>2, <5>2
      <4>3. QED  BY <4>1, <4>2
    <3>3. QED  BY <3>1, <3>2
  <2>4. \A x \in seen : x \in Writers  BY DEF SeenOrHot, Entered
  <2>5. \A x \in seen' : Covers(extrema[1 - hot], x)'
    BY <1>1, <2>2, <2>4 DEF ExtremaInv, ExtremaRight, Covers
  <2>6. QED  BY <2>3, <2>5 DEF ExtremaRight
<1>5. QED  BY <1>2, <1>3, <1>4 DEF ExtremaInv

LEMMA CollectKeepsExtrema ==
  ASSUME ExtremaInv, SeenOrHot, GroupInv, StepsOK,
         \/ CollectStart \/ CollectSwap \/ CollectWaited \/ CollectRead
         \/ MergeCounts \/ MergeSum \/ UNCHANGED vars
  PROVE  ExtremaInv'
<1>0. hot \in {0, 1} /\ readIdx \in {0, 1} /\ members \in [Sides -> SUBSET Writers]
  BY DEF GroupInv, GroupTypeOK, Sides
<1>1. UNCHANGED <<extrema, writer, step>>
  BY DEF CollectStart, CollectSwap, CollectWaited, CollectRead, MergeCounts, MergeSum, vars,
         groupVars, pointVars, SwapLoad, Swap, Waited
<1>2. Entered' = Entered /\ (seen' = seen \/ seen' = Entered) /\ seen \subseteq Entered
  BY <1>1 DEF CollectStart, CollectSwap, CollectWaited, CollectRead, MergeCounts, MergeSum,
              vars, Entered, SeenOrHot
<1>3. ExtremaTaken'
  <2>1. ASSUME NEW i \in Sides PROVE ExtremaOf(i) \subseteq ExtremaOf(i)'
    <3>1. CASE CollectStart
      BY <1>2, <3>1 DEF CollectStart, SwapLoad, ExtremaOf
    <3>2. CASE CollectSwap
      <4>1. seen' = Entered  BY <3>2 DEF CollectSwap, Entered
      <4>2. QED  BY <1>2, <4>1 DEF ExtremaOf
    <3>3. CASE CollectWaited
      BY <1>2, <3>3 DEF CollectWaited, Waited, ExtremaOf
    <3>4. CASE CollectRead \/ MergeCounts \/ MergeSum \/ UNCHANGED vars
      BY <1>2, <3>4 DEF CollectRead, MergeCounts, MergeSum, vars, groupVars, ExtremaOf
    <3>5. QED  BY <3>1, <3>2, <3>3, <3>4
  <2>2. QED  BY <1>1, <2>1, TakenKept DEF ExtremaInv
<1>4. ExtremaMerge'
  <2>1. CASE CollectStart \/ CollectSwap \/ CollectWaited \/ CollectRead \/ MergeSum
    <3>1. merge' \in {"none", "read", "counts"}
      BY <2>1 DEF CollectStart, SwapLoad, CollectSwap, Swap, CollectWaited, CollectRead,
                  MergeSum, StepsOK
    <3>2. QED  BY <3>1 DEF ExtremaMerge
  <2>2. CASE MergeCounts
    <3>1. readIdx = 1 - hot  BY <2>2, HotAndCold DEF MergeCounts
    <3>2. merge' = (IF extrema[1 - hot].set THEN "min1" ELSE "sum") /\ UNCHANGED <<hot, extrema>>
      BY <2>2, <3>1 DEF MergeCounts, groupVars
    <3>3. QED  BY <3>2 DEF ExtremaMerge
  <2>3. CASE UNCHANGED vars
    BY <2>3 DEF vars, groupVars, pointVars, ExtremaInv, ExtremaMerge
  <2>4. QED  BY <2>1, <2>2, <2>3
<1>5. ExtremaRight'
  <2>1. \A x, e : Covers(e, x)' <=> Covers(e, x)  BY <1>1 DEF Covers, MinDone, MaxDone
  <2>2. CASE CollectSwap
    <3>1. /\ seen' = Entered /\ hot' = 1 - hot /\ members' = members /\ members[1 - hot] = {}
          /\ SumMerged /\ ~SumMerged' /\ 1 - hot' = hot
      BY <1>0, <2>2 DEF CollectSwap, Swap, Entered, GroupInv, ReaderKnows, SumMerged, StepsOK
    <3>2. Place(hot, SumMerged)' = {}  BY <3>1 DEF Place
    <3>3. Place(hot, SumMerged) = Entered  BY <3>1 DEF Place
    <3>4. \A x \in seen' : Covers(extrema[1 - hot], x)'
      BY <1>1, <3>1, <3>3 DEF ExtremaInv, ExtremaRight, Covers, MinDone, MaxDone
    <3>5. QED  BY <3>2, <3>4 DEF ExtremaRight
  <2>3. CASE MergeSum
    <3>1. merge = "sum" /\ reader = "reading" /\ UNCHANGED <<groupVars, seen>>
      BY <2>3, HotAndCold DEF MergeSum
    <3>2. ASSUME NEW x \in Entered PROVE Covers(extrema[hot], x)
      <4>1. CASE x \in members[hot]
        BY <3>1, <4>1 DEF ExtremaInv, ExtremaRight, Place, SumMerged
      <4>2. CASE x \in seen
        <5>1. step[x] = "returned" /\ x \in Writers  BY <3>1, <4>2, SeenReturned
        <5>2. LET cold == extrema[1 - hot]
              IN  cold.set /\ cold.min <= Value[x] /\ cold.max >= Value[x]
          BY <4>2, <5>1 DEF ExtremaInv, ExtremaRight, Covers, MinDone, MaxDone
        <5>3. /\ extrema[hot].set /\ extrema[hot].min <= extrema[1 - hot].min
              /\ extrema[hot].max >= extrema[1 - hot].max
          BY <3>1, <5>2 DEF ExtremaInv, ExtremaMerge
        <5>4. /\ extrema[hot].min \in Int /\ extrema[1 - hot].min \in Int
              /\ extrema[hot].max \in Int /\ extrema[1 - hot].max \in Int /\ Value[x] \in Int
          <6>1. hot \in Sides /\ 1 - hot \in Sides  BY <1>0 DEF Sides
          <6>2. QED  BY <5>1, <6>1 DEF StepsOK
        <5>5. QED  BY <5>2, <5>3, <5>4 DEF Covers
      <4>3. QED  BY <4>1, <4>2 DEF SeenOrHot
    <3>3. Place(hot, SumMerged)' \subseteq Entered
      BY <1>2, <3>1 DEF Place, SeenOrHot, groupVars
    <3>4. UNCHANGED <<hot, seen>>  BY <3>1 DEF groupVars
    <3>5. \A x \in Place(hot, SumMerged)' : Covers(extrema[hot], x)'
      BY <1>1, <3>2, <3>3, <3>4 DEF Covers, MinDone, MaxDone
    <3>6. \A x \in seen' : Covers(extrema[1 - hot], x)'
      BY <1>1, <3>4 DEF Covers, MinDone, MaxDone, ExtremaInv, ExtremaRight
    <3>7. QED  BY <3>5, <3>6 DEF ExtremaRight
  <2>4. CASE CollectStart \/ CollectWaited \/ CollectRead \/ MergeCounts \/ UNCHANGED vars
    <3>1. UNCHANGED <<hot, seen>>
      BY <2>4 DEF CollectStart, SwapLoad, CollectWaited, Waited, CollectRead, MergeCounts,
                  groupVars, vars
    <3>2. CASE ~MergeSum
      <4>1. \A i \in Sides : Place(i, SumMerged)' = Place(i, SumMerged)
        BY <2>4, <3>2, PlacesKept
      <4>2. hot \in Sides  BY <1>0 DEF Sides
      <4>3. Place(hot, SumMerged)' = Place(hot, SumMerged)  BY <3>1, <4>1, <4>2 DEF Place
      <4>4. \A x \in Place(hot, SumMerged)' : Covers(extrema[hot], x)'
        BY <1>1, <3>1, <4>3 DEF Covers, MinDone, MaxDone, ExtremaInv, ExtremaRight
      <4>5. \A x \in seen' : Covers(extrema[1 - hot], x)'
        BY <1>1, <3>1 DEF Covers, MinDone, MaxDone, ExtremaInv, ExtremaRight
      <4>6. QED  BY <4>4, <4>5 DEF ExtremaRight
    <3>3. QED  BY <2>3, <3>2
  <2>5. QED  BY <2>2, <2>3, <2>4
<1>6. QED  BY <1>3, <1>4, <1>5 DEF ExtremaInv

(* An update by a measurement.                                             *)
LEMMA MeasureWidens ==
  ASSUME ExtremaInv, SeenOrHot, GroupInv, StepsOK, NEW w \in Writers,
         MeasureMin(w) \/ MeasureMax(w)
  PROVE  ExtremaInv'
<1>1. /\ UNCHANGED <<groupVars, merge, seen>> /\ writer[w] = "in" /\ Value[w] \in Int
      /\ step[w] \in {"min", "max"}
  BY DEF MeasureMin, MeasureMax, StepsOK, GroupInv, GroupTypeOK
<1>2. PICK k \in Sides : k = side[w]  BY <1>1, AtHome
<1>3. /\ hot \in Sides /\ 1 - hot \in Sides /\ 1 - hot # hot
      /\ \A i \in Sides : i = hot \/ i = 1 - hot
  BY DEF GroupInv, GroupTypeOK, Sides
<1>4. \A x \in Writers : x # w => step'[x] = step[x]
  BY DEF MeasureMin, MeasureMax, StepsOK
<1> DEFINE e == extrema[k]
           u == extrema'[k]
<1>5. e \in ExtremaType /\ (e.set => e.min <= e.max)
  BY DEF StepsOK, ExtremaType, ExtremaInv, ExtremaTaken
<1>6. MaxDone(w) => MinDone(w)  BY DoneMonotone
<1>7. w \in ExtremaOf(k)
  <2>1. w \in Entered  BY <1>1 DEF Entered
  <2>2. k # hot => w \in seen  BY <1>1, <1>2, AtHome
  <2>3. k = readIdx /\ reader \in {"waiting", "reading"} => k # hot
    BY <1>3 DEF GroupInv, ReaderKnows
  <2>4. QED  BY <2>1, <2>2, <2>3 DEF ExtremaOf
<1>8. step[w] = "max" => e.set
  <2>1. step[w] = "max" => MinDone(w)  BY DEF MinDone
  <2>2. k = hot => w \in Place(hot, SumMerged)
    BY <1>1, <1>2, <1>3, OnePlace DEF SumMerged
  <2>3. k # hot => w \in seen /\ k = 1 - hot
    BY <1>1, <1>2, <1>3, AtHome
  <2>4. Covers(e, w)  BY <2>2, <2>3 DEF ExtremaInv, ExtremaRight
  <2>5. QED  BY <2>1, <2>4 DEF Covers
<1>9. extrema' = [extrema EXCEPT ![k] = u] /\ u \in ExtremaType
  <2>1. CASE MeasureMin(w)
    <3>1. extrema' = [extrema EXCEPT ![k] = WithMin(e, Value[w])]
      BY <1>2, <2>1 DEF MeasureMin
    <3>2. WithMin(e, Value[w]) \in ExtremaType  BY <1>1, <1>5, ExtremaTyped DEF ExtremaType
    <3>3. QED  BY <3>1, <3>2 DEF StepsOK
  <2>2. CASE MeasureMax(w)
    <3>1. extrema' = [extrema EXCEPT ![k] = WithMax(e, Value[w])]
      BY <1>2, <2>2 DEF MeasureMax
    <3>2. WithMax(e, Value[w]) \in ExtremaType  BY <1>1, <1>5, ExtremaTyped DEF ExtremaType
    <3>3. QED  BY <3>1, <3>2 DEF StepsOK
  <2>3. QED  BY <2>1, <2>2
<1>10. /\ Widens(e, u)
       /\ u.min = Value[w] \/ (e.set /\ u.min = e.min)
       /\ u.max = Value[w] \/ (e.set /\ u.max = e.max)
       /\ u.min <= Value[w] \/ step[w] = "max"
       /\ (MaxDone(w)' => u.max >= Value[w]) /\ (step[w] = "max" => u.min = e.min)
  <2>1. CASE MeasureMin(w)
    <3>1. u = WithMin(e, Value[w])  BY <1>2, <2>1 DEF MeasureMin, StepsOK
    <3>2. MaxDone(w)' => Settles(e, Value[w])
      BY <1>2, <2>1 DEF MeasureMin, MaxDone, StepsOK
    <3>3. step[w] = "min"  BY <2>1 DEF MeasureMin
    <3> HIDE DEF e, u
    <3>4. QED  BY <1>1, <1>5, <3>1, <3>2, <3>3, MinFacts
  <2>2. CASE MeasureMax(w)
    <3>1. u = WithMax(e, Value[w]) /\ e.set  BY <1>2, <1>8, <2>2 DEF MeasureMax, StepsOK
    <3>2. step[w] = "max"  BY <2>2 DEF MeasureMax
    <3> HIDE DEF e, u
    <3>3. QED  BY <1>1, <1>5, <3>1, <3>2, MaxFacts
  <2>3. QED  BY <2>1, <2>2
<1>11. Covers(e, w) => Covers(extrema[k], w)'
  <2>1. e.min \in Int /\ u.min \in Int /\ u.max \in Int  BY <1>5, <1>9 DEF ExtremaType
  <2>2. step[w] = "max" => MinDone(w)  BY DEF MinDone
  <2> HIDE DEF e, u
  <2>3. ASSUME Covers(e, w) PROVE u.set /\ u.min <= Value[w] /\ (MaxDone(w)' => u.max >= Value[w])
    BY <1>1, <1>10, <2>1, <2>2, <2>3 DEF Widens, Covers
  <2>4. QED  BY <2>3 DEF Covers, u
<1>12. UNCHANGED <<hot, readIdx, reader, seen, merge, Entered>>
  BY <1>1 DEF groupVars, Entered
<1>13. ExtremaTaken'
  <2>1. u.min \in Values(ExtremaOf(k)) /\ u.max \in Values(ExtremaOf(k))
    BY <1>7, <1>10 DEF ExtremaInv, ExtremaTaken, Values
  <2>2. \A i : Values(ExtremaOf(i))' = Values(ExtremaOf(i))  BY <1>12 DEF ExtremaOf, Values
  <2>3. \A i \in Sides : i # k => extrema'[i] = extrema[i]  BY <1>9 DEF StepsOK
  <2>4. u.min <= u.max  BY <1>10 DEF Widens
  <2> HIDE DEF u
  <2>5. ASSUME NEW i \in Sides, extrema'[i].set
        PROVE  /\ extrema'[i].min <= extrema'[i].max
               /\ {extrema'[i].min, extrema'[i].max} \subseteq Values(ExtremaOf(i))
    <3>1. CASE i = k  BY <2>1, <2>4, <3>1 DEF u
    <3>2. CASE i # k  BY <2>3, <2>5, <3>2 DEF ExtremaInv, ExtremaTaken
    <3>3. QED  BY <3>1, <3>2
  <2>6. QED  BY <2>2, <2>5 DEF ExtremaTaken
<1>14. ExtremaRight'
  <2>1. ASSUME NEW x \in Writers, x # w, Covers(e, x)
        PROVE  Covers(extrema[k], x)'
    <3>1. Covers(u, x)  BY <1>5, <1>9, <1>10, <2>1, DoneMonotone, StillCovers
    <3>2. MinDone(x)' = MinDone(x) /\ MaxDone(x)' = MaxDone(x)
      BY <1>4, <2>1 DEF MinDone, MaxDone
    <3>3. QED  BY <3>1, <3>2 DEF Covers
  <2>2. ASSUME NEW x \in Writers, NEW i \in Sides, Covers(extrema[i], x), x = w => i = k
        PROVE  Covers(extrema[i], x)'
    <3>1. CASE i = k
      <4>1. CASE x = w  BY <1>11, <2>2, <3>1, <4>1
      <4>2. CASE x # w  BY <2>1, <2>2, <3>1, <4>2
      <4>3. QED  BY <4>1, <4>2
    <3>2. CASE i # k
      <4>1. extrema'[i] = extrema[i] /\ x # w  BY <1>9, <2>2, <3>2 DEF StepsOK
      <4>2. step'[x] = step[x]  BY <1>4, <4>1
      <4>3. QED  BY <2>2, <4>1, <4>2 DEF Covers, MinDone, MaxDone
    <3>3. QED  BY <3>1, <3>2
  <2>3. Place(hot, SumMerged)' = Place(hot, SumMerged) /\ Place(hot, SumMerged) \subseteq Writers
    BY <1>1, <1>3, <1>12, PlacesFinite DEF Place, SumMerged, groupVars
  <2>4. seen \subseteq Writers  BY DEF SeenOrHot, Entered
  <2>5. w \in Place(hot, SumMerged) => k = hot
    BY <1>1, <1>2, <1>3, OnePlace DEF SumMerged
  <2>6. w \in seen => k = 1 - hot  BY <1>1, <1>2, <1>3, AtHome
  <2>7. \A x \in Place(hot, SumMerged) : Covers(extrema[hot], x)'
    BY <1>3, <1>12, <2>2, <2>3, <2>5 DEF ExtremaInv, ExtremaRight, Covers
  <2>8. \A x \in seen : Covers(extrema[1 - hot], x)'
    BY <1>3, <1>12, <2>2, <2>4, <2>6 DEF ExtremaInv, ExtremaRight, Covers
  <2>9. QED  BY <1>12, <2>3, <2>7, <2>8 DEF ExtremaRight
<1>15. ExtremaMerge'
  <2>1. CASE merge = "none"  BY <1>12, <2>1 DEF ExtremaMerge
  <2>2. CASE merge # "none"
    <3>1. k = hot  BY <1>1, <1>2, <2>2, AtHome DEF StepsOK
    <3>2. extrema'[1 - hot] = extrema[1 - hot]  BY <1>3, <1>9, <3>1 DEF StepsOK
    <3>3. extrema[1 - hot] \in ExtremaType  BY <1>3 DEF StepsOK, ExtremaType
    <3>4. extrema[hot] = e /\ extrema'[hot] = u  BY <3>1
    <3> HIDE DEF e, u
    <3>5. QED
      BY <1>5, <1>9, <1>10, <1>12, <3>2, <3>3, <3>4
      DEF ExtremaInv, ExtremaMerge, Widens, ExtremaType
  <2>3. QED  BY <2>1, <2>2
<1>16. QED  BY <1>13, <1>14, <1>15 DEF ExtremaInv

(* An update by the merge.                                                 *)
LEMMA MergeWidens ==
  ASSUME ExtremaInv, SeenOrHot, GroupInv, StepsOK, MergeExtrema
  PROVE  ExtremaInv'
<1>1. /\ UNCHANGED <<groupVars, step, seen>>
      /\ merge \in {"min1", "max1", "min2", "max2"}
      /\ merge' \in {"max1", "min2", "max2", "sum"}
  BY DEF MergeExtrema
<1>2. PICK k \in Sides, c \in Sides :
        /\ k = hot /\ c = readIdx /\ hotIdx = k /\ k # c /\ c = 1 - k
        /\ reader = "reading"
  BY <1>1, HotAndCold
<1>3. UNCHANGED <<hot, readIdx, reader, Entered>> /\ \A i \in Sides : i = k \/ i = c
  BY <1>1, <1>2 DEF groupVars, Entered, Sides
<1> DEFINE e == extrema[k]
           u == extrema'[k]
           low == extrema[c].min
           high == extrema[c].max
<1>4. /\ e \in ExtremaType /\ (e.set => e.min <= e.max)
      /\ low \in Int /\ high \in Int /\ extrema[c].set /\ low <= high
  BY <1>1, <1>2 DEF StepsOK, ExtremaType, ExtremaInv, ExtremaTaken, ExtremaMerge
<1>5. low \in Values(Entered) /\ high \in Values(Entered)
  BY <1>2, <1>4 DEF ExtremaInv, ExtremaTaken, ExtremaOf, Values, SeenOrHot
<1>6. merge # "min1" => e.set /\ e.min <= low
  BY <1>1, <1>2, <1>4 DEF ExtremaInv, ExtremaMerge
<1>7. extrema' = [extrema EXCEPT ![k] = u] /\ u \in ExtremaType
  <2>1. /\ WithMin(e, low) \in ExtremaType /\ WithMax(e, low) \in ExtremaType
        /\ WithMin(e, high) \in ExtremaType /\ WithMax(e, high) \in ExtremaType
    BY <1>4, ExtremaTyped DEF ExtremaType
  <2>2. \E r \in ExtremaType : extrema' = [extrema EXCEPT ![k] = r]
    BY <1>2, <2>1 DEF MergeExtrema
  <2>3. QED  BY <2>2 DEF StepsOK
<1>8. /\ Widens(e, u) /\ u.min <= low
      /\ u.min \in {low, high} \/ (e.set /\ u.min = e.min)
      /\ u.max \in {low, high} \/ (e.set /\ u.max = e.max)
      /\ merge' = "sum" => u.max >= high
  <2>1. CASE merge = "min1"
    <3>1. u = WithMin(e, low) /\ merge' # "sum"
      BY <1>2, <2>1 DEF MergeExtrema, StepsOK
    <3> HIDE DEF e, u, low, high
    <3>2. QED  BY <1>4, <3>1, MinFacts
  <2>2. CASE merge = "max1"
    <3>1. u = WithMax(e, low) /\ merge' # "sum" /\ e.set /\ e.min <= low
      BY <1>2, <1>6, <2>2 DEF MergeExtrema, StepsOK
    <3> HIDE DEF e, u, low, high
    <3>2. QED  BY <1>4, <3>1, MaxFacts
  <2>3. CASE merge = "min2"
    <3>1. u = WithMin(e, high) /\ (merge' = "sum" => Settles(e, high)) /\ e.set /\ e.min <= low
      BY <1>2, <1>6, <2>3 DEF MergeExtrema, StepsOK
    <3>2. e.min \in Int /\ u.min \in Int  BY <1>4, <1>7 DEF ExtremaType
    <3> HIDE DEF e, u, low, high
    <3>3. Widens(e, u) /\ u.min <= e.min  BY <1>4, <3>1, MinFacts DEF Widens
    <3>4. u.min <= low  BY <1>4, <3>1, <3>2, <3>3
    <3>5. QED  BY <1>4, <3>1, <3>3, <3>4, MinFacts
  <2>4. CASE merge = "max2"
    <3>1. u = WithMax(e, high) /\ e.set /\ e.min <= low
      BY <1>2, <1>6, <2>4 DEF MergeExtrema, StepsOK
    <3> HIDE DEF e, u, low, high
    <3>2. QED  BY <1>4, <3>1, MaxFacts
  <2>5. QED  BY <1>1, <2>1, <2>2, <2>3, <2>4
<1>9. extrema'[c] = extrema[c]  BY <1>2, <1>7 DEF StepsOK
<1>10. ExtremaTaken'
  <2>1. ExtremaOf(k) = Entered  BY <1>2 DEF ExtremaOf
  <2>2. u.min \in Values(ExtremaOf(k)) /\ u.max \in Values(ExtremaOf(k)) /\ u.min <= u.max
    BY <1>5, <1>8, <2>1 DEF ExtremaInv, ExtremaTaken, Widens
  <2>3. \A i : Values(ExtremaOf(i))' = Values(ExtremaOf(i))
    BY <1>1, <1>3 DEF ExtremaOf, Values
  <2> HIDE DEF u
  <2>4. ASSUME NEW i \in Sides, extrema'[i].set
        PROVE  /\ extrema'[i].min <= extrema'[i].max
               /\ {extrema'[i].min, extrema'[i].max} \subseteq Values(ExtremaOf(i))
    <3>1. CASE i = k  BY <2>2, <3>1 DEF u
    <3>2. CASE i = c  BY <1>9, <2>4, <3>2 DEF ExtremaInv, ExtremaTaken
    <3>3. QED  BY <1>3, <3>1, <3>2
  <2>5. QED  BY <2>3, <2>4 DEF ExtremaTaken
<1>11. ExtremaRight'
  <2>1. Place(hot, SumMerged) = members[hot] /\ Place(hot, SumMerged)' = members[hot]
    BY <1>1, <1>3 DEF Place, SumMerged, groupVars
  <2>2. members[hot] \subseteq Writers  BY <1>2 DEF GroupInv, GroupTypeOK
  <2>3. ASSUME NEW x \in members[hot] PROVE Covers(extrema[k], x)'
    <3>1. Covers(e, x)  BY <1>2, <2>1 DEF ExtremaInv, ExtremaRight
    <3>2. Covers(u, x)  BY <1>4, <1>7, <1>8, <2>2, <3>1, DoneMonotone, StillCovers
    <3>3. QED  BY <1>1, <3>2 DEF Covers, MinDone, MaxDone
  <2>4. ASSUME NEW x \in seen PROVE Covers(extrema[c], x)'
    <3>1. Covers(extrema[c], x)  BY <1>2 DEF ExtremaInv, ExtremaRight
    <3>2. QED  BY <1>1, <1>9, <3>1 DEF Covers, MinDone, MaxDone
  <2>5. hot' = k /\ 1 - hot' = c /\ seen' = seen  BY <1>1, <1>2, <1>3
  <2>6. \A x \in Place(hot, SumMerged)' : Covers(extrema[hot], x)'
    BY <2>1, <2>3, <2>5 DEF Covers
  <2>7. \A x \in seen' : Covers(extrema[1 - hot], x)'
    BY <2>4, <2>5 DEF Covers
  <2>8. QED  BY <2>6, <2>7 DEF ExtremaRight
<1>12. ExtremaMerge'
  <2>1. u.set  BY <1>8 DEF Widens
  <2>2. hot' = k /\ 1 - hot' = c  BY <1>2, <1>3
  <2>3. QED  BY <1>1, <1>4, <1>8, <1>9, <2>1, <2>2 DEF ExtremaMerge
<1>13. QED  BY <1>10, <1>11, <1>12 DEF ExtremaInv

LEMMA ExtremaStep ==
  ASSUME ExtremaInv, SeenOrHot, GroupInv, StepsOK, [Next]_vars
  PROVE  ExtremaInv'
BY MeasureKeepsExtrema, CollectKeepsExtrema, MeasureWidens, MergeWidens
DEF Next, Measure, MeasureStep, Collect

-----------------------------------------------------------------------------
(* What the cold point holds when it is read is what was seen.             *)
LEMMA ReadExact ==
  ASSUME HistogramIInv, CollectRead
  PROVE  SnapshotExact'
<1> USE DEF HistogramIInv
<1>1. merge = "read" /\ reader = "reading" /\ UNCHANGED <<groupVars, step, pointVars, seen>>
  BY HotAndCold DEF CollectRead
<1>2. PICK c \in Sides : c = readIdx /\ c = 1 - hot /\ c # hot /\ 1 - hot = c
  BY <1>1, HotAndCold
<1>3. seen \subseteq Writers /\ \A w \in seen : step[w] = "returned" /\ Value[w] \in Int
  BY <1>1, SeenReturned
<1>4. report' = [counts |-> counts[c], sum |-> total[c], extrema |-> extrema[c]]
  BY <1>2 DEF CollectRead
<1>5. Place(c, CountsMerged) = seen /\ Place(c, SumMerged) = seen
  BY <1>1, <1>2 DEF Place, CountsMerged, SumMerged
<1>6. seen \intersect Counted = seen /\ seen \intersect AddedUp = seen
  BY <1>3 DEF Counted, AddedUp
<1>7. \A b \in Buckets : counts[c][b] = Cardinality({w \in seen : InBucket(b, Value[w])})
  <2>1. ASSUME NEW b \in Buckets
        PROVE  {w \in seen : Bucket(Value[w]) = b} = {w \in seen : InBucket(b, Value[w])}
    BY <1>3, BucketAsDefined
  <2>2. \A b \in Buckets : counts[c][b] = Cardinality({w \in seen : Bucket(Value[w]) = b})
    BY <1>5, <1>6 DEF CountsRight
  <2>3. QED  BY <2>1, <2>2
<1>8. total[c] = SumOf(seen)  BY <1>5, <1>6 DEF SumsRight
<1> DEFINE e == extrema[c]
<1>9. e.set => e.min \in Values(seen) /\ e.max \in Values(seen)
  BY <1>1, <1>2 DEF ExtremaTaken, ExtremaOf
<1>10. \A w \in seen : e.set /\ e.min <= Value[w] /\ e.max >= Value[w]
  BY <1>2, <1>3 DEF ExtremaRight, Covers, MinDone, MaxDone
<1>11. e.set <=> seen # {}  BY <1>9, <1>10 DEF Values
<1>12. seen # {} => e.min = Min(Values(seen)) /\ e.max = Max(Values(seen))
  <2> SUFFICES ASSUME seen # {} PROVE e.min = Min(Values(seen)) /\ e.max = Max(Values(seen))
    OBVIOUS
  <2>1. e.min \in Values(seen) /\ e.max \in Values(seen)  BY <1>9, <1>11
  <2>2. \A v \in Values(seen) : v \in Int /\ e.min <= v /\ e.max >= v
    BY <1>3, <1>10 DEF Values
  <2> DEFINE V == Values(seen)
  <2> HIDE DEF e, V
  <2>3. \A x, y \in V : x <= y /\ y <= x => x = y  BY <2>2 DEF V
  <2>4. Min(V) \in V /\ Min(V) <= e.min
    BY <2>1, <2>2 DEF Min, V
  <2>5. Max(V) \in V /\ Max(V) >= e.max
    BY <2>1, <2>2 DEF Max, V
  <2>6. QED  BY <2>1, <2>2, <2>4, <2>5 DEF V
<1> HIDE DEF e
<1>13. seen' = seen /\ \A b, v : InBucket(b, v)' <=> InBucket(b, v)  BY <1>1 DEF InBucket
<1>14. QED
  BY <1>4, <1>7, <1>8, <1>11, <1>12, <1>13 DEF SnapshotExact, e

(* Until the next swap nothing is reported, or the same.                   *)
LEMMA ReportKept ==
  ASSUME SnapshotExact, StepsOK, [Next]_vars, ~CollectRead
  PROVE  SnapshotExact'
<1>1. Read' => Read /\ UNCHANGED <<report, seen>>
  BY DEF Next, Measure, MeasureStep, MeasureStart, MeasureCount, MeasureMin, MeasureMax,
         MeasureSum, MeasureDone, Collect, CollectStart, CollectSwap, CollectWaited,
         MergeCounts, MergeExtrema, MergeSum, vars, Read, Swap, StepsOK
<1>2. QED  BY <1>1 DEF SnapshotExact

LEMMA HistogramStart == Init => HistogramIInv
<1> SUFFICES ASSUME Init PROVE HistogramIInv
  OBVIOUS
<1> USE DEF Init
<1>1. GroupInv  BY GroupInitInv
<1>2. StepsOK  BY DEF StepsOK, GroupInit, NoExtrema
<1>3. Entered = {} /\ \A i \in Sides : members[i] = {}  BY DEF Entered, GroupInit
<1>4. SeenOrHot  BY <1>3, FS_EmptySet DEF SeenOrHot, GroupInit, Sides
<1>5. \A i \in Sides : \A m : Place(i, m) = {}  BY <1>3 DEF Place, GroupInit, Sides
<1>6. CountsRight  BY <1>5, FS_EmptySet DEF CountsRight
<1>7. SumsRight  BY <1>5, SumOfIsSum, SumOfNone DEF SumsRight
<1>8. ExtremaTaken  BY DEF ExtremaTaken, NoExtrema
<1>9. ExtremaRight  BY <1>5 DEF ExtremaRight, GroupInit, Sides
<1>10. ExtremaMerge  BY DEF ExtremaMerge
<1>11. SnapshotExact  BY DEF SnapshotExact, Read
<1>12. QED
  BY <1>1, <1>2, <1>4, <1>6, <1>7, <1>8, <1>9, <1>10, <1>11 DEF HistogramIInv

LEMMA HistogramStep == HistogramIInv /\ [Next]_vars => HistogramIInv'
<1> SUFFICES ASSUME HistogramIInv, [Next]_vars PROVE HistogramIInv'
  OBVIOUS
<1>1. /\ GroupInv /\ StepsOK /\ SeenOrHot /\ CountsRight /\ SumsRight /\ ExtremaInv
      /\ SnapshotExact
  BY DEF HistogramIInv, ExtremaInv
<1>2. GroupInv'  BY <1>1, GroupSteps, GroupNextInv
<1>3. StepsOK'
  <2>1. CASE UNCHANGED vars
    BY <1>1, <2>1 DEF vars, groupVars, pointVars, StepsOK
  <2>2. QED  BY <1>1, <2>1, MeasureSteps, CollectSteps DEF Next
<1>4. SeenOrHot'  BY <1>1, SeenStep
<1>5. CountsRight' /\ SumsRight'  BY <1>1, CountsStep, SumsStep
<1>6. ExtremaInv'  BY <1>1, ExtremaStep
<1>7. SnapshotExact'  BY <1>1, ReadExact, ReportKept
<1>8. QED  BY <1>2, <1>3, <1>4, <1>5, <1>6, <1>7 DEF HistogramIInv, ExtremaInv

(* The invariant of the points holds for all values and bounds.            *)
THEOREM HistogramInvariant == Spec => []HistogramIInv
<1>1. QED  BY HistogramStart, HistogramStep, PTL DEF Spec

(* A data point of collect counts, sums and ranges over exactly the        *)
(* measurements that had started when it swapped the points.               *)
THEOREM SnapshotIsExact == Spec => []SnapshotExact
<1>1. HistogramIInv => SnapshotExact  BY DEF HistogramIInv
<1>2. QED  BY <1>1, HistogramInvariant, PTL

-----------------------------------------------------------------------------
(* The map of series and the aggregations that keep their series in it.    *)
HIDE HistogramAssumption
USE MapAssumption

(* What one more key does to a finite table: its size grows by one unless  *)
(* the key is there.                                                       *)
LEMMA OneMoreKey ==
  ASSUME NEW T, IsFiniteSet(T), NEW k
  PROVE  /\ IsFiniteSet(T \union {k})
         /\ Cardinality(T \union {k}) = IF k \in T THEN Cardinality(T) ELSE Cardinality(T) + 1
         /\ Cardinality(T) \in Nat
<1>1. QED  BY FS_AddElement, FS_CardinalityType

(* The keys other than Overflow are all of them or all but one.            *)
LEMMA OwnKeys ==
  ASSUME NEW T, IsFiniteSet(T)
  PROVE  /\ IsFiniteSet(T \ {Overflow})
         /\ Cardinality(T \ {Overflow}) \in Nat
         /\ Cardinality(T) \in Nat
         /\ Cardinality(T \ {Overflow}) =
              IF Overflow \in T THEN Cardinality(T) - 1 ELSE Cardinality(T)
<1>1. QED  BY FS_RemoveElement, FS_CardinalityType

(* A table that gains the overflow key keeps its own series; one that      *)
(* gains another key has at most one own series more.                      *)
LEMMA OwnKeysGrown ==
  ASSUME NEW T, IsFiniteSet(T), NEW k
  PROVE  Cardinality((T \union {k}) \ {Overflow}) <=
           Cardinality(T \ {Overflow}) + IF k = Overflow THEN 0 ELSE 1
<1>1. IsFiniteSet(T \ {Overflow}) /\ Cardinality(T \ {Overflow}) \in Nat
  BY OwnKeys
<1>2. CASE k = Overflow
  <2> DEFINE S == T \ {Overflow}
  <2>1. (T \union {k}) \ {Overflow} = S /\ Cardinality(S) \in Nat
    BY <1>1, <1>2
  <2> HIDE DEF S
  <2>2. Cardinality((T \union {k}) \ {Overflow}) <= Cardinality(S)
    BY <2>1
  <2>3. QED  BY <1>2, <2>1, <2>2 DEF S
<1>3. CASE k # Overflow
  <2> DEFINE S == T \ {Overflow}
  <2>1. (T \union {k}) \ {Overflow} = S \union {k}
    BY <1>3
  <2>2. IsFiniteSet(S) /\ Cardinality(S) \in Nat
    BY <1>1
  <2> HIDE DEF S
  <2>3. Cardinality(S \union {k}) <= Cardinality(S) + 1
    BY <2>2, OneMoreKey
  <2>4. Cardinality((T \union {k}) \ {Overflow}) <= Cardinality(S) + 1
    BY <2>1, <2>3
  <2>5. QED  BY <1>3, <2>4 DEF S
<1>4. QED  BY <1>2, <1>3

(* The invariant holds in empty maps.                                      *)
LEMMA InitMapInv == MapInit => MapInv
<1> SUFFICES ASSUME MapInit PROVE MapInv
  OBVIOUS
<1>1. \A m \in Maps : table[m] = {} /\ table[m] \ {Overflow} = {}
  BY DEF MapInit
<1>2. TablesFinite /\ LenExact
  BY <1>1, FS_EmptySet DEF MapInit, LenExact, TablesFinite
<1>3. OwnWithinLimit
  <2> SUFFICES ASSUME Limit > 0, NEW m \in Maps
               PROVE  Cardinality(table[m] \ {Overflow}) <= Limit - 1
    BY DEF OwnWithinLimit
  <2>1. Cardinality(table[m] \ {Overflow}) = 0
    BY <1>1, FS_EmptySet
  <2>2. QED  BY <2>1
<1>4. MapTypeOK /\ ChoiceHolds
  BY DEF MapInit, MapTypeOK, ChoiceHolds, CallPhases
<1>5. QED  BY <1>2, <1>3, <1>4 DEF MapInv

(* A store keeps the length exact and the limit, in its map and the others.*)
LEMMA StoreMapInv ==
  ASSUME MapInv, NEW c \in Calls, Store(c) PROVE MapInv'
<1> USE DEF MapInv
<1> DEFINE m == at[c]
<1>1. m \in Maps /\ call[c] = "store" /\ mux[m] = c
  BY DEF Store, ChoiceHolds, MapTypeOK
<1>2. key[c] = (IF Full(m) THEN Overflow ELSE AttrOf[c]) /\ key[c] \in Keys
  BY <1>1 DEF ChoiceHolds, Keys
<1>3. /\ table'[m] = table[m] \union {key[c]}
      /\ len'[m] = IF key[c] \in table[m] THEN len[m] ELSE len[m] + 1
      /\ \A o \in Maps \ {m} : table'[o] = table[o] /\ len'[o] = len[o] /\ mux'[o] = mux[o]
  BY <1>1 DEF Store, Grown, MapTypeOK
<1>4. MapTypeOK'
  BY <1>1, <1>2 DEF Store, MapTypeOK, Return, Grown, CallPhases
<1> HIDE DEF m
<1>5. IsFiniteSet(table'[m]) /\ len'[m] = Cardinality(table'[m])
  BY <1>1, <1>3, OneMoreKey DEF LenExact, TablesFinite
<1>6. TablesFinite' /\ LenExact'
  BY <1>3, <1>5 DEF TablesFinite, LenExact
<1>7. OwnWithinLimit'
  <2> SUFFICES ASSUME Limit > 0, NEW o \in Maps
               PROVE  Cardinality(table'[o] \ {Overflow}) <= Limit - 1
    BY DEF OwnWithinLimit
  <2>1. CASE o # m
    BY <1>3, <2>1 DEF OwnWithinLimit
  <2>2. CASE o = m
    <3>1. Cardinality(table'[m] \ {Overflow}) <=
            Cardinality(table[m] \ {Overflow}) + IF key[c] = Overflow THEN 0 ELSE 1
      BY <1>1, <1>3, OwnKeysGrown DEF TablesFinite
    <3>2. /\ Cardinality(table[m] \ {Overflow}) <= len[m] /\ len[m] \in Nat
          /\ Cardinality(table[m] \ {Overflow}) \in Nat
          /\ Cardinality(table[m] \ {Overflow}) <= Limit - 1
      BY <1>1, OwnKeys DEF TablesFinite, LenExact, OwnWithinLimit
    <3>3. key[c] # Overflow => len[m] < Limit - 1
      BY <1>2, <3>2 DEF Full
    <3>4. Cardinality(table'[m] \ {Overflow}) \in Nat
      BY <1>5, OwnKeys
    <3>5. QED  BY <2>2, <3>1, <3>2, <3>3, <3>4
  <2>3. QED  BY <2>1, <2>2
<1>8. ChoiceHolds'
  <2> SUFFICES ASSUME NEW d \in Calls, call'[d] = "store"
               PROVE  /\ mux'[at'[d]] = d
                      /\ key'[d] = IF Full(at[d])' THEN Overflow ELSE AttrOf[d]
    BY DEF ChoiceHolds
  <2>1. d # c /\ call[d] = "store" /\ at'[d] = at[d] /\ key'[d] = key[d] /\ at[d] \in Maps
    BY DEF Store, Return, MapTypeOK
  <2>2. mux[at[d]] = d /\ at[d] # m
    BY <1>1, <2>1 DEF ChoiceHolds
  <2>3. QED  BY <1>3, <2>1, <2>2 DEF ChoiceHolds, Full
<1>9. QED  BY <1>4, <1>6, <1>7, <1>8

(* Emptying a map whose lock is free changes no call's choice.             *)
LEMMA ClearMapInv ==
  ASSUME MapInv, NEW m \in Maps, Clear(m) PROVE MapInv'
<1> USE DEF MapInv
<1>1. /\ table'[m] = {} /\ len'[m] = 0 /\ mux[m] = None
      /\ \A o \in Maps \ {m} : table'[o] = table[o] /\ len'[o] = len[o]
      /\ mux' = mux /\ call' = call /\ at' = at /\ key' = key /\ series' = series
  BY DEF Clear, MapTypeOK
<1>2. MapTypeOK'
  BY DEF Clear, MapTypeOK
<1>3. TablesFinite' /\ LenExact'
  BY <1>1, FS_EmptySet DEF TablesFinite, LenExact
<1>4. OwnWithinLimit'
  <2> SUFFICES ASSUME Limit > 0, NEW o \in Maps
               PROVE  Cardinality(table'[o] \ {Overflow}) <= Limit - 1
    BY DEF OwnWithinLimit
  <2>1. CASE o = m
    <3>1. table'[o] \ {Overflow} = {}  BY <1>1, <2>1
    <3>2. QED  BY <3>1, FS_EmptySet
  <2>2. CASE o # m
    BY <1>1, <2>2 DEF OwnWithinLimit
  <2>3. QED  BY <2>1, <2>2
<1>5. \A d \in Calls : call[d] = "store" => at[d] # m
  BY <1>1 DEF ChoiceHolds
<1>6. ChoiceHolds'
  BY <1>1, <1>5 DEF ChoiceHolds, Full, MapTypeOK
<1>7. QED  BY <1>2, <1>3, <1>4, <1>6

(* Every other step preserves it too.                                      *)
LEMMA NextMapInv == MapInv /\ [MapNext]_mapVars => MapInv'
<1> SUFFICES ASSUME MapInv, [MapNext]_mapVars PROVE MapInv'
  OBVIOUS
<1> USE DEF MapInv, MapTypeOK, CallPhases, Keys
<1>1. ASSUME UNCHANGED <<table, len>>
      PROVE  (TablesFinite /\ LenExact /\ OwnWithinLimit)'
  BY <1>1 DEF TablesFinite, LenExact, OwnWithinLimit
<1>2. ASSUME NEW c \in Calls, NEW m \in Maps, LoadOwn(c, m) PROVE MapInv'
  BY <1>1, <1>2 DEF LoadOwn, Return, GoTo, ChoiceHolds, Full
<1>3. ASSUME NEW c \in Calls, LoadOverflow(c) PROVE MapInv'
  BY <1>1, <1>3 DEF LoadOverflow, Return, GoTo, ChoiceHolds, Full
<1>4. ASSUME NEW c \in Calls, Lock(c) PROVE MapInv'
  <2>1. \A d \in Calls : call[d] = "store" => at[d] # at[c]
    BY <1>4 DEF Lock, ChoiceHolds
  <2>2. MapTypeOK'
    BY <1>4 DEF Lock, Return, GoTo
  <2>3. ChoiceHolds'
    BY <1>4, <2>1 DEF Lock, Return, GoTo, ChoiceHolds, Full
  <2>4. QED  BY <1>1, <1>4, <2>2, <2>3 DEF Lock
<1>5. ASSUME NEW c \in Calls, Store(c) PROVE MapInv'
  BY <1>5, StoreMapInv
<1>6. ASSUME NEW m \in Maps, Clear(m) PROVE MapInv'
  BY <1>6, ClearMapInv
<1>7. CASE UNCHANGED mapVars
  BY <1>1, <1>7 DEF mapVars, ChoiceHolds, Full
<1>8. QED  BY <1>2, <1>3, <1>4, <1>5, <1>6, <1>7 DEF MapNext

-----------------------------------------------------------------------------
(* The inductive invariant, with the exact length: the length collect      *)
(* sizes its result with is the size of the map.                           *)
THEOREM MapInvariant == MapSpec => []MapInv
<1>1. QED  BY InitMapInv, NextMapInv, PTL DEF MapSpec

(* No map ever exceeds the limit, however many calls race for it.          *)
THEOREM LimitHolds == MapSpec => []WithinLimit
<1>1. MapInv => WithinLimit
  <2> SUFFICES ASSUME MapInv, Limit > 0, NEW m \in Maps
               PROVE  Cardinality(table[m]) <= Limit
    BY DEF WithinLimit
  <2>1. IsFiniteSet(table[m]) /\ Cardinality(table[m] \ {Overflow}) <= Limit - 1
    BY DEF MapInv, OwnWithinLimit, TablesFinite
  <2>2. QED  BY <2>1, OwnKeys
<1>2. QED  BY <1>1, MapInvariant, PTL

(* If no call uses the overflow set itself, then the overflow series is in *)
(* a map only when the map is full.                                        *)
LEMMA NextOverflowMeansFull ==
  ASSUME OverflowSetUnused
  PROVE  MapInv /\ OverflowMeansFull /\ [MapNext]_mapVars => OverflowMeansFull'
<1> SUFFICES ASSUME MapInv, OverflowMeansFull, [MapNext]_mapVars,
                    NEW m \in Maps, Overflow \in table'[m]
             PROVE  OwnFull(m)'
  BY DEF OverflowMeansFull
<1> USE DEF MapInv
<1>1. ASSUME NEW c \in Calls, Store(c), at[c] = m PROVE OwnFull(m)'
  <2>1. /\ key[c] = IF Full(m) THEN Overflow ELSE AttrOf[c]
        /\ table'[m] = table[m] \union {key[c]}
        /\ IsFiniteSet(table[m]) /\ len[m] = Cardinality(table[m])
    BY <1>1 DEF Store, ChoiceHolds, TablesFinite, LenExact, MapTypeOK
  <2>2. CASE Full(m)
    <3>1. table'[m] \ {Overflow} = table[m] \ {Overflow}
      BY <2>1, <2>2
    <3>2. Overflow \notin table[m] => Cardinality(table[m] \ {Overflow}) >= Limit - 1
      BY <2>1, <2>2, OwnKeys DEF Full
    <3>3. OwnFull(m)
      BY <2>2, <3>2 DEF Full, OwnFull, OverflowMeansFull
    <3>4. QED  BY <3>1, <3>3 DEF OwnFull
  <2>3. CASE ~Full(m)
    <3>1. Overflow \in table[m]
      BY <1>1, <2>1, <2>3 DEF OverflowSetUnused
    <3>2. Limit > 0 /\ Cardinality(table[m] \ {Overflow}) >= Limit - 1
      BY <3>1 DEF OwnFull, OverflowMeansFull
    <3>3. Cardinality(table[m] \ {Overflow}) = len[m] - 1 /\ len[m] \in Nat
      BY <2>1, <3>1, OwnKeys
    <3>4. FALSE
      BY <2>3, <3>2, <3>3 DEF Full
    <3>5. QED  BY <3>4
  <2>4. QED  BY <2>2, <2>3
<1>2. ASSUME table'[m] = table[m] PROVE OwnFull(m)'
  BY <1>2 DEF OverflowMeansFull, OwnFull
<1>3. ASSUME NEW c \in Calls, Store(c), at[c] # m PROVE OwnFull(m)'
  <2>1. table'[m] = table[m]
    BY <1>3 DEF Store, MapTypeOK
  <2>2. QED  BY <1>2, <2>1
<1>4. ASSUME NEW o \in Maps, Clear(o) PROVE OwnFull(m)'
  <2>1. table'[m] = table[m]
    BY <1>4 DEF Clear, MapTypeOK
  <2>2. QED  BY <1>2, <2>1
<1>5. ASSUME UNCHANGED table PROVE OwnFull(m)'
  BY <1>2, <1>5
<1>6. QED
  BY <1>1, <1>3, <1>4, <1>5 DEF MapNext, LoadOwn, LoadOverflow, Lock, mapVars

(* A call whose own set has no series gets the overflow series only when   *)
(* the map is full, if the application does not use the overflow set.      *)
THEOREM DivertedOnlyWhenFull ==
  ASSUME OverflowSetUnused PROVE MapSpec => OverflowOnlyWhenFull
<1>1. MapInit => OverflowMeansFull
  BY DEF MapInit, OverflowMeansFull
<1>2. MapInv /\ OverflowMeansFull /\ [MapNext]_mapVars => OverflowMeansFull'
  BY NextOverflowMeansFull
<1>3. MapInv /\ OverflowMeansFull /\ [MapNext]_mapVars =>
        [\A c \in Calls : Diverts(c) => OwnFull(at[c])]_mapVars
  <2> SUFFICES ASSUME MapInv, OverflowMeansFull, MapNext, NEW c \in Calls, Diverts(c)
               PROVE  OwnFull(at[c])
    BY DEF mapVars
  <2>1. series[c] # Overflow /\ series'[c] = Overflow /\ AttrOf[c] # Overflow
    BY DEF Diverts
  <2>2. at[c] \in Maps
    BY DEF MapInv, MapTypeOK
  <2>3. CASE LoadOverflow(c) /\ Overflow \in table[at[c]]
    BY <2>2, <2>3 DEF OverflowMeansFull
  <2>4. CASE Store(c) /\ key[c] = Overflow
    <3>1. Full(at[c])
      BY <2>1, <2>4 DEF Store, MapInv, ChoiceHolds
    <3>2. CASE Overflow \in table[at[c]]
      BY <2>2, <3>2 DEF OverflowMeansFull
    <3>3. CASE Overflow \notin table[at[c]]
      BY <2>2, <3>1, <3>3, OwnKeys DEF Full, MapInv, TablesFinite, LenExact, OwnFull
    <3>4. QED  BY <3>2, <3>3
  <2>5. QED
    BY <2>1, <2>3, <2>4
    DEF MapInv, MapTypeOK, MapNext, LoadOwn, LoadOverflow, Lock, Store, Clear, Return, GoTo
<1>4. QED
  BY <1>1, <1>2, <1>3, MapInvariant, PTL DEF MapSpec, OverflowOnlyWhenFull

(***************************************************************************)
(* The inductive invariant of the aggregations.                            *)
(***************************************************************************)
CollectorSteps == {"none", "len", "range", "end"}
Ranging == collector \in {"range", "end"}

(* The calls whose measurements a map holds.  Those of a cold map are the  *)
(* ones the collection must count, from the end of its wait on.            *)
Cohort(i) ==
  IF Cumulative THEN {w \in Writers : i = 0}
  ELSE IF collector # "none" /\ i = readIdx THEN known ELSE members[i]

(* Those of them that have their series, and those counted in a series.    *)
SeenIn(i) == {w \in Cohort(i) : call[w] = "returned"}
CountedIn(i, k) == {w \in Cohort(i) : w \in added /\ series[w] = k}

(* The two parts of a sum count different calls.                           *)
Evens(S) == {w \in S : Whole(Amount[w])}
Odds(S) == {w \in S : ~Whole(Amount[w])}

SeriesTypeOK ==
  /\ kind \in AllKinds /\ collector \in CollectorSteps
  /\ cells \in [Sides -> [Keys -> [int : Int, frac : Int]]]
  /\ added \subseteq Writers /\ IsFiniteSet(added)
  /\ known \subseteq Writers
  /\ before \in [Writers -> SUBSET Writers]

(* What is counted has its series; what a call follows, and what a         *)
(* collection must count, is counted.                                      *)
CallsInOrder ==
  /\ \A w \in added : call[w] = "returned"
  /\ \A w \in Writers : before[w] \subseteq added
  /\ Ranging => known \subseteq added

(* The cumulative aggregations use one map and no wait group.              *)
CumulativeAlone ==
  Cumulative =>
    /\ \A w \in Writers : writer[w] = "idle" /\ at[w] = 0
    /\ reader = "idle" /\ collector # "len"

(* The precomputed ones look up their series between start and done, on    *)
(* the side start gave them; a collection reads a side that all of its     *)
(* calls have left.                                                        *)
OnStartedSide ==
  ~Cumulative =>
    /\ \A w \in Writers : call[w] # "idle" => writer[w] # "idle" /\ at[w] = side[w]
    /\ \A w \in Writers : writer[w] = "out" => w \in added
    /\ reader = "waiting" => known = members[readIdx]
    /\ collector # "none" =>
         reader = "reading" /\ \A w \in known : writer[w] = "out" /\ side[w] = readIdx

(* A map has the series of its calls, and no other.                        *)
TablesRight == \A i \in Sides : table[i] = {series[w] : w \in SeenIn(i)}

(* A cell of a sum has all that is counted in it, each amount in its part; *)
(* that of a last value is the amount of a call that no other follows.     *)
CellRight(i, k) ==
  IF Sums
  THEN /\ cells[i][k].int = SumOn(Amount, Evens(CountedIn(i, k)))
       /\ cells[i][k].frac = SumOn(Amount, Odds(CountedIn(i, k)))
  ELSE \E v \in SeenIn(i) :
         /\ series[v] = k /\ cells[i][k].int = Amount[v]
         /\ \A u \in CountedIn(i, k) : v \notin before[u]

CellsRight == \A i \in Sides : \A k \in table[i] : CellRight(i, k)

(* A point of a sum is that of some of the calls, with all that must be in *)
(* it; that of a last value follows from its cell.                         *)
PointRight(i, k) ==
  IF Sums
  THEN \E S \in SUBSET CountedIn(i, k) :
         OfSeries(known, k) \subseteq S /\ points[k] = SumOn(Amount, S)
  ELSE \E v \in SeenIn(i) :
         /\ series[v] = k /\ points[k] = Amount[v]
         /\ \A u \in OfSeries(known, k) : v \notin before[u]

PointsRight ==
  \A i \in Sides : i = Source => \A k \in DOMAIN points : k \in table[i] /\ PointRight(i, k)

(* Between the two loads of a sum, the fraction is that of such a set.     *)
LoadRight(i, k) ==
  \E F \in SUBSET Odds(CountedIn(i, k)) :
    Odds(OfSeries(known, k)) \subseteq F /\ loading.frac = SumOn(Amount, F)

LoadingRight ==
  loading # NotLoading =>
    /\ Sums
    /\ \A i \in Sides : i = Source => \E k \in table[i] : loading.key = k /\ LoadRight(i, k)

InProgress ==
  /\ ~Ranging => DOMAIN points = {} /\ loading = NotLoading
  /\ collector = "end" => todo = {} /\ loading = NotLoading

(* Every series that is due has a point, is being loaded or will be found. *)
Due(i) == IF Cumulative THEN {series[w] : w \in known} \union DOMAIN floor ELSE table[i]
Loading == IF loading = NotLoading THEN {} ELSE {loading.key}

NoneMissed ==
  Ranging => \A i \in Sides :
    i = Source => Due(i) \subseteq DOMAIN points \union todo \union Loading

(* The length that was read stays that of the cold map.                    *)
LengthRight ==
  ~Cumulative /\ Ranging => \A i \in Sides : i = readIdx => n = Cardinality(table[i])

(* The last points of a cumulative sum count no more than the next         *)
(* collection must count, if nothing negative is added.                    *)
FloorRight(M, k) ==
  /\ floor[k] \in Int
  /\ Rising(M, k) => floor[k] <= SumOn(Amount, OfSeries(M, k))

FloorsRight ==
  /\ kind # "Sum" => DOMAIN floor = {}
  /\ \A k \in DOMAIN floor : k \in table[0]
  /\ Ranging => \A k \in DOMAIN floor : FloorRight(known, k)
  /\ ~Ranging => \A k \in DOMAIN floor : FloorRight(added, k)

Placed == SeriesTypeOK /\ CallsInOrder /\ CumulativeAlone /\ OnStartedSide
Books == TablesRight /\ CellsRight
InCollection ==
  PointsRight /\ LoadingRight /\ InProgress /\ NoneMissed /\ LengthRight /\ FloorsRight

SeriesIInv == MapInv /\ GroupInv /\ Placed /\ Books /\ InCollection

-----------------------------------------------------------------------------
USE SeriesAssumption

(* The whole amounts and the others are added up apart.                    *)
LEMMA SumInParts ==
  ASSUME NEW E, IsFiniteSet(E), NEW F, IsFiniteSet(F), E \union F \subseteq Writers,
         E \intersect F = {}
  PROVE  SumOn(Amount, E) + SumOn(Amount, F) = SumOn(Amount, E \union F)
<1>1. \A w \in E \union F : Amount[w] \in Int  OBVIOUS
<1>2. QED  BY <1>1, SumOfDisjoint

(* One more amount.                                                        *)
LEMMA AmountAdded ==
  ASSUME NEW S, IsFiniteSet(S), S \subseteq Writers, NEW w \in Writers, w \notin S
  PROVE  SumOn(Amount, S \union {w}) = SumOn(Amount, S) + Amount[w]
<1>1. \A y \in S \union {w} : Amount[y] \in Int  OBVIOUS
<1>2. QED  BY <1>1, SumWithOneMore

-----------------------------------------------------------------------------
(* Every step is one of the wait group and one of the maps, or leaves them *)
(* alone.                                                                  *)
LEMMA SeriesGroupStep == [SeriesNext]_seriesVars => [GroupNext]_groupVars
BY DEF SeriesNext, seriesVars, GroupNext, groupVars, RecordStart, RecordStep, RecordLookup,
       RecordStore, RecordAdd, RecordDone, GatherSwap, GatherWaited, GatherLen, GatherVisit,
       GatherLoad, GatherEnd, GatherReturn

LEMMA SeriesMapStep == GroupInv /\ [SeriesNext]_seriesVars => [MapNext]_mapVars
<1> SUFFICES ASSUME GroupInv, [SeriesNext]_seriesVars PROVE [MapNext]_mapVars
  OBVIOUS
<1>1. readIdx \in Maps /\ 0 \in Maps /\ \A w \in Writers : w \in Calls /\ side[w] \in Maps
  BY DEF GroupInv, GroupTypeOK, Sides
<1>2. ASSUME NEW w \in Writers, RecordLookup(w) PROVE MapNext
  BY <1>1, <1>2 DEF RecordLookup, MapNext
<1>3. ASSUME NEW w \in Writers, RecordStore(w) PROVE MapNext
  BY <1>1, <1>3 DEF RecordStore, MapNext
<1>4. CASE GatherReturn  BY <1>1, <1>4 DEF GatherReturn, AfterRange, MapNext
<1>5. ASSUME NEW w \in Writers, RecordStart(w) \/ RecordAdd(w) \/ RecordDone(w)
      PROVE  UNCHANGED mapVars
  BY <1>5 DEF RecordStart, RecordAdd, RecordDone
<1>6. CASE GatherSwap \/ GatherWaited \/ GatherLen \/ GatherLoad \/ GatherEnd
  BY <1>6 DEF GatherSwap, GatherWaited, GatherLen, GatherLoad, GatherEnd
<1>7. ASSUME NEW k \in Keys, GatherVisit(k) PROVE UNCHANGED mapVars
  BY <1>7 DEF GatherVisit
<1>8. CASE UNCHANGED seriesVars  BY <1>8 DEF seriesVars
<1>9. QED
  BY <1>2, <1>3, <1>4, <1>5, <1>6, <1>7, <1>8 DEF SeriesNext, RecordStep

(* The map that is read, and those of both sides, are maps.               *)
LEMMA TheSides ==
  ASSUME GroupInv
  PROVE  Source \in Sides /\ readIdx \in Sides /\ hot \in Sides /\ 0 \in Sides
BY DEF GroupInv, GroupTypeOK, Source, Sides

(* Only finitely many calls are ever counted.                              *)
LEMMA CountedFinite ==
  ASSUME SeriesTypeOK, NEW i, NEW k
  PROVE  /\ CountedIn(i, k) \subseteq added /\ CountedIn(i, k) \subseteq Writers
         /\ IsFiniteSet(CountedIn(i, k))
<1>1. CountedIn(i, k) \subseteq added  BY DEF CountedIn
<1>2. IsFiniteSet(added) /\ added \subseteq Writers  BY DEF SeriesTypeOK
<1>3. QED  BY <1>1, <1>2, FS_Subset

(* A call that has begun and is not counted yet belongs to the map it      *)
(* works on, which no collection reads unless it is the only one.          *)
LEMMA AtWork ==
  ASSUME GroupInv, CallsInOrder, CumulativeAlone, OnStartedSide,
         NEW w \in Writers, call[w] # "idle", w \notin added, NEW i \in Sides
  PROVE  /\ w \in Cohort(i) <=> i = at[w]
         /\ at[w] \in Sides
         /\ ~Cumulative => writer[w] = "in"
         /\ ~Cumulative /\ collector # "none" => at[w] # readIdx /\ w \notin known
<1>1. CASE Cumulative
  BY <1>1 DEF CumulativeAlone, Cohort, Sides
<1>2. CASE ~Cumulative
  <2>1. /\ writer[w] = "in" /\ at[w] = side[w] /\ at[w] \in Sides
        /\ w \in members[side[w]]
    BY <1>2 DEF OnStartedSide, GroupInv, GroupTypeOK, WritersAreMembers
  <2>2. w \in members[i] <=> i = at[w]
    BY <2>1 DEF GroupInv, WritersAreMembers
  <2>3. ASSUME collector # "none" PROVE at[w] # readIdx /\ w \notin known
    <3>1. at[w] # readIdx  BY <1>2, <2>1, <2>3, InvExclusive DEF OnStartedSide, Exclusive
    <3>2. w \notin known  BY <1>2, <2>1, <2>3 DEF OnStartedSide
    <3>3. QED  BY <3>1, <3>2
  <2>4. QED  BY <1>2, <2>1, <2>2, <2>3 DEF Cohort
<1>3. QED  BY <1>1, <1>2

(* A call that belongs to a map works on it.                               *)
LEMMA OfItsMap ==
  ASSUME GroupInv, SeriesTypeOK, CumulativeAlone, OnStartedSide,
         NEW i \in Sides, NEW w \in Cohort(i)
  PROVE  w \in Writers /\ (call[w] # "idle" => at[w] = i)
<1>1. CASE Cumulative
  BY <1>1 DEF CumulativeAlone, Cohort
<1>2. CASE ~Cumulative
  <2>1. CASE collector # "none" /\ i = readIdx
    BY <1>2, <2>1 DEF OnStartedSide, Cohort, SeriesTypeOK
  <2>2. CASE ~(collector # "none" /\ i = readIdx)
    BY <1>2, <2>2 DEF OnStartedSide, Cohort, GroupInv, GroupTypeOK, WritersAreMembers
  <2>3. QED  BY <2>1, <2>2
<1>3. QED  BY <1>1, <1>2

(* What has been counted has its series, which is in the table.            *)
LEMMA SeenInTable ==
  ASSUME TablesRight, NEW i \in Sides, NEW w \in SeenIn(i)
  PROVE  series[w] \in table[i]
BY DEF TablesRight

(* The calls a collection must count are counted in the map it reads.      *)
LEMMA KnownCounted ==
  ASSUME SeriesTypeOK, CallsInOrder, OnStartedSide, Ranging, NEW i \in Sides, i = Source, NEW k
  PROVE  /\ known \subseteq Cohort(i) /\ known \subseteq SeenIn(i)
         /\ OfSeries(known, k) \subseteq CountedIn(i, k)
         /\ ~Cumulative => Cohort(i) = known
<1>1. known \subseteq Cohort(i) /\ (~Cumulative => Cohort(i) = known)
  <2>1. CASE Cumulative  BY <2>1 DEF Cohort, Source, SeriesTypeOK
  <2>2. CASE ~Cumulative  BY <2>2 DEF Cohort, Source, Ranging
  <2>3. QED  BY <2>1, <2>2
<1>2. known \subseteq added /\ \A w \in added : call[w] = "returned"
  BY DEF CallsInOrder
<1>3. QED  BY <1>1, <1>2 DEF SeenIn, OfSeries, CountedIn

-----------------------------------------------------------------------------
(* What the maps hold.                                                     *)

(* Steps that change no map and count nobody.                              *)
LEMMA SameBooks ==
  ASSUME TablesRight, CellsRight, UNCHANGED <<kind, table, cells>>,
         \A i \in Sides : SeenIn(i)' = SeenIn(i),
         \A i \in Sides : \A u \in SeenIn(i) : series'[u] = series[u],
         \A i \in Sides : \A k \in Keys : CountedIn(i, k)' = CountedIn(i, k),
         \A i \in Sides : \A k \in Keys : \A u \in CountedIn(i, k) : before'[u] = before[u],
         MapInv
  PROVE  TablesRight' /\ CellsRight'
<1>1. TablesRight'  BY DEF TablesRight
<1>2. ASSUME NEW i \in Sides, NEW k \in table'[i] PROVE CellRight(i, k)'
  <2>1. CellRight(i, k) /\ k \in Keys  BY DEF CellsRight, MapInv, MapTypeOK
  <2>2. Sums' = Sums  BY DEF Sums
  <2>3. PICK C : C = CountedIn(i, k)  OBVIOUS
  <2>4. CountedIn(i, k)' = C /\ \A u \in C : before'[u] = before[u]  BY <2>1, <2>3
  <2>5. CASE Sums  BY <2>1, <2>2, <2>3, <2>4, <2>5 DEF CellRight, Evens, Odds
  <2>6. CASE ~Sums
    <3>1. PICK v \in SeenIn(i) : /\ series[v] = k /\ cells[i][k].int = Amount[v]
                                 /\ \A u \in C : v \notin before[u]
      BY <2>1, <2>3, <2>6 DEF CellRight
    <3>2. QED  BY <2>2, <2>4, <2>6, <3>1 DEF CellRight
  <2>7. QED  BY <2>5, <2>6
<1>3. QED  BY <1>1, <1>2 DEF CellsRight

(* A call of LoadOrStoreAttr goes on, and perhaps returns with a series,   *)
(* which is stored if it is new.                                           *)
Moves(w, m) ==
  /\ UNCHANGED <<groupVars, kind, added, collectVars>>
  /\ call[w] # "returned" /\ w \notin added /\ w \in Cohort(m)
  /\ call'[w] # "idle" /\ at'[w] = m
  /\ ~Cumulative => side[w] = m /\ writer[w] = "in"
  /\ before'[w] \subseteq added /\ before' \in [Writers -> SUBSET Writers]
  /\ \A u \in Writers \ {w} :
       call'[u] = call[u] /\ series'[u] = series[u] /\ at'[u] = at[u] /\ before'[u] = before[u]
  /\ call'[w] # "returned" => UNCHANGED <<table, cells>>
  /\ call'[w] = "returned" =>
       /\ series'[w] \in Keys
       /\ table'[m] = table[m] \union {series'[w]}
       /\ \A i \in Sides \ {m} : table'[i] = table[i]
       /\ cells' \in [Sides -> [Keys -> [int : Int, frac : Int]]]
       /\ series'[w] \notin table[m] => cells'[m][series'[w]] = Initial(Amount[w])
       /\ \A i \in Sides, k \in Keys :
            (i = m /\ k = series'[w] /\ k \notin table[m]) \/ cells'[i][k] = cells[i][k]

(* The three loads of LoadOrStoreAttr find a series of the table or go on.  *)
LEMMA LookupMoves ==
  ASSUME MapInv, GroupInv, SeriesTypeOK, CallsInOrder, CumulativeAlone, OnStartedSide,
         NEW w \in Writers, RecordLookup(w)
  PROVE  \E m \in Sides : Moves(w, m)
<1>1. UNCHANGED <<groupVars, kind, added, collectVars, cells, table>>
  BY DEF RecordLookup, LoadOwn, LoadOverflow, Lock
<1>2. call[w] # "returned" /\ w \notin added
  BY DEF RecordLookup, LoadOwn, LoadOverflow, Lock, CallsInOrder
<1>3. /\ call \in [Writers -> CallPhases] /\ at \in [Writers -> Sides]
      /\ series \in [Writers -> Keys \union {None}] /\ before \in [Writers -> SUBSET Writers]
      /\ table \in [Sides -> SUBSET Keys] /\ added \subseteq Writers
      /\ AttrOf[w] \in Keys /\ Overflow \in Keys
  BY DEF MapInv, MapTypeOK, SeriesTypeOK, Keys
<1>4. ASSUME NEW m \in Sides, w \in Cohort(m), at'[w] = m, call'[w] # "idle",
             ~Cumulative => side[w] = m /\ writer[w] = "in",
             before'[w] \subseteq added, before' \in [Writers -> SUBSET Writers],
             \A u \in Writers \ {w} : at'[u] = at[u] /\ before'[u] = before[u],
             \/ \E k \in table[m] : Return(w, k)
             \/ \E phase \in {"overflow", "lock", "store"} : GoTo(w, phase)
      PROVE  Moves(w, m)
  <2>1. CASE \E phase \in {"overflow", "lock", "store"} : GoTo(w, phase)
    <3>1. call'[w] # "returned"  BY <1>3, <2>1 DEF GoTo
    <3>2. \A u \in Writers \ {w} : call'[u] = call[u] /\ series'[u] = series[u]
      BY <1>3, <2>1 DEF GoTo
    <3>3. QED  BY <1>1, <1>2, <1>4, <3>1, <3>2 DEF Moves
  <2>2. ASSUME NEW k \in table[m], Return(w, k) PROVE Moves(w, m)
    <3>1. call'[w] = "returned" /\ series'[w] = k /\ k \in Keys /\ k \in table[m]
      BY <1>3, <2>2 DEF Return
    <3>2. \A u \in Writers \ {w} : call'[u] = call[u] /\ series'[u] = series[u]
      BY <1>3, <2>2 DEF Return
    <3>3. cells' = cells /\ cells \in [Sides -> [Keys -> [int : Int, frac : Int]]]
      BY <1>1 DEF SeriesTypeOK
    <3>4. table'[m] = table[m] \union {series'[w]} /\ \A i \in Sides \ {m} : table'[i] = table[i]
      BY <1>1, <3>1
    <3>5. QED  BY <1>1, <1>2, <1>4, <3>1, <3>2, <3>3, <3>4 DEF Moves
  <2>3. QED  BY <1>4, <2>1, <2>2
<1>5. CASE Cumulative /\ LoadOwn(w, 0) /\ Follows(w, Writers)
  <2>1. 0 \in Sides /\ w \in Cohort(0)  BY <1>5 DEF Sides, Cohort
  <2>2. at'[w] = 0 /\ \A u \in Writers \ {w} : at'[u] = at[u]
    BY <1>3, <1>5 DEF LoadOwn
  <2>3. call'[w] # "idle"  BY <1>3, <1>5 DEF LoadOwn, Return, GoTo
  <2>4. Returned = added  BY <1>3, <1>5 DEF Returned
  <2>5. /\ before'[w] \subseteq added /\ before' \in [Writers -> SUBSET Writers]
        /\ \A u \in Writers \ {w} : before'[u] = before[u]
    BY <1>3, <1>5, <2>4 DEF Follows, CallsInOrder
  <2>6. (\E k \in table[0] : Return(w, k)) \/ GoTo(w, "overflow")  BY <1>5 DEF LoadOwn
  <2>7. QED  BY <1>4, <1>5, <2>1, <2>2, <2>3, <2>5, <2>6
<1>6. CASE ~Cumulative /\ writer[w] = "in" /\ LoadOwn(w, side[w]) /\ UNCHANGED before
  <2>1. PICK m \in Sides : m = side[w]  BY DEF GroupInv, GroupTypeOK
  <2>2. w \in members[m]
    BY <1>6, <2>1 DEF GroupInv, WritersAreMembers
  <2>3. w \in Cohort(m)
    <3>1. collector # "none" => m # readIdx
      BY <1>6, <2>1, InvExclusive DEF OnStartedSide, Exclusive
    <3>2. QED  BY <1>6, <2>2, <3>1 DEF Cohort
  <2>4. at'[w] = m /\ \A u \in Writers \ {w} : at'[u] = at[u]
    BY <1>3, <1>6, <2>1 DEF LoadOwn
  <2>5. call'[w] # "idle"  BY <1>3, <1>6 DEF LoadOwn, Return, GoTo
  <2>6. /\ before'[w] \subseteq added /\ before' \in [Writers -> SUBSET Writers]
        /\ \A u \in Writers \ {w} : before'[u] = before[u]
    BY <1>3, <1>6 DEF CallsInOrder
  <2>7. (\E k \in table[m] : Return(w, k)) \/ GoTo(w, "overflow")
    BY <1>6, <2>1 DEF LoadOwn
  <2>8. QED  BY <1>4, <1>6, <2>1, <2>3, <2>4, <2>5, <2>6, <2>7
<1>7. CASE (LoadOverflow(w) \/ Lock(w)) /\ UNCHANGED before
  <2>1. call[w] # "idle" /\ at' = at  BY <1>7 DEF LoadOverflow, Lock
  <2>2. PICK m \in Sides : m = at[w]  BY <1>3
  <2>3. w \in Cohort(m) /\ (~Cumulative => side[w] = m /\ writer[w] = "in")
    BY <1>2, <2>1, <2>2, AtWork DEF OnStartedSide
  <2>4. call'[w] # "idle"  BY <1>3, <1>7 DEF LoadOverflow, Lock, Return, GoTo
  <2>5. /\ before'[w] \subseteq added /\ before' \in [Writers -> SUBSET Writers]
        /\ \A u \in Writers \ {w} : before'[u] = before[u] /\ at'[u] = at[u]
    BY <1>3, <1>7, <2>1 DEF CallsInOrder
  <2>6. (\E k \in table[m] : Return(w, k)) \/ GoTo(w, "lock") \/ GoTo(w, "store")
    BY <1>7, <2>2 DEF LoadOverflow, Lock
  <2>7. QED  BY <1>4, <2>1, <2>2, <2>3, <2>4, <2>5, <2>6
<1>8. writer[w] = "in" => ~Cumulative  BY DEF CumulativeAlone
<1>9. QED  BY <1>5, <1>6, <1>7, <1>8 DEF RecordLookup

(* The store brings a new series, with the first value of its cell.        *)
LEMMA StoreMoves ==
  ASSUME MapInv, GroupInv, SeriesTypeOK, CallsInOrder, CumulativeAlone, OnStartedSide,
         NEW w \in Writers, RecordStore(w)
  PROVE  \E m \in Sides : Moves(w, m)
<1>1. UNCHANGED <<groupVars, kind, added, collectVars, before, at>> /\ Store(w)
  BY DEF RecordStore, Store
<1>2. call[w] = "store" /\ w \notin added
  BY <1>1 DEF Store, CallsInOrder
<1>3. PICK m \in Sides : m = at[w]  BY DEF MapInv, MapTypeOK
<1>4. PICK k \in Keys : k = key[w]
  BY <1>2 DEF MapInv, MapTypeOK, ChoiceHolds, Keys
<1>5. w \in Cohort(m) /\ (~Cumulative => side[w] = m /\ writer[w] = "in")
  BY <1>2, <1>3, AtWork DEF OnStartedSide
<1>6. /\ call'[w] = "returned" /\ series'[w] = k
      /\ \A u \in Writers \ {w} : call'[u] = call[u] /\ series'[u] = series[u]
  BY <1>1, <1>4 DEF Store, Return, MapInv, MapTypeOK
<1>7. table'[m] = table[m] \union {k} /\ \A i \in Sides \ {m} : table'[i] = table[i]
  BY <1>1, <1>3, <1>4 DEF Store, MapInv, MapTypeOK
<1>8. /\ cells' \in [Sides -> [Keys -> [int : Int, frac : Int]]]
      /\ k \notin table[m] => cells'[m][k] = Initial(Amount[w])
      /\ \A i \in Sides, x \in Keys :
           (i = m /\ x = k /\ x \notin table[m]) \/ cells'[i][x] = cells[i][x]
  <2>1. cells' = IF k \in table[m] THEN cells
                 ELSE [cells EXCEPT ![m][k] = Initial(Amount[w])]
    BY <1>3, <1>4 DEF RecordStore
  <2>2. cells \in [Sides -> [Keys -> [int : Int, frac : Int]]]  BY DEF SeriesTypeOK
  <2>3. Initial(Amount[w]) \in [int : Int, frac : Int]  BY DEF Initial, Zero, Stored
  <2> DEFINE new == Initial(Amount[w])
             Cell == [int : Int, frac : Int]
  <2>4. new \in Cell /\ cells \in [Sides -> [Keys -> Cell]]  BY <2>2, <2>3
  <2> HIDE DEF new, Cell
  <2>5. CASE k \in table[m]  BY <2>1, <2>4, <2>5 DEF Cell
  <2>6. CASE k \notin table[m]
    <3>1. cells' = [cells EXCEPT ![m][k] = new]  BY <2>1, <2>6 DEF new
    <3>2. QED  BY <2>4, <2>6, <3>1 DEF new, Cell
  <2>7. QED  BY <2>5, <2>6
<1>9. before'[w] \subseteq added /\ before' \in [Writers -> SUBSET Writers]
  BY <1>1 DEF CallsInOrder, SeriesTypeOK
<1>10. QED
  BY <1>1, <1>2, <1>3, <1>5, <1>6, <1>7, <1>8, <1>9 DEF Moves

(* Such a call brings its series into its table, and counts nobody.        *)
LEMMA MovesSeen ==
  ASSUME MapInv, GroupInv, SeriesTypeOK, CallsInOrder, CumulativeAlone, OnStartedSide,
         NEW w \in Writers, NEW m \in Sides, Moves(w, m)
  PROVE  /\ \A i \in Sides : Cohort(i)' = Cohort(i)
         /\ \A i \in Sides :
              SeenIn(i)' = IF i = m /\ call'[w] = "returned" THEN SeenIn(i) \union {w}
                           ELSE SeenIn(i)
         /\ \A i, k : CountedIn(i, k)' = CountedIn(i, k)
         /\ Cumulative' = Cumulative /\ Sums' = Sums
<1>1. UNCHANGED <<groupVars, kind, added, collectVars>>  BY DEF Moves
<1>2. Cumulative' = Cumulative /\ Sums' = Sums  BY <1>1 DEF Cumulative, Sums
<1>3. \A i : Cohort(i)' = Cohort(i)
  BY <1>1, <1>2 DEF Cohort, groupVars, collectVars
<1>4. \A i \in Sides : Cohort(i) \subseteq Writers
  BY OfItsMap
<1>5. \A i \in Sides : w \in Cohort(i) /\ call'[w] = "returned" => i = m
  <2>1. CASE Cumulative  BY <2>1 DEF Cohort, Moves
  <2>2. CASE ~Cumulative
    <3> SUFFICES ASSUME NEW i \in Sides, w \in Cohort(i) PROVE i = m
      OBVIOUS
    <3>1. side[w] = m /\ writer[w] = "in"  BY <2>2 DEF Moves
    <3>2. CASE collector # "none" /\ i = readIdx
      BY <2>2, <3>1, <3>2 DEF Cohort, OnStartedSide
    <3>3. CASE ~(collector # "none" /\ i = readIdx)
      BY <2>2, <3>1, <3>3 DEF Cohort, GroupInv, WritersAreMembers
    <3>4. QED  BY <3>2, <3>3
  <2>3. QED  BY <2>1, <2>2
<1>6. /\ call[w] # "returned" /\ w \notin added /\ w \in Cohort(m)
      /\ \A u \in Writers \ {w} : call'[u] = call[u] /\ series'[u] = series[u]
  BY DEF Moves
<1>7. ASSUME NEW i \in Sides
      PROVE  SeenIn(i)' = IF i = m /\ call'[w] = "returned" THEN SeenIn(i) \union {w}
                          ELSE SeenIn(i)
  BY <1>3, <1>4, <1>5, <1>6 DEF SeenIn
<1>8. \A i, k : CountedIn(i, k)' = CountedIn(i, k)
  BY <1>1, <1>3, <1>6 DEF CountedIn, SeriesTypeOK
<1>9. QED  BY <1>2, <1>3, <1>7, <1>8

(* The tables and the cells stay right: a new cell has counted nobody.     *)
LEMMA MovesBooks ==
  ASSUME MapInv, GroupInv, SeriesTypeOK, CallsInOrder, CumulativeAlone, OnStartedSide,
         TablesRight, CellsRight, NEW w \in Writers, NEW m \in Sides, Moves(w, m)
  PROVE  TablesRight' /\ CellsRight'
<1>1. UNCHANGED <<kind, added>> /\ Sums' = Sums  BY MovesSeen DEF Moves
<1>2. \A i, k : CountedIn(i, k)' = CountedIn(i, k)  BY MovesSeen
<1>3. \A i \in Sides : \A u \in SeenIn(i) : u # w /\ series'[u] = series[u]
  BY OfItsMap DEF Moves, SeenIn
<1>4. \A i \in Sides : \A k \in Keys : \A u \in CountedIn(i, k) :
        u # w /\ before'[u] = before[u] /\ u \in SeenIn(i)
  BY OfItsMap DEF Moves, CountedIn, SeenIn, CallsInOrder
<1>5. CASE call'[w] # "returned"
  <2>1. UNCHANGED <<kind, table, cells>>  BY <1>5 DEF Moves
  <2>2. \A i \in Sides : SeenIn(i)' = SeenIn(i)  BY <1>5, MovesSeen
  <2>3. QED  BY <1>2, <1>3, <1>4, <2>1, <2>2, SameBooks
<1>6. CASE call'[w] = "returned"
  <2>1. PICK x \in Keys : x = series'[w]  BY <1>6 DEF Moves
  <2>2. /\ table'[m] = table[m] \union {x}
        /\ \A i \in Sides \ {m} : table'[i] = table[i]
        /\ x \notin table[m] => cells'[m][x] = Initial(Amount[w])
        /\ \A i \in Sides, k \in Keys :
             (i = m /\ k = x /\ k \notin table[m]) \/ cells'[i][k] = cells[i][k]
    BY <1>6, <2>1 DEF Moves
  <2>3. \A i \in Sides : SeenIn(i)' = IF i = m THEN SeenIn(i) \union {w} ELSE SeenIn(i)
    BY <1>6, MovesSeen
  <2>4. ASSUME NEW i \in Sides PROVE table'[i] = {series'[u] : u \in SeenIn(i)'}
    <3>1. table[i] = {series[u] : u \in SeenIn(i)}  BY DEF TablesRight
    <3>2. CASE i # m  BY <1>3, <2>2, <2>3, <3>1, <3>2
    <3>3. CASE i = m
      <4>1. {series'[u] : u \in SeenIn(i) \union {w}} = {series[u] : u \in SeenIn(i)} \union {x}
        BY <1>3, <2>1
      <4>2. QED  BY <2>2, <2>3, <3>1, <3>3, <4>1
    <3>4. QED  BY <3>2, <3>3
  <2>5. ASSUME NEW i \in Sides, NEW k \in table'[i] PROVE CellRight(i, k)'
    <3>1. PICK C : C = CountedIn(i, k)  OBVIOUS
    <3>2. CountedIn(i, k)' = C  BY <1>2, <3>1
    <3>3. k \in Keys
      BY <2>2 DEF MapInv, MapTypeOK
    <3>4. \A u \in C : before'[u] = before[u] /\ u # w  BY <1>4, <3>1, <3>3
    <3>5. CASE k \in table[i]
      <4>1. CellRight(i, k) /\ cells'[i][k] = cells[i][k]
        BY <2>2, <3>3, <3>5 DEF CellsRight
      <4>2. CASE Sums  BY <1>1, <3>1, <3>2, <4>1, <4>2 DEF CellRight, Evens, Odds
      <4>3. CASE ~Sums
        <5>1. PICK v \in SeenIn(i) : /\ series[v] = k /\ cells[i][k].int = Amount[v]
                                     /\ \A u \in C : v \notin before[u]
          BY <3>1, <4>1, <4>3 DEF CellRight
        <5>2. v \in SeenIn(i)' /\ series'[v] = k  BY <1>3, <2>3, <5>1
        <5>3. QED  BY <1>1, <3>2, <3>4, <4>1, <4>3, <5>1, <5>2 DEF CellRight
      <4>4. QED  BY <4>2, <4>3
    <3>6. CASE k \notin table[i]
      <4>1. i = m /\ k = x /\ cells'[i][k] = Initial(Amount[w])
        BY <2>2, <3>6
      <4>2. C = {}
        <5>1. \A u \in C : u \in SeenIn(i) /\ series[u] = k
          BY <1>4, <3>1, <3>3 DEF CountedIn
        <5>2. QED  BY <3>6, <5>1, SeenInTable
      <4>3. CASE Sums
        <5>1. Evens(C) = {} /\ Odds(C) = {}  BY <4>2 DEF Evens, Odds
        <5>2. cells'[i][k].int = 0 /\ cells'[i][k].frac = 0
          BY <4>1, <4>3 DEF Initial, Zero
        <5>3. QED  BY <1>1, <3>2, <4>3, <5>1, <5>2, SumOfNone DEF CellRight
      <4>4. CASE ~Sums
        <5>1. cells'[i][k].int = Amount[w]  BY <4>1, <4>4 DEF Initial, Stored
        <5>2. w \in SeenIn(i)' /\ series'[w] = k  BY <2>1, <2>3, <4>1
        <5>3. QED  BY <1>1, <3>2, <4>2, <4>4, <5>1, <5>2 DEF CellRight
      <4>5. QED  BY <4>3, <4>4
    <3>7. QED  BY <3>5, <3>6
  <2>6. QED  BY <2>4, <2>5 DEF TablesRight, CellsRight
<1>7. QED  BY <1>5, <1>6

(* A call adds its amount to its series.                                   *)
AddsTo(w, m, k) ==
  /\ UNCHANGED <<groupVars, mapVars, kind, collector, n, points, loading, todo, known, floor,
                 before>>
  /\ w \notin added /\ added' = added \union {w}
  /\ at[w] = m /\ series[w] = k /\ w \in SeenIn(m) /\ k \in table[m] /\ k \in Keys
  /\ cells' \in [Sides -> [Keys -> [int : Int, frac : Int]]]
  /\ cells'[m][k] = Added(cells[m][k], Amount[w])
  /\ \A i \in Sides, x \in Keys : (i = m /\ x = k) \/ cells'[i][x] = cells[i][x]

(* A cell that an amount is added to is still a cell.                      *)
LEMMA AddedTyped ==
  ASSUME NEW c \in [int : Int, frac : Int], NEW v \in Int
  PROVE  Added(c, v) \in [int : Int, frac : Int]
BY DEF Added, Stored

(* That is what the addition of a measurement does.                        *)
LEMMA RecordAddsTo ==
  ASSUME MapInv, GroupInv, SeriesTypeOK, CallsInOrder, CumulativeAlone, OnStartedSide,
         TablesRight, NEW w \in Writers, RecordAdd(w)
  PROVE  \E m \in Sides, k \in Keys : AddsTo(w, m, k)
<1>1. call[w] = "returned" /\ w \notin added  BY DEF RecordAdd
<1>2. PICK m \in Sides : m = at[w]  BY DEF MapInv, MapTypeOK
<1>3. w \in SeenIn(m)  BY <1>1, <1>2, AtWork DEF SeenIn
<1>4. PICK k \in table[m] : k = series[w]  BY <1>3, SeenInTable
<1>5. k \in Keys  BY <1>4 DEF MapInv, MapTypeOK
<1> DEFINE Cell == [int : Int, frac : Int]
           new == Added(cells[m][k], Amount[w])
<1>6. cells \in [Sides -> [Keys -> Cell]]  BY DEF SeriesTypeOK
<1>7. new \in Cell
  <2>1. cells[m][k] \in Cell  BY <1>5, <1>6
  <2>2. QED  BY <2>1, AddedTyped
<1>8. cells' = [cells EXCEPT ![m][k] = new]
  BY <1>2, <1>4 DEF RecordAdd
<1> HIDE DEF new, Cell
<1>10. /\ cells' \in [Sides -> [Keys -> Cell]] /\ cells'[m][k] = new
       /\ \A i \in Sides, x \in Keys : (i = m /\ x = k) \/ cells'[i][x] = cells[i][x]
  BY <1>5, <1>6, <1>7, <1>8
<1>11. QED
  BY <1>1, <1>2, <1>3, <1>4, <1>5, <1>10 DEF AddsTo, RecordAdd, new, Cell

(* It is counted in its series, and nothing else changes.                  *)
LEMMA AddsSeen ==
  ASSUME SeriesTypeOK, GroupInv, MapInv, CumulativeAlone, OnStartedSide,
         NEW w \in Writers, NEW m \in Sides, NEW k \in Keys, AddsTo(w, m, k)
  PROVE  /\ Cumulative' = Cumulative /\ Sums' = Sums
         /\ \A i : Cohort(i)' = Cohort(i) /\ SeenIn(i)' = SeenIn(i)
         /\ \A i \in Sides : \A x : CountedIn(i, x)' =
              IF i = m /\ x = k THEN CountedIn(i, x) \union {w} ELSE CountedIn(i, x)
<1>1. UNCHANGED <<groupVars, mapVars, kind, collector, known>> /\ added' = added \union {w}
  BY DEF AddsTo
<1>2. Cumulative' = Cumulative /\ Sums' = Sums  BY <1>1 DEF Cumulative, Sums
<1>3. \A i : Cohort(i)' = Cohort(i)  BY <1>1, <1>2 DEF Cohort, groupVars
<1>4. \A i : SeenIn(i)' = SeenIn(i)  BY <1>1, <1>3 DEF SeenIn, mapVars
<1>5. ASSUME NEW i \in Sides, NEW x
      PROVE  CountedIn(i, x)' =
               IF i = m /\ x = k THEN CountedIn(i, x) \union {w} ELSE CountedIn(i, x)
  <2>1. series' = series /\ series[w] = k /\ w \in Cohort(m) /\ call[w] = "returned" /\ at[w] = m
    BY <1>1 DEF AddsTo, SeenIn, mapVars
  <2>2. w \in Cohort(i) => i = m  BY <2>1, OfItsMap
  <2>3. QED  BY <1>1, <1>3, <2>1, <2>2 DEF CountedIn
<1>6. QED  BY <1>2, <1>3, <1>4, <1>5

(* The cell stays right: the amount goes to the part that counts the call, *)
(* or replaces a last value that the call may follow but none follows.     *)
LEMMA AddsBooks ==
  ASSUME MapInv, GroupInv, SeriesTypeOK, CallsInOrder, CumulativeAlone, OnStartedSide,
         TablesRight, CellsRight,
         NEW w \in Writers, NEW m \in Sides, NEW k \in Keys, AddsTo(w, m, k)
  PROVE  TablesRight' /\ CellsRight'
<1>1. UNCHANGED <<table, series, before, kind>> /\ Sums' = Sums /\ k \in table[m]
  BY AddsSeen DEF AddsTo, mapVars
<1>2. \A i : SeenIn(i)' = SeenIn(i)  BY AddsSeen
<1>3. TablesRight'  BY <1>1, <1>2 DEF TablesRight
<1>4. CellRight(m, k) /\ cells[m][k] \in [int : Int, frac : Int]
      /\ cells'[m][k] = Added(cells[m][k], Amount[w])
  BY <1>1 DEF CellsRight, SeriesTypeOK, AddsTo
<1>5. PICK C : C = CountedIn(m, k)  OBVIOUS
<1>6. CountedIn(m, k)' = C \union {w}  BY <1>5, AddsSeen
<1>7. w \notin C /\ IsFiniteSet(C) /\ C \subseteq Writers /\ C \subseteq added
  BY <1>5, CountedFinite DEF AddsTo
<1>8. CellRight(m, k)'
  <2>1. CASE Sums
    <3> DEFINE c == cells[m][k]
    <3>1. c.int = SumOn(Amount, Evens(C)) /\ c.frac = SumOn(Amount, Odds(C))
      BY <1>4, <1>5, <2>1 DEF CellRight
    <3>2. c \in [int : Int, frac : Int] /\ cells'[m][k] = Added(c, Amount[w])  BY <1>4
    <3>3. /\ IsFiniteSet(Evens(C)) /\ Evens(C) \subseteq Writers /\ w \notin Evens(C)
          /\ IsFiniteSet(Odds(C)) /\ Odds(C) \subseteq Writers /\ w \notin Odds(C)
      <4>1. Evens(C) \in SUBSET C /\ Odds(C) \in SUBSET C  BY DEF Evens, Odds
      <4>2. QED  BY <1>7, <4>1, FS_Subset
    <3> HIDE DEF c
    <3>4. CASE Whole(Amount[w])
      <4>1. Evens(C \union {w}) = Evens(C) \union {w} /\ Odds(C \union {w}) = Odds(C)
        BY <3>4 DEF Evens, Odds
      <4>2. SumOn(Amount, Evens(C \union {w})) = SumOn(Amount, Evens(C)) + Amount[w]
        BY <3>3, <4>1, AmountAdded
      <4>3. cells'[m][k].int = c.int + Amount[w] /\ cells'[m][k].frac = c.frac
        BY <2>1, <3>2, <3>4 DEF Added
      <4>4. QED  BY <1>1, <1>6, <2>1, <3>1, <4>1, <4>2, <4>3 DEF CellRight
    <3>5. CASE ~Whole(Amount[w])
      <4>1. Odds(C \union {w}) = Odds(C) \union {w} /\ Evens(C \union {w}) = Evens(C)
        BY <3>5 DEF Evens, Odds
      <4>2. SumOn(Amount, Odds(C \union {w})) = SumOn(Amount, Odds(C)) + Amount[w]
        BY <3>3, <4>1, AmountAdded
      <4>3. cells'[m][k].frac = c.frac + Amount[w] /\ cells'[m][k].int = c.int
        BY <2>1, <3>2, <3>5 DEF Added
      <4>4. QED  BY <1>1, <1>6, <2>1, <3>1, <4>1, <4>2, <4>3 DEF CellRight
    <3>6. QED  BY <3>4, <3>5
  <2>2. CASE ~Sums
    <3>1. cells'[m][k].int = Amount[w]  BY <1>4, <2>2 DEF Added, Stored
    <3>2. w \in SeenIn(m)' /\ series'[w] = k /\ w \notin added
      BY <1>1, <1>2 DEF AddsTo
    <3>3. \A u \in C \union {w} : w \notin before'[u]
      BY <1>1, <1>7, <3>2 DEF CallsInOrder
    <3>4. QED  BY <1>1, <1>6, <2>2, <3>1, <3>2, <3>3 DEF CellRight
  <2>3. QED  BY <2>1, <2>2
<1>9. ASSUME NEW i \in Sides, NEW x \in table'[i] PROVE CellRight(i, x)'
  <2>1. CASE i = m /\ x = k  BY <1>8, <2>1
  <2>2. CASE ~(i = m /\ x = k)
    <3>1. x \in Keys /\ CellRight(i, x)  BY <1>1 DEF MapInv, MapTypeOK, CellsRight
    <3>2. cells'[i][x] = cells[i][x]  BY <2>2, <3>1 DEF AddsTo
    <3>3. PICK D : D = CountedIn(i, x)  OBVIOUS
    <3>4. CountedIn(i, x)' = D  BY <2>2, <3>3, AddsSeen
    <3>5. CASE Sums  BY <1>1, <3>1, <3>2, <3>3, <3>4, <3>5 DEF CellRight, Evens, Odds
    <3>6. CASE ~Sums  BY <1>1, <1>2, <3>1, <3>2, <3>3, <3>4, <3>6 DEF CellRight
    <3>7. QED  BY <3>5, <3>6
  <2>3. QED  BY <2>1, <2>2
<1>10. QED  BY <1>3, <1>9 DEF CellsRight

-----------------------------------------------------------------------------
(* What a collection has taken so far, while measurements go on.           *)
(* What a step of a measurement leaves as a collection needs it.           *)
MeasureOnly ==
  /\ UNCHANGED <<kind, readIdx, collector, n, points, loading, todo, known, floor>>
  /\ added \subseteq added'
  /\ \A u \in Writers : call[u] = "returned" => call'[u] = "returned" /\ series'[u] = series[u]
  /\ \A u \in added : before'[u] = before[u]
  /\ \A i \in Sides : Cohort(i) \subseteq Cohort(i)' /\ table[i] \subseteq table'[i]
  /\ ~Cumulative /\ Ranging => table'[readIdx] = table[readIdx]

(* The calls that a map holds and counts only become more.                 *)
LEMMA MeasureGrows ==
  ASSUME SeriesTypeOK, CallsInOrder, GroupInv, CumulativeAlone, OnStartedSide, MeasureOnly
  PROVE  /\ Cumulative' = Cumulative /\ Sums' = Sums /\ Source' = Source /\ Ranging' = Ranging
         /\ \A i \in Sides : SeenIn(i) \subseteq SeenIn(i)'
         /\ \A i \in Sides : \A k : CountedIn(i, k) \subseteq CountedIn(i, k)'
         /\ known \subseteq added => \A k : OfSeries(known, k)' = OfSeries(known, k)
         /\ \A k : OfSeries(added, k) \subseteq OfSeries(added, k)'
<1>1. /\ Cumulative' = Cumulative /\ Sums' = Sums /\ Source' = Source /\ Ranging' = Ranging
      /\ known' = known
  BY DEF MeasureOnly, Cumulative, Sums, Source, Ranging
<1>2. \A i \in Sides : Cohort(i) \subseteq Cohort(i)' /\ Cohort(i) \subseteq Writers
  BY OfItsMap DEF MeasureOnly
<1>3. \A u \in Writers : call[u] = "returned" => call'[u] = "returned" /\ series'[u] = series[u]
  BY DEF MeasureOnly
<1>4. added \subseteq added' /\ added \subseteq Writers /\ \A w \in added : call[w] = "returned"
  BY DEF MeasureOnly, CallsInOrder, SeriesTypeOK
<1>5. \A i \in Sides : SeenIn(i) \subseteq SeenIn(i)'  BY <1>2, <1>3 DEF SeenIn
<1>6. \A i \in Sides : \A k : CountedIn(i, k) \subseteq CountedIn(i, k)'
  BY <1>2, <1>3, <1>4 DEF CountedIn
<1>7. known \subseteq added => \A k : OfSeries(known, k)' = OfSeries(known, k)
  BY <1>1, <1>3, <1>4 DEF OfSeries
<1>8. \A k : OfSeries(added, k) \subseteq OfSeries(added, k)'
  BY <1>3, <1>4 DEF OfSeries
<1>9. QED  BY <1>1, <1>5, <1>6, <1>7, <1>8

(* So whatever measurements do, what a collection has found stays right.   *)
LEMMA MeasureKeepsCollection ==
  ASSUME SeriesTypeOK, SeriesTypeOK', CallsInOrder, GroupInv, CumulativeAlone, OnStartedSide,
         InCollection, MeasureOnly
  PROVE  InCollection'
<1>1. /\ Cumulative' = Cumulative /\ Sums' = Sums /\ Source' = Source /\ Ranging' = Ranging
      /\ \A i \in Sides : SeenIn(i) \subseteq SeenIn(i)'
      /\ \A i \in Sides : \A k : CountedIn(i, k) \subseteq CountedIn(i, k)'
      /\ \A k : OfSeries(added, k) \subseteq OfSeries(added, k)'
  BY MeasureGrows
<1>2. /\ UNCHANGED <<kind, readIdx, collector, n, points, loading, todo, known, floor>>
      /\ \A i \in Sides : table[i] \subseteq table'[i]
      /\ \A u \in Writers : call[u] = "returned" => series'[u] = series[u]
      /\ \A u \in added : before'[u] = before[u]
  BY DEF MeasureOnly
<1>3. Ranging => /\ known \subseteq added
                 /\ \A k : OfSeries(known, k)' = OfSeries(known, k)
                 /\ \A k : \A u \in OfSeries(known, k) : before'[u] = before[u]
  BY <1>2, MeasureGrows DEF CallsInOrder, OfSeries
<1>4. InProgress'  BY <1>1, <1>2 DEF InProgress, InCollection
<1>5. PointsRight'
  <2> SUFFICES ASSUME NEW i \in Sides, i = Source, NEW k \in DOMAIN points
               PROVE  k \in table'[i] /\ PointRight(i, k)'
    BY <1>1, <1>2 DEF PointsRight
  <2>1. Ranging  BY DEF InCollection, InProgress
  <2>2. k \in table[i] /\ PointRight(i, k)  BY DEF InCollection, PointsRight
  <2>3. CASE Sums
    <3>1. PICK S \in SUBSET CountedIn(i, k) :
                 OfSeries(known, k) \subseteq S /\ points[k] = SumOn(Amount, S)
      BY <2>2, <2>3 DEF PointRight
    <3>2. S \in SUBSET CountedIn(i, k)'  BY <1>1
    <3>3. PointRight(i, k)'
      BY <1>1, <1>2, <1>3, <2>1, <2>3, <3>1, <3>2 DEF PointRight
    <3>4. QED  BY <1>2, <2>2, <3>3
  <2>4. CASE ~Sums
    <3>1. PICK v \in SeenIn(i) : /\ series[v] = k /\ points[k] = Amount[v]
                                 /\ \A u \in OfSeries(known, k) : v \notin before[u]
      BY <2>2, <2>4 DEF PointRight
    <3>2. v \in SeenIn(i)' /\ series'[v] = k
      BY <1>1, <1>2, <3>1, OfItsMap DEF SeenIn
    <3>3. PointRight(i, k)'
      BY <1>1, <1>2, <1>3, <2>1, <2>4, <3>1, <3>2 DEF PointRight
    <3>4. QED  BY <1>2, <2>2, <3>3
  <2>5. QED  BY <2>3, <2>4
<1>6. LoadingRight'
  <2> SUFFICES ASSUME loading # NotLoading
               PROVE  /\ Sums
                      /\ \A i \in Sides : i = Source =>
                           \E k \in table'[i] : loading.key = k /\ LoadRight(i, k)'
    BY <1>1, <1>2 DEF LoadingRight
  <2>1. Sums /\ Ranging  BY DEF InCollection, LoadingRight, InProgress
  <2>2. ASSUME NEW i \in Sides, i = Source
        PROVE  \E k \in table'[i] : loading.key = k /\ LoadRight(i, k)'
    <3>1. PICK k \in table[i] : loading.key = k /\ LoadRight(i, k)
      BY <2>2 DEF InCollection, LoadingRight
    <3>2. PICK F \in SUBSET Odds(CountedIn(i, k)) :
                 Odds(OfSeries(known, k)) \subseteq F /\ loading.frac = SumOn(Amount, F)
      BY <3>1 DEF LoadRight
    <3>3. PICK D : D = CountedIn(i, k)'  OBVIOUS
    <3>4. F \in SUBSET Odds(D)  BY <1>1, <3>3 DEF Odds
    <3>5. LoadRight(i, k)'
      BY <1>2, <1>3, <2>1, <3>2, <3>3, <3>4 DEF LoadRight, Odds
    <3>6. QED  BY <1>2, <3>1, <3>5
  <2>3. QED  BY <2>1, <2>2
<1>7. NoneMissed'
  <2> SUFFICES ASSUME Ranging, NEW i \in Sides, i = Source
               PROVE  Due(i)' \subseteq DOMAIN points \union todo \union Loading
    BY <1>1, <1>2 DEF NoneMissed, Loading
  <2>1. Due(i) \subseteq DOMAIN points \union todo \union Loading
    BY DEF InCollection, NoneMissed
  <2>2. Due(i)' = Due(i)
    <3>1. CASE Cumulative
      <4>1. known \subseteq added /\ added \subseteq Writers
            /\ (\A u \in added : call[u] = "returned")
        BY DEF CallsInOrder, SeriesTypeOK
      <4>2. \A u \in known : series'[u] = series[u]  BY <1>2, <4>1
      <4>3. QED  BY <1>1, <1>2, <3>1, <4>2 DEF Due
    <3>2. CASE ~Cumulative
      BY <1>1, <3>2 DEF Due, MeasureOnly, Source
    <3>3. QED  BY <3>1, <3>2
  <2>3. QED  BY <2>1, <2>2
<1>8. LengthRight'
  BY <1>1, <1>2 DEF LengthRight, InCollection, MeasureOnly
<1>9. FloorsRight'
  <2>1. (kind # "Sum" => DOMAIN floor = {}) /\ \A k \in DOMAIN floor : k \in table'[0]
    BY <1>2 DEF InCollection, FloorsRight, Sides
  <2>2. ASSUME Ranging, NEW k \in DOMAIN floor PROVE FloorRight(known, k)'
    <3>1. FloorRight(known, k)  BY <2>2 DEF InCollection, FloorsRight
    <3>2. OfSeries(known, k)' = OfSeries(known, k)  BY <1>3, <2>2
    <3>3. QED  BY <1>2, <3>1, <3>2 DEF FloorRight, Rising
  <2>3. ASSUME ~Ranging, NEW k \in DOMAIN floor PROVE FloorRight(added, k)'
    <3>1. FloorRight(added, k)  BY <2>3 DEF InCollection, FloorsRight
    <3>2. PICK S : S = OfSeries(added, k)  OBVIOUS
    <3>3. PICK T : T = OfSeries(added, k)'  OBVIOUS
    <3>4. S \in SUBSET T  BY <1>1, <3>2, <3>3
    <3>5. IsFiniteSet(T) /\ T \subseteq Writers
      <4>1. T \in SUBSET added'  BY <3>3 DEF OfSeries
      <4>2. QED  BY <4>1, FS_Subset DEF SeriesTypeOK
    <3>6. ASSUME \A x \in T : Amount[x] >= 0 PROVE floor[k] <= SumOn(Amount, T)
      <4>1. \A x \in T : Amount[x] \in Nat  BY <3>5, <3>6
      <4>2. /\ SumOn(Amount, S) \in Nat /\ SumOn(Amount, T) \in Nat
            /\ SumOn(Amount, S) <= SumOn(Amount, T)
        BY <3>4, <3>5, <4>1, SumMonotone
      <4>3. floor[k] \in Int /\ floor[k] <= SumOn(Amount, S)
        BY <3>1, <3>2, <3>4, <3>6 DEF FloorRight, Rising
      <4>4. QED  BY <4>2, <4>3
    <3>7. floor[k] \in Int  BY <3>1 DEF FloorRight
    <3>8. Rising(added, k)' <=> \A x \in T : Amount[x] >= 0  BY <3>3 DEF Rising
    <3>9. QED  BY <1>2, <3>3, <3>6, <3>7, <3>8 DEF FloorRight
  <2>4. QED  BY <1>1, <1>2, <2>1, <2>2, <2>3 DEF FloorsRight
<1>10. QED  BY <1>4, <1>5, <1>6, <1>7, <1>8, <1>9 DEF InCollection

-----------------------------------------------------------------------------
(* The steps of a measurement.                                             *)
LEMMA RecordStartInv ==
  ASSUME SeriesIInv, NEW w \in Writers, RecordStart(w)
  PROVE  Placed' /\ Books' /\ InCollection'
<1> USE DEF SeriesIInv, Placed, Books
<1>1. /\ ~Cumulative /\ Start(w) /\ Follows(w, members[hot])
      /\ UNCHANGED <<mapVars, kind, cells, added, collectVars>>
  BY DEF RecordStart
<1>2. /\ writer[w] = "idle" /\ call[w] = "idle" /\ w \notin added
      /\ collector # "none" => w \notin known
      /\ UNCHANGED <<hot, reader, readIdx>>
  BY <1>1 DEF Start, OnStartedSide, CallsInOrder
<1>3. /\ writer'[w] = "in"
      /\ \A u \in Writers \ {w} : writer'[u] = writer[u] /\ side'[u] = side[u]
      /\ \A i \in Sides : members'[i] = IF i = hot THEN members[i] \union {w} ELSE members[i]
  BY <1>1 DEF Start, GroupInv, GroupTypeOK
<1>4. hot \in Sides /\ readIdx \in Sides
      /\ (reader = "waiting" \/ collector # "none" => readIdx # hot)
  BY <1>1 DEF GroupInv, GroupTypeOK, ReaderKnows, OnStartedSide, Sides
<1>5. Cumulative' = Cumulative /\ Ranging' = Ranging
  BY <1>1 DEF Cumulative, Ranging, collectVars
<1>6. /\ before' \in [Writers -> SUBSET Writers] /\ before'[w] \subseteq added
      /\ \A u \in Writers \ {w} : before'[u] = before[u]
  <2>1. Returned \intersect members[hot] \subseteq added
    BY <1>1 DEF Returned, OnStartedSide
  <2>2. added \subseteq Writers /\ before \in [Writers -> SUBSET Writers]
    BY DEF SeriesTypeOK
  <2>3. CASE Sums  BY <1>1, <2>2, <2>3 DEF Follows, CallsInOrder
  <2>4. CASE ~Sums  BY <1>1, <2>1, <2>2, <2>4 DEF Follows
  <2>5. QED  BY <2>3, <2>4
<1>7. SeriesTypeOK'
  BY <1>1, <1>6 DEF SeriesTypeOK, collectVars
<1>8. CallsInOrder'
  BY <1>1, <1>5, <1>6 DEF CallsInOrder, collectVars, mapVars
<1>9. CumulativeAlone'  BY <1>1, <1>5 DEF CumulativeAlone
<1>10. OnStartedSide'
  <2>1. ASSUME NEW u \in Writers, call[u] # "idle"
        PROVE  writer'[u] # "idle" /\ at[u] = side'[u]
    BY <1>1, <1>2, <1>3, <2>1 DEF OnStartedSide
  <2>2. ASSUME NEW u \in Writers, writer'[u] = "out" PROVE u \in added
    BY <1>1, <1>3, <2>2 DEF OnStartedSide
  <2>3. reader = "waiting" => known = members'[readIdx]
    BY <1>1, <1>3, <1>4 DEF OnStartedSide
  <2>4. ASSUME collector # "none", NEW u \in known
        PROVE  reader = "reading" /\ writer'[u] = "out" /\ side'[u] = readIdx
    BY <1>1, <1>2, <1>3, <2>4 DEF OnStartedSide, SeriesTypeOK
  <2>5. collector # "none" => reader = "reading"  BY <1>1 DEF OnStartedSide
  <2>6. QED
    BY <1>1, <1>2, <1>5, <2>1, <2>2, <2>3, <2>4, <2>5 DEF OnStartedSide, mapVars, collectVars
<1>11. \A i \in Sides : Cohort(i)' = IF i = hot THEN Cohort(i) \union {w} ELSE Cohort(i)
  BY <1>1, <1>2, <1>3, <1>4, <1>5 DEF Cohort, collectVars
<1>12. \A i \in Sides : SeenIn(i)' = SeenIn(i)
  BY <1>1, <1>2, <1>11 DEF SeenIn, mapVars
<1>13. \A i \in Sides : \A k : CountedIn(i, k)' = CountedIn(i, k)
  BY <1>1, <1>2, <1>11 DEF CountedIn, mapVars
<1>14. \A u \in added : before'[u] = before[u]
  BY <1>2, <1>6 DEF SeriesTypeOK
<1>15. Books'
  <2>1. \A i \in Sides : \A k \in Keys : \A u \in CountedIn(i, k) : before'[u] = before[u]
    BY <1>14, CountedFinite
  <2>2. UNCHANGED <<kind, table, cells, series>>  BY <1>1 DEF mapVars
  <2>3. QED  BY <1>12, <1>13, <2>1, <2>2, SameBooks
<1>16. MeasureOnly
  BY <1>1, <1>2, <1>11, <1>14 DEF MeasureOnly, mapVars, collectVars
<1>17. QED  BY <1>7, <1>8, <1>9, <1>10, <1>15, <1>16, MeasureKeepsCollection

(* A call that is done has been counted.                                   *)
LEMMA RecordDoneInv ==
  ASSUME SeriesIInv, NEW w \in Writers, RecordDone(w)
  PROVE  Placed' /\ Books' /\ InCollection'
<1> USE DEF SeriesIInv, Placed, Books
<1>1. /\ w \in added /\ Done(w)
      /\ UNCHANGED <<mapVars, kind, cells, added, collectVars, before, side, reader, readIdx,
                     members, hot>>
  BY DEF RecordDone, Done
<1>2. /\ writer[w] = "in" /\ writer'[w] = "out"
      /\ \A u \in Writers \ {w} : writer'[u] = writer[u]
  BY <1>1 DEF Done, GroupInv, GroupTypeOK
<1>3. Cumulative' = Cumulative /\ Ranging' = Ranging /\ ~Cumulative
  BY <1>1, <1>2 DEF Cumulative, Ranging, collectVars, CumulativeAlone
<1>4. SeriesTypeOK' /\ CallsInOrder' /\ CumulativeAlone'
  BY <1>1, <1>3 DEF SeriesTypeOK, CallsInOrder, CumulativeAlone, collectVars, mapVars
<1>5. OnStartedSide'
  BY <1>1, <1>2, <1>3 DEF OnStartedSide, collectVars, mapVars, SeriesTypeOK
<1>6. \A i : Cohort(i)' = Cohort(i)  BY <1>1, <1>3 DEF Cohort, collectVars
<1>7. \A i : SeenIn(i)' = SeenIn(i)  BY <1>1, <1>6 DEF SeenIn, mapVars
<1>8. \A i, k : CountedIn(i, k)' = CountedIn(i, k)  BY <1>1, <1>6 DEF CountedIn, mapVars
<1>9. Books'
  <2>1. UNCHANGED <<kind, table, cells, series, before>>  BY <1>1 DEF mapVars
  <2>2. QED  BY <1>7, <1>8, <2>1, SameBooks
<1>10. MeasureOnly  BY <1>1, <1>6 DEF MeasureOnly, mapVars, collectVars
<1>11. QED  BY <1>4, <1>5, <1>9, <1>10, MeasureKeepsCollection

(* A lookup or a store keeps the rest of the invariant.                     *)
LEMMA MovesInv ==
  ASSUME SeriesIInv, NEW w \in Writers, NEW m \in Sides, Moves(w, m)
  PROVE  Placed' /\ Books' /\ InCollection'
<1> USE DEF SeriesIInv, Placed, Books
<1>1. /\ UNCHANGED <<groupVars, kind, added, collectVars>>
      /\ call[w] # "returned" /\ w \notin added /\ call'[w] # "idle" /\ at'[w] = m
      /\ ~Cumulative => side[w] = m /\ writer[w] = "in"
      /\ before'[w] \subseteq added /\ before' \in [Writers -> SUBSET Writers]
      /\ \A u \in Writers \ {w} :
           call'[u] = call[u] /\ series'[u] = series[u] /\ at'[u] = at[u] /\ before'[u] = before[u]
  BY DEF Moves
<1>2. Cumulative' = Cumulative /\ Ranging' = Ranging /\ \A i \in Sides : Cohort(i)' = Cohort(i)
  BY <1>1, MovesSeen DEF Ranging, collectVars
<1>3. Cumulative => m = 0  BY DEF Moves, Cohort
<1>4. /\ cells' \in [Sides -> [Keys -> [int : Int, frac : Int]]]
      /\ \A i \in Sides : table[i] \subseteq table'[i]
      /\ \A i \in Sides \ {m} : table'[i] = table[i]
  <2>1. CASE call'[w] = "returned"  BY <2>1 DEF Moves
  <2>2. CASE call'[w] # "returned"  BY <2>2 DEF Moves, SeriesTypeOK
  <2>3. QED  BY <2>1, <2>2
<1>5. SeriesTypeOK'  BY <1>1, <1>4 DEF SeriesTypeOK, collectVars
<1>6. CallsInOrder'
  BY <1>1, <1>2 DEF CallsInOrder, collectVars, SeriesTypeOK
<1>7. CumulativeAlone'  BY <1>1, <1>2, <1>3 DEF CumulativeAlone, groupVars, collectVars
<1>8. OnStartedSide'  BY <1>1, <1>2 DEF OnStartedSide, groupVars, collectVars
<1>9. Books'  BY MovesBooks
<1>10. ~Cumulative /\ Ranging => m # readIdx
  BY <1>1, InvExclusive DEF OnStartedSide, Exclusive, Ranging
<1>11. MeasureOnly
  <2>1. \A u \in added : before'[u] = before[u]  BY <1>1 DEF SeriesTypeOK
  <2>2. \A u \in Writers : call[u] = "returned" => call'[u] = "returned" /\ series'[u] = series[u]
    BY <1>1
  <2>3. ~Cumulative /\ Ranging => table'[readIdx] = table[readIdx]
    BY <1>4, <1>10, TheSides
  <2>4. QED
    BY <1>1, <1>2, <1>4, <2>1, <2>2, <2>3 DEF MeasureOnly, groupVars, collectVars
<1>12. QED  BY <1>5, <1>6, <1>7, <1>8, <1>9, <1>11, MeasureKeepsCollection

(* An addition keeps the rest of the invariant.                            *)
LEMMA AddsInv ==
  ASSUME SeriesIInv, NEW w \in Writers, NEW m \in Sides, NEW k \in Keys, AddsTo(w, m, k)
  PROVE  Placed' /\ Books' /\ InCollection'
<1> USE DEF SeriesIInv, Placed, Books
<1>1. /\ UNCHANGED <<groupVars, mapVars, kind, collector, n, points, loading, todo, known, floor,
                     before>>
      /\ added' = added \union {w} /\ w \in SeenIn(m)
      /\ cells' \in [Sides -> [Keys -> [int : Int, frac : Int]]]
  BY DEF AddsTo
<1>2. /\ Cumulative' = Cumulative /\ Ranging' = Ranging
      /\ \A i : Cohort(i)' = Cohort(i)
  BY <1>1, AddsSeen DEF Ranging
<1>3. SeriesTypeOK'
  <2>1. IsFiniteSet(added') /\ added' \subseteq Writers
    BY <1>1, FS_AddElement DEF SeriesTypeOK
  <2>2. QED  BY <1>1, <2>1 DEF SeriesTypeOK
<1>4. CallsInOrder'
  <2>1. call[w] = "returned"  BY <1>1 DEF SeenIn
  <2>2. QED  BY <1>1, <1>2, <2>1 DEF CallsInOrder, mapVars
<1>5. CumulativeAlone'  BY <1>1, <1>2 DEF CumulativeAlone, groupVars, mapVars
<1>6. OnStartedSide'  BY <1>1, <1>2 DEF OnStartedSide, groupVars, mapVars
<1>7. Books'  BY AddsBooks
<1>8. MeasureOnly  BY <1>1, <1>2 DEF MeasureOnly, groupVars, mapVars
<1>9. QED  BY <1>3, <1>4, <1>5, <1>6, <1>7, <1>8, MeasureKeepsCollection

-----------------------------------------------------------------------------
(* The steps of a collection.                                              *)

(* They leave the measurements alone, and most of them also which map each *)
(* belongs to.                                                             *)
CollectOnly ==
  UNCHANGED <<table, call, at, key, series, kind, cells, added, before, writer, side>>

LEMMA CollectBooks ==
  ASSUME SeriesIInv, CollectOnly, \A i \in Sides : Cohort(i)' = Cohort(i)
  PROVE  /\ Books'
         /\ Cumulative' = Cumulative /\ Sums' = Sums
         /\ \A i \in Sides : SeenIn(i)' = SeenIn(i)
         /\ \A i \in Sides : \A k : CountedIn(i, k)' = CountedIn(i, k)
<1>1. Cumulative' = Cumulative /\ Sums' = Sums  BY DEF CollectOnly, Cumulative, Sums
<1>2. \A i \in Sides : SeenIn(i)' = SeenIn(i)  BY DEF CollectOnly, SeenIn
<1>3. \A i \in Sides : \A k : CountedIn(i, k)' = CountedIn(i, k)  BY DEF CollectOnly, CountedIn
<1>4. Books'
  <2>1. UNCHANGED <<kind, table, cells, series, before>>  BY DEF CollectOnly
  <2>2. QED  BY <1>2, <1>3, <2>1, SameBooks DEF SeriesIInv, Books
<1>5. QED  BY <1>1, <1>2, <1>3, <1>4

(* Between collections there is nothing but the floor to be kept.          *)
LEMMA NoCollection ==
  ASSUME SeriesIInv, CollectOnly, ~Ranging, ~Ranging',
         UNCHANGED <<points, loading, floor>>
  PROVE  InCollection'
<1> USE DEF SeriesIInv, InCollection
<1>1. DOMAIN points' = {} /\ loading' = NotLoading  BY DEF InProgress
<1>2. PointsRight' /\ LoadingRight' /\ NoneMissed' /\ LengthRight'
  BY <1>1 DEF PointsRight, LoadingRight, NoneMissed, LengthRight
<1>3. InProgress'  BY <1>1 DEF InProgress, Ranging
<1>4. \A k : FloorRight(added, k)' <=> FloorRight(added, k)
  BY DEF FloorRight, Rising, CollectOnly, OfSeries
<1>5. FloorsRight'
  BY <1>4 DEF FloorsRight, CollectOnly
<1>6. QED  BY <1>2, <1>3, <1>5

(* The swap fixes which calls the collection must count.                   *)
LEMMA GatherSwapInv ==
  ASSUME SeriesIInv, GatherSwap PROVE Placed' /\ Books' /\ InCollection'
<1> USE DEF SeriesIInv, Placed
<1>1. /\ ~Cumulative /\ collector = "none"
      /\ UNCHANGED <<mapVars, kind, cells, added, collector, n, points, loading, todo,
                     floor, held, before, writer, side, members>>
      /\ \/ reader' = "loaded" /\ known' = known
         \/ reader' = "waiting" /\ readIdx' = hot /\ known' = members[hot]
  BY DEF GatherSwap, SwapLoad, Swap
<1>2. Cumulative' = Cumulative /\ ~Ranging /\ ~Ranging' /\ CollectOnly
  BY <1>1 DEF Cumulative, Ranging, CollectOnly, mapVars
<1>3. known' \subseteq Writers
  BY <1>1 DEF SeriesTypeOK, GroupInv, GroupTypeOK
<1>4. SeriesTypeOK' /\ CumulativeAlone'
  BY <1>1, <1>2, <1>3 DEF SeriesTypeOK, CumulativeAlone
<1>5. CallsInOrder'
  BY <1>1, <1>2 DEF CallsInOrder, mapVars
<1>6. OnStartedSide'
  BY <1>1, <1>2 DEF OnStartedSide, mapVars
<1>7. \A i \in Sides : Cohort(i)' = Cohort(i)
  BY <1>1, <1>2 DEF Cohort
<1>8. QED
  BY <1>1, <1>2, <1>4, <1>5, <1>6, <1>7, CollectBooks, NoCollection

(* After the wait all of them have been counted and have left.             *)
LEMMA GatherWaitedInv ==
  ASSUME SeriesIInv, GatherWaited PROVE Placed' /\ Books' /\ InCollection'
<1> USE DEF SeriesIInv, Placed
<1>1. /\ ~Cumulative /\ collector = "none" /\ collector' = "len"
      /\ reader = "waiting" /\ reader' = "reading" /\ owed = ended[readIdx]
      /\ UNCHANGED <<mapVars, kind, cells, added, n, points, loading, todo, known,
                     floor, held, before, writer, side, readIdx>>
      /\ members' = [members EXCEPT ![readIdx] = {}]
  BY DEF GatherWaited, Waited
<1>2. Cumulative' = Cumulative /\ ~Ranging /\ ~Ranging' /\ CollectOnly
  BY <1>1 DEF Cumulative, Ranging, CollectOnly, mapVars
<1>3. readIdx \in Sides /\ known = members[readIdx]
      /\ \A i \in Sides \ {readIdx} : members'[i] = members[i]
  BY <1>1 DEF OnStartedSide, GroupInv, GroupTypeOK
<1>4. \A w \in known : writer[w] = "out" /\ side[w] = readIdx
  <2>1. members[readIdx] = Finished(readIdx)
    BY <1>1, <1>3, AllFinished DEF GroupInv, ReaderKnows, CountsExact, MembersFinite
  <2>2. QED  BY <1>3, <2>1 DEF Finished, GroupInv, WritersAreMembers
<1>5. SeriesTypeOK' /\ CumulativeAlone'
  BY <1>1, <1>2 DEF SeriesTypeOK, CumulativeAlone, CollectorSteps
<1>6. CallsInOrder'
  BY <1>1, <1>2 DEF CallsInOrder, mapVars
<1>7. OnStartedSide'
  BY <1>1, <1>2, <1>4 DEF OnStartedSide, mapVars
<1>8. \A i \in Sides : Cohort(i)' = Cohort(i)
  BY <1>1, <1>2, <1>3 DEF Cohort
<1>9. QED
  BY <1>1, <1>2, <1>5, <1>6, <1>7, <1>8, CollectBooks, NoCollection

(* The collection begins: it must count what is counted by now.            *)
LEMMA GatherLenInv ==
  ASSUME SeriesIInv, GatherLen PROVE Placed' /\ Books' /\ InCollection'
<1> USE DEF SeriesIInv, Placed
<1>1. /\ collector = (IF Cumulative THEN "none" ELSE "len") /\ collector' = "range"
      /\ n' = IF Cumulative THEN n ELSE len[Source]
      /\ todo' = table[Source]
      /\ known' = IF Cumulative THEN Returned ELSE known
      /\ UNCHANGED <<groupVars, mapVars, kind, cells, added, points, loading, floor, held, before>>
  BY DEF GatherLen
<1>2. /\ Cumulative' = Cumulative /\ ~Ranging /\ Ranging' /\ CollectOnly /\ Source' = Source
      /\ Sums' = Sums
  BY <1>1 DEF Cumulative, Sums, Source, Ranging, CollectOnly, mapVars, groupVars
<1>3. known' = (IF Cumulative THEN added ELSE known) /\ known' \subseteq added
      /\ known' \subseteq Writers
  <2>1. Cumulative => Returned = added  BY DEF Returned, SeriesTypeOK
  <2>2. ~Cumulative => known \subseteq added
    BY <1>1 DEF OnStartedSide, SeriesTypeOK
  <2>3. QED  BY <1>1, <2>1, <2>2 DEF SeriesTypeOK
<1>4. SeriesTypeOK' /\ CumulativeAlone'
  BY <1>1, <1>2, <1>3 DEF SeriesTypeOK, CumulativeAlone, CollectorSteps, groupVars, mapVars
<1>5. CallsInOrder'
  BY <1>1, <1>2, <1>3 DEF CallsInOrder, mapVars
<1>6. OnStartedSide'
  BY <1>1, <1>2, <1>3 DEF OnStartedSide, mapVars, groupVars
<1>7. \A i \in Sides : Cohort(i)' = Cohort(i)
  BY <1>1, <1>2, <1>3 DEF Cohort, groupVars
<1>8. DOMAIN points' = {} /\ loading' = NotLoading
  BY <1>1, <1>2 DEF InCollection, InProgress
<1>9. PointsRight' /\ LoadingRight' /\ InProgress'
  BY <1>1, <1>2, <1>8 DEF PointsRight, LoadingRight, InProgress
<1>10. NoneMissed'
  <2> SUFFICES ASSUME NEW i \in Sides, i = Source PROVE Due(i)' \subseteq todo'
    BY <1>2 DEF NoneMissed
  <2>1. table' = table /\ todo' = table[i]  BY <1>1 DEF mapVars
  <2>2. CASE Cumulative
    <3>1. i = 0 /\ Cohort(i) = Writers  BY <2>2 DEF Source, Cohort
    <3>2. \A w \in added : series[w] \in table[i]
      BY <3>1, SeenInTable DEF Books, SeenIn, CallsInOrder, SeriesTypeOK
    <3>3. \A k \in DOMAIN floor : k \in table[i]
      BY <3>1 DEF InCollection, FloorsRight
    <3>4. Due(i)' = {series[w] : w \in added} \union DOMAIN floor
      BY <1>1, <1>2, <1>3, <2>2 DEF Due, mapVars
    <3>5. QED  BY <2>1, <3>2, <3>3, <3>4
  <2>3. CASE ~Cumulative  BY <1>2, <2>1, <2>3 DEF Due
  <2>4. QED  BY <2>2, <2>3
<1>11. LengthRight'
  <2> SUFFICES ASSUME ~Cumulative, NEW i \in Sides, i = readIdx
               PROVE  n' = Cardinality(table[i])
    BY <1>1, <1>2 DEF LengthRight, groupVars, mapVars
  <2>1. n' = len[i]  BY <1>1 DEF Source
  <2>2. QED  BY <2>1 DEF MapInv, LenExact
<1>12. FloorsRight'
  <2>1. (kind # "Sum" => DOMAIN floor = {}) /\ \A k \in DOMAIN floor : k \in table[0]
    BY DEF InCollection, FloorsRight
  <2>2. ASSUME NEW k \in DOMAIN floor PROVE FloorRight(known, k)'
    <3>1. kind = "Sum" /\ FloorRight(added, k)
      BY <1>2, <2>1 DEF InCollection, FloorsRight
    <3>2. known' = added  BY <1>3, <3>1 DEF Cumulative
    <3>3. OfSeries(known, k)' = OfSeries(added, k)
      BY <1>1, <3>2 DEF OfSeries, mapVars
    <3>4. QED  BY <1>1, <3>1, <3>3 DEF FloorRight, Rising
  <2>3. QED  BY <1>1, <1>2, <2>1, <2>2 DEF FloorsRight, mapVars
<1>13. QED
  BY <1>2, <1>4, <1>5, <1>6, <1>7, <1>9, <1>10, <1>11, <1>12, CollectBooks DEF InCollection

(* While it ranges over the map it changes only what it has found so far.  *)
RangeOnly ==
  /\ UNCHANGED <<groupVars, mapVars, kind, cells, added, n, known, floor, before>>
  /\ collector = "range" /\ collector' \in {"range", "end"}

LEMMA WhileRanging ==
  ASSUME SeriesIInv, RangeOnly
  PROVE  /\ Placed' /\ Books' /\ LengthRight' /\ FloorsRight'
         /\ Cumulative' = Cumulative /\ Sums' = Sums /\ Source' = Source /\ Ranging /\ Ranging'
         /\ \A i \in Sides : SeenIn(i)' = SeenIn(i) /\ Due(i)' = Due(i)
         /\ \A i \in Sides : \A k : CountedIn(i, k)' = CountedIn(i, k)
         /\ \A k : OfSeries(known, k)' = OfSeries(known, k)
<1> USE DEF SeriesIInv, Placed
<1>1. /\ Cumulative' = Cumulative /\ Sums' = Sums /\ Source' = Source /\ Ranging /\ Ranging'
      /\ CollectOnly
  BY DEF RangeOnly, Cumulative, Sums, Source, Ranging, CollectOnly, groupVars, mapVars
<1>2. \A i \in Sides : Cohort(i)' = Cohort(i)
  BY <1>1 DEF RangeOnly, Cohort, groupVars
<1>3. SeriesTypeOK' /\ CallsInOrder' /\ CumulativeAlone' /\ OnStartedSide'
  BY <1>1 DEF RangeOnly, SeriesTypeOK, CallsInOrder, CumulativeAlone, OnStartedSide, groupVars,
              mapVars, CollectorSteps
<1>4. LengthRight'
  BY <1>1 DEF RangeOnly, LengthRight, InCollection, groupVars, mapVars
<1>5. \A k : OfSeries(known, k)' = OfSeries(known, k)
  BY DEF RangeOnly, OfSeries, mapVars
<1>6. FloorsRight'
  BY <1>1, <1>5 DEF RangeOnly, FloorsRight, FloorRight, Rising, InCollection, mapVars
<1>7. \A i \in Sides : Due(i)' = Due(i)
  BY <1>1 DEF RangeOnly, Due, mapVars
<1>8. QED  BY <1>1, <1>2, <1>3, <1>4, <1>5, <1>6, <1>7, CollectBooks

(* A point that stays right, and all of them with a new one.               *)
LEMMA PointStays ==
  ASSUME SeriesIInv, RangeOnly, NEW i \in Sides, NEW k, PointRight(i, k), points'[k] = points[k]
  PROVE  PointRight(i, k)'
<1>1. Sums' = Sums /\ SeenIn(i)' = SeenIn(i) /\ CountedIn(i, k)' = CountedIn(i, k)
      /\ OfSeries(known, k)' = OfSeries(known, k) /\ series' = series /\ before' = before
  BY WhileRanging DEF RangeOnly, mapVars
<1>2. CASE Sums  BY <1>1, <1>2 DEF PointRight
<1>3. CASE ~Sums  BY <1>1, <1>3 DEF PointRight
<1>4. QED  BY <1>2, <1>3

LEMMA PointAdded ==
  ASSUME SeriesIInv, RangeOnly, NEW i \in Sides, i = Source, NEW k \in table[i], NEW v,
         Report(k, v),
         IF Sums
         THEN \E S \in SUBSET CountedIn(i, k) :
                OfSeries(known, k) \subseteq S /\ v = SumOn(Amount, S)
         ELSE \E w \in SeenIn(i) : /\ series[w] = k /\ v = Amount[w]
                                   /\ \A u \in OfSeries(known, k) : w \notin before[u]
  PROVE  PointsRight' /\ DOMAIN points' = DOMAIN points \union {k}
<1>1. DOMAIN points' = DOMAIN points \union {k} /\ points'[k] = v
      /\ \A x \in DOMAIN points \ {k} : points'[x] = points[x]
  BY DEF Report
<1>2. Sums' = Sums /\ SeenIn(i)' = SeenIn(i) /\ CountedIn(i, k)' = CountedIn(i, k)
      /\ OfSeries(known, k)' = OfSeries(known, k) /\ UNCHANGED <<series, before, table>>
      /\ Source' = Source
  BY WhileRanging DEF RangeOnly, mapVars
<1>3. PointRight(i, k)'
  <2>1. CASE Sums  BY <1>1, <1>2, <2>1 DEF PointRight
  <2>2. CASE ~Sums  BY <1>1, <1>2, <2>2 DEF PointRight
  <2>3. QED  BY <2>1, <2>2
<1>4. ASSUME NEW x \in DOMAIN points' PROVE x \in table'[i] /\ PointRight(i, x)'
  <2>1. CASE x = k  BY <1>2, <1>3, <2>1
  <2>2. CASE x # k
    <3>1. x \in table[i] /\ PointRight(i, x) /\ points'[x] = points[x]
      BY <1>1, <2>2 DEF SeriesIInv, InCollection, PointsRight
    <3>2. QED  BY <1>2, <3>1, PointStays
  <2>3. QED  BY <2>1, <2>2
<1>5. PointsRight'
  <2>1. \A j \in Sides : j = Source' => j = i  BY <1>2
  <2>2. QED  BY <1>4, <2>1 DEF PointsRight
<1>6. QED  BY <1>1, <1>5

(* Visiting a series reports its last value or begins to load its sum.     *)
LEMMA GatherVisitInv ==
  ASSUME SeriesIInv, NEW k \in Keys, GatherVisit(k)
  PROVE  Placed' /\ Books' /\ InCollection'
<1>1. /\ RangeOnly /\ collector' = "range" /\ loading = NotLoading /\ todo' = todo \ {k}
      /\ IF Sums
         THEN loading' = [key |-> k, frac |-> cells[Source][k].frac] /\ points' = points
         ELSE Report(k, cells[Source][k].int) /\ loading' = loading
  BY DEF GatherVisit, RangeOnly
<1>2. PICK i \in Sides : i = Source /\ k \in table[i]
  BY TheSides DEF GatherVisit, SeriesIInv
<1>3. /\ Placed' /\ Books' /\ LengthRight' /\ FloorsRight'
      /\ Sums' = Sums /\ Source' = Source /\ Ranging /\ Ranging'
      /\ Due(i)' = Due(i) /\ CountedIn(i, k)' = CountedIn(i, k)
      /\ OfSeries(known, k)' = OfSeries(known, k)
  BY <1>1, WhileRanging
<1>4. CellRight(i, k)  BY <1>2 DEF SeriesIInv, Books, CellsRight
<1>5. OfSeries(known, k) \subseteq CountedIn(i, k)
  BY <1>2, <1>3, KnownCounted DEF SeriesIInv, Placed
<1>6. table' = table  BY <1>1 DEF RangeOnly, mapVars
<1>7. Due(i) \subseteq DOMAIN points \union todo
  BY <1>1, <1>2, <1>3 DEF SeriesIInv, InCollection, NoneMissed, Loading
<1>8. CASE Sums
  <2>1. points' = points /\ loading'.key = k /\ loading'.frac = cells[i][k].frac
    BY <1>1, <1>2, <1>8
  <2>2. PointsRight'
    <3>1. \A x \in DOMAIN points : x \in table[i] /\ PointRight(i, x)
      BY <1>2 DEF SeriesIInv, InCollection, PointsRight
    <3>2. \A x \in DOMAIN points : PointRight(i, x)'
      BY <1>1, <2>1, <3>1, PointStays
    <3>3. \A j \in Sides : j = Source' => j = i  BY <1>2, <1>3
    <3>4. QED  BY <1>6, <2>1, <3>1, <3>2, <3>3 DEF PointsRight
  <2>3. k # None
    BY MapAssumption DEF Keys
  <2>4. loading' # NotLoading  BY <2>1, <2>3 DEF NotLoading
  <2>5. LoadRight(i, k)'
    <3>1. PICK C : C = CountedIn(i, k)  OBVIOUS
    <3>2. cells[i][k].frac = SumOn(Amount, Odds(C))  BY <1>4, <1>8, <3>1 DEF CellRight
    <3>3. PICK M : M = OfSeries(known, k)  OBVIOUS
    <3>4. Odds(M) \subseteq Odds(C)  BY <1>5, <3>1, <3>3 DEF Odds
    <3>5. CountedIn(i, k)' = C /\ OfSeries(known, k)' = M  BY <1>3, <3>1, <3>3
    <3>6. QED  BY <2>1, <3>2, <3>4, <3>5 DEF LoadRight
  <2>6. LoadingRight'
    <3>1. \A j \in Sides : j = Source' => j = i  BY <1>2, <1>3
    <3>2. QED  BY <1>2, <1>3, <1>6, <1>8, <2>1, <2>5, <3>1 DEF LoadingRight
  <2>7. InProgress'
    BY <1>1, <1>3 DEF InProgress
  <2>8. NoneMissed'
    <3>1. Loading' = {k}  BY <2>1, <2>4 DEF Loading
    <3>2. Due(i)' \subseteq DOMAIN points' \union todo' \union Loading'
      BY <1>1, <1>3, <1>7, <2>1, <3>1
    <3>3. \A j \in Sides : j = Source' => j = i  BY <1>2, <1>3
    <3>4. QED  BY <3>2, <3>3 DEF NoneMissed
  <2>9. QED  BY <1>3, <2>2, <2>6, <2>7, <2>8 DEF InCollection
<1>9. CASE ~Sums
  <2>1. Report(k, cells[i][k].int) /\ loading' = NotLoading  BY <1>1, <1>2, <1>9
  <2>2. PICK w \in SeenIn(i) : /\ series[w] = k /\ cells[i][k].int = Amount[w]
                               /\ \A u \in CountedIn(i, k) : w \notin before[u]
    BY <1>4, <1>9 DEF CellRight
  <2>3. PointsRight' /\ DOMAIN points' = DOMAIN points \union {k}
    BY <1>1, <1>2, <1>5, <1>9, <2>1, <2>2, PointAdded
  <2>4. LoadingRight'  BY <2>1 DEF LoadingRight
  <2>5. InProgress'  BY <1>1, <1>3 DEF InProgress
  <2>6. NoneMissed'
    <3>1. Due(i)' \subseteq DOMAIN points' \union todo'
      BY <1>1, <1>3, <1>7, <2>3
    <3>2. \A j \in Sides : j = Source' => j = i  BY <1>2, <1>3
    <3>3. QED  BY <3>1, <3>2 DEF NoneMissed
  <2>7. QED  BY <1>3, <2>3, <2>4, <2>5, <2>6 DEF InCollection
<1>10. QED  BY <1>8, <1>9

(* The two parts of a sum, read one after the other, count what they must. *)
LEMMA GatherLoadInv ==
  ASSUME SeriesIInv, GatherLoad
  PROVE  Placed' /\ Books' /\ InCollection'
<1>1. /\ RangeOnly /\ collector' = "range" /\ loading # NotLoading /\ loading' = NotLoading
      /\ todo' = todo
      /\ Report(loading.key, loading.frac + cells[Source][loading.key].int)
  <2>1. collector = "range"
    BY DEF GatherLoad, SeriesIInv, InCollection, InProgress, Ranging
  <2>2. QED  BY <2>1 DEF GatherLoad, RangeOnly
<1>2. PICK i \in Sides : i = Source
  BY TheSides DEF SeriesIInv
<1>3. PICK k \in table[i] : Sums /\ loading.key = k /\ LoadRight(i, k)
  BY <1>1, <1>2 DEF SeriesIInv, InCollection, LoadingRight
<1>4. PICK F \in SUBSET Odds(CountedIn(i, k)) :
             Odds(OfSeries(known, k)) \subseteq F /\ loading.frac = SumOn(Amount, F)
  BY <1>3 DEF LoadRight
<1>5. /\ Placed' /\ Books' /\ LengthRight' /\ FloorsRight'
      /\ Source' = Source /\ Ranging /\ Ranging' /\ Due(i)' = Due(i)
  BY <1>1, WhileRanging
<1>6. CellRight(i, k)  BY <1>2 DEF SeriesIInv, Books, CellsRight
<1> DEFINE C == CountedIn(i, k)
           E == Evens(C)
           M == OfSeries(known, k)
<1>7. M \subseteq C  BY <1>2, <1>5, KnownCounted DEF SeriesIInv, Placed
<1>8. cells[i][k].int = SumOn(Amount, E)  BY <1>3, <1>6 DEF CellRight
<1>9. IsFiniteSet(C) /\ C \subseteq Writers  BY CountedFinite DEF SeriesIInv, Placed
<1>10. F \in SUBSET Odds(C) /\ Odds(M) \subseteq F /\ loading.frac = SumOn(Amount, F)
  BY <1>4
<1> HIDE DEF C, M
<1>11. E \in SUBSET C /\ F \in SUBSET C /\ E \intersect F = {} /\ M \subseteq E \union F
  BY <1>7, <1>10 DEF Evens, Odds
<1>12. IsFiniteSet(E) /\ IsFiniteSet(F)  BY <1>9, <1>11, FS_Subset
<1> HIDE DEF E
<1>13. SumOn(Amount, E) + SumOn(Amount, F) = SumOn(Amount, E \union F)
  BY <1>9, <1>11, <1>12, SumInParts
<1>14. SumOn(Amount, E) \in Int /\ SumOn(Amount, F) \in Int
  <2>1. \A w \in E \union F : Amount[w] \in Int  BY <1>9, <1>11
  <2>2. QED  BY <1>12, <2>1, SumType
<1>15. PICK v : v = SumOn(Amount, E \union F)  OBVIOUS
<1>16. Report(k, v)
  <2>1. loading.frac + cells[i][k].int = v  BY <1>8, <1>10, <1>13, <1>14, <1>15
  <2>2. QED  BY <1>1, <1>2, <1>3, <2>1
<1>17. PointsRight' /\ DOMAIN points' = DOMAIN points \union {k}
  <2>1. \E S \in SUBSET CountedIn(i, k) :
          OfSeries(known, k) \subseteq S /\ v = SumOn(Amount, S)
    BY <1>11, <1>15 DEF C, M
  <2>2. QED  BY <1>1, <1>2, <1>3, <1>16, <2>1, PointAdded
<1>18. LoadingRight'  BY <1>1 DEF LoadingRight
<1>19. InProgress'  BY <1>1, <1>5 DEF InProgress
<1>20. NoneMissed'
  <2>1. Due(i) \subseteq DOMAIN points \union todo \union {k}
    BY <1>1, <1>2, <1>3, <1>5 DEF SeriesIInv, InCollection, NoneMissed, Loading
  <2>2. Due(i)' \subseteq DOMAIN points' \union todo'
    BY <1>1, <1>5, <1>17, <2>1
  <2>3. \A j \in Sides : j = Source' => j = i  BY <1>2, <1>5
  <2>4. QED  BY <2>2, <2>3 DEF NoneMissed
<1>21. QED  BY <1>5, <1>17, <1>18, <1>19, <1>20 DEF InCollection

(* When nothing is left to be found nothing has been missed.               *)
LEMMA GatherEndInv ==
  ASSUME SeriesIInv, GatherEnd
  PROVE  Placed' /\ Books' /\ InCollection'
<1>1. /\ RangeOnly /\ collector' = "end" /\ loading = NotLoading /\ todo = {}
      /\ UNCHANGED <<points, loading, todo>>
  BY DEF GatherEnd, RangeOnly
<1>2. /\ Placed' /\ Books' /\ LengthRight' /\ FloorsRight'
      /\ Source' = Source /\ Ranging /\ Ranging'
      /\ \A i \in Sides : Due(i)' = Due(i)
  BY <1>1, WhileRanging
<1>3. PointsRight'
  <2>1. \A i \in Sides, k \in DOMAIN points : PointRight(i, k) => PointRight(i, k)'
    BY <1>1, PointStays
  <2>2. table' = table  BY <1>1 DEF RangeOnly, mapVars
  <2>3. QED  BY <1>1, <1>2, <2>1, <2>2 DEF PointsRight, SeriesIInv, InCollection
<1>4. LoadingRight' /\ InProgress'
  BY <1>1, <1>2 DEF LoadingRight, InProgress
<1>5. NoneMissed'
  BY <1>1, <1>2 DEF NoneMissed, Loading, SeriesIInv, InCollection
<1>6. QED  BY <1>2, <1>3, <1>4, <1>5 DEF InCollection

(* A cumulative collection leaves the last points as the next floor.       *)
LEMMA PointsBecomeFloor ==
  ASSUME SeriesIInv, kind = "Sum", NEW k \in DOMAIN points
  PROVE  /\ k \in table[0] /\ points[k] \in Int
         /\ Rising(added, k) => points[k] <= SumOn(Amount, OfSeries(added, k))
<1>1. Sums /\ Cumulative /\ Source = 0 /\ 0 \in Sides  BY DEF Sums, Cumulative, Source, Sides
<1>2. k \in table[0] /\ PointRight(0, k)  BY <1>1 DEF SeriesIInv, InCollection, PointsRight
<1>3. PICK S \in SUBSET CountedIn(0, k) : points[k] = SumOn(Amount, S)
  BY <1>1, <1>2 DEF PointRight
<1> DEFINE T == OfSeries(added, k)
<1>4. S \in SUBSET T  BY <1>3 DEF CountedIn, OfSeries
<1>5. IsFiniteSet(T) /\ T \subseteq Writers
  <2>1. T \in SUBSET added  BY DEF OfSeries
  <2>2. QED  BY <2>1, FS_Subset DEF SeriesIInv, Placed, SeriesTypeOK
<1>6. Rising(added, k) <=> \A x \in T : Amount[x] >= 0  BY DEF Rising
<1> HIDE DEF T
<1>7. SumOn(Amount, S) \in Int
  <2>1. IsFiniteSet(S) /\ \A x \in S : Amount[x] \in Int  BY <1>4, <1>5, FS_Subset
  <2>2. QED  BY <2>1, SumType
<1>8. ASSUME Rising(added, k) PROVE SumOn(Amount, S) <= SumOn(Amount, T)
  <2>1. \A x \in T : Amount[x] \in Nat  BY <1>5, <1>6, <1>8
  <2>2. QED  BY <1>4, <1>5, <2>1, SumMonotone
<1>9. QED  BY <1>2, <1>3, <1>7, <1>8 DEF T

(* The return empties the cold map, which holds the series of nobody.      *)
LEMMA GatherReturnInv ==
  ASSUME SeriesIInv, GatherReturn
  PROVE  Placed' /\ Books' /\ InCollection'
<1> USE DEF SeriesIInv, Placed
<1>1. /\ collector = "end" /\ collector' = "none" /\ points' = NoPoints /\ known' = {}
      /\ floor' = IF kind = "Sum" THEN points ELSE floor
      /\ UNCHANGED <<groupVars, kind, cells, added, loading, todo, held, before, call, at, key,
                     series>>
      /\ Cumulative => UNCHANGED mapVars
      /\ ~Cumulative => Clear(readIdx)
  BY DEF GatherReturn, AfterRange, Clear, mapVars
<1>2. Cumulative' = Cumulative /\ Sums' = Sums /\ ~Ranging' /\ Ranging
  BY <1>1 DEF Cumulative, Sums, Ranging
<1>3. SeriesTypeOK' /\ CallsInOrder' /\ CumulativeAlone'
  BY <1>1, <1>2 DEF SeriesTypeOK, CallsInOrder, CumulativeAlone, CollectorSteps, groupVars
<1>4. OnStartedSide'
  BY <1>1, <1>2 DEF OnStartedSide, groupVars
<1>5. DOMAIN points' = {} /\ loading' = NotLoading
  BY <1>1 DEF NoPoints, InCollection, InProgress
<1>6. PointsRight' /\ LoadingRight' /\ InProgress' /\ NoneMissed' /\ LengthRight'
  BY <1>1, <1>2, <1>5 DEF PointsRight, LoadingRight, InProgress, NoneMissed, LengthRight
<1>7. FloorsRight'
  <2>1. CASE kind = "Sum"
    <3>1. Cumulative /\ table' = table /\ series' = series /\ floor' = points
      BY <1>1, <2>1 DEF Cumulative, mapVars
    <3>2. \A k \in DOMAIN points :
            /\ k \in table[0] /\ points[k] \in Int
            /\ Rising(added, k) => points[k] <= SumOn(Amount, OfSeries(added, k))
      BY <2>1, PointsBecomeFloor
    <3>3. \A k : OfSeries(added, k)' = OfSeries(added, k)  BY <1>1, <3>1 DEF OfSeries
    <3>4. \A k \in DOMAIN floor' : FloorRight(added, k)'
      BY <3>1, <3>2, <3>3 DEF FloorRight, Rising
    <3>5. QED  BY <1>1, <1>2, <2>1, <3>1, <3>2, <3>4 DEF FloorsRight
  <2>2. CASE kind # "Sum"
    <3>1. DOMAIN floor' = {}  BY <1>1, <2>2 DEF FloorsRight, InCollection
    <3>2. QED  BY <1>2, <3>1 DEF FloorsRight
  <2>3. QED  BY <2>1, <2>2
<1>8. Books'
  <2>1. CASE Cumulative
    <3>1. CollectOnly  BY <1>1, <2>1 DEF CollectOnly, groupVars, mapVars
    <3>2. \A i \in Sides : Cohort(i)' = Cohort(i)  BY <1>2, <2>1 DEF Cohort
    <3>3. QED  BY <3>1, <3>2, CollectBooks
  <2>2. CASE ~Cumulative
    <3>1. readIdx \in Sides /\ members[readIdx] = {}
      BY <1>1, <2>2 DEF OnStartedSide, GroupInv, GroupTypeOK, ReaderKnows
    <3>2. PICK r \in Sides : r = readIdx  BY <3>1
    <3>3. table'[r] = {} /\ \A i \in Sides \ {r} : table'[i] = table[i]
      BY <1>1, <2>2, <3>2 DEF Clear, MapInv, MapTypeOK
    <3>4. Cohort(r)' = {} /\ \A i \in Sides \ {r} : Cohort(i)' = Cohort(i)
      BY <1>1, <1>2, <2>2, <3>1, <3>2 DEF Cohort, groupVars
    <3>5. /\ SeenIn(r)' = {}
          /\ \A i \in Sides \ {r} : SeenIn(i)' = SeenIn(i)
          /\ \A i \in Sides \ {r} : \A k : CountedIn(i, k)' = CountedIn(i, k)
      BY <1>1, <3>4 DEF SeenIn, CountedIn
    <3>6. TablesRight'
      <4>1. ASSUME NEW i \in Sides PROVE table'[i] = {series'[w] : w \in SeenIn(i)'}
        <5>1. CASE i = r  BY <3>3, <3>5, <5>1
        <5>2. CASE i # r  BY <1>1, <3>3, <3>5, <5>2 DEF Books, TablesRight
        <5>3. QED  BY <5>1, <5>2
      <4>2. QED  BY <4>1 DEF TablesRight
    <3>7. ASSUME NEW i \in Sides, NEW k \in table'[i] PROVE CellRight(i, k)'
      <4>1. i # r /\ k \in table[i]  BY <3>3
      <4>2. CellRight(i, k)  BY <4>1 DEF Books, CellsRight
      <4>3. PICK C : C = CountedIn(i, k)  OBVIOUS
      <4>4. CountedIn(i, k)' = C /\ SeenIn(i)' = SeenIn(i)  BY <3>5, <4>1, <4>3
      <4>5. CASE Sums  BY <1>1, <1>2, <4>2, <4>3, <4>4, <4>5 DEF CellRight, Evens, Odds
      <4>6. CASE ~Sums  BY <1>1, <1>2, <4>2, <4>3, <4>4, <4>6 DEF CellRight
      <4>7. QED  BY <4>5, <4>6
    <3>8. QED  BY <3>6, <3>7 DEF Books, CellsRight
  <2>3. QED  BY <2>1, <2>2
<1>9. QED  BY <1>3, <1>4, <1>6, <1>7, <1>8 DEF InCollection

(* A step that changes nothing.                                            *)
LEMMA SeriesStutterInv ==
  ASSUME SeriesIInv, UNCHANGED seriesVars
  PROVE  Placed' /\ Books' /\ InCollection'
<1> USE DEF SeriesIInv, Placed
<1>1. UNCHANGED <<groupVars, mapVars, kind, cells, added, before, collector, n, points, loading,
                 todo, known, floor>>
  BY DEF seriesVars, collectVars
<1>2. CollectOnly /\ Cumulative' = Cumulative /\ Ranging' = Ranging
  BY <1>1 DEF CollectOnly, groupVars, mapVars, Cumulative, Ranging
<1>3. \A i \in Sides : Cohort(i)' = Cohort(i)  BY <1>1, <1>2 DEF Cohort, groupVars
<1>4. SeriesTypeOK' /\ CallsInOrder' /\ CumulativeAlone' /\ OnStartedSide'
  BY <1>1, <1>2 DEF SeriesTypeOK, CallsInOrder, CumulativeAlone, OnStartedSide, groupVars, mapVars
<1>5. MeasureOnly  BY <1>1, <1>3 DEF MeasureOnly, groupVars, mapVars
<1>6. QED  BY <1>2, <1>3, <1>4, <1>5, CollectBooks, MeasureKeepsCollection

-----------------------------------------------------------------------------
(* Initially nothing is stored, counted or reported.                       *)
LEMMA InitSeriesInv == SeriesInit => SeriesIInv
<1> SUFFICES ASSUME SeriesInit PROVE SeriesIInv
  OBVIOUS
<1> USE DEF SeriesInit
<1>1. MapInv /\ GroupInv  BY InitMapInv, GroupInitInv
<1>2. /\ call = [w \in Writers |-> "idle"] /\ \A i \in Sides : table[i] = {}
  BY DEF MapInit
<1>3. ~Ranging  BY DEF Ranging
<1>4. SeriesTypeOK
  BY FS_EmptySet DEF SeriesTypeOK, CollectorSteps, Zero
<1>5. CallsInOrder  BY <1>3 DEF CallsInOrder
<1>6. CumulativeAlone /\ OnStartedSide
  BY <1>2 DEF CumulativeAlone, OnStartedSide, GroupInit
<1>7. Books
  <2>1. \A i \in Sides : SeenIn(i) = {}
    <3>1. \A i \in Sides : Cohort(i) \subseteq Writers
      BY <1>1, <1>4, <1>6, OfItsMap
    <3>2. QED  BY <1>2, <3>1 DEF SeenIn
  <2>2. QED  BY <1>2, <2>1 DEF Books, TablesRight, CellsRight
<1>8. DOMAIN points = {} /\ DOMAIN floor = {} /\ loading = NotLoading  BY DEF NoPoints
<1>9. InCollection
  BY <1>3, <1>8 DEF InCollection, PointsRight, LoadingRight, InProgress, NoneMissed, LengthRight,
                    FloorsRight
<1>10. QED  BY <1>1, <1>4, <1>5, <1>6, <1>7, <1>9 DEF SeriesIInv, Placed

(* Every step preserves the invariant.                                     *)
LEMMA NextSeriesInv == SeriesIInv /\ [SeriesNext]_seriesVars => SeriesIInv'
<1> SUFFICES ASSUME SeriesIInv, [SeriesNext]_seriesVars PROVE SeriesIInv'
  OBVIOUS
<1>1. GroupInv'  BY SeriesGroupStep, GroupNextInv DEF SeriesIInv
<1>2. MapInv'  BY SeriesMapStep, NextMapInv DEF SeriesIInv
<1> DEFINE Rest == Placed' /\ Books' /\ InCollection'
<1> SUFFICES Rest
  BY <1>1, <1>2 DEF SeriesIInv
<1>3. ASSUME NEW w \in Writers, RecordStart(w) PROVE Rest
  BY <1>3, RecordStartInv
<1>4. ASSUME NEW w \in Writers, RecordLookup(w) PROVE Rest
  <2>1. PICK m \in Sides : Moves(w, m)  BY <1>4, LookupMoves DEF SeriesIInv, Placed
  <2>2. QED  BY <2>1, MovesInv
<1>5. ASSUME NEW w \in Writers, RecordStore(w) PROVE Rest
  <2>1. PICK m \in Sides : Moves(w, m)  BY <1>5, StoreMoves DEF SeriesIInv, Placed
  <2>2. QED  BY <2>1, MovesInv
<1>6. ASSUME NEW w \in Writers, RecordAdd(w) PROVE Rest
  <2>1. PICK m \in Sides, k \in Keys : AddsTo(w, m, k)
    BY <1>6, RecordAddsTo DEF SeriesIInv, Placed, Books
  <2>2. QED  BY <2>1, AddsInv
<1>7. ASSUME NEW w \in Writers, RecordDone(w) PROVE Rest
  BY <1>7, RecordDoneInv
<1>8. CASE GatherSwap  BY <1>8, GatherSwapInv
<1>9. CASE GatherWaited  BY <1>9, GatherWaitedInv
<1>10. CASE GatherLen  BY <1>10, GatherLenInv
<1>11. ASSUME NEW k \in Keys, GatherVisit(k) PROVE Rest
  BY <1>11, GatherVisitInv
<1>12. CASE GatherLoad  BY <1>12, GatherLoadInv
<1>13. CASE GatherEnd  BY <1>13, GatherEndInv
<1>14. CASE GatherReturn  BY <1>14, GatherReturnInv
<1>15. CASE UNCHANGED seriesVars  BY <1>15, SeriesStutterInv
<1> HIDE DEF Rest
<1>16. Rest
  BY <1>3, <1>4, <1>5, <1>6, <1>7, <1>8, <1>9, <1>10, <1>11, <1>12, <1>13, <1>14, <1>15
  DEF SeriesNext, RecordStep
<1>17. QED  BY <1>16

(* A point with what it counts is one the definition allows.               *)
LEMMA PointBetween ==
  ASSUME SeriesIInv, Ranging, NEW k \in DOMAIN points, NEW possible,
         possible = IF Cumulative THEN Writers ELSE known
  PROVE  points[k] \in Between(k, possible)
<1> USE DEF SeriesIInv, Placed
<1>1. PICK i \in Sides : i = Source  BY TheSides
<1>2. PointRight(i, k)  BY <1>1 DEF InCollection, PointsRight
<1>3. Cohort(i) \subseteq possible /\ known \subseteq possible /\ Cohort(i) \subseteq Writers
  <2>1. Cohort(i) \subseteq Writers  BY OfItsMap
  <2>2. CASE Cumulative  BY <2>1, <2>2 DEF SeriesTypeOK
  <2>3. CASE ~Cumulative  BY <1>1, <2>1, <2>3, KnownCounted
  <2>4. QED  BY <2>2, <2>3
<1>4. CASE Sums
  <2>1. PICK S \in SUBSET CountedIn(i, k) :
               OfSeries(known, k) \subseteq S /\ points[k] = SumOn(Amount, S)
    BY <1>2, <1>4 DEF PointRight
  <2> DEFINE must == OfSeries(known, k)
             may == OfSeries(possible, k) \ must
             R == S \ must
  <2>2. R \in SUBSET may /\ must \union R = S
    BY <1>3, <2>1 DEF CountedIn, OfSeries
  <2>3. points[k] = MapThenSumSet(LAMBDA w : Amount[w], must \union R)
    BY <2>1, <2>2 DEF SumOn
  <2>4. points[k] \in SumsBetween(k, possible)
    BY <2>2, <2>3 DEF SumsBetween
  <2>5. QED  BY <1>4, <2>4 DEF Between
<1>5. CASE ~Sums
  <2>1. PICK v \in SeenIn(i) : /\ series[v] = k /\ points[k] = Amount[v]
                               /\ \A u \in OfSeries(known, k) : v \notin before[u]
    BY <1>2, <1>5 DEF PointRight
  <2>2. v \in OfSeries(possible, k)  BY <1>3, <2>1 DEF SeenIn, OfSeries
  <2>3. points[k] \in LastsBetween(k, possible)  BY <2>1, <2>2 DEF LastsBetween
  <2>4. QED  BY <1>5, <2>3 DEF Between
<1>6. QED  BY <1>4, <1>5

(* A collection that ends has reported what it may.                        *)
LEMMA InvReportBetween == SeriesIInv => ReportBetween
<1> SUFFICES ASSUME SeriesIInv, collector = "end" PROVE ReportBetween
  BY DEF ReportBetween
<1> USE DEF SeriesIInv, Placed
<1> DEFINE possible == IF Cumulative THEN Writers ELSE known
<1>1. Ranging  BY DEF Ranging
<1>2. PICK i \in Sides : i = Source  BY TheSides
<1>3. Due(i) \subseteq DOMAIN points
  BY <1>1, <1>2 DEF InCollection, NoneMissed, InProgress, Loading
<1>4. \A k \in DOMAIN points : k \in table[i]
  BY <1>2 DEF InCollection, PointsRight
<1>5. \A k \in DOMAIN points : points[k] \in Between(k, possible)
  BY <1>1, PointBetween
<1>6. known \subseteq SeenIn(i) /\ (~Cumulative => Cohort(i) = known)
  BY <1>1, <1>2, KnownCounted
<1>7. /\ table[i] = {series[w] : w \in SeenIn(i)}
      /\ SeenIn(i) \subseteq Cohort(i) /\ Cohort(i) \subseteq Writers
  BY OfItsMap DEF Books, TablesRight, SeenIn
<1>8. {series[w] : w \in known} \subseteq DOMAIN points
  <2>1. CASE Cumulative  BY <1>3, <2>1 DEF Due
  <2>2. CASE ~Cumulative  BY <1>3, <1>6, <1>7, <2>2 DEF Due
  <2>3. QED  BY <2>1, <2>2
<1>9. DOMAIN points \subseteq {series[w] : w \in possible}
  BY <1>4, <1>6, <1>7
<1>10. ASSUME ~Cumulative PROVE Cardinality(DOMAIN points) = n
  <2>1. DOMAIN points = table[i]  BY <1>3, <1>4, <1>10 DEF Due
  <2>2. n = Cardinality(table[i])
    BY <1>1, <1>2, <1>10 DEF InCollection, LengthRight, Source
  <2>3. QED  BY <2>1, <2>2
<1>11. ASSUME NEW k \in DOMAIN floor
       PROVE  k \in DOMAIN points /\ (Rising(added, k) => points[k] >= floor[k])
  <2>1. kind = "Sum" /\ FloorRight(known, k)
    BY <1>1 DEF InCollection, FloorsRight
  <2>2. Cumulative /\ Sums  BY <2>1 DEF Cumulative, Sums
  <2>3. k \in DOMAIN points  BY <1>3, <2>2 DEF Due
  <2>4. PICK S \in SUBSET CountedIn(i, k) :
               OfSeries(known, k) \subseteq S /\ points[k] = SumOn(Amount, S)
    BY <1>2, <2>2, <2>3 DEF InCollection, PointsRight, PointRight
  <2>5. IsFiniteSet(S) /\ S \subseteq Writers
    BY <2>4, CountedFinite, FS_Subset
  <2>6. ASSUME Rising(added, k) PROVE points[k] >= floor[k]
    <3>1. S \subseteq OfSeries(added, k)  BY <2>4 DEF CountedIn, OfSeries
    <3>2. \A x \in S : Amount[x] \in Nat  BY <2>5, <2>6, <3>1 DEF Rising
    <3>3. PICK M : M = OfSeries(known, k)  OBVIOUS
    <3>4. M \in SUBSET S  BY <2>4, <3>3
    <3>5. /\ SumOn(Amount, M) \in Nat /\ SumOn(Amount, S) \in Nat
          /\ SumOn(Amount, M) <= SumOn(Amount, S)
      BY <2>5, <3>2, <3>4, SumMonotone
    <3>6. Rising(known, k)  BY <3>1, <3>3, <3>4, <2>6 DEF Rising
    <3>7. floor[k] \in Int /\ floor[k] <= SumOn(Amount, M)
      BY <2>1, <3>3, <3>6 DEF FloorRight
    <3>8. QED  BY <2>4, <3>5, <3>7
  <2>7. QED  BY <2>3, <2>6
<1> HIDE DEF possible
<1>12. QED  BY <1>5, <1>8, <1>9, <1>10, <1>11 DEF ReportBetween, possible

-----------------------------------------------------------------------------
(* In every reachable state of an aggregation the cells are the sums or    *)
(* last values of the calls counted in them.                               *)
THEOREM SeriesInvariant == SeriesSpec => []SeriesIInv
<1>1. QED  BY InitSeriesInv, NextSeriesInv, PTL DEF SeriesSpec

(* The precomputed aggregations use the wait group as it is specified, so  *)
(* that all that is proved of it holds for them.                           *)
THEOREM SeriesImplementsGroup == SeriesSpec => GroupSpec
<1>1. SeriesInit => GroupInit  BY DEF SeriesInit
<1>2. QED  BY <1>1, SeriesGroupStep, PTL DEF SeriesSpec, GroupSpec

(* And every aggregation uses its maps as they are specified, which are    *)
(* cleared only when no store is under way.                                *)
THEOREM SeriesImplementsMap == SeriesSpec => MapSpec
<1>1. SeriesInit => MapInit
  BY DEF SeriesInit
<1>2. SeriesIInv => GroupInv  BY DEF SeriesIInv
<1>3. QED  BY <1>1, <1>2, SeriesMapStep, SeriesInvariant, PTL DEF SeriesSpec, MapSpec

(* A collection reports every series, counts every measurement it must,    *)
(* each only once, and no last value that another had replaced; no series  *)
(* of a cumulative sum is dropped, and none falls to which nothing         *)
(* negative was added.  For any calls, amounts, attribute sets and limit.  *)
THEOREM ReportIsBetween == SeriesSpec => []ReportBetween
<1>1. QED  BY SeriesInvariant, InvReportBetween, PTL
=============================================================================
