--------------------------- MODULE HotColdWaitGroup ---------------------------
(***************************************************************************)
(* hotColdWaitGroup of sdk/metric/internal/aggregate/atomic.go.            *)
(*                                                                         *)
(* Writers bracket their changes with start and done and work on the side  *)
(* that was hot when they started.  The one reader makes the other side    *)
(* hot and waits until the writers of the side that is now cold are done;  *)
(* it then owns that side until it collects again.                         *)
(***************************************************************************)
EXTENDS Integers, FiniteSets

CONSTANT Writers   (* the calls of start, each with its call of done       *)

VARIABLES
  hot,      (* the top bit of startedCountAndHotIdx                        *)
  started,  (* its other 63 bits, which do not overflow here               *)
  ended,    (* endedCounts                                                 *)
  writer,   (* where each writer is: "idle", "in" or "out"                 *)
  side,     (* the index start returned to each writer                     *)
  reader,   (* where swapHotAndWait is                                     *)
  owed,     (* its startedCount                                            *)
  readIdx,  (* its hotIdx, the side the reader waits for and then reads    *)
  members   (* history: the writers that started on each side since the    *)
            (* reader last emptied it                                      *)

groupVars == <<hot, started, ended, writer, side, reader, owed, readIdx, members>>

Sides == {0, 1}
ReaderPhases == {"idle", "loaded", "waiting", "reading"}

GroupInit ==
  /\ hot = 0 /\ started = 0
  /\ ended = [i \in Sides |-> 0]
  /\ writer = [w \in Writers |-> "idle"]
  /\ side = [w \in Writers |-> 0]
  /\ reader = "idle" /\ owed = 0 /\ readIdx = 1
  /\ members = [i \in Sides |-> {}]

(* One atomic addition counts the writer and tells it the hot side.        *)
Start(w) ==
  /\ writer[w] = "idle"
  /\ started' = started + 1
  /\ writer' = [writer EXCEPT ![w] = "in"]
  /\ side' = [side EXCEPT ![w] = hot]
  /\ members' = [members EXCEPT ![hot] = @ \union {w}]
  /\ UNCHANGED <<hot, ended, reader, owed, readIdx>>

(* done(hotIdx) counts the writer on the side it was given.                *)
DoneSide_Hot(w) == hot
DoneSide(w) == side[w]

Done(w) ==
  /\ writer[w] = "in"
  /\ ended' = [ended EXCEPT ![DoneSide(w)] = @ + 1]
  /\ writer' = [writer EXCEPT ![w] = "out"]
  /\ UNCHANGED <<hot, started, side, reader, owed, readIdx, members>>

(* swapHotAndWait: the first load only finds out which side is cold.       *)
SwapLoad ==
  /\ reader \in {"idle", "reading"}
  /\ reader' = "loaded"
  /\ readIdx' = hot
  /\ UNCHANGED <<hot, started, ended, writer, side, owed, members>>

Owed == started

(* One atomic exchange makes the cold side hot and reads the count.        *)
Swap ==
  /\ reader = "loaded"
  /\ hot' = 1 - readIdx
  /\ started' = 0
  /\ owed' = Owed
  /\ readIdx' = hot
  /\ reader' = "waiting"
  /\ UNCHANGED <<ended, writer, side, members>>

Emptied(i) == [ended EXCEPT ![i] = 0]

(* The spinning load finds the counts equal; the count is reset.           *)
Waited ==
  /\ reader = "waiting"
  /\ owed = ended[readIdx]
  /\ ended' = Emptied(readIdx)
  /\ members' = [members EXCEPT ![readIdx] = {}]
  /\ reader' = "reading"
  /\ UNCHANGED <<hot, started, writer, side, owed, readIdx>>

GroupNext == (\E w \in Writers : Start(w) \/ Done(w)) \/ SwapLoad \/ Swap \/ Waited

GroupSpec == GroupInit /\ [][GroupNext]_groupVars

-----------------------------------------------------------------------------
GroupTypeOK ==
  /\ hot \in Sides /\ started \in Nat /\ ended \in [Sides -> Nat]
  /\ writer \in [Writers -> {"idle", "in", "out"}]
  /\ side \in [Writers -> Sides]
  /\ reader \in ReaderPhases /\ owed \in Nat /\ readIdx \in Sides
  /\ members \in [Sides -> SUBSET Writers]

(* The reader has its side for itself: no writer is at work on it, neither *)
(* one that started before the swap nor a later one, though nothing is     *)
(* locked and writers start while the reader waits.                        *)
Exclusive ==
  reader = "reading" =>
    /\ readIdx # hot
    /\ \A w \in Writers : writer[w] = "in" => side[w] # readIdx

(* Why: the members of a side are those who have counted themselves there. *)
Finished(i) == {w \in members[i] : writer[w] = "out"}

MembersFinite == \A i \in Sides : IsFiniteSet(members[i])

CountsExact ==
  /\ started = Cardinality(members[hot])
  /\ \A i \in Sides : ended[i] = Cardinality(Finished(i))

WritersAreMembers ==
  /\ \A w \in Writers : writer[w] = "in" => w \in members[side[w]]
  /\ \A i \in Sides : \A w \in members[i] : writer[w] # "idle" /\ side[w] = i

ReaderKnows ==
  /\ reader = "loaded" => readIdx = hot
  /\ reader # "loaded" => readIdx = 1 - hot
  /\ reader = "waiting" => owed = Cardinality(members[readIdx])
  /\ reader # "waiting" => members[1 - hot] = {}

GroupInv == /\ GroupTypeOK /\ MembersFinite /\ CountsExact
            /\ WritersAreMembers /\ ReaderKnows

(* A collection spins only while a writer of its side is at work, however  *)
(* many new ones keep starting: the counts never miss each other.          *)
SpinsForSomeone ==
  reader = "waiting" =>
    owed = ended[readIdx] \/ \E w \in Writers : writer[w] = "in" /\ side[w] = readIdx
=============================================================================
