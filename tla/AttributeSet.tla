----------------------------- MODULE AttributeSet -----------------------------
(***************************************************************************)
(* NewSet of attribute/set.go: sorts the attributes by key, keeping the    *)
(* order of equal keys, and then walks backwards over them and swaps the   *)
(* last of each key to the end, within the slice it was given.             *)
(***************************************************************************)
EXTENDS Attributes

CONSTANT Inputs   (* the lists NewSet may be given                         *)

ASSUME SetAssumption ==
  \A list \in Inputs : list \in Seq(ToSet(list)) /\ KeysOf(list) \subseteq Int

VARIABLES
  input,     (* history: the list as it was given                          *)
  kvs,       (* the slice, 1-based                                         *)
  position,  (* where the result begins                                    *)
  offset     (* the element to look at next, 0 when there is none          *)

setVars == <<input, kvs, position, offset>>

SetInit ==
  /\ input \in Inputs
  /\ kvs = Sorted(input)
  /\ position = Len(input)
  /\ offset = Len(input) - 1

Swapped_Overwriting(s, i, j) == [s EXCEPT ![j] = s[i]]
Swapped(s, i, j) == [s EXCEPT ![i] = s[j], ![j] = s[i]]

SameKey == Key(kvs[offset]) = Key(kvs[position])

SetStep ==
  /\ offset > 0
  /\ offset' = offset - 1
  /\ IF SameKey
       THEN UNCHANGED <<kvs, position>>
       ELSE /\ position' = position - 1
            /\ kvs' = Swapped(kvs, offset, position - 1)
  /\ UNCHANGED input

SetOver == offset <= 0 /\ UNCHANGED setVars

SetSpec == SetInit /\ [][SetStep \/ SetOver]_setVars

Result == SubSeq(kvs, IF input = <<>> THEN 1 ELSE position, Len(kvs))

-----------------------------------------------------------------------------
(* The result holds each key once, in the order of the keys, with the      *)
(* value given last: whatever the order and the repetitions of the input.  *)
(* The duplicates stay in front of it, none lost.                          *)
SetAsDefined ==
  /\ offset <= 0 =>
       LET keys == InOrder(KeysOf(input))
       IN  Result = [i \in DOMAIN keys |-> LastOf(input, keys[i])]
  /\ \A a \in ToSet(input) :
       Cardinality({i \in DOMAIN kvs : kvs[i] = a})
         = Cardinality({i \in DOMAIN input : input[i] = a})
=============================================================================
