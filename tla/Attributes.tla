------------------------------ MODULE Attributes ------------------------------
(***************************************************************************)
(* Attributes and lists of them: attribute.KeyValue is a pair of a key and *)
(* a value.  Keys are numbers, whose order stands for that of strings.     *)
(* attrnorm.KeyValue and attrnorm.Truncate, which remove the duplicates in *)
(* a map and cut what is too long, are the function Norm; Normalization    *)
(* computes it.                                                            *)
(***************************************************************************)
EXTENDS Integers, SequencesExt, FiniteSetsExt

CONSTANTS
  Norm,       (* what attrnorm makes of each value, with the limit in use  *)
  Canonical   (* what should become of each value                          *)

Key(a) == a[1]
Normal(a) == <<a[1], Norm[a[2]]>>
NormalAll(s) == [i \in DOMAIN s |-> Normal(s[i])]

(* Where a list has a key.                                                 *)
Places(s, k) == {i \in DOMAIN s : Key(s[i]) = k}
Has(s, k) == Places(s, k) # {}
KeysOf(s) == {Key(s[i]) : i \in DOMAIN s}

(* Replaces the value of a key, or appends it.                             *)
Put(s, a) ==
  IF Has(s, Key(a)) THEN [s EXCEPT ![Min(Places(s, Key(a)))] = a] ELSE Append(s, a)

(* The first place and the last value of each key, in one pass over the    *)
(* list with an index of the keys seen.                                    *)
Deduped(s) == FoldLeft(Put, <<>>, s)

(* The numbers of a finite set from the least to the greatest: each is the *)
(* one with as many below it as its place says.                            *)
InOrder(S) ==
  [p \in 1..Cardinality(S) |-> CHOOSE x \in S : Cardinality({y \in S : y < x}) = p - 1]

(* The elements of a list at given places, and those that pass a test.     *)
Sublist(s, places) ==
  LET order == InOrder(places) IN [p \in DOMAIN order |-> s[order[p]]]
Filter(s, Test(_)) == Sublist(s, {i \in DOMAIN s : Test(s[i])})

(* slices.SortStableFunc by key: at place p is the element with p - 1      *)
(* others before it.                                                       *)
Before(s, i, j) == Key(s[i]) < Key(s[j]) \/ (Key(s[i]) = Key(s[j]) /\ i < j)
Sorted(s) ==
  LET from(p) == CHOOSE j \in DOMAIN s : Cardinality({i \in DOMAIN s : Before(s, i, j)}) = p - 1
  IN  [p \in DOMAIN s |-> s[from(p)]]

-----------------------------------------------------------------------------
(* The same without an algorithm, to compare with: the keys in the order   *)
(* in which they first appear, and the last value of each.                 *)
FirstKeys(s) ==
  LET firsts == Sublist(s, {i \in DOMAIN s : i = Min(Places(s, Key(s[i])))})
  IN  [p \in DOMAIN firsts |-> Key(firsts[p])]

LastOf(s, k) == s[Max(Places(s, k))]

Meant(a) == <<a[1], Canonical[a[2]]>>

(* At most n of a list; a negative n is no limit.                          *)
UpTo(n, s) == IF n < 0 THEN s ELSE SubSeq(s, 1, Min({n, Len(s)}))
=============================================================================
