---------------------------- MODULE AttributeProofs ----------------------------
(***************************************************************************)
(* Proofs about lists of attributes: the sets NewSet makes, for any list;  *)
(* what a span hands over, for any limits, lists of attributes, calls and  *)
(* ends; what the handlers of slog log, for any handlers, lists and calls; *)
(* the resource, for any detectors and what they return; and the           *)
(* attributes of a log record, for any limit, lists and calls.             *)
(***************************************************************************)
EXTENDS AttributeSet, Span, SlogHandler, ResourceDetection, LogRecord, SharedLemmas

-----------------------------------------------------------------------------
(* The numbers of a set in order.                                          *)

(* InOrder is such a line.                                                 *)
LEMMA InOrderIs ==
  ASSUME NEW S, IsFiniteSet(S), S \subseteq Int
  PROVE  /\ Cardinality(S) \in Nat
         /\ InOrder(S) \in [1..Cardinality(S) -> S]
         /\ Increasing(InOrder(S), Cardinality(S))
         /\ \A x \in S : \E i \in 1..Cardinality(S) : InOrder(S)[i] = x
<1> DEFINE n == Cardinality(S)
           R == {q \in S \X S : q[1] < q[2]}
           f == InOrder(S)
<1>1. InLine(S, R)  BY DEF InLine
<1>2. \A x \in S : Below(S, R, x) = {y \in S : y < x}  BY DEF Below
<1>3. \A x, y \in S : <<x, y>> \in R => x < y  OBVIOUS
<1> HIDE DEF R
<1>4. n \in Nat  BY FS_CardinalityType
<1>5. \A p \in 1..n : \E x \in S : Cardinality({y \in S : y < x}) = p - 1
  <2>1. \A p \in 1..n : \E x \in S : Cardinality(Below(S, R, x)) = p - 1
    BY <1>1, PlacesInLine
  <2>2. QED  BY <1>2, <2>1
<1>6. \A p \in 1..n : f[p] \in S /\ Cardinality({y \in S : y < f[p]}) = p - 1
  BY <1>5 DEF InOrder
<1>7. f \in [1..n -> S]  BY <1>6 DEF InOrder
<1>8. Ranked(S, R, f)  BY <1>2, <1>6, <1>7 DEF Ranked
<1> HIDE DEF f
<1>9. /\ \A p, q \in 1..n : p < q => <<f[p], f[q]>> \in R
      /\ \A x \in S : \E p \in 1..n : f[p] = x
  BY <1>1, <1>8, LineIs
<1>10. Increasing(f, n)  BY <1>3, <1>7, <1>9 DEF Increasing
<1>11. QED  BY <1>4, <1>7, <1>9, <1>10 DEF f

(* And the only one.                                                       *)
LEMMA InOrderOnly ==
  ASSUME NEW S, IsFiniteSet(S), S \subseteq Int, NEW m \in Nat, NEW f \in [1..m -> S],
         Increasing(f, m), \A x \in S : \E i \in 1..m : f[i] = x
  PROVE  m = Cardinality(S) /\ f = InOrder(S)
<1> DEFINE n == Cardinality(S)
           g == InOrder(S)
<1>1. /\ n \in Nat /\ g \in [1..n -> S] /\ Increasing(g, n)
      /\ \A x \in S : \E i \in 1..n : g[i] = x
  BY InOrderIs
<1>2. IsFiniteSet(1..m) /\ Cardinality(1..m) = m  BY FS_Interval
<1>3. f \in Bijection(1..m, S)
  <2>1. \A i, j \in 1..m : f[i] = f[j] => i = j
    <3>1. ASSUME NEW i \in 1..m, NEW j \in 1..m, i < j PROVE f[i] # f[j]
      <4>1. f[i] < f[j] /\ f[i] \in Int /\ f[j] \in Int  BY <3>1 DEF Increasing
      <4>2. QED  BY <4>1
    <3>2. QED  BY <3>1
  <2>2. QED  BY <2>1 DEF Bijection, Injection, Surjection, IsInjective
<1>4. m = n
  <2>1. ExistsBijection(1..m, S)  BY <1>3 DEF ExistsBijection
  <2>2. QED  BY <1>2, <2>1, FS_Bijection
<1> HIDE DEF n, g
<1> DEFINE T == {i \in Nat : i <= n => \A j \in 1..i : f[j] = g[j]}
<1>5. ASSUME NEW i \in Nat, i \in T PROVE i + 1 \in T
  <2> SUFFICES ASSUME i + 1 <= n PROVE f[i + 1] = g[i + 1]
    <3>1. \A j \in 1..i + 1 : j \in 1..i \/ j = i + 1  OBVIOUS
    <3>2. i + 1 <= n => i <= n  BY <1>1
    <3>3. QED  BY <1>5, <3>1, <3>2
  <2>1. \A j \in 1..i : f[j] = g[j]  BY <1>1, <1>5
  <2>2. i + 1 \in 1..n /\ f[i + 1] \in S /\ g[i + 1] \in S  BY <1>1, <1>4
  <2>3. PICK p \in 1..n : f[p] = g[i + 1]  BY <1>4, <2>2
  <2>4. PICK q \in 1..n : g[q] = f[i + 1]  BY <1>1, <2>2
  <2>5. ~(p < i + 1)
    <3>1. ASSUME p < i + 1 PROVE FALSE
      <4>1. p \in 1..i  BY <1>1, <3>1
      <4>2. g[p] = g[i + 1]  BY <2>1, <2>3, <4>1
      <4>3. g[p] < g[i + 1] /\ g[p] \in Int  BY <1>1, <2>2, <3>1 DEF Increasing
      <4>4. QED  BY <4>2, <4>3
    <3>2. QED  BY <3>1
  <2>6. ~(q < i + 1)
    <3>1. ASSUME q < i + 1 PROVE FALSE
      <4>1. q \in 1..i  BY <1>1, <3>1
      <4>2. f[q] = f[i + 1]  BY <2>1, <2>4, <4>1
      <4>3. f[q] < f[i + 1] /\ f[q] \in Int  BY <1>4, <2>2, <3>1 DEF Increasing
      <4>4. QED  BY <4>2, <4>3
    <3>2. QED  BY <3>1
  <2>7. f[i + 1] \in Int /\ g[i + 1] \in Int  BY <2>2
  <2>8. f[i + 1] <= g[i + 1]
    <3>1. CASE p = i + 1  BY <2>3, <2>7, <3>1
    <3>2. CASE p # i + 1
      <4>1. i + 1 < p  BY <1>1, <2>5, <3>2
      <4>2. QED  BY <1>4, <2>2, <2>3, <2>7, <4>1 DEF Increasing
    <3>3. QED  BY <3>1, <3>2
  <2>9. g[i + 1] <= f[i + 1]
    <3>1. CASE q = i + 1  BY <2>4, <2>7, <3>1
    <3>2. CASE q # i + 1
      <4>1. i + 1 < q  BY <1>1, <2>6, <3>2
      <4>2. QED  BY <1>1, <2>2, <2>4, <2>7, <4>1 DEF Increasing
    <3>3. QED  BY <3>1, <3>2
  <2>10. QED  BY <2>7, <2>8, <2>9
<1>6. n \in T
  <2>1. 0 \in T  OBVIOUS
  <2> HIDE DEF T
  <2>2. QED  BY <1>1, <1>5, <2>1, SetInduction
<1>7. \A j \in 1..n : f[j] = g[j]  BY <1>1, <1>6
<1>8. f = g  BY <1>1, <1>4, <1>7
<1>9. QED  BY <1>4, <1>8 DEF n, g

-----------------------------------------------------------------------------
(* Sorting.                                                                *)

(* c lists the places 1..n, each once.                                     *)
Permutation(c, n) ==
  /\ c \in [1..n -> 1..n]
  /\ \A i, j \in 1..n : c[i] = c[j] => i = j
  /\ \A j \in 1..n : \E i \in 1..n : c[i] = j

(* Sorted rearranges a list so that each element is Before those after it. *)
LEMMA SortedIs ==
  ASSUME NEW V, NEW s \in Seq(V), KeysOf(s) \subseteq Int
  PROVE  \E c : /\ Permutation(c, Len(s))
               /\ Sorted(s) = [p \in 1..Len(s) |-> s[c[p]]]
               /\ \A p, q \in 1..Len(s) : p < q => Before(s, c[p], c[q])
<1> DEFINE n == Len(s)
           D == 1..n
           R == {q \in D \X D : Before(s, q[1], q[2])}
           c == [p \in D |-> CHOOSE j \in D : Cardinality({i \in D : Before(s, i, j)}) = p - 1]
<1>1. n \in Nat /\ DOMAIN s = D  OBVIOUS
<1>2. IsFiniteSet(D) /\ Cardinality(D) = n  BY <1>1, FS_Interval
<1>3. \A i \in D : Key(s[i]) \in Int  BY <1>1 DEF KeysOf
<1>4. InLine(D, R)
  <2>1. \A x \in D : ~ Before(s, x, x)  BY <1>3 DEF Before
  <2>2. \A x, y, z \in D : Before(s, x, y) /\ Before(s, y, z) => Before(s, x, z)
    BY <1>3 DEF Before
  <2>3. \A x, y \in D : x # y => Before(s, x, y) \/ Before(s, y, x)
    BY <1>3 DEF Before
  <2>4. \A x, y \in D : <<x, y>> \in R <=> Before(s, x, y)  OBVIOUS
  <2> HIDE DEF R, D
  <2>5. QED  BY <2>1, <2>2, <2>3, <2>4 DEF InLine
<1>5. \A x \in D : Below(D, R, x) = {i \in D : Before(s, i, x)}  BY DEF Below
<1>6. \A x, y \in D : <<x, y>> \in R => Before(s, x, y)  OBVIOUS
<1> HIDE DEF R
<1>7. \A p \in D : \E j \in D : Cardinality({i \in D : Before(s, i, j)}) = p - 1
  <2>1. \A p \in D : \E j \in D : Cardinality(Below(D, R, j)) = p - 1
    BY <1>2, <1>4, PlacesInLine
  <2>2. QED  BY <1>5, <2>1
<1>8. \A p \in D : c[p] \in D /\ Cardinality({i \in D : Before(s, i, c[p])}) = p - 1
  BY <1>7
<1>9. Sorted(s) = [p \in D |-> s[c[p]]]  BY <1>1 DEF Sorted
<1>20. c \in [D -> D]  BY <1>8
<1>21. \A p \in D : Cardinality(Below(D, R, c[p])) = p - 1  BY <1>5, <1>8
<1> HIDE DEF c
<1>22. /\ \A p, q \in D : p < q => <<c[p], c[q]>> \in R
       /\ \A x \in D : \E p \in D : c[p] = x
  <2> HIDE DEF D
  <2>1. n = Cardinality(D) /\ D = 1..Cardinality(D)  BY <1>2 DEF D
  <2>2. Ranked(D, R, c)  BY <1>20, <1>21, <2>1 DEF Ranked
  <2>4. /\ \A p, q \in 1..Cardinality(D) : p < q => <<c[p], c[q]>> \in R
        /\ \A x \in D : \E p \in 1..Cardinality(D) : c[p] = x
    BY <1>2, <1>4, <2>2, LineIs
  <2>5. QED  BY <2>1, <2>4
<1>10. \A p, q \in D : p < q => Before(s, c[p], c[q])  BY <1>6, <1>20, <1>22
<1>11. ASSUME NEW p \in D, NEW q \in D, c[p] = c[q] PROVE p = q
  <2>1. \A i \in D : ~ Before(s, i, i)  BY <1>3 DEF Before
  <2>2. c[p] \in D /\ c[q] \in D  BY <1>20
  <2>3. ~ (p < q)  BY <1>10, <1>11, <2>1, <2>2
  <2>4. ~ (q < p)  BY <1>10, <1>11, <2>1, <2>2
  <2>5. QED  BY <2>3, <2>4
<1>12. Permutation(c, n)  BY <1>11, <1>20, <1>22 DEF Permutation
<1>13. QED  BY <1>9, <1>10, <1>12

(* The keys of a sorted list do not fall, and the last element with a key  *)
(* is the one that was last with it before.                                *)
LEMMA SortedOrder ==
  ASSUME NEW V, NEW s \in Seq(V), KeysOf(s) \subseteq Int
  PROVE  LET t == Sorted(s)
             n == Len(s)
         IN  /\ t \in [1..n -> V]
             /\ \A p \in 1..n : Key(t[p]) \in KeysOf(s)
             /\ \A k \in KeysOf(s) : \E p \in 1..n : Key(t[p]) = k
             /\ \A p, q \in 1..n : p < q => Key(t[p]) <= Key(t[q])
             /\ \A p \in 1..n : (p < n => Key(t[p]) # Key(t[p + 1]))
                                => t[p] = LastOf(s, Key(t[p]))
<1> DEFINE n == Len(s)
           t == Sorted(s)
<1>1. n \in Nat /\ DOMAIN s = 1..n /\ s \in [1..n -> V]  OBVIOUS
<1>2. PICK c : /\ Permutation(c, n)
               /\ t = [p \in 1..n |-> s[c[p]]]
               /\ \A p, q \in 1..n : p < q => Before(s, c[p], c[q])
  BY SortedIs
<1> HIDE DEF t, n
<1>3. \A p \in 1..n : c[p] \in 1..n /\ t[p] = s[c[p]]  BY <1>2 DEF Permutation
<1>4. t \in [1..n -> V]  BY <1>1, <1>2, <1>3
<1>5. \A i \in 1..n : Key(s[i]) \in KeysOf(s)  BY <1>1 DEF KeysOf
<1>6. \A p \in 1..n : Key(t[p]) \in KeysOf(s)  BY <1>3, <1>5
<1>7. ASSUME NEW k \in KeysOf(s) PROVE \E p \in 1..n : Key(t[p]) = k
  <2>1. PICK i \in 1..n : k = Key(s[i])  BY <1>1 DEF KeysOf
  <2>2. PICK p \in 1..n : c[p] = i  BY <1>2 DEF Permutation
  <2>3. QED  BY <1>3, <2>1, <2>2
<1>8. ASSUME NEW p \in 1..n, NEW q \in 1..n, p < q PROVE Key(t[p]) <= Key(t[q])
  <2>1. Before(s, c[p], c[q])  BY <1>2, <1>8
  <2>2. Key(t[p]) \in Int /\ Key(t[q]) \in Int  BY <1>6
  <2>3. QED  BY <1>3, <2>1, <2>2 DEF Before
<1>9. ASSUME NEW p \in 1..n, p < n => Key(t[p]) # Key(t[p + 1])
      PROVE  t[p] = LastOf(s, Key(t[p]))
  <2> DEFINE P == Places(s, Key(t[p]))
  <2>1. P = {i \in 1..n : Key(s[i]) = Key(t[p])}  BY <1>1 DEF Places
  <2>2. c[p] \in P  BY <1>3, <2>1
  <2>3. ASSUME NEW i \in P PROVE i <= c[p]
    <3>1. i \in 1..n /\ Key(s[i]) = Key(t[p])  BY <2>1
    <3>2. PICK q \in 1..n : c[q] = i  BY <1>2, <3>1 DEF Permutation
    <3>3. Key(t[q]) = Key(t[p])  BY <1>3, <3>1, <3>2
    <3>4. CASE q = p  BY <1>1, <1>3, <3>2, <3>4
    <3>5. CASE q < p
      <4>1. Before(s, c[q], c[p])  BY <1>2, <3>5
      <4>2. Key(s[c[q]]) = Key(t[p]) /\ Key(s[c[p]]) = Key(t[p]) /\ Key(t[p]) \in Int
        BY <1>3, <1>6, <3>1, <3>2
      <4>3. c[q] < c[p]  BY <4>1, <4>2 DEF Before
      <4>4. c[p] \in Int  BY <1>3
      <4>5. QED  BY <3>1, <3>2, <4>3, <4>4
    <3>6. CASE p < q
      <4>1. p < n /\ p + 1 \in 1..n  BY <1>1, <3>6
      <4>2. Key(t[p]) <= Key(t[p + 1])  BY <1>8, <4>1
      <4>3. Key(t[p + 1]) <= Key(t[q])
        <5>1. CASE p + 1 = q
          <6>1. Key(t[q]) \in Int  BY <1>6
          <6>2. QED  BY <5>1, <6>1
        <5>2. CASE p + 1 < q  BY <1>8, <4>1, <5>2
        <5>3. QED  BY <3>6, <5>1, <5>2
      <4>4. Key(t[p]) \in Int /\ Key(t[p + 1]) \in Int  BY <1>6, <4>1
      <4>5. Key(t[p]) = Key(t[p + 1])  BY <3>3, <4>2, <4>3, <4>4
      <4>6. QED  BY <1>9, <4>1, <4>5
    <3>7. QED  BY <3>4, <3>5, <3>6
  <2>4. P \subseteq Int /\ c[p] \in Int  BY <1>1, <1>3, <2>1
  <2> HIDE DEF P
  <2>5. Max(P) = c[p]  BY <2>2, <2>3, <2>4, MaxIs
  <2>6. QED  BY <1>3, <2>5 DEF LastOf, P
<1>10. QED  BY <1>4, <1>6, <1>7, <1>8, <1>9 DEF t, n

-----------------------------------------------------------------------------
(* NewSet.                                                                 *)

(* k is list rearranged.                                                   *)
Rearranged(list, k) ==
  \E c : Permutation(c, Len(list)) /\ k = [p \in 1..Len(list) |-> list[c[p]]]

(* What the walk backwards has done when the places up to off are left and *)
(* the result so far begins at pos: the places left are as sorted, and the *)
(* result has each key of the others once, in order, with the value that   *)
(* was last.                                                               *)
Walked(list, k, pos, off) ==
  LET n == Len(list)
      t == Sorted(list)
  IN  /\ Rearranged(list, k)
      /\ n = 0 => pos = 0 /\ off = -1
      /\ n > 0 =>
           /\ pos \in 1..n /\ off \in 0..(pos - 1)
           /\ \A i \in 1..off : k[i] = t[i]
           /\ \A i \in pos..n : /\ Key(k[i]) \in KeysOf(list)
                                /\ k[i] = LastOf(list, Key(k[i]))
           /\ \A i, j \in pos..n : i < j => Key(k[i]) < Key(k[j])
           /\ \A p \in (off + 1)..n : \E i \in pos..n : Key(k[i]) = Key(t[p])
           /\ Key(k[pos]) = Key(t[off + 1])

(* A swap of two places rearranges.                                        *)
LEMMA SwapRearranges ==
  ASSUME NEW list, Len(list) \in Nat, NEW k, Rearranged(list, k),
         NEW i \in 1..Len(list), NEW j \in 1..Len(list)
  PROVE  Rearranged(list, Swapped(k, i, j))
<1> DEFINE n == Len(list)
<1>1. PICK c : Permutation(c, n) /\ k = [p \in 1..n |-> list[c[p]]]  BY DEF Rearranged
<1> DEFINE turn == [p \in 1..n |-> IF p = j THEN i ELSE IF p = i THEN j ELSE p]
           d == [p \in 1..n |-> c[turn[p]]]
<1>2. turn \in [1..n -> 1..n] /\ \A p \in 1..n : turn[turn[p]] = p  OBVIOUS
<1>3. Swapped(k, i, j) = [p \in 1..n |-> k[turn[p]]]  BY <1>1 DEF Swapped
<1> HIDE DEF turn
<1>4. Permutation(d, n)
  <2>1. d \in [1..n -> 1..n]  BY <1>1, <1>2 DEF Permutation
  <2>2. ASSUME NEW p \in 1..n, NEW q \in 1..n, d[p] = d[q] PROVE p = q
    <3>1. turn[p] \in 1..n /\ turn[q] \in 1..n  BY <1>2
    <3>2. c[turn[p]] = c[turn[q]]  BY <2>2
    <3>3. turn[p] = turn[q]
      <4>1. \A x, y \in 1..n : c[x] = c[y] => x = y  BY <1>1 DEF Permutation
      <4> HIDE DEF d, n
      <4>2. QED  BY <3>1, <3>2, <4>1
    <3>4. QED  BY <1>2, <3>3
  <2>3. ASSUME NEW x \in 1..n PROVE \E p \in 1..n : d[p] = x
    <3>1. PICK q \in 1..n : c[q] = x  BY <1>1 DEF Permutation
    <3>2. turn[q] \in 1..n /\ d[turn[q]] = c[q]  BY <1>2
    <3>3. QED  BY <3>1, <3>2
  <2> HIDE DEF d
  <2>4. QED  BY <2>1, <2>2, <2>3 DEF Permutation
<1>5. Swapped(k, i, j) = [p \in 1..n |-> list[d[p]]]  BY <1>1, <1>2, <1>3
<1> HIDE DEF d
<1>6. QED  BY <1>4, <1>5 DEF Rearranged

(* A list rearranged has each element as often as before.                  *)
Times(s, a) == Cardinality({i \in DOMAIN s : s[i] = a})

(* A rearranged list has them as often.                                    *)
LEMMA NoneLost ==
  ASSUME NEW V, NEW list \in Seq(V), NEW k, Rearranged(list, k), NEW a
  PROVE  Times(k, a) = Times(list, a)
<1> DEFINE n == Len(list)
           A == {i \in 1..n : k[i] = a}
           B == {i \in 1..n : list[i] = a}
<1>1. n \in Nat /\ DOMAIN list = 1..n  OBVIOUS
<1>2. PICK c : Permutation(c, n) /\ k = [p \in 1..n |-> list[c[p]]]  BY DEF Rearranged
<1> DEFINE f == [i \in A |-> c[i]]
<1>3. f \in [A -> B]  BY <1>2 DEF Permutation
<1>4. \A x, y \in A : f[x] = f[y] => x = y  BY <1>2 DEF Permutation
<1>5. ASSUME NEW y \in B PROVE \E x \in A : f[x] = y
  <2>1. PICK x \in 1..n : c[x] = y  BY <1>2 DEF Permutation
  <2>2. x \in A  BY <1>2, <2>1
  <2>3. QED  BY <2>1, <2>2
<1>6. IsFiniteSet(A)
  <2>1. IsFiniteSet(1..n)  BY <1>1, FS_Interval
  <2>2. QED  BY <2>1, FS_Subset
<1>7. f \in Bijection(A, B)
  <2> HIDE DEF f, A, B
  <2>1. QED  BY <1>3, <1>4, <1>5 DEF Bijection, Injection, Surjection, IsInjective
<1>8. Cardinality(A) = Cardinality(B)
  <2>1. ExistsBijection(A, B)  BY <1>7 DEF ExistsBijection
  <2> HIDE DEF A, B
  <2>2. QED  BY <1>6, <2>1, FS_Bijection
<1>9. QED  BY <1>1, <1>2, <1>8 DEF Times

(* The walk begins with the last element as the result.                    *)
LEMMA WalkStarts ==
  ASSUME NEW V, NEW list \in Seq(V), KeysOf(list) \subseteq Int
  PROVE  Walked(list, Sorted(list), Len(list), Len(list) - 1)
<1> DEFINE n == Len(list)
           t == Sorted(list)
<1>1. n \in Nat  OBVIOUS
<1>2. Rearranged(list, t)
  <2>1. \E c : Permutation(c, n) /\ t = [p \in 1..n |-> list[c[p]]]  BY SortedIs
  <2> HIDE DEF t, n
  <2>2. QED  BY <2>1 DEF Rearranged, n
<1>3. /\ \A p \in 1..n : Key(t[p]) \in KeysOf(list)
      /\ \A p \in 1..n : (p < n => Key(t[p]) # Key(t[p + 1]))
                         => t[p] = LastOf(list, Key(t[p]))
  BY SortedOrder
<1> HIDE DEF t
<1>4. ASSUME n > 0
      PROVE  n \in 1..n /\ Key(t[n]) \in KeysOf(list) /\ t[n] = LastOf(list, Key(t[n]))
  BY <1>1, <1>3, <1>4
<1>5. \A i \in n..n : i = n  BY <1>1
<1>6. n > 0 => n - 1 \in 0..(n - 1) /\ n - 1 + 1 = n  BY <1>1
<1>7. \A i, j \in n..n : ~ (i < j)  BY <1>1
<1>8. QED  BY <1>1, <1>2, <1>4, <1>5, <1>6, <1>7 DEF Walked, t

(* It skips an element whose key the result begins with.                   *)
LEMMA WalkSkips ==
  ASSUME NEW V, NEW list \in Seq(V), NEW k, NEW pos, NEW off,
         Walked(list, k, pos, off), off > 0, off \in Int, Key(k[off]) = Key(k[pos])
  PROVE  Walked(list, k, pos, off - 1)
<1> DEFINE n == Len(list)
           t == Sorted(list)
<1>1. n \in Nat  OBVIOUS
<1>2. n > 0 /\ pos \in 1..n /\ off \in 0..(pos - 1)  BY <1>1 DEF Walked
<1>3. k[off] = t[off]  BY <1>2 DEF Walked
<1>4. off - 1 \in 0..(pos - 1) /\ off - 1 + 1 = off  BY <1>2
<1>5. \A p \in off..n : p = off \/ p \in (off + 1)..n  BY <1>2
<1>6. \A i \in 1..off - 1 : i \in 1..off  BY <1>2
<1>7. pos \in pos..n  BY <1>2
<1>8. \A p \in off..n : \E i \in pos..n : Key(k[i]) = Key(t[p])
  <2>1. \A p \in (off + 1)..n : \E i \in pos..n : Key(k[i]) = Key(t[p])
    BY <1>2 DEF Walked
  <2>2. Key(k[pos]) = Key(t[off])  BY <1>3
  <2>3. QED  BY <1>5, <1>7, <2>1, <2>2
<1>9. Key(k[pos]) = Key(t[off])  BY <1>3
<1> HIDE DEF t, n
<1>10. QED  BY <1>2, <1>4, <1>6, <1>8, <1>9 DEF Walked, t, n

(* It swaps another before the result: sorted as the list is, that element *)
(* is the last with its key, and less than all in the result.              *)
LEMMA WalkTakes ==
  ASSUME NEW V, NEW list \in Seq(V), KeysOf(list) \subseteq Int,
         NEW k, NEW pos, NEW off,
         Walked(list, k, pos, off), off > 0, off \in Int, Key(k[off]) # Key(k[pos])
  PROVE  Walked(list, Swapped(k, off, pos - 1), pos - 1, off - 1)
<1> DEFINE n == Len(list)
           t == Sorted(list)
           j == pos - 1
           m == Swapped(k, off, j)
<1>1. n \in Nat  OBVIOUS
<1>2. /\ n > 0 /\ pos \in 1..n /\ off \in 0..(pos - 1)
      /\ Rearranged(list, k)
      /\ \A i \in 1..off : k[i] = t[i]
      /\ \A i \in pos..n : Key(k[i]) \in KeysOf(list) /\ k[i] = LastOf(list, Key(k[i]))
      /\ \A i, l \in pos..n : i < l => Key(k[i]) < Key(k[l])
      /\ \A p \in (off + 1)..n : \E i \in pos..n : Key(k[i]) = Key(t[p])
      /\ Key(k[pos]) = Key(t[off + 1])
  <2>1. n > 0  BY <1>1 DEF Walked
  <2> HIDE DEF t, n
  <2>2. QED  BY <2>1 DEF Walked, t, n
<1>3. /\ \A p \in 1..n : Key(t[p]) \in KeysOf(list)
      /\ \A p, q \in 1..n : p < q => Key(t[p]) <= Key(t[q])
      /\ \A p \in 1..n : (p < n => Key(t[p]) # Key(t[p + 1]))
                         => t[p] = LastOf(list, Key(t[p]))
  BY SortedOrder
<1>4. DOMAIN k = 1..n  BY <1>2 DEF Rearranged
<1> HIDE DEF n, t
<1>5. off \in 1..n /\ off + 1 \in 1..n /\ j \in 1..n /\ off <= j /\ j < pos
  BY <1>1, <1>2
<1>6. k[off] = t[off]  BY <1>2, <1>5
<1>7. Key(t[off]) # Key(t[off + 1])  BY <1>2, <1>6
<1>8. t[off] = LastOf(list, Key(t[off]))  BY <1>3, <1>5, <1>7
<1>9. Key(t[off]) < Key(k[pos])
  <2>1. Key(t[off]) <= Key(t[off + 1])  BY <1>3, <1>5
  <2>2. Key(t[off]) \in Int /\ Key(t[off + 1]) \in Int  BY <1>3, <1>5
  <2>3. QED  BY <1>2, <1>7, <2>1, <2>2
<1>10. /\ m[j] = t[off]
       /\ \A i \in 1..off - 1 : m[i] = t[i]
       /\ \A i \in pos..n : m[i] = k[i]
  <2>1. m = [k EXCEPT ![off] = k[j], ![j] = k[off]]  BY DEF Swapped
  <2>2. m[j] = k[off]  BY <1>4, <1>5, <2>1
  <2>3. \A i \in 1..n : i # off /\ i # j => m[i] = k[i]  BY <1>4, <2>1
  <2>4. \A i \in 1..off - 1 : i \in 1..n /\ i # off /\ i # j /\ i \in 1..off  BY <1>1, <1>5
  <2>5. \A i \in pos..n : i \in 1..n /\ i # off /\ i # j  BY <1>1, <1>2, <1>5
  <2> HIDE DEF m, j
  <2>6. QED  BY <1>2, <1>6, <2>2, <2>3, <2>4, <2>5
<1>11. Rearranged(list, m)
  <2> HIDE DEF m, j
  <2>1. QED  BY <1>1, <1>2, <1>5, SwapRearranges DEF m, n
<1> HIDE DEF m
<1>20. pos \in Int /\ n \in Int  BY <1>1, <1>2
<1>12. \A i \in j..n : i = j \/ i \in pos..n  BY <1>20
<1>13. j \in j..n /\ \A i \in pos..n : i \in j..n  BY <1>1, <1>2, <1>5
<1>14. \A i \in j..n : /\ Key(m[i]) \in KeysOf(list)
                       /\ m[i] = LastOf(list, Key(m[i]))
  <2>1. Key(t[off]) \in KeysOf(list)  BY <1>3, <1>5
  <2> HIDE DEF j
  <2>2. QED  BY <1>2, <1>8, <1>10, <1>12, <2>1
<1>15. ASSUME NEW i \in j..n, NEW l \in j..n, i < l PROVE Key(m[i]) < Key(m[l])
  <2>1. l \in pos..n  BY <1>2, <1>15
  <2>2. m[l] = k[l]  BY <1>10, <2>1
  <2>3. CASE i = j
    <3>1. m[i] = t[off]  BY <1>10, <2>3
    <3>2. CASE l = pos  BY <1>9, <2>2, <3>1, <3>2
    <3>3. CASE l # pos
      <4>1. Key(k[pos]) < Key(k[l])
        <5>1. pos \in pos..n /\ pos < l  BY <1>2, <2>1, <3>3
        <5>2. QED  BY <1>2, <2>1, <5>1
      <4>2. Key(k[pos]) \in Int /\ Key(k[l]) \in Int /\ Key(t[off]) \in Int
        <5>1. pos \in pos..n  BY <1>2
        <5>2. QED  BY <1>2, <1>3, <1>5, <2>1, <5>1
      <4>3. QED  BY <1>9, <2>2, <3>1, <4>1, <4>2
    <3>4. QED  BY <3>2, <3>3
  <2>4. CASE i \in pos..n  BY <1>2, <1>10, <1>15, <2>1, <2>2, <2>4
  <2>5. QED  BY <1>12, <2>3, <2>4
<1>16. ASSUME NEW p \in off..n PROVE \E i \in j..n : Key(m[i]) = Key(t[p])
  <2>1. CASE p = off  BY <1>10, <1>13, <2>1
  <2>2. CASE p # off
    <3>1. p \in (off + 1)..n  BY <1>5, <2>2
    <3>2. PICK i \in pos..n : Key(k[i]) = Key(t[p])  BY <1>2, <3>1
    <3>3. QED  BY <1>10, <1>13, <3>2
  <2>3. QED  BY <2>1, <2>2
<1>17. j \in 1..n /\ off - 1 \in 0..(j - 1) /\ off - 1 + 1 = off  BY <1>2, <1>5
<1> HIDE DEF j
<1>18. Walked(list, m, j, off - 1)
  BY <1>2, <1>10, <1>11, <1>14, <1>15, <1>16, <1>17 DEF Walked, t, n
<1>19. QED  BY <1>18 DEF m, j

(* At the end of the walk the result is what it should be.                 *)
LEMMA WalkEnds ==
  ASSUME NEW V, NEW list \in Seq(V), KeysOf(list) \subseteq Int,
         NEW k, NEW pos, NEW off, Walked(list, k, pos, off), off <= 0
  PROVE  SubSeq(k, IF list = <<>> THEN 1 ELSE pos, Len(k))
           = [i \in DOMAIN InOrder(KeysOf(list)) |-> LastOf(list, InOrder(KeysOf(list))[i])]
<1> DEFINE n == Len(list)
           t == Sorted(list)
           S == KeysOf(list)
<1>1. n \in Nat /\ DOMAIN list = 1..n /\ list \in [1..n -> V]  OBVIOUS
<1>2. S = {Key(list[i]) : i \in 1..n}  BY <1>1 DEF KeysOf
<1>3. IsFiniteSet(S)
  <2>1. IsFiniteSet(1..n)  BY <1>1, FS_Interval
  <2> DEFINE h == [i \in 1..n |-> Key(list[i])]
  <2>2. h \in [1..n -> S] /\ \A x \in S : \E i \in 1..n : h[i] = x  BY <1>2
  <2> HIDE DEF S, h, n
  <2>3. h \in Surjection(1..n, S)  BY <2>2 DEF Surjection
  <2>4. QED  BY <2>1, <2>3, FS_Surjection
<1>4. k \in Seq(V) /\ Len(k) = n
  <2>1. PICK c : Permutation(c, n) /\ k = [p \in 1..n |-> list[c[p]]]  BY DEF Walked, Rearranged
  <2>2. k \in [1..n -> V]  BY <1>1, <2>1 DEF Permutation
  <2>3. QED  BY <1>1, <2>2
<1>5. CASE n = 0
  <2>1. list = <<>>  BY <1>1, <1>5
  <2>2. S = {}  BY <1>2, <1>5
  <2>3. Cardinality(S) = 0  BY <2>2, FS_EmptySet
  <2>4. InOrder(S) = [p \in 1..0 |-> CHOOSE x \in S : Cardinality({y \in S : y < x}) = p - 1]
    BY <2>3 DEF InOrder
  <2>5. DOMAIN InOrder(S) = 1..0  BY <2>4
  <2>6. DOMAIN InOrder(S) = {}  BY <2>5
  <2>7. SubSeq(k, 1, 0) = <<>>  BY <1>4
  <2> HIDE DEF S
  <2>8. [i \in DOMAIN InOrder(S) |-> LastOf(list, InOrder(S)[i])] = <<>>  BY <2>6
  <2>9. QED  BY <1>4, <1>5, <2>1, <2>7, <2>8 DEF S
<1>6. CASE n > 0
  <2>1. /\ pos \in 1..n /\ off = 0
        /\ \A i \in pos..n : Key(k[i]) \in S /\ k[i] = LastOf(list, Key(k[i]))
        /\ \A i, j \in pos..n : i < j => Key(k[i]) < Key(k[j])
        /\ \A p \in 1..n : \E i \in pos..n : Key(k[i]) = Key(t[p])
    BY <1>6 DEF Walked
  <2>2. \A x \in S : \E p \in 1..n : Key(t[p]) = x  BY SortedOrder
  <2> HIDE DEF t, S, n
  <2> DEFINE m == n - pos + 1
             f == [i \in 1..m |-> Key(k[pos + i - 1])]
  <2>3. m \in Nat /\ \A i \in 1..m : pos + i - 1 \in pos..n  BY <1>1, <2>1
  <2>4. f \in [1..m -> S]  BY <2>1, <2>3
  <2>5. Increasing(f, m)
    <3>1. \A i, j \in 1..m : i < j => pos + i - 1 < pos + j - 1  BY <1>1, <2>1
    <3>2. QED  BY <2>1, <2>3, <3>1 DEF Increasing
  <2>6. ASSUME NEW x \in S PROVE \E i \in 1..m : f[i] = x
    <3>1. PICK p \in 1..n : Key(t[p]) = x  BY <2>2
    <3>2. PICK i \in pos..n : Key(k[i]) = x  BY <2>1, <3>1
    <3>3. i - pos + 1 \in 1..m /\ pos + (i - pos + 1) - 1 = i  BY <1>1, <2>1
    <3>4. f[i - pos + 1] = x  BY <3>2, <3>3
    <3>5. QED  BY <3>3, <3>4
  <2>7. m = Cardinality(S) /\ f = InOrder(S)
    <3>1. S \subseteq Int  BY DEF S
    <3> HIDE DEF m, f
    <3>2. QED  BY <1>3, <2>3, <2>4, <2>5, <2>6, <3>1, InOrderOnly
  <2>8. list # <<>>  BY <1>6 DEF n
  <2>9. SubSeq(k, pos, n) = [i \in 1..m |-> k[pos + i - 1]]
    <3>1. pos \in Int /\ n \in Int /\ pos <= n  BY <1>1, <2>1
    <3>2. \A i \in pos..n : i \in 1..n  BY <1>1, <2>1
    <3>3. \A i \in pos..n : k[i] \in V  BY <1>4, <3>2
    <3>4. SubSeq(k, pos, n) \in Seq(V)  BY <3>1, <3>3, SubSeqProperties
    <3>5. Len(SubSeq(k, pos, n)) = n - pos + 1  BY <3>1, <3>3, SubSeqProperties
    <3>6. \A i \in 1..(n - pos + 1) : SubSeq(k, pos, n)[i] = k[pos + i - 1]
      BY <3>1, <3>3, SubSeqProperties
    <3>7. SubSeq(k, pos, n) = [i \in 1..m |-> SubSeq(k, pos, n)[i]]
      BY <2>3, <3>4, <3>5
    <3>8. QED  BY <3>6, <3>7
  <2>10. \A i \in 1..m : k[pos + i - 1] = LastOf(list, f[i])  BY <2>1, <2>3
  <2>11. DOMAIN f = 1..m  OBVIOUS
  <2> HIDE DEF f, m
  <2>12. SubSeq(k, pos, n) = [i \in DOMAIN InOrder(S) |-> LastOf(list, InOrder(S)[i])]
    BY <2>7, <2>9, <2>10, <2>11
  <2>13. QED  BY <1>4, <2>8, <2>12 DEF S, n
<1>7. QED  BY <1>1, <1>5, <1>6

SetIInv == input \in Inputs /\ Walked(input, kvs, position, offset)

(* Every step of the walk keeps what has been walked as Walked says: the   *)
(* kept are the last of their keys, in order.                              *)
LEMMA SetInductive == SetSpec => []SetIInv
<1>1. \A list \in Inputs : list \in Seq(ToSet(list)) /\ KeysOf(list) \subseteq Int
  BY SetAssumption
<1>2. SetInit => SetIInv
  <2> SUFFICES ASSUME SetInit PROVE SetIInv  OBVIOUS
  <2>1. input \in Seq(ToSet(input)) /\ KeysOf(input) \subseteq Int  BY <1>1 DEF SetInit
  <2>2. Walked(input, Sorted(input), Len(input), Len(input) - 1)  BY <2>1, WalkStarts
  <2>3. QED  BY <2>2 DEF SetInit, SetIInv
<1>3. SetIInv /\ [SetStep \/ SetOver]_setVars => SetIInv'
  <2> SUFFICES ASSUME SetIInv, [SetStep \/ SetOver]_setVars PROVE SetIInv'  OBVIOUS
  <2>1. input \in Seq(ToSet(input)) /\ KeysOf(input) \subseteq Int  BY <1>1 DEF SetIInv
  <2>2. Walked(input, kvs, position, offset)  BY DEF SetIInv
  <2>3. CASE SetStep
    <3>1. offset > 0 /\ offset' = offset - 1 /\ input' = input  BY <2>3 DEF SetStep
    <3>2. offset \in Int  BY <2>1, <2>2 DEF Walked
    <3>3. CASE SameKey
      <4>1. kvs' = kvs /\ position' = position  BY <2>3, <3>3 DEF SetStep
      <4>2. Walked(input, kvs, position, offset - 1)
        BY <2>1, <2>2, <3>1, <3>2, <3>3, WalkSkips DEF SameKey
      <4>3. QED  BY <3>1, <4>1, <4>2 DEF SetIInv
    <3>4. CASE ~ SameKey
      <4>1. kvs' = Swapped(kvs, offset, position - 1) /\ position' = position - 1
        BY <2>3, <3>4 DEF SetStep
      <4>2. Walked(input, Swapped(kvs, offset, position - 1), position - 1, offset - 1)
        BY <2>1, <2>2, <3>1, <3>2, <3>4, WalkTakes DEF SameKey
      <4>3. QED  BY <3>1, <4>1, <4>2 DEF SetIInv
    <3>5. QED  BY <3>3, <3>4
  <2>4. CASE SetOver \/ UNCHANGED setVars  BY <2>2, <2>4 DEF SetOver, setVars, SetIInv
  <2>5. QED  BY <2>3, <2>4
<1>4. QED  BY <1>2, <1>3, PTL DEF SetSpec

(* The set NewSet returns has, for every list it is given, each key once,  *)
(* in order, with the last value given for it, and the walk that swaps in  *)
(* place leaves every element of the slice there as often as it was.       *)
THEOREM SetConforms == SetSpec => []SetAsDefined
<1>1. SetIInv => SetAsDefined
  <2> SUFFICES ASSUME SetIInv PROVE SetAsDefined  OBVIOUS
  <2>1. input \in Seq(ToSet(input)) /\ KeysOf(input) \subseteq Int
    BY SetAssumption DEF SetIInv
  <2>2. Walked(input, kvs, position, offset)  BY DEF SetIInv
  <2>3. offset <= 0 =>
          Result = [i \in DOMAIN InOrder(KeysOf(input)) |->
                      LastOf(input, InOrder(KeysOf(input))[i])]
    BY <2>1, <2>2, WalkEnds DEF Result
  <2>4. Rearranged(input, kvs)  BY <2>2 DEF Walked
  <2>5. \A a : Times(kvs, a) = Times(input, a)  BY <2>1, <2>4, NoneLost
  <2>6. QED  BY <2>3, <2>5 DEF SetAsDefined, Times
<1>2. QED  BY <1>1, SetInductive, PTL

-----------------------------------------------------------------------------
(* Lists without duplicate keys: Put, one attribute at a time.             *)

(* What Put gives.                                                         *)
LEMMA PutType ==
  ASSUME NEW V, NEW s \in Seq(V), NEW a \in V
  PROVE  /\ Put(s, a) \in Seq(V)
         /\ Len(Put(s, a)) = IF Has(s, Key(a)) THEN Len(s) ELSE Len(s) + 1
<1>1. CASE Has(s, Key(a))
  <2> DEFINE i == Min(Places(s, Key(a)))
  <2>1. Put(s, a) = [s EXCEPT ![i] = a]  BY <1>1 DEF Put
  <2> HIDE DEF i
  <2>2. [s EXCEPT ![i] = a] \in Seq(V) /\ Len([s EXCEPT ![i] = a]) = Len(s)
    <3> DEFINE t == [p \in 1..Len(s) |-> IF p = i THEN a ELSE s[p]]
    <3>1. [s EXCEPT ![i] = a] = t  OBVIOUS
    <3>2. t \in [1..Len(s) -> V] /\ Len(s) \in Nat  OBVIOUS
    <3> HIDE DEF t
    <3>3. t \in Seq(V) /\ Len(t) = Len(s)  BY <3>2
    <3>4. QED  BY <3>1, <3>3
  <2>3. QED  BY <1>1, <2>1, <2>2
<1>2. CASE ~ Has(s, Key(a))
  <2>1. Put(s, a) = Append(s, a)  BY <1>2 DEF Put
  <2>2. Append(s, a) \in Seq(V) /\ Len(Append(s, a)) = Len(s) + 1  OBVIOUS
  <2>3. QED  BY <1>2, <2>1, <2>2
<1>3. QED  BY <1>1, <1>2

(* Deduped goes through the list by steps of Put.                          *)
Puts(s, d, n) ==
  d[0] = <<>> /\ \A i \in 1..n : d[i] = Put(d[i - 1], s[i])

(* Deduped is the end of such a chain.                                     *)
LEMMA DedupedPuts ==
  ASSUME NEW V, NEW s \in Seq(V)
  PROVE  \E d \in [0..Len(s) -> Seq(V)] : Puts(s, d, Len(s)) /\ Deduped(s) = d[Len(s)]
<1> DEFINE n == Len(s)
           D == 1..n
           W == Seq(V)
           base == <<>>
           step == [i \in D |-> [t \in W |-> Put(t, s[i])]]
           Eq(h) == h = [u \in SUBSET D |->
                           IF u = {} THEN base ELSE Put(h[u \ {Max(u)}], s[Max(u)])]
<1>1. n \in Nat /\ DOMAIN s = D /\ \A i \in D : s[i] \in V  OBVIOUS
<1>2. base \in W  OBVIOUS
<1>3. step \in [D -> [W -> W]]  BY <1>1, PutType
<1>4. \E h : Eq(h)
  <2>1. \A i \in D : \A t \in W : step[i][t] = Put(t, s[i])  OBVIOUS
  <2>2. IsFiniteSet(D) /\ D \subseteq Int  BY <1>1, FS_Interval
  <2> HIDE DEF step, D, W, base
  <2>3. PICK g \in [SUBSET D -> W] : Folding(D, base, step, g)  BY <1>2, <1>3, <2>2, FoldExists
  <2>4. ASSUME NEW u \in SUBSET D, u # {} PROVE g[u] = Put(g[u \ {Max(u)}], s[Max(u)])
    <3>1. Max(u) \in D /\ u \ {Max(u)} \in SUBSET D  BY <1>1, <2>4, GreatestPlace DEF D
    <3>2. g[u \ {Max(u)}] \in W  BY <3>1
    <3>3. g[u] = step[Max(u)][g[u \ {Max(u)}]]  BY <2>3, <2>4 DEF Folding
    <3>4. QED  BY <2>1, <3>1, <3>2, <3>3
  <2>5. {} \in SUBSET D /\ g[{}] = base  BY <2>3 DEF Folding
  <2>6. \A u \in SUBSET D :
          g[u] = IF u = {} THEN base ELSE Put(g[u \ {Max(u)}], s[Max(u)])
    BY <2>4, <2>5
  <2>7. Eq(g)  BY <2>3, <2>6
  <2> HIDE DEF Eq
  <2>8. QED  BY <2>7
<1> DEFINE h == CHOOSE h : Eq(h)
<1>5. Eq(h)
  <2> HIDE DEF Eq
  <2>1. QED  BY <1>4
<1>6. Deduped(s) = h[D]  BY <1>1 DEF Deduped, FoldLeft, MapThenFoldSet
<1> HIDE DEF h
<1>7. Stepwise(D, W, base, step, h)
  <2>1. {} \in SUBSET D  OBVIOUS
  <2>2. h[{}] = base  BY <1>5, <2>1
  <2>3. ASSUME NEW u \in SUBSET D, u # {}, h[u \ {Max(u)}] \in W
        PROVE  h[u] = step[Max(u)][h[u \ {Max(u)}]]
    <3>1. Max(u) \in D  BY <1>1, <2>3, GreatestPlace
    <3>2. h[u] = Put(h[u \ {Max(u)}], s[Max(u)])  BY <1>5, <2>3
    <3> DEFINE r == h[u \ {Max(u)}]
    <3> HIDE DEF r, Eq
    <3>3. step[Max(u)][r] = Put(r, s[Max(u)])  BY <2>3, <3>1 DEF r
    <3>4. QED  BY <3>2, <3>3 DEF r
  <2> HIDE DEF step, D, W, base, Eq
  <2>4. QED  BY <2>2, <2>3 DEF Stepwise
<1> HIDE DEF Eq
<1>8. PICK d \in [0..n -> W] : Chain(n, base, step, d) /\ h[D] = d[n]
  <2> HIDE DEF step, W, base
  <2>1. QED  BY <1>1, <1>2, <1>3, <1>7, FoldChain
<1>9. ASSUME NEW i \in D PROVE d[i] = Put(d[i - 1], s[i])
  <2>1. i - 1 \in 0..n /\ i \in D  BY <1>1
  <2>2. d[i - 1] \in W  BY <2>1
  <2>3. d[i] = step[i][d[i - 1]]  BY <1>8 DEF Chain
  <2>4. QED  BY <2>2, <2>3
<1>10. d[0] = base  BY <1>8 DEF Chain
<1>11. Puts(s, d, n)  BY <1>9, <1>10 DEF Puts
<1>12. QED  BY <1>6, <1>8, <1>11

-----------------------------------------------------------------------------
(* Lists of attributes that grow at the end.                               *)

(* A greater number goes last.                                             *)
LEMMA InOrderAppend ==
  ASSUME NEW S, IsFiniteSet(S), S \subseteq Int, NEW x \in Int, \A y \in S : y < x
  PROVE  InOrder(S \union {x}) = Append(InOrder(S), x)
<1> DEFINE n == Cardinality(S)
           g == InOrder(S)
           f == Append(g, x)
           U == S \union {x}
<1>1. /\ n \in Nat /\ g \in [1..n -> S] /\ Increasing(g, n)
      /\ \A y \in S : \E i \in 1..n : g[i] = y
  BY InOrderIs
<1>2. IsFiniteSet(U)  BY FS_AddElement
<1> HIDE DEF g, n
<1>3. g \in Seq(S) /\ Len(g) = n  BY <1>1
<1>4. /\ f \in [1..(n + 1) -> U] /\ f[n + 1] = x
      /\ \A i \in 1..n : f[i] = g[i]
  <2>1. f \in Seq(U) /\ Len(f) = n + 1 /\ f[n + 1] = x /\ \A i \in 1..n : f[i] = g[i]
    <3>1. g \in Seq(U)  BY <1>3
    <3>2. x \in U  OBVIOUS
    <3> HIDE DEF U
    <3>3. QED  BY <1>3, <3>1, <3>2
  <2> HIDE DEF f, U
  <2>2. QED  BY <2>1
<1> HIDE DEF f
<1>5. Increasing(f, n + 1)
  <2>1. ASSUME NEW i \in 1..(n + 1), NEW j \in 1..(n + 1), i < j PROVE f[i] < f[j]
    <3>1. i \in 1..n /\ f[i] = g[i] /\ g[i] \in S  BY <1>1, <1>4, <2>1
    <3>2. CASE j = n + 1  BY <1>4, <3>1, <3>2
    <3>3. CASE j # n + 1
      <4>1. j \in 1..n  BY <1>1, <3>3
      <4>2. QED  BY <1>1, <1>4, <2>1, <3>1, <4>1 DEF Increasing
    <3>4. QED  BY <3>2, <3>3
  <2>2. QED  BY <2>1 DEF Increasing
<1>6. ASSUME NEW y \in U PROVE \E i \in 1..(n + 1) : f[i] = y
  <2>1. CASE y = x  BY <1>1, <1>4, <2>1
  <2>2. CASE y \in S
    <3>1. PICK i \in 1..n : g[i] = y  BY <1>1, <2>2
    <3>2. QED  BY <1>1, <1>4, <3>1
  <2>3. QED  BY <2>1, <2>2
<1>7. U \subseteq Int /\ n + 1 \in Nat  BY <1>1
<1> HIDE DEF U
<1>8. f = InOrder(U)  BY <1>2, <1>4, <1>5, <1>6, <1>7, InOrderOnly
<1>9. QED  BY <1>8 DEF f, g, U

(* A sublist has elements of the list, one for each place.                 *)
LEMMA SublistType ==
  ASSUME NEW V, NEW s \in Seq(V), NEW P \in SUBSET (1..Len(s))
  PROVE  /\ IsFiniteSet(P) /\ P \subseteq Int /\ Cardinality(P) \in Nat
         /\ Sublist(s, P) \in Seq(V) /\ Len(Sublist(s, P)) = Cardinality(P)
         /\ InOrder(P) \in Seq(P) /\ Len(InOrder(P)) = Cardinality(P)
         /\ \A p \in 1..Cardinality(P) : Sublist(s, P)[p] = s[InOrder(P)[p]]
<1> DEFINE D == 1..Len(s)
<1>1. IsFiniteSet(P) /\ P \subseteq Int
  <2>1. IsFiniteSet(D)  BY FS_Interval
  <2>2. P \subseteq D /\ D \subseteq Int  OBVIOUS
  <2> HIDE DEF D
  <2>3. QED  BY <2>1, <2>2, FS_Subset
<1> DEFINE n == Cardinality(P)
           g == InOrder(P)
<1>2. n \in Nat /\ g \in [1..n -> P]  BY <1>1, InOrderIs
<1> HIDE DEF n, g
<1>3. DOMAIN g = 1..n  BY <1>2
<1>4. Sublist(s, P) = [p \in 1..n |-> s[g[p]]]  BY <1>3 DEF Sublist, g
<1>5. \A p \in 1..n : s[g[p]] \in V
  <2>1. \A p \in 1..n : g[p] \in D  BY <1>2
  <2>2. \A i \in D : s[i] \in V  OBVIOUS
  <2> HIDE DEF D
  <2>3. QED  BY <2>1, <2>2
<1>6. Sublist(s, P) \in Seq(V) /\ Len(Sublist(s, P)) = n  BY <1>2, <1>4, <1>5
<1>7. g \in Seq(P) /\ Len(g) = n  BY <1>2
<1>8. QED  BY <1>1, <1>2, <1>4, <1>6, <1>7 DEF n, g

(* Among the places of a list with one more at its end.                    *)
LEMMA SublistAppend ==
  ASSUME NEW V, NEW s \in Seq(V), NEW a \in V, NEW P \in SUBSET (1..Len(s))
  PROVE  /\ Sublist(Append(s, a), P) = Sublist(s, P)
         /\ Sublist(Append(s, a), P \union {Len(s) + 1}) = Append(Sublist(s, P), a)
<1> DEFINE n == Len(s)
           m == Cardinality(P)
           t == Append(s, a)
           U == P \union {n + 1}
           g == InOrder(P)
<1>1. n \in Nat /\ t \in Seq(V) /\ Len(t) = n + 1 /\ t[n + 1] = a
      /\ \A i \in 1..n : t[i] = s[i]
  OBVIOUS
<1> HIDE DEF t
<1>2. /\ IsFiniteSet(P) /\ P \subseteq Int /\ m \in Nat
      /\ Sublist(s, P) \in Seq(V) /\ Len(Sublist(s, P)) = m
      /\ g \in Seq(P) /\ Len(g) = m
      /\ \A p \in 1..m : Sublist(s, P)[p] = s[g[p]]
  BY SublistType
<1>3. P \in SUBSET (1..Len(t)) /\ U \in SUBSET (1..Len(t))
  <2>1. \A i \in P : i \in 1..n  OBVIOUS
  <2>2. \A i \in P : i \in 1..(n + 1)  BY <1>1, <2>1
  <2>3. n + 1 \in 1..(n + 1)  BY <1>1
  <2>4. QED  BY <1>1, <2>2, <2>3
<1>4. InOrder(U) = Append(g, n + 1)
  <2>1. \A y \in P : y < n + 1  BY <1>1
  <2>2. n + 1 \in Int  BY <1>1
  <2> HIDE DEF n
  <2>3. QED  BY <1>2, <2>1, <2>2, InOrderAppend
<1>5. Cardinality(U) = m + 1
  <2>1. n + 1 \notin P  BY <1>1
  <2>2. QED  BY <1>2, <2>1, FS_AddElement
<1>6. /\ Sublist(t, P) \in Seq(V) /\ Len(Sublist(t, P)) = m
      /\ \A p \in 1..m : Sublist(t, P)[p] = t[g[p]]
  BY <1>1, <1>3, SublistType
<1>7. /\ Sublist(t, U) \in Seq(V) /\ Len(Sublist(t, U)) = m + 1
      /\ \A p \in 1..m + 1 : Sublist(t, U)[p] = t[InOrder(U)[p]]
  <2> HIDE DEF U
  <2>1. QED  BY <1>1, <1>3, <1>5, SublistType
<1> HIDE DEF g, m, U
<1>8. \A p \in 1..m : g[p] \in 1..n /\ t[g[p]] = s[g[p]]
  <2>1. \A p \in 1..m : g[p] \in P  BY <1>2
  <2>2. QED  BY <1>1, <2>1
<1>9. Sublist(t, P) = Sublist(s, P)  BY <1>2, <1>6, <1>8, SeqEqual
<1>10. Sublist(t, U) = Append(Sublist(s, P), a)
  <2>1. /\ Append(Sublist(s, P), a) \in Seq(V) /\ Len(Append(Sublist(s, P), a)) = m + 1
        /\ Append(Sublist(s, P), a)[m + 1] = a
        /\ \A p \in 1..m : Append(Sublist(s, P), a)[p] = Sublist(s, P)[p]
    BY <1>2
  <2>2. InOrder(U)[m + 1] = n + 1 /\ \A p \in 1..m : InOrder(U)[p] = g[p]  BY <1>2, <1>4
  <2>3. \A p \in 1..(m + 1) : p \in 1..m \/ p = m + 1  BY <1>2
  <2>4. \A p \in 1..(m + 1) : Sublist(t, U)[p] = Append(Sublist(s, P), a)[p]
    <3>1. ASSUME NEW p \in 1..m PROVE Sublist(t, U)[p] = Append(Sublist(s, P), a)[p]
      <4>1. p \in 1..(m + 1)  BY <1>2
      <4>2. Sublist(t, U)[p] = t[g[p]]  BY <1>7, <2>2, <4>1
      <4>3. QED  BY <1>2, <1>8, <2>1, <4>2
    <3>2. Sublist(t, U)[m + 1] = Append(Sublist(s, P), a)[m + 1]
      <4>1. m + 1 \in 1..(m + 1)  BY <1>2
      <4>2. QED  BY <1>1, <1>7, <2>1, <2>2, <4>1
    <3>3. QED  BY <2>3, <3>1, <3>2
  <2>5. QED  BY <1>7, <2>1, <2>4, SeqEqual
<1>11. QED  BY <1>9, <1>10 DEF t, U

(* The places and the last value of a key in such a list.                  *)
LEMMA PlacesAppend ==
  ASSUME NEW V, NEW s \in Seq(V), NEW a \in V, NEW k
  PROVE  /\ Places(s, k) \in SUBSET (1..Len(s))
         /\ IsFiniteSet(Places(s, k)) /\ Places(s, k) \subseteq Int
         /\ Places(Append(s, a), k) =
              IF k = Key(a) THEN Places(s, k) \union {Len(s) + 1} ELSE Places(s, k)
<1> DEFINE n == Len(s)
           t == Append(s, a)
<1>1. n \in Nat /\ DOMAIN s = 1..n /\ DOMAIN t = 1..(n + 1) /\ t[n + 1] = a
      /\ \A i \in 1..n : t[i] = s[i]
  OBVIOUS
<1> HIDE DEF t
<1>2. Places(s, k) = {i \in 1..n : Key(s[i]) = k}  BY <1>1 DEF Places
<1>3. Places(t, k) = {i \in 1..(n + 1) : Key(t[i]) = k}  BY <1>1 DEF Places
<1>4. \A i : i \in 1..(n + 1) <=> i \in 1..n \/ i = n + 1  BY <1>1
<1> HIDE DEF n
<1>5. \A i : i \in Places(t, k) <=> i \in Places(s, k) \/ (i = n + 1 /\ Key(a) = k)
  <2> TAKE i
  <2>1. CASE i \in 1..n
    <3>1. n + 1 \notin 1..n  BY <1>1
    <3>2. i # n + 1  BY <2>1, <3>1
    <3>3. QED  BY <1>1, <1>2, <1>3, <1>4, <2>1, <3>2
  <2>2. CASE i \notin 1..n  BY <1>1, <1>2, <1>3, <1>4, <2>2
  <2>3. QED  BY <2>1, <2>2
<1>6. Places(t, k) = IF k = Key(a) THEN Places(s, k) \union {n + 1} ELSE Places(s, k)
  BY <1>5
<1>7. Places(s, k) \in SUBSET (1..n)  BY <1>2
<1>8. IsFiniteSet(Places(s, k)) /\ Places(s, k) \subseteq Int
  <2>1. Places(s, k) \in SUBSET (1..Len(s))  BY <1>7 DEF n
  <2>2. QED  BY <2>1, SublistType
<1>9. QED  BY <1>6, <1>7, <1>8 DEF t, n

(* What one more attribute does to the last value of a key.                *)
LEMMA LastOfAppend ==
  ASSUME NEW V, NEW s \in Seq(V), NEW a \in V, NEW k
  PROVE  /\ k = Key(a) => LastOf(Append(s, a), k) = a
         /\ k # Key(a) /\ Has(s, k) => LastOf(Append(s, a), k) = LastOf(s, k)
         /\ Has(Append(s, a), k) <=> Has(s, k) \/ k = Key(a)
         /\ Has(s, k) => LastOf(s, k) \in ToSet(s) /\ LastOf(s, k) \in V
                         /\ Key(LastOf(s, k)) = k
<1> DEFINE n == Len(s)
           t == Append(s, a)
           P == Places(s, k)
<1>1. n \in Nat /\ DOMAIN s = 1..n /\ t[n + 1] = a /\ \A i \in 1..n : t[i] = s[i]
  OBVIOUS
<1> HIDE DEF t
<1>2. /\ P \in SUBSET (1..n) /\ IsFiniteSet(P) /\ P \subseteq Int
      /\ Places(t, k) = IF k = Key(a) THEN P \union {n + 1} ELSE P
  BY PlacesAppend DEF t
<1>3. ASSUME k = Key(a) PROVE LastOf(t, k) = a
  <2> DEFINE U == P \union {n + 1}
  <2>1. U \subseteq Int /\ n + 1 \in U /\ \A i \in U : i <= n + 1
    <3>1. \A i \in P : i \in 1..n  BY <1>2
    <3>2. \A i \in P : i <= n + 1  BY <1>1, <3>1
    <3>3. QED  BY <1>1, <1>2, <3>2
  <2> HIDE DEF U
  <2>2. Max(U) = n + 1  BY <2>1, MaxIs
  <2>3. Places(t, k) = U  BY <1>2, <1>3 DEF U
  <2>4. QED  BY <1>1, <2>2, <2>3 DEF LastOf
<1>4. ASSUME Has(s, k) PROVE Max(P) \in P
  BY <1>2, <1>4, Extremes DEF Has
<1>5. ASSUME k # Key(a), Has(s, k) PROVE LastOf(t, k) = LastOf(s, k)
  <2>1. Places(t, k) = P  BY <1>2, <1>5
  <2>2. Max(P) \in 1..n  BY <1>2, <1>4, <1>5
  <2>3. QED  BY <1>1, <2>1, <2>2 DEF LastOf
<1>6. Has(t, k) <=> Has(s, k) \/ k = Key(a)  BY <1>2 DEF Has
<1>7. ASSUME Has(s, k) PROVE LastOf(s, k) \in ToSet(s) /\ Key(LastOf(s, k)) = k
  <2>1. Max(P) \in P /\ Max(P) \in 1..n  BY <1>2, <1>4, <1>7
  <2>2. Key(s[Max(P)]) = k  BY <2>1 DEF Places
  <2>3. QED  BY <1>1, <2>1, <2>2 DEF LastOf, ToSet
<1>8. ToSet(s) \subseteq V  BY DEF ToSet
<1>9. QED  BY <1>3, <1>5, <1>6, <1>7, <1>8 DEF t

(* The keys of such a list.                                                *)
LEMMA KeysAppend ==
  ASSUME NEW V, NEW s \in Seq(V), NEW a \in V
  PROVE  /\ KeysOf(Append(s, a)) = KeysOf(s) \union {Key(a)}
         /\ \A k : k \in KeysOf(s) <=> Has(s, k)
         /\ FirstKeys(s) \in Seq(KeysOf(s)) /\ Len(FirstKeys(s)) <= Len(s)
         /\ ToSet(FirstKeys(s)) = KeysOf(s)
         /\ FirstKeys(Append(s, a)) =
              IF Has(s, Key(a)) THEN FirstKeys(s) ELSE Append(FirstKeys(s), Key(a))
<1> DEFINE n == Len(s)
           t == Append(s, a)
           F(q) == {i \in DOMAIN q : i = Min(Places(q, Key(q[i])))}
<1>1. /\ n \in Nat /\ DOMAIN s = 1..n /\ DOMAIN t = 1..(n + 1) /\ t[n + 1] = a
      /\ \A i \in 1..n : t[i] = s[i]
      /\ \A i \in 1..n : s[i] \in V
  OBVIOUS
<1>2. t \in Seq(V)  OBVIOUS
<1> HIDE DEF t
<1>3. \A i : i \in 1..(n + 1) <=> i \in 1..n \/ i = n + 1  BY <1>1
<1>4. n + 1 \notin 1..n  BY <1>1
<1>5. \A k : k \in KeysOf(s) <=> Has(s, k)  BY DEF KeysOf, Has, Places
<1>6. KeysOf(t) = KeysOf(s) \union {Key(a)}
  <2>1. ASSUME NEW k \in KeysOf(t) PROVE k \in KeysOf(s) \union {Key(a)}
    <3>1. PICK i \in 1..(n + 1) : k = Key(t[i])  BY <1>1 DEF KeysOf
    <3>2. CASE i \in 1..n  BY <1>1, <3>1, <3>2 DEF KeysOf
    <3>3. CASE i = n + 1  BY <1>1, <3>1, <3>3
    <3>4. QED  BY <1>3, <3>2, <3>3
  <2>2. ASSUME NEW k \in KeysOf(s) PROVE k \in KeysOf(t)
    <3>1. PICK i \in 1..n : k = Key(s[i])  BY <1>1 DEF KeysOf
    <3>2. i \in DOMAIN t /\ k = Key(t[i])  BY <1>1, <1>3, <3>1
    <3>3. QED  BY <3>2 DEF KeysOf
  <2>3. Key(a) \in KeysOf(t)
    <3>1. n + 1 \in DOMAIN t  BY <1>1, <1>3
    <3>2. QED  BY <1>1, <3>1 DEF KeysOf
  <2>4. QED  BY <2>1, <2>2, <2>3
<1>7. \A k : /\ Places(s, k) \in SUBSET (1..n)
            /\ IsFiniteSet(Places(s, k)) /\ Places(s, k) \subseteq Int
            /\ Places(t, k) = IF k = Key(a) THEN Places(s, k) \union {n + 1} ELSE Places(s, k)
  <2> TAKE k
  <2>1. QED  BY PlacesAppend DEF t
<1>8. \A k : Has(s, k) => Min(Places(s, k)) \in Places(s, k)
  <2> SUFFICES ASSUME NEW k, Has(s, k) PROVE Min(Places(s, k)) \in Places(s, k)  OBVIOUS
  <2> DEFINE P == Places(s, k)
  <2>1. IsFiniteSet(P) /\ P \subseteq Int /\ P # {}  BY <1>7 DEF Has
  <2> HIDE DEF P
  <2>2. Min(P) \in P  BY <2>1, Extremes
  <2>3. QED  BY <2>2 DEF P
<1>9. \A i \in 1..n : Has(s, Key(s[i]))  BY <1>1 DEF Has, Places
<1>10. ASSUME NEW k, Has(s, k) PROVE Min(Places(t, k)) = Min(Places(s, k))
  <2> DEFINE P == Places(s, k)
             m == Min(P)
  <2>1. IsFiniteSet(P) /\ P \subseteq Int /\ P # {}  BY <1>7, <1>10 DEF Has
  <2>2. m \in P /\ \A i \in P : m <= i
    <3> HIDE DEF P
    <3>1. QED  BY <2>1, Extremes
  <2>3. \A i \in P : i \in 1..n  BY <1>7
  <2>4. m <= n + 1 /\ n + 1 \in Int  BY <1>1, <2>2, <2>3
  <2> HIDE DEF P, m
  <2>5. Min(P \union {n + 1}) = m
    <3> DEFINE U == P \union {n + 1}
    <3>1. U \subseteq Int /\ m \in U /\ \A i \in U : m <= i  BY <2>1, <2>2, <2>4
    <3> HIDE DEF U
    <3>2. Min(U) = m  BY <3>1, MinIs
    <3>3. QED  BY <3>2 DEF U
  <2>6. QED  BY <1>7, <2>5 DEF P, m
<1>11. F(s) \in SUBSET (1..n)  BY <1>1
<1>12. \A i \in 1..n : i \in F(t) <=> i \in F(s)
  <2>1. SUFFICES ASSUME NEW i \in 1..n PROVE i \in F(t) <=> i \in F(s)  OBVIOUS
  <2>2. t[i] = s[i] /\ i \in DOMAIN t /\ i \in DOMAIN s  BY <1>1, <1>3
  <2>3. Min(Places(t, Key(s[i]))) = Min(Places(s, Key(s[i])))  BY <1>9, <1>10
  <2>4. QED  BY <2>2, <2>3
<1>13. n + 1 \in F(t) <=> ~ Has(s, Key(a))
  <2> DEFINE P == Places(s, Key(a))
  <2>1. n + 1 \in F(t) <=> n + 1 = Min(P \union {n + 1})  BY <1>1, <1>3, <1>7
  <2>2. CASE Has(s, Key(a))
    <3>1. Min(Places(t, Key(a))) \in 1..n  BY <1>7, <1>8, <1>10, <2>2
    <3>2. Places(t, Key(a)) = P \union {n + 1}  BY <1>7
    <3>3. QED  BY <1>4, <2>1, <2>2, <3>1, <3>2
  <2>3. CASE ~ Has(s, Key(a))
    <3>1. P \union {n + 1} = {n + 1}  BY <2>3 DEF Has
    <3> DEFINE U == {n + 1}
    <3>2. U \subseteq Int /\ n + 1 \in U /\ n + 1 \in Int /\ \A i \in U : n + 1 <= i  BY <1>1
    <3> HIDE DEF U
    <3>3. Min(U) = n + 1  BY <3>2, MinIs
    <3>4. QED  BY <2>1, <2>3, <3>1, <3>3 DEF U
  <2>4. QED  BY <2>2, <2>3
<1>14. F(t) = IF Has(s, Key(a)) THEN F(s) ELSE F(s) \union {n + 1}
  <2>1. F(t) \subseteq 1..(n + 1)  BY <1>1
  <2> HIDE DEF F
  <2>2. \A i : i \in F(t) <=> i \in F(s) \/ (i = n + 1 /\ ~ Has(s, Key(a)))
    <3> TAKE i
    <3>1. CASE i \in 1..n  BY <1>4, <1>12, <3>1
    <3>2. CASE i = n + 1  BY <1>4, <1>11, <1>13, <3>2
    <3>3. CASE i \notin 1..n /\ i # n + 1  BY <1>3, <1>11, <2>1, <3>3
    <3>4. QED  BY <3>1, <3>2, <3>3
  <2>3. QED  BY <2>2
<1>15. \A q : FirstKeys(q) = [p \in DOMAIN Sublist(q, F(q)) |-> Key(Sublist(q, F(q))[p])]
  BY DEF FirstKeys
<1> DEFINE firsts == Sublist(s, F(s))
           m == Cardinality(F(s))
<1>16. /\ IsFiniteSet(F(s)) /\ F(s) \subseteq Int /\ m \in Nat
       /\ firsts \in Seq(V) /\ Len(firsts) = m
       /\ InOrder(F(s)) \in Seq(F(s)) /\ Len(InOrder(F(s))) = m
       /\ \A p \in 1..m : firsts[p] = s[InOrder(F(s))[p]]
  <2> HIDE DEF F
  <2>1. QED  BY <1>11, SublistType
<1>17. /\ Sublist(t, F(s)) = firsts
       /\ Sublist(t, F(s) \union {n + 1}) = Append(firsts, a)
  <2> HIDE DEF F
  <2>1. QED  BY <1>11, SublistAppend DEF t
<1>18. FirstKeys(t) = IF Has(s, Key(a)) THEN FirstKeys(s) ELSE Append(FirstKeys(s), Key(a))
  <2> HIDE DEF F, firsts, m
  <2>1. CASE Has(s, Key(a))
    <3>1. F(t) = F(s)  BY <1>14, <2>1
    <3>2. Sublist(t, F(t)) = Sublist(s, F(s))  BY <1>17, <3>1 DEF firsts
    <3>3. QED  BY <1>15, <2>1, <3>2
  <2>2. CASE ~ Has(s, Key(a))
    <3>1. Sublist(t, F(t)) = Append(firsts, a)  BY <1>14, <1>17, <2>2
    <3>2. FirstKeys(s) = [p \in 1..m |-> Key(firsts[p])]
      <4>1. DOMAIN firsts = 1..m  BY <1>16
      <4>2. QED  BY <1>15, <4>1 DEF firsts
    <3>3. FirstKeys(t) = [p \in 1..(m + 1) |-> Key(Append(firsts, a)[p])]
      <4>1. DOMAIN Append(firsts, a) = 1..(m + 1)  BY <1>16
      <4>2. QED  BY <1>15, <3>1, <4>1
    <3>4. \A p \in 1..m : Append(firsts, a)[p] = firsts[p]  BY <1>16
    <3>5. Append(firsts, a)[m + 1] = a  BY <1>16
    <3> DEFINE K == {Key(b) : b \in V}
               fk == FirstKeys(s)
               ft == FirstKeys(t)
    <3>6. fk \in Seq(K) /\ Len(fk) = m /\ \A p \in 1..m : fk[p] = Key(firsts[p])
      <4>1. \A p \in 1..m : firsts[p] \in V  BY <1>16
      <4>2. \A p \in 1..m : Key(firsts[p]) \in K  BY <4>1
      <4> HIDE DEF K
      <4>3. QED  BY <1>16, <3>2, <4>2
    <3>7. Key(a) \in K  OBVIOUS
    <3> HIDE DEF K, fk, ft
    <3>8. /\ Append(fk, Key(a)) \in Seq(K) /\ Len(Append(fk, Key(a))) = m + 1
          /\ Append(fk, Key(a))[m + 1] = Key(a)
          /\ \A p \in 1..m : Append(fk, Key(a))[p] = Key(firsts[p])
      BY <3>6, <3>7
    <3>9. \A p \in 1..(m + 1) : p \in 1..m \/ p = m + 1  BY <1>16
    <3>10. \A p \in 1..(m + 1) : Key(Append(firsts, a)[p]) = Append(fk, Key(a))[p]
      BY <3>4, <3>5, <3>8, <3>9
    <3>11. ft = [p \in 1..(m + 1) |-> Append(fk, Key(a))[p]]
      BY <3>3, <3>10 DEF ft
    <3>12. ft = Append(fk, Key(a))
      <4> DEFINE u == Append(fk, Key(a))
      <4>1. u \in Seq(K) /\ Len(u) = m + 1  BY <3>8
      <4> HIDE DEF u
      <4>2. u = [p \in 1..(m + 1) |-> u[p]]  BY <4>1
      <4>3. QED  BY <3>11, <4>2 DEF u
    <3>13. QED  BY <2>2, <3>12 DEF fk, ft
  <2>3. QED  BY <2>1, <2>2
<1>19. /\ FirstKeys(s) = [p \in 1..m |-> Key(firsts[p])]
       /\ \A p \in 1..m : InOrder(F(s))[p] \in F(s) /\ firsts[p] = s[InOrder(F(s))[p]]
  <2> HIDE DEF F
  <2>1. DOMAIN firsts = 1..m  BY <1>16
  <2>2. QED  BY <1>15, <1>16, <2>1
<1>20. FirstKeys(s) \in Seq(KeysOf(s)) /\ Len(FirstKeys(s)) = m
       /\ \A p \in 1..m : FirstKeys(s)[p] = Key(firsts[p])
  <2> HIDE DEF F, firsts, m
  <2>1. \A p \in 1..m : InOrder(F(s))[p] \in DOMAIN s  BY <1>1, <1>11, <1>19
  <2>2. \A p \in 1..m : Key(firsts[p]) \in KeysOf(s)  BY <1>19, <2>1 DEF KeysOf
  <2>3. QED  BY <1>16, <1>19, <2>2
<1>21. m <= n
  <2>1. IsFiniteSet(1..n) /\ Cardinality(1..n) = n  BY <1>1, FS_Interval
  <2> DEFINE D == 1..n
  <2>2. F(s) \subseteq D /\ IsFiniteSet(D)  BY <1>11, <2>1
  <2> HIDE DEF F, D
  <2>3. Cardinality(F(s)) <= Cardinality(D)  BY <2>2, FS_Subset
  <2>4. QED  BY <2>1, <2>3 DEF D
<1>22. ASSUME NEW k \in KeysOf(s) PROVE k \in ToSet(FirstKeys(s))
  <2>1. Has(s, k)  BY <1>5
  <2> DEFINE i == Min(Places(s, k))
  <2>2. i \in Places(s, k) /\ i \in 1..n  BY <1>7, <1>8, <2>1
  <2>3. Key(s[i]) = k  BY <2>2 DEF Places
  <2>4. i \in F(s)  BY <1>1, <2>2, <2>3
  <2> HIDE DEF F, i
  <2>5. PICK p \in 1..m : InOrder(F(s))[p] = i  BY <1>16, <2>4, InOrderIs
  <2>6. FirstKeys(s)[p] = k  BY <1>19, <1>20, <2>3, <2>5
  <2>7. p \in DOMAIN FirstKeys(s)  BY <1>20, <2>5
  <2>8. QED  BY <2>6, <2>7 DEF ToSet
<1>23. ToSet(FirstKeys(s)) = KeysOf(s)
  <2> HIDE DEF F, firsts, m
  <2>1. ToSet(FirstKeys(s)) \subseteq KeysOf(s)  BY <1>20 DEF ToSet
  <2>2. QED  BY <1>22, <2>1
<1>24. QED  BY <1>5, <1>6, <1>18, <1>20, <1>21, <1>23 DEF t

(* The first keys of a list are its keys.                                  *)
LEMMA KeysAre ==
  ASSUME NEW V, NEW s \in Seq(V)
  PROVE  /\ \A k : k \in KeysOf(s) <=> Has(s, k)
         /\ FirstKeys(s) \in Seq(KeysOf(s)) /\ Len(FirstKeys(s)) <= Len(s)
         /\ ToSet(FirstKeys(s)) = KeysOf(s)
<1> DEFINE W == V \union {0}
<1>1. s \in Seq(W) /\ 0 \in W  OBVIOUS
<1> HIDE DEF W
<1>2. QED  BY <1>1, KeysAppend

-----------------------------------------------------------------------------
(* Lists that say the same.                                                *)

(* Both have the same keys in the order of their first places, each with   *)
(* the same last value; and a list has no key twice.                       *)
Same(s, t) ==
  /\ FirstKeys(s) = FirstKeys(t) /\ KeysOf(s) = KeysOf(t)
  /\ \A k \in KeysOf(s) : LastOf(s, k) = LastOf(t, k)

Once(s) == \A i, j \in DOMAIN s : Key(s[i]) = Key(s[j]) => i = j

(* Lists that say the same still do with one more attribute.               *)
LEMMA SameAppend ==
  ASSUME NEW V, NEW s \in Seq(V), NEW t \in Seq(V), Same(s, t), NEW a \in V
  PROVE  Same(Append(s, a), Append(t, a))
<1>1. \A k : Has(s, k) <=> Has(t, k)
  <2>1. \A k : k \in KeysOf(s) <=> Has(s, k)  BY KeysAre
  <2>2. \A k : k \in KeysOf(t) <=> Has(t, k)  BY KeysAre
  <2>3. QED  BY <2>1, <2>2 DEF Same
<1>2. FirstKeys(Append(s, a)) = FirstKeys(Append(t, a))
  <2>1. FirstKeys(Append(s, a)) =
          IF Has(s, Key(a)) THEN FirstKeys(s) ELSE Append(FirstKeys(s), Key(a))
    BY KeysAppend
  <2>2. FirstKeys(Append(t, a)) =
          IF Has(t, Key(a)) THEN FirstKeys(t) ELSE Append(FirstKeys(t), Key(a))
    BY KeysAppend
  <2>3. FirstKeys(s) = FirstKeys(t)  BY DEF Same
  <2>4. QED  BY <1>1, <2>1, <2>2, <2>3
<1>3. KeysOf(Append(s, a)) = KeysOf(s) \union {Key(a)}
      /\ KeysOf(Append(t, a)) = KeysOf(s) \union {Key(a)}
  BY KeysAppend DEF Same
<1>4. ASSUME NEW k \in KeysOf(s) \union {Key(a)}
      PROVE  LastOf(Append(s, a), k) = LastOf(Append(t, a), k)
  <2>1. CASE k = Key(a)  BY <2>1, LastOfAppend
  <2>2. CASE k # Key(a)
    <3>1. k \in KeysOf(s)  BY <2>2
    <3>2. Has(s, k) /\ Has(t, k)  BY <1>1, <3>1, KeysAppend
    <3>3. LastOf(Append(s, a), k) = LastOf(s, k) /\ LastOf(Append(t, a), k) = LastOf(t, k)
      BY <2>2, <3>2, LastOfAppend
    <3>4. QED  BY <3>1, <3>3 DEF Same
  <2>3. QED  BY <2>1, <2>2
<1>5. QED  BY <1>2, <1>3, <1>4 DEF Same

(* A list without repeated keys is what it says.                           *)
LEMMA OnceIs ==
  ASSUME NEW V, NEW s \in Seq(V), Once(s)
  PROVE  /\ Len(FirstKeys(s)) = Len(s)
         /\ \A i \in 1..Len(s) : FirstKeys(s)[i] = Key(s[i])
         /\ \A i \in 1..Len(s) : /\ Places(s, Key(s[i])) = {i}
                                /\ LastOf(s, Key(s[i])) = s[i]
<1> DEFINE n == Len(s)
           D == 1..n
<1>1. n \in Nat /\ DOMAIN s = D  OBVIOUS
<1>2. \A i \in D : Places(s, Key(s[i])) = {i}  BY <1>1 DEF Once, Places
<1>3. \A i \in D : Min({i}) = i /\ Max({i}) = i
  <2>1. SUFFICES ASSUME NEW i \in D PROVE Min({i}) = i /\ Max({i}) = i  OBVIOUS
  <2> DEFINE U == {i}
  <2>2. i \in U /\ U \subseteq Int /\ \A j \in U : j <= i /\ i <= j  BY <1>1
  <2> HIDE DEF U
  <2>3. Min(U) = i /\ Max(U) = i  BY <2>2, MinIs, MaxIs
  <2>4. QED  BY <2>3 DEF U
<1>4. {i \in DOMAIN s : i = Min(Places(s, Key(s[i])))} = D  BY <1>1, <1>2, <1>3
<1>5. InOrder(D) = [i \in D |-> i] /\ Cardinality(D) = n
  <2> DEFINE id == [i \in D |-> i]
  <2>1. IsFiniteSet(D) /\ D \subseteq Int /\ Cardinality(D) = n  BY <1>1, FS_Interval
  <2>2. id \in [1..n -> D] /\ Increasing(id, n) /\ \A x \in D : \E i \in 1..n : id[i] = x
    BY DEF Increasing
  <2> HIDE DEF id, D
  <2>3. id = InOrder(D)  BY <1>1, <2>1, <2>2, InOrderOnly
  <2>4. QED  BY <2>1, <2>3 DEF id
<1>6. DOMAIN InOrder(D) = D  BY <1>5
<1>7. Sublist(s, D) = [i \in D |-> s[i]]  BY <1>5, <1>6 DEF Sublist
<1>8. FirstKeys(s) = [i \in D |-> Key(s[i])]  BY <1>4, <1>7 DEF FirstKeys
<1>9. Len(FirstKeys(s)) = n
  <2>1. FirstKeys(s) \in Seq(KeysOf(s))  BY KeysAre
  <2>2. QED  BY <1>1, <1>8, <2>1
<1>10. \A i \in D : LastOf(s, Key(s[i])) = s[i]  BY <1>2, <1>3 DEF LastOf
<1>11. QED  BY <1>2, <1>8, <1>9, <1>10

(* Put says the same as Append, with each key once.                        *)
LEMMA PutSays ==
  ASSUME NEW V, NEW s \in Seq(V), NEW a \in V, Once(s)
  PROVE  /\ Put(s, a) \in Seq(V) /\ Once(Put(s, a))
         /\ Same(Put(s, a), Append(s, a))
<1> DEFINE n == Len(s)
           t == Put(s, a)
<1>1. n \in Nat /\ DOMAIN s = 1..n /\ \A i \in 1..n : s[i] \in V  OBVIOUS
<1>2. t \in Seq(V) /\ Len(t) = IF Has(s, Key(a)) THEN n ELSE n + 1  BY PutType
<1>3. CASE Has(s, Key(a))
  <2>1. PICK i \in 1..n : Key(s[i]) = Key(a)  BY <1>1, <1>3 DEF Has, Places
  <2>2. Places(s, Key(a)) = {i}  BY <2>1, OnceIs
  <2>3. Min({i}) = i
    <3> DEFINE U == {i}
    <3>1. i \in U /\ U \subseteq Int /\ \A j \in U : i <= j  BY <1>1
    <3> HIDE DEF U
    <3>2. Min(U) = i  BY <3>1, MinIs
    <3>3. QED  BY <3>2 DEF U
  <2>4. t = [s EXCEPT ![i] = a]  BY <1>3, <2>2, <2>3 DEF Put
  <2> HIDE DEF t
  <2>5. DOMAIN t = 1..n /\ t[i] = a /\ \A j \in 1..n : j # i => t[j] = s[j]
    BY <1>1, <2>1, <2>4
  <2>6. \A j \in 1..n : Key(t[j]) = Key(s[j])  BY <2>1, <2>5
  <2>7. Once(t)  BY <1>1, <2>5, <2>6 DEF Once
  <2>8. Len(t) = n  BY <1>2, <1>3 DEF t
  <2>9. FirstKeys(t) = FirstKeys(s)
    <3>1. /\ Len(FirstKeys(t)) = n /\ \A j \in 1..n : FirstKeys(t)[j] = Key(t[j])
          /\ Len(FirstKeys(s)) = n /\ \A j \in 1..n : FirstKeys(s)[j] = Key(s[j])
      <4>1. t \in Seq(V)  BY <1>2 DEF t
      <4>2. QED  BY <2>7, <2>8, <4>1, OnceIs
    <3>2. FirstKeys(s) \in Seq(KeysOf(s)) /\ FirstKeys(t) \in Seq(KeysOf(t))
      <4>1. t \in Seq(V)  BY <1>2 DEF t
      <4>2. QED  BY <4>1, KeysAre
    <3>3. KeysOf(s) = KeysOf(t)  BY <1>1, <2>5, <2>6 DEF KeysOf
    <3>4. QED  BY <2>6, <3>1, <3>2, <3>3, SeqEqual
  <2>10. KeysOf(t) = KeysOf(s)  BY <1>1, <2>5, <2>6 DEF KeysOf
  <2>11. KeysOf(Append(s, a)) = KeysOf(s) /\ FirstKeys(Append(s, a)) = FirstKeys(s)
    <3>1. Key(a) \in KeysOf(s)  BY <1>3, KeysAre
    <3>2. /\ KeysOf(Append(s, a)) = KeysOf(s) \union {Key(a)}
          /\ FirstKeys(Append(s, a)) =
               IF Has(s, Key(a)) THEN FirstKeys(s) ELSE Append(FirstKeys(s), Key(a))
      BY KeysAppend
    <3>3. QED  BY <1>3, <3>1, <3>2
  <2>12. ASSUME NEW k \in KeysOf(t) PROVE LastOf(t, k) = LastOf(Append(s, a), k)
    <3>1. PICK j \in 1..n : k = Key(t[j])  BY <2>5 DEF KeysOf
    <3>2. LastOf(t, k) = t[j]
      <4>1. t \in Seq(V)  BY <1>2 DEF t
      <4>2. QED  BY <2>7, <2>8, <3>1, <4>1, OnceIs
    <3>3. LastOf(s, k) = s[j]  BY <2>6, <3>1, OnceIs
    <3>4. CASE j = i
      <4>1. k = Key(a)  BY <2>5, <3>1, <3>4
      <4>2. LastOf(Append(s, a), k) = a  BY <4>1, LastOfAppend
      <4>3. QED  BY <2>5, <3>2, <3>4, <4>2
    <3>5. CASE j # i
      <4>1. k # Key(a)  BY <1>1, <2>1, <2>6, <3>1, <3>5 DEF Once
      <4>2. Has(s, k)  BY <2>10, KeysAre
      <4>3. LastOf(Append(s, a), k) = LastOf(s, k)  BY <4>1, <4>2, LastOfAppend
      <4>4. QED  BY <2>5, <3>2, <3>3, <3>5, <4>3
    <3>6. QED  BY <3>4, <3>5
  <2>13. Same(t, Append(s, a))  BY <2>9, <2>10, <2>11, <2>12 DEF Same
  <2>14. QED  BY <1>2, <2>7, <2>13 DEF t
<1>4. CASE ~ Has(s, Key(a))
  <2>1. t = Append(s, a)  BY <1>4 DEF Put
  <2>2. DOMAIN t = 1..(n + 1) /\ t[n + 1] = a /\ \A i \in 1..n : t[i] = s[i]  BY <2>1
  <2> HIDE DEF t
  <2>3. \A i \in 1..n : Key(s[i]) # Key(a)  BY <1>1, <1>4 DEF Has, Places
  <2>4. \A i \in 1..(n + 1) : i \in 1..n \/ i = n + 1  BY <1>1
  <2>5. Once(t)  BY <1>1, <2>2, <2>3, <2>4 DEF Once
  <2>6. Same(t, Append(s, a))  BY <2>1 DEF Same
  <2>7. QED  BY <1>2, <2>5, <2>6 DEF t
<1>5. QED  BY <1>3, <1>4

(* And what says the same as one of them says the same as the other.       *)
LEMMA SameIsTransitive ==
  ASSUME NEW r, NEW s, NEW t, Same(r, s), Same(s, t)
  PROVE  Same(r, t)
BY DEF Same

(* Deduped says the same as the list, with each key once.                  *)
LEMMA DedupedSays ==
  ASSUME NEW V, NEW s \in Seq(V)
  PROVE  Deduped(s) \in Seq(V) /\ Once(Deduped(s)) /\ Same(Deduped(s), s)
<1> DEFINE n == Len(s)
           pre(i) == SubSeq(s, 1, i)
<1>1. n \in Nat /\ \A i \in 1..n : s[i] \in V  OBVIOUS
<1>2. PICK d \in [0..n -> Seq(V)] : Puts(s, d, n) /\ Deduped(s) = d[n]  BY DedupedPuts
<1> DEFINE T == {i \in Nat : i <= n => Once(d[i]) /\ Same(d[i], pre(i))}
<1>3. 0 \in T
  <2>1. d[0] = <<>> /\ pre(0) = <<>>  BY <1>2 DEF Puts
  <2>2. Once(d[0])  BY <2>1 DEF Once
  <2>3. Same(d[0], pre(0))  BY <2>1 DEF Same
  <2>4. QED  BY <2>2, <2>3
<1>4. ASSUME NEW i \in Nat, i \in T PROVE i + 1 \in T
  <2> SUFFICES ASSUME i + 1 <= n PROVE Once(d[i + 1]) /\ Same(d[i + 1], pre(i + 1))
    OBVIOUS
  <2>1. i + 1 \in 1..n /\ (i + 1) - 1 = i /\ i \in 0..n /\ i <= n  BY <1>1
  <2>2. d[i] \in Seq(V) /\ Once(d[i]) /\ Same(d[i], pre(i))  BY <1>4, <2>1
  <2>3. d[i + 1] = Put(d[i], s[i + 1]) /\ s[i + 1] \in V  BY <1>1, <1>2, <2>1 DEF Puts
  <2>4. pre(i) \in Seq(V) /\ pre(i + 1) = Append(pre(i), s[i + 1])
    <3>1. /\ pre(i) \in Seq(V) /\ Len(pre(i)) = i /\ \A j \in 1..i : pre(i)[j] = s[j]
          /\ pre(i + 1) \in Seq(V) /\ Len(pre(i + 1)) = i + 1
          /\ \A j \in 1..(i + 1) : pre(i + 1)[j] = s[j]
      BY <1>1, <2>1
    <3> HIDE DEF pre
    <3>2. /\ Append(pre(i), s[i + 1]) \in Seq(V) /\ Len(Append(pre(i), s[i + 1])) = i + 1
          /\ Append(pre(i), s[i + 1])[i + 1] = s[i + 1]
          /\ \A j \in 1..i : Append(pre(i), s[i + 1])[j] = s[j]
      BY <2>3, <3>1
    <3>3. \A j \in 1..(i + 1) : j \in 1..i \/ j = i + 1  OBVIOUS
    <3>4. QED  BY <3>1, <3>2, <3>3, SeqEqual
  <2> HIDE DEF pre
  <2>5. Once(d[i + 1]) /\ Same(d[i + 1], Append(d[i], s[i + 1]))
    BY <2>2, <2>3, PutSays
  <2>6. Same(Append(d[i], s[i + 1]), pre(i + 1))  BY <2>2, <2>3, <2>4, SameAppend
  <2>7. QED  BY <2>5, <2>6, SameIsTransitive
<1>5. n \in T
  <2> HIDE DEF T
  <2>1. QED  BY <1>1, <1>3, <1>4, SetInduction
<1>6. pre(n) = s
  <2>1. /\ pre(n) \in Seq(V) /\ Len(pre(n)) = n /\ \A j \in 1..n : pre(n)[j] = s[j]
    BY <1>1
  <2> HIDE DEF pre
  <2>2. QED  BY <2>1, SeqEqual
<1>7. n \in 0..n /\ n <= n  BY <1>1
<1>8. QED  BY <1>2, <1>5, <1>6, <1>7

(* So lists that say the same are the same without the repetitions.        *)
LEMMA SameOnce ==
  ASSUME NEW V, NEW s \in Seq(V), NEW t \in Seq(V), Once(s), Same(s, t)
  PROVE  /\ Len(s) = Len(FirstKeys(t))
         /\ s = [i \in DOMAIN FirstKeys(t) |-> LastOf(t, FirstKeys(t)[i])]
<1> DEFINE n == Len(s)
<1>1. n \in Nat /\ s = [i \in 1..n |-> s[i]] /\ DOMAIN s = 1..n  OBVIOUS
<1>2. /\ Len(FirstKeys(s)) = n
      /\ \A i \in 1..n : FirstKeys(s)[i] = Key(s[i]) /\ LastOf(s, Key(s[i])) = s[i]
  BY OnceIs
<1>3. FirstKeys(t) = FirstKeys(s) /\ FirstKeys(s) \in Seq(KeysOf(s))
  BY KeysAre DEF Same
<1>4. DOMAIN FirstKeys(t) = 1..n  BY <1>2, <1>3
<1>5. \A i \in 1..n : Key(s[i]) \in KeysOf(s)  BY <1>1 DEF KeysOf
<1>6. \A i \in 1..n : s[i] = LastOf(t, FirstKeys(t)[i])  BY <1>2, <1>3, <1>5 DEF Same
<1>7. QED  BY <1>1, <1>2, <1>3, <1>4, <1>6

-----------------------------------------------------------------------------
(* Spans: what is kept of the attributes set.                              *)

(* The first n of a list: all of it if n is no limit or not reached.       *)
LEMMA UpToAll ==
  ASSUME NEW V, NEW s \in Seq(V), NEW n \in Int, n < 0 \/ Len(s) <= n
  PROVE  UpTo(n, s) = s
<1>1. CASE n < 0  BY <1>1 DEF UpTo
<1>2. CASE n >= 0 /\ Len(s) <= n
  <2> DEFINE m == Len(s)
  <2>1. m \in Nat  OBVIOUS
  <2> HIDE DEF m
  <2>2. m <= n  BY <1>2 DEF m
  <2>3. Min({n, m}) = m  BY <2>1, <2>2, MinOfTwo
  <2>6. ~ (n < 0)  BY <1>2
  <2>4. UpTo(n, s) = SubSeq(s, 1, m)  BY <2>3, <2>6, Zenon DEF UpTo, m
  <2>5. QED  BY <2>4, WholePrefix DEF m
<1>3. QED  BY <1>1, <1>2

(* Once n is reached, one more element changes nothing.                    *)
LEMMA UpToFull ==
  ASSUME NEW V, NEW s \in Seq(V), NEW n \in Nat, n <= Len(s)
  PROVE  /\ UpTo(n, s) = SubSeq(s, 1, n)
         /\ UpTo(n, s) \in Seq(V) /\ Len(UpTo(n, s)) = n
         /\ \A i \in 1..n : UpTo(n, s)[i] = s[i]
         /\ \A x \in V : UpTo(n, Append(s, x)) = UpTo(n, s)
<1>1. ASSUME NEW t \in Seq(V), n <= Len(t)
      PROVE  /\ UpTo(n, t) = SubSeq(t, 1, n)
             /\ SubSeq(t, 1, n) \in Seq(V) /\ Len(SubSeq(t, 1, n)) = n
             /\ \A i \in 1..n : SubSeq(t, 1, n)[i] = t[i]
  <2> DEFINE m == Len(t)
  <2>1. m \in Nat  OBVIOUS
  <2> HIDE DEF m
  <2>2. n <= m  BY <1>1 DEF m
  <2>3. Min({n, m}) = n  BY <2>1, <2>2, MinOfTwo
  <2>9. ~ (n < 0)  OBVIOUS
  <2>4. UpTo(n, t) = SubSeq(t, 1, n)  BY <2>3, <2>9, Zenon DEF UpTo, m
  <2>5. \A i \in 1..n : i \in 1..m  BY <2>1, <2>2
  <2>6. \A i \in 1..n : t[i] \in V  BY <2>5 DEF m
  <2>7. /\ SubSeq(t, 1, n) \in Seq(V) /\ Len(SubSeq(t, 1, n)) = IF 1 <= n THEN n - 1 + 1 ELSE 0
        /\ \A i \in 1..(n - 1 + 1) : SubSeq(t, 1, n)[i] = t[1 + i - 1]
    BY <2>6, SubSeqProperties
  <2>8. QED  BY <2>4, <2>7
<1>2. ASSUME NEW x \in V PROVE UpTo(n, Append(s, x)) = UpTo(n, s)
  <2> DEFINE t == Append(s, x)
  <2>1. t \in Seq(V) /\ n <= Len(t) /\ \A i \in 1..Len(s) : t[i] = s[i]  OBVIOUS
  <2> HIDE DEF t
  <2>2. /\ UpTo(n, t) \in Seq(V) /\ Len(UpTo(n, t)) = n
        /\ \A i \in 1..n : UpTo(n, t)[i] = t[i]
    BY <1>1, <2>1
  <2>3. /\ UpTo(n, s) \in Seq(V) /\ Len(UpTo(n, s)) = n
        /\ \A i \in 1..n : UpTo(n, s)[i] = s[i]
    BY <1>1
  <2>4. \A i \in 1..n : i \in 1..Len(s)  OBVIOUS
  <2>5. \A i \in 1..n : UpTo(n, t)[i] = UpTo(n, s)[i]  BY <2>1, <2>2, <2>3, <2>4
  <2>6. UpTo(n, t) = UpTo(n, s)  BY <2>2, <2>3, <2>5, SeqEqual
  <2>7. QED  BY <2>6 DEF t
<1>3. QED  BY <1>1, <1>2

(* The valid ones of a list, and the keys that are kept of it.             *)
ValidOf(list) == Sublist(list, {i \in DOMAIN list : list[i] # Invalid})
KeptOf(list, n) == UpTo(n, FirstKeys(ValidOf(list)))
LostOf(list, n) ==
  {i \in DOMAIN list : list[i] = Invalid \/ Key(list[i]) \notin ToSet(KeptOf(list, n))}

(* What one more attribute does to the valid ones.                         *)
LEMMA ValidAppend ==
  ASSUME NEW V, NEW s \in Seq(V), NEW a \in V
  PROVE  /\ ValidOf(s) \in Seq(V \ {Invalid})
         /\ ValidOf(Append(s, a)) = IF a = Invalid THEN ValidOf(s) ELSE Append(ValidOf(s), a)
         /\ \A i \in DOMAIN s : s[i] # Invalid => Key(s[i]) \in KeysOf(ValidOf(s))
<1> DEFINE n == Len(s)
           t == Append(s, a)
           P(q) == {i \in DOMAIN q : q[i] # Invalid}
<1>1. /\ n \in Nat /\ DOMAIN s = 1..n /\ DOMAIN t = 1..(n + 1) /\ t[n + 1] = a
      /\ \A i \in 1..n : t[i] = s[i]
  OBVIOUS
<1> HIDE DEF t
<1>2. \A i : i \in 1..(n + 1) <=> i \in 1..n \/ i = n + 1  BY <1>1
<1>3. n + 1 \notin 1..n  BY <1>1
<1>4. P(t) = IF a = Invalid THEN P(s) ELSE P(s) \union {n + 1}
  <2>1. \A i : i \in P(t) <=> i \in P(s) \/ (i = n + 1 /\ a # Invalid)
    BY <1>1, <1>2, <1>3
  <2>2. QED  BY <2>1
<1>5. P(s) \in SUBSET (1..n)  BY <1>1
<1>6. \A q : ValidOf(q) = Sublist(q, P(q))  BY DEF ValidOf
<1>7. \A i \in P(s) : s[i] # Invalid /\ s[i] \in V  OBVIOUS
<1> DEFINE Q == P(s)
           m == Cardinality(Q)
<1>8. /\ IsFiniteSet(Q) /\ Q \subseteq Int
      /\ Sublist(s, Q) \in Seq(V) /\ Len(Sublist(s, Q)) = m
      /\ InOrder(Q) \in Seq(Q) /\ Len(InOrder(Q)) = m /\ m \in Nat
      /\ \A p \in 1..m : Sublist(s, Q)[p] = s[InOrder(Q)[p]]
  <2> HIDE DEF P
  <2>1. QED  BY <1>5, SublistType
<1>9. /\ Sublist(t, Q) = Sublist(s, Q)
      /\ Sublist(t, Q \union {n + 1}) = Append(Sublist(s, Q), a)
  <2> HIDE DEF P
  <2>1. QED  BY <1>5, SublistAppend DEF t
<1>10. ValidOf(t) = IF a = Invalid THEN ValidOf(s) ELSE Append(ValidOf(s), a)
  <2> HIDE DEF P
  <2>1. QED  BY <1>4, <1>6, <1>9
<1>11. ValidOf(s) \in Seq(V \ {Invalid})
  <2>1. \A p \in 1..m : InOrder(Q)[p] \in Q  BY <1>8
  <2>2. \A i \in Q : s[i] \in V \ {Invalid}  BY <1>7
  <2> HIDE DEF P, Q, m
  <2>3. \A p \in 1..m : Sublist(s, Q)[p] \in V \ {Invalid}  BY <1>8, <2>1, <2>2
  <2>4. Sublist(s, Q) \in Seq(V \ {Invalid})
    <3> DEFINE r == Sublist(s, Q)
               W == V \ {Invalid}
    <3>1. r \in Seq(V) /\ Len(r) = m /\ \A p \in 1..m : r[p] \in W  BY <1>8, <2>3
    <3> HIDE DEF r, W
    <3>2. r = [p \in 1..m |-> r[p]]  BY <3>1
    <3>5. m \in Nat  BY <1>8
    <3>3. r \in Seq(W)  BY <3>1, <3>2, <3>5
    <3>4. QED  BY <3>3 DEF r, W
  <2>5. QED  BY <1>6, <2>4 DEF Q
<1>12. ASSUME NEW i \in DOMAIN s, s[i] # Invalid PROVE Key(s[i]) \in KeysOf(ValidOf(s))
  <2>1. i \in Q  BY <1>12
  <2> HIDE DEF P, Q, m
  <2>2. PICK p \in 1..m : InOrder(Q)[p] = i  BY <1>8, <2>1, InOrderIs DEF m
  <2>3. Sublist(s, Q)[p] = s[i] /\ p \in DOMAIN Sublist(s, Q)  BY <1>8, <2>2
  <2>4. ValidOf(s) = Sublist(s, Q)  BY <1>6 DEF Q
  <2>5. QED  BY <2>3, <2>4 DEF KeysOf
<1>13. QED  BY <1>10, <1>11, <1>12 DEF t

(* The keys that are kept are keys of the list, at most the limit.         *)
LEMMA KeptIs ==
  ASSUME NEW V, NEW s \in Seq(V), NEW n \in Int
  PROVE  /\ KeptOf(s, n) \in Seq(KeysOf(ValidOf(s)))
         /\ ToSet(KeptOf(s, n)) \subseteq KeysOf(ValidOf(s))
         /\ n >= 0 => Len(KeptOf(s, n)) <= n
<1> DEFINE W == V \union {0}
           K == KeysOf(ValidOf(s))
           f == FirstKeys(ValidOf(s))
           u == UpTo(n, f)
<1>1. s \in Seq(W) /\ 0 \in W  OBVIOUS
<1>2. ValidOf(s) \in Seq(W \ {Invalid})
  <2> HIDE DEF W
  <2>1. QED  BY <1>1, ValidAppend
<1>3. f \in Seq(K)  BY <1>2, KeysAre
<1>4. KeptOf(s, n) = u  BY DEF KeptOf
<1> HIDE DEF K, f
<1>5. u \in Seq(K) /\ (n >= 0 => Len(u) <= n)
  <2>1. CASE n < 0 \/ Len(f) <= n
    <3>1. u = f  BY <1>3, <2>1, UpToAll
    <3>2. QED  BY <1>3, <2>1, <3>1
  <2>2. CASE n \in Nat /\ n <= Len(f)
    <3>1. u \in Seq(K) /\ Len(u) = n  BY <1>3, <2>2, UpToFull
    <3>2. QED  BY <2>2, <3>1
  <2>3. Len(f) \in Nat  BY <1>3
  <2>4. QED  BY <2>1, <2>2, <2>3
<1> HIDE DEF u
<1>6. ToSet(u) \subseteq K  BY <1>5 DEF ToSet
<1>7. QED  BY <1>4, <1>5, <1>6 DEF K

(* What one more attribute does to them.                                   *)
LEMMA KeptAppend ==
  ASSUME NEW V, NEW s \in Seq(V), NEW a \in V, NEW n \in Int
  PROVE  /\ a = Invalid => KeptOf(Append(s, a), n) = KeptOf(s, n)
         /\ a # Invalid /\ n >= 0 /\ Len(KeptOf(s, n)) >= n =>
              KeptOf(Append(s, a), n) = KeptOf(s, n)
         /\ a # Invalid /\ (n < 0 \/ Len(KeptOf(s, n)) < n) =>
              /\ ToSet(KeptOf(s, n)) = KeysOf(ValidOf(s))
              /\ KeptOf(Append(s, a), n) = IF Key(a) \in KeysOf(ValidOf(s)) THEN KeptOf(s, n)
                                            ELSE Append(KeptOf(s, n), Key(a))
<1> DEFINE v == ValidOf(s)
           k == Key(a)
           K == KeysOf(v) \union {k}
           f == FirstKeys(v)
           g == IF k \in KeysOf(v) THEN f ELSE Append(f, k)
<1>1. CASE a = Invalid  BY <1>1, ValidAppend DEF KeptOf
<1>2. CASE a # Invalid
  <2>1. v \in Seq(V \ {Invalid}) /\ ValidOf(Append(s, a)) = Append(v, a)  BY <1>2, ValidAppend
  <2>2. a \in V \ {Invalid}  BY <1>2
  <2>3. /\ \A x : x \in KeysOf(v) <=> Has(v, x)
        /\ f \in Seq(KeysOf(v)) /\ ToSet(f) = KeysOf(v)
        /\ FirstKeys(Append(v, a)) = IF Has(v, k) THEN f ELSE Append(f, k)
    <3> DEFINE W == V \ {Invalid}
    <3> HIDE DEF W, v
    <3>1. v \in Seq(W) /\ a \in W  BY <2>1, <2>2 DEF W
    <3>2. QED  BY <3>1, KeysAppend
  <2>4. FirstKeys(Append(v, a)) = g  BY <2>3
  <2>5. KeptOf(Append(s, a), n) = UpTo(n, g) /\ KeptOf(s, n) = UpTo(n, f)
    BY <2>1, <2>4 DEF KeptOf
  <2>6. f \in Seq(K) /\ k \in K  BY <2>3
  <2>7. Len(f) \in Nat /\ g \in Seq(K) /\ Len(g) = IF k \in KeysOf(v) THEN Len(f) ELSE Len(f) + 1
    <3> HIDE DEF f, k, K
    <3>1. Len(f) \in Nat /\ Append(f, k) \in Seq(K) /\ Len(Append(f, k)) = Len(f) + 1
      BY <2>6
    <3>2. QED  BY <2>6, <3>1
  <2> HIDE DEF f, k, K, g, v
  <2>8. CASE n >= 0 /\ n <= Len(f)
    <3>1. Len(UpTo(n, f)) = n /\ UpTo(n, Append(f, k)) = UpTo(n, f)
      BY <2>6, <2>8, UpToFull
    <3>2. UpTo(n, g) = UpTo(n, f)  BY <3>1 DEF g
    <3>3. QED  BY <1>2, <2>5, <2>8, <3>1, <3>2
  <2>9. CASE n < 0 \/ Len(f) < n
    <3>1. UpTo(n, f) = f
      <4>1. n < 0 \/ Len(f) <= n  BY <2>7, <2>9
      <4>2. QED  BY <2>6, <4>1, UpToAll
    <3>2. UpTo(n, g) = g
      <4>1. n < 0 \/ Len(g) <= n  BY <2>7, <2>9
      <4>2. QED  BY <2>7, <4>1, UpToAll
    <3>3. n >= 0 => Len(f) < n  BY <2>9
    <3>4. KeptOf(s, n) = f /\ KeptOf(Append(s, a), n) = g  BY <2>5, <3>1, <3>2
    <3>5. ~ (n >= 0 /\ Len(KeptOf(s, n)) >= n)  BY <2>7, <3>3, <3>4
    <3>6. ToSet(KeptOf(s, n)) = KeysOf(v)  BY <2>3, <3>4
    <3>7. QED  BY <1>2, <3>4, <3>5, <3>6 DEF g, v, k
  <2>10. QED  BY <2>7, <2>8, <2>9
<1>3. QED  BY <1>1, <1>2

(* What one more attribute does to those that are lost.                    *)
LEMMA LostAppend ==
  ASSUME NEW V, NEW s \in Seq(V), NEW a \in V, NEW n \in Int
  PROVE  /\ Cardinality(LostOf(s, n)) \in Nat
         /\ ToSet(KeptOf(Append(s, a), n)) = ToSet(KeptOf(s, n)) =>
              Cardinality(LostOf(Append(s, a), n)) =
                IF a = Invalid \/ Key(a) \notin ToSet(KeptOf(s, n))
                  THEN Cardinality(LostOf(s, n)) + 1 ELSE Cardinality(LostOf(s, n))
         /\ a # Invalid /\ Key(a) \notin KeysOf(ValidOf(s))
            /\ ToSet(KeptOf(Append(s, a), n)) = ToSet(KeptOf(s, n)) \union {Key(a)} =>
              Cardinality(LostOf(Append(s, a), n)) = Cardinality(LostOf(s, n))
<1> DEFINE m == Len(s)
           t == Append(s, a)
           J == ToSet(KeptOf(s, n))
           K == ToSet(KeptOf(t, n))
           L == LostOf(s, n)
<1>1. /\ m \in Nat /\ DOMAIN s = 1..m /\ DOMAIN t = 1..(m + 1) /\ t[m + 1] = a
      /\ \A i \in 1..m : t[i] = s[i]
  OBVIOUS
<1>2. LostOf(t, n) = {i \in DOMAIN t : t[i] = Invalid \/ Key(t[i]) \notin K}  BY DEF LostOf
<1>3. L = {i \in DOMAIN s : s[i] = Invalid \/ Key(s[i]) \notin J}  BY DEF LostOf
<1>4. \A i \in DOMAIN s : s[i] # Invalid => Key(s[i]) \in KeysOf(ValidOf(s))  BY ValidAppend
<1> HIDE DEF t, J, K, L
<1>5. \A i : i \in 1..(m + 1) <=> i \in 1..m \/ i = m + 1  BY <1>1
<1>6. m + 1 \notin 1..m  BY <1>1
<1>7. IsFiniteSet(L) /\ Cardinality(L) \in Nat /\ m + 1 \notin L
  <2> DEFINE D == 1..m
  <2>1. L \subseteq D  BY <1>1, <1>3
  <2>4. m \in Nat  BY <1>1
  <2>5. IsFiniteSet(D)  BY <2>4, FS_Interval
  <2> HIDE DEF D
  <2>2. IsFiniteSet(L)  BY <2>1, <2>5, FS_Subset
  <2>3. QED  BY <1>1, <1>3, <1>6, <2>2, FS_CardinalityType
<1>8. Cardinality(L \union {m + 1}) = Cardinality(L) + 1  BY <1>7, FS_AddElement
<1>9. ASSUME K = J, a = Invalid \/ Key(a) \notin J PROVE LostOf(t, n) = L \union {m + 1}
  BY <1>1, <1>2, <1>3, <1>5, <1>6, <1>9
<1>10. ASSUME K = J, a # Invalid, Key(a) \in J PROVE LostOf(t, n) = L
  BY <1>1, <1>2, <1>3, <1>5, <1>6, <1>10
<1>11. ASSUME a # Invalid, Key(a) \notin KeysOf(ValidOf(s)), K = J \union {Key(a)}
       PROVE  LostOf(t, n) = L
  <2>1. \A i \in DOMAIN s : s[i] # Invalid => Key(s[i]) # Key(a)  BY <1>4, <1>11
  <2>2. \A i \in 1..m : i \in LostOf(t, n) <=> i \in L
    BY <1>1, <1>2, <1>3, <1>5, <1>11, <2>1
  <2>3. m + 1 \notin LostOf(t, n)  BY <1>1, <1>2, <1>11
  <2>4. \A i \in LostOf(t, n) : i \in 1..m  BY <1>1, <1>2, <1>5, <2>3
  <2>5. \A i \in L : i \in 1..m  BY <1>1, <1>3
  <2>6. QED  BY <2>2, <2>4, <2>5
<1>12. QED  BY <1>7, <1>8, <1>9, <1>10, <1>11 DEF t, J, K, L

-----------------------------------------------------------------------------
(* The attributes of a span stand for a list with limit n: they have the   *)
(* keys that are kept, each with its last value normalized, and the others *)
(* are counted.                                                            *)
Normals(V) == {Normal(a) : a \in V}

Stands(V, n, list, s, d) ==
  /\ s \in Seq(Normals(V))
  /\ FirstKeys(s) = KeptOf(list, n)
  /\ \A k \in KeysOf(s) : LastOf(s, k) = Normal(LastOf(ValidOf(list), k))
  /\ d = Cardinality(LostOf(list, n))
  /\ n >= 0 => Len(s) <= n

(* No attributes stand for no list.                                        *)
LEMMA NoneStand ==
  ASSUME NEW V, NEW n \in Int
  PROVE  Stands(V, n, <<>>, <<>>, 0)
<1> DEFINE W == V \union {0}
<1>1. <<>> \in Seq(W) /\ <<>> \in Seq(W \ {Invalid}) /\ 0 \in W  OBVIOUS
<1>2. {i \in DOMAIN <<>> : <<>>[i] # Invalid} = {}  OBVIOUS
<1>3. Cardinality({}) = 0  BY FS_EmptySet
<1>4. ValidOf(<<>>) \in Seq(W) /\ Len(ValidOf(<<>>)) = 0
  <2>1. {} \in SUBSET (1..Len(<<>>))  OBVIOUS
  <2> HIDE DEF W
  <2>2. Sublist(<<>>, {}) \in Seq(W) /\ Len(Sublist(<<>>, {})) = Cardinality({})
    BY <1>1, <2>1, SublistType
  <2>3. QED  BY <1>2, <1>3, <2>2 DEF ValidOf
<1>5. ValidOf(<<>>) = <<>>  BY <1>4
<1>6. KeysOf(<<>>) = {}  BY DEF KeysOf
<1>7. FirstKeys(<<>>) = <<>>
  <2> HIDE DEF W
  <2>1. FirstKeys(<<>>) \in Seq({}) /\ Len(FirstKeys(<<>>)) <= 0  BY <1>1, <1>6, KeysAre
  <2>2. QED  BY <2>1
<1>8. KeptOf(<<>>, n) = <<>>
  <2>1. KeptOf(<<>>, n) \in Seq({})  BY <1>1, <1>5, <1>6, KeptIs
  <2>2. QED  BY <2>1
<1>9. LostOf(<<>>, n) = {}  BY DEF LostOf
<1>10. <<>> \in Seq(Normals(V)) /\ Len(<<>>) = 0  OBVIOUS
<1>11. QED  BY <1>3, <1>6, <1>7, <1>8, <1>9, <1>10 DEF Stands

(* Attributes that say the same stand for the same.                        *)
LEMMA SameStand ==
  ASSUME NEW V, NEW n \in Int, NEW list, NEW s, NEW d, Stands(V, n, list, s, d),
         NEW t \in Seq(Normals(V)), Same(t, s), n >= 0 => Len(t) <= n
  PROVE  Stands(V, n, list, t, d)
<1>1. FirstKeys(t) = FirstKeys(s)  BY DEF Same
<1>2. \A k \in KeysOf(t) : k \in KeysOf(s) /\ LastOf(t, k) = LastOf(s, k)  BY DEF Same
<1>3. QED  BY <1>1, <1>2, Zenon DEF Stands

(* One that is not valid is counted.                                       *)
LEMMA InvalidStand ==
  ASSUME NEW V, NEW n \in Int, NEW list \in Seq(V), NEW s, NEW d,
         Stands(V, n, list, s, d), Invalid \in V
  PROVE  Stands(V, n, Append(list, Invalid), s, d + 1)
<1> DEFINE next == Append(list, Invalid)
<1>1. KeptOf(next, n) = KeptOf(list, n)  BY KeptAppend
<1>2. ValidOf(next) = ValidOf(list)  BY ValidAppend
<1>3. Cardinality(LostOf(next, n)) = Cardinality(LostOf(list, n)) + 1  BY <1>1, LostAppend
<1> HIDE DEF next
<1>4. Stands(V, n, next, s, d + 1)  BY <1>1, <1>2, <1>3 DEF Stands
<1>5. QED  BY <1>4 DEF next

(* So is one with a new key when there is no room for it.                  *)
LEMMA FullStand ==
  ASSUME NEW V, NEW n \in Nat, NEW list \in Seq(V), NEW s, NEW d,
         Stands(V, n, list, s, d), Once(s), Len(s) >= n,
         NEW a \in V, a # Invalid, ~ Has(s, Key(a))
  PROVE  Stands(V, n, Append(list, a), s, d + 1)
<1> DEFINE next == Append(list, a)
<1>1. s \in Seq(Normals(V)) /\ FirstKeys(s) = KeptOf(list, n)  BY DEF Stands
<1>2. Len(FirstKeys(s)) = Len(s)  BY <1>1, OnceIs
<1>3. KeptOf(next, n) = KeptOf(list, n)  BY <1>1, <1>2, KeptAppend
<1>4. ValidOf(next) = Append(ValidOf(list), a) /\ ValidOf(list) \in Seq(V \ {Invalid})
  BY ValidAppend
<1>5. /\ \A k : k \in KeysOf(s) <=> Has(s, k)
      /\ ToSet(FirstKeys(s)) = KeysOf(s)
  BY <1>1, KeysAre
<1>6. ToSet(KeptOf(list, n)) \subseteq KeysOf(ValidOf(list))  BY KeptIs
<1>7. ASSUME NEW k \in KeysOf(s) PROVE LastOf(ValidOf(next), k) = LastOf(ValidOf(list), k)
  <2>1. k # Key(a)  BY <1>5
  <2>2. k \in KeysOf(ValidOf(list))  BY <1>1, <1>5, <1>6
  <2> DEFINE v == ValidOf(list)
             W == V \ {Invalid}
  <2>3. v \in Seq(W) /\ a \in W  BY <1>4
  <2> HIDE DEF v, W
  <2>4. Has(v, k)  BY <2>2, <2>3, KeysAre DEF v
  <2>5. LastOf(Append(v, a), k) = LastOf(v, k)  BY <2>1, <2>3, <2>4, LastOfAppend
  <2>6. QED  BY <1>4, <2>5 DEF v
<1>8. Cardinality(LostOf(next, n)) = Cardinality(LostOf(list, n)) + 1
  <2>1. Key(a) \notin ToSet(KeptOf(list, n))  BY <1>1, <1>5
  <2>2. QED  BY <1>3, <2>1, LostAppend
<1> HIDE DEF next
<1>9. Stands(V, n, next, s, d + 1)  BY <1>3, <1>7, <1>8 DEF Stands
<1>10. QED  BY <1>9 DEF next

(* One with a key that is there, or with room for it, is added.            *)
LEMMA AddedStand ==
  ASSUME NEW V, NEW n \in Int, NEW list \in Seq(V), NEW s, NEW d,
         Stands(V, n, list, s, d), NEW a \in V, a # Invalid,
         Has(s, Key(a)) \/ n < 0 \/ Len(s) < n,
         NEW t \in Seq(Normals(V)), Same(t, Append(s, Normal(a))), n >= 0 => Len(t) <= n
  PROVE  Stands(V, n, Append(list, a), t, d)
<1> DEFINE next == Append(list, a)
           v == ValidOf(list)
           k == Key(a)
           b == Normal(a)
           W == Normals(V)
           kept == KeptOf(list, n)
           then == KeptOf(next, n)
<1>1. s \in Seq(W) /\ FirstKeys(s) = kept  BY DEF Stands
<1>2. b \in W /\ Key(b) = k  BY DEF Normals, Normal, Key
<1>3. ValidOf(next) = Append(v, a) /\ v \in Seq(V \ {Invalid}) /\ a \in V \ {Invalid}
  BY ValidAppend
<1>4. /\ \A x : x \in KeysOf(s) <=> Has(s, x)
      /\ ToSet(kept) = KeysOf(s) /\ Len(kept) <= Len(s)
  BY <1>1, KeysAre
<1>5. FirstKeys(t) = IF k \in KeysOf(s) THEN kept ELSE Append(kept, k)
  <2> HIDE DEF b, W, k, kept
  <2>1. FirstKeys(Append(s, b)) = IF Has(s, k) THEN FirstKeys(s) ELSE Append(FirstKeys(s), k)
    BY <1>1, <1>2, KeysAppend
  <2>2. FirstKeys(t) = FirstKeys(Append(s, b))  BY DEF Same, b
  <2>3. QED  BY <1>1, <1>4, <2>1, <2>2
<1>6. KeysOf(t) = KeysOf(s) \union {k}
  <2> HIDE DEF b, W, k
  <2>1. KeysOf(Append(s, b)) = KeysOf(s) \union {k}  BY <1>1, <1>2, KeysAppend
  <2>2. KeysOf(t) = KeysOf(Append(s, b))  BY DEF Same, b
  <2>3. QED  BY <2>1, <2>2
<1>7. ToSet(kept) \subseteq KeysOf(v)  BY KeptIs
<1>8. ASSUME ~ (n < 0 \/ Len(kept) < n) PROVE n >= 0 /\ Len(kept) >= n
  <2>1. kept \in Seq(KeysOf(v))  BY KeptIs
  <2> HIDE DEF kept
  <2>2. Len(kept) \in Nat  BY <2>1
  <2>3. QED  BY <1>8, <2>2
<1>9. /\ FirstKeys(t) = then
      /\ Cardinality(LostOf(next, n)) = Cardinality(LostOf(list, n))
  <2>1. CASE n < 0 \/ Len(kept) < n
    <3>1. ToSet(kept) = KeysOf(v)
          /\ then = IF k \in KeysOf(v) THEN kept ELSE Append(kept, k)
      BY <2>1, KeptAppend
    <3>2. FirstKeys(t) = then  BY <1>4, <1>5, <3>1
    <3>3. CASE k \in KeysOf(v)
      <4>1. then = kept /\ k \in ToSet(kept)  BY <3>1, <3>3
      <4>2. QED  BY <3>2, <4>1, LostAppend
    <3>4. CASE k \notin KeysOf(v)
      <4>1. ToSet(then) = ToSet(kept) \union {k}
        <5>1. kept \in Seq(KeysOf(v))  BY KeptIs
        <5>2. then = Append(kept, k)  BY <3>1, <3>4
        <5> HIDE DEF kept, then, k
        <5>3. kept \in Seq(KeysOf(v) \union {k}) /\ k \in KeysOf(v) \union {k}  BY <5>1
        <5>4. QED  BY <5>2, <5>3, AppendElements
      <4>2. Cardinality(LostOf(next, n)) = Cardinality(LostOf(list, n))
        BY <3>4, <4>1, LostAppend
      <4>3. QED  BY <3>2, <4>2
    <3>5. QED  BY <3>3, <3>4
  <2>2. CASE ~ (n < 0 \/ Len(kept) < n)
    <3>1. n >= 0 /\ Len(kept) >= n  BY <1>8, <2>2
    <3>2. then = kept  BY <3>1, KeptAppend
    <3>3. k \in KeysOf(s)
      <4>1. Len(kept) \in Int /\ Len(s) \in Int
        <5>1. kept \in Seq(KeysOf(v))  BY KeptIs
        <5> HIDE DEF kept, v, W
        <5>2. QED  BY <1>1, <5>1
      <4>2. ~ (n < 0 \/ Len(s) < n)  BY <1>4, <3>1, <4>1
      <4>3. QED  BY <1>4, <4>2
    <3>4. FirstKeys(t) = then  BY <1>5, <3>2, <3>3
    <3>5. k \in ToSet(kept)  BY <1>4, <3>3
    <3>6. QED  BY <3>2, <3>4, <3>5, LostAppend
  <2>3. QED  BY <2>1, <2>2
<1>10. ASSUME NEW x \in KeysOf(t) PROVE LastOf(t, x) = Normal(LastOf(ValidOf(next), x))
  <2>1. LastOf(t, x) = LastOf(Append(s, b), x)  BY DEF Same
  <2> DEFINE U == V \ {Invalid}
  <2>2. v \in Seq(U) /\ a \in U  BY <1>3
  <2> HIDE DEF U, v, W, b
  <2>3. CASE x = k
    <3>1. LastOf(Append(s, b), x) = b  BY <1>1, <1>2, <2>3, LastOfAppend
    <3>2. LastOf(Append(v, a), x) = a  BY <2>2, <2>3, LastOfAppend
    <3>3. QED  BY <1>3, <2>1, <3>1, <3>2 DEF b
  <2>4. CASE x # k
    <3>1. x \in KeysOf(s)  BY <1>6, <2>4
    <3>2. Has(s, x)  BY <1>4, <3>1
    <3>3. LastOf(Append(s, b), x) = LastOf(s, x)  BY <1>1, <1>2, <2>4, <3>2, LastOfAppend
    <3>4. x \in KeysOf(v)  BY <1>4, <1>7, <3>1
    <3>5. Has(v, x)  BY <2>2, <3>4, KeysAre
    <3>6. LastOf(Append(v, a), x) = LastOf(v, x)  BY <2>2, <2>4, <3>5, LastOfAppend
    <3>7. LastOf(s, x) = Normal(LastOf(v, x))  BY <3>1 DEF Stands, v
    <3>8. QED  BY <1>3, <2>1, <3>3, <3>6, <3>7
  <2>5. QED  BY <2>3, <2>4
<1> HIDE DEF next, then
<1>11. d = Cardinality(LostOf(next, n))  BY <1>9 DEF Stands
<1>12. Stands(V, n, next, t, d)  BY <1>9, <1>10, <1>11 DEF Stands, then
<1>13. QED  BY <1>12 DEF next

-----------------------------------------------------------------------------
(* The two paths of SetAttributes.                                         *)

(* The attributes of a span with the number of those dropped.              *)
Counted(V) == [attributes : Seq(Normals(V)), dropped : Nat]

(* Each path goes through the list one by one.                             *)
LEMMA WithinType ==
  ASSUME NEW V, NEW acc \in Counted(V), NEW a \in V
  PROVE  AddWithin(acc, a) \in Counted(V)
<1> DEFINE W == Normals(V)
<1>1. Normal(a) \in W  BY DEF Normals
<1>2. acc \in [attributes : Seq(W), dropped : Nat]  BY DEF Counted
<1> HIDE DEF W
<1>3. [acc EXCEPT !.dropped = @ + 1] \in [attributes : Seq(W), dropped : Nat]  BY <1>2
<1>4. [acc EXCEPT !.attributes = Append(@, Normal(a))] \in [attributes : Seq(W), dropped : Nat]
  BY <1>1, <1>2
<1>5. AddWithin(acc, a) \in [attributes : Seq(W), dropped : Nat]
  BY <1>3, <1>4, Zenon DEF AddWithin
<1>6. QED  BY <1>5 DEF Counted, W

(* The other path, likewise.                                               *)
LEMMA OverCapType ==
  ASSUME NEW V, NEW acc \in Counted(V), NEW a \in V
  PROVE  AddOverCap(acc, a) \in Counted(V)
<1> DEFINE W == Normals(V)
<1>1. Normal(a) \in W  BY DEF Normals
<1>2. acc \in [attributes : Seq(W), dropped : Nat]  BY DEF Counted
<1> HIDE DEF W
<1>3. [acc EXCEPT !.dropped = @ + 1] \in [attributes : Seq(W), dropped : Nat]  BY <1>2
<1>4. Put(acc.attributes, Normal(a)) \in Seq(W)  BY <1>1, <1>2, PutType
<1>5. [acc EXCEPT !.attributes = Put(@, Normal(a))] \in [attributes : Seq(W), dropped : Nat]
  BY <1>2, <1>4
<1>6. AddOverCap(acc, a) \in [attributes : Seq(W), dropped : Nat]
  BY <1>3, <1>5, Zenon DEF AddOverCap
<1>7. QED  BY <1>6 DEF Counted, W

Within(s, base, d) ==
  d[0] = base /\ \A i \in 1..Len(s) : d[i] = AddWithin(d[i - 1], s[i])

(* So the first path is a chain of such steps.                             *)
LEMMA WithinChain ==
  ASSUME NEW V, NEW s \in Seq(V), NEW base \in Counted(V)
  PROVE  \E d \in [0..Len(s) -> Counted(V)] :
           Within(s, base, d) /\ FoldLeft(AddWithin, base, s) = d[Len(s)]
<1> DEFINE n == Len(s)
           D == 1..n
           W == Counted(V)
           step == [i \in D |-> [t \in W |-> AddWithin(t, s[i])]]
           Eq(h) == h = [u \in SUBSET D |->
                           IF u = {} THEN base ELSE AddWithin(h[u \ {Max(u)}], s[Max(u)])]
<1>1. n \in Nat /\ DOMAIN s = D /\ \A i \in D : s[i] \in V  OBVIOUS
<1>2. base \in W  OBVIOUS
<1>3. step \in [D -> [W -> W]]
  <2>1. \A i \in D : \A t \in W : AddWithin(t, s[i]) \in W  BY <1>1, WithinType
  <2> HIDE DEF W
  <2>2. QED  BY <2>1
<1>4. \E h : Eq(h)
  <2>1. \A i \in D : \A t \in W : step[i][t] = AddWithin(t, s[i])  OBVIOUS
  <2>2. IsFiniteSet(D) /\ D \subseteq Int  BY <1>1, FS_Interval
  <2> HIDE DEF step, D, W
  <2>3. PICK g \in [SUBSET D -> W] : Folding(D, base, step, g)  BY <1>2, <1>3, <2>2, FoldExists
  <2>4. ASSUME NEW u \in SUBSET D, u # {} PROVE g[u] = AddWithin(g[u \ {Max(u)}], s[Max(u)])
    <3>1. Max(u) \in D /\ u \ {Max(u)} \in SUBSET D  BY <1>1, <2>4, GreatestPlace DEF D
    <3>2. g[u \ {Max(u)}] \in W  BY <3>1
    <3>3. g[u] = step[Max(u)][g[u \ {Max(u)}]]  BY <2>3, <2>4 DEF Folding
    <3>4. QED  BY <2>1, <3>1, <3>2, <3>3
  <2>5. {} \in SUBSET D /\ g[{}] = base  BY <2>3 DEF Folding
  <2>6. \A u \in SUBSET D :
          g[u] = IF u = {} THEN base ELSE AddWithin(g[u \ {Max(u)}], s[Max(u)])
    BY <2>4, <2>5
  <2>7. Eq(g)  BY <2>3, <2>6
  <2> HIDE DEF Eq
  <2>8. QED  BY <2>7
<1> DEFINE h == CHOOSE h : Eq(h)
<1>5. Eq(h)
  <2> HIDE DEF Eq
  <2>1. QED  BY <1>4
<1>6. FoldLeft(AddWithin, base, s) = h[D]  BY <1>1 DEF FoldLeft, MapThenFoldSet
<1> HIDE DEF h
<1>7. Stepwise(D, W, base, step, h)
  <2>1. {} \in SUBSET D  OBVIOUS
  <2>2. h[{}] = base  BY <1>5, <2>1
  <2>3. ASSUME NEW u \in SUBSET D, u # {}, h[u \ {Max(u)}] \in W
        PROVE  h[u] = step[Max(u)][h[u \ {Max(u)}]]
    <3>1. Max(u) \in D  BY <1>1, <2>3, GreatestPlace
    <3>2. h[u] = AddWithin(h[u \ {Max(u)}], s[Max(u)])  BY <1>5, <2>3
    <3> DEFINE r == h[u \ {Max(u)}]
    <3> HIDE DEF r, Eq, W
    <3>3. step[Max(u)][r] = AddWithin(r, s[Max(u)])  BY <2>3, <3>1 DEF r
    <3>4. QED  BY <3>2, <3>3 DEF r
  <2> HIDE DEF step, D, W, Eq
  <2>4. QED  BY <2>2, <2>3 DEF Stepwise
<1> HIDE DEF Eq
<1>8. PICK d \in [0..n -> W] : Chain(n, base, step, d) /\ h[D] = d[n]
  <2>1. n \in Nat  BY <1>1
  <2> HIDE DEF step, W, n
  <2>2. QED  BY <1>2, <1>3, <1>7, <2>1, FoldChain
<1>9. ASSUME NEW i \in D PROVE d[i] = AddWithin(d[i - 1], s[i])
  <2>1. i - 1 \in 0..n /\ i \in D  BY <1>1
  <2>2. d[i - 1] \in W  BY <2>1
  <2> HIDE DEF W
  <2>3. d[i] = step[i][d[i - 1]]  BY <1>8 DEF Chain
  <2>4. QED  BY <2>2, <2>3
<1>10. d[0] = base  BY <1>8 DEF Chain
<1>11. Within(s, base, d)  BY <1>9, <1>10 DEF Within
<1>12. QED  BY <1>6, <1>8, <1>11

OverCap(s, base, d) ==
  d[0] = base /\ \A i \in 1..Len(s) : d[i] = AddOverCap(d[i - 1], s[i])

(* And so is the second.                                                   *)
LEMMA OverCapChain ==
  ASSUME NEW V, NEW s \in Seq(V), NEW base \in Counted(V)
  PROVE  \E d \in [0..Len(s) -> Counted(V)] :
           OverCap(s, base, d) /\ FoldLeft(AddOverCap, base, s) = d[Len(s)]
<1> DEFINE n == Len(s)
           D == 1..n
           W == Counted(V)
           step == [i \in D |-> [t \in W |-> AddOverCap(t, s[i])]]
           Eq(h) == h = [u \in SUBSET D |->
                           IF u = {} THEN base ELSE AddOverCap(h[u \ {Max(u)}], s[Max(u)])]
<1>1. n \in Nat /\ DOMAIN s = D /\ \A i \in D : s[i] \in V  OBVIOUS
<1>2. base \in W  OBVIOUS
<1>3. step \in [D -> [W -> W]]
  <2>1. \A i \in D : \A t \in W : AddOverCap(t, s[i]) \in W  BY <1>1, OverCapType
  <2> HIDE DEF W
  <2>2. QED  BY <2>1
<1>4. \E h : Eq(h)
  <2>1. \A i \in D : \A t \in W : step[i][t] = AddOverCap(t, s[i])  OBVIOUS
  <2>2. IsFiniteSet(D) /\ D \subseteq Int  BY <1>1, FS_Interval
  <2> HIDE DEF step, D, W
  <2>3. PICK g \in [SUBSET D -> W] : Folding(D, base, step, g)  BY <1>2, <1>3, <2>2, FoldExists
  <2>4. ASSUME NEW u \in SUBSET D, u # {} PROVE g[u] = AddOverCap(g[u \ {Max(u)}], s[Max(u)])
    <3>1. Max(u) \in D /\ u \ {Max(u)} \in SUBSET D  BY <1>1, <2>4, GreatestPlace DEF D
    <3>2. g[u \ {Max(u)}] \in W  BY <3>1
    <3>3. g[u] = step[Max(u)][g[u \ {Max(u)}]]  BY <2>3, <2>4 DEF Folding
    <3>4. QED  BY <2>1, <3>1, <3>2, <3>3
  <2>5. {} \in SUBSET D /\ g[{}] = base  BY <2>3 DEF Folding
  <2>6. \A u \in SUBSET D :
          g[u] = IF u = {} THEN base ELSE AddOverCap(g[u \ {Max(u)}], s[Max(u)])
    BY <2>4, <2>5
  <2>7. Eq(g)  BY <2>3, <2>6
  <2> HIDE DEF Eq
  <2>8. QED  BY <2>7
<1> DEFINE h == CHOOSE h : Eq(h)
<1>5. Eq(h)
  <2> HIDE DEF Eq
  <2>1. QED  BY <1>4
<1>6. FoldLeft(AddOverCap, base, s) = h[D]  BY <1>1 DEF FoldLeft, MapThenFoldSet
<1> HIDE DEF h
<1>7. Stepwise(D, W, base, step, h)
  <2>1. {} \in SUBSET D  OBVIOUS
  <2>2. h[{}] = base  BY <1>5, <2>1
  <2>3. ASSUME NEW u \in SUBSET D, u # {}, h[u \ {Max(u)}] \in W
        PROVE  h[u] = step[Max(u)][h[u \ {Max(u)}]]
    <3>1. Max(u) \in D  BY <1>1, <2>3, GreatestPlace
    <3>2. h[u] = AddOverCap(h[u \ {Max(u)}], s[Max(u)])  BY <1>5, <2>3
    <3> DEFINE r == h[u \ {Max(u)}]
    <3> HIDE DEF r, Eq, W
    <3>3. step[Max(u)][r] = AddOverCap(r, s[Max(u)])  BY <2>3, <3>1 DEF r
    <3>4. QED  BY <3>2, <3>3 DEF r
  <2> HIDE DEF step, D, W, Eq
  <2>4. QED  BY <2>2, <2>3 DEF Stepwise
<1> HIDE DEF Eq
<1>8. PICK d \in [0..n -> W] : Chain(n, base, step, d) /\ h[D] = d[n]
  <2>1. n \in Nat  BY <1>1
  <2> HIDE DEF step, W, n
  <2>2. QED  BY <1>2, <1>3, <1>7, <2>1, FoldChain
<1>9. ASSUME NEW i \in D PROVE d[i] = AddOverCap(d[i - 1], s[i])
  <2>1. i - 1 \in 0..n /\ i \in D  BY <1>1
  <2>2. d[i - 1] \in W  BY <2>1
  <2> HIDE DEF W
  <2>3. d[i] = step[i][d[i - 1]]  BY <1>8 DEF Chain
  <2>4. QED  BY <2>2, <2>3
<1>10. d[0] = base  BY <1>8 DEF Chain
<1>11. OverCap(s, base, d)  BY <1>9, <1>10 DEF OverCap
<1>12. QED  BY <1>6, <1>8, <1>11

(* A list followed by the first ones of another.                           *)
LEMMA OneFurther ==
  ASSUME NEW V, NEW list \in Seq(V), NEW s \in Seq(V), NEW i \in Nat, i + 1 <= Len(s)
  PROVE  /\ list \o SubSeq(s, 1, i) \in Seq(V) /\ s[i + 1] \in V
         /\ list \o SubSeq(s, 1, i + 1) = Append(list \o SubSeq(s, 1, i), s[i + 1])
<1>1. /\ SubSeq(s, 1, i) \in Seq(V) /\ s[i + 1] \in V
      /\ SubSeq(s, 1, i + 1) = Append(SubSeq(s, 1, i), s[i + 1])
  BY PrefixGrows
<1> DEFINE pre == SubSeq(s, 1, i)
           a == s[i + 1]
<1>2. pre \in Seq(V) /\ a \in V  BY <1>1
<1> HIDE DEF pre, a
<1>3. list \o pre \in Seq(V) /\ list \o Append(pre, a) = Append(list \o pre, a)
  BY <1>2, ConcatAppend, ConcatProperties
<1>4. QED  BY <1>1, <1>3 DEF pre, a

(* While there is room, appending keeps what the attributes stand for.     *)
LEMMA WithinStands ==
  ASSUME NEW V, NEW list \in Seq(V), NEW s \in Seq(V), NEW base \in Counted(V), limit \in Int,
         Stands(V, limit, list, base.attributes, base.dropped),
         limit >= 0 => Len(base.attributes) + Len(s) <= limit
  PROVE  Stands(V, limit, list \o s, FoldLeft(AddWithin, base, s).attributes,
                FoldLeft(AddWithin, base, s).dropped)
<1> DEFINE n == Len(s)
           m == Len(base.attributes)
           far(i) == list \o SubSeq(s, 1, i)
           W == Normals(V)
<1>1. PICK d \in [0..n -> Counted(V)] : Within(s, base, d) /\ FoldLeft(AddWithin, base, s) = d[n]
  BY WithinChain
<1>2. n \in Nat  OBVIOUS
<1>3. m \in Nat
  <2>1. base.attributes \in Seq(W)  BY DEF Counted
  <2> HIDE DEF W
  <2>2. QED  BY <2>1
<1>4. limit >= 0 => m + n <= limit  OBVIOUS
<1>5. d[0] = base /\ \A i \in 1..n : d[i] = AddWithin(d[i - 1], s[i])  BY <1>1 DEF Within
<1> DEFINE Right(i) == /\ Stands(V, limit, far(i), d[i].attributes, d[i].dropped)
                       /\ Len(d[i].attributes) <= m + i
           T == {i \in Nat : i <= n => Right(i)}
<1> HIDE DEF n, m
<1>6. 0 \in T
  <2>1. far(0) = list
    <3>1. SubSeq(s, 1, 0) = <<>>  BY WholePrefix
    <3>2. list \o <<>> = list  OBVIOUS
    <3>3. QED  BY <3>1, <3>2
  <2>2. Stands(V, limit, far(0), d[0].attributes, d[0].dropped)  BY <1>5, <2>1
  <2>3. Len(d[0].attributes) <= m + 0  BY <1>3, <1>5 DEF m
  <2>4. QED  BY <2>2, <2>3
<1>7. ASSUME NEW i \in Nat, i \in T PROVE i + 1 \in T
  <2> SUFFICES ASSUME i + 1 <= n PROVE Right(i + 1)  OBVIOUS
  <2>1. i \in 0..n /\ i + 1 \in 1..n /\ (i + 1) - 1 = i /\ i <= n  BY <1>2
  <2>2. /\ Stands(V, limit, far(i), d[i].attributes, d[i].dropped)
        /\ Len(d[i].attributes) <= m + i
    BY <1>7, <2>1
  <2> DEFINE a == s[i + 1]
             r == d[i].attributes
             k == d[i].dropped
  <2>3. d[i + 1] = AddWithin(d[i], a)  BY <1>5, <2>1
  <2>4. far(i) \in Seq(V) /\ a \in V /\ far(i + 1) = Append(far(i), a)
    BY OneFurther DEF n
  <2>5. d[i] \in [attributes : Seq(W), dropped : Nat]  BY <1>1, <2>1 DEF Counted
  <2>6. r \in Seq(W) /\ Normal(a) \in W  BY <2>4, <2>5 DEF Normals
  <2> HIDE DEF far, a
  <2>7. CASE a = Invalid
    <3>1. d[i + 1] = [d[i] EXCEPT !.dropped = @ + 1]  BY <2>3, <2>7 DEF AddWithin
    <3>2. d[i + 1].attributes = r /\ d[i + 1].dropped = k + 1  BY <2>5, <3>1
    <3> HIDE DEF r, k
    <3>3. Stands(V, limit, Append(far(i), Invalid), r, k + 1)
      BY <2>2, <2>4, <2>7, InvalidStand DEF r, k
    <3>4. Len(r) <= m + (i + 1)
      <4>1. Len(r) \in Nat /\ Len(r) <= m + i  BY <2>2, <2>6 DEF r
      <4>2. QED  BY <1>3, <4>1
    <3>5. QED  BY <2>4, <2>7, <3>2, <3>3, <3>4
  <2>8. CASE a # Invalid
    <3> DEFINE b == Normal(a)
               u == Append(r, b)
    <3>1. d[i + 1] = [d[i] EXCEPT !.attributes = Append(@, b)]  BY <2>3, <2>8 DEF AddWithin
    <3>2. d[i + 1].attributes = u /\ d[i + 1].dropped = k  BY <2>5, <3>1
    <3> HIDE DEF r, k, b, W
    <3>3. u \in Seq(W) /\ Len(u) = Len(r) + 1 /\ Len(r) \in Nat  BY <2>6 DEF b
    <3>4. Len(r) <= m + i  BY <2>2 DEF r
    <3>5. Len(u) <= m + (i + 1)  BY <1>3, <3>3, <3>4
    <3>6. limit >= 0 => Len(u) <= limit  BY <1>2, <1>3, <1>4, <3>5
    <3>7. limit < 0 \/ Len(r) < limit  BY <3>3, <3>6
    <3>8. Same(u, Append(r, Normal(a)))  BY DEF Same, b
    <3> HIDE DEF u
    <3>9. Stands(V, limit, Append(far(i), a), u, k)
      BY <2>2, <2>4, <2>8, <3>3, <3>6, <3>7, <3>8, AddedStand DEF r, k, W
    <3>10. QED  BY <2>4, <3>2, <3>5, <3>9
  <2>9. QED  BY <2>7, <2>8
<1>8. n \in T
  <2> HIDE DEF T
  <2>1. QED  BY <1>2, <1>6, <1>7, SetInduction
<1>9. Right(n)
  <2> HIDE DEF Right
  <2>1. QED  BY <1>2, <1>8
<1>10. far(n) = list \o s  BY WholePrefix DEF n
<1>11. QED  BY <1>1, <1>9, <1>10

(* Past that, updates in place and counted drops keep it, if no key is     *)
(* there twice.                                                            *)
LEMMA OverCapStands ==
  ASSUME NEW V, NEW list \in Seq(V), NEW s \in Seq(V), NEW base \in Counted(V),
         limit \in Int, limit > 0, Once(base.attributes),
         Stands(V, limit, list, base.attributes, base.dropped)
  PROVE  Stands(V, limit, list \o s, FoldLeft(AddOverCap, base, s).attributes,
                FoldLeft(AddOverCap, base, s).dropped)
<1> DEFINE n == Len(s)
           far(i) == list \o SubSeq(s, 1, i)
           W == Normals(V)
<1>1. PICK d \in [0..n -> Counted(V)] : OverCap(s, base, d) /\ FoldLeft(AddOverCap, base, s) = d[n]
  BY OverCapChain
<1>2. n \in Nat  OBVIOUS
<1>5. d[0] = base /\ \A i \in 1..n : d[i] = AddOverCap(d[i - 1], s[i])  BY <1>1 DEF OverCap
<1> DEFINE Right(i) == /\ Stands(V, limit, far(i), d[i].attributes, d[i].dropped)
                       /\ Once(d[i].attributes)
           T == {i \in Nat : i <= n => Right(i)}
<1> HIDE DEF n
<1>6. 0 \in T
  <2>1. far(0) = list
    <3>1. SubSeq(s, 1, 0) = <<>>  BY WholePrefix
    <3>2. list \o <<>> = list  OBVIOUS
    <3>3. QED  BY <3>1, <3>2
  <2>2. Stands(V, limit, far(0), d[0].attributes, d[0].dropped)  BY <1>5, <2>1
  <2>3. QED  BY <1>5, <2>2
<1>7. ASSUME NEW i \in Nat, i \in T PROVE i + 1 \in T
  <2> SUFFICES ASSUME i + 1 <= n PROVE Right(i + 1)  OBVIOUS
  <2>1. i \in 0..n /\ i + 1 \in 1..n /\ (i + 1) - 1 = i /\ i <= n  BY <1>2
  <2>2. Stands(V, limit, far(i), d[i].attributes, d[i].dropped) /\ Once(d[i].attributes)
    BY <1>7, <2>1
  <2> DEFINE a == s[i + 1]
             r == d[i].attributes
             k == d[i].dropped
  <2>3. d[i + 1] = AddOverCap(d[i], a)  BY <1>5, <2>1
  <2>4. far(i) \in Seq(V) /\ a \in V /\ far(i + 1) = Append(far(i), a)
    BY OneFurther DEF n
  <2>5. d[i] \in [attributes : Seq(W), dropped : Nat]  BY <1>1, <2>1 DEF Counted
  <2>6. r \in Seq(W) /\ Normal(a) \in W /\ Key(Normal(a)) = Key(a)
    BY <2>4, <2>5 DEF Normals, Normal, Key
  <2> HIDE DEF far, a
  <2>7. CASE a = Invalid
    <3>1. d[i + 1] = [d[i] EXCEPT !.dropped = @ + 1]  BY <2>3, <2>7 DEF AddOverCap
    <3>2. d[i + 1].attributes = r /\ d[i + 1].dropped = k + 1  BY <2>5, <3>1
    <3> HIDE DEF r, k
    <3>3. Stands(V, limit, Append(far(i), Invalid), r, k + 1)
      BY <2>2, <2>4, <2>7, InvalidStand DEF r, k
    <3>4. QED  BY <2>2, <2>4, <2>7, <3>2, <3>3 DEF r
  <2>8. CASE a # Invalid /\ ~ Has(r, Key(a)) /\ Len(r) >= limit
    <3>1. d[i + 1] = [d[i] EXCEPT !.dropped = @ + 1]  BY <2>3, <2>8 DEF AddOverCap
    <3>2. d[i + 1].attributes = r /\ d[i + 1].dropped = k + 1  BY <2>5, <3>1
    <3>3. limit \in Nat  OBVIOUS
    <3> HIDE DEF r, k
    <3>4. Stands(V, limit, Append(far(i), a), r, k + 1)
      BY <2>2, <2>4, <2>8, <3>3, FullStand DEF r, k
    <3>5. QED  BY <2>2, <2>4, <3>2, <3>4 DEF r
  <2>9. CASE a # Invalid /\ (Has(r, Key(a)) \/ ~ (Len(r) >= limit))
    <3> DEFINE b == Normal(a)
               u == Put(r, b)
    <3>1. d[i + 1] = [d[i] EXCEPT !.attributes = Put(@, b)]  BY <2>3, <2>9 DEF AddOverCap
    <3>2. d[i + 1].attributes = u /\ d[i + 1].dropped = k  BY <2>5, <3>1
    <3>3. Len(r) \in Nat /\ Len(r) <= limit
      <4>1. Len(r) <= limit  BY <2>2 DEF Stands
      <4> HIDE DEF W, r
      <4>2. QED  BY <2>6, <4>1
    <3> HIDE DEF r, k, b, W
    <3>4. u \in Seq(W) /\ Once(u) /\ Same(u, Append(r, b))  BY <2>2, <2>6, PutSays DEF r, b
    <3>5. Len(u) = IF Has(r, Key(a)) THEN Len(r) ELSE Len(r) + 1  BY <2>6, PutType DEF b
    <3>6. Has(r, Key(a)) \/ limit < 0 \/ Len(r) < limit  BY <2>9, <3>3
    <3>7. limit >= 0 => Len(u) <= limit  BY <3>3, <3>5, <3>6
    <3> HIDE DEF u
    <3>8. Stands(V, limit, Append(far(i), a), u, k)
      BY <2>2, <2>4, <2>9, <3>4, <3>6, <3>7, AddedStand DEF r, k, W, b
    <3>9. QED  BY <2>4, <3>2, <3>4, <3>8
  <2>10. QED  BY <2>7, <2>8, <2>9
<1>8. n \in T
  <2> HIDE DEF T
  <2>1. QED  BY <1>2, <1>6, <1>7, SetInduction
<1>9. Right(n)
  <2> HIDE DEF Right
  <2>1. QED  BY <1>2, <1>8
<1>10. far(n) = list \o s  BY WholePrefix DEF n
<1>11. QED  BY <1>1, <1>9, <1>10

(* Removing the duplicates leaves what attributes stand for.               *)
LEMMA DedupedStand ==
  ASSUME NEW V, NEW n \in Int, NEW list, NEW s, NEW d, Stands(V, n, list, s, d)
  PROVE  Stands(V, n, list, Deduped(s), d) /\ Once(Deduped(s)) /\ Same(Deduped(s), s)
<1> DEFINE W == Normals(V)
           t == Deduped(s)
<1>1. s \in Seq(W) /\ (n >= 0 => Len(s) <= n)  BY DEF Stands
<1> HIDE DEF W
<1>2. t \in Seq(W) /\ Once(t) /\ Same(t, s)  BY <1>1, DedupedSays
<1>3. Len(t) = Len(FirstKeys(s))  BY <1>1, <1>2, SameOnce
<1>4. Len(FirstKeys(s)) <= Len(s)  BY <1>1, KeysAre
<1>5. Len(s) \in Nat /\ Len(t) \in Nat  BY <1>1, <1>2
<1>6. n >= 0 => Len(t) <= n  BY <1>1, <1>3, <1>4, <1>5
<1> HIDE DEF t
<1>7. Stands(V, n, list, t, d)  BY <1>2, <1>6, SameStand DEF W
<1>8. QED  BY <1>2, <1>7 DEF t

(* With limit 0 nothing is kept and all are counted.                       *)
LEMMA NothingKept ==
  ASSUME NEW V, NEW list \in Seq(V)
  PROVE  KeptOf(list, 0) = <<>> /\ Cardinality(LostOf(list, 0)) = Len(list)
<1>1. KeptOf(list, 0) \in Seq(KeysOf(ValidOf(list))) /\ Len(KeptOf(list, 0)) <= 0  BY KeptIs
<1>2. KeptOf(list, 0) = <<>>
  <2> DEFINE r == KeptOf(list, 0)
             K == KeysOf(ValidOf(list))
  <2>1. r \in Seq(K) /\ Len(r) <= 0  BY <1>1
  <2> HIDE DEF r, K
  <2>2. r = <<>>  BY <2>1
  <2>3. QED  BY <2>2 DEF r
<1>3. ToSet(<<>>) = {}  BY DEF ToSet
<1> DEFINE n == Len(list)
<1>4. n \in Nat /\ DOMAIN list = 1..n  OBVIOUS
<1>5. LostOf(list, 0) = 1..n  BY <1>2, <1>3, <1>4 DEF LostOf
<1> HIDE DEF n
<1>6. Cardinality(1..n) = n
  <2>1. n \in Nat  BY <1>4
  <2>2. QED  BY <2>1, FS_Interval
<1>7. QED  BY <1>2, <1>5, <1>6 DEF n

(* SetAttributes keeps what the attributes stand for, on every path.       *)
LEMMA RecordedStands ==
  ASSUME NEW V, offered \in Seq(V), NEW list \in Seq(V), limit \in Int, dropped \in Nat,
         Stands(V, limit, offered, attributes, dropped)
  PROVE  /\ Stands(V, limit, offered \o list, Recorded(list).attributes, Recorded(list).dropped)
         /\ Recorded(list).dropped \in Nat
<1> DEFINE W == Normals(V)
           m == Len(attributes)
           n == Len(list)
           acc == [attributes |-> attributes, dropped |-> dropped]
           only == [attributes |-> Deduped(attributes), dropped |-> dropped]
<1>1. attributes \in Seq(W) /\ FirstKeys(attributes) = KeptOf(offered, limit)  BY DEF Stands
<1>2. m \in Nat /\ n \in Nat
  <2> HIDE DEF W
  <2>1. QED  BY <1>1
<1>3. limit >= 0 => m <= limit  BY DEF Stands
<1>4. offered \o list \in Seq(V)  BY ConcatProperties
<1>5. ASSUME NEW r \in Counted(V) PROVE r.dropped \in Nat  BY <1>5 DEF Counted
<1>6. CASE limit = 0
  <2>1. Recorded(list) = [acc EXCEPT !.dropped = @ + n]  BY <1>6 DEF Recorded
  <2>2. Recorded(list).attributes = attributes /\ Recorded(list).dropped = dropped + n
    BY <2>1
  <2>3. attributes = <<>>
    <3> HIDE DEF W
    <3>1. QED  BY <1>1, <1>2, <1>3, <1>6
  <2>4. dropped = Len(offered)  BY <1>6, NothingKept DEF Stands
  <2>5. Len(offered \o list) = Len(offered) + n  BY ConcatProperties
  <2>6. KeptOf(offered, 0) = KeptOf(offered \o list, 0)
        /\ Cardinality(LostOf(offered \o list, 0)) = dropped + n
    BY <1>4, <2>4, <2>5, NothingKept
  <2>7. KeysOf(attributes) = {}  BY <2>3 DEF KeysOf
  <2>8. Stands(V, 0, offered \o list, attributes, dropped + n)
    <3> DEFINE more == offered \o list
    <3> HIDE DEF more, W
    <3>1. FirstKeys(attributes) = KeptOf(more, 0)  BY <1>1, <1>6, <2>6 DEF more
    <3>2. dropped + n = Cardinality(LostOf(more, 0))  BY <2>6 DEF more
    <3>3. Stands(V, 0, more, attributes, dropped + n)
      BY <1>1, <1>3, <1>6, <2>7, <3>1, <3>2 DEF Stands, W
    <3>4. QED  BY <3>3 DEF more
  <2>9. dropped + n \in Nat  BY <1>2
  <2>10. QED  BY <1>6, <2>2, <2>8, <2>9
<1>7. CASE limit # 0 /\ limit > 0 /\ m + n > limit
  <2>1. [acc EXCEPT !.attributes = Deduped(@)] = only  OBVIOUS
  <2>2. Recorded(list) = FoldLeft(AddOverCap, only, list)  BY <1>7, <2>1 DEF Recorded
  <2> DEFINE s == Deduped(attributes)
  <2>3. Stands(V, limit, offered, s, dropped) /\ Once(s)  BY DedupedStand
  <2> HIDE DEF s
  <2>7. s \in Seq(W)  BY <2>3 DEF Stands
  <2>8. only \in Counted(V) /\ only.attributes = s /\ only.dropped = dropped
    BY <2>7 DEF s, Counted
  <2> HIDE DEF only
  <2>9. /\ Stands(V, limit, offered \o list, FoldLeft(AddOverCap, only, list).attributes,
                  FoldLeft(AddOverCap, only, list).dropped)
    BY <1>7, <2>3, <2>8, OverCapStands
  <2>10. FoldLeft(AddOverCap, only, list) \in Counted(V)
    <3>1. PICK d \in [0..n -> Counted(V)] : FoldLeft(AddOverCap, only, list) = d[n]
      BY <2>8, OverCapChain
    <3>2. n \in 0..n  BY <1>2
    <3>3. QED  BY <3>1, <3>2
  <2>11. QED  BY <1>5, <2>2, <2>9, <2>10
<1>8. CASE limit # 0 /\ ~ (limit > 0 /\ m + n > limit)
  <2>1. Recorded(list) = FoldLeft(AddWithin, acc, list)  BY <1>8 DEF Recorded
  <2>2. acc \in Counted(V) /\ acc.attributes = attributes /\ acc.dropped = dropped
    BY <1>1 DEF Counted
  <2>3. limit >= 0 => m + n <= limit  BY <1>2, <1>8
  <2> HIDE DEF acc
  <2>4. Stands(V, limit, offered \o list, FoldLeft(AddWithin, acc, list).attributes,
               FoldLeft(AddWithin, acc, list).dropped)
    BY <2>2, <2>3, WithinStands
  <2>5. FoldLeft(AddWithin, acc, list) \in Counted(V)
    <3>1. PICK d \in [0..n -> Counted(V)] : FoldLeft(AddWithin, acc, list) = d[n]
      BY <2>2, WithinChain
    <3>2. n \in 0..n  BY <1>2
    <3>3. QED  BY <3>1, <3>2
  <2>6. QED  BY <1>5, <2>1, <2>4, <2>5
<1>9. QED  BY <1>6, <1>7, <1>8

-----------------------------------------------------------------------------
(* Spans: queues of events and links, and the status.                      *)

Items == [id : Nat, attrs : Int, dropped : Int]

(* A queue with limit n after the items ids: the last ones, and how many   *)
(* are no longer there.                                                    *)
QueueHolds(n, ids, q) ==
  /\ q \in [queue : Seq(Items), dropped : Nat]
  /\ Len(q.queue) = IF n < 0 \/ Len(ids) <= n THEN Len(ids) ELSE n
  /\ \A i \in 1..Len(q.queue) : q.queue[i].id = ids[Len(ids) - Len(q.queue) + i]
  /\ q.dropped = Len(ids) - Len(q.queue)

(* It still holds them after one more, whatever the limit.                 *)
LEMMA EvictHolds ==
  ASSUME limit \in Int, NEW ids \in Seq(Nat), NEW q, QueueHolds(limit, ids, q), NEW x \in Items
  PROVE  QueueHolds(limit, Append(ids, x.id), Evict(q, x))
<1> DEFINE n == limit
           m == Len(ids)
           r == q.queue
           k == Len(r)
           next == Append(ids, x.id)
           u == Evict(q, x)
<1>1. m \in Nat /\ x.id \in Nat  BY DEF Items
<1>2. /\ next \in Seq(Nat) /\ Len(next) = m + 1 /\ next[m + 1] = x.id
      /\ \A i \in 1..m : next[i] = ids[i]
  BY <1>1
<1>3. /\ q \in [queue : Seq(Items), dropped : Nat]
      /\ k = IF n < 0 \/ m <= n THEN m ELSE n
      /\ q.dropped = m - k
  BY DEF QueueHolds
<1>4. \A i \in 1..k : r[i].id = ids[m - k + i]  BY DEF QueueHolds
<1>5. r \in Seq(Items) /\ k \in Nat /\ q.dropped \in Nat  BY <1>3
<1> HIDE DEF next, m, r, k
<1>6. CASE n = 0
  <2>1. u = [q EXCEPT !.dropped = @ + 1]  BY <1>6 DEF Evict
  <2>2. u.queue = r /\ u.dropped = q.dropped + 1 /\ u \in [queue : Seq(Items), dropped : Nat]
    BY <1>3, <2>1 DEF r
  <2>3. k = 0  BY <1>1, <1>3, <1>6
  <2> HIDE DEF u
  <2>4. Len(u.queue) = 0 /\ u.dropped = m + 1
    <3>1. q.dropped = m - 0  BY <1>3, <2>3
    <3>2. q.dropped + 1 = m + 1  BY <1>1, <3>1
    <3>3. QED  BY <2>2, <2>3, <3>2 DEF k
  <2>5. QueueHolds(n, next, u)
    <3>1. \A i \in 1..0 : FALSE  OBVIOUS
    <3>2. \A i \in 1..Len(u.queue) : u.queue[i].id = next[Len(next) - Len(u.queue) + i]
      BY <2>4, <3>1
    <3>3. Len(u.queue) = IF n < 0 \/ Len(next) <= n THEN Len(next) ELSE n
      BY <1>1, <1>2, <1>6, <2>4
    <3>4. u.dropped = Len(next) - Len(u.queue)  BY <1>1, <1>2, <2>4
    <3> HIDE DEF n
    <3>5. QED  BY <2>2, <3>2, <3>3, <3>4 DEF QueueHolds
  <2>6. QED  BY <2>5 DEF u, next
<1>7. CASE n > 0 /\ k = n
  <2> DEFINE t == Tail(r)
             v == Append(t, x)
  <2>1. u = [queue |-> v, dropped |-> q.dropped + 1]  BY <1>7 DEF Evict, r, k
  <2>2. r # <<>> /\ Len(r) = k  BY <1>7 DEF k
  <2>3. t \in Seq(Items) /\ Len(t) = k - 1 /\ \A i \in 1..(k - 1) : t[i] = r[i + 1]
    BY <1>5, <2>2
  <2> HIDE DEF t
  <2>4. /\ v \in Seq(Items) /\ Len(v) = k /\ v[k] = x /\ \A i \in 1..(k - 1) : v[i] = t[i]
    BY <1>5, <1>7, <2>3
  <2> HIDE DEF v
  <2>5. u.queue = v /\ u.dropped = q.dropped + 1 /\ u \in [queue : Seq(Items), dropped : Nat]
    BY <1>5, <2>1, <2>4
  <2>6. n \in Nat /\ n <= m  BY <1>1, <1>3, <1>7
  <2>7. ASSUME NEW i \in 1..k PROVE v[i].id = next[(m + 1) - k + i]
    <3>1. CASE i = k
      <4>1. (m + 1) - k + i = m + 1  BY <1>1, <1>5, <3>1
      <4>2. QED  BY <1>2, <2>4, <3>1, <4>1
    <3>2. CASE i # k
      <4>1. i \in 1..(k - 1) /\ i + 1 \in 1..k  BY <1>5, <3>2
      <4>2. v[i].id = ids[m - k + (i + 1)]  BY <1>4, <2>3, <2>4, <4>1
      <4>3. m - k + (i + 1) \in 1..m /\ m - k + (i + 1) = (m + 1) - k + i
        BY <1>1, <1>5, <1>7, <2>6, <4>1
      <4>4. QED  BY <1>2, <4>2, <4>3
    <3>3. QED  BY <3>1, <3>2
  <2> HIDE DEF u
  <2>8. Len(u.queue) = k /\ u.dropped = (m + 1) - k  BY <1>1, <1>3, <1>5, <2>4, <2>5
  <2>9. k = IF n < 0 \/ m + 1 <= n THEN m + 1 ELSE n  BY <1>1, <1>7, <2>6
  <2>10. QueueHolds(n, next, u)
    <3>1. \A i \in 1..Len(u.queue) : u.queue[i].id = next[Len(next) - Len(u.queue) + i]
      BY <1>2, <2>5, <2>7, <2>8
    <3>2. Len(u.queue) = IF n < 0 \/ Len(next) <= n THEN Len(next) ELSE n
      BY <1>2, <2>8, <2>9
    <3>3. u.dropped = Len(next) - Len(u.queue)  BY <1>2, <2>8
    <3> HIDE DEF n
    <3>4. QED  BY <2>5, <3>1, <3>2, <3>3 DEF QueueHolds
  <2>11. QED  BY <2>10 DEF u, next
<1>8. CASE n # 0 /\ ~ (n > 0 /\ k = n)
  <2> DEFINE v == Append(r, x)
  <2>1. u = [q EXCEPT !.queue = Append(@, x)]  BY <1>8 DEF Evict, r, k
  <2>2. v \in Seq(Items) /\ Len(v) = k + 1 /\ v[k + 1] = x /\ \A i \in 1..k : v[i] = r[i]
    BY <1>5 DEF k
  <2>3. u.queue = v /\ u.dropped = q.dropped /\ u \in [queue : Seq(Items), dropped : Nat]
    BY <1>3, <2>1, <2>2 DEF r
  <2>4. k = m /\ (n < 0 \/ m + 1 <= n)  BY <1>1, <1>3, <1>8
  <2> HIDE DEF v, u
  <2>5. ASSUME NEW i \in 1..(m + 1) PROVE v[i].id = next[(m + 1) - (m + 1) + i]
    <3>1. (m + 1) - (m + 1) + i = i  BY <1>1
    <3>2. CASE i = m + 1  BY <1>2, <2>2, <2>4, <3>1, <3>2
    <3>3. CASE i # m + 1
      <4>1. i \in 1..m /\ m - k + i = i  BY <1>1, <2>4, <3>3
      <4>2. QED  BY <1>2, <1>4, <2>2, <2>4, <3>1, <4>1
    <3>4. QED  BY <3>2, <3>3
  <2>6. Len(u.queue) = m + 1 /\ u.dropped = 0 /\ Len(next) = m + 1
    BY <1>1, <1>2, <1>3, <2>2, <2>3, <2>4
  <2>7. QueueHolds(n, next, u)
    <3>1. \A i \in 1..Len(u.queue) : u.queue[i].id = next[Len(next) - Len(u.queue) + i]
      BY <2>3, <2>5, <2>6
    <3>2. Len(u.queue) = IF n < 0 \/ Len(next) <= n THEN Len(next) ELSE n  BY <2>4, <2>6
    <3>3. u.dropped = Len(next) - Len(u.queue)  BY <1>1, <2>6
    <3> HIDE DEF n
    <3>4. QED  BY <2>3, <3>1, <3>2, <3>3 DEF QueueHolds
  <2>8. QED  BY <2>7 DEF u, next
<1>9. QED  BY <1>6, <1>7, <1>8

(* What a queue should report after the items ids.                         *)
QueueFor(n, ids) ==
  LET kept == IF n < 0 THEN Len(ids) ELSE Min({n, Len(ids)})
  IN  [ids |-> SubSeq(ids, Len(ids) - kept + 1, Len(ids)),
       dropped |-> IF kept = 0 THEN 0 ELSE Len(ids) - kept]

(* And that it does.                                                       *)
LEMMA QueueReports ==
  ASSUME NEW n \in Int, NEW ids \in Seq(Nat), NEW q, QueueHolds(n, ids, q)
  PROVE  Ids(Unless(q)) = QueueFor(n, ids)
<1> DEFINE m == Len(ids)
           r == q.queue
           k == Len(r)
           kept == IF n < 0 THEN m ELSE Min({n, m})
           got == [i \in DOMAIN r |-> r[i].id]
           last == SubSeq(ids, m - k + 1, m)
<1>1. m \in Nat  OBVIOUS
<1>2. /\ q \in [queue : Seq(Items), dropped : Nat]
      /\ k = IF n < 0 \/ m <= n THEN m ELSE n
      /\ q.dropped = m - k
  BY DEF QueueHolds
<1>3. \A i \in 1..k : r[i].id = ids[m - k + i]  BY DEF QueueHolds
<1>4. r \in Seq(Items) /\ k \in Nat /\ DOMAIN r = 1..k /\ q.dropped \in Nat  BY <1>2
<1> HIDE DEF m, k
<1>5. k <= m  BY <1>1, <1>2, <1>4
<1>6. kept = k
  <2>1. CASE n < 0  BY <1>2, <2>1
  <2>2. CASE ~ (n < 0)
    <3>1. n \in Nat  BY <2>2
    <3>2. Min({n, m}) = IF m <= n THEN m ELSE n
      <4>1. CASE m <= n  BY <1>1, <3>1, <4>1, MinOfTwo
      <4>2. CASE ~ (m <= n)
        <5>1. n <= m  BY <1>1, <3>1, <4>2
        <5>2. QED  BY <1>1, <3>1, <4>2, <5>1, MinOfTwo
      <4>3. QED  BY <4>1, <4>2
    <3>3. QED  BY <1>2, <2>2, <3>2, Zenon
  <2>3. QED  BY <2>1, <2>2
<1>7. got = last
  <2> DEFINE V == Nat
  <2>1. \A i \in 1..k : m - k + i \in 1..m /\ (m - k + 1) + i - 1 = m - k + i
    BY <1>1, <1>4, <1>5
  <2>2. ids \in Seq(V) /\ \A j \in 1..m : ids[j] \in V  BY DEF m
  <2>3. m - k + 1 \in 1..(m + 1) /\ m \in Nat /\ m = Len(ids)  BY <1>1, <1>4, <1>5 DEF m
  <2>4. /\ last \in Seq(V) /\ Len(last) = k
        /\ \A i \in 1..k : last[i] = ids[(m - k + 1) + i - 1]
    <3> DEFINE a == m - k + 1
    <3>1. a \in 1..(Len(ids) + 1) /\ m \in 0..Len(ids)  BY <2>3
    <3>2. \A i \in a..m : ids[i] \in V
      <4>1. \A i \in a..m : i \in 1..m  BY <2>3
      <4>2. QED  BY <2>2, <4>1
    <3>3. m - a + 1 = k /\ a \in Int /\ m \in Int  BY <1>1, <1>4, <1>5
    <3>4. IF a <= m THEN m - a + 1 = k ELSE k = 0  BY <1>1, <1>4, <1>5
    <3> HIDE DEF a
    <3>5. /\ SubSeq(ids, a, m) \in Seq(V)
          /\ Len(SubSeq(ids, a, m)) = IF a <= m THEN m - a + 1 ELSE 0
          /\ \A i \in 1..(m - a + 1) : SubSeq(ids, a, m)[i] = ids[a + i - 1]
      BY <2>2, <3>2, <3>3, SubSeqProperties
    <3>6. QED  BY <3>3, <3>4, <3>5 DEF a
  <2>5. got \in Seq(Nat) /\ Len(got) = k /\ \A i \in 1..k : got[i] = r[i].id
    <3>1. \A i \in 1..k : r[i] \in Items  BY <1>4
    <3>2. \A i \in 1..k : r[i].id \in Nat  BY <3>1 DEF Items
    <3>3. got = [i \in 1..k |-> r[i].id]  BY <1>4
    <3>4. k \in Nat  BY <1>4
    <3> HIDE DEF got, r
    <3>5. QED  BY <3>2, <3>3, <3>4
  <2> HIDE DEF got, last, V
  <2>6. \A i \in 1..k : got[i] = last[i]  BY <1>3, <2>1, <2>4, <2>5
  <2>7. QED  BY <2>4, <2>5, <2>6, SeqEqual DEF V
<1>8. QueueFor(n, ids) = [ids |-> last, dropped |-> IF k = 0 THEN 0 ELSE m - k]
  BY <1>6, Zenon DEF QueueFor, m
<1>9. CASE k = 0
  <2>1. r = <<>>  BY <1>4, <1>9 DEF k
  <2>2. Unless(q) = EmptyQueue  BY <2>1 DEF Unless
  <2>3. Ids(Unless(q)) = [ids |-> [i \in DOMAIN <<>> |-> <<>>[i].id], dropped |-> 0]
    BY <2>2 DEF Ids, EmptyQueue
  <2>4. got = [i \in DOMAIN <<>> |-> <<>>[i].id]  BY <2>1
  <2>5. QED  BY <1>7, <1>8, <1>9, <2>3, <2>4
<1>10. CASE k # 0
  <2>1. r # <<>>  BY <1>10 DEF k
  <2>2. Unless(q) = q  BY <2>1 DEF Unless
  <2>3. Ids(Unless(q)) = [ids |-> got, dropped |-> m - k]  BY <1>2, <2>2 DEF Ids
  <2>4. QED  BY <1>7, <1>8, <1>10, <2>3
<1>11. QED  BY <1>9, <1>10

(* The calls of one kind, and one more call.                               *)
OfIn(s, what) == {i \in DOMAIN s : s[i].what = what}

(* One more call is the last of its kind, and changes nothing for the      *)
(* others.                                                                 *)
LEMMA OneMoreCall ==
  ASSUME NEW V, NEW s \in Seq(V), NEW c \in V, NEW what
  PROVE  /\ OfIn(s, what) \in SUBSET (1..Len(s)) /\ IsFiniteSet(OfIn(s, what))
         /\ InOrder(OfIn(s, what)) \in Seq(Nat)
         /\ OfIn(Append(s, c), what) =
              IF c.what = what THEN OfIn(s, what) \union {Len(s) + 1} ELSE OfIn(s, what)
         /\ InOrder(OfIn(Append(s, c), what)) =
              IF c.what = what THEN Append(InOrder(OfIn(s, what)), Len(s) + 1)
                               ELSE InOrder(OfIn(s, what))
<1> DEFINE n == Len(s)
           t == Append(s, c)
           S == OfIn(s, what)
<1>1. /\ n \in Nat /\ DOMAIN s = 1..n /\ DOMAIN t = 1..(n + 1) /\ t[n + 1] = c
      /\ \A i \in 1..n : t[i] = s[i]
  OBVIOUS
<1> HIDE DEF t, n
<1>2. \A i : i \in 1..(n + 1) <=> i \in 1..n \/ i = n + 1  BY <1>1
<1>3. n + 1 \notin 1..n  BY <1>1
<1>4. OfIn(t, what) = IF c.what = what THEN S \union {n + 1} ELSE S
  <2>1. \A i : i \in OfIn(t, what) <=> i \in S \/ (i = n + 1 /\ c.what = what)
    BY <1>1, <1>2, <1>3 DEF OfIn
  <2> HIDE DEF S
  <2>2. QED  BY <2>1
<1>5. S \in SUBSET (1..n)  BY <1>1 DEF OfIn
<1> HIDE DEF S
<1>6. IsFiniteSet(S)
  <2> DEFINE D == 1..n
  <2>1. IsFiniteSet(D)
    <3>1. n \in Nat  BY <1>1
    <3>2. QED  BY <3>1, FS_Interval
  <2>2. S \subseteq D  BY <1>5
  <2> HIDE DEF D
  <2>3. QED  BY <2>1, <2>2, FS_Subset
<1>7. S \subseteq Int /\ S \subseteq Nat  BY <1>1, <1>5
<1>8. InOrder(S) \in Seq(Nat)
  <2>1. Cardinality(S) \in Nat /\ InOrder(S) \in [1..Cardinality(S) -> S]  BY <1>6, <1>7, InOrderIs
  <2> DEFINE f == InOrder(S)
             m == Cardinality(S)
  <2>2. f = [p \in 1..m |-> f[p]] /\ \A p \in 1..m : f[p] \in Nat  BY <1>7, <2>1
  <2>3. m \in Nat  BY <2>1
  <2> HIDE DEF f, m
  <2>4. f \in Seq(Nat)  BY <2>2, <2>3
  <2>5. QED  BY <2>4 DEF f
<1>9. InOrder(S \union {n + 1}) = Append(InOrder(S), n + 1)
  <2>1. n + 1 \in Int /\ \A y \in S : y < n + 1  BY <1>1, <1>5
  <2>2. QED  BY <1>6, <1>7, <2>1, InOrderAppend
<1>10. QED  BY <1>4, <1>5, <1>6, <1>8, <1>9 DEF S, t, n

-----------------------------------------------------------------------------
(* Spans: what a snapshot should hold, from what was called.               *)

SpanValues == UNION {ToSet(list) : list \in Lists}
SpanCalls ==
  [what : {"set"}, arg : Lists] \union [what : {"event", "link"}, arg : {0, 2}]
    \union [what : {"status"}, arg : 0..2]

AttributesFor(list, n) ==
  [i \in DOMAIN KeptOf(list, n) |-> Meant(LastOf(ValidOf(list), KeptOf(list, n)[i]))]

Codes(s) == {0} \union {s[i].arg : i \in OfIn(s, "status")}

RightReport(r, list, n, s) ==
  /\ r.attributes = AttributesFor(list, n)
  /\ r.dropped = Cardinality(LostOf(list, n))
  /\ Ids(r.events) = QueueFor(n, InOrder(OfIn(s, "event")))
  /\ Ids(r.links) = QueueFor(n, InOrder(OfIn(s, "link")))
  /\ r.status.code = Max(Codes(s))

(* The invariant: what is kept stands for the calls at any time, not only  *)
(* in a snapshot; what is handed over is right, and no call changes what   *)
(* it should hold once the span has ended; and one call of End hands over, *)
(* unless all calls let the lock go.                                       *)
SpanTypeOK ==
  /\ limit \in Int /\ traced \in BOOLEAN /\ dropped \in Nat
  /\ offered \in Seq(SpanValues) /\ calls \in Seq(SpanCalls)
  /\ handed \in Seq(ToSet(handed))

AttributesStand == Stands(SpanValues, limit, offered, attributes, dropped)

QueuesStand ==
  /\ QueueHolds(limit, InOrder(OfIn(calls, "event")), events)
  /\ QueueHolds(limit, InOrder(OfIn(calls, "link")), links)

StatusStands == status.code \in Codes(calls) /\ \A y \in Codes(calls) : y <= status.code

EndsInOrder ==
  /\ ender \in [Enders -> {"idle", "unlocked", "ended", "returned"}]
  /\ endTime = "zero" =>
       handed = <<>> /\ \A e \in Enders : ender[e] \in {"idle", "unlocked"}
  /\ endTime # "zero" => handed # <<>> \/ \E e \in Enders : ender[e] = "ended"
  /\ ~traced =>
       /\ \A e \in Enders : ender[e] # "unlocked"
       /\ \A e, f \in Enders : ender[e] = "ended" /\ ender[f] = "ended" => e = f
       /\ handed # <<>> => \A e \in Enders : ender[e] # "ended"
       /\ Len(handed) <= 1

HandedRight ==
  \A i \in DOMAIN handed : RightReport(handed[i], offered, limit, calls)

SpanIInv ==
  /\ SpanTypeOK
  /\ AttributesStand
  /\ QueuesStand
  /\ StatusStands
  /\ EndsInOrder
  /\ HandedRight

(* The codes that were set, with one more call.                            *)
LEMMA OneMoreCode ==
  ASSUME NEW s \in Seq(SpanCalls), NEW c \in SpanCalls
  PROVE  /\ Codes(s) \subseteq 0..2
         /\ Codes(Append(s, c)) =
              IF c.what = "status" THEN Codes(s) \union {c.arg} ELSE Codes(s)
<1> DEFINE n == Len(s)
           t == Append(s, c)
           S == OfIn(s, "status")
<1>1. /\ n \in Nat /\ t[n + 1] = c /\ \A i \in 1..n : t[i] = s[i] /\ s[i] \in SpanCalls
  OBVIOUS
<1>2. S \in SUBSET (1..n) /\ OfIn(t, "status") = IF c.what = "status" THEN S \union {n + 1} ELSE S
  BY OneMoreCall
<1>3. n + 1 \notin 1..n  BY <1>1
<1>4. ASSUME NEW d \in SpanCalls, d.what = "status" PROVE d.arg \in 0..2
  BY <1>4 DEF SpanCalls
<1>5. \A i \in S : s[i].what = "status"  BY DEF OfIn
<1> HIDE DEF t, n, S
<1>6. \A i \in S : s[i].arg \in 0..2 /\ t[i] = s[i]  BY <1>1, <1>2, <1>4, <1>5
<1>7. Codes(s) = {0} \union {s[i].arg : i \in S}  BY DEF Codes, S
<1>8. Codes(t) = {0} \union {t[i].arg : i \in OfIn(t, "status")}  BY DEF Codes
<1>9. Codes(s) \subseteq 0..2
  <2>1. 0 \in 0..2  OBVIOUS
  <2>2. QED  BY <1>6, <1>7, <2>1
<1>10. CASE c.what = "status"
  <2>1. Codes(t) = {0} \union {t[i].arg : i \in S \union {n + 1}}  BY <1>2, <1>8, <1>10
  <2> DEFINE U == {t[i].arg : i \in S}
  <2>2. {t[i].arg : i \in S \union {n + 1}} = U \union {t[n + 1].arg}  OBVIOUS
  <2>4. Codes(s) = {0} \union U  BY <1>6, <1>7
  <2>5. t[n + 1].arg = c.arg  BY <1>1
  <2> HIDE DEF U
  <2>6. Codes(t) = Codes(s) \union {c.arg}  BY <2>1, <2>2, <2>4, <2>5
  <2>7. QED  BY <1>9, <1>10, <2>6 DEF t
<1>11. CASE c.what # "status"
  <2>1. \A y : y \in Codes(t) <=> y \in Codes(s)
    BY <1>2, <1>6, <1>7, <1>8, <1>11
  <2>2. Codes(t) = Codes(s)  BY <2>1
  <2>3. QED  BY <1>9, <1>11, <2>2 DEF t
<1>12. QED  BY <1>10, <1>11

(* A snapshot of attributes that stand for a list, without duplicates, has *)
(* what it should have of the list.                                        *)
LEMMA DedupedReports ==
  ASSUME NEW n \in Int, NEW list \in Seq(SpanValues), NEW s, NEW d,
         Stands(SpanValues, n, list, s, d)
  PROVE  Deduped(s) = AttributesFor(list, n)
<1> DEFINE V == SpanValues
           W == Normals(V)
           v == ValidOf(list)
           kept == KeptOf(list, n)
           t == Deduped(s)
<1>1. /\ s \in Seq(W) /\ FirstKeys(s) = kept
      /\ \A k \in KeysOf(s) : LastOf(s, k) = Normal(LastOf(v, k))
  BY DEF Stands
<1>2. t \in Seq(W) /\ Once(t) /\ Same(t, s)
  <2> HIDE DEF W
  <2>1. QED  BY <1>1, DedupedSays
<1>3. t = [i \in DOMAIN kept |-> LastOf(s, kept[i])]
  <2> HIDE DEF W, kept, t
  <2>1. t = [i \in DOMAIN FirstKeys(s) |-> LastOf(s, FirstKeys(s)[i])]  BY <1>1, <1>2, SameOnce
  <2>2. QED  BY <1>1, <2>1
<1>4. v \in Seq(V \ {Invalid})
  <2> DEFINE U == V \union {0}
  <2>1. list \in Seq(U) /\ 0 \in U  OBVIOUS
  <2> HIDE DEF V
  <2>2. QED
    <3>1. CASE V = {}
      <4>1. list = <<>>
        <5>1. Len(list) \in Nat /\ \A i \in 1..Len(list) : list[i] \in V  BY DEF V
        <5>2. ~ (1 \in 1..Len(list))  BY <3>1, <5>1
        <5>3. QED  BY <5>1, <5>2 DEF V
      <4>2. {i \in DOMAIN list : list[i] # Invalid} = {}  BY <4>1
      <4>3. Sublist(list, {}) \in Seq(V) /\ Len(Sublist(list, {})) = Cardinality({})
        BY SublistType DEF V
      <4>4. v = <<>>
        <5>1. Cardinality({}) = 0  BY FS_EmptySet
        <5>2. v = Sublist(list, {})  BY <4>2 DEF ValidOf
        <5>3. v \in Seq(V) /\ Len(v) = 0  BY <4>3, <5>1, <5>2
        <5> HIDE DEF v
        <5>4. QED  BY <5>3
      <4>5. QED  BY <4>4
    <3>2. CASE V # {}
      <4>1. PICK a \in V : TRUE  BY <3>2
      <4>2. QED  BY <4>1, ValidAppend DEF V
    <3>3. QED  BY <3>1, <3>2
<1>5. ASSUME NEW a \in V \ {Invalid} PROVE Normal(a) = Meant(a)
  <2>1. PICK list1 \in Lists : a \in ToSet(list1)  BY DEF SpanValues
  <2>2. Norm[a[2]] = Canonical[a[2]]  BY <2>1, SpanAssumption
  <2>3. QED  BY <2>2 DEF Normal, Meant
<1>6. ToSet(kept) \subseteq KeysOf(v) /\ kept \in Seq(KeysOf(v))  BY KeptIs
<1>7. ASSUME NEW i \in DOMAIN kept PROVE LastOf(s, kept[i]) = Meant(LastOf(v, kept[i]))
  <2> DEFINE k == kept[i]
             U == V \ {Invalid}
  <2>1. k \in ToSet(kept)  BY DEF ToSet
  <2>2. ToSet(FirstKeys(s)) = KeysOf(s)
    <3> HIDE DEF W
    <3>1. QED  BY <1>1, KeysAre
  <2>3. k \in KeysOf(s) /\ k \in KeysOf(v)  BY <1>1, <1>6, <2>1, <2>2
  <2> HIDE DEF k
  <2>4. LastOf(s, k) = Normal(LastOf(v, k))  BY <1>1, <2>3
  <2>5. v \in Seq(U)  BY <1>4
  <2> HIDE DEF v, V, U
  <2>6. Has(v, k)  BY <2>3, <2>5, KeysAre
  <2>7. LastOf(v, k) \in U
    <3>1. U # {}
      <4>1. PICK i1 \in DOMAIN v : Key(v[i1]) = k  BY <2>3 DEF KeysOf
      <4>2. v[i1] \in U  BY <2>5, <4>1
      <4>3. QED  BY <4>2
    <3>2. PICK a \in U : TRUE  BY <3>1
    <3>3. QED  BY <2>5, <2>6, <3>2, LastOfAppend
  <2>8. QED  BY <1>5, <2>4, <2>7 DEF U, k
<1>8. AttributesFor(list, n) = [i \in DOMAIN kept |-> Meant(LastOf(v, kept[i]))]
  BY DEF AttributesFor
<1> HIDE DEF kept, t, v
<1>9. t = [i \in DOMAIN kept |-> Meant(LastOf(v, kept[i]))]  BY <1>3, <1>7
<1>10. QED  BY <1>8, <1>9 DEF t

(* What stands for the calls is right to report.                           *)
LEMMA SnapshotRight ==
  ASSUME SpanIInv, NEW e
  PROVE  RightReport(Snapshot(e), offered, limit, calls)
<1> DEFINE r == Snapshot(e)
<1>1. /\ limit \in Int /\ offered \in Seq(SpanValues) /\ calls \in Seq(SpanCalls)
      /\ Stands(SpanValues, limit, offered, attributes, dropped)
      /\ QueueHolds(limit, InOrder(OfIn(calls, "event")), events)
      /\ QueueHolds(limit, InOrder(OfIn(calls, "link")), links)
      /\ status.code \in Codes(calls) /\ \A y \in Codes(calls) : y <= status.code
  BY DEF SpanIInv, SpanTypeOK, AttributesStand, QueuesStand, StatusStands
<1>2. /\ r.attributes = Deduped(attributes) /\ r.dropped = dropped
      /\ r.events = Unless(events) /\ r.links = Unless(links) /\ r.status = status
  BY DEF Snapshot
<1> HIDE DEF r
<1>3. r.attributes = AttributesFor(offered, limit)  BY <1>1, <1>2, DedupedReports
<1>4. r.dropped = Cardinality(LostOf(offered, limit))  BY <1>1, <1>2 DEF Stands
<1>5. PICK c \in SpanCalls : TRUE
  <2>1. [what |-> "status", arg |-> 0] \in SpanCalls  BY DEF SpanCalls
  <2>2. QED  BY <2>1
<1>6. /\ InOrder(OfIn(calls, "event")) \in Seq(Nat)
      /\ InOrder(OfIn(calls, "link")) \in Seq(Nat)
  BY <1>1, <1>5, OneMoreCall
<1>7. Ids(r.events) = QueueFor(limit, InOrder(OfIn(calls, "event")))
  BY <1>1, <1>2, <1>6, QueueReports
<1>8. Ids(r.links) = QueueFor(limit, InOrder(OfIn(calls, "link")))
  BY <1>1, <1>2, <1>6, QueueReports
<1>9. r.status.code = Max(Codes(calls))
  <2>1. Codes(calls) \subseteq Int
    <3>1. Codes(calls) \subseteq 0..2  BY <1>1, <1>5, OneMoreCode
    <3>2. QED  BY <3>1
  <2>2. Max(Codes(calls)) = status.code  BY <1>1, <2>1, MaxIs
  <2>3. QED  BY <1>2, <2>2
<1>10. QED  BY <1>3, <1>4, <1>7, <1>8, <1>9, Zenon DEF RightReport, r

(* A span begins like this.                                                *)
LEMMA SpanStarts == SpanInit => SpanIInv
<1> SUFFICES ASSUME SpanInit PROVE SpanIInv  OBVIOUS
<1>1. /\ limit \in CountLimits /\ traced \in BOOLEAN
      /\ attributes = <<>> /\ dropped = 0
      /\ events = EmptyQueue /\ links = EmptyQueue
      /\ status = NoStatus
      /\ endTime = "zero" /\ ender = [e \in Enders |-> "idle"]
      /\ handed = <<>> /\ calls = <<>> /\ offered = <<>>
  BY DEF SpanInit
<1>2. limit \in Int  BY <1>1, SpanAssumption
<1>3. SpanTypeOK
  <2>1. <<>> \in Seq(SpanValues) /\ <<>> \in Seq(SpanCalls) /\ <<>> \in Seq(ToSet(<<>>))
    OBVIOUS
  <2>2. QED  BY <1>1, <1>2, <2>1 DEF SpanTypeOK
<1>4. AttributesStand  BY <1>1, <1>2, NoneStand DEF AttributesStand
<1>5. ASSUME NEW what PROVE OfIn(<<>>, what) = {} /\ InOrder({}) = <<>>
  <2>1. OfIn(<<>>, what) = {}  BY DEF OfIn
  <2>2. Cardinality({}) = 0 /\ IsFiniteSet({})  BY FS_EmptySet
  <2>3. InOrder({}) \in [1..Cardinality({}) -> {}]  BY <2>2, InOrderIs
  <2>4. DOMAIN InOrder({}) = 1..0  BY <2>2, <2>3
  <2>5. InOrder({}) = <<>>
    <3> DEFINE f == InOrder({})
    <3>1. f \in [1..0 -> {}]  BY <2>2, <2>3
    <3> HIDE DEF f
    <3>2. f \in Seq({}) /\ Len(f) = 0  BY <3>1
    <3>3. f = <<>>  BY <3>2
    <3>4. QED  BY <3>3 DEF f
  <2>6. QED  BY <2>1, <2>5
<1>6. QueueHolds(limit, <<>>, EmptyQueue)
  <2> DEFINE q == EmptyQueue
  <2>1. q.queue = <<>> /\ q.dropped = 0 /\ q \in [queue : Seq(Items), dropped : Nat]
    BY DEF EmptyQueue
  <2>2. Len(<<>>) = 0  OBVIOUS
  <2> HIDE DEF q
  <2>3. QueueHolds(limit, <<>>, q)  BY <1>2, <2>1, <2>2 DEF QueueHolds
  <2>4. QED  BY <2>3 DEF q
<1>7. QueuesStand  BY <1>1, <1>5, <1>6, Zenon DEF QueuesStand
<1>8. StatusStands
  <2>1. Codes(<<>>) = {0}  BY <1>5 DEF Codes
  <2>2. NoStatus.code = 0  BY Zenon DEF NoStatus
  <2> DEFINE c == status.code
  <2>3. c = 0  BY <1>1, <2>2, Zenon
  <2> HIDE DEF c
  <2>4. c \in {0} /\ \A y \in {0} : y <= c  BY <2>3
  <2>5. QED  BY <1>1, <2>1, <2>4, Zenon DEF StatusStands, c
<1>9. EndsInOrder
  <2>1. Len(handed) <= 1  BY <1>1
  <2>2. QED  BY <1>1, <2>1 DEF EndsInOrder
<1>10. HandedRight  BY <1>1 DEF HandedRight
<1>11. QED  BY <1>3, <1>4, <1>7, <1>8, <1>9, <1>10 DEF SpanIInv

-----------------------------------------------------------------------------
(* Spans: each step keeps the invariant.                                   *)

(* What every call that finds the span recording has in common: nothing is *)
(* handed over yet, and one more call is noted.                            *)
LEMMA CallNoted ==
  ASSUME SpanTypeOK, EndsInOrder, NEW c \in SpanCalls,
         isRecording, calls' = Append(calls, c),
         UNCHANGED <<limit, traced, endTime, ender, handed>>,
         offered' \in Seq(SpanValues), dropped' \in Nat
  PROVE  /\ SpanTypeOK' /\ EndsInOrder' /\ HandedRight'
         /\ \A what : InOrder(OfIn(calls', what)) =
                        IF c.what = what THEN Append(InOrder(OfIn(calls, what)), Len(calls) + 1)
                                         ELSE InOrder(OfIn(calls, what))
         /\ \A what : InOrder(OfIn(calls, what)) \in Seq(Nat)
         /\ Codes(calls) \subseteq 0..2
         /\ Codes(calls') = IF c.what = "status" THEN Codes(calls) \union {c.arg} ELSE Codes(calls)
<1>1. calls \in Seq(SpanCalls) /\ limit \in Int /\ traced \in BOOLEAN
      /\ handed \in Seq(ToSet(handed))
  BY DEF SpanTypeOK
<1>2. calls' \in Seq(SpanCalls)  BY <1>1
<1>3. SpanTypeOK'  BY <1>1, <1>2 DEF SpanTypeOK
<1>4. EndsInOrder'  BY DEF EndsInOrder
<1>5. HandedRight'
  <2>1. handed' = <<>>  BY DEF EndsInOrder, isRecording
  <2>2. QED  BY <2>1 DEF HandedRight
<1>6. /\ Codes(calls) \subseteq 0..2
      /\ Codes(calls') = IF c.what = "status" THEN Codes(calls) \union {c.arg} ELSE Codes(calls)
  BY <1>1, OneMoreCode
<1>7. ASSUME NEW what
      PROVE  /\ InOrder(OfIn(calls, what)) \in Seq(Nat)
             /\ InOrder(OfIn(calls', what)) =
                  IF c.what = what THEN Append(InOrder(OfIn(calls, what)), Len(calls) + 1)
                                   ELSE InOrder(OfIn(calls, what))
  BY <1>1, OneMoreCall
<1>8. QED  BY <1>3, <1>4, <1>5, <1>6, <1>7

(* SetAttributes, on every path.                                           *)
LEMMA AttributesSet ==
  ASSUME SpanIInv, NEW list \in Lists, SetAttributes(list)
  PROVE  SpanIInv'
<1> DEFINE c == [what |-> "set", arg |-> list]
<1>1. SpanTypeOK /\ AttributesStand /\ QueuesStand /\ StatusStands /\ EndsInOrder  BY DEF SpanIInv
<1>2. limit \in Int /\ dropped \in Nat /\ offered \in Seq(SpanValues)  BY <1>1 DEF SpanTypeOK
<1>3. list \in Seq(SpanValues)
  <2>1. list \in Seq(ToSet(list))  BY SpanAssumption
  <2>2. ToSet(list) \subseteq SpanValues  BY DEF SpanValues
  <2>3. QED  BY <2>1, <2>2
<1>4. /\ isRecording /\ calls' = Append(calls, c)
      /\ offered' = offered \o list
      /\ attributes' = Recorded(list).attributes /\ dropped' = Recorded(list).dropped
      /\ UNCHANGED <<limit, events, links, status, traced, endTime, ender, handed>>
  BY DEF SetAttributes, Called
<1>5. /\ Stands(SpanValues, limit, offered \o list, Recorded(list).attributes,
                Recorded(list).dropped)
      /\ Recorded(list).dropped \in Nat
  BY <1>1, <1>2, <1>3, RecordedStands DEF AttributesStand
<1>6. AttributesStand'  BY <1>4, <1>5 DEF AttributesStand
<1>7. offered' \in Seq(SpanValues) /\ dropped' \in Nat
  BY <1>2, <1>3, <1>4, <1>5, ConcatProperties
<1>8. c \in SpanCalls /\ c.what = "set"  BY DEF SpanCalls
<1> HIDE DEF c
<1>9. /\ SpanTypeOK' /\ EndsInOrder' /\ HandedRight'
      /\ InOrder(OfIn(calls', "event")) = InOrder(OfIn(calls, "event"))
      /\ InOrder(OfIn(calls', "link")) = InOrder(OfIn(calls, "link"))
      /\ Codes(calls') = Codes(calls)
  BY <1>1, <1>4, <1>7, <1>8, CallNoted
<1>10. QueuesStand'  BY <1>1, <1>4, <1>9, Zenon DEF QueuesStand
<1>11. StatusStands'  BY <1>1, <1>4, <1>9, Zenon DEF StatusStands
<1>12. QED  BY <1>6, <1>9, <1>10, <1>11 DEF SpanIInv

(* An item notes which call it is of.                                      *)
LEMMA ItemType ==
  ASSUME SpanTypeOK, NEW n \in {0, 2}
  PROVE  Item(n) \in Items /\ Item(n).id = Len(calls) + 1
<1>1. Len(calls) \in Nat  BY DEF SpanTypeOK
<1>2. Kept(n) \in Int  BY SpanAssumption DEF Kept
<1> DEFINE k == Kept(n)
           m == Len(calls)
<1> HIDE DEF k, m
<1>3. [id |-> m + 1, attrs |-> k, dropped |-> n - k] \in Items  BY <1>1, <1>2 DEF k, m, Items
<1>4. Item(n) = [id |-> m + 1, attrs |-> k, dropped |-> n - k]  BY DEF Item, k, m
<1>5. QED  BY <1>3, <1>4 DEF m

(* AddEvent.                                                               *)
LEMMA EventAdded ==
  ASSUME SpanIInv, NEW n \in {0, 2}, AddEvent(n)
  PROVE  SpanIInv'
<1> DEFINE c == [what |-> "event", arg |-> n]
           x == Item(n)
<1>1. SpanTypeOK /\ AttributesStand /\ QueuesStand /\ StatusStands /\ EndsInOrder  BY DEF SpanIInv
<1>2. limit \in Int /\ dropped \in Nat /\ offered \in Seq(SpanValues)  BY <1>1 DEF SpanTypeOK
<1>3. /\ isRecording /\ calls' = Append(calls, c) /\ events' = Evict(events, x)
      /\ UNCHANGED <<limit, attributes, dropped, links, status, traced, endTime, ender,
                     handed, offered>>
  BY DEF AddEvent, Called
<1>4. AttributesStand'  BY <1>1, <1>3 DEF AttributesStand
<1>5. c \in SpanCalls /\ c.what = "event"  BY DEF SpanCalls
<1>6. x \in Items /\ x.id = Len(calls) + 1  BY <1>1, ItemType
<1> HIDE DEF c, x
<1>7. /\ SpanTypeOK' /\ EndsInOrder' /\ HandedRight'
      /\ InOrder(OfIn(calls', "event")) = Append(InOrder(OfIn(calls, "event")), x.id)
      /\ InOrder(OfIn(calls', "link")) = InOrder(OfIn(calls, "link"))
      /\ InOrder(OfIn(calls, "event")) \in Seq(Nat)
      /\ Codes(calls') = Codes(calls)
  BY <1>1, <1>2, <1>3, <1>5, <1>6, CallNoted
<1>8. QueueHolds(limit, Append(InOrder(OfIn(calls, "event")), x.id), Evict(events, x))
  <2>1. QueueHolds(limit, InOrder(OfIn(calls, "event")), events)  BY <1>1 DEF QueuesStand
  <2>2. QED  BY <1>2, <1>6, <1>7, <2>1, EvictHolds
<1>9. QueuesStand'  BY <1>1, <1>3, <1>7, <1>8, Zenon DEF QueuesStand
<1>10. StatusStands'  BY <1>1, <1>3, <1>7, Zenon DEF StatusStands
<1>11. QED  BY <1>4, <1>7, <1>9, <1>10 DEF SpanIInv

(* AddLink.                                                                *)
LEMMA LinkAdded ==
  ASSUME SpanIInv, NEW n \in {0, 2}, AddLink(n)
  PROVE  SpanIInv'
<1> DEFINE c == [what |-> "link", arg |-> n]
           x == Item(n)
<1>1. SpanTypeOK /\ AttributesStand /\ QueuesStand /\ StatusStands /\ EndsInOrder  BY DEF SpanIInv
<1>2. limit \in Int /\ dropped \in Nat /\ offered \in Seq(SpanValues)  BY <1>1 DEF SpanTypeOK
<1>3. /\ isRecording /\ calls' = Append(calls, c) /\ links' = Evict(links, x)
      /\ UNCHANGED <<limit, attributes, dropped, events, status, traced, endTime, ender,
                     handed, offered>>
  BY DEF AddLink, Called
<1>4. AttributesStand'  BY <1>1, <1>3 DEF AttributesStand
<1>5. c \in SpanCalls /\ c.what = "link"  BY DEF SpanCalls
<1>6. x \in Items /\ x.id = Len(calls) + 1  BY <1>1, ItemType
<1> HIDE DEF c, x
<1>7. /\ SpanTypeOK' /\ EndsInOrder' /\ HandedRight'
      /\ InOrder(OfIn(calls', "event")) = InOrder(OfIn(calls, "event"))
      /\ InOrder(OfIn(calls', "link")) = Append(InOrder(OfIn(calls, "link")), x.id)
      /\ InOrder(OfIn(calls, "link")) \in Seq(Nat)
      /\ Codes(calls') = Codes(calls)
  BY <1>1, <1>2, <1>3, <1>5, <1>6, CallNoted
<1>8. QueueHolds(limit, Append(InOrder(OfIn(calls, "link")), x.id), Evict(links, x))
  <2>1. QueueHolds(limit, InOrder(OfIn(calls, "link")), links)  BY <1>1 DEF QueuesStand
  <2>2. QED  BY <1>2, <1>6, <1>7, <2>1, EvictHolds
<1>9. QueuesStand'  BY <1>1, <1>3, <1>7, <1>8, Zenon DEF QueuesStand
<1>10. StatusStands'  BY <1>1, <1>3, <1>7, Zenon DEF StatusStands
<1>11. QED  BY <1>4, <1>7, <1>9, <1>10 DEF SpanIInv

(* A status keeps the greatest code that was set.                          *)
LEMMA StatusSet ==
  ASSUME SpanIInv, NEW code \in 0..2, NEW text, SetStatus(code, text)
  PROVE  SpanIInv'
<1> DEFINE c == [what |-> "status", arg |-> code]
           said == IF code = CodeError THEN text ELSE ""
<1>1. SpanTypeOK /\ AttributesStand /\ QueuesStand /\ StatusStands /\ EndsInOrder  BY DEF SpanIInv
<1>2. limit \in Int /\ dropped \in Nat /\ offered \in Seq(SpanValues)  BY <1>1 DEF SpanTypeOK
<1>3. /\ isRecording /\ calls' = Append(calls, c)
      /\ status' = IF status.code > code THEN status
                   ELSE [code |-> code, description |-> said]
      /\ UNCHANGED <<limit, attributes, dropped, events, links, traced, endTime, ender,
                     handed, offered>>
  BY Zenon DEF SetStatus, Called
<1>4. AttributesStand'  BY <1>1, <1>3 DEF AttributesStand
<1>5. c \in SpanCalls /\ c.what = "status" /\ c.arg = code  BY DEF SpanCalls
<1> HIDE DEF c, said
<1>6. /\ SpanTypeOK' /\ EndsInOrder' /\ HandedRight'
      /\ InOrder(OfIn(calls', "event")) = InOrder(OfIn(calls, "event"))
      /\ InOrder(OfIn(calls', "link")) = InOrder(OfIn(calls, "link"))
      /\ Codes(calls) \subseteq 0..2 /\ Codes(calls') = Codes(calls) \union {code}
  BY <1>1, <1>2, <1>3, <1>5, CallNoted
<1>7. QueuesStand'  BY <1>1, <1>3, <1>6, Zenon DEF QueuesStand
<1>8. StatusStands'
  <2> DEFINE k == status.code
             S == Codes(calls)
  <2>1. k \in S /\ \A y \in S : y <= k  BY <1>1 DEF StatusStands
  <2>2. status'.code = IF k > code THEN k ELSE code  BY <1>3
  <2> HIDE DEF k, S
  <2>3. S \subseteq 0..2 /\ Codes(calls') = S \union {code}  BY <1>6 DEF S
  <2> DEFINE l == status'.code
             T == Codes(calls')
  <2>4. l = IF k > code THEN k ELSE code  BY <2>2
  <2>5. T = S \union {code}  BY <2>3
  <2> HIDE DEF l, T
  <2>6. l \in T /\ \A y \in T : y <= l  BY <2>1, <2>3, <2>4, <2>5
  <2>7. QED  BY <2>6 DEF StatusStands, l, T
<1>9. QED  BY <1>4, <1>6, <1>7, <1>8 DEF SpanIInv

(* Ending a span changes nothing of what it has recorded.                  *)
LEMMA NothingRecorded ==
  ASSUME SpanIInv,
         UNCHANGED <<limit, attributes, dropped, events, links, status, traced, handed,
                     calls, offered>>
  PROVE  /\ SpanTypeOK' /\ AttributesStand' /\ QueuesStand' /\ StatusStands' /\ HandedRight'
<1>1. SpanTypeOK /\ AttributesStand /\ QueuesStand /\ StatusStands /\ HandedRight
  BY DEF SpanIInv
<1>2. SpanTypeOK'  BY <1>1 DEF SpanTypeOK
<1>3. AttributesStand'  BY <1>1 DEF AttributesStand
<1>4. QueuesStand'  BY <1>1 DEF QueuesStand
<1>5. StatusStands'  BY <1>1 DEF StatusStands
<1>6. HandedRight'  BY <1>1 DEF HandedRight
<1>7. QED  BY <1>2, <1>3, <1>4, <1>5, <1>6

(* The first part of End: refused, or to the end of the trace task, or     *)
(* ended at once.                                                          *)
LEMMA EndedLocked ==
  ASSUME SpanIInv, NEW e \in Enders, EndLocked(e)
  PROVE  SpanIInv'
<1>1. EndsInOrder /\ SpanTypeOK  BY DEF SpanIInv
<1>2. /\ ender[e] = "idle"
      /\ UNCHANGED <<limit, attributes, dropped, events, links, status, traced, handed,
                     calls, offered>>
  BY DEF EndLocked
<1>3. /\ SpanTypeOK' /\ AttributesStand' /\ QueuesStand' /\ StatusStands' /\ HandedRight'
  BY <1>2, NothingRecorded
<1>4. /\ ender \in [Enders -> {"idle", "unlocked", "ended", "returned"}]
      /\ endTime = "zero" =>
           handed = <<>> /\ \A f \in Enders : ender[f] \in {"idle", "unlocked"}
      /\ endTime # "zero" => handed # <<>> \/ \E f \in Enders : ender[f] = "ended"
      /\ ~traced =>
           /\ \A f \in Enders : ender[f] # "unlocked"
           /\ \A f, g \in Enders : ender[f] = "ended" /\ ender[g] = "ended" => f = g
           /\ handed # <<>> => \A f \in Enders : ender[f] # "ended"
           /\ Len(handed) <= 1
  BY <1>1 DEF EndsInOrder
<1>5. EndsInOrder'
  <2>1. CASE ~ isRecording
    <3>1. ender' = [ender EXCEPT ![e] = "returned"] /\ endTime' = endTime /\ endTime # "zero"
      BY <2>1 DEF EndLocked, Refuses, isRecording
    <3>2. QED  BY <1>2, <1>4, <3>1 DEF EndsInOrder
  <2>2. CASE isRecording /\ traced
    <3>1. ender' = [ender EXCEPT ![e] = "unlocked"] /\ endTime' = endTime /\ endTime = "zero"
      BY <2>2 DEF EndLocked, Refuses, isRecording
    <3>2. QED  BY <1>2, <1>4, <2>2, <3>1 DEF EndsInOrder
  <2>3. CASE isRecording /\ ~ traced
    <3>1. ender' = [ender EXCEPT ![e] = "ended"] /\ endTime' = e /\ endTime = "zero"
      BY <2>3 DEF EndLocked, Refuses, isRecording
    <3>2. endTime' # "zero"  BY <3>1, SpanAssumption
    <3>3. handed' = <<>> /\ Len(handed') <= 1  BY <1>2, <1>4, <3>1
    <3>4. ender'[e] = "ended" /\ \A f \in Enders : f # e => ender'[f] = ender[f]
      BY <1>4, <3>1
    <3>5. \A f \in Enders : ender[f] = "idle"  BY <1>4, <2>3, <3>1
    <3>6. ender' \in [Enders -> {"idle", "unlocked", "ended", "returned"}]  BY <1>4, <3>1
    <3>7. \A f \in Enders : ender'[f] # "unlocked" /\ (ender'[f] = "ended" => f = e)
      BY <3>4, <3>5
    <3>8. QED  BY <3>2, <3>3, <3>4, <3>6, <3>7 DEF EndsInOrder
  <2>4. QED  BY <1>1, <2>1, <2>2, <2>3 DEF SpanTypeOK
<1>6. QED  BY <1>3, <1>5 DEF SpanIInv

(* The second part, after the trace task has ended.                        *)
LEMMA EndedRelocked ==
  ASSUME SpanIInv, NEW e \in Enders, EndRelocked(e)
  PROVE  SpanIInv'
<1>1. EndsInOrder  BY DEF SpanIInv
<1>2. /\ ender[e] = "unlocked" /\ ender' = [ender EXCEPT ![e] = "ended"] /\ endTime' = e
      /\ UNCHANGED <<limit, attributes, dropped, events, links, status, traced, handed,
                     calls, offered>>
  BY DEF EndRelocked
<1>3. /\ SpanTypeOK' /\ AttributesStand' /\ QueuesStand' /\ StatusStands' /\ HandedRight'
  BY <1>2, NothingRecorded
<1>4. EndsInOrder'
  <2>1. endTime' # "zero"  BY <1>2, SpanAssumption
  <2>2. traced' /\ ender' \in [Enders -> {"idle", "unlocked", "ended", "returned"}]
        /\ ender'[e] = "ended"
    BY <1>1, <1>2 DEF EndsInOrder
  <2>3. QED  BY <2>1, <2>2 DEF EndsInOrder
<1>5. QED  BY <1>3, <1>4 DEF SpanIInv

(* The snapshot that is handed over is right, and the span still is.       *)
LEMMA HandedOver ==
  ASSUME SpanIInv, NEW e \in Enders, HandOver(e)
  PROVE  SpanIInv'
<1>1. SpanTypeOK /\ AttributesStand /\ QueuesStand /\ StatusStands /\ EndsInOrder /\ HandedRight
  BY DEF SpanIInv
<1>2. /\ ender[e] = "ended" /\ ender' = [ender EXCEPT ![e] = "returned"]
      /\ attributes' = Deduped(attributes) /\ handed' = Append(handed, Snapshot(e))
      /\ UNCHANGED <<limit, dropped, events, links, status, traced, endTime, calls, offered>>
  BY DEF HandOver
<1> DEFINE r == Snapshot(e)
           S == ToSet(handed) \union {r}
<1>3. RightReport(r, offered, limit, calls)  BY SnapshotRight
<1>4. handed \in Seq(S) /\ r \in S  BY <1>1 DEF SpanTypeOK
<1> HIDE DEF r, S
<1>5. /\ handed' = Append(handed, r) /\ handed' \in Seq(S) /\ Len(handed') = Len(handed) + 1
      /\ handed'[Len(handed) + 1] = r /\ \A i \in 1..Len(handed) : handed'[i] = handed[i]
      /\ Len(handed) \in Nat /\ handed # <<>> => Len(handed) # 0
  BY <1>2, <1>4 DEF r
<1>6. SpanTypeOK'
  <2>1. ToSet(handed') = ToSet(handed) \union {r}  BY <1>4, <1>5, AppendElements
  <2>2. handed' \in Seq(ToSet(handed'))  BY <1>5, <2>1 DEF S
  <2>3. QED  BY <1>1, <1>2, <2>2 DEF SpanTypeOK
<1>7. AttributesStand'
  <2>1. Stands(SpanValues, limit, offered, Deduped(attributes), dropped)
    BY <1>1, DedupedStand DEF AttributesStand, SpanTypeOK
  <2>2. QED  BY <1>2, <2>1 DEF AttributesStand
<1>8. QueuesStand' /\ StatusStands'  BY <1>1, <1>2 DEF QueuesStand, StatusStands
<1>9. HandedRight'
  <2>1. ASSUME NEW i \in DOMAIN handed' PROVE RightReport(handed'[i], offered, limit, calls)
    <3>1. i \in 1..Len(handed) \/ i = Len(handed) + 1  BY <1>5
    <3>2. \A j \in 1..Len(handed) : j \in DOMAIN handed  BY <1>4
    <3>3. QED  BY <1>1, <1>3, <1>5, <3>1, <3>2 DEF HandedRight
  <2>2. QED  BY <1>2, <2>1 DEF HandedRight
<1>10. EndsInOrder'
  <2>1. /\ ender \in [Enders -> {"idle", "unlocked", "ended", "returned"}]
        /\ endTime # "zero"
        /\ ~traced =>
             /\ \A f \in Enders : ender[f] # "unlocked"
             /\ \A f, g \in Enders : ender[f] = "ended" /\ ender[g] = "ended" => f = g
             /\ handed = <<>>
    BY <1>1, <1>2 DEF EndsInOrder
  <2>2. /\ ender' \in [Enders -> {"idle", "unlocked", "ended", "returned"}]
        /\ \A f \in Enders : ender'[f] = IF f = e THEN "returned" ELSE ender[f]
    BY <1>2, <2>1
  <2>3. handed' # <<>> /\ (~traced => Len(handed') <= 1)  BY <1>5, <2>1
  <2>4. \A f \in Enders : ~traced => ender'[f] # "ended" /\ ender'[f] # "unlocked"
    BY <1>2, <2>1, <2>2
  <2>5. QED  BY <1>2, <2>1, <2>2, <2>3, <2>4 DEF EndsInOrder
<1>11. QED  BY <1>6, <1>7, <1>8, <1>9, <1>10 DEF SpanIInv

(* So every step keeps it.                                                 *)
LEMMA SpanStep == SpanIInv /\ [SpanNext]_spanVars => SpanIInv'
<1> SUFFICES ASSUME SpanIInv, [SpanNext]_spanVars PROVE SpanIInv'  OBVIOUS
<1>1. CASE \E list \in Lists : SetAttributes(list)  BY <1>1, AttributesSet
<1>2. CASE \E n \in {0, 2} : AddEvent(n) \/ AddLink(n)  BY <1>2, EventAdded, LinkAdded
<1>3. CASE \E code \in 0..2 : SetStatus(code, "text")  BY <1>3, StatusSet
<1>4. CASE \E e \in Enders : EndLocked(e) \/ EndRelocked(e) \/ HandOver(e)
  BY <1>4, EndedLocked, EndedRelocked, HandedOver
<1>5. CASE UNCHANGED spanVars
  <2>1. EndsInOrder'  BY <1>5 DEF SpanIInv, EndsInOrder, spanVars
  <2>2. QED  BY <1>5, <2>1, NothingRecorded DEF SpanIInv, spanVars
<1>6. CASE SpanOver  BY <1>5, <1>6 DEF SpanOver
<1>7. QED  BY <1>1, <1>2, <1>3, <1>4, <1>5, <1>6 DEF SpanNext

(* The invariant says of a snapshot what the calls amount to.              *)
LEMMA StandsAsDefined == SpanIInv => SnapshotAsDefined
<1> SUFFICES ASSUME SpanIInv PROVE SnapshotAsDefined  OBVIOUS
<1>1. HandedRight /\ EndsInOrder  BY DEF SpanIInv
<1>2. Valid = ValidOf(offered)  BY DEF Valid, Filter, ValidOf
<1>3. KeptKeys = KeptOf(offered, limit)  BY <1>2 DEF KeptKeys, KeptOf
<1>4. AttributesAsDefined = AttributesFor(offered, limit)
  BY <1>2, <1>3, Zenon DEF AttributesAsDefined, AttributesFor
<1>5. DroppedAsDefined = Cardinality(LostOf(offered, limit))
  BY <1>3, Zenon DEF DroppedAsDefined, LostOf
<1>6. ASSUME NEW what PROVE QueueAsDefined(what) = QueueFor(limit, InOrder(OfIn(calls, what)))
  BY Zenon DEF QueueAsDefined, QueueFor, Of, OfIn
<1>7. StatusAsDefined = Max(Codes(calls))  BY DEF StatusAsDefined, Codes, Of, OfIn
<1>8. ASSUME NEW i \in DOMAIN handed
      PROVE  /\ handed[i].attributes = AttributesAsDefined
             /\ handed[i].dropped = DroppedAsDefined
             /\ Ids(handed[i].events) = QueueAsDefined("event")
             /\ Ids(handed[i].links) = QueueAsDefined("link")
             /\ handed[i].status.code = StatusAsDefined
  <2>1. RightReport(handed[i], offered, limit, calls)  BY <1>1 DEF HandedRight
  <2>2. QED  BY <1>4, <1>5, <1>6, <1>7, <2>1, Zenon DEF RightReport
<1>9. ~traced => Len(handed) <= 1  BY <1>1 DEF EndsInOrder
<1>10. (\A e \in Enders : ender[e] = "returned") => handed # <<>>
  <2>1. Enders # {}  BY SpanAssumption
  <2>2. QED  BY <1>1, <2>1 DEF EndsInOrder
<1>11. QED  BY <1>8, <1>9, <1>10, Zenon DEF SnapshotAsDefined

(* For any limits, lists of attributes and calls of End: every snapshot    *)
(* that a span hands over holds the attributes, dropped counts, events,    *)
(* links and status that the calls before its end amount to.               *)
THEOREM SpanReportsCalls == SpanSpec => []SnapshotAsDefined
<1>1. SpanSpec => []SpanIInv
  BY SpanStarts, SpanStep, PTL DEF SpanSpec
<1>2. QED  BY <1>1, StandsAsDefined, PTL

-----------------------------------------------------------------------------
(* Handlers of slog: buffers.                                              *)

(* The empty sequence in front changes nothing.                            *)
LEMMA NothingInFront ==
  ASSUME NEW s, IsSeq(s)
  PROVE  <<>> \o s = s /\ s \o <<>> = s
BY IsSeqTogether

(* Arrays, and what a buffer of them has.  Later arrays keep earlier ones. *)
IsHeap(h) == IsSeq(h) /\ \A a \in 1..Len(h) : IsSeq(h[a])

IsBuffer(h, b) ==
  /\ b = [at |-> b.at, len |-> b.len, err |-> b.err]
  /\ b.at \in 0..Len(h) /\ b.len = IF b.at = 0 THEN 0 ELSE Len(h[b.at])

Keeps(g, h) == Len(h) <= Len(g) /\ \A a \in 1..Len(h) : g[a] = h[a]

(* What a buffer has is what its array has.                                *)
LEMMA ContentIs ==
  ASSUME NEW h, IsHeap(h), NEW b, IsBuffer(h, b)
  PROVE  /\ ContentIn(h, b) = IF b.at = 0 THEN <<>> ELSE h[b.at]
         /\ IsSeq(ContentIn(h, b)) /\ Len(ContentIn(h, b)) = b.len /\ b.len \in Nat
<1>1. CASE b.at = 0
  <2>1. ContentIn(h, b) = <<>> /\ b.len = 0  BY <1>1 DEF ContentIn, IsBuffer
  <2>2. <<>> \in Seq({}) /\ Len(<<>>) = 0  OBVIOUS
  <2>3. IsSeq(<<>>)  BY <2>2, IsSeqOf
  <2>4. QED  BY <1>1, <2>1, <2>2, <2>3
<1>2. CASE b.at # 0
  <2> DEFINE s == h[b.at]
             S == ToSet(s)
  <2>1. b.at \in 1..Len(h) /\ b.len = Len(s)  BY <1>2 DEF IsBuffer, IsHeap, IsSeq
  <2>2. s \in Seq(S)  BY <2>1 DEF IsHeap, IsSeq
  <2> HIDE DEF s, S
  <2>3. SubSeq(s, 1, Len(s)) = s  BY <2>2, WholePrefix
  <2>4. ContentIn(h, b) = s  BY <1>2, <2>1, <2>3 DEF ContentIn, s
  <2>5. Len(s) \in Nat /\ IsSeq(s)  BY <2>2 DEF IsSeq, S
  <2>6. QED  BY <1>2, <2>1, <2>4, <2>5 DEF s
<1>3. QED  BY <1>1, <1>2

(* Later arrays leave a buffer and what it has as they were.               *)
LEMMA ContentKept ==
  ASSUME NEW h, IsHeap(h), NEW g, IsHeap(g), Keeps(g, h), NEW b, IsBuffer(h, b)
  PROVE  IsBuffer(g, b) /\ ContentIn(g, b) = ContentIn(h, b)
<1>1. Len(h) \in Nat /\ Len(g) \in Nat  BY DEF IsHeap, IsSeq
<1>2. IsBuffer(g, b)  BY <1>1 DEF IsBuffer, Keeps
<1>3. b.at # 0 => b.at \in 1..Len(h)  BY <1>1 DEF IsBuffer
<1>4. b.at # 0 => g[b.at] = h[b.at]  BY <1>3 DEF Keeps
<1>5. QED  BY <1>2, <1>4, ContentIs

(* What is kept twice over is kept.                                        *)
LEMMA KeptOnAndOn ==
  ASSUME NEW h, IsHeap(h), NEW g, IsHeap(g), Keeps(g, h), NEW f, IsHeap(f), Keeps(f, g)
  PROVE  Keeps(f, h)
<1>1. Len(h) \in Nat /\ Len(g) \in Nat /\ Len(f) \in Nat  BY DEF IsHeap, IsSeq
<1>2. \A a \in 1..Len(h) : a \in 1..Len(g)  BY <1>1 DEF Keeps
<1>3. QED  BY <1>1, <1>2 DEF Keeps

(* A new array.                                                            *)
LEMMA FreshIs ==
  ASSUME IsHeap(heap), NEW list, IsSeq(list), NEW err
  PROVE  /\ IsHeap(Fresh(list, err).heap) /\ Keeps(Fresh(list, err).heap, heap)
         /\ Len(Fresh(list, err).heap) = Len(heap) + 1
         /\ Fresh(list, err).heap[Len(heap) + 1] = list
         /\ Fresh(list, err).buffer = [at |-> Len(heap) + 1, len |-> Len(list), err |-> err]
         /\ IsBuffer(Fresh(list, err).heap, Fresh(list, err).buffer)
         /\ ContentIn(Fresh(list, err).heap, Fresh(list, err).buffer) = list
<1> DEFINE V == ToSet(heap) \union {list}
           n == Len(heap)
           g == Append(heap, list)
           b == [at |-> n + 1, len |-> Len(list), err |-> err]
<1>1. heap \in Seq(V) /\ list \in V  BY DEF IsHeap, IsSeq
<1> HIDE DEF V
<1>2. /\ n \in Nat /\ g \in Seq(V) /\ Len(g) = n + 1 /\ g[n + 1] = list
      /\ \A a \in 1..n : g[a] = heap[a]
  BY <1>1
<1>3. Fresh(list, err).heap = g /\ Fresh(list, err).buffer = b  BY DEF Fresh
<1>4. b.at = n + 1 /\ b.len = Len(list) /\ b = [at |-> b.at, len |-> b.len, err |-> b.err]
  OBVIOUS
<1> HIDE DEF g, n, b
<1>5. IsHeap(g)
  <2>1. \A a \in 1..(n + 1) : a \in 1..n \/ a = n + 1  BY <1>2
  <2>2. \A a \in 1..n : IsSeq(heap[a])  BY DEF IsHeap, n
  <2>3. IsSeq(g)  BY <1>2, IsSeqOf
  <2>4. QED  BY <1>2, <2>1, <2>2, <2>3 DEF IsHeap
<1>6. Keeps(g, heap)  BY <1>2 DEF Keeps, n
<1>7. n + 1 # 0 /\ n + 1 \in 0..Len(g)  BY <1>2
<1>8. IsBuffer(g, b)  BY <1>2, <1>4, <1>7 DEF IsBuffer
<1>9. ContentIn(g, b) = list  BY <1>2, <1>4, <1>5, <1>7, <1>8, ContentIs
<1>10. QED  BY <1>2, <1>3, <1>5, <1>6, <1>8, <1>9 DEF b, n

(* The copy of a buffer, with more behind it: all earlier arrays stay.     *)
LEMMA CloneIs ==
  ASSUME IsHeap(heap), NEW b, IsBuffer(heap, b), NEW list, IsSeq(list),
         NEW copy, copy = Cloned(b), NEW added, added = AppendedTo(copy.heap, copy.buffer, list)
  PROVE  /\ IsHeap(added.heap) /\ Keeps(added.heap, heap)
         /\ IsBuffer(added.heap, added.buffer) /\ added.buffer.err = b.err
         /\ ContentIn(added.heap, added.buffer) = ContentIn(heap, b) \o list
<1> DEFINE old == ContentIn(heap, b)
           n == Len(heap)
           m == Len(old)
           k == Len(list)
           f == copy.heap
           all == old \o list
           g == added.heap
           d == added.buffer
<1>1. IsSeq(old) /\ Content(b) = old  BY ContentIs DEF Content
<1>2. /\ IsHeap(f) /\ Keeps(f, heap) /\ Len(f) = n + 1 /\ f[n + 1] = old
      /\ copy.buffer = [at |-> n + 1, len |-> m, err |-> b.err]
  BY <1>1, FreshIs DEF Cloned
<1>3. n \in Nat /\ m \in Nat /\ k \in Nat  BY <1>1 DEF IsHeap, IsSeq
<1>4. IsSeq(all) /\ Len(all) = m + k  BY <1>1, IsSeqTogether
<1>5. SubSeq(old, 1, m) \o list \o SubSeq(old, m + k + 1, m) = all
  <2> DEFINE V == ToSet(old) \union ToSet(list)
  <2>1. old \in Seq(V) /\ list \in Seq(V)  BY <1>1 DEF IsSeq
  <2> HIDE DEF V, old
  <2>2. SubSeq(old, 1, m) = old  BY <2>1, WholePrefix
  <2>3. SubSeq(old, m + k + 1, m) = <<>>
    <3>1. ~ (m + k + 1 <= m)  BY <1>3
    <3>2. SubSeq(old, m + k + 1, m) \in Seq(V) /\ Len(SubSeq(old, m + k + 1, m)) = 0
      <4> DEFINE a == m + k + 1
      <4>1. a \in Int /\ m \in Int /\ ~ (a <= m) /\ \A i \in a..m : old[i] \in V  BY <1>3, <3>1
      <4> HIDE DEF a, m
      <4>2. SubSeq(old, a, m) \in Seq(V) /\ Len(SubSeq(old, a, m)) = IF a <= m THEN m - a + 1 ELSE 0
        BY <4>1, SubSeqProperties
      <4>3. QED  BY <4>1, <4>2 DEF a
    <3>3. QED  BY <3>2
  <2>4. (old \o list) \o <<>> = old \o list  BY <2>1
  <2>5. QED  BY <2>2, <2>3, <2>4
<1> HIDE DEF old, n, m, k, f, all
<1>6. copy.buffer.at = n + 1 /\ copy.buffer.len = m  BY <1>2
<1>7. g = [f EXCEPT ![n + 1] = all]
  <2>1. g = [f EXCEPT ![n + 1] = SubSeq(@, 1, m) \o list \o SubSeq(@, m + k + 1, Len(@))]
    BY <1>6 DEF AppendedTo, f, k
  <2>2. Len(f[n + 1]) = m /\ f[n + 1] = old  BY <1>2 DEF m
  <2>3. QED  BY <1>5, <2>1, <2>2
<1>8. d = [at |-> n + 1, len |-> m + k, err |-> b.err]
  <2>1. d = [copy.buffer EXCEPT !.len = @ + k]  BY DEF AppendedTo, k
  <2>2. QED  BY <1>2, <2>1
<1> HIDE DEF g, d
<1>9. IsSeq(f)  BY <1>2 DEF IsHeap
<1>10. /\ Len(g) = n + 1 /\ g[n + 1] = all /\ \A a \in 1..n : g[a] = f[a]
       /\ IsSeq(g)
  <2> DEFINE V == ToSet(f) \union {all}
             N == n + 1
  <2>1. f \in Seq(V) /\ all \in V  BY <1>9 DEF IsSeq
  <2>2. N \in 1..Len(f) /\ Len(f) = N  BY <1>2, <1>3
  <2> HIDE DEF V, N
  <2>3. g = [f EXCEPT ![N] = all]  BY <1>7 DEF N
  <2>4. /\ g \in Seq(V) /\ Len(g) = Len(f) /\ g[N] = all
        /\ \A a \in 1..Len(f) : a # N => g[a] = f[a]
    BY <2>1, <2>2, <2>3, ExceptSeq
  <2>5. \A a \in 1..n : a \in 1..Len(f) /\ a # N  BY <1>2, <1>3 DEF N
  <2>6. IsSeq(g)  BY <2>4, IsSeqOf
  <2>7. QED  BY <2>2, <2>4, <2>5, <2>6 DEF N
<1>11. \A a \in 1..(n + 1) : a \in 1..n \/ a = n + 1  BY <1>3
<1>12. IsHeap(g)
  <2>1. \A a \in 1..n : a \in 1..Len(f)  BY <1>2, <1>3
  <2>2. QED  BY <1>2, <1>4, <1>10, <1>11, <2>1 DEF IsHeap
<1>13. Keeps(g, heap)
  <2>1. Len(heap) <= Len(g)  BY <1>3, <1>10 DEF n
  <2>2. QED  BY <1>2, <1>10, <2>1 DEF Keeps, n
<1>14. /\ d.at = n + 1 /\ d.len = m + k /\ d.err = b.err
       /\ d = [at |-> d.at, len |-> d.len, err |-> d.err]
  BY <1>8
<1>15. n + 1 # 0 /\ n + 1 \in 0..Len(g)  BY <1>3, <1>10
<1>16. IsBuffer(g, d)  BY <1>4, <1>10, <1>14, <1>15 DEF IsBuffer
<1>17. ContentIn(g, d) = all  BY <1>10, <1>12, <1>14, <1>15, <1>16, ContentIs
<1>18. QED  BY <1>12, <1>13, <1>14, <1>16, <1>17 DEF g, d, all, old

-----------------------------------------------------------------------------
(* Handlers of slog: lists, and what they are enclosed in.                 *)

(* The converted attributes of a list are a list, also of two together.     *)
LEMMA ConvertedType ==
  ASSUME NEW list, IsSeq(list)
  PROVE  IsSeq(Converted(list))
<1> DEFINE V == ToSet(list)
           P == {i \in DOMAIN list : ~ IsError(list[i])}
<1>1. list \in Seq(V)  BY DEF IsSeq
<1>2. Converted(list) = Sublist(list, P)  BY DEF Converted, Filter
<1>3. P \in SUBSET (1..Len(list))  BY <1>1
<1> HIDE DEF P, V
<1>4. Sublist(list, P) \in Seq(V)  BY <1>1, <1>3, SublistType
<1>5. QED  BY <1>2, <1>4, IsSeqOf

(* A group of a handler around what it holds: what Enclosed makes of a     *)
(* list and of the group it was given to, in one step.                     *)
Closed(inner, g) ==
  [list |-> IF inner.direct \/ g.list # <<>>
              THEN <<<<g.name, g.list \o inner.list>>>> ELSE inner.list,
   direct |-> FALSE]

(* The two ways to go outward, and what a fold of either one computes.     *)
Shell(k, inner, op) == IF k = 1 THEN Enclosed(inner, op) ELSE Closed(inner, op)

ShellFold(k, base, s, D, h) ==
  h = [u \in SUBSET D |-> IF u = {} THEN base ELSE Shell(k, h[u \ {Max(u)}], s[Max(u)])]

(* There is a fold over the places of a sequence, for either way.          *)
LEMMA ShellFoldExists ==
  ASSUME NEW k, NEW base, NEW s, NEW D, IsFiniteSet(D), D \subseteq Int
  PROVE  \E h : ShellFold(k, base, s, D, h)
<1> DEFINE F == {U \in SUBSET D : \E h : ShellFold(k, base, s, U, h)}
<1>1. ASSUME NEW U \in SUBSET D, \A x \in U : U \ {x} \in F PROVE U \in F
  <2>1. CASE U = {}
    <3> DEFINE h == [u \in SUBSET U |-> base]
    <3>1. \A u \in SUBSET U : u = {}  BY <2>1
    <3>2. h = [u \in SUBSET U |-> IF u = {} THEN base
                                  ELSE Shell(k, h[u \ {Max(u)}], s[Max(u)])]
      BY <3>1
    <3> HIDE DEF h
    <3>3. ShellFold(k, base, s, U, h)  BY <3>2 DEF ShellFold
    <3>4. QED  BY <3>3
  <2>2. CASE U # {}
    <3> DEFINE m == Max(U)
    <3>1. IsFiniteSet(U) /\ U \subseteq Int  BY FS_Subset
    <3>2. m \in U /\ m \in Int /\ \A y \in U : y <= m  BY <2>2, <3>1, Extremes
    <3> HIDE DEF m
    <3>3. PICK g : ShellFold(k, base, s, U \ {m}, g)  BY <1>1, <3>2
    <3>4. /\ DOMAIN g = SUBSET (U \ {m})
          /\ \A u \in SUBSET (U \ {m}) :
               g[u] = IF u = {} THEN base ELSE Shell(k, g[u \ {Max(u)}], s[Max(u)])
      BY <3>3 DEF ShellFold
    <3> DEFINE h == [u \in SUBSET U |-> IF m \in u THEN Shell(k, g[u \ {m}], s[m]) ELSE g[u]]
               J(f, u) == IF u = {} THEN base ELSE Shell(k, f[u \ {Max(u)}], s[Max(u)])
    <3>5. \A u \in SUBSET U : h[u] = IF m \in u THEN Shell(k, g[u \ {m}], s[m]) ELSE g[u]
      OBVIOUS
    <3>6. h = [u \in SUBSET U |-> h[u]]  OBVIOUS
    <3> HIDE DEF h
    <3>7. ASSUME NEW u \in SUBSET U PROVE h[u] = J(h, u)
      <4>1. CASE u = {}
        <5>1. u \in SUBSET (U \ {m}) /\ m \notin u  BY <4>1
        <5>2. QED  BY <3>4, <3>5, <4>1, <5>1
      <4>2. CASE m \in u
        <5>1. Max(u) = m  BY <3>1, <3>2, <4>2, MaxIs
        <5>2. u \ {m} \in SUBSET U /\ m \notin u \ {m} /\ u # {}  BY <4>2
        <5>3. h[u \ {m}] = g[u \ {m}]  BY <3>5, <5>2
        <5>4. h[u] = Shell(k, g[u \ {m}], s[m])  BY <3>5, <4>2
        <5>5. QED  BY <5>1, <5>2, <5>3, <5>4
      <4>3. CASE u # {} /\ m \notin u
        <5>1. u \in SUBSET (U \ {m})  BY <4>3
        <5>2. h[u] = g[u] /\ g[u] = Shell(k, g[u \ {Max(u)}], s[Max(u)])
          BY <3>4, <3>5, <4>3, <5>1
        <5>3. u \ {Max(u)} \in SUBSET U /\ m \notin u \ {Max(u)}  BY <4>3
        <5>4. h[u \ {Max(u)}] = g[u \ {Max(u)}]  BY <3>5, <5>3
        <5>5. QED  BY <4>3, <5>2, <5>4
      <4>4. QED  BY <4>1, <4>2, <4>3
    <3>8. h = [u \in SUBSET U |-> J(h, u)]
      <4> HIDE DEF J
      <4>1. QED  BY <3>6, <3>7
    <3>9. ShellFold(k, base, s, U, h)  BY <3>8 DEF ShellFold
    <3>10. QED  BY <3>9
  <2>3. QED  BY <2>1, <2>2
<1>2. D \in F
  <2> HIDE DEF F
  <2>1. QED  BY <1>1, FiniteInduction
<1>3. QED  BY <1>2

(* v comes out of base by one step for each element of s.                  *)
Through(k, base, s, v) ==
  \E d : d[0] = base /\ d[Len(s)] = v /\ \A i \in 1..Len(s) : d[i] = Shell(k, d[i - 1], s[i])

(* What it computes goes through the sequence.                             *)
LEMMA FoldGoesThrough ==
  ASSUME NEW k, NEW base, NEW s, IsSeq(s), NEW h, ShellFold(k, base, s, DOMAIN s, h)
  PROVE  Through(k, base, s, h[DOMAIN s])
<1> DEFINE n == Len(s)
           d == [i \in 0..n |-> h[1..i]]
<1>1. n \in Nat /\ DOMAIN s = 1..n  BY DEF IsSeq
<1>2. \A u \in SUBSET (1..n) :
        h[u] = IF u = {} THEN base ELSE Shell(k, h[u \ {Max(u)}], s[Max(u)])
  BY <1>1 DEF ShellFold
<1> HIDE DEF n
<1>3. \A i \in 0..n : d[i] = h[1..i]  OBVIOUS
<1> HIDE DEF d
<1>4. 0 \in 0..n /\ n \in 0..n /\ 1..0 = {} /\ {} \in SUBSET (1..n)  BY <1>1
<1>5. d[0] = base /\ d[n] = h[1..n]  BY <1>2, <1>3, <1>4
<1>6. ASSUME NEW i \in 1..n PROVE d[i] = Shell(k, d[i - 1], s[i])
  <2>1. /\ 1..i \in SUBSET (1..n) /\ 1..i # {} /\ Max(1..i) = i
        /\ (1..i) \ {i} = 1..(i - 1) /\ i - 1 \in 0..n /\ i \in 0..n
    BY <1>1, FirstPlaces
  <2> DEFINE u == 1..i
             w == 1..(i - 1)
  <2>2. h[u] = Shell(k, h[w], s[i])
    <3>1. u \in SUBSET (1..n) /\ u # {} /\ Max(u) = i /\ u \ {i} = w  BY <2>1
    <3> HIDE DEF u, w
    <3>2. QED  BY <1>2, <3>1
  <2>3. d[i] = h[u] /\ d[i - 1] = h[w]  BY <1>3, <2>1
  <2>4. QED  BY <2>2, <2>3
<1>7. QED  BY <1>1, <1>5, <1>6 DEF Through, n

(* There is one way through a sequence.                                    *)
LEMMA OneWayThrough ==
  ASSUME NEW k, NEW base, NEW s, IsSeq(s), NEW v, NEW w,
         Through(k, base, s, v), Through(k, base, s, w)
  PROVE  v = w
<1> DEFINE n == Len(s)
<1>1. n \in Nat  BY DEF IsSeq
<1>2. PICK d : d[0] = base /\ d[n] = v /\ \A i \in 1..n : d[i] = Shell(k, d[i - 1], s[i])
  BY DEF Through
<1>3. PICK e : e[0] = base /\ e[n] = w /\ \A i \in 1..n : e[i] = Shell(k, e[i - 1], s[i])
  BY DEF Through
<1> HIDE DEF n
<1> DEFINE T == {i \in Nat : i <= n => d[i] = e[i]}
<1>4. 0 \in T  BY <1>2, <1>3
<1>5. ASSUME NEW i \in Nat, i \in T PROVE i + 1 \in T
  <2> SUFFICES ASSUME i + 1 <= n PROVE d[i + 1] = e[i + 1]  OBVIOUS
  <2>1. i + 1 \in 1..n /\ (i + 1) - 1 = i /\ i <= n  BY <1>1
  <2>2. d[i] = e[i]  BY <1>5, <2>1
  <2>3. d[i + 1] = Shell(k, d[i], s[i + 1]) /\ e[i + 1] = Shell(k, e[i], s[i + 1])
    BY <1>2, <1>3, <2>1
  <2>4. QED  BY <2>2, <2>3
<1>6. Nat \subseteq T
  <2> HIDE DEF T
  <2>1. QED  BY <1>4, <1>5, SetInduction
<1>7. d[n] = e[n]  BY <1>1, <1>6
<1>8. QED  BY <1>2, <1>3, <1>7

(* One more element in front is one more step at first.                    *)
LEMMA OneMoreInFront ==
  ASSUME NEW k, NEW base, NEW s, IsSeq(s), NEW x, NEW v, Through(k, Shell(k, base, x), s, v)
  PROVE  Through(k, base, <<x>> \o s, v)
<1> DEFINE n == Len(s)
           t == <<x>> \o s
<1>1. n \in Nat  BY DEF IsSeq
<1>2. /\ Len(t) = n + 1 /\ t[1] = x /\ \A i \in 2..(n + 1) : t[i] = s[i - 1]
  <2> DEFINE V == ToSet(s) \union {x}
  <2>1. s \in Seq(V) /\ x \in V  BY DEF IsSeq
  <2> HIDE DEF V
  <2>2. QED  BY <2>1, PutInFront
<1> HIDE DEF t
<1>3. PICK d : /\ d[0] = Shell(k, base, x) /\ d[n] = v
               /\ \A i \in 1..n : d[i] = Shell(k, d[i - 1], s[i])
  BY DEF Through
<1> HIDE DEF n
<1> DEFINE e == [i \in 0..(n + 1) |-> IF i = 0 THEN base ELSE d[i - 1]]
<1>4. \A i \in 0..(n + 1) : e[i] = IF i = 0 THEN base ELSE d[i - 1]  OBVIOUS
<1> HIDE DEF e
<1>5. e[0] = base /\ e[n + 1] = v
  <2>1. 0 \in 0..(n + 1) /\ n + 1 \in 0..(n + 1) /\ n + 1 # 0 /\ (n + 1) - 1 = n  BY <1>1
  <2>2. QED  BY <1>3, <1>4, <2>1
<1>6. ASSUME NEW i \in 1..(n + 1) PROVE e[i] = Shell(k, e[i - 1], t[i])
  <2>1. i \in 0..(n + 1) /\ i # 0 /\ i - 1 \in 0..(n + 1)  BY <1>1
  <2>2. e[i] = d[i - 1] /\ e[i - 1] = IF i - 1 = 0 THEN base ELSE d[(i - 1) - 1]
    BY <1>4, <2>1
  <2>3. CASE i = 1
    <3>1. i - 1 = 0  BY <2>3
    <3>2. QED  BY <1>2, <1>3, <2>2, <2>3, <3>1
  <2>4. CASE i # 1
    <3>1. i \in 2..(n + 1) /\ i - 1 \in 1..n /\ i - 1 # 0  BY <1>1, <2>4
    <3>2. d[i - 1] = Shell(k, d[(i - 1) - 1], s[i - 1])  BY <1>3, <3>1
    <3>3. QED  BY <1>2, <2>2, <3>1, <3>2
  <2>5. QED  BY <2>3, <2>4
<1>7. QED  BY <1>2, <1>5, <1>6 DEF Through, t

(* The folds of Enclosed and of Closed go through the list.                *)
AllEnclosed(base, s) == FoldLeft(Enclosed, base, s)
AllClosed(base, s) == FoldLeft(Closed, base, s)

(* What Enclosed folds to goes through the list.                           *)
LEMMA EnclosedGoesThrough ==
  ASSUME NEW base, NEW s, IsSeq(s)
  PROVE  Through(1, base, s, AllEnclosed(base, s))
<1> DEFINE D == DOMAIN s
           Eq(h) == h = [u \in SUBSET D |->
                           IF u = {} THEN base ELSE Enclosed(h[u \ {Max(u)}], s[Max(u)])]
<1>1. \A h : Eq(h) <=> ShellFold(1, base, s, D, h)  BY DEF ShellFold, Shell
<1>2. IsFiniteSet(D) /\ D \subseteq Int
  <2>1. Len(s) \in Nat /\ D = 1..Len(s)  BY DEF IsSeq
  <2>2. QED  BY <2>1, FS_Interval
<1> DEFINE h == CHOOSE h : Eq(h)
<1>3. Eq(h)
  <2> HIDE DEF Eq, D
  <2>1. \E f : Eq(f)  BY <1>1, <1>2, ShellFoldExists
  <2>2. QED  BY <2>1
<1>4. AllEnclosed(base, s) = h[D]  BY DEF AllEnclosed, FoldLeft, MapThenFoldSet
<1> HIDE DEF h
<1>5. ShellFold(1, base, s, D, h)
  <2> HIDE DEF Eq, D
  <2>1. QED  BY <1>1, <1>3
<1>6. QED  BY <1>4, <1>5, FoldGoesThrough

(* The same for Closed.                                                    *)
LEMMA ClosedGoesThrough ==
  ASSUME NEW base, NEW s, IsSeq(s)
  PROVE  Through(2, base, s, AllClosed(base, s))
<1> DEFINE D == DOMAIN s
           Eq(h) == h = [u \in SUBSET D |->
                           IF u = {} THEN base ELSE Closed(h[u \ {Max(u)}], s[Max(u)])]
<1>1. \A h : Eq(h) <=> ShellFold(2, base, s, D, h)  BY DEF ShellFold, Shell
<1>2. IsFiniteSet(D) /\ D \subseteq Int
  <2>1. Len(s) \in Nat /\ D = 1..Len(s)  BY DEF IsSeq
  <2>2. QED  BY <2>1, FS_Interval
<1> DEFINE h == CHOOSE h : Eq(h)
<1>3. Eq(h)
  <2> HIDE DEF Eq, D
  <2>1. \E f : Eq(f)  BY <1>1, <1>2, ShellFoldExists
  <2>2. QED  BY <2>1
<1>4. AllClosed(base, s) = h[D]  BY DEF AllClosed, FoldLeft, MapThenFoldSet
<1> HIDE DEF h
<1>5. ShellFold(2, base, s, D, h)
  <2> HIDE DEF Eq, D
  <2>1. QED  BY <1>1, <1>3
<1>6. QED  BY <1>4, <1>5, FoldGoesThrough

(* So both take the first element first.                                   *)
LEMMA EnclosedFirst ==
  ASSUME NEW base, NEW s, IsSeq(s), NEW x
  PROVE  AllEnclosed(base, <<x>> \o s) = AllEnclosed(Enclosed(base, x), s)
<1>1. IsSeq(<<x>> \o s)
  <2>1. IsSeq(<<x>>)  BY IsSeqTogether
  <2>2. QED  BY <2>1, IsSeqTogether
<1>2. Shell(1, base, x) = Enclosed(base, x)  BY DEF Shell
<1>3. Through(1, base, <<x>> \o s, AllEnclosed(Enclosed(base, x), s))
  BY <1>2, EnclosedGoesThrough, OneMoreInFront
<1>4. Through(1, base, <<x>> \o s, AllEnclosed(base, <<x>> \o s))
  BY <1>1, EnclosedGoesThrough
<1>5. QED  BY <1>1, <1>3, <1>4, OneWayThrough

(* Nothing given encloses nothing.                                         *)
LEMMA EnclosedNone ==
  ASSUME NEW base
  PROVE  AllEnclosed(base, <<>>) = base
<1>1. IsSeq(<<>>)
  <2>1. <<>> \in Seq({})  OBVIOUS
  <2>2. QED  BY <2>1, IsSeqOf
<1>2. Through(1, base, <<>>, base)
  <2> DEFINE d == [i \in {0} |-> base]
  <2>1. d[0] = base /\ Len(<<>>) = 0 /\ 1..0 = {}  OBVIOUS
  <2> HIDE DEF d
  <2>2. QED  BY <2>1 DEF Through
<1>3. Through(1, base, <<>>, AllEnclosed(base, <<>>))  BY <1>1, EnclosedGoesThrough
<1>4. QED  BY <1>1, <1>2, <1>3, OneWayThrough

(* Closed takes the first one of a list first.                             *)
LEMMA ClosedFirst ==
  ASSUME NEW base, NEW s, IsSeq(s), NEW x
  PROVE  AllClosed(base, <<x>> \o s) = AllClosed(Closed(base, x), s)
<1>1. IsSeq(<<x>> \o s)
  <2>1. IsSeq(<<x>>)  BY IsSeqTogether
  <2>2. QED  BY <2>1, IsSeqTogether
<1>2. Shell(2, base, x) = Closed(base, x)  BY DEF Shell
<1>3. Through(2, base, <<x>> \o s, AllClosed(Closed(base, x), s))
  BY <1>2, ClosedGoesThrough, OneMoreInFront
<1>4. Through(2, base, <<x>> \o s, AllClosed(base, <<x>> \o s))
  BY <1>1, ClosedGoesThrough
<1>5. QED  BY <1>1, <1>3, <1>4, OneWayThrough

(* No groups close nothing.                                                *)
LEMMA ClosedNone ==
  ASSUME NEW base
  PROVE  AllClosed(base, <<>>) = base
<1>1. IsSeq(<<>>)
  <2>1. <<>> \in Seq({})  OBVIOUS
  <2>2. QED  BY <2>1, IsSeqOf
<1>2. Through(2, base, <<>>, base)
  <2> DEFINE d == [i \in {0} |-> base]
  <2>1. d[0] = base /\ Len(<<>>) = 0 /\ 1..0 = {}  OBVIOUS
  <2> HIDE DEF d
  <2>2. QED  BY <2>1 DEF Through
<1>3. Through(2, base, <<>>, AllClosed(base, <<>>))  BY <1>1, ClosedGoesThrough
<1>4. QED  BY <1>1, <1>2, <1>3, OneWayThrough

(* Groups without attributes are passed by, unless what they hold is       *)
(* rendered in any case.                                                   *)
LEMMA EmptyGroups ==
  ASSUME NEW shown, IsSeq(shown), NEW l \in 1..(Len(shown) + 1), NEW k \in l..(Len(shown) + 1),
         \A i \in l..(k - 1) : shown[i].list = <<>>, NEW out,
         NEW inner, inner = [list |-> out, direct |-> FALSE]
  PROVE  AllClosed(inner, SubSeq(shown, l, Len(shown)))
           = AllClosed(inner, SubSeq(shown, k, Len(shown)))
<1> DEFINE n == Len(shown)
           R(i) == AllClosed(inner, SubSeq(shown, i, Len(shown)))
           T == {i \in Nat : l + i <= k => R(l) = R(l + i)}
<1>1. n \in Nat /\ l \in 1..(n + 1) /\ k \in l..(n + 1)  BY DEF IsSeq
<1>2. l + 0 = l  BY <1>1
<1>3. ASSUME NEW i \in l..(k - 1) PROVE R(i) = R(i + 1)
  <2>1. i \in 1..(n + 1) /\ i <= n /\ i + 1 \in 1..(n + 1)  BY <1>1
  <2>2. SubSeq(shown, i, n) = <<shown[i]>> \o SubSeq(shown, i + 1, n)
        /\ IsSeq(SubSeq(shown, i + 1, n))
    BY <2>1, RestOf
  <2> DEFINE rest == SubSeq(shown, i + 1, n)
             first == shown[i]
  <2>3. R(i) = AllClosed(Closed(inner, first), rest)
    <3>1. R(i) = AllClosed(inner, <<first>> \o rest) /\ IsSeq(rest)  BY <2>2
    <3> HIDE DEF R, first, rest
    <3>2. AllClosed(inner, <<first>> \o rest) = AllClosed(Closed(inner, first), rest)
      BY <3>1, ClosedFirst, Zenon
    <3>3. QED  BY <3>1, <3>2
  <2>4. inner.direct = FALSE /\ inner.list = out  OBVIOUS
  <2>5. Closed(inner, shown[i]) = inner  BY <1>3, <2>4 DEF Closed
  <2>6. QED  BY <2>3, <2>5
<1> HIDE DEF n, R
<1>4. 0 \in T  BY <1>2
<1>5. ASSUME NEW i \in Nat, i \in T PROVE i + 1 \in T
  <2> SUFFICES ASSUME l + (i + 1) <= k PROVE R(l) = R(l + (i + 1))  OBVIOUS
  <2>1. l + i \in l..(k - 1) /\ l + i <= k /\ (l + i) + 1 = l + (i + 1)  BY <1>1
  <2>2. R(l) = R(l + i)  BY <1>5, <2>1
  <2>3. R(l + i) = R((l + i) + 1)  BY <1>3, <2>1
  <2>4. QED  BY <2>1, <2>2, <2>3
<1>6. Nat \subseteq T
  <2> HIDE DEF T
  <2>1. QED  BY <1>4, <1>5, SetInduction
<1>7. k - l \in Nat /\ l + (k - l) = k /\ l + (k - l) <= k  BY <1>1
<1>8. R(l) = R(k)  BY <1>6, <1>7
<1>9. QED  BY <1>8 DEF R, n

-----------------------------------------------------------------------------
(* Handlers of slog: errors.                                               *)

(* Places of a sequence have a first and a last one.                       *)
LEMMA SomePlaces ==
  ASSUME NEW n \in Nat, NEW F, F \subseteq 1..n
  PROVE  IsFiniteSet(F) /\ F \subseteq Int
<1> DEFINE D == 1..n
<1>1. IsFiniteSet(D) /\ D \subseteq Int /\ F \subseteq D  BY FS_Interval
<1> HIDE DEF D
<1>2. QED  BY <1>1, FS_Subset

GoodList(list) == IsSeq(list) /\ \A a \in ToSet(list) : IsError(a) => Key(a) # NoErr

(* The last error of a list is one, wherever the search began.             *)
LEMMA LastErrorIs ==
  ASSUME NEW list, GoodList(list), NEW before
  PROVE  /\ Errors(list) = {} => LastError(list, before) = before
         /\ Errors(list) # {} => /\ LastError(list, before) = LastError(list, NoErr)
                                 /\ LastError(list, NoErr) # NoErr
<1> DEFINE n == Len(list)
           E == Errors(list)
           m == Max(E)
<1>1. n \in Nat /\ DOMAIN list = 1..n /\ \A i \in 1..n : list[i] \in ToSet(list)
  <2>1. list \in Seq(ToSet(list))  BY DEF GoodList, IsSeq
  <2>2. DOMAIN list = 1..n /\ n \in Nat  BY <2>1
  <2>3. QED  BY <2>2 DEF ToSet
<1>2. ASSUME E # {} PROVE LastError(list, NoErr) # NoErr
  <2>1. IsFiniteSet(E) /\ E \subseteq Int
    <3>1. E \subseteq 1..n  BY <1>1 DEF Errors
    <3>2. QED  BY <1>1, <3>1, SomePlaces
  <2> HIDE DEF E, m
  <2>2. m \in E  BY <1>2, <2>1, Extremes DEF m
  <2>3. m \in 1..n /\ IsError(list[m])  BY <1>1, <2>2 DEF E, Errors
  <2>4. Key(list[m]) # NoErr  BY <1>1, <2>3 DEF GoodList
  <2>5. QED  BY <1>2, <2>4 DEF LastError, E, m
<1>3. QED  BY <1>2 DEF LastError

(* The last error given, with one more thing given.                        *)
LEMMA LastGivenAppend ==
  ASSUME NEW told, IsSeq(told), NEW op
  PROVE  LastGiven(Append(told, op))
           = IF ~ op.group /\ Errors(op.list) # {} THEN LastError(op.list, NoErr)
             ELSE LastGiven(told)
<1> DEFINE V == ToSet(told) \union {op}
           n == Len(told)
           all == Append(told, op)
           Failed(x) == ~ x.group /\ Errors(x.list) # {}
           F == {i \in DOMAIN told : Failed(told[i])}
           A == {i \in DOMAIN all : Failed(all[i])}
<1>1. told \in Seq(V) /\ op \in V  BY DEF IsSeq
<1> HIDE DEF V
<1>2. /\ n \in Nat /\ DOMAIN told = 1..n /\ DOMAIN all = 1..(n + 1) /\ all[n + 1] = op
      /\ \A i \in 1..n : all[i] = told[i]
  BY <1>1
<1>3. LastGiven(told) = IF F = {} THEN NoErr ELSE LastError(told[Max(F)].list, NoErr)
  BY DEF LastGiven
<1>4. LastGiven(all) = IF A = {} THEN NoErr ELSE LastError(all[Max(A)].list, NoErr)
  BY DEF LastGiven
<1> HIDE DEF n, all, Failed
<1>5. CASE Failed(op)
  <2>1. n + 1 \in A /\ A \subseteq Int /\ \A i \in A : i <= n + 1  BY <1>2, <1>5
  <2> HIDE DEF A
  <2>2. Max(A) = n + 1 /\ A # {}  BY <2>1, MaxIs
  <2>3. LastGiven(all) = LastError(op.list, NoErr)  BY <1>2, <1>4, <2>2
  <2>4. QED  BY <1>5, <2>3 DEF all, Failed
<1>6. CASE ~ Failed(op)
  <2>1. A = F
    <3>1. \A i \in 1..(n + 1) : i \in 1..n \/ i = n + 1  BY <1>2
    <3>2. \A i \in 1..n : i \in 1..(n + 1)  BY <1>2
    <3>3. QED  BY <1>2, <1>6, <3>1, <3>2
  <2>2. IsFiniteSet(F) /\ F \subseteq Int
    <3>1. F \subseteq 1..n  BY <1>2
    <3> HIDE DEF F
    <3>2. QED  BY <1>2, <3>1, SomePlaces
  <2>3. F # {} => all[Max(F)] = told[Max(F)]
    <3>1. \A i \in F : i \in 1..n  BY <1>2
    <3> HIDE DEF F, A
    <3>2. F # {} => Max(F) \in F  BY <2>2, Extremes
    <3>3. QED  BY <1>2, <3>1, <3>2
  <2> HIDE DEF F, A
  <2>4. LastGiven(all) = LastGiven(told)  BY <1>3, <1>4, <2>1, <2>3
  <2>5. QED  BY <1>6, <2>4 DEF all, Failed
<1>7. QED  BY <1>5, <1>6

(* The error of groups: only that of each, in their order, matters.        *)
LEMMA GroupErrSame ==
  ASSUME NEW groups, IsSeq(groups), NEW others, DOMAIN groups = DOMAIN others,
         \A i \in DOMAIN groups : groups[i].attrs.err = others[i].attrs.err
  PROVE  GroupErr(groups) = GroupErr(others)
<1> DEFINE F == {j \in DOMAIN groups : groups[j].attrs.err # NoErr}
           G == {j \in DOMAIN others : others[j].attrs.err # NoErr}
<1>1. F = G  OBVIOUS
<1>2. GroupErr(groups) = IF F = {} THEN NoErr ELSE groups[Min(F)].attrs.err  BY DEF GroupErr
<1>3. GroupErr(others) = IF G = {} THEN NoErr ELSE others[Min(G)].attrs.err  BY DEF GroupErr
<1>4. F # {} => Min(F) \in DOMAIN groups
  <2>1. IsFiniteSet(DOMAIN groups) /\ DOMAIN groups \subseteq Int
    <3>1. DOMAIN groups = 1..Len(groups) /\ Len(groups) \in Nat  BY DEF IsSeq
    <3>2. QED  BY <3>1, FS_Interval
  <2>2. F \subseteq DOMAIN groups  OBVIOUS
  <2> HIDE DEF F
  <2>3. IsFiniteSet(F) /\ F \subseteq Int  BY <2>1, <2>2, FS_Subset
  <2>4. F # {} => Min(F) \in F  BY <2>3, Extremes
  <2>5. QED  BY <2>2, <2>4
<1> DEFINE m == Min(F)
<1>5. GroupErr(groups) = IF F = {} THEN NoErr ELSE groups[m].attrs.err  BY <1>2
<1>6. GroupErr(others) = IF F = {} THEN NoErr ELSE others[m].attrs.err  BY <1>1, <1>3
<1>7. F # {} => m \in DOMAIN groups  BY <1>4
<1> HIDE DEF F, m
<1>8. QED  BY <1>5, <1>6, <1>7

(* The error of groups is that of the first, if it has one.                *)
LEMMA GroupErrFirst ==
  ASSUME NEW groups, IsSeq(groups), groups # <<>>
  PROVE  groups[1].attrs.err # NoErr => GroupErr(groups) = groups[1].attrs.err
<1> SUFFICES ASSUME groups[1].attrs.err # NoErr PROVE GroupErr(groups) = groups[1].attrs.err
  OBVIOUS
<1> DEFINE F == {j \in DOMAIN groups : groups[j].attrs.err # NoErr}
<1>1. 1 \in DOMAIN groups /\ \A j \in DOMAIN groups : j \in Int /\ 1 <= j  BY DEF IsSeq
<1>2. 1 \in F /\ F \subseteq Int /\ \A j \in F : 1 <= j  BY <1>1
<1>3. GroupErr(groups) = IF F = {} THEN NoErr ELSE groups[Min(F)].attrs.err  BY DEF GroupErr
<1> HIDE DEF F
<1>4. Min(F) = 1  BY <1>2, MinIs
<1>5. QED  BY <1>2, <1>3, <1>4

(* So it is with one more group in front.                                  *)
LEMMA GroupErrInFront ==
  ASSUME NEW groups, IsSeq(groups), NEW g, g.attrs.err = NoErr
  PROVE  GroupErr(<<g>> \o groups) = GroupErr(groups)
<1> DEFINE V == ToSet(groups) \union {g}
           n == Len(groups)
           more == <<g>> \o groups
           F == {j \in DOMAIN groups : groups[j].attrs.err # NoErr}
           G == {j \in DOMAIN more : more[j].attrs.err # NoErr}
<1>1. groups \in Seq(V) /\ g \in V  BY DEF IsSeq
<1> HIDE DEF V
<1>2. n \in Nat /\ DOMAIN groups = 1..n  BY <1>1
<1>3. /\ more \in Seq(V) /\ Len(more) = n + 1 /\ more[1] = g
      /\ \A i \in 2..(n + 1) : more[i] = groups[i - 1]
  BY <1>1, PutInFront
<1> HIDE DEF n, more
<1>4. DOMAIN more = 1..(n + 1)  BY <1>3
<1>5. GroupErr(groups) = IF F = {} THEN NoErr ELSE groups[Min(F)].attrs.err
  BY DEF GroupErr
<1>6. GroupErr(more) = IF G = {} THEN NoErr ELSE more[Min(G)].attrs.err
  BY DEF GroupErr
<1>7. \A j \in G : j \in 2..(n + 1) /\ j - 1 \in F
  <2>1. \A j \in 1..(n + 1) : j = 1 \/ (j \in 2..(n + 1) /\ j - 1 \in 1..n)  BY <1>2
  <2>2. QED  BY <1>2, <1>3, <1>4, <2>1
<1>8. \A j \in F : j + 1 \in G
  <2>1. \A j \in 1..n : j + 1 \in 2..(n + 1) /\ j + 1 \in 1..(n + 1) /\ (j + 1) - 1 = j  BY <1>2
  <2>2. QED  BY <1>2, <1>3, <1>4, <2>1
<1>9. IsFiniteSet(F) /\ F \subseteq Int /\ F \subseteq 1..n
  <2>1. F \subseteq 1..n  BY <1>2
  <2> HIDE DEF F
  <2>2. QED  BY <1>2, <2>1, SomePlaces
<1> HIDE DEF F, G
<1>10. CASE F = {}
  <2>1. G = {}  BY <1>7, <1>10
  <2>2. QED  BY <1>5, <1>6, <1>10, <2>1 DEF more
<1>11. CASE F # {}
  <2> DEFINE m == Min(F)
  <2>1. m \in F /\ \A j \in F : m <= j  BY <1>9, <1>11, Extremes
  <2> HIDE DEF m
  <2>2. m \in 1..n /\ m + 1 \in 2..(n + 1) /\ (m + 1) - 1 = m  BY <1>2, <1>9, <2>1
  <2>3. m + 1 \in G /\ \A j \in G : m + 1 <= j
    <3>1. \A j \in G : m <= j - 1 /\ j \in Int  BY <1>7, <2>1
    <3>2. QED  BY <1>8, <2>1, <2>2, <3>1
  <2>4. G \subseteq Int  BY <1>7
  <2>5. Min(G) = m + 1  BY <2>3, <2>4, MinIs
  <2>6. more[m + 1] = groups[m]  BY <1>3, <2>2
  <2>7. QED  BY <1>5, <1>6, <1>11, <2>3, <2>5, <2>6 DEF m, more
<1>12. QED  BY <1>10, <1>11

-----------------------------------------------------------------------------
(* Handlers of slog: what a handler shows is what it was given.            *)

IsGroup(h, g) == g = [name |-> g.name, attrs |-> g.attrs] /\ IsBuffer(h, g.attrs)

IsHandler(h, x) ==
  /\ x = [attrs |-> x.attrs, groups |-> x.groups, given |-> x.given]
  /\ IsBuffer(h, x.attrs) /\ IsSeq(x.groups) /\ IsSeq(x.given)
  /\ \A i \in DOMAIN x.groups : IsGroup(h, x.groups[i])

Shown(h, groups) ==
  [i \in DOMAIN groups |->
     [name |-> groups[i].name, list |-> ContentIn(h, groups[i].attrs)]]

(* Around any list: what is given last is innermost.                       *)
ShowsGiven(h, x) ==
  \A base : IsSeq(base.list) =>
    AllEnclosed(base, Reverse(x.given)).list
      = ContentIn(h, x.attrs) \o AllClosed(base, Shown(h, x.groups)).list

FailsAsGiven(x) ==
  LastGiven(x.given) = IF GroupErr(x.groups) # NoErr THEN GroupErr(x.groups) ELSE x.attrs.err

HandlerOK(h, x) == IsHandler(h, x) /\ ShowsGiven(h, x) /\ FailsAsGiven(x)

(* The groups a handler shows, one by one.                                 *)
LEMMA ShownIs ==
  ASSUME NEW h, IsHeap(h), NEW x, IsHandler(h, x)
  PROVE  /\ Len(x.groups) \in Nat /\ DOMAIN x.groups = 1..Len(x.groups)
         /\ IsSeq(Shown(h, x.groups)) /\ Len(Shown(h, x.groups)) = Len(x.groups)
         /\ \A i \in 1..Len(x.groups) :
              /\ Shown(h, x.groups)[i].name = x.groups[i].name
              /\ Shown(h, x.groups)[i].list = ContentIn(h, x.groups[i].attrs)
              /\ IsBuffer(h, x.groups[i].attrs)
<1> DEFINE gs == x.groups
           n == Len(gs)
           t == Shown(h, gs)
           one(i) == [name |-> gs[i].name, list |-> ContentIn(h, gs[i].attrs)]
           W == {one(i) : i \in 1..n}
<1>1. n \in Nat /\ DOMAIN gs = 1..n  BY DEF IsHandler, IsSeq
<1>2. \A i \in 1..n : IsBuffer(h, gs[i].attrs)  BY <1>1 DEF IsHandler, IsGroup
<1>3. t = [i \in 1..n |-> one(i)]  BY <1>1 DEF Shown
<1>4. \A i \in 1..n : one(i) \in W  OBVIOUS
<1>5. \A i \in 1..n : one(i).name = gs[i].name /\ one(i).list = ContentIn(h, gs[i].attrs)
  OBVIOUS
<1> HIDE DEF gs, n, t, one, W
<1>6. t \in Seq(W) /\ Len(t) = n /\ \A i \in 1..n : t[i] = one(i)  BY <1>1, <1>3, <1>4
<1>7. IsSeq(t)  BY <1>6, IsSeqOf
<1>8. QED  BY <1>1, <1>2, <1>5, <1>6, <1>7 DEF gs, n, t

(* As many as it has.                                                      *)
LEMMA ShownType ==
  ASSUME NEW h, IsHeap(h), NEW x, IsHandler(h, x)
  PROVE  IsSeq(Shown(h, x.groups)) /\ Len(Shown(h, x.groups)) = Len(x.groups)
BY ShownIs

(* A handler is as good as it was with more arrays.                        *)
LEMMA HandlerKept ==
  ASSUME NEW h, IsHeap(h), NEW g, IsHeap(g), Keeps(g, h), NEW x, IsHandler(h, x)
  PROVE  /\ IsHandler(g, x) /\ Shown(g, x.groups) = Shown(h, x.groups)
         /\ ContentIn(g, x.attrs) = ContentIn(h, x.attrs)
         /\ HandlerOK(h, x) => HandlerOK(g, x)
<1>1. IsBuffer(g, x.attrs) /\ ContentIn(g, x.attrs) = ContentIn(h, x.attrs)
  <2>1. IsBuffer(h, x.attrs)  BY DEF IsHandler
  <2>2. QED  BY <2>1, ContentKept
<1>2. ASSUME NEW i \in DOMAIN x.groups
      PROVE  /\ IsGroup(g, x.groups[i])
             /\ ContentIn(g, x.groups[i].attrs) = ContentIn(h, x.groups[i].attrs)
  <2> DEFINE b == x.groups[i].attrs
  <2>1. IsGroup(h, x.groups[i])  BY DEF IsHandler
  <2>2. IsBuffer(h, b)  BY <2>1 DEF IsGroup
  <2>3. IsBuffer(g, b) /\ ContentIn(g, b) = ContentIn(h, b)  BY <2>2, ContentKept
  <2>4. QED  BY <2>1, <2>3 DEF IsGroup
<1>3. IsHandler(g, x)  BY <1>1, <1>2 DEF IsHandler
<1>4. Shown(g, x.groups) = Shown(h, x.groups)  BY <1>2 DEF Shown
<1>5. ShowsGiven(h, x) => ShowsGiven(g, x)  BY <1>1, <1>4 DEF ShowsGiven
<1>6. QED  BY <1>1, <1>3, <1>4, <1>5 DEF HandlerOK

(* The first handler shows that nothing was given.                         *)
LEMMA NothingGiven ==
  ASSUME NEW h, IsHeap(h), NEW x,
         x = [attrs |-> NoBuffer, groups |-> <<>>, given |-> <<>>]
  PROVE  HandlerOK(h, x)
<1> DEFINE none == <<>>
<1>1. x.attrs = NoBuffer /\ x.groups = none /\ x.given = none  OBVIOUS
<1>2. /\ none \in Seq({}) /\ Len(none) = 0 /\ DOMAIN none = {} /\ none \o none = none
      /\ Reverse(none) = none
  BY DEF Reverse
<1>3. IsSeq(none)  BY <1>2, IsSeqOf
<1>4. IsBuffer(h, NoBuffer) /\ ContentIn(h, NoBuffer) = none /\ NoBuffer.err = NoErr
  <2>1. Len(h) \in Nat  BY DEF IsHeap, IsSeq
  <2>2. QED  BY <2>1 DEF IsBuffer, ContentIn, NoBuffer
<1>5. IsHandler(h, x)
  <2>1. x = [attrs |-> x.attrs, groups |-> x.groups, given |-> x.given]  OBVIOUS
  <2> HIDE DEF none
  <2>2. QED  BY <1>1, <1>2, <1>3, <1>4, <2>1 DEF IsHandler
<1>6. ShowsGiven(h, x)
  <2>1. Shown(h, none) = none  BY DEF Shown
  <2>2. \A base : AllEnclosed(base, none) = base /\ AllClosed(base, none) = base
    BY EnclosedNone, ClosedNone
  <2> HIDE DEF none
  <2>3. \A base : IsSeq(base.list) => none \o base.list = base.list
    BY IsSeqTogether DEF none
  <2>4. QED  BY <1>1, <1>2, <1>4, <2>1, <2>2, <2>3 DEF ShowsGiven
<1>7. FailsAsGiven(x)
  <2>1. GroupErr(none) = NoErr /\ LastGiven(none) = NoErr  BY DEF GroupErr, LastGiven
  <2> HIDE DEF none
  <2>2. QED  BY <1>1, <1>4, <2>1 DEF FailsAsGiven
<1>8. QED  BY <1>5, <1>6, <1>7 DEF HandlerOK

(* WithGroup.                                                              *)
LEMMA GroupOpened ==
  ASSUME NEW h, IsHeap(h), NEW x, HandlerOK(h, x), NEW name, NEW y,
         y = [x EXCEPT !.groups = <<[name |-> name, attrs |-> NoBuffer]>> \o @,
                       !.given = Append(@, [group |-> TRUE, list |-> <<name>>])]
  PROVE  HandlerOK(h, y)
<1> DEFINE g == [name |-> name, attrs |-> NoBuffer]
           op == [group |-> TRUE, list |-> <<name>>]
           gs == x.groups
           more == <<g>> \o gs
           told == Append(x.given, op)
<1>1. g.name = name /\ g.attrs = NoBuffer /\ op.group = TRUE /\ op.list[1] = name  OBVIOUS
<1>2. /\ IsHandler(h, x) /\ IsSeq(gs) /\ IsSeq(x.given)
      /\ x = [attrs |-> x.attrs, groups |-> gs, given |-> x.given]
  BY DEF HandlerOK, IsHandler
<1>3. IsBuffer(h, NoBuffer) /\ ContentIn(h, NoBuffer) = <<>> /\ NoBuffer.err = NoErr
  <2>1. Len(h) \in Nat  BY DEF IsHeap, IsSeq
  <2>2. QED  BY <2>1 DEF IsBuffer, ContentIn, NoBuffer
<1>4. IsGroup(h, g)
  <2>1. g = [name |-> g.name, attrs |-> g.attrs]  OBVIOUS
  <2> HIDE DEF g
  <2>2. QED  BY <1>1, <1>3, <2>1 DEF IsGroup
<1>5. y = [[x EXCEPT !.groups = more] EXCEPT !.given = told]  OBVIOUS
<1> HIDE DEF g, op, more, told
<1>6. y.attrs = x.attrs /\ y.groups = more /\ y.given = told
      /\ y = [attrs |-> x.attrs, groups |-> more, given |-> told]
  <2> DEFINE z == [x EXCEPT !.groups = more]
  <2>1. z = [attrs |-> x.attrs, groups |-> more, given |-> x.given]  BY <1>2
  <2> HIDE DEF z
  <2>2. y = [z EXCEPT !.given = told]  BY <1>5 DEF z
  <2> DEFINE w == [attrs |-> x.attrs, groups |-> more, given |-> told]
  <2>3. y = w  BY <2>1, <2>2
  <2>4. w.attrs = x.attrs /\ w.groups = more /\ w.given = told  OBVIOUS
  <2>5. y = [attrs |-> x.attrs, groups |-> more, given |-> told]  BY <2>3
  <2> HIDE DEF w
  <2>6. y.attrs = x.attrs /\ y.groups = more /\ y.given = told  BY <2>3, <2>4, Zenon
  <2>7. QED  BY <2>5, <2>6, Zenon
<1> DEFINE n == Len(gs)
<1>7. /\ IsSeq(more) /\ n \in Nat /\ Len(more) = n + 1 /\ more[1] = g /\ DOMAIN gs = 1..n
      /\ \A i \in 2..(n + 1) : more[i] = gs[i - 1]
  <2> DEFINE V == ToSet(gs) \union {g}
  <2>1. gs \in Seq(V) /\ g \in V  BY <1>2 DEF IsSeq
  <2> HIDE DEF V, gs
  <2>2. /\ more \in Seq(V) /\ Len(more) = n + 1 /\ more[1] = g
        /\ \A i \in 2..(n + 1) : more[i] = gs[i - 1]
    BY <2>1, PutInFront DEF more
  <2>3. IsSeq(more)  BY <2>2, IsSeqOf
  <2>4. QED  BY <2>1, <2>2, <2>3
<1>8. DOMAIN more = 1..(n + 1)  BY <1>7 DEF IsSeq
<1> HIDE DEF n, gs
<1>9. IsHandler(h, y)
  <2>1. \A i \in 1..(n + 1) : i = 1 \/ (i \in 2..(n + 1) /\ i - 1 \in 1..n)  BY <1>7
  <2>2. \A i \in 1..n : IsGroup(h, gs[i])  BY <1>2, <1>7 DEF IsHandler, gs
  <2>3. \A i \in 1..(n + 1) : IsGroup(h, more[i])  BY <1>4, <1>7, <2>1, <2>2
  <2>4. IsSeq(told)  BY <1>2, IsSeqTogether DEF told
  <2>5. IsBuffer(h, x.attrs)  BY <1>2 DEF IsHandler
  <2>6. QED  BY <1>6, <1>7, <1>8, <2>3, <2>4, <2>5 DEF IsHandler
<1>10. Shown(h, more) = <<[name |-> name, list |-> <<>>]>> \o Shown(h, gs)
  <2> DEFINE first == [name |-> name, list |-> <<>>]
             t == Shown(h, gs)
             u == Shown(h, more)
             V == ToSet(t) \union ToSet(u) \union {first}
  <2>1. /\ IsSeq(t) /\ Len(t) = n
        /\ \A i \in 1..n : t[i] = [name |-> gs[i].name, list |-> ContentIn(h, gs[i].attrs)]
    <3>1. IsSeq(t) /\ Len(t) = n  BY <1>2, ShownIs DEF n, gs
    <3>2. QED  BY <1>7, <3>1 DEF Shown
  <2>2. IsSeq(u) /\ Len(u) = n + 1
    <3>1. IsSeq(Shown(h, y.groups)) /\ Len(Shown(h, y.groups)) = Len(y.groups)
      BY <1>9, ShownIs, Zenon
    <3>2. QED  BY <1>6, <1>7, <3>1
  <2>3. \A i \in 1..(n + 1) :
          u[i] = [name |-> more[i].name, list |-> ContentIn(h, more[i].attrs)]
    BY <1>8 DEF Shown
  <2>4. t \in Seq(V) /\ u \in Seq(V) /\ first \in V  BY <2>1, <2>2 DEF IsSeq
  <2>5. u[1] = first
    <3>1. 1 \in 1..(n + 1)  BY <1>7
    <3>2. QED  BY <1>1, <1>3, <1>7, <2>3, <3>1
  <2>6. \A i \in 2..(n + 1) : u[i] = t[i - 1]
    <3>1. \A i \in 2..(n + 1) : i \in 1..(n + 1) /\ i - 1 \in 1..n  BY <1>7
    <3> HIDE DEF t, u
    <3>2. QED  BY <1>7, <2>1, <2>3, <3>1
  <2> HIDE DEF t, u, V, first
  <2>7. /\ <<first>> \o t \in Seq(V) /\ Len(<<first>> \o t) = n + 1 /\ (<<first>> \o t)[1] = first
        /\ \A i \in 2..(n + 1) : (<<first>> \o t)[i] = t[i - 1]
    BY <2>1, <2>4, PutInFront
  <2>8. \A i \in 1..(n + 1) : u[i] = (<<first>> \o t)[i]
    <3>1. \A i \in 1..(n + 1) : i = 1 \/ i \in 2..(n + 1)  BY <1>7
    <3>2. QED  BY <2>5, <2>6, <2>7, <3>1
  <2>9. u = <<first>> \o t  BY <2>2, <2>4, <2>7, <2>8, SeqEqual
  <2>10. QED  BY <2>9 DEF u, t, first
<1>11. ShowsGiven(h, y)
  <2> SUFFICES ASSUME NEW base, IsSeq(base.list)
               PROVE  AllEnclosed(base, Reverse(told)).list
                        = ContentIn(h, x.attrs) \o AllClosed(base, Shown(h, more)).list
    BY <1>6 DEF ShowsGiven
  <2> DEFINE r == Reverse(x.given)
             t == Shown(h, gs)
             first == [name |-> name, list |-> <<>>]
             inner == Enclosed(base, op)
  <2>1. IsSeq(r) /\ Reverse(told) = <<op>> \o r  BY <1>2, ReverseAppend DEF told
  <2>2. IsSeq(t)  BY <1>2, ShownIs DEF gs
  <2>3. Closed(base, first) = inner
    <3>1. first.name = name /\ first.list = <<>>  OBVIOUS
    <3> HIDE DEF first
    <3>2. <<>> \o base.list = base.list  BY IsSeqTogether
    <3>3. inner = [list |-> IF base.direct THEN <<<<name, base.list>>>> ELSE base.list,
                   direct |-> FALSE]
      BY <1>1 DEF Enclosed
    <3>4. Closed(base, first)
            = [list |-> IF base.direct THEN <<<<name, base.list>>>> ELSE base.list,
               direct |-> FALSE]
      BY <3>1, <3>2 DEF Closed
    <3>5. QED  BY <3>3, <3>4
  <2>4. IsSeq(inner.list)
    <3>1. IsSeq(<<<<name, base.list>>>>)  BY IsSeqTogether
    <3>2. inner.list = IF base.direct THEN <<<<name, base.list>>>> ELSE base.list
      BY <1>1 DEF Enclosed
    <3>3. QED  BY <3>1, <3>2
  <2> HIDE DEF r, t, first, inner
  <2>5. AllEnclosed(base, <<op>> \o r) = AllEnclosed(inner, r)
    BY <2>1, EnclosedFirst DEF inner
  <2>6. AllClosed(base, <<first>> \o t) = AllClosed(inner, t)
    <3>1. AllClosed(base, <<first>> \o t) = AllClosed(Closed(base, first), t)
      BY <2>2, ClosedFirst
    <3>2. QED  BY <2>3, <3>1
  <2>7. AllEnclosed(inner, r).list = ContentIn(h, x.attrs) \o AllClosed(inner, t).list
    BY <2>4 DEF HandlerOK, ShowsGiven, r, t, gs
  <2>8. Shown(h, more) = <<first>> \o t  BY <1>10 DEF first, t
  <2>9. QED  BY <2>1, <2>5, <2>6, <2>7, <2>8
<1>12. FailsAsGiven(y)
  <2>1. LastGiven(told) = LastGiven(x.given)  BY <1>1, <1>2, LastGivenAppend DEF told
  <2>2. GroupErr(more) = GroupErr(gs)  BY <1>1, <1>2, <1>3, GroupErrInFront DEF more
  <2>3. QED  BY <1>6, <2>1, <2>2 DEF HandlerOK, FailsAsGiven, gs
<1>13. QED  BY <1>9, <1>11, <1>12 DEF HandlerOK

(* WithAttrs: the buffer it leaves.                                        *)
BufferOf(h, b, g, buffer, list) ==
  /\ IsHeap(g) /\ Keeps(g, h) /\ IsBuffer(g, buffer)
  /\ ContentIn(g, buffer) = ContentIn(h, b) \o Converted(list)
  /\ buffer.err = LastError(list, b.err)

(* A buffer given a list has the converted attributes behind its own.      *)
LEMMA BufferGiven ==
  ASSUME IsHeap(heap), NEW b, IsBuffer(heap, b), NEW list, GoodList(list),
         NEW copy, copy = Cloned(b),
         NEW added, added = AppendedTo(copy.heap, copy.buffer, Converted(list)),
         NEW buffer, buffer = [added.buffer EXCEPT !.err = LastError(list, @)]
  PROVE  BufferOf(heap, b, added.heap, buffer, list)
<1> DEFINE g == added.heap
           d == added.buffer
<1>1. IsSeq(Converted(list))  BY ConvertedType DEF GoodList
<1>2. /\ IsHeap(g) /\ Keeps(g, heap) /\ IsBuffer(g, d) /\ d.err = b.err
      /\ ContentIn(g, d) = ContentIn(heap, b) \o Converted(list)
  BY <1>1, CloneIs
<1> HIDE DEF g, d
<1>3. d = [at |-> d.at, len |-> d.len, err |-> d.err]  BY <1>2 DEF IsBuffer
<1> DEFINE e == LastError(list, b.err)
           w == [at |-> d.at, len |-> d.len, err |-> e]
<1>4. buffer = [d EXCEPT !.err = LastError(list, d.err)]  BY DEF d
<1> HIDE DEF e
<1>5. buffer = w
  <2>1. buffer = [d EXCEPT !.err = e]  BY <1>2, <1>4 DEF e
  <2>2. QED  BY <1>3, <2>1
<1>6. w.at = d.at /\ w.len = d.len /\ w.err = e /\ w = [at |-> w.at, len |-> w.len, err |-> w.err]
  OBVIOUS
<1> HIDE DEF w
<1>7. IsBuffer(g, w)  BY <1>2, <1>6 DEF IsBuffer
<1>8. ContentIn(g, w) = ContentIn(g, d)  BY <1>6 DEF ContentIn
<1>9. QED  BY <1>2, <1>5, <1>6, <1>7, <1>8 DEF BufferOf, g, e

(* WithAttrs on a handler without groups.                                  *)
LEMMA AttrsOfHandler ==
  ASSUME NEW h, IsHeap(h), NEW x, HandlerOK(h, x), x.groups = <<>>,
         NEW list, GoodList(list), NEW g, NEW buffer, BufferOf(h, x.attrs, g, buffer, list),
         NEW op, op.group = FALSE, op.list = list,
         NEW y, y = [attrs |-> buffer, groups |-> x.groups, given |-> Append(x.given, op)]
  PROVE  HandlerOK(g, y)
<1> DEFINE none == x.groups
           told == Append(x.given, op)
           mine == Converted(list)
<1>1. y.attrs = buffer /\ y.groups = none /\ y.given = told
      /\ y = [attrs |-> y.attrs, groups |-> y.groups, given |-> y.given]
  OBVIOUS
<1> HIDE DEF told, mine
<1>2. none = <<>> /\ DOMAIN none = {} /\ IsSeq(none) /\ IsSeq(x.given) /\ IsBuffer(h, x.attrs)
  BY DEF HandlerOK, IsHandler
<1>3. IsSeq(told)  BY <1>2, IsSeqTogether DEF told
<1>4. /\ IsHeap(g) /\ IsBuffer(g, buffer)
      /\ ContentIn(g, buffer) = ContentIn(h, x.attrs) \o mine
      /\ buffer.err = LastError(list, x.attrs.err)
  BY DEF BufferOf, mine
<1> HIDE DEF none
<1>5. IsHandler(g, y)  BY <1>1, <1>2, <1>3, <1>4 DEF IsHandler
<1>6. ShowsGiven(g, y)
  <2> SUFFICES ASSUME NEW base, IsSeq(base.list)
               PROVE  AllEnclosed(base, Reverse(told)).list
                        = ContentIn(g, buffer) \o AllClosed(base, Shown(g, none)).list
    BY <1>1 DEF ShowsGiven
  <2> DEFINE r == Reverse(x.given)
             inner == Enclosed(base, op)
             old == ContentIn(h, x.attrs)
  <2>1. IsSeq(r) /\ Reverse(told) = <<op>> \o r  BY <1>2, ReverseAppend DEF told
  <2>2. IsSeq(mine) /\ IsSeq(old)
    BY <1>2, ConvertedType, ContentIs DEF GoodList, mine
  <2>3. inner.list = mine \o base.list  BY DEF Enclosed, mine
  <2>4. IsSeq(inner.list)
    <3>1. IsSeq(mine) /\ IsSeq(base.list)  BY <2>2
    <3>2. IsSeq(mine \o base.list)  BY <3>1, IsSeqJoined
    <3>3. QED  BY <2>3, <3>2, Zenon
  <2> HIDE DEF r, inner, old
  <2>5. AllEnclosed(base, <<op>> \o r) = AllEnclosed(inner, r)
    BY <2>1, EnclosedFirst DEF inner
  <2>6. Shown(g, none) = <<>> /\ Shown(h, none) = <<>>  BY <1>2 DEF Shown
  <2>7. AllEnclosed(inner, r).list = old \o AllClosed(inner, Shown(h, none)).list
    BY <2>4 DEF HandlerOK, ShowsGiven, r, old, none
  <2>8. AllClosed(inner, <<>>) = inner /\ AllClosed(base, <<>>) = base  BY ClosedNone
  <2>9. (old \o mine) \o base.list = old \o (mine \o base.list)
    <3> DEFINE last == base.list
    <3>1. IsSeq(last)  OBVIOUS
    <3> HIDE DEF last
    <3>2. (old \o mine) \o last = old \o (mine \o last)  BY <2>2, <3>1, JoinedAnyWay
    <3>3. QED  BY <3>2 DEF last
  <2>10. ContentIn(g, buffer) = old \o mine  BY <1>4 DEF old
  <2>11. QED  BY <2>1, <2>3, <2>5, <2>6, <2>7, <2>8, <2>9, <2>10
<1>7. FailsAsGiven(y)
  <2>1. GroupErr(none) = NoErr
    <3> DEFINE F == {j \in DOMAIN none : none[j].attrs.err # NoErr}
    <3>1. F = {}  BY <1>2
    <3>2. GroupErr(none) = IF F = {} THEN NoErr ELSE none[Min(F)].attrs.err  BY DEF GroupErr
    <3> HIDE DEF F
    <3>3. QED  BY <3>1, <3>2
  <2>2. LastGiven(x.given) = x.attrs.err  BY <2>1 DEF HandlerOK, FailsAsGiven, none
  <2>3. LastGiven(told) = IF Errors(list) # {} THEN LastError(list, NoErr) ELSE LastGiven(x.given)
    BY <1>2, LastGivenAppend DEF told
  <2>4. LastGiven(told) = buffer.err  BY <1>4, <2>2, <2>3, LastErrorIs
  <2>5. QED  BY <1>1, <2>1, <2>4 DEF FailsAsGiven
<1>8. QED  BY <1>5, <1>6, <1>7 DEF HandlerOK

(* WithAttrs on a handler with groups: to the leaf.                        *)
LEMMA AttrsOfLeaf ==
  ASSUME NEW h, IsHeap(h), NEW x, HandlerOK(h, x), x.groups # <<>>,
         NEW list, GoodList(list), NEW g, NEW buffer,
         BufferOf(h, x.groups[1].attrs, g, buffer, list),
         NEW op, op.group = FALSE, op.list = list,
         NEW leaf, leaf = [name |-> x.groups[1].name, attrs |-> buffer],
         NEW y, y = [attrs |-> x.attrs, groups |-> [x.groups EXCEPT ![1] = leaf],
                     given |-> Append(x.given, op)]
  PROVE  HandlerOK(g, y)
<1> DEFINE gs == x.groups
           n == Len(gs)
           new == [gs EXCEPT ![1] = leaf]
           told == Append(x.given, op)
           mine == Converted(list)
           old == ContentIn(h, gs[1].attrs)
<1>1. y.attrs = x.attrs /\ y.groups = new /\ y.given = told
      /\ y = [attrs |-> y.attrs, groups |-> y.groups, given |-> y.given]
  OBVIOUS
<1> HIDE DEF told, mine, old, new
<1>2. IsHandler(h, x) /\ IsSeq(gs) /\ gs # <<>> /\ IsSeq(x.given)
  BY DEF HandlerOK, IsHandler
<1>3. n \in Nat /\ DOMAIN gs = 1..n /\ 1 \in 1..n  BY <1>2 DEF IsSeq
<1>4. /\ IsHeap(g) /\ Keeps(g, h) /\ IsBuffer(g, buffer)
      /\ ContentIn(g, buffer) = old \o mine
      /\ buffer.err = LastError(list, gs[1].attrs.err)
  BY DEF BufferOf, mine, old
<1>5. leaf.name = gs[1].name /\ leaf.attrs = buffer /\ IsGroup(g, leaf)
  <2>1. leaf.name = gs[1].name /\ leaf.attrs = buffer
        /\ leaf = [name |-> leaf.name, attrs |-> leaf.attrs]
    OBVIOUS
  <2>2. QED  BY <1>4, <2>1 DEF IsGroup
<1>6. IsSeq(new) /\ DOMAIN new = 1..n /\ Len(new) = n /\ new[1] = leaf
      /\ \A i \in 2..n : new[i] = gs[i]
  <2> DEFINE V == ToSet(gs) \union {leaf}
  <2>1. gs \in Seq(V) /\ leaf \in V  BY <1>2 DEF IsSeq
  <2> HIDE DEF V, gs
  <2>2. /\ new \in Seq(V) /\ Len(new) = n
        /\ \A j \in 1..n : new[j] = IF j = 1 THEN leaf ELSE gs[j]
    BY <1>3, <2>1, ExceptSeq DEF new
  <2> HIDE DEF n
  <2>3. \A j \in 2..n : j \in 1..n /\ j # 1  BY <1>3
  <2>4. QED  BY <1>3, <2>2, <2>3, IsSeqOf
<1>7. IsHandler(g, x) /\ Shown(g, gs) = Shown(h, gs)
      /\ ContentIn(g, x.attrs) = ContentIn(h, x.attrs)
  BY <1>2, <1>4, HandlerKept
<1> HIDE DEF n, gs
<1>8. \A i \in 1..n : i = 1 \/ i \in 2..n  BY <1>3
<1>9. \A i \in 2..n : i \in 1..n  BY <1>3
<1>10. IsHandler(g, y)
  <2>1. \A i \in 1..n : IsGroup(g, gs[i])  BY <1>3, <1>7 DEF IsHandler, gs
  <2>2. \A i \in 1..n : IsGroup(g, new[i])  BY <1>5, <1>6, <1>8, <1>9, <2>1
  <2>3. IsSeq(told)  BY <1>2, IsSeqTogether DEF told
  <2>4. IsBuffer(g, x.attrs)  BY <1>7 DEF IsHandler
  <2>5. QED  BY <1>1, <1>6, <2>2, <2>3, <2>4 DEF IsHandler
<1> DEFINE t == Shown(h, gs)
           u == Shown(g, new)
<1>11. /\ IsSeq(t) /\ Len(t) = n /\ IsSeq(u) /\ Len(u) = n
       /\ t[1].name = gs[1].name /\ t[1].list = old /\ u[1].name = gs[1].name
       /\ u[1].list = old \o mine /\ \A i \in 2..n : u[i] = t[i]
  <2>1. IsSeq(t) /\ Len(t) = n /\ t[1].name = gs[1].name /\ t[1].list = old
    <3>1. IsSeq(Shown(h, x.groups)) /\ Len(Shown(h, x.groups)) = Len(x.groups)
      BY <1>2, ShownType, Zenon
    <3>2. t[1] = [name |-> gs[1].name, list |-> old]  BY <1>3 DEF Shown, old
    <3>3. QED  BY <3>1, <3>2 DEF n, gs
  <2>2. IsSeq(u) /\ Len(u) = n
    <3>1. IsHeap(g)  BY <1>4
    <3>2. IsSeq(Shown(g, y.groups)) /\ Len(Shown(g, y.groups)) = Len(y.groups)
      BY <1>10, <3>1, ShownType, Zenon
    <3>3. QED  BY <1>1, <1>6, <3>2
  <2>3. u[1].name = gs[1].name /\ u[1].list = old \o mine
    <3>1. u[1] = [name |-> leaf.name, list |-> ContentIn(g, leaf.attrs)]
      BY <1>3, <1>6 DEF Shown
    <3> HIDE DEF u
    <3>2. u[1].name = leaf.name /\ u[1].list = ContentIn(g, leaf.attrs)  BY <3>1
    <3>3. QED  BY <1>4, <1>5, <3>2
  <2>4. \A i \in 2..n : u[i] = t[i]
    <3>1. \A i \in 2..n :
            /\ u[i] = [name |-> new[i].name, list |-> ContentIn(g, new[i].attrs)]
            /\ Shown(g, gs)[i] = [name |-> gs[i].name, list |-> ContentIn(g, gs[i].attrs)]
      BY <1>3, <1>6, <1>9 DEF Shown
    <3> HIDE DEF u, t
    <3>2. \A i \in 2..n : u[i] = Shown(g, gs)[i]  BY <1>6, <3>1
    <3>3. QED  BY <1>7, <3>2 DEF t
  <2>5. QED  BY <2>1, <2>2, <2>3, <2>4
<1> HIDE DEF t, u
<1> DEFINE rest == SubSeq(t, 2, n)
<1>12. t = <<t[1]>> \o rest /\ u = <<u[1]>> \o rest /\ IsSeq(rest)
  <2>1. 1 \in 1..(n + 1) /\ 1 <= n /\ 1 + 1 = 2 /\ 2 \in 1..(n + 1)  BY <1>3
  <2>2. /\ SubSeq(t, 1, Len(t)) = t /\ SubSeq(u, 1, Len(u)) = u
        /\ SubSeq(t, 1, Len(t)) = <<t[1]>> \o SubSeq(t, 1 + 1, Len(t))
        /\ SubSeq(u, 1, Len(u)) = <<u[1]>> \o SubSeq(u, 1 + 1, Len(u))
        /\ IsSeq(SubSeq(t, 2, Len(t)))
    BY <1>11, <2>1, RestOf
  <2>3. SubSeq(t, 2, n) = SubSeq(u, 2, n)  BY <1>3, <1>11
  <2>4. QED  BY <1>11, <2>1, <2>2, <2>3
<1> HIDE DEF rest
<1>13. ShowsGiven(g, y)
  <2> SUFFICES ASSUME NEW base, IsSeq(base.list)
               PROVE  AllEnclosed(base, Reverse(told)).list
                        = ContentIn(g, x.attrs) \o AllClosed(base, Shown(g, new)).list
    BY <1>1 DEF ShowsGiven
  <2> DEFINE r == Reverse(x.given)
             inner == Enclosed(base, op)
  <2>1. IsSeq(r) /\ Reverse(told) = <<op>> \o r  BY <1>2, ReverseAppend DEF told
  <2>2. IsSeq(mine) /\ IsSeq(old)
    <3>1. IsBuffer(h, gs[1].attrs)  BY <1>2, <1>3 DEF IsHandler, IsGroup, gs
    <3>2. QED  BY <3>1, ConvertedType, ContentIs DEF GoodList, mine, old
  <2>3. /\ inner.list = mine \o base.list
        /\ inner.direct <=> (base.direct \/ mine # <<>>)
    BY DEF Enclosed, mine
  <2>4. IsSeq(inner.list)
    <3>1. IsSeq(mine) /\ IsSeq(base.list)  BY <2>2
    <3>2. IsSeq(mine \o base.list)  BY <3>1, IsSeqJoined
    <3>3. QED  BY <2>3, <3>2, Zenon
  <2> HIDE DEF r, inner
  <2>5. AllEnclosed(base, <<op>> \o r) = AllEnclosed(inner, r)
    BY <2>1, EnclosedFirst DEF inner
  <2>6. AllEnclosed(inner, r).list = ContentIn(h, x.attrs) \o AllClosed(inner, t).list
    BY <2>4 DEF HandlerOK, ShowsGiven, r, t, gs
  <2>7. Closed(inner, t[1]) = Closed(base, u[1])
    <3>1. (old \o mine) \o base.list = old \o (mine \o base.list)
      <4> DEFINE last == base.list
      <4>1. IsSeq(last)  OBVIOUS
      <4> HIDE DEF last
      <4>2. (old \o mine) \o last = old \o (mine \o last)  BY <2>2, <4>1, JoinedAnyWay
      <4>3. QED  BY <4>2 DEF last
    <3>2. old \o mine # <<>> <=> (old # <<>> \/ mine # <<>>)
      <4>1. Len(old \o mine) = Len(old) + Len(mine) /\ IsSeq(old \o mine)
        BY <2>2, IsSeqJoined
      <4>2. /\ Len(old) \in Nat /\ (old = <<>> <=> Len(old) = 0)
            /\ Len(mine) \in Nat /\ (mine = <<>> <=> Len(mine) = 0)
        BY <2>2, IsSeqJoined
      <4>3. old \o mine = <<>> <=> Len(old \o mine) = 0  BY <4>1, IsSeqJoined
      <4>4. QED  BY <4>1, <4>2, <4>3
    <3>3. mine = <<>> => mine \o base.list = base.list  BY NothingInFront
    <3> DEFINE all == old \o (mine \o base.list)
               some == base.direct \/ mine # <<>> \/ old # <<>>
               one == IF some THEN <<<<gs[1].name, all>>>> ELSE inner.list
               two == IF some THEN <<<<gs[1].name, all>>>> ELSE base.list
    <3>4. Closed(inner, t[1]) = [list |-> one, direct |-> FALSE]  BY <1>11, <2>3 DEF Closed
    <3>5. Closed(base, u[1]) = [list |-> two, direct |-> FALSE]
      BY <1>11, <3>1, <3>2 DEF Closed
    <3>6. one = two  BY <2>3, <3>3
    <3> HIDE DEF one, two
    <3>7. QED  BY <3>4, <3>5, <3>6
  <2>8. AllClosed(inner, t) = AllClosed(Closed(inner, t[1]), rest)
    <3>1. AllClosed(inner, <<t[1]>> \o rest) = AllClosed(Closed(inner, t[1]), rest)
      BY <1>12, ClosedFirst
    <3>2. QED  BY <1>12, <3>1
  <2>9. AllClosed(base, u) = AllClosed(Closed(base, u[1]), rest)
    <3>1. AllClosed(base, <<u[1]>> \o rest) = AllClosed(Closed(base, u[1]), rest)
      BY <1>12, ClosedFirst
    <3>2. QED  BY <1>12, <3>1
  <2>10. AllClosed(inner, t) = AllClosed(base, u)  BY <2>7, <2>8, <2>9
  <2>11. QED  BY <1>7, <2>1, <2>5, <2>6, <2>10 DEF u
<1>14. FailsAsGiven(y)
  <2>1. LastGiven(told) = IF Errors(list) # {} THEN LastError(list, NoErr) ELSE LastGiven(x.given)
    BY <1>2, LastGivenAppend DEF told
  <2>2. CASE Errors(list) # {}
    <3>1. buffer.err = LastError(list, NoErr) /\ LastError(list, NoErr) # NoErr
      BY <1>4, <2>2, LastErrorIs
    <3>2. new[1].attrs.err # NoErr /\ new # <<>>  BY <1>3, <1>5, <1>6, <3>1
    <3>3. GroupErr(new) = buffer.err  BY <1>5, <1>6, <3>2, GroupErrFirst
    <3>4. QED  BY <1>1, <2>1, <2>2, <3>1, <3>3 DEF FailsAsGiven
  <2>3. CASE Errors(list) = {}
    <3>1. buffer.err = gs[1].attrs.err  BY <1>4, <2>3, LastErrorIs
    <3>2. \A i \in 1..n : gs[i].attrs.err = new[i].attrs.err
      BY <1>5, <1>6, <1>8, <3>1
    <3>3. GroupErr(gs) = GroupErr(new)  BY <1>2, <1>3, <1>6, <3>2, GroupErrSame
    <3>4. QED  BY <1>1, <2>1, <2>3, <3>3 DEF FailsAsGiven, HandlerOK, gs
  <2>4. QED  BY <2>2, <2>3
<1>15. QED  BY <1>10, <1>13, <1>14 DEF HandlerOK

-----------------------------------------------------------------------------
(* Handlers of slog: records.                                              *)

(* What the groups from a level on hold: it is rendered in any case, or    *)
(* only inside of a group with attributes.                                 *)
Forced(out) == [list |-> out, direct |-> TRUE]
Passed(out) == [list |-> out, direct |-> FALSE]

(* The next level Handle goes to is the innermost one left that has any.   *)
LEMMA NextLevel ==
  ASSUME NEW h, IsHeap(h), NEW x, IsHandler(h, x), NEW i \in 1..(Len(x.groups) + 1),
         NEW out, IsSeq(out), NEW shown, shown = Shown(h, x.groups),
         NEW k, k = NonEmptyFrom(x.groups, i)
  PROVE  /\ k = 0 => AllClosed(Passed(out), SubSeq(shown, i, Len(shown))).list = out
         /\ k # 0 => /\ k \in 1..Len(x.groups)
                     /\ AllClosed(Passed(out), SubSeq(shown, i, Len(shown)))
                          = AllClosed(Forced(out), SubSeq(shown, k, Len(shown)))
<1> DEFINE gs == x.groups
           n == Len(gs)
           full == {j \in i..Len(gs) : gs[j].attrs.len > 0}
<1>1. n \in Nat /\ i \in 1..(n + 1) /\ IsSeq(shown) /\ Len(shown) = n
  BY ShownIs
<1>2. ASSUME NEW j \in 1..n PROVE gs[j].attrs.len > 0 <=> shown[j].list # <<>>
  <2> DEFINE b == gs[j].attrs
  <2>1. IsBuffer(h, b) /\ shown[j].list = ContentIn(h, b)  BY ShownIs
  <2> HIDE DEF b
  <2>2. IsSeq(ContentIn(h, b)) /\ Len(ContentIn(h, b)) = b.len /\ b.len \in Nat
    BY <2>1, ContentIs
  <2> DEFINE s == ContentIn(h, b)
  <2> HIDE DEF s
  <2>3. s = <<>> <=> Len(s) = 0  BY <2>2, IsSeqJoined DEF s
  <2>4. QED  BY <2>1, <2>2, <2>3 DEF b, s
<1>3. k = IF full = {} THEN 0 ELSE Min(full)  BY DEF NonEmptyFrom
<1>4. full \subseteq 1..n
  <2>1. \A j \in i..n : j \in 1..n  BY <1>1
  <2>2. QED  BY <2>1
<1>5. \A j \in i..n : j \in 1..n /\ (gs[j].attrs.len > 0 => j \in full)  BY <1>1
<1>6. \A j \in full : j \in i..n /\ gs[j].attrs.len > 0  OBVIOUS
<1> HIDE DEF full, gs, n
<1>7. IsFiniteSet(full) /\ full \subseteq Int  BY <1>1, <1>4, SomePlaces
<1> DEFINE inner == Passed(out)
           R(j) == AllClosed(inner, SubSeq(shown, j, Len(shown)))
<1>8. ASSUME NEW m \in i..(n + 1), \A j \in i..(m - 1) : j \notin full
      PROVE  R(i) = R(m)
  <2>1. \A j \in i..(m - 1) : j \in i..n  BY <1>1
  <2>2. \A j \in i..(m - 1) : shown[j].list = <<>>  BY <1>2, <1>5, <1>8, <2>1
  <2>3. inner = [list |-> out, direct |-> FALSE]  BY DEF Passed
  <2>4. i \in 1..(Len(shown) + 1) /\ m \in i..(Len(shown) + 1)  BY <1>1
  <2> HIDE DEF inner
  <2>5. QED  BY <1>1, <2>2, <2>3, <2>4, EmptyGroups
<1>9. CASE full = {}
  <2>1. n + 1 \in i..(n + 1) /\ n + 1 \in 1..(n + 1)  BY <1>1
  <2>2. R(i) = R(n + 1)  BY <1>8, <1>9, <2>1
  <2>3. SubSeq(shown, n + 1, Len(shown)) = <<>>  BY <1>1, <2>1, RestOf
  <2>4. AllClosed(inner, <<>>) = inner  BY ClosedNone
  <2>5. inner.list = out  BY DEF Passed
  <2>6. k = 0  BY <1>3, <1>9
  <2>7. QED  BY <2>2, <2>3, <2>4, <2>5, <2>6
<1>10. CASE full # {}
  <2>1. k \in full /\ \A j \in full : k <= j  BY <1>3, <1>7, <1>10, Extremes
  <2>2. k \in 1..n /\ k \in i..n  BY <1>4, <1>6, <2>1
  <2>3. k \in i..(n + 1) /\ \A j \in i..(k - 1) : j \notin full
    <3>1. \A j \in i..(k - 1) : ~ (k <= j)  BY <1>1, <2>2
    <3>2. k \in i..(n + 1)  BY <1>1, <2>2
    <3>3. QED  BY <2>1, <3>1, <3>2
  <2>4. R(i) = R(k)  BY <1>8, <2>3
  <2> DEFINE rest == SubSeq(shown, k + 1, Len(shown))
             all == SubSeq(shown, k, Len(shown))
             g == shown[k]
  <2>5. all = <<g>> \o rest /\ IsSeq(rest)
    <3>1. k \in 1..(Len(shown) + 1) /\ k <= Len(shown) /\ k + 1 \in 1..(Len(shown) + 1)
      BY <1>1, <2>2
    <3>2. QED  BY <1>1, <3>1, RestOf
  <2>6. g.list # <<>>  BY <1>2, <1>6, <2>1, <2>2
  <2> HIDE DEF rest, g, all
  <2>7. Closed(Passed(out), g) = Closed(Forced(out), g)
    <3>1. Passed(out).list = out /\ Forced(out).list = out  BY DEF Passed, Forced
    <3>2. QED  BY <2>6, <3>1 DEF Closed
  <2>8. AllClosed(Passed(out), <<g>> \o rest) = AllClosed(Closed(Passed(out), g), rest)
    BY <2>5, ClosedFirst
  <2>9. AllClosed(Forced(out), <<g>> \o rest) = AllClosed(Closed(Forced(out), g), rest)
    BY <2>5, ClosedFirst
  <2>10. AllClosed(Passed(out), all) = AllClosed(Forced(out), all)
    BY <2>5, <2>7, <2>8, <2>9
  <2>11. k # 0  BY <2>2
  <2>12. QED  BY <2>2, <2>4, <2>10, <2>11 DEF all, n, gs
<1>11. QED  BY <1>9, <1>10

(* A call of Handle: what it has built, inside of the groups from its      *)
(* level on, is what it was given.                                         *)
IsLog(l) ==
  l = [phase |-> l.phase, handler |-> l.handler, own |-> l.own, level |-> l.level,
       slice |-> l.slice, out |-> l.out, attributes |-> l.attributes, err |-> l.err]

Renders(h, x, l) ==
  /\ IsSeq(l.attributes) /\ IsSeq(l.out) /\ l.level \in 1..Len(x.groups)
  /\ l.attributes \o AllClosed(Forced(l.out),
                               SubSeq(Shown(h, x.groups), l.level, Len(x.groups))).list
       = AsGiven(x.given, l.own)

Slices(h, x, l) ==
  /\ IsBuffer(h, l.slice)
  /\ ContentIn(h, l.slice) = ContentIn(h, x.groups[l.level].attrs) \o l.out

LogsGiven(h, x, l) ==
  /\ l.err = ErrorGiven(x.given, l.own)
  /\ l.phase = "emitted" => l.attributes = AsGiven(x.given, l.own)
  /\ l.phase \in {"append", "copy"} => Renders(h, x, l)
  /\ l.phase = "copy" => Slices(h, x, l)

LogOK(h, hs, l) ==
  /\ IsLog(l)
  /\ l.phase # "idle" => l.handler \in 1..Len(hs) /\ LogsGiven(h, hs[l.handler], l)

(* A call of Handle is as good as it was with more arrays.                 *)
LEMMA LogKept ==
  ASSUME NEW h, IsHeap(h), NEW g, IsHeap(g), Keeps(g, h), NEW hs, NEW ks,
         \A n \in 1..Len(hs) : HandlerOK(h, hs[n]) /\ n \in 1..Len(ks) /\ ks[n] = hs[n],
         NEW l, LogOK(h, hs, l)
  PROVE  LogOK(g, ks, l)
<1> SUFFICES ASSUME l.phase # "idle"
             PROVE  l.handler \in 1..Len(ks) /\ LogsGiven(g, ks[l.handler], l)
  BY DEF LogOK
<1> DEFINE x == hs[l.handler]
<1>1. l.handler \in 1..Len(hs) /\ LogsGiven(h, x, l)  BY DEF LogOK
<1>2. HandlerOK(h, x) /\ l.handler \in 1..Len(ks) /\ ks[l.handler] = x  BY <1>1
<1> HIDE DEF x
<1>3. IsHandler(h, x)  BY <1>2 DEF HandlerOK
<1>4. Shown(g, x.groups) = Shown(h, x.groups)  BY <1>3, HandlerKept
<1>5. Renders(h, x, l) => Renders(g, x, l)  BY <1>4 DEF Renders
<1>6. (Renders(h, x, l) /\ Slices(h, x, l)) => Slices(g, x, l)
  <2> SUFFICES ASSUME Renders(h, x, l), Slices(h, x, l) PROVE Slices(g, x, l)  OBVIOUS
  <2> DEFINE b == x.groups[l.level].attrs
             s == l.slice
  <2>1. l.level \in 1..Len(x.groups)  BY DEF Renders
  <2>2. IsBuffer(h, b)  BY <1>3, <2>1, ShownIs
  <2>3. IsBuffer(h, s) /\ ContentIn(h, s) = ContentIn(h, b) \o l.out  BY DEF Slices
  <2> HIDE DEF b, s
  <2>4. ContentIn(g, b) = ContentIn(h, b)  BY <2>2, ContentKept
  <2>5. IsBuffer(g, s) /\ ContentIn(g, s) = ContentIn(h, s)  BY <2>3, ContentKept
  <2>6. QED  BY <2>3, <2>4, <2>5 DEF Slices, b, s
<1>7. LogsGiven(g, x, l)  BY <1>1, <1>5, <1>6 DEF LogsGiven
<1>8. QED  BY <1>2, <1>7

(* Handle, up to the first level.                                          *)
LEMMA Handled ==
  ASSUME NEW h, IsHeap(h), NEW x, HandlerOK(h, x), NEW own, GoodList(own),
         NEW mine, mine = Converted(own), NEW first,
         first = IF x.groups = <<>> THEN 0
                 ELSE IF mine # <<>> THEN 1 ELSE NonEmptyFrom(x.groups, 1),
         NEW l, l.own = own, l.out = mine, l.level = first,
         l.phase = (IF first = 0 THEN "emitted" ELSE "append"),
         l.attributes = ContentIn(h, x.attrs) \o (IF x.groups = <<>> THEN mine ELSE <<>>),
         l.err = ErrorOf(x, own)
  PROVE  LogsGiven(h, x, l)
<1> DEFINE base == [list |-> mine, direct |-> mine # <<>>]
           old == ContentIn(h, x.attrs)
           shown == Shown(h, x.groups)
           n == Len(x.groups)
<1>1. IsHandler(h, x) /\ IsBuffer(h, x.attrs) /\ IsSeq(x.groups)  BY DEF HandlerOK, IsHandler
<1>2. IsSeq(mine) /\ IsSeq(old)  BY <1>1, ConvertedType, ContentIs DEF GoodList
<1>3. IsSeq(shown) /\ Len(shown) = n /\ n \in Nat  BY <1>1, ShownIs
<1>4. AsGiven(x.given, own) = old \o AllClosed(base, shown).list
  <2>1. AsGiven(x.given, own) = AllEnclosed(base, Reverse(x.given)).list
    BY DEF AsGiven, AllEnclosed
  <2>2. IsSeq(base.list)  BY <1>2
  <2> HIDE DEF base
  <2>3. QED  BY <2>1, <2>2 DEF HandlerOK, ShowsGiven
<1>5. l.err = ErrorGiven(x.given, own)
  BY DEF HandlerOK, FailsAsGiven, ErrorOf, ErrorGiven
<1> HIDE DEF shown, old, n
<1>6. CASE x.groups = <<>>
  <2>1. shown = <<>>  BY <1>6 DEF shown, Shown
  <2>2. AllClosed(base, <<>>) = base  BY ClosedNone
  <2>3. l.phase = "emitted" /\ l.attributes = old \o mine  BY <1>6 DEF old
  <2>4. base.list = mine  OBVIOUS
  <2> HIDE DEF base
  <2>5. l.attributes = AsGiven(x.given, own)  BY <1>4, <2>1, <2>2, <2>3, <2>4
  <2>6. l.phase # "append" /\ l.phase # "copy"  BY <2>3
  <2>7. QED  BY <1>5, <2>5, <2>6 DEF LogsGiven
<1>7. CASE x.groups # <<>> /\ mine # <<>>
  <2>1. first = 1 /\ l.phase = "append"  BY <1>7
  <2>2. 1 \in 1..n /\ 1 \in 1..(n + 1)
    <3>1. Len(x.groups) # 0  BY <1>1, <1>7, IsSeqJoined
    <3>2. QED  BY <1>3, <3>1 DEF n
  <2>3. base = Forced(mine)  BY <1>7 DEF Forced
  <2>4. SubSeq(shown, 1, n) = shown  BY <1>3, <2>2, RestOf
  <2>5. old \o <<>> = old  BY <1>2, NothingInFront
  <2>6. l.attributes = old  BY <1>7, <2>5 DEF old
  <2> HIDE DEF base
  <2>7. l.attributes \o AllClosed(Forced(l.out), SubSeq(shown, l.level, n)).list
          = AsGiven(x.given, l.own)
    BY <1>4, <2>1, <2>3, <2>4, <2>6
  <2>8. Renders(h, x, l)  BY <1>2, <2>1, <2>2, <2>6, <2>7 DEF Renders, shown, n
  <2>9. l.phase # "emitted" /\ l.phase # "copy"  BY <2>1
  <2>10. QED  BY <1>5, <2>8, <2>9 DEF LogsGiven
<1>8. CASE x.groups # <<>> /\ mine = <<>>
  <2>1. first = NonEmptyFrom(x.groups, 1)  BY <1>8
  <2>2. 1 \in 1..(Len(x.groups) + 1) /\ 1 \in 1..(Len(shown) + 1)  BY <1>3 DEF n
  <2>3. base = Passed(mine)  BY <1>8 DEF Passed
  <2>4. SubSeq(shown, 1, Len(shown)) = shown  BY <1>3, <2>2, RestOf
  <2>5. old \o <<>> = old  BY <1>2, NothingInFront
  <2>6. l.attributes = old  BY <1>8, <2>5 DEF old
  <2>7. /\ first = 0 => AllClosed(Passed(mine), SubSeq(shown, 1, Len(shown))).list = mine
        /\ first # 0 => /\ first \in 1..Len(x.groups)
                        /\ AllClosed(Passed(mine), SubSeq(shown, 1, Len(shown)))
                             = AllClosed(Forced(mine), SubSeq(shown, first, Len(shown)))
    BY <1>1, <1>2, <2>1, <2>2, NextLevel DEF shown
  <2> HIDE DEF base
  <2>8. CASE first = 0
    <3>1. AllClosed(base, shown).list = <<>>  BY <1>8, <2>3, <2>4, <2>7, <2>8
    <3>2. l.attributes = AsGiven(x.given, own)  BY <1>4, <2>5, <2>6, <3>1
    <3>3. l.phase = "emitted" /\ l.phase # "append" /\ l.phase # "copy"  BY <2>8
    <3>4. QED  BY <1>5, <3>2, <3>3 DEF LogsGiven
  <2>9. CASE first # 0
    <3>1. AllClosed(base, shown) = AllClosed(Forced(mine), SubSeq(shown, first, n))
      BY <1>3, <2>3, <2>4, <2>7, <2>9
    <3>2. l.attributes \o AllClosed(Forced(l.out), SubSeq(shown, l.level, n)).list
            = AsGiven(x.given, l.own)
      BY <1>4, <2>6, <3>1
    <3>3. Renders(h, x, l)  BY <1>2, <2>6, <2>7, <2>9, <3>2 DEF Renders, shown, n
    <3>4. l.phase = "append" /\ l.phase # "emitted" /\ l.phase # "copy"  BY <2>9
    <3>5. QED  BY <1>5, <3>3, <3>4 DEF LogsGiven
  <2>10. QED  BY <2>8, <2>9
<1>9. QED  BY <1>6, <1>7, <1>8

(* AppendLevel: the new slice has the group's attributes and what it holds.*)
Sliced(l, buffer) == [l EXCEPT !.phase = "copy", !.slice = buffer]

(* After AppendLevel a call still renders what was given.                  *)
LEMMA LevelAppended ==
  ASSUME IsHeap(heap), NEW x, IsHandler(heap, x), NEW l, l.phase = "append",
         LogsGiven(heap, x, l),
         NEW made, made = KeyValues(x.groups[l.level].attrs, l.out),
         NEW m, m = Sliced(l, made.buffer), IsLog(l)
  PROVE  /\ IsHeap(made.heap) /\ Keeps(made.heap, heap)
         /\ IsLog(m) /\ m.phase = "copy" /\ m.handler = l.handler
         /\ LogsGiven(made.heap, x, m)
<1> DEFINE b == x.groups[l.level].attrs
           s == made.buffer
           g == made.heap
           old == ContentIn(heap, b)
           w == [phase |-> "copy", handler |-> l.handler, own |-> l.own, level |-> l.level,
                 slice |-> s, out |-> l.out, attributes |-> l.attributes, err |-> l.err]
<1>1. Renders(heap, x, l) /\ l.err = ErrorGiven(x.given, l.own)  BY DEF LogsGiven
<1>2. l.level \in 1..Len(x.groups) /\ IsSeq(l.out)  BY <1>1 DEF Renders
<1>3. IsBuffer(heap, b)  BY <1>2, ShownIs
<1> HIDE DEF b
<1>4. IsSeq(old)  BY <1>3, ContentIs
<1> DEFINE all == old \o l.out
<1>5. IsSeq(all)
  <2> DEFINE o == l.out
  <2>1. IsSeq(o)  BY <1>2
  <2> HIDE DEF o, old
  <2>2. IsSeq(old \o o)  BY <1>4, <2>1, IsSeqJoined
  <2>3. QED  BY <2>2 DEF o
<1>6. made = Fresh(all, NoErr)  BY DEF KeyValues, Content, b
<1> HIDE DEF all, old
<1>7. IsHeap(g) /\ Keeps(g, heap) /\ IsBuffer(g, s) /\ ContentIn(g, s) = all
  <2> DEFINE f == Fresh(all, NoErr)
  <2>1. /\ IsHeap(f.heap) /\ Keeps(f.heap, heap) /\ IsBuffer(f.heap, f.buffer)
        /\ ContentIn(f.heap, f.buffer) = all
    BY <1>5, FreshIs
  <2> HIDE DEF f
  <2>2. made = f  BY <1>6 DEF f
  <2>3. QED  BY <2>1, <2>2
<1>8. m = w
  <2> DEFINE v == [l EXCEPT !.phase = "copy"]
  <2> HIDE DEF s
  <2>1. v = [phase |-> "copy", handler |-> l.handler, own |-> l.own, level |-> l.level,
             slice |-> l.slice, out |-> l.out, attributes |-> l.attributes, err |-> l.err]
    BY DEF IsLog
  <2>2. m = [v EXCEPT !.slice = s]  BY DEF s, Sliced
  <2> HIDE DEF v
  <2>3. QED  BY <2>1, <2>2
<1>9. /\ w.phase = "copy" /\ w.handler = l.handler /\ w.own = l.own /\ w.level = l.level
      /\ w.slice = s /\ w.out = l.out /\ w.attributes = l.attributes /\ w.err = l.err
      /\ w = [phase |-> w.phase, handler |-> w.handler, own |-> w.own, level |-> w.level,
              slice |-> w.slice, out |-> w.out, attributes |-> w.attributes, err |-> w.err]
  OBVIOUS
<1> HIDE DEF w, s, g
<1>10. Shown(g, x.groups) = Shown(heap, x.groups)  BY <1>7, HandlerKept
<1>11. Renders(g, x, w)  BY <1>1, <1>9, <1>10 DEF Renders
<1>12. ContentIn(g, b) = old  BY <1>3, <1>7, ContentKept DEF old
<1>13. Slices(g, x, w)  BY <1>7, <1>9, <1>12 DEF Slices, b, all
<1>14. w.phase # "emitted"  BY <1>9
<1>15. LogsGiven(g, x, w)  BY <1>1, <1>9, <1>11, <1>13, <1>14 DEF LogsGiven
<1>16. IsLog(w)  BY <1>9 DEF IsLog
<1>17. QED  BY <1>7, <1>8, <1>9, <1>15, <1>16 DEF g

(* CopyLevel: one group further out, past those without attributes.        *)
Copied(l, group, next) ==
  [l EXCEPT !.phase = IF next = 0 THEN "emitted" ELSE "append", !.level = next,
            !.out = <<group>>, !.attributes = IF next = 0 THEN Append(@, group) ELSE @]

(* After CopyLevel it does, too.                                           *)
LEMMA LevelCopied ==
  ASSUME NEW h, IsHeap(h), NEW x, IsHandler(h, x), NEW l, l.phase = "copy",
         LogsGiven(h, x, l), IsLog(l),
         NEW group, group = <<x.groups[l.level].name, ContentIn(h, l.slice)>>,
         NEW next, next = NonEmptyFrom(x.groups, l.level + 1), NEW m, m = Copied(l, group, next)
  PROVE  IsLog(m) /\ m.phase # "idle" /\ m.handler = l.handler /\ LogsGiven(h, x, m)
<1> DEFINE ph == IF next = 0 THEN "emitted" ELSE "append"
           at == IF next = 0 THEN Append(l.attributes, group) ELSE l.attributes
           o == <<group>>
           w == [phase |-> ph, handler |-> l.handler, own |-> l.own, level |-> next,
                 slice |-> l.slice, out |-> o, attributes |-> at, err |-> l.err]
           shown == Shown(h, x.groups)
           n == Len(x.groups)
           k == l.level
           g == shown[k]
<1>1. /\ Renders(h, x, l) /\ Slices(h, x, l) /\ l.err = ErrorGiven(x.given, l.own)
  BY DEF LogsGiven
<1>2. m = w
  <2> HIDE DEF ph, at, o
  <2>1. m = [[[[l EXCEPT !.phase = ph] EXCEPT !.level = next] EXCEPT !.out = o]
             EXCEPT !.attributes = at]
    BY DEF ph, at, o, Copied
  <2> DEFINE v1 == [l EXCEPT !.phase = ph]
             v2 == [v1 EXCEPT !.level = next]
             v3 == [v2 EXCEPT !.out = o]
  <2>2. v1 = [phase |-> ph, handler |-> l.handler, own |-> l.own, level |-> l.level,
              slice |-> l.slice, out |-> l.out, attributes |-> l.attributes, err |-> l.err]
    BY DEF IsLog
  <2>3. m = [v3 EXCEPT !.attributes = at]  BY <2>1
  <2> HIDE DEF v1
  <2>4. v2 = [phase |-> ph, handler |-> l.handler, own |-> l.own, level |-> next,
              slice |-> l.slice, out |-> l.out, attributes |-> l.attributes, err |-> l.err]
    BY <2>2
  <2> HIDE DEF v2
  <2>5. v3 = [phase |-> ph, handler |-> l.handler, own |-> l.own, level |-> next,
              slice |-> l.slice, out |-> o, attributes |-> l.attributes, err |-> l.err]
    BY <2>4
  <2> HIDE DEF v3
  <2>6. QED  BY <2>3, <2>5
<1> HIDE DEF ph, at, o
<1>3. /\ w.phase = ph /\ w.handler = l.handler /\ w.own = l.own /\ w.level = next
      /\ w.slice = l.slice /\ w.out = o /\ w.attributes = at /\ w.err = l.err
      /\ w = [phase |-> w.phase, handler |-> w.handler, own |-> w.own, level |-> w.level,
              slice |-> w.slice, out |-> w.out, attributes |-> w.attributes, err |-> w.err]
  OBVIOUS
<1> HIDE DEF w
<1>4. IsLog(w)  BY <1>3 DEF IsLog
<1>5. /\ n \in Nat /\ k \in 1..n /\ IsSeq(shown) /\ Len(shown) = n
      /\ g.name = x.groups[k].name /\ g.list = ContentIn(h, x.groups[k].attrs)
  BY <1>1, ShownIs DEF Renders
<1>6. ContentIn(h, l.slice) = g.list \o l.out  BY <1>1, <1>5 DEF Slices
<1>7. group = <<g.name, g.list \o l.out>>  BY <1>5, <1>6
<1> DEFINE rest == SubSeq(shown, k + 1, n)
           all == SubSeq(shown, k, n)
<1>8. k + 1 \in 1..(n + 1)  BY <1>5
<1>9. all = <<g>> \o rest /\ IsSeq(rest)
  <2>1. k \in 1..(Len(shown) + 1) /\ k <= Len(shown) /\ k + 1 \in 1..(Len(shown) + 1)
    BY <1>5
  <2> HIDE DEF g, shown
  <2>2. QED  BY <1>5, <2>1, RestOf DEF g
<1>10. l.attributes \o AllClosed(Forced(l.out), all).list = AsGiven(x.given, l.own)
       /\ IsSeq(l.attributes)
  BY <1>1 DEF Renders
<1> HIDE DEF g, rest, all
<1>11. Closed(Forced(l.out), g) = Passed(o)
  <2>1. Forced(l.out).list = l.out /\ Forced(l.out).direct = TRUE  BY DEF Forced
  <2>2. QED  BY <1>7, <2>1 DEF Closed, Passed, o
<1>12. AllClosed(Forced(l.out), all) = AllClosed(Passed(o), rest)
  <2> DEFINE f == Forced(l.out)
  <2> HIDE DEF f
  <2>1. AllClosed(f, <<g>> \o rest) = AllClosed(Closed(f, g), rest)  BY <1>9, ClosedFirst
  <2>2. QED  BY <1>9, <1>11, <2>1 DEF f
<1>13. IsSeq(o)
  <2>1. <<group>> \in Seq({group})  OBVIOUS
  <2>2. QED  BY <2>1, IsSeqOf DEF o
<1>14. /\ next = 0 => AllClosed(Passed(o), rest).list = o
       /\ next # 0 => /\ next \in 1..n
                      /\ AllClosed(Passed(o), rest)
                           = AllClosed(Forced(o), SubSeq(shown, next, n))
  <2> HIDE DEF k
  <2>1. next = NonEmptyFrom(x.groups, k + 1) /\ k + 1 \in 1..(Len(x.groups) + 1)
    BY <1>8 DEF k
  <2>2. /\ next = 0 => AllClosed(Passed(o), SubSeq(shown, k + 1, Len(shown))).list = o
        /\ next # 0 => /\ next \in 1..Len(x.groups)
                       /\ AllClosed(Passed(o), SubSeq(shown, k + 1, Len(shown)))
                            = AllClosed(Forced(o), SubSeq(shown, next, Len(shown)))
    BY <1>13, <2>1, NextLevel
  <2>3. QED  BY <1>5, <2>2 DEF rest
<1>15. CASE next = 0
  <2>1. AsGiven(x.given, l.own) = l.attributes \o o  BY <1>10, <1>12, <1>14, <1>15
  <2>2. Append(l.attributes, group) = l.attributes \o o
    <3> DEFINE V == ToSet(l.attributes) \union {group}
               s == l.attributes
    <3>1. s \in Seq(V) /\ group \in V  BY <1>10 DEF IsSeq
    <3> HIDE DEF V, s
    <3>2. Append(s, group) = s \o <<group>>  BY <3>1, AppendIsConcat
    <3>3. QED  BY <3>2 DEF s, o
  <2>3. w.attributes = AsGiven(x.given, w.own)  BY <1>3, <1>15, <2>1, <2>2 DEF at
  <2>4. w.phase = "emitted"  BY <1>3, <1>15 DEF ph
  <2>5. w.phase # "append" /\ w.phase # "copy" /\ w.phase # "idle"  BY <2>4
  <2>6. LogsGiven(h, x, w)  BY <1>1, <1>3, <2>3, <2>5 DEF LogsGiven
  <2>7. QED  BY <1>2, <1>3, <1>4, <2>5, <2>6
<1>16. CASE next # 0
  <2>1. w.attributes = l.attributes /\ w.phase = "append"  BY <1>3, <1>16 DEF at, ph
  <2>2. AllClosed(Forced(l.out), all) = AllClosed(Forced(o), SubSeq(shown, next, n))
    BY <1>12, <1>14, <1>16
  <2>3. w.attributes \o AllClosed(Forced(w.out), SubSeq(shown, w.level, n)).list
          = AsGiven(x.given, w.own)
    BY <1>3, <1>10, <2>1, <2>2
  <2>4. Renders(h, x, w)  BY <1>3, <1>10, <1>13, <1>14, <1>16, <2>1, <2>3 DEF Renders
  <2>5. w.phase # "emitted" /\ w.phase # "copy" /\ w.phase # "idle"  BY <2>1
  <2>6. LogsGiven(h, x, w)  BY <1>1, <1>3, <2>4, <2>5 DEF LogsGiven
  <2>7. QED  BY <1>2, <1>3, <1>4, <2>5, <2>6
<1>17. QED  BY <1>15, <1>16

-----------------------------------------------------------------------------
(* Handlers of slog: every step.                                           *)

SlogOK(h, hs, lg) ==
  /\ IsHeap(h) /\ IsSeq(hs)
  /\ \A n \in 1..Len(hs) : HandlerOK(h, hs[n])
  /\ lg = [c \in Logs |-> lg[c]]
  /\ \A c \in Logs : LogOK(h, hs, lg[c])

SlogIInv == SlogOK(heap, handlers, log)

(* The arrays keep themselves.                                             *)
LEMMA KeepsItself ==
  ASSUME NEW h, IsHeap(h)
  PROVE  Keeps(h, h)
<1>1. Len(h) \in Nat  BY DEF IsHeap, IsSeq
<1>2. QED  BY <1>1 DEF Keeps

(* One more good handler, on arrays that keep the earlier ones.            *)
LEMMA HandlerAdded ==
  ASSUME NEW h, NEW hs, NEW lg, SlogOK(h, hs, lg),
         NEW g, IsHeap(g), Keeps(g, h), NEW y, HandlerOK(g, y)
  PROVE  SlogOK(g, Append(hs, y), lg)
<1> DEFINE V == ToSet(hs) \union {y}
           n == Len(hs)
           ks == Append(hs, y)
<1>1. hs \in Seq(V) /\ y \in V  BY DEF SlogOK, IsSeq
<1> HIDE DEF V
<1>2. /\ n \in Nat /\ ks \in Seq(V) /\ Len(ks) = n + 1 /\ ks[n + 1] = y
      /\ \A i \in 1..n : ks[i] = hs[i]
  BY <1>1
<1> HIDE DEF ks
<1>3. IsSeq(ks)  BY <1>2, IsSeqOf
<1>4. ASSUME NEW i \in 1..n
      PROVE  HandlerOK(h, hs[i]) /\ HandlerOK(g, hs[i]) /\ i \in 1..Len(ks) /\ ks[i] = hs[i]
  <2> DEFINE x == hs[i]
  <2>1. HandlerOK(h, x) /\ IsHandler(h, x) /\ IsHeap(h)  BY DEF SlogOK, HandlerOK
  <2> HIDE DEF x
  <2>2. HandlerOK(g, x)  BY <2>1, HandlerKept
  <2>3. i \in 1..(n + 1)  BY <1>2
  <2>4. QED  BY <1>2, <2>1, <2>2, <2>3 DEF x
<1>5. \A i \in 1..Len(ks) : HandlerOK(g, ks[i])
  <2>1. \A i \in 1..(n + 1) : i \in 1..n \/ i = n + 1  BY <1>2
  <2>2. QED  BY <1>2, <1>4, <2>1
<1>6. ASSUME NEW c \in Logs PROVE LogOK(g, ks, lg[c])
  <2> DEFINE l == lg[c]
  <2>1. LogOK(h, hs, l) /\ IsHeap(h)  BY DEF SlogOK
  <2> HIDE DEF l
  <2>2. \A i \in 1..Len(hs) : HandlerOK(h, hs[i]) /\ i \in 1..Len(ks) /\ ks[i] = hs[i]
    BY <1>4
  <2>3. LogOK(g, ks, l)  BY <2>1, <2>2, LogKept
  <2>4. QED  BY <2>3 DEF l
<1>7. lg = [c \in Logs |-> lg[c]]  BY DEF SlogOK
<1>8. QED  BY <1>3, <1>5, <1>6, <1>7 DEF SlogOK, ks

(* One call of Handle moved on, on arrays that keep the earlier ones.      *)
LEMMA LogMoved ==
  ASSUME NEW h, NEW hs, NEW lg, SlogOK(h, hs, lg),
         NEW g, IsHeap(g), Keeps(g, h), NEW c \in Logs, NEW m, LogOK(g, hs, m)
  PROVE  SlogOK(g, hs, [lg EXCEPT ![c] = m])
<1> DEFINE lh == [lg EXCEPT ![c] = m]
<1>1. lg = [d \in Logs |-> lg[d]]  BY DEF SlogOK
<1>2. lh = [d \in Logs |-> lh[d]] /\ \A d \in Logs : lh[d] = IF d = c THEN m ELSE lg[d]
  BY <1>1
<1> HIDE DEF lh
<1>3. ASSUME NEW i \in 1..Len(hs) PROVE HandlerOK(h, hs[i]) /\ HandlerOK(g, hs[i])
  <2> DEFINE x == hs[i]
  <2>1. HandlerOK(h, x) /\ IsHandler(h, x) /\ IsHeap(h)  BY DEF SlogOK, HandlerOK
  <2> HIDE DEF x
  <2>2. HandlerOK(g, x)  BY <2>1, HandlerKept
  <2>3. QED  BY <2>1, <2>2 DEF x
<1>4. ASSUME NEW d \in Logs PROVE LogOK(g, hs, lg[d])
  <2> DEFINE l == lg[d]
  <2>1. LogOK(h, hs, l) /\ IsHeap(h)  BY DEF SlogOK
  <2> HIDE DEF l
  <2>2. \A i \in 1..Len(hs) : HandlerOK(h, hs[i]) /\ i \in 1..Len(hs) /\ hs[i] = hs[i]
    BY <1>3
  <2>3. LogOK(g, hs, l)  BY <2>1, <2>2, LogKept
  <2>4. QED  BY <2>3 DEF l
<1>5. \A d \in Logs : LogOK(g, hs, lh[d])  BY <1>2, <1>4
<1>6. IsSeq(hs)  BY DEF SlogOK
<1>7. QED  BY <1>2, <1>3, <1>5, <1>6 DEF SlogOK, lh

(* Before anything is called all is as it should be.                       *)
LEMMA SlogStarts == SlogInit => SlogIInv
<1> SUFFICES ASSUME SlogInit PROVE SlogOK(heap, handlers, log)  BY DEF SlogIInv
<1> DEFINE none == <<>>
           x == [attrs |-> NoBuffer, groups |-> <<>>, given |-> <<>>]
           hs == <<x>>
<1>1. heap = none /\ handlers = hs /\ log = [c \in Logs |-> Idle]  BY DEF SlogInit
<1>2. IsHeap(none)
  <2>1. none \in Seq({}) /\ Len(none) = 0 /\ \A a \in 1..0 : FALSE  OBVIOUS
  <2>2. IsSeq(none)  BY <2>1, IsSeqOf
  <2>3. QED  BY <2>1, <2>2 DEF IsHeap
<1>3. HandlerOK(none, x)
  <2> HIDE DEF none
  <2>1. QED  BY <1>2, NothingGiven
<1> HIDE DEF x, none
<1>4. hs \in Seq({x}) /\ Len(hs) = 1 /\ hs[1] = x  OBVIOUS
<1> HIDE DEF hs
<1>5. IsSeq(hs)  BY <1>4, IsSeqOf
<1>6. \A n \in 1..Len(hs) : HandlerOK(none, hs[n])  BY <1>3, <1>4
<1>7. IsLog(Idle) /\ Idle.phase = "idle"  BY DEF Idle, IsLog
<1>8. log = [c \in Logs |-> log[c]] /\ \A c \in Logs : log[c] = Idle  BY <1>1
<1>9. \A c \in Logs : LogOK(none, hs, log[c])  BY <1>7, <1>8 DEF LogOK
<1>10. QED  BY <1>1, <1>2, <1>5, <1>6, <1>8, <1>9 DEF SlogOK

(* The lists a handler or a record may be given.                           *)
LEMMA ListsGood ==
  /\ \A n \in 1..MaxHandlers : \A list \in GivenTo[n] : GoodList(list)
  /\ \A c \in Logs : \A own \in OwnOf[c] : GoodList(own)
<1> DEFINE All == UNION ({GivenTo[n] : n \in 1..MaxHandlers} \union {OwnOf[c] : c \in Logs})
<1>1. \A list \in All : GoodList(list)  BY SlogAssumption DEF GoodList, IsSeq
<1>2. \A n \in 1..MaxHandlers : \A list \in GivenTo[n] : list \in All  OBVIOUS
<1>3. \A c \in Logs : \A own \in OwnOf[c] : own \in All  OBVIOUS
<1> HIDE DEF All
<1>4. QED  BY <1>1, <1>2, <1>3

(* WithAttrs.                                                              *)
LEMMA AttrsStep ==
  ASSUME SlogIInv, NEW h \in DOMAIN handlers, NEW list \in GivenTo[Len(handlers)],
         WithAttrs(h, list)
  PROVE  SlogIInv'
<1> DEFINE old == handlers[h]
           target == IF old.groups = <<>> THEN old.attrs ELSE Head(old.groups).attrs
           copy == Cloned(target)
           added == AppendedTo(copy.heap, copy.buffer, Converted(list))
           buffer == [added.buffer EXCEPT !.err = LastError(list, @)]
           op == [group |-> FALSE, list |-> list]
           told == Append(old.given, op)
           y == IF old.groups = <<>>
                  THEN [old EXCEPT !.attrs = buffer, !.given = told]
                  ELSE [old EXCEPT !.groups[1].attrs = buffer, !.given = told]
<1>1. /\ Len(handlers) < MaxHandlers /\ heap' = added.heap
      /\ handlers' = Append(handlers, y) /\ log' = log
  BY DEF WithAttrs
<1>2. SlogOK(heap, handlers, log)  BY DEF SlogIInv
<1>3. IsHeap(heap) /\ HandlerOK(heap, old) /\ IsHandler(heap, old)
  <2>1. DOMAIN handlers = 1..Len(handlers)  BY <1>2 DEF SlogOK, IsSeq
  <2>2. QED  BY <1>2, <2>1 DEF SlogOK, HandlerOK
<1>4. GoodList(list)
  <2>1. Len(handlers) \in 1..MaxHandlers
    <3>1. DOMAIN handlers = 1..Len(handlers) /\ Len(handlers) \in Nat
      BY <1>2 DEF SlogOK, IsSeq
    <3>2. MaxHandlers \in Nat  BY SlogAssumption
    <3>3. QED  BY <1>1, <3>1, <3>2
  <2>2. QED  BY <2>1, ListsGood
<1>5. op.group = FALSE /\ op.list = list  OBVIOUS
<1> HIDE DEF copy, added, buffer, old, op
<1>6. old = [attrs |-> old.attrs, groups |-> old.groups, given |-> old.given]
      /\ IsBuffer(heap, old.attrs) /\ IsSeq(old.groups)
  BY <1>3 DEF IsHandler
<1>7. ASSUME old.groups = <<>> PROVE HandlerOK(added.heap, y)
  <2>1. BufferOf(heap, old.attrs, added.heap, buffer, list)
    <3>1. target = old.attrs  BY <1>7
    <3> HIDE DEF target
    <3>2. IsBuffer(heap, target)  BY <1>6, <3>1
    <3>3. BufferOf(heap, target, added.heap, buffer, list)
      BY <1>3, <1>4, <3>2, BufferGiven DEF copy, added, buffer
    <3>4. QED  BY <3>1, <3>3
  <2> DEFINE z == [attrs |-> buffer, groups |-> old.groups, given |-> told]
  <2>2. y = z
    <3> HIDE DEF told
    <3>1. y = [[old EXCEPT !.attrs = buffer] EXCEPT !.given = told]  BY <1>7
    <3>2. QED  BY <1>6, <3>1
  <2> HIDE DEF y
  <2>3. HandlerOK(added.heap, z)
    BY <1>3, <1>4, <1>5, <1>7, <2>1, AttrsOfHandler
  <2>4. QED  BY <2>2, <2>3
<1>8. ASSUME old.groups # <<>> PROVE HandlerOK(added.heap, y)
  <2> DEFINE gs == old.groups
             leaf == [name |-> gs[1].name, attrs |-> buffer]
             new == [gs EXCEPT ![1] = leaf]
             z == [attrs |-> old.attrs, groups |-> new, given |-> told]
  <2>1. 1 \in DOMAIN gs /\ Head(gs) = gs[1] /\ IsGroup(heap, gs[1])
    <3>1. Len(gs) # 0 /\ Len(gs) \in Nat /\ DOMAIN gs = 1..Len(gs)
      BY <1>6, <1>8, IsSeqJoined DEF IsSeq
    <3>2. 1 \in DOMAIN gs  BY <3>1
    <3>3. QED  BY <1>3, <3>2 DEF IsHandler
  <2>2. BufferOf(heap, gs[1].attrs, added.heap, buffer, list)
    <3>1. target = gs[1].attrs  BY <1>8, <2>1
    <3> HIDE DEF target
    <3>2. IsBuffer(heap, target)  BY <2>1, <3>1 DEF IsGroup
    <3>3. BufferOf(heap, target, added.heap, buffer, list)
      BY <1>3, <1>4, <3>2, BufferGiven DEF copy, added, buffer
    <3>4. QED  BY <3>1, <3>3
  <2>3. y = z
    <3> DEFINE edited == [gs EXCEPT ![1].attrs = buffer]
    <3> HIDE DEF told
    <3>1. y = [[old EXCEPT !.groups = edited] EXCEPT !.given = told]  BY <1>8
    <3>2. edited = new
      <4> DEFINE g == gs[1]
      <4>1. g = [name |-> g.name, attrs |-> g.attrs]  BY <2>1 DEF IsGroup
      <4> HIDE DEF g
      <4>2. [g EXCEPT !.attrs = buffer] = [name |-> g.name, attrs |-> buffer]  BY <4>1
      <4>3. edited = [gs EXCEPT ![1] = [g EXCEPT !.attrs = buffer]]  BY DEF g
      <4>4. leaf = [name |-> g.name, attrs |-> buffer]  BY DEF g
      <4> HIDE DEF leaf, edited, gs
      <4>5. QED  BY <4>2, <4>3, <4>4
    <3> HIDE DEF edited, y
    <3> HIDE DEF new
    <3> DEFINE v == [old EXCEPT !.groups = new]
    <3>3. v = [attrs |-> old.attrs, groups |-> new, given |-> old.given]  BY <1>6
    <3>4. y = [v EXCEPT !.given = told]  BY <3>1, <3>2
    <3> HIDE DEF v
    <3>5. QED  BY <3>3, <3>4
  <2> HIDE DEF y
  <2>4. HandlerOK(added.heap, z)
    BY <1>3, <1>4, <1>5, <1>8, <2>2, AttrsOfLeaf
  <2>5. QED  BY <2>3, <2>4
<1>9. IsHeap(added.heap) /\ Keeps(added.heap, heap)
  <2>1. IsBuffer(heap, target)
    <3>1. CASE old.groups = <<>>  BY <1>6, <3>1
    <3>2. CASE old.groups # <<>>
      <4> DEFINE gs == old.groups
      <4>1. Len(gs) # 0 /\ Len(gs) \in Nat /\ DOMAIN gs = 1..Len(gs)
        BY <1>6, <3>2, IsSeqJoined DEF IsSeq
      <4>2. 1 \in DOMAIN gs  BY <4>1
      <4>3. IsGroup(heap, gs[1]) /\ Head(gs) = gs[1]  BY <1>3, <4>2 DEF IsHandler
      <4>4. target = gs[1].attrs  BY <3>2, <4>3
      <4>5. QED  BY <4>3, <4>4 DEF IsGroup
    <3>3. QED  BY <3>1, <3>2
  <2> HIDE DEF target
  <2>2. BufferOf(heap, target, added.heap, buffer, list)
    BY <1>3, <1>4, <2>1, BufferGiven DEF copy, added, buffer
  <2>3. QED  BY <2>2 DEF BufferOf
<1> HIDE DEF y
<1>10. HandlerOK(added.heap, y)  BY <1>7, <1>8
<1>11. SlogOK(added.heap, Append(handlers, y), log)  BY <1>2, <1>9, <1>10, HandlerAdded
<1>12. QED  BY <1>1, <1>11 DEF SlogIInv

(* WithGroup.                                                              *)
LEMMA GroupStep ==
  ASSUME SlogIInv, NEW h \in DOMAIN handlers, NEW name, WithGroup(h, name)
  PROVE  SlogIInv'
<1> DEFINE x == handlers[h]
           y == [x EXCEPT !.groups = <<[name |-> name, attrs |-> NoBuffer]>> \o @,
                          !.given = Append(@, [group |-> TRUE, list |-> <<name>>])]
<1>1. heap' = heap /\ handlers' = Append(handlers, y) /\ log' = log  BY DEF WithGroup
<1>2. SlogOK(heap, handlers, log)  BY DEF SlogIInv
<1>3. IsHeap(heap) /\ HandlerOK(heap, x) /\ Keeps(heap, heap)
  <2>1. DOMAIN handlers = 1..Len(handlers)  BY <1>2 DEF SlogOK, IsSeq
  <2>2. IsHeap(heap)  BY <1>2 DEF SlogOK
  <2>3. QED  BY <1>2, <2>1, <2>2, KeepsItself DEF SlogOK
<1> HIDE DEF x
<1>4. HandlerOK(heap, y)  BY <1>3, GroupOpened
<1> HIDE DEF y
<1>5. SlogOK(heap, Append(handlers, y), log)  BY <1>2, <1>3, <1>4, HandlerAdded
<1>6. QED  BY <1>1, <1>5 DEF SlogIInv

(* Handle, from its call to the first copy.                                *)
LEMMA HandleStep ==
  ASSUME SlogIInv, NEW h \in DOMAIN handlers, NEW c \in Logs, NEW own \in OwnOf[c],
         Handle(c, h, own)
  PROVE  SlogIInv'
<1> DEFINE mine == Converted(own)
           x == handlers[h]
           first == IF x.groups = <<>> THEN 0
                    ELSE IF mine # <<>> THEN 1 ELSE NonEmptyFrom(x.groups, 1)
           ph == IF first = 0 THEN "emitted" ELSE "append"
           at == Content(x.attrs) \o IF x.groups = <<>> THEN mine ELSE <<>>
           er == ErrorOf(x, own)
           l == [phase |-> ph, handler |-> h, own |-> own, level |-> first,
                 slice |-> NoBuffer, out |-> mine, attributes |-> at, err |-> er]
<1>1. log' = [log EXCEPT ![c] = l] /\ heap' = heap /\ handlers' = handlers
  BY DEF Handle
<1>2. SlogOK(heap, handlers, log)  BY DEF SlogIInv
<1>3. h \in 1..Len(handlers) /\ IsHeap(heap) /\ HandlerOK(heap, x) /\ Keeps(heap, heap)
  <2>1. DOMAIN handlers = 1..Len(handlers)  BY <1>2 DEF SlogOK, IsSeq
  <2>2. IsHeap(heap)  BY <1>2 DEF SlogOK
  <2>3. QED  BY <1>2, <2>1, <2>2, KeepsItself DEF SlogOK
<1>4. GoodList(own)  BY ListsGood
<1> HIDE DEF first, at, er, mine
<1>5. /\ l.phase = ph /\ l.handler = h /\ l.own = own /\ l.level = first /\ l.out = mine
      /\ l.attributes = at /\ l.err = er
      /\ l = [phase |-> l.phase, handler |-> l.handler, own |-> l.own, level |-> l.level,
              slice |-> l.slice, out |-> l.out, attributes |-> l.attributes, err |-> l.err]
  OBVIOUS
<1> HIDE DEF l
<1>6. /\ mine = Converted(own)
      /\ first = IF x.groups = <<>> THEN 0
                 ELSE IF mine # <<>> THEN 1 ELSE NonEmptyFrom(x.groups, 1)
      /\ l.phase = (IF first = 0 THEN "emitted" ELSE "append")
      /\ l.attributes = ContentIn(heap, x.attrs) \o (IF x.groups = <<>> THEN mine ELSE <<>>)
      /\ l.err = ErrorOf(x, own)
  BY <1>5 DEF first, at, er, mine, Content
<1> HIDE DEF x, ph
<1>7. LogsGiven(heap, x, l)
  <2>1. l.own = own /\ l.out = mine /\ l.level = first  BY <1>5
  <2>2. QED  BY <1>3, <1>4, <1>6, <2>1, Handled
<1>8. LogOK(heap, handlers, l)  BY <1>3, <1>5, <1>7 DEF LogOK, IsLog, x
<1>9. SlogOK(heap, handlers, [log EXCEPT ![c] = l])  BY <1>2, <1>3, <1>8, LogMoved
<1>10. QED  BY <1>1, <1>9 DEF SlogIInv

(* AppendLevel.                                                            *)
LEMMA AppendStep ==
  ASSUME SlogIInv, NEW c \in Logs, AppendLevel(c)
  PROVE  SlogIInv'
<1> DEFINE l == log[c]
           x == handlers[l.handler]
           made == KeyValues(x.groups[l.level].attrs, l.out)
           m == Sliced(l, made.buffer)
<1>1. SlogOK(heap, handlers, log) /\ log = [d \in Logs |-> log[d]]
  BY DEF SlogIInv, SlogOK
<1>2. l.phase = "append" /\ heap' = made.heap /\ handlers' = handlers
  BY DEF AppendLevel, GroupOf
<1>3. log' = [log EXCEPT ![c] = m]
  <2>1. log' = [log EXCEPT ![c].phase = "copy", ![c].slice = made.buffer]
    BY DEF AppendLevel, GroupOf
  <2>2. QED  BY <1>1, <2>1 DEF Sliced
<1>4. IsHeap(heap) /\ LogOK(heap, handlers, l)  BY <1>1 DEF SlogOK
<1> HIDE DEF l
<1>5. l.handler \in 1..Len(handlers) /\ IsLog(l) /\ LogsGiven(heap, x, l)
  BY <1>2, <1>4 DEF LogOK
<1>6. HandlerOK(heap, x) /\ IsHandler(heap, x)  BY <1>1, <1>5 DEF SlogOK, HandlerOK
<1> HIDE DEF x
<1>7. /\ IsHeap(made.heap) /\ Keeps(made.heap, heap)
      /\ IsLog(m) /\ m.phase = "copy" /\ m.handler = l.handler
      /\ LogsGiven(made.heap, x, m)
  <2>1. made = KeyValues(x.groups[l.level].attrs, l.out)  OBVIOUS
  <2> HIDE DEF made
  <2>2. m = Sliced(l, made.buffer)  OBVIOUS
  <2> HIDE DEF m
  <2>3. QED  BY <1>2, <1>4, <1>5, <1>6, <2>1, <2>2, LevelAppended
<1> HIDE DEF made, m
<1>8. LogOK(made.heap, handlers, m)  BY <1>5, <1>7 DEF LogOK, x
<1>9. SlogOK(made.heap, handlers, [log EXCEPT ![c] = m])  BY <1>1, <1>7, <1>8, LogMoved
<1>10. QED  BY <1>2, <1>3, <1>9 DEF SlogIInv

(* CopyLevel.                                                              *)
LEMMA CopyStep ==
  ASSUME SlogIInv, NEW c \in Logs, CopyLevel(c)
  PROVE  SlogIInv'
<1> DEFINE l == log[c]
           x == handlers[l.handler]
           group == <<x.groups[l.level].name, ContentIn(heap, l.slice)>>
           next == NonEmptyFrom(x.groups, l.level + 1)
           m == Copied(l, group, next)
<1>1. SlogOK(heap, handlers, log) /\ log = [d \in Logs |-> log[d]]
  BY DEF SlogIInv, SlogOK
<1>2. l.phase = "copy" /\ heap' = heap /\ handlers' = handlers
  BY DEF CopyLevel
<1>3. log' = [log EXCEPT ![c] = m]
  <2> DEFINE ph == IF next = 0 THEN "emitted" ELSE "append"
  <2>1. log' = [log EXCEPT ![c].phase = ph, ![c].level = next, ![c].out = <<group>>,
                           ![c].attributes = IF next = 0 THEN Append(@, group) ELSE @]
    BY DEF CopyLevel, GroupOf, Content
  <2> HIDE DEF ph, next, group
  <2>2. log' = [log EXCEPT ![c] = [l EXCEPT !.phase = ph, !.level = next, !.out = <<group>>,
                                   !.attributes = IF next = 0 THEN Append(@, group) ELSE @]]
    BY <1>1, <2>1
  <2>3. QED  BY <2>2 DEF ph, Copied
<1>4. IsHeap(heap) /\ LogOK(heap, handlers, l) /\ Keeps(heap, heap)
  <2>1. IsHeap(heap) /\ LogOK(heap, handlers, l)  BY <1>1 DEF SlogOK
  <2>2. QED  BY <2>1, KeepsItself
<1> HIDE DEF l
<1>5. l.handler \in 1..Len(handlers) /\ IsLog(l) /\ LogsGiven(heap, x, l)
  BY <1>2, <1>4 DEF LogOK
<1>6. HandlerOK(heap, x) /\ IsHandler(heap, x)  BY <1>1, <1>5 DEF SlogOK, HandlerOK
<1> HIDE DEF x
<1>7. IsLog(m) /\ m.phase # "idle" /\ m.handler = l.handler /\ LogsGiven(heap, x, m)
  <2>1. group = <<x.groups[l.level].name, ContentIn(heap, l.slice)>>
        /\ next = NonEmptyFrom(x.groups, l.level + 1)
    OBVIOUS
  <2> HIDE DEF group, next
  <2>2. m = Copied(l, group, next)  OBVIOUS
  <2> HIDE DEF m
  <2>3. QED  BY <1>2, <1>4, <1>5, <1>6, <2>1, <2>2, LevelCopied
<1> HIDE DEF m
<1>8. LogOK(heap, handlers, m)  BY <1>5, <1>7 DEF LogOK, x
<1>9. SlogOK(heap, handlers, [log EXCEPT ![c] = m])  BY <1>1, <1>4, <1>8, LogMoved
<1>10. QED  BY <1>2, <1>3, <1>9 DEF SlogIInv

(* Every step of a handler.                                                *)
LEMMA SlogStep == SlogIInv /\ [SlogNext]_slogVars => SlogIInv'
<1> SUFFICES ASSUME SlogIInv, [SlogNext]_slogVars PROVE SlogIInv'  OBVIOUS
<1>1. ASSUME NEW h \in DOMAIN handlers, NEW list \in GivenTo[Len(handlers)],
             WithAttrs(h, list)
      PROVE  SlogIInv'
  BY <1>1, AttrsStep
<1>2. ASSUME NEW h \in DOMAIN handlers, WithGroup(h, GroupName[Len(handlers)])
      PROVE  SlogIInv'
  BY <1>2, GroupStep
<1>3. ASSUME NEW h \in DOMAIN handlers, NEW c \in Logs, NEW own \in OwnOf[c],
             Handle(c, h, own)
      PROVE  SlogIInv'
  BY <1>3, HandleStep
<1>4. ASSUME NEW c \in Logs, AppendLevel(c) PROVE SlogIInv'  BY <1>4, AppendStep
<1>5. ASSUME NEW c \in Logs, CopyLevel(c) PROVE SlogIInv'  BY <1>5, CopyStep
<1>6. CASE SlogOver  BY <1>6 DEF SlogOver, slogVars, SlogIInv
<1>7. CASE UNCHANGED slogVars  BY <1>7 DEF slogVars, SlogIInv
<1>8. QED  BY <1>1, <1>2, <1>3, <1>4, <1>5, <1>6, <1>7 DEF SlogNext

(* The invariant gives the property.                                       *)
LEMMA SlogAsGiven == SlogIInv => LoggedAsGiven
<1> SUFFICES ASSUME SlogIInv, NEW c \in Logs, log[c].phase = "emitted"
             PROVE  /\ log[c].attributes = AsGiven(handlers[log[c].handler].given, log[c].own)
                    /\ log[c].err = ErrorGiven(handlers[log[c].handler].given, log[c].own)
  BY DEF LoggedAsGiven
<1>1. LogOK(heap, handlers, log[c]) /\ log[c].phase # "idle"  BY DEF SlogIInv, SlogOK
<1>2. QED  BY <1>1 DEF LogOK, LogsGiven

(* What a record logs through a handler of slog is what was given to that  *)
(* handler and its ancestors, whatever other handlers and records do to    *)
(* the arrays the buffers share, and its error is the last one given, for  *)
(* any lists, groups, handlers and order of the calls.                     *)
THEOREM RecordsLogWhatIsGiven == SlogSpec => []LoggedAsGiven
<1>1. SlogInit => SlogIInv  BY SlogStarts
<1>2. SlogIInv /\ [SlogNext]_slogVars => SlogIInv'  BY SlogStep
<1>3. SlogIInv => LoggedAsGiven  BY SlogAsGiven
<1>4. QED  BY <1>1, <1>2, <1>3, PTL DEF SlogSpec

-----------------------------------------------------------------------------
(* Resources: the iterator over two sorted sets.                           *)

Positions(V) == [i : Nat \ {0}, j : Nat \ {0}, out : Seq(V)]
FirstPosition == [i |-> 1, j |-> 1, out |-> <<>>]

(* Where Next takes the iterator, by what it takes.                        *)
LEMMA NextIs ==
  ASSUME NEW V, NEW one \in Seq(V), NEW two \in Seq(V), NEW w \in Positions(V)
  PROVE  LET v == NextOf(w, one, two)
         IN  /\ v \in Positions(V)
             /\ Ahead(w, one, two) =>
                  /\ v.i = w.i + 1 /\ v.out = Append(w.out, one[w.i])
                  /\ v.j = IF SameNext(w, one, two) THEN w.j + 1 ELSE w.j
             /\ ~Ahead(w, one, two) /\ w.j <= Len(two) =>
                  v.i = w.i /\ v.out = Append(w.out, two[w.j]) /\ v.j = w.j + 1
             /\ ~Ahead(w, one, two) /\ w.j > Len(two) => v = w
<1> DEFINE v == NextOf(w, one, two)
<1>1. /\ w.i \in Nat \ {0} /\ w.j \in Nat \ {0} /\ w.out \in Seq(V)
      /\ w = [i |-> w.i, j |-> w.j, out |-> w.out]
  BY DEF Positions
<1>2. /\ w.i <= Len(one) => w.i \in DOMAIN one /\ one[w.i] \in V
      /\ w.j <= Len(two) => w.j \in DOMAIN two /\ two[w.j] \in V
  BY <1>1
<1>3. CASE Ahead(w, one, two)
  <2> DEFINE i == w.i + 1
             j == IF SameNext(w, one, two) THEN w.j + 1 ELSE w.j
             out == Append(w.out, one[w.i])
  <2>1. v = [i |-> i, j |-> j, out |-> out]  BY <1>3, Zenon DEF NextOf
  <2>2. i \in Nat \ {0} /\ j \in Nat \ {0}  BY <1>1
  <2>3. one[w.i] \in V  BY <1>2, <1>3 DEF Ahead
  <2>4. out \in Seq(V)  BY <1>1, <2>3
  <2> HIDE DEF v, i, j, out
  <2>5. v \in Positions(V)  BY <2>1, <2>2, <2>4 DEF Positions
  <2>6. v.i = i /\ v.j = j /\ v.out = out  BY <2>1
  <2>7. QED  BY <1>3, <2>5, <2>6 DEF v, i, j, out
<1>4. CASE ~Ahead(w, one, two) /\ w.j <= Len(two)
  <2> DEFINE j == w.j + 1
             out == Append(w.out, two[w.j])
  <2>1. v = [w EXCEPT !.j = w.j + 1, !.out = Append(w.out, two[w.j])]
    BY <1>4, Zenon DEF NextOf
  <2>2. v = [i |-> w.i, j |-> j, out |-> out]  BY <1>1, <2>1
  <2>3. j \in Nat \ {0}  BY <1>1
  <2>4. out \in Seq(V)  BY <1>1, <1>2, <1>4
  <2> HIDE DEF v, j, out
  <2>5. v \in Positions(V)  BY <1>1, <2>2, <2>3, <2>4 DEF Positions
  <2>6. v.i = w.i /\ v.j = j /\ v.out = out  BY <2>2
  <2>7. ~(w.j > Len(two))
    <3>1. Len(two) \in Nat  OBVIOUS
    <3>2. QED  BY <1>1, <1>4, <3>1
  <2>8. QED  BY <1>4, <2>5, <2>6, <2>7 DEF v, j, out
<1>5. CASE ~Ahead(w, one, two) /\ w.j > Len(two)
  <2>1. ~(w.j <= Len(two))  BY <1>1, <1>5
  <2>2. v = w  BY <1>5, <2>1, Zenon DEF NextOf
  <2>3. QED  BY <1>5, <2>1, <2>2
<1>6. Len(two) \in Nat  OBVIOUS
<1>7. w.j <= Len(two) \/ w.j > Len(two)  BY <1>1, <1>6
<1>8. QED  BY <1>3, <1>4, <1>5, <1>7

(* The iterator goes from each position to the next.                       *)
LEMMA IterationIs ==
  ASSUME NEW V, NEW one \in Seq(V), NEW two \in Seq(V)
  PROVE  \E d \in [Nat -> Positions(V)] :
           /\ d[0] = FirstPosition
           /\ \A n \in Nat : d[n + 1] = NextOf(d[n], one, two)
           /\ Walk(one, two) = d[Len(one) + Len(two)].out
<1> DEFINE S == Positions(V)
           step == [n \in Nat |-> [w \in S |-> NextOf(w, one, two)]]
           Unfolds(f) == f = [n \in Nat |-> IF n = 0 THEN FirstPosition
                                            ELSE NextOf(f[n - 1], one, two)]
<1>1. FirstPosition \in S  BY DEF FirstPosition, Positions
<1>2. \A w \in S : NextOf(w, one, two) \in S  BY NextIs
<1>3. step \in [Nat -> [S -> S]]  BY <1>2
<1>4. \A n \in Nat, w \in S : step[n][w] = NextOf(w, one, two)  OBVIOUS
<1> HIDE DEF S, step
<1>5. PICK g : Recursion(S, FirstPosition, step, g)  BY <1>1, <1>3, RecursionOnNat
<1>6. /\ g \in [Nat -> S] /\ g[0] = FirstPosition
      /\ \A n \in Nat : g[n + 1] = NextOf(g[n], one, two)
  <2>1. /\ g \in [Nat -> S] /\ g[0] = FirstPosition
        /\ \A n \in Nat : g[n + 1] = step[n + 1][g[n]]
    BY <1>5 DEF Recursion
  <2>2. \A n \in Nat : n + 1 \in Nat /\ g[n] \in S  BY <2>1
  <2>3. QED  BY <1>4, <2>1, <2>2
<1>7. ASSUME NEW n \in Nat
      PROVE  g[n] = IF n = 0 THEN FirstPosition ELSE NextOf(g[n - 1], one, two)
  <2>1. CASE n = 0  BY <2>1, <1>6
  <2>2. CASE n # 0
    <3>1. n - 1 \in Nat /\ (n - 1) + 1 = n  BY <2>2
    <3>2. QED  BY <3>1, <2>2, <1>6
  <2>3. QED  BY <2>1, <2>2
<1>8. Unfolds(g)
  <2>1. g = [n \in Nat |-> g[n]]  BY <1>6
  <2>2. QED  BY <1>7, <2>1
<1>9. Unfolds(Iteration(one, two))
  <2>1. Iteration(one, two) = CHOOSE f : Unfolds(f)  BY DEF Iteration, FirstPosition
  <2> HIDE DEF Unfolds
  <2>2. QED  BY <1>8, <2>1
<1> DEFINE f == Iteration(one, two)
<1>10. f = [n \in Nat |-> IF n = 0 THEN FirstPosition ELSE NextOf(f[n - 1], one, two)]
  BY <1>9
<1> HIDE DEF f
<1>11. f[0] = FirstPosition  BY <1>10
<1>12. ASSUME NEW n \in Nat PROVE f[n + 1] = NextOf(f[n], one, two)
  <2>1. n + 1 \in Nat /\ n + 1 # 0 /\ (n + 1) - 1 = n  OBVIOUS
  <2>2. QED  BY <1>10, <2>1
<1>13. f \in [Nat -> S]
  <2> DEFINE T == {n \in Nat : f[n] \in S}
  <2>1. 0 \in T  BY <1>1, <1>11
  <2>2. ASSUME NEW n \in Nat, n \in T PROVE n + 1 \in T
    <3>1. f[n] \in S  BY <2>2
    <3>2. f[n + 1] = NextOf(f[n], one, two)  BY <1>12
    <3>3. QED  BY <1>2, <3>1, <3>2
  <2>3. Nat \subseteq T
    <3> HIDE DEF T
    <3>1. QED  BY <2>1, <2>2, SetInduction
  <2>4. f = [n \in Nat |-> f[n]]  BY <1>10
  <2>5. QED  BY <2>3, <2>4
<1>14. Walk(one, two) = f[Len(one) + Len(two)].out  BY DEF Walk, f
<1>15. QED  BY <1>11, <1>12, <1>13, <1>14 DEF S
(* Sorted by key, each key once.                                           *)
Ordered(s) == \A p, q \in 1..Len(s) : p < q => Key(s[p]) < Key(s[q])

(* Everything given comes before element i of s.                           *)
UpToHere(out, s, i) == i <= Len(s) => \A q \in 1..Len(out) : Key(out[q]) < Key(s[i])

(* What is given after some steps: the elements gone past, those of the    *)
(* second only if the first has not their key.                             *)
Origin(a, one, two, i, j) ==
  \/ \E x \in 1..(i - 1) : a = one[x]
  \/ /\ \E y \in 1..(j - 1) : a = two[y]
     /\ \A x \in 1..Len(one) : Key(one[x]) # Key(a)

Gone(out, s, i) == \A x \in 1..(i - 1) : \E q \in 1..Len(out) : Key(out[q]) = Key(s[x])

WalkedTo(w, one, two, p) ==
  /\ w.i \in 1..(Len(one) + 1) /\ w.j \in 1..(Len(two) + 1)
  /\ Ordered(w.out) /\ UpToHere(w.out, one, w.i) /\ UpToHere(w.out, two, w.j)
  /\ \A q \in 1..Len(w.out) : Origin(w.out[q], one, two, w.i, w.j)
  /\ Gone(w.out, one, w.i) /\ Gone(w.out, two, w.j)
  /\ w.i + w.j >= p + 2 \/ (w.i = Len(one) + 1 /\ w.j = Len(two) + 1)

(* One more element that is greater than all given so far.                 *)
LEMMA OrderedAppend ==
  ASSUME NEW V, \A b \in V : Key(b) \in Int, NEW out \in Seq(V), NEW a \in V,
         Ordered(out), \A q \in 1..Len(out) : Key(out[q]) < Key(a)
  PROVE  Ordered(Append(out, a))
<1> DEFINE t == Append(out, a)
           n == Len(out)
<1>1. /\ n \in Nat /\ Len(t) = n + 1 /\ t[n + 1] = a
      /\ \A q \in 1..n : t[q] = out[q] /\ out[q] \in V
  OBVIOUS
<1> HIDE DEF t
<1>2. ASSUME NEW p \in 1..(n + 1), NEW q \in 1..(n + 1), p < q PROVE Key(t[p]) < Key(t[q])
  <2>1. p \in 1..n  BY <1>1, <1>2
  <2>2. CASE q = n + 1  BY <1>1, <2>1, <2>2
  <2>3. CASE q # n + 1
    <3>1. q \in 1..n  BY <1>1, <2>3
    <3>2. QED  BY <1>1, <1>2, <2>1, <3>1 DEF Ordered
  <2>4. QED  BY <2>2, <2>3
<1>3. QED  BY <1>1, <1>2 DEF Ordered, t

(* What is given stays where it is.                                        *)
LEMMA AppendKeeps ==
  ASSUME NEW V, NEW out \in Seq(V), NEW a \in V
  PROVE  /\ Len(out) \in Nat /\ Len(Append(out, a)) = Len(out) + 1
         /\ Append(out, a)[Len(out) + 1] = a
         /\ \A q \in 1..Len(out) : Append(out, a)[q] = out[q]
         /\ \A q \in 1..(Len(out) + 1) : q \in 1..Len(out) \/ q = Len(out) + 1
OBVIOUS

(* The next bound, when a and all before it are less than what comes next. *)
LEMMA BoundMoves ==
  ASSUME NEW V, \A b \in V : Key(b) \in Int, NEW out \in Seq(V), NEW a \in V,
         \A q \in 1..Len(out) : Key(out[q]) < Key(a),
         NEW s \in Seq(V), NEW i \in Nat \ {0}, i <= Len(s) => Key(a) < Key(s[i])
  PROVE  UpToHere(Append(out, a), s, i)
<1> DEFINE t == Append(out, a)
           n == Len(out)
<1> SUFFICES ASSUME i <= Len(s), NEW q \in 1..Len(t) PROVE Key(t[q]) < Key(s[i])
  BY DEF UpToHere
<1>1. /\ n \in Nat /\ Len(t) = n + 1 /\ t[n + 1] = a
      /\ \A p \in 1..n : t[p] = out[p] /\ out[p] \in V
  OBVIOUS
<1>2. s[i] \in V /\ Key(s[i]) \in Int /\ Key(a) \in Int  OBVIOUS
<1> HIDE DEF t
<1>3. CASE q = n + 1  BY <1>1, <1>3
<1>4. CASE q # n + 1
  <2>1. q \in 1..n  BY <1>1, <1>4
  <2>2. Key(t[q]) < Key(a) /\ Key(t[q]) \in Int  BY <1>1, <2>1
  <2>3. QED  BY <1>2, <2>2
<1>5. QED  BY <1>3, <1>4

(* Elements gone past, one further.                                        *)
LEMMA GoneOn ==
  ASSUME NEW V, NEW out \in Seq(V), NEW a \in V, NEW s \in Seq(V), NEW i \in Nat \ {0},
         Gone(out, s, i), NEW j, j = i \/ (j = i + 1 /\ Key(s[i]) = Key(a))
  PROVE  Gone(Append(out, a), s, j)
<1> DEFINE t == Append(out, a)
           n == Len(out)
<1>1. /\ n \in Nat /\ Len(t) = n + 1 /\ t[n + 1] = a
      /\ \A p \in 1..n : t[p] = out[p] /\ p \in 1..(n + 1)
      /\ n + 1 \in 1..(n + 1)
  OBVIOUS
<1> HIDE DEF t
<1>2. ASSUME NEW x \in 1..(j - 1) PROVE \E q \in 1..Len(t) : Key(t[q]) = Key(s[x])
  <2>1. CASE x \in 1..(i - 1)
    <3>1. PICK q \in 1..n : Key(out[q]) = Key(s[x])  BY <2>1 DEF Gone
    <3>2. QED  BY <1>1, <3>1
  <2>2. CASE x \notin 1..(i - 1)
    <3>1. x = i /\ j = i + 1  BY <2>2
    <3>2. Key(t[n + 1]) = Key(s[x])  BY <1>1, <3>1
    <3>3. QED  BY <1>1, <3>2
  <2>3. QED  BY <2>1, <2>2
<1>3. QED  BY <1>2 DEF Gone, t

(* Where an element comes from, further on.                                *)
LEMMA OriginKept ==
  ASSUME NEW a, NEW one, NEW two, NEW i \in Nat, NEW j \in Nat, Origin(a, one, two, i, j),
         NEW k \in Nat, NEW l \in Nat, i <= k, j <= l
  PROVE  Origin(a, one, two, k, l)
<1>1. \A x \in 1..(i - 1) : x \in 1..(k - 1)  OBVIOUS
<1>2. \A y \in 1..(j - 1) : y \in 1..(l - 1)  OBVIOUS
<1>3. QED  BY <1>1, <1>2 DEF Origin

(* Next takes from the first set.                                          *)
LEMMA OneTaken ==
  ASSUME NEW V, \A b \in V : Key(b) \in Int, NEW one \in Seq(V), NEW two \in Seq(V),
         Ordered(one), Ordered(two), NEW w \in Positions(V), NEW p \in Nat,
         WalkedTo(w, one, two, p), Ahead(w, one, two)
  PROVE  WalkedTo(NextOf(w, one, two), one, two, p + 1)
<1> DEFINE v == NextOf(w, one, two)
           i == w.i
           j == w.j
           out == w.out
           a == one[i]
           m == Len(one)
           n == Len(two)
<1>1. m \in Nat /\ n \in Nat /\ i \in Nat \ {0} /\ j \in Nat \ {0} /\ out \in Seq(V)
  BY DEF Positions
<1>2. /\ i \in 1..(m + 1) /\ j \in 1..(n + 1)
      /\ Ordered(out) /\ UpToHere(out, one, i) /\ UpToHere(out, two, j)
      /\ \A q \in 1..Len(out) : Origin(out[q], one, two, i, j)
      /\ Gone(out, one, i) /\ Gone(out, two, j)
      /\ i + j >= p + 2 \/ (i = m + 1 /\ j = n + 1)
  BY DEF WalkedTo
<1>3. i <= m /\ (j > n \/ Key(one[i]) <= Key(two[j]))  BY DEF Ahead
<1>4. /\ v \in Positions(V) /\ v.i = i + 1 /\ v.out = Append(out, a)
      /\ v.j = IF SameNext(w, one, two) THEN j + 1 ELSE j
  BY NextIs
<1>5. SameNext(w, one, two) <=> j <= n /\ Key(a) = Key(two[j])  BY <1>3 DEF SameNext
<1>6. i \in 1..m /\ a \in V /\ Key(a) \in Int  BY <1>1, <1>3
<1>7. \A k \in 1..n : two[k] \in V /\ Key(two[k]) \in Int  OBVIOUS
<1>8. \A k \in 1..m : one[k] \in V /\ Key(one[k]) \in Int  OBVIOUS
<1> DEFINE ju == v.j
           iu == v.i
           ou == v.out
<1> HIDE DEF v, i, j, out, a, m, n, ju, iu, ou
<1>9. /\ ju \in Nat \ {0} /\ ju \in 1..(n + 1) /\ j <= ju
      /\ ju = j \/ (ju = j + 1 /\ j <= n /\ Key(two[j]) = Key(a))
      /\ ju = j => (j > n \/ Key(a) # Key(two[j]))
  <2>1. CASE SameNext(w, one, two)  BY <1>1, <1>4, <1>5, <2>1 DEF ju
  <2>2. CASE ~SameNext(w, one, two)  BY <1>1, <1>2, <1>4, <1>5, <2>2 DEF ju
  <2>3. QED  BY <2>1, <2>2
<1>10. \A q \in 1..Len(out) : Key(out[q]) < Key(a)  BY <1>2, <1>3 DEF UpToHere, a, i, m
<1>11. Ordered(ou)  BY <1>1, <1>2, <1>4, <1>6, <1>10, OrderedAppend DEF ou
<1>12. UpToHere(ou, one, i + 1)
  <2>1. ASSUME i + 1 <= m PROVE Key(a) < Key(one[i + 1])
    <3>1. i + 1 \in 1..m /\ i < i + 1  BY <1>1, <2>1
    <3>2. QED  BY <1>6, <3>1 DEF Ordered, a, m
  <2>2. i + 1 \in Nat \ {0}  BY <1>1
  <2>3. QED  BY <1>1, <1>4, <1>6, <1>10, <2>1, <2>2, BoundMoves DEF ou, m
<1>13. UpToHere(ou, two, ju)
  <2>1. ASSUME ju <= n PROVE Key(a) < Key(two[ju])
    <3>1. CASE ju = j
      <4>1. j \in 1..n /\ Key(a) # Key(two[j]) /\ Key(a) <= Key(two[j])
        BY <1>1, <1>3, <1>9, <2>1, <3>1 DEF a
      <4>2. QED  BY <1>6, <1>7, <3>1, <4>1
    <3>2. CASE ju # j
      <4>1. ju = j + 1 /\ j \in 1..n /\ j + 1 \in 1..n /\ j < j + 1 /\ Key(two[j]) = Key(a)
        BY <1>1, <1>9, <2>1, <3>2
      <4>2. QED  BY <4>1 DEF Ordered, n
    <3>3. QED  BY <3>1, <3>2
  <2>2. QED  BY <1>1, <1>4, <1>6, <1>9, <1>10, <2>1, BoundMoves DEF ou, n
<1>14. /\ Len(ou) = Len(out) + 1 /\ ou[Len(out) + 1] = a
       /\ \A q \in 1..Len(out) : ou[q] = out[q]
       /\ \A q \in 1..(Len(out) + 1) : q \in 1..Len(out) \/ q = Len(out) + 1
  BY <1>1, <1>4, <1>6, AppendKeeps DEF ou
<1>15. ASSUME NEW q \in 1..Len(ou) PROVE Origin(ou[q], one, two, i + 1, ju)
  <2>1. CASE q \in 1..Len(out)
    <3>1. Origin(out[q], one, two, i, j)  BY <1>2, <2>1
    <3>2. i \in Nat /\ i + 1 \in Nat /\ j \in Nat /\ ju \in Nat /\ i <= i + 1 /\ j <= ju
      BY <1>1, <1>9
    <3>3. Origin(out[q], one, two, i + 1, ju)  BY <3>1, <3>2, OriginKept
    <3>4. QED  BY <1>14, <2>1, <3>3
  <2>2. CASE q = Len(out) + 1
    <3>1. ou[q] = one[i] /\ i \in 1..((i + 1) - 1)  BY <1>1, <1>14, <2>2 DEF a
    <3>2. QED  BY <3>1 DEF Origin
  <2>3. QED  BY <1>14, <2>1, <2>2
<1>16. Gone(ou, one, i + 1)  BY <1>1, <1>2, <1>4, <1>6, GoneOn DEF ou, a
<1>17. Gone(ou, two, ju)  BY <1>1, <1>2, <1>4, <1>6, <1>9, GoneOn DEF ou
<1>18. i + 1 + ju >= (p + 1) + 2 /\ i + 1 \in 1..(m + 1)  BY <1>1, <1>2, <1>3, <1>9
<1>19. iu = i + 1  BY <1>4 DEF iu
<1>20. /\ iu \in 1..(m + 1) /\ ju \in 1..(n + 1)
       /\ Ordered(ou) /\ UpToHere(ou, one, iu) /\ UpToHere(ou, two, ju)
       /\ \A q \in 1..Len(ou) : Origin(ou[q], one, two, iu, ju)
       /\ Gone(ou, one, iu) /\ Gone(ou, two, ju)
       /\ iu + ju >= (p + 1) + 2
  BY <1>9, <1>11, <1>12, <1>13, <1>15, <1>16, <1>17, <1>18, <1>19
<1>21. WalkedTo(v, one, two, p + 1)  BY <1>20 DEF WalkedTo, iu, ju, ou, m, n
<1>22. QED  BY <1>21 DEF v

(* Next takes from the second set: the first has no such key.              *)
LEMMA TwoTaken ==
  ASSUME NEW V, \A b \in V : Key(b) \in Int, NEW one \in Seq(V), NEW two \in Seq(V),
         Ordered(one), Ordered(two), NEW w \in Positions(V), NEW p \in Nat,
         WalkedTo(w, one, two, p), ~Ahead(w, one, two), w.j <= Len(two)
  PROVE  WalkedTo(NextOf(w, one, two), one, two, p + 1)
<1> DEFINE v == NextOf(w, one, two)
           i == w.i
           j == w.j
           out == w.out
           a == two[j]
           m == Len(one)
           n == Len(two)
<1>1. m \in Nat /\ n \in Nat /\ i \in Nat \ {0} /\ j \in Nat \ {0} /\ out \in Seq(V)
  BY DEF Positions
<1>2. /\ i \in 1..(m + 1) /\ j \in 1..(n + 1)
      /\ Ordered(out) /\ UpToHere(out, one, i) /\ UpToHere(out, two, j)
      /\ \A q \in 1..Len(out) : Origin(out[q], one, two, i, j)
      /\ Gone(out, one, i) /\ Gone(out, two, j)
      /\ i + j >= p + 2 \/ (i = m + 1 /\ j = n + 1)
  BY DEF WalkedTo
<1>3. v \in Positions(V) /\ v.i = i /\ v.out = Append(out, a) /\ v.j = j + 1
  BY NextIs
<1>4. j \in 1..n /\ a \in V /\ Key(a) \in Int  BY <1>1
<1>5. \A k \in 1..n : two[k] \in V /\ Key(two[k]) \in Int  OBVIOUS
<1>6. \A k \in 1..m : one[k] \in V /\ Key(one[k]) \in Int  OBVIOUS
<1>7. i <= m => Key(a) < Key(one[i])
  <2> SUFFICES ASSUME i <= m PROVE Key(a) < Key(one[i])  OBVIOUS
  <2>1. ~(j > n) /\ i \in 1..m  BY <1>1, <1>4
  <2>2. ~(Key(one[i]) <= Key(a))  BY <2>1 DEF Ahead
  <2>3. QED  BY <1>4, <1>6, <2>1, <2>2
<1> DEFINE ju == v.j
           iu == v.i
           ou == v.out
<1> HIDE DEF v, i, j, out, a, m, n, ju, iu, ou
<1>8. \A q \in 1..Len(out) : Key(out[q]) < Key(a)  BY <1>1, <1>2, <1>4 DEF UpToHere, a, n
<1>9. Ordered(ou)  BY <1>1, <1>2, <1>3, <1>4, <1>8, OrderedAppend DEF ou
<1>10. UpToHere(ou, one, i)
  BY <1>1, <1>3, <1>4, <1>7, <1>8, BoundMoves DEF ou, m
<1>11. UpToHere(ou, two, j + 1)
  <2>1. ASSUME j + 1 <= n PROVE Key(a) < Key(two[j + 1])
    <3>1. j + 1 \in 1..n /\ j < j + 1  BY <1>1, <2>1
    <3>2. QED  BY <1>4, <3>1 DEF Ordered, a, n
  <2>2. j + 1 \in Nat \ {0}  BY <1>1
  <2>3. QED  BY <1>1, <1>3, <1>4, <1>8, <2>1, <2>2, BoundMoves DEF ou, n
<1>12. /\ Len(ou) = Len(out) + 1 /\ ou[Len(out) + 1] = a
       /\ \A q \in 1..Len(out) : ou[q] = out[q]
       /\ \A q \in 1..(Len(out) + 1) : q \in 1..Len(out) \/ q = Len(out) + 1
       /\ Len(out) \in Nat
  BY <1>1, <1>3, <1>4, AppendKeeps DEF ou
<1>13. ASSUME NEW x \in 1..m PROVE Key(one[x]) # Key(a)
  <2>1. CASE x \in 1..(i - 1)
    <3>1. PICK q \in 1..Len(out) : Key(out[q]) = Key(one[x])  BY <1>2, <2>1 DEF Gone
    <3>2. Key(one[x]) < Key(a) /\ Key(one[x]) \in Int  BY <1>6, <1>8, <3>1
    <3>3. QED  BY <1>4, <3>2
  <2>2. CASE x \notin 1..(i - 1)
    <3>1. i <= m /\ i \in 1..m /\ (x = i \/ i < x)  BY <1>1, <2>2
    <3>2. Key(a) < Key(one[i]) /\ Key(one[i]) \in Int /\ Key(one[x]) \in Int
      BY <1>6, <1>7, <3>1
    <3>3. x = i \/ Key(one[i]) < Key(one[x])  BY <3>1 DEF Ordered, m
    <3>4. QED  BY <1>4, <3>2, <3>3
  <2>3. QED  BY <2>1, <2>2
<1>14. ASSUME NEW q \in 1..Len(ou) PROVE Origin(ou[q], one, two, i, j + 1)
  <2>1. CASE q \in 1..Len(out)
    <3>1. Origin(out[q], one, two, i, j)  BY <1>2, <2>1
    <3>2. i \in Nat /\ j \in Nat /\ j + 1 \in Nat /\ i <= i /\ j <= j + 1  BY <1>1
    <3>3. Origin(out[q], one, two, i, j + 1)  BY <3>1, <3>2, OriginKept
    <3>4. QED  BY <1>12, <2>1, <3>3
  <2>2. CASE q = Len(out) + 1
    <3>1. ou[q] = a /\ a = two[j] /\ j \in 1..((j + 1) - 1)  BY <1>1, <1>12, <2>2 DEF a
    <3>2. QED  BY <1>13, <3>1 DEF Origin, m
  <2>3. QED  BY <1>12, <2>1, <2>2
<1>15. Gone(ou, one, i)  BY <1>1, <1>2, <1>3, <1>4, GoneOn DEF ou
<1>16. Gone(ou, two, j + 1)  BY <1>1, <1>2, <1>3, <1>4, GoneOn DEF ou, a
<1>17. i + (j + 1) >= (p + 1) + 2 /\ j + 1 \in 1..(n + 1)  BY <1>1, <1>2, <1>4
<1>18. iu = i /\ ju = j + 1  BY <1>3 DEF iu, ju
<1>19. /\ iu \in 1..(m + 1) /\ ju \in 1..(n + 1)
       /\ Ordered(ou) /\ UpToHere(ou, one, iu) /\ UpToHere(ou, two, ju)
       /\ \A q \in 1..Len(ou) : Origin(ou[q], one, two, iu, ju)
       /\ Gone(ou, one, iu) /\ Gone(ou, two, ju)
       /\ iu + ju >= (p + 1) + 2
  BY <1>2, <1>9, <1>10, <1>11, <1>14, <1>15, <1>16, <1>17, <1>18
<1>20. WalkedTo(v, one, two, p + 1)  BY <1>19 DEF WalkedTo, iu, ju, ou, m, n
<1>21. QED  BY <1>20 DEF v

(* One call of Next.                                                       *)
LEMMA NextGoesOn ==
  ASSUME NEW V, \A b \in V : Key(b) \in Int, NEW one \in Seq(V), NEW two \in Seq(V),
         Ordered(one), Ordered(two), NEW w \in Positions(V), NEW p \in Nat,
         WalkedTo(w, one, two, p)
  PROVE  WalkedTo(NextOf(w, one, two), one, two, p + 1)
<1>1. CASE Ahead(w, one, two)  BY <1>1, OneTaken
<1>2. CASE ~Ahead(w, one, two) /\ w.j <= Len(two)  BY <1>2, TwoTaken
<1>3. CASE ~Ahead(w, one, two) /\ w.j > Len(two)
  <2>1. NextOf(w, one, two) = w  BY <1>3, NextIs
  <2>2. /\ w.i \in 1..(Len(one) + 1) /\ w.j \in 1..(Len(two) + 1)
        /\ Len(one) \in Nat /\ Len(two) \in Nat
    BY DEF WalkedTo
  <2>3. ~(w.i <= Len(one))  BY <1>3 DEF Ahead
  <2>4. w.i = Len(one) + 1 /\ w.j = Len(two) + 1  BY <1>3, <2>2, <2>3
  <2>5. WalkedTo(w, one, two, p + 1)  BY <2>4 DEF WalkedTo
  <2>6. QED  BY <2>1, <2>5
<1>4. w.j \in Nat /\ Len(two) \in Nat  BY DEF Positions
<1>5. w.j <= Len(two) \/ w.j > Len(two)  BY <1>4
<1>6. QED  BY <1>1, <1>2, <1>3, <1>5

(* All that the iterator gives: both sets, the first where they overlap.   *)
LEMMA WalkSays ==
  ASSUME NEW V, \A b \in V : Key(b) \in Int, NEW one \in Seq(V), NEW two \in Seq(V),
         Ordered(one), Ordered(two)
  PROVE  /\ Walk(one, two) \in Seq(V) /\ Ordered(Walk(one, two))
         /\ \A q \in 1..Len(Walk(one, two)) :
              \/ Walk(one, two)[q] \in ToSet(one)
              \/ Walk(one, two)[q] \in ToSet(two) /\ Key(Walk(one, two)[q]) \notin KeysOf(one)
         /\ KeysOf(one) \union KeysOf(two) \subseteq KeysOf(Walk(one, two))
<1> DEFINE m == Len(one)
           n == Len(two)
<1>1. PICK d \in [Nat -> Positions(V)] :
        /\ d[0] = FirstPosition
        /\ \A p \in Nat : d[p + 1] = NextOf(d[p], one, two)
        /\ Walk(one, two) = d[m + n].out
  BY IterationIs
<1>2. m \in Nat /\ n \in Nat /\ m + n \in Nat  OBVIOUS
<1> DEFINE T == {p \in Nat : WalkedTo(d[p], one, two, p)}
<1>3. 0 \in T
  <2>1. d[0].i = 1 /\ d[0].j = 1 /\ d[0].out = <<>>  BY <1>1 DEF FirstPosition
  <2>2. Len(<<>>) = 0 /\ 1..0 = {} /\ 1 - 1 = 0  OBVIOUS
  <2>3. WalkedTo(d[0], one, two, 0)
    BY <1>2, <2>1, <2>2 DEF WalkedTo, Ordered, UpToHere, Gone
  <2>4. QED  BY <2>3
<1>4. ASSUME NEW p \in Nat, p \in T PROVE p + 1 \in T
  <2>1. WalkedTo(d[p], one, two, p) /\ d[p] \in Positions(V)  BY <1>4
  <2>2. WalkedTo(NextOf(d[p], one, two), one, two, p + 1)  BY <2>1, NextGoesOn
  <2>3. QED  BY <1>1, <2>2
<1>5. Nat \subseteq T
  <2> HIDE DEF T
  <2>1. QED  BY <1>3, <1>4, SetInduction
<1> DEFINE v == d[m + n]
           w == Walk(one, two)
<1>6. v \in Positions(V) /\ WalkedTo(v, one, two, m + n) /\ w = v.out  BY <1>1, <1>2, <1>5
<1> HIDE DEF m, n, v, w
<1>7. /\ v.i \in 1..(m + 1) /\ v.j \in 1..(n + 1)
      /\ v.i + v.j >= (m + n) + 2 \/ (v.i = m + 1 /\ v.j = n + 1)
      /\ Ordered(w) /\ Gone(w, one, v.i) /\ Gone(w, two, v.j)
      /\ \A q \in 1..Len(w) : Origin(w[q], one, two, v.i, v.j)
  BY <1>6 DEF WalkedTo, m, n
<1>8. v.i = m + 1 /\ v.j = n + 1 /\ (m + 1) - 1 = m /\ (n + 1) - 1 = n  BY <1>2, <1>7
<1>9. w \in Seq(V)  BY <1>6 DEF Positions
<1>10. DOMAIN one = 1..m /\ DOMAIN two = 1..n  BY DEF m, n
<1>11. /\ Gone(w, one, m + 1) /\ Gone(w, two, n + 1)
       /\ \A q \in 1..Len(w) : Origin(w[q], one, two, m + 1, n + 1)
  BY <1>7, <1>8
<1>12. ASSUME NEW q \in 1..Len(w)
       PROVE  w[q] \in ToSet(one) \/ (w[q] \in ToSet(two) /\ Key(w[q]) \notin KeysOf(one))
  <2>1. \/ \E x \in 1..m : w[q] = one[x]
        \/ /\ \E y \in 1..n : w[q] = two[y]
           /\ \A x \in 1..m : Key(one[x]) # Key(w[q])
    BY <1>8, <1>11 DEF Origin, m
  <2>2. QED  BY <1>10, <2>1 DEF ToSet, KeysOf
<1>13. DOMAIN w = 1..Len(w)  BY <1>9
<1>14. ASSUME NEW k \in KeysOf(one) \union KeysOf(two) PROVE k \in KeysOf(w)
  <2>1. CASE k \in KeysOf(one)
    <3>1. PICK x \in 1..m : k = Key(one[x])  BY <1>10, <2>1 DEF KeysOf
    <3>2. PICK q \in 1..Len(w) : Key(w[q]) = k  BY <1>8, <1>11, <3>1 DEF Gone
    <3>3. QED  BY <1>13, <3>2 DEF KeysOf
  <2>2. CASE k \in KeysOf(two)
    <3>1. PICK x \in 1..n : k = Key(two[x])  BY <1>10, <2>2 DEF KeysOf
    <3>2. PICK q \in 1..Len(w) : Key(w[q]) = k  BY <1>8, <1>11, <3>1 DEF Gone
    <3>3. QED  BY <1>13, <3>2 DEF KeysOf
  <2>3. QED  BY <2>1, <2>2
<1>15. QED  BY <1>7, <1>9, <1>12, <1>14 DEF w

-----------------------------------------------------------------------------
(* Resources: sorted sets.                                                 *)

(* Each element of a sorted set is the only one with its key.              *)
LEMMA OrderedLast ==
  ASSUME NEW V, \A b \in V : Key(b) \in Int, NEW s \in Seq(V), Ordered(s)
  PROVE  \A q \in 1..Len(s) : LastOf(s, Key(s[q])) = s[q]
<1> SUFFICES ASSUME NEW q \in 1..Len(s) PROVE LastOf(s, Key(s[q])) = s[q]  OBVIOUS
<1> DEFINE P == Places(s, Key(s[q]))
<1>1. \A p \in 1..Len(s) : Key(s[p]) \in Int  OBVIOUS
<1>2. \A p \in 1..Len(s) : p = q \/ p < q \/ q < p  OBVIOUS
<1>3. \A p \in 1..Len(s) : Key(s[p]) = Key(s[q]) => p = q  BY <1>1, <1>2 DEF Ordered
<1>4. P = {q}  BY <1>3 DEF Places
<1> HIDE DEF P
<1>5. Max(P) = q
  <2>1. {q} \subseteq Int /\ q \in {q} /\ \A y \in {q} : y <= q  OBVIOUS
  <2>2. Max({q}) = q  BY <2>1, MaxIs
  <2>3. QED  BY <1>4, <2>2
<1>6. QED  BY <1>5 DEF P, LastOf

(* A list has an element for each of its keys.                             *)
LEMMA KeyHeld ==
  ASSUME NEW V, NEW s \in Seq(V), NEW k \in KeysOf(s)
  PROVE  /\ LastOf(s, k) \in V /\ LastOf(s, k) \in ToSet(s) /\ Key(LastOf(s, k)) = k
         /\ Has(s, k) /\ \E q \in 1..Len(s) : LastOf(s, k) = s[q] /\ Key(s[q]) = k
<1>1. DOMAIN s = 1..Len(s)  OBVIOUS
<1>2. PICK p \in 1..Len(s) : Key(s[p]) = k  BY <1>1 DEF KeysOf
<1>3. s[p] \in V  OBVIOUS
<1>4. Has(s, k)  BY <1>1, <1>2 DEF Has, Places
<1>5. LastOf(s, k) \in V /\ LastOf(s, k) \in ToSet(s) /\ Key(LastOf(s, k)) = k
  BY <1>3, <1>4, LastOfAppend
<1>6. PICK q \in 1..Len(s) : LastOf(s, k) = s[q]  BY <1>1, <1>5 DEF ToSet
<1>7. QED  BY <1>4, <1>5, <1>6

(* Keys of lists are finitely many integers.                               *)
LEMMA KeysFinite ==
  ASSUME NEW V, \A b \in V : Key(b) \in Int, NEW s \in Seq(V)
  PROVE  IsFiniteSet(KeysOf(s)) /\ KeysOf(s) \subseteq Int
<1>1. DOMAIN s = 1..Len(s) /\ Len(s) \in Nat  OBVIOUS
<1>2. IsFiniteSet(1..Len(s))  BY <1>1, FS_Interval
<1>3. KeysOf(s) = {Key(s[i]) : i \in 1..Len(s)}  BY <1>1 DEF KeysOf
<1>4. IsFiniteSet(KeysOf(s))
  <2> DEFINE K == KeysOf(s)
             f == [i \in 1..Len(s) |-> Key(s[i])]
  <2>1. \A i \in 1..Len(s) : f[i] \in K  BY <1>3
  <2>2. \A k \in K : \E i \in 1..Len(s) : f[i] = k  BY <1>3
  <2>3. f \in Surjection(1..Len(s), K)  BY <2>1, <2>2 DEF Surjection
  <2> HIDE DEF f, K
  <2>4. IsFiniteSet(K)  BY <1>2, <2>3, FS_Surjection
  <2>5. QED  BY <2>4 DEF K
<1>5. KeysOf(s) \subseteq Int  BY <1>3
<1>6. QED  BY <1>4, <1>5

(* What the iterator gives, key by key.                                    *)
LEMMA WalkIs ==
  ASSUME NEW V, \A b \in V : Key(b) \in Int, NEW one \in Seq(V), NEW two \in Seq(V),
         Ordered(one), Ordered(two)
  PROVE  LET w == Walk(one, two)
         IN  /\ w \in Seq(V) /\ ToSet(w) \subseteq ToSet(one) \union ToSet(two)
             /\ KeysOf(w) = KeysOf(one) \union KeysOf(two)
             /\ \A k \in KeysOf(one) : LastOf(w, k) = LastOf(one, k)
             /\ \A k \in KeysOf(two) \ KeysOf(one) : LastOf(w, k) = LastOf(two, k)
<1> DEFINE w == Walk(one, two)
<1>1. /\ w \in Seq(V) /\ Ordered(w)
      /\ \A q \in 1..Len(w) :
           \/ w[q] \in ToSet(one)
           \/ w[q] \in ToSet(two) /\ Key(w[q]) \notin KeysOf(one)
      /\ KeysOf(one) \union KeysOf(two) \subseteq KeysOf(w)
  BY WalkSays
<1> HIDE DEF w
<1>2. ToSet(w) \subseteq ToSet(one) \union ToSet(two)
  <2>1. DOMAIN w = 1..Len(w)  BY <1>1
  <2>2. \A a \in ToSet(w) : \E q \in 1..Len(w) : a = w[q]  BY <2>1 DEF ToSet
  <2>3. QED  BY <1>1, <2>2
<1>3. \A a \in ToSet(one) : \E p \in 1..Len(one) : a = one[p]  BY DEF ToSet
<1>4. \A a \in ToSet(two) : \E p \in 1..Len(two) : a = two[p]  BY DEF ToSet
<1>5. \A a \in ToSet(one) : Key(a) \in KeysOf(one) /\ LastOf(one, Key(a)) = a
  <2> TAKE a \in ToSet(one)
  <2>1. PICK p \in 1..Len(one) : a = one[p]  BY <1>3
  <2>2. LastOf(one, Key(one[p])) = one[p]  BY OrderedLast
  <2>3. p \in DOMAIN one  OBVIOUS
  <2>4. QED  BY <2>1, <2>2, <2>3 DEF KeysOf
<1>6. \A a \in ToSet(two) : Key(a) \in KeysOf(two) /\ LastOf(two, Key(a)) = a
  <2> TAKE a \in ToSet(two)
  <2>1. PICK p \in 1..Len(two) : a = two[p]  BY <1>4
  <2>2. LastOf(two, Key(two[p])) = two[p]  BY OrderedLast
  <2>3. p \in DOMAIN two  OBVIOUS
  <2>4. QED  BY <2>1, <2>2, <2>3 DEF KeysOf
<1>7. ASSUME NEW k \in KeysOf(w)
      PROVE  \/ k \in KeysOf(one) /\ LastOf(w, k) = LastOf(one, k)
             \/ k \in KeysOf(two) /\ k \notin KeysOf(one) /\ LastOf(w, k) = LastOf(two, k)
  <2>1. PICK q \in 1..Len(w) : LastOf(w, k) = w[q] /\ Key(w[q]) = k  BY <1>1, KeyHeld
  <2>2. CASE w[q] \in ToSet(one)  BY <1>5, <2>1, <2>2
  <2>3. CASE w[q] \in ToSet(two) /\ Key(w[q]) \notin KeysOf(one)  BY <1>6, <2>1, <2>3
  <2>4. QED  BY <1>1, <2>2, <2>3
<1>8. KeysOf(w) = KeysOf(one) \union KeysOf(two)  BY <1>1, <1>7
<1>9. \A k \in KeysOf(one) : LastOf(w, k) = LastOf(one, k)  BY <1>7, <1>8
<1>10. \A k \in KeysOf(two) \ KeysOf(one) : LastOf(w, k) = LastOf(two, k)  BY <1>7, <1>8
<1>11. QED  BY <1>1, <1>2, <1>8, <1>9, <1>10 DEF w

(* The set of a list, given by an element for each key.                    *)
Elements(V, S, e) == \A k \in S : e[k] \in V /\ Key(e[k]) = k
Tabled(keys, e) == [i \in DOMAIN keys |-> e[keys[i]]]
Holds(V, S, e, s) ==
  /\ s \in Seq(V) /\ Ordered(s) /\ KeysOf(s) = S
  /\ \A k \in S : LastOf(s, k) = e[k]
  /\ \A q \in 1..Len(s) : s[q] = e[Key(s[q])]

(* It has them.                                                            *)
LEMMA TabledIs ==
  ASSUME NEW V, \A b \in V : Key(b) \in Int, NEW S, IsFiniteSet(S), S \subseteq Int,
         NEW e, Elements(V, S, e)
  PROVE  Holds(V, S, e, Tabled(InOrder(S), e))
<1> DEFINE n == Cardinality(S)
           o == InOrder(S)
           s == Tabled(o, e)
<1>1. /\ n \in Nat /\ o \in [1..n -> S] /\ Increasing(o, n)
      /\ \A x \in S : \E i \in 1..n : o[i] = x
  BY InOrderIs
<1>2. s = [i \in 1..n |-> e[o[i]]]  BY <1>1 DEF Tabled
<1> HIDE DEF n, o, s
<1>3. \A i \in 1..n : s[i] \in V /\ Key(s[i]) = o[i] /\ s[i] = e[o[i]]  BY <1>1, <1>2 DEF Elements
<1>4. s \in Seq(V) /\ Len(s) = n /\ DOMAIN s = 1..n
  <2>1. s \in [1..n -> V]  BY <1>2, <1>3
  <2>2. QED  BY <1>1, <2>1
<1>5. Ordered(s)
  <2>1. \A p, q \in 1..n : p < q => Key(s[p]) < Key(s[q])  BY <1>1, <1>3 DEF Increasing
  <2>2. QED  BY <1>4, <2>1 DEF Ordered
<1>6. KeysOf(s) = S
  <2>1. KeysOf(s) = {Key(s[i]) : i \in 1..n}  BY <1>4 DEF KeysOf
  <2>2. \A i \in 1..n : Key(s[i]) \in S  BY <1>1, <1>3
  <2>3. ASSUME NEW k \in S PROVE \E i \in 1..n : k = Key(s[i])
    <3>1. PICK i \in 1..n : o[i] = k  BY <1>1
    <3>2. QED  BY <1>3, <3>1
  <2>4. QED  BY <2>1, <2>2, <2>3
<1>7. ASSUME NEW k \in S PROVE LastOf(s, k) = e[k]
  <2>1. PICK i \in 1..n : o[i] = k  BY <1>1
  <2>2. Key(s[i]) = k /\ s[i] = e[k] /\ i \in 1..Len(s)  BY <1>3, <1>4, <2>1
  <2>3. LastOf(s, Key(s[i])) = s[i]  BY <1>4, <1>5, <2>2, OrderedLast
  <2>4. QED  BY <2>2, <2>3
<1>8. \A q \in 1..Len(s) : s[q] = e[Key(s[q])]  BY <1>3, <1>4
<1>9. QED  BY <1>4, <1>5, <1>6, <1>7, <1>8 DEF s, o, Holds

(* SetOf is such a set.                                                    *)
LEMMA SetOfIs ==
  ASSUME NEW V, \A b \in V : Key(b) \in Int, NEW s \in Seq(V)
  PROVE  /\ SetOf(s) \in Seq(V) /\ Ordered(SetOf(s)) /\ KeysOf(SetOf(s)) = KeysOf(s)
         /\ \A k \in KeysOf(s) : LastOf(SetOf(s), k) = LastOf(s, k)
         /\ SetOf(s) = Tabled(InOrder(KeysOf(s)), [k \in KeysOf(s) |-> LastOf(s, k)])
<1> DEFINE S == KeysOf(s)
           e == [k \in S |-> LastOf(s, k)]
           o == InOrder(S)
<1>1. IsFiniteSet(S) /\ S \subseteq Int  BY KeysFinite
<1>2. \A k \in S : e[k] \in V /\ Key(e[k]) = k /\ e[k] = LastOf(s, k)  BY KeyHeld
<1>3. o \in [1..Cardinality(S) -> S]
  <2> HIDE DEF S
  <2>1. QED  BY <1>1, InOrderIs
<1> HIDE DEF S, e, o
<1>4. \A i \in DOMAIN o : e[o[i]] = LastOf(s, o[i])  BY <1>2, <1>3
<1>5. SetOf(s) = Tabled(o, e)
  <2>1. SetOf(s) = [i \in DOMAIN o |-> LastOf(s, o[i])]  BY DEF SetOf, S, o
  <2>2. QED  BY <1>4, <2>1 DEF Tabled
<1>6. /\ Tabled(o, e) \in Seq(V) /\ Ordered(Tabled(o, e)) /\ KeysOf(Tabled(o, e)) = S
      /\ \A k \in S : LastOf(Tabled(o, e), k) = e[k]
  <2>1. Elements(V, S, e)  BY <1>2 DEF Elements
  <2>2. Holds(V, S, e, Tabled(o, e))  BY <1>1, <2>1, TabledIs DEF o
  <2>3. QED  BY <2>2 DEF Holds
<1>7. QED  BY <1>2, <1>5, <1>6 DEF S, e, o

-----------------------------------------------------------------------------
(* Resources: what newWithAttributes makes of a list.                      *)

Attrs == Int \X DOMAIN Unrepeated

(* Attributes are pairs, with and without duplicates in them.              *)
LEMMA AttrIs ==
  ASSUME NEW a \in Attrs
  PROVE  /\ Key(a) \in Int /\ a[2] \in DOMAIN Unrepeated /\ a = <<Key(a), a[2]>>
         /\ Unrepeated[a[2]] \in DOMAIN Unrepeated
         /\ Unrepeated[Unrepeated[a[2]]] = Unrepeated[a[2]]
         /\ IsUsable[Unrepeated[a[2]]] <=> IsUsable[a[2]]
         /\ <<Key(a), Unrepeated[a[2]]>> \in Attrs
<1>1. a[1] \in Int /\ a[2] \in DOMAIN Unrepeated /\ a = <<a[1], a[2]>>  BY DEF Attrs
<1>2. /\ Unrepeated[a[2]] \in DOMAIN Unrepeated
      /\ Unrepeated[Unrepeated[a[2]]] = Unrepeated[a[2]]
      /\ IsUsable[Unrepeated[a[2]]] <=> IsUsable[a[2]]
  BY <1>1, ResourceAssumption
<1>3. <<a[1], Unrepeated[a[2]]>> \in Attrs  BY <1>1, <1>2 DEF Attrs
<1>4. QED  BY <1>1, <1>2, <1>3 DEF Key

(* What can be used of a list, in its order.                               *)
UsableAt(list) == {i \in DOMAIN list : IsUsable[list[i][2]]}

(* It is a part of the list, and can be used.                              *)
LEMMA UsableIs ==
  ASSUME NEW list \in Seq(Attrs)
  PROVE  /\ Usable(list) = Sublist(list, UsableAt(list))
         /\ UsableAt(list) \in SUBSET (1..Len(list))
         /\ Usable(list) \in Seq(Attrs)
         /\ \A i \in 1..Len(Usable(list)) : IsUsable[Usable(list)[i][2]]
<1> DEFINE P == UsableAt(list)
           u == Sublist(list, P)
           o == InOrder(P)
           c == Cardinality(P)
<1>1. Usable(list) = u  BY DEF Usable, Filter, UsableAt
<1>2. P \in SUBSET (1..Len(list))  BY DEF UsableAt
<1>3. /\ u \in Seq(Attrs) /\ Len(u) = c /\ o \in Seq(P) /\ Len(o) = c
      /\ \A p \in 1..c : u[p] = list[o[p]]
  <2> HIDE DEF P
  <2>1. QED  BY <1>2, SublistType
<1>4. \A i \in P : IsUsable[list[i][2]]  BY DEF UsableAt
<1> HIDE DEF P, u, o, c
<1>5. \A p \in 1..c : o[p] \in P  BY <1>3
<1>6. \A p \in 1..c : IsUsable[u[p][2]]  BY <1>3, <1>4, <1>5
<1>7. QED  BY <1>1, <1>2, <1>3, <1>6 DEF P, u

(* Normalized changes neither keys nor what can be used.                   *)
LEMMA NormalizedIs ==
  ASSUME NEW list \in Seq(Attrs)
  PROVE  /\ Normalized(list) \in Seq(Attrs) /\ Len(Normalized(list)) = Len(list)
         /\ \A i \in 1..Len(list) :
              Normalized(list)[i] = <<Key(list[i]), Unrepeated[list[i][2]]>>
         /\ UsableAt(Normalized(list)) = UsableAt(list)
<1> DEFINE n == Len(list)
           t == Normalized(list)
<1>1. n \in Nat /\ DOMAIN list = 1..n /\ \A i \in 1..n : list[i] \in Attrs  OBVIOUS
<1>2. t = [i \in 1..n |-> <<Key(list[i]), Unrepeated[list[i][2]]>>]
  BY <1>1 DEF Normalized
<1> HIDE DEF n, t
<1>3. \A i \in 1..n : t[i] = <<Key(list[i]), Unrepeated[list[i][2]]>> /\ t[i] \in Attrs
  BY <1>1, <1>2, AttrIs
<1>4. t \in Seq(Attrs) /\ Len(t) = n /\ DOMAIN t = 1..n
  <2>1. t \in [1..n -> Attrs]  BY <1>2, <1>3
  <2>2. QED  BY <1>1, <2>1
<1>5. ASSUME NEW i \in 1..n PROVE IsUsable[t[i][2]] <=> IsUsable[list[i][2]]
  <2>1. t[i][2] = Unrepeated[list[i][2]] /\ list[i] \in Attrs  BY <1>1, <1>3
  <2>2. IsUsable[Unrepeated[list[i][2]]] <=> IsUsable[list[i][2]]  BY <2>1, AttrIs
  <2>3. QED  BY <2>1, <2>2
<1>6. UsableAt(t) = UsableAt(list)  BY <1>1, <1>4, <1>5 DEF UsableAt
<1>7. QED  BY <1>3, <1>4, <1>6 DEF n, t

(* So it does not matter which of the two is done first.                   *)
LEMMA UsableNormalized ==
  ASSUME NEW list \in Seq(Attrs)
  PROVE  Usable(Normalized(list)) = Normalized(Usable(list))
<1> DEFINE P == UsableAt(list)
           t == Normalized(list)
           u == Usable(list)
           o == InOrder(P)
           c == Cardinality(P)
<1>1. /\ t \in Seq(Attrs) /\ Len(t) = Len(list) /\ UsableAt(t) = P
      /\ \A i \in 1..Len(list) : t[i] = <<Key(list[i]), Unrepeated[list[i][2]]>>
  BY NormalizedIs
<1>2. /\ u = Sublist(list, P) /\ P \in SUBSET (1..Len(list)) /\ u \in Seq(Attrs)
  BY UsableIs
<1> HIDE DEF t, u, P
<1>3. Usable(t) = Sublist(t, P)  BY <1>1, UsableIs
<1>4. /\ Sublist(list, P) \in Seq(Attrs) /\ Len(Sublist(list, P)) = c
      /\ o \in Seq(P) /\ Len(o) = c /\ c \in Nat
      /\ \A p \in 1..c : Sublist(list, P)[p] = list[o[p]]
  BY <1>2, SublistType
<1>5. /\ Sublist(t, P) \in Seq(Attrs) /\ Len(Sublist(t, P)) = c
      /\ \A p \in 1..c : Sublist(t, P)[p] = t[o[p]]
  <2>1. P \in SUBSET (1..Len(t))  BY <1>1, <1>2
  <2>2. QED  BY <1>1, <2>1, SublistType
<1> DEFINE x == Usable(t)
           y == Normalized(u)
<1>6. /\ y \in Seq(Attrs) /\ Len(y) = Len(u)
      /\ \A i \in 1..Len(u) : y[i] = <<Key(u[i]), Unrepeated[u[i][2]]>>
  BY <1>2, NormalizedIs
<1> HIDE DEF o, c, x, y
<1>7. x \in Seq(Attrs) /\ Len(x) = c /\ \A p \in 1..c : x[p] = t[o[p]]
  BY <1>3, <1>5 DEF x
<1>8. Len(u) = c /\ \A p \in 1..c : u[p] = list[o[p]] /\ o[p] \in 1..Len(list)
  <2>1. Len(u) = c /\ \A p \in 1..c : u[p] = list[o[p]]  BY <1>2, <1>4
  <2>2. \A p \in 1..c : o[p] \in P  BY <1>4
  <2>3. P \subseteq 1..Len(list)  BY <1>2
  <2>4. QED  BY <2>1, <2>2, <2>3
<1>9. ASSUME NEW p \in 1..c PROVE x[p] = y[p]
  <2>1. u[p] = list[o[p]] /\ o[p] \in 1..Len(list) /\ p \in 1..Len(u)  BY <1>8
  <2>2. x[p] = t[o[p]]  BY <1>7
  <2>3. t[o[p]] = <<Key(list[o[p]]), Unrepeated[list[o[p]][2]]>>  BY <1>1, <2>1
  <2>4. y[p] = <<Key(u[p]), Unrepeated[u[p][2]]>>  BY <1>6, <2>1
  <2>5. QED  BY <2>1, <2>2, <2>3, <2>4
<1>10. x = y
  <2>1. Len(x) = c /\ Len(y) = c /\ x \in Seq(Attrs) /\ y \in Seq(Attrs)
    BY <1>6, <1>7, <1>8
  <2>2. QED  BY <1>9, <2>1
<1>11. QED  BY <1>10 DEF x, y, t, u

(* A list of which everything can be used, as it is, stays.                *)
Clean(list) ==
  \A i \in 1..Len(list) : Unrepeated[list[i][2]] = list[i][2] /\ IsUsable[list[i][2]]

(* What newWithAttributes has made it does not change again.               *)
LEMMA CleanStays ==
  ASSUME NEW list \in Seq(Attrs), Clean(list)
  PROVE  Usable(Normalized(list)) = list
<1> DEFINE n == Len(list)
           P == UsableAt(list)
<1>1. n \in Nat /\ DOMAIN list = 1..n /\ \A i \in 1..n : list[i] \in Attrs  OBVIOUS
<1>2. P = 1..n  BY <1>1 DEF UsableAt, Clean
<1>3. Normalized(list) = list
  <2>1. /\ Normalized(list) \in Seq(Attrs) /\ Len(Normalized(list)) = n
        /\ \A i \in 1..n : Normalized(list)[i] = <<Key(list[i]), Unrepeated[list[i][2]]>>
    BY NormalizedIs
  <2>2. \A i \in 1..n : list[i] = <<Key(list[i]), Unrepeated[list[i][2]]>>
    BY <1>1, AttrIs DEF Clean
  <2> DEFINE t == Normalized(list)
  <2> HIDE DEF t
  <2>3. t \in Seq(Attrs) /\ Len(t) = Len(list) /\ \A i \in 1..Len(list) : t[i] = list[i]
    BY <2>1, <2>2 DEF t
  <2>4. t = list  BY <2>3
  <2>5. QED  BY <2>4 DEF t
<1>4. InOrder(1..n) = [i \in 1..n |-> i]
  <2> DEFINE f == [i \in 1..n |-> i]
             S == 1..n
  <2>1. f \in [1..n -> S] /\ Increasing(f, n) /\ \A x \in S : \E i \in 1..n : f[i] = x
    BY DEF Increasing
  <2>2. IsFiniteSet(S) /\ S \subseteq Int  BY <1>1, FS_Interval
  <2> HIDE DEF f, S
  <2>3. f = InOrder(S)  BY <1>1, <2>1, <2>2, InOrderOnly
  <2>4. QED  BY <2>3 DEF f, S
<1>5. Usable(list) = Sublist(list, P)  BY UsableIs
<1>6. Sublist(list, 1..n) = [p \in 1..n |-> list[p]]
  <2>1. DOMAIN [i \in 1..n |-> i] = 1..n /\ \A p \in 1..n : [i \in 1..n |-> i][p] = p
    OBVIOUS
  <2>2. QED  BY <1>4, <2>1 DEF Sublist
<1>7. [p \in 1..n |-> list[p]] = list  BY <1>1
<1>8. QED  BY <1>2, <1>3, <1>5, <1>6, <1>7

(* Normalized, key by key.                                                 *)
LEMMA NormalizedKeys ==
  ASSUME NEW list \in Seq(Attrs)
  PROVE  /\ KeysOf(Normalized(list)) = KeysOf(list)
         /\ \A k \in KeysOf(list) :
              LastOf(Normalized(list), k) = <<k, Unrepeated[LastOf(list, k)[2]]>>
<1> DEFINE n == Len(list)
           t == Normalized(list)
<1>1. /\ t \in Seq(Attrs) /\ Len(t) = n
      /\ \A i \in 1..n : t[i] = <<Key(list[i]), Unrepeated[list[i][2]]>>
  BY NormalizedIs
<1>2. DOMAIN list = 1..n  OBVIOUS
<1> HIDE DEF n, t
<1>3. DOMAIN t = 1..n  BY <1>1
<1>4. \A i \in 1..n : Key(t[i]) = Key(list[i])
  <2>1. \A x, y : Key(<<x, y>>) = x  BY DEF Key
  <2>2. QED  BY <1>1, <2>1
<1>5. KeysOf(t) = KeysOf(list)  BY <1>2, <1>3, <1>4 DEF KeysOf
<1>6. \A k : Places(t, k) = Places(list, k)  BY <1>2, <1>3, <1>4 DEF Places
<1>7. ASSUME NEW k \in KeysOf(list)
      PROVE  LastOf(t, k) = <<k, Unrepeated[LastOf(list, k)[2]]>>
  <2> DEFINE m == Max(Places(list, k))
  <2>1. Has(list, k) /\ Key(LastOf(list, k)) = k  BY <1>7, KeyHeld
  <2>2. Places(list, k) \subseteq 1..n /\ Places(list, k) # {}
    BY <1>2, <2>1 DEF Places, Has
  <2>3. m \in Places(list, k)
    <3> DEFINE P == Places(list, k)
    <3>1. n \in Nat  BY DEF n
    <3>2. IsFiniteSet(1..n)  BY <3>1, FS_Interval
    <3>3. P \subseteq 1..n /\ P # {} /\ P \subseteq Int  BY <2>2, <3>1
    <3> HIDE DEF P
    <3>4. IsFiniteSet(P)  BY <3>2, <3>3, FS_Subset
    <3>5. Max(P) \in P  BY <3>3, <3>4, Extremes
    <3>6. QED  BY <3>5 DEF P
  <2>4. LastOf(list, k) = list[m] /\ LastOf(t, k) = t[m]  BY <1>6 DEF LastOf
  <2> HIDE DEF m
  <2>5. m \in 1..n  BY <2>2, <2>3
  <2>6. QED  BY <1>1, <2>1, <2>4, <2>5
<1>8. QED  BY <1>5, <1>7 DEF t

-----------------------------------------------------------------------------
(* Resources: what the detectors have found.                               *)

FoundKeys == UNION {KeysOf(Heard(found[d])) : d \in DOMAIN found}
FoundAs(k) == <<k, Unrepeated[LastFound(k)[2]]>>
View == [k \in FoundKeys |-> FoundAs(k)]

(* Of a list that can be a finding.                                        *)
LEMMA HeardIs ==
  ASSUME NEW f \in Findings
  PROVE  /\ Heard(f) \in Seq(Attrs) /\ f.list \in Seq(Attrs)
         /\ \A i \in 1..Len(Heard(f)) : IsUsable[Heard(f)[i][2]]
<1>1. f.list \in Seq(Attrs)  BY ResourceAssumption DEF Attrs
<1>2. Usable(f.list) \in Seq(Attrs)
      /\ \A i \in 1..Len(Usable(f.list)) : IsUsable[Usable(f.list)[i][2]]
  BY <1>1, UsableIs
<1>3. CASE f.error = "other"
  <2>1. Heard(f) = <<>>  BY <1>3 DEF Heard
  <2>2. <<>> \in Seq(Attrs) /\ Len(<<>>) = 0  OBVIOUS
  <2>3. QED  BY <1>1, <2>1, <2>2
<1>4. CASE f.error # "other"
  <2>1. Heard(f) = Usable(f.list)  BY <1>4 DEF Heard
  <2>2. QED  BY <1>1, <1>2, <2>1
<1>5. QED  BY <1>3, <1>4

(* Each key found has a last detector that found it.                       *)
LEMMA LastFoundIs ==
  ASSUME found \in Seq(Findings), NEW k \in FoundKeys
  PROVE  /\ Max(Finders(k)) \in 1..Len(found)
         /\ k \in KeysOf(Heard(found[Max(Finders(k))]))
         /\ LastFound(k) \in Attrs /\ Key(LastFound(k)) = k /\ IsUsable[LastFound(k)[2]]
         /\ FoundAs(k) \in Attrs /\ Key(FoundAs(k)) = k
         /\ Unrepeated[FoundAs(k)[2]] = FoundAs(k)[2] /\ IsUsable[FoundAs(k)[2]]
<1> DEFINE n == Len(found)
           F == Finders(k)
<1>1. n \in Nat /\ DOMAIN found = 1..n /\ \A d \in 1..n : found[d] \in Findings  OBVIOUS
<1>2. \A d \in 1..n : Heard(found[d]) \in Seq(Attrs)  BY <1>1, HeardIs
<1>3. \A d \in 1..n : d \in F <=> k \in KeysOf(Heard(found[d]))
  <2>1. \A s : Has(s, k) <=> k \in KeysOf(s)  BY DEF Has, Places, KeysOf
  <2>2. QED  BY <1>1, <2>1 DEF Finders
<1>4. PICK d \in 1..n : k \in KeysOf(Heard(found[d]))  BY <1>1 DEF FoundKeys
<1>5. F \subseteq 1..n /\ F # {}
  <2>1. F \subseteq 1..n  BY <1>1 DEF Finders
  <2>2. QED  BY <1>3, <1>4, <2>1
<1> DEFINE m == Max(F)
<1>6. m \in F
  <2>1. IsFiniteSet(1..n)  BY <1>1, FS_Interval
  <2> HIDE DEF F, n
  <2>2. IsFiniteSet(F)  BY <1>5, <2>1, FS_Subset
  <2>3. F \subseteq Int  BY <1>1, <1>5
  <2>4. QED  BY <1>5, <2>2, <2>3, Extremes
<1>7. m \in 1..n /\ k \in KeysOf(Heard(found[m]))  BY <1>3, <1>5, <1>6
<1> DEFINE h == Heard(found[m])
           a == LastFound(k)
<1>8. a = LastOf(h, k)  BY DEF LastFound
<1>9. h \in Seq(Attrs) /\ \A i \in 1..Len(h) : IsUsable[h[i][2]]  BY <1>1, <1>7, HeardIs
<1>10. k \in KeysOf(h)  BY <1>7
<1> HIDE DEF h, a, m, n
<1>11. LastOf(h, k) \in Attrs /\ Key(LastOf(h, k)) = k
       /\ \E q \in 1..Len(h) : LastOf(h, k) = h[q] /\ Key(h[q]) = k
  BY <1>9, <1>10, KeyHeld
<1>12. a \in Attrs /\ Key(a) = k /\ IsUsable[a[2]]  BY <1>8, <1>9, <1>11
<1>13. FoundAs(k) = <<Key(a), Unrepeated[a[2]]>>  BY <1>12 DEF FoundAs, a
<1>14. /\ <<Key(a), Unrepeated[a[2]]>> \in Attrs
       /\ Unrepeated[Unrepeated[a[2]]] = Unrepeated[a[2]]
       /\ IsUsable[Unrepeated[a[2]]]
  BY <1>12, AttrIs
<1>15. Key(<<Key(a), Unrepeated[a[2]]>>) = Key(a)
       /\ <<Key(a), Unrepeated[a[2]]>>[2] = Unrepeated[a[2]]
  BY DEF Key
<1>16. QED  BY <1>7, <1>12, <1>13, <1>14, <1>15 DEF m, n, a

(* The view as a set: that is what the property is about.                  *)
LEMMA ViewIs ==
  ASSUME found \in Seq(Findings), IsFiniteSet(FoundKeys)
  PROVE  /\ FoundKeys \subseteq Int /\ Elements(Attrs, FoundKeys, View)
         /\ LET keys == InOrder(FoundKeys)
            IN  Tabled(keys, View) = [i \in DOMAIN keys |-> FoundAs(keys[i])]
<1>1. \A k \in FoundKeys : FoundAs(k) \in Attrs /\ Key(FoundAs(k)) = k  BY LastFoundIs
<1>2. \A a \in Attrs : Key(a) \in Int  BY AttrIs
<1>3. FoundKeys \subseteq Int  BY <1>1, <1>2
<1>4. \A k \in FoundKeys : View[k] = FoundAs(k)  BY DEF View
<1>5. Elements(Attrs, FoundKeys, View)  BY <1>1, <1>4 DEF Elements
<1> DEFINE keys == InOrder(FoundKeys)
<1>6. keys \in [1..Cardinality(FoundKeys) -> FoundKeys]  BY <1>3, InOrderIs
<1> HIDE DEF keys
<1>7. Tabled(keys, View) = [i \in DOMAIN keys |-> FoundAs(keys[i])]
  <2>1. \A i \in DOMAIN keys : View[keys[i]] = FoundAs(keys[i])  BY <1>4, <1>6
  <2>2. QED  BY <2>1 DEF Tabled
<1>8. QED  BY <1>3, <1>5, <1>7 DEF keys

(* One more finding.                                                       *)
LEMMA OneMoreFound ==
  ASSUME found \in Seq(Findings), NEW f \in Findings, found' = Append(found, f)
  PROVE  /\ FoundKeys' = FoundKeys \union KeysOf(Heard(f))
         /\ \A k \in KeysOf(Heard(f)) : FoundAs(k)' = <<k, Unrepeated[LastOf(Heard(f), k)[2]]>>
         /\ \A k \in FoundKeys \ KeysOf(Heard(f)) : FoundAs(k)' = FoundAs(k)
<1> DEFINE n == Len(found)
<1>1. /\ n \in Nat /\ DOMAIN found = 1..n /\ DOMAIN found' = 1..(n + 1)
      /\ found'[n + 1] = f /\ \A d \in 1..n : found'[d] = found[d]
      /\ \A d : d \in 1..(n + 1) <=> d \in 1..n \/ d = n + 1
      /\ n + 1 \notin 1..n
  OBVIOUS
<1> HIDE DEF n
<1>2. FoundKeys' = FoundKeys \union KeysOf(Heard(f))
  <2>1. FoundKeys' = UNION {KeysOf(Heard(found'[d])) : d \in DOMAIN found'}
    BY DEF FoundKeys
  <2>2. ASSUME NEW k \in FoundKeys' PROVE k \in FoundKeys \union KeysOf(Heard(f))
    <3>1. PICK d \in 1..(n + 1) : k \in KeysOf(Heard(found'[d]))  BY <1>1, <2>1
    <3>2. CASE d \in 1..n  BY <1>1, <3>1, <3>2 DEF FoundKeys
    <3>3. CASE d = n + 1  BY <1>1, <3>1, <3>3
    <3>4. QED  BY <1>1, <3>2, <3>3
  <2>3. ASSUME NEW k \in FoundKeys PROVE k \in FoundKeys'
    <3>1. PICK d \in 1..n : k \in KeysOf(Heard(found[d]))  BY <1>1 DEF FoundKeys
    <3>2. d \in DOMAIN found' /\ k \in KeysOf(Heard(found'[d]))  BY <1>1, <3>1
    <3>3. QED  BY <2>1, <3>2
  <2>4. ASSUME NEW k \in KeysOf(Heard(f)) PROVE k \in FoundKeys'
    <3>1. n + 1 \in DOMAIN found' /\ k \in KeysOf(Heard(found'[n + 1]))  BY <1>1
    <3>2. QED  BY <2>1, <3>1
  <2>5. QED  BY <2>2, <2>3, <2>4
<1>3. \A k : Finders(k)' = IF Has(Heard(f), k) THEN Finders(k) \union {n + 1} ELSE Finders(k)
  <2> TAKE k
  <2>1. Finders(k)' = {d \in 1..(n + 1) : Has(Heard(found'[d]), k)}
    BY <1>1 DEF Finders
  <2>2. Finders(k) = {d \in 1..n : Has(Heard(found[d]), k)}  BY <1>1 DEF Finders
  <2>3. \A d : d \in Finders(k)' <=>
                 d \in Finders(k) \/ (d = n + 1 /\ Has(Heard(f), k))
    BY <1>1, <2>1, <2>2
  <2>4. QED  BY <2>3
<1>4. \A k : LastFound(k)' = LastOf(Heard(found'[Max(Finders(k)')]), k)
  BY DEF LastFound
<1>5. \A k : FoundAs(k)' = <<k, Unrepeated[LastFound(k)'[2]]>>  BY DEF FoundAs
<1>6. ASSUME NEW k \in KeysOf(Heard(f))
      PROVE  FoundAs(k)' = <<k, Unrepeated[LastOf(Heard(f), k)[2]]>>
  <2>1. Heard(f) \in Seq(Attrs)  BY HeardIs
  <2>2. Has(Heard(f), k)  BY <2>1, KeyHeld
  <2> DEFINE U == Finders(k) \union {n + 1}
  <2>3. Finders(k) \subseteq 1..n  BY <1>1 DEF Finders
  <2>4. U \subseteq Int /\ n + 1 \in U /\ \A d \in U : d <= n + 1  BY <1>1, <2>3
  <2> HIDE DEF U
  <2>5. Max(U) = n + 1  BY <2>4, MaxIs
  <2>6. Finders(k)' = U  BY <1>3, <2>2 DEF U
  <2>7. LastFound(k)' = LastOf(Heard(f), k)  BY <1>1, <1>4, <2>5, <2>6
  <2>8. QED  BY <1>5, <2>7
<1>7. ASSUME NEW k \in FoundKeys \ KeysOf(Heard(f)) PROVE FoundAs(k)' = FoundAs(k)
  <2>1. ~Has(Heard(f), k)  BY <1>7 DEF Has, Places, KeysOf
  <2>2. Finders(k)' = Finders(k)  BY <1>3, <2>1
  <2>3. Max(Finders(k)) \in 1..n  BY LastFoundIs DEF n
  <2>4. LastFound(k)' = LastFound(k)  BY <1>1, <1>4, <2>2, <2>3 DEF LastFound
  <2>5. QED  BY <1>5, <2>4 DEF FoundAs
<1>8. QED  BY <1>2, <1>6, <1>7

-----------------------------------------------------------------------------
(* Resources: Detect.                                                      *)

(* Two sets of equal elements are equal.                                   *)
LEMMA SameTables ==
  ASSUME NEW S, IsFiniteSet(S), S \subseteq Int, NEW e, NEW g, \A k \in S : e[k] = g[k]
  PROVE  Tabled(InOrder(S), e) = Tabled(InOrder(S), g)
<1> DEFINE o == InOrder(S)
<1>1. o \in [1..Cardinality(S) -> S]  BY InOrderIs
<1> HIDE DEF o
<1>2. \A i \in DOMAIN o : e[o[i]] = g[o[i]]  BY <1>1
<1>3. QED  BY <1>2 DEF Tabled, o

(* What is found is without duplicates and can be used.                    *)
IsClean(a) == Unrepeated[a[2]] = a[2] /\ IsUsable[a[2]]

(* Merge of two clean sets.                                                *)
LEMMA MergedIs ==
  ASSUME NEW a \in Seq(Attrs), NEW b \in Seq(Attrs), Ordered(a), Ordered(b),
         \A x \in ToSet(a) : IsClean(x), \A x \in ToSet(b) : IsClean(x), b # <<>>,
         NEW e, NEW S, S = KeysOf(a) \union KeysOf(b),
         \A k \in KeysOf(b) : e[k] = LastOf(b, k),
         \A k \in KeysOf(a) \ KeysOf(b) : e[k] = LastOf(a, k)
  PROVE  Merged(a, b) = Tabled(InOrder(S), e)
<1> DEFINE w == Walk(b, a)
<1>1. \A x \in Attrs : Key(x) \in Int  BY AttrIs
<1>2. /\ w \in Seq(Attrs) /\ ToSet(w) \subseteq ToSet(b) \union ToSet(a)
      /\ KeysOf(w) = KeysOf(b) \union KeysOf(a)
      /\ \A k \in KeysOf(b) : LastOf(w, k) = LastOf(b, k)
      /\ \A k \in KeysOf(a) \ KeysOf(b) : LastOf(w, k) = LastOf(a, k)
  BY <1>1, WalkIs
<1> HIDE DEF w
<1>3. Clean(w)
  <2>1. \A i \in 1..Len(w) : w[i] \in ToSet(w)  BY <1>2 DEF ToSet
  <2>2. \A x \in ToSet(w) : IsClean(x)  BY <1>2
  <2>3. QED  BY <2>1, <2>2 DEF Clean, IsClean
<1>4. Usable(Normalized(w)) = w  BY <1>2, <1>3, CleanStays
<1>5. Merged(a, b) = SetOf(w)  BY <1>4 DEF Merged, WithAttributes, w
<1>6. KeysOf(w) = S  BY <1>2
<1> DEFINE g == [k \in KeysOf(w) |-> LastOf(w, k)]
<1>7. SetOf(w) = Tabled(InOrder(KeysOf(w)), g)  BY <1>1, <1>2, SetOfIs
<1>8. IsFiniteSet(S) /\ S \subseteq Int  BY <1>1, <1>2, <1>6, KeysFinite
<1>9. \A k \in S : g[k] = e[k]
  <2>1. \A k \in KeysOf(w) : g[k] = LastOf(w, k)  OBVIOUS
  <2> HIDE DEF g
  <2>2. QED  BY <1>2, <1>6, <2>1
<1> HIDE DEF g
<1>10. Tabled(InOrder(S), g) = Tabled(InOrder(S), e)  BY <1>8, <1>9, SameTables
<1>11. QED  BY <1>5, <1>6, <1>7, <1>10

(* What Detect merges.                                                     *)
LEMMA FindingIs ==
  ASSUME NEW f \in Findings, f.error # "other"
  PROVE  LET b == WithAttributes(f.list)
         IN  /\ b \in Seq(Attrs) /\ Ordered(b) /\ KeysOf(b) = KeysOf(Heard(f))
             /\ \A x \in ToSet(b) : IsClean(x)
             /\ \A k \in KeysOf(b) :
                  LastOf(b, k) = <<k, Unrepeated[LastOf(Heard(f), k)[2]]>>
<1> DEFINE h == Heard(f)
           u == Normalized(h)
           b == WithAttributes(f.list)
<1>1. \A x \in Attrs : Key(x) \in Int  BY AttrIs
<1>2. /\ h \in Seq(Attrs) /\ f.list \in Seq(Attrs)
      /\ \A i \in 1..Len(h) : IsUsable[h[i][2]]
  BY HeardIs
<1>3. h = Usable(f.list)  BY DEF Heard
<1>4. Usable(Normalized(f.list)) = u  BY <1>2, <1>3, UsableNormalized
<1>5. b = SetOf(u)  BY <1>4 DEF WithAttributes
<1> HIDE DEF h, b
<1>6. /\ KeysOf(u) = KeysOf(h)
      /\ \A k \in KeysOf(h) : LastOf(u, k) = <<k, Unrepeated[LastOf(h, k)[2]]>>
  BY <1>2, NormalizedKeys
<1>7. u \in Seq(Attrs)  BY <1>2, NormalizedIs
<1> HIDE DEF u
<1>8. /\ SetOf(u) \in Seq(Attrs) /\ Ordered(SetOf(u)) /\ KeysOf(SetOf(u)) = KeysOf(u)
      /\ \A k \in KeysOf(u) : LastOf(SetOf(u), k) = LastOf(u, k)
  BY <1>1, <1>7, SetOfIs
<1>9. /\ b \in Seq(Attrs) /\ Ordered(b) /\ KeysOf(b) = KeysOf(h)
      /\ \A k \in KeysOf(b) : LastOf(b, k) = <<k, Unrepeated[LastOf(h, k)[2]]>>
  BY <1>5, <1>6, <1>8
<1>10. ASSUME NEW x \in ToSet(b) PROVE IsClean(x)
  <2>1. PICK q \in 1..Len(b) : x = b[q]  BY <1>9, <1>10 DEF ToSet
  <2>2. LastOf(b, Key(b[q])) = b[q]  BY <1>1, <1>9, OrderedLast
  <2>3. Key(b[q]) \in KeysOf(b)  BY <1>9 DEF KeysOf
  <2> DEFINE k == Key(b[q])
             a == LastOf(h, k)
  <2>4. x = <<k, Unrepeated[a[2]]>> /\ k \in KeysOf(h)  BY <1>9, <2>1, <2>2, <2>3
  <2> HIDE DEF k
  <2>5. \E i \in 1..Len(h) : a = h[i]  BY <1>2, <2>4, KeyHeld
  <2> HIDE DEF a
  <2>6. a \in Attrs /\ IsUsable[a[2]]  BY <1>2, <2>5
  <2>7. Unrepeated[Unrepeated[a[2]]] = Unrepeated[a[2]] /\ IsUsable[Unrepeated[a[2]]]
    BY <2>6, AttrIs
  <2>8. x[2] = Unrepeated[a[2]]  BY <2>4
  <2>9. QED  BY <2>7, <2>8 DEF IsClean
<1>11. QED  BY <1>9, <1>10 DEF h, b

(* The inductive invariant.                                                *)
ResourceIInv ==
  /\ found \in Seq(Findings) /\ IsFiniteSet(FoundKeys)
  /\ resource = Tabled(InOrder(FoundKeys), View)
  /\ faults \in Nat
  /\ (faults > 0) <=> (\E d \in DOMAIN found : found[d].error # "none")

(* The resource so far is a clean set with what was found.                 *)
LEMMA ResourceIs ==
  ASSUME ResourceIInv
  PROVE  /\ resource \in Seq(Attrs) /\ Ordered(resource) /\ KeysOf(resource) = FoundKeys
         /\ \A k \in FoundKeys : LastOf(resource, k) = FoundAs(k)
         /\ \A x \in ToSet(resource) : IsClean(x)
         /\ FoundKeys \subseteq Int /\ Elements(Attrs, FoundKeys, View)
<1> DEFINE r == resource
<1>1. \A x \in Attrs : Key(x) \in Int  BY AttrIs
<1>2. FoundKeys \subseteq Int /\ Elements(Attrs, FoundKeys, View)  BY ViewIs DEF ResourceIInv
<1>3. Holds(Attrs, FoundKeys, View, r)  BY <1>1, <1>2, TabledIs DEF ResourceIInv
<1>4. /\ r \in Seq(Attrs) /\ Ordered(r) /\ KeysOf(r) = FoundKeys
      /\ \A k \in FoundKeys : LastOf(r, k) = View[k]
      /\ \A q \in 1..Len(r) : r[q] = View[Key(r[q])]
  BY <1>3 DEF Holds
<1>5. \A k \in FoundKeys : View[k] = FoundAs(k)  BY DEF View
<1>6. ASSUME NEW x \in ToSet(r) PROVE IsClean(x)
  <2>1. PICK q \in 1..Len(r) : x = r[q]  BY <1>4, <1>6 DEF ToSet
  <2>2. Key(r[q]) \in KeysOf(r)  BY <1>4 DEF KeysOf
  <2> DEFINE k == Key(r[q])
  <2>3. x = FoundAs(k) /\ k \in FoundKeys  BY <1>4, <1>5, <2>1, <2>2
  <2> HIDE DEF k
  <2>4. Unrepeated[FoundAs(k)[2]] = FoundAs(k)[2] /\ IsUsable[FoundAs(k)[2]]
    BY <2>3, LastFoundIs DEF ResourceIInv
  <2>5. QED  BY <2>3, <2>4 DEF IsClean
<1>7. QED  BY <1>2, <1>4, <1>5, <1>6

(* Before the first detector.                                              *)
LEMMA ResourceStarts == ResourceInit => ResourceIInv
<1> SUFFICES ASSUME ResourceInit PROVE ResourceIInv  OBVIOUS
<1>1. found = <<>> /\ resource = <<>> /\ faults = 0  BY DEF ResourceInit
<1>2. DOMAIN found = {} /\ found \in Seq(Findings)  BY <1>1
<1>3. FoundKeys = {}  BY <1>2 DEF FoundKeys
<1>4. IsFiniteSet({}) /\ Cardinality({}) = 0  BY FS_EmptySet
<1>5. Tabled(InOrder(FoundKeys), View) = <<>>
  <2> DEFINE o == InOrder(FoundKeys)
  <2>1. {} \subseteq Int  OBVIOUS
  <2>2. InOrder({}) \in [1..0 -> {}]  BY <1>4, <2>1, InOrderIs
  <2>3. DOMAIN o = {}  BY <1>3, <2>2
  <2> HIDE DEF o
  <2>4. Tabled(o, View) = <<>>  BY <2>3 DEF Tabled
  <2>5. QED  BY <2>4 DEF o
<1>6. QED  BY <1>1, <1>2, <1>3, <1>4, <1>5 DEF ResourceIInv

(* The next detector.                                                      *)
LEMMA DetectStep ==
  ASSUME ResourceIInv, NEW f \in Findings, Detect(f)
  PROVE  ResourceIInv'
<1> DEFINE h == Heard(f)
           S == FoundKeys'
           e == View'
<1>1. /\ found \in Seq(Findings) /\ IsFiniteSet(FoundKeys) /\ faults \in Nat
      /\ (faults > 0) <=> (\E d \in DOMAIN found : found[d].error # "none")
      /\ resource = Tabled(InOrder(FoundKeys), View)
  BY DEF ResourceIInv
<1>2. /\ found' = Append(found, f)
      /\ faults' = IF f.error = "none" THEN faults ELSE faults + 1
      /\ resource' = IF f.error = "other" THEN resource
                     ELSE Merged(resource, WithAttributes(f.list))
  BY DEF Detect
<1>3. found' \in Seq(Findings)  BY <1>1, <1>2
<1>4. /\ S = FoundKeys \union KeysOf(h)
      /\ \A k \in KeysOf(h) : FoundAs(k)' = <<k, Unrepeated[LastOf(h, k)[2]]>>
      /\ \A k \in FoundKeys \ KeysOf(h) : FoundAs(k)' = FoundAs(k)
  BY <1>1, <1>2, OneMoreFound
<1>5. \A k \in S : e[k] = FoundAs(k)'  BY DEF View
<1>6. h \in Seq(Attrs)  BY HeardIs
<1>7. \A x \in Attrs : Key(x) \in Int  BY AttrIs
<1>8. /\ resource \in Seq(Attrs) /\ Ordered(resource) /\ KeysOf(resource) = FoundKeys
      /\ \A k \in FoundKeys : LastOf(resource, k) = FoundAs(k)
      /\ \A x \in ToSet(resource) : IsClean(x)
      /\ FoundKeys \subseteq Int
  BY ResourceIs
<1>9. \A k \in FoundKeys : View[k] = FoundAs(k)  BY DEF View
<1> DEFINE g == View
<1> HIDE DEF h, S, e, g
<1>10. IsFiniteSet(KeysOf(h)) /\ KeysOf(h) \subseteq Int  BY <1>6, <1>7, KeysFinite
<1>11. IsFiniteSet(S)  BY <1>1, <1>4, <1>10, FS_Union
<1>12. ASSUME KeysOf(h) = {} PROVE Tabled(InOrder(S), e) = resource
  <2>1. S = FoundKeys  BY <1>4, <1>12
  <2>2. \A k \in FoundKeys : g[k] = e[k]  BY <1>4, <1>5, <1>9, <1>12, <2>1 DEF g
  <2>3. Tabled(InOrder(FoundKeys), g) = Tabled(InOrder(FoundKeys), e)
    BY <1>1, <1>8, <2>2, SameTables
  <2>4. QED  BY <1>1, <2>1, <2>3 DEF g
<1>13. resource' = Tabled(InOrder(S), e)
  <2>1. CASE f.error = "other"
    <3>1. h = <<>>  BY <2>1 DEF h, Heard
    <3>2. KeysOf(h) = {}  BY <3>1 DEF KeysOf
    <3>3. QED  BY <1>2, <1>12, <2>1, <3>2
  <2>2. CASE f.error # "other"
    <3> DEFINE b == WithAttributes(f.list)
    <3>1. /\ b \in Seq(Attrs) /\ Ordered(b) /\ KeysOf(b) = KeysOf(h)
          /\ \A x \in ToSet(b) : IsClean(x)
          /\ \A k \in KeysOf(b) : LastOf(b, k) = <<k, Unrepeated[LastOf(h, k)[2]]>>
      BY <2>2, FindingIs DEF h
    <3>2. resource' = Merged(resource, b)  BY <1>2, <2>2
    <3> HIDE DEF b
    <3>3. CASE b = <<>>
      <4>1. KeysOf(b) = {}  BY <3>3 DEF KeysOf
      <4>2. Merged(resource, b) = resource  BY <3>3 DEF Merged
      <4>3. QED  BY <1>12, <3>1, <3>2, <4>1, <4>2
    <3>4. CASE b # <<>>
      <4>1. S = KeysOf(resource) \union KeysOf(b)  BY <1>4, <1>8, <3>1
      <4>2. \A k \in KeysOf(b) : e[k] = LastOf(b, k)  BY <1>4, <1>5, <3>1
      <4>3. \A k \in KeysOf(resource) \ KeysOf(b) : e[k] = LastOf(resource, k)
        BY <1>4, <1>5, <1>8, <3>1
      <4>4. Merged(resource, b) = Tabled(InOrder(S), e)
        BY <1>8, <3>1, <3>4, <4>1, <4>2, <4>3, MergedIs
      <4>5. QED  BY <3>2, <4>4
    <3>5. QED  BY <3>3, <3>4
  <2>3. QED  BY <2>1, <2>2
<1>14. /\ faults' \in Nat
       /\ (faults' > 0) <=> (\E d \in DOMAIN found' : found'[d].error # "none")
  <2> DEFINE n == Len(found)
  <2>1. /\ n \in Nat /\ DOMAIN found = 1..n /\ DOMAIN found' = 1..(n + 1)
        /\ found'[n + 1] = f /\ \A d \in 1..n : found'[d] = found[d]
        /\ \A d : d \in 1..(n + 1) <=> d \in 1..n \/ d = n + 1
    BY <1>1, <1>2
  <2> HIDE DEF n
  <2>2. (\E d \in DOMAIN found' : found'[d].error # "none") <=>
          (\E d \in DOMAIN found : found[d].error # "none") \/ f.error # "none"
    BY <2>1
  <2>3. faults' \in Nat /\ ((faults' > 0) <=> (faults > 0 \/ f.error # "none"))
    BY <1>1, <1>2
  <2>4. QED  BY <1>1, <2>2, <2>3
<1>15. QED  BY <1>3, <1>11, <1>13, <1>14 DEF ResourceIInv, S, e

(* Every step of a detection.                                              *)
LEMMA ResourceStep == ResourceIInv /\ [ResourceNext]_resourceVars => ResourceIInv'
<1> SUFFICES ASSUME ResourceIInv, [ResourceNext]_resourceVars PROVE ResourceIInv'  OBVIOUS
<1>1. ASSUME NEW f \in Findings, Detect(f) PROVE ResourceIInv'  BY <1>1, DetectStep
<1>2. CASE UNCHANGED resourceVars
  <2>1. found' = found /\ resource' = resource /\ faults' = faults  BY <1>2 DEF resourceVars
  <2>2. FoundKeys' = FoundKeys  BY <2>1 DEF FoundKeys
  <2>3. View' = View  BY <2>1, <2>2 DEF View, FoundAs, LastFound, Finders
  <2>4. QED  BY <2>1, <2>2, <2>3 DEF ResourceIInv
<1>3. ResourceOver => UNCHANGED resourceVars  BY DEF ResourceOver
<1>4. QED  BY <1>1, <1>2, <1>3 DEF ResourceNext

(* The invariant gives the property.                                       *)
LEMMA ResourceRight == ResourceIInv => ResourceAsDetected
<1> SUFFICES ASSUME ResourceIInv PROVE ResourceAsDetected  OBVIOUS
<1> DEFINE keys == InOrder(FoundKeys)
<1>1. resource = Tabled(keys, View)
      /\ ((faults > 0) <=> (\E d \in DOMAIN found : found[d].error # "none"))
  BY DEF ResourceIInv
<1>2. Tabled(keys, View) = [i \in DOMAIN keys |-> FoundAs(keys[i])]
  BY ViewIs DEF ResourceIInv
<1> HIDE DEF keys
<1>3. resource = [i \in DOMAIN keys |-> <<keys[i], Unrepeated[LastFound(keys[i])[2]]>>]
  BY <1>1, <1>2 DEF FoundAs
<1>4. keys = InOrder(UNION {KeysOf(Heard(found[d])) : d \in DOMAIN found})
  BY DEF keys, FoundKeys
<1>5. QED  BY <1>1, <1>3, <1>4 DEF ResourceAsDetected

(* The resource that Detect makes holds each valid attribute that one of   *)
(* the detectors found and is to be heard of, sorted by key, each key once *)
(* with the value of the last of them, for any number of detectors,        *)
(* whatever lists and errors they return; and a failure is told.           *)
THEOREM ResourceHoldsFound == ResourceSpec => []ResourceAsDetected
<1>1. ResourceInit => ResourceIInv  BY ResourceStarts
<1>2. ResourceIInv /\ [ResourceNext]_resourceVars => ResourceIInv'  BY ResourceStep
<1>3. ResourceIInv => ResourceAsDetected  BY ResourceRight
<1>4. QED  BY <1>1, <1>2, <1>3, PTL DEF ResourceSpec

-----------------------------------------------------------------------------
(* Log records: lists that follow one another.                             *)

(* What is new of a list: the attributes without a key of K.               *)
NewTo(K, list) == Filter(list, LAMBDA a : Key(a) \notin K)

(* One more attribute is new or not.                                       *)
LEMMA NewAppend ==
  ASSUME NEW K, NEW V, NEW s \in Seq(V), NEW a \in V
  PROVE  /\ NewTo(K, s) \in Seq(V)
         /\ NewTo(K, Append(s, a)) =
              IF Key(a) \in K THEN NewTo(K, s) ELSE Append(NewTo(K, s), a)
<1> DEFINE n == Len(s)
           t == Append(s, a)
           P(q) == {i \in DOMAIN q : Key(q[i]) \notin K}
<1>1. /\ n \in Nat /\ DOMAIN s = 1..n /\ DOMAIN t = 1..(n + 1) /\ t[n + 1] = a
      /\ \A i \in 1..n : t[i] = s[i]
  OBVIOUS
<1> HIDE DEF t
<1>2. \A i : i \in 1..(n + 1) <=> i \in 1..n \/ i = n + 1  BY <1>1
<1>3. n + 1 \notin 1..n  BY <1>1
<1>4. P(t) = IF Key(a) \in K THEN P(s) ELSE P(s) \union {n + 1}
  <2>1. \A i : i \in P(t) <=> i \in P(s) \/ (i = n + 1 /\ Key(a) \notin K)
    BY <1>1, <1>2, <1>3
  <2>2. QED  BY <2>1
<1>5. P(s) \in SUBSET (1..n)  BY <1>1
<1>6. NewTo(K, s) = Sublist(s, P(s)) /\ NewTo(K, t) = Sublist(t, P(t))  BY DEF NewTo, Filter
<1> HIDE DEF P
<1>7. Sublist(s, P(s)) \in Seq(V)  BY <1>5, SublistType
<1>8. /\ Sublist(t, P(s)) = Sublist(s, P(s))
      /\ Sublist(t, P(s) \union {n + 1}) = Append(Sublist(s, P(s)), a)
  BY <1>5, SublistAppend DEF t
<1>9. NewTo(K, t) = IF Key(a) \in K THEN NewTo(K, s) ELSE Append(NewTo(K, s), a)
  BY <1>4, <1>6, <1>8
<1>10. QED  BY <1>6, <1>7, <1>9 DEF t

(* Nothing has no places, no keys and nothing new.                         *)
LEMMA NothingHas ==
  /\ KeysOf(<<>>) = {} /\ FirstKeys(<<>>) = <<>>
  /\ \A k : ~ Has(<<>>, k)
  /\ \A K : NewTo(K, <<>>) = <<>>
<1>1. KeysOf(<<>>) = {}  BY DEF KeysOf
<1>2. \A k : ~ Has(<<>>, k)  BY DEF Has, Places
<1> DEFINE none == <<>>
           V == {<<1, 1>>}
<1>3. none \in Seq(V)  OBVIOUS
<1>4. FirstKeys(none) = none
  <2>1. FirstKeys(none) \in Seq(KeysOf(none)) /\ Len(FirstKeys(none)) <= Len(none)
    <3> HIDE DEF none, V
    <3>1. QED  BY <1>3, KeysAre
  <2>2. FirstKeys(none) \in Seq({})  BY <1>1, <2>1
  <2> DEFINE f == FirstKeys(none)
  <2> HIDE DEF f
  <2>3. f \in Seq({})  BY <2>2 DEF f
  <2>4. f = <<>>  BY <2>3
  <2>5. QED  BY <2>4 DEF f
<1>5. ASSUME NEW K PROVE NewTo(K, none) = none
  <2> DEFINE P == {i \in DOMAIN none : Key(none[i]) \notin K}
  <2>1. NewTo(K, none) = Sublist(none, P)  BY DEF NewTo, Filter
  <2>2. P = {} /\ P \in SUBSET (1..Len(none))  OBVIOUS
  <2> HIDE DEF none, V, P
  <2>3. Sublist(none, P) \in Seq(V) /\ Len(Sublist(none, P)) = Cardinality(P)
    BY <1>3, <2>2, SublistType
  <2>4. Cardinality(P) = 0  BY <2>2, FS_EmptySet
  <2> DEFINE r == Sublist(none, P)
  <2> HIDE DEF r
  <2>5. r \in Seq(V) /\ Len(r) = 0  BY <2>3, <2>4 DEF r
  <2>6. r = <<>>  BY <2>5
  <2>7. QED  BY <2>1, <2>6 DEF r, none
<1>6. QED  BY <1>1, <1>2, <1>4, <1>5

(* The keys of what is new, and their last values.                         *)
NewKeysAre(K, list) ==
  /\ KeysOf(NewTo(K, list)) = KeysOf(list) \ K
  /\ \A k \in KeysOf(list) \ K : LastOf(NewTo(K, list), k) = LastOf(list, k)

LEMMA NewKeys ==
  ASSUME NEW K, NEW V, NEW list \in Seq(V)
  PROVE  NewTo(K, list) \in Seq(V) /\ NewKeysAre(K, list)
<1> DEFINE n == Len(list)
           pre(i) == SubSeq(list, 1, i)
           T == {i \in Nat : i <= n => NewTo(K, pre(i)) \in Seq(V) /\ NewKeysAre(K, pre(i))}
<1>1. n \in Nat  OBVIOUS
<1>2. 0 \in T
  <2>1. pre(0) = <<>>  BY WholePrefix
  <2> HIDE DEF pre
  <2> DEFINE none == <<>>
  <2>2. none \in Seq(V)  OBVIOUS
  <2>3. KeysOf(none) = {} /\ NewTo(K, none) = none  BY NothingHas
  <2> HIDE DEF none
  <2>4. NewTo(K, none) \in Seq(V) /\ NewKeysAre(K, none)  BY <2>2, <2>3 DEF NewKeysAre
  <2>5. QED  BY <2>1, <2>4 DEF none
<1>3. ASSUME NEW i \in Nat, i \in T PROVE i + 1 \in T
  <2> SUFFICES ASSUME i + 1 <= n
               PROVE  NewTo(K, pre(i + 1)) \in Seq(V) /\ NewKeysAre(K, pre(i + 1))
    OBVIOUS
  <2> DEFINE s == pre(i)
             a == list[i + 1]
             t == Append(s, a)
  <2>1. s \in Seq(V) /\ a \in V /\ pre(i + 1) = t  BY PrefixGrows
  <2>2. NewTo(K, s) \in Seq(V) /\ NewKeysAre(K, s)
    <3>1. i <= n  BY <1>1
    <3>2. QED  BY <1>3, <3>1
  <2> HIDE DEF pre, s, a
  <2>3. NewTo(K, t) = IF Key(a) \in K THEN NewTo(K, s) ELSE Append(NewTo(K, s), a)
    BY <2>1, NewAppend
  <2>4. KeysOf(t) = KeysOf(s) \union {Key(a)}  BY <2>1, KeysAppend
  <2>5. \A k \in KeysOf(s) : Has(s, k)  BY <2>1, KeysAre
  <2>6. \A k \in KeysOf(s) : k # Key(a) => LastOf(t, k) = LastOf(s, k)
    BY <2>1, <2>5, LastOfAppend
  <2>7. LastOf(t, Key(a)) = a  BY <2>1, LastOfAppend
  <2> HIDE DEF t
  <2>8. CASE Key(a) \in K
    <3>1. NewTo(K, t) = NewTo(K, s)  BY <2>3, <2>8
    <3>2. KeysOf(t) \ K = KeysOf(s) \ K  BY <2>4, <2>8
    <3>3. \A k \in KeysOf(s) \ K : LastOf(t, k) = LastOf(s, k)  BY <2>6, <2>8
    <3>4. QED  BY <2>1, <2>2, <3>1, <3>2, <3>3 DEF NewKeysAre
  <2>9. CASE Key(a) \notin K
    <3> DEFINE r == NewTo(K, s)
               u == Append(r, a)
    <3>1. NewTo(K, t) = u  BY <2>3, <2>9
    <3>2. r \in Seq(V)  BY <2>2
    <3>3. KeysOf(r) = KeysOf(s) \ K /\ \A k \in KeysOf(s) \ K : LastOf(r, k) = LastOf(s, k)
      BY <2>2 DEF NewKeysAre
    <3> HIDE DEF r
    <3>4. u \in Seq(V) /\ KeysOf(u) = KeysOf(r) \union {Key(a)}  BY <2>1, <3>2, KeysAppend
    <3>5. KeysOf(u) = KeysOf(t) \ K  BY <2>4, <2>9, <3>3, <3>4
    <3>6. LastOf(u, Key(a)) = a  BY <2>1, <3>2, LastOfAppend
    <3>7. ASSUME NEW k \in KeysOf(t) \ K PROVE LastOf(u, k) = LastOf(t, k)
      <4>1. CASE k = Key(a)  BY <2>7, <3>6, <4>1
      <4>2. CASE k # Key(a)
        <5>1. k \in KeysOf(s) \ K  BY <2>4, <3>7, <4>2
        <5>2. Has(r, k)  BY <3>2, <3>3, <5>1, KeysAre
        <5>3. LastOf(u, k) = LastOf(r, k)  BY <2>1, <3>2, <4>2, <5>2, LastOfAppend
        <5>4. QED  BY <2>6, <3>3, <4>2, <5>1, <5>3
      <4>3. QED  BY <4>1, <4>2
    <3> HIDE DEF u
    <3>8. QED  BY <2>1, <3>1, <3>4, <3>5, <3>7 DEF NewKeysAre
  <2>10. QED  BY <2>8, <2>9
<1>4. n \in T
  <2> HIDE DEF T
  <2>1. QED  BY <1>1, <1>2, <1>3, SetInduction
<1>5. pre(n) = list  BY WholePrefix
<1>6. n <= n  BY <1>1
<1>7. QED  BY <1>4, <1>5, <1>6

(* Of two lists together the keys are those of the first and then what is  *)
(* new of the second, which has the last values.                           *)
JoinedKeys(s, t) ==
  /\ FirstKeys(s \o t) = FirstKeys(s) \o FirstKeys(NewTo(KeysOf(s), t))
  /\ KeysOf(s \o t) = KeysOf(s) \union KeysOf(t)
  /\ \A k \in KeysOf(t) : LastOf(s \o t, k) = LastOf(t, k)
  /\ \A k \in KeysOf(s) \ KeysOf(t) : LastOf(s \o t, k) = LastOf(s, k)

(* One more attribute in the second list.                                  *)
LEMMA OneMoreJoined ==
  ASSUME NEW V, NEW s \in Seq(V), NEW t \in Seq(V), NEW a \in V, JoinedKeys(s, t)
  PROVE  JoinedKeys(s, Append(t, a))
<1> DEFINE u == s \o t
           v == Append(t, a)
           K == KeysOf(s)
           r == NewTo(K, t)
<1>1. u \in Seq(V) /\ v \in Seq(V) /\ s \o v = Append(u, a)
  BY ConcatAppend, ConcatProperties
<1>2. r \in Seq(V) /\ NewTo(K, v) = IF Key(a) \in K THEN r ELSE Append(r, a)
  BY NewAppend
<1>3. /\ FirstKeys(u) = FirstKeys(s) \o FirstKeys(r)
      /\ KeysOf(u) = K \union KeysOf(t)
      /\ \A k \in KeysOf(t) : LastOf(u, k) = LastOf(t, k)
      /\ \A k \in K \ KeysOf(t) : LastOf(u, k) = LastOf(s, k)
  BY DEF JoinedKeys
<1>4. KeysOf(r) = KeysOf(t) \ K  BY NewKeys DEF NewKeysAre
<1>5. KeysOf(v) = KeysOf(t) \union {Key(a)}  BY KeysAppend
<1>6. /\ \A k : k \in KeysOf(t) <=> Has(t, k)
      /\ \A k \in KeysOf(t) : k # Key(a) => LastOf(v, k) = LastOf(t, k)
      /\ LastOf(v, Key(a)) = a
  <2>1. \A k : k \in KeysOf(t) <=> Has(t, k)  BY KeysAre
  <2>2. \A k : Has(t, k) /\ k # Key(a) => LastOf(v, k) = LastOf(t, k)  BY LastOfAppend
  <2>3. LastOf(v, Key(a)) = a  BY LastOfAppend
  <2>4. QED  BY <2>1, <2>2, <2>3
<1> HIDE DEF u, v, r
<1> DEFINE w == Append(u, a)
<1>7. /\ \A k : k \in KeysOf(u) <=> Has(u, k)
      /\ \A k \in KeysOf(u) : k # Key(a) => LastOf(w, k) = LastOf(u, k)
      /\ LastOf(w, Key(a)) = a
      /\ KeysOf(w) = KeysOf(u) \union {Key(a)}
      /\ FirstKeys(w) = IF Has(u, Key(a)) THEN FirstKeys(u) ELSE Append(FirstKeys(u), Key(a))
  <2>1. \A k : k \in KeysOf(u) <=> Has(u, k)  BY <1>1, KeysAre
  <2>2. \A k : Has(u, k) /\ k # Key(a) => LastOf(w, k) = LastOf(u, k)  BY <1>1, LastOfAppend
  <2>3. LastOf(w, Key(a)) = a  BY <1>1, LastOfAppend
  <2>4. /\ KeysOf(w) = KeysOf(u) \union {Key(a)}
        /\ FirstKeys(w) = IF Has(u, Key(a)) THEN FirstKeys(u) ELSE Append(FirstKeys(u), Key(a))
    BY <1>1, KeysAppend
  <2>5. QED  BY <2>1, <2>2, <2>3, <2>4
<1> HIDE DEF w
<1>8. KeysOf(w) = K \union KeysOf(v)  BY <1>3, <1>5, <1>7
<1>9. ASSUME NEW k \in KeysOf(v) PROVE LastOf(w, k) = LastOf(v, k)
  <2>1. CASE k = Key(a)  BY <1>6, <1>7, <2>1
  <2>2. CASE k # Key(a)
    <3>1. k \in KeysOf(t) /\ k \in KeysOf(u)  BY <1>3, <1>5, <1>9, <2>2
    <3>2. QED  BY <1>3, <1>6, <1>7, <2>2, <3>1
  <2>3. QED  BY <2>1, <2>2
<1>10. ASSUME NEW k \in K \ KeysOf(v) PROVE LastOf(w, k) = LastOf(s, k)
  <2>1. k # Key(a) /\ k \in K \ KeysOf(t) /\ k \in KeysOf(u)  BY <1>3, <1>5, <1>10
  <2>2. QED  BY <1>3, <1>7, <2>1
<1>11. FirstKeys(w) = FirstKeys(s) \o FirstKeys(NewTo(K, v))
  <2>1. CASE Key(a) \in K
    <3>1. Has(u, Key(a))  BY <1>3, <1>7, <2>1
    <3>2. QED  BY <1>2, <1>3, <1>7, <2>1, <3>1
  <2>2. CASE Key(a) \notin K /\ Key(a) \in KeysOf(t)
    <3>1. Has(u, Key(a))  BY <1>3, <1>7, <2>2
    <3>2. Key(a) \in KeysOf(r)  BY <1>4, <2>2
    <3>3. Has(r, Key(a))  BY <1>2, <3>2, KeysAre
    <3>4. FirstKeys(Append(r, a)) = FirstKeys(r)  BY <1>2, <3>3, KeysAppend
    <3>5. NewTo(K, v) = Append(r, a)  BY <1>2, <2>2
    <3>6. QED  BY <1>3, <1>7, <3>1, <3>4, <3>5
  <2>3. CASE Key(a) \notin K /\ Key(a) \notin KeysOf(t)
    <3>1. ~ Has(u, Key(a))  BY <1>3, <1>7, <2>3
    <3>2. Key(a) \notin KeysOf(r)  BY <1>4, <2>3
    <3>3. ~ Has(r, Key(a))  BY <1>2, <3>2, KeysAre
    <3>4. FirstKeys(Append(r, a)) = Append(FirstKeys(r), Key(a))  BY <1>2, <3>3, KeysAppend
    <3>5. NewTo(K, v) = Append(r, a)  BY <1>2, <2>3
    <3> DEFINE f == FirstKeys(s)
               g == FirstKeys(r)
               x == Key(a)
               W == K \union KeysOf(r) \union {x}
    <3>6. f \in Seq(K) /\ g \in Seq(KeysOf(r))  BY <1>2, KeysAre
    <3> HIDE DEF f, g, x
    <3>7. f \in Seq(W) /\ g \in Seq(W) /\ x \in W  BY <3>6
    <3> HIDE DEF W
    <3>8. f \o Append(g, x) = Append(f \o g, x)  BY <3>7, ConcatAppend
    <3>9. FirstKeys(w) = Append(f \o g, x)  BY <1>3, <1>7, <3>1 DEF f, g, x
    <3>10. FirstKeys(NewTo(K, v)) = Append(g, x)  BY <3>4, <3>5 DEF g, x
    <3>11. QED  BY <3>8, <3>9, <3>10 DEF f
  <2>4. QED  BY <2>1, <2>2, <2>3
<1>12. QED  BY <1>1, <1>8, <1>9, <1>10, <1>11 DEF JoinedKeys, w, v

(* So it is for any two lists.                                             *)
LEMMA KeysJoined ==
  ASSUME NEW V, NEW s \in Seq(V), NEW t \in Seq(V)
  PROVE  JoinedKeys(s, t)
<1> DEFINE n == Len(t)
           pre(i) == SubSeq(t, 1, i)
           T == {i \in Nat : i <= n => JoinedKeys(s, pre(i))}
<1>1. n \in Nat  OBVIOUS
<1>2. 0 \in T
  <2>1. pre(0) = <<>>  BY WholePrefix
  <2> HIDE DEF pre
  <2> DEFINE none == <<>>
  <2>2. s \o none = s  OBVIOUS
  <2>3. KeysOf(none) = {} /\ NewTo(KeysOf(s), none) = none /\ FirstKeys(none) = none
    BY NothingHas
  <2>4. FirstKeys(s) \in Seq(KeysOf(s))  BY KeysAre
  <2>5. FirstKeys(s) \o none = FirstKeys(s)  BY <2>4
  <2> HIDE DEF none
  <2>6. JoinedKeys(s, none)  BY <2>2, <2>3, <2>5 DEF JoinedKeys
  <2>7. QED  BY <2>1, <2>6 DEF none
<1>3. ASSUME NEW i \in Nat, i \in T PROVE i + 1 \in T
  <2> SUFFICES ASSUME i + 1 <= n PROVE JoinedKeys(s, pre(i + 1))  OBVIOUS
  <2>1. pre(i) \in Seq(V) /\ t[i + 1] \in V /\ pre(i + 1) = Append(pre(i), t[i + 1])
    BY PrefixGrows
  <2>2. i <= n  BY <1>1
  <2>3. JoinedKeys(s, pre(i))  BY <1>3, <2>2
  <2> HIDE DEF pre
  <2>4. QED  BY <2>1, <2>3, OneMoreJoined
<1>4. n \in T
  <2> HIDE DEF T
  <2>1. QED  BY <1>1, <1>2, <1>3, SetInduction
<1>5. pre(n) = t  BY WholePrefix
<1>6. n <= n  BY <1>1
<1>7. QED  BY <1>4, <1>5, <1>6

-----------------------------------------------------------------------------
(* Log records: how many there are, and how many fit.                      *)

(* The first keys of a list are there once.                                *)
LEMMA FirstKeysOnce ==
  ASSUME NEW V, NEW s \in Seq(V)
  PROVE  IsInjective(FirstKeys(s))
<1> DEFINE d == Deduped(s)
           f == FirstKeys(s)
<1>1. d \in Seq(V) /\ Once(d) /\ Same(d, s)  BY DedupedSays
<1> HIDE DEF d
<1>2. f = FirstKeys(d)  BY <1>1 DEF Same
<1>3. Len(f) = Len(d) /\ \A i \in 1..Len(d) : f[i] = Key(d[i])  BY <1>1, <1>2, OnceIs
<1>4. f \in Seq(KeysOf(s))  BY KeysAre
<1> HIDE DEF f
<1>5. DOMAIN f = 1..Len(d) /\ DOMAIN d = 1..Len(d)  BY <1>1, <1>3, <1>4
<1>6. \A i, j \in 1..Len(d) : f[i] = f[j] => i = j  BY <1>1, <1>3, <1>5 DEF Once
<1>7. QED  BY <1>5, <1>6 DEF IsInjective, f

(* What fits of a list, into a record of n attributes.                     *)
FitIn(cap, n, s) == IF cap < 0 THEN s ELSE UpTo(Max({0, cap - n}), s)
FitLen(cap, n, m) ==
  IF cap < 0 \/ m <= cap - n THEN m ELSE IF cap > n THEN cap - n ELSE 0

(* The first ones, as many as there is room for.                           *)
LEMMA FitIs ==
  ASSUME NEW V, NEW s \in Seq(V), NEW cap \in Int, NEW n \in Nat
  PROVE  /\ FitIn(cap, n, s) \in Seq(V)
         /\ FitLen(cap, n, Len(s)) \in 0..Len(s)
         /\ Len(FitIn(cap, n, s)) = FitLen(cap, n, Len(s))
         /\ \A i \in 1..FitLen(cap, n, Len(s)) : FitIn(cap, n, s)[i] = s[i]
         /\ FitIn(cap, n, s) = SubSeq(s, 1, FitLen(cap, n, Len(s)))
<1> DEFINE l == Len(s)
           m == Max({0, cap - n})
<1>1. l \in Nat  OBVIOUS
<1>2. CASE cap < 0 \/ l <= cap - n
  <2>1. FitLen(cap, n, l) = l  BY <1>2 DEF FitLen
  <2>2. FitIn(cap, n, s) = s
    <3>1. CASE cap < 0  BY <3>1 DEF FitIn
    <3>2. CASE ~ (cap < 0)
      <4>1. cap - n \in Int /\ 0 <= cap - n /\ l <= cap - n  BY <1>1, <1>2, <3>2
      <4>2. m = cap - n  BY <4>1, MaxOfTwo
      <4> HIDE DEF m
      <4>3. UpTo(m, s) = s  BY <4>1, <4>2, UpToAll
      <4>4. QED  BY <3>2, <4>3 DEF FitIn, m
    <3>3. QED  BY <3>1, <3>2
  <2>3. SubSeq(s, 1, l) = s  BY WholePrefix
  <2> HIDE DEF m
  <2>4. l \in 0..l  BY <1>1
  <2>5. QED  BY <2>1, <2>2, <2>3, <2>4
<1>3. CASE cap >= 0 /\ ~ (l <= cap - n)
  <2>1. cap - n \in Int  OBVIOUS
  <2>2. m = IF 0 <= cap - n THEN cap - n ELSE 0  BY <2>1, MaxOfTwo
  <2> HIDE DEF m
  <2>3. m \in Nat /\ m <= l  BY <1>1, <1>3, <2>1, <2>2
  <2>4. FitLen(cap, n, l) = m  BY <1>3, <2>1, <2>2 DEF FitLen
  <2>5. ~ (cap < 0)  BY <1>3
  <2>6. FitIn(cap, n, s) = UpTo(m, s)  BY <2>5 DEF FitIn, m
  <2>7. /\ UpTo(m, s) = SubSeq(s, 1, m) /\ UpTo(m, s) \in Seq(V) /\ Len(UpTo(m, s)) = m
        /\ \A i \in 1..m : UpTo(m, s)[i] = s[i]
    BY <2>3, UpToFull DEF l
  <2>8. m \in 0..l  BY <1>1, <2>3
  <2>9. QED  BY <2>4, <2>6, <2>7, <2>8
<1>4. QED  BY <1>2, <1>3

(* What has been made to fit does.                                         *)
LEMMA FitsAlready ==
  ASSUME NEW V, NEW s \in Seq(V), NEW cap \in Int, NEW n \in Nat
  PROVE  FitIn(cap, n, FitIn(cap, n, s)) = FitIn(cap, n, s)
<1> DEFINE r == FitIn(cap, n, s)
           l == Len(s)
<1>1. r \in Seq(V) /\ Len(r) = FitLen(cap, n, l) /\ l \in Nat  BY FitIs
<1> HIDE DEF r, l
<1>2. FitLen(cap, n, FitLen(cap, n, l)) = FitLen(cap, n, l)  BY <1>1 DEF FitLen
<1>3. FitIn(cap, n, r) = SubSeq(r, 1, Len(r))  BY <1>1, <1>2, FitIs
<1>4. SubSeq(r, 1, Len(r)) = r  BY <1>1, WholePrefix
<1>5. QED  BY <1>3, <1>4 DEF r

-----------------------------------------------------------------------------
(* Log records: what one more list adds.                                   *)

(* The elements of two lists together.                                     *)
LEMMA ConcatIs ==
  ASSUME NEW S, NEW p \in Seq(S), NEW q \in Seq(S)
  PROVE  /\ p \o q \in Seq(S) /\ Len(p \o q) = Len(p) + Len(q)
         /\ Len(p) \in Nat /\ Len(q) \in Nat
         /\ \A i \in 1..Len(p) : (p \o q)[i] = p[i]
         /\ \A i \in 1..Len(q) : (p \o q)[Len(p) + i] = q[i]
OBVIOUS

(* The keys that are kept, with one more list: nothing new is kept unless  *)
(* all earlier keys are.                                                   *)
LEMMA KeysGrow ==
  ASSUME NEW V, NEW s \in Seq(V), NEW list \in Seq(V), NEW cap \in Int
  PROVE  LET keys == UpTo(cap, FirstKeys(s))
             K    == ToSet(keys)
             more == FitIn(cap, Len(keys), FirstKeys(NewTo(K, list)))
         IN  /\ keys \in Seq(KeysOf(s)) /\ K \subseteq KeysOf(s)
             /\ UpTo(cap, FirstKeys(s \o list)) = keys \o more
             /\ K = KeysOf(s) \/ more = <<>>
<1> DEFINE f == FirstKeys(s)
           keys == UpTo(cap, f)
           K == ToSet(keys)
           q == FirstKeys(NewTo(K, list))
           more == FitIn(cap, Len(keys), q)
           r == FirstKeys(NewTo(KeysOf(s), list))
           S == KeysOf(s) \union KeysOf(list)
<1>1. f \in Seq(KeysOf(s)) /\ ToSet(f) = KeysOf(s) /\ Len(f) \in Nat  BY KeysAre
<1>2. FirstKeys(s \o list) = f \o r  BY KeysJoined DEF JoinedKeys
<1>3. \A J : /\ FirstKeys(NewTo(J, list)) \in Seq(KeysOf(list) \ J)
  <2>1. SUFFICES ASSUME NEW J PROVE FirstKeys(NewTo(J, list)) \in Seq(KeysOf(list) \ J)
    OBVIOUS
  <2> DEFINE new == NewTo(J, list)
  <2>2. new \in Seq(V) /\ KeysOf(new) = KeysOf(list) \ J  BY NewKeys DEF NewKeysAre
  <2> HIDE DEF new
  <2>3. FirstKeys(new) \in Seq(KeysOf(new))  BY <2>2, KeysAre
  <2>4. QED  BY <2>2, <2>3 DEF new
<1>4. q \in Seq(S) /\ r \in Seq(S) /\ f \in Seq(S)
  <2>1. q \in Seq(KeysOf(list) \ K)  BY <1>3
  <2>2. r \in Seq(KeysOf(list) \ KeysOf(s))  BY <1>3
  <2> HIDE DEF q, r, f
  <2>3. QED  BY <1>1, <2>1, <2>2
<1> HIDE DEF f, r
<1>5. CASE cap < 0 \/ Len(f) <= cap
  <2>1. keys = f  BY <1>1, <1>5, UpToAll
  <2>2. K = KeysOf(s)  BY <1>1, <2>1
  <2>3. r = q  BY <2>2 DEF r
  <2> HIDE DEF keys, K, q, S
  <2>4. UpTo(cap, f \o q) = f \o FitIn(cap, Len(f), q)
    <3>1. CASE cap < 0
      <4>1. UpTo(cap, f \o q) = f \o q /\ FitIn(cap, Len(f), q) = q  BY <3>1 DEF UpTo, FitIn
      <4>2. QED  BY <4>1
    <3>2. CASE ~ (cap < 0)
      <4> DEFINE m == FitLen(cap, Len(f), Len(q))
                 t == FitIn(cap, Len(f), q)
                 w == f \o q
      <4>1. /\ t \in Seq(S) /\ m \in 0..Len(q) /\ Len(t) = m /\ \A i \in 1..m : t[i] = q[i]
        BY <1>1, <1>4, FitIs
      <4>2. /\ w \in Seq(S) /\ Len(w) = Len(f) + Len(q) /\ Len(q) \in Nat
            /\ \A i \in 1..Len(f) : w[i] = f[i]
            /\ \A i \in 1..Len(q) : w[Len(f) + i] = q[i]
        BY <1>4, ConcatIs
      <4>3. Len(f) <= cap  BY <1>5, <3>2
      <4>4. CASE Len(q) <= cap - Len(f)
        <5>1. m = Len(q)  BY <4>4 DEF FitLen
        <5> HIDE DEF w, m, t
        <5>2. t = q  BY <1>4, <4>1, <5>1, SeqEqual
        <5>3. Len(w) <= cap  BY <1>1, <4>2, <4>3, <4>4
        <5>4. UpTo(cap, w) = w  BY <4>2, <5>3, UpToAll
        <5>5. QED  BY <5>2, <5>4 DEF w, t
      <4>5. CASE ~ (Len(q) <= cap - Len(f))
        <5>1. m = cap - Len(f)  BY <1>1, <3>2, <4>3, <4>5 DEF FitLen
        <5> HIDE DEF w, m, t
        <5>2. cap \in Nat /\ cap <= Len(w)  BY <1>1, <3>2, <4>2, <4>5
        <5>3. /\ UpTo(cap, w) \in Seq(S) /\ Len(UpTo(cap, w)) = cap
              /\ \A i \in 1..cap : UpTo(cap, w)[i] = w[i]
          BY <4>2, <5>2, UpToFull
        <5>4. /\ f \o t \in Seq(S) /\ Len(f \o t) = cap
              /\ \A i \in 1..Len(f) : (f \o t)[i] = f[i]
              /\ \A i \in 1..m : (f \o t)[Len(f) + i] = t[i]
          <6>1. Len(f) + m = cap  BY <1>1, <5>1
          <6>2. f \in Seq(S) /\ t \in Seq(S)  BY <1>4, <4>1
          <6>3. /\ f \o t \in Seq(S) /\ Len(f \o t) = Len(f) + Len(t)
                /\ \A i \in 1..Len(f) : (f \o t)[i] = f[i]
                /\ \A i \in 1..Len(t) : (f \o t)[Len(f) + i] = t[i]
            BY <6>2, ConcatIs
          <6>4. QED  BY <4>1, <6>1, <6>3
        <5>5. ASSUME NEW i \in 1..cap PROVE (f \o t)[i] = w[i]
          <6>1. CASE i \in 1..Len(f)  BY <4>2, <5>4, <6>1
          <6>2. CASE i \notin 1..Len(f)
            <7>1. i - Len(f) \in 1..m /\ Len(f) + (i - Len(f)) = i  BY <1>1, <5>1, <6>2
            <7>2. i - Len(f) \in 1..Len(q)  BY <4>1, <7>1
            <7> DEFINE j == i - Len(f)
            <7>3. j \in 1..m /\ j \in 1..Len(q) /\ i = Len(f) + j  BY <7>1, <7>2
            <7> HIDE DEF j
            <7>4. (f \o t)[Len(f) + j] = t[j] /\ w[Len(f) + j] = q[j] /\ t[j] = q[j]
              BY <4>1, <4>2, <5>4, <7>3
            <7>5. QED  BY <7>3, <7>4
          <6>3. QED  BY <6>1, <6>2
        <5>6. UpTo(cap, w) = f \o t  BY <5>3, <5>4, <5>5, SeqEqual
        <5>7. QED  BY <5>6 DEF w, t
      <4>6. QED  BY <4>4, <4>5
    <3>3. QED  BY <3>1, <3>2
  <2>5. UpTo(cap, FirstKeys(s \o list)) = keys \o FitIn(cap, Len(keys), q)
    BY <1>2, <2>1, <2>3, <2>4
  <2>6. QED  BY <1>1, <2>1, <2>2, <2>5 DEF K, keys, q, f
<1>6. CASE cap >= 0 /\ cap <= Len(f)
  <2>1. cap \in Nat  BY <1>6
  <2>2. /\ keys = SubSeq(f, 1, cap) /\ keys \in Seq(KeysOf(s)) /\ Len(keys) = cap
        /\ \A i \in 1..cap : keys[i] = f[i]
    BY <1>1, <1>6, <2>1, UpToFull
  <2>3. K \subseteq KeysOf(s)  BY <2>2 DEF ToSet
  <2> HIDE DEF keys, K, q, S
  <2>4. FitIn(cap, Len(keys), q) = <<>>
    <3> DEFINE t == FitIn(cap, Len(keys), q)
    <3>1. t \in Seq(S) /\ Len(t) = FitLen(cap, cap, Len(q)) /\ Len(q) \in Nat
      BY <1>4, <2>1, <2>2, FitIs
    <3>2. FitLen(cap, cap, Len(q)) = 0
      <4> DEFINE l == Len(q)
      <4>1. l \in Nat  BY <3>1
      <4> HIDE DEF l
      <4>2. FitLen(cap, cap, l) = 0  BY <2>1, <4>1 DEF FitLen
      <4>3. QED  BY <4>2 DEF l
    <3> HIDE DEF t
    <3>3. t = <<>>  BY <3>1, <3>2
    <3>4. QED  BY <3>3 DEF t
  <2>5. UpTo(cap, f \o r) = keys
    <3> DEFINE w == f \o r
    <3>1. /\ w \in Seq(S) /\ Len(w) = Len(f) + Len(r) /\ Len(r) \in Nat
          /\ \A i \in 1..Len(f) : w[i] = f[i]
      BY <1>4
    <3> HIDE DEF w
    <3>2. cap <= Len(w)  BY <1>1, <1>6, <3>1
    <3>3. /\ UpTo(cap, w) \in Seq(S) /\ Len(UpTo(cap, w)) = cap
          /\ \A i \in 1..cap : UpTo(cap, w)[i] = w[i]
      BY <2>1, <3>1, <3>2, UpToFull
    <3>4. keys \in Seq(S)  BY <2>2 DEF S
    <3>5. \A i \in 1..cap : i \in 1..Len(f)  BY <1>1, <1>6
    <3>6. \A i \in 1..cap : UpTo(cap, w)[i] = keys[i]  BY <2>2, <3>1, <3>3, <3>5
    <3>7. UpTo(cap, w) = keys  BY <2>2, <3>3, <3>4, <3>6, SeqEqual
    <3>8. QED  BY <3>7 DEF w
  <2>6. keys \o <<>> = keys  BY <2>2
  <2>7. QED  BY <1>2, <2>2, <2>3, <2>4, <2>5, <2>6 DEF K, keys, q, f
<1>7. QED  BY <1>1, <1>5, <1>6

(* Whether a key is in more than one list.                                 *)
OverwrittenIn(g, k) == Cardinality({j \in DOMAIN g : Has(g[j], k)}) > 1

(* With one more list it is so if it was, or if the list has it, too.      *)
LEMMA OverwrittenAppend ==
  ASSUME NEW V, NEW g \in Seq(Seq(V)), NEW list \in Seq(V), NEW k
  PROVE  /\ ~ Has(list, k) => (OverwrittenIn(Append(g, list), k) <=> OverwrittenIn(g, k))
         /\ Has(list, k) /\ (\E j \in DOMAIN g : Has(g[j], k))
              => OverwrittenIn(Append(g, list), k)
         /\ Has(list, k) /\ (\A j \in DOMAIN g : ~ Has(g[j], k))
              => ~ OverwrittenIn(Append(g, list), k)
<1> DEFINE n == Len(g)
           m == Append(g, list)
           U == {j \in DOMAIN g : Has(g[j], k)}
           W == {j \in DOMAIN m : Has(m[j], k)}
<1>1. /\ n \in Nat /\ DOMAIN g = 1..n /\ DOMAIN m = 1..(n + 1) /\ m[n + 1] = list
      /\ \A i \in 1..n : m[i] = g[i]
  OBVIOUS
<1>2. OverwrittenIn(g, k) <=> Cardinality(U) > 1  BY DEF OverwrittenIn
<1>3. OverwrittenIn(m, k) <=> Cardinality(W) > 1  BY DEF OverwrittenIn
<1> HIDE DEF m
<1>4. IsFiniteSet(U) /\ Cardinality(U) \in Nat /\ n + 1 \notin U
  <2>1. U \subseteq 1..n
    <3>1. U \subseteq DOMAIN g  OBVIOUS
    <3> HIDE DEF U, n, m
    <3>2. QED  BY <1>1, <3>1
  <2> HIDE DEF U, n, m
  <2>5. IsFiniteSet(1..n)  BY <1>1, FS_Interval
  <2>2. IsFiniteSet(U)  BY <2>1, <2>5, FS_Subset
  <2>3. n + 1 \notin 1..n  BY <1>1
  <2>4. QED  BY <2>1, <2>2, <2>3, FS_CardinalityType
<1>5. \A i : i \in 1..(n + 1) <=> i \in 1..n \/ i = n + 1  BY <1>1
<1>6. CASE ~ Has(list, k)
  <2>1. \A i : i \in W <=> i \in U  BY <1>1, <1>5, <1>6
  <2>2. W = U  BY <2>1
  <2> HIDE DEF W, U
  <2>3. QED  BY <1>2, <1>3, <1>6, <2>2 DEF m
<1>7. CASE Has(list, k)
  <2>1. \A i : i \in W <=> i \in U \/ i = n + 1  BY <1>1, <1>5, <1>7
  <2>2. W = U \union {n + 1}  BY <2>1
  <2>3. (\E j \in DOMAIN g : Has(g[j], k)) <=> U # {}  OBVIOUS
  <2> HIDE DEF W, U
  <2>4. Cardinality(W) = Cardinality(U) + 1  BY <1>4, <2>2, FS_AddElement
  <2>5. Cardinality(U) = 0 <=> U = {}  BY <1>4, FS_EmptySet
  <2>6. Cardinality(W) > 1 <=> U # {}  BY <1>4, <2>4, <2>5
  <2>7. QED  BY <1>3, <1>7, <2>3, <2>6 DEF m
<1>8. QED  BY <1>6, <1>7

(* A sum is that of what is added.                                         *)
LEMMA SumSame ==
  ASSUME NEW S, IsFiniteSet(S), NEW f, NEW h, \A x \in S : f[x] \in Int /\ h[x] = f[x]
  PROVE  SumOn(h, S) = SumOn(f, S)
<1>1. PICK w : AnyOrder(S, f, w)  BY AnyOrderExists
<1>2. AnyOrder(S, h, w)
  <2>1. \A s \in SUBSET S : \A x \in s : h[x] = f[x]  OBVIOUS
  <2>2. QED  BY <1>1, <2>1 DEF AnyOrder
<1>3. \A x \in S : h[x] \in Int  OBVIOUS
<1>4. SumOn(f, S) = w[S]  BY <1>1, SumInAnyOrder
<1>5. SumOn(h, S) = w[S]  BY <1>2, <1>3, SumInAnyOrder
<1>6. QED  BY <1>4, <1>5

(* If nothing of a list is left out, all of it is new.                     *)
LEMMA AllNew ==
  ASSUME NEW V, NEW s \in Seq(V), NEW K, KeysOf(s) \intersect K = {}
  PROVE  NewTo(K, s) = s
<1> DEFINE n == Len(s)
           D == 1..n
           P == {i \in DOMAIN s : Key(s[i]) \notin K}
<1>1. n \in Nat /\ DOMAIN s = D  OBVIOUS
<1>2. P = D  BY <1>1 DEF KeysOf
<1>3. NewTo(K, s) = Sublist(s, P)  BY DEF NewTo, Filter
<1>4. InOrder(D) = [i \in D |-> i]
  <2> DEFINE id == [i \in D |-> i]
  <2>1. IsFiniteSet(D) /\ D \subseteq Int /\ Cardinality(D) = n  BY <1>1, FS_Interval
  <2>2. id \in [1..n -> D] /\ Increasing(id, n) /\ \A x \in D : \E i \in 1..n : id[i] = x
    BY DEF Increasing
  <2> HIDE DEF id, D
  <2>3. id = InOrder(D)  BY <1>1, <2>1, <2>2, InOrderOnly
  <2>4. QED  BY <2>3 DEF id
<1>5. DOMAIN InOrder(D) = D  BY <1>4
<1>6. Sublist(s, D) = [i \in D |-> s[i]]  BY <1>4, <1>5 DEF Sublist
<1>7. s = [i \in D |-> s[i]]  BY <1>1
<1>8. QED  BY <1>2, <1>3, <1>6, <1>7

-----------------------------------------------------------------------------
(* Log records: what a record holds of the lists given.                    *)

(* The attribute shown for a key, and what each list has lost.             *)
ShownFor(g, all, k) ==
  IF OverwrittenIn(g, k) THEN LastOf(all, k) ELSE Meant(LastOf(all, k))
LostBy(g, keys) == [j \in DOMAIN g |-> Cardinality(KeysOf(g[j]) \ ToSet(keys))]
KeptFrom(cap, g) == UpTo(cap, FirstKeys(FlattenSeq(g)))

(* c are the attributes carried and d is the number of those dropped.      *)
Shows(cap, g, c) ==
  c = [i \in DOMAIN KeptFrom(cap, g) |-> ShownFor(g, FlattenSeq(g), KeptFrom(cap, g)[i])]
CountsLost(cap, g, d) == d = SumOn(LostBy(g, KeptFrom(cap, g)), DOMAIN g)

(* The keys of the lists are those of each.                                *)
FlatKeys(g) == KeysOf(FlattenSeq(g)) = UNION {KeysOf(g[j]) : j \in DOMAIN g}

LEMMA FlatKeysGrow ==
  ASSUME NEW V, NEW g \in Seq(Seq(V)), NEW list \in Seq(V), FlatKeys(g)
  PROVE  FlatKeys(Append(g, list))
<1> DEFINE n == Len(g)
           m == Append(g, list)
<1>1. /\ n \in Nat /\ DOMAIN g = 1..n /\ DOMAIN m = 1..(n + 1) /\ m[n + 1] = list
      /\ \A i \in 1..n : m[i] = g[i]
  OBVIOUS
<1>2. FlattenSeq(g) \in Seq(V) /\ FlattenSeq(m) = FlattenSeq(g) \o list
  BY FlattenAppend
<1> HIDE DEF m
<1>3. KeysOf(FlattenSeq(m)) = KeysOf(FlattenSeq(g)) \union KeysOf(list)
  BY <1>2, KeysJoined DEF JoinedKeys
<1>4. \A i : i \in 1..(n + 1) <=> i \in 1..n \/ i = n + 1  BY <1>1
<1>5. ASSUME NEW k PROVE k \in KeysOf(FlattenSeq(m)) <=> \E j \in DOMAIN m : k \in KeysOf(m[j])
  <2>1. k \in KeysOf(FlattenSeq(g)) <=> \E j \in DOMAIN g : k \in KeysOf(g[j])
    BY DEF FlatKeys
  <2> HIDE DEF n
  <2>2. (\E j \in DOMAIN m : k \in KeysOf(m[j]))
          <=> (\E j \in DOMAIN g : k \in KeysOf(g[j])) \/ k \in KeysOf(list)
    BY <1>1, <1>4
  <2>3. QED  BY <1>3, <2>1, <2>2
<1>6. FlatKeys(m)  BY <1>5 DEF FlatKeys
<1>7. QED  BY <1>6 DEF m

(* The last attribute with a key.                                          *)
LEMMA LastKey ==
  ASSUME NEW V, NEW s \in Seq(V), NEW k \in KeysOf(s)
  PROVE  LastOf(s, k) \in V /\ Key(LastOf(s, k)) = k /\ LastOf(s, k) \in ToSet(s)
<1>1. Has(s, k)  BY KeysAre
<1> DEFINE W == V \union {0}
<1>2. s \in Seq(W) /\ 0 \in W  OBVIOUS
<1> HIDE DEF W
<1>3. LastOf(s, k) \in ToSet(s) /\ Key(LastOf(s, k)) = k  BY <1>1, <1>2, LastOfAppend
<1>4. \A x \in ToSet(s) : x \in V  BY DEF ToSet
<1>5. QED  BY <1>3, <1>4

(* The attributes carried have the keys kept.                              *)
LEMMA CarriedKeys ==
  ASSUME NEW V, NEW g \in Seq(Seq(V)), NEW cap \in Int, NEW c, Shows(cap, g, c)
  PROVE  LET keys == KeptFrom(cap, g)
         IN  /\ keys \in Seq(KeysOf(FlattenSeq(g))) /\ DOMAIN keys = 1..Len(keys)
             /\ Len(keys) \in Nat /\ c = [i \in 1..Len(keys) |-> c[i]] /\ Len(c) = Len(keys)
             /\ \A i \in 1..Len(keys) :
                  c[i] = ShownFor(g, FlattenSeq(g), keys[i]) /\ Key(c[i]) = keys[i]
             /\ KeysOf(c) = ToSet(keys) /\ ToSet(keys) \subseteq KeysOf(FlattenSeq(g))
<1> DEFINE all == FlattenSeq(g)
           keys == KeptFrom(cap, g)
           n == Len(keys)
           list == <<>>
<1>1. all \in Seq(V)
  <2>1. list \in Seq(V)  OBVIOUS
  <2> HIDE DEF list
  <2>2. QED  BY <2>1, FlattenAppend
<1> HIDE DEF all
<1>2. keys = UpTo(cap, FirstKeys(all)) /\ list \in Seq(V)  BY DEF KeptFrom, all
<1> HIDE DEF keys, list
<1>3. keys \in Seq(KeysOf(all)) /\ ToSet(keys) \subseteq KeysOf(all)
  BY <1>1, <1>2, KeysGrow
<1>4. n \in Nat /\ DOMAIN keys = 1..n /\ \A i \in 1..n : keys[i] \in KeysOf(all)
  BY <1>3
<1>5. c = [i \in 1..n |-> ShownFor(g, all, keys[i])]  BY <1>4 DEF Shows, all, keys
<1>6. ASSUME NEW i \in 1..n PROVE c[i] = ShownFor(g, all, keys[i]) /\ Key(c[i]) = keys[i]
  <2>1. c[i] = ShownFor(g, all, keys[i])  BY <1>5
  <2>2. Key(LastOf(all, keys[i])) = keys[i]  BY <1>1, <1>4, LastKey
  <2>3. Key(Meant(LastOf(all, keys[i]))) = Key(LastOf(all, keys[i]))  BY DEF Key, Meant
  <2>4. Key(ShownFor(g, all, keys[i])) = keys[i]  BY <2>2, <2>3, Zenon DEF ShownFor
  <2>5. QED  BY <2>1, <2>4
<1>7. c = [i \in 1..n |-> c[i]] /\ Len(c) = n /\ DOMAIN c = 1..n  BY <1>4, <1>5
<1>8. KeysOf(c) = ToSet(keys)
  <2>1. KeysOf(c) = {Key(c[i]) : i \in 1..n}  BY <1>7 DEF KeysOf
  <2>2. ToSet(keys) = {keys[i] : i \in 1..n}  BY <1>4 DEF ToSet
  <2> HIDE DEF n
  <2>3. {Key(c[i]) : i \in 1..n} = {keys[i] : i \in 1..n}  BY <1>6
  <2>4. QED  BY <2>1, <2>2, <2>3
<1>9. QED  BY <1>3, <1>4, <1>6, <1>7, <1>8 DEF keys, all

(* What is new of a list, without duplicates, and its keys.                *)
NewOnce(V, K, list, d, f) ==
  /\ d \in Seq(V) /\ Once(d) /\ f \in Seq(KeysOf(list) \ K) /\ Len(d) = Len(f)
  /\ IsInjective(f) /\ ToSet(f) = KeysOf(list) \ K
  /\ \A i \in 1..Len(f) : d[i] = LastOf(list, f[i])

LEMMA NewDeduped ==
  ASSUME NEW V, NEW list \in Seq(V), NEW K
  PROVE  NewOnce(V, K, list, Deduped(NewTo(K, list)), FirstKeys(NewTo(K, list)))
<1> DEFINE new == NewTo(K, list)
           d == Deduped(new)
           f == FirstKeys(new)
<1>1. /\ new \in Seq(V) /\ KeysOf(new) = KeysOf(list) \ K
      /\ \A k \in KeysOf(list) \ K : LastOf(new, k) = LastOf(list, k)
  BY NewKeys DEF NewKeysAre
<1> HIDE DEF new
<1>2. d \in Seq(V) /\ Once(d) /\ Same(d, new)  BY <1>1, DedupedSays
<1>3. IsInjective(f) /\ f \in Seq(KeysOf(new)) /\ ToSet(f) = KeysOf(new)
  BY <1>1, FirstKeysOnce, KeysAre
<1> HIDE DEF d
<1>4. Len(d) = Len(f) /\ d = [i \in DOMAIN f |-> LastOf(new, f[i])]
  BY <1>1, <1>2, SameOnce
<1> HIDE DEF f
<1>5. DOMAIN f = 1..Len(f) /\ \A i \in 1..Len(f) : f[i] \in KeysOf(new)  BY <1>3
<1>6. \A i \in 1..Len(f) : d[i] = LastOf(list, f[i])  BY <1>1, <1>4, <1>5
<1>7. QED  BY <1>1, <1>2, <1>3, <1>4, <1>6 DEF d, f, new, NewOnce

(* What is shown for a key with one more list.                             *)
LEMMA ShownNext ==
  ASSUME NEW V, NEW g \in Seq(Seq(V)), NEW list \in Seq(V), FlatKeys(g), NEW k
  PROVE  LET all  == FlattenSeq(g)
             next == FlattenSeq(Append(g, list))
         IN  /\ k \in KeysOf(all) =>
                  ShownFor(Append(g, list), next, k) =
                    IF Has(list, k) THEN LastOf(list, k) ELSE ShownFor(g, all, k)
             /\ k \in KeysOf(list) \ KeysOf(all) =>
                  ShownFor(Append(g, list), next, k) = Meant(LastOf(list, k))
<1> DEFINE all == FlattenSeq(g)
           m == Append(g, list)
           next == FlattenSeq(m)
<1>1. all \in Seq(V) /\ next = all \o list  BY FlattenAppend
<1>2. \A j \in DOMAIN g : g[j] \in Seq(V)  OBVIOUS
<1>3. k \in KeysOf(all) <=> \E j \in DOMAIN g : k \in KeysOf(g[j])  BY DEF FlatKeys
<1>4. \A j \in DOMAIN g : k \in KeysOf(g[j]) <=> Has(g[j], k)
  <2>1. SUFFICES ASSUME NEW j \in DOMAIN g PROVE k \in KeysOf(g[j]) <=> Has(g[j], k)
    OBVIOUS
  <2> DEFINE s == g[j]
  <2>2. s \in Seq(V)  BY <1>2
  <2> HIDE DEF s
  <2>3. k \in KeysOf(s) <=> Has(s, k)  BY <2>2, KeysAre
  <2>4. QED  BY <2>3 DEF s
<1>5. k \in KeysOf(all) <=> \E j \in DOMAIN g : Has(g[j], k)  BY <1>3, <1>4
<1>6. /\ ~ Has(list, k) => (OverwrittenIn(m, k) <=> OverwrittenIn(g, k))
      /\ Has(list, k) /\ (\E j \in DOMAIN g : Has(g[j], k)) => OverwrittenIn(m, k)
      /\ Has(list, k) /\ (\A j \in DOMAIN g : ~ Has(g[j], k)) => ~ OverwrittenIn(m, k)
  BY OverwrittenAppend
<1>7. k \in KeysOf(list) <=> Has(list, k)  BY KeysAre
<1>8. /\ k \in KeysOf(list) => LastOf(next, k) = LastOf(list, k)
      /\ k \in KeysOf(all) \ KeysOf(list) => LastOf(next, k) = LastOf(all, k)
  <2> HIDE DEF all, next
  <2>1. JoinedKeys(all, list)  BY <1>1, KeysJoined
  <2>2. QED  BY <1>1, <2>1 DEF JoinedKeys
<1> HIDE DEF all, next, m
<1>9. /\ OverwrittenIn(m, k) => ShownFor(m, next, k) = LastOf(next, k)
      /\ ~ OverwrittenIn(m, k) => ShownFor(m, next, k) = Meant(LastOf(next, k))
      /\ OverwrittenIn(g, k) => ShownFor(g, all, k) = LastOf(all, k)
      /\ ~ OverwrittenIn(g, k) => ShownFor(g, all, k) = Meant(LastOf(all, k))
  BY Zenon DEF ShownFor
<1>10. CASE k \in KeysOf(list) /\ k \in KeysOf(all)
  <2>1. Has(list, k) /\ OverwrittenIn(m, k)  BY <1>5, <1>6, <1>7, <1>10
  <2>2. ShownFor(m, next, k) = LastOf(list, k)  BY <1>8, <1>9, <1>10, <2>1
  <2>3. QED  BY <1>10, <2>1, <2>2 DEF m, all, next
<1>11. CASE k \in KeysOf(list) /\ k \notin KeysOf(all)
  <2>1. Has(list, k) /\ ~ OverwrittenIn(m, k)  BY <1>5, <1>6, <1>7, <1>11
  <2>2. ShownFor(m, next, k) = Meant(LastOf(list, k))  BY <1>8, <1>9, <1>11, <2>1
  <2>3. QED  BY <1>11, <2>2 DEF m, all, next
<1>12. CASE k \notin KeysOf(list) /\ k \in KeysOf(all)
  <2>1. ~ Has(list, k) /\ (OverwrittenIn(m, k) <=> OverwrittenIn(g, k))
    BY <1>6, <1>7, <1>12
  <2>2. LastOf(next, k) = LastOf(all, k)  BY <1>8, <1>12
  <2>3. ShownFor(m, next, k) = ShownFor(g, all, k)  BY <1>9, <2>1, <2>2
  <2>4. QED  BY <1>12, <2>1, <2>3 DEF m, all, next
<1>13. CASE k \notin KeysOf(list) /\ k \notin KeysOf(all)
  BY <1>13 DEF all
<1>14. QED  BY <1>10, <1>11, <1>12, <1>13

(* The keys of a list are finitely many.                                   *)
LEMMA KeysFew ==
  ASSUME NEW V, NEW s \in Seq(V)
  PROVE  IsFiniteSet(KeysOf(s))
<1> DEFINE f == FirstKeys(s)
<1>1. f \in Seq(KeysOf(s)) /\ ToSet(f) = KeysOf(s) /\ IsInjective(f)
  BY KeysAre, FirstKeysOnce
<1> HIDE DEF f
<1>2. QED  BY <1>1, InjectiveSize

(* What the lists have lost with one more.                                 *)
LEMMA LostNext ==
  ASSUME NEW V, NEW g \in Seq(Seq(V)), NEW list \in Seq(V), FlatKeys(g),
         NEW cap \in Int, NEW d, CountsLost(cap, g, d)
  PROVE  LET keys == KeptFrom(cap, g)
             n    == Len(FirstKeys(NewTo(ToSet(keys), list)))
         IN  CountsLost(cap, Append(g, list), d + (n - FitLen(cap, Len(keys), n)))
<1> DEFINE all == FlattenSeq(g)
           m == Append(g, list)
           keys == KeptFrom(cap, g)
           K == ToSet(keys)
           f == FirstKeys(NewTo(K, list))
           n == Len(f)
           l == FitLen(cap, Len(keys), n)
           more == FitIn(cap, Len(keys), f)
           keys2 == KeptFrom(cap, m)
           w == Len(g)
           S == KeysOf(all) \union KeysOf(list)
<1>1. /\ w \in Nat /\ DOMAIN g = 1..w /\ DOMAIN m = 1..(w + 1) /\ m[w + 1] = list
      /\ \A i \in 1..w : m[i] = g[i] /\ g[i] \in Seq(V)
  OBVIOUS
<1>2. all \in Seq(V) /\ FlattenSeq(m) = all \o list  BY FlattenAppend
<1>3. keys = UpTo(cap, FirstKeys(all)) /\ keys2 = UpTo(cap, FirstKeys(FlattenSeq(m)))
  BY DEF KeptFrom
<1>4. f \in Seq(KeysOf(list) \ K) /\ IsInjective(f) /\ ToSet(f) = KeysOf(list) \ K
  BY NewDeduped DEF NewOnce
<1>5. \A j \in DOMAIN g : KeysOf(g[j]) \subseteq KeysOf(all)  BY DEF FlatKeys
<1> HIDE DEF all, m, keys, keys2
<1>6. /\ keys \in Seq(KeysOf(all)) /\ K \subseteq KeysOf(all) /\ keys2 = keys \o more
      /\ K = KeysOf(all) \/ more = <<>>
  BY <1>2, <1>3, KeysGrow
<1> HIDE DEF K, f
<1>7. Len(keys) \in Nat /\ n \in Nat  BY <1>4, <1>6
<1>8. l \in 0..n /\ more = SubSeq(f, 1, l) /\ more \in Seq(KeysOf(list) \ K)
  BY <1>4, <1>7, FitIs
<1> HIDE DEF l, more, S, n
<1>9. keys \in Seq(S) /\ more \in Seq(S)  BY <1>6, <1>8 DEF S
<1>10. ToSet(keys2) = K \union ToSet(more)  BY <1>6, <1>9, ConcatElements DEF K
<1>11. ToSet(<<>>) = {}  BY DEF ToSet
<1> DEFINE lost == LostBy(g, keys)
           lost2 == LostBy(m, keys2)
<1>12. ASSUME NEW j \in 1..w PROVE lost2[j] = lost[j] /\ lost[j] \in Nat
  <2>1. m[j] = g[j] /\ KeysOf(g[j]) \subseteq KeysOf(all) /\ g[j] \in Seq(V)  BY <1>1, <1>5
  <2>2. KeysOf(g[j]) \ ToSet(keys2) = KeysOf(g[j]) \ ToSet(keys)
    BY <1>6, <1>10, <1>11, <2>1 DEF K
  <2>3. j \in DOMAIN m /\ j \in DOMAIN g  BY <1>1
  <2>4. lost2[j] = Cardinality(KeysOf(m[j]) \ ToSet(keys2))  BY <2>3 DEF LostBy
  <2>5. lost[j] = Cardinality(KeysOf(g[j]) \ ToSet(keys))  BY <2>3 DEF LostBy
  <2> DEFINE s == g[j]
             A == KeysOf(s)
             B == A \ ToSet(keys)
  <2> HIDE DEF s
  <2>6. IsFiniteSet(A)  BY <2>1, KeysFew DEF s
  <2> HIDE DEF A
  <2>7. Cardinality(B) \in Nat  BY <2>6, FS_Subset, FS_CardinalityType
  <2>8. QED  BY <2>1, <2>2, <2>4, <2>5, <2>7 DEF B, A, s
<1>13. lost2[w + 1] = n - l
  <2>1. w + 1 \in DOMAIN m  BY <1>1
  <2>2. lost2[w + 1] = Cardinality(KeysOf(list) \ ToSet(keys2))  BY <1>1, <2>1 DEF LostBy
  <2>3. KeysOf(list) \ ToSet(keys2) = ToSet(f) \ ToSet(more)  BY <1>4, <1>10
  <2>4. Cardinality(ToSet(f) \ ToSet(SubSeq(f, 1, l))) = Len(f) - l
    BY <1>4, <1>8, LeftSize DEF n
  <2>5. QED  BY <1>8, <2>2, <2>3, <2>4 DEF n
<1>14. n - l \in Nat  BY <1>7, <1>8
<1> HIDE DEF lost, lost2
<1> DEFINE D == 1..w
           x == w + 1
<1>15. IsFiniteSet(D) /\ x \notin D /\ D \union {x} = 1..(w + 1)
  <2> HIDE DEF w
  <2>1. IsFiniteSet(1..w)  BY <1>1, FS_Interval
  <2>2. w + 1 \notin 1..w /\ (1..w) \union {w + 1} = 1..(w + 1)  BY <1>1
  <2>3. QED  BY <2>1, <2>2
<1>16. \A y \in D : lost2[y] \in Int /\ lost[y] \in Int /\ lost2[y] = lost[y]  BY <1>12
<1>17. lost2[x] \in Int /\ lost2[x] = n - l  BY <1>13, <1>14
<1> HIDE DEF D, x
<1>18. SumOn(lost2, D \union {x}) = SumOn(lost2, D) + lost2[x]
  BY <1>15, <1>16, <1>17, SumWithOneMore
<1>19. SumOn(lost2, D) = SumOn(lost, D)  BY <1>15, <1>16, SumSame
<1>20. d = SumOn(lost, D)  BY <1>1 DEF CountsLost, lost, keys, D
<1>21. SumOn(lost2, DOMAIN m) = d + (n - l)  BY <1>1, <1>15, <1>17, <1>18, <1>19, <1>20
<1>22. CountsLost(cap, m, d + (n - l))  BY <1>21 DEF CountsLost, lost2, keys2
<1>23. QED  BY <1>22 DEF m, n, l, f, K, keys

(* What an attribute becomes with its last value, or as it is.             *)
LEMMA OverwriteIs ==
  ASSUME NEW c, NEW n \in Nat, c = [i \in 1..n |-> c[i]], NEW list
  PROVE  /\ Overwrite(c, list) = [i \in 1..n |-> Overwrite(c, list)[i]]
         /\ Len(Overwrite(c, list)) = n
         /\ \A i \in 1..n : Overwrite(c, list)[i] =
              IF Has(list, Key(c[i])) THEN LastOf(list, Key(c[i])) ELSE c[i]
<1> DEFINE e(i) == IF Has(list, Key(c[i])) THEN LastOf(list, Key(c[i])) ELSE c[i]
           r == [i \in 1..n |-> e(i)]
<1>1. DOMAIN c = 1..n  OBVIOUS
<1>2. Overwrite(c, list) = r  BY <1>1 DEF Overwrite
<1> HIDE DEF e
<1>3. r = [i \in 1..n |-> r[i]] /\ Len(r) = n /\ \A i \in 1..n : r[i] = e(i)  OBVIOUS
<1> HIDE DEF r
<1>4. QED  BY <1>2, <1>3 DEF e

(* The normalized list, element by element.                                *)
LEMMA NormalAllIs ==
  ASSUME NEW V, NEW s \in Seq(V)
  PROVE  /\ NormalAll(s) \in Seq({Normal(a) : a \in V}) /\ Len(NormalAll(s)) = Len(s)
         /\ \A i \in 1..Len(s) : NormalAll(s)[i] = Normal(s[i])
<1> DEFINE n == Len(s)
           W == {Normal(a) : a \in V}
           r == [i \in 1..n |-> Normal(s[i])]
<1>1. n \in Nat /\ DOMAIN s = 1..n /\ \A i \in 1..n : s[i] \in V  OBVIOUS
<1>2. NormalAll(s) = r  BY <1>1 DEF NormalAll
<1> HIDE DEF n
<1>3. \A i \in 1..n : Normal(s[i]) \in W  BY <1>1
<1> HIDE DEF W
<1>4. r \in Seq(W) /\ Len(r) = n /\ \A i \in 1..n : r[i] = Normal(s[i])  BY <1>1, <1>3
<1>5. QED  BY <1>2, <1>4 DEF n, W

(* What is carried with one more list: earlier attributes with their new   *)
(* values, and behind them what is new and fits.                           *)
LEMMA ShowsNext ==
  ASSUME NEW V, \A a \in V : Normal(a) = Meant(a), NEW g \in Seq(Seq(V)),
         NEW list \in Seq(V), FlatKeys(g), NEW cap \in Int, NEW W, NEW c \in Seq(W),
         Shows(cap, g, c)
  PROVE  LET new == Deduped(NewTo(KeysOf(c), list))
             fit == FitIn(cap, Len(c), new)
         IN  Shows(cap, Append(g, list), Overwrite(c, list) \o NormalAll(fit))
<1> DEFINE all == FlattenSeq(g)
           m == Append(g, list)
           next == FlattenSeq(m)
           keys == KeptFrom(cap, g)
           K == ToSet(keys)
           new == Deduped(NewTo(K, list))
           f == FirstKeys(NewTo(K, list))
           n == Len(keys)
           l == FitLen(cap, n, Len(f))
           more == FitIn(cap, n, f)
           fit == FitIn(cap, n, new)
           keys2 == KeptFrom(cap, m)
           over == Overwrite(c, list)
           added == NormalAll(fit)
           e == over \o added
           X == W \union V \union {Normal(a) : a \in V}
           S == KeysOf(all) \union KeysOf(list)
<1>1. all \in Seq(V) /\ next = all \o list  BY FlattenAppend
<1>2. keys = UpTo(cap, FirstKeys(all)) /\ keys2 = UpTo(cap, FirstKeys(next))
  BY DEF KeptFrom
<1>3. /\ n \in Nat /\ c = [i \in 1..n |-> c[i]] /\ Len(c) = n
      /\ \A i \in 1..n : c[i] = ShownFor(g, all, keys[i]) /\ Key(c[i]) = keys[i]
      /\ KeysOf(c) = K
  BY CarriedKeys
<1>4. /\ \A k \in KeysOf(all) :
           ShownFor(m, next, k) = IF Has(list, k) THEN LastOf(list, k) ELSE ShownFor(g, all, k)
      /\ \A k \in KeysOf(list) \ KeysOf(all) : ShownFor(m, next, k) = Meant(LastOf(list, k))
  BY ShownNext
<1> HIDE DEF all, next, keys, keys2
<1>5. /\ keys \in Seq(KeysOf(all)) /\ K \subseteq KeysOf(all) /\ keys2 = keys \o more
      /\ K = KeysOf(all) \/ more = <<>>
  BY <1>1, <1>2, KeysGrow
<1> HIDE DEF K, n
<1>6. /\ new \in Seq(V) /\ f \in Seq(KeysOf(list) \ K) /\ Len(new) = Len(f)
      /\ \A i \in 1..Len(f) : new[i] = LastOf(list, f[i])
  <2>1. NewOnce(V, K, list, new, f)  BY NewDeduped
  <2> HIDE DEF new, f
  <2>2. QED  BY <2>1 DEF NewOnce
<1>7. /\ over = [i \in 1..n |-> over[i]] /\ Len(over) = n
      /\ \A i \in 1..n : over[i] = IF Has(list, Key(c[i])) THEN LastOf(list, Key(c[i])) ELSE c[i]
  <2>1. n \in Nat /\ c = [i \in 1..n |-> c[i]]  BY <1>3
  <2>2. QED  BY <2>1, OverwriteIs
<1> HIDE DEF f, new, over, m
<1>8. Len(f) \in Nat /\ l \in 0..Len(f)  BY <1>3, <1>6, FitIs
<1>9. more \in Seq(KeysOf(list) \ K) /\ Len(more) = l /\ \A i \in 1..l : more[i] = f[i]
  BY <1>3, <1>6, FitIs
<1>10. fit \in Seq(V) /\ Len(fit) = l /\ \A i \in 1..l : fit[i] = new[i]
  BY <1>3, <1>6, FitIs
<1> HIDE DEF l, more, fit
<1>11. /\ added \in Seq({Normal(a) : a \in V}) /\ Len(added) = l
       /\ \A i \in 1..l : added[i] = Normal(fit[i])
  BY <1>10, NormalAllIs
<1>12. \A i \in 1..n : over[i] \in X
  <2>1. SUFFICES ASSUME NEW i \in 1..n PROVE over[i] \in X  OBVIOUS
  <2>2. c[i] \in X  BY <1>3
  <2>3. CASE Has(list, Key(c[i]))
    <3> DEFINE k == Key(c[i])
    <3>1. k \in KeysOf(list)  BY <2>3, KeysAre
    <3> HIDE DEF k
    <3>2. LastOf(list, k) \in V  BY <3>1, LastKey
    <3>3. over[i] = LastOf(list, k)  BY <1>7, <2>3 DEF k
    <3>4. QED  BY <3>2, <3>3
  <2>4. CASE ~ Has(list, Key(c[i]))  BY <1>7, <2>2, <2>4
  <2>5. QED  BY <2>3, <2>4
<1> HIDE DEF added
<1>13. added \in Seq(X)  BY <1>11
<1> HIDE DEF X
<1>14. over \in Seq(X)
  <2>1. n \in Nat /\ over = [i \in 1..n |-> over[i]]  BY <1>3, <1>7
  <2>2. over \in [1..n -> X]  BY <1>12, <2>1
  <2>3. QED  BY <2>1, <2>2
<1>15. /\ e \in Seq(X) /\ Len(e) = n + l
       /\ \A i \in 1..n : e[i] = over[i]
       /\ \A i \in 1..l : e[n + i] = added[i]
  <2>1. /\ e \in Seq(X) /\ Len(e) = Len(over) + Len(added)
        /\ \A i \in 1..Len(over) : e[i] = over[i]
        /\ \A i \in 1..Len(added) : e[Len(over) + i] = added[i]
    BY <1>13, <1>14, ConcatIs
  <2> HIDE DEF e
  <2>2. Len(over) = n /\ Len(added) = l  BY <1>7, <1>11
  <2>3. QED  BY <2>1, <2>2
<1> HIDE DEF S
<1>16. keys \in Seq(S) /\ more \in Seq(S)  BY <1>5, <1>9 DEF S
<1>17. /\ keys2 \in Seq(S) /\ Len(keys2) = n + l
       /\ \A i \in 1..n : keys2[i] = keys[i]
       /\ \A i \in 1..l : keys2[n + i] = more[i]
  <2> DEFINE joined == keys \o more
  <2>1. /\ joined \in Seq(S) /\ Len(joined) = Len(keys) + Len(more)
        /\ \A i \in 1..Len(keys) : joined[i] = keys[i]
        /\ \A i \in 1..Len(more) : joined[Len(keys) + i] = more[i]
    BY <1>16, ConcatIs
  <2> HIDE DEF joined
  <2>2. Len(keys) = n /\ Len(more) = l  BY <1>9 DEF n
  <2>3. keys2 = joined  BY <1>5 DEF joined
  <2>4. QED  BY <2>1, <2>2, <2>3
<1> HIDE DEF e
<1>18. ASSUME NEW i \in 1..(n + l) PROVE e[i] = ShownFor(m, next, keys2[i])
  <2>1. CASE i \in 1..n
    <3>1. keys[i] \in KeysOf(all)
      <4>1. \A j \in 1..n : keys[j] \in KeysOf(all)  BY <1>5 DEF n
      <4>2. QED  BY <2>1, <4>1
    <3>2. e[i] = IF Has(list, keys[i]) THEN LastOf(list, keys[i])
                                       ELSE ShownFor(g, all, keys[i])
      BY <1>3, <1>7, <1>15, <2>1
    <3>3. QED  BY <1>4, <1>17, <2>1, <3>1, <3>2
  <2>2. CASE i \notin 1..n
    <3> DEFINE j == i - n
    <3>1. j \in 1..l /\ i = n + j /\ j \in 1..Len(f)  BY <1>3, <1>8, <2>2
    <3> HIDE DEF j
    <3> DEFINE k == f[j]
    <3>2. keys2[i] = k /\ k \in KeysOf(list) \ K  BY <1>6, <1>9, <1>17, <3>1
    <3>3. more # <<>>  BY <1>9, <3>1
    <3>4. k \in KeysOf(list) \ KeysOf(all)  BY <1>5, <3>2, <3>3
    <3>5. e[i] = Normal(LastOf(list, k))  BY <1>6, <1>10, <1>11, <1>15, <3>1
    <3>6. LastOf(list, k) \in V  BY <3>2, LastKey
    <3>7. e[i] = Meant(LastOf(list, k))  BY <3>5, <3>6
    <3>8. QED  BY <1>4, <3>2, <3>4, <3>7
  <2>3. QED  BY <2>1, <2>2
<1>19. DOMAIN keys2 = 1..(n + l)  BY <1>17
<1>20. e = [i \in 1..(n + l) |-> e[i]]  BY <1>15
<1>21. e = [i \in DOMAIN keys2 |-> ShownFor(m, next, keys2[i])]  BY <1>18, <1>19, <1>20
<1>22. Shows(cap, m, e)  BY <1>21 DEF Shows, keys2, next
<1>23. e = Overwrite(c, list) \o NormalAll(FitIn(cap, Len(c), Deduped(NewTo(KeysOf(c), list))))
  BY <1>3 DEF e, over, added, fit, new, K
<1>24. QED  BY <1>22, <1>23 DEF m

(* What a record holds of the lists given.                                 *)
RecordShows(cap, g, c, d) == FlatKeys(g) /\ Shows(cap, g, c) /\ CountsLost(cap, g, d)

(* So it does with one more list.                                          *)
LEMMA ListAdded ==
  ASSUME NEW V, \A a \in V : Normal(a) = Meant(a), NEW g \in Seq(Seq(V)),
         NEW list \in Seq(V), NEW cap \in Int, NEW W, NEW c \in Seq(W), NEW d,
         RecordShows(cap, g, c, d)
  PROVE  LET new == Deduped(NewTo(KeysOf(c), list))
             fit == FitIn(cap, Len(c), new)
         IN  /\ new \in Seq(V) /\ fit \in Seq(V) /\ Len(new) - Len(fit) \in Nat
             /\ RecordShows(cap, Append(g, list), Overwrite(c, list) \o NormalAll(fit),
                            d + (Len(new) - Len(fit)))
<1> DEFINE new == Deduped(NewTo(KeysOf(c), list))
           fit == FitIn(cap, Len(c), new)
           f == FirstKeys(NewTo(KeysOf(c), list))
           keys == KeptFrom(cap, g)
<1>1. FlatKeys(g) /\ Shows(cap, g, c) /\ CountsLost(cap, g, d)  BY DEF RecordShows
<1>2. KeysOf(c) = ToSet(keys) /\ Len(c) = Len(keys)  BY <1>1, CarriedKeys
<1>3. NewOnce(V, KeysOf(c), list, new, f)  BY NewDeduped
<1>4. FlatKeys(Append(g, list))  BY <1>1, FlatKeysGrow
<1>5. Shows(cap, Append(g, list), Overwrite(c, list) \o NormalAll(fit))
  BY <1>1, ShowsNext
<1>6. CountsLost(cap, Append(g, list), d + (Len(f) - FitLen(cap, Len(c), Len(f))))
  BY <1>1, <1>2, LostNext
<1> HIDE DEF new, f
<1>7. new \in Seq(V) /\ Len(new) = Len(f)  BY <1>3 DEF NewOnce
<1>8. Len(c) \in Nat  OBVIOUS
<1>9. /\ fit \in Seq(V) /\ FitLen(cap, Len(c), Len(new)) \in 0..Len(new)
      /\ Len(fit) = FitLen(cap, Len(c), Len(new))
  BY <1>7, <1>8, FitIs
<1> HIDE DEF fit
<1>10. Len(new) - Len(fit) \in Nat
  <2> DEFINE n == Len(new)
             l == FitLen(cap, Len(c), n)
  <2>1. n \in Nat /\ l \in 0..n /\ Len(fit) = l  BY <1>7, <1>9
  <2> HIDE DEF n, l
  <2>2. n - l \in Nat  BY <2>1
  <2>3. QED  BY <2>1, <2>2 DEF n
<1>11. CountsLost(cap, Append(g, list), d + (Len(new) - Len(fit)))  BY <1>6, <1>7, <1>9
<1>12. RecordShows(cap, Append(g, list), Overwrite(c, list) \o NormalAll(fit),
                   d + (Len(new) - Len(fit)))
  BY <1>4, <1>5, <1>11 DEF RecordShows
<1>13. QED  BY <1>7, <1>9, <1>10, <1>12 DEF fit, new

(* A record without attributes shows that nothing has been given.          *)
LEMMA NothingShown ==
  ASSUME NEW cap \in Int
  PROVE  RecordShows(cap, <<>>, <<>>, 0)
<1> DEFINE none == <<>>
           keys == KeptFrom(cap, none)
<1>1. FlattenSeq(none) = none  BY FlattenFew
<1>2. KeysOf(none) = {} /\ FirstKeys(none) = none  BY NothingHas
<1>3. none \in Seq({}) /\ DOMAIN none = {} /\ Len(none) = 0  OBVIOUS
<1>4. none = [i \in DOMAIN none |-> ShownFor(none, none, none[i])]  BY <1>3
<1>5. UNION {KeysOf(none[j]) : j \in DOMAIN none} = {}  BY <1>3
<1> HIDE DEF none
<1>6. keys = none
  <2>1. UpTo(cap, none) = none
    <3>1. CASE cap < 0  BY <3>1 DEF UpTo
    <3>2. CASE ~ (cap < 0)
      <4>1. none \in Seq({}) /\ Len(none) <= cap  BY <1>3, <3>2
      <4>2. QED  BY <4>1, UpToAll
    <3>3. QED  BY <3>1, <3>2
  <2>2. QED  BY <1>1, <1>2, <2>1 DEF KeptFrom
<1> HIDE DEF keys
<1>7. Shows(cap, none, none)  BY <1>1, <1>4, <1>6 DEF Shows, keys
<1>8. SumOn(LostBy(none, keys), DOMAIN none) = 0  BY <1>3, SumOfNone
<1>9. CountsLost(cap, none, 0)  BY <1>8 DEF CountsLost, keys
<1>10. FlatKeys(none)  BY <1>1, <1>2, <1>5 DEF FlatKeys
<1>11. QED  BY <1>7, <1>9, <1>10 DEF RecordShows, none

-----------------------------------------------------------------------------
(* Log records: the array and the slice behind it.                         *)

(* The values an attribute of a record may have.                           *)
MayCarry(V) == V \union {Normal(a) : a \in V}

(* Attributes overwritten in two parts are overwritten in the whole.       *)
OverwriteJoins(p, q, list) ==
  Overwrite(p \o q, list) = Overwrite(p, list) \o Overwrite(q, list)

LEMMA OverwriteParts ==
  ASSUME NEW V, NEW p \in Seq(MayCarry(V)), NEW q \in Seq(MayCarry(V)), NEW list \in Seq(V)
  PROVE  /\ Overwrite(p, list) \in Seq(MayCarry(V)) /\ Len(Overwrite(p, list)) = Len(p)
         /\ OverwriteJoins(p, q, list)
<1> DEFINE W == MayCarry(V)
           over(s) == Overwrite(s, list)
           e(a) == IF Has(list, Key(a)) THEN LastOf(list, Key(a)) ELSE a
<1>1. ASSUME NEW a \in W PROVE e(a) \in W
  <2>1. CASE Has(list, Key(a))
    <3> DEFINE k == Key(a)
    <3>1. k \in KeysOf(list)  BY <2>1, KeysAre
    <3> HIDE DEF k
    <3>2. LastOf(list, k) \in V  BY <3>1, LastKey
    <3>3. LastOf(list, Key(a)) \in W  BY <3>2 DEF k, MayCarry
    <3>4. QED  BY <2>1, <3>3
  <2>2. CASE ~ Has(list, Key(a))  BY <2>2
  <2>3. QED  BY <2>1, <2>2
<1>2. \A s \in Seq(W) : over(s) = [i \in 1..Len(s) |-> e(s[i])]  BY DEF Overwrite
<1> HIDE DEF over, e, W
<1>3. \A s \in Seq(W) : /\ over(s) \in Seq(W) /\ Len(over(s)) = Len(s)
                        /\ \A i \in 1..Len(s) : over(s)[i] = e(s[i])
  <2>1. SUFFICES ASSUME NEW s \in Seq(W)
                 PROVE  /\ over(s) \in Seq(W) /\ Len(over(s)) = Len(s)
                        /\ \A i \in 1..Len(s) : over(s)[i] = e(s[i])
    OBVIOUS
  <2> DEFINE n == Len(s)
             r == [i \in 1..n |-> e(s[i])]
  <2>2. n \in Nat /\ \A i \in 1..n : s[i] \in W  OBVIOUS
  <2>3. over(s) = r  BY <1>2
  <2> HIDE DEF n
  <2>4. \A i \in 1..n : e(s[i]) \in W  BY <1>1, <2>2
  <2>5. r \in Seq(W) /\ Len(r) = n /\ \A i \in 1..n : r[i] = e(s[i])  BY <2>2, <2>4
  <2>6. QED  BY <2>3, <2>5 DEF n
<1>4. p \in Seq(W) /\ q \in Seq(W)  BY DEF W
<1> DEFINE w == p \o q
           o == over(w)
           op == over(p)
           oq == over(q)
           u == op \o oq
           l == Len(p)
           m == Len(q)
<1>5. /\ w \in Seq(W) /\ Len(w) = l + m /\ l \in Nat /\ m \in Nat
      /\ \A i \in 1..l : w[i] = p[i]
      /\ \A i \in 1..m : w[l + i] = q[i]
  BY <1>4, ConcatIs
<1> HIDE DEF w
<1>6. /\ op \in Seq(W) /\ Len(op) = l /\ \A i \in 1..l : op[i] = e(p[i])  BY <1>3, <1>4
<1>7. /\ oq \in Seq(W) /\ Len(oq) = m /\ \A i \in 1..m : oq[i] = e(q[i])  BY <1>3, <1>4
<1>8. /\ o \in Seq(W) /\ Len(o) = l + m /\ \A i \in 1..(l + m) : o[i] = e(w[i])
  BY <1>3, <1>5
<1> HIDE DEF op, oq, o
<1>9. /\ u \in Seq(W) /\ Len(u) = Len(op) + Len(oq)
      /\ \A i \in 1..Len(op) : u[i] = op[i]
      /\ \A i \in 1..Len(oq) : u[Len(op) + i] = oq[i]
  <2>1. op \in Seq(W) /\ oq \in Seq(W)  BY <1>6, <1>7
  <2>2. QED  BY <2>1, ConcatIs
<1> HIDE DEF u, l, m
<1>10. ASSUME NEW i \in 1..(l + m) PROVE o[i] = u[i]
  <2>1. CASE i \in 1..l  BY <1>5, <1>6, <1>8, <1>9, <2>1
  <2>2. CASE i \notin 1..l
    <3> DEFINE j == i - l
    <3>1. j \in 1..m /\ i = l + j  BY <1>5, <2>2
    <3> HIDE DEF j
    <3>2. o[i] = e(q[j])  BY <1>5, <1>8, <3>1
    <3>3. u[i] = oq[j]  BY <1>6, <1>7, <1>9, <3>1
    <3>4. QED  BY <1>7, <3>1, <3>2, <3>3
  <2>3. QED  BY <2>1, <2>2
<1>11. Len(u) = l + m  BY <1>6, <1>7, <1>9
<1>12. o = u  BY <1>8, <1>9, <1>10, <1>11, SeqEqual
<1>13. QED  BY <1>6, <1>12 DEF o, u, op, oq, w, over, W, l, OverwriteJoins

(* The whole of a list normalized is its parts normalized.                 *)
LEMMA NormalParts ==
  ASSUME NEW V, NEW list \in Seq(V), NEW k \in 0..Len(list)
  PROVE  LET one == NormalAll(SubSeq(list, 1, k))
             two == NormalAll(SubSeq(list, k + 1, Len(list)))
         IN  /\ one \in Seq(MayCarry(V)) /\ Len(one) = k
             /\ two \in Seq(MayCarry(V)) /\ Len(two) = Len(list) - k
             /\ NormalAll(list) = one \o two
<1> DEFINE p == SubSeq(list, 1, k)
           q == SubSeq(list, k + 1, Len(list))
           W == MayCarry(V)
           n == Len(list)
           m == n - k
           one == NormalAll(p)
           two == NormalAll(q)
           all == NormalAll(list)
           u == one \o two
<1>1. Splits(V, list, k, p, q)  BY FrontAndRest
<1> HIDE DEF p, q
<1>2. /\ p \in Seq(V) /\ Len(p) = k /\ q \in Seq(V) /\ Len(q) = m /\ list = p \o q
  BY <1>1 DEF Splits
<1>3. n \in Nat /\ k \in Nat /\ m \in Nat /\ n = k + m  OBVIOUS
<1>4. /\ Len(p \o q) = k + m
      /\ \A i \in 1..k : (p \o q)[i] = p[i]
      /\ \A i \in 1..m : (p \o q)[k + i] = q[i]
  <2>1. p \in Seq(V) /\ q \in Seq(V)  BY <1>2
  <2>2. /\ Len(p \o q) = Len(p) + Len(q)
        /\ \A i \in 1..Len(p) : (p \o q)[i] = p[i]
        /\ \A i \in 1..Len(q) : (p \o q)[Len(p) + i] = q[i]
    BY <2>1, ConcatIs
  <2>3. Len(p) = k /\ Len(q) = m  BY <1>2
  <2>4. QED  BY <2>2, <2>3
<1> HIDE DEF m, n
<1>5. /\ \A i \in 1..k : list[i] = p[i]
      /\ \A i \in 1..m : list[k + i] = q[i]
  BY <1>2, <1>4
<1>6. /\ one \in Seq({Normal(a) : a \in V}) /\ Len(one) = k
      /\ \A i \in 1..k : one[i] = Normal(p[i])
  BY <1>2, NormalAllIs
<1>7. /\ two \in Seq({Normal(a) : a \in V}) /\ Len(two) = m
      /\ \A i \in 1..m : two[i] = Normal(q[i])
  BY <1>2, NormalAllIs
<1>8. /\ all \in Seq({Normal(a) : a \in V}) /\ Len(all) = n
      /\ \A i \in 1..n : all[i] = Normal(list[i])
  BY NormalAllIs DEF n
<1> HIDE DEF one, two, all
<1>9. one \in Seq(W) /\ two \in Seq(W) /\ all \in Seq(W)
  BY <1>6, <1>7, <1>8 DEF MayCarry
<1> HIDE DEF W
<1>10. /\ u \in Seq(W) /\ Len(u) = Len(one) + Len(two)
       /\ \A i \in 1..Len(one) : u[i] = one[i]
       /\ \A i \in 1..Len(two) : u[Len(one) + i] = two[i]
  BY <1>9, ConcatIs
<1> HIDE DEF u
<1>11. ASSUME NEW i \in 1..n PROVE all[i] = u[i]
  <2>1. CASE i \in 1..k
    <3>1. all[i] = Normal(p[i])  BY <1>5, <1>8, <2>1
    <3>2. u[i] = Normal(p[i])  BY <1>6, <1>10, <2>1
    <3>3. QED  BY <3>1, <3>2
  <2>2. CASE i \notin 1..k
    <3> DEFINE j == i - k
    <3>1. j \in 1..m /\ i = k + j  BY <1>3, <2>2
    <3> HIDE DEF j
    <3>2. all[i] = Normal(q[j])  BY <1>5, <1>8, <3>1
    <3>3. u[i] = Normal(q[j])  BY <1>6, <1>7, <1>10, <3>1
    <3>4. QED  BY <3>2, <3>3
  <2>3. QED  BY <2>1, <2>2
<1>12. Len(u) = n  BY <1>3, <1>6, <1>7, <1>10
<1>13. all = u  BY <1>8, <1>9, <1>10, <1>11, <1>12, SeqEqual
<1>14. QED  BY <1>6, <1>7, <1>9, <1>13 DEF u, one, two, all, p, q, W, m, n

(* Attributes in the array and in the slice, none in the slice unless the  *)
(* array is full.                                                          *)
WellFilled(V, f, b) ==
  /\ f \in Seq(MayCarry(V)) /\ b \in Seq(MayCarry(V))
  /\ Len(f) <= Inline /\ (b # <<>> => Len(f) = Inline)

(* A list split between the array and the slice follows what is there.     *)
FilledBy(V, f, b, list, fs, bs) ==
  WellFilled(V, fs, bs) /\ fs \o bs = (f \o b) \o NormalAll(list)

LEMMA SplitAdded ==
  ASSUME NEW V, NEW f, NEW b, WellFilled(V, f, b), NEW list \in Seq(V)
  PROVE  FilledBy(V, f, b, list, f \o NormalAll(InFront(list, Inline - Len(f))),
                                 b \o NormalAll(Behind(list, Inline - Len(f))))
<1> DEFINE W == MayCarry(V)
           free == Inline - Len(f)
           n == Len(list)
           k == IF free <= n THEN free ELSE n
           one == NormalAll(SubSeq(list, 1, k))
           two == NormalAll(SubSeq(list, k + 1, n))
           all == NormalAll(list)
           fs == f \o one
           bs == b \o two
<1>1. /\ f \in Seq(W) /\ b \in Seq(W) /\ Len(f) <= Inline /\ (b # <<>> => Len(f) = Inline)
      /\ Inline \in Nat /\ Len(f) \in Nat /\ n \in Nat
  BY RecordAssumption DEF WellFilled
<1> DEFINE l == Len(f)
<1> HIDE DEF l, n
<1>2. free = Inline - l /\ free \in Nat  BY <1>1 DEF l
<1> HIDE DEF free
<1>3. k \in 0..n  BY <1>1, <1>2
<1>4. InFront(list, free) = SubSeq(list, 1, k)
  <2>1. Min({free, n}) = k  BY <1>1, <1>2, MinOfTwo
  <2>2. QED  BY <2>1 DEF InFront, n
<1>5. Behind(list, free) = SubSeq(list, k + 1, n)
  <2>1. CASE free <= n  BY <2>1 DEF Behind, n
  <2>2. CASE ~ (free <= n)
    <3>1. SubSeq(list, free + 1, n) \in Seq(V) /\ Len(SubSeq(list, free + 1, n)) = 0
      BY <1>1, <1>2, <2>2 DEF n
    <3>2. SubSeq(list, n + 1, n) \in Seq(V) /\ Len(SubSeq(list, n + 1, n)) = 0
      BY <1>1 DEF n
    <3>3. SubSeq(list, free + 1, n) = SubSeq(list, n + 1, n)
      <4> DEFINE s == SubSeq(list, free + 1, n)
                 t == SubSeq(list, n + 1, n)
      <4> HIDE DEF s, t
      <4>1. s \in Seq(V) /\ Len(s) = 0 /\ t \in Seq(V) /\ Len(t) = 0  BY <3>1, <3>2 DEF s, t
      <4>2. s = t  BY <4>1
      <4>3. QED  BY <4>2 DEF s, t
    <3>4. QED  BY <2>2, <3>3 DEF Behind, n
  <2>3. QED  BY <2>1, <2>2
<1>6. /\ one \in Seq(W) /\ Len(one) = k /\ two \in Seq(W) /\ Len(two) = n - k
      /\ all = one \o two
  <2> HIDE DEF k
  <2>1. k \in 0..Len(list)  BY <1>3 DEF n
  <2>2. QED  BY <2>1, NormalParts DEF n
<1> HIDE DEF one, two, all, W
<1>7. one \in Seq(W) /\ two \in Seq(W) /\ f \in Seq(W) /\ b \in Seq(W)  BY <1>1, <1>6
<1>8. fs \in Seq(W) /\ bs \in Seq(W) /\ Len(fs) = l + k /\ l \in Nat
  BY <1>1, <1>6, <1>7, ConcatProperties DEF l
<1>9. CASE free = 0
  <2>1. k = 0  BY <1>1, <1>2, <1>9
  <2>2. one = <<>>  BY <1>6, <2>1
  <2>3. fs = f /\ all = two  BY <1>6, <1>7, <2>2
  <2>4. fs \o bs = (f \o b) \o all
    <3>1. f \in Seq(W) /\ b \in Seq(W) /\ two \in Seq(W)  BY <1>7
    <3>2. (f \o b) \o two = f \o (b \o two)  BY <3>1, ConcatAssociative
    <3>3. QED  BY <2>3, <3>2
  <2>5. Len(fs) = Inline  BY <1>1, <1>2, <1>8, <1>9, <2>1
  <2>6. WellFilled(V, fs, bs)  BY <1>1, <1>8, <2>5 DEF WellFilled, W
  <2>7. QED  BY <1>4, <1>5, <2>4, <2>6 DEF fs, bs, one, two, all, free, FilledBy
<1>10. CASE free # 0
  <2>1. b = <<>>  BY <1>1, <1>2, <1>10 DEF l
  <2>2. bs = two /\ f \o b = f  BY <1>7, <2>1
  <2>3. fs \o bs = (f \o b) \o all
    <3>1. f \in Seq(W) /\ one \in Seq(W) /\ two \in Seq(W)  BY <1>7
    <3>2. (f \o one) \o two = f \o (one \o two)  BY <3>1, ConcatAssociative
    <3>3. all = one \o two  BY <1>6
    <3>4. QED  BY <2>2, <3>2, <3>3
  <2>4. Len(fs) <= Inline  BY <1>1, <1>2, <1>3, <1>8
  <2>5. bs # <<>> => Len(fs) = Inline
    <3>1. CASE free <= n  BY <1>1, <1>2, <1>8, <3>1
    <3>2. CASE ~ (free <= n)
      <4>1. k = n  BY <3>2
      <4>2. Len(two) = 0  BY <1>1, <1>6, <4>1
      <4>3. two = <<>>  BY <1>7, <4>2
      <4>4. QED  BY <2>2, <4>3
    <3>3. QED  BY <3>1, <3>2
  <2>6. WellFilled(V, fs, bs)  BY <1>8, <2>4, <2>5 DEF WellFilled, W
  <2>7. QED  BY <1>4, <1>5, <2>3, <2>6 DEF fs, bs, one, two, all, free, FilledBy
<1>11. QED  BY <1>9, <1>10

-----------------------------------------------------------------------------
(* Log records: the steps.                                                 *)

(* The attributes that may be added or derived.                            *)
RecordValues ==
  (UNION {ToSet(list) : list \in RecordLists})
    \union {<<MessageKey, Derived>>, <<TypeKey, Derived>>}

LEMMA RecordValuesAre ==
  /\ \A a \in RecordValues : Normal(a) = Meant(a)
  /\ \A list \in RecordLists : list \in Seq(RecordValues)
<1>1. ASSUME NEW a \in RecordValues PROVE Normal(a) = Meant(a)
  <2>1. Norm[a[2]] = Canonical[a[2]]
    <3>1. CASE \E list \in RecordLists : a \in ToSet(list)  BY <3>1, RecordAssumption
    <3>2. CASE a \in {<<MessageKey, Derived>>, <<TypeKey, Derived>>}
      <4>1. a[2] = Derived  BY <3>2
      <4>2. QED  BY <4>1, RecordAssumption
    <3>3. QED  BY <1>1, <3>1, <3>2 DEF RecordValues
  <2>2. QED  BY <2>1 DEF Normal, Meant
<1>2. ASSUME NEW list \in RecordLists PROVE list \in Seq(RecordValues)
  <2>1. list \in Seq(ToSet(list))  BY RecordAssumption
  <2>2. ToSet(list) \subseteq RecordValues  BY DEF RecordValues
  <2>3. QED  BY <2>1, <2>2
<1>3. QED  BY <1>1, <1>2

(* The types, and the array full before the slice is used.                 *)
RecordTyped ==
  /\ countLimit \in Int /\ given \in Seq(Seq(RecordValues)) /\ droppedCount \in Nat
  /\ WellFilled(RecordValues, front, back)

(* A record shows what it has been given.                                  *)
RecordIInv == RecordTyped /\ RecordShows(countLimit, given, carried, droppedCount)

(* An empty record does.                                                   *)
LEMMA RecordStarts == RecordInit => RecordIInv
<1> SUFFICES ASSUME RecordInit PROVE RecordIInv  OBVIOUS
<1> DEFINE none == <<>>
<1>1. /\ countLimit \in Int /\ front = none /\ back = none /\ droppedCount = 0 /\ given = none
  BY RecordAssumption DEF RecordInit
<1>2. none \o none = none /\ Len(none) = 0 /\ \A S : none \in Seq(S)  OBVIOUS
<1>3. RecordShows(countLimit, none, none, 0)  BY <1>1, NothingShown
<1> HIDE DEF none
<1>4. carried = none  BY <1>1, <1>2 DEF carried
<1>5. WellFilled(RecordValues, none, none)
  <2>1. 0 <= Inline  BY RecordAssumption
  <2>2. QED  BY <1>2, <2>1 DEF WellFilled, none
<1>6. RecordTyped  BY <1>1, <1>2, <1>5 DEF RecordTyped
<1>7. QED  BY <1>1, <1>3, <1>4, <1>6 DEF RecordIInv

(* What is carried, and what is new to it.                                 *)
LEMMA CarriedIs ==
  ASSUME NEW V, WellFilled(V, front, back)
  PROVE  /\ carried \in Seq(MayCarry(V)) /\ front \in Seq(MayCarry(V))
         /\ back \in Seq(MayCarry(V)) /\ Len(front) \in Nat
         /\ \A list : Filter(list, LAMBDA a : ~Has(carried, Key(a))) = NewTo(KeysOf(carried), list)
         /\ \A list : Fitting(list) = FitIn(countLimit, Len(carried), list)
<1>1. front \in Seq(MayCarry(V)) /\ back \in Seq(MayCarry(V))  BY DEF WellFilled
<1>2. carried \in Seq(MayCarry(V)) /\ Len(front) \in Nat  BY <1>1 DEF carried
<1>3. \A k : k \in KeysOf(carried) <=> Has(carried, k)  BY <1>2, KeysAre
<1>4. ASSUME NEW list
      PROVE  Filter(list, LAMBDA a : ~Has(carried, Key(a))) = NewTo(KeysOf(carried), list)
  <2> DEFINE P == {i \in DOMAIN list : ~ Has(carried, Key(list[i]))}
             Q == {i \in DOMAIN list : Key(list[i]) \notin KeysOf(carried)}
  <2>1. P = Q  BY <1>3
  <2>2. Filter(list, LAMBDA a : ~Has(carried, Key(a))) = Sublist(list, P)  BY DEF Filter
  <2>3. NewTo(KeysOf(carried), list) = Sublist(list, Q)  BY DEF NewTo, Filter
  <2>4. QED  BY <2>1, <2>2, <2>3
<1>5. \A list : Fitting(list) = FitIn(countLimit, Len(carried), list)
  BY Zenon DEF Fitting, FitIn, Room
<1>6. QED  BY <1>1, <1>2, <1>4, <1>5

(* AddAttributes shows one more list.                                      *)
LEMMA ManyAdded ==
  ASSUME RecordIInv, NEW list \in RecordLists, AddAttributes(list)
  PROVE  RecordIInv'
<1> DEFINE V == RecordValues
           c == carried
           g == given
           new == Deduped(NewTo(KeysOf(c), list))
           fit == FitIn(countLimit, Len(c), new)
           more == Append(g, list)
           f == Overwrite(front, list)
           b == Overwrite(back, list)
           d == droppedCount + (Len(new) - Len(fit))
           free == Inline - Len(f)
           fs == f \o NormalAll(InFront(fit, free))
           bs == b \o NormalAll(Behind(fit, free))
           e == Overwrite(c, list) \o NormalAll(fit)
<1>1. /\ countLimit \in Int /\ g \in Seq(Seq(V)) /\ droppedCount \in Nat
      /\ WellFilled(V, front, back) /\ RecordShows(countLimit, g, c, droppedCount)
  BY DEF RecordIInv, RecordTyped
<1>2. (\A a \in V : Normal(a) = Meant(a)) /\ list \in Seq(V)  BY RecordValuesAre
<1>3. /\ c \in Seq(MayCarry(V)) /\ front \in Seq(MayCarry(V))
      /\ back \in Seq(MayCarry(V)) /\ Len(front) \in Nat
  BY <1>1, CarriedIs
<1>4. Filter(list, LAMBDA a : ~Has(carried, Key(a))) = NewTo(KeysOf(c), list)
  BY <1>1, CarriedIs
<1>5. Fitting(new) = fit  BY <1>1, CarriedIs
<1>6. /\ front' = fs /\ back' = bs /\ droppedCount' = d /\ given' = more
      /\ countLimit' = countLimit
  BY <1>4, <1>5 DEF AddAttributes, AddAttrs
<1> HIDE DEF V, c, g
<1>7. /\ new \in Seq(V) /\ fit \in Seq(V) /\ Len(new) - Len(fit) \in Nat
      /\ RecordShows(countLimit, more, e, d)
  BY <1>1, <1>2, <1>3, ListAdded
<1>8. /\ f \in Seq(MayCarry(V)) /\ Len(f) = Len(front)
      /\ b \in Seq(MayCarry(V)) /\ Len(b) = Len(back)
      /\ Overwrite(front \o back, list) = f \o b
  <2>1. f \in Seq(MayCarry(V)) /\ Len(f) = Len(front)  BY <1>2, <1>3, OverwriteParts
  <2>2. b \in Seq(MayCarry(V)) /\ Len(b) = Len(back)  BY <1>2, <1>3, OverwriteParts
  <2>3. Overwrite(front \o back, list) = f \o b
    <3>1. front \in Seq(MayCarry(V)) /\ back \in Seq(MayCarry(V)) /\ list \in Seq(V)
      BY <1>2, <1>3
    <3>2. OverwriteJoins(front, back, list)  BY <3>1, OverwriteParts
    <3>3. QED  BY <3>2 DEF OverwriteJoins
  <2>4. QED  BY <2>1, <2>2, <2>3
<1>9. more \in Seq(Seq(V))  BY <1>1, <1>2
<1> HIDE DEF new, fit, more, f, b
<1>10. WellFilled(V, f, b)
  <2>1. /\ Len(front) <= Inline /\ (back # <<>> => Len(front) = Inline)
    BY <1>1 DEF WellFilled
  <2>2. b # <<>> => back # <<>>
    <3> HAVE b # <<>>
    <3>1. Len(b) # 0  BY <1>8
    <3>2. QED  BY <1>8, <3>1
  <2>3. QED  BY <1>8, <2>1, <2>2 DEF WellFilled
<1>11. WellFilled(V, fs, bs) /\ fs \o bs = (f \o b) \o NormalAll(fit)
  <2>1. FilledBy(V, f, b, fit, fs, bs)  BY <1>7, <1>10, SplitAdded
  <2>2. QED  BY <2>1 DEF FilledBy
<1>12. carried' = e
  <2>1. carried' = front' \o back'  BY DEF carried
  <2>2. c = front \o back  BY DEF c, carried
  <2>3. QED  BY <1>6, <1>8, <1>11, <2>1, <2>2
<1>13. d \in Nat  BY <1>1, <1>7
<1> HIDE DEF fs, bs, e, d
<1>14. RecordTyped'  BY <1>1, <1>6, <1>9, <1>11, <1>13 DEF RecordTyped, V
<1>15. QED  BY <1>6, <1>7, <1>12, <1>14 DEF RecordIInv

(* SetAttributes shows one list.                                           *)
LEMMA AllSet ==
  ASSUME RecordIInv, NEW list \in RecordLists, SetAll(list)
  PROVE  RecordIInv'
<1> DEFINE V == RecordValues
           none == <<>>
           new == Deduped(list)
           kept == UpTo(countLimit, new)
           d == 0 + (Len(new) - Len(kept))
           fs == none \o NormalAll(InFront(kept, Inline - Len(none)))
           bs == none \o NormalAll(Behind(kept, Inline - Len(none)))
           e == Overwrite(none, list) \o NormalAll(kept)
           more == <<list>>
<1>1. countLimit \in Int  BY DEF RecordIInv, RecordTyped
<1>2. (\A a \in V : Normal(a) = Meant(a)) /\ list \in Seq(V)  BY RecordValuesAre
<1>3. /\ front' = fs /\ back' = bs /\ droppedCount' = d /\ given' = more
      /\ countLimit' = countLimit
  BY DEF SetAll, AddAttrs, FreshCount
<1>4. /\ none \in Seq(Seq(V)) /\ none \in Seq(MayCarry(V)) /\ Len(none) = 0
      /\ Append(none, list) = more /\ none \o none = none
  OBVIOUS
<1>5. more \in Seq(Seq(V))  BY <1>2
<1>6. KeysOf(none) = {}  BY NothingHas
<1>7. NewTo(KeysOf(none), list) = list  BY <1>2, <1>6, AllNew
<1>8. RecordShows(countLimit, none, none, 0)  BY <1>1, NothingShown
<1>9. Overwrite(none, list) = none  BY DEF Overwrite
<1> HIDE DEF V, none, new, more
<1>10. FitIn(countLimit, Len(none), new) = kept
  <2>1. CASE countLimit < 0  BY <2>1 DEF FitIn, UpTo
  <2>2. CASE ~ (countLimit < 0)
    <3>1. countLimit - Len(none) = countLimit /\ 0 <= countLimit  BY <1>1, <1>4, <2>2
    <3>2. Max({0, countLimit}) = countLimit  BY <1>1, <3>1, MaxOfTwo
    <3>3. QED  BY <2>2, <3>1, <3>2 DEF FitIn
  <2>3. QED  BY <2>1, <2>2
<1>11. Deduped(NewTo(KeysOf(none), list)) = new  BY <1>7 DEF new
<1>12. /\ new \in Seq(V) /\ kept \in Seq(V) /\ Len(new) - Len(kept) \in Nat
       /\ RecordShows(countLimit, more, e, d)
  <2> DEFINE one == Deduped(NewTo(KeysOf(none), list))
             fit == FitIn(countLimit, Len(none), one)
  <2>1. /\ one \in Seq(V) /\ fit \in Seq(V) /\ Len(one) - Len(fit) \in Nat
        /\ RecordShows(countLimit, Append(none, list), Overwrite(none, list) \o NormalAll(fit),
                       0 + (Len(one) - Len(fit)))
    BY <1>1, <1>2, <1>4, <1>8, ListAdded
  <2> HIDE DEF one, fit
  <2>2. one = new /\ fit = kept  BY <1>10, <1>11 DEF one, fit
  <2>3. QED  BY <1>4, <2>1, <2>2
<1> HIDE DEF kept
<1>13. WellFilled(V, none, none)
  <2>1. 0 <= Inline  BY RecordAssumption
  <2>2. QED  BY <1>4, <2>1 DEF WellFilled
<1>14. WellFilled(V, fs, bs) /\ fs \o bs = (none \o none) \o NormalAll(kept)
  <2>1. FilledBy(V, none, none, kept, fs, bs)  BY <1>12, <1>13, SplitAdded
  <2>2. QED  BY <2>1 DEF FilledBy
<1>15. carried' = e
  <2>1. carried' = front' \o back'  BY DEF carried
  <2>2. QED  BY <1>3, <1>4, <1>9, <1>14, <2>1
<1>16. d \in Nat  BY <1>12
<1> HIDE DEF fs, bs, e, d
<1>17. RecordTyped'  BY <1>1, <1>3, <1>5, <1>14, <1>16 DEF RecordTyped, V
<1>18. QED  BY <1>3, <1>12, <1>15, <1>17 DEF RecordIInv

(* What is derived, from any of the two keys.                              *)
LEMMA DerivedAre ==
  ASSUME NEW P \in SUBSET (1..2)
  PROVE  LET both    == <<MessageKey, TypeKey>>
             missing == Sublist(both, P)
             list    == [i \in DOMAIN missing |-> <<missing[i], Derived>>]
         IN  /\ list \in Seq(RecordValues) /\ Once(list)
             /\ \A k \in KeysOf(list) : \E i \in P : both[i] = k
<1> DEFINE both == <<MessageKey, TypeKey>>
           S == {MessageKey, TypeKey}
           missing == Sublist(both, P)
           list == [i \in DOMAIN missing |-> <<missing[i], Derived>>]
           n == Cardinality(P)
           o == InOrder(P)
<1>1. both \in Seq(S) /\ Len(both) = 2  OBVIOUS
<1>2. both[1] # both[2]  BY RecordAssumption
<1> HIDE DEF both, S
<1>3. /\ IsFiniteSet(P) /\ P \subseteq Int /\ n \in Nat /\ missing \in Seq(S) /\ Len(missing) = n
      /\ \A p \in 1..n : missing[p] = both[o[p]]
  <2>1. both \in Seq(S) /\ P \in SUBSET (1..Len(both))  BY <1>1
  <2>2. QED  BY <2>1, SublistType
<1>4. o \in [1..n -> P] /\ Increasing(o, n)  BY <1>3, InOrderIs
<1> HIDE DEF missing, o, n
<1>5. DOMAIN missing = 1..n /\ \A i \in 1..n : missing[i] \in S  BY <1>3
<1>6. list = [i \in 1..n |-> <<missing[i], Derived>>]  BY <1>5
<1>7. \A i \in 1..n : <<missing[i], Derived>> \in RecordValues  BY <1>5 DEF S, RecordValues
<1> HIDE DEF list
<1>8. list \in Seq(RecordValues) /\ DOMAIN list = 1..n  BY <1>3, <1>6, <1>7
<1>9. \A i \in 1..n : Key(list[i]) = both[o[i]]  BY <1>3, <1>6 DEF Key
<1>10. \A i \in 1..n : o[i] \in P /\ (o[i] = 1 \/ o[i] = 2)
  <2>1. \A x \in P : x = 1 \/ x = 2  OBVIOUS
  <2>2. QED  BY <1>4, <2>1
<1>11. ASSUME NEW i \in 1..n, NEW j \in 1..n, Key(list[i]) = Key(list[j]) PROVE i = j
  <2>1. o[i] = o[j]  BY <1>2, <1>9, <1>10, <1>11
  <2>2. ~ (i < j) /\ ~ (j < i)  BY <1>4, <1>10, <2>1 DEF Increasing
  <2>3. QED  BY <1>3, <2>2
<1>12. Once(list)  BY <1>8, <1>11 DEF Once
<1>13. \A k \in KeysOf(list) : \E i \in P : both[i] = k  BY <1>8, <1>9, <1>10 DEF KeysOf
<1>14. QED  BY <1>8, <1>12, <1>13 DEF list, missing, both

(* A list with each key once has no duplicates to remove.                  *)
LEMMA DedupedOnce ==
  ASSUME NEW V, NEW s \in Seq(V), Once(s)
  PROVE  Deduped(s) = s
<1> DEFINE d == Deduped(s)
           f == FirstKeys(s)
<1>1. d \in Seq(V) /\ Once(d) /\ Same(d, s)  BY DedupedSays
<1>2. Same(s, s)  BY DEF Same
<1> HIDE DEF d
<1>3. d = [i \in DOMAIN f |-> LastOf(s, f[i])]  BY <1>1, SameOnce
<1>4. s = [i \in DOMAIN f |-> LastOf(s, f[i])]  BY <1>2, SameOnce
<1>5. QED  BY <1>3, <1>4 DEF d

(* The end of newRecord shows one more list, if it derives something.      *)
LEMMA WhatIsMissing ==
  ASSUME RecordIInv, NEW keys \in SUBSET {MessageKey, TypeKey}, Derive(keys)
  PROVE  RecordIInv'
<1> DEFINE V == RecordValues
           c == carried
           g == given
           all == FlattenSeq(g)
           both == <<MessageKey, TypeKey>>
           P == {i \in DOMAIN both : both[i] \in keys /\ ~Supplied(both[i])}
           missing == Sublist(both, P)
           list == [i \in DOMAIN missing |-> <<missing[i], Derived>>]
           fit == FitIn(countLimit, Len(c), list)
           fs == front \o NormalAll(InFront(fit, Inline - Len(front)))
           bs == back \o NormalAll(Behind(fit, Inline - Len(front)))
           more == IF fit = <<>> THEN g ELSE Append(g, fit)
<1>1. /\ countLimit \in Int /\ g \in Seq(Seq(V)) /\ droppedCount \in Nat
      /\ WellFilled(V, front, back) /\ RecordShows(countLimit, g, c, droppedCount)
  BY DEF RecordIInv, RecordTyped
<1>2. \A a \in V : Normal(a) = Meant(a)  BY RecordValuesAre
<1>3. c \in Seq(MayCarry(V)) /\ front \in Seq(MayCarry(V)) /\ back \in Seq(MayCarry(V))
  BY <1>1, CarriedIs
<1>4. Filter(both, LAMBDA k : k \in keys /\ ~Supplied(k)) = missing  BY DEF Filter
<1>5. Fitting(list) = fit  BY <1>1, CarriedIs
<1>6. /\ front' = fs /\ back' = bs /\ droppedCount' = droppedCount /\ given' = more
      /\ countLimit' = countLimit
  BY <1>4, <1>5 DEF Derive, AddAttrs
<1>7. P \in SUBSET (1..2)
  <2>1. DOMAIN both = 1..2  OBVIOUS
  <2>2. QED  BY <2>1
<1>8. \A i \in P : ~ Has(all, both[i])  BY DEF Supplied
<1> HIDE DEF P, all
<1>9. list \in Seq(V) /\ Once(list) /\ \A k \in KeysOf(list) : \E i \in P : both[i] = k
  BY <1>7, DerivedAre
<1>10. \A k \in KeysOf(list) : ~ Has(all, k)  BY <1>8, <1>9
<1> HIDE DEF V, c, g, list, both, missing
<1>11. all \in Seq(V)
  <2> DEFINE none == <<>>
  <2>1. none \in Seq(V)  OBVIOUS
  <2> HIDE DEF none
  <2>2. QED  BY <1>1, <2>1, FlattenAppend DEF all
<1>12. KeysOf(list) \intersect KeysOf(all) = {}  BY <1>10, <1>11, KeysAre
<1>13. KeysOf(c) \subseteq KeysOf(all)
  <2>1. Shows(countLimit, g, c)  BY <1>1 DEF RecordShows
  <2> DEFINE kept == KeptFrom(countLimit, g)
  <2>2. KeysOf(c) = ToSet(kept) /\ ToSet(kept) \subseteq KeysOf(FlattenSeq(g))
    BY <1>1, <2>1, CarriedKeys
  <2>3. QED  BY <2>2 DEF all
<1> DEFINE n == Len(c)
           l == FitLen(countLimit, n, Len(list))
<1>14. n \in Nat /\ Len(list) \in Nat  BY <1>3, <1>9
<1>15. /\ fit \in Seq(V) /\ l \in 0..Len(list) /\ Len(fit) = l
       /\ \A i \in 1..l : fit[i] = list[i]
  <2>1. countLimit \in Int /\ list \in Seq(V)  BY <1>1, <1>9
  <2> HIDE DEF n
  <2>2. LET some == FitIn(countLimit, n, list)
            most == FitLen(countLimit, n, Len(list))
        IN  /\ some \in Seq(V) /\ most \in 0..Len(list) /\ Len(some) = most
            /\ \A i \in 1..most : some[i] = list[i]
    BY <1>14, <2>1, FitIs, Zenon
  <2>3. QED  BY <2>2 DEF n
<1>16. FitIn(countLimit, Len(c), fit) = fit  BY <1>1, <1>9, <1>14, FitsAlready
<1> HIDE DEF fit, l
<1>17. Once(fit) /\ KeysOf(fit) \subseteq KeysOf(list)
  <2>1. DOMAIN fit = 1..l /\ DOMAIN list = 1..Len(list)  BY <1>9, <1>15
  <2>2. \A i \in 1..l : i \in 1..Len(list) /\ fit[i] = list[i]  BY <1>14, <1>15
  <2>3. Once(fit)  BY <1>9, <2>1, <2>2 DEF Once
  <2>4. KeysOf(fit) \subseteq KeysOf(list)  BY <2>1, <2>2 DEF KeysOf
  <2>5. QED  BY <2>3, <2>4
<1>18. KeysOf(fit) \intersect KeysOf(c) = {}  BY <1>12, <1>13, <1>17
<1>19. WellFilled(V, fs, bs) /\ fs \o bs = (front \o back) \o NormalAll(fit)
  <2>1. FilledBy(V, front, back, fit, fs, bs)  BY <1>1, <1>15, SplitAdded
  <2>2. QED  BY <2>1 DEF FilledBy
<1>20. carried' = c \o NormalAll(fit)
  <2>1. carried' = front' \o back'  BY DEF carried
  <2>2. c = front \o back  BY DEF c, carried
  <2>3. QED  BY <1>6, <1>19, <2>1, <2>2
<1>21. Overwrite(c, fit) = c
  <2> DEFINE over == Overwrite(c, fit)
  <2>1. c = [i \in 1..n |-> c[i]] /\ n \in Nat /\ DOMAIN c = 1..n  BY <1>3
  <2>2. /\ over = [i \in 1..n |-> over[i]]
        /\ \A i \in 1..n : over[i] = IF Has(fit, Key(c[i])) THEN LastOf(fit, Key(c[i])) ELSE c[i]
    <3> HIDE DEF n
    <3>1. n \in Nat /\ c = [i \in 1..n |-> c[i]]  BY <2>1
    <3>2. QED  BY <3>1, OverwriteIs
  <2> HIDE DEF over
  <2>3. \A i \in 1..n : Key(c[i]) \in KeysOf(c)  BY <2>1 DEF KeysOf
  <2>4. \A i \in 1..n : ~ Has(fit, Key(c[i]))  BY <1>15, <1>18, <2>3, KeysAre
  <2>5. \A i \in 1..n : over[i] = c[i]  BY <2>2, <2>4
  <2>6. over = c  BY <2>1, <2>2, <2>5
  <2>7. QED  BY <2>6 DEF over
<1>22. Deduped(NewTo(KeysOf(c), fit)) = fit
  <2>1. NewTo(KeysOf(c), fit) = fit  BY <1>15, <1>18, AllNew
  <2>2. QED  BY <1>15, <1>17, <2>1, DedupedOnce
<1>23. RecordShows(countLimit, more, c \o NormalAll(fit), droppedCount) /\ more \in Seq(Seq(V))
  <2>1. CASE fit = <<>>
    <3>1. NormalAll(<<>>) = <<>>  BY DEF NormalAll
    <3>2. c \o <<>> = c  BY <1>3
    <3>3. QED  BY <1>1, <2>1, <3>1, <3>2
  <2>2. CASE fit # <<>>
    <3> DEFINE new == Deduped(NewTo(KeysOf(c), fit))
               some == FitIn(countLimit, Len(c), new)
               d == droppedCount + (Len(new) - Len(some))
    <3>1. RecordShows(countLimit, Append(g, fit), Overwrite(c, fit) \o NormalAll(some), d)
      BY <1>1, <1>2, <1>3, <1>15, ListAdded
    <3>2. new = fit /\ some = fit  BY <1>16, <1>22
    <3> HIDE DEF new, some
    <3>3. Len(fit) \in Nat  BY <1>15
    <3>4. d = droppedCount  BY <1>1, <3>2, <3>3
    <3>5. more = Append(g, fit) /\ more \in Seq(Seq(V))  BY <1>1, <1>15, <2>2
    <3> HIDE DEF d, more
    <3>6. QED  BY <1>21, <3>1, <3>2, <3>4, <3>5
  <2>3. QED  BY <2>1, <2>2
<1> HIDE DEF fs, bs, more
<1>24. RecordTyped'  BY <1>1, <1>6, <1>19, <1>23 DEF RecordTyped, V
<1>25. QED  BY <1>6, <1>20, <1>23, <1>24 DEF RecordIInv

(* Every step keeps the invariant.                                         *)
LEMMA RecordStep == RecordIInv /\ [RecordNext]_recordVars => RecordIInv'
<1> SUFFICES ASSUME RecordIInv, [RecordNext]_recordVars PROVE RecordIInv'  OBVIOUS
<1>1. CASE \E list \in RecordLists : AddAttributes(list)  BY <1>1, ManyAdded
<1>2. CASE \E list \in RecordLists : SetAll(list)  BY <1>2, AllSet
<1>3. CASE \E keys \in SUBSET {MessageKey, TypeKey} : Derive(keys)  BY <1>3, WhatIsMissing
<1>4. CASE UNCHANGED recordVars
  <2>1. /\ countLimit' = countLimit /\ front' = front /\ back' = back
        /\ droppedCount' = droppedCount /\ given' = given
    BY <1>4 DEF recordVars
  <2>2. carried' = carried  BY <2>1 DEF carried
  <2>3. QED  BY <2>1, <2>2 DEF RecordIInv, RecordTyped
<1>5. CASE RecordOver  BY <1>4, <1>5 DEF RecordOver
<1>6. QED  BY <1>1, <1>2, <1>3, <1>4, <1>5 DEF RecordNext

(* The invariant says what the property does.                              *)
LEMMA RecordSays == RecordIInv => RecordAsDefined
<1> SUFFICES ASSUME RecordIInv PROVE RecordAsDefined  OBVIOUS
<1> DEFINE all == FlattenSeq(given)
           keys == UpTo(countLimit, FirstKeys(all))
           lost == [j \in DOMAIN given |-> Cardinality(KeysOf(given[j]) \ ToSet(keys))]
           shown(k) == IF Overwritten(k) THEN LastOf(all, k) ELSE Meant(LastOf(all, k))
<1>1. /\ Shows(countLimit, given, carried) /\ CountsLost(countLimit, given, droppedCount)
      /\ WellFilled(RecordValues, front, back)
  BY DEF RecordIInv, RecordTyped, RecordShows
<1>2. keys = KeptFrom(countLimit, given)  BY DEF KeptFrom
<1>3. lost = LostBy(given, KeptFrom(countLimit, given))  BY <1>2 DEF LostBy
<1>4. droppedCount = MapThenSumSet(LAMBDA j : lost[j], DOMAIN given)
  <2>1. droppedCount = SumOn(lost, DOMAIN given)  BY <1>1, <1>3 DEF CountsLost
  <2> HIDE DEF lost
  <2>2. QED  BY <2>1 DEF SumOn
<1>5. \A k : shown(k) = ShownFor(given, all, k)  BY DEF ShownFor, Overwritten, OverwrittenIn
<1>6. carried = [i \in DOMAIN keys |-> shown(keys[i])]
  <2> HIDE DEF shown, keys
  <2>1. carried = [i \in DOMAIN keys |-> ShownFor(given, all, keys[i])]
    BY <1>1, <1>2 DEF Shows
  <2> HIDE DEF all
  <2>2. QED  BY <1>5, <2>1
<1>7. back # <<>> => Len(front) = Inline  BY <1>1 DEF WellFilled
<1>8. QED  BY <1>4, <1>6, <1>7 DEF RecordAsDefined

(* However a record has come by its attributes, it carries each key once,  *)
(* in the order and with the value it should have, and has counted what    *)
(* did not fit: for any limit, any lists and any size of the array.        *)
THEOREM RecordKeepsGiven == RecordSpec => []RecordAsDefined
<1>1. QED  BY RecordStarts, RecordStep, RecordSays, PTL DEF RecordSpec

===============================================================================
