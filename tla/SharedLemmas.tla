---------------------------- MODULE SharedLemmas ----------------------------
(***************************************************************************)
(* Facts the proofs share: induction over the natural numbers and over     *)
(* finite sets and functions defined by recursion, in a form that needs no *)
(* operator as a parameter, which elements the sequences that a queue goes *)
(* through have, sums, sizes and orders of finite sets, their least and    *)
(* greatest elements, and what folds and lists of lists give.              *)
(***************************************************************************)
EXTENDS Integers, SequencesExt, SequenceTheorems, FiniteSetTheorems, WellFoundedInduction,
        TLAPS

-----------------------------------------------------------------------------
(* Induction and recursion.                                                *)

(* Induction over a set: one that has 0 and the successor of each of its   *)
(* numbers has every natural number.                                       *)
LEMMA SetInduction ==
  ASSUME NEW T, 0 \in T, \A n \in Nat : n \in T => n + 1 \in T
  PROVE  Nat \subseteq T
<1> SUFFICES ASSUME Nat \ T # {} PROVE FALSE
  OBVIOUS
<1>1. \E x \in Nat \ T : \A y \in Nat \ T : ~ (y < x)
  <2> DEFINE R == OpToRel(<, Nat)
  <2>1. IsWellFoundedOn(R, Nat)  BY NatLessThanWellFounded
  <2>2. \A x, y \in Nat : y < x => <<y, x>> \in R  BY DEF OpToRel
  <2> HIDE DEF R
  <2>3. \E x \in Nat \ T : \A y \in Nat \ T : ~ (<<y, x>> \in R)  BY <2>1, WFMin
  <2>4. QED  BY <2>2, <2>3
<1>2. PICK x \in Nat \ T : \A y \in Nat \ T : ~ (y < x)  BY <1>1
<1>3. x - 1 \in Nat /\ x - 1 < x /\ x - 1 \notin T  BY <1>2
<1>4. QED  BY <1>2, <1>3

(* g is the function that starts with z and goes on by step.               *)
Recursion(S, z, step, g) ==
  /\ g \in [Nat -> S] /\ g[0] = z
  /\ \A n \in Nat : g[n + 1] = step[n + 1][g[n]]

(* Such a function exists: the functions that go on for n steps agree.     *)
LEMMA RecursionOnNat ==
  ASSUME NEW S, NEW z \in S, NEW step \in [Nat -> [S -> S]]
  PROVE  \E g : Recursion(S, z, step, g)
<1> DEFINE UpTo(n, g) ==
             /\ g[0] = z
             /\ \A i \in 0..n : i # n => g[i + 1] = step[i + 1][g[i]]
           T == {n \in Nat : \E g \in [0..n -> S] : UpTo(n, g)}
<1>1. 0 \in T
  <2>1. [i \in 0..0 |-> z] \in [0..0 -> S] /\ UpTo(0, [i \in 0..0 |-> z])  OBVIOUS
  <2>2. QED  BY <2>1
<1>2. ASSUME NEW n \in Nat, n \in T PROVE n + 1 \in T
  <2>1. PICK g \in [0..n -> S] : UpTo(n, g)  BY <1>2
  <2> DEFINE h == [i \in 0..n + 1 |-> IF i = n + 1 THEN step[n + 1][g[n]] ELSE g[i]]
  <2>2. n \in 0..n /\ n + 1 \in Nat  OBVIOUS
  <2>3. step[n + 1][g[n]] \in S  BY <2>2
  <2>4. h \in [0..n + 1 -> S]  BY <2>3
  <2>5. \A i \in 0..n : i \in 0..n + 1 /\ i # n + 1  OBVIOUS
  <2>6. (\A i \in 0..n : h[i] = g[i]) /\ h[n + 1] = step[n + 1][g[n]]  BY <2>5
  <2> HIDE DEF h
  <2>7. h[0] = z  BY <2>1, <2>6
  <2>8. ASSUME NEW i \in 0..n PROVE h[i + 1] = step[i + 1][h[i]]
    <3>1. CASE i = n  BY <3>1, <2>6
    <3>2. CASE i # n
      <4>1. i + 1 \in 0..n  BY <3>2
      <4>2. QED  BY <3>2, <4>1, <2>1, <2>6
    <3>3. QED  BY <3>1, <3>2
  <2>9. UpTo(n + 1, h)  BY <2>7, <2>8
  <2>10. QED  BY <2>4, <2>9
<1>3. Nat \subseteq T
  <2> HIDE DEF T
  <2>1. QED  BY <1>1, <1>2, SetInduction
<1>4. \A n \in Nat : \E g \in [0..n -> S] : UpTo(n, g)  BY <1>3
<1> DEFINE part == [n \in Nat |-> CHOOSE g \in [0..n -> S] : UpTo(n, g)]
<1>5. \A n \in Nat : part[n] \in [0..n -> S] /\ UpTo(n, part[n])  BY <1>4
<1> HIDE DEF part
<1>6. ASSUME NEW n \in Nat PROVE part[n + 1][n] = part[n][n]
  <2> DEFINE U == {i \in Nat : i <= n => part[n + 1][i] = part[n][i]}
  <2>1. 0 \in U  BY <1>5
  <2>2. ASSUME NEW i \in Nat, i \in U PROVE i + 1 \in U
    <3> SUFFICES ASSUME i + 1 <= n PROVE part[n + 1][i + 1] = part[n][i + 1]
      OBVIOUS
    <3>1. /\ part[n][i + 1] = step[i + 1][part[n][i]]
          /\ part[n + 1][i + 1] = step[i + 1][part[n + 1][i]]
      BY <1>5
    <3>2. QED  BY <2>2, <3>1
  <2>3. Nat \subseteq U
    <3> HIDE DEF U
    <3>1. QED  BY <2>1, <2>2, SetInduction
  <2>4. QED  BY <2>3
<1> DEFINE g == [n \in Nat |-> part[n][n]]
<1>7. g \in [Nat -> S] /\ g[0] = z  BY <1>5
<1>8. ASSUME NEW n \in Nat PROVE g[n + 1] = step[n + 1][g[n]]
  <2>1. n + 1 \in Nat /\ n \in 0..n + 1 /\ n # n + 1  OBVIOUS
  <2>2. part[n + 1][n + 1] = step[n + 1][part[n + 1][n]]  BY <1>5, <2>1
  <2>3. QED  BY <1>6, <2>1, <2>2
<1>9. Recursion(S, z, step, g)  BY <1>7, <1>8 DEF Recursion
<1>10. QED  BY <1>9

-----------------------------------------------------------------------------
(* Elements of sequences.                                                  *)

(* Appending to a sequence adds one element.                               *)
LEMMA AppendElements ==
  ASSUME NEW S, NEW q \in Seq(S), NEW x \in S
  PROVE  Append(q, x) \in Seq(S) /\ ToSet(Append(q, x)) = ToSet(q) \union {x}
<1>1. /\ Append(q, x) \in Seq(S) /\ Len(Append(q, x)) = Len(q) + 1
      /\ Append(q, x)[Len(q) + 1] = x
      /\ \A i \in 1..Len(q) : Append(q, x)[i] = q[i]
  OBVIOUS
<1>2. DOMAIN q = 1..Len(q) /\ DOMAIN Append(q, x) = 1..Len(q) + 1  BY <1>1
<1>3. ASSUME NEW y \in ToSet(q) \union {x} PROVE y \in ToSet(Append(q, x))
  <2>1. PICK i \in 1..Len(q) + 1 : Append(q, x)[i] = y  BY <1>1, <1>2, <1>3 DEF ToSet
  <2>2. QED  BY <2>1, <1>2 DEF ToSet
<1>4. ToSet(Append(q, x)) \subseteq ToSet(q) \union {x}  BY <1>1, <1>2 DEF ToSet
<1>5. QED  BY <1>1, <1>3, <1>4

(* Concatenation joins the elements.                                       *)
LEMMA ConcatElements ==
  ASSUME NEW S, NEW p \in Seq(S), NEW q \in Seq(S)
  PROVE  ToSet(p \o q) = ToSet(p) \union ToSet(q)
<1>1. ASSUME NEW x \in ToSet(p) \union ToSet(q) PROVE x \in ToSet(p \o q)
  <2>1. CASE x \in ToSet(p)
    <3>1. PICK i \in 1..Len(p) : x = p[i]  BY <2>1 DEF ToSet
    <3>2. i \in 1..Len(p \o q) /\ (p \o q)[i] = x  BY <3>1
    <3>3. QED  BY <3>2 DEF ToSet
  <2>2. CASE x \in ToSet(q)
    <3>1. PICK i \in 1..Len(q) : x = q[i]  BY <2>2 DEF ToSet
    <3>2. Len(p) + i \in 1..Len(p \o q) /\ (p \o q)[Len(p) + i] = x  BY <3>1
    <3>3. QED  BY <3>2 DEF ToSet
  <2>3. QED  BY <1>1, <2>1, <2>2
<1>2. ASSUME NEW x \in ToSet(p \o q) PROVE x \in ToSet(p) \union ToSet(q)
  BY <1>2 DEF ToSet
<1>3. QED  BY <1>1, <1>2

(* Taking the head off a non-empty sequence takes one element off.         *)
LEMMA TailElements ==
  ASSUME NEW S, NEW q \in Seq(S), q # <<>>
  PROVE  /\ Head(q) \in S /\ Tail(q) \in Seq(S) /\ Len(Tail(q)) = Len(q) - 1
         /\ ToSet(q) = {Head(q)} \union ToSet(Tail(q))
<1>1. Head(q) = q[1] /\ Tail(q) \in Seq(S) /\ Len(Tail(q)) = Len(q) - 1  OBVIOUS
<1>2. /\ DOMAIN q = 1..Len(q) /\ DOMAIN Tail(q) = 1..Len(q) - 1
      /\ \A i \in 1..Len(q) - 1 : Tail(q)[i] = q[i + 1]
  BY <1>1
<1>3. ASSUME NEW x \in ToSet(q) PROVE x \in {Head(q)} \union ToSet(Tail(q))
  <2>1. PICK i \in 1..Len(q) : x = q[i]  BY <1>3 DEF ToSet
  <2>2. CASE i = 1  BY <2>1, <2>2, <1>1
  <2>3. CASE i # 1
    <3>1. i - 1 \in DOMAIN Tail(q) /\ Tail(q)[i - 1] = x  BY <2>1, <2>3, <1>1, <1>2
    <3>2. QED  BY <3>1, <1>1 DEF ToSet
  <2>4. QED  BY <2>2, <2>3
<1>4. ToSet(Tail(q)) \subseteq ToSet(q)  BY <1>1, <1>2 DEF ToSet
<1>5. Head(q) \in ToSet(q)  BY <1>1 DEF ToSet
<1>6. QED  BY <1>1, <1>3, <1>4, <1>5

(* The two parts of a concatenation.                                       *)
LEMMA SplitConcat ==
  ASSUME NEW S, NEW p \in Seq(S), NEW q \in Seq(S)
  PROVE  /\ Len(p) \in Nat /\ Len(p) <= Len(p \o q)
         /\ SubSeq(p \o q, 1, Len(p)) = p
         /\ SubSeq(p \o q, Len(p) + 1, Len(p \o q)) = q
<1> DEFINE r == p \o q
<1>1. /\ r \in Seq(S) /\ Len(r) = Len(p) + Len(q)
      /\ \A i \in 1..Len(p) : r[i] = p[i]
      /\ \A i \in 1..Len(q) : r[Len(p) + i] = q[i]
  OBVIOUS
<1>2. Len(p) \in Nat /\ Len(q) \in Nat  OBVIOUS
<1> HIDE DEF r
<1>3. SubSeq(r, 1, Len(p)) = p
  <2>1. /\ SubSeq(r, 1, Len(p)) \in Seq(S) /\ Len(SubSeq(r, 1, Len(p))) = Len(p)
        /\ \A i \in 1..Len(p) : SubSeq(r, 1, Len(p))[i] = r[i]
    BY <1>1, <1>2
  <2>2. QED  BY <1>1, <2>1, SeqEqual
<1>4. SubSeq(r, Len(p) + 1, Len(r)) = q
  <2>1. /\ SubSeq(r, Len(p) + 1, Len(r)) \in Seq(S)
        /\ Len(SubSeq(r, Len(p) + 1, Len(r))) = Len(q)
        /\ \A i \in 1..Len(q) : SubSeq(r, Len(p) + 1, Len(r))[i] = r[Len(p) + i]
    BY <1>1, <1>2
  <2>2. QED  BY <1>1, <2>1, SeqEqual
<1>5. QED  BY <1>1, <1>2, <1>3, <1>4 DEF r

(* The first k elements of a sequence and the others: together they are    *)
(* the sequence, and one without repetitions has no element in both.       *)
Splits(S, q, k, front, rest) ==
  /\ front \in Seq(S) /\ Len(front) = k
  /\ rest \in Seq(S) /\ Len(rest) = Len(q) - k
  /\ q = front \o rest
  /\ ToSet(q) = ToSet(front) \union ToSet(rest)
  /\ IsInjective(q) => /\ IsInjective(front) /\ IsInjective(rest)
                       /\ ToSet(front) \intersect ToSet(rest) = {}

LEMMA FrontAndRest ==
  ASSUME NEW S, NEW q \in Seq(S), NEW k \in 0..Len(q)
  PROVE  Splits(S, q, k, SubSeq(q, 1, k), SubSeq(q, k + 1, Len(q)))
<1> DEFINE front == SubSeq(q, 1, k)
           rest == SubSeq(q, k + 1, Len(q))
<1>1. Len(q) \in Nat /\ k \in Nat /\ k <= Len(q)  OBVIOUS
<1>2. /\ front \in Seq(S) /\ Len(front) = k
      /\ \A i \in 1..k : front[i] = q[i]
  OBVIOUS
<1>3. /\ rest \in Seq(S) /\ Len(rest) = Len(q) - k
      /\ \A i \in 1..Len(q) - k : rest[i] = q[k + i]
  OBVIOUS
<1>4. DOMAIN q = 1..Len(q) /\ DOMAIN front = 1..k /\ DOMAIN rest = 1..Len(q) - k
  BY <1>2, <1>3
<1> HIDE DEF front, rest
<1>5. q = front \o rest
  <2>1. /\ front \o rest \in Seq(S) /\ Len(front \o rest) = Len(q)
        /\ \A i \in 1..Len(q) : (front \o rest)[i] = IF i <= k THEN front[i] ELSE rest[i - k]
    BY <1>1, <1>2, <1>3, ConcatProperties
  <2>2. ASSUME NEW i \in 1..Len(q) PROVE (front \o rest)[i] = q[i]
    <3>1. CASE i <= k  BY <1>1, <1>2, <2>1, <3>1
    <3>2. CASE ~(i <= k)
      <4>1. i - k \in 1..Len(q) - k /\ k + (i - k) = i  BY <1>1, <3>2
      <4>2. QED  BY <1>3, <2>1, <3>2, <4>1
    <3>3. QED  BY <3>1, <3>2
  <2>3. QED  BY <2>1, <2>2, SeqEqual
<1>6. ToSet(q) = ToSet(front) \union ToSet(rest)  BY <1>2, <1>3, <1>5, ConcatElements
<1>7. ASSUME IsInjective(q)
      PROVE  IsInjective(front) /\ IsInjective(rest) /\ ToSet(front) \intersect ToSet(rest) = {}
  <2>1. \A i, j \in 1..Len(q) : q[i] = q[j] => i = j  BY <1>4, <1>7 DEF IsInjective
  <2>2. IsInjective(front)
    <3>1. \A i \in 1..k : i \in 1..Len(q)  BY <1>1
    <3>2. QED  BY <1>2, <1>4, <2>1, <3>1 DEF IsInjective
  <2>3. \A i \in 1..Len(q) - k : k + i \in 1..Len(q)  BY <1>1
  <2>4. IsInjective(rest)
    <3>1. ASSUME NEW i \in 1..Len(q) - k, NEW j \in 1..Len(q) - k, rest[i] = rest[j]
          PROVE  i = j
      <4>1. k + i = k + j  BY <1>3, <2>1, <2>3, <3>1
      <4>2. QED  BY <1>1, <4>1
    <3>2. QED  BY <1>4, <3>1 DEF IsInjective
  <2>5. ASSUME NEW i \in 1..k, NEW j \in 1..Len(q) - k PROVE front[i] # rest[j]
    <3>1. i \in 1..Len(q) /\ i # k + j  BY <1>1
    <3>2. QED  BY <1>2, <1>3, <2>1, <2>3, <3>1
  <2>6. QED  BY <1>4, <2>2, <2>4, <2>5 DEF ToSet
<1>8. Splits(S, q, k, front, rest)  BY <1>2, <1>3, <1>5, <1>6, <1>7 DEF Splits
<1>9. QED  BY <1>8 DEF front, rest

(* Sequences without repetitions and without a common element, joined.     *)
LEMMA ConcatInjective ==
  ASSUME NEW S, NEW p \in Seq(S), NEW q \in Seq(S),
         IsInjective(p), IsInjective(q), ToSet(p) \intersect ToSet(q) = {}
  PROVE  IsInjective(p \o q)
<1> DEFINE r == p \o q
<1>1. /\ Len(p) \in Nat /\ Len(q) \in Nat
      /\ DOMAIN p = 1..Len(p) /\ DOMAIN q = 1..Len(q) /\ DOMAIN r = 1..Len(p) + Len(q)
  OBVIOUS
<1>2. \A i \in 1..Len(p) : r[i] = p[i] /\ r[i] \in ToSet(p)  BY DEF ToSet
<1>3. \A i \in 1..Len(q) : r[Len(p) + i] = q[i] /\ q[i] \in ToSet(q)  BY DEF ToSet
<1> HIDE DEF r
<1>4. ASSUME NEW i \in 1..Len(p) + Len(q), NEW j \in 1..Len(p) + Len(q), r[i] = r[j]
      PROVE  i = j
  <2>1. ASSUME NEW a \in 1..Len(p) + Len(q), ~(a <= Len(p))
        PROVE  /\ a - Len(p) \in 1..Len(q)
               /\ r[a] = q[a - Len(p)] /\ r[a] \in ToSet(q) /\ r[a] \notin ToSet(p)
    <3>1. a - Len(p) \in 1..Len(q) /\ Len(p) + (a - Len(p)) = a  BY <1>1, <2>1
    <3>2. r[a] = q[a - Len(p)] /\ r[a] \in ToSet(q)  BY <1>3, <3>1
    <3>3. QED  BY <3>1, <3>2
  <2>2. CASE i <= Len(p)
    <3>1. i \in 1..Len(p)  BY <1>1, <2>2
    <3>2. CASE j <= Len(p)
      <4>1. j \in 1..Len(p)  BY <1>1, <3>2
      <4>2. QED  BY <1>1, <1>2, <1>4, <3>1, <4>1 DEF IsInjective
    <3>3. CASE ~(j <= Len(p))  BY <1>2, <1>4, <2>1, <3>1, <3>3
    <3>4. QED  BY <3>2, <3>3
  <2>3. CASE ~(i <= Len(p))
    <3>1. CASE j <= Len(p)
      <4>1. j \in 1..Len(p)  BY <1>1, <3>1
      <4>2. QED  BY <1>2, <1>4, <2>1, <2>3, <4>1
    <3>2. CASE ~(j <= Len(p))
      <4>1. i - Len(p) = j - Len(p)  BY <1>1, <1>4, <2>1, <2>3, <3>2 DEF IsInjective
      <4>2. QED  BY <1>1, <4>1
    <3>3. QED  BY <3>1, <3>2
  <2>4. QED  BY <2>2, <2>3
<1>5. QED  BY <1>1, <1>4 DEF IsInjective, r

(* An element at the end of the second of two sequences is at the end of   *)
(* both.                                                                   *)
LEMMA ConcatAppend ==
  ASSUME NEW S, NEW p \in Seq(S), NEW q \in Seq(S), NEW x \in S
  PROVE  p \o (q \o <<x>>) = Append(p \o q, x)
<1>1. <<x>> \in Seq(S)  OBVIOUS
<1>2. p \o q \in Seq(S)  BY ConcatProperties
<1>3. Append(p \o q, x) = (p \o q) \o <<x>>  BY <1>2, AppendIsConcat
<1> DEFINE new == <<x>>
<1>4. new \in Seq(S)  BY <1>1
<1> HIDE DEF new
<1>5. (p \o q) \o new = p \o (q \o new)  BY <1>4, ConcatAssociative
<1>6. QED  BY <1>3, <1>5 DEF new

(* Removing the first element of the second of two sequences.              *)
LEMMA RemoveFirstOfSecond ==
  ASSUME NEW S, NEW p \in Seq(S), NEW q \in Seq(S), q # <<>>
  PROVE  /\ Len(p) + 1 \in DOMAIN (p \o q)
         /\ RemoveAt(p \o q, Len(p) + 1) = p \o Tail(q)
<1> DEFINE first == <<Head(q)>>
           rest == Tail(q)
<1>1. /\ Len(p) \in Nat /\ Len(q) \in Nat /\ Len(q) # 0
      /\ Head(q) \in S /\ rest \in Seq(S) /\ Len(rest) = Len(q) - 1
  BY HeadTailProperties
<1>2. first \in Seq(S) /\ Len(first) = 1  BY <1>1
<1>3. q = first \o rest
  <2>1. /\ first \o rest \in Seq(S) /\ Len(first \o rest) = Len(q)
        /\ \A i \in 1..Len(q) : (first \o rest)[i] = q[i]
    BY <1>1
  <2>2. QED  BY <2>1, SeqEqual
<1> HIDE DEF first, rest
<1>4. p \o q = (p \o first) \o rest  BY <1>1, <1>2, <1>3, ConcatAssociative
<1>5. p \o first \in Seq(S) /\ Len(p \o first) = Len(p) + 1
  <2>1. first \in Seq(S)  BY <1>2
  <2>2. p \o first \in Seq(S) /\ Len(p \o first) = Len(p) + Len(first)
    BY <2>1, ConcatProperties
  <2>3. QED  BY <1>2, <2>2
<1>6. SubSeq(p \o q, (Len(p) + 1) + 1, Len(p \o q)) = rest
  <2> DEFINE front == p \o first
  <2>1. front \in Seq(S) /\ rest \in Seq(S)  BY <1>1, <1>5
  <2>2. p \o q = front \o rest /\ Len(front) = Len(p) + 1  BY <1>4, <1>5
  <2> HIDE DEF front
  <2>3. SubSeq(front \o rest, Len(front) + 1, Len(front \o rest)) = rest
    BY <2>1, SplitConcat
  <2>4. QED  BY <2>2, <2>3
<1>7. SubSeq(p \o q, 1, (Len(p) + 1) - 1) = p
  <2>1. SubSeq(p \o q, 1, Len(p)) = p  BY SplitConcat
  <2>2. (Len(p) + 1) - 1 = Len(p)  BY <1>1
  <2>3. QED  BY <2>1, <2>2
<1>8. RemoveAt(p \o q, Len(p) + 1) = p \o rest  BY <1>6, <1>7 DEF RemoveAt
<1>9. Len(p) + 1 \in DOMAIN (p \o q)
  <2>1. p \o q \in Seq(S) /\ Len(p \o q) = Len(p) + Len(q)  BY ConcatProperties
  <2>2. Len(p) + 1 \in 1..Len(p \o q)  BY <1>1, <2>1
  <2>3. QED  BY <2>1, <2>2, LenProperties
<1>10. QED  BY <1>8, <1>9 DEF rest

-----------------------------------------------------------------------------
(* Sums over finite sets.                                                  *)

(* Induction over a finite set: what holds of a set if it holds of the     *)
(* set without any one of its elements holds of all of it.                 *)
LEMMA FiniteInduction ==
  ASSUME NEW S, IsFiniteSet(S), NEW F,
         \A U \in SUBSET S : (\A x \in U : U \ {x} \in F) => U \in F
  PROVE  S \in F
<1> DEFINE T == {n \in Nat : \A U \in SUBSET S : Cardinality(U) = n => U \in F}
<1>1. \A U \in SUBSET S : IsFiniteSet(U) /\ Cardinality(U) \in Nat
  BY FS_Subset, FS_CardinalityType
<1>2. 0 \in T
  <2>1. ASSUME NEW U \in SUBSET S, Cardinality(U) = 0 PROVE U \in F
    <3>1. U = {}  BY <1>1, <2>1, FS_EmptySet
    <3>2. QED  BY <3>1
  <2>2. QED  BY <2>1
<1>3. ASSUME NEW n \in Nat, n \in T PROVE n + 1 \in T
  <2>1. ASSUME NEW U \in SUBSET S, Cardinality(U) = n + 1 PROVE U \in F
    <3>1. ASSUME NEW x \in U PROVE U \ {x} \in F
      <4>1. Cardinality(U \ {x}) = n  BY <1>1, <2>1, FS_RemoveElement
      <4>2. QED  BY <1>3, <4>1
    <3>2. QED  BY <3>1
  <2>2. QED  BY <2>1
<1> HIDE DEF T
<1>4. Nat \subseteq T  BY <1>2, <1>3, SetInduction
<1>5. Cardinality(S) \in T  BY <1>1, <1>4
<1>6. QED  BY <1>5 DEF T

(* The sum of f over S, and what the fold computes: a function on the      *)
(* subsets of S that takes the elements in the order of their choice.      *)
SumOn(f, S) == MapThenSumSet(LAMBDA x : f[x], S)

Chosen(s) == CHOOSE x \in s : TRUE

Summing(U, f, g) ==
  g = [s \in SUBSET U |-> IF s = {} THEN 0 ELSE f[Chosen(s)] + g[s \ {Chosen(s)}]]

LEMMA SumUnfolded ==
  ASSUME NEW f, NEW S
  PROVE  SumOn(f, S) = (CHOOSE g : Summing(S, f, g))[S]
BY DEF SumOn, MapThenSumSet, MapThenFoldSet, Summing, Chosen

(* A sum that may take any element first.                                  *)
AnyOrder(U, f, g) ==
  /\ g \in [SUBSET U -> Int] /\ g[{}] = 0
  /\ \A s \in SUBSET U : \A x \in s : g[s] = f[x] + g[s \ {x}]

LEMMA AnyOrderExists ==
  ASSUME NEW S, IsFiniteSet(S), NEW f, \A x \in S : f[x] \in Int
  PROVE  \E g : AnyOrder(S, f, g)
<1> DEFINE F == {U \in SUBSET S : \E g : AnyOrder(U, f, g)}
<1>1. ASSUME NEW U \in SUBSET S, \A x \in U : U \ {x} \in F PROVE U \in F
  <2>1. CASE U = {}
    <3>1. AnyOrder(U, f, [s \in SUBSET {} |-> 0])  BY <2>1 DEF AnyOrder
    <3>2. QED  BY <3>1
  <2>2. CASE U # {}
    <3>1. PICK x \in U : TRUE  BY <2>2
    <3>2. PICK g : AnyOrder(U \ {x}, f, g)  BY <1>1
    <3> DEFINE h == [s \in SUBSET U |-> IF x \in s THEN f[x] + g[s \ {x}] ELSE g[s]]
    <3>3. \A s \in SUBSET U : s \ {x} \in SUBSET (U \ {x}) /\ g[s \ {x}] \in Int
      BY <3>2 DEF AnyOrder
    <3>4. \A s \in SUBSET U : h[s] = IF x \in s THEN f[x] + g[s \ {x}] ELSE g[s \ {x}]
      <4>1. \A s \in SUBSET U : x \notin s => s \ {x} = s  OBVIOUS
      <4>2. QED  BY <4>1
    <3>5. h \in [SUBSET U -> Int]
      <4>1. f[x] \in Int  OBVIOUS
      <4>2. \A s \in SUBSET U : h[s] \in Int
        <5> HIDE DEF h
        <5>1. SUFFICES ASSUME NEW s \in SUBSET U PROVE h[s] \in Int
          OBVIOUS
        <5>2. g[s \ {x}] \in Int  BY <3>3
        <5>3. CASE x \in s
          <6>1. h[s] = f[x] + g[s \ {x}]  BY <5>3, <3>4
          <6>2. QED  BY <4>1, <5>2, <6>1
        <5>4. CASE x \notin s
          BY <5>2, <5>4, <3>4
        <5>5. QED  BY <5>3, <5>4
      <4>3. QED  BY <4>2
    <3> HIDE DEF h
    <3>6. h[{}] = 0
      <4>1. {} \in SUBSET U /\ {} \ {x} = {}  OBVIOUS
      <4>2. QED  BY <4>1, <3>2, <3>4 DEF AnyOrder
    <3>7. ASSUME NEW s \in SUBSET U, NEW y \in s PROVE h[s] = f[y] + h[s \ {y}]
      <4>1. s \ {y} \in SUBSET U  OBVIOUS
      <4>2. CASE y = x
        <5>1. (s \ {y}) \ {x} = s \ {x}  BY <4>2
        <5>2. QED  BY <4>1, <4>2, <5>1, <3>4
      <4>3. CASE y # x
        <5>1. (s \ {y}) \ {x} = (s \ {x}) \ {y} /\ y \in s \ {x}  BY <4>3
        <5>2. g[s \ {x}] = f[y] + g[(s \ {x}) \ {y}]
          BY <3>2, <3>3, <5>1 DEF AnyOrder
        <5>3. g[(s \ {x}) \ {y}] \in Int  BY <3>3, <4>1, <5>1
        <5>4. f[x] \in Int /\ f[y] \in Int /\ (x \in s <=> x \in s \ {y})  BY <4>3
        <5>5. h[s \ {y}] = IF x \in s THEN f[x] + g[(s \ {x}) \ {y}] ELSE g[(s \ {x}) \ {y}]
          BY <4>1, <5>1, <5>4, <3>4
        <5>6. QED  BY <5>2, <5>3, <5>4, <5>5, <3>4
      <4>4. QED  BY <4>2, <4>3
    <3>8. AnyOrder(U, f, h)  BY <3>5, <3>6, <3>7 DEF AnyOrder
    <3>9. QED  BY <3>8
  <2>3. QED  BY <2>1, <2>2
<1> HIDE DEF F
<1>2. S \in F  BY <1>1, FiniteInduction
<1>3. QED  BY <1>2 DEF F

LEMMA SumInAnyOrder ==
  ASSUME NEW S, IsFiniteSet(S), NEW f, \A x \in S : f[x] \in Int,
         NEW g, AnyOrder(S, f, g)
  PROVE  SumOn(f, S) = g[S]
<1>1. Summing(S, f, g)
  <2>1. \A s \in SUBSET S : s # {} => Chosen(s) \in s  BY DEF Chosen
  <2>2. \A s \in SUBSET S :
          g[s] = IF s = {} THEN 0 ELSE f[Chosen(s)] + g[s \ {Chosen(s)}]
    BY <2>1 DEF AnyOrder
  <2>3. QED  BY <2>2 DEF Summing, AnyOrder
<1> DEFINE h == CHOOSE k : Summing(S, f, k)
<1>2. Summing(S, f, h)  BY <1>1
<1> HIDE DEF h
<1> DEFINE F == {U \in SUBSET S : h[U] = g[U]}
<1>3. ASSUME NEW U \in SUBSET S, \A x \in U : U \ {x} \in F PROVE U \in F
  <2>1. h[U] = IF U = {} THEN 0 ELSE f[Chosen(U)] + h[U \ {Chosen(U)}]
    BY <1>2 DEF Summing
  <2>2. g[U] = IF U = {} THEN 0 ELSE f[Chosen(U)] + g[U \ {Chosen(U)}]
    BY <1>1 DEF Summing
  <2>3. U # {} => Chosen(U) \in U  BY DEF Chosen
  <2>4. QED  BY <1>3, <2>1, <2>2, <2>3
<1> HIDE DEF F
<1>4. S \in F  BY <1>3, FiniteInduction
<1>5. QED  BY <1>4, SumUnfolded DEF F, h

LEMMA SumType ==
  ASSUME NEW S, IsFiniteSet(S), NEW f, \A x \in S : f[x] \in Int
  PROVE  SumOn(f, S) \in Int
<1>1. PICK g : AnyOrder(S, f, g)  BY AnyOrderExists
<1>2. S \in SUBSET S  OBVIOUS
<1>3. g[S] \in Int  BY <1>1, <1>2 DEF AnyOrder
<1>4. QED  BY <1>1, <1>3, SumInAnyOrder

(* A sum over nothing, with one more element, and over two disjoint sets.  *)
LEMMA SumOfNone ==
  ASSUME NEW f PROVE SumOn(f, {}) = 0
<1>1. IsFiniteSet({})  BY FS_EmptySet
<1>2. AnyOrder({}, f, [s \in SUBSET {} |-> 0])  BY DEF AnyOrder
<1>3. QED  BY <1>1, <1>2, SumInAnyOrder

LEMMA SumWithOneMore ==
  ASSUME NEW S, IsFiniteSet(S), NEW x, x \notin S,
         NEW f, \A y \in S \union {x} : f[y] \in Int
  PROVE  SumOn(f, S \union {x}) = SumOn(f, S) + f[x]
<1>1. IsFiniteSet(S \union {x})  BY FS_AddElement
<1>2. PICK g : AnyOrder(S \union {x}, f, g)  BY <1>1, AnyOrderExists
<1>3. SumOn(f, S \union {x}) = g[S \union {x}]  BY <1>1, <1>2, SumInAnyOrder
<1> DEFINE h == [s \in SUBSET S |-> g[s]]
<1>4. AnyOrder(S, f, h)
  <2>1. \A s \in SUBSET S : s \in SUBSET (S \union {x}) /\ h[s] = g[s]  OBVIOUS
  <2>2. h \in [SUBSET S -> Int] /\ h[{}] = 0  BY <1>2, <2>1 DEF AnyOrder
  <2>3. \A s \in SUBSET S : \A y \in s : h[s] = f[y] + h[s \ {y}]
    <3>1. \A s \in SUBSET S : \A y \in s : s \ {y} \in SUBSET S  OBVIOUS
    <3> HIDE DEF h
    <3>2. QED  BY <1>2, <2>1, <3>1 DEF AnyOrder
  <2>4. QED  BY <2>2, <2>3 DEF AnyOrder
<1>5. h[S] = g[S] /\ g[S] \in Int
  <2>1. S \in SUBSET S /\ S \in SUBSET (S \union {x})  OBVIOUS
  <2>2. QED  BY <1>2, <2>1 DEF AnyOrder
<1> HIDE DEF h
<1>6. SumOn(f, S) = g[S]  BY <1>4, <1>5, SumInAnyOrder
<1>7. g[S \union {x}] = f[x] + g[S]
  <2>1. (S \union {x}) \ {x} = S  OBVIOUS
  <2>2. QED  BY <1>2, <2>1 DEF AnyOrder
<1>8. QED  BY <1>3, <1>5, <1>6, <1>7

LEMMA SumOfDisjoint ==
  ASSUME NEW S, IsFiniteSet(S), NEW T, IsFiniteSet(T), S \intersect T = {},
         NEW f, \A y \in S \union T : f[y] \in Int
  PROVE  SumOn(f, S \union T) = SumOn(f, S) + SumOn(f, T)
<1>1. SumOn(f, S) \in Int  BY SumType
<1> DEFINE F == {U \in SUBSET T : SumOn(f, S \union U) = SumOn(f, S) + SumOn(f, U)}
<1>2. ASSUME NEW U \in SUBSET T, \A x \in U : U \ {x} \in F PROVE U \in F
  <2>1. CASE U = {}
    BY <1>1, <2>1, SumOfNone
  <2>2. CASE U # {}
    <3>1. PICK x \in U : TRUE  BY <2>2
    <3> DEFINE V == U \ {x}
    <3>2. IsFiniteSet(V) /\ IsFiniteSet(S \union V)
      BY FS_Subset, FS_Union
    <3>3. x \notin V /\ x \notin S \union V /\ U = V \union {x}
          /\ S \union U = (S \union V) \union {x}
      BY <3>1
    <3>4. \A y \in (S \union V) \union {x} : f[y] \in Int  OBVIOUS
    <3>5. SumOn(f, S \union V) = SumOn(f, S) + SumOn(f, V)  BY <1>2
    <3> HIDE DEF V
    <3>6. SumOn(f, V) \in Int /\ SumOn(f, V \union {x}) = SumOn(f, V) + f[x]
      BY <3>2, <3>3, <3>4, SumType, SumWithOneMore
    <3>7. SumOn(f, (S \union V) \union {x}) = SumOn(f, S \union V) + f[x]
      BY <3>2, <3>3, <3>4, SumWithOneMore
    <3>8. f[x] \in Int  BY <3>4
    <3>9. SumOn(f, S \union U) = SumOn(f, S \union V) + f[x]  BY <3>3, <3>7
    <3>10. SumOn(f, U) = SumOn(f, V) + f[x]  BY <3>3, <3>6
    <3>11. SumOn(f, S \union U) = SumOn(f, S) + SumOn(f, U)
      BY <1>1, <3>5, <3>6, <3>8, <3>9, <3>10
    <3>12. QED  BY <3>11
  <2>3. QED  BY <2>1, <2>2
<1> HIDE DEF F
<1>3. T \in F  BY <1>2, FiniteInduction
<1>4. QED  BY <1>3 DEF F

(* A sum of natural numbers is one.                                        *)
LEMMA SumNat ==
  ASSUME NEW S, IsFiniteSet(S), NEW f, \A x \in S : f[x] \in Nat
  PROVE  SumOn(f, S) \in Nat
<1> DEFINE F == {U \in SUBSET S : SumOn(f, U) \in Nat}
<1>1. ASSUME NEW U \in SUBSET S, \A x \in U : U \ {x} \in F PROVE U \in F
  <2>1. CASE U = {}  BY <2>1, SumOfNone
  <2>2. CASE U # {}
    <3>1. PICK x \in U : TRUE  BY <2>2
    <3> DEFINE V == U \ {x}
    <3>2. IsFiniteSet(V)  BY FS_Subset
    <3>3. x \notin V /\ V \union {x} = U /\ (\A y \in V \union {x} : f[y] \in Int)
      BY <3>1
    <3>4. SumOn(f, V) \in Nat  BY <1>1, <3>1
    <3> HIDE DEF V
    <3>5. SumOn(f, V \union {x}) = SumOn(f, V) + f[x]  BY <3>2, <3>3, SumWithOneMore
    <3>6. f[x] \in Nat  BY <3>1
    <3>7. SumOn(f, V \union {x}) \in Nat  BY <3>4, <3>5, <3>6
    <3>8. QED  BY <3>3, <3>7
  <2>3. QED  BY <2>1, <2>2
<1> HIDE DEF F
<1>2. S \in F  BY <1>1, FiniteInduction
<1>3. QED  BY <1>2 DEF F

(* A sum of natural numbers does not fall when more are added.             *)
LEMMA SumMonotone ==
  ASSUME NEW T, IsFiniteSet(T), NEW S \in SUBSET T, NEW f, \A x \in T : f[x] \in Nat
  PROVE  IsFiniteSet(S) /\ SumOn(f, S) \in Nat /\ SumOn(f, T) \in Nat
         /\ SumOn(f, S) <= SumOn(f, T)
<1> DEFINE R == T \ S
<1>1. IsFiniteSet(S) /\ IsFiniteSet(R)  BY FS_Subset
<1>2. S \intersect R = {} /\ S \union R = T /\ (\A x \in S \union R : f[x] \in Int)
      /\ (\A x \in S : f[x] \in Nat) /\ (\A x \in R : f[x] \in Nat)
  OBVIOUS
<1> HIDE DEF R
<1>3. SumOn(f, S \union R) = SumOn(f, S) + SumOn(f, R)  BY <1>1, <1>2, SumOfDisjoint
<1>4. SumOn(f, S) \in Nat /\ SumOn(f, R) \in Nat  BY <1>1, <1>2, SumNat
<1>5. SumOn(f, T) = SumOn(f, S) + SumOn(f, R)  BY <1>2, <1>3
<1>6. QED  BY <1>1, <1>4, <1>5

-----------------------------------------------------------------------------
(* Least and greatest elements.                                            *)

(* A finite set of integers has them, and nothing else is one.             *)
LEMMA Extremes ==
  ASSUME NEW S, IsFiniteSet(S), S \subseteq Int, S # {}
  PROVE  /\ Max(S) \in S /\ \A y \in S : y <= Max(S)
         /\ Min(S) \in S /\ \A y \in S : Min(S) <= y
<1> DEFINE Top(U, x) == x \in U /\ \A y \in U : y <= x
           Bottom(U, x) == x \in U /\ \A y \in U : x <= y
           F == {U \in SUBSET S : U = {} \/ ((\E x \in S : Top(U, x)) /\ \E x \in S : Bottom(U, x))}
<1>1. ASSUME NEW U \in SUBSET S, \A x \in U : U \ {x} \in F PROVE U \in F
  <2>1. CASE U = {}  BY <2>1
  <2>2. CASE U # {}
    <3>1. PICK z \in U : TRUE  BY <2>2
    <3>2. z \in Int /\ \A y \in U : y \in Int  OBVIOUS
    <3>3. CASE U \ {z} = {}
      <4>1. Top(U, z) /\ Bottom(U, z)  BY <3>1, <3>2, <3>3
      <4>2. QED  BY <4>1
    <3>4. CASE U \ {z} # {}
      <4>1. PICK t \in S, b \in S : Top(U \ {z}, t) /\ Bottom(U \ {z}, b)  BY <1>1, <3>1, <3>4
      <4>2. Top(U, IF t <= z THEN z ELSE t)  BY <3>1, <3>2, <4>1
      <4>3. Bottom(U, IF z <= b THEN z ELSE b)  BY <3>1, <3>2, <4>1
      <4>4. QED  BY <4>2, <4>3
    <3>5. QED  BY <3>3, <3>4
  <2>3. QED  BY <2>1, <2>2
<1> HIDE DEF F
<1>2. S \in F  BY <1>1, FiniteInduction
<1>3. (\E x \in S : \A y \in S : y <= x) /\ \E x \in S : \A y \in S : x <= y  BY <1>2 DEF F
<1>4. (\E x \in S : \A y \in S : x >= y)  BY <1>3
<1>5. Max(S) \in S /\ \A y \in S : Max(S) >= y  BY <1>4 DEF Max
<1>6. Min(S) \in S /\ \A y \in S : Min(S) =< y  BY <1>3 DEF Min
<1>7. QED  BY <1>5, <1>6

(* An element that no other exceeds is the greatest.                       *)
LEMMA MaxIs ==
  ASSUME NEW S, S \subseteq Int, NEW x \in S, \A y \in S : y <= x
  PROVE  Max(S) = x
<1> DEFINE m == Max(S)
<1>1. m \in S /\ \A y \in S : m >= y  BY DEF Max
<1> HIDE DEF m
<1>2. m \in Int /\ x \in Int /\ m >= x  BY <1>1
<1>3. m = x  BY <1>1, <1>2
<1>4. QED  BY <1>3 DEF m

(* An element that exceeds no other is the least.                          *)
LEMMA MinIs ==
  ASSUME NEW S, S \subseteq Int, NEW x \in S, \A y \in S : x <= y
  PROVE  Min(S) = x
<1> DEFINE m == Min(S)
<1>1. m \in S /\ \A y \in S : m =< y  BY DEF Min
<1> HIDE DEF m
<1>2. m \in Int /\ x \in Int /\ m =< x  BY <1>1
<1>3. m = x  BY <1>1, <1>2
<1>4. QED  BY <1>3 DEF m

(* The least of two integers.                                              *)
LEMMA MinOfTwo ==
  ASSUME NEW x \in Int, NEW y \in Int
  PROVE  Min({x, y}) = IF x <= y THEN x ELSE y
<1>1. CASE x <= y  BY <1>1, MinIs
<1>2. CASE ~(x <= y)  BY <1>2, MinIs
<1>3. QED  BY <1>1, <1>2

(* The greater of two numbers.                                             *)
LEMMA MaxOfTwo ==
  ASSUME NEW a \in Int, NEW b \in Int
  PROVE  Max({a, b}) = IF a <= b THEN b ELSE a
<1> DEFINE S == {a, b}
           m == IF a <= b THEN b ELSE a
<1>1. S \subseteq Int /\ m \in S /\ \A y \in S : y <= m  OBVIOUS
<1> HIDE DEF S, m
<1>2. Max(S) = m  BY <1>1, MaxIs
<1>3. QED  BY <1>2 DEF S, m

-----------------------------------------------------------------------------
(* Orders of finite sets.                                                  *)

(* R puts the elements of S in a line; below are those before one.         *)
InLine(S, R) ==
  /\ \A x \in S : <<x, x>> \notin R
  /\ \A x, y, z \in S : <<x, y>> \in R /\ <<y, z>> \in R => <<x, z>> \in R
  /\ \A x, y \in S : x # y => <<x, y>> \in R \/ <<y, x>> \in R

Below(S, R, x) == {y \in S : <<y, x>> \in R}

(* The numbers of elements below tell where each one is, and every place   *)
(* is somebody's.                                                          *)
LEMMA PlacesInLine ==
  ASSUME NEW S, IsFiniteSet(S), NEW R, InLine(S, R)
  PROVE  /\ \A x \in S : Cardinality(Below(S, R, x)) \in 0..(Cardinality(S) - 1)
         /\ \A x, y \in S : <<x, y>> \in R =>
              Cardinality(Below(S, R, x)) < Cardinality(Below(S, R, y))
         /\ \A p \in 1..Cardinality(S) : \E x \in S : Cardinality(Below(S, R, x)) = p - 1
<1> DEFINE n == Cardinality(S)
           r(x) == Cardinality(Below(S, R, x))
<1>1. n \in Nat  BY FS_CardinalityType
<1>2. ASSUME NEW x \in S PROVE IsFiniteSet(Below(S, R, x)) /\ r(x) \in Nat /\ r(x) <= n - 1
  <2>1. Below(S, R, x) \subseteq S \ {x}  BY DEF Below, InLine
  <2>2. IsFiniteSet(S \ {x}) /\ Cardinality(S \ {x}) = n - 1  BY FS_RemoveElement
  <2>3. IsFiniteSet(Below(S, R, x)) /\ Cardinality(Below(S, R, x)) <= n - 1
    BY <2>1, <2>2, FS_Subset
  <2>4. QED  BY <2>3, FS_CardinalityType
<1>3. ASSUME NEW x \in S, NEW y \in S, <<x, y>> \in R PROVE r(x) < r(y)
  <2>1. Below(S, R, x) \subseteq Below(S, R, y) /\ x \in Below(S, R, y) /\ x \notin Below(S, R, x)
    BY <1>3 DEF Below, InLine
  <2>2. Cardinality(Below(S, R, x)) <= Cardinality(Below(S, R, y))
        /\ (Cardinality(Below(S, R, y)) = Cardinality(Below(S, R, x)) =>
              Below(S, R, y) = Below(S, R, x))
    BY <1>2, <2>1, FS_Subset
  <2>3. r(x) # r(y)  BY <2>1, <2>2
  <2>4. QED  BY <1>2, <2>2, <2>3
<1>4. \A p \in 1..n : \E x \in S : r(x) = p - 1
  <2> DEFINE f == [x \in S |-> r(x) + 1]
  <2>1. ASSUME NEW x \in S, NEW y \in S, x # y PROVE f[x] # f[y]
    <3>1. r(x) < r(y) \/ r(y) < r(x)  BY <1>3, <2>1 DEF InLine
    <3>2. QED  BY <1>2, <3>1
  <2>2. f \in [S -> 1..n]  BY <1>1, <1>2
  <2>3. f \in Injection(S, 1..n)
    <3> HIDE DEF f
    <3>1. QED  BY <2>1, <2>2 DEF Injection, IsInjective
  <2>4. IsFiniteSet(1..n) /\ Cardinality(1..n) = n  BY <1>1, FS_Interval
  <2>5. f \in Surjection(S, 1..n)
    <3> HIDE DEF f
    <3>1. QED  BY <2>3, <2>4, FS_Injection
  <2>6. \A p \in 1..n : \E x \in S : f[x] = p
    <3> HIDE DEF f
    <3>1. QED  BY <2>5 DEF Surjection
  <2>7. QED  BY <1>1, <1>2, <2>6
<1>5. QED  BY <1>1, <1>2, <1>3, <1>4

(* A function that gives each place to the one with as many below it as    *)
(* come before lists all of them in the order of the line.                 *)
Ranked(S, R, f) ==
  /\ f \in [1..Cardinality(S) -> S]
  /\ \A p \in 1..Cardinality(S) : Cardinality(Below(S, R, f[p])) = p - 1

(* So it does.                                                             *)
LEMMA LineIs ==
  ASSUME NEW S, IsFiniteSet(S), NEW R, InLine(S, R), NEW f, Ranked(S, R, f)
  PROVE  /\ \A p, q \in 1..Cardinality(S) : p < q => <<f[p], f[q]>> \in R
         /\ \A x \in S : \E p \in 1..Cardinality(S) : f[p] = x
<1> DEFINE n == Cardinality(S)
           r(x) == Cardinality(Below(S, R, x))
<1>1. n \in Nat  BY FS_CardinalityType
<1>2. /\ \A x \in S : r(x) \in 0..n - 1
      /\ \A x, y \in S : <<x, y>> \in R => r(x) < r(y)
  BY PlacesInLine
<1>3. \A p \in 1..n : f[p] \in S /\ r(f[p]) = p - 1  BY DEF Ranked
<1> HIDE DEF r
<1>6. \A x, y \in S : x = y \/ <<x, y>> \in R \/ <<y, x>> \in R  BY DEF InLine
<1>7. ASSUME NEW p \in 1..n, NEW q \in 1..n, p < q PROVE <<f[p], f[q]>> \in R
  <2>1. f[p] \in S /\ r(f[p]) = p - 1  BY <1>3
  <2>2. f[q] \in S /\ r(f[q]) = q - 1  BY <1>3
  <2>3. f[p] # f[q]  BY <1>7, <2>1, <2>2
  <2>4. ASSUME <<f[q], f[p]>> \in R PROVE FALSE
    <3>1. r(f[q]) < r(f[p])  BY <1>2, <2>1, <2>2, <2>4
    <3>2. QED  BY <1>7, <2>1, <2>2, <3>1
  <2>5. QED  BY <1>6, <2>1, <2>2, <2>3, <2>4
<1>8. ASSUME NEW x \in S PROVE \E p \in 1..n : f[p] = x
  <2>1. r(x) \in 0..n - 1  BY <1>2
  <2>2. r(x) + 1 \in 1..n  BY <1>1, <2>1
  <2>3. f[r(x) + 1] \in S /\ r(f[r(x) + 1]) = r(x)  BY <1>3, <2>1, <2>2
  <2>4. \A y \in S : r(y) \in Int  BY <1>2
  <2>5. f[r(x) + 1] = x
    <3>1. SUFFICES ASSUME f[r(x) + 1] # x PROVE FALSE  OBVIOUS
    <3>2. <<f[r(x) + 1], x>> \in R \/ <<x, f[r(x) + 1]>> \in R  BY <1>6, <2>3, <3>1
    <3>3. r(f[r(x) + 1]) < r(x) \/ r(x) < r(f[r(x) + 1])  BY <1>2, <2>3, <3>2
    <3>4. QED  BY <2>3, <2>4, <3>3
  <2>6. QED  BY <2>2, <2>5
<1>9. QED  BY <1>7, <1>8

(* Numbers in order: InOrder is a line of all elements from the least to   *)
(* the greatest.                                                           *)
Increasing(f, n) == \A i, j \in 1..n : i < j => f[i] < f[j]

-----------------------------------------------------------------------------
(* Sizes of finite sets.                                                   *)

(* As many elements as places, if no element is twice in a list.           *)
LEMMA InjectiveSize ==
  ASSUME NEW S, NEW q \in Seq(S), IsInjective(q)
  PROVE  IsFiniteSet(ToSet(q)) /\ Cardinality(ToSet(q)) = Len(q)
<1> DEFINE n == Len(q)
           R == ToSet(q)
<1>1. n \in Nat /\ DOMAIN q = 1..n  OBVIOUS
<1>2. \A i \in 1..n : q[i] \in R  BY <1>1 DEF ToSet
<1>3. \A x \in R : \E i \in 1..n : q[i] = x  BY <1>1 DEF ToSet
<1>4. \A i, j \in 1..n : q[i] = q[j] => i = j  BY <1>1 DEF IsInjective
<1> DEFINE f == [i \in 1..n |-> q[i]]
<1> HIDE DEF n, R
<1>5. f \in [1..n -> R] /\ \A i \in 1..n : f[i] = q[i]  BY <1>2
<1> HIDE DEF f
<1>6. f \in Bijection(1..n, R)
  BY <1>3, <1>4, <1>5 DEF Bijection, Injection, Surjection, IsInjective
<1>7. IsFiniteSet(1..n) /\ Cardinality(1..n) = n  BY <1>1, FS_Interval
<1>8. ExistsBijection(1..n, R)  BY <1>6 DEF ExistsBijection
<1>9. f \in Surjection(1..n, R)  BY <1>6 DEF Bijection
<1>10. IsFiniteSet(R)  BY <1>7, <1>9, FS_Surjection
<1>11. Cardinality(R) = n  BY <1>7, <1>8, <1>10, FS_Bijection
<1>12. QED  BY <1>10, <1>11 DEF R, n

(* What is left of such a list behind its first m elements.                *)
LEMMA LeftSize ==
  ASSUME NEW S, NEW q \in Seq(S), IsInjective(q), NEW m \in 0..Len(q)
  PROVE  Cardinality(ToSet(q) \ ToSet(SubSeq(q, 1, m))) = Len(q) - m
<1> DEFINE one == SubSeq(q, 1, m)
           two == SubSeq(q, m + 1, Len(q))
<1>1. Splits(S, q, m, one, two)  BY FrontAndRest
<1> HIDE DEF one, two
<1>2. /\ two \in Seq(S) /\ Len(two) = Len(q) - m /\ IsInjective(two)
      /\ ToSet(q) = ToSet(one) \union ToSet(two) /\ ToSet(one) \intersect ToSet(two) = {}
  BY <1>1 DEF Splits
<1>3. Cardinality(ToSet(two)) = Len(two)  BY <1>2, InjectiveSize
<1>4. ToSet(q) \ ToSet(one) = ToSet(two)  BY <1>2
<1>5. QED  BY <1>2, <1>3, <1>4 DEF one

-----------------------------------------------------------------------------
(* Folds over sequences.                                                   *)

(* What a fold from the left computes: a function on the sets of places    *)
(* that takes the greatest place last.                                     *)
Folding(D, base, step, g) ==
  /\ g[{}] = base
  /\ \A u \in SUBSET D : u # {} => g[u] = step[Max(u)][g[u \ {Max(u)}]]

(* There is such a function, with values where the steps stay.             *)
LEMMA FoldExists ==
  ASSUME NEW D, IsFiniteSet(D), D \subseteq Int,
         NEW V, NEW base \in V, NEW step \in [D -> [V -> V]]
  PROVE  \E g \in [SUBSET D -> V] : Folding(D, base, step, g)
<1> DEFINE F == {U \in SUBSET D : \E g \in [SUBSET U -> V] : Folding(U, base, step, g)}
<1>1. ASSUME NEW U \in SUBSET D, \A x \in U : U \ {x} \in F PROVE U \in F
  <2>1. CASE U = {}
    <3>1. \A u \in SUBSET {} : u = {}  OBVIOUS
    <3>2. [u \in SUBSET {} |-> base] \in [SUBSET {} -> V]
          /\ Folding({}, base, step, [u \in SUBSET {} |-> base])
      BY <3>1 DEF Folding
    <3>3. QED  BY <2>1, <3>2
  <2>2. CASE U # {}
    <3> DEFINE m == Max(U)
    <3>1. IsFiniteSet(U) /\ U \subseteq Int  BY FS_Subset
    <3>2. m \in U /\ m \in Int /\ \A y \in U : y <= m  BY <2>2, <3>1, Extremes
    <3> HIDE DEF m
    <3>3. PICK g \in [SUBSET (U \ {m}) -> V] : Folding(U \ {m}, base, step, g)
      BY <1>1, <3>2
    <3> DEFINE h == [u \in SUBSET U |-> IF m \in u THEN step[m][g[u \ {m}]] ELSE g[u]]
    <3>4. \A u \in SUBSET U : u \ {m} \in SUBSET (U \ {m}) /\ g[u \ {m}] \in V  BY <3>3
    <3>5. \A u \in SUBSET U : m \notin u => u \in SUBSET (U \ {m}) /\ g[u] \in V  BY <3>3
    <3>6. step[m] \in [V -> V]  BY <3>2
    <3>7. h \in [SUBSET U -> V]  BY <3>4, <3>5, <3>6
    <3>8. \A u \in SUBSET U : h[u] = IF m \in u THEN step[m][g[u \ {m}]] ELSE g[u]  OBVIOUS
    <3> HIDE DEF h
    <3>9. h[{}] = base
      <4>1. {} \in SUBSET U /\ m \notin {}  OBVIOUS
      <4>2. QED  BY <3>3, <3>8, <4>1 DEF Folding
    <3>10. ASSUME NEW u \in SUBSET U, u # {} PROVE h[u] = step[Max(u)][h[u \ {Max(u)}]]
      <4>1. CASE m \in u
        <5>1. Max(u) = m  BY <3>1, <3>2, <4>1, MaxIs
        <5>2. u \ {m} \in SUBSET U /\ m \notin u \ {m}  OBVIOUS
        <5>3. h[u \ {m}] = g[u \ {m}]  BY <3>8, <5>2
        <5>4. QED  BY <3>8, <4>1, <5>1, <5>3
      <4>2. CASE m \notin u
        <5>1. u \in SUBSET (U \ {m})  BY <4>2
        <5>2. h[u] = g[u] /\ g[u] = step[Max(u)][g[u \ {Max(u)}]]
          BY <3>3, <3>8, <3>10, <4>2, <5>1 DEF Folding
        <5>3. u \ {Max(u)} \in SUBSET U /\ m \notin u \ {Max(u)}  BY <4>2
        <5>4. h[u \ {Max(u)}] = g[u \ {Max(u)}]  BY <3>8, <5>3
        <5>5. QED  BY <5>2, <5>4
      <4>3. QED  BY <4>1, <4>2
    <3>11. Folding(U, base, step, h)  BY <3>9, <3>10 DEF Folding
    <3>12. QED  BY <3>7, <3>11
  <2>3. QED  BY <2>1, <2>2
<1>2. D \in F
  <2> HIDE DEF F
  <2>1. QED  BY <1>1, FiniteInduction
<1>3. QED  BY <1>2

(* The first places of a sequence.                                         *)
LEMMA FirstPlaces ==
  ASSUME NEW n \in Nat
  PROVE  /\ 1..0 = {}
         /\ \A i \in 1..n : /\ 1..i \in SUBSET (1..n) /\ 1..i # {}
                            /\ Max(1..i) = i /\ (1..i) \ {i} = 1..(i - 1)
                            /\ i - 1 \in 0..n /\ 1..(i - 1) \in SUBSET (1..n)
<1>1. ASSUME NEW i \in 1..n PROVE Max(1..i) = i
  <2>1. i \in 1..i /\ 1..i \subseteq Int /\ \A y \in 1..i : y <= i  OBVIOUS
  <2>2. QED  BY <2>1, MaxIs
<1>2. QED  BY <1>1

(* So a function that takes a step where it has come to a value of V goes  *)
(* through the sequence step by step.                                      *)
Stepwise(D, V, base, step, h) ==
  /\ h[{}] = base
  /\ \A u \in SUBSET D :
       u # {} /\ h[u \ {Max(u)}] \in V => h[u] = step[Max(u)][h[u \ {Max(u)}]]

Chain(n, base, step, d) == d[0] = base /\ \A i \in 1..n : d[i] = step[i][d[i - 1]]

(* The values it comes to form a chain from the base, whose last one is    *)
(* that of the fold.                                                       *)
LEMMA FoldChain ==
  ASSUME NEW n \in Nat, NEW V, NEW base \in V, NEW step \in [1..n -> [V -> V]],
         NEW h, Stepwise(1..n, V, base, step, h)
  PROVE  \E d \in [0..n -> V] : Chain(n, base, step, d) /\ h[1..n] = d[n]
<1> DEFINE d == [i \in 0..n |-> h[1..i]]
           T == {i \in Nat : i <= n => h[1..i] \in V}
<1>1. ASSUME NEW i \in 1..n, h[1..(i - 1)] \in V PROVE h[1..i] = step[i][h[1..(i - 1)]]
  <2>1. /\ 1..i \in SUBSET (1..n) /\ 1..i # {}
        /\ Max(1..i) = i /\ (1..i) \ {i} = 1..(i - 1)
    BY FirstPlaces
  <2>2. QED  BY <1>1, <2>1 DEF Stepwise
<1>2. h[1..0] = base
  <2>1. 1..0 = {}  OBVIOUS
  <2>2. QED  BY <2>1 DEF Stepwise
<1>3. 0 \in T  BY <1>2
<1>4. ASSUME NEW i \in Nat, i \in T PROVE i + 1 \in T
  <2> SUFFICES ASSUME i + 1 <= n PROVE h[1..(i + 1)] \in V  OBVIOUS
  <2>1. i + 1 \in 1..n /\ (i + 1) - 1 = i /\ i <= n  OBVIOUS
  <2>2. h[1..i] \in V  BY <1>4, <2>1
  <2>3. h[1..(i + 1)] = step[i + 1][h[1..i]]  BY <1>1, <2>1, <2>2
  <2>4. QED  BY <2>1, <2>2, <2>3
<1>5. Nat \subseteq T
  <2> HIDE DEF T
  <2>1. QED  BY <1>3, <1>4, SetInduction
<1>6. \A i \in 0..n : h[1..i] \in V  BY <1>5
<1>7. d \in [0..n -> V] /\ d[0] = base /\ d[n] = h[1..n]  BY <1>2, <1>6
<1>8. \A i \in 1..n : i - 1 \in 0..n /\ i \in 0..n  OBVIOUS
<1>9. \A i \in 1..n : d[i] = step[i][d[i - 1]]  BY <1>1, <1>6, <1>8
<1>10. Chain(n, base, step, d)  BY <1>7, <1>9 DEF Chain
<1>11. QED  BY <1>7, <1>10

(* The greatest of some places is one of them.                             *)
LEMMA GreatestPlace ==
  ASSUME NEW n \in Nat, NEW u \in SUBSET (1..n), u # {}
  PROVE  Max(u) \in 1..n /\ u \ {Max(u)} \in SUBSET (1..n)
<1> DEFINE D == 1..n
<1>1. IsFiniteSet(D) /\ u \subseteq D /\ D \subseteq Int  BY FS_Interval
<1> HIDE DEF D
<1>2. IsFiniteSet(u) /\ u \subseteq Int  BY <1>1, FS_Subset
<1>3. Max(u) \in u  BY <1>2, Extremes
<1>4. QED  BY <1>1, <1>3 DEF D

-----------------------------------------------------------------------------
(* Sequences: prefixes, reversal, and what follows an element.             *)

IsSeq(s) == s \in Seq(ToSet(s))

(* A sequence over any set is one over what it has.                        *)
LEMMA IsSeqOf ==
  ASSUME NEW V, NEW s \in Seq(V)
  PROVE  IsSeq(s)
<1>1. Len(s) \in Nat /\ DOMAIN s = 1..Len(s) /\ \A i \in 1..Len(s) : s[i] \in ToSet(s)
  BY DEF ToSet
<1> DEFINE n == Len(s)
           S == ToSet(s)
<1>2. s = [i \in 1..n |-> s[i]]  OBVIOUS
<1> HIDE DEF n, S
<1>3. n \in Nat /\ \A i \in 1..n : s[i] \in S  BY <1>1 DEF n, S
<1>4. s \in Seq(S)  BY <1>2, <1>3
<1>5. QED  BY <1>4 DEF IsSeq, S

(* Sequences put together.                                                 *)
LEMMA IsSeqTogether ==
  ASSUME NEW s, NEW t, IsSeq(s), IsSeq(t), NEW x
  PROVE  /\ IsSeq(s \o t) /\ IsSeq(Append(s, x)) /\ IsSeq(<<x>>) /\ IsSeq(<<>>)
         /\ Len(s) \in Nat /\ Len(s \o t) = Len(s) + Len(t)
         /\ s \o <<>> = s /\ <<>> \o s = s /\ (s = <<>> <=> Len(s) = 0)
         /\ \A r : IsSeq(r) => (s \o t) \o r = s \o (t \o r)
<1> DEFINE V == ToSet(s) \union ToSet(t) \union {x}
<1>1. s \in Seq(V) /\ t \in Seq(V) /\ x \in V  BY DEF IsSeq
<1> HIDE DEF V
<1>2. /\ s \o t \in Seq(V) /\ Append(s, x) \in Seq(V) /\ <<x>> \in Seq(V) /\ <<>> \in Seq(V)
      /\ Len(s) \in Nat /\ Len(s \o t) = Len(s) + Len(t)
      /\ s \o <<>> = s /\ <<>> \o s = s /\ (s = <<>> <=> Len(s) = 0)
  BY <1>1
<1>3. IsSeq(s \o t) /\ IsSeq(Append(s, x)) /\ IsSeq(<<x>>) /\ IsSeq(<<>>)  BY <1>2, IsSeqOf
<1>4. ASSUME NEW r, IsSeq(r) PROVE (s \o t) \o r = s \o (t \o r)
  <2> DEFINE W == V \union ToSet(r)
  <2>1. s \in Seq(W) /\ t \in Seq(W) /\ r \in Seq(W)  BY <1>1, <1>4 DEF IsSeq
  <2> HIDE DEF W
  <2>2. QED  BY <2>1, ConcatAssociative
<1>5. QED  BY <1>2, <1>3, <1>4

(* Sequences put together are one.                                         *)
LEMMA IsSeqJoined ==
  ASSUME NEW s, NEW t, IsSeq(s), IsSeq(t)
  PROVE  /\ IsSeq(s \o t) /\ Len(s \o t) = Len(s) + Len(t) /\ Len(s) \in Nat
         /\ s = <<>> <=> Len(s) = 0
BY IsSeqTogether

(* Three of them, put together from either end.                            *)
LEMMA JoinedAnyWay ==
  ASSUME NEW s, NEW t, NEW r, IsSeq(s), IsSeq(t), IsSeq(r)
  PROVE  (s \o t) \o r = s \o (t \o r)
BY IsSeqTogether

(* A list with one more of its elements.                                   *)
LEMMA PrefixGrows ==
  ASSUME NEW V, NEW s \in Seq(V), NEW i \in Nat, i + 1 <= Len(s)
  PROVE  /\ SubSeq(s, 1, i) \in Seq(V) /\ Len(SubSeq(s, 1, i)) = i
         /\ SubSeq(s, 1, i + 1) = Append(SubSeq(s, 1, i), s[i + 1])
         /\ s[i + 1] \in V
<1> DEFINE pre(j) == SubSeq(s, 1, j)
<1>1. /\ pre(i) \in Seq(V) /\ Len(pre(i)) = i /\ \A j \in 1..i : pre(i)[j] = s[j]
      /\ pre(i + 1) \in Seq(V) /\ Len(pre(i + 1)) = i + 1
      /\ \A j \in 1..(i + 1) : pre(i + 1)[j] = s[j]
      /\ s[i + 1] \in V
  OBVIOUS
<1> HIDE DEF pre
<1>2. /\ Append(pre(i), s[i + 1]) \in Seq(V) /\ Len(Append(pre(i), s[i + 1])) = i + 1
      /\ Append(pre(i), s[i + 1])[i + 1] = s[i + 1]
      /\ \A j \in 1..i : Append(pre(i), s[i + 1])[j] = s[j]
  BY <1>1
<1>3. \A j \in 1..(i + 1) : j \in 1..i \/ j = i + 1  OBVIOUS
<1>4. pre(i + 1) = Append(pre(i), s[i + 1])  BY <1>1, <1>2, <1>3, SeqEqual
<1>5. QED  BY <1>1, <1>4 DEF pre

(* The shortest and the longest prefix of a list.                          *)
LEMMA WholePrefix ==
  ASSUME NEW V, NEW s \in Seq(V)
  PROVE  SubSeq(s, 1, 0) = <<>> /\ SubSeq(s, 1, Len(s)) = s
<1>1. /\ SubSeq(s, 1, Len(s)) \in Seq(V) /\ Len(SubSeq(s, 1, Len(s))) = Len(s)
      /\ \A j \in 1..Len(s) : SubSeq(s, 1, Len(s))[j] = s[j]
  OBVIOUS
<1>2. SubSeq(s, 1, Len(s)) = s  BY <1>1, SeqEqual
<1>3. QED  BY <1>2

(* A sequence with one more element in front.                              *)
LEMMA PutInFront ==
  ASSUME NEW V, NEW r \in Seq(V), NEW x \in V
  PROVE  /\ <<x>> \o r \in Seq(V) /\ Len(<<x>> \o r) = Len(r) + 1 /\ (<<x>> \o r)[1] = x
         /\ \A i \in 2..(Len(r) + 1) : (<<x>> \o r)[i] = r[i - 1]
<1> DEFINE one == <<x>>
           n == Len(r)
<1>1. one \in Seq(V) /\ Len(one) = 1 /\ one[1] = x /\ n \in Nat  OBVIOUS
<1> HIDE DEF one
<1>2. /\ one \o r \in Seq(V) /\ Len(one \o r) = 1 + n
      /\ \A i \in 1..(1 + n) : (one \o r)[i] = IF i <= 1 THEN one[i] ELSE r[i - 1]
  BY <1>1, ConcatProperties
<1> HIDE DEF n
<1>3. 1 \in 1..(1 + n) /\ \A i \in 2..(n + 1) : i \in 1..(1 + n) /\ ~ (i <= 1)  BY <1>1
<1>4. 1 + n = n + 1  BY <1>1
<1>5. QED  BY <1>1, <1>2, <1>3, <1>4 DEF one, n

(* A sequence turned round, and what is left of one from a place on.       *)
LEMMA ReverseAppend ==
  ASSUME NEW s, IsSeq(s), NEW x
  PROVE  IsSeq(Reverse(s)) /\ Reverse(Append(s, x)) = <<x>> \o Reverse(s)
<1> DEFINE n == Len(s)
           r == Reverse(s)
           V == ToSet(s) \union {x}
           one == <<x>>
<1>1. s \in Seq(V) /\ x \in V /\ n \in Nat  BY DEF IsSeq
<1> HIDE DEF V
<1>2. \A i \in 1..n : s[i] \in V /\ (n - i) + 1 \in 1..n  BY <1>1
<1>3. r \in Seq(V) /\ Len(r) = n /\ \A i \in 1..n : r[i] = s[(n - i) + 1]
  <2>1. r = [i \in 1..n |-> s[(n - i) + 1]]  BY DEF Reverse
  <2> HIDE DEF n, r
  <2>2. \A i \in 1..n : s[(n - i) + 1] \in V  BY <1>2
  <2>3. QED  BY <1>1, <2>1, <2>2
<1> DEFINE t == Append(s, x)
<1>4. t \in Seq(V) /\ Len(t) = n + 1 /\ t[n + 1] = x /\ \A i \in 1..n : t[i] = s[i]
  BY <1>1
<1>5. Reverse(t) = [i \in 1..(n + 1) |-> t[(n + 1 - i) + 1]]  BY <1>4 DEF Reverse
<1> HIDE DEF t, n, r
<1> DEFINE q == Reverse(t)
<1>6. q \in Seq(V) /\ Len(q) = n + 1 /\ \A i \in 1..(n + 1) : q[i] = t[(n + 1 - i) + 1]
  <2>1. \A i \in 1..(n + 1) : (n + 1 - i) + 1 \in 1..(n + 1)  BY <1>1
  <2>2. \A i \in 1..(n + 1) : t[i] \in V  BY <1>4
  <2>3. \A i \in 1..(n + 1) : t[(n + 1 - i) + 1] \in V  BY <2>1, <2>2
  <2>4. QED  BY <1>1, <1>5, <2>3
<1> HIDE DEF q, one
<1>8. /\ one \o r \in Seq(V) /\ Len(one \o r) = n + 1 /\ (one \o r)[1] = x
      /\ \A i \in 2..(n + 1) : (one \o r)[i] = r[i - 1]
  BY <1>1, <1>3, PutInFront DEF one
<1>9. ASSUME NEW i \in 1..(n + 1) PROVE q[i] = (one \o r)[i]
  <2>1. CASE i = 1
    <3>1. (n + 1 - i) + 1 = n + 1  BY <1>1, <2>1
    <3>2. QED  BY <1>4, <1>6, <1>8, <2>1, <3>1
  <2>2. CASE i # 1
    <3>1. /\ i \in 2..(n + 1) /\ i - 1 \in 1..n
          /\ (n + 1 - i) + 1 \in 1..n /\ (n + 1 - i) + 1 = (n - (i - 1)) + 1
      BY <1>1, <2>2
    <3>2. q[i] = s[(n - (i - 1)) + 1]  BY <1>4, <1>6, <3>1
    <3>3. r[i - 1] = s[(n - (i - 1)) + 1]  BY <1>3, <3>1
    <3>4. QED  BY <1>8, <3>1, <3>2, <3>3
  <2>3. QED  BY <2>1, <2>2
<1>10. q = one \o r
  <2>1. Len(q) = Len(one \o r) /\ \A i \in 1..Len(q) : q[i] = (one \o r)[i]
    BY <1>1, <1>6, <1>8, <1>9
  <2>2. QED  BY <1>6, <1>8, <2>1, SeqEqual
<1>11. IsSeq(r)  BY <1>3, IsSeqOf
<1>12. QED  BY <1>10, <1>11 DEF q, one, r, t

(* What is left of a sequence from a place on has that place first.        *)
LEMMA RestOf ==
  ASSUME NEW s, IsSeq(s), NEW l \in 1..(Len(s) + 1)
  PROVE  /\ IsSeq(SubSeq(s, l, Len(s)))
         /\ l = Len(s) + 1 => SubSeq(s, l, Len(s)) = <<>>
         /\ l <= Len(s) => SubSeq(s, l, Len(s)) = <<s[l]>> \o SubSeq(s, l + 1, Len(s))
         /\ l = 1 => SubSeq(s, l, Len(s)) = s
<1> DEFINE V == ToSet(s)
           n == Len(s)
<1>1. s \in Seq(V) /\ n \in Nat /\ \A i \in 1..n : s[i] \in V  BY DEF IsSeq
<1> HIDE DEF V, n
<1>2. ASSUME NEW m \in 1..(n + 1)
      PROVE  /\ SubSeq(s, m, n) \in Seq(V) /\ Len(SubSeq(s, m, n)) = n - m + 1
             /\ \A i \in 1..(n - m + 1) : SubSeq(s, m, n)[i] = s[m + i - 1]
  <2>1. m \in Int /\ n \in Int /\ \A i \in m..n : s[i] \in V  BY <1>1
  <2>2. /\ SubSeq(s, m, n) \in Seq(V)
        /\ Len(SubSeq(s, m, n)) = IF m <= n THEN n - m + 1 ELSE 0
        /\ \A i \in 1..(n - m + 1) : SubSeq(s, m, n)[i] = s[m + i - 1]
    BY <2>1, SubSeqProperties
  <2>3. ~ (m <= n) => n - m + 1 = 0  BY <1>1
  <2>4. QED  BY <2>2, <2>3
<1>3. l \in 1..(n + 1)  BY DEF n
<1>4. IsSeq(SubSeq(s, l, n))  BY <1>2, <1>3, IsSeqOf
<1>5. ASSUME l = n + 1 PROVE SubSeq(s, l, n) = <<>>
  <2>1. n - l + 1 = 0  BY <1>1, <1>5
  <2>2. SubSeq(s, l, n) \in Seq(V) /\ Len(SubSeq(s, l, n)) = 0  BY <1>2, <1>3, <2>1
  <2> DEFINE u == SubSeq(s, l, n)
  <2> HIDE DEF u
  <2>3. u \in Seq(V) /\ Len(u) = 0  BY <2>2 DEF u
  <2>4. u = <<>>  BY <2>3
  <2>5. QED  BY <2>4 DEF u
<1>6. ASSUME l <= n PROVE SubSeq(s, l, n) = <<s[l]>> \o SubSeq(s, l + 1, n)
  <2> DEFINE u == SubSeq(s, l, n)
             r == SubSeq(s, l + 1, n)
             one == <<s[l]>>
  <2>1. l \in 1..n /\ l + 1 \in 1..(n + 1) /\ n - (l + 1) + 1 = n - l  BY <1>1, <1>3, <1>6
  <2>2. s[l] \in V  BY <1>1, <2>1
  <2>4. u \in Seq(V) /\ Len(u) = n - l + 1 /\ \A i \in 1..(n - l + 1) : u[i] = s[l + i - 1]
    BY <1>2, <1>3
  <2>5. r \in Seq(V) /\ Len(r) = n - l /\ \A i \in 1..(n - l) : r[i] = s[l + 1 + i - 1]
    BY <1>2, <2>1
  <2> HIDE DEF u, r, one
  <2>6. /\ one \o r \in Seq(V) /\ Len(one \o r) = (n - l) + 1 /\ (one \o r)[1] = s[l]
        /\ \A i \in 2..((n - l) + 1) : (one \o r)[i] = r[i - 1]
    BY <2>2, <2>5, PutInFront DEF one
  <2>7. ASSUME NEW i \in 1..(n - l + 1) PROVE u[i] = (one \o r)[i]
    <3>1. CASE i = 1
      <4>1. l + i - 1 = l  BY <2>1, <3>1
      <4>2. QED  BY <2>4, <2>6, <3>1, <4>1
    <3>2. CASE i # 1
      <4>1. /\ i \in 2..((n - l) + 1) /\ i - 1 \in 1..(n - l)
            /\ l + 1 + (i - 1) - 1 = l + i - 1
        BY <1>1, <2>1, <3>2
      <4>2. QED  BY <2>4, <2>5, <2>6, <4>1
    <3>3. QED  BY <3>1, <3>2
  <2>8. Len(u) = Len(one \o r) /\ \A i \in 1..Len(u) : u[i] = (one \o r)[i]
    BY <1>1, <2>1, <2>4, <2>6, <2>7
  <2>9. u = one \o r  BY <2>4, <2>6, <2>8, SeqEqual
  <2>10. QED  BY <2>9 DEF u, r, one
<1>7. ASSUME l = 1 PROVE SubSeq(s, l, n) = s  BY <1>1, <1>7, WholePrefix DEF n
<1>8. QED  BY <1>4, <1>5, <1>6, <1>7 DEF n

-----------------------------------------------------------------------------
(* Sequences that follow one another.                                      *)

(* h[i] are the first i lists together.                                    *)
Flattened(V, g, h) ==
  /\ h[0] = <<>>
  /\ \A i \in 1..Len(g) : h[i] = h[i - 1] \o g[i]
  /\ \A i \in 0..Len(g) : h[i] \in Seq(V)

LEMMA FlattenedExists ==
  ASSUME NEW V, NEW g \in Seq(Seq(V))
  PROVE  \E h : Flattened(V, g, h)
<1> DEFINE S == Seq(V)
           n == Len(g)
           step == [i \in Nat |-> [s \in S |-> IF i \in 1..n THEN s \o g[i] ELSE s]]
           none == <<>>
<1>1. n \in Nat /\ none \in S /\ \A i \in 1..n : g[i] \in S  OBVIOUS
<1>2. \A i \in 1..n : \A s \in S : s \o g[i] \in S  OBVIOUS
<1> HIDE DEF S, n, none
<1>3. step \in [Nat -> [S -> S]]  BY <1>1, <1>2
<1>4. \A i \in 1..n : \A s \in S : step[i][s] = s \o g[i]
  <2>1. \A i \in 1..n : i \in Nat  BY <1>1
  <2>2. \A i \in Nat : \A s \in S : step[i][s] = IF i \in 1..n THEN s \o g[i] ELSE s
    OBVIOUS
  <2> HIDE DEF step
  <2>3. QED  BY <2>1, <2>2
<1> HIDE DEF step
<1>5. PICK h : Recursion(S, none, step, h)  BY <1>1, <1>3, RecursionOnNat
<1>6. h \in [Nat -> S] /\ h[0] = none /\ \A i \in Nat : h[i + 1] = step[i + 1][h[i]]
  BY <1>5 DEF Recursion
<1>7. ASSUME NEW i \in 1..n PROVE h[i] = h[i - 1] \o g[i]
  <2>1. i - 1 \in Nat /\ (i - 1) + 1 = i  BY <1>1
  <2>2. h[i] = step[i][h[i - 1]] /\ h[i - 1] \in S  BY <1>6, <2>1
  <2>3. QED  BY <1>4, <2>2
<1>8. \A i \in 0..n : h[i] \in S
  <2>1. \A i \in 0..n : i \in Nat  BY <1>1
  <2>2. QED  BY <1>6, <2>1
<1>9. Flattened(V, g, h)  BY <1>6, <1>7, <1>8 DEF Flattened, S, n, none
<1>10. QED  BY <1>9

(* FlattenSeq gives all of them.                                           *)
LEMMA FlattenIs ==
  ASSUME NEW V, NEW g \in Seq(Seq(V)), NEW h, Flattened(V, g, h)
  PROVE  FlattenSeq(g) = h[Len(g)] /\ FlattenSeq(g) \in Seq(V)
<1> DEFINE n == Len(g)
           Unfolds(f) == f = [i \in 1..n |-> IF i = 1 THEN g[i] ELSE f[i - 1] \o g[i]]
           whole == CHOOSE f : Unfolds(f)
<1>1. /\ n \in Nat /\ h[0] = <<>> /\ \A i \in 1..n : g[i] \in Seq(V)
      /\ \A i \in 1..n : h[i] = h[i - 1] \o g[i]
      /\ \A i \in 0..n : h[i] \in Seq(V)
  <2>1. n \in Nat /\ \A i \in 1..n : g[i] \in Seq(V)  OBVIOUS
  <2>2. QED  BY <2>1, Zenon DEF Flattened
<1>2. n \in 0..n /\ h[n] \in Seq(V)  BY <1>1
<1>3. CASE n = 0
  <2>1. g = <<>>  BY <1>3
  <2>2. FlattenSeq(g) = g  BY <1>3 DEF FlattenSeq
  <2>3. QED  BY <1>1, <1>2, <1>3, <2>1, <2>2
<1>4. CASE n # 0
  <2>1. FlattenSeq(g) = whole[n]  BY <1>4 DEF FlattenSeq
  <2>2. h[1] = g[1]
    <3>1. 1 \in 1..n /\ 1 - 1 = 0  BY <1>1, <1>4
    <3>2. h[1] = h[0] \o g[1] /\ g[1] \in Seq(V)  BY <1>1, <3>1
    <3>3. <<>> \o g[1] = g[1]  BY <3>2
    <3>4. QED  BY <1>1, <3>2, <3>3
  <2> DEFINE f == [i \in 1..n |-> h[i]]
  <2>3. ASSUME NEW i \in 1..n PROVE f[i] = IF i = 1 THEN g[i] ELSE f[i - 1] \o g[i]
    <3>1. CASE i = 1  BY <2>2, <3>1
    <3>2. CASE i # 1
      <4>1. i - 1 \in 1..n  BY <1>1, <3>2
      <4>2. f[i - 1] = h[i - 1] /\ f[i] = h[i]  BY <4>1
      <4>3. QED  BY <1>1, <3>2, <4>2
    <3>3. QED  BY <3>1, <3>2
  <2>4. Unfolds(f)  BY <2>3
  <2>5. Unfolds(whole)
    <3> HIDE DEF Unfolds, f
    <3>1. QED  BY <2>4
  <2> HIDE DEF whole
  <2>6. \A i \in 1..n : whole[i] = IF i = 1 THEN g[i] ELSE whole[i - 1] \o g[i]  BY <2>5
  <2> DEFINE T == {i \in Nat : i \in 1..n => whole[i] = h[i]}
  <2> HIDE DEF Unfolds, f, n
  <2>7. 0 \in T  BY <1>1
  <2>8. ASSUME NEW i \in Nat, i \in T PROVE i + 1 \in T
    <3> SUFFICES ASSUME i + 1 \in 1..n PROVE whole[i + 1] = h[i + 1]  OBVIOUS
    <3>1. CASE i = 0
      <4>1. i + 1 = 1  BY <3>1
      <4>2. QED  BY <2>2, <2>6, <4>1
    <3>2. CASE i # 0
      <4>1. i \in 1..n /\ i + 1 # 1 /\ (i + 1) - 1 = i  BY <1>1, <3>2
      <4>2. whole[i] = h[i]  BY <2>8, <4>1
      <4>3. whole[i + 1] = whole[i] \o g[i + 1]  BY <2>6, <4>1
      <4>4. h[i + 1] = h[i] \o g[i + 1]  BY <1>1, <4>1
      <4>5. QED  BY <4>2, <4>3, <4>4
    <3>3. QED  BY <3>1, <3>2
  <2>9. n \in T
    <3> HIDE DEF T
    <3>1. QED  BY <1>1, <2>7, <2>8, SetInduction
  <2>10. n \in 1..n  BY <1>1, <1>4
  <2>11. whole[n] = h[n]  BY <2>9, <2>10
  <2>12. QED  BY <1>2, <2>1, <2>11 DEF n
<1>5. QED  BY <1>3, <1>4

(* One more list is behind the others.                                     *)
LEMMA FlattenAppend ==
  ASSUME NEW V, NEW g \in Seq(Seq(V)), NEW list \in Seq(V)
  PROVE  /\ FlattenSeq(g) \in Seq(V) /\ FlattenSeq(Append(g, list)) \in Seq(V)
         /\ FlattenSeq(Append(g, list)) = FlattenSeq(g) \o list
<1> DEFINE n == Len(g)
           S == Seq(V)
           m == Append(g, list)
<1>1. /\ n \in Nat /\ m \in Seq(S) /\ Len(m) = n + 1 /\ m[n + 1] = list
      /\ \A i \in 1..n : m[i] = g[i]
  OBVIOUS
<1> HIDE DEF m
<1>2. PICK h : Flattened(V, m, h)  BY <1>1, FlattenedExists DEF S
<1>3. /\ h[0] = <<>> /\ \A i \in 1..(n + 1) : h[i] = h[i - 1] \o m[i]
      /\ \A i \in 0..(n + 1) : h[i] \in Seq(V)
  BY <1>1, <1>2 DEF Flattened
<1>4. \A i \in 1..n : i \in 1..(n + 1)  BY <1>1
<1>5. \A i \in 0..n : i \in 0..(n + 1)  BY <1>1
<1>6. Flattened(V, g, h)  BY <1>1, <1>3, <1>4, <1>5 DEF Flattened
<1>7. FlattenSeq(g) = h[n] /\ FlattenSeq(g) \in Seq(V)  BY <1>6, FlattenIs
<1>8. FlattenSeq(m) = h[n + 1] /\ FlattenSeq(m) \in Seq(V)
  BY <1>1, <1>2, FlattenIs DEF S
<1>9. n + 1 \in 1..(n + 1) /\ (n + 1) - 1 = n  BY <1>1
<1>10. h[n + 1] = h[n] \o list  BY <1>1, <1>3, <1>9
<1>11. QED  BY <1>7, <1>8, <1>10 DEF m

(* No list, and one list.                                                  *)
LEMMA FlattenFew ==
  /\ FlattenSeq(<<>>) = <<>>
  /\ \A V : \A list \in Seq(V) : FlattenSeq(<<list>>) = list
<1>1. FlattenSeq(<<>>) = <<>>  BY DEF FlattenSeq
<1>2. ASSUME NEW V, NEW list \in Seq(V) PROVE FlattenSeq(<<list>>) = list
  <2> DEFINE none == <<>>
             W == Seq(V)
  <2>1. none \in Seq(W) /\ Append(none, list) = <<list>> /\ none \o list = list  OBVIOUS
  <2>2. FlattenSeq(none) = none  BY <1>1
  <2> DEFINE one == <<list>>
  <2> HIDE DEF one, none
  <2>3. FlattenSeq(Append(none, list)) = FlattenSeq(none) \o list
    BY <2>1, FlattenAppend
  <2>4. FlattenSeq(one) = list  BY <2>1, <2>2, <2>3 DEF one
  <2>5. QED  BY <2>4 DEF one
<1>3. QED  BY <1>1, <1>2

=============================================================================
