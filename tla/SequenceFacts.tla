--------------------------- MODULE SequenceFacts ----------------------------
(***************************************************************************)
(* Facts about numbers and finite sequences that need induction over data. *)
(* The induction theorems of the library take an operator as parameter;    *)
(* here the induction is over a set of numbers, from the well-foundedness  *)
(* of their order, and a claim is proved for all numbers by showing that   *)
(* the set of those it holds for is closed.                                *)
(***************************************************************************)
EXTENDS Retaining, SequencesExt, FiniteSetTheorems, WellFoundedInduction, TLAPS

(* Induction: a set with 0 and with the successor of each of its numbers   *)
(* has all of them.                                                        *)
LEMMA NatSetInduction ==
    ASSUME NEW T, 0 \in T, \A n \in Nat : n \in T => n + 1 \in T
    PROVE  Nat \subseteq T
<1> DEFINE Before == {ss \in Nat \X Nat : ss[1] < ss[2]}
<1>1. IsWellFoundedOn(Before, Nat) BY NatLessThanWellFounded DEF OpToRel
<1> SUFFICES ASSUME Nat \ T # {} PROVE FALSE OBVIOUS
<1>2. PICK x \in Nat \ T : \A y \in Nat \ T : <<y, x>> \notin Before
  <2> HIDE DEF Before
  <2> QED BY <1>1, WFMin
<1>3. x - 1 \in Nat /\ (x - 1) + 1 = x /\ x - 1 < x /\ x \in Nat OBVIOUS
<1>4. <<x - 1, x>> \in Before BY <1>3
<1>5. x - 1 \in T
  <2> HIDE DEF Before
  <2> QED BY <1>2, <1>3, <1>4
<1> QED BY <1>3, <1>5

(* A nonempty set of numbers has a least one.                              *)
LEMMA LeastNumber ==
    ASSUME NEW T, T \subseteq Nat, T # {}
    PROVE  \E x \in T : \A y \in T : x <= y
<1> DEFINE Before == {ss \in Nat \X Nat : ss[1] < ss[2]}
<1>1. IsWellFoundedOn(Before, Nat) BY NatLessThanWellFounded DEF OpToRel
<1>2. PICK x \in T : \A y \in T : <<y, x>> \notin Before
  <2> HIDE DEF Before
  <2> QED BY <1>1, WFMin
<1>3. \A y \in T : ~(y < x) /\ x \in Nat /\ y \in Nat BY <1>2
<1>4. \A y \in T : x <= y BY <1>3
<1> QED BY <1>4

-----------------------------------------------------------------------------
(* The recursive function behind Retain exists.                            *)
LEMMA KeptExists ==
    ASSUME NEW s, NEW S, Len(s) \in Nat
    PROVE  \E f : f = [i \in 0 .. Len(s) |->
                        IF i = 0 THEN <<>>
                        ELSE IF s[i] \in S THEN Append(f[i - 1], s[i]) ELSE f[i - 1]]
<1> DEFINE Is(f, n) == f = [i \in 0 .. n |->
                        IF i = 0 THEN <<>>
                        ELSE IF s[i] \in S THEN Append(f[i - 1], s[i]) ELSE f[i - 1]]
           T == {n \in Nat : \E f : Is(f, n)}
<1>1. 0 \in T
  <2> DEFINE f == [i \in 0 .. 0 |-> <<>>]
  <2>1. Is(f, 0) OBVIOUS
  <2> QED BY <2>1
<1>2. ASSUME NEW n \in Nat, n \in T PROVE n + 1 \in T
  <2>1. PICK f : Is(f, n) BY <1>2
  <2> DEFINE last == IF s[n + 1] \in S THEN Append(f[n], s[n + 1]) ELSE f[n]
             h == [i \in 0 .. n + 1 |-> IF i = n + 1 THEN last ELSE f[i]]
  <2>2. h[n + 1] = last /\ \A i \in 0 .. n : h[i] = f[i] OBVIOUS
  <2>3. \A i \in 0 .. n : f[i] = IF i = 0 THEN <<>>
                        ELSE IF s[i] \in S THEN Append(f[i - 1], s[i]) ELSE f[i - 1]
    BY <2>1
  <2>4. \A i \in 0 .. n + 1 : i = n + 1 \/ i \in 0 .. n OBVIOUS
  <2>5. \A i \in 0 .. n : i # 0 => i - 1 \in 0 .. n OBVIOUS
  <2>6. \A i \in 0 .. n + 1 : h[i] = IF i = 0 THEN <<>>
                        ELSE IF s[i] \in S THEN Append(h[i - 1], s[i]) ELSE h[i - 1]
    <3> HIDE DEF h, last
    <3> SUFFICES ASSUME NEW i \in 0 .. n + 1
                 PROVE h[i] = IF i = 0 THEN <<>>
                        ELSE IF s[i] \in S THEN Append(h[i - 1], s[i]) ELSE h[i - 1]
      OBVIOUS
    <3>1. CASE i = n + 1
      <4>1. i # 0 /\ i - 1 = n /\ n \in 0 .. n BY <3>1
      <4>2. h[n] = f[n] BY <2>2, <4>1
      <4> QED BY <2>2, <3>1, <4>1, <4>2 DEF last
    <3>2. CASE i \in 0 .. n
      BY <2>2, <2>3, <2>5, <3>2
    <3> QED BY <2>4, <3>1, <3>2
  <2>7. Is(h, n + 1)
    <3>1. h = [i \in 0 .. n + 1 |-> h[i]] OBVIOUS
    <3> HIDE DEF h
    <3> QED BY <2>6, <3>1
  <2>8. \E e : Is(e, n + 1)
    <3> HIDE DEF h, Is
    <3> QED BY <2>7
  <2> HIDE DEF Is
  <2> QED BY <2>8
<1>3. Nat \subseteq T
  <2> HIDE DEF T
  <2> QED BY <1>1, <1>2, NatSetInduction
<1> QED BY <1>3

(* Retain keeps the elements in S and their order: g says which places of  *)
(* s they come from.                                                       *)
LEMMA RetainPlaces ==
    ASSUME NEW A, NEW s \in Seq(A), NEW S
    PROVE  /\ Retain(s, S) \in Seq(A)
           /\ \E g \in [1 .. Len(Retain(s, S)) -> 1 .. Len(s)] :
                 /\ \A i \in 1 .. Len(Retain(s, S)) :
                       Retain(s, S)[i] = s[g[i]] /\ s[g[i]] \in S
                 /\ \A i, j \in 1 .. Len(Retain(s, S)) : i < j => g[i] < g[j]
                 /\ \A k \in 1 .. Len(s) : s[k] \in S =>
                       \E i \in 1 .. Len(Retain(s, S)) : g[i] = k
<1> DEFINE Is(f) == f = [i \in 0 .. Len(s) |->
                        IF i = 0 THEN <<>>
                        ELSE IF s[i] \in S THEN Append(f[i - 1], s[i]) ELSE f[i - 1]]
           kept == CHOOSE f : Is(f)
<1>1. Retain(s, S) = kept[Len(s)] BY DEF Retain
<1>2. Len(s) \in Nat OBVIOUS
<1>3. Is(kept)
  <2>1. \E f : Is(f)
    <3> HIDE DEF kept
    <3> QED BY <1>2, KeptExists
  <2> HIDE DEF Is
  <2> QED BY <2>1
<1>4. \A i \in 0 .. Len(s) : kept[i] = IF i = 0 THEN <<>>
                        ELSE IF s[i] \in S THEN Append(kept[i - 1], s[i]) ELSE kept[i - 1]
  <2> HIDE DEF kept
  <2> QED BY <1>3
<1> HIDE DEF kept, Is
<1> DEFINE Maps(r, n, g) ==
               /\ g \in [1 .. Len(r) -> 1 .. n]
               /\ \A i \in 1 .. Len(r) : r[i] = s[g[i]] /\ s[g[i]] \in S
               /\ \A i, j \in 1 .. Len(r) : i < j => g[i] < g[j]
               /\ \A k \in 1 .. n : s[k] \in S => \E i \in 1 .. Len(r) : g[i] = k
           Good(n) == kept[n] \in Seq(A) /\ \E g : Maps(kept[n], n, g)
           T == {n \in Nat : n <= Len(s) => Good(n)}
<1>5. 0 \in T
  <2>1. kept[0] = <<>> BY <1>2, <1>4
  <2>2. <<>> \in Seq(A) OBVIOUS
  <2>3. Maps(<<>>, 0, [i \in {} |-> 0]) BY SMT
  <2> QED BY <2>1, <2>2, <2>3
<1>6. ASSUME NEW n \in Nat, n \in T PROVE n + 1 \in T
  <2> HIDE DEF Good
  <2> SUFFICES ASSUME n + 1 <= Len(s) PROVE Good(n + 1) OBVIOUS
  <2> USE DEF Good
  <2>1. Good(n) /\ n + 1 \in 0 .. Len(s) /\ n + 1 \in 1 .. Len(s) BY <1>2, <1>6
  <2> DEFINE r == kept[n]
             a == s[n + 1]
  <2>2. kept[n + 1] = IF a \in S THEN Append(r, a) ELSE r
    <3>1. n + 1 # 0 /\ (n + 1) - 1 = n OBVIOUS
    <3> QED BY <1>4, <2>1, <3>1
  <2>3. PICK g : Maps(r, n, g) BY <2>1
  <2>4. r \in Seq(A) /\ a \in A BY <2>1
  <2>5. CASE a \notin S
    <3>1. \A k \in 1 .. n + 1 : s[k] \in S => k \in 1 .. n BY <2>5
    <3>2. 1 .. n \subseteq 1 .. n + 1 OBVIOUS
    <3> HIDE DEF r, a
    <3>3. Maps(r, n + 1, g) BY <2>3, <3>1, <3>2
    <3> QED BY <2>2, <2>4, <2>5, <3>3
  <2>6. CASE a \in S
    <3> HIDE DEF r
    <3>1. Len(r) \in Nat BY <2>4
    <3> DEFINE m == Len(r)
               q == Append(r, a)
               h == [i \in 1 .. m + 1 |-> IF i = m + 1 THEN n + 1 ELSE g[i]]
    <3>2. q \in Seq(A) /\ Len(q) = m + 1 /\ q[m + 1] = a /\ \A i \in 1 .. m : q[i] = r[i]
      BY <2>4
    <3>3. /\ h[m + 1] = n + 1
          /\ \A i \in 1 .. m : h[i] = g[i] /\ g[i] \in 1 .. n
      BY <2>3, <3>1
    <3>4. \A i \in 1 .. m + 1 : i = m + 1 \/ i \in 1 .. m BY <3>1
    <3>5. h \in [1 .. m + 1 -> 1 .. n + 1]
      <4>1. 1 .. n \subseteq 1 .. n + 1 /\ n + 1 \in 1 .. n + 1 OBVIOUS
      <4>2. \A i \in 1 .. m + 1 : h[i] \in 1 .. n + 1 
        <5> HIDE DEF h, m
        <5> QED BY <3>3, <3>4, <4>1
      <4> QED BY <4>2
    <3>6. \A i \in 1 .. m + 1 : q[i] = s[h[i]] /\ s[h[i]] \in S
      <4> HIDE DEF h, q, m
      <4> QED BY <2>3, <2>6, <3>2, <3>3, <3>4 DEF m
    <3>7. \A i, j \in 1 .. m + 1 : i < j => h[i] < h[j]
      <4> SUFFICES ASSUME NEW i \in 1 .. m + 1, NEW j \in 1 .. m + 1, i < j
                   PROVE h[i] < h[j]
        OBVIOUS
      <4> HIDE DEF h, q
      <4>1. i \in 1 .. m BY <3>1
      <4>2. CASE j = m + 1 BY <3>3, <4>1, <4>2
      <4>3. CASE j \in 1 .. m BY <2>3, <3>3, <4>1, <4>3
      <4> QED BY <3>4, <4>2, <4>3
    <3>8. \A k \in 1 .. n + 1 : s[k] \in S => \E i \in 1 .. m + 1 : h[i] = k
      <4> SUFFICES ASSUME NEW k \in 1 .. n + 1, s[k] \in S PROVE \E i \in 1 .. m + 1 : h[i] = k
        OBVIOUS
      <4>1. CASE k = n + 1
        <5>1. m + 1 \in 1 .. m + 1 BY <3>1
        <5> QED BY <3>3, <4>1, <5>1
      <4>2. CASE k \in 1 .. n
        <5>1. PICK i \in 1 .. m : g[i] = k BY <2>3, <4>2
        <5>2. i \in 1 .. m + 1 BY <3>1
        <5> QED BY <3>3, <5>1, <5>2
      <4> QED BY <4>1, <4>2
    <3>9. Maps(q, n + 1, h)
      <4> HIDE DEF h, q, m
      <4> QED BY <3>2, <3>5, <3>6, <3>7, <3>8
    <3>10. kept[n + 1] = q BY <2>2, <2>6 DEF r
    <3>11. q \in Seq(A) BY <3>2
    <3>12. \E f : Maps(q, n + 1, f)
      <4> HIDE DEF h, q, Maps
      <4> QED BY <3>9
    <3> HIDE DEF q, Maps
    <3> QED BY <3>10, <3>11, <3>12
  <2> QED BY <2>5, <2>6
<1>7. Nat \subseteq T
  <2> HIDE DEF T
  <2> QED BY <1>5, <1>6, NatSetInduction
<1>8. Good(Len(s))
  <2>1. Len(s) \in T /\ Len(s) <= Len(s) BY <1>2, <1>7
  <2> QED BY <2>1
<1> QED BY <1>1, <1>8

-----------------------------------------------------------------------------
(* No two places of s hold the same element.                               *)
Distinct(s) == \A i, j \in 1 .. Len(s) : s[i] = s[j] => i = j

(* A sequence over a finite set without repetitions is at most as long as  *)
(* the set is large, and as long exactly if it has all of the set.         *)
LEMMA DistinctFits ==
    ASSUME NEW S, IsFiniteSet(S), NEW s \in Seq(S), Distinct(s)
    PROVE  Len(s) <= Cardinality(S) /\ (Len(s) = Cardinality(S) <=> ToSet(s) = S)
<1>1. s \in [1 .. Len(s) -> S] /\ Len(s) \in Nat /\ DOMAIN s = 1 .. Len(s) OBVIOUS
<1>2. s \in Injection(1 .. Len(s), S) BY <1>1 DEF Injection, IsInjective, Distinct
<1>3. Cardinality(1 .. Len(s)) = Len(s)
  <2>1. PICK n \in Nat : n = Len(s) BY <1>1
  <2>2. Cardinality(1 .. n) = IF 1 > n THEN 0 ELSE n - 1 + 1
    <3>1. 1 \in Int /\ n \in Int OBVIOUS
    <3> QED BY <3>1, FS_Interval
  <2>3. Cardinality(1 .. n) = n BY <2>1, <2>2
  <2> QED BY <2>1, <2>3
<1>4. /\ Cardinality(1 .. Len(s)) <= Cardinality(S)
      /\ Cardinality(1 .. Len(s)) = Cardinality(S) <=> s \in Surjection(1 .. Len(s), S)
  BY <1>2, FS_Injection
<1>5. s \in Surjection(1 .. Len(s), S) <=> ToSet(s) = S
  BY <1>1 DEF Surjection, ToSet
<1> QED BY <1>3, <1>4, <1>5

(* A listing of a finite set has its elements and no others, once each.    *)
LEMMA Listing ==
    ASSUME NEW S, IsFiniteSet(S), NEW s \in SetToSeqs(S)
    PROVE  s \in Seq(S) /\ Len(s) = Cardinality(S) /\ Distinct(s) /\ ToSet(s) = S
<1>1. Cardinality(S) \in Nat BY FS_CardinalityType
<1>2. /\ s \in [1 .. Cardinality(S) -> S]
      /\ \A i, j \in 1 .. Cardinality(S) : i # j => s[i] # s[j]
  BY DEF SetToSeqs
<1>3. s \in Seq(S) /\ Len(s) = Cardinality(S) BY <1>1, <1>2
<1>4. Distinct(s) BY <1>2, <1>3 DEF Distinct
<1> QED BY <1>3, <1>4, DistinctFits

Ascending(s) == \A i, j \in DOMAIN s : i < j => s[i] < s[j]

(* A finite set of numbers can be listed in ascending order.               *)
LEMMA AscendingExists ==
    ASSUME NEW S, S \subseteq Nat, IsFiniteSet(S)
    PROVE  \E s \in SetToSeqs(S) : Ascending(s)
<1> DEFINE T == {n \in Nat : \A U \in SUBSET Nat :
                    IsFiniteSet(U) /\ Cardinality(U) = n => \E s \in SetToSeqs(U) : Ascending(s)}
<1>1. 0 \in T
  <2> SUFFICES ASSUME NEW U \in SUBSET Nat, IsFiniteSet(U), Cardinality(U) = 0
               PROVE \E s \in SetToSeqs(U) : Ascending(s)
    OBVIOUS
  <2>1. U = {} BY FS_EmptySet
  <2> DEFINE s == [i \in 1 .. 0 |-> 0]
  <2>2. s \in SetToSeqs(U) BY <2>1 DEF SetToSeqs
  <2>3. Ascending(s) BY DEF Ascending
  <2> QED BY <2>2, <2>3
<1>2. ASSUME NEW n \in Nat, n \in T PROVE n + 1 \in T
  <2> SUFFICES ASSUME NEW U \in SUBSET Nat, IsFiniteSet(U), Cardinality(U) = n + 1
               PROVE \E s \in SetToSeqs(U) : Ascending(s)
    OBVIOUS
  <2>1. U # {} BY FS_EmptySet
  <2>2. PICK x \in U : \A y \in U : x <= y
    <3>1. U \subseteq Nat OBVIOUS
    <3> HIDE DEF T
    <3> QED BY <2>1, <3>1, LeastNumber
  <2>3. IsFiniteSet(U \ {x}) /\ Cardinality(U \ {x}) = n
    <3>1. IsFiniteSet(U \ {x}) /\ Cardinality(U \ {x}) = Cardinality(U) - 1
      BY <2>2, FS_RemoveElement
    <3> QED BY <3>1
  <2>4. PICK q \in SetToSeqs(U \ {x}) : Ascending(q) BY <1>2, <2>3
  <2>5. /\ q \in [1 .. n -> U \ {x}] /\ DOMAIN q = 1 .. n
        /\ \A i, j \in 1 .. n : i < j => q[i] < q[j]
    BY <2>3, <2>4 DEF SetToSeqs, Ascending
  <2> DEFINE s == [i \in 1 .. n + 1 |-> IF i = 1 THEN x ELSE q[i - 1]]
  <2>6. s[1] = x /\ \A i \in 1 .. n + 1 : i # 1 => s[i] = q[i - 1] /\ i - 1 \in 1 .. n
    OBVIOUS
  <2>7. \A i \in 1 .. n + 1 : i # 1 => x < s[i] /\ s[i] \in U
    <3>1. \A y \in U \ {x} : x < y BY <2>2
    <3> HIDE DEF s
    <3> QED BY <2>5, <2>6, <3>1
  <2>8. \A i, j \in 1 .. n + 1 : i < j => s[i] < s[j]
    <3> HIDE DEF s
    <3> SUFFICES ASSUME NEW i \in 1 .. n + 1, NEW j \in 1 .. n + 1, i < j PROVE s[i] < s[j]
      OBVIOUS
    <3>1. j # 1 BY SMT
    <3>2. CASE i = 1 BY <2>6, <2>7, <3>1, <3>2
    <3>3. CASE i # 1
      <4>1. i - 1 < j - 1 OBVIOUS
      <4> QED BY <2>5, <2>6, <3>1, <3>3, <4>1
    <3> QED BY <3>2, <3>3
  <2>9. s \in [1 .. n + 1 -> U]
    <3>1. \A i \in 1 .. n + 1 : s[i] \in U
      <4> HIDE DEF s
      <4> QED BY <2>2, <2>6, <2>7
    <3> QED BY <3>1
  <2>10. \A i, j \in 1 .. n + 1 : i # j => s[i] # s[j]
    <3> HIDE DEF s
    <3>1. \A i \in 1 .. n + 1 : s[i] \in Nat BY <2>9
    <3>2. \A i, j \in 1 .. n + 1 : i # j => i < j \/ j < i OBVIOUS
    <3> QED BY <2>8, <3>1, <3>2
  <2>11. s \in SetToSeqs(U)
    <3> HIDE DEF s
    <3> QED BY <2>9, <2>10 DEF SetToSeqs
  <2>12. Ascending(s)
    <3>1. DOMAIN s = 1 .. n + 1 OBVIOUS
    <3> HIDE DEF s
    <3> QED BY <2>8, <3>1 DEF Ascending
  <2> HIDE DEF s
  <2> QED BY <2>11, <2>12
<1>3. Nat \subseteq T
  <2> HIDE DEF T
  <2> QED BY <1>1, <1>2, NatSetInduction
<1> QED BY <1>3, FS_CardinalityType

-----------------------------------------------------------------------------
(* What is kept of a sequence without repetitions is in it, in its order.  *)
LEMMA RetainFacts ==
    ASSUME NEW A, NEW s \in Seq(A), NEW S
    PROVE  /\ ToSet(Retain(s, S)) = ToSet(s) \cap S
           /\ Distinct(s) => \A i, j \in 1 .. Len(Retain(s, S)) :
                 \A k, m \in 1 .. Len(s) :
                    Retain(s, S)[i] = s[k] /\ Retain(s, S)[j] = s[m] /\ k < m => i < j
<1> DEFINE r == Retain(s, S)
<1>1. r \in Seq(A) BY RetainPlaces
<1>2. PICK g \in [1 .. Len(r) -> 1 .. Len(s)] :
                 /\ \A i \in 1 .. Len(r) : r[i] = s[g[i]] /\ s[g[i]] \in S
                 /\ \A i, j \in 1 .. Len(r) : i < j => g[i] < g[j]
                 /\ \A k \in 1 .. Len(s) : s[k] \in S => \E i \in 1 .. Len(r) : g[i] = k
  BY RetainPlaces
<1> HIDE DEF r
<1>3. /\ DOMAIN r = 1 .. Len(r) /\ DOMAIN s = 1 .. Len(s)
      /\ Len(r) \in Nat /\ Len(s) \in Nat
  BY <1>1
<1>4. ToSet(r) = ToSet(s) \cap S
  <2>1. \A x : x \in ToSet(r) <=> \E i \in 1 .. Len(r) : r[i] = x BY <1>3 DEF ToSet
  <2>2. \A x : x \in ToSet(s) <=> \E k \in 1 .. Len(s) : s[k] = x BY <1>3 DEF ToSet
  <2>3. \A x \in ToSet(r) : x \in ToSet(s) \cap S BY <1>2, <2>1, <2>2
  <2>4. ASSUME NEW x \in ToSet(s) \cap S PROVE x \in ToSet(r)
    <3>1. PICK k \in 1 .. Len(s) : s[k] = x BY <2>2
    <3>2. PICK i \in 1 .. Len(r) : g[i] = k BY <1>2, <3>1
    <3> QED BY <1>2, <2>1, <3>1, <3>2
  <2> QED BY <2>3, <2>4
<1>5. ASSUME Distinct(s), NEW i \in 1 .. Len(r), NEW j \in 1 .. Len(r),
             NEW k \in 1 .. Len(s), NEW m \in 1 .. Len(s), r[i] = s[k], r[j] = s[m], k < m
      PROVE  i < j
  <2>1. g[i] = k /\ g[j] = m BY <1>2, <1>5 DEF Distinct
  <2>2. ~(j < i) /\ j # i BY <1>2, <1>3, <1>5, <2>1
  <2> QED BY <1>3, <2>2
<1> QED BY <1>4, <1>5 DEF r

-----------------------------------------------------------------------------
(* The elements of two sequences, one after the other.                     *)
LEMMA ConcatFacts ==
    ASSUME NEW A, NEW s \in Seq(A), NEW t \in Seq(A)
    PROVE  /\ s \o t \in Seq(A) /\ Len(s \o t) = Len(s) + Len(t)
           /\ \A i \in 1 .. Len(s) : (s \o t)[i] = s[i]
           /\ \A i \in 1 .. Len(t) : (s \o t)[Len(s) + i] = t[i]
           /\ ToSet(s \o t) = ToSet(s) \cup ToSet(t)
           /\ Distinct(s) /\ Distinct(t) /\ ToSet(s) \cap ToSet(t) = {} => Distinct(s \o t)
<1> DEFINE r == s \o t
<1>1. PICK m \in Nat, n \in Nat : m = Len(s) /\ n = Len(t) OBVIOUS
<1>2. /\ r \in Seq(A) /\ Len(r) = m + n
      /\ \A i \in 1 .. m : r[i] = s[i]
      /\ \A i \in 1 .. n : r[m + i] = t[i]
  BY <1>1
<1> HIDE DEF r
<1>3. /\ DOMAIN r = 1 .. m + n /\ DOMAIN s = 1 .. m /\ DOMAIN t = 1 .. n BY <1>1, <1>2
<1>4. \A k \in 1 .. m + n : k \in 1 .. m \/ k - m \in 1 .. n OBVIOUS
<1>5. \A i \in 1 .. m : i \in 1 .. m + n
  OBVIOUS
<1>6. \A i \in 1 .. n : m + i \in 1 .. m + n /\ (m + i) - m = i
  OBVIOUS
<1>7. \A k \in 1 .. m + n : k - m \in 1 .. n => r[k] = t[k - m]
  <2>1. \A k \in 1 .. m + n : m + (k - m) = k OBVIOUS
  <2> QED BY <1>2, <2>1
<1>8. ToSet(r) = ToSet(s) \cup ToSet(t)
  <2>1. \A x : x \in ToSet(r) <=> \E k \in 1 .. m + n : r[k] = x BY <1>3 DEF ToSet
  <2>2. \A x : x \in ToSet(s) <=> \E k \in 1 .. m : s[k] = x BY <1>3 DEF ToSet
  <2>3. \A x : x \in ToSet(t) <=> \E k \in 1 .. n : t[k] = x BY <1>3 DEF ToSet
  <2>4. \A x \in ToSet(r) : x \in ToSet(s) \cup ToSet(t) BY <1>2, <1>4, <1>7, <2>1, <2>2, <2>3
  <2>5. \A x \in ToSet(s) : x \in ToSet(r) BY <1>2, <1>5, <2>1, <2>2
  <2>6. \A x \in ToSet(t) : x \in ToSet(r) BY <1>2, <1>6, <2>1, <2>3
  <2> QED BY <2>4, <2>5, <2>6
<1>9. ASSUME Distinct(s), Distinct(t), ToSet(s) \cap ToSet(t) = {} PROVE Distinct(r)
  <2>1. \A i \in 1 .. m : s[i] \in ToSet(s) BY <1>3 DEF ToSet
  <2>2. \A i \in 1 .. n : t[i] \in ToSet(t) BY <1>3 DEF ToSet
  <2>3. ASSUME NEW i \in 1 .. m + n, NEW k \in 1 .. m + n, r[i] = r[k] PROVE i = k
    <3>1. CASE i \in 1 .. m /\ k \in 1 .. m BY <1>1, <1>2, <1>9, <2>3, <3>1 DEF Distinct
    <3>2. CASE i - m \in 1 .. n /\ k - m \in 1 .. n
      <4>1. i - m = k - m BY <1>1, <1>7, <1>9, <2>3, <3>2 DEF Distinct
      <4> QED BY <4>1
    <3>3. CASE i \in 1 .. m /\ k - m \in 1 .. n BY <1>2, <1>7, <1>9, <2>1, <2>2, <2>3, <3>3
    <3>4. CASE i - m \in 1 .. n /\ k \in 1 .. m BY <1>2, <1>7, <1>9, <2>1, <2>2, <2>3, <3>4
    <3> QED BY <1>4, <3>1, <3>2, <3>3, <3>4
  <2> QED BY <1>2, <2>3 DEF Distinct
<1> QED BY <1>1, <1>2, <1>8, <1>9 DEF r

(* Concatenation under a name: the provers unfold \o and miss the law.     *)
Cat(s, t) == s \o t

(* Concatenation is associative.                                           *)
LEMMA ConcatAgain ==
    ASSUME NEW A, NEW a \in Seq(A), NEW b \in Seq(A), NEW c \in Seq(A)
    PROVE  Cat(Cat(a, b), c) = Cat(a, Cat(b, c)) /\ Cat(a, b) \in Seq(A)
<1> DEFINE l == (a \o b) \o c
           r == a \o (b \o c)
<1>1. PICK m \in Nat, n \in Nat, k \in Nat : m = Len(a) /\ n = Len(b) /\ k = Len(c) OBVIOUS
<1>2. a \o b \in Seq(A) /\ b \o c \in Seq(A) /\ Len(a \o b) = m + n /\ Len(b \o c) = n + k
  BY <1>1
<1>3. l \in Seq(A) /\ r \in Seq(A) /\ Len(l) = m + n + k /\ Len(r) = m + n + k BY <1>1, <1>2
<1>4. ASSUME NEW i \in 1 .. m + n + k PROVE l[i] = r[i]
  <2>1. CASE i \in 1 .. m BY <1>1, <1>2, <2>1
  <2>2. CASE i \in m + 1 .. m + n BY <1>1, <1>2, <2>2
  <2>3. CASE i \in m + n + 1 .. m + n + k BY <1>1, <1>2, <2>3
  <2>4. i \in 1 .. m \/ i \in m + 1 .. m + n \/ i \in m + n + 1 .. m + n + k OBVIOUS
  <2> QED BY <2>1, <2>2, <2>3, <2>4
<1> HIDE DEF l, r
<1>5. l = r
  <2>1. /\ l = [i \in 1 .. m + n + k |-> l[i]] /\ r = [i \in 1 .. m + n + k |-> r[i]] BY <1>3
  <2> QED BY <1>4, <2>1
<1> QED BY <1>2, <1>5, Zenon DEF l, r, Cat

(* Moving the head of one sequence to the end of another.                  *)
LEMMA HeadMoves ==
    ASSUME NEW A, NEW s \in Seq(A), NEW t \in Seq(A), NEW u \in Seq(A), t # <<>>
    PROVE  /\ Head(t) \in A /\ Tail(t) \in Seq(A) /\ Append(s, Head(t)) \in Seq(A)
           /\ ToSet(Append(s, Head(t))) = ToSet(s) \cup {Head(t)}
           /\ ToSet(t) = {Head(t)} \cup ToSet(Tail(t))
           /\ Append(s, Head(t)) \o (Tail(t) \o u) = (s \o t) \o u
           /\ (s \o t)[Len(s) + 1] = Head(t)
<1>1. Head(t) \in A /\ Tail(t) \in Seq(A) /\ <<Head(t)>> \in Seq(A) OBVIOUS
<1>2. PICK h \in Seq(A) : h = <<Head(t)>> BY <1>1, Zenon
<1>3. PICK r \in Seq(A) : r = Tail(t) BY <1>1, Zenon
<1>4. Append(s, Head(t)) = Cat(s, h) BY <1>1, <1>2 DEF Cat
<1>5. t = Cat(h, r)
  <2>1. t = <<Head(t)>> \o Tail(t) OBVIOUS
  <2> QED BY <1>2, <1>3, <2>1 DEF Cat
<1>6. \A a, b, c \in Seq(A) : Cat(Cat(a, b), c) = Cat(a, Cat(b, c)) /\ Cat(a, b) \in Seq(A)
  BY ConcatAgain
<1>7. Cat(Cat(s, h), Cat(r, u)) = Cat(Cat(s, t), u)
  <2>1. Cat(s, h) \in Seq(A) BY <1>6
  <2>2. Cat(Cat(s, h), Cat(r, u)) = Cat(Cat(Cat(s, h), r), u) BY <1>6, <2>1
  <2>3. Cat(Cat(s, h), r) = Cat(s, Cat(h, r)) BY <1>6
  <2> QED BY <1>5, <2>2, <2>3
<1>8. ToSet(h) = {Head(t)} BY <1>2 DEF ToSet
<1>9. ToSet(Cat(s, h)) = ToSet(s) \cup ToSet(h) BY ConcatFacts DEF Cat
<1>10. ToSet(Cat(h, r)) = ToSet(h) \cup ToSet(r) BY ConcatFacts DEF Cat
<1>11. (s \o t)[Len(s) + 1] = Head(t)
  <2>1. 1 \in 1 .. Len(t) /\ t[1] = Head(t) OBVIOUS
  <2> QED BY <2>1, ConcatFacts
<1>12. Append(s, Head(t)) \o (Tail(t) \o u) = (s \o t) \o u
  <2>1. Cat(Append(s, Head(t)), Cat(Tail(t), u)) = Cat(Cat(s, t), u) BY <1>3, <1>4, <1>7
  <2> QED BY <2>1, Zenon DEF Cat
<1>13. ToSet(Append(s, Head(t))) = ToSet(s) \cup {Head(t)} BY <1>4, <1>8, <1>9
<1>14. ToSet(t) = {Head(t)} \cup ToSet(Tail(t)) BY <1>3, <1>5, <1>8, <1>10
<1>15. Append(s, Head(t)) \in Seq(A) BY <1>1
<1> QED BY <1>1, <1>11, <1>12, <1>13, <1>14, <1>15, Zenon

(* A new element at the end of a sequence.                                 *)
LEMMA AppendFacts ==
    ASSUME NEW A, NEW s \in Seq(A), NEW x \in A
    PROVE  /\ Append(s, x) \in Seq(A) /\ Len(Append(s, x)) = Len(s) + 1
           /\ Append(s, x)[Len(s) + 1] = x
           /\ \A i \in 1 .. Len(s) : Append(s, x)[i] = s[i]
           /\ ToSet(Append(s, x)) = ToSet(s) \cup {x}
<1> DEFINE r == Append(s, x)
<1>1. PICK n \in Nat : n = Len(s) OBVIOUS
<1>2. /\ r \in Seq(A) /\ Len(r) = n + 1 /\ r[n + 1] = x
      /\ \A i \in 1 .. n : r[i] = s[i]
  BY <1>1
<1> HIDE DEF r
<1>3. DOMAIN r = 1 .. n + 1 /\ DOMAIN s = 1 .. n BY <1>1, <1>2
<1>4. \A i \in 1 .. n + 1 : i \in 1 .. n \/ i = n + 1 BY <1>1
<1>5. \A i \in 1 .. n : i \in 1 .. n + 1 BY <1>1
<1>6. n + 1 \in 1 .. n + 1 BY <1>1
<1>7. ToSet(r) \subseteq ToSet(s) \cup {x} BY <1>2, <1>3, <1>4 DEF ToSet
<1>8. ToSet(s) \subseteq ToSet(r) BY <1>2, <1>3, <1>5 DEF ToSet
<1>9. x \in ToSet(r) BY <1>2, <1>3, <1>6 DEF ToSet
<1> QED BY <1>1, <1>2, <1>7, <1>8, <1>9 DEF r

(* The last place of a sequence, and what precedes it.                     *)
LEMMA LastPlace ==
    ASSUME NEW A, NEW s \in Seq(A), s # <<>>
    PROVE  /\ Len(s) \in Nat \ {0} /\ Last(s) = s[Len(s)] /\ Last(s) \in A
           /\ Front(s) \in Seq(A) /\ Len(Front(s)) = Len(s) - 1
           /\ \A i \in 1 .. Len(s) - 1 : Front(s)[i] = s[i]
<1>1. Len(s) \in Nat \ {0} OBVIOUS
<1>2. Last(s) = s[Len(s)] /\ Last(s) \in A BY <1>1 DEF Last
<1>3. Front(s) = SubSeq(s, 1, Len(s) - 1) BY DEF Front
<1>4. PICK n \in Nat \ {0} : n = Len(s) BY <1>1
<1>5. SubSeq(s, 1, n - 1) = [i \in 1 .. n - 1 |-> s[i]] BY <1>4
<1>6. \A i \in 1 .. n - 1 : s[i] \in A BY <1>4
<1> QED BY <1>1, <1>2, <1>3, <1>4, <1>5, <1>6
=============================================================================
