--------------------------- MODULE SequenceLemmas ---------------------------
(***************************************************************************)
(* Facts about the community modules' operators on sets of numbers and on  *)
(* sequences, for the other proof modules.                                 *)
(***************************************************************************)
EXTENDS SequencesExt, Integers, SequenceTheorems, FiniteSetTheorems,
        WellFoundedInduction, TLAPS

(* A non-empty set of naturals has a least element.                        *)
LEMMA HasLeast ==
    ASSUME NEW S \in SUBSET Nat, S # {}
    PROVE  \E m \in S : \A x \in S : m <= x
<1>1. PICK m \in S : \A x \in S : ~ (<<x, m>> \in OpToRel(<, Nat))
  BY NatLessThanWellFounded, WFMin
<1>2. \A x \in S : x < m => <<x, m>> \in OpToRel(<, Nat)
  BY DEF OpToRel
<1>3. ASSUME NEW x \in S PROVE m <= x
  <2>1. ~ (x < m)
    BY <1>1, <1>2
  <2> QED BY <2>1
<1> QED BY <1>3

LEMMA MinIsLeast ==
    ASSUME NEW S \in SUBSET Nat, S # {}
    PROVE  Min(S) \in S /\ \A x \in S : Min(S) <= x
BY HasLeast DEF Min

(* A bounded one has a greatest element too.                               *)
LEMMA MaxIsGreatest ==
    ASSUME NEW bound \in Nat, NEW S \in SUBSET (0 .. bound), S # {}
    PROVE  Max(S) \in S /\ \A x \in S : x <= Max(S)
<1> DEFINE T == {bound - x : x \in S}
<1>1. \A x \in S : x \in Nat /\ x <= bound
  OBVIOUS
<1>2. T \in SUBSET Nat /\ T # {}
  <2>1. \A x \in S : bound - x \in Nat
    BY <1>1
  <2> QED BY <2>1
<1>3. PICK t \in T : \A x \in T : t <= x
  BY <1>2, HasLeast
<1>4. PICK m \in S : t = bound - m
  OBVIOUS
<1>5. ASSUME NEW x \in S PROVE x <= m
  <2>1. bound - x \in T
    OBVIOUS
  <2>2. bound - m <= bound - x
    BY <2>1, <1>3, <1>4
  <2> QED BY <2>2, <1>1
<1> QED BY <1>5 DEF Max

(* The smaller of two numbers, as a slice of a sequence has it.            *)
LEMMA MinOfTwo ==
    ASSUME NEW a \in Nat, NEW b \in Nat
    PROVE  Min({a, b}) = IF a <= b THEN a ELSE b
<1>1. Min({a, b}) \in {a, b} /\ \A x \in {a, b} : Min({a, b}) <= x
  BY MinIsLeast
<1> QED BY <1>1

-----------------------------------------------------------------------------
(* A sequence in SetToSeqs(S) lists every element of S once.               *)
LEMMA Listing ==
    ASSUME NEW S, IsFiniteSet(S), NEW s \in SetToSeqs(S)
    PROVE  /\ s \in Seq(S)
           /\ Cardinality(S) \in Nat
           /\ Len(s) = Cardinality(S)
           /\ DOMAIN s = 1 .. Cardinality(S)
           /\ \A i, j \in DOMAIN s : s[i] = s[j] => i = j
           /\ \A x \in S : \E i \in DOMAIN s : s[i] = x
<1> DEFINE n == Cardinality(S)
<1>1. n \in Nat
  BY FS_CardinalityType
<1>2. s \in [1 .. n -> S] /\ \A i, j \in 1 .. n : i # j => s[i] # s[j]
  BY DEF SetToSeqs
<1>3. s \in Seq(S) /\ Len(s) = n /\ DOMAIN s = 1 .. n
  <2>1. s \in Seq(S)
    BY <1>1, <1>2, SeqDef
  <2>2. DOMAIN s = 1 .. n
    BY <1>2
  <2> QED BY <1>1, <2>1, <2>2, LenProperties
<1>4. s \in Injection(1 .. n, S)
  BY <1>2 DEF Injection, IsInjective
<1>5. IsFiniteSet(1 .. n) /\ Cardinality(1 .. n) = n
  BY <1>1, FS_Interval
<1>6. s \in Surjection(1 .. n, S)
  BY <1>4, <1>5, FS_Injection
<1> QED BY <1>1, <1>2, <1>3, <1>6 DEF Surjection

(* A sequence that lists every element of a set once is in SetToSeqs.      *)
LEMMA IsListing ==
    ASSUME NEW S, NEW n \in Nat, NEW s \in [1 .. n -> S],
           \A i, j \in 1 .. n : s[i] = s[j] => i = j,
           \A x \in S : \E i \in 1 .. n : s[i] = x
    PROVE  /\ IsFiniteSet(S)
           /\ Cardinality(S) = n
           /\ s \in SetToSeqs(S)
<1>1. s \in Bijection(1 .. n, S)
  BY DEF Bijection, Injection, Surjection, IsInjective
<1>2. IsFiniteSet(1 .. n) /\ Cardinality(1 .. n) = n
  BY FS_Interval
<1>3. ExistsBijection(1 .. n, S)
  BY <1>1 DEF ExistsBijection
<1>4. IsFiniteSet(S) /\ Cardinality(S) = n
  BY <1>2, <1>3, FS_Bijection
<1> QED BY <1>4 DEF SetToSeqs

(* The images of the listed elements list the image of the set.            *)
LEMMA MappedListing ==
    ASSUME NEW S, IsFiniteSet(S), NEW f, \A a, b \in S : f[a] = f[b] => a = b,
           NEW order \in SetToSeqs(S), NEW T, T = {f[x] : x \in S}
    PROVE  /\ [k \in DOMAIN order |-> f[order[k]]] \in SetToSeqs(T)
           /\ IsFiniteSet(T)
           /\ Cardinality(T) = Cardinality(S)
<1> DEFINE n == Cardinality(S)
           s == [k \in DOMAIN order |-> f[order[k]]]
<1>1. /\ order \in Seq(S)
      /\ n \in Nat
      /\ Len(order) = n
      /\ DOMAIN order = 1 .. n
      /\ \A i, j \in DOMAIN order : order[i] = order[j] => i = j
      /\ \A x \in S : \E i \in DOMAIN order : order[i] = x
  BY Listing
<1> HIDE DEF n
<1>2. \A k \in 1 .. n : order[k] \in S
  BY <1>1, ElementOfSeq
<1>3. s \in [1 .. n -> T] /\ \A k \in 1 .. n : s[k] = f[order[k]]
  BY <1>1, <1>2
<1> HIDE DEF s
<1>4. \A i, j \in 1 .. n : s[i] = s[j] => i = j
  <2> SUFFICES ASSUME NEW i \in 1 .. n, NEW j \in 1 .. n, s[i] = s[j]
               PROVE  i = j
    OBVIOUS
  <2>1. f[order[i]] = f[order[j]] /\ order[i] \in S /\ order[j] \in S
    BY <1>2, <1>3
  <2>2. order[i] = order[j]
    BY <2>1
  <2> QED BY <1>1, <2>2
<1>5. ASSUME NEW x \in T PROVE \E k \in 1 .. n : s[k] = x
  <2>1. PICK a \in S : x = f[a]
    OBVIOUS
  <2>2. PICK k \in 1 .. n : order[k] = a
    BY <1>1
  <2> QED BY <1>3, <2>1, <2>2
<1>6. IsFiniteSet(T) /\ Cardinality(T) = n /\ s \in SetToSeqs(T)
  <2>1. n \in Nat /\ s \in [1 .. n -> T]
    BY <1>1, <1>3
  <2>2. \A x \in T : \E k \in 1 .. n : s[k] = x
    BY <1>5
  <2> QED BY <1>4, <2>1, <2>2, IsListing
<1> QED BY <1>6 DEF s, n

(* Every strict total order sorts every finite set: the element with k - 1 *)
(* others before it is at place k.                                         *)
LEMMA SortedExists ==
    ASSUME NEW S, IsFiniteSet(S), NEW R,
           \A x \in S : <<x, x>> \notin R,
           \A x, y \in S : x = y \/ <<x, y>> \in R \/ <<y, x>> \in R,
           \A x, y, z \in S : <<x, y>> \in R /\ <<y, z>> \in R => <<x, z>> \in R
    PROVE  \E s \in SetToSeqs(S) :
               \A i, j \in DOMAIN s : i < j => <<s[i], s[j]>> \in R
<1> DEFINE n == Cardinality(S)
           Below(x) == {y \in S : <<y, x>> \in R}
           place == [x \in S |-> Cardinality(Below(x)) + 1]
<1>1. n \in Nat
  BY FS_CardinalityType
<1>2. ASSUME NEW x \in S
      PROVE  /\ IsFiniteSet(Below(x))
             /\ Cardinality(Below(x)) \in Nat
             /\ place[x] \in 1 .. n
  <2>1. Below(x) \in SUBSET S /\ x \notin Below(x)
    OBVIOUS
  <2> HIDE DEF Below
  <2>2. IsFiniteSet(Below(x)) /\ Cardinality(Below(x)) \in Nat
    BY <2>1, FS_Subset, FS_CardinalityType
  <2>3. Cardinality(Below(x)) < n
    BY <1>1, <2>1, <2>2, FS_Subset
  <2> QED BY <1>1, <2>2, <2>3
<1>3. ASSUME NEW x \in S, NEW y \in S, <<x, y>> \in R
      PROVE  place[x] < place[y]
  <2>1. Below(x) \in SUBSET Below(y)
    BY <1>3
  <2>2. x \in Below(y) /\ x \notin Below(x)
    BY <1>3
  <2> HIDE DEF Below
  <2>3. Cardinality(Below(x)) < Cardinality(Below(y))
    BY <1>2, <2>1, <2>2, FS_Subset
  <2> QED BY <1>2, <2>3
<1>4. ASSUME NEW x \in S, NEW y \in S, place[x] = place[y]
      PROVE  x = y
  <2> HIDE DEF place, n, Below
  <2>1. place[x] \in Nat /\ place[y] \in Nat
    BY <1>1, <1>2
  <2>2. <<x, y>> \notin R /\ <<y, x>> \notin R
    BY <1>3, <1>4, <2>1
  <2> QED BY <2>2
<1>5. place \in Injection(S, 1 .. n)
  BY <1>2, <1>4 DEF Injection, IsInjective
<1>6. IsFiniteSet(1 .. n) /\ Cardinality(1 .. n) = n
  BY <1>1, FS_Interval
<1>7. place \in Surjection(S, 1 .. n)
  BY <1>5, <1>6, FS_Injection
<1>8. \A i \in 1 .. n : \E x \in S : place[x] = i
  BY <1>7 DEF Surjection
<1> DEFINE s == [i \in 1 .. n |-> CHOOSE x \in S : place[x] = i]
<1>9. \A i \in 1 .. n : s[i] \in S /\ place[s[i]] = i
  BY <1>8
<1>10. s \in [1 .. n -> S] /\ DOMAIN s = 1 .. n
  BY <1>9
<1>11. \A i, j \in 1 .. n : i # j => s[i] # s[j]
  BY <1>9
<1>12. s \in SetToSeqs(S)
  BY <1>10, <1>11 DEF SetToSeqs
<1>13. ASSUME NEW i \in 1 .. n, NEW j \in 1 .. n, i < j
       PROVE  <<s[i], s[j]>> \in R
  <2> HIDE DEF s, place
  <2>1. s[i] \in S /\ s[j] \in S /\ s[i] # s[j]
    BY <1>9, <1>11, <1>13
  <2>2. CASE <<s[j], s[i]>> \in R
    <3>1. place[s[j]] < place[s[i]]
      BY <1>3, <2>1, <2>2
    <3> QED BY <1>9, <1>13, <3>1
  <2> QED BY <2>1, <2>2
<1> QED BY <1>10, <1>12, <1>13

-----------------------------------------------------------------------------
(* Finitely many naturals can be listed in ascending order.                *)
LEMMA AscendingExists ==
    ASSUME NEW S \in SUBSET Nat, IsFiniteSet(S)
    PROVE  \E s \in SetToSeqs(S) : \A i, j \in 1 .. Len(s) : i < j => s[i] < s[j]
<1> DEFINE R == {p \in S \X S : p[1] < p[2]}
<1>0. \A x, y \in S : <<x, y>> \in R <=> x < y
  OBVIOUS
<1> HIDE DEF R
<1>1. PICK s \in SetToSeqs(S) : \A i, j \in DOMAIN s : i < j => <<s[i], s[j]>> \in R
  <2>1. /\ \A x \in S : <<x, x>> \notin R
        /\ \A x, y \in S : x = y \/ <<x, y>> \in R \/ <<y, x>> \in R
        /\ \A x, y, z \in S : <<x, y>> \in R /\ <<y, z>> \in R => <<x, z>> \in R
    BY <1>0
  <2> QED BY <2>1, SortedExists
<1>2. DOMAIN s = 1 .. Len(s) /\ \A i \in DOMAIN s : s[i] \in S
  BY Listing, LenProperties, ElementOfSeq
<1> QED BY <1>0, <1>1, <1>2

(* The last of them is the greatest.                                       *)
LEMMA HasGreatest ==
    ASSUME NEW S \in SUBSET Nat, IsFiniteSet(S), S # {}
    PROVE  Max(S) \in S /\ \A x \in S : x <= Max(S)
<1>1. PICK s \in SetToSeqs(S) : \A i, j \in 1 .. Len(s) : i < j => s[i] < s[j]
  BY AscendingExists
<1> DEFINE n == Cardinality(S)
<1>2. /\ n \in Nat /\ Len(s) = n /\ DOMAIN s = 1 .. n
      /\ \A x \in S : \E i \in DOMAIN s : s[i] = x
  BY Listing
<1> HIDE DEF n
<1>3. \A i \in 1 .. n : s[i] \in S
  BY <1>2, Listing, ElementOfSeq
<1>4. n \in 1 .. n
  <2>1. PICK i \in 1 .. n : s[i] \in S
    BY <1>2, <1>3
  <2> QED BY <1>2, <2>1
<1>5. ASSUME NEW x \in S PROVE x <= s[n]
  <2>1. PICK i \in 1 .. n : s[i] = x
    BY <1>2
  <2>2. s[i] \in Nat /\ s[n] \in Nat
    BY <1>3, <1>4
  <2>3. i = n \/ s[i] < s[n]
    BY <1>1, <1>2, <1>4
  <2> QED BY <2>1, <2>2, <2>3
<1> QED BY <1>3, <1>4, <1>5 DEF Max

(* SetToSeq picks one of the sequences that list a set.                    *)
LEMMA SetToSeqLists ==
    ASSUME NEW S, IsFiniteSet(S)
    PROVE  SetToSeq(S) \in SetToSeqs(S)
<1> DEFINE n == Cardinality(S)
<1>1. n \in Nat /\ ExistsBijection(1 .. n, S)
  BY FS_CardinalityType
<1>2. PICK f \in [1 .. n -> S] : IsInjective(f)
  BY <1>1 DEF ExistsBijection, Bijection, Injection
<1>3. SetToSeq(S) \in [1 .. n -> S] /\ IsInjective(SetToSeq(S))
  BY <1>2 DEF SetToSeq
<1> QED BY <1>3 DEF SetToSeqs, IsInjective
=============================================================================
