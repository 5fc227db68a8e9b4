------------------------ MODULE Harmonization_proofs ------------------------
(***************************************************************************)
(* Proofs about Harmonization, for all years, populations and visitor      *)
(* records.                                                                *)
(*                                                                         *)
(* A value of the least squares line is a weighted mean of the populations *)
(* (Weighted).  Between the first and the last year the negative weights   *)
(* are small by Cauchy's inequality (NegativeWithin), and the filter keeps *)
(* three populations or more within a factor of two (FilteredSeries), so   *)
(* the line stays near them (FitInRange).                                  *)
(***************************************************************************)
EXTENDS Harmonization, SequenceLemmas

-----------------------------------------------------------------------------
(* Induction over the subsets of a finite set: what contains the empty set *)
(* and, with a set, that set with one more element, contains them all.     *)
LEMMA SubsetInduction ==
    ASSUME NEW S, IsFiniteSet(S), NEW good, {} \in good,
           \A T \in SUBSET S : \A x \in S \ T : T \in good => T \cup {x} \in good
    PROVE  S \in good
<1> DEFINE bad == {n \in Nat : \E T \in SUBSET S : T \notin good /\ Cardinality(T) = n}
<1>1. SUFFICES ASSUME S \notin good
               PROVE  FALSE
  OBVIOUS
<1>2. Cardinality(S) \in bad
  BY <1>1, FS_CardinalityType
<1>3. PICK n \in bad : \A m \in bad : n <= m
  BY <1>2, HasLeast
<1>4. PICK T \in SUBSET S : T \notin good /\ Cardinality(T) = n
  OBVIOUS
<1>5. IsFiniteSet(T) /\ n \in Nat
  BY FS_Subset
<1>6. PICK x : x \in T
  BY <1>4
<1>7. IsFiniteSet(T \ {x}) /\ Cardinality(T \ {x}) = n - 1 /\ Cardinality(T \ {x}) \in Nat
  BY <1>4, <1>5, <1>6, FS_RemoveElement, FS_CardinalityType
<1>8. T \ {x} \in good
  <2>1. SUFFICES ASSUME T \ {x} \notin good
                 PROVE  FALSE
    OBVIOUS
  <2>2. n - 1 \in bad
    BY <1>7, <2>1
  <2> HIDE DEF bad
  <2> QED BY <1>3, <1>5, <2>2
<1>9. (T \ {x}) \cup {x} \in good
  BY <1>6, <1>8
<1> QED BY <1>4, <1>6, <1>9

-----------------------------------------------------------------------------
(* Sums.  MapThenSumSet takes the elements one by one, in the order in     *)
(* which CHOOSE picks them: partial sums are a function that satisfies its *)
(* recursive definition.                                                   *)
Pick(T) == CHOOSE x \in T : TRUE

PartialSums(w, S, h) ==
    h = [T \in SUBSET S |-> IF T = {} THEN 0 ELSE w[Pick(T)] + h[T \ {Pick(T)}]]

(* What Pick picks is an element.                                          *)
LEMMA PickIn == \A T : T # {} => Pick(T) \in T
BY DEF Pick

(* There is such a function: it grows with the size of the sets.           *)
LEMMA PartialSumsExist ==
    ASSUME NEW S, IsFiniteSet(S), NEW w
    PROVE  \E h : PartialSums(w, S, h)
<1> DEFINE Upto(n) == {T \in SUBSET S : Cardinality(T) <= n}
           Good(n, h) == h = [T \in Upto(n) |->
                                 IF T = {} THEN 0 ELSE w[Pick(T)] + h[T \ {Pick(T)}]]
           bad == {n \in Nat : ~\E h : Good(n, h)}
<1>0. \A T \in SUBSET S : IsFiniteSet(T) /\ Cardinality(T) \in Nat
  BY FS_Subset, FS_CardinalityType
<1>1. \E h : Good(0, h)
  <2> DEFINE h == [T \in Upto(0) |-> 0]
  <2>1. \A T \in Upto(0) : T = {}
    BY <1>0, FS_EmptySet
  <2>2. Good(0, h)
    BY <2>1
  <2> QED BY <2>2
<1>2. ASSUME NEW n \in Nat, \E h : Good(n, h)
      PROVE  \E h : Good(n + 1, h)
  <2>1. PICK h : Good(n, h)
    BY <1>2
  <2> DEFINE more == [T \in Upto(n + 1) |->
                         IF T = {} THEN 0 ELSE w[Pick(T)] + h[T \ {Pick(T)}]]
  <2>2. \A T \in Upto(n) : T \in Upto(n + 1) /\ more[T] = h[T]
    <3> SUFFICES ASSUME NEW T \in Upto(n)
                 PROVE  T \in Upto(n + 1) /\ more[T] = h[T]
      OBVIOUS
    <3>1. Cardinality(T) \in Nat /\ Cardinality(T) <= n
      BY <1>0
    <3>2. T \in Upto(n + 1)
      BY <3>1
    <3>3. h[T] = IF T = {} THEN 0 ELSE w[Pick(T)] + h[T \ {Pick(T)}]
      BY <2>1
    <3> QED BY <3>2, <3>3
  <2>3. \A T \in Upto(n + 1) : T # {} => T \ {Pick(T)} \in Upto(n)
    <3> SUFFICES ASSUME NEW T \in Upto(n + 1), T # {}
                 PROVE  T \ {Pick(T)} \in Upto(n)
      OBVIOUS
    <3>1. IsFiniteSet(T) /\ Cardinality(T) \in Nat /\ Cardinality(T) <= n + 1
      BY <1>0
    <3>2. Pick(T) \in T
      BY PickIn
    <3>3. Cardinality(T \ {Pick(T)}) = Cardinality(T) - 1
      BY <3>1, <3>2, FS_RemoveElement
    <3> QED BY <3>1, <3>3
  <2>4. \A T \in Upto(n + 1) :
            more[T] = IF T = {} THEN 0 ELSE w[Pick(T)] + more[T \ {Pick(T)}]
    BY <2>2, <2>3
  <2>5. Good(n + 1, more)
    <3> DEFINE again == [T \in Upto(n + 1) |->
                            IF T = {} THEN 0 ELSE w[Pick(T)] + more[T \ {Pick(T)}]]
    <3>1. more = again
      <4> HIDE DEF Upto
      <4> QED BY <2>4
    <3> QED BY <3>1
  <2> QED BY <2>5
<1>3. bad = {}
  <2>1. SUFFICES ASSUME bad # {}
                 PROVE  FALSE
    OBVIOUS
  <2>2. bad \subseteq Nat
    OBVIOUS
  <2>3. PICK n \in bad : \A m \in bad : n <= m
    <3> HIDE DEF bad
    <3> QED BY <2>1, <2>2, HasLeast
  <2>4. n # 0
    BY <1>1
  <2>5. n - 1 \in Nat /\ n - 1 \notin bad
    <3>1. n \in Nat
      BY <2>2
    <3> HIDE DEF bad
    <3> QED BY <2>3, <2>4, <3>1
  <2>6. \E h : Good(n - 1, h)
    BY <2>5
  <2>7. \E h : Good((n - 1) + 1, h)
    <3> HIDE DEF Good, bad
    <3> QED BY <1>2, <2>5, <2>6
  <2>8. (n - 1) + 1 = n
    BY <2>2
  <2> QED BY <2>7, <2>8
<1>4. PICK h : Good(Cardinality(S), h)
  BY <1>0, <1>3
<1>5. Upto(Cardinality(S)) = SUBSET S
  BY FS_Subset
<1> QED BY <1>4, <1>5 DEF PartialSums

(* There is only one, on the sets where two are defined.                   *)
LEMMA PartialSumsUnique ==
    ASSUME NEW w, NEW S, NEW R, NEW h, NEW g, PartialSums(w, S, h), PartialSums(w, R, g),
           NEW T, IsFiniteSet(T), T \subseteq S, T \subseteq R
    PROVE  h[T] = g[T]
<1> DEFINE bad == {n \in Nat : \E U \in SUBSET T : h[U] # g[U] /\ Cardinality(U) = n}
<1>1. SUFFICES ASSUME h[T] # g[T]
               PROVE  FALSE
  OBVIOUS
<1>2. Cardinality(T) \in bad
  BY <1>1, FS_CardinalityType
<1>3. PICK n \in bad : \A m \in bad : n <= m
  BY <1>2, HasLeast
<1>4. PICK U \in SUBSET T : h[U] # g[U] /\ Cardinality(U) = n
  OBVIOUS
<1>5. IsFiniteSet(U) /\ n \in Nat
  BY FS_Subset
<1>6. /\ h[U] = IF U = {} THEN 0 ELSE w[Pick(U)] + h[U \ {Pick(U)}]
      /\ g[U] = IF U = {} THEN 0 ELSE w[Pick(U)] + g[U \ {Pick(U)}]
  <2>1. U \in SUBSET S /\ U \in SUBSET R
    OBVIOUS
  <2> QED BY <2>1 DEF PartialSums
<1>7. U # {} /\ h[U \ {Pick(U)}] # g[U \ {Pick(U)}]
  BY <1>4, <1>6
<1>8. Pick(U) \in U
  BY <1>7, PickIn
<1>9. Cardinality(U \ {Pick(U)}) = n - 1 /\ Cardinality(U \ {Pick(U)}) \in Nat
  BY <1>4, <1>5, <1>8, FS_RemoveElement, FS_CardinalityType
<1>10. n - 1 \in bad
  BY <1>7, <1>9
<1> HIDE DEF bad
<1> QED BY <1>3, <1>5, <1>10

(* MapThenSumSet is the last of the partial sums.                          *)
LEMMA SumIsPartial ==
    ASSUME NEW S, IsFiniteSet(S), NEW w
    PROVE  \E h : PartialSums(w, S, h) /\ Total(w, S) = h[S]
<1>1. PICK g : PartialSums(w, S, g)
  BY PartialSumsExist
<1>2. g = [T \in SUBSET S |-> IF T = {} THEN 0
                               ELSE w[CHOOSE x \in T : TRUE] + g[T \ {CHOOSE x \in T : TRUE}]]
  BY <1>1, Zenon DEF PartialSums, Pick
<1>3. \E h : /\ h = [T \in SUBSET S |->
                        IF T = {} THEN 0
                        ELSE w[CHOOSE x \in T : TRUE] + h[T \ {CHOOSE x \in T : TRUE}]]
             /\ Total(w, S) = h[S]
  BY <1>2, Zenon DEF Total, MapThenSumSet, MapThenFoldSet
<1> QED BY <1>3, Zenon DEF PartialSums, Pick

(* So it satisfies their recursive definition.                             *)
LEMMA SumPick ==
    ASSUME NEW S, IsFiniteSet(S), NEW w
    PROVE  Total(w, S) = IF S = {} THEN 0 ELSE w[Pick(S)] + Total(w, S \ {Pick(S)})
<1>1. PICK h : PartialSums(w, S, h) /\ Total(w, S) = h[S]
  BY SumIsPartial
<1>2. h[S] = IF S = {} THEN 0 ELSE w[Pick(S)] + h[S \ {Pick(S)}]
  BY <1>1 DEF PartialSums
<1>3. IsFiniteSet(S \ {Pick(S)})
  BY FS_RemoveElement
<1>4. PICK g : PartialSums(w, S \ {Pick(S)}, g) /\ Total(w, S \ {Pick(S)}) = g[S \ {Pick(S)}]
  BY <1>3, SumIsPartial
<1>5. h[S \ {Pick(S)}] = g[S \ {Pick(S)}]
  BY <1>1, <1>3, <1>4, PartialSumsUnique
<1> QED BY <1>1, <1>2, <1>4, <1>5

(* Nothing adds up to zero.                                                *)
LEMMA SumEmpty == \A w : Total(w, {}) = 0
BY SumPick, FS_EmptySet

(* A sum of integers is an integer.                                        *)
LEMMA SumType ==
    ASSUME NEW S, IsFiniteSet(S), NEW w, \A x \in S : w[x] \in Int
    PROVE  Total(w, S) \in Int
<1> DEFINE bad == {n \in Nat : \E T \in SUBSET S : Total(w, T) \notin Int /\ Cardinality(T) = n}
<1>1. SUFFICES ASSUME Total(w, S) \notin Int
               PROVE  FALSE
  OBVIOUS
<1>2. Cardinality(S) \in bad
  BY <1>1, FS_CardinalityType
<1>3. PICK n \in bad : \A m \in bad : n <= m
  BY <1>2, HasLeast
<1>4. PICK T \in SUBSET S : Total(w, T) \notin Int /\ Cardinality(T) = n
  OBVIOUS
<1>5. IsFiniteSet(T) /\ n \in Nat
  BY FS_Subset
<1>6. Total(w, T) = IF T = {} THEN 0 ELSE w[Pick(T)] + Total(w, T \ {Pick(T)})
  BY <1>5, SumPick
<1>7. T # {}
  BY <1>4, <1>6
<1>8. Pick(T) \in T /\ w[Pick(T)] \in Int
  BY <1>7, PickIn
<1>9. Total(w, T \ {Pick(T)}) \notin Int
  BY <1>4, <1>6, <1>7, <1>8
<1>10. Cardinality(T \ {Pick(T)}) = n - 1 /\ Cardinality(T \ {Pick(T)}) \in Nat
  BY <1>4, <1>5, <1>8, FS_RemoveElement, FS_CardinalityType
<1>11. n - 1 \in bad
  BY <1>9, <1>10
<1> HIDE DEF bad
<1> QED BY <1>3, <1>5, <1>11

(* The order does not matter: any element may be taken first.              *)
LEMMA SumRemove ==
    ASSUME NEW S, IsFiniteSet(S), NEW w, \A x \in S : w[x] \in Int, NEW a \in S
    PROVE  Total(w, S) = w[a] + Total(w, S \ {a})
<1> DEFINE bad == {n \in Nat : \E T \in SUBSET S : \E x \in T :
                       Total(w, T) # w[x] + Total(w, T \ {x}) /\ Cardinality(T) = n}
<1>1. SUFFICES ASSUME Total(w, S) # w[a] + Total(w, S \ {a})
               PROVE  FALSE
  OBVIOUS
<1>2. Cardinality(S) \in bad
  BY <1>1, FS_CardinalityType
<1>3. PICK n \in bad : \A m \in bad : n <= m
  BY <1>2, HasLeast
<1>4. PICK T \in SUBSET S : /\ \E x \in T : Total(w, T) # w[x] + Total(w, T \ {x})
                           /\ Cardinality(T) = n
  OBVIOUS
<1>5. IsFiniteSet(T) /\ n \in Nat
  BY FS_Subset
<1>6. PICK x \in T : Total(w, T) # w[x] + Total(w, T \ {x})
  BY <1>4
<1>16. PICK c : c = Pick(T)
  OBVIOUS
<1>7. c \in T /\ Total(w, T) = w[c] + Total(w, T \ {c})
  BY <1>5, <1>6, <1>16, SumPick, PickIn
<1>8. c # x
  BY <1>6, <1>7
<1>9. ASSUME NEW U \in SUBSET S, Cardinality(U) = n - 1, NEW y \in U
      PROVE  Total(w, U) = w[y] + Total(w, U \ {y})
  <2>1. IsFiniteSet(U) /\ Cardinality(U) \in Nat
    BY FS_Subset, FS_CardinalityType
  <2>2. SUFFICES ASSUME Total(w, U) # w[y] + Total(w, U \ {y})
                 PROVE  FALSE
    OBVIOUS
  <2>3. n - 1 \in bad
    BY <1>9, <2>1, <2>2
  <2> HIDE DEF bad
  <2> QED BY <1>3, <1>5, <2>3
<1>10. /\ Cardinality(T \ {c}) = n - 1 /\ Cardinality(T \ {x}) = n - 1
       /\ IsFiniteSet(T \ {c, x})
  <2>1. Cardinality(T \ {c}) = n - 1 /\ Cardinality(T \ {x}) = n - 1
    BY <1>4, <1>5, <1>7, FS_RemoveElement
  <2>2. IsFiniteSet(T \ {c, x})
    BY <1>5, FS_Difference
  <2> QED BY <2>1, <2>2
<1>11. Total(w, T \ {c}) = w[x] + Total(w, (T \ {c}) \ {x})
  BY <1>8, <1>9, <1>10
<1>12. Total(w, T \ {x}) = w[c] + Total(w, (T \ {x}) \ {c})
  BY <1>7, <1>8, <1>9, <1>10
<1>13. (T \ {c}) \ {x} = T \ {c, x} /\ (T \ {x}) \ {c} = T \ {c, x}
  OBVIOUS
<1>14. w[c] \in Int /\ w[x] \in Int /\ Total(w, T \ {c, x}) \in Int
  BY <1>7, <1>10, SumType
<1>15. Total(w, T) = w[x] + Total(w, T \ {x})
  <2>1. /\ Total(w, T \ {c}) = w[x] + Total(w, T \ {c, x})
        /\ Total(w, T \ {x}) = w[c] + Total(w, T \ {c, x})
    BY <1>11, <1>12, <1>13, Zenon
  <2>2. PICK i, j, k, l, m : /\ i = w[c] /\ j = w[x] /\ k = Total(w, T \ {c, x})
                             /\ l = Total(w, T \ {c}) /\ m = Total(w, T \ {x})
    OBVIOUS
  <2>3. l = j + k /\ m = i + k /\ i \in Int /\ j \in Int /\ k \in Int
    BY <1>14, <2>1, <2>2, Zenon
  <2>4. i + l = j + m
    BY <2>3, SMT
  <2> QED BY <1>7, <2>2, <2>4, Zenon
<1> QED BY <1>6, <1>15

(* So a sum grows by each element that is added.                           *)
LEMMA SumAdd ==
    ASSUME NEW T, IsFiniteSet(T), NEW a, a \notin T,
           NEW w, \A x \in T \cup {a} : w[x] \in Int
    PROVE  /\ Total(w, T \cup {a}) = Total(w, T) + w[a]
           /\ Total(w, T) \in Int
<1>1. IsFiniteSet(T \cup {a})
  BY FS_AddElement
<1>2. Total(w, T \cup {a}) = w[a] + Total(w, (T \cup {a}) \ {a})
  BY <1>1, SumRemove
<1>3. (T \cup {a}) \ {a} = T
  OBVIOUS
<1>4. Total(w, T) \in Int /\ w[a] \in Int
  BY SumType
<1>5. Total(w, T \cup {a}) = w[a] + Total(w, T)
  BY <1>2, <1>3, Zenon
<1> QED BY <1>4, <1>5

-----------------------------------------------------------------------------
(* The same, with one more summand.                                        *)
LEMMA LinearStep ==
    ASSUME NEW a \in Int, NEW b \in Int, NEW c \in Int, NEW n \in Int, NEW r \in Int,
           NEW p \in Int, NEW q \in Int, NEW x \in Int, NEW y \in Int,
           r = a * p + b * q + c * n
    PROVE  r + (a * x + b * y + c) = a * (p + x) + b * (q + y) + c * (n + 1)
BY SMT

(* A linear combination of integers is an integer.                         *)
LEMMA LinearType ==
    ASSUME NEW a \in Int, NEW b \in Int, NEW c \in Int, NEW x \in Int, NEW y \in Int
    PROVE  a * x + b * y + c \in Int
BY SMT

(* A function with integers for values on S.                               *)
IntOn(w, S) == \A x \in S : w[x] \in Int

(* w is the linear combination a u + b v + c on S.                         *)
Linear(w, S, a, u, b, v, c) == \A x \in S : w[x] = a * u[x] + b * v[x] + c

(* A sum of linear combinations is the linear combination of the sums.     *)
LEMMA SumLinear ==
    ASSUME NEW S, IsFiniteSet(S), NEW u, NEW v, NEW w, IntOn(u, S), IntOn(v, S),
           NEW a \in Int, NEW b \in Int, NEW c \in Int, Linear(w, S, a, u, b, v, c)
    PROVE  Total(w, S) = a * Total(u, S) + b * Total(v, S) + c * Cardinality(S)
<1>0. \A x \in S : u[x] \in Int /\ v[x] \in Int /\ w[x] = a * u[x] + b * v[x] + c
  BY DEF IntOn, Linear
<1> DEFINE good == {T \in SUBSET S :
                       Total(w, T) = a * Total(u, T) + b * Total(v, T) + c * Cardinality(T)}
<1>1. {} \in good
  <2>1. Total(w, {}) = 0 /\ Total(u, {}) = 0 /\ Total(v, {}) = 0 /\ Cardinality({}) = 0
    BY SumEmpty, FS_EmptySet
  <2>2. a * 0 + b * 0 + c * 0 = 0
    BY SMT
  <2> QED BY <2>1, <2>2
<1>2. ASSUME NEW T \in SUBSET S, NEW x \in S \ T, T \in good
      PROVE  T \cup {x} \in good
  <2>1. IsFiniteSet(T)
    BY FS_Subset
  <2>2. \A y \in T \cup {x} : u[y] \in Int /\ v[y] \in Int /\ w[y] \in Int
    <3>1. \A y \in S : u[y] \in Int /\ v[y] \in Int /\ w[y] \in Int
      BY <1>0, LinearType
    <3> QED BY <3>1
  <2>3. /\ Total(u, T \cup {x}) = Total(u, T) + u[x] /\ Total(u, T) \in Int
        /\ Total(v, T \cup {x}) = Total(v, T) + v[x] /\ Total(v, T) \in Int
        /\ Total(w, T \cup {x}) = Total(w, T) + w[x] /\ Total(w, T) \in Int
    BY <2>1, <2>2, SumAdd
  <2>4. Cardinality(T \cup {x}) = Cardinality(T) + 1 /\ Cardinality(T) \in Int
    BY <2>1, FS_AddElement, FS_CardinalityType
  <2>5. w[x] = a * u[x] + b * v[x] + c /\ u[x] \in Int /\ v[x] \in Int
    BY <1>0
  <2>6. Total(w, T) = a * Total(u, T) + b * Total(v, T) + c * Cardinality(T)
    BY <1>2
  <2>7. Total(w, T) + (a * u[x] + b * v[x] + c)
        = a * (Total(u, T) + u[x]) + b * (Total(v, T) + v[x]) + c * (Cardinality(T) + 1)
    BY <2>3, <2>4, <2>5, <2>6, LinearStep
  <2> QED BY <2>3, <2>4, <2>5, <2>7
<1>3. S \in good
  <2> HIDE DEF good
  <2> QED BY <1>1, <1>2, SubsetInduction
<1> QED BY <1>3

(* Naturals add up to a natural.                                           *)
LEMMA SumNonNegative ==
    ASSUME NEW S, IsFiniteSet(S), NEW w, \A x \in S : w[x] \in Nat
    PROVE  Total(w, S) \in Nat
<1> DEFINE good == {T \in SUBSET S : Total(w, T) \in Nat}
<1>1. {} \in good
  BY SumEmpty
<1>2. ASSUME NEW T \in SUBSET S, NEW x \in S \ T, T \in good
      PROVE  T \cup {x} \in good
  <2>1. IsFiniteSet(T)
    BY FS_Subset
  <2>2. Total(w, T \cup {x}) = Total(w, T) + w[x]
    <3>1. \A y \in T \cup {x} : w[y] \in Int
      OBVIOUS
    <3> QED BY <2>1, <3>1, SumAdd
  <2>3. Total(w, T) \in Nat /\ w[x] \in Nat
    BY <1>2
  <2> QED BY <2>2, <2>3
<1>3. S \in good
  <2> HIDE DEF good
  <2> QED BY <1>1, <1>2, SubsetInduction
<1> QED BY <1>3

(* The sum over a set in two parts.                                        *)
LEMMA SumUnion ==
    ASSUME NEW S, IsFiniteSet(S), NEW R, IsFiniteSet(R), S \cap R = {},
           NEW w, \A x \in S \cup R : w[x] \in Int
    PROVE  Total(w, S \cup R) = Total(w, S) + Total(w, R)
<1> DEFINE good == {T \in SUBSET R : Total(w, S \cup T) = Total(w, S) + Total(w, T)}
<1>0. Total(w, S) \in Int
  BY SumType
<1>1. {} \in good
  <2>1. S \cup {} = S
    OBVIOUS
  <2>2. Total(w, S \cup {}) = Total(w, S) /\ Total(w, {}) = 0
    BY <2>1, SumEmpty, Zenon
  <2> QED BY <1>0, <2>2
<1>2. ASSUME NEW T \in SUBSET R, NEW x \in R \ T, T \in good
      PROVE  T \cup {x} \in good
  <2>1. IsFiniteSet(T) /\ IsFiniteSet(S \cup T) /\ x \notin S \cup T
    BY FS_Subset, FS_Union
  <2>2. Total(w, T \cup {x}) = Total(w, T) + w[x] /\ Total(w, T) \in Int /\ w[x] \in Int
    BY <2>1, SumAdd
  <2>3. Total(w, (S \cup T) \cup {x}) = Total(w, S \cup T) + w[x]
    BY <2>1, SumAdd
  <2>4. (S \cup T) \cup {x} = S \cup (T \cup {x})
    OBVIOUS
  <2>5. Total(w, S \cup (T \cup {x})) = Total(w, S \cup T) + w[x]
    BY <2>3, <2>4, Zenon
  <2>6. Total(w, S \cup T) = Total(w, S) + Total(w, T)
    BY <1>2
  <2> QED BY <1>0, <2>2, <2>5, <2>6
<1>3. R \in good
  <2> HIDE DEF good
  <2> QED BY <1>1, <1>2, SubsetInduction
<1> QED BY <1>3

(* P is the image of S under j, one to one, and g is f on it.              *)
Reindexed(g, S, j, f, P) ==
    /\ \A x, y \in S : j[x] = j[y] => x = y
    /\ \A x \in S : g[x] = f[j[x]] /\ g[x] \in Int
    /\ P = {j[x] : x \in S}

(* The sum over another index set.                                         *)
LEMMA SumImage ==
    ASSUME NEW S, IsFiniteSet(S), NEW j, NEW f, NEW g, NEW P, Reindexed(g, S, j, f, P)
    PROVE  Total(f, P) = Total(g, S) /\ IsFiniteSet(P)
<1>0. /\ \A x, y \in S : j[x] = j[y] => x = y
      /\ \A x \in S : g[x] = f[j[x]] /\ g[x] \in Int
      /\ P = {j[x] : x \in S}
  BY DEF Reindexed
<1> USE <1>0
<1> DEFINE image(T) == {j[x] : x \in T}
           good == {T \in SUBSET S : Total(f, image(T)) = Total(g, T) /\ IsFiniteSet(image(T))}
<1>1. {} \in good
  <2>1. image({}) = {}
    OBVIOUS
  <2> HIDE DEF image
  <2> QED BY <2>1, SumEmpty, FS_EmptySet
<1>2. ASSUME NEW T \in SUBSET S, NEW x \in S \ T, T \in good
      PROVE  T \cup {x} \in good
  <2>1. IsFiniteSet(T)
    BY FS_Subset
  <2>2. image(T \cup {x}) = image(T) \cup {j[x]} /\ j[x] \notin image(T)
    OBVIOUS
  <2>3. \A p \in image(T) \cup {j[x]} : f[p] \in Int
    OBVIOUS
  <2>4. /\ Total(f, image(T) \cup {j[x]}) = Total(f, image(T)) + f[j[x]]
        /\ IsFiniteSet(image(T) \cup {j[x]})
    <3>1. PICK Q, e : Q = image(T) /\ e = j[x]
      OBVIOUS
    <3>2. IsFiniteSet(Q) /\ e \notin Q /\ \A p \in Q \cup {e} : f[p] \in Int
      BY <1>2, <2>2, <2>3, <3>1
    <3> HIDE DEF image
    <3>3. Total(f, Q \cup {e}) = Total(f, Q) + f[e] /\ IsFiniteSet(Q \cup {e})
      BY <3>2, SumAdd, FS_AddElement
    <3> QED BY <3>1, <3>3
  <2>5. Total(g, T \cup {x}) = Total(g, T) + g[x] /\ g[x] = f[j[x]]
    <3>1. \A y \in T \cup {x} : g[y] \in Int
      OBVIOUS
    <3> QED BY <2>1, <3>1, SumAdd
  <2>6. Total(f, image(T)) = Total(g, T)
    BY <1>2
  <2> HIDE DEF image
  <2>7. Total(f, image(T \cup {x})) = Total(g, T \cup {x}) /\ IsFiniteSet(image(T \cup {x}))
    BY <2>2, <2>4, <2>5, <2>6
  <2> QED BY <2>7
<1>3. S \in good
  <2> HIDE DEF good
  <2> QED BY <1>1, <1>2, SubsetInduction
<1> QED BY <1>3

(* A set in parts.                                                         *)
Partition(P, S, part) ==
    /\ P = UNION {part[x] : x \in S}
    /\ \A x \in S : IsFiniteSet(part[x])
    /\ \A x, y \in S : x # y => part[x] \cap part[y] = {}

(* A sum over a partition is the sum of the sums over its parts.           *)
LEMMA SumParts ==
    ASSUME NEW S, IsFiniteSet(S), NEW P, NEW part, Partition(P, S, part),
           NEW f, IntOn(f, P), NEW line, \A x \in S : line[x] = Total(f, part[x])
    PROVE  Total(f, P) = Total(line, S) /\ IsFiniteSet(P)
<1>9. /\ P = UNION {part[x] : x \in S}
      /\ \A x \in S : IsFiniteSet(part[x]) /\ line[x] = Total(f, part[x])
      /\ \A x, y \in S : x # y => part[x] \cap part[y] = {}
      /\ \A x \in S : \A p \in part[x] : f[p] \in Int
  BY DEF Partition, IntOn
<1> DEFINE union(T) == UNION {part[x] : x \in T}
           good == {T \in SUBSET S : Total(f, union(T)) = Total(line, T) /\ IsFiniteSet(union(T))}
<1>0. \A x \in S : line[x] \in Int
  <2> SUFFICES ASSUME NEW x \in S
               PROVE  Total(f, part[x]) \in Int
    BY <1>9
  <2>1. PICK Q : Q = part[x]
    OBVIOUS
  <2>2. IsFiniteSet(Q) /\ \A p \in Q : f[p] \in Int
    BY <1>9, <2>1
  <2> QED BY <2>1, <2>2, SumType
<1>1. {} \in good
  <2>1. union({}) = {}
    OBVIOUS
  <2> HIDE DEF union
  <2> QED BY <2>1, SumEmpty, FS_EmptySet
<1>2. ASSUME NEW T \in SUBSET S, NEW x \in S \ T, T \in good
      PROVE  T \cup {x} \in good
  <2>1. IsFiniteSet(T)
    BY FS_Subset
  <2>2. union(T \cup {x}) = union(T) \cup part[x]
    OBVIOUS
  <2>3. union(T) \cap part[x] = {}
    BY <1>9
  <2>4. \A p \in union(T) \cup part[x] : f[p] \in Int
    BY <1>9
  <2>5. /\ Total(f, union(T) \cup part[x]) = Total(f, union(T)) + Total(f, part[x])
        /\ IsFiniteSet(union(T) \cup part[x])
    <3>4. IsFiniteSet(union(T)) /\ IsFiniteSet(part[x])
      BY <1>2, <1>9
    <3> HIDE DEF union
    <3>1. PICK Q, R : Q = union(T) /\ R = part[x]
      OBVIOUS
    <3>2. IsFiniteSet(Q) /\ IsFiniteSet(R) /\ Q \cap R = {} /\ \A p \in Q \cup R : f[p] \in Int
      BY <2>3, <2>4, <3>1, <3>4, Zenon
    <3>3. Total(f, Q \cup R) = Total(f, Q) + Total(f, R)
      BY <3>2, SumUnion
    <3>5. IsFiniteSet(Q \cup R)
      BY <3>2, FS_Union
    <3> QED BY <3>1, <3>3, <3>5
  <2>6. Total(line, T \cup {x}) = Total(line, T) + line[x] /\ line[x] = Total(f, part[x])
    <3>1. \A y \in T \cup {x} : line[y] \in Int
      BY <1>0
    <3> QED BY <1>9, <2>1, <3>1, SumAdd
  <2>7. Total(f, union(T)) = Total(line, T)
    BY <1>2
  <2> HIDE DEF union
  <2>8. Total(f, union(T \cup {x})) = Total(line, T \cup {x}) /\ IsFiniteSet(union(T \cup {x}))
    BY <2>2, <2>5, <2>6, <2>7
  <2> QED BY <2>8
<1>3. S \in good
  <2> HIDE DEF good
  <2> QED BY <1>1, <1>2, SubsetInduction
<1> QED BY <1>3, <1>9

(* The sums over the pairs with the same first element.                    *)
RowSums(line, f, S) == \A x \in S : line[x] = Total(f, {x} \X S)

(* A sum over pairs is the sum of the sums over their first elements.      *)
LEMMA SumOfRows ==
    ASSUME NEW S, IsFiniteSet(S), NEW f, IntOn(f, S \X S), NEW line, RowSums(line, f, S)
    PROVE  Total(f, S \X S) = Total(line, S)
<1>1. PICK part : part = [x \in S |-> {x} \X S]
  OBVIOUS
<1>2. PICK P : P = S \X S
  OBVIOUS
<1>3. \A x \in S : IsFiniteSet(part[x])
  <2> SUFFICES ASSUME NEW x \in S
               PROVE  IsFiniteSet({x} \X S)
    BY <1>1
  <2>1. IsFiniteSet({x})
    BY FS_Singleton
  <2> QED BY <2>1, FS_Product
<1>4. \A x, y \in S : x # y => part[x] \cap part[y] = {}
  BY <1>1
<1>6. P = UNION {part[x] : x \in S}
  BY <1>1, <1>2
<1>7. Partition(P, S, part)
  BY <1>3, <1>4, <1>6 DEF Partition
<1>8. IntOn(f, P)
  BY <1>2 DEF IntOn
<1>9. \A x \in S : line[x] = Total(f, part[x])
  BY <1>1 DEF RowSums
<1>10. Total(f, P) = Total(line, S)
  BY <1>7, <1>8, <1>9, SumParts
<1> QED BY <1>2, <1>10

(* z is the linear combination a u + b v + c w + d on S.                   *)
Linear3(z, S, a, u, b, v, c, w, d) ==
    \A x \in S : z[x] = a * u[x] + b * v[x] + c * w[x] + d

(* A sum of linear combinations of three functions.                        *)
LEMMA SumOfThree ==
    ASSUME NEW S, IsFiniteSet(S), NEW u, NEW v, NEW w, NEW z,
           NEW a \in Int, NEW b \in Int, NEW c \in Int, NEW d \in Int,
           IntOn(u, S), IntOn(v, S), IntOn(w, S), Linear3(z, S, a, u, b, v, c, w, d)
    PROVE  Total(z, S) = a * Total(u, S) + b * Total(v, S) + c * Total(w, S) + d * Cardinality(S)
<1>1. PICK k : k = [x \in S |-> a * u[x] + b * v[x] + d]
  OBVIOUS
<1>2. PICK one, none : one = 1 /\ none = 0
  OBVIOUS
<1>3. one \in Int /\ none \in Int
  BY <1>2
<1>4. \A x \in S : k[x] = a * u[x] + b * v[x] + d /\ k[x] \in Int
  BY <1>1, LinearType DEF IntOn
<1>5. Total(k, S) = a * Total(u, S) + b * Total(v, S) + d * Cardinality(S)
  <2>1. Linear(k, S, a, u, b, v, d)
    BY <1>4 DEF Linear
  <2> QED BY <2>1, SumLinear
<1>6. \A x \in S : z[x] = one * k[x] + c * w[x] + none
  <2> SUFFICES ASSUME NEW x \in S
               PROVE  z[x] = one * k[x] + c * w[x] + none
    OBVIOUS
  <2>1. PICK r, s, t : r = a * u[x] /\ s = b * v[x] /\ t = c * w[x]
    OBVIOUS
  <2>2. r \in Int /\ s \in Int /\ t \in Int
    <3>1. u[x] \in Int /\ v[x] \in Int /\ w[x] \in Int
      BY DEF IntOn
    <3> QED BY <2>1, <3>1
  <2>3. z[x] = r + s + t + d /\ k[x] = r + s + d
    BY <1>4, <2>1, Zenon DEF Linear3
  <2>4. z[x] = 1 * k[x] + t + 0
    BY <2>2, <2>3, SMT
  <2> QED BY <1>2, <2>1, <2>4, Zenon
<1>7. Total(z, S) = one * Total(k, S) + c * Total(w, S) + none * Cardinality(S)
  <2>1. Linear(z, S, one, k, c, w, none) /\ IntOn(k, S)
    BY <1>4, <1>6 DEF Linear, IntOn
  <2> QED BY <1>3, <2>1, SumLinear
<1>8. PICK K, U, V, W, n : /\ K = Total(k, S) /\ U = Total(u, S) /\ V = Total(v, S)
                           /\ W = Total(w, S) /\ n = Cardinality(S)
  OBVIOUS
<1>9. /\ K \in Int /\ U \in Int /\ V \in Int /\ W \in Int /\ n \in Int
  BY <1>4, <1>8, SumType, FS_CardinalityType DEF IntOn
<1>10. K = a * U + b * V + d * n
  BY <1>5, <1>8, Zenon
<1>11. Total(z, S) = 1 * K + c * W + 0 * n
  BY <1>2, <1>7, <1>8, Zenon
<1>12. Total(z, S) = a * U + b * V + c * W + d * n
  BY <1>9, <1>10, <1>11, SMT
<1> QED BY <1>8, <1>12, Zenon

(* A product of differences as a linear combination of the second factors. *)
LEMMA Differences ==
    ASSUME NEW a \in Int, NEW b \in Int, NEW c \in Int, NEW d \in Int
    PROVE  /\ (a - b) * (c - d) = (-c) * b + (-a) * d + 1 * (b * d) + a * c
           /\ a * c \in Int /\ (a - b) * (c - d) \in Int
BY SMT

(* The sum over one row of such products, by its first factors.            *)
LEMMA Arrange ==
    ASSUME NEW a \in Int, NEW b \in Int, NEW c \in Int, NEW n \in Int,
           NEW U \in Int, NEW V \in Int, NEW W \in Int
    PROVE  (-b) * U + (-a) * V + 1 * W + c * n = (-V) * a + (-U) * b + n * c + W
BY SMT

(* And the sum of those.                                                   *)
LEMMA Collect ==
    ASSUME NEW n \in Int, NEW U \in Int, NEW V \in Int, NEW W \in Int
    PROVE  (-V) * U + (-U) * V + n * W + W * n = 2 * (n * W - U * V)
BY SMT

(* A sum over pairs of differences.                                        *)
LEMMA SumOfDifferences ==
    ASSUME NEW S, IsFiniteSet(S), NEW u, NEW v, NEW uv, NEW f,
           \A x \in S : u[x] \in Int /\ v[x] \in Int /\ uv[x] = u[x] * v[x],
           \A p \in S \X S : f[p] = (u[p[1]] - u[p[2]]) * (v[p[1]] - v[p[2]])
    PROVE  Total(f, S \X S)
           = 2 * (Cardinality(S) * Total(uv, S) - Total(u, S) * Total(v, S))
<1> DEFINE line == [x \in S |-> Total(f, {x} \X S)]
<1>1. PICK n, U, V, W : n = Cardinality(S) /\ U = Total(u, S) /\ V = Total(v, S) /\ W = Total(uv, S)
  OBVIOUS
<1>2. \A x \in S : u[x] \in Int /\ v[x] \in Int /\ uv[x] \in Int
  BY Differences
<1>3. n \in Int /\ U \in Int /\ V \in Int /\ W \in Int
  BY <1>1, <1>2, SumType, FS_CardinalityType
<1>4. \A p \in S \X S : f[p] \in Int
  <2> SUFFICES ASSUME NEW p \in S \X S
               PROVE  f[p] \in Int
    OBVIOUS
  <2>1. PICK a, b, c, d : a = u[p[1]] /\ b = u[p[2]] /\ c = v[p[1]] /\ d = v[p[2]]
    OBVIOUS
  <2>2. a \in Int /\ b \in Int /\ c \in Int /\ d \in Int
    BY <2>1
  <2>3. f[p] = (a - b) * (c - d)
    BY <2>1, Zenon
  <2> QED BY <2>2, <2>3, Differences
<1>5. Total(f, S \X S) = Total(line, S)
  <2>1. RowSums(line, f, S)
    BY DEF RowSums
  <2>2. IntOn(f, S \X S)
    BY <1>4 DEF IntOn
  <2> HIDE DEF line
  <2> QED BY <2>1, <2>2, SumOfRows
<1>6. ASSUME NEW x \in S
      PROVE  line[x] = (-V) * u[x] + (-U) * v[x] + n * uv[x] + W
  <2>1. PICK j : j = [y \in S |-> <<x, y>>]
    OBVIOUS
  <2>2. PICK g : g = [y \in S |-> (u[x] - u[y]) * (v[x] - v[y])]
    OBVIOUS
  <2>3. PICK a, b, c, one : a = -v[x] /\ b = -u[x] /\ c = uv[x] /\ one = 1
    OBVIOUS
  <2>4. a \in Int /\ b \in Int /\ c \in Int /\ one \in Int
    BY <1>2, <2>3
  <2>5. \A y \in S : /\ g[y] = a * u[y] + b * v[y] + one * uv[y] + c
                     /\ g[y] \in Int
    <3> SUFFICES ASSUME NEW y \in S
                 PROVE  g[y] = a * u[y] + b * v[y] + one * uv[y] + c /\ g[y] \in Int
      OBVIOUS
    <3>1. u[x] \in Int /\ u[y] \in Int /\ v[x] \in Int /\ v[y] \in Int
      OBVIOUS
    <3>2. g[y] = (u[x] - u[y]) * (v[x] - v[y])
      BY <2>2
    <3>3. uv[x] = u[x] * v[x] /\ uv[y] = u[y] * v[y]
      OBVIOUS
    <3>4. /\ g[y] = (-v[x]) * u[y] + (-u[x]) * v[y] + 1 * (u[y] * v[y]) + u[x] * v[x]
          /\ g[y] \in Int
      BY <3>1, <3>2, Differences
    <3> QED BY <2>3, <3>3, <3>4, Zenon
  <2>6. Total(g, S) = a * Total(u, S) + b * Total(v, S) + one * Total(uv, S) + c * Cardinality(S)
    <3>1. Linear3(g, S, a, u, b, v, one, uv, c)
      BY <2>5 DEF Linear3
    <3>2. IntOn(u, S) /\ IntOn(v, S) /\ IntOn(uv, S)
      BY <1>2 DEF IntOn
    <3> QED BY <2>4, <3>1, <3>2, SumOfThree
  <2>7. \A y \in S : g[y] = f[j[y]]
    <3> SUFFICES ASSUME NEW y \in S
                 PROVE  g[y] = f[j[y]]
      OBVIOUS
    <3>1. PICK p : p = <<x, y>>
      OBVIOUS
    <3>2. p \in S \X S /\ p[1] = x /\ p[2] = y
      BY <3>1
    <3>3. f[p] = (u[x] - u[y]) * (v[x] - v[y])
      BY <3>2
    <3>4. j[y] = p
      BY <2>1, <3>1
    <3> QED BY <2>2, <3>3, <3>4
  <2>8. PICK P : P = {x} \X S
    OBVIOUS
  <2>9. Total(f, P) = Total(g, S)
    <3>1. \A y, z \in S : j[y] = j[z] => y = z
      BY <2>1
    <3>2. P = {j[y] : y \in S}
      BY <2>1, <2>8
    <3>3. \A y \in S : g[y] = f[j[y]] /\ g[y] \in Int
      BY <2>5, <2>7
    <3>4. Reindexed(g, S, j, f, P)
      BY <3>1, <3>2, <3>3, Zenon DEF Reindexed
    <3> QED BY <3>4, SumImage
  <2>10. line[x] = (-v[x]) * U + (-u[x]) * V + 1 * W + uv[x] * n
    <3>1. line[x] = Total(g, S)
      BY <2>8, <2>9
    <3> HIDE DEF line
    <3> QED BY <1>1, <2>3, <2>6, <3>1, Zenon
  <2>11. u[x] \in Int /\ v[x] \in Int /\ uv[x] \in Int
    BY <1>2
  <2> HIDE DEF line
  <2> QED BY <1>3, <2>10, <2>11, Arrange
<1>7. Total(line, S) = 2 * (n * W - U * V)
  <2>1. PICK a, b : a = -V /\ b = -U
    OBVIOUS
  <2>2. a \in Int /\ b \in Int
    BY <1>3, <2>1
  <2> HIDE DEF line
  <2>3. \A x \in S : line[x] = a * u[x] + b * v[x] + n * uv[x] + W
    BY <1>6, <2>1, Zenon
  <2>4. Total(line, S) = a * Total(u, S) + b * Total(v, S) + n * Total(uv, S) + W * Cardinality(S)
    <3>1. Linear3(line, S, a, u, b, v, n, uv, W)
      BY <2>3 DEF Linear3
    <3>2. IntOn(u, S) /\ IntOn(v, S) /\ IntOn(uv, S)
      BY <1>2 DEF IntOn
    <3> QED BY <1>3, <2>2, <3>1, <3>2, SumOfThree
  <2>5. Total(line, S) = (-V) * U + (-U) * V + n * W + W * n
    BY <1>1, <2>1, <2>4, Zenon
  <2> QED BY <1>3, <2>5, Collect
<1> QED BY <1>1, <1>5, <1>7

-----------------------------------------------------------------------------
(* The weights of a least squares line.                                    *)

(* One of several non-negative summands is at most the sum.                *)
LEMMA SumAtLeast ==
    ASSUME NEW S, IsFiniteSet(S), NEW w, \A x \in S : w[x] \in Nat, NEW e \in S
    PROVE  w[e] <= Total(w, S)
<1>1. Total(w, S) = w[e] + Total(w, S \ {e})
  BY SumRemove
<1>2. IsFiniteSet(S \ {e}) /\ \A x \in S \ {e} : w[x] \in Nat
  BY FS_RemoveElement
<1>3. Total(w, S \ {e}) \in Nat /\ w[e] \in Nat
  BY <1>2, SumNonNegative
<1> QED BY <1>1, <1>3

(* Squares are natural.                                                    *)
LEMMA SquareType == \A x \in Int : x * x \in Nat
<1> SUFFICES ASSUME NEW x \in Int
             PROVE  x * x \in Nat
  OBVIOUS
<1>1. CASE x >= 0
  BY <1>1, SMT
<1>2. CASE x < 0
  BY <1>2, SMT
<1> QED BY <1>1, <1>2

(* Cauchy's inequality, for the elements that i marks.                     *)
LEMMA Cauchy ==
    ASSUME NEW S, IsFiniteSet(S), NEW i, NEW a, NEW ia, NEW iaa,
           \A x \in S : /\ i[x] \in {0, 1} /\ a[x] \in Int
                        /\ ia[x] = i[x] * a[x] /\ iaa[x] = i[x] * (a[x] * a[x]),
           Total(i, S) > 0
    PROVE  Total(i, S) * Total(iaa, S) >= Total(ia, S) * Total(ia, S)
<1>1. PICK k, B, C : k = Total(i, S) /\ B = Total(ia, S) /\ C = Total(iaa, S)
  OBVIOUS
<1>2. \A x \in S : i[x] \in Int /\ ia[x] \in Int /\ iaa[x] \in Int
  <2> SUFFICES ASSUME NEW x \in S
               PROVE  i[x] \in Int /\ ia[x] \in Int /\ iaa[x] \in Int
    OBVIOUS
  <2>1. i[x] \in Int /\ a[x] \in Int
    OBVIOUS
  <2>2. a[x] * a[x] \in Int
    BY <2>1
  <2>3. i[x] * a[x] \in Int /\ i[x] * (a[x] * a[x]) \in Int
    BY <2>1, <2>2
  <2> QED BY <2>1, <2>3
<1>3. k \in Int /\ B \in Int /\ C \in Int
  BY <1>1, <1>2, SumType
<1>4. PICK p, q, r : p = k * k /\ q = -2 * (k * B) /\ r = B * B
  OBVIOUS
<1>5. p \in Int /\ q \in Int /\ r \in Int
  BY <1>3, <1>4
<1>6. PICK z : z = [x \in S |-> p * iaa[x] + q * ia[x] + r * i[x] + 0]
  OBVIOUS
<1>7. \A x \in S : z[x] \in Nat
  <2> SUFFICES ASSUME NEW x \in S
               PROVE  z[x] \in Nat
    OBVIOUS
  <2>1. PICK y : y = a[x]
    OBVIOUS
  <2>2. y \in Int
    BY <2>1
  <2>3. CASE i[x] = 0
    <3>1. ia[x] = 0 /\ iaa[x] = 0
      BY <2>1, <2>2, <2>3, SMT
    <3> QED BY <1>5, <1>6, <2>3, <3>1
  <2>4. CASE i[x] = 1
    <3>1. ia[x] = y /\ iaa[x] = y * y
      <4>1. y * y \in Int
        BY <2>2
      <4> QED BY <2>1, <2>2, <2>4, <4>1
    <3>2. z[x] = p * (y * y) + q * y + r * 1 + 0
      BY <1>6, <2>4, <3>1, Zenon
    <3>3. z[x] = (k * y - B) * (k * y - B)
      BY <1>3, <1>4, <2>2, <3>2, SMT
    <3>4. k * y - B \in Int
      BY <1>3, <2>2
    <3> QED BY <3>3, <3>4, SquareType
  <2> QED BY <2>3, <2>4
<1>8. Total(z, S) \in Nat
  BY <1>7, SumNonNegative
<1>9. Total(z, S) = p * C + q * B + r * k + 0 * Cardinality(S)
  <2>1. PICK none : none = 0
    OBVIOUS
  <2>2. Linear3(z, S, p, iaa, q, ia, r, i, none)
    BY <1>6, <2>1, Zenon DEF Linear3
  <2>3. IntOn(iaa, S) /\ IntOn(ia, S) /\ IntOn(i, S)
    BY <1>2 DEF IntOn
  <2>4. none \in Int
    BY <2>1
  <2>5. Total(z, S) = p * Total(iaa, S) + q * Total(ia, S) + r * Total(i, S) + none * Cardinality(S)
    BY <1>5, <2>2, <2>3, <2>4, SumOfThree
  <2> QED BY <1>1, <2>1, <2>5, Zenon
<1>10. Total(z, S) = k * (k * C - B * B)
  <2>1. Cardinality(S) \in Int
    BY FS_CardinalityType
  <2>2. PICK n \in Int : n = Cardinality(S)
    BY <2>1
  <2>3. Total(z, S) = (k * k) * C + (-2 * (k * B)) * B + (B * B) * k + 0 * n
    BY <1>4, <1>9, <2>2, Zenon
  <2> QED BY <1>3, <2>3, SMT
<1>11. k * C - B * B >= 0
  <2>1. PICK d : d = k * C - B * B
    OBVIOUS
  <2>2. d \in Int /\ k > 0 /\ k * d >= 0
    BY <1>1, <1>3, <1>8, <1>10, <2>1
  <2>3. d >= 0
    BY <1>3, <2>2, SMT
  <2> QED BY <2>1, <2>3
<1>12. k * C >= B * B
  BY <1>3, <1>11, SMT
<1> QED BY <1>1, <1>12

(* Multiplication with a natural keeps the order.                          *)
LEMMA Monotone ==
    ASSUME NEW a \in Int, NEW b \in Int, NEW c \in Nat, a <= b
    PROVE  c * a <= c * b
<1>1. PICK d \in Nat : d = b - a
  BY SMT
<1>2. c * d \in Nat
  BY SMT
<1>3. c * b = c * a + c * d
  BY <1>1, SMT
<1>4. c * a \in Int /\ c * b \in Int
  BY SMT
<1> QED BY <1>2, <1>3, <1>4

(* And division by a positive one.                                         *)
LEMMA Cancel ==
    ASSUME NEW a \in Int, NEW b \in Int, NEW c \in Nat \ {0}, c * a <= c * b
    PROVE  a <= b
<1>1. SUFFICES ASSUME a > b
               PROVE  FALSE
  OBVIOUS
<1>2. c * (b + 1) <= c * a
  BY <1>1, Monotone
<1>3. c * (b + 1) = c * b + c /\ c * b \in Int /\ c * a \in Int
  BY SMT
<1> QED BY <1>2, <1>3

(* The difference of the two sides is a sum of squares.                    *)
LEMMA SquaresBound ==
    ASSUME NEW n \in Nat, NEW k \in Nat, NEW A \in Int, NEW B \in Int
    PROVE  16 * (n * k * (A * B)) <= (n * n + 16 * k) * (k * (A * A) + B * B)
<1>1. PICK p, q : p = n * B - 4 * (k * A) /\ q = n * A - 4 * B
  OBVIOUS
<1>2. p \in Int /\ q \in Int
  BY <1>1
<1>3. p * p \in Nat /\ q * q \in Nat
  BY <1>2, SquareType
<1>4. k * (q * q) \in Nat
  BY <1>3, SMT
<1>5. (n * n + 16 * k) * (k * (A * A) + B * B)
      = 16 * (n * k * (A * B)) + (p * p + k * (q * q))
  BY <1>1, SMT
<1>6. 16 * (n * k * (A * B)) \in Int
  BY SMT
<1> QED BY <1>3, <1>4, <1>5, <1>6

(* n points, k of which have a negative weight: A is the distance of the   *)
(* outermost one from the centre, B the sum of those of the k, and V what  *)
(* the negative weights add up to.                                         *)
LEMMA WeightBound ==
    ASSUME NEW n \in Nat \ {0}, NEW k \in Nat \ {0}, k < n, NEW spread \in Nat,
           NEW A \in Nat, NEW B \in Nat, NEW C \in Int, NEW D \in Int, NEW T \in Nat,
           T <= A, D >= A * A + C, k * C >= B * B, n * spread = 2 * D,
           NEW V \in Int, V = 2 * (T * B) - k * spread
    PROVE  /\ 16 * V <= n * (n * spread)
           /\ n = 2 => V <= 0
<1>1. T * B <= A * B
  <2>1. B * T <= B * A
    BY Monotone
  <2> QED BY <2>1, SMT
<1>2. PICK AB, AA, BB, kD, kC, kAA : /\ AB = A * B /\ AA = A * A /\ BB = B * B /\ kD = k * D
                                     /\ kC = k * C /\ kAA = k * AA
  OBVIOUS
<1>3. /\ AB \in Int /\ AA \in Int /\ BB \in Int /\ kD \in Int /\ kC \in Int /\ kAA \in Int
  BY <1>2, SMT
<1>4. kD >= kAA + BB
  <2>1. k * (AA + C) <= k * D
    BY <1>2, <1>3, Monotone
  <2>2. k * (AA + C) = kAA + kC
    BY <1>2, <1>3, SMT
  <2> QED BY <1>2, <1>3, <2>1, <2>2
<1>5. 16 * (n * k * AB) <= (n * n + 16 * k) * kD
  <2>1. 16 * (n * k * AB) <= (n * n + 16 * k) * (kAA + BB)
    BY <1>2, SquaresBound
  <2>2. (n * n + 16 * k) * (kAA + BB) <= (n * n + 16 * k) * kD
    <3>1. n * n + 16 * k \in Nat
      BY SMT
    <3> QED BY <1>3, <1>4, <3>1, Monotone
  <2>3. PICK p, q, r : /\ p = 16 * (n * k * AB) /\ q = (n * n + 16 * k) * (kAA + BB)
                       /\ r = (n * n + 16 * k) * kD
    OBVIOUS
  <2>4. p \in Int /\ q \in Int /\ r \in Int
    BY <1>3, <2>3, SMT
  <2> QED BY <2>1, <2>2, <2>3, <2>4
<1>6. n * V <= 2 * (n * AB) - 2 * kD
  <2>1. V <= 2 * AB - k * spread
    <3>1. k * spread \in Int /\ T * B \in Int
      BY SMT
    <3> QED BY <1>1, <1>2, <1>3, <3>1
  <2>2. n * V <= n * (2 * AB - k * spread)
    <3>1. 2 * AB - k * spread \in Int
      BY <1>3, SMT
    <3> QED BY <2>1, <3>1, Monotone
  <2>3. n * (2 * AB - k * spread) = 2 * (n * AB) - k * (n * spread)
    BY <1>3, SMT
  <2>4. k * (n * spread) = 2 * kD
    BY <1>2, SMT
  <2> QED BY <2>2, <2>3, <2>4
<1>7. 16 * V <= n * (n * spread)
  <2>1. (16 * k) * (n * V) <= (16 * k) * (2 * (n * AB) - 2 * kD)
    <3>1. 16 * k \in Nat /\ n * V \in Int /\ 2 * (n * AB) - 2 * kD \in Int
      BY <1>3, SMT
    <3> QED BY <1>6, <3>1, Monotone
  <2>2. (16 * k) * (2 * (n * AB) - 2 * kD) = 2 * (16 * (n * k * AB)) - 32 * (k * kD)
    BY <1>3, SMT
  <2>3. 2 * ((n * n + 16 * k) * kD) - 32 * (k * kD) = (k * n) * (n * (n * spread))
    <3>1. (k * n) * (n * (n * spread)) = (k * n) * (n * (2 * D))
      OBVIOUS
    <3>2. (k * n) * (n * (2 * D)) = 2 * (n * n * kD)
      BY <1>2, SMT
    <3>3. 2 * ((n * n + 16 * k) * kD) - 32 * (k * kD) = 2 * (n * n * kD)
      BY <1>3, SMT
    <3> QED BY <3>1, <3>2, <3>3
  <2>4. PICK p, q, r, s, t : /\ p = (16 * k) * (n * V) /\ q = 16 * (n * k * AB)
                             /\ r = (n * n + 16 * k) * kD /\ s = k * kD
                             /\ t = (k * n) * (n * (n * spread))
    OBVIOUS
  <2>5. p \in Int /\ q \in Int /\ r \in Int /\ s \in Int /\ t \in Int
    BY <1>3, <2>4, SMT
  <2>6. p <= 2 * q - 32 * s /\ q <= r /\ t = 2 * r - 32 * s
    BY <1>5, <2>1, <2>2, <2>3, <2>4, Zenon
  <2>7. p <= t
    BY <2>5, <2>6
  <2>8. p = (k * n) * (16 * V)
    BY <2>4, SMT
  <2>9. k * n \in Nat \ {0} /\ 16 * V \in Int /\ n * (n * spread) \in Int
    <3>1. k * n # 0
      BY SMT
    <3> QED BY <3>1, SMT
  <2> QED BY <2>4, <2>7, <2>8, <2>9, Cancel
<1>8. ASSUME n = 2
      PROVE  V <= 0
  <2>1. k = 1 /\ spread = D
    BY <1>8
  <2>2. V <= 2 * AB - (AA + BB)
    <3>1. V = 2 * (T * B) - D
      BY <2>1
    <3>2. D >= AA + BB
      BY <1>2, <1>3, <2>1
    <3>3. T * B \in Int
      BY SMT
    <3> QED BY <1>1, <1>2, <1>3, <3>1, <3>2, <3>3
  <2>3. 2 * AB - (AA + BB) = -((A - B) * (A - B))
    BY <1>2, SMT
  <2>4. (A - B) * (A - B) \in Nat
    BY SquareType
  <2> QED BY <2>2, <2>3, <2>4
<1> QED BY <1>7, <1>8

(* aa has the squares of a.                                                *)
SquaresOf(aa, a, S) == \A x \in S : aa[x] = a[x] * a[x]

(* What is left of the weights spread + 2 T a[x] where they are negative.  *)
NegativePart(neg, S, spread, T, a) ==
    \A x \in S : neg[x] = IF spread + 2 * (T * a[x]) < 0 THEN -(spread + 2 * (T * a[x])) ELSE 0

(* The negative ones among the weights spread + 2 T a[x] are small, if T   *)
(* is at most one of the distances.                                        *)
LEMMA NegativeWeights ==
    ASSUME NEW S, IsFiniteSet(S), NEW a, IntOn(a, S), NEW aa, SquaresOf(aa, a, S),
           NEW T \in Nat, NEW e \in S, a[e] >= T,
           NEW spread \in Nat, Cardinality(S) * spread = 2 * Total(aa, S),
           NEW neg, NegativePart(neg, S, spread, T, a)
    PROVE  /\ Total(neg, S) \in Nat
           /\ 16 * Total(neg, S) <= Cardinality(S) * (Cardinality(S) * spread)
           /\ Cardinality(S) = 2 => Total(neg, S) = 0
<1>1. PICK i : i = [x \in S |-> IF spread + 2 * (T * a[x]) < 0 THEN 1 ELSE 0]
  OBVIOUS
<1>2. PICK ia : ia = [x \in S |-> i[x] * a[x]]
  OBVIOUS
<1>3. PICK iaa : iaa = [x \in S |-> i[x] * (a[x] * a[x])]
  OBVIOUS
<1>4. \A x \in S : a[x] \in Int /\ aa[x] = a[x] * a[x]
  BY DEF IntOn, SquaresOf
<1>5. ASSUME NEW x \in S
      PROVE  /\ i[x] \in {0, 1} /\ aa[x] \in Nat /\ aa[x] - iaa[x] \in Nat
             /\ neg[x] = (-spread) * i[x] + (-(2 * T)) * ia[x] + 0 /\ neg[x] \in Nat
             /\ iaa[x] \in Int /\ ia[x] \in Int /\ -ia[x] \in Nat
             /\ i[x] = 0 => ia[x] = 0 /\ iaa[x] = 0
  <2>1. PICK y, z, w : y = a[x] /\ z = T * y /\ w = y * y
    OBVIOUS
  <2>2. y \in Int
    BY <1>4, <2>1
  <2>3. z \in Int /\ w \in Nat
    BY <2>1, <2>2, SquareType
  <2>4. neg[x] = IF spread + 2 * z < 0 THEN -(spread + 2 * z) ELSE 0
    BY <2>1 DEF NegativePart
  <2>5. i[x] = IF spread + 2 * z < 0 THEN 1 ELSE 0
    BY <1>1, <2>1
  <2>6. aa[x] = w
    BY <1>4, <2>1
  <2>7. ia[x] = i[x] * y /\ iaa[x] = i[x] * w
    BY <1>2, <1>3, <2>1
  <2>8. CASE spread + 2 * z < 0
    <3>1. i[x] = 1 /\ neg[x] = -(spread + 2 * z) /\ ia[x] = y /\ iaa[x] = w
      BY <2>2, <2>3, <2>4, <2>5, <2>7, <2>8
    <3>2. y < 0
      <4>1. SUFFICES ASSUME y >= 0
                     PROVE  FALSE
        BY <2>2
      <4>2. T * y \in Nat
        BY <2>2, <4>1, SMT
      <4> QED BY <2>1, <2>3, <2>8, <4>2
    <3>3. neg[x] = (-spread) * 1 + (-(2 * T)) * y + 0
      BY <2>1, <2>2, <3>1, SMT
    <3>4. neg[x] \in Nat
      BY <2>3, <2>8, <3>1
    <3>5. -ia[x] \in Nat
      BY <2>2, <3>1, <3>2
    <3> QED BY <2>2, <2>3, <2>6, <3>1, <3>3, <3>4, <3>5
  <2>9. CASE ~(spread + 2 * z < 0)
    <3>1. i[x] = 0 /\ neg[x] = 0
      BY <2>4, <2>5, <2>9
    <3>2. ia[x] = 0 /\ iaa[x] = 0
      BY <2>2, <2>3, <2>7, <3>1
    <3>3. (-spread) * 0 + (-(2 * T)) * 0 + 0 = 0
      BY SMT
    <3> QED BY <2>3, <2>6, <3>1, <3>2, <3>3
  <2> QED BY <2>8, <2>9
<1>6. PICK n, k, B, C, D, V : /\ n = Cardinality(S) /\ k = Total(i, S) /\ B = Total(ia, S)
                              /\ C = Total(iaa, S) /\ D = Total(aa, S) /\ V = Total(neg, S)
  OBVIOUS
<1>7. n \in Nat /\ k \in Nat /\ B \in Int /\ C \in Int /\ D \in Int /\ V \in Nat
  <2>1. n \in Nat
    BY <1>6, FS_CardinalityType
  <2>2. k \in Nat /\ V \in Nat
    <3>1. \A x \in S : i[x] \in Nat /\ neg[x] \in Nat
      BY <1>5
    <3> QED BY <1>6, <3>1, SumNonNegative
  <2>3. B \in Int /\ C \in Int /\ D \in Int
    <3>1. \A x \in S : ia[x] \in Int /\ iaa[x] \in Int /\ aa[x] \in Int
      BY <1>5
    <3> QED BY <1>6, <3>1, SumType
  <2> QED BY <2>1, <2>2, <2>3
<1>8. PICK one, minus, none : one = 1 /\ minus = -1 /\ none = 0
  OBVIOUS
<1>9. one \in Int /\ minus \in Int /\ none \in Int
  BY <1>8
<1>10. IntOn(i, S) /\ IntOn(ia, S) /\ IntOn(iaa, S) /\ IntOn(aa, S)
  BY <1>5 DEF IntOn
<1>11. V = (-spread) * k + (-(2 * T)) * B
  <2>1. PICK b, c : b = -spread /\ c = -(2 * T)
    OBVIOUS
  <2>2. b \in Int /\ c \in Int
    BY <2>1
  <2>3. Linear(neg, S, b, i, c, ia, none)
    BY <1>5, <1>8, <2>1, Zenon DEF Linear
  <2>4. V = b * k + c * B + none * n
    BY <1>6, <1>9, <1>10, <2>2, <2>3, SumLinear
  <2> QED BY <1>7, <1>8, <2>1, <2>2, <2>4
<1>12. -B \in Nat
  <2>1. PICK nia : nia = [x \in S |-> -ia[x]]
    OBVIOUS
  <2>2. Total(nia, S) \in Nat
    <3>1. \A x \in S : nia[x] \in Nat
      BY <1>5, <2>1
    <3> QED BY <3>1, SumNonNegative
  <2>3. Linear(nia, S, minus, ia, none, ia, none)
    <3> SUFFICES ASSUME NEW x \in S
                 PROVE  nia[x] = minus * ia[x] + none * ia[x] + none
      BY DEF Linear
    <3>1. ia[x] \in Int
      BY <1>5
    <3> QED BY <1>8, <2>1, <3>1
  <2>4. Total(nia, S) = minus * B + none * B + none * n
    BY <1>6, <1>9, <1>10, <2>3, SumLinear
  <2>5. Total(nia, S) = -B
    BY <1>7, <1>8, <2>4
  <2> QED BY <2>2, <2>5
<1>13. PICK A : A = a[e]
  OBVIOUS
<1>14. A \in Nat /\ T <= A /\ i[e] = 0 /\ aa[e] = A * A
  <2>1. A \in Int /\ T <= A
    BY <1>4, <1>13
  <2>2. A \in Nat
    BY <2>1
  <2>3. T * A \in Nat
    BY <2>2, SMT
  <2>4. i[e] = 0
    <3>1. i[e] = IF spread + 2 * (T * A) < 0 THEN 1 ELSE 0
      BY <1>1, <1>13
    <3> QED BY <2>3, <3>1
  <2> QED BY <1>4, <1>13, <2>1, <2>2, <2>4
<1>15. D >= A * A + C
  <2>1. PICK rest : rest = [x \in S |-> aa[x] - iaa[x]]
    OBVIOUS
  <2>2. \A x \in S : rest[x] \in Nat
    BY <1>5, <2>1
  <2>3. rest[e] = A * A
    <3>1. iaa[e] = 0 /\ aa[e] \in Int
      BY <1>5, <1>14
    <3> QED BY <1>14, <2>1, <3>1
  <2>4. rest[e] <= Total(rest, S)
    BY <2>2, SumAtLeast
  <2>5. Linear(rest, S, one, aa, minus, iaa, none)
    <3> SUFFICES ASSUME NEW x \in S
                 PROVE  rest[x] = one * aa[x] + minus * iaa[x] + none
      BY DEF Linear
    <3>1. aa[x] \in Int /\ iaa[x] \in Int
      BY <1>5
    <3> QED BY <1>8, <2>1, <3>1
  <2>6. Total(rest, S) = one * D + minus * C + none * n
    BY <1>6, <1>9, <1>10, <2>5, SumLinear
  <2>7. Total(rest, S) = D - C
    BY <1>7, <1>8, <2>6
  <2>8. A * A \in Int
    BY <1>14, SMT
  <2> QED BY <1>7, <2>3, <2>4, <2>7, <2>8
<1>16. k < n
  <2>1. PICK out : out = [x \in S |-> 1 - i[x]]
    OBVIOUS
  <2>2. \A x \in S : out[x] \in Nat /\ out[x] = minus * i[x] + none * i[x] + one
    <3> SUFFICES ASSUME NEW x \in S
                 PROVE  out[x] \in Nat /\ out[x] = minus * i[x] + none * i[x] + one
      OBVIOUS
    <3>1. i[x] = 0 \/ i[x] = 1
      BY <1>5
    <3> QED BY <1>8, <2>1, <3>1
  <2>3. out[e] = 1 /\ out[e] <= Total(out, S)
    BY <1>14, <2>1, <2>2, SumAtLeast
  <2>4. Linear(out, S, minus, i, none, i, one)
    BY <2>2 DEF Linear
  <2>5. Total(out, S) = minus * k + none * k + one * n
    BY <1>6, <1>9, <1>10, <2>4, SumLinear
  <2> QED BY <1>7, <1>8, <2>3, <2>5
<1>17. n * (n * spread) \in Nat
  <2>1. n * spread \in Nat
    BY <1>7, SMT
  <2> QED BY <1>7, <2>1, SMT
<1>18. CASE k = 0
  <2>1. \A x \in S : i[x] = 0
    <3> SUFFICES ASSUME NEW x \in S
                 PROVE  i[x] = 0
      OBVIOUS
    <3>1. i[x] <= k
      <4>1. \A y \in S : i[y] \in Nat
        BY <1>5
      <4> QED BY <1>6, <4>1, SumAtLeast
    <3>2. i[x] = 0 \/ i[x] = 1
      BY <1>5
    <3> QED BY <1>18, <3>1, <3>2
  <2>2. Linear(ia, S, none, i, none, i, none)
    <3> SUFFICES ASSUME NEW x \in S
                 PROVE  ia[x] = none * i[x] + none * i[x] + none
      BY DEF Linear
    <3>1. i[x] = 0 /\ ia[x] = 0
      BY <1>5, <2>1
    <3> QED BY <1>8, <3>1
  <2>3. B = none * k + none * k + none * n
    BY <1>6, <1>9, <1>10, <2>2, SumLinear
  <2>4. B = 0
    BY <1>7, <1>8, <2>3
  <2>5. V = 0
    BY <1>11, <1>18, <2>4, SMT
  <2> QED BY <1>6, <1>17, <2>5
<1>19. CASE k > 0
  <2>1. k * C >= B * B
    <3>1. \A x \in S : /\ i[x] \in {0, 1} /\ a[x] \in Int
                       /\ ia[x] = i[x] * a[x] /\ iaa[x] = i[x] * (a[x] * a[x])
      BY <1>2, <1>3, <1>4, <1>5
    <3>2. Total(i, S) * Total(iaa, S) >= Total(ia, S) * Total(ia, S)
      BY <1>6, <1>19, <3>1, Cauchy
    <3> QED BY <1>6, <3>2
  <2>2. PICK b \in Nat : b = -B
    BY <1>12
  <2>3. k * C >= b * b
    <3>1. b * b = B * B
      BY <1>7, <2>2, SMT
    <3> QED BY <2>1, <3>1
  <2>4. V = 2 * (T * b) - k * spread
    <3>1. B = -b
      BY <1>7, <2>2
    <3> QED BY <1>7, <1>11, <3>1, SMT
  <2>5. n \in Nat \ {0} /\ k \in Nat \ {0} /\ V \in Int
    BY <1>7, <1>16, <1>19
  <2>6. n * spread = 2 * D
    BY <1>6
  <2>7. 16 * V <= n * (n * spread) /\ (n = 2 => V <= 0)
    BY <1>7, <1>14, <1>15, <1>16, <2>3, <2>4, <2>5, <2>6, WeightBound
  <2> QED BY <1>6, <1>7, <2>7
<1> QED BY <1>7, <1>18, <1>19

-----------------------------------------------------------------------------
(* The moments of a series, and what the sums of the fit are in terms of   *)
(* them.                                                                   *)
FirstMoment(s) == [y \in Known(s) |-> y]
SecondMoment(s) == [y \in Known(s) |-> y * y]
MixedMoment(s) == [y \in Known(s) |-> y * s[y]]

(* Finitely many years, and integers.                                      *)
Numeric(s) ==
    /\ IsFiniteSet(Known(s))
    /\ Known(s) \subseteq Int
    /\ \A y \in Known(s) : s[y] \in Int

(* All of them are integers.                                               *)
LEMMA MomentTypes ==
    ASSUME NEW s, Numeric(s)
    PROVE  /\ IsFiniteSet(Known(s)) /\ Cardinality(Known(s)) \in Nat
           /\ IntOn(s, Known(s)) /\ IntOn(FirstMoment(s), Known(s))
           /\ IntOn(SecondMoment(s), Known(s)) /\ IntOn(MixedMoment(s), Known(s))
           /\ Total(s, Known(s)) \in Int /\ Total(FirstMoment(s), Known(s)) \in Int
           /\ Total(SecondMoment(s), Known(s)) \in Int /\ Total(MixedMoment(s), Known(s)) \in Int
<1>1. \A y \in Known(s) : y \in Int /\ s[y] \in Int
  BY DEF Numeric
<1>2. \A y \in Known(s) : y * y \in Int /\ y * s[y] \in Int
  BY <1>1
<1>3. /\ IntOn(s, Known(s)) /\ IntOn(FirstMoment(s), Known(s))
      /\ IntOn(SecondMoment(s), Known(s)) /\ IntOn(MixedMoment(s), Known(s))
  BY <1>1, <1>2 DEF IntOn, FirstMoment, SecondMoment, MixedMoment
<1>4. IsFiniteSet(Known(s)) /\ Cardinality(Known(s)) \in Nat
  BY FS_CardinalityType DEF Numeric
<1>5. \A w : IntOn(w, Known(s)) => Total(w, Known(s)) \in Int
  BY <1>4, SumType DEF IntOn
<1> QED BY <1>3, <1>4, <1>5

(* The sums over pairs of the fit, from the moments.                       *)
LEMMA SpreadAndRise ==
    ASSUME NEW s, Numeric(s),
           NEW n, n = Cardinality(Known(s)),
           NEW X, X = Total(FirstMoment(s), Known(s)), NEW Q, Q = Total(SecondMoment(s), Known(s)),
           NEW G, G = Total(s, Known(s)), NEW P, P = Total(MixedMoment(s), Known(s))
    PROVE  Spread(s) = 2 * (n * Q - X * X) /\ Rise(s) = 2 * (n * P - X * G)
<1>1. PICK K : K = Known(s)
  OBVIOUS
<1>2. PICK x, xx, xs : x = FirstMoment(s) /\ xx = SecondMoment(s) /\ xs = MixedMoment(s)
  OBVIOUS
<1>3. IsFiniteSet(K) /\ \A y \in K : y \in Int /\ s[y] \in Int
  BY <1>1 DEF Numeric
<1>4. \A y \in K : x[y] = y /\ xx[y] = y * y /\ xs[y] = y * s[y]
  BY <1>1, <1>2 DEF FirstMoment, SecondMoment, MixedMoment
<1>5. PICK f : f = [p \in K \X K |-> (p[1] - p[2]) * (p[1] - p[2])]
  OBVIOUS
<1>6. PICK g : g = [p \in K \X K |-> (p[1] - p[2]) * (s[p[1]] - s[p[2]])]
  OBVIOUS
<1>7. Total(f, K \X K) = 2 * (n * Q - X * X)
  <2>1. \A y \in K : x[y] \in Int /\ x[y] \in Int /\ xx[y] = x[y] * x[y]
    BY <1>3, <1>4
  <2>2. \A p \in K \X K : f[p] = (x[p[1]] - x[p[2]]) * (x[p[1]] - x[p[2]])
    BY <1>4, <1>5
  <2>3. Total(f, K \X K) = 2 * (Cardinality(K) * Total(xx, K) - Total(x, K) * Total(x, K))
    BY <1>3, <2>1, <2>2, SumOfDifferences
  <2> QED BY <1>1, <1>2, <2>3
<1>8. Total(g, K \X K) = 2 * (n * P - X * G)
  <2>1. \A y \in K : x[y] \in Int /\ s[y] \in Int /\ xs[y] = x[y] * s[y]
    BY <1>3, <1>4
  <2>2. \A p \in K \X K : g[p] = (x[p[1]] - x[p[2]]) * (s[p[1]] - s[p[2]])
    BY <1>4, <1>6
  <2>3. Total(g, K \X K) = 2 * (Cardinality(K) * Total(xs, K) - Total(x, K) * Total(s, K))
    BY <1>3, <2>1, <2>2, SumOfDifferences
  <2> QED BY <1>1, <1>2, <2>3
<1>9. Spread(s) = Total(f, K \X K) /\ Rise(s) = Total(g, K \X K)
  BY <1>1, <1>5, <1>6, Zenon DEF Spread, Rise, Pairs
<1> QED BY <1>7, <1>8, <1>9

(* The spread of two years or more is positive.                            *)
LEMMA SpreadType ==
    ASSUME NEW s, Numeric(s)
    PROVE  /\ Spread(s) \in Nat /\ Rise(s) \in Int
           /\ Cardinality(Known(s)) >= 2 => Spread(s) > 0
<1>1. PICK K : K = Known(s)
  OBVIOUS
<1>2. IsFiniteSet(K) /\ K \subseteq Int
  BY <1>1 DEF Numeric
<1>3. PICK f : f = [p \in K \X K |-> (p[1] - p[2]) * (p[1] - p[2])]
  OBVIOUS
<1>4. Spread(s) = Total(f, K \X K)
  BY <1>1, <1>3, Zenon DEF Spread, Pairs
<1>5. PICK S : S = K \X K
  OBVIOUS
<1>6. IsFiniteSet(S) /\ \A p \in S : f[p] \in Nat
  <2>1. IsFiniteSet(S)
    BY <1>2, <1>5, FS_Product
  <2> SUFFICES ASSUME NEW p \in S
               PROVE  f[p] \in Nat
    BY <2>1
  <2>2. PICK d : d = p[1] - p[2]
    OBVIOUS
  <2>3. d \in Int /\ f[p] = d * d
    BY <1>2, <1>3, <1>5, <2>2
  <2> QED BY <2>3, SquareType
<1>7. Total(f, S) \in Nat
  BY <1>6, SumNonNegative
<1>8. Rise(s) \in Int
  <2>1. PICK n, X, G, P : /\ n = Cardinality(Known(s)) /\ X = Total(FirstMoment(s), Known(s))
                          /\ G = Total(s, Known(s)) /\ P = Total(MixedMoment(s), Known(s))
    OBVIOUS
  <2>2. n \in Int /\ X \in Int /\ G \in Int /\ P \in Int
    BY <2>1, MomentTypes
  <2>3. Rise(s) = 2 * (n * P - X * G)
    BY <2>1, SpreadAndRise
  <2> QED BY <2>2, <2>3
<1>9. ASSUME Cardinality(K) >= 2
      PROVE  Total(f, S) > 0
  <2>1. PICK y : y \in K
    BY <1>9, FS_EmptySet
  <2>2. PICK z : z \in K \ {y}
    <3>1. SUFFICES ASSUME K = {y}
                   PROVE  FALSE
      BY <2>1
    <3>2. Cardinality(K) = 1
      BY <3>1, FS_Singleton
    <3> QED BY <1>9, <3>2
  <2>3. PICK p : p = <<y, z>>
    OBVIOUS
  <2>4. p \in S /\ f[p] = (y - z) * (y - z)
    BY <1>3, <1>5, <2>1, <2>2, <2>3
  <2>5. y \in Int /\ z \in Int /\ y # z
    BY <1>2, <2>1, <2>2
  <2>6. (y - z) * (y - z) > 0
    <3>1. PICK d \in Int : d = y - z
      BY <2>5
    <3>2. d # 0
      BY <2>5, <3>1
    <3>3. d * d > 0
      BY <3>2, SMT
    <3> QED BY <3>1, <3>3
  <2>7. f[p] <= Total(f, S)
    BY <1>6, <2>4, SumAtLeast
  <2>8. f[p] \in Nat
    BY <1>6, <2>4
  <2> QED BY <1>7, <2>4, <2>6, <2>7, <2>8
<1> QED BY <1>1, <1>4, <1>5, <1>7, <1>8, <1>9

(* The line goes through the centre of the points.                         *)
LEMMA FitIsLine ==
    ASSUME NEW s, Numeric(s), NEW t \in Int,
           NEW n, n = Cardinality(Known(s)),
           NEW X, X = Total(FirstMoment(s), Known(s)), NEW G, G = Total(s, Known(s))
    PROVE  /\ FitAt(s, t).above = Spread(s) * G + (n * t - X) * Rise(s)
           /\ FitAt(s, t).below = n * Spread(s)
<1>1. PICK spread, rise : spread = Spread(s) /\ rise = Rise(s)
  OBVIOUS
<1>2. spread \in Int /\ rise \in Int
  BY <1>1, SpreadType
<1>3. PICK w : w = [y \in Known(s) |-> s[y] * spread + (t - y) * rise]
  OBVIOUS
<1>4. FitAt(s, t).above = Total(w, Known(s)) /\ FitAt(s, t).below = n * spread
  BY <1>1, <1>3, Zenon DEF FitAt
<1>5. PICK b, c : b = -rise /\ c = t * rise
  OBVIOUS
<1>6. b \in Int /\ c \in Int
  BY <1>2, <1>5
<1>7. Linear(w, Known(s), spread, s, b, FirstMoment(s), c)
  <2> SUFFICES ASSUME NEW y \in Known(s)
               PROVE  w[y] = spread * s[y] + b * FirstMoment(s)[y] + c
    BY DEF Linear
  <2>1. y \in Int /\ s[y] \in Int
    BY DEF Numeric
  <2>2. w[y] = s[y] * spread + (t - y) * rise /\ FirstMoment(s)[y] = y
    BY <1>3 DEF FirstMoment
  <2>3. s[y] * spread + (t - y) * rise = spread * s[y] + (-rise) * y + t * rise
    BY <1>2, <2>1, SMT
  <2> QED BY <1>5, <2>2, <2>3, Zenon
<1>8. n \in Int /\ X \in Int /\ G \in Int
  BY MomentTypes
<1>9. Total(w, Known(s)) = spread * G + b * X + c * n
  BY <1>2, <1>6, <1>7, MomentTypes, SumLinear
<1>10. Total(w, Known(s)) = spread * G + (-rise) * X + (t * rise) * n
  BY <1>5, <1>9, Zenon
<1>11. spread * G + (-rise) * X + (t * rise) * n = spread * G + (n * t - X) * rise
  BY <1>2, <1>8, SMT
<1> QED BY <1>1, <1>4, <1>10, <1>11

(* The distances of the years from their centre, n times, and the weights  *)
(* of the populations in the value of the line at t.                       *)
Distance(s) == [y \in Known(s) |-> Cardinality(Known(s)) * y - Total(FirstMoment(s), Known(s))]

DistanceAt(s, t) == Cardinality(Known(s)) * t - Total(FirstMoment(s), Known(s))

Weight(s, t) == [y \in Known(s) |-> Spread(s) + 2 * (DistanceAt(s, t) * Distance(s)[y])]

(* The squares of the distances add up to the spread.                      *)
LEMMA Centred ==
    ASSUME NEW s, Numeric(s), NEW aa, SquaresOf(aa, Distance(s), Known(s))
    PROVE  Cardinality(Known(s)) * Spread(s) = 2 * Total(aa, Known(s))
<1>1. PICK n, X, Q : /\ n = Cardinality(Known(s)) /\ X = Total(FirstMoment(s), Known(s))
                     /\ Q = Total(SecondMoment(s), Known(s))
  OBVIOUS
<1>2. n \in Int /\ X \in Int /\ Q \in Int
  BY <1>1, MomentTypes
<1>3. PICK a, b, c : a = n * n /\ b = -(2 * (n * X)) /\ c = X * X
  OBVIOUS
<1>4. a \in Int /\ b \in Int /\ c \in Int
  BY <1>2, <1>3, SMT
<1>5. Linear(aa, Known(s), a, SecondMoment(s), b, FirstMoment(s), c)
  <2> SUFFICES ASSUME NEW y \in Known(s)
               PROVE  aa[y] = a * SecondMoment(s)[y] + b * FirstMoment(s)[y] + c
    BY DEF Linear
  <2>1. y \in Int
    BY DEF Numeric
  <2>2. aa[y] = (n * y - X) * (n * y - X)
    BY <1>1 DEF SquaresOf, Distance
  <2>3. SecondMoment(s)[y] = y * y /\ FirstMoment(s)[y] = y
    BY DEF SecondMoment, FirstMoment
  <2>4. (n * y - X) * (n * y - X) = (n * n) * (y * y) + (-(2 * (n * X))) * y + X * X
    BY <1>2, <2>1, SMT
  <2> QED BY <1>3, <2>2, <2>3, <2>4, Zenon
<1>6. Total(aa, Known(s)) = a * Q + b * X + c * n
  BY <1>1, <1>4, <1>5, MomentTypes, SumLinear
<1>7. Total(aa, Known(s)) = (n * n) * Q + (-(2 * (n * X))) * X + (X * X) * n
  BY <1>3, <1>6, Zenon
<1>8. PICK G, P : G = Total(s, Known(s)) /\ P = Total(MixedMoment(s), Known(s))
  OBVIOUS
<1>9. Spread(s) = 2 * (n * Q - X * X)
  BY <1>1, <1>8, SpreadAndRise
<1>10. n * (2 * (n * Q - X * X)) = 2 * ((n * n) * Q + (-(2 * (n * X))) * X + (X * X) * n)
  BY <1>2, SMT
<1> QED BY <1>1, <1>7, <1>9, <1>10

(* The weights add up to the denominator, and the populations, each with   *)
(* its weight, to the numerator of the value at t.                         *)
LEMMA Weighted ==
    ASSUME NEW s, Numeric(s), NEW t \in Int,
           NEW sw, \A y \in Known(s) : sw[y] = s[y] * Weight(s, t)[y]
    PROVE  /\ Total(Weight(s, t), Known(s)) = FitAt(s, t).below
           /\ Total(sw, Known(s)) = FitAt(s, t).above
           /\ IntOn(Weight(s, t), Known(s)) /\ IntOn(sw, Known(s))
<1>1. PICK n, X, G, P : /\ n = Cardinality(Known(s)) /\ X = Total(FirstMoment(s), Known(s))
                        /\ G = Total(s, Known(s)) /\ P = Total(MixedMoment(s), Known(s))
  OBVIOUS
<1>2. n \in Int /\ X \in Int /\ G \in Int /\ P \in Int
  BY <1>1, MomentTypes
<1>3. PICK T, spread, rise : T = DistanceAt(s, t) /\ spread = Spread(s) /\ rise = Rise(s)
  OBVIOUS
<1>4. T \in Int /\ spread \in Int /\ rise \in Int /\ T = n * t - X
  <2>1. T = n * t - X
    BY <1>1, <1>3 DEF DistanceAt
  <2> QED BY <1>2, <1>3, <2>1, SpreadType
<1>5. rise = 2 * (n * P - X * G)
  <2>1. PICK Q : Q = Total(SecondMoment(s), Known(s))
    OBVIOUS
  <2> QED BY <1>1, <1>3, <2>1, SpreadAndRise
<1>6. PICK a, b, none : a = 2 * (T * n) /\ b = spread - 2 * (T * X) /\ none = 0
  OBVIOUS
<1>7. a \in Int /\ b \in Int /\ none \in Int
  BY <1>2, <1>4, <1>6, SMT
<1>8. ASSUME NEW y \in Known(s)
      PROVE  /\ Weight(s, t)[y] = a * FirstMoment(s)[y] + none * FirstMoment(s)[y] + b
             /\ sw[y] = b * s[y] + a * MixedMoment(s)[y] + none
             /\ Weight(s, t)[y] \in Int /\ sw[y] \in Int
  <2>1. y \in Int /\ s[y] \in Int
    BY DEF Numeric
  <2>2. Distance(s)[y] = n * y - X
    BY <1>1 DEF Distance
  <2>3. Weight(s, t)[y] = spread + 2 * (T * (n * y - X))
    BY <1>3, <2>2 DEF Weight
  <2>4. FirstMoment(s)[y] = y /\ MixedMoment(s)[y] = y * s[y]
    BY DEF FirstMoment, MixedMoment
  <2>5. PICK v : v = s[y]
    OBVIOUS
  <2>6. v \in Int
    BY <2>1, <2>5
  <2>7. spread + 2 * (T * (n * y - X)) = (2 * (T * n)) * y + 0 * y + (spread - 2 * (T * X))
    BY <1>2, <1>4, <2>1, SMT
  <2>8. v * (spread + 2 * (T * (n * y - X)))
        = (spread - 2 * (T * X)) * v + (2 * (T * n)) * (y * v) + 0
    BY <1>2, <1>4, <2>1, <2>6, SMT
  <2>9. sw[y] = v * (spread + 2 * (T * (n * y - X)))
    BY <2>3, <2>5, Zenon
  <2>10. Weight(s, t)[y] \in Int
    BY <1>2, <1>4, <2>1, <2>3, SMT
  <2>11. sw[y] \in Int
    BY <2>1, <2>10
  <2>12. sw[y] = b * s[y] + a * MixedMoment(s)[y] + none
    BY <1>6, <2>4, <2>5, <2>8, <2>9, Zenon
  <2> QED BY <1>6, <2>3, <2>4, <2>7, <2>10, <2>11, <2>12, Zenon
<1>9. Linear(Weight(s, t), Known(s), a, FirstMoment(s), none, FirstMoment(s), b)
  BY <1>8 DEF Linear
<1>10. Linear(sw, Known(s), b, s, a, MixedMoment(s), none)
  BY <1>8 DEF Linear
<1>11. Total(Weight(s, t), Known(s)) = a * X + none * X + b * n
  BY <1>1, <1>7, <1>9, MomentTypes, SumLinear
<1>12. Total(sw, Known(s)) = b * G + a * P + none * n
  BY <1>1, <1>7, <1>10, MomentTypes, SumLinear
<1>13. Total(Weight(s, t), Known(s)) = n * spread
  <2>1. Total(Weight(s, t), Known(s))
        = (2 * (T * n)) * X + 0 * X + (spread - 2 * (T * X)) * n
    BY <1>6, <1>11, Zenon
  <2>2. (2 * (T * n)) * X + 0 * X + (spread - 2 * (T * X)) * n = n * spread
    BY <1>2, <1>4, SMT
  <2> QED BY <2>1, <2>2
<1>14. Total(sw, Known(s)) = spread * G + T * rise
  <2>1. Total(sw, Known(s)) = (spread - 2 * (T * X)) * G + (2 * (T * n)) * P + 0 * n
    BY <1>6, <1>12, Zenon
  <2>2. (spread - 2 * (T * X)) * G + (2 * (T * n)) * P + 0 * n
        = spread * G + T * (2 * (n * P - X * G))
    BY <1>2, <1>4, SMT
  <2> QED BY <1>5, <2>1, <2>2
<1>15. FitAt(s, t).above = spread * G + (n * t - X) * rise /\ FitAt(s, t).below = n * spread
  BY <1>1, <1>3, FitIsLine
<1> QED BY <1>4, <1>8, <1>13, <1>14, <1>15 DEF IntOn

(* Within the years of the series the negative weights are small.          *)
LEMMA NegativeWithin ==
    ASSUME NEW s, Numeric(s), NEW t \in Int,
           NEW first \in Known(s), first <= t, NEW last \in Known(s), t <= last,
           NEW neg, \A y \in Known(s) :
                        neg[y] = IF Weight(s, t)[y] < 0 THEN -Weight(s, t)[y] ELSE 0
    PROVE  /\ Total(neg, Known(s)) \in Nat
           /\ 16 * Total(neg, Known(s)) <= Cardinality(Known(s)) * FitAt(s, t).below
           /\ Cardinality(Known(s)) = 2 => Total(neg, Known(s)) = 0
<1>1. PICK n, X, G, S : /\ n = Cardinality(Known(s)) /\ X = Total(FirstMoment(s), Known(s))
                        /\ G = Total(s, Known(s)) /\ S = Known(s)
  OBVIOUS
<1>2. n \in Nat /\ X \in Int /\ IsFiniteSet(S)
  BY <1>1, MomentTypes
<1>3. PICK T, spread : T = DistanceAt(s, t) /\ spread = Spread(s)
  OBVIOUS
<1>4. T \in Int /\ spread \in Nat /\ T = n * t - X
  <2>1. T = n * t - X
    BY <1>1, <1>3 DEF DistanceAt
  <2> QED BY <1>2, <1>3, <2>1, SpreadType
<1>5. FitAt(s, t).below = n * spread
  BY <1>1, <1>3, FitIsLine
<1>6. PICK aa : aa = [y \in S |-> Distance(s)[y] * Distance(s)[y]]
  OBVIOUS
<1>7. n * spread = 2 * Total(aa, S)
  <2>1. SquaresOf(aa, Distance(s), Known(s))
    BY <1>1, <1>6 DEF SquaresOf
  <2> QED BY <1>1, <1>3, <2>1, Centred
<1>8. \A y \in S : y \in Int /\ Distance(s)[y] = n * y - X /\ Distance(s)[y] \in Int
  <2>1. \A y \in S : y \in Int
    BY <1>1 DEF Numeric
  <2>2. \A y \in S : Distance(s)[y] = n * y - X
    BY <1>1 DEF Distance
  <2> QED BY <1>2, <2>1, <2>2
<1>9. \A y \in S : Weight(s, t)[y] = spread + 2 * (T * Distance(s)[y])
  BY <1>1, <1>3 DEF Weight
<1>10. CASE T >= 0
  <2>1. NegativePart(neg, S, spread, T, Distance(s))
    BY <1>1, <1>9, Zenon DEF NegativePart
  <2>2. SquaresOf(aa, Distance(s), S) /\ IntOn(Distance(s), S)
    BY <1>6, <1>8 DEF SquaresOf, IntOn
  <2>3. Distance(s)[last] >= T
    <3>1. n * t <= n * last
      BY <1>1, <1>2, <1>8, Monotone
    <3>2. last \in Int /\ n * t \in Int /\ n * last \in Int
      BY <1>1, <1>2, <1>8, SMT
    <3>3. Distance(s)[last] = n * last - X
      BY <1>1, <1>8
    <3> QED BY <1>2, <1>4, <3>1, <3>2, <3>3
  <2>4. T \in Nat /\ last \in S
    BY <1>1, <1>4, <1>10
  <2> QED BY <1>1, <1>2, <1>4, <1>5, <1>7, <2>1, <2>2, <2>3, <2>4, NegativeWeights
<1>11. CASE T < 0
  <2>1. PICK M, a : M = -T /\ a = [y \in S |-> -Distance(s)[y]]
    OBVIOUS
  <2>2. M \in Nat /\ first \in S
    BY <1>1, <1>4, <1>11, <2>1
  <2>3. \A y \in S : a[y] \in Int /\ aa[y] = a[y] * a[y] /\ M * a[y] = T * Distance(s)[y]
    <3> SUFFICES ASSUME NEW y \in S
                 PROVE  a[y] \in Int /\ aa[y] = a[y] * a[y] /\ M * a[y] = T * Distance(s)[y]
      OBVIOUS
    <3>1. PICK d : d = Distance(s)[y]
      OBVIOUS
    <3>2. d \in Int /\ a[y] = -d /\ aa[y] = d * d
      BY <1>6, <1>8, <2>1, <3>1
    <3>3. (-d) * (-d) = d * d /\ (-T) * (-d) = T * d
      BY <1>4, <3>2, SMT
    <3> QED BY <2>1, <3>1, <3>2, <3>3
  <2>4. NegativePart(neg, S, spread, M, a)
    BY <1>1, <1>9, <2>3, Zenon DEF NegativePart
  <2>5. SquaresOf(aa, a, S) /\ IntOn(a, S)
    BY <2>3 DEF SquaresOf, IntOn
  <2>6. a[first] >= M
    <3>1. n * first <= n * t
      BY <1>1, <1>2, <1>8, Monotone
    <3>2. first \in Int /\ n * t \in Int /\ n * first \in Int
      BY <1>1, <1>2, <1>8, SMT
    <3>3. a[first] = -(n * first - X)
      BY <1>1, <1>8, <2>1
    <3> QED BY <1>2, <1>4, <2>1, <3>1, <3>2, <3>3
  <2> QED BY <1>1, <1>2, <1>4, <1>5, <1>7, <2>2, <2>4, <2>5, <2>6, NegativeWeights
<1> QED BY <1>4, <1>10, <1>11
(* A product with a sign that is known.                                    *)
LEMMA AboveLow ==
    ASSUME NEW p \in Int, NEW w \in Int, NEW low \in Int, NEW high \in Int,
           low <= p, p <= high, NEW m, m = IF w < 0 THEN -w ELSE 0
    PROVE  /\ p * w + (-low) * w + (high - low) * m >= 0
           /\ (-1) * (p * w) + high * w + (high - low) * m >= 0
<1>1. CASE w < 0
  <2>1. PICK v \in Nat : v = -w
    BY <1>1, SMT
  <2>2. (high - p) * v \in Nat /\ (p - low) * v \in Nat
    <3>1. high - p \in Nat /\ p - low \in Nat
      OBVIOUS
    <3> QED BY <3>1, SMT
  <2>3. /\ p * w + (-low) * w + (high - low) * m = (high - p) * v
        /\ (-1) * (p * w) + high * w + (high - low) * m = (p - low) * v
    BY <1>1, <2>1, SMT
  <2> QED BY <2>2, <2>3
<1>2. CASE w >= 0
  <2>1. (high - p) * w \in Nat /\ (p - low) * w \in Nat
    <3>1. high - p \in Nat /\ p - low \in Nat /\ w \in Nat
      BY <1>2
    <3> QED BY <3>1, SMT
  <2>2. /\ p * w + (-low) * w + (high - low) * m = (p - low) * w
        /\ (-1) * (p * w) + high * w + (high - low) * m = (high - p) * w
    BY <1>2, SMT
  <2> QED BY <2>1, <2>2
<1> QED BY <1>1, <1>2

(* From the weights to the bounds on a value A / D of the line: N is the   *)
(* sum of the negative weights.                                            *)
LEMMA RangeFromWeights ==
    ASSUME NEW n \in Nat, NEW low \in Nat, NEW high \in Nat, low <= high,
           NEW A \in Int, NEW D \in Nat, NEW N \in Nat,
           16 * N <= n * D, n = 2 => N = 0, n >= 3 => high <= 2 * low, n >= 2,
           A - low * D + (high - low) * N >= 0,
           high * D - A + (high - low) * N >= 0
    PROVE  /\ 16 * A >= (16 - n) * D * low
           /\ 32 * A <= (32 + n) * D * high
<1>1. PICK lD, hD, nlD, nhD, gN, nD :
          /\ lD = low * D /\ hD = high * D /\ nD = n * D /\ nlD = n * lD /\ nhD = n * hD
          /\ gN = (high - low) * N
  OBVIOUS
<1>2. lD \in Nat /\ hD \in Nat /\ nD \in Nat /\ gN \in Nat
  <2>1. high - low \in Nat
    OBVIOUS
  <2> QED BY <1>1, <2>1, SMT
<1>3. nlD \in Nat /\ nhD \in Nat
  BY <1>1, <1>2, SMT
<1>4. 16 * gN <= nlD /\ 32 * gN <= nhD
  <2>1. CASE n = 2
    <3>1. gN = 0
      BY <1>1, <2>1, SMT
    <3> QED BY <1>3, <3>1
  <2>2. CASE n >= 3
    <3>1. PICK g \in Nat : g = high - low
      BY SMT
    <3>2. g <= low /\ 2 * g <= high
      BY <2>2, <3>1
    <3>3. N * g <= N * low /\ N * (2 * g) <= N * high
      BY <3>1, <3>2, Monotone
    <3>4. low * (16 * N) <= low * nD /\ high * (16 * N) <= high * nD
      BY <1>1, <1>2, Monotone
    <3>5. /\ gN = N * g /\ N * (2 * g) = 2 * gN /\ low * (16 * N) = 16 * (N * low)
          /\ high * (16 * N) = 16 * (N * high) /\ low * nD = nlD /\ high * nD = nhD
      BY <1>1, <3>1, SMT
    <3>6. N * low \in Int /\ N * high \in Int
      BY SMT
    <3> QED BY <1>2, <1>3, <3>3, <3>4, <3>5, <3>6
  <2> QED BY <2>1, <2>2
<1>5. A - lD + gN >= 0 /\ hD - A + gN >= 0
  BY <1>1
<1>6. (16 - n) * D * low = 16 * lD - nlD /\ (32 + n) * D * high = 32 * hD + nhD
  BY <1>1, SMT
<1> QED BY <1>2, <1>3, <1>4, <1>5, <1>6

(* Between its first and its last year the line leaves the range of the    *)
(* values by little.                                                       *)
LEMMA FitInRange ==
    ASSUME NEW s, Numeric(s), NEW t \in Int,
           NEW first \in Known(s), first <= t, NEW last \in Known(s), t <= last,
           NEW low \in Nat, NEW high \in Nat, \A y \in Known(s) : low <= s[y] /\ s[y] <= high,
           NEW n, n = Cardinality(Known(s)), n >= 2, n >= 3 => high <= 2 * low
    PROVE  /\ 16 * FitAt(s, t).above >= (16 - n) * FitAt(s, t).below * low
           /\ 32 * FitAt(s, t).above <= (32 + n) * FitAt(s, t).below * high
<1>1. PICK A, D, w, S : A = FitAt(s, t).above /\ D = FitAt(s, t).below /\ w = Weight(s, t)
                        /\ S = Known(s)
  OBVIOUS
<1>2. PICK sw : sw = [y \in S |-> s[y] * w[y]]
  OBVIOUS
<1>3. PICK neg : neg = [y \in S |-> IF w[y] < 0 THEN -w[y] ELSE 0]
  OBVIOUS
<1>4. Total(w, S) = D /\ Total(sw, S) = A /\ IntOn(w, S) /\ IntOn(sw, S)
  <2>1. \A y \in Known(s) : sw[y] = s[y] * Weight(s, t)[y]
    BY <1>1, <1>2
  <2> QED BY <1>1, <2>1, Weighted
<1>5. PICK N : N = Total(neg, S)
  OBVIOUS
<1>6. N \in Nat /\ 16 * N <= n * D /\ (n = 2 => N = 0)
  <2>1. \A y \in Known(s) : neg[y] = IF Weight(s, t)[y] < 0 THEN -Weight(s, t)[y] ELSE 0
    BY <1>1, <1>3
  <2> QED BY <1>1, <1>5, <2>1, NegativeWithin
<1>7. n \in Nat /\ IsFiniteSet(S) /\ IntOn(s, S)
  BY <1>1, MomentTypes
<1>8. A \in Int /\ D \in Nat
  <2>1. A \in Int
    BY <1>4, <1>7, SumType DEF IntOn
  <2>2. D = n * Spread(s)
    BY <1>1, MomentTypes, FitIsLine
  <2>3. Spread(s) \in Nat
    BY SpreadType
  <2> QED BY <1>7, <2>1, <2>2, <2>3
<1>9. \A y \in S : /\ sw[y] \in Int /\ w[y] \in Int /\ neg[y] \in Int
                   /\ sw[y] + (-low) * w[y] + (high - low) * neg[y] >= 0
                   /\ (-1) * sw[y] + high * w[y] + (high - low) * neg[y] >= 0
  <2> SUFFICES ASSUME NEW y \in S
               PROVE  /\ sw[y] \in Int /\ w[y] \in Int /\ neg[y] \in Int
                      /\ sw[y] + (-low) * w[y] + (high - low) * neg[y] >= 0
                      /\ (-1) * sw[y] + high * w[y] + (high - low) * neg[y] >= 0
    OBVIOUS
  <2>1. PICK p, v, m : p = s[y] /\ v = w[y] /\ m = neg[y]
    OBVIOUS
  <2>2. p \in Int /\ v \in Int /\ low <= p /\ p <= high
    BY <1>1, <1>4, <1>7, <2>1 DEF IntOn
  <2>3. m = IF v < 0 THEN -v ELSE 0
    BY <1>3, <2>1
  <2>4. /\ p * v + (-low) * v + (high - low) * m >= 0
        /\ (-1) * (p * v) + high * v + (high - low) * m >= 0
    BY <2>2, <2>3, AboveLow
  <2>5. sw[y] = p * v
    BY <1>2, <2>1
  <2>6. sw[y] \in Int /\ m \in Int
    BY <1>4, <2>2, <2>3 DEF IntOn
  <2> QED BY <2>1, <2>2, <2>4, <2>5, <2>6
<1>10. IntOn(sw, S) /\ IntOn(w, S) /\ IntOn(neg, S)
  BY <1>9 DEF IntOn
<1>11. PICK one, none, minus, down, gap :
          one = 1 /\ none = 0 /\ minus = -1 /\ down = -low /\ gap = high - low
  OBVIOUS
<1>12. one \in Int /\ none \in Int /\ minus \in Int /\ down \in Int /\ gap \in Int
  BY <1>11
<1>13. A - low * D + gap * N >= 0
  <2>1. PICK z : z = [y \in S |-> one * sw[y] + down * w[y] + gap * neg[y] + none]
    OBVIOUS
  <2>2. Linear3(z, S, one, sw, down, w, gap, neg, none)
    BY <2>1 DEF Linear3
  <2>3. Total(z, S) = one * A + down * D + gap * N + none * n
    BY <1>1, <1>4, <1>5, <1>7, <1>10, <1>12, <2>2, SumOfThree
  <2>4. \A y \in S : z[y] \in Nat
    <3> SUFFICES ASSUME NEW y \in S
                 PROVE  z[y] \in Nat
      OBVIOUS
    <3>1. z[y] = sw[y] + (-low) * w[y] + (high - low) * neg[y]
      <4>1. one * sw[y] + down * w[y] + gap * neg[y] + none
            = sw[y] + (-low) * w[y] + (high - low) * neg[y]
        BY <1>9, <1>11, SMT
      <4> QED BY <2>1, <4>1
    <3>2. sw[y] + (-low) * w[y] + (high - low) * neg[y] \in Int
      BY <1>9, SMT
    <3> QED BY <1>9, <3>1, <3>2
  <2>5. Total(z, S) >= 0
    BY <1>7, <2>4, SumNonNegative
  <2>6. one * A + down * D + gap * N + none * n = A - low * D + gap * N
    BY <1>6, <1>7, <1>8, <1>11, <1>12, SMT
  <2> QED BY <2>3, <2>5, <2>6
<1>14. high * D - A + gap * N >= 0
  <2>1. PICK z : z = [y \in S |-> minus * sw[y] + high * w[y] + gap * neg[y] + none]
    OBVIOUS
  <2>2. Linear3(z, S, minus, sw, high, w, gap, neg, none)
    BY <2>1 DEF Linear3
  <2>3. Total(z, S) = minus * A + high * D + gap * N + none * n
    BY <1>1, <1>4, <1>5, <1>7, <1>10, <1>12, <2>2, SumOfThree
  <2>4. \A y \in S : z[y] \in Nat
    <3> SUFFICES ASSUME NEW y \in S
                 PROVE  z[y] \in Nat
      OBVIOUS
    <3>1. z[y] = (-1) * sw[y] + high * w[y] + (high - low) * neg[y]
      <4>1. minus * sw[y] + high * w[y] + gap * neg[y] + none
            = (-1) * sw[y] + high * w[y] + (high - low) * neg[y]
        BY <1>9, <1>11, SMT
      <4> QED BY <2>1, <4>1
    <3>2. (-1) * sw[y] + high * w[y] + (high - low) * neg[y] \in Int
      BY <1>9, SMT
    <3> QED BY <1>9, <3>1, <3>2
  <2>5. Total(z, S) >= 0
    BY <1>7, <2>4, SumNonNegative
  <2>6. minus * A + high * D + gap * N + none * n = high * D - A + gap * N
    BY <1>6, <1>7, <1>8, <1>11, <1>12, SMT
  <2> QED BY <2>3, <2>5, <2>6
<1>15. low <= high
  <2>1. low <= s[first] /\ s[first] <= high /\ s[first] \in Int
    BY <1>1, <1>7 DEF IntOn
  <2> QED BY <2>1
<1>16. /\ 16 * A >= (16 - n) * D * low
       /\ 32 * A <= (32 + n) * D * high
  BY <1>6, <1>7, <1>8, <1>11, <1>13, <1>14, <1>15, RangeFromWeights
<1> QED BY <1>1, <1>16
-----------------------------------------------------------------------------
(* The years and values of a series are finitely many naturals.            *)
LEMMA SeriesIsNumeric ==
    ASSUME NEW s \in Series
    PROVE  /\ Numeric(s) /\ IsFiniteSet(Known(s)) /\ Known(s) \in SUBSET Nat
           /\ \A y \in Known(s) : s[y] \in Populations /\ s[y] \in Nat
           /\ Cardinality(Known(s)) \in Nat
           /\ Cardinality(Known(s)) = 0 <=> Known(s) = {}
<1>1. Known(s) \in SUBSET Years /\ Known(s) \in SUBSET Nat
  BY NumberAssumption DEF Known
<1>2. IsFiniteSet(Known(s))
  BY <1>1, NumberAssumption, FS_Subset
<1>3. \A y \in Known(s) : s[y] \in Populations /\ s[y] \in Nat
  BY NumberAssumption DEF Known, Series
<1> QED BY <1>1, <1>2, <1>3, FS_CardinalityType, FS_EmptySet DEF Numeric

(* The smallest and the largest of its values.                             *)
LEMMA Extremes ==
    ASSUME NEW s \in Series, Known(s) # {}
    PROVE  /\ Min(Values(s)) \in Nat /\ Max(Values(s)) \in Nat
           /\ \A y \in Known(s) : Min(Values(s)) <= s[y] /\ s[y] <= Max(Values(s))
           /\ \E y \in Known(s) : Min(Values(s)) = s[y]
           /\ \E y \in Known(s) : Max(Values(s)) = s[y]
<1>1. IsFiniteSet(Known(s)) /\ \A y \in Known(s) : s[y] \in Nat
  BY SeriesIsNumeric
<1> DEFINE good == {T \in SUBSET Known(s) : \E b \in Nat : \A y \in T : s[y] <= b}
<1>2. {} \in good
  OBVIOUS
<1>3. ASSUME NEW T \in SUBSET Known(s), NEW x \in Known(s) \ T, T \in good
      PROVE  T \cup {x} \in good
  <2>1. PICK b \in Nat : \A y \in T : s[y] <= b
    BY <1>3
  <2>2. s[x] \in Nat
    BY <1>1
  <2>3. PICK c \in Nat : b <= c /\ s[x] <= c
    BY <2>2
  <2>4. \A y \in T \cup {x} : s[y] <= c
    BY <1>1, <2>1, <2>3
  <2> QED BY <2>4
<1>4. Known(s) \in good
  <2> HIDE DEF good
  <2> QED BY <1>1, <1>2, <1>3, SubsetInduction
<1>5. PICK b \in Nat : \A y \in Known(s) : s[y] <= b
  BY <1>4
<1>6. Values(s) \in SUBSET (0 .. b) /\ Values(s) # {}
  BY <1>1, <1>5 DEF Values
<1>7. /\ Min(Values(s)) \in Values(s) /\ \A v \in Values(s) : Min(Values(s)) <= v
      /\ Max(Values(s)) \in Values(s) /\ \A v \in Values(s) : v <= Max(Values(s))
  <2>1. Values(s) \in SUBSET Nat
    BY <1>6
  <2> QED BY <1>6, <2>1, MinIsLeast, MaxIsGreatest
<1> QED BY <1>1, <1>7 DEF Values

(* Its first and its last year.                                            *)
LEMMA FirstAndLast ==
    ASSUME NEW s \in Series, Known(s) # {}
    PROVE  /\ Min(Known(s)) \in Known(s) /\ \A y \in Known(s) : Min(Known(s)) <= y
           /\ Max(Known(s)) \in Known(s) /\ \A y \in Known(s) : y <= Max(Known(s))
BY SeriesIsNumeric, MinIsLeast, HasGreatest

(* The filter leaves a series, and its values within a factor of two if    *)
(* they are three or more.                                                 *)
LEMMA FilteredSeries ==
    ASSUME NEW r \in Series, NEW s, s = FilterScopeOutliers(r)
    PROVE  s \in Series /\ (Cardinality(Known(s)) >= 3 => Max(Values(s)) <= 2 * Min(Values(s)))
<1>1. s \in Series
  BY DEF FilterScopeOutliers, Series
<1>2. SUFFICES ASSUME Cardinality(Known(s)) >= 3
               PROVE  Max(Values(s)) <= 2 * Min(Values(s))
  BY <1>1
<1>3. CASE s = r
  <2>1. ~ (Cardinality(Known(s)) < 3)
    BY <1>1, <1>2, SeriesIsNumeric
  <2>2. CASE Max(Values(s)) <= 2 * Min(Values(s))
    BY <2>2
  <2>3. CASE ~ (Max(Values(s)) <= 2 * Min(Values(s)))
    <3>1. \A y \in Known(s) : s[y] <= 2 * Min(Values(s))
      BY <1>3, <2>1, <2>3 DEF FilterScopeOutliers, Known
    <3>2. Known(s) # {}
      BY <1>1, <1>2, SeriesIsNumeric
    <3>3. PICK y \in Known(s) : Max(Values(s)) = s[y]
      BY <1>1, <3>2, Extremes
    <3> QED BY <3>1, <3>3
  <2> QED BY <2>2, <2>3
<1>4. CASE s # r
  <2>1. s = [y \in Years |-> IF r[y] # Null /\ r[y] <= 2 * Min(Values(r)) THEN r[y] ELSE Null]
    BY <1>4 DEF FilterScopeOutliers
  <2>2. \A y \in Known(s) : y \in Known(r) /\ s[y] = r[y] /\ s[y] <= 2 * Min(Values(r))
    BY <2>1 DEF Known
  <2>3. Known(s) # {}
    BY <1>1, <1>2, SeriesIsNumeric
  <2>4. PICK hi \in Known(s) : Max(Values(s)) = s[hi]
    BY <1>1, <2>3, Extremes
  <2>5. PICK lo \in Known(s) : Min(Values(s)) = s[lo]
    BY <1>1, <2>3, Extremes
  <2>6. Min(Values(r)) <= r[lo] /\ Min(Values(r)) \in Nat /\ r[lo] \in Nat
    BY <2>2, <2>3, Extremes, SeriesIsNumeric
  <2>7. s[hi] <= 2 * Min(Values(r)) /\ s[lo] = r[lo] /\ s[hi] \in Nat
    BY <1>1, <2>2, SeriesIsNumeric
  <2> QED BY <2>4, <2>5, <2>6, <2>7
<1> QED BY <1>3, <1>4

(* The year of the latest visitor record.                                  *)
LEMMA LatestYearIsNatural ==
    ASSUME NEW v \in Visits
    PROVE  LatestYear(v) \in Years /\ LatestYear(v) \in Nat
<1> DEFINE S == {y \in Years : v[y] # Null}
<1>1. S # {} /\ S \in SUBSET Years /\ S \in SUBSET Nat
  BY VisitsAssumption, NumberAssumption
<1>2. IsFiniteSet(S)
  BY <1>1, NumberAssumption, FS_Subset
<1>3. Max(S) \in S
  BY <1>1, <1>2, HasGreatest
<1> QED BY <1>1, <1>3, Zenon DEF LatestYear
-----------------------------------------------------------------------------
(* The sums of the residuals vanish, by the definitions of spread and      *)
(* rise.                                                                   *)
LEMMA ResidualsCancel ==
    ASSUME NEW n \in Int, NEW X \in Int, NEW G \in Int, NEW Q \in Int, NEW P \in Int,
           NEW spread \in Int, NEW rise \in Int,
           spread = 2 * (n * Q - X * X), rise = 2 * (n * P - X * G),
           NEW a, a = n * rise, NEW b, b = -(n * spread), NEW c, c = spread * G - X * rise
    PROVE  /\ a \in Int /\ b \in Int /\ c \in Int
           /\ a * X + b * G + c * n = 0
           /\ a * Q + b * P + c * X + 0 * n = 0
<1>1. a \in Int /\ b \in Int /\ c \in Int
  BY SMT
<1>2. a * X + b * G + c * n = 0
  BY SMT
<1>3. PICK u, v : u = n * Q - X * X /\ v = n * P - X * G
  OBVIOUS
<1>4. u \in Int /\ v \in Int /\ spread = 2 * u /\ rise = 2 * v
  BY <1>3
<1>5. a * Q + b * P + c * X + 0 * n = rise * (n * Q - X * X) - spread * (n * P - X * G)
  BY SMT
<1>6. rise * u - spread * v = 0
  BY <1>4, SMT
<1>7. rise * (n * Q - X * X) - spread * (n * P - X * G) = rise * u - spread * v
  BY <1>3, Zenon
<1> QED BY <1>1, <1>2, <1>5, <1>6, <1>7

(* The normal equations of the least squares line.                         *)
LEMMA ResidualsSumToZero ==
    ASSUME NEW s, Numeric(s),
           NEW r, \A y \in Known(s) : r[y] = FitAt(s, y).above - FitAt(s, y).below * s[y],
           NEW yr, \A y \in Known(s) : yr[y] = y * r[y]
    PROVE  Total(r, Known(s)) = 0 /\ Total(yr, Known(s)) = 0
<1>1. PICK n, X, Q, G, P, S :
          /\ n = Cardinality(Known(s)) /\ S = Known(s)
          /\ X = Total(FirstMoment(s), Known(s)) /\ Q = Total(SecondMoment(s), Known(s))
          /\ G = Total(s, Known(s)) /\ P = Total(MixedMoment(s), Known(s))
  OBVIOUS
<1>2. n \in Int /\ X \in Int /\ Q \in Int /\ G \in Int /\ P \in Int
  BY <1>1, MomentTypes
<1>3. PICK spread, rise : spread = Spread(s) /\ rise = Rise(s)
  OBVIOUS
<1>4. spread \in Int /\ rise \in Int
  BY <1>3, SpreadType
<1>5. spread = 2 * (n * Q - X * X) /\ rise = 2 * (n * P - X * G)
  BY <1>1, <1>3, SpreadAndRise
<1>6. PICK a, b, c, none : /\ a = n * rise /\ b = -(n * spread) /\ c = spread * G - X * rise
                           /\ none = 0
  OBVIOUS
<1>7. /\ a \in Int /\ b \in Int /\ c \in Int /\ none \in Int
      /\ a * X + b * G + c * n = 0
      /\ a * Q + b * P + c * X + none * n = 0
  BY <1>2, <1>4, <1>5, <1>6, ResidualsCancel
<1>8. PICK x, xx, xs : x = FirstMoment(s) /\ xx = SecondMoment(s) /\ xs = MixedMoment(s)
  OBVIOUS
<1>9. /\ IsFiniteSet(S) /\ IntOn(s, S) /\ IntOn(x, S) /\ IntOn(xx, S) /\ IntOn(xs, S)
      /\ Total(x, S) = X /\ Total(xx, S) = Q /\ Total(xs, S) = P /\ Total(s, S) = G
  BY <1>1, <1>8, MomentTypes
<1>10. \A y \in S : y \in Int /\ s[y] \in Int /\ x[y] = y /\ xx[y] = y * y /\ xs[y] = y * s[y]
  BY <1>1, <1>8 DEF Numeric, FirstMoment, SecondMoment, MixedMoment
<1>11. \A y \in S : /\ r[y] = a * x[y] + b * s[y] + c
                    /\ yr[y] = a * xx[y] + b * xs[y] + c * x[y] + none
  <2> SUFFICES ASSUME NEW y \in S
               PROVE  /\ r[y] = a * x[y] + b * s[y] + c
                      /\ yr[y] = a * xx[y] + b * xs[y] + c * x[y] + none
    OBVIOUS
  <2>1. y \in Int
    BY <1>10
  <2>2. PICK p : p = s[y]
    OBVIOUS
  <2>3. p \in Int
    BY <1>10, <2>2
  <2>4. FitAt(s, y).above = spread * G + (n * y - X) * rise /\ FitAt(s, y).below = n * spread
    BY <1>1, <1>3, <2>1, FitIsLine
  <2>5. r[y] = (spread * G + (n * y - X) * rise) - (n * spread) * p
    BY <1>1, <2>2, <2>4
  <2>6. r[y] = a * y + b * p + c
    <3>1. (spread * G + (n * y - X) * rise) - (n * spread) * p = a * y + b * p + c
      BY <1>2, <1>4, <1>6, <2>1, <2>3, SMT
    <3> QED BY <2>5, <3>1
  <2>7. y * (a * y + b * p + c) = a * (y * y) + b * (y * p) + c * y + none
    BY <1>6, <1>7, <2>1, <2>3, SMT
  <2>8. yr[y] = y * (a * y + b * p + c)
    BY <1>1, <2>6
  <2>9. yr[y] = a * (y * y) + b * (y * p) + c * y + none
    BY <2>7, <2>8, Zenon
  <2> QED BY <1>10, <2>2, <2>6, <2>9, Zenon
<1>12. Total(r, S) = 0
  <2>1. Linear(r, S, a, x, b, s, c)
    BY <1>11, Zenon DEF Linear
  <2>2. Total(r, S) = a * X + b * G + c * n
    BY <1>1, <1>7, <1>9, <2>1, SumLinear
  <2> QED BY <1>7, <2>2
<1>13. Total(yr, S) = 0
  <2>1. Linear3(yr, S, a, xx, b, xs, c, x, none)
    BY <1>11, Zenon DEF Linear3
  <2>2. Total(yr, S) = a * Q + b * P + c * X + none * n
    BY <1>1, <1>7, <1>9, <2>1, SumOfThree
  <2> QED BY <1>7, <2>2
<1> QED BY <1>1, <1>12, <1>13

-----------------------------------------------------------------------------
(* What the store holds and what the answer is.                            *)
Answer(s, t) ==
    IF Survives(s, t)
    THEN [year |-> t, estimate |-> Estimate(s, t), extrapolated |-> Extrapolates(s, t)]
    ELSE NoRow

HarmonizationInv ==
    /\ reported \in Series /\ visits \in Visits
    /\ step \in {"fetched", "stored", "refused", "answered"}
    /\ step \in {"stored", "answered"} =>
           stored = FilterScopeOutliers(reported) /\ Positive(stored)
    /\ step = "answered" => row = Answer(stored, LatestYear(visits))

(* Every step keeps what the store and the answer hold: the stored series  *)
(* is the filtered report, and the row is the answer for it.               *)
THEOREM HarmonizationCorrect == Spec => []HarmonizationInv
<1>1. Init => HarmonizationInv
  BY DEF Init, HarmonizationInv
<1>2. HarmonizationInv /\ [Next]_vars => HarmonizationInv'
  <2> SUFFICES ASSUME HarmonizationInv, [Next]_vars
               PROVE  HarmonizationInv'
    OBVIOUS
  <2>1. CASE Store
    BY <2>1, Zenon DEF Store, HarmonizationInv, Positive, Known
  <2>2. CASE Harmonize
    BY <2>2, Zenon DEF Harmonize, HarmonizationInv, Answer, Positive, Known
  <2>3. CASE UNCHANGED vars
    BY <2>3, Zenon DEF vars, HarmonizationInv, Positive, Known, Answer, Survives, Estimate,
                Extrapolates, Fitted, NearPoint, FitAt, Spread, Rise, Pairs, LatestYear, NoRow
  <2> QED BY <2>1, <2>2, <2>3 DEF Next
<1> QED BY <1>1, <1>2, PTL DEF Spec

(* In an answer, the series and what is known of it.                       *)
LEMMA Answered ==
    ASSUME HarmonizationInv, step = "answered",
           NEW s, s = stored, NEW t, t = LatestYear(visits)
    PROVE  /\ s \in Series /\ Numeric(s) /\ Cardinality(Known(s)) \in Nat
           /\ t \in Years /\ t \in Nat
           /\ \A y \in Known(s) : s[y] \in Nat /\ s[y] > 0
           /\ Cardinality(Known(s)) >= 3 => Max(Values(s)) <= 2 * Min(Values(s))
           /\ row = Answer(s, t)
<1>1. reported \in Series /\ visits \in Visits /\ s = FilterScopeOutliers(reported) /\ Positive(s)
      /\ row = Answer(s, t)
  BY DEF HarmonizationInv
<1>2. s \in Series /\ (Cardinality(Known(s)) >= 3 => Max(Values(s)) <= 2 * Min(Values(s)))
  BY <1>1, FilteredSeries
<1>3. Numeric(s) /\ Cardinality(Known(s)) \in Nat /\ \A y \in Known(s) : s[y] \in Nat
  BY <1>2, SeriesIsNumeric
<1> QED BY <1>1, <1>2, <1>3, LatestYearIsNatural DEF Positive

(* The fractions that the line yields.                                     *)
LEMMA FitIsEstimate ==
    ASSUME NEW s \in Series, NEW t \in Nat, Fitted(s)
    PROVE  /\ Estimate(s, t) = FitAt(s, t) /\ FitAt(s, t) \in Estimates
           /\ FitAt(s, t) # Null /\ FitAt(s, t).below > 0
<1>1. PICK n, X, G, spread, rise :
          /\ n = Cardinality(Known(s)) /\ X = Total(FirstMoment(s), Known(s))
          /\ G = Total(s, Known(s)) /\ spread = Spread(s) /\ rise = Rise(s)
  OBVIOUS
<1>2. Numeric(s) /\ n \in Nat /\ n >= 2
  BY <1>1, SeriesIsNumeric DEF Fitted
<1>3. X \in Int /\ G \in Int /\ rise \in Int /\ spread \in Nat /\ spread > 0
  BY <1>1, <1>2, MomentTypes, SpreadType
<1>4. FitAt(s, t).above = spread * G + (n * t - X) * rise /\ FitAt(s, t).below = n * spread
  BY <1>1, <1>2, FitIsLine
<1>5. FitAt(s, t).above \in Int /\ FitAt(s, t).below \in Int /\ FitAt(s, t).below > 0
  <2>1. spread * G + (n * t - X) * rise \in Int
    BY <1>2, <1>3, SMT
  <2>2. n * spread \in Int /\ n * spread > 0
    BY <1>2, <1>3, SMT
  <2> QED BY <1>4, <2>1, <2>2
<1>6. FitAt(s, t) = [above |-> FitAt(s, t).above, below |-> FitAt(s, t).below]
  BY DEF FitAt
<1>7. FitAt(s, t) \in Estimates
  BY <1>5, <1>6 DEF Estimates
<1> QED BY <1>5, <1>7, NumberAssumption DEF Estimate

(* A museum that survives has a row.                                       *)
LEMMA RowOfSurvivor ==
    ASSUME NEW s, NEW t \in Years, Survives(s, t), Estimate(s, t) \in Estimates
    PROVE  Answer(s, t) # NoRow
<1>1. Answer(s, t) \in [year : Years, estimate : Estimates, extrapolated : BOOLEAN]
  BY DEF Answer, Extrapolates
<1> QED BY <1>1, NumberAssumption DEF NoRow

(* A museum of a city with less than 16 populations is only dropped if its *)
(* latest visitor year lies outside the years of the populations, for all  *)
(* series and years.                                                       *)
THEOREM DroppedCorrect == Spec => []OnlyFarMuseumsDropped
<1>1. HarmonizationInv => OnlyFarMuseumsDropped
  <2> SUFFICES ASSUME HarmonizationInv, step = "answered", row = NoRow,
                      Cardinality(Known(stored)) \in 1 .. 15
               PROVE  LET t == LatestYear(visits)
                          first == Min(Known(stored))
                          last  == Max(Known(stored))
                      IN  IF first = last THEN t < first - 2 \/ t > first + 2
                          ELSE t < first \/ t > last
    BY Zenon DEF OnlyFarMuseumsDropped
  <2>1. PICK s, t, n, first, last :
            /\ s = stored /\ t = LatestYear(visits) /\ n = Cardinality(Known(s))
            /\ first = Min(Known(s)) /\ last = Max(Known(s))
    OBVIOUS
  <2>2. /\ s \in Series /\ Numeric(s) /\ t \in Years /\ t \in Nat
        /\ \A y \in Known(s) : s[y] \in Nat /\ s[y] > 0
        /\ n >= 3 => Max(Values(s)) <= 2 * Min(Values(s))
        /\ Answer(s, t) = NoRow
    BY <2>1, Answered
  <2>3. n \in 1 .. 15 /\ Known(s) # {} /\ Known(s) \in SUBSET Nat
    BY <2>1, <2>2, SeriesIsNumeric
  <2>4. first \in Known(s) /\ last \in Known(s) /\ \A y \in Known(s) : first <= y /\ y <= last
    BY <2>1, <2>2, <2>3, FirstAndLast
  <2>5. CASE first = last
    <3>1. Known(s) = {first}
      BY <2>3, <2>4, <2>5
    <3>2. n = 1
      BY <2>1, <3>1, FS_Singleton
    <3>3. SUFFICES ASSUME ~ (t < first - 2 \/ t > first + 2)
                   PROVE  FALSE
      BY <2>1, <2>5
    <3>4. first - t \in -2 .. 2
      BY <2>2, <2>3, <2>4, <3>3
    <3>5. NearPoint(s, t) /\ ~Fitted(s)
      BY <2>1, <2>4, <3>2, <3>4 DEF NearPoint, Fitted
    <3>6. Estimate(s, t) = [above |-> s[first], below |-> 1]
      BY <2>1, <3>5 DEF Estimate
    <3>7. s[first] \in Nat /\ s[first] > 0
      BY <2>2, <2>4
    <3>8. Estimate(s, t) \in Estimates /\ Estimate(s, t).above > 0
      BY <3>6, <3>7 DEF Estimates
    <3>9. Survives(s, t)
      BY <3>8, NumberAssumption DEF Survives
    <3> QED BY <2>2, <3>8, <3>9, RowOfSurvivor
  <2>6. CASE first # last
    <3>1. SUFFICES ASSUME ~ (t < first \/ t > last)
                   PROVE  FALSE
      BY <2>1, <2>6
    <3>2. n >= 2
      <4>1. SUFFICES ASSUME n = 1
                     PROVE  FALSE
        BY <2>3
      <4>2. PICK y : Known(s) = {y}
        BY <2>1, <2>2, <4>1, FS_Singleton, SeriesIsNumeric
      <4> QED BY <2>4, <2>6, <4>2
    <3>3. Fitted(s)
      BY <2>1, <3>2 DEF Fitted
    <3>4. PICK low, high : low = Min(Values(s)) /\ high = Max(Values(s))
      OBVIOUS
    <3>5. /\ low \in Nat /\ high \in Nat /\ \A y \in Known(s) : low <= s[y] /\ s[y] <= high
          /\ low > 0
      BY <2>2, <2>3, <3>4, Extremes
    <3>6. PICK A, D : A = FitAt(s, t).above /\ D = FitAt(s, t).below
      OBVIOUS
    <3>7. /\ Estimate(s, t) = FitAt(s, t) /\ FitAt(s, t) \in Estimates
          /\ FitAt(s, t) # Null /\ D > 0
      BY <2>2, <3>3, <3>6, FitIsEstimate
    <3>8. A \in Int /\ D \in Int
      BY <3>6, <3>7 DEF Estimates
    <3>9. 16 * A >= (16 - n) * D * low
      <4>1. first <= t /\ t <= last /\ t \in Int
        BY <2>2, <2>3, <2>4, <3>1
      <4> QED BY <2>1, <2>2, <2>4, <3>2, <3>4, <3>5, <3>6, <4>1, FitInRange
    <3>10. (16 - n) * D * low > 0
      <4>1. PICK k \in Nat : k = 16 - n /\ k > 0
        BY <2>3
      <4>2. k * D \in Nat /\ k * D > 0
        BY <3>7, <3>8, <4>1, SMT
      <4>3. (k * D) * low > 0
        BY <3>5, <4>2, SMT
      <4> QED BY <4>1, <4>3
    <3>11. A > 0
      <4>1. (16 - n) * D * low \in Int
        BY <2>3, <3>5, <3>8, SMT
      <4> QED BY <3>8, <3>9, <3>10, <4>1
    <3>12. Survives(s, t) /\ Estimate(s, t) \in Estimates
      BY <3>6, <3>7, <3>11 DEF Survives
    <3> QED BY <2>2, <3>12, RowOfSurvivor
  <2> QED BY <2>5, <2>6
<1> QED BY <1>1, HarmonizationCorrect, PTL

(* An estimate that is not flagged leaves the range of the n populations   *)
(* by at most n / 16 of the smallest and n / 32 of the largest, for every  *)
(* n.                                                                      *)
THEOREM NearDataCorrect == Spec => []UnflaggedEstimatesNearData
<1>1. HarmonizationInv => UnflaggedEstimatesNearData
  <2> SUFFICES ASSUME HarmonizationInv, step = "answered", row # NoRow, ~row.extrapolated
               PROVE  LET n == Cardinality(Known(stored))
                      IN  /\ 16 * row.estimate.above
                             >= (16 - n) * row.estimate.below * LowestOf(stored)
                          /\ 32 * row.estimate.above
                             <= (32 + n) * row.estimate.below * HighestOf(stored)
    BY Zenon DEF UnflaggedEstimatesNearData
  <2>1. PICK s, t, n : s = stored /\ t = LatestYear(visits) /\ n = Cardinality(Known(s))
    OBVIOUS
  <2>2. /\ s \in Series /\ Numeric(s) /\ t \in Nat /\ n \in Nat
        /\ n >= 3 => Max(Values(s)) <= 2 * Min(Values(s))
        /\ row = Answer(s, t)
    BY <2>1, Answered
  <2>3. row.estimate = Estimate(s, t) /\ ~Extrapolates(s, t)
    BY <2>2 DEF Answer
  <2>4. Fitted(s) /\ ~ (t < Min(Known(s))) /\ ~ (t > Max(Known(s)))
    BY <2>3 DEF Extrapolates
  <2>5. n >= 2 /\ Known(s) # {} /\ Known(s) \in SUBSET Nat
    <3>1. n >= 2
      BY <2>1, <2>4 DEF Fitted
    <3> QED BY <2>1, <2>2, <3>1, SeriesIsNumeric
  <2>6. PICK first, last, low, high :
            /\ first = Min(Known(s)) /\ last = Max(Known(s))
            /\ low = Min(Values(s)) /\ high = Max(Values(s))
    OBVIOUS
  <2>7. first \in Known(s) /\ last \in Known(s) /\ first <= t /\ t <= last
    <3>1. first \in Known(s) /\ last \in Known(s)
      BY <2>2, <2>5, <2>6, FirstAndLast
    <3> QED BY <2>2, <2>4, <2>5, <2>6, <3>1
  <2>8. low \in Nat /\ high \in Nat /\ \A y \in Known(s) : low <= s[y] /\ s[y] <= high
    BY <2>2, <2>5, <2>6, Extremes
  <2>9. Estimate(s, t) = FitAt(s, t)
    BY <2>2, <2>4, FitIsEstimate
  <2>10. /\ 16 * FitAt(s, t).above >= (16 - n) * FitAt(s, t).below * low
         /\ 32 * FitAt(s, t).above <= (32 + n) * FitAt(s, t).below * high
    <3>1. n = Cardinality(Known(s)) /\ (n >= 3 => high <= 2 * low)
      BY <2>1, <2>2, <2>6, Zenon
    <3>2. t \in Int
      BY <2>2
    <3> QED BY <2>2, <2>5, <2>7, <2>8, <3>1, <3>2, FitInRange
  <2> QED BY <2>1, <2>3, <2>6, <2>9, <2>10, Zenon DEF LowestOf, HighestOf
<1> QED BY <1>1, HarmonizationCorrect, PTL

(* The estimates lie on the least squares line through the stored          *)
(* populations: its residuals, and their products with the years, add up   *)
(* to zero.                                                                *)
THEOREM LeastSquaresCorrect == Spec => []LeastSquares
<1>1. HarmonizationInv => LeastSquares
  <2> SUFFICES ASSUME HarmonizationInv, step = "answered"
               PROVE  LET residual(y) == FitAt(stored, y).above - FitAt(stored, y).below * stored[y]
                      IN  /\ Total([y \in Known(stored) |-> residual(y)], Known(stored)) = 0
                          /\ Total([y \in Known(stored) |-> y * residual(y)], Known(stored)) = 0
    BY Zenon DEF LeastSquares
  <2>1. PICK s : s = stored
    OBVIOUS
  <2>2. Numeric(s)
    BY <2>1, Answered
  <2>3. PICK r : r = [y \in Known(s) |-> FitAt(s, y).above - FitAt(s, y).below * s[y]]
    OBVIOUS
  <2>4. PICK yr : yr = [y \in Known(s) |-> y * (FitAt(s, y).above - FitAt(s, y).below * s[y])]
    OBVIOUS
  <2>5. Total(r, Known(s)) = 0 /\ Total(yr, Known(s)) = 0
    <3>1. \A y \in Known(s) : r[y] = FitAt(s, y).above - FitAt(s, y).below * s[y]
      BY <2>3
    <3>2. \A y \in Known(s) : yr[y] = y * r[y]
      BY <2>4, <3>1
    <3> QED BY <2>2, <3>1, <3>2, ResidualsSumToZero
  <2> QED BY <2>1, <2>3, <2>4, <2>5, Zenon
<1> QED BY <1>1, HarmonizationCorrect, PTL
=============================================================================
