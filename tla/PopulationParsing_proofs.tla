---------------------- MODULE PopulationParsing_proofs ----------------------
(* Proofs about PopulationParsing.                                         *)
EXTENDS PopulationParsing, SequenceLemmas

LEMMA PopulationsAreNat == Populations \subseteq Nat /\ Null \notin Populations
<1>1. PICK bound \in Nat : Populations \subseteq 0 .. bound
  BY PopulationAssumption
<1>2. Populations \subseteq Nat
  BY <1>1
<1> QED BY <1>2, PopulationAssumption

LEMMA ValuesBounded ==
    ASSUME NEW s \in Series
    PROVE  /\ \E bound \in Nat : Values(s) \in SUBSET (0 .. bound)
           /\ Values(s) \in SUBSET Nat
           /\ \A y \in Years : s[y] # Null => s[y] \in Values(s) /\ s[y] \in Nat
           /\ \A v \in Values(s) : \E y \in Known(s) : v = s[y]
<1>1. PICK bound \in Nat : Populations \subseteq 0 .. bound
  BY PopulationAssumption
<1>2. \A y \in Known(s) : s[y] \in Populations
  BY DEF Series, Known
<1>3. Values(s) \in SUBSET Populations
  BY <1>2 DEF Values
<1>4. Populations \in SUBSET Nat
  BY <1>1
<1> QED BY <1>1, <1>2, <1>3, <1>4 DEF Values, Known

LEMMA KnownFinite ==
    ASSUME NEW s \in Series
    PROVE  Cardinality(Known(s)) \in Nat /\ (Known(s) = {} => Cardinality(Known(s)) = 0)
BY PopulationAssumption, FS_Subset, FS_CardinalityType, FS_EmptySet DEF Known

(* The extremes of a series with three values or more.                     *)
LEMMA Extremes ==
    ASSUME NEW s \in Series, ~ (Cardinality(Known(s)) < 3)
    PROVE  /\ Min(Values(s)) \in Values(s) /\ \A v \in Values(s) : Min(Values(s)) <= v
           /\ Max(Values(s)) \in Values(s) /\ \A v \in Values(s) : v <= Max(Values(s))
<1>1. Values(s) # {}
  <2>1. Known(s) # {}
    BY KnownFinite
  <2> QED BY <2>1 DEF Values
<1>2. PICK bound \in Nat : Values(s) \in SUBSET (0 .. bound)
  BY ValuesBounded
<1> QED BY <1>1, <1>2, ValuesBounded, MinIsLeast, MaxIsGreatest

LEMMA FilterType ==
    ASSUME NEW s \in Series
    PROVE  FilterScopeOutliers(s) \in Series
BY DEF FilterScopeOutliers, Series

(* What a filtered series of three values or more holds, without Min and   *)
(* Max.                                                                    *)
LEMMA FilterValue ==
    ASSUME NEW s \in Series, ~ (Cardinality(Known(s)) < 3), NEW y \in Years
    PROVE  FilterScopeOutliers(s)[y] =
               IF s[y] # Null /\ s[y] <= 2 * Min(Values(s)) THEN s[y] ELSE Null
<1>1. CASE Max(Values(s)) <= 2 * Min(Values(s))
  <2>1. s[y] # Null => s[y] <= Max(Values(s)) /\ s[y] \in Nat
    BY Extremes, ValuesBounded
  <2>2. Max(Values(s)) \in Nat /\ Min(Values(s)) \in Nat
    BY Extremes, ValuesBounded
  <2> QED BY <1>1, <2>1, <2>2 DEF FilterScopeOutliers
<1>2. CASE ~ (Max(Values(s)) <= 2 * Min(Values(s)))
  BY <1>2 DEF FilterScopeOutliers
<1> QED BY <1>1, <1>2

LEMMA FilterKeepsSmallestScope ==
    ASSUME NEW s \in Series
    PROVE  KeepsSmallestScope(s)
<1>1. CASE Cardinality(Known(s)) < 3
  <2>1. ~ (Cardinality(Known(s)) >= 3)
    BY <1>1, KnownFinite
  <2> QED BY <1>1, <2>1 DEF KeepsSmallestScope, FilterScopeOutliers
<1>2. CASE ~ (Cardinality(Known(s)) < 3)
  <2> DEFINE lo == Min(Values(s))
  <2>1. Cardinality(Known(s)) >= 3
    BY <1>2, KnownFinite
  <2>2. PICK x \in Known(s) : lo = s[x]
    BY <1>2, Extremes, ValuesBounded
  <2>3. \A z \in Known(s) : s[z] \in Nat /\ lo <= s[z]
    BY <1>2, Extremes, ValuesBounded DEF Known
  <2>4. ASSUME NEW y \in Years
        PROVE  (\E z \in Known(s) : y \in Known(s) /\ s[y] > 2 * s[z])
                   <=> s[y] # Null /\ ~ (s[y] <= 2 * lo)
    BY <2>2, <2>3 DEF Known
  <2> QED BY <1>2, <2>1, <2>4, FilterValue DEF KeepsSmallestScope, Known
<1> QED BY <1>1, <1>2

(* What survives is within twice its minimum, so a second pass keeps it.   *)
LEMMA FilterIsStable ==
    ASSUME NEW s \in Series
    PROVE  FilterStable(s)
<1> DEFINE kept == FilterScopeOutliers(s)
<1>1. kept \in Series
  BY FilterType
<1>2. CASE Cardinality(Known(s)) < 3
  BY <1>2 DEF FilterStable, FilterScopeOutliers
<1>3. CASE Cardinality(Known(kept)) < 3
  BY <1>3 DEF FilterStable, FilterScopeOutliers
<1>4. CASE ~ (Cardinality(Known(s)) < 3) /\ ~ (Cardinality(Known(kept)) < 3)
  <2> DEFINE lo == Min(Values(s))
  <2>1. PICK hi \in Known(kept) : Max(Values(kept)) = kept[hi]
    BY <1>1, <1>4, Extremes, ValuesBounded
  <2>2. PICK y \in Known(kept) : Min(Values(kept)) = kept[y]
    BY <1>1, <1>4, Extremes, ValuesBounded
  <2>3. kept[hi] <= 2 * lo /\ kept[hi] \in Nat
    BY <1>1, <1>4, FilterValue, ValuesBounded DEF Known
  <2>4. lo <= kept[y] /\ lo \in Nat /\ kept[y] \in Nat
    BY <1>1, <1>4, FilterValue, Extremes, ValuesBounded DEF Known
  <2>5. Max(Values(kept)) <= 2 * Min(Values(kept))
    BY <2>1, <2>2, <2>3, <2>4
  <2>6. FilterScopeOutliers(kept) = kept
    BY <2>5 DEF FilterScopeOutliers
  <2> QED BY <2>6 DEF FilterStable
<1> QED BY <1>2, <1>3, <1>4

-----------------------------------------------------------------------------
LEMMA RowRead ==
    ASSUME bindings \in Seq(Rows), Reading
    PROVE  /\ Row \in Rows
           /\ ~Incomplete(Row) /\ ~Unreadable(Row) =>
                  Row.city \in Qids /\ Row.year \in Years /\ Row.population \in Populations
<1>1. Row \in Rows
  BY DEF Reading, Row
<1> QED BY <1>1 DEF Incomplete, Unreadable, Rows

LEMMA Typing == Spec => []TypeOK
<1>1. Init => TypeOK
  BY PopulationAssumption DEF Init, TypeOK, Series
<1>2. TypeOK /\ [Next]_vars => TypeOK'
  <2> SUFFICES ASSUME TypeOK, [Next]_vars PROVE TypeOK'
    OBVIOUS
  <2>1. CASE ReadRow
    <3>1. Row \in Rows /\ Row.city \in Qids /\ Row.year \in Years /\ Row.population \in Populations
      BY <2>1, RowRead DEF ReadRow, TypeOK
    <3>2. raw' \in [Qids -> Series]
      BY <2>1, <3>1 DEF ReadRow, TypeOK, Series, Merged, Rows
    <3> QED BY <2>1, <3>2 DEF ReadRow, Reading, TypeOK
  <2>2. CASE SkipRow
    BY <2>2 DEF SkipRow, Reading, TypeOK
  <2>3. CASE RejectRow
    BY <2>3 DEF RejectRow, TypeOK
  <2>4. CASE Filter
    BY <2>4 DEF Filter, TypeOK
  <2>5. CASE UNCHANGED vars
    BY <2>5 DEF vars, TypeOK
  <2> QED BY <2>1, <2>2, <2>3, <2>4, <2>5 DEF Next
<1> QED BY <1>1, <1>2, PTL DEF Spec

(* Every city keeps its smallest scope and would keep it again, for series *)
(* of any length and any populations.                                      *)
THEOREM ScopesCorrect == Spec => []ScopesFiltered
<1>1. TypeOK => ScopesFiltered
  BY FilterKeepsSmallestScope, FilterIsStable DEF TypeOK, ScopesFiltered
<1> QED BY <1>1, Typing, PTL

(* Each year of a city holds the smallest population reported for it,      *)
(* whatever the order of the rows.                                         *)
THEOREM ReportsCorrect == Spec => []SmallestReport
<1>1. Init => SmallestReport
  BY DEF Init, SmallestReport, Reports
<1>2. TypeOK /\ SmallestReport /\ [Next]_vars => SmallestReport'
  <2> SUFFICES ASSUME TypeOK, SmallestReport, [Next]_vars PROVE SmallestReport'
    OBVIOUS
  <2>1. CASE ReadRow
    <3>1. /\ Row.city \in Qids /\ Row.year \in Years /\ Row.population \in Populations
          /\ Row.population \in Nat /\ Row.population # Null
      BY <2>1, RowRead, PopulationsAreNat DEF ReadRow, TypeOK
    <3>2. raw' = [raw EXCEPT ![Row.city][Row.year] = Merged(@, Row.population)]
      BY <2>1 DEF ReadRow
    <3> SUFFICES ASSUME NEW q \in Qids, NEW y \in Years
                 PROVE  IF Reports(q, y)' = {} THEN raw'[q][y] = Null
                        ELSE /\ \E k \in Reports(q, y)' : raw'[q][y] = bindings'[k].population
                             /\ \A k \in Reports(q, y)' : raw'[q][y] <= bindings'[k].population
      BY DEF SmallestReport
    <3>3. bindings' = bindings /\ next' = next + 1 /\ next \in Nat \ {0} /\ Row = bindings[next]
      BY <2>1 DEF ReadRow, Row, TypeOK
    <3>4. IF Reports(q, y) = {} THEN raw[q][y] = Null
          ELSE /\ \E k \in Reports(q, y) : raw[q][y] = bindings[k].population
               /\ \A k \in Reports(q, y) : raw[q][y] <= bindings[k].population
      BY DEF SmallestReport
    <3>5. raw[q][y] = Null \/ raw[q][y] \in Nat
      BY PopulationsAreNat DEF TypeOK, Series
    <3>6. CASE q = Row.city /\ y = Row.year
      <4>1. Reports(q, y)' = Reports(q, y) \cup {next}
        BY <3>1, <3>3, <3>6 DEF Reports
      <4>2. raw'[q][y] = Merged(raw[q][y], Row.population)
        BY <3>1, <3>2, <3>6 DEF TypeOK, Series
      <4>3. CASE Reports(q, y) = {}
        BY <3>1, <3>3, <3>4, <4>1, <4>2, <4>3 DEF Merged
      <4>4. CASE Reports(q, y) # {}
        <5>1. \A k \in Reports(q, y) : bindings[k].population \in Nat
          BY PopulationsAreNat DEF Reports
        <5>2. PICK k \in Reports(q, y) : raw[q][y] = bindings[k].population
          BY <3>4, <4>4
        <5>3. raw[q][y] \in Nat /\ raw[q][y] # Null
          BY <5>1, <5>2, PopulationAssumption
        <5>4. CASE Row.population < raw[q][y]
          <6>1. raw'[q][y] = bindings'[next].population
            BY <3>3, <4>2, <5>4 DEF Merged
          <6>2. \A i \in Reports(q, y) : raw'[q][y] <= bindings'[i].population
            BY <3>1, <3>3, <3>4, <4>2, <4>4, <5>1, <5>3, <5>4 DEF Merged
          <6>3. raw'[q][y] <= bindings'[next].population
            BY <3>1, <3>3, <6>1
          <6> QED BY <4>1, <6>1, <6>2, <6>3
        <5>5. CASE ~ (Row.population < raw[q][y])
          <6>1. raw'[q][y] = raw[q][y]
            BY <4>2, <5>3, <5>5 DEF Merged
          <6>2. raw'[q][y] <= bindings'[next].population
            BY <3>1, <3>3, <5>3, <5>5, <6>1
          <6> QED BY <3>3, <3>4, <4>1, <4>4, <5>2, <6>1, <6>2
        <5> QED BY <5>4, <5>5
      <4> QED BY <4>3, <4>4
    <3>7. CASE ~ (q = Row.city /\ y = Row.year)
      <4>1. Reports(q, y)' = Reports(q, y)
        BY <3>3, <3>7 DEF Reports
      <4>2. raw'[q][y] = raw[q][y]
        BY <3>1, <3>2, <3>7 DEF TypeOK, Series
      <4> QED BY <3>3, <3>4, <4>1, <4>2
    <3> QED BY <3>6, <3>7
  <2>2. CASE SkipRow
    <3>1. next' = next + 1 /\ next \in Nat /\ UNCHANGED <<bindings, raw>>
      BY <2>2 DEF SkipRow, TypeOK
    <3>2. ~ (bindings[next].year \in Years /\ bindings[next].population \in Populations)
      BY <2>2, PopulationAssumption, PopulationsAreNat DEF SkipRow, Incomplete, Row
    <3>3. \A q \in Qids, y \in Years : Reports(q, y)' = Reports(q, y)
      BY <3>1, <3>2 DEF Reports
    <3> QED BY <3>1, <3>3 DEF SmallestReport
  <2>3. CASE RejectRow \/ Filter \/ UNCHANGED vars
    BY <2>3 DEF RejectRow, Filter, vars, SmallestReport, Reports
  <2> QED BY <2>1, <2>2, <2>3 DEF Next
<1> QED BY <1>1, <1>2, Typing, PTL DEF Spec

-----------------------------------------------------------------------------
(* The points of a series are its known years, in ascending order.         *)
LEMMA PointsInOrderOfYears ==
    ASSUME NEW s \in Series
    PROVE  /\ {Points(s)[k].year : k \in DOMAIN Points(s)} = Known(s)
           /\ \A k \in DOMAIN Points(s) :
                  /\ Points(s)[k].year \in Known(s)
                  /\ Points(s)[k].population = s[Points(s)[k].year]
           /\ \A j, k \in DOMAIN Points(s) :
                  j < k => Points(s)[j].year < Points(s)[k].year
<1> DEFINE S == Known(s)
           Sorted(order) == \A i, j \in 1 .. Len(order) : i < j => order[i] < order[j]
           order == CHOOSE order \in SetToSeqs(S) : Sorted(order)
<1>1. IsFiniteSet(S) /\ S \in SUBSET Nat
  BY PopulationAssumption, FS_Subset DEF Known
<1> HIDE DEF S
<1>2. ASSUME NEW listing \in SetToSeqs(S)
      PROVE  /\ DOMAIN listing = 1 .. Len(listing)
             /\ \A i \in DOMAIN listing : listing[i] \in S
             /\ \A x \in S : \E i \in DOMAIN listing : listing[i] = x
  BY <1>1, Listing, LenProperties, ElementOfSeq
<1>3. \E t \in SetToSeqs(S) : Sorted(t)
  BY <1>1, AscendingExists
<1>4. order \in SetToSeqs(S) /\ Sorted(order)
  BY <1>3
<1>5. Points(s) = [k \in DOMAIN order |-> [year |-> order[k], population |-> s[order[k]]]]
  BY DEF Points, PointsInOrder, IsSorted, S
<1> HIDE DEF order
<1>6. /\ DOMAIN Points(s) = DOMAIN order
      /\ \A k \in DOMAIN order : /\ Points(s)[k].year = order[k]
                                /\ Points(s)[k].population = s[order[k]]
  BY <1>5
<1>7. {Points(s)[k].year : k \in DOMAIN Points(s)} = S
  BY <1>2, <1>4, <1>6
<1>8. \A k \in DOMAIN Points(s) :
           /\ Points(s)[k].year \in S
           /\ Points(s)[k].population = s[Points(s)[k].year]
  BY <1>2, <1>4, <1>6
<1>9. \A j, k \in DOMAIN Points(s) : j < k => Points(s)[j].year < Points(s)[k].year
  <2>1. DOMAIN order = 1 .. Len(order)
    BY <1>2, <1>4
  <2>2. \A j, k \in DOMAIN order : j < k => order[j] < order[k]
    BY <1>4, <2>1
  <2> QED BY <1>6, <2>2
<1> QED BY <1>7, <1>8, <1>9 DEF S

(* A city keeps the smallest report of each year, in the order of the      *)
(* years, except years whose every report is more than twice another's.    *)
LEMMA FilteredReports ==
    ASSUME TypeOK, SmallestReport, NEW q \in Qids
    PROVE  LET points == Points(FilterScopeOutliers(raw[q]))
               years  == {points[k].year : k \in DOMAIN points}
           IN  /\ \A j, k \in DOMAIN points : j < k => points[j].year < points[k].year
               /\ \A k \in DOMAIN points :
                      LET reported == {bindings[i].population :
                                           i \in Reports(q, points[k].year)}
                      IN  /\ points[k].population \in reported
                          /\ \A n \in reported : points[k].population <= n
               /\ \A y \in Years \ years : \A i \in Reports(q, y) :
                      \E x \in Years : \E j \in Reports(q, x) :
                          bindings[i].population > 2 * bindings[j].population
<1> DEFINE s == raw[q]
           kept == FilterScopeOutliers(s)
           points == Points(kept)
           years == {points[k].year : k \in DOMAIN points}
<1>1. s \in Series
  BY DEF TypeOK
<1>2. \A y \in Years : IF Reports(q, y) = {} THEN s[y] = Null
                       ELSE /\ \E i \in Reports(q, y) : s[y] = bindings[i].population
                            /\ \A i \in Reports(q, y) : s[y] <= bindings[i].population
  BY DEF SmallestReport
<1>3. \A y \in Years : \A i \in Reports(q, y) : bindings[i].population \in Nat
  BY PopulationsAreNat DEF Reports
<1>4. KeepsSmallestScope(s) /\ kept \in Series
  BY <1>1, FilterKeepsSmallestScope, FilterType
<1>5. \A y \in Years :
          kept[y] = IF /\ Cardinality(Known(s)) >= 3
                       /\ \E x \in Known(s) : y \in Known(s) /\ s[y] > 2 * s[x]
                    THEN Null ELSE s[y]
  BY <1>4 DEF KeepsSmallestScope
<1>6. /\ years = Known(kept)
      /\ \A k \in DOMAIN points : /\ points[k].year \in Known(kept)
                                 /\ points[k].population = kept[points[k].year]
      /\ \A j, k \in DOMAIN points : j < k => points[j].year < points[k].year
  <2> HIDE DEF kept
  <2> QED BY <1>4, PointsInOrderOfYears
<1> HIDE DEF s, kept, points
<1>7. ASSUME NEW k \in DOMAIN points
      PROVE  LET reported == {bindings[i].population : i \in Reports(q, points[k].year)}
             IN  /\ points[k].population \in reported
                 /\ \A n \in reported : points[k].population <= n
  <2> DEFINE y == points[k].year
  <2>1. y \in Years /\ kept[y] # Null /\ points[k].population = kept[y]
    BY <1>6 DEF Known
  <2> HIDE DEF y
  <2>2. s[y] # Null /\ kept[y] = s[y]
    BY <1>5, <2>1
  <2>3. /\ \E i \in Reports(q, y) : s[y] = bindings[i].population
        /\ \A i \in Reports(q, y) : s[y] <= bindings[i].population
    BY <1>2, <2>1, <2>2
  <2> QED BY <2>1, <2>2, <2>3 DEF y
<1>8. ASSUME NEW y \in Years \ years, NEW i \in Reports(q, y)
      PROVE  \E x \in Years : \E j \in Reports(q, x) :
                 bindings[i].population > 2 * bindings[j].population
  <2> HIDE DEF years
  <2>1. y \in Years /\ kept[y] = Null
    BY <1>6 DEF Known
  <2>2. s[y] \in Nat /\ s[y] # Null /\ s[y] <= bindings[i].population
    <3>1. Reports(q, y) # {}
      OBVIOUS
    <3>2. PICK k \in Reports(q, y) : s[y] = bindings[k].population
      BY <1>2, <2>1, <3>1
    <3>3. s[y] \in Nat
      BY <1>3, <2>1, <3>2
    <3> QED BY <1>2, <2>1, <3>1, <3>3, PopulationAssumption
  <2>3. PICK x \in Known(s) : s[y] > 2 * s[x]
    BY <1>5, <2>1, <2>2
  <2>4. x \in Years /\ s[x] # Null
    BY <2>3 DEF Known
  <2>5. PICK j \in Reports(q, x) : s[x] = bindings[j].population
    BY <1>2, <2>4
  <2>6. bindings[i].population \in Nat /\ bindings[j].population \in Nat
    BY <1>3, <2>1, <2>4
  <2>7. bindings[i].population > 2 * bindings[j].population
    BY <2>2, <2>3, <2>5, <2>6
  <2> QED BY <2>4, <2>7
<1> QED BY <1>6, <1>7, <1>8 DEF points, kept, s

(* A parsed series is what was reported: one point per year, in order,     *)
(* with the smallest population of the year, for every list of rows; only  *)
(* years reported with more than twice some other year are missing.        *)
THEOREM ParsedCorrect == Spec => []ParsedFromReports
<1>1. Init => ParsedFromReports
  BY DEF Init, ParsedFromReports
<1>2. TypeOK /\ SmallestReport /\ ParsedFromReports /\ [Next]_vars => ParsedFromReports'
  <2> SUFFICES ASSUME TypeOK, SmallestReport, ParsedFromReports, [Next]_vars
               PROVE  ParsedFromReports'
    OBVIOUS
  <2>1. CASE SkipRow \/ ReadRow \/ RejectRow
    <3>1. outcome' # "parsed"
      BY <2>1 DEF SkipRow, ReadRow, RejectRow, Reading
    <3> QED BY <3>1 DEF ParsedFromReports
  <2>2. CASE Filter
    <3>1. UNCHANGED <<bindings, next>>
      BY <2>2 DEF Filter
    <3>2. \A q \in Qids : parsed'[q] = Points(FilterScopeOutliers(raw[q]))
      BY <2>2 DEF Filter
    <3>3. \A q, y : Reports(q, y)' = Reports(q, y)
      BY <3>1 DEF Reports
    <3> QED BY <3>1, <3>2, <3>3, FilteredReports DEF ParsedFromReports
  <2>3. CASE UNCHANGED vars
    BY <2>3 DEF vars, ParsedFromReports, Reports
  <2> QED BY <2>1, <2>2, <2>3 DEF Next
<1> QED BY <1>1, <1>2, Typing, ReportsCorrect, PTL DEF Spec
=============================================================================
