---------------------------- MODULE Harmonization ----------------------------
(***************************************************************************)
(* The way of the numbers of one city and one of its museums, from the     *)
(* rows that Wikidata reports to the row of GET /harmonized: parsed and    *)
(* filtered, stored under the constraint population > 0, and estimated for *)
(* the year of the museum's latest visitor record.                         *)
(***************************************************************************)
EXTENDS PopulationEstimate

CONSTANT Visits   \* the visitor series that museums may have

ASSUME VisitsAssumption ==
    \A v \in Visits : DOMAIN v = Years /\ \E y \in Years : v[y] # Null

(* Years and populations are natural numbers, and Null is no value.        *)
Estimates == [above : Int, below : Int]

ASSUME NumberAssumption ==
    /\ Years \subseteq Nat /\ IsFiniteSet(Years) /\ Populations \subseteq Nat
    /\ Null \notin Estimates
    /\ Null \notin [year : Years, estimate : Estimates, extrapolated : BOOLEAN]

VARIABLES
    reported,  \* the population series that Wikidata reports
    stored,    \* the population records of the city
    visits,    \* the museum's visitor records
    row,       \* the museum's row of the answer
    step       \* "fetched", "stored", "refused" by the database, "answered"

vars == <<reported, stored, visits, row, step>>

NoRow == Null

Init ==
    /\ reported \in Series
    /\ visits \in Visits
    /\ stored = [y \in Years |-> Null]
    /\ row = NoRow
    /\ step = "fetched"

(* ck_population_records_population_positive: the refresh is rolled back.  *)
Positive(s) == \A y \in Known(s) : s[y] > 0

Store ==
    /\ step = "fetched"
    /\ LET s == FilterScopeOutliers(reported)
       IN  IF Positive(s)
           THEN stored' = s /\ step' = "stored"
           ELSE step' = "refused" /\ UNCHANGED stored
    /\ UNCHANGED <<reported, visits, row>>

(* _process_museum.                                                        *)
Harmonize ==
    /\ step = "stored"
    /\ LET t == LatestYear(visits)
       IN  row' = IF Survives(stored, t)
                  THEN [year |-> t, estimate |-> Estimate(stored, t),
                        extrapolated |-> Extrapolates(stored, t)]
                  ELSE NoRow
    /\ step' = "answered"
    /\ UNCHANGED <<reported, stored, visits>>

Next == Store \/ Harmonize

Spec == Init /\ [][Next]_vars

-----------------------------------------------------------------------------
LowestOf(s)  == Min(Values(s))
HighestOf(s) == Max(Values(s))

(* A museum of a city with less than 16 populations is only dropped if its *)
(* latest visitor year lies outside the years that they span, by more than *)
(* two years if there is one population only: the filter leaves no such    *)
(* series whose line meets zero between its first and its last year.       *)
OnlyFarMuseumsDropped ==
    step = "answered" /\ row = NoRow /\ Cardinality(Known(stored)) \in 1 .. 15 =>
        LET t == LatestYear(visits)
            first == Min(Known(stored))
            last  == Max(Known(stored))
        IN  IF first = last THEN t < first - 2 \/ t > first + 2
            ELSE t < first \/ t > last

(* The estimates follow the least squares line through the stored          *)
(* populations (np.polyfit with deg=1): the residuals sum up to zero, and  *)
(* so do their products with the years.                                    *)
LeastSquares ==
    step = "answered" /\ Fitted(stored) =>
        LET residual(y) == FitAt(stored, y).above - FitAt(stored, y).below * stored[y]
        IN  /\ Total([y \in Known(stored) |-> residual(y)], Known(stored)) = 0
            /\ Total([y \in Known(stored) |-> y * residual(y)], Known(stored)) = 0

(* An estimate that is not flagged as extrapolated may leave the range of  *)
(* the n stored populations, but by no more than n / 16 of the smallest    *)
(* one below them, and n / 32 of the largest one above them.               *)
UnflaggedEstimatesNearData ==
    step = "answered" /\ row # NoRow /\ ~row.extrapolated =>
        LET n == Cardinality(Known(stored))
        IN  /\ 16 * row.estimate.above >= (16 - n) * row.estimate.below * LowestOf(stored)
            /\ 32 * row.estimate.above <= (32 + n) * row.estimate.below * HighestOf(stored)
=============================================================================
