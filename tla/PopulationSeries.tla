-------------------------- MODULE PopulationSeries --------------------------
(***************************************************************************)
(* The population series of one city, as a function of the year, and       *)
(* filter_scope_outliers of clients/population_parsing.py.                 *)
(***************************************************************************)
EXTENDS Integers, FiniteSets, FiniteSetsExt

CONSTANTS
    Years,         \* years (pq:P585)
    Populations,   \* populations (ps:P1082)
    Null           \* an unbound variable, or no value for that year

Series == [Years -> Populations \cup {Null}]

Known(s) == {y \in Years : s[y] # Null}

Values(s) == {s[y] : y \in Known(s)}

(* Mutant: the cut-off follows the previous year.                          *)
FilterScopeOutliers_Neighbour(s) ==
    IF Cardinality(Known(s)) < 3 THEN s
    ELSE [y \in Years |->
             IF \E x \in Known(s) : x < y /\ s[y] # Null /\ s[y] > 2 * s[x] THEN Null
             ELSE s[y]]

(* Drop the values above twice the minimum, unless there are fewer than    *)
(* three or they all agree.                                                *)
FilterScopeOutliers(s) ==
    IF Cardinality(Known(s)) < 3 \/ Max(Values(s)) <= 2 * Min(Values(s))
    THEN s
    ELSE [y \in Years |->
             IF s[y] # Null /\ s[y] <= 2 * Min(Values(s)) THEN s[y] ELSE Null]
=============================================================================
