------------------------- MODULE PopulationEstimate -------------------------
(***************************************************************************)
(* services/harmonization_service.py, for one museum: the population of    *)
(* its city in the year of its latest visitor record.                      *)
(*                                                                         *)
(* An estimate is a fraction, [above, below] with below > 0, where the     *)
(* code has floating point numbers.                                        *)
(***************************************************************************)
EXTENDS PopulationSeries

(* The sum of w over S.                                                    *)
Total(w, S) == MapThenSumSet(LAMBDA x : w[x], S)

(* What np.polyfit sums up: the variance of the years and the covariance   *)
(* of years and populations, n * n times and doubled, as sums over pairs.  *)
Pairs(s) == Known(s) \X Known(s)

Spread(s) == Total([p \in Pairs(s) |-> (p[1] - p[2]) * (p[1] - p[2])], Pairs(s))

Rise(s) == Total([p \in Pairs(s) |-> (p[1] - p[2]) * (s[p[1]] - s[p[2]])], Pairs(s))

(* Mutant: the slope has the wrong sign.                                   *)
FitAt_Mirrored(s, t) ==
    LET spread == Spread(s)
        rise   == Rise(s)
    IN  [above |-> Total([y \in Known(s) |-> s[y] * spread + (y - t) * rise], Known(s)),
         below |-> Cardinality(Known(s)) * spread]

(* The value at t of the line with the least squares through the points:   *)
(* its slope is Rise / Spread, and it goes through their centre.           *)
FitAt(s, t) ==
    LET spread == Spread(s)
        rise   == Rise(s)
    IN  [above |-> Total([y \in Known(s) |-> s[y] * spread + (t - y) * rise], Known(s)),
         below |-> Cardinality(Known(s)) * spread]

Fitted(s) == Cardinality(Known(s)) >= 2

(* Mutant: only years before the fit count as extrapolated.                *)
Extrapolates_Past(s, t) == Fitted(s) => t < Min(Known(s))

(* population_is_extrapolated.                                             *)
Extrapolates(s, t) == Fitted(s) => t < Min(Known(s)) \/ t > Max(Known(s))

(* Mutant: the single point must be of the year itself.                    *)
NearPoint_SameYear(s, t) == Known(s) = {t}

(* The single-point fallback.                                              *)
NearPoint(s, t) == Cardinality(Known(s)) = 1 /\ \E y \in Known(s) : y - t \in -2 .. 2

(* _estimate_population.                                                   *)
Estimate(s, t) ==
    IF Fitted(s) THEN FitAt(s, t)
    ELSE IF NearPoint(s, t) THEN [above |-> s[Min(Known(s))], below |-> 1]
    ELSE Null

Survives(s, t) ==
    LET estimate == Estimate(s, t) IN estimate # Null /\ estimate.above > 0

(* _pick_visitor_record: (museum, year) is unique, so years do not tie.    *)
LatestYear(records) == Max({y \in Years : records[y] # Null})
=============================================================================
