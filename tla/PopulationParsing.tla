-------------------------- MODULE PopulationParsing --------------------------
(***************************************************************************)
(* clients/population_parsing.py: the rows of the population query are     *)
(* grouped by city and year, then every series loses the values that       *)
(* belong to a larger geographic scope.                                    *)
(***************************************************************************)
EXTENDS PopulationSeries, Sequences, SequencesExt

CONSTANTS
    Qids,          \* cities
    MaxPopulation, \* the largest that int(float(...)) returns
    Garbage,       \* a value that int() or float() rejects
    Bindings       \* the lists of rows the SPARQL endpoint may answer with

Rows == [city       : Qids,
         year       : Years \cup {Null, Garbage},
         population : Populations \cup {Null, Garbage}]

ASSUME PopulationAssumption ==
    /\ Years \subseteq Nat
    /\ IsFiniteSet(Years)
    /\ MaxPopulation \in Nat
    /\ Populations \subseteq 0 .. MaxPopulation
    /\ Null \notin Nat
    /\ Garbage \notin Nat
    /\ Garbage # Null
    /\ Bindings \subseteq Seq(Rows)

VARIABLES
    bindings,  \* the rows of the answer
    next,      \* the row that the loop reads next
    raw,       \* the dictionary raw, with Null for what is not in it
    parsed,    \* the result
    outcome    \* "parsing", "parsed", or "raised" by int() or float()

vars == <<bindings, next, raw, parsed, outcome>>

-----------------------------------------------------------------------------
PointsInOrder(s, before(_, _)) ==
    LET years == CHOOSE order \in SetToSeqs(Known(s)) : IsSorted(order, before)
    IN  [k \in DOMAIN years |-> [year |-> years[k], population |-> s[years[k]]]]

(* Mutant: the points are sorted by population, equal ones by year.        *)
Points_BySize(s) ==
    PointsInOrder(s, LAMBDA x, y : s[x] < s[y] \/ (s[x] = s[y] /\ x < y))

(* [PopulationPoint(...) for y, p in sorted(pts.items())]                  *)
Points(s) == PointsInOrder(s, <)

-----------------------------------------------------------------------------
Init ==
    /\ bindings \in Bindings
    /\ next = 1
    /\ raw = [q \in Qids |-> [y \in Years |-> Null]]
    /\ parsed = [q \in Qids |-> <<>>]
    /\ outcome = "parsing"

Row == bindings[next]

Reading == outcome = "parsing" /\ next \in DOMAIN bindings

(* `if not year_str or not pop_str: continue'.                             *)
Incomplete(row) == row.year = Null \/ row.population = Null

Unreadable(row) == ~Incomplete(row) /\ Garbage \in {row.year, row.population}

SkipRow ==
    /\ Reading
    /\ Incomplete(Row)
    /\ next' = next + 1
    /\ UNCHANGED <<bindings, raw, parsed, outcome>>

(* Mutant: the last row of a year wins.                                    *)
Merged_LastWins(existing, population) == population

(* The smaller of two values for one city and year.                        *)
Merged(existing, population) ==
    IF existing = Null \/ population < existing THEN population ELSE existing

ReadRow ==
    /\ Reading
    /\ ~Incomplete(Row)
    /\ ~Unreadable(Row)
    /\ raw' = [raw EXCEPT ![Row.city][Row.year] = Merged(@, Row.population)]
    /\ next' = next + 1
    /\ UNCHANGED <<bindings, parsed, outcome>>

(* int() or float() raises ValueError: the refresh fails.                  *)
RejectRow ==
    /\ Reading
    /\ Unreadable(Row)
    /\ outcome' = "raised"
    /\ UNCHANGED <<bindings, next, raw, parsed>>

Filter ==
    /\ outcome = "parsing"
    /\ next > Len(bindings)
    /\ parsed' = [q \in Qids |-> Points(FilterScopeOutliers(raw[q]))]
    /\ outcome' = "parsed"
    /\ UNCHANGED <<bindings, next, raw>>

Next == SkipRow \/ ReadRow \/ RejectRow \/ Filter

Spec == Init /\ [][Next]_vars

-----------------------------------------------------------------------------
(* Type invariant.                                                         *)
TypeOK ==
    /\ bindings \in Seq(Rows)
    /\ next \in 1 .. Len(bindings) + 1
    /\ raw \in [Qids -> Series]
    /\ outcome \in {"parsing", "parsed", "raised"}

(* The rows read so far that give city q a population in year y.           *)
Reports(q, y) ==
    {k \in 1 .. next - 1 : /\ bindings[k].city = q
                           /\ bindings[k].year = y
                           /\ bindings[k].population \in Populations}

(* Whatever order the endpoint answers in, every year of every city holds  *)
(* the smallest population reported for it, and none if none was.          *)
SmallestReport ==
    \A q \in Qids, y \in Years :
        IF Reports(q, y) = {} THEN raw[q][y] = Null
        ELSE /\ \E k \in Reports(q, y) : raw[q][y] = bindings[k].population
             /\ \A k \in Reports(q, y) : raw[q][y] <= bindings[k].population

(* What a series keeps: of three or more values those that are at most     *)
(* twice every other one.                                                  *)
KeepsSmallestScope(s) ==
    LET kept == FilterScopeOutliers(s)
    IN  \A y \in Years :
            kept[y] = IF /\ Cardinality(Known(s)) >= 3
                         /\ \E x \in Known(s) : y \in Known(s) /\ s[y] > 2 * s[x]
                      THEN Null ELSE s[y]

(* Filtering a filtered series changes nothing: a series that is stored,   *)
(* fetched and filtered again does not shrink with every refresh.          *)
FilterStable(s) == FilterScopeOutliers(FilterScopeOutliers(s)) = FilterScopeOutliers(s)

(* Every city's series keeps exactly its smallest scope, and would keep it *)
(* if it were filtered again.                                              *)
ScopesFiltered == \A q \in Qids : KeepsSmallestScope(raw[q]) /\ FilterStable(raw[q])

(* A parsed series has one point per year, in ascending order, each with   *)
(* the smallest population reported for that city and year; only years     *)
(* reported with more than twice some other year of the city are missing.  *)
ParsedFromReports ==
    outcome = "parsed" =>
        \A q \in Qids :
            LET years == {parsed[q][k].year : k \in DOMAIN parsed[q]}
            IN  /\ \A j, k \in DOMAIN parsed[q] : j < k => parsed[q][j].year < parsed[q][k].year
                /\ \A k \in DOMAIN parsed[q] :
                       LET reported == {bindings[i].population :
                                            i \in Reports(q, parsed[q][k].year)}
                       IN  /\ parsed[q][k].population \in reported
                           /\ \A n \in reported : parsed[q][k].population <= n
                /\ \A y \in Years \ years : \A i \in Reports(q, y) :
                       \E x \in Years : \E j \in Reports(q, x) :
                           bindings[i].population > 2 * bindings[j].population
=============================================================================
