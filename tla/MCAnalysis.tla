---------------------------- MODULE MCAnalysis ----------------------------
(* A small instance of Analysis for TLC.                                   *)
EXTENDS AnalysisInvariant

CONSTANTS r1, r2, louvre, orsay, itemA, paris, rome

Enriched(name, item, city, years) ==
    [name |-> name, item |-> item, city |-> city, years |-> years]

People(city, years) == [city |-> city, years |-> years]

(* Two museums with a row each: paris has a line, rome a point nearby.     *)
TwoCities ==
    [museums     |-> <<Enriched(louvre, itemA, paris, {1, 2}), Enriched(orsay, Null, rome, {4})>>,
     populations |-> <<People(paris, {1, 2}), People(rome, {3})>>]

(* The same names, the cities swapped, and only one row.                   *)
Swapped ==
    [museums     |-> <<Enriched(louvre, itemA, rome, {1}), Enriched(orsay, Null, paris, {2, 4})>>,
     populations |-> <<People(paris, {1}), People(rome, {1, 3})>>]

(* A row, and a museum without a city.                                     *)
NoCity ==
    [museums     |-> <<Enriched(louvre, itemA, paris, {1}), Enriched(orsay, Null, Null, {4})>>,
     populations |-> <<People(paris, {2})>>]

NoMuseums == [museums |-> <<>>, populations |-> <<>>]

AnalysisDatasets == {TwoCities, Swapped, NoCity, NoMuseums}
FullDatabase == {TwoCities}

(* By name: louvre before orsay, and paris before rome.                    *)
Alphabetical == [k \in Names \cup Qids |-> IF k \in {louvre, paris} THEN 1 ELSE 2]

(* louvre has the most visitors.                                           *)
SomeVisitors == [p \in MuseumIds \X Years |-> IF p[1][2] = louvre THEN 5 ELSE p[2]]

SomePopulation == [p \in CityIds \X Years |-> IF p[2] = 1 THEN 2 ELSE 3]
===========================================================================
