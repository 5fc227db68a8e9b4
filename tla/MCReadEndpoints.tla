-------------------------- MODULE MCReadEndpoints --------------------------
(* Small instances of ReadEndpoints for TLC.                               *)
EXTENDS ReadInvariant

CONSTANTS r1, r2, louvre, orsay, itemA, paris, rome

Enriched(name, item, city, years) ==
    [name |-> name, item |-> item, city |-> city, years |-> years]

People(city, years) == [city |-> city, years |-> years]

(* Two museums with a row each: paris has a line, rome a point nearby.     *)
TwoCities ==
    [museums     |-> <<Enriched(louvre, itemA, paris, {1, 2}), Enriched(orsay, Null, rome, {4})>>,
     populations |-> <<People(paris, {1, 2}), People(rome, {3})>>]

(* One city; louvre is visited in a year for which the line is below zero. *)
OneCity ==
    [museums     |-> <<Enriched(orsay, itemA, paris, {1}), Enriched(louvre, Null, paris, {2, 4})>>,
     populations |-> <<People(paris, {1, 2})>>]

(* No row: without a city, without visitors, or with a point too far away. *)
NoRows ==
    [museums     |-> <<Enriched(louvre, itemA, Null, {1}), Enriched(orsay, Null, rome, {4})>>,
     populations |-> <<People(rome, {1})>>]

Ineligible ==
    [museums     |-> <<Enriched(louvre, itemA, Null, {1}), Enriched(orsay, Null, paris, {})>>,
     populations |-> <<People(paris, {2})>>]

NoMuseums == [museums |-> <<>>, populations |-> <<>>]

ReadDatasets == {TwoCities, OneCity, NoRows, Ineligible, NoMuseums}
FullDatabase == {TwoCities}

(* By name: louvre before orsay, and, for once, rome before paris.         *)
RomeFirst == [k \in Names \cup Qids |-> IF k \in {louvre, rome} THEN 1 ELSE 2]

(* orsay has as many visitors as the year says, louvre always 2.           *)
SomeVisitors == [p \in MuseumIds \X Years |-> IF p[1][2] = louvre THEN 2 ELSE p[2]]

(* paris shrinks.                                                          *)
SomePopulation == [p \in CityIds \X Years |-> IF p[2] = 1 THEN 5 ELSE 2]
=============================================================================
