------------------------ MODULE MCIngestionWorkflow ------------------------
(* Small instances of IngestionWorkflow for TLC.                           *)
EXTENDS IngestionInvariant

CONSTANTS r1, r2, louvre, orsay, itemA, itemB, paris, rome, y1, y2

Enriched(name, item, city, years) ==
    [name |-> name, item |-> item, city |-> city, years |-> years]

People(city, years) == [city |-> city, years |-> years]

(* Two museums in two cities, in this order.                               *)
TwoCities ==
    [museums     |-> <<Enriched(louvre, itemA, paris, {y1, y2}),
                       Enriched(orsay, itemB, rome, {y1})>>,
     populations |-> <<People(paris, {y1, y2}), People(rome, {y1})>>]

(* The same two cities in the other order.  Both museums are called orsay  *)
(* now: one is only known from Wikipedia, the other is the item that was   *)
(* louvre.                                                                 *)
Renamed ==
    [museums     |-> <<Enriched(orsay, Null, rome, {y2}),
                       Enriched(orsay, itemA, paris, {y1})>>,
     populations |-> <<People(rome, {y2})>>]

(* A museum without a city, and one without visitor numbers.               *)
Sparse ==
    [museums     |-> <<Enriched(louvre, itemA, Null, {y2}),
                       Enriched(orsay, itemB, paris, {})>>,
     populations |-> <<People(paris, {y2})>>]

(* No museum passes the visitor threshold.                                 *)
NoMuseums == [museums |-> <<>>, populations |-> <<>>]

(* Two list entries that share a label.                                    *)
SameLabel ==
    [museums     |-> <<Enriched(louvre, Null, paris, {y1}),
                       Enriched(louvre, Null, rome, {y2})>>,
     populations |-> <<People(paris, {y1}), People(rome, {})>>]

SerialDatasets     == {TwoCities, Sparse, SameLabel, NoMuseums}
ConcurrentDatasets == {TwoCities, Renamed, NoMuseums}

(* What the database may hold at first, besides nothing.                   *)
FullDatabase   == {TwoCities}
EmptiedOrFull  == {TwoCities, NoMuseums}
FreshlyCreated == {}
=============================================================================
