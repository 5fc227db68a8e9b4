----------------------------- MODULE MCDataFetch -----------------------------
(* Small instances of DataFetch for TLC.                                   *)
EXTENDS FetchInvariant

CONSTANTS prado, pradoMuseum, tate, madrid, london, atlantis,   \* pages
          itemPrado, itemTate, itemMadrid, itemLondon,          \* items
          labelA, labelB, labelC                                \* labels

Listing(title, name, count, year, city) ==
    [title |-> title, name |-> name, count |-> count, year |-> year, city |-> city]

(* prado is a redirect to pradoMuseum; madrid a page, atlantis is none.    *)
TableChoices ==
    {Listing(prado, labelA, 3, 1, madrid),
     Listing(pradoMuseum, labelB, 4, 2, london),
     Listing(tate, labelC, 3, 2, atlantis),
     Listing(tate, labelC, 2, 2, london),
     Listing(tate, labelB, 3, Null, Null),
     Listing(Null, labelA, 3, 1, madrid)}

Fact(title, item, name, city, cityName, year, visitors) ==
    [title |-> title, item |-> item, name |-> name, city |-> city,
     cityName |-> cityName, year |-> year, visitors |-> visitors]

PradoFacts(city, cityName) ==
    {Fact(pradoMuseum, itemPrado, labelB, city, cityName, 1, 5),
     Fact(pradoMuseum, itemPrado, labelB, city, cityName, 1, 6)}

(* Wikidata knows nothing, numbers without a city, a city without numbers, *)
(* or two cities.                                                          *)
FactChoices ==
    {{},
     PradoFacts(Null, Null),
     PradoFacts(itemMadrid, madrid) \cup {Fact(tate, itemTate, labelC, itemLondon, london, Null, Null)},
     {Fact(tate, itemTate, labelC, itemLondon, london, 2, 7),
      Fact(tate, itemTate, labelC, itemMadrid, madrid, 2, 7)}}

Identity == [p \in Pages |-> p]

Redirecting == [Identity EXCEPT ![prado] = pradoMuseum]

CityPages == [p \in Pages |-> CASE p = madrid -> itemMadrid
                                [] p = london -> itemLondon
                                [] OTHER      -> Null]

AllWorlds ==
    {[page |-> page, normalized |-> Identity, redirects |-> Redirecting,
      missing |-> {atlantis}, itemOf |-> CityPages, facts |-> facts,
      populated |-> IF facts = {} THEN {itemMadrid} ELSE {itemMadrid, itemLondon}] :
         page \in SeqOf(TableChoices, 3), facts \in FactChoices}
=============================================================================
