---------------------------- MODULE RefreshData ----------------------------
(***************************************************************************)
(* What one refresh of the museums database works on: the data set that    *)
(* IngestionWorkflow._fetch_data returns, and the contents it stands for.  *)
(*                                                                         *)
(* A data set is the ordered list of MuseumEnrichments and the ordered     *)
(* mapping from city QID to population points.  The number stored in a     *)
(* visitor or population record is abstracted to the refresh that wrote    *)
(* it: two refreshes may store different numbers for the same year, and    *)
(* the properties only ask whose number a record holds.                    *)
(***************************************************************************)
EXTENDS Integers, Sequences, FiniteSets, FiniteSetsExt, Functions

CONSTANTS
    Requests,   \* the POST /refresh requests of a behaviour
    Seed,       \* stands for the refresh that left the initial contents
    Names,      \* museum labels (museums.name)
    Items,      \* Wikidata items of museums (museums.wikidata_qid)
    Qids,       \* Wikidata items of cities (cities.wikidata_qid)
    Years,      \* years of the visitor and population records
    Null,       \* SQL NULL, and "no record for that year"
    Absent,     \* no such row
    Datasets,   \* the data sets the upstream services may answer with
    SeedDatasets \* those an earlier refresh may have stored

Writers == Requests \cup {Seed}

Enrichments == [name  : Names,
                item  : Items \cup {Null},
                city  : Qids \cup {Null},
                years : SUBSET Years]

Series == [city : Qids, years : SUBSET Years]

DatasetType == [museums : Seq(Enrichments), populations : Seq(Series)]

(* Populations are only asked for the cities of the enrichments.           *)
CityQids(d) == {d.museums[i].city : i \in DOMAIN d.museums} \ {Null}

ASSUME DataAssumption ==
    /\ Seed \notin Requests
    /\ IsFiniteSet(Requests)
    /\ IsFiniteSet(Qids)
    /\ Datasets \subseteq DatasetType
    /\ SeedDatasets \subseteq Datasets
    /\ \A d \in Datasets : \A i \in DOMAIN d.populations :
           d.populations[i].city \in CityQids(d)

-----------------------------------------------------------------------------

MuseumNames(d) == {d.museums[i].name : i \in DOMAIN d.museums}

Named(d, n) == {i \in DOMAIN d.museums : d.museums[i].name = n}

VisitorYears(d, n) == UNION {d.museums[i].years : i \in Named(d, n)}

PopulationYears(d, q) ==
    UNION {s.years : s \in {s \in Range(d.populations) : s.city = q}}

(* museums.wikidata_qid is unique: what is stored has no item twice.       *)
ASSUME SeedAssumption ==
    \A d \in SeedDatasets : \A m, n \in MuseumNames(d) :
        LET item(x) == d.museums[Max(Named(d, x))].item
        IN  item(m) = item(n) /\ item(m) # Null => m = n

RecordSets == [Years -> Writers \cup {Null}]

(* The sorts of values that share a column or a table are disjoint.        *)
ASSUME DistinctAssumption ==
    /\ Absent # Null
    /\ Null \notin Writers \cup Items \cup Qids \cup Nat
    /\ Names \cap Qids = {}
    /\ Absent \notin RecordSets

(* A museum that is shown is not an absent one.                            *)
ASSUME ShownAssumption ==
    Absent \notin [item     : Items \cup {Null},
                   city     : Qids \cup {Null},
                   visitors : RecordSets]

NoRecords == [y \in Years |-> Null]

(* Mutant: an upsert drops the years it does not write.                    *)
Recorded_Replaces(records, Y, w) == [y \in Years |-> IF y \in Y THEN w ELSE Null]

(* The records of an upsert of the years Y by w over existing records.     *)
Recorded(records, Y, w) == [y \in Years |-> IF y \in Y THEN w ELSE records[y]]

(***************************************************************************)
(* The contents a reader of the API sees, keyed by museum name and city    *)
(* QID instead of by surrogate row ids.                                    *)
(***************************************************************************)
EmptyContents == [museums |-> [n \in Names |-> Absent],
                  cities  |-> [q \in Qids |-> Absent],
                  state   |-> Absent]

(* The contents that a refresh by w with data set d, stamped at, stands    *)
(* for when nothing else runs: of two enrichments with one label the later *)
(* one sets the columns and the visitor records of both are kept.          *)
ContentsOf(d, w, at) ==
    [museums |->
        [n \in Names |->
            IF n \notin MuseumNames(d) THEN Absent
            ELSE LET last == d.museums[Max(Named(d, n))]
                 IN  [item     |-> last.item,
                      city     |-> last.city,
                      visitors |-> Recorded(NoRecords, VisitorYears(d, n), w)]],
     cities  |->
        [q \in Qids |->
            IF q \notin CityQids(d) THEN Absent
            ELSE Recorded(NoRecords, PopulationYears(d, q), w)],
     state   |->
        [at      |-> at,
         museums |-> Len(d.museums),
         cities  |-> Cardinality(CityQids(d))]]

(***************************************************************************)
(* Refreshes that overlap.  The DELETE statements of one miss the rows     *)
(* that another has committed since they started.  Such a row survives:    *)
(* the upserts of the same key change it in place, under the id it has,    *)
(* and add to its records.  One that is not upserted stays as it is, but   *)
(* for a city that is gone (ON DELETE SET NULL).                           *)
(***************************************************************************)
Keys == Names \cup Qids

RecordsOver(new, old) ==
    [y \in Years |-> IF new[y] = Null THEN old[y] ELSE new[y]]

MergedMuseum(new, old, missed) ==
    IF new = Absent THEN [old EXCEPT !.city = IF @ \in missed THEN @ ELSE Null]
    ELSE [new EXCEPT !.visitors = RecordsOver(@, old.visitors)]

MergedCity(new, old) == IF new = Absent THEN old ELSE RecordsOver(new, old)

(* What a refresh that stands for new leaves of old, when it has missed    *)
(* the rows of the keys in missed.                                         *)
Merged(new, old, missed) ==
    [museums |->
        [n \in Names |->
            IF n \in missed THEN MergedMuseum(new.museums[n], old.museums[n], missed)
            ELSE new.museums[n]],
     cities  |->
        [q \in Qids |->
            IF q \in missed THEN MergedCity(new.cities[q], old.cities[q])
            ELSE new.cities[q]],
     state   |-> new.state]
=============================================================================
