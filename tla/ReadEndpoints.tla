---------------------------- MODULE ReadEndpoints ----------------------------
(***************************************************************************)
(* GET /museums, /cities/populations, /harmonized and /regression beside   *)
(* refreshes, which may overlap (OverlappingRefreshes).                    *)
(*                                                                         *)
(* A read is a sequence of SELECT statements at READ COMMITTED: each sees  *)
(* the contents at its own time.  Rows are joined across statements by     *)
(* their ids.  A deleted row's id is never reused, but a row that survives *)
(* an overlapping refresh changes under the id it has.                     *)
(***************************************************************************)
EXTENDS OverlappingRefreshes, SequencesExt

CONSTANTS
    Rank,         \* order of names: of museums by collation, of cities by code point
    Visitors,     \* the visitors that refresh w recorded for museum n, by <<w, n>> and year
    Population,   \* the population that w recorded for city q, by <<w, q>> and year
    Skips,        \* values of the query parameter skip
    Limits,       \* values of the query parameter limit
    Batch,        \* ids in one SELECT of selectinload (500)
    MinRows       \* _MIN_ROWS

MuseumIds == Writers \X Names
CityIds   == Writers \X Qids

ASSUME ReadAssumption ==
    /\ Years \subseteq Nat /\ IsFiniteSet(Years)
    /\ Rank \in [Names \cup Qids -> Nat]
    /\ \A m, n \in Names : Rank[m] = Rank[n] => m = n      \* museums.name is unique
    /\ Visitors \in [MuseumIds \X Years -> Nat \ {0}]      \* ck_..._visitors_positive
    /\ Population \in [CityIds \X Years -> Nat \ {0}]      \* ck_..._population_positive
    /\ Skips \subseteq Nat
    /\ Limits \subseteq Nat \ {0}
    /\ Batch \in Nat \ {0}

H == INSTANCE PopulationEstimate WITH Populations <- Nat

VARIABLES
    step,     \* the statement that comes next
    query,    \* [endpoint, skip, limit]
    total,    \* the museum count
    page,     \* the museums or cities read
    loaded,   \* the visitor records of the museums read, as far as loaded
    grouped,  \* population records by city id
    answer,   \* of the last read
    seen,     \* history: what the database held during the last read
    overlap   \* history: a row has survived a refresh since the last read began

readVars == <<step, query, total, page, loaded, grouped, answer, seen, overlap>>

allVars == <<refreshVars, readVars>>

-----------------------------------------------------------------------------
(* What statements select from a snapshot of the database.                 *)
MuseumsIn(db) == {n \in Names : db.contents.museums[n] # Absent}
CitiesIn(db)  == {q \in Qids : db.contents.cities[q] # Absent}

MuseumRow(db, n) ==
    LET m == db.contents.museums[n]
    IN  [museum |-> <<db.by[n], n>>, item |-> m.item,
         city   |-> IF m.city = Null THEN Null ELSE <<db.by[m.city], m.city>>]

MuseumRows(db, names) == [k \in DOMAIN names |-> MuseumRow(db, names[k])]

CityRows(db, names) == [k \in DOMAIN names |-> <<db.by[names[k]], names[k]>>]

(* Mutant: dict.get without a default for cities that have no records.     *)
PopulationsOf_NoDefault(db) ==
    [id \in CityIds |->
        IF id[1] = db.by[id[2]] THEN db.contents.cities[id[2]] ELSE Null]

(* Mutant: records are joined by the name of the museum.                   *)
RecordsOf_ByName(db, id) ==
    IF id[2] \in MuseumsIn(db) THEN db.contents.museums[id[2]].visitors ELSE NoRecords

RecordsOf(db, id) ==
    IF id[1] = db.by[id[2]] THEN db.contents.museums[id[2]].visitors ELSE NoRecords

PopulationsOf(db) ==
    [id \in CityIds |->
        IF id[1] = db.by[id[2]] THEN db.contents.cities[id[2]] ELSE NoRecords]

(* ORDER BY name: rows with equal names come in any order.                 *)
Ordered(S) ==
    {s \in SetToSeqs(S) : \A i, j \in DOMAIN s : i < j => Rank[s[i]] <= Rank[s[j]]}

(* Mutant: the page starts after its first row.                            *)
Slice_OffByOne(s) == SubSeq(s, query.skip + 2, Min({query.skip + query.limit, Len(s)}))

(* OFFSET skip LIMIT limit, and [skip : skip + limit].                     *)
Slice(s) == SubSeq(s, query.skip + 1, Min({query.skip + query.limit, Len(s)}))

-----------------------------------------------------------------------------
(* HarmonizationService, over museum rows with their visitor records.      *)
Numbers(records, key, Number) ==
    [y \in Years |-> IF records[y] = Null THEN Null ELSE Number[<<<<records[y], key>>, y>>]]

Eligible(m, records) == m.city # Null /\ records # NoRecords

HarmonizedRow(m, records, points) ==
    LET year == H!LatestYear(records)
    IN  [museum   |-> m.museum, city |-> m.city, year |-> year,
         visitors |-> Numbers(records, m.museum[2], Visitors)[year],
         estimate |-> H!Estimate(Numbers(points, m.city[2], Population), year)]

HasRow(m, records, points) ==
    /\ Eligible(m, records)
    /\ H!Survives(Numbers(points, m.city[2], Population), H!LatestYear(records))

(* build_harmonized_rows, on what the statements returned: sorted by       *)
(* visitors, then in the order of the museums.                             *)
Surviving == {k \in DOMAIN page : HasRow(page[k], loaded[k], grouped[page[k].city])}

RowAt(k) == HarmonizedRow(page[k], loaded[k], grouped[page[k].city])

RowBefore(i, j) ==
    \/ RowAt(i).visitors > RowAt(j).visitors
    \/ RowAt(i).visitors = RowAt(j).visitors /\ i < j

Harmonized ==
    LET order == CHOOSE s \in SetToSeqs(Surviving) : IsSorted(s, RowBefore)
    IN  [k \in DOMAIN order |-> RowAt(order[k])]

Success(n, items) == [status |-> 200, total |-> n, items |-> items]

Failure(status) == [status |-> status, total |-> 0, items |-> <<>>]

(* MuseumQueryService.list_paginated.                                      *)
MuseumsResponse ==
    Success(total, [k \in DOMAIN page |->
                       [museum |-> page[k].museum, item |-> page[k].item,
                        city   |-> page[k].city, records |-> loaded[k]]])

(* Mutant: the service relies on the order of the SELECT.                  *)
CitiesByName_AsSelected == page

NameBefore(i, j) ==
    \/ Rank[page[i][2]] < Rank[page[j][2]]
    \/ Rank[page[i][2]] = Rank[page[j][2]] /\ i < j

(* sorted(cities, key=name), which is stable.                              *)
CitiesByName ==
    LET order == CHOOSE s \in SetToSeqs(DOMAIN page) : IsSorted(s, NameBefore)
    IN  [k \in DOMAIN order |-> page[order[k]]]

(* CityQueryService.list_paginated.                                        *)
CitiesResponse ==
    LET cities == CitiesByName
    IN  Success(Len(cities),
                Slice([k \in DOMAIN cities |->
                          [city |-> cities[k], records |-> grouped[cities[k]]]]))

(* build_harmonized_paginated.                                             *)
HarmonizedResponse == Success(Len(Harmonized), Slice(Harmonized))

(* RegressionService.fit.  No row has a visitor count or an estimate of    *)
(* zero: the database refuses the one, and Survives the other.             *)
RegressionResponse ==
    IF Len(Harmonized) < MinRows THEN Failure(422)
    ELSE Success(Len(Harmonized), Harmonized)

Response ==
    CASE query.endpoint = "museums"    -> MuseumsResponse
      [] query.endpoint = "cities"     -> CitiesResponse
      [] query.endpoint = "harmonized" -> HarmonizedResponse
      [] OTHER                         -> RegressionResponse

-----------------------------------------------------------------------------
NoAnswer == Failure(0)

NoPage == [skip |-> 0, limit |-> 1]

NoPopulations == [id \in CityIds |-> NoRecords]

ReadInit ==
    /\ Init
    /\ step = "idle"
    /\ query = [endpoint |-> "regression", skip |-> 0, limit |-> 1]
    /\ total = 0
    /\ page = <<>>
    /\ loaded = <<>>
    /\ grouped = NoPopulations
    /\ answer = NoAnswer
    /\ seen = {}
    /\ overlap = FALSE

Reading == step # "idle"

(* A refresh commits while a read runs, or between reads.                  *)
Refresh ==
    /\ \E M \in SUBSET applied : \E C \in SUBSET M :
           /\ \E r \in Requests, d \in Datasets, at \in 0 .. MaxTime :
                  Merge(r, d, at, Missed(M, C))
           /\ overlap' = (overlap \/ Missed(M, C) # {})
    /\ seen' = IF Reading THEN seen \cup {Snapshot'} ELSE seen
    /\ UNCHANGED <<step, query, total, page, loaded, grouped, answer>>

(* The pages one may ask for; /regression has no parameters.               *)
Pages(endpoint) ==
    IF endpoint = "regression" THEN {NoPage}
    ELSE [skip : Skips, limit : Limits]

Endpoints == {"museums", "cities", "harmonized", "regression"}

Ask(endpoint) ==
    /\ ~Reading
    /\ \E p \in Pages(endpoint) :
           query' = [endpoint |-> endpoint, skip |-> p.skip, limit |-> p.limit]
    /\ step' = IF endpoint = "cities" THEN "cities" ELSE "count"
    /\ seen' = {Snapshot}
    /\ overlap' = FALSE
    /\ answer' = NoAnswer
    /\ UNCHANGED <<refreshVars, total, page, loaded, grouped>>

(* list_paginated: the count ...                                           *)
SelectCount ==
    /\ step = "count"
    /\ total' = Cardinality(MuseumsIn(Snapshot))
    /\ step' = "museums"
    /\ UNCHANGED <<refreshVars, query, page, loaded, grouped, answer, seen, overlap>>

(* ... the museums with their cities; /harmonized takes all (limit=10_000) *)
SelectMuseums ==
    /\ step = "museums"
    /\ \E order \in Ordered(MuseumsIn(Snapshot)) :
           page' = MuseumRows(Snapshot,
                              IF query.endpoint = "museums" THEN Slice(order) ELSE order)
    /\ step' = IF page' = <<>> THEN "answer" ELSE "visitors"
    /\ UNCHANGED <<refreshVars, query, total, loaded, grouped, answer, seen, overlap>>

(* ... and their visitor records, in batches.                              *)
SelectVisitors ==
    /\ step = "visitors"
    /\ LET upTo == Min({Len(loaded) + Batch, Len(page)})
       IN  loaded' = [k \in 1 .. upTo |->
                         IF k \in DOMAIN loaded THEN loaded[k]
                         ELSE RecordsOf(Snapshot, page[k].museum)]
    /\ step' = IF Len(loaded') < Len(page) THEN "visitors"
               ELSE IF /\ query.endpoint # "museums"
                       /\ \E k \in DOMAIN page : Eligible(page[k], loaded'[k])
               THEN "populations" ELSE "answer"
    /\ UNCHANGED <<refreshVars, query, total, page, grouped, answer, seen, overlap>>

(* CityRepository.list_all.  Its order, by collation, is not the one that  *)
(* the service sorts by.                                                   *)
SelectCities ==
    /\ step = "cities"
    /\ \E order \in SetToSeqs(CitiesIn(Snapshot)) :
           page' = CityRows(Snapshot, order)
    /\ step' = "populations"
    /\ UNCHANGED <<refreshVars, query, total, loaded, grouped, answer, seen, overlap>>

(* PopulationRecordRepository.list_all_grouped.                            *)
SelectPopulations ==
    /\ step = "populations"
    /\ grouped' = PopulationsOf(Snapshot)
    /\ step' = "answer"
    /\ UNCHANGED <<refreshVars, query, total, page, loaded, answer, seen, overlap>>

Return(response) ==
    /\ answer' = response
    /\ step' = "idle"
    /\ total' = 0
    /\ page' = <<>>
    /\ loaded' = <<>>
    /\ grouped' = NoPopulations
    /\ UNCHANGED <<refreshVars, query, seen, overlap>>

Answer == step = "answer" /\ Return(Response)

(* The connection breaks.                                                  *)
StatementFails == Reading /\ step # "answer" /\ Return(Failure(500))

ReadNext ==
    \/ Refresh
    \/ \E e \in Endpoints : Ask(e)
    \/ SelectCount \/ SelectMuseums \/ SelectVisitors
    \/ SelectCities \/ SelectPopulations
    \/ Answer \/ StatementFails

ReadSpec == ReadInit /\ [][ReadNext]_allVars

-----------------------------------------------------------------------------
MuseumType == [item     : Items \cup {Null},
               city     : Qids \cup {Null},
               visitors : RecordSets]

SnapshotTypeOK(db) ==
    /\ db.contents.museums \in [Names -> MuseumType \cup {Absent}]
    /\ db.contents.cities \in [Qids -> RecordSets \cup {Absent}]
    /\ db.by \in [Keys -> Writers \cup {Null}]

(* Type invariant.                                                         *)
TypeOK ==
    /\ applied \subseteq Requests
    /\ \A db \in seen \cup {Snapshot} : SnapshotTypeOK(db)
    /\ step \in {"idle", "count", "museums", "visitors", "cities", "populations", "answer"}
    /\ query.skip \in Nat /\ query.limit \in Nat \ {0}
    /\ total \in Nat
    /\ \A k \in DOMAIN page :
           IF query.endpoint = "cities" THEN page[k] \in CityIds
           ELSE /\ page[k].museum \in MuseumIds
                /\ page[k].city \in CityIds \cup {Null}
                /\ page[k].item \in Items \cup {Null}
    /\ loaded \in Seq(RecordSets)
    /\ Len(loaded) <= Len(page)
    /\ grouped \in [CityIds -> RecordSets]
    /\ answer.status \in {0, 200, 422, 500}
    /\ overlap \in BOOLEAN

Returned(status) == ~Reading /\ answer.status = status

(* The rows that the endpoint of the query stands for when the database    *)
(* holds db.                                                               *)
FullMuseum(db, n) ==
    [museum  |-> <<db.by[n], n>>, item |-> MuseumRow(db, n).item,
     city    |-> MuseumRow(db, n).city,
     records |-> db.contents.museums[n].visitors]

FullCity(db, q) == [city |-> <<db.by[q], q>>, records |-> db.contents.cities[q]]

HasFullRow(db, n) ==
    HasRow(MuseumRow(db, n), db.contents.museums[n].visitors,
           db.contents.cities[db.contents.museums[n].city])

FullRow(db, n) ==
    HarmonizedRow(MuseumRow(db, n), db.contents.museums[n].visitors,
                  db.contents.cities[db.contents.museums[n].city])

FullRows(db) ==
    CASE query.endpoint = "museums" -> {FullMuseum(db, n) : n \in MuseumsIn(db)}
      [] query.endpoint = "cities"  -> {FullCity(db, q) : q \in CitiesIn(db)}
      [] OTHER -> {FullRow(db, n) : n \in {n \in MuseumsIn(db) : HasFullRow(db, n)}}

(* A museum or a city without its records.                                 *)
BareRows(db) ==
    IF query.endpoint \in {"museums", "cities"}
    THEN {[row EXCEPT !.records = NoRecords] : row \in FullRows(db)}
    ELSE {}

(* A row for a museum or a city that was listed from one snapshot: what    *)
(* else it shows comes from the records that some snapshot held under      *)
(* their ids.                                                              *)
IsJoined(row, listed) ==
    CASE query.endpoint = "museums" ->
             \E n \in MuseumsIn(listed), db \in seen :
                 row = [FullMuseum(listed, n) EXCEPT !.records = RecordsOf(db, <<listed.by[n], n>>)]
      [] query.endpoint = "cities" ->
             \E q \in CitiesIn(listed), db \in seen :
                 row = [FullCity(listed, q) EXCEPT !.records = PopulationsOf(db)[<<listed.by[q], q>>]]
      [] OTHER ->
             \E n \in MuseumsIn(listed), visited, peopled \in seen :
                 LET m       == MuseumRow(listed, n)
                     records == RecordsOf(visited, m.museum)
                     points  == PopulationsOf(peopled)[m.city]
                 IN  HasRow(m, records, points) /\ row = HarmonizedRow(m, records, points)

(* Refreshes that commit during a read, and each replace all that they     *)
(* find, do not mix in its answer: there is one state of the database that *)
(* every row is from.  A row may at most lack all of its records, and no   *)
(* estimate is computed from records that belong to another row.  Of       *)
(* refreshes that overlap, and change rows in place, only this much is     *)
(* true: no row appears twice, the rows are listed from one state of the   *)
(* database, and a museum is never shown with another museum's records or  *)
(* another city's estimate; but these may be from another state.           *)
OneRefreshPerAnswer ==
    Returned(200) =>
        /\ IsInjective(answer.items)
        /\ \E listed \in seen : \A row \in Range(answer.items) : IsJoined(row, listed)
        /\ overlap \/ \E db \in seen :
                          Range(answer.items) \subseteq FullRows(db) \cup BareRows(db)

(* The order of the rows: by name, or by visitors and then by name.        *)
Key(row) == IF query.endpoint = "cities" THEN Rank[row.city[2]] ELSE Rank[row.museum[2]]

Before(x, y) ==
    IF query.endpoint \in {"museums", "cities"} THEN Key(x) <= Key(y)
    ELSE x.visitors > y.visitors \/ (x.visitors = y.visitors /\ Key(x) <= Key(y))

(* The rows number skip + 1 to skip + limit, as far as there are any.      *)
Requested(order) ==
    [k \in 1 .. Cardinality({i \in DOMAIN order :
                                query.skip < i /\ i <= query.skip + query.limit}) |->
        order[query.skip + k]]

(* A read during which no refresh commits answers with the total and the   *)
(* page, in order, of what the database holds.                             *)
QuietReadExact ==
    \A db \in seen :
        seen = {db} =>
            /\ Returned(200) =>
                   /\ answer.total = Cardinality(FullRows(db))
                   /\ \E order \in SetToSeqs(FullRows(db)) :
                          /\ \A i, j \in DOMAIN order : i < j => Before(order[i], order[j])
                          /\ answer.items = IF query.endpoint = "regression" THEN order
                                            ELSE Requested(order)
            /\ Returned(422) => Cardinality(FullRows(db)) < MinRows

(* routers/museums.py: "Each museum includes ... all per-year visitor      *)
(* records"; routers/cities.py: "every city ..., with its full population  *)
(* history".                                                               *)
RecordsComplete ==
    Returned(200) /\ query.endpoint \in {"museums", "cities"} =>
        \E db \in seen : Range(answer.items) \subseteq FullRows(db)
=============================================================================
