------------------------------ MODULE DataFetch ------------------------------
(***************************************************************************)
(* IngestionWorkflow._fetch_data, request by request: the list page, the   *)
(* canonical titles, the Wikidata facts, the cities that Wikidata does not *)
(* know, the populations.  Every HTTP request goes through retry_policy of *)
(* http_client.py and the error mapping of its client.                     *)
(*                                                                         *)
(* call names the kind of request that is made next; todo holds what it    *)
(* still has to ask for, in chunks.                                        *)
(***************************************************************************)
EXTENDS Integers, Sequences, FiniteSets, FiniteSetsExt, SequencesExt, Functions

CONSTANTS
    Pages,        \* titles of Wikipedia pages, of museums and cities
    Items,        \* Wikidata items
    Names,        \* labels of museums and cities
    Years,
    Null,
    Worlds,       \* what MediaWiki and Wikidata may know
    Threshold,    \* Settings.museum_visitor_threshold
    MinEntries,   \* _MIN_EXPECTED_ENTRIES
    ChunkSize,    \* _TITLES_CHUNK_SIZE
    MaxAttempts   \* Settings.http_max_retries

Counts == [Years -> Nat \cup {Null}]

(* One row of the list page; a row without a museum link has no title.     *)
TableRows == [title : Pages \cup {Null}, name : Names,
              count : Nat \cup {Null}, year : Years \cup {Null},
              city  : Pages \cup {Null}]

(* One SPARQL row about a museum.                                          *)
Facts == [title : Pages, item : Items, name : Names,
          city  : Items \cup {Null}, cityName : Pages \cup {Null},
          year  : Years \cup {Null}, visitors : Nat \cup {Null}]

WorldType == [page       : Seq(TableRows),
              normalized : [Pages -> Pages],
              redirects  : [Pages -> Pages],
              missing    : SUBSET Pages,
              itemOf     : [Pages -> Items \cup {Null}],
              facts      : SUBSET Facts,
              populated  : SUBSET Items]

(* A page is about one item, which has one label and is in some city or in *)
(* none (the OPTIONAL clauses of the query); a page that does not exist is *)
(* about none, and redirects lead to pages that are no redirects.          *)
ASSUME WorldAssumption ==
    /\ Worlds \subseteq WorldType
    /\ Null \notin Pages \cup Items \cup Years \cup Nat
    /\ \A w \in Worlds :
        /\ IsFiniteSet(w.facts)
        /\ \A f, g \in w.facts : f.title = g.title =>
               f.item = g.item /\ f.name = g.name /\ (f.city = Null) = (g.city = Null)
        /\ \A f \in w.facts : (f.city = Null) = (f.cityName = Null)
        /\ \A p \in w.missing : w.itemOf[p] = Null /\ w.redirects[p] = p
        /\ \A p \in Pages : w.redirects[w.redirects[p]] = w.redirects[p]

ASSUME SettingsAssumption ==
    /\ Threshold \in Nat
    /\ MinEntries \in Nat
    /\ ChunkSize \in Nat \ {0}
    /\ MaxAttempts \in Nat \ {0}

VARIABLES
    world,        \* what the services know
    call,         \* the request made next, or how the fetch ended
    todo,         \* titles or items that the call still has to ask for
    attempt,      \* retry_state.attempt_number
    entries,      \* the list entries, later those over the threshold
    mapping,      \* canonical titles or city items resolved so far
    rows,         \* SPARQL rows received so far
    enrichments,
    requests,     \* history: HTTP requests sent
    malformed     \* history: an answer had an unexpected shape

vars == <<world, call, todo, attempt, entries, mapping, rows, enrichments,
          requests, malformed>>

Calls == {"list", "normalize", "enrich", "cities", "populations"}
(* The status of the answer; "httpx" is a raw exception, answered with 500. *)
Errors == {"500", "502", "503", "httpx"}

Unresolved == [p \in Pages |-> Null]

Init ==
    /\ world \in Worlds
    /\ call = "list"
    /\ todo = <<Null>>
    /\ attempt = 1
    /\ entries = <<>>
    /\ mapping = Unresolved
    /\ rows = <<>>
    /\ enrichments = <<>>
    /\ requests = 0
    /\ malformed = FALSE

-----------------------------------------------------------------------------
(* parse_list_page: the first row of each title, with a visitor number     *)
(* only if both count and year were found.                                 *)
CONSTANT Folded   \* title.lower()

Entry(row) ==
    LET complete == row.count # Null /\ row.year # Null
    IN  [title    |-> row.title, name |-> row.name, city |-> row.city,
         count    |-> IF complete THEN row.count ELSE Null,
         year     |-> IF complete THEN row.year ELSE Null]

Ascending(I) == CHOOSE order \in SetToSeqs(I) : IsSorted(order, <)

(* What s has at the places I, in their order.                             *)
InOrder(s, I) ==
    LET places == Ascending(I)
    IN  [k \in DOMAIN places |-> s[places[k]]]

Map(Op(_), s) == [k \in DOMAIN s |-> Op(s[k])]

ParseListPage(page) ==
    LET linked  == {k \in DOMAIN page : page[k].title # Null}
        seen(k) == {Folded[page[j].title] : j \in {j \in linked : j < k}}
    IN  Map(Entry, InOrder(page, {k \in linked : Folded[page[k].title] \notin seen(k)}))

(* What the Action API says about a title: normalized, then redirected.    *)
Canonical(p) == world.redirects[world.normalized[p]]

OverThreshold(es) ==
    InOrder(es, {k \in DOMAIN es : es[k].count # Null /\ es[k].count > Threshold})

-----------------------------------------------------------------------------
(* wikidata_client._parse_enrichments: the rows about one title.           *)
About(title) == {k \in DOMAIN rows : rows[k].title = title}

FirstKnown(R) ==
    LET known == {k \in R : rows[k].city # Null}
    IN  IF known = {} THEN Null ELSE rows[Min(known)].city

MaxPerYear(R) ==
    [y \in Years |->
        LET counts == {rows[k].visitors : k \in {k \in R : rows[k].year = y}} \ {Null}
        IN  IF counts = {} THEN Null ELSE Max(counts)]

NoCounts == [y \in Years |-> Null]

(* fallback_enrichment._wiki_visitor_records.                              *)
WikiRecords(e) ==
    IF e.count = Null THEN NoCounts ELSE [NoCounts EXCEPT ![e.year] = e.count]

(* What the list page says of a museum that Wikidata does not know.        *)
Synthetic(e) ==
    [title |-> e.title, item |-> Null, name |-> e.name, city |-> Null,
     cityName |-> e.city, visitors |-> WikiRecords(e)]

Covered(e, visitors) ==
    LET R     == About(e.title)
        first == rows[Min(R)]
    IN  [title    |-> e.title, item |-> first.item, name |-> first.name,
         city     |-> FirstKnown(R),
         cityName |-> IF first.cityName # Null THEN first.cityName ELSE e.city,
         visitors |-> visitors]

(* Mutant: Wikidata's visitor series is taken even when it is empty.       *)
Preliminary_NoFallback(e) ==
    IF About(e.title) = {} THEN Synthetic(e)
    ELSE Covered(e, MaxPerYear(About(e.title)))

(* fallback_enrichment._preliminary_enrichment.                            *)
Preliminary(e) ==
    LET visitors == MaxPerYear(About(e.title))
    IN  IF About(e.title) = {} THEN Synthetic(e)
        ELSE Covered(e, IF visitors = NoCounts THEN WikiRecords(e) ELSE visitors)

CitiesToResolve(es) ==
    {es[k].cityName : k \in {k \in DOMAIN es : es[k].city = Null}} \ {Null}

(* fallback_enrichment._apply_resolved_city.                               *)
WithCity(e) ==
    IF e.city # Null \/ e.cityName = Null THEN e
    ELSE [e EXCEPT !.city = mapping[e.cityName]]

CityItems(es) == {es[k].city : k \in DOMAIN es} \ {Null}

-----------------------------------------------------------------------------
(* A request is answered: the next chunk, first attempt.                   *)
Chunk == SubSeq(todo, 1, Min({ChunkSize, Len(todo)}))

Asking(kind) == call = kind /\ todo # <<>>

(* Mutant: each chunk starts one too far.                                  *)
Answered_SkipsOne ==
    /\ todo' = SubSeq(todo, Len(Chunk) + 2, Len(todo))
    /\ attempt' = 1
    /\ requests' = requests + 1

Answered ==
    /\ todo' = SubSeq(todo, Len(Chunk) + 1, Len(todo))
    /\ attempt' = 1
    /\ requests' = requests + 1

Raise(error) ==
    /\ call' = error
    /\ requests' = requests + 1
    /\ UNCHANGED <<world, todo, attempt, entries, mapping, rows, enrichments>>

(* Mutant: one attempt too many.                                           *)
Retry_OnceMore ==
    /\ call \in Calls /\ todo # <<>>
    /\ attempt <= MaxAttempts
    /\ attempt' = attempt + 1
    /\ requests' = requests + 1
    /\ UNCHANGED <<world, call, todo, entries, mapping, rows, enrichments, malformed>>

(* should_retry: ConnectError, ReadTimeout, WriteTimeout, 429, 5xx.        *)
Retry ==
    /\ call \in Calls /\ todo # <<>>
    /\ attempt < MaxAttempts
    /\ attempt' = attempt + 1
    /\ requests' = requests + 1
    /\ UNCHANGED <<world, call, todo, entries, mapping, rows, enrichments, malformed>>

GiveUp ==
    /\ call \in Calls /\ todo # <<>>
    /\ attempt = MaxAttempts
    /\ Raise("503")
    /\ UNCHANGED malformed

(* Another timeout (connect, pool) or another HTTP status: not retried,    *)
(* but caught by the client.                                               *)
Refuse ==
    /\ call \in Calls /\ todo # <<>>
    /\ Raise("503")
    /\ UNCHANGED malformed

(* A connection that breaks after the request was sent (ReadError,         *)
(* RemoteProtocolError): neither retried nor caught.                       *)
Break ==
    /\ call \in Calls /\ todo # <<>>
    /\ Raise("httpx")
    /\ UNCHANGED malformed

(* The Action API answers with JSON that is no object: AttributeError.     *)
NoObject ==
    /\ call \in {"normalize", "cities"} /\ todo # <<>>
    /\ Raise("500")
    /\ malformed' = TRUE

(* The body is no JSON, or has no parse.wikitext or results.bindings.      *)
Malformed ==
    /\ call \in Calls /\ todo # <<>>
    /\ Raise("502")
    /\ malformed' = TRUE

AnswerList ==
    /\ Asking("list")
    /\ LET parsed == ParseListPage(world.page)
       IN  IF Len(parsed) < MinEntries
           THEN Raise("502")
           ELSE /\ entries' = parsed
                /\ todo' = Map(LAMBDA e : e.title, parsed)
                /\ call' = "normalize"
                /\ attempt' = 1
                /\ requests' = requests + 1
                /\ UNCHANGED <<world, mapping, rows, enrichments>>
    /\ UNCHANGED malformed

(* mapping.update(...) with what an answer says about the chunk.           *)
Update(Resolved(_)) ==
    mapping' = [p \in Pages |->
                   IF p \in Range(Chunk) /\ Resolved(p) # Null
                   THEN Resolved(p) ELSE mapping[p]]

(* _resolve_title_mapping.                                                 *)
AnswerTitles ==
    /\ Asking("normalize")
    /\ Update(LAMBDA p : IF Canonical(p) \in world.missing THEN Null ELSE Canonical(p))
    /\ Answered
    /\ UNCHANGED <<world, call, entries, rows, enrichments, malformed>>

(* An answer without "query" maps every title to itself ...                *)
NoQueryTitles ==
    /\ Asking("normalize")
    /\ Update(LAMBDA p : p)
    /\ Answered
    /\ malformed' = TRUE
    /\ UNCHANGED <<world, call, entries, rows, enrichments>>

(* Mutant: titles stay as the list page has them.                          *)
WithCanonicalTitle_Skipped(e) == e

(* mediawiki_client._with_canonical_title.                                 *)
WithCanonicalTitle(e) ==
    IF mapping[e.title] = Null THEN e ELSE [e EXCEPT !.title = mapping[e.title]]

(* Mutant: nothing happens when no museum is over the threshold.           *)
EndTitles_NeedsMuseums ==
    /\ call = "normalize" /\ todo = <<>>
    /\ OverThreshold(entries) # <<>>
    /\ entries' = OverThreshold(Map(WithCanonicalTitle, entries))
    /\ todo' = Map(LAMBDA e : e.title, entries')
    /\ mapping' = Unresolved
    /\ call' = "enrich"
    /\ UNCHANGED <<world, attempt, rows, enrichments, requests, malformed>>

EndTitles ==
    /\ call = "normalize" /\ todo = <<>>
    /\ entries' = OverThreshold(Map(WithCanonicalTitle, entries))
    /\ todo' = Map(LAMBDA e : e.title, entries')
    /\ mapping' = Unresolved
    /\ call' = "enrich"
    /\ UNCHANGED <<world, attempt, rows, enrichments, requests, malformed>>

(* The endpoint answers with its rows about the chunk, in any order.       *)
AnswerFacts ==
    /\ Asking("enrich")
    /\ \E order \in SetToSeqs({f \in world.facts : f.title \in Range(Chunk)}) :
           rows' = rows \o order
    /\ Answered
    /\ UNCHANGED <<world, call, entries, mapping, enrichments, malformed>>

EndFacts ==
    /\ call = "enrich" /\ todo = <<>>
    /\ enrichments' = Map(Preliminary, entries)
    /\ todo' = SetToSeq(CitiesToResolve(enrichments'))
    /\ call' = "cities"
    /\ UNCHANGED <<world, attempt, entries, mapping, rows, requests, malformed>>

(* _resolve_qid_mapping.                                                   *)
AnswerCities ==
    /\ Asking("cities")
    /\ Update(LAMBDA p : world.itemOf[Canonical(p)])
    /\ Answered
    /\ UNCHANGED <<world, call, entries, rows, enrichments, malformed>>

(* ... and no city to an item.                                             *)
NoQueryCities ==
    /\ Asking("cities")
    /\ Answered
    /\ malformed' = TRUE
    /\ UNCHANGED <<world, call, entries, mapping, rows, enrichments>>

EndCities ==
    /\ call = "cities" /\ todo = <<>>
    /\ enrichments' = Map(WithCity, enrichments)
    /\ todo' = SetToSeq(CityItems(enrichments'))
    /\ rows' = <<>>
    /\ call' = "populations"
    /\ UNCHANGED <<world, attempt, entries, mapping, requests, malformed>>

(* Of the populations only whose they are matters; see PopulationParsing.  *)
AnswerPopulations ==
    /\ Asking("populations")
    /\ \E order \in SetToSeqs(Range(Chunk) \cap world.populated) :
           rows' = rows \o order
    /\ Answered
    /\ UNCHANGED <<world, call, entries, mapping, enrichments, malformed>>

(* A value that int() or float() rejects, found when the rows are grouped. *)
Unreadable ==
    /\ call \in {"enrich", "populations"} /\ todo = <<>>
    /\ rows # <<>>
    /\ call' = "500"
    /\ UNCHANGED <<world, todo, attempt, entries, mapping, rows, enrichments,
                   requests, malformed>>

EndPopulations ==
    /\ call = "populations" /\ todo = <<>>
    /\ call' = "done"
    /\ UNCHANGED <<world, todo, attempt, entries, mapping, rows, enrichments,
                   requests, malformed>>

Next ==
    \/ Retry \/ GiveUp \/ Refuse \/ Break \/ NoObject \/ Malformed
    \/ AnswerList
    \/ AnswerTitles \/ NoQueryTitles \/ EndTitles
    \/ AnswerFacts \/ EndFacts
    \/ AnswerCities \/ NoQueryCities \/ EndCities
    \/ AnswerPopulations \/ EndPopulations
    \/ Unreadable

Spec == Init /\ [][Next]_vars

(* Every request ends: with an answer, an error or a timeout.              *)
FairSpec == Spec /\ WF_vars(Next)

-----------------------------------------------------------------------------
EntryType == [title : Pages, name : Names, city : Pages \cup {Null},
              count : Nat \cup {Null}, year : Years \cup {Null}]

EnrichmentType == [title : Pages, item : Items \cup {Null}, name : Names,
                   city : Items \cup {Null}, cityName : Pages \cup {Null},
                   visitors : Counts]

(* Type invariant.                                                         *)
TypeOK ==
    /\ world \in WorldType
    /\ call \in Calls \cup Errors \cup {"done"}
    /\ todo \in Seq(Pages \cup Items \cup {Null})
    /\ attempt \in 1 .. MaxAttempts
    /\ entries \in Seq(EntryType)
    /\ mapping \in [Pages -> Pages \cup Items \cup {Null}]
    /\ rows \in Seq(Facts \cup Items)
    /\ enrichments \in Seq(EnrichmentType)
    /\ requests \in Nat
    /\ malformed \in BOOLEAN

(* The museums the list page asks for.                                     *)
Listed == OverThreshold(ParseListPage(world.page))

KnownPage(p) == IF Canonical(p) \in world.missing THEN p ELSE Canonical(p)

FactsOf(p) == {f \in world.facts : f.title = p}

Reported(fs, y) == {f.visitors : f \in {f \in fs : f.year = y}} \ {Null}

(* What the enrichment m of list entry e may say, given what the services  *)
(* know of its page, when its city was found by name, if at all.           *)
DescribesWith(m, e, found) ==
    LET fs  == FactsOf(KnownPage(e.title))
        dated == {y \in Years : Reported(fs, y) # {}}
    IN  /\ m.title = KnownPage(e.title)
        /\ IF fs = {} THEN m.item = Null /\ m.name = e.name
           ELSE \A f \in fs : m.item = f.item /\ m.name = f.name
        /\ \/ \E f \in fs : f.city # Null /\ m.city = f.city /\ m.cityName = f.cityName
           \/ /\ \A f \in fs : f.city = Null
              /\ m.cityName = e.city
              /\ m.city = found
        /\ IF dated = {} THEN m.visitors = WikiRecords(e)
           ELSE \A y \in Years :
                    IF y \in dated
                    THEN m.visitors[y] \in Reported(fs, y)
                         /\ \A v \in Reported(fs, y) : v <= m.visitors[y]
                    ELSE m.visitors[y] = Null

Describes(m, e) ==
    DescribesWith(m, e, IF e.city = Null THEN Null ELSE world.itemOf[Canonical(e.city)])

(* Chunks, redirects and the order of the rows never attach the item, the  *)
(* city or the visitors of one museum to another: there is one enrichment  *)
(* per listed museum, in the order of the list, and it describes that one. *)
EnrichedAsListed ==
    call \in {"populations", "done"} /\ ~malformed =>
        /\ Len(enrichments) = Len(Listed)
        /\ \A k \in DOMAIN enrichments : Describes(enrichments[k], Listed[k])

(* Every museum that is stored has a visitor record, whatever Wikidata     *)
(* knows and whatever shape the answers have: the harmonized data set      *)
(* only drops museums for want of a city or a population.                  *)
EveryMuseumHasVisitors ==
    call \in {"populations", "done"} =>
        \A k \in DOMAIN enrichments : enrichments[k].visitors # NoCounts

(* Populations are fetched for the cities of the enrichments, each once,   *)
(* and for no other: _upsert_populations finds every city it looks up.     *)
PopulationsOfCities ==
    call = "done" =>
        /\ IsInjective(rows)
        /\ Range(rows) = CityItems(enrichments) \cap world.populated

(* A fetch never sends more requests than its lists allow.                 *)
Chunks(n) == (n + ChunkSize - 1) \div ChunkSize

RequestsBounded ==
    requests <= MaxAttempts * (1 + 4 * Chunks(Len(ParseListPage(world.page))))

(* The fetch ends: with a data set or with an error.                       *)
FetchEnds == <>(call \in Errors \cup {"done"})

(* mediawiki_client.py: "ExternalDataParseError: on unexpected response    *)
(* shape": the refresh fails instead of storing what it could not read.    *)
UnexpectedShapeFails == malformed => call # "done"
=============================================================================
