# A TLA+ model of the museums service

`src/` is a FastAPI service over PostgreSQL. `POST /refresh` fetches the list of
the most visited museums from Wikipedia, enriches it from Wikidata and
Wikipedia, and replaces the contents of the database; `GET /museums`,
`/cities/populations`, `/harmonized` and `/regression` read what is there, and a
notebook draws conclusions from it. This directory holds TLA+ modules for what
is hard to get right and hard to test in it: the refresh, statement by
statement, while others run; the fetch, HTTP request by request; the reads,
while refreshes commit between their statements; the notebook, while they commit
between its calls; the numbers on their way from Wikidata to an answer; and the
deployment, from the migration of an empty database to the shutdown, with the
pool of connections that all requests share. TLC checks small instances, and TLAPS
proves the safety of all of them for every instance: each invariant that the
passing runs check, and the refinement of serial refreshes, are theorems; the
refinement of overlapping ones and liveness are model-checked.

## Inventory

| Component | Source (`src/src/museums/`) | State | Operations | Modelled by |
|---|---|---|---|---|
| Ingestion workflow | `workflows/ingestion_workflow.py` | the locals of one `refresh()`: entries, enrichments, populations, `qid_to_city_id`, loop positions; one session | `refresh`, `_check_cooldown`, `_fetch_data`, `_run`, `_upsert_cities`, `_upsert_museums_and_visitors`, `_upsert_populations` | `IngestionWorkflow` |
| Persistence | `models/`, `repositories/`, `dependencies.py`, `alembic/versions` | tables museums, cities, visitor_records, population_records, refresh_state; one transaction per request | `delete_all`, `upsert_by_qid`, `upsert_by_name`, `upsert_many`, `get`, `mark_refreshed`, read queries | `ReadCommitted` (writes), `ReadEndpoints` (reads), `ConnectionPool` (sessions) |
| Refresh router | `routers/refresh.py`, `exception_handlers.py`, `exceptions.py` | none | API key, mapping of errors to 401, 429 with `Retry-After`, 500, 502, 503 | `IngestionWorkflow` |
| Enrichment merge | `workflows/fallback_enrichment.py` | locals | merge of Wikidata and Wikipedia enrichments, resolution of city names | `DataFetch` |
| MediaWiki client, list parser | `clients/mediawiki_client.py`, `list_page_parser.py` | none | list page, canonical titles, cities to QIDs in chunks | `DataFetch` |
| Wikidata client | `clients/wikidata_client.py` | none | SPARQL rows to enrichments and population series | `DataFetch` |
| Population parsing | `clients/population_parsing.py` | none | grouping by city, dropping of outliers | `PopulationSeries`, `PopulationParsing` |
| HTTP client | `http_client.py` | attempts | timeouts, retries with backoff | `DataFetch` |
| Read services, routers | `services/*query_service.py`, `routers/` | one session per request | counts, pages, histories by several statements | `ReadEndpoints` |
| Harmonization, regression | `services/harmonization_service.py`, `regression_service.py` | none | population at a museum's latest year, fits | `PopulationEstimate`, `Harmonization`, `ReadEndpoints` (not the regression's coefficients) |
| Application, deployment | `main.py`, `dependencies.py`, `alembic/env.py`, `docker/docker-compose.yml` | of each replica: what it does, its engine with a pool of connections; the tables that exist | migrate, start, serve, stop, crash | `Service`, `ConnectionPool` |
| Health | `routers/health.py`, `services/health_service.py`, `repositories/health_repository.py` | one session per request | `SELECT 1` | `Service` |
| Notebook | `notebook/regression_analysis.ipynb` | data frames | seven calls of the API, joins by id, by name and by counting | `Analysis` (not what only draws) |
| Configuration, logging, schemas, tools | the rest | none | | not modelled |

How they interact. A request has one SQLAlchemy session, which is one PostgreSQL
connection and, from the first statement on, one transaction at READ COMMITTED.
The workflow calls the clients and the repositories in sequence with `await`;
every `await` hands the event loop to other requests, and other replicas run
anyway, so requests interleave between any two statements. They share nothing
but the database and, within a replica, the connection pool of the engine. Nothing
serialises refreshes: there is no lock between requests of one process or between
replicas. Every replica runs `alembic upgrade head` and then uvicorn, and knows
of the others only through the database.

What is hard:

* **Overlapping refreshes.** READ COMMITTED isolates statements, not
  transactions. `DELETE FROM museums` takes a snapshot, waits for the locks of
  an uncommitted refresh, and skips what that one inserted. `INSERT ... ON
  CONFLICT` waits for uncommitted rows of its key and then updates the row it
  could not see before. Two refreshes that upsert the same keys in different
  orders deadlock.
* **Failure in the middle.** The wipe, the upserts and the mark are one
  transaction, but the commit is outside the `try`; cancellation is not an
  `Exception`; an answer may be lost after a commit.
* **Stale decisions.** The cooldown is checked minutes before the commit that
  starts the next one; city ids are cached in a dictionary across statements;
  `datetime.now` is read before an UPDATE that may wait.
* **Silent skips.** `if city is None: continue`, `if not city_qid: continue`,
  an UPDATE that matches no row.
* **Keys.** Museums are keyed by label, but `wikidata_qid` is unique as well.
* **Reads in several statements.** Count, museums, visitor records and
  populations are read one after the other and joined in Python by ids that a
  refresh replaces, or, when refreshes overlap, keeps while the row changes.
* **Answers in pieces.** Titles and items are asked for in chunks, titles
  redirect, SPARQL rows come in any order, and an error may have status 200.
* **Connections.** A refresh holds one through minutes of external calls and
  while it waits for the rows of another; the pool has room for fifteen, and a
  connection that broke looks like any other until a statement fails on it.
* **Start and end.** Two replicas find the same empty database; one dies between
  two `CREATE TABLE`; one is stopped with requests in flight; the database goes
  away and comes back.
* **Several calls of one client.** The notebook combines seven answers, and a
  refresh between two of them replaces every id.
* **Numbers at the edge.** A zero, a series of two values, a lone population two
  years off decide whether a museum appears at all.

What makes each component correct. *Workflow:* a refresh takes effect entirely
or not at all, once, no earlier than the cooldown allows; nothing of a failed
one stays; every request ends. *Persistence:* unique keys stay unique under
concurrent upserts, no reference dangles. *Clients and merge:* a QID is
attached to the entry it was found for, a failed lookup never shifts the others.
*HTTP client:* bounded attempts, only retryable answers retried. *Population
parsing:* points come from the right city, the largest scope survives.
*Reads:* an answer describes one state of the database. *Refusals:* a client that
waits as long as it is told is let in, give or take the second that is cut off.
*Deployment:* every connection comes back, nobody waits for another while holding
what the other needs, the schema is whole wherever it is used. *Notebook:* the
museums it calls dropped are those that are. The hazards, at their
lines, are in `PROJECT.json`.

## Modules

    RefreshData                 data sets and the contents they stand for
      AtomicRefresh             what /refresh promises
      OverlappingRefreshes      what it does when refreshes overlap
        ReadEndpoints           the reads, beside such refreshes
          ReadInvariant         their inductive invariant
            MCReadEndpoints
          Analysis              the notebook, a client of them
            AnalysisInvariant   its inductive invariant
              MCAnalysis
      ReadCommitted             tables, transactions, row locks
        IngestionWorkflow       the refresh, one action per statement; its
                                refinement mappings to AtomicRefresh and to
                                OverlappingRefreshes
          IngestionInvariant    the inductive invariants
            MCIngestionWorkflow instances for TLC
    PopulationSeries            series of one city, the scope filter
      PopulationParsing         the loop over the SPARQL rows
        MCPopulationParsing
      PopulationEstimate        the estimate for one museum (used by ReadEndpoints)
        Harmonization           from the reported series to the row of /harmonized
          MCHarmonization
    DataFetch                   the fetch, one action per HTTP answer
      FetchInvariant            its inductive invariant
        MCDataFetch
    ConnectionPool              the connections of each replica
      Service                   migration, start, requests, shutdown
        MCService

The proofs that TLAPS checks are in modules of their own:

    SequenceLemmas              least, greatest, sorted and listed elements
      IngestionInvariant_proofs types, locks, IInv and what follows from it
        IngestionContents_proofs  ContentsInv, SerialInv, the refinement
      ReadEndpoints_proofs      ReadInv, AnalysisInv, FramesInv and what follows
      DataFetch_proofs          FetchInv and what follows from it
      PopulationParsing_proofs
      Harmonization_proofs      sums over finite sets, the least squares line
    Service_proofs

**RefreshData.** A data set is what `_fetch_data` returns: a list of enrichments
(label, item, city, years with visitor numbers) and a list of population series.
The number in a visitor or population record is abstracted to the refresh that
wrote it; the properties only ask whose numbers a record holds.
`ContentsOf(d, w, at)` is the contents that one refresh of data set `d`, alone,
leaves; `Merged` is what is left when the refresh has missed some rows.

**AtomicRefresh.** The promise: one step `Replace` puts the contents of a
whole data set in place, at most once per request, and unless forced only when
the cooldown has passed.

**OverlappingRefreshes.** What a refresh does to the contents when others may
overlap: `Merge` is one step, the commit, and at most once per request. Its
DELETEs have missed the rows of some refreshes that committed after they began
(`Missed`; DELETE FROM cities starts later and misses fewer). A missed row that
the data set names is changed in place, under the id it has, and keeps the records
of the years that were not upserted; one that it does not name stays, and loses
a city that is gone. `author` is who inserted the row of a key, so `<<author[k],
k>>` is its id. The module promises less than `AtomicRefresh`, which it is when
nothing is missed. `IngestionWorkflow` implements it with any clients
(`ImplementsOverlappingRefreshes`), and `AtomicRefresh` only with serial ones.

**ReadCommitted.** The database as the repositories use it. `db` holds the
committed rows and `tx[r]` the write set of the open transaction of request
`r`: a row in it is locked by `r`. A row id is the pair of the request that
inserted it and its unique key, because surrogate keys are never reused and no
statement changes a name or a QID. Visitor and population records live in their
row: they only vanish with it (`ON DELETE CASCADE`), and are only written by a
transaction that has locked it. `View(r)` is what a statement of `r` sees,
`Holders` who makes it wait, `Target` the row that an `ON CONFLICT` upsert
lands in, `DeleteCities` includes `ON DELETE SET NULL`.

**IngestionWorkflow.** `pc[r]` is the next statement of request `r`:

| `pc` | code | actions |
|---|---|---|
| `idle` | `routers/refresh.py` | `Arrive`, `Unauthorized` |
| `check` | `_check_cooldown` | `PassCooldown`, `RefuseCooldown`, `CheckFails` |
| `fetch` | `_fetch_data` | `FetchData`, `FetchFails` |
| `flush` | autoflush of `RefreshState(id=1)` before the first DELETE | `FlushState`, `FlushConflict` |
| `wipeMuseums`, `deleteMuseums` | `museum_repo.delete_all` | `StartWipeMuseums` (snapshot), `WipeMuseums` (locks granted) |
| `wipeCities`, `deleteCities` | `city_repo.delete_all` | `StartWipeCities`, `WipeCities` |
| `cities` | `_upsert_cities` | `SkipCity`, `UpsertCity`, `LeaveLoop` |
| `museums`, `visitors` | `_upsert_museums_and_visitors` | `UpsertMuseum`, `ItemConflict`, `UpsertVisitors`, `LeaveLoop` |
| `populations` | `_upsert_populations` | `UpsertPopulations`, `LeaveLoop` |
| `stamp`, `mark` | `mark_refreshed`: the clock, then the UPDATE | `Stamp`, `MarkRefreshed` |
| `commit` | `session.commit()` | `Commit`, `CommitFails` |
| `rollback` | the `except` clauses | `Rollback` |

`StatementFails`, `DeadlockVictim` and `Abandon` (crash, cancellation) may
happen wherever the code can raise or stop. A statement whose rows are locked by
another transaction (`BlockedBy`) is not enabled. `now` is a clock and
`committed` a history of the commits; neither exists in the code. The clock is
finer than what clients are told: a second of `RetryAfter`, the `int(...)` of
`_check_cooldown`, is `Second` ticks long.

Abstractions, all on the side of the database:

* a DELETE waits until all rows it saw are free and then deletes them in one
  step, instead of locking them one by one; two DELETEs that lock in opposite
  orders would be a further deadlock, resolved the same way;
* the foreign key's `KEY SHARE` lock on a city is left out: the only cities a
  transaction refers to are ones it has written, so it holds stronger locks
  already (this is `MappedAreWritten` of the invariant, proved);
* the fetch is one step that yields any of a set of data sets: it executes no
  statement, so only its result and its duration matter (`DataFetch` has its
  steps, and `PopulationsOfCities` there is what `DataAssumption` assumes of
  data sets);
* `mark_refreshed` always finds its row; `MarkInv`, proved, says so.

**IngestionInvariant.** `IInv`, what an open transaction may rely on; `ContentsInv`,
what it has made of the database so far; `SerialInv`, what holds besides when
refreshes do not overlap. **ReadInvariant.** `ReadInv`. **AnalysisInvariant.**
`AnalysisInv`, the order of the calls, and `FramesInv`, what the frames hold. See
"Proofs".

**PopulationParsing** and **PopulationSeries.** `parse_populations`: `SkipRow`,
`ReadRow` and `RejectRow` are the loop body, `raw` its dictionary, `Filter` the
lines after the loop. A series is a function of the year, `Null` where it has no
value. Populations are natural numbers (`int(float(...))` of what Wikidata
holds); a value that no number can be read from is `Garbage`.

**PopulationEstimate** and **Harmonization.** `FilterScopeOutliers`, then
`Store` (the refresh, with `CHECK population > 0`), then `Harmonize`
(`_process_museum`). The line that `np.polyfit` fits is computed in exact
fractions `[above, below]`; rounding is left out. `Total` sums a function over a
set; `Spread` and `Rise` are what the slope is the quotient of, written as sums
over pairs of years, and `FitAt` the value of the line at a year.

**DataFetch.** `call` is the kind of request made next and `todo` what it still
has to ask for; `Chunk` is what one request asks.

| `call` | code | actions |
|---|---|---|
| `list` | `fetch_museum_list`, `parse_list_page` | `AnswerList` |
| `normalize` | `normalize_titles`, then the threshold | `AnswerTitles`, `NoQueryTitles`, `EndTitles` |
| `enrich` | `fetch_museum_enrichment`, then the preliminary merge | `AnswerFacts`, `EndFacts`, `Unreadable` |
| `cities` | `resolve_qids`, then the rest of the merge | `AnswerCities`, `NoQueryCities`, `EndCities` |
| `populations` | `fetch_city_populations` | `AnswerPopulations`, `EndPopulations`, `Unreadable` |
| any | `retry_policy` and the `except` clauses of the clients | `Retry`, `GiveUp`, `Refuse`, `Break`, `NoObject`, `Malformed` |
| `done`, `500`, `502`, `503`, `httpx` | the end of the fetch | |

`world` is what the services know, fixed for one fetch: the rows of the list
page, normalizations, redirects, missing pages, items, facts. The regular
expressions are abstracted to what they find in a table row (title, label,
number, year, city, each of which may be missing), a SPARQL query to the facts
it selects, which arrive in any order. `NoQueryTitles` and `NoQueryCities` are
answers of the Action API without `query`.

**ReadEndpoints.** `step` is the next SELECT of one read, and each sees the
database at its own time: `SelectCount`, `SelectMuseums`, `SelectVisitors`
(`selectinload`, in batches), `SelectCities`, `SelectPopulations`, and `Answer`,
which computes the response in Python, the second sort of the cities by name
included (`CitiesByName`). Between them `Refresh` is a step of
`OverlappingRefreshes`: it replaces everything, or misses rows of refreshes that
committed while it ran. The id of a row is the pair of the refresh that inserted
it and its key: an id read before a replacement matches nothing after it, and one
of a row that has survived an overlapping refresh matches the row as it is now.
`seen` is a history of what the database held during the read, and `overlap` of
whether a row has survived a refresh meanwhile. Reads do not influence each
other, so one at a time is enough.

**Analysis.** The notebook: `call` is the next entry of `Calls`, the calls of its
cells in order, with the limit that each passes or leaves to the router; the
frames hold the answers. `Receive` and `Raise` are `api_get` returning or
raising, and `NextCall` says where the notebook goes on when a data frame without
columns makes a cell fail. `Drops` is what the drop list computes. The reads are
those of `ReadEndpoints`, with all their statements; `SomeRefresh` commits
anywhere between them. `past` and `overlaid` are histories, from the first read
on: what the database has held, and whether a row has survived a refresh. The
population plots are left out (see below).

**ConnectionPool.** For each replica the connections that are idle, those that
have broken among them, and the requests that have one. `CheckOut` is the first
statement of a session, `CheckIn` the end of `async with factory() as session`,
`Outage` what a restart of PostgreSQL does. SQLAlchemy's pool and PostgreSQL are
external: they are modelled from how `main.py` and `dependencies.py` use them,
with the pool's defaults, which `main.py` leaves alone.

**Service.** `replica[p]` is where the process is, in the order of the command of
`docker-compose.yml` and of `lifespan`:

| `replica` | code | actions |
|---|---|---|
| `exited`, `conflict` | the container has stopped; nothing restarts it by itself | `Launch` |
| `inspect` | `alembic upgrade head` reads the version | `Inspect`, `StartFails` |
| `create` | `upgrade()`, one transaction (`begin_transaction` in `env.py`) | `CreateTable`, `CommitSchema`, `MigrationConflict` |
| `start` | `lifespan` before `yield` | `StartUp`, `StartFails` |
| `serving` | uvicorn accepts requests | `Stop` |
| `draining` | it waits for those in flight, then `engine.dispose()` | `Dispose` |
| any | a crash | `Kill` |

A request is what it does with its connection: `Arrive`, `Connect` (or
`ConnectFails`, `PoolTimeout`, or `Unauthorized` before it), `Query` for a read,
for `/health` and for a refused refresh, `PassCooldown`, `FetchData`, `WriteRows`
and `Commit` for a refresh, and `StatementFails` or `Abort` anywhere. All
repositories of a request share its session, so a refresh that has fetched goes
on with the connection it has. Of the row locks only this is left: one refresh
writes at a time, across all replicas.

## Runs

The refresh. All have two requests, two museum labels, two items, two cities,
two years. Two requests are enough for every wait, deadlock, overtaking and lost
update between refreshes; two labels and two items make a label change hands; two
cities make lock orders differ.

| Run | cfg | Question | Answer |
|---|---|---|---|
| `serial` | `MCserial` | is it atomic when clients wait for their answer? | yes: `ImplementsAtomicRefresh`, with failures, crashes, lost answers, the API key, the clock to 3 and a cooldown of 2, so that refreshes come before, at and after the cooldown, on an empty and on a full database; the invariant `SerialInv`; and `RetryAfterHonest`, with a second of two ticks |
| `concurrent` | `MCconcurrent` | what holds when refreshes overlap? | locks, unique keys, references, populations, the latest data complete, state, no trace of failures; each commit merges what was fetched with exactly the rows that the DELETEs missed (`ImplementsOverlappingRefreshes`); the invariant of the proofs, `ContentsInv`; and every refresh ends, under the fairness below. The clock runs to 1 with a cooldown of 1; the database starts empty, emptied by a refresh (the case in which upserts deadlock) or full |
| `replacement` | `MCreplacement` | does a refresh replace everything? | no, when two overlap |
| `spacing` | `MCspacing` | does the cooldown separate refreshes? | no, when two overlap |

The data sets (`MCIngestionWorkflow`): `TwoCities`, `Renamed` (the cities in the
other order, both museums under one label, to which the first item has moved),
`Sparse` (missing city, missing numbers), `NoMuseums`, `SameLabel`. Runs with
overlapping refreshes leave out `Sparse` and `SameLabel`,
which concern single refreshes and are in `serial`. Bounds: `MaxTime` caps the clock; everything else
is finite by itself, because a request runs once.

The fetch, the numbers and the reads:

| Run | cfg | Question | Answer |
|---|---|---|---|
| `fetch` | `MCfetch` | is every enrichment that of its museum, and does a fetch end? | yes: all list pages of up to three rows of six, four states of Wikidata, chunks of one, two attempts; and the invariant of the proofs, `FetchInv` |
| `shape` | `MCshape` | does an answer of an unexpected shape fail the refresh? | no |
| `population` | `MCpopulation` | does a series depend on the order of the rows, and what does it keep? | it does not; all lists of up to four rows out of sixteen: the smallest report per year, and exactly the smallest scope |
| `harmonized` | `MCharmonized` | which museums does the estimate lose? | only those outside their city's years, and an estimate that is not flagged stays near the populations: all series of six years over 0, 1, 2, 5 |
| `reads` | `MCreads` | what may a read return while refreshes commit? | while refreshes do not overlap, rows of one state of the database, perhaps without records; when they do, rows listed from one state with the records that another one has under their ids, never those of another row; exact pages when none commits; and the invariant of the proofs, `ReadInv` |
| `torn` | `MCtorn` | has every row of an answer its records while refreshes commit? | no |

The client and the deployment:

| Run | cfg | Question | Answer |
|---|---|---|---|
| `analysis` | `MCanalysis` | are the conclusions of the notebook right while refreshes commit between its calls? | the cells run in order, on answers of their own (`AnalysisInv`); a museum that is not called dropped has a row of its own, as long as refreshes do not overlap; without a refresh in between the drop list and the counts are exact, within the page limits the properties state |
| `service` | `MCservice` | do connections come back, does every request and every replica settle, is the schema whole? | yes, through pool exhaustion, aborts, crashes, restarts of the database, shutdowns and two replicas that migrate at once |

Why these bounds are enough. Chunks are cut the same way whatever their size, so
chunks of one exercise every boundary; three rows hold a redirect, its target and
a duplicate. Four rows are a series of three, the smallest that is filtered, and
one report twice, with another city between them. Populations 1, 2, 5 lie on both
sides of the factor two, and 0 is what the database refuses. Six years leave room
for a line of three points to be steep and for a gap of more than two. Two
refreshes between the statements of one read are as many as there are joins, and
enough for the second to leave rows of the first;
`Batch` is one, so that a refresh also fits between two batches. The five data
sets of `MCReadEndpoints` hold a city with a line, one with a lone point, a line
that has become negative, museums without city, visitors or population, and
nothing at all; `MinRows` is two instead of five, and `Skips` reaches beyond
the last of two museums; `RomeFirst` orders the cities against their collation, so
that the order the service sorts by is not the one the SELECT returns. The
notebook has limits of two
and one for 200 and 50, two museums, so that one of them is beyond the default
page, and two refreshes; the clock is stopped, as no read looks at it. The
service has two replicas, as many as race for a table, two tables, so that a
crash falls between them, and a pool of one and one: with a refresh and two reads
at one replica both connections are lent and one request waits; the fourth
client is a refresh at the other replica, which holds the row locks that the
first one waits for. Initially there is no schema, or all of it.

`OnlyFarMuseumsDropped` is about cities with less than 16 populations, and
`UnflaggedEstimatesNearData` lets the line leave the range of n populations by n /
16 of the smallest one. Some bound there must be: within a factor of two a line
falls below zero in its last year if ten populations are from the years 0 to 9,
fifteen, half as large, from 100000 on, and one like these from 355000. The
number 16 is what the proof below yields for any years.

The functions return, so `fetch`, `shape`, `population` and `harmonized` set
`CHECK_DEADLOCK FALSE`; the others do not.

Fairness. `FairSpec` assumes weak fairness of `Proceed(r)`, the steps of a
request that has started: asyncio runs every ready task, the HTTP clients have
timeouts and bounded retries, and PostgreSQL grants a lock once it is free and
aborts one of the transactions in a cycle. No fairness is assumed of `Arrive`,
of failures or of the clock. `EveryRequestEnds` starts at `check`, and a request
that waits for a lock depends on others to proceed: it fails if a failed refresh
keeps its locks, or if nothing breaks a deadlock. `FairSpec` of `DataFetch` assumes that every HTTP attempt ends, with an
answer or a timeout (`httpx.AsyncClient(timeout=...)`), and that the code between
attempts runs; nothing is assumed of which of the two happens, so `FetchEnds`
rests on the number of attempts and on `todo` getting shorter. `FairSpec` of
`Service` assumes weak fairness of what a running process does next: waiting for
a connection is bounded by `pool_timeout`, and the fetch by the timeouts above
(`FetchEnds`). Where two wait for one lock (the rows of a refresh, the names of
tables) fairness is strong: PostgreSQL queues those who wait. Nobody has to
start or stop a replica or to send a request, and the database need not come
back; `RequestsEnd` and `ReplicasSettle` hold regardless, and `OutageHeals`
concerns the behaviours in which it does and stays. There is no fairness of
`Abort`: what ends is not ended by luck.

## What the model says about the code

Four statements of the repository are not what the code does; each is a run with
a counterexample, and a finding in `PROJECT.json` quotes the line.

1. `routers/refresh.py` says that the refresh replaces existing data atomically.
   Two overlapping refreshes leave rows of the first under those of the second.
   What does hold then is in `LatestRefreshComplete`: nothing that the last
   refresh fetched is missing or overwritten.
2. `docs/PROJECT.md` says that the service refuses to re-fetch data younger than
   the cooldown. Two requests that both check before either commits both run.
3. `mediawiki_client.py` says that an unexpected shape raises. An answer without
   `query` is taken as one that knows nothing, and the refresh replaces the
   database without the canonical titles.
4. `routers/cities.py` says that every city comes with its full history, and
   `routers/museums.py` that each museum includes its records. While a refresh
   commits, all of them may come without any. What does hold is
   `OneRefreshPerAnswer`: as long as refreshes do not overlap, rows may lose all
   their records, but numbers of two refreshes are never combined, because the ids
   of deleted rows are not reused. When two overlap (finding 1), the upserts of the
   second change rows of the first under the ids they have. A read between the two
   commits then joins the museum, or the city, of the first with the records of
   the second, and the estimate of one row may come from two refreshes; but no row
   shows the numbers of another museum or city.

Also seen in the models, without a run of their own: connect and pool timeouts
are not retried, and `ReadError` and `RemoteProtocolError` reach the router as
httpx exceptions (`Refuse`, `Break`); a series of two populations is not filtered
whatever their ratio; the refresh counts listed museums, not rows, when labels
repeat, and a city whose only museum gave way to another of the same label stays
without one, although `models/city.py` says that a museum refers to every city;
`/regression` may answer 422 because a refresh committed between its statements
(`RegressionResponse`); `/health` documents 503 for an unreachable database, but
no handler knows the exception, and the answer is 500 (`ConnectFails`); of two
replicas that start on an empty database one fails and has to be started again
(`MigrationConflict`); after a restart of the database a replica fails every
request that was lent a connection from before, until one of them has failed and
the idle ones are dropped (`StatementFails`); a client told to retry after 0 seconds may be refused again
(`RetryAfter`); a refresh between two cells of the notebook makes all museums
look dropped (`DropListExact` excludes it), and its act 2 counts museums as
dropped that are only beyond the default page (`DroppedCounted`). If refreshes
overlap while the notebook runs, a museum that is not called dropped may have
moved to another city, or have a newer year, between the two answers that are
joined by its id (`SurvivorsReal` excludes it). The plots of the notebook join
estimates with populations by the name of the city, of the first 50 cities only:
two cities of one name share a curve, and a city further down has none. Neither
the API nor the notebook promises otherwise, so no property is stated of them.

## Proofs

`IngestionInvariant_proofs` proves, for every set of requests, names, items,
cities, years and data sets that satisfies the ASSUMEs, `Spec => []IInv`, and
from it seven of the properties that the runs check: `TypeOK`,
`RowLocksExclusive`, `OneRowPerKey`, `PopulationsNeverDropped`,
`NoDanglingCity`, `StateDescribesLatest`, `NoTraceOfFailure`.

Why the invariant is what it is. `OneRowPerKey` is not inductive: nothing in it
stops two transactions from both inserting. `LockInv` does. A transaction *owns*
a key as soon as it touches one row of it: no other transaction touches a row of
that key (`KeysExclusive`), and it has touched all committed rows of the key
(`KeysCovered`), so when it commits nothing else of that key can be left; and
each transaction sees at most one row per key. The lemmas `Statement`,
`StatementLocks` and `EndLocks` show once and for all
that a statement that waits for what it touches, and the end of a transaction,
keep this.

The statements that wait for nothing need more. `upsert_many` of visitor and
population records and the UPDATE of the mark do not wait in the model because
the row is already theirs. `LoopInv` carries that: the cities before the cursor
are mapped to rows this transaction has written, later all cities of the data
set are, and the museum whose visitors come next is one it has just written. The
same part gives `PopulationsNeverDropped` and the second half of
`NoDanglingCity`. The first half needs `ReferenceInv`: before its loops a
transaction has written no museum, then only museums that refer to cities it
wrote; and whoever deletes a city has also taken every museum that refers to it.
`MarkInv` says that the singleton row exists when it is marked, and what it
holds at the commit; with it a commit establishes `StateDescribesLatest`.
`AuthorInv` says that what is committed was written by refreshes that committed.

Each proof that `Next` preserves a part has one step per action; the lemma
`Frame` says that a step of one request leaves what the others own alone, so
that only the acting request has to be looked at. The module begins with the
lemmas about types and about what each action touches.

`IngestionContents_proofs` goes on to what is in the database after a refresh:
`Spec => []ContentsInv`, and from it `OneRowPerItem`, `LatestRefreshComplete`,
`SerialInv`, `RetryAfterHonest` (this one from `IInv` alone), and, for serial
clients, that the workflow implements `AtomicRefresh` (`AtomicReplacement`).
`LatestRefreshComplete` speaks of the moment of a commit; what makes it true is
that between any two statements a refresh has, in rows that only it can change,
everything it has worked off so far. `MuseumsWritten` says so of museums: the
columns are those of the *last* enrichment of a label (`LastUpserted`), as
several listed museums may share one, and the visitor records those of *all* of
them. `PopulationsWritten` is the same for series; a series finds its city
because of `DataInv` and `MappedAreWritten`. `ItemInv` keeps `wikidata_qid` unique:
the committed rows, and the view of each transaction, hold no item twice, and no
two transactions have written one item. The last part is what makes it
inductive, because the second of them waits or fails (`ItemConflict`).

The refinement needs the converse, that nothing else is left: `SerialInv` says
that after its DELETEs a refresh sees only rows of its data set (`NothingElse`),
which holds because they missed nothing, because of what was deleted, in the
right order, and because nobody else is in flight; and that the cooldown it has
passed is over when it commits (`CooledDown`), which `TimeInv` gives its order
with the clock. A commit then shows exactly `ContentsOf` its data set
(`CommitReplaces`), which is the step `Replace`; every other step shows nothing.

`ReadEndpoints_proofs` proves `ReadSpec => []ReadInv`, and with it
`OneRefreshPerAnswer` and `QuietReadExact`, for every data set, page and batch
size. The argument is that of the ids. Each thing a read has so far is from some
snapshot it has seen, but not from the same one: the total, the page, each batch
of visitor records and the populations may have four different ones (`TotalInv`,
`PageInv`, `LoadedInv`, `GroupedInv`). Whatever the refreshes do, a row and what is
joined to it by id are of one key, and no key is listed twice; that is the part of
`OneRefreshPerAnswer` which holds when they overlap (`IsJoined`). For the
rest, two snapshots have no row in common, until a row survives a refresh
(`overlap`): a refresh that misses nothing gives every row its own name, which no
snapshot that was seen can hold, because each is from refreshes that took effect
before (`Committed`, `Apart`, `SeenInv`). So what is joined to a row by id is
either from the snapshot of the page or missing: `PageOf`, `LoadedOf` and
`GroupedOf` say what each join yields, and `ResponseCorrect` concludes that every row
of the answer is the one of the page's snapshot, with its records or without any.
If no refresh has committed, `seen` has one element and nothing is missing.

The same module goes on to the notebook. `AnalysisReads` shows that it is a client
like any other, `AnalysisSpec => ReadSpec`, so `ReadInv` holds while it runs.
`AnalysisInv`, the order of the calls and of the cells, is inductive by itself and
holds beside any refreshes. What the notebook keeps from one call to the next is
`FramesInv` (`FramesCorrect`), from which `SurvivorsReal`, `DropListExact` and
`DroppedCounted` follow, for any limits and any database. Its part `OriginInv` says
from where each frame is, until a row has survived a refresh (`overlaid`): all rows of
`museums` from one state of the database, all rows of the preview from one,
perhaps another. Two such states have no row in common, so where the two frames
share an id they are from the same state, and what the join finds is right
(`SurvivorsCorrect`). `ExactInv` speaks of the behaviours in which nothing commits
after the first read: a frame is then exactly the first rows of some listing of
`Snapshot`, by the exactness of the reads; the drop list and the counts follow by
counting, with `MaxLimit` and `DefaultLimit` as the hypotheses.

`Harmonization_proofs` proves `OnlyFarMuseumsDropped`, `UnflaggedEstimatesNearData`
and `LeastSquares` for all finite sets of years, all populations and all visitor
records. `HarmonizationInv`, which says that the stored series is the filtered
report and the row the answer for it, is inductive; the rest is arithmetic over
sums of any length:

* `Total` is a fold of the community modules, which is a recursive function. No
  induction theorem is needed for it: if a property fails for some subset of a
  finite set, it fails for one of the least size (`HasLeast`), hence
  `SubsetInduction`, the uniqueness of the partial sums (`PartialSumsUnique`) and
  that the order of the summands does not matter (`SumRemove`). Then sums of
  linear combinations (`SumLinear`, `SumOfThree`), over partitions (`SumParts`)
  and over pairs (`SumOfRows`, `SumOfDifferences`).
* `SpreadAndRise` writes the sums over pairs in terms of the moments of the series,
  and `FitIsLine` the value at a year. The normal equations (`LeastSquares`) are
  then an identity of polynomials (`ResidualsCancel`).
* The value at a year t is a weighted mean of the populations (`Weighted`). A weight
  is negative only for years on the other side of the centre. If k of n weights
  are negative, Cauchy's inequality bounds what they add up to by n / 16 of all
  weights, as long as t is no further from the centre than the first or the last
  year (`NegativeWeights`, `NegativeWithin`); two years have no negative weight.
* `FilteredSeries`: three or more values that pass the filter are within a factor
  of two. So moving every value with a negative weight to the largest one costs at
  most as much as the smallest value times these weights (`FitInRange`).

Both hypotheses are needed: without the filter a line through three populations
can be below zero in its last year (100, 1 and 1 in the years 0, 1 and 10), and
without the bound on t any line is that is not level.

`DataFetch_proofs` proves `Spec => []FetchInv`, and from it `EnrichedAsListed`,
`EveryMuseumHasVisitors`, `PopulationsOfCities` and `RequestsBounded`, for every
list page, every state of Wikipedia and Wikidata, every threshold, chunk size and
number of attempts. What the properties say of the end is made of four loops over
chunks, and each needs to know what the one before has left:

* `RangeOfRest`: a chunk and the rest are what was in `todo`, and disjoint if nothing
  was in it twice. With it `Resolving` is kept by every answer (`ResolvingStep`):
  what was asked for is in `todo` or answered, and an answer is never that of
  another page. When `todo` is empty, the mapping is what the service knows.
* The entries over the threshold are chosen by their counts, which a canonical title
  does not change; so they are those of the list page, under the titles of their
  pages (`OverThresholdEntries`, `EntriesInv`).
* Of every entry either the facts are among the `rows` or its title is in `todo`
  (`RowsInv`). Rows with one title are the facts of one page, in any order and as often
  as two redirects to it ask for them (`AboutFacts`); minimum, maximum and the first
  known city depend on the set only (`PreliminaryDescribes`). That the *first* row may
  speak for all needs `WorldAssumption`: a page has one item, and a city in each
  row or in none.
* A city is looked up by name only where Wikidata names none
  (`WithCityDescribes`), and populations are asked for once per item, so the rows
  received are injective (`PopulationsInv`).

`EnrichedAsListed` holds as long as no answer was `malformed`;
`EveryMuseumHasVisitors`, `PopulationsOfCities` and `RequestsBounded` always do,
so the parts of the invariant they rest on must not depend on it: the
entries have a count and a year even after malformed answers. `BudgetInv` counts
requests: `ChunksOfRest` says that an answer takes exactly one chunk off, which
makes room for `MaxAttempts` requests (`Budgets`); no list is longer than the
page before it (`FewCities`).

`PopulationParsing_proofs` proves type correctness (`Typing`), `ScopesFiltered`,
`SmallestReport` and `ParsedFromReports` for every list of rows, all cities, years
and populations. With `MinIsLeast` and `MaxIsGreatest` the filter is restated
without minimum and maximum, as "keep what is at most twice every other value",
of which idempotence follows. `SmallestReport` is inductive with `TypeOK`: `ReadRow`
compares one row with what the rows before left. `ParsedFromReports` carries it
over to the points: each has a population reported for its year, at most every
other one reported for it, because the filter drops values and changes none; and
the points of a series are its years in ascending order
(`PointsInOrderOfYears`).

`SequenceLemmas` gives the meaning of what the community modules define by CHOOSE:
`HasLeast` from the well-foundedness of the naturals, then minima and maxima, what
the sequences of `SetToSeqs` list (`Listing`, `IsListing`), and that every strict
total order sorts every finite set (`SortedExists`), so that `SetToSeq` and `Ascending`
denote a list of the set.

`Service_proofs` proves `TypeOK`, `NoConnectionLeaked`, `NoHoldAndWait` and `SchemaWhole` for
every number of replicas, clients and tables, every assignment of clients to
replicas and every size of the pool. Together with the types they are inductive;
none is alone. A replica that starts puts a connection into its pool, which is
within the bounds only because a replica that does not run had none; an outage
turns all idle connections into broken ones, which is of the right type only
because there were never too many; and a request that arrives holds nothing
because its last one gave everything back. `NoConnectionLeaked` is split into
`Bounded` and `Owned` (`LeakedParts`), the lemmas `CheckOutBounded`,
`CheckInBounded` and `CloseAllBounded` count connections for each way the pool is
used, and `EndInvariant` and `GotoInvariant` cover every step of a request but
the first, whatever it does besides.

Assumptions of the workflow: `DataAssumption`, `DistinctAssumption`, `RowAssumption`,
`ParameterAssumption` and `ShownAssumption` (types, that values which share a column
or a table differ, and that there are finitely many cities), and `SeedAssumption`:
the contents that a behaviour starts with have no item twice, as the constraint
on `wikidata_qid` says of anything stored. Populations are only asked for cities
of the enrichments (`_fetch_data`), which `DataAssumption` states of data sets. Of
the reads: these and `ReadAssumption` (numbers are positive, as the CHECK
constraints say; pages and batches are not empty). Of the parsing:
`PopulationAssumption` (`MaxPopulation` makes the set of populations finite). Of the
service: `PoolAssumption` (finitely many clients, each served by one replica; a pool
of at least one) and `ServiceAssumption`. Of the fetch: `WorldAssumption` (a page is
about one item with one label and has a city in all its rows or in none; a redirect
leads to a page that is none; a page that is missing has no item; there are
finitely many facts, and `Null` is not a value) and `SettingsAssumption` (chunks of at
least one, at least one attempt). Of the harmonization: `VisitsAssumption` (a museum
has a visitor record, `EveryMuseumHasVisitors`) and `NumberAssumption` (years and
populations are natural numbers, there are finitely many years, and `Null` is no
value). Of the notebook: those of the reads and `AnalysisAssumption`.

Only model-checked: `EveryRequestEnds`, `FetchEnds`, `RequestsEnd`, `ReplicasSettle`
and `OutageHeals`, because liveness under fairness is out of the prover's reach; and
`ImplementsOverlappingRefreshes`, that overlapping refreshes do to the contents
what the reads assume of them. Its proof is open: `ContentsInv` says what a
refresh has written and would have to say also which rows its DELETEs have missed.

## Plan

In this order:

1. **Done:** the refresh with its database, the abstract specification, runs,
   and the proofs above.
2. **Done:** `PopulationParsing`, with proofs; `Harmonization`; `DataFetch`;
   `ReadEndpoints`.
3. **Done:** `ConnectionPool` and `Service`; `RetryAfter`; the notebook in
   `Analysis`.
4. **Done:** proofs of `NoConnectionLeaked`, `NoHoldAndWait` and `SchemaWhole`.
5. **Done:** proofs of `OneRefreshPerAnswer` and `QuietReadExact`.
6. **Done:** proofs of `OneRowPerItem`, `LatestRefreshComplete`, `RetryAfterHonest` and
   the refinement `ImplementsAtomicRefresh`; of `ParsedFromReports`.
7. **Done:** proofs of `EnrichedAsListed`, `EveryMuseumHasVisitors`,
   `PopulationsOfCities` and `RequestsBounded`, with an invariant of the chunks.
8. **Done:** proofs of `SurvivorsReal`, `DropListExact` and `DroppedCounted`, the
   notebook being a client of `ReadEndpoints`; of `OnlyFarMuseumsDropped`,
   `UnflaggedEstimatesNearData` and `LeastSquares`.
9. **Done:** the reads and the notebook beside refreshes that overlap:
   `OverlappingRefreshes`, its refinement by the workflow, and the proofs about the
   reads over it. **Open:** a proof of that refinement.

## Not modelled, and why

The wikitext regular expressions and the SPARQL text are text processing or run
elsewhere; the coefficients of the regression are scikit-learn floating point
(its refusal, and the fit of a city, are modelled). Configuration, logging and
schemas keep no state; the settings that decide anything are CONSTANTS. Of the
notebook, the cells that print, sort or draw a single answer are left out: they
combine nothing. The downgrade of the migration is never run by the service.
Tools, scripts and the prototype run apart from the service and from each other,
once, without state.
