-------------------------- MODULE IngestionWorkflow --------------------------
(***************************************************************************)
(* POST /refresh, step by step: routers/refresh.py checks the API key and  *)
(* calls IngestionWorkflow.refresh, which checks the cooldown, fetches a   *)
(* data set, wipes the tables, upserts cities, museums, visitor and        *)
(* population records, marks the refresh and commits.  Every request has a *)
(* session and therefore a transaction of its own; between two statements  *)
(* the event loop (or another replica) runs other requests.                *)
(*                                                                         *)
(* pc[r] names the statement that request r executes next:                 *)
(*   idle -> check -> fetch -> flush -> wipeMuseums -> deleteMuseums       *)
(*   -> wipeCities -> deleteCities -> cities -> museums <-> visitors       *)
(*   -> populations -> stamp -> mark -> commit -> done                     *)
(* and from any statement of the try block to rollback -> done.            *)
(***************************************************************************)
EXTENDS ReadCommitted, SequencesExt, Relation

CONSTANTS
    Cooldown,     \* Settings.refresh_cooldown_hours, in ticks
    Second,       \* ticks per second
    MaxTime,      \* bound of the clock
    KeyRequired,  \* Settings.refresh_api_key is set
    Serial        \* clients wait for an answer before they refresh again

ASSUME ParameterAssumption ==
    /\ Cooldown \in Nat
    /\ Second \in Nat \ {0}
    /\ MaxTime \in Nat
    /\ KeyRequired \in BOOLEAN
    /\ Serial \in BOOLEAN

VARIABLES
    pc,         \* the next statement of each request
    forced,     \* force=true
    response,   \* the HTTP status answered, "lost" when none ever is
    pending,    \* the session holds a new RefreshState(id=1) to be flushed
    data,       \* enrichments and populations returned by _fetch_data
    seen,       \* the rows the snapshot of a DELETE statement shows
    cursor,     \* position in the list a loop walks over
    cityIds,    \* qid_to_city_id
    stamp,      \* datetime.now(UTC) in mark_refreshed
    now,        \* the clock
    committed   \* history: the refreshes that committed, in that order

input == <<forced, pending, data>>
loop  == <<seen, cursor, cityIds, stamp>>
ghost == <<now, committed>>
vars  == <<dbVars, pc, response, input, loop, ghost>>

Steps == {"idle", "check", "fetch", "flush", "wipeMuseums", "deleteMuseums",
          "wipeCities", "deleteCities", "cities", "museums", "visitors",
          "populations", "stamp", "mark", "commit", "rollback", "done"}

(* The statements inside the try block of refresh.                         *)
TrySteps == Steps \ {"idle", "check", "commit", "rollback", "done"}

Responses == {"none", "202", "401", "429", "500", "502", "503", "lost"}

NoData == [museums |-> <<>>, populations |-> <<>>]

NoCities == [q \in Qids |-> Null]

-----------------------------------------------------------------------------
(* The database is freshly migrated, or holds what an earlier refresh left. *)
Init ==
    /\ \/ /\ db = Stored(EmptyContents)
          /\ committed = <<>>
       \/ \E d \in SeedDatasets :
             /\ db = Stored(ContentsOf(d, Seed, 0))
             /\ committed = <<[by |-> Seed, at |-> 0, data |-> d]>>
    /\ tx = [r \in Requests |-> NoWrites]
    /\ pc = [r \in Requests |-> "idle"]
    /\ response = [r \in Requests |-> "none"]
    /\ forced \in [Requests -> BOOLEAN]
    /\ pending = [r \in Requests |-> FALSE]
    /\ data = [r \in Requests |-> NoData]
    /\ seen = [r \in Requests |-> {}]
    /\ cursor = [r \in Requests |-> 1]
    /\ cityIds = [r \in Requests |-> NoCities]
    /\ stamp = [r \in Requests |-> 0]
    /\ now = 0

(* The loops of _upsert_cities and _upsert_museums_and_visitors.           *)
Looping(r) == cursor[r] \in DOMAIN data[r].museums
Enrichment(r) == data[r].museums[cursor[r]]

(* `if not enrichment.city_qid or enrichment.city_qid in qid_to_city_id'.  *)
SkipsCity(r) == Enrichment(r).city \notin {q \in Qids : cityIds[r][q] = Null}

(* The rows that the next statement of r has to lock.                      *)
Needed(r) ==
    CASE pc[r] \in {"flush", "mark"} -> {StateId}
      [] pc[r] = "deleteMuseums" -> Present(r, seen[r])
      [] pc[r] = "deleteCities" -> Present(r, seen[r]) \cup Referring(r, seen[r])
      [] pc[r] = "cities" /\ Looping(r) ->
             IF SkipsCity(r) THEN {} ELSE KeyRows(Enrichment(r).city)
      [] pc[r] = "museums" /\ Looping(r) ->
             KeyRows(Enrichment(r).name) \cup ItemRows(Enrichment(r).item)
      [] OTHER -> {}

BlockedBy(r) == Holders(r, Needed(r))

Ready(r, step) == pc[r] = step /\ BlockedBy(r) = {}

Goto(r, step) ==
    /\ pc' = [pc EXCEPT ![r] = step]
    /\ UNCHANGED response

(* The request is over: its session and its locals go away.                *)
Finish(r, answer) ==
    /\ pc' = [pc EXCEPT ![r] = "done"]
    /\ response' = [response EXCEPT ![r] = answer]
    /\ pending' = [pending EXCEPT ![r] = FALSE]
    /\ data' = [data EXCEPT ![r] = NoData]
    /\ seen' = [seen EXCEPT ![r] = {}]
    /\ cursor' = [cursor EXCEPT ![r] = 1]
    /\ cityIds' = [cityIds EXCEPT ![r] = NoCities]
    /\ stamp' = [stamp EXCEPT ![r] = 0]
    /\ UNCHANGED forced

(* An exception in the try block; it is answered once rolled back.         *)
Fail(r, answer) ==
    /\ pc' = [pc EXCEPT ![r] = "rollback"]
    /\ response' = [response EXCEPT ![r] = answer]
    /\ UNCHANGED <<dbVars, input, loop, ghost>>

-----------------------------------------------------------------------------
InFlight == {s \in Requests : pc[s] \notin {"idle", "done"}}

Arrive(r) ==
    /\ pc[r] = "idle"
    /\ Serial => InFlight = {}
    /\ Goto(r, "check")
    /\ UNCHANGED <<dbVars, input, loop, ghost>>

(* _require_refresh_key: the header is missing or wrong.                   *)
Unauthorized(r) ==
    /\ pc[r] = "idle"
    /\ KeyRequired
    /\ Finish(r, "401")
    /\ UNCHANGED <<dbVars, ghost>>

(* Whether the cooldown would keep r from refreshing at that time.         *)
CoolingDownAt(r, time) ==
    LET state == View(r)[StateId]
    IN  /\ state # Absent
        /\ state.at # Null
        /\ ~forced[r]
        /\ time - state.at < Cooldown

CoolingDown(r) == CoolingDownAt(r, now)

(* Mutant: what is left is the cooldown itself.                            *)
RetryAfter_Whole(r) == Cooldown \div Second

(* The Retry-After header of a refusal: int() truncates the seconds left.  *)
RetryAfter(r) == (Cooldown - (now - View(r)[StateId].at)) \div Second

(* Mutant: the cooldown is not looked at.                                  *)
PassCooldown_Always(r) ==
    /\ pc[r] = "check"
    /\ pending' = [pending EXCEPT ![r] = View(r)[StateId] = Absent]
    /\ Goto(r, "fetch")
    /\ UNCHANGED <<dbVars, forced, data, loop, ghost>>

(* _check_cooldown lets the refresh through; RefreshStateRepository.get    *)
(* adds the missing singleton row to the session.                          *)
PassCooldown(r) ==
    /\ pc[r] = "check"
    /\ ~CoolingDown(r)
    /\ pending' = [pending EXCEPT ![r] = View(r)[StateId] = Absent]
    /\ Goto(r, "fetch")
    /\ UNCHANGED <<dbVars, forced, data, loop, ghost>>

RefuseCooldown(r) ==
    /\ pc[r] = "check"
    /\ CoolingDown(r)
    /\ Finish(r, "429")
    /\ UNCHANGED <<dbVars, ghost>>

(* The SELECT of _check_cooldown fails; no rollback() runs, but closing    *)
(* the session ends the transaction.                                       *)
CheckFails(r) ==
    /\ pc[r] = "check"
    /\ Finish(r, "500")
    /\ UNCHANGED <<dbVars, ghost>>

(* _fetch_data: no statement is executed while it waits for MediaWiki and  *)
(* Wikidata, which answer with any of the data sets.                       *)
FetchData(r) ==
    /\ pc[r] = "fetch"
    /\ \E d \in Datasets : data' = [data EXCEPT ![r] = d]
    /\ Goto(r, "flush")
    /\ UNCHANGED <<dbVars, forced, pending, loop, ghost>>

(* A parse error (502), an unavailable service (503), anything else (500). *)
FetchFails(r) ==
    /\ pc[r] = "fetch"
    /\ \E answer \in {"500", "502", "503"} : Fail(r, answer)

(* Mutant: the new RefreshState is never flushed.                          *)
FlushState_Forgets(r) ==
    /\ Ready(r, "flush")
    /\ pending' = [pending EXCEPT ![r] = FALSE]
    /\ Goto(r, "wipeMuseums")
    /\ UNCHANGED <<dbVars, forced, data, loop, ghost>>

(* The session autoflushes the new RefreshState before its first DELETE.   *)
FlushState(r) ==
    /\ Ready(r, "flush")
    /\ pending[r] => View(r)[StateId] = Absent
    /\ IF pending[r]
       THEN Write(r, StateId, [at |-> Null, museums |-> Null, cities |-> Null])
       ELSE UNCHANGED dbVars
    /\ pending' = [pending EXCEPT ![r] = FALSE]
    /\ Goto(r, "wipeMuseums")
    /\ UNCHANGED <<forced, data, loop, ghost>>

(* Another first refresh inserted the singleton row in the meantime.       *)
FlushConflict(r) ==
    /\ Ready(r, "flush")
    /\ pending[r]
    /\ View(r)[StateId] # Absent
    /\ Fail(r, "500")

(* A DELETE takes its snapshot when it starts ...                          *)
StartWipe(r, ids, step, next) ==
    /\ pc[r] = step
    /\ seen' = [seen EXCEPT ![r] = Present(r, ids)]
    /\ Goto(r, next)
    /\ UNCHANGED <<dbVars, input, cursor, cityIds, stamp, ghost>>

StartWipeMuseums(r) == StartWipe(r, MuseumIds, "wipeMuseums", "deleteMuseums")
StartWipeCities(r)  == StartWipe(r, CityIds, "wipeCities", "deleteCities")

(* ... waits for the locks on the rows it saw, skips those that are gone   *)
(* by then, and does not look for rows committed since.                    *)
WipeMuseums(r) ==
    /\ Ready(r, "deleteMuseums")
    /\ DeleteMuseums(r, Present(r, seen[r]))
    /\ seen' = [seen EXCEPT ![r] = {}]
    /\ Goto(r, "wipeCities")
    /\ UNCHANGED <<input, cursor, cityIds, stamp, ghost>>

WipeCities(r) ==
    /\ Ready(r, "deleteCities")
    /\ DeleteCities(r, Present(r, seen[r]))
    /\ seen' = [seen EXCEPT ![r] = {}]
    /\ Goto(r, "cities")
    /\ UNCHANGED <<input, cursor, cityIds, stamp, ghost>>

(* One round of the loop of _upsert_cities: `continue', or upsert_by_qid.  *)
SkipCity(r) ==
    /\ pc[r] = "cities"
    /\ Looping(r)
    /\ SkipsCity(r)
    /\ cursor' = [cursor EXCEPT ![r] = @ + 1]
    /\ UNCHANGED <<dbVars, pc, response, input, seen, cityIds, stamp, ghost>>

(* Mutant: the loop steps over the enrichment after a new city.            *)
UpsertCity_StepsTwice(r) ==
    /\ Ready(r, "cities")
    /\ Looping(r)
    /\ ~SkipsCity(r)
    /\ LET qid == Enrichment(r).city
           id  == Target(r, qid)
           old == View(r)[id]
       IN  /\ Write(r, id, IF old = Absent THEN [records |-> NoRecords] ELSE old)
           /\ cityIds' = [cityIds EXCEPT ![r][qid] = id]
    /\ cursor' = [cursor EXCEPT ![r] = @ + 2]
    /\ UNCHANGED <<pc, response, input, seen, stamp, ghost>>

UpsertCity(r) ==
    /\ Ready(r, "cities")
    /\ Looping(r)
    /\ ~SkipsCity(r)
    /\ LET qid == Enrichment(r).city
           id  == Target(r, qid)
           old == View(r)[id]
       IN  /\ Write(r, id, IF old = Absent THEN [records |-> NoRecords] ELSE old)
           /\ cityIds' = [cityIds EXCEPT ![r][qid] = id]
    /\ cursor' = [cursor EXCEPT ![r] = @ + 1]
    /\ UNCHANGED <<pc, response, input, seen, stamp, ghost>>

(* One round of the loop of _upsert_museums_and_visitors: upsert_by_name,  *)
(* then upsert_many of the visitor records.                                *)
CityId(r) == IF Enrichment(r).city = Null THEN Null ELSE cityIds[r][Enrichment(r).city]

(* Mutant: wikidata_qid is not unique.                                     *)
ItemTaken_Never(r) == FALSE

ItemTaken(r) ==
    /\ Enrichment(r).item # Null
    /\ \E i \in Present(r, MuseumIds) : /\ i # Target(r, Enrichment(r).name)
                                        /\ View(r)[i].item = Enrichment(r).item

(* Mutant: ON CONFLICT DO NOTHING.                                         *)
UpsertMuseum_KeepsOld(r) ==
    /\ Ready(r, "museums")
    /\ Looping(r)
    /\ ~ItemTaken(r)
    /\ LET id  == Target(r, Enrichment(r).name)
           old == View(r)[id]
       IN  Write(r, id, IF old # Absent THEN old
                        ELSE [item    |-> Enrichment(r).item,
                              city    |-> CityId(r),
                              records |-> NoRecords])
    /\ Goto(r, "visitors")
    /\ UNCHANGED <<input, loop, ghost>>

UpsertMuseum(r) ==
    /\ Ready(r, "museums")
    /\ Looping(r)
    /\ ~ItemTaken(r)
    /\ LET id  == Target(r, Enrichment(r).name)
           old == View(r)[id]
       IN  Write(r, id, [item    |-> Enrichment(r).item,
                         city    |-> CityId(r),
                         records |-> IF old = Absent THEN NoRecords ELSE old.records])
    /\ Goto(r, "visitors")
    /\ UNCHANGED <<input, loop, ghost>>

(* The item belongs to a row of another name: museums.wikidata_qid is      *)
(* unique, and ON CONFLICT (name) does not cover it.                       *)
ItemConflict(r) ==
    /\ Ready(r, "museums")
    /\ Looping(r)
    /\ ItemTaken(r)
    /\ Fail(r, "500")

UpsertVisitors(r) ==
    /\ pc[r] = "visitors"
    /\ LET id == Target(r, Enrichment(r).name)
       IN  Write(r, id, [View(r)[id] EXCEPT
                            !.records = Recorded(@, Enrichment(r).years, r)])
    /\ cursor' = [cursor EXCEPT ![r] = @ + 1]
    /\ Goto(r, "museums")
    /\ UNCHANGED <<input, seen, cityIds, stamp, ghost>>

(* One round of the loop of _upsert_populations: get_by_qid, `continue'    *)
(* when there is no such city, else upsert_many.                           *)
CountingPeople(r) == cursor[r] \in DOMAIN data[r].populations
PopulationsOf(r) == data[r].populations[cursor[r]]

UpsertPopulations(r) ==
    /\ pc[r] = "populations"
    /\ CountingPeople(r)
    /\ LET id == Target(r, PopulationsOf(r).city)
       IN  IF View(r)[id] = Absent
           THEN UNCHANGED dbVars
           ELSE Write(r, id, [records |-> Recorded(View(r)[id].records,
                                                   PopulationsOf(r).years, r)])
    /\ cursor' = [cursor EXCEPT ![r] = @ + 1]
    /\ UNCHANGED <<pc, response, input, seen, cityIds, stamp, ghost>>

(* The end of a loop.                                                      *)
LeaveLoop(r, step, next) ==
    /\ pc[r] = step
    /\ IF step = "populations" THEN ~CountingPeople(r) ELSE ~Looping(r)
    /\ cursor' = [cursor EXCEPT ![r] = 1]
    /\ Goto(r, next)
    /\ UNCHANGED <<dbVars, input, seen, cityIds, stamp, ghost>>

(* mark_refreshed reads the clock before its UPDATE, which may have to     *)
(* wait for the row; an UPDATE of a missing row changes nothing.           *)
Stamp(r) ==
    /\ pc[r] = "stamp"
    /\ stamp' = [stamp EXCEPT ![r] = now]
    /\ Goto(r, "mark")
    /\ UNCHANGED <<dbVars, input, seen, cursor, cityIds, ghost>>

CitiesCount(r) == Cardinality({q \in Qids : cityIds[r][q] # Null})

MarkRefreshed(r) ==
    /\ Ready(r, "mark")
    /\ IF View(r)[StateId] = Absent
       THEN UNCHANGED dbVars
       ELSE Write(r, StateId, [at      |-> stamp[r],
                               museums |-> Len(data[r].museums),
                               cities  |-> CitiesCount(r)])
    /\ Goto(r, "commit")
    /\ UNCHANGED <<input, loop, ghost>>

(* The commit takes effect; its answer, or the 202, may still get lost.    *)
Commit(r) ==
    /\ pc[r] = "commit"
    /\ Commits(r)
    /\ committed' = Append(committed, [by |-> r, at |-> stamp[r], data |-> data[r]])
    /\ \E answer \in {"202", "500", "lost"} : Finish(r, answer)
    /\ UNCHANGED now

(* The commit does not take effect.  It runs outside the try block: it is  *)
(* closing the session that ends the transaction.                          *)
CommitFails(r) ==
    /\ pc[r] = "commit"
    /\ RollsBack(r)
    /\ Finish(r, "500")
    /\ UNCHANGED ghost

(* Any statement of the try block may fail: a lost connection, a CHECK or  *)
(* a length violated by one record, an arithmetic or type error.           *)
StatementFails(r) ==
    /\ pc[r] \in TrySteps \ {"fetch"}
    /\ Fail(r, "500")

(* PostgreSQL aborts one of the transactions that wait for each other.     *)
Deadlocked(r) ==
    LET waits == [x, y \in Requests |-> y \in BlockedBy(x)]
    IN  TransitiveClosure(waits, Requests)[r, r]

DeadlockVictim(r) ==
    /\ BlockedBy(r) # {}
    /\ Deadlocked(r)
    /\ Fail(r, "500")

(* Mutant: `finally: await session.commit()'.                              *)
Rollback_Commits(r) ==
    /\ pc[r] = "rollback"
    /\ Commits(r)
    /\ Finish(r, response[r])
    /\ UNCHANGED ghost

(* Mutant: the session of a failed refresh is never closed.                *)
Rollback_LeavesOpen(r) ==
    /\ pc[r] = "rollback"
    /\ Finish(r, response[r])
    /\ UNCHANGED <<dbVars, ghost>>

Rollback(r) ==
    /\ pc[r] = "rollback"
    /\ RollsBack(r)
    /\ Finish(r, response[r])
    /\ UNCHANGED ghost

(* The process stops or the task is cancelled (CancelledError is not an    *)
(* Exception): the connection closes and PostgreSQL rolls back.            *)
Abandon(r) ==
    /\ r \in InFlight
    /\ RollsBack(r)
    /\ Finish(r, "lost")
    /\ UNCHANGED ghost

Tick ==
    /\ now < MaxTime
    /\ now' = now + 1
    /\ UNCHANGED <<dbVars, pc, response, input, loop, committed>>

-----------------------------------------------------------------------------
(* The steps of the workflow of request r itself.                          *)
Proceed(r) ==
    \/ PassCooldown(r) \/ RefuseCooldown(r)
    \/ FetchData(r) \/ FetchFails(r)
    \/ FlushState(r) \/ FlushConflict(r)
    \/ StartWipeMuseums(r) \/ WipeMuseums(r)
    \/ StartWipeCities(r) \/ WipeCities(r)
    \/ SkipCity(r) \/ UpsertCity(r) \/ LeaveLoop(r, "cities", "museums")
    \/ UpsertMuseum(r) \/ ItemConflict(r) \/ UpsertVisitors(r)
    \/ LeaveLoop(r, "museums", "populations")
    \/ UpsertPopulations(r) \/ LeaveLoop(r, "populations", "stamp")
    \/ Stamp(r) \/ MarkRefreshed(r)
    \/ Commit(r)
    \/ DeadlockVictim(r) \/ Rollback(r)

(* What may go wrong at any time, and need not.                            *)
Disturb(r) ==
    CheckFails(r) \/ StatementFails(r) \/ CommitFails(r) \/ Abandon(r)

(* Nothing is left to do: every request is over and the clock at its bound. *)
Finished ==
    /\ \A r \in Requests : pc[r] = "done"
    /\ now = MaxTime
    /\ UNCHANGED vars

Next ==
    \/ \E r \in Requests :
           Arrive(r) \/ Unauthorized(r) \/ Proceed(r) \/ Disturb(r)
    \/ Tick
    \/ Finished

Spec == Init /\ [][Next]_vars

(* A request that has started keeps executing: asyncio runs every ready    *)
(* task, the HTTP clients give up after bounded retries and timeouts, and  *)
(* PostgreSQL grants a lock once it is free and breaks deadlocks.          *)
FairSpec == Spec /\ \A r \in Requests : WF_vars(Proceed(r))

-----------------------------------------------------------------------------
CommitRecords == [by : Writers, at : Nat, data : Datasets \cup {NoData}]

RequestTypeOK ==
    /\ pc \in [Requests -> Steps]
    /\ response \in [Requests -> Responses]
    /\ forced \in [Requests -> BOOLEAN]
    /\ pending \in [Requests -> BOOLEAN]
    /\ data \in [Requests -> Datasets \cup {NoData}]
    /\ seen \in [Requests -> SUBSET (MuseumIds \cup CityIds)]
    /\ cursor \in [Requests -> Nat \ {0}]
    /\ cityIds \in [Requests -> [Qids -> CityIds \cup {Null}]]
    /\ stamp \in [Requests -> Nat]

(* Type invariant.                                                         *)
TypeOK ==
    /\ DbTypeOK
    /\ RequestTypeOK
    /\ now \in Nat
    /\ committed \in Seq(CommitRecords)

(* No two open transactions have written the same row: every statement     *)
(* waits for the row locks it needs, whatever the order requests run in.   *)
RowLocksExclusive ==
    \A r, s \in Requests, i \in RowIds :
        Touched(r, i) /\ Touched(s, i) => r = s

(* A museum name, a city QID and the singleton state are never stored      *)
(* twice, though concurrent refreshes upsert the same keys, each without   *)
(* seeing the uncommitted rows of the others.                              *)
OneRowPerKey ==
    \A i, j \in Committed(RowIds) : i[2] = j[2] => i = j

(* A Wikidata item belongs to one museum row, though labels change between *)
(* refreshes and the upsert only resolves conflicts of the name.           *)
OneRowPerItem ==
    \A i, j \in Committed(MuseumIds) :
        db[i].item # Null /\ db[i].item = db[j].item => i = j

(* No museum refers to a deleted city, and the city ids a running refresh  *)
(* keeps in qid_to_city_id are still rows it can refer to.                 *)
NoDanglingCity ==
    /\ \A i \in Committed(MuseumIds) :
           db[i].city # Null => db[db[i].city] # Absent
    /\ \A r \in Requests, q \in Qids :
           cityIds[r][q] # Null => View(r)[cityIds[r][q]] # Absent

(* `if city is None: continue' in _upsert_populations never drops a        *)
(* series: every city that has one was upserted by the same refresh.       *)
PopulationsNeverDropped ==
    \A r \in Requests :
        pc[r] = "populations" /\ CountingPeople(r)
            => Present(r, IdsOf(PopulationsOf(r).city)) # {}

Latest == Last(committed)
LatestContents == ContentsOf(Latest.data, Latest.by, Latest.at)

(* Everything the refresh that committed last fetched is in the database,  *)
(* with its own numbers: no refresh deletes or overwrites rows of a        *)
(* refresh that commits after it.                                          *)
LatestRefreshComplete ==
    committed # <<>> =>
        /\ \A n \in MuseumNames(Latest.data) :
               LET got  == Contents.museums[n]
                   want == LatestContents.museums[n]
               IN  /\ got # Absent
                   /\ got.item = want.item
                   /\ got.city = want.city
                   /\ \A y \in Years : want.visitors[y] \in {Null, got.visitors[y]}
        /\ \A q \in CityQids(Latest.data) :
               LET got  == Contents.cities[q]
                   want == LatestContents.cities[q]
               IN  /\ got # Absent
                   /\ \A y \in Years : want[y] \in {Null, got[y]}

(* refresh_state describes the refresh that committed last.                *)
StateDescribesLatest ==
    IF committed = <<>> THEN db[StateId] = Absent
    ELSE db[StateId] = LatestContents.state

Committers == {committed[k].by : k \in DOMAIN committed}

(* A refresh that failed, at whatever step, leaves nothing behind, and a   *)
(* client that is told 401, 429, 502 or 503 knows that it did.             *)
NoTraceOfFailure ==
    /\ \A i \in Committed(MuseumIds \cup CityIds) :
           {i[1]} \cup Range(db[i].records) \subseteq Committers \cup {Null}
    /\ \A r \in Requests :
           response[r] \in {"401", "429", "502", "503"} => r \notin Committers

(* routers/refresh.py: "The refresh replaces existing data atomically".    *)
(* The database holds the data of the last refresh and nothing else.       *)
ExactReplacement ==
    committed # <<>> => Contents = LatestContents

(* docs/PROJECT.md: a refresh is refused if the last one is younger than   *)
(* the cooldown, so the stamps of unforced refreshes keep that distance.   *)
UnforcedRefreshesSpaced ==
    \A k \in 2 .. Len(committed) :
        \/ forced[committed[k].by]
        \/ committed[k].at - committed[k - 1].at >= Cooldown

(* A refused client is not sent away for too long: as long as the header   *)
(* says it would be refused again.  One second more is always enough, the  *)
(* one that was cut off, unless another refresh commits meanwhile.         *)
RetryAfterHonest ==
    \A r \in Requests :
        pc[r] = "check" /\ CoolingDown(r) =>
            LET told == now + RetryAfter(r) * Second
            IN  /\ \A time \in now .. told - 1 : CoolingDownAt(r, time)
                /\ ~CoolingDownAt(r, told + Second)

(* Serial clients see atomic refreshes: the workflow implements the        *)
(* abstract specification, every commit being one Replace step.            *)
Atomic == INSTANCE AtomicRefresh
              WITH contents <- Contents, applied <- Committers \ {Seed}

ImplementsAtomicRefresh == Atomic!Spec

(* The refresh that inserted the committed row of a key.                   *)
Inserter ==
    [k \in Keys |->
        IF Committed(IdsOf(k)) = {} THEN Null
        ELSE (CHOOSE i \in Committed(IdsOf(k)) : TRUE)[1]]

(* However refreshes overlap, each commit is one step that merges what the *)
(* refresh fetched with exactly the rows that its DELETE statements missed *)
(* because their refreshes committed too late.                             *)
Overlapping == INSTANCE OverlappingRefreshes
                   WITH contents <- Contents, author <- Inserter,
                        applied <- Committers \ {Seed}

ImplementsOverlappingRefreshes == Overlapping!Spec

(* Every request that gets past the API key ends: it is answered or its    *)
(* process died.  No lock is waited for forever and every loop ends.       *)
EveryRequestEnds ==
    \A r \in Requests : pc[r] = "check" ~> pc[r] = "done"
=============================================================================
