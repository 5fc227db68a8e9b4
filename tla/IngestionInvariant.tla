------------------------- MODULE IngestionInvariant -------------------------
(***************************************************************************)
(* The inductive invariant behind the safety properties of                 *)
(* IngestionWorkflow: what holds between any two statements of any number  *)
(* of concurrent refreshes, and makes the next statement right.            *)
(***************************************************************************)
EXTENDS IngestionWorkflow

(* r has written row i, and has not deleted it.                            *)
Wrote(r, i) == tx[r][i] \notin {Untouched, Absent}

Mapped(r, q) == cityIds[r][q] # Null

BeforeLoops == {"idle", "check", "fetch", "flush", "wipeMuseums", "deleteMuseums",
                "wipeCities", "deleteCities"}

AfterCities == {"museums", "visitors", "populations", "stamp", "mark", "commit"}

(* qid_to_city_id holds cities of the data set, and rows r has locked.     *)
MappedAreWritten(r) ==
    \A q \in Qids : Mapped(r, q) =>
        /\ q \in CityQids(data[r])
        /\ cityIds[r][q] \in IdsOf(q)
        /\ Wrote(r, cityIds[r][q])

(* The loops: the cities before the cursor are mapped, then all of them,   *)
(* and the visitor records go to the museum just upserted.                 *)
LoopInv(r) ==
    /\ MappedAreWritten(r)
    /\ pc[r] \in BeforeLoops => cityIds[r] = NoCities /\ cursor[r] = 1
    /\ pc[r] = "cities" =>
           \A k \in DOMAIN data[r].museums :
               k < cursor[r] /\ data[r].museums[k].city # Null
                   => Mapped(r, data[r].museums[k].city)
    /\ pc[r] \in AfterCities => \A q \in CityQids(data[r]) : Mapped(r, q)
    /\ pc[r] = "visitors" => Looping(r) /\ Holds(r, Enrichment(r).name)

(* museums.city_id: no museum is written before the loops, then they refer *)
(* to cities written by the same transaction, and one that deletes a city  *)
(* has taken every museum referring to it.                                 *)
ReferenceInv ==
    /\ \A r \in Requests : pc[r] \in BeforeLoops => \A i \in MuseumIds : ~Wrote(r, i)
    /\ \A r \in Requests : pc[r] = "deleteMuseums" => seen[r] \subseteq MuseumIds
    /\ \A r \in Requests, i \in MuseumIds :
           Wrote(r, i) /\ tx[r][i].city # Null => Wrote(r, tx[r][i].city)
    /\ \A i \in MuseumIds :
           db[i] # Absent /\ db[i].city # Null =>
               /\ db[db[i].city] # Absent
               /\ \A r \in Requests : tx[r][db[i].city] = Absent => Touched(r, i)

(* refresh_state: never deleted, so there is a row to mark, and at the     *)
(* commit it describes the data set of r.                                  *)
MarkInv(r) ==
    /\ tx[r][StateId] # Absent
    /\ pc[r] \in {"fetch", "flush"} /\ ~pending[r] => View(r)[StateId] # Absent
    /\ pc[r] \in TrySteps \ {"fetch", "flush"} => View(r)[StateId] # Absent
    /\ pc[r] = "commit" =>
           tx[r][StateId] = [at      |-> stamp[r],
                             museums |-> Len(data[r].museums),
                             cities  |-> CitiesCount(r)]

(* Who wrote row i with contents row: its inserter and its records.        *)
Authors(i, row) == {i[1]} \cup Range(row.records)

(* What is committed comes from refreshes that committed, and those are    *)
(* over.                                                                   *)
AuthorInv ==
    /\ \A i \in Committed(MuseumIds \cup CityIds) :
           Authors(i, db[i]) \subseteq Committers \cup {Null}
    /\ \A r \in Requests, i \in MuseumIds \cup CityIds :
           Wrote(r, i) => Authors(i, tx[r][i]) \subseteq Committers \cup {r, Null}
    /\ \A r \in Requests \cap Committers :
           pc[r] = "done" /\ response[r] \in {"202", "500", "lost"}

(* The inductive invariant: open transactions own the keys they touch      *)
(* (LockInv), and every request knows only rows that it owns.              *)
IInv ==
    /\ TypeOK
    /\ LockInv
    /\ \A r \in Requests : LoopInv(r) /\ MarkInv(r)
    /\ ReferenceInv
    /\ StateDescribesLatest
    /\ AuthorInv
-----------------------------------------------------------------------------
(* What the rows of the data set that r has worked off look like.          *)
AfterMuseums == {"populations", "stamp", "mark", "commit"}

(* The museums that r has upserted, those whose visitor records it has     *)
(* upserted, and the population series.                                    *)
Upserted(r) ==
    {k \in DOMAIN data[r].museums :
        \/ pc[r] \in {"museums", "visitors"} /\ k < cursor[r]
        \/ pc[r] = "visitors" /\ k = cursor[r]
        \/ pc[r] \in AfterMuseums}

Visited(r) ==
    {k \in DOMAIN data[r].museums :
        \/ pc[r] \in {"museums", "visitors"} /\ k < cursor[r]
        \/ pc[r] \in AfterMuseums}

Peopled(r) ==
    {k \in DOMAIN data[r].populations :
        \/ pc[r] = "populations" /\ k < cursor[r]
        \/ pc[r] \in {"stamp", "mark", "commit"}}

(* The enrichment that sets the columns of its museum, so far.             *)
LastUpserted(r, k) ==
    \A l \in Upserted(r) : data[r].museums[l].name = data[r].museums[k].name => l <= k

(* Each museum r has upserted is a row it has written, with the columns of *)
(* the last enrichment of that name and the visitor records of all.        *)
MuseumsWritten(r) ==
    /\ \A k \in Upserted(r) : Holds(r, data[r].museums[k].name)
    /\ \A k \in Upserted(r) : \A i \in IdsOf(data[r].museums[k].name) :
           Wrote(r, i) /\ LastUpserted(r, k) =>
               /\ tx[r][i].item = data[r].museums[k].item
               /\ tx[r][i].city = IF data[r].museums[k].city = Null THEN Null
                                  ELSE cityIds[r][data[r].museums[k].city]
    /\ \A k \in Visited(r) : \A i \in IdsOf(data[r].museums[k].name) :
           Wrote(r, i) => \A y \in data[r].museums[k].years : tx[r][i].records[y] = r

PopulationsWritten(r) ==
    \A k \in Peopled(r) : \A i \in IdsOf(data[r].populations[k].city) :
        Wrote(r, i) => \A y \in data[r].populations[k].years : tx[r][i].records[y] = r

(* museums.wikidata_qid: no transaction sees an item on two rows, and the  *)
(* rows that two of them have written differ in their items.               *)
UniqueItems(t) ==
    \A i, j \in MuseumIds :
        t[i] # Absent /\ t[j] # Absent /\ t[i].item = t[j].item /\ t[i].item # Null => i = j

ItemInv ==
    /\ UniqueItems(db)
    /\ \A r \in Requests : UniqueItems(View(r))
    /\ \A r, s \in Requests : \A i, j \in MuseumIds :
           Wrote(r, i) /\ Wrote(s, j) /\ tx[r][i].item = tx[s][j].item
               /\ tx[r][i].item # Null => r = s

(* Past its fetch, r works on what the services have answered.             *)
DataInv ==
    \A r \in Requests :
        pc[r] \in (TrySteps \ {"fetch"}) \cup {"commit"} => data[r] \in Datasets

(* A request that has executed no statement of the try block has written   *)
(* nothing; no stamp is from the future.                                   *)
TimeInv ==
    /\ \A r \in Requests :
           /\ pc[r] \in {"idle", "check", "fetch", "done"} => tx[r] = NoWrites
           /\ pc[r] \in {"mark", "commit"} => stamp[r] <= now
    /\ db[StateId] # Absent => db[StateId].at \in 0 .. now

-----------------------------------------------------------------------------
(* Serial clients: what r sees besides the rows of its data set.           *)
OnlyMuseums(r) ==
    \A i \in Present(r, MuseumIds) :
        /\ \E k \in Upserted(r) : data[r].museums[k].name = i[2]
        /\ \A y \in Years : View(r)[i].records[y] # Null =>
               \E k \in Visited(r) : /\ data[r].museums[k].name = i[2]
                                     /\ y \in data[r].museums[k].years

OnlyCities(r) ==
    \A i \in Present(r, CityIds) :
        /\ Mapped(r, i[2])
        /\ \A y \in Years : View(r)[i].records[y] # Null =>
               \E k \in Peopled(r) : /\ data[r].populations[k].city = i[2]
                                     /\ y \in data[r].populations[k].years

(* A DELETE misses nothing, and nothing appears after it.                  *)
NothingElse(r) ==
    /\ pc[r] = "deleteMuseums" => Present(r, MuseumIds) \subseteq seen[r]
    /\ pc[r] = "deleteCities" => Present(r, CityIds) \subseteq seen[r]
    /\ pc[r] \in {"wipeCities", "deleteCities", "cities"} \cup AfterCities => OnlyMuseums(r)
    /\ pc[r] \in {"cities"} \cup AfterCities => OnlyCities(r)

(* The cooldown that r has passed is still over when r commits.            *)
CooledDown(r) ==
    LET time == IF pc[r] \in {"mark", "commit"} THEN stamp[r] ELSE now
    IN  pc[r] \in TrySteps \cup {"commit"} /\ db[StateId] # Absent =>
            /\ db[StateId].at <= time
            /\ forced[r] \/ time - db[StateId].at >= Cooldown

(* One refresh at a time: until its commit it sees, besides the rows of    *)
(* its own data set, nothing that an earlier one left behind or that a     *)
(* failed one wrote, and the cooldown it has passed stays over.            *)
SerialInv ==
    Serial => /\ \A r, s \in InFlight : r = s
              /\ \A r \in Requests : NothingElse(r) /\ CooledDown(r)

(* Between any two statements of concurrent refreshes every one of them    *)
(* has, in rows only it can change, all it has upserted so far, and no     *)
(* transaction sees a key or an item twice.  With this the database after  *)
(* a commit is known: it holds the data set of the refresh at least, and   *)
(* with serial clients nothing else.                                       *)
ContentsInv ==
    /\ IInv
    /\ ItemInv
    /\ DataInv
    /\ TimeInv
    /\ \A r \in Requests : MuseumsWritten(r) /\ PopulationsWritten(r)
    /\ SerialInv
=============================================================================
