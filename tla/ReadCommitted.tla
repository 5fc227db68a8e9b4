--------------------------- MODULE ReadCommitted ---------------------------
(***************************************************************************)
(* The PostgreSQL database under the service, as its repositories use it:  *)
(* the tables of alembic/versions/0001_initial.py, one transaction per     *)
(* request at READ COMMITTED, and the row locks that its INSERT, UPDATE    *)
(* and DELETE statements hold until the transaction ends.                  *)
(*                                                                         *)
(* A row is known by its id.  Surrogate keys are never reused, so the id   *)
(* of a row is the pair of the refresh that inserted it and the unique key *)
(* it was inserted under (no statement ever changes museums.name or        *)
(* cities.wikidata_qid).  The visitor and population records of a row live *)
(* in the row: they are only ever deleted with it (ON DELETE CASCADE) and  *)
(* written by a transaction that has locked it.                            *)
(*                                                                         *)
(* tx[r] is the write set of request r: the rows its open transaction has  *)
(* inserted, updated or deleted, and therefore locked.                     *)
(***************************************************************************)
EXTENDS RefreshData

CONSTANTS
    StateKey,   \* the key of the one row of refresh_state
    Untouched   \* not in the write set of a transaction

VARIABLES db, tx

dbVars == <<db, tx>>

MuseumIds == Writers \X Names
CityIds   == Writers \X Qids
StateId   == <<Seed, StateKey>>     \* RefreshState(id=1)
RowIds    == MuseumIds \cup CityIds \cup {StateId}

IdsOf(key) == Writers \X {key}

MuseumRows == [item    : Items \cup {Null},
               city    : CityIds \cup {Null},
               records : RecordSets]
CityRows   == [records : RecordSets]
StateRows  == [at      : Nat \cup {Null},
               museums : Nat \cup {Null},
               cities  : Nat \cup {Null}]

Rows == MuseumRows \cup CityRows \cup StateRows

RowsAt(id) == IF id \in MuseumIds THEN MuseumRows
              ELSE IF id \in CityIds THEN CityRows
              ELSE StateRows

(* Tables, or write sets, that hold marks instead of some of the rows.     *)
Tables(marks) ==
    {t \in [RowIds -> Rows \cup marks] : \A i \in RowIds : t[i] \in RowsAt(i) \cup marks}

(* The tables and the write sets hold rows of the right kind.              *)
DbTypeOK ==
    /\ db \in Tables({Absent})
    /\ tx \in [Requests -> Tables({Absent, Untouched})]

ASSUME RowAssumption ==
    /\ StateKey \notin Names \cup Qids
    /\ Absent \notin Rows \cup {Untouched}
    /\ Untouched \notin Rows
    /\ Null \notin CityIds

-----------------------------------------------------------------------------

(* What a statement of request r sees: committed rows under its own writes. *)
View(r) == [i \in RowIds |-> IF tx[r][i] = Untouched THEN db[i] ELSE tx[r][i]]

Touched(r, id) == tx[r][id] # Untouched

Present(r, ids) == {i \in ids : View(r)[i] # Absent}

(* Mutant: statements do not wait for the row locks of other transactions. *)
Holders_NoLocks(r, ids) == {}

(* The other requests whose open transactions hold a lock on one of ids.   *)
Holders(r, ids) ==
    {s \in Requests \ {r} : \E i \in ids : Touched(s, i)}

(* Some version of museum row i, committed or not, carries item.           *)
Carries(i, item) ==
    \/ db[i] # Absent /\ db[i].item = item
    \/ \E s \in Requests : /\ tx[s][i] \notin {Untouched, Absent}
                           /\ tx[s][i].item = item

(* Mutant: an upsert does not wait for uncommitted rows of its key.        *)
KeyRows_None(key) == {}

(* The rows that INSERT ... ON CONFLICT (key) has to wait for: the         *)
(* versions of the key, and for a museum also those of its item.           *)
KeyRows(key) == IdsOf(key)
ItemRows(item) == IF item = Null THEN {} ELSE {i \in MuseumIds : Carries(i, item)}

(* The row an upsert under key by r lands in: the row it sees under that   *)
(* key, or a new row of its own.                                           *)
Target(r, key) ==
    IF Present(r, IdsOf(key)) # {}
    THEN CHOOSE i \in Present(r, IdsOf(key)) : TRUE
    ELSE <<r, key>>

Write(r, id, row) ==
    /\ tx' = [tx EXCEPT ![r][id] = row]
    /\ UNCHANGED db

(* Mutant: the museums table is not wiped.                                 *)
DeleteMuseums_Nothing(r, gone) == UNCHANGED dbVars

(* DELETE FROM museums, over the rows gone: visitor records go with them.  *)
DeleteMuseums(r, gone) ==
    /\ tx' = [tx EXCEPT ![r] = [i \in RowIds |-> IF i \in gone THEN Absent ELSE @[i]]]
    /\ UNCHANGED db

(* The museums, as r sees them, that refer to one of the cities.           *)
Referring(r, cities) == {i \in Present(r, MuseumIds) : View(r)[i].city \in cities}

(* Mutant: museums keep the ids of cities that are deleted.                *)
DeleteCities_KeepReferences(r, gone) ==
    /\ tx' = [tx EXCEPT ![r] = [i \in RowIds |-> IF i \in gone THEN Absent ELSE @[i]]]
    /\ UNCHANGED db

(* DELETE FROM cities: population records go with the rows, and            *)
(* museums.city_id is ON DELETE SET NULL.                                  *)
DeleteCities(r, gone) ==
    /\ tx' = [tx EXCEPT ![r] =
                 [i \in RowIds |->
                     IF i \in gone THEN Absent
                     ELSE IF i \in Referring(r, gone)
                          THEN [View(r)[i] EXCEPT !.city = Null]
                          ELSE @[i]]]
    /\ UNCHANGED db

NoWrites == [i \in RowIds |-> Untouched]

Commits(r) ==
    /\ db' = View(r)
    /\ tx' = [tx EXCEPT ![r] = NoWrites]

RollsBack(r) ==
    /\ tx' = [tx EXCEPT ![r] = NoWrites]
    /\ UNCHANGED db

-----------------------------------------------------------------------------

(* The row locks.  An open transaction owns a key as soon as it touches one *)
(* row of it: no other one touches a row of the key, and it has touched     *)
(* every committed row of the key.                                          *)
UniqueKeys(t) ==
    \A i, j \in RowIds : i[2] = j[2] /\ t[i] # Absent /\ t[j] # Absent => i = j

KeysExclusive ==
    \A r, s \in Requests : \A i, j \in RowIds :
        i[2] = j[2] /\ Touched(r, i) /\ Touched(s, j) => r = s

KeysCovered ==
    \A r \in Requests : \A i, j \in RowIds :
        i[2] = j[2] /\ Touched(r, i) /\ db[j] # Absent => Touched(r, j)

LockInv ==
    /\ KeysExclusive
    /\ KeysCovered
    /\ UniqueKeys(db)
    /\ \A r \in Requests : UniqueKeys(View(r))

(* r has written, and not deleted, a row of key.                           *)
Holds(r, key) == \E i \in IdsOf(key) : i \in RowIds /\ tx[r][i] \notin {Untouched, Absent}

-----------------------------------------------------------------------------

(* The committed rows as a reader of the API sees them.                    *)
Committed(ids) == {i \in ids : db[i] # Absent}

Contents ==
    LET Row(key) == db[CHOOSE i \in Committed(IdsOf(key)) : TRUE]
    IN  [museums |->
            [n \in Names |->
                IF Committed(IdsOf(n)) = {} THEN Absent
                ELSE [item     |-> Row(n).item,
                      city     |-> IF Row(n).city = Null THEN Null ELSE Row(n).city[2],
                      visitors |-> Row(n).records]],
         cities  |->
            [q \in Qids |->
                IF Committed(IdsOf(q)) = {} THEN Absent ELSE Row(q).records],
         state   |-> db[StateId]]

(* The rows that hold given contents, all inserted by Seed.                *)
Stored(c) ==
    [i \in RowIds |->
        IF i[1] # Seed THEN Absent
        ELSE IF i \in MuseumIds /\ c.museums[i[2]] # Absent
             THEN LET m == c.museums[i[2]]
                  IN  [item    |-> m.item,
                       city    |-> IF m.city = Null THEN Null ELSE <<Seed, m.city>>,
                       records |-> m.visitors]
        ELSE IF i \in CityIds /\ c.cities[i[2]] # Absent
             THEN [records |-> c.cities[i[2]]]
        ELSE IF i = StateId THEN c.state ELSE Absent]
=============================================================================
