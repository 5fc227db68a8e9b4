--------------------- MODULE IngestionInvariant_proofs ----------------------
(***************************************************************************)
(* Proofs about IngestionWorkflow: what the statements of ReadCommitted    *)
(* keep of the types of the rows and whom they lock, its type invariant,   *)
(* that the invariant of IngestionInvariant is inductive, and what follows *)
(* from it for every number of concurrent refreshes and every data set.    *)
(***************************************************************************)
EXTENDS IngestionInvariant, SequenceLemmas

(* The largest element of a bounded set of numbers is one of them: the     *)
(* last enrichment of a label exists.                                      *)
LEMMA MaxBounded ==
    ASSUME NEW n \in Nat, NEW S, S \subseteq 1 .. n, S # {}
    PROVE  Max(S) \in S /\ \A y \in S : Max(S) >= y
<1>1. S \in SUBSET (0 .. n)
  OBVIOUS
<1>2. Max(S) \in S /\ \A y \in S : y <= Max(S)
  BY <1>1, MaxIsGreatest
<1> QED BY <1>2

-----------------------------------------------------------------------------
(* The three kinds of row ids, and the rows that belong under them.        *)
LEMMA IdSorts ==
    /\ \A w \in Writers, n \in Names :
           <<w, n>> \in MuseumIds /\ RowsAt(<<w, n>>) = MuseumRows
    /\ \A w \in Writers, q \in Qids :
           <<w, q>> \in CityIds /\ RowsAt(<<w, q>>) = CityRows
    /\ RowsAt(StateId) = StateRows
    /\ \A i \in MuseumIds : i[1] \in Writers /\ i[2] \in Names
    /\ \A i \in CityIds : i[1] \in Writers /\ i[2] \in Qids
    /\ MuseumIds \subseteq RowIds /\ CityIds \subseteq RowIds /\ StateId \in RowIds
    /\ MuseumIds \cap CityIds = {}
    /\ StateId \notin MuseumIds \cup CityIds
BY DistinctAssumption, RowAssumption
   DEF MuseumIds, CityIds, StateId, RowIds, RowsAt

LEMMA RowsAtRows == \A i \in RowIds : RowsAt(i) \subseteq Rows
BY DEF RowsAt, Rows

LEMMA NotMarks == \A i \in RowIds : Absent \notin RowsAt(i) /\ Untouched \notin RowsAt(i)
BY RowsAtRows, RowAssumption

(* A table stays a table when one place gets a row of its kind or a mark.  *)
LEMMA TableUpdate ==
    ASSUME NEW marks, NEW t \in Tables(marks), NEW id \in RowIds,
           NEW row \in RowsAt(id) \cup marks
    PROVE  [t EXCEPT ![id] = row] \in Tables(marks)
BY RowsAtRows DEF Tables

(* A table may be given place by place.                                    *)
LEMMA TableByPlaces ==
    ASSUME NEW marks, NEW t, t = [i \in RowIds |-> t[i]],
           \A i \in RowIds : t[i] \in RowsAt(i) \cup marks
    PROVE  t \in Tables(marks)
BY RowsAtRows DEF Tables

(* What a request sees is a table.                                         *)
LEMMA ViewType ==
    ASSUME DbTypeOK, NEW r \in Requests
    PROVE  View(r) \in Tables({Absent})
<1>1. \A i \in RowIds : View(r)[i] \in RowsAt(i) \cup {Absent}
  BY DEF DbTypeOK, Tables, View
<1>2. View(r) = [i \in RowIds |-> View(r)[i]]
  BY DEF View
<1> QED BY <1>1, <1>2, TableByPlaces

(* An upsert lands in a row of its key.                                    *)
LEMMA TargetKey ==
    ASSUME NEW r \in Requests, NEW key
    PROVE  /\ Target(r, key) \in IdsOf(key)
           /\ Target(r, key)[2] = key
           /\ Target(r, key)[1] \in Writers
<1>1. <<r, key>> \in IdsOf(key)
  BY DEF IdsOf, Writers
<1>2. Present(r, IdsOf(key)) \subseteq IdsOf(key)
  BY DEF Present
<1>3. Target(r, key) \in IdsOf(key)
  BY <1>1, <1>2 DEF Target
<1> QED BY <1>3 DEF IdsOf

LEMMA TargetSort ==
    ASSUME NEW r \in Requests
    PROVE  /\ \A n \in Names : /\ Target(r, n) \in MuseumIds
                               /\ Target(r, n) \in RowIds
                               /\ RowsAt(Target(r, n)) = MuseumRows
           /\ \A q \in Qids : /\ Target(r, q) \in CityIds
                              /\ Target(r, q) \in RowIds
                              /\ RowsAt(Target(r, q)) = CityRows
<1>1. \A key : Target(r, key) \in IdsOf(key)
  BY TargetKey
<1> QED BY <1>1, IdSorts DEF IdsOf

-----------------------------------------------------------------------------
(* Every statement keeps the types of the tables.                          *)
LEMMA WriteType ==
    ASSUME DbTypeOK, NEW r \in Requests, NEW id \in RowIds,
           NEW row \in RowsAt(id) \cup {Absent}, Write(r, id, row)
    PROVE  DbTypeOK'
<1>1. [tx[r] EXCEPT ![id] = row] \in Tables({Absent, Untouched})
  BY TableUpdate DEF DbTypeOK
<1>2. tx' = [tx EXCEPT ![r] = [tx[r] EXCEPT ![id] = row]]
  BY DEF Write, DbTypeOK
<1> QED BY <1>1, <1>2 DEF DbTypeOK, Write

(* r writes a row of the right kind under id.                              *)
Writes(r, id) == id \in RowIds /\ \E row \in RowsAt(id) : Write(r, id, row)

LEMMA WritesType ==
    ASSUME DbTypeOK, NEW r \in Requests, NEW id, Writes(r, id)
    PROVE  DbTypeOK'
BY WriteType DEF Writes

LEMMA WriteSetType ==
    ASSUME DbTypeOK, NEW r \in Requests, NEW w \in Tables({Absent, Untouched}),
           tx' = [tx EXCEPT ![r] = w], db' \in Tables({Absent})
    PROVE  DbTypeOK'
BY DEF DbTypeOK

LEMMA NoWritesType == NoWrites \in Tables({Absent, Untouched})
<1>1. \A i \in RowIds : NoWrites[i] \in RowsAt(i) \cup {Absent, Untouched}
  BY DEF NoWrites
<1>2. NoWrites = [i \in RowIds |-> NoWrites[i]]
  BY DEF NoWrites
<1> QED BY <1>1, <1>2, TableByPlaces

LEMMA EndType ==
    ASSUME DbTypeOK, NEW r \in Requests, Commits(r) \/ RollsBack(r)
    PROVE  DbTypeOK'
BY ViewType, NoWritesType, WriteSetType DEF Commits, RollsBack, DbTypeOK

LEMMA DeleteMuseumsType ==
    ASSUME DbTypeOK, NEW r \in Requests, NEW gone, DeleteMuseums(r, gone)
    PROVE  DbTypeOK'
<1> DEFINE w == [i \in RowIds |-> IF i \in gone THEN Absent ELSE tx[r][i]]
<1>1. \A i \in RowIds : w[i] \in RowsAt(i) \cup {Absent, Untouched}
  BY DEF DbTypeOK, Tables
<1>2. w \in Tables({Absent, Untouched})
  BY <1>1, TableByPlaces
<1>3. tx' = [tx EXCEPT ![r] = w]
  BY DEF DeleteMuseums, DbTypeOK
<1> QED BY <1>2, <1>3, WriteSetType DEF DeleteMuseums, DbTypeOK

LEMMA ReferringRows ==
    ASSUME DbTypeOK, NEW r \in Requests, NEW cities
    PROVE  /\ Referring(r, cities) \subseteq MuseumIds
           /\ \A i \in Referring(r, cities) : View(r)[i] \in MuseumRows
BY ViewType, IdSorts DEF Referring, Present, Tables, RowsAt

LEMMA DeleteCitiesType ==
    ASSUME DbTypeOK, NEW r \in Requests, NEW gone, DeleteCities(r, gone)
    PROVE  DbTypeOK'
<1> DEFINE w == [i \in RowIds |->
                    IF i \in gone THEN Absent
                    ELSE IF i \in Referring(r, gone)
                         THEN [View(r)[i] EXCEPT !.city = Null]
                         ELSE tx[r][i]]
<1>1. \A i \in Referring(r, gone) : [View(r)[i] EXCEPT !.city = Null] \in MuseumRows
  BY ReferringRows DEF MuseumRows
<1>2. \A i \in RowIds : w[i] \in RowsAt(i) \cup {Absent, Untouched}
  BY <1>1, ReferringRows DEF DbTypeOK, Tables, RowsAt
<1>3. w \in Tables({Absent, Untouched})
  BY <1>2, TableByPlaces
<1>4. tx' = [tx EXCEPT ![r] = w]
  BY DEF DeleteCities, DbTypeOK
<1> QED BY <1>3, <1>4, WriteSetType DEF DeleteCities, DbTypeOK
-----------------------------------------------------------------------------
(* What a statement of r does to the locks: it takes new ones only on keys  *)
(* nobody else has touched, and then on every committed row of the key.     *)
Statement(r) ==
    /\ db' = db
    /\ \A s \in Requests \ {r} : tx'[s] = tx[s]
    /\ \A i \in RowIds : Touched(r, i) => tx'[r][i] # Untouched
    /\ \A i \in RowIds : \A j \in RowIds :
           ~Touched(r, i) /\ tx'[r][i] # Untouched /\ j[2] = i[2] =>
               /\ \A s \in Requests \ {r} : ~Touched(s, j)
               /\ db[j] # Absent => tx'[r][j] # Untouched
    /\ UniqueKeys(View(r)')

(* No statement breaks the locks.                                          *)
LEMMA StatementLocks ==
    ASSUME LockInv, NEW r \in Requests, Statement(r)
    PROVE  LockInv'
<1>1. KeysExclusive'
  BY DEF LockInv, KeysExclusive, Statement, Touched
<1>2. KeysCovered'
  BY DEF LockInv, KeysCovered, Statement, Touched
<1>3. UniqueKeys(db')
  BY DEF LockInv, Statement
<1>4. \A s \in Requests : UniqueKeys(View(s)')
  <2>1. \A s \in Requests \ {r} : View(s)' = View(s)
    BY DEF View, Statement
  <2> QED BY <2>1 DEF LockInv, Statement
<1> QED BY <1>1, <1>2, <1>3, <1>4 DEF LockInv, UniqueKeys

(* Nor does the end of a transaction: a commit publishes what r sees, and  *)
(* what the others see changes only on keys that r owned.                  *)
LEMMA EndLocks ==
    ASSUME DbTypeOK, LockInv, NEW r \in Requests, Commits(r) \/ RollsBack(r)
    PROVE  LockInv'
<1>1. /\ \A s \in Requests \ {r} : tx'[s] = tx[s]
      /\ \A i \in RowIds : tx'[r][i] = Untouched
      /\ db' = View(r) \/ db' = db
  BY DEF Commits, RollsBack, NoWrites, DbTypeOK
<1>2. KeysExclusive'
  BY <1>1 DEF LockInv, KeysExclusive, Touched
<1>3. \A s \in Requests \ {r} : \A i, j \in RowIds :
          Touched(s, i) /\ i[2] = j[2] => db'[j] = db[j]
  BY <1>1 DEF LockInv, KeysExclusive, Touched, View
<1>4. KeysCovered'
  <2> SUFFICES ASSUME NEW s \in Requests, NEW i \in RowIds, NEW j \in RowIds,
                      Touched(s, i)', db'[j] # Absent, i[2] = j[2]
               PROVE  Touched(s, j)'
    BY DEF KeysCovered
  <2>1. s # r /\ Touched(s, i)
    BY <1>1 DEF Touched
  <2> QED BY <1>1, <1>3, <2>1 DEF LockInv, KeysCovered, Touched
<1>5. UniqueKeys(db')
  BY <1>1 DEF LockInv
<1>6. ASSUME NEW s \in Requests
      PROVE  UniqueKeys(View(s)')
  <2>1. CASE s = r
    <3>1. \A i \in RowIds : View(s)'[i] = db'[i]
      BY <1>1, <2>1 DEF View
    <3> QED BY <1>5, <3>1 DEF UniqueKeys
  <2>2. CASE s # r
    <3> SUFFICES ASSUME NEW i \in RowIds, NEW j \in RowIds, i[2] = j[2],
                        View(s)'[i] # Absent, View(s)'[j] # Absent
                 PROVE  i = j
      BY DEF UniqueKeys
    <3>1. CASE Touched(s, i) \/ Touched(s, j)
      <4>1. View(s)'[i] = View(s)[i] /\ View(s)'[j] = View(s)[j]
        BY <1>1, <1>3, <2>2, <3>1 DEF View
      <4> QED BY <4>1 DEF LockInv, UniqueKeys
    <3>2. CASE ~Touched(s, i) /\ ~Touched(s, j)
      <4>1. View(s)'[i] = db'[i] /\ View(s)'[j] = db'[j]
        BY <1>1, <2>2, <3>2 DEF View, Touched
      <4> QED BY <1>5, <4>1 DEF UniqueKeys
    <3> QED BY <3>1, <3>2
  <2> QED BY <2>1, <2>2
<1> QED BY <1>2, <1>4, <1>5, <1>6 DEF LockInv, UniqueKeys

(* The rows of a key.                                                      *)
LEMMA IdsOfKey ==
    /\ \A i \in RowIds : i[1] \in Writers /\ i \in IdsOf(i[2])
    /\ \A key : \A i \in IdsOf(key) : i[2] = key
    /\ \A i \in RowIds : i[2] = StateKey => i = StateId
BY IdSorts, RowAssumption DEF RowIds, MuseumIds, CityIds, StateId, IdsOf, Writers

Free(r, key) ==
    \A j \in RowIds : j[2] = key => \A s \in Requests \ {r} : ~Touched(s, j)

(* An upsert of a key that no other transaction owns is a statement.       *)
LEMMA UpsertStatement ==
    ASSUME DbTypeOK, LockInv, NEW r \in Requests, NEW key,
           Free(r, key), Writes(r, Target(r, key))
    PROVE  Statement(r)
<1> DEFINE id == Target(r, key)
<1>0. PICK row : id \in RowIds /\ row \notin {Absent, Untouched} /\ Write(r, id, row)
  BY NotMarks DEF Writes
<1>1. /\ db' = db
      /\ \A s \in Requests \ {r} : tx'[s] = tx[s]
      /\ \A i \in RowIds : tx'[r][i] = IF i = id THEN row ELSE tx[r][i]
  BY <1>0 DEF Write, DbTypeOK, Tables
<1>2. \A j \in RowIds : j[2] = key => \A s \in Requests \ {r} : ~Touched(s, j)
  BY DEF Free
<1>3. \A j \in RowIds : j[2] = key /\ View(r)[j] # Absent => j = id
  <2> SUFFICES ASSUME NEW j \in RowIds, j[2] = key, View(r)[j] # Absent
               PROVE  j = id
    OBVIOUS
  <2>1. j \in Present(r, IdsOf(key))
    BY IdsOfKey DEF Present
  <2>2. id \in Present(r, IdsOf(key))
    BY <2>1 DEF Target
  <2> QED BY <1>0, <2>2, TargetKey DEF LockInv, UniqueKeys, Present
<1>4. id[2] = key
  BY TargetKey
<1>5. \A j \in RowIds : j[2] = key /\ db[j] # Absent => tx'[r][j] # Untouched
  BY <1>0, <1>1, <1>3 DEF View
<1>6. UniqueKeys(View(r)')
  <2>1. \A i \in RowIds : View(r)'[i] = IF i = id THEN row ELSE View(r)[i]
    BY <1>0, <1>1 DEF View
  <2> HIDE DEF id
  <2> QED BY <1>3, <1>4, <2>1 DEF LockInv, UniqueKeys
<1> HIDE DEF id
<1> QED BY <1>0, <1>1, <1>2, <1>4, <1>5, <1>6 DEF Statement, Touched

(* What r has written under a key, it sees.                                *)
LEMMA HeldIsPresent ==
    ASSUME NEW r \in Requests, NEW key, Holds(r, key)
    PROVE  Present(r, IdsOf(key)) # {} /\ Target(r, key) \in Present(r, IdsOf(key))
<1>1. PICK i \in IdsOf(key) : i \in RowIds /\ tx[r][i] \notin {Untouched, Absent}
  BY DEF Holds
<1>2. i \in Present(r, IdsOf(key))
  BY <1>1 DEF Present, View
<1> QED BY <1>2 DEF Target

LEMMA HeldTarget ==
    ASSUME LockInv, NEW r \in Requests, NEW key, Holds(r, key),
           Target(r, key) \in RowIds
    PROVE  tx[r][Target(r, key)] \notin {Untouched, Absent}
<1>1. PICK i \in RowIds : i[2] = key /\ tx[r][i] \notin {Untouched, Absent}
  BY IdsOfKey DEF Holds
<1>2. View(r)[i] # Absent
  BY <1>1 DEF View
<1>3. View(r)[Target(r, key)] # Absent /\ Target(r, key)[2] = key
  BY HeldIsPresent, TargetKey DEF Present
<1>4. Target(r, key) = i
  BY <1>1, <1>2, <1>3 DEF LockInv, UniqueKeys
<1> QED BY <1>1, <1>4

(* So is a write of the one row of refresh_state ...                       *)
LEMMA StateStatement ==
    ASSUME DbTypeOK, LockInv, NEW r \in Requests, Holders(r, {StateId}) = {},
           Writes(r, StateId)
    PROVE  Statement(r)
<1>0. PICK row : row \notin {Absent, Untouched} /\ Write(r, StateId, row)
  BY NotMarks DEF Writes
<1>1. /\ db' = db
      /\ \A s \in Requests \ {r} : tx'[s] = tx[s]
      /\ \A i \in RowIds : tx'[r][i] = IF i = StateId THEN row ELSE tx[r][i]
  BY <1>0, IdSorts DEF Write, DbTypeOK, Tables
<1>2. StateId[2] = StateKey /\ \A i \in RowIds : i[2] = StateKey => i = StateId
  BY IdsOfKey DEF StateId
<1>3. \A s \in Requests \ {r} : ~Touched(s, StateId)
  BY DEF Holders
<1>4. UniqueKeys(View(r)')
  <2>1. \A i \in RowIds : View(r)'[i] = IF i = StateId THEN row ELSE View(r)[i]
    BY <1>0, <1>1 DEF View
  <2> QED BY <1>2, <2>1 DEF LockInv, UniqueKeys
<1> QED BY <1>0, <1>1, <1>2, <1>3, <1>4 DEF Statement, Touched

(* ... and an update of a row whose key r already owns.                    *)
LEMMA HeldStatement ==
    ASSUME DbTypeOK, LockInv, NEW r \in Requests, NEW key,
           Holds(r, key), Writes(r, Target(r, key))
    PROVE  Statement(r)
<1>1. PICK i \in RowIds : i[2] = key /\ Touched(r, i)
  BY IdsOfKey DEF Holds, Touched
<1>2. Free(r, key)
  BY <1>1 DEF Free, LockInv, KeysExclusive
<1> QED BY <1>2, UpsertStatement

(* INSERT ... ON CONFLICT waits for the versions of its key.               *)
LEMMA LockedUpsert ==
    ASSUME DbTypeOK, LockInv, NEW r \in Requests, NEW key,
           Holders(r, KeyRows(key)) = {}, Writes(r, Target(r, key))
    PROVE  Statement(r)
<1>1. Free(r, key)
  BY IdsOfKey DEF Free, Holders, KeyRows
<1> QED BY <1>1, UpsertStatement

(* A statement that only writes rows it sees and has locked, and makes no  *)
(* row appear, is one as well: the DELETE statements.                      *)
LEMMA DeleteStatement ==
    ASSUME DbTypeOK, LockInv, NEW r \in Requests, NEW locked,
           Holders(r, locked) = {}, locked \subseteq RowIds,
           db' = db, NEW w, tx' = [tx EXCEPT ![r] = w],
           \A i \in RowIds \ locked : w[i] = tx[r][i],
           \A i \in locked : View(r)[i] # Absent /\ w[i] # Untouched
    PROVE  Statement(r)
<1>1. /\ \A s \in Requests \ {r} : tx'[s] = tx[s]
      /\ tx'[r] = w
  BY DEF DbTypeOK
<1>2. \A i \in RowIds : ~Touched(r, i) /\ tx'[r][i] # Untouched => i \in locked /\ db[i] # Absent
  BY <1>1 DEF Touched, View
<1>3. \A i \in RowIds : Touched(r, i) => tx'[r][i] # Untouched
  BY <1>1 DEF Touched
<1>4. ASSUME NEW i \in RowIds, NEW j \in RowIds,
             ~Touched(r, i), tx'[r][i] # Untouched, j[2] = i[2]
      PROVE  /\ \A s \in Requests \ {r} : ~Touched(s, j)
             /\ db[j] # Absent => tx'[r][j] # Untouched
  <2>1. i \in locked /\ db[i] # Absent
    BY <1>2, <1>4
  <2>2. \A s \in Requests \ {r} : ~Touched(s, i)
    BY <2>1 DEF Holders
  <2>3. \A s \in Requests \ {r} : ~Touched(s, j)
    BY <1>4, <2>1, <2>2 DEF LockInv, KeysCovered
  <2>4. db[j] # Absent => j = i
    BY <1>4, <2>1 DEF LockInv, UniqueKeys
  <2> QED BY <1>4, <2>3, <2>4
<1>5. \A i \in RowIds : View(r)'[i] # Absent => View(r)[i] # Absent
  BY <1>1 DEF View
<1>6. UniqueKeys(View(r)')
  BY <1>5 DEF LockInv, UniqueKeys
<1> QED BY <1>1, <1>3, <1>4, <1>6 DEF Statement

-----------------------------------------------------------------------------
(* The initial contents are rows of the right kind.                        *)
LEMMA DataTypes ==
    ASSUME NEW d \in Datasets \cup {NoData}
    PROVE  /\ d.museums \in Seq(Enrichments)
           /\ d.populations \in Seq(Series)
           /\ Len(d.museums) \in Nat
<1>1. d \in DatasetType
  <2>1. NoData \in DatasetType
    BY DEF NoData, DatasetType
  <2> QED BY <2>1, DataAssumption
<1> QED BY <1>1 DEF DatasetType

LEMMA NoRecordsType == NoRecords \in RecordSets
BY DEF NoRecords, RecordSets

LEMMA RecordedType ==
    ASSUME NEW records \in RecordSets, NEW Y, NEW w \in Writers
    PROVE  Recorded(records, Y, w) \in RecordSets
BY DEF Recorded, RecordSets

LEMMA CityQidsType ==
    ASSUME NEW d \in Datasets
    PROVE  CityQids(d) \subseteq Qids /\ Cardinality(CityQids(d)) \in Nat
<1>1. \A i \in DOMAIN d.museums : d.museums[i].city \in Qids \cup {Null}
  <2>1. \A i \in DOMAIN d.museums : d.museums[i] \in Enrichments
    BY DataTypes
  <2> QED BY <2>1 DEF Enrichments
<1>2. CityQids(d) \subseteq Qids
  BY <1>1 DEF CityQids
<1> QED BY <1>2, DataAssumption, FS_Subset, FS_CardinalityType

(* What one museum label is stored as after a refresh.                     *)
LEMMA MuseumContents ==
    ASSUME NEW d \in Datasets, NEW w \in Writers, NEW at, NEW n \in Names,
           n \in MuseumNames(d)
    PROVE  /\ ContentsOf(d, w, at).museums[n].item \in Items \cup {Null}
           /\ ContentsOf(d, w, at).museums[n].city \in Qids \cup {Null}
           /\ ContentsOf(d, w, at).museums[n].visitors \in RecordSets
<1> DEFINE last == d.museums[Max(Named(d, n))]
<1>1. d.museums \in Seq(Enrichments) /\ Len(d.museums) \in Nat
  BY DataTypes
<1>2. Named(d, n) \subseteq 1 .. Len(d.museums) /\ Named(d, n) # {}
  BY <1>1 DEF Named, MuseumNames
<1>3. Max(Named(d, n)) \in 1 .. Len(d.museums)
  BY <1>1, <1>2, MaxBounded
<1>4. last \in Enrichments
  BY <1>1, <1>3
<1>5. ContentsOf(d, w, at).museums[n] =
          [item     |-> last.item,
           city     |-> last.city,
           visitors |-> Recorded(NoRecords, VisitorYears(d, n), w)]
  BY DEF ContentsOf
<1>6. Recorded(NoRecords, VisitorYears(d, n), w) \in RecordSets
  BY NoRecordsType, RecordedType
<1> HIDE DEF last
<1> QED BY <1>4, <1>5, <1>6 DEF Enrichments

LEMMA StoredType ==
    ASSUME NEW c,
           \A n \in Names : c.museums[n] # Absent =>
               /\ c.museums[n].item \in Items \cup {Null}
               /\ c.museums[n].city \in Qids \cup {Null}
               /\ c.museums[n].visitors \in RecordSets,
           \A q \in Qids : c.cities[q] # Absent => c.cities[q] \in RecordSets,
           c.state \in StateRows \cup {Absent}
    PROVE  Stored(c) \in Tables({Absent})
<1>1. ASSUME NEW i \in RowIds
      PROVE  Stored(c)[i] \in RowsAt(i) \cup {Absent}
  <2>1. CASE i[1] # Seed
    BY <2>1 DEF Stored
  <2>2. CASE i[1] = Seed /\ i \in MuseumIds /\ c.museums[i[2]] # Absent
    <3> DEFINE m == c.museums[i[2]]
    <3>1. i[2] \in Names /\ RowsAt(i) = MuseumRows
      BY <2>2, IdSorts DEF RowsAt
    <3>2. Stored(c)[i] = [item    |-> m.item,
                          city    |-> IF m.city = Null THEN Null ELSE <<Seed, m.city>>,
                          records |-> m.visitors]
      BY <2>2 DEF Stored
    <3>3. m.city # Null => <<Seed, m.city>> \in CityIds
      BY <2>2, <3>1, IdSorts DEF Writers
    <3> QED BY <2>2, <3>1, <3>2, <3>3 DEF MuseumRows
  <2>3. CASE i[1] = Seed /\ i \in CityIds /\ c.cities[i[2]] # Absent
    <3>1. i[2] \in Qids /\ RowsAt(i) = CityRows /\ i \notin MuseumIds
      BY <2>3, IdSorts DEF RowsAt
    <3>2. Stored(c)[i] = [records |-> c.cities[i[2]]]
      BY <2>3, <3>1 DEF Stored
    <3> QED BY <2>3, <3>1, <3>2 DEF CityRows
  <2>4. CASE /\ i[1] = Seed
             /\ ~(i \in MuseumIds /\ c.museums[i[2]] # Absent)
             /\ ~(i \in CityIds /\ c.cities[i[2]] # Absent)
    BY <2>4, IdSorts DEF Stored
  <2> QED BY <2>1, <2>2, <2>3, <2>4
<1>2. Stored(c) = [i \in RowIds |-> Stored(c)[i]]
  BY DEF Stored
<1> QED BY <1>1, <1>2, TableByPlaces

LEMMA InitialTables ==
    /\ Stored(EmptyContents) \in Tables({Absent})
    /\ \A d \in Datasets : Stored(ContentsOf(d, Seed, 0)) \in Tables({Absent})
<1>1. Stored(EmptyContents) \in Tables({Absent})
  BY StoredType DEF EmptyContents
<1>2. ASSUME NEW d \in Datasets
      PROVE  Stored(ContentsOf(d, Seed, 0)) \in Tables({Absent})
  <2> DEFINE c == ContentsOf(d, Seed, 0)
  <2>1. ASSUME NEW n \in Names, c.museums[n] # Absent
        PROVE  /\ c.museums[n].item \in Items \cup {Null}
               /\ c.museums[n].city \in Qids \cup {Null}
               /\ c.museums[n].visitors \in RecordSets
    <3>1. n \in MuseumNames(d)
      BY <2>1 DEF ContentsOf
    <3> QED BY <3>1, MuseumContents DEF Writers
  <2>2. ASSUME NEW q \in Qids, c.cities[q] # Absent
        PROVE  c.cities[q] \in RecordSets
    <3>1. c.cities[q] = Recorded(NoRecords, PopulationYears(d, q), Seed)
      BY <2>2 DEF ContentsOf
    <3> QED BY <3>1, NoRecordsType, RecordedType DEF Writers
  <2>3. c.state \in StateRows
    BY DataTypes, CityQidsType DEF ContentsOf, StateRows
  <2> HIDE DEF c
  <2> QED BY <2>1, <2>2, <2>3, StoredType DEF c
<1> QED BY <1>1, <1>2

LEMMA InitType == Init => TypeOK
<1> SUFFICES ASSUME Init PROVE TypeOK
  OBVIOUS
<1>1. DbTypeOK
  BY InitialTables, NoWritesType, DataAssumption DEF Init, DbTypeOK
<1>2. RequestTypeOK
  BY DEF Init, RequestTypeOK, Steps, Responses, NoCities
<1>3. committed \in Seq(CommitRecords)
  <2>1. \A d \in SeedDatasets : [by |-> Seed, at |-> 0, data |-> d] \in CommitRecords
    BY DataAssumption DEF CommitRecords, Writers
  <2>2. CASE committed = <<>>
    BY <2>2
  <2>3. CASE \E d \in SeedDatasets :
                 committed = <<[by |-> Seed, at |-> 0, data |-> d]>>
    BY <2>1, <2>3
  <2> QED BY <2>2, <2>3 DEF Init
<1> QED BY <1>1, <1>2, <1>3 DEF Init, TypeOK

-----------------------------------------------------------------------------
(* Every action keeps the types.                                           *)
LEMMA FinishType ==
    ASSUME RequestTypeOK, NEW r \in Requests, NEW answer \in Responses,
           Finish(r, answer)
    PROVE  RequestTypeOK'
BY DEF RequestTypeOK, Finish, Steps, NoCities

LEMMA FailType ==
    ASSUME TypeOK, NEW r \in Requests, NEW answer \in Responses, Fail(r, answer)
    PROVE  TypeOK'
BY DEF TypeOK, DbTypeOK, RequestTypeOK, Fail, Steps, dbVars, input, loop, ghost

LEMMA UnchangedType == TypeOK /\ UNCHANGED vars => TypeOK'
BY DEF TypeOK, DbTypeOK, RequestTypeOK, vars, dbVars, input, loop, ghost

(* The beginning of a request and its fetch.                               *)
LEMMA StartType ==
    ASSUME TypeOK, NEW r \in Requests,
           \/ Arrive(r) \/ Unauthorized(r)
           \/ PassCooldown(r) \/ RefuseCooldown(r) \/ CheckFails(r)
           \/ FetchData(r) \/ FetchFails(r)
    PROVE  TypeOK'
<1>1. CASE Arrive(r)
  BY <1>1 DEF TypeOK, DbTypeOK, RequestTypeOK, Arrive, Goto, Steps,
              dbVars, input, loop, ghost
<1>2. CASE Unauthorized(r) \/ RefuseCooldown(r) \/ CheckFails(r)
  <2>1. RequestTypeOK'
    BY <1>2, FinishType
       DEF TypeOK, Unauthorized, RefuseCooldown, CheckFails, Responses
  <2> QED BY <1>2, <2>1 DEF TypeOK, DbTypeOK, Unauthorized, RefuseCooldown,
                            CheckFails, dbVars, ghost
<1>3. CASE PassCooldown(r)
  BY <1>3 DEF TypeOK, DbTypeOK, RequestTypeOK, PassCooldown, Goto, Steps,
              dbVars, loop, ghost
<1>4. CASE FetchData(r)
  BY <1>4 DEF TypeOK, DbTypeOK, RequestTypeOK, FetchData, Goto, Steps,
              dbVars, loop, ghost
<1>5. CASE FetchFails(r)
  BY <1>5, FailType DEF FetchFails, Responses
<1> QED BY <1>1, <1>2, <1>3, <1>4, <1>5

LEMMA FlushWrites ==
    ASSUME TypeOK, NEW r \in Requests, FlushState(r), pending[r]
    PROVE  Writes(r, StateId)
<1>1. [at |-> Null, museums |-> Null, cities |-> Null] \in RowsAt(StateId)
  BY IdSorts DEF StateRows
<1> QED BY <1>1, IdSorts DEF FlushState, Writes

LEMMA FlushType ==
    ASSUME TypeOK, NEW r \in Requests, FlushState(r) \/ FlushConflict(r)
    PROVE  TypeOK'
<1>1. CASE FlushState(r)
  <2>1. DbTypeOK'
    <3>1. CASE pending[r]
      BY <1>1, <3>1, FlushWrites, WritesType DEF TypeOK
    <3>2. CASE ~pending[r]
      BY <1>1, <3>2 DEF FlushState, TypeOK, DbTypeOK, dbVars
    <3> QED BY <3>1, <3>2
  <2> QED BY <1>1, <2>1 DEF TypeOK, RequestTypeOK, FlushState, Goto, Steps,
                            loop, ghost
<1>2. CASE FlushConflict(r)
  BY <1>2, FailType DEF FlushConflict, Responses
<1> QED BY <1>1, <1>2

LEMMA WipeType ==
    ASSUME TypeOK, NEW r \in Requests,
           \/ StartWipeMuseums(r) \/ WipeMuseums(r)
           \/ StartWipeCities(r) \/ WipeCities(r)
    PROVE  TypeOK'
<1>1. CASE StartWipeMuseums(r) \/ StartWipeCities(r)
  <2>1. \A ids : Present(r, ids) \subseteq ids
    BY DEF Present
  <2>2. PICK ids, step, next :
            /\ ids \subseteq MuseumIds \cup CityIds
            /\ next \in Steps
            /\ StartWipe(r, ids, step, next)
    BY <1>1 DEF StartWipeMuseums, StartWipeCities, Steps
  <2>3. seen' \in [Requests -> SUBSET (MuseumIds \cup CityIds)]
    BY <2>1, <2>2 DEF TypeOK, RequestTypeOK, StartWipe
  <2>4. pc' \in [Requests -> Steps]
    BY <2>2 DEF TypeOK, RequestTypeOK, StartWipe, Goto
  <2>5. UNCHANGED <<dbVars, response, input, cursor, cityIds, stamp, ghost>>
    BY <2>2 DEF StartWipe, Goto
  <2>6. DbTypeOK' /\ now' \in Nat /\ committed' \in Seq(CommitRecords)
    BY <2>5 DEF TypeOK, DbTypeOK, dbVars, ghost
  <2>7. RequestTypeOK'
    BY <2>3, <2>4, <2>5 DEF TypeOK, RequestTypeOK, input
  <2> QED BY <2>6, <2>7 DEF TypeOK
<1>2. CASE WipeMuseums(r)
  BY <1>2, DeleteMuseumsType
     DEF TypeOK, RequestTypeOK, WipeMuseums, Goto, Steps, input, ghost
<1>3. CASE WipeCities(r)
  BY <1>3, DeleteCitiesType
     DEF TypeOK, RequestTypeOK, WipeCities, Goto, Steps, input, ghost
<1> QED BY <1>1, <1>2, <1>3

(* The loops.                                                              *)
LEMMA EnrichmentType ==
    ASSUME TypeOK, NEW r \in Requests, Looping(r)
    PROVE  Enrichment(r) \in Enrichments
<1>1. data[r] \in Datasets \cup {NoData}
  BY DEF TypeOK, RequestTypeOK
<1> QED BY <1>1, DataTypes DEF Looping, Enrichment

LEMMA SeriesType ==
    ASSUME TypeOK, NEW r \in Requests, CountingPeople(r)
    PROVE  PopulationsOf(r) \in Series
<1>1. data[r] \in Datasets \cup {NoData}
  BY DEF TypeOK, RequestTypeOK
<1> QED BY <1>1, DataTypes DEF CountingPeople, PopulationsOf

LEMMA CityWrites ==
    ASSUME TypeOK, NEW r \in Requests, UpsertCity(r)
    PROVE  /\ Enrichment(r).city \in Qids
           /\ Target(r, Enrichment(r).city) \in CityIds
           /\ Writes(r, Target(r, Enrichment(r).city))
<1> DEFINE qid == Enrichment(r).city
           id  == Target(r, qid)
           row == IF View(r)[id] = Absent THEN [records |-> NoRecords]
                  ELSE View(r)[id]
<1>1. qid \in Qids
  BY DEF UpsertCity, SkipsCity
<1>2. id \in CityIds /\ id \in RowIds /\ RowsAt(id) = CityRows
  BY <1>1, TargetSort
<1>3. row \in RowsAt(id)
  <2>1. View(r)[id] \in CityRows \cup {Absent}
    BY <1>2, ViewType DEF TypeOK, Tables
  <2> QED BY <1>2, <2>1, NoRecordsType DEF CityRows
<1>4. Write(r, id, row)
  BY DEF UpsertCity
<1> QED BY <1>1, <1>2, <1>3, <1>4 DEF Writes

LEMMA CityLoopType ==
    ASSUME TypeOK, NEW r \in Requests, SkipCity(r) \/ UpsertCity(r)
    PROVE  TypeOK'
<1>1. CASE SkipCity(r)
  <2>1. cursor' \in [Requests -> Nat \ {0}]
    BY <1>1 DEF TypeOK, RequestTypeOK, SkipCity
  <2>2. DbTypeOK'
    BY <1>1 DEF TypeOK, DbTypeOK, SkipCity, dbVars
  <2> QED BY <1>1, <2>1, <2>2 DEF TypeOK, RequestTypeOK, SkipCity, input, ghost
<1>2. CASE UpsertCity(r)
  <2> DEFINE qid == Enrichment(r).city
             id  == Target(r, qid)
  <2>1. cityIds' = [cityIds EXCEPT ![r][qid] = id]
    BY <1>2 DEF UpsertCity
  <2>2. DbTypeOK'
    BY <1>2, CityWrites, WritesType DEF TypeOK
  <2>3. cityIds' \in [Requests -> [Qids -> CityIds \cup {Null}]]
    <3>1. qid \in Qids /\ id \in CityIds
      BY <1>2, CityWrites
    <3> HIDE DEF id, qid
    <3> QED BY <2>1, <3>1 DEF TypeOK, RequestTypeOK
  <2> QED BY <1>2, <2>2, <2>3 DEF TypeOK, RequestTypeOK, UpsertCity, input, ghost
<1> QED BY <1>1, <1>2

(* The row that the museum loop works on.                                  *)
LEMMA MuseumTarget ==
    ASSUME TypeOK, NEW r \in Requests, Looping(r)
    PROVE  /\ Enrichment(r).name \in Names
           /\ Enrichment(r).item \in Items \cup {Null}
           /\ CityId(r) \in CityIds \cup {Null}
           /\ Target(r, Enrichment(r).name) \in MuseumIds
           /\ Target(r, Enrichment(r).name) \in RowIds
           /\ RowsAt(Target(r, Enrichment(r).name)) = MuseumRows
           /\ View(r)[Target(r, Enrichment(r).name)] \in MuseumRows \cup {Absent}
<1>1. /\ Enrichment(r).name \in Names
      /\ Enrichment(r).item \in Items \cup {Null}
      /\ CityId(r) \in CityIds \cup {Null}
  BY EnrichmentType DEF Enrichments, CityId, TypeOK, RequestTypeOK
<1> DEFINE id == Target(r, Enrichment(r).name)
<1>2. id \in MuseumIds /\ id \in RowIds /\ RowsAt(id) = MuseumRows
  BY <1>1, TargetSort
<1>3. View(r)[id] \in MuseumRows \cup {Absent}
  BY <1>2, ViewType DEF TypeOK, Tables
<1> QED BY <1>1, <1>2, <1>3

LEMMA MuseumWrites ==
    ASSUME TypeOK, NEW r \in Requests, UpsertMuseum(r)
    PROVE  Writes(r, Target(r, Enrichment(r).name))
<1> DEFINE e   == Enrichment(r)
           id  == Target(r, e.name)
           records == IF View(r)[id] = Absent THEN NoRecords ELSE View(r)[id].records
           row == [item |-> e.item, city |-> CityId(r), records |-> records]
<1>1. Looping(r)
  BY DEF UpsertMuseum
<1>2. records \in RecordSets
  BY <1>1, MuseumTarget, NoRecordsType DEF MuseumRows
<1>3. row \in RowsAt(id) /\ id \in RowIds
  <2>1. e.item \in Items \cup {Null} /\ CityId(r) \in CityIds \cup {Null}
    BY <1>1, MuseumTarget
  <2>2. RowsAt(id) = MuseumRows /\ id \in RowIds
    BY <1>1, MuseumTarget
  <2> HIDE DEF records, e, id
  <2> QED BY <1>2, <2>1, <2>2 DEF MuseumRows
<1>4. Write(r, id, row)
  BY DEF UpsertMuseum
<1> QED BY <1>3, <1>4 DEF Writes

LEMMA VisitorsWrites ==
    ASSUME TypeOK, NEW r \in Requests, Looping(r), Holds(r, Enrichment(r).name),
           UpsertVisitors(r)
    PROVE  Writes(r, Target(r, Enrichment(r).name))
<1> DEFINE e   == Enrichment(r)
           id  == Target(r, e.name)
           old == View(r)[id]
           row == [old EXCEPT !.records = Recorded(@, e.years, r)]
<1>1. old \in MuseumRows
  BY MuseumTarget, HeldIsPresent DEF Present
<1>2. Recorded(old.records, e.years, r) \in RecordSets
  BY <1>1, RecordedType DEF MuseumRows, Writers
<1>3. row \in RowsAt(id) /\ id \in RowIds
  <2>1. RowsAt(id) = MuseumRows /\ id \in RowIds
    BY MuseumTarget
  <2> HIDE DEF old, e, id
  <2> QED BY <1>1, <1>2, <2>1 DEF MuseumRows
<1>4. Write(r, id, row)
  BY DEF UpsertVisitors
<1> QED BY <1>3, <1>4 DEF Writes

LEMMA MuseumLoopType ==
    ASSUME TypeOK, NEW r \in Requests, Looping(r),
           \/ UpsertMuseum(r) \/ ItemConflict(r)
           \/ UpsertVisitors(r) /\ Holds(r, Enrichment(r).name)
    PROVE  TypeOK'
<1>1. CASE UpsertMuseum(r)
  <2>1. DbTypeOK'
    BY <1>1, MuseumWrites, WritesType DEF TypeOK
  <2> QED BY <1>1, <2>1 DEF TypeOK, RequestTypeOK, UpsertMuseum, Goto, Steps,
                            input, loop, ghost
<1>2. CASE ItemConflict(r)
  BY <1>2, FailType DEF ItemConflict, Responses
<1>3. CASE UpsertVisitors(r) /\ Holds(r, Enrichment(r).name)
  <2>1. DbTypeOK'
    BY <1>3, VisitorsWrites, WritesType DEF TypeOK
  <2>2. pc' \in [Requests -> Steps] /\ cursor' \in [Requests -> Nat \ {0}]
    BY <1>3 DEF TypeOK, RequestTypeOK, UpsertVisitors, Goto, Steps
  <2>3. UNCHANGED <<response, input, seen, cityIds, stamp, ghost>>
    BY <1>3 DEF UpsertVisitors, Goto
  <2>4. RequestTypeOK'
    BY <2>2, <2>3 DEF TypeOK, RequestTypeOK, input
  <2> QED BY <2>1, <2>3, <2>4 DEF TypeOK, ghost
<1> QED BY <1>1, <1>2, <1>3

LEMMA PopulationWrites ==
    ASSUME TypeOK, NEW r \in Requests, UpsertPopulations(r)
    PROVE  /\ PopulationsOf(r).city \in Qids
           /\ Target(r, PopulationsOf(r).city) \in CityIds
           /\ \/ Writes(r, Target(r, PopulationsOf(r).city))
              \/ View(r)[Target(r, PopulationsOf(r).city)] = Absent /\ UNCHANGED dbVars
<1> DEFINE id  == Target(r, PopulationsOf(r).city)
           old == View(r)[id]
           row == [records |-> Recorded(old.records, PopulationsOf(r).years, r)]
<1>1. PopulationsOf(r).city \in Qids
  BY SeriesType DEF UpsertPopulations, Series
<1>2. id \in CityIds /\ id \in RowIds /\ RowsAt(id) = CityRows
  BY <1>1, TargetSort
<1>3. old \in CityRows \cup {Absent}
  BY <1>2, ViewType DEF TypeOK, Tables
<1>4. CASE old = Absent
  BY <1>1, <1>2, <1>4 DEF UpsertPopulations
<1>5. CASE old # Absent
  <2>1. row \in RowsAt(id)
    BY <1>2, <1>3, <1>5, RecordedType DEF CityRows, Writers
  <2>2. Write(r, id, row)
    BY <1>5 DEF UpsertPopulations
  <2> QED BY <1>1, <1>2, <2>1, <2>2 DEF Writes
<1> QED BY <1>4, <1>5

LEMMA PopulationLoopType ==
    ASSUME TypeOK, NEW r \in Requests, UpsertPopulations(r)
    PROVE  TypeOK'
<1>1. DbTypeOK'
  BY PopulationWrites, WritesType DEF TypeOK, DbTypeOK, dbVars
<1> QED BY <1>1 DEF TypeOK, RequestTypeOK, UpsertPopulations, input, ghost

LEMMA LeaveLoopType ==
    ASSUME TypeOK, NEW r \in Requests, NEW step, NEW next \in Steps,
           LeaveLoop(r, step, next)
    PROVE  TypeOK'
<1>1. /\ cursor' = [cursor EXCEPT ![r] = 1]
      /\ pc' = [pc EXCEPT ![r] = next]
      /\ UNCHANGED <<dbVars, response, input, seen, cityIds, stamp, ghost>>
  BY DEF LeaveLoop, Goto
<1>2. DbTypeOK'
  BY <1>1 DEF TypeOK, DbTypeOK, dbVars
<1> QED BY <1>1, <1>2 DEF TypeOK, RequestTypeOK, input, ghost

(* The end of a request.                                                   *)
LEMMA CountType ==
    ASSUME TypeOK, NEW r \in Requests
    PROVE  CitiesCount(r) \in Nat /\ Len(data[r].museums) \in Nat
<1>1. CitiesCount(r) \in Nat
  BY DataAssumption, FS_Subset, FS_CardinalityType DEF CitiesCount
<1> QED BY <1>1, DataTypes DEF TypeOK, RequestTypeOK

LEMMA MarkWrites ==
    ASSUME TypeOK, NEW r \in Requests, MarkRefreshed(r)
    PROVE  \/ Writes(r, StateId)
           \/ View(r)[StateId] = Absent /\ UNCHANGED dbVars
<1> DEFINE row == [at      |-> stamp[r],
                   museums |-> Len(data[r].museums),
                   cities  |-> CitiesCount(r)]
<1>1. row \in RowsAt(StateId)
  BY CountType, IdSorts DEF StateRows, TypeOK, RequestTypeOK
<1>2. CASE View(r)[StateId] = Absent
  BY <1>2 DEF MarkRefreshed
<1>3. CASE View(r)[StateId] # Absent
  BY <1>1, <1>3, IdSorts DEF MarkRefreshed, Writes
<1> QED BY <1>2, <1>3

LEMMA MarkType ==
    ASSUME TypeOK, NEW r \in Requests, Stamp(r) \/ MarkRefreshed(r)
    PROVE  TypeOK'
<1>1. CASE Stamp(r)
  BY <1>1 DEF TypeOK, DbTypeOK, RequestTypeOK, Stamp, Goto, Steps,
              dbVars, input, ghost
<1>2. CASE MarkRefreshed(r)
  <2>1. DbTypeOK'
    BY <1>2, MarkWrites, WritesType DEF TypeOK, DbTypeOK, dbVars
  <2> QED BY <1>2, <2>1 DEF TypeOK, RequestTypeOK, MarkRefreshed, Goto, Steps,
                            input, loop, ghost
<1> QED BY <1>1, <1>2

LEMMA EndOfRequestType ==
    ASSUME TypeOK, NEW r \in Requests,
           Commit(r) \/ CommitFails(r) \/ Rollback(r) \/ Abandon(r)
    PROVE  TypeOK'
<1>1. DbTypeOK'
  BY EndType DEF TypeOK, Commit, CommitFails, Rollback, Abandon
<1>2. RequestTypeOK'
  <2>1. \E answer \in Responses : Finish(r, answer)
    BY DEF Commit, CommitFails, Rollback, Abandon, Responses, TypeOK, RequestTypeOK
  <2> QED BY <2>1, FinishType DEF TypeOK
<1>3. now' \in Nat /\ committed' \in Seq(CommitRecords)
  <2>1. CASE Commit(r)
    <3>1. [by |-> r, at |-> stamp[r], data |-> data[r]] \in CommitRecords
      BY DEF TypeOK, RequestTypeOK, CommitRecords, Writers
    <3> QED BY <2>1, <3>1 DEF Commit, TypeOK
  <2>2. CASE CommitFails(r) \/ Rollback(r) \/ Abandon(r)
    BY <2>2 DEF CommitFails, Rollback, Abandon, TypeOK, ghost
  <2> QED BY <2>1, <2>2
<1> QED BY <1>1, <1>2, <1>3 DEF TypeOK

-----------------------------------------------------------------------------
Step(r) == Arrive(r) \/ Unauthorized(r) \/ Proceed(r) \/ Disturb(r)

(* What belongs to request s alone.                                        *)
Own(s) == <<pc[s], response[s], forced[s], pending[s], data[s], seen[s],
            cursor[s], cityIds[s], stamp[s], tx[s]>>

(* A step of r leaves everything alone that belongs to another request.    *)
LEMMA FinishFrame ==
    ASSUME TypeOK, NEW r \in Requests, NEW s \in Requests \ {r},
           NEW answer, Finish(r, answer),
           UNCHANGED dbVars \/ RollsBack(r) \/ Commits(r)
    PROVE  Own(s)' = Own(s)
BY DEF TypeOK, RequestTypeOK, DbTypeOK, Own, Finish, dbVars, RollsBack, Commits

LEMMA FailFrame ==
    ASSUME TypeOK, NEW r \in Requests, NEW s \in Requests \ {r},
           NEW answer, Fail(r, answer)
    PROVE  Own(s)' = Own(s)
BY DEF TypeOK, RequestTypeOK, DbTypeOK, Own, Fail, dbVars, input, loop

LEMMA Frame ==
    ASSUME TypeOK, NEW r \in Requests, Step(r), NEW s \in Requests \ {r}
    PROVE  Own(s)' = Own(s)
<1> USE DEF TypeOK, RequestTypeOK, DbTypeOK, Own
<1>1. CASE \/ Unauthorized(r) \/ RefuseCooldown(r) \/ CheckFails(r)
           \/ Commit(r) \/ CommitFails(r) \/ Rollback(r) \/ Abandon(r)
  BY <1>1, FinishFrame DEF Unauthorized, RefuseCooldown, CheckFails, Commit,
                           CommitFails, Rollback, Abandon
<1>2. CASE \/ FetchFails(r) \/ FlushConflict(r) \/ ItemConflict(r)
           \/ DeadlockVictim(r) \/ StatementFails(r)
  BY <1>2, FailFrame DEF FetchFails, FlushConflict, ItemConflict,
                         DeadlockVictim, StatementFails
<1>3. CASE Arrive(r)
  BY <1>3 DEF Arrive, Goto, dbVars, input, loop
<1>4. CASE PassCooldown(r)
  BY <1>4 DEF PassCooldown, Goto, dbVars, loop
<1>5. CASE FetchData(r)
  BY <1>5 DEF FetchData, Goto, dbVars, loop
<1>6. CASE FlushState(r)
  BY <1>6 DEF FlushState, Goto, Write, dbVars, loop
<1>7. CASE StartWipeMuseums(r) \/ StartWipeCities(r)
  BY <1>7 DEF StartWipeMuseums, StartWipeCities, StartWipe, Goto, dbVars, input
<1>8. CASE WipeMuseums(r) \/ WipeCities(r)
  BY <1>8 DEF WipeMuseums, WipeCities, DeleteMuseums, DeleteCities, Goto, input
<1>9. CASE SkipCity(r) \/ UpsertCity(r)
  BY <1>9 DEF SkipCity, UpsertCity, Write, dbVars, input
<1>10. CASE UpsertMuseum(r)
  BY <1>10 DEF UpsertMuseum, Goto, Write, input, loop
<1>11. CASE UpsertVisitors(r)
  BY <1>11 DEF UpsertVisitors, Goto, Write, input
<1>12. CASE UpsertPopulations(r)
  BY <1>12 DEF UpsertPopulations, Write, dbVars, input
<1>13. CASE \E step, next : LeaveLoop(r, step, next)
  BY <1>13 DEF LeaveLoop, Goto, dbVars, input
<1>14. CASE Stamp(r)
  BY <1>14 DEF Stamp, Goto, dbVars, input
<1>15. CASE MarkRefreshed(r)
  BY <1>15 DEF MarkRefreshed, Goto, Write, dbVars, input, loop
<1> QED BY <1>1, <1>2, <1>3, <1>4, <1>5, <1>6, <1>7, <1>8, <1>9, <1>10,
           <1>11, <1>12, <1>13, <1>14, <1>15 DEF Step, Proceed, Disturb
-----------------------------------------------------------------------------
(* Every step of a refresh respects the locks.                             *)
LEMMA SameLocks == LockInv /\ UNCHANGED dbVars => LockInv'
BY DEF LockInv, KeysExclusive, KeysCovered, UniqueKeys, Touched, View, dbVars

LEMMA WipeLocks ==
    ASSUME TypeOK, LockInv, NEW r \in Requests, WipeMuseums(r) \/ WipeCities(r)
    PROVE  Statement(r)
<1> DEFINE gone == Present(r, seen[r])
<1>1. gone \subseteq RowIds /\ \A i \in gone : View(r)[i] # Absent
  BY IdSorts DEF Present, TypeOK, RequestTypeOK
<1>2. CASE WipeMuseums(r)
  <2> DEFINE w == [i \in RowIds |-> IF i \in gone THEN Absent ELSE tx[r][i]]
  <2>1. db' = db /\ tx' = [tx EXCEPT ![r] = w]
    BY <1>2 DEF WipeMuseums, DeleteMuseums, TypeOK, DbTypeOK
  <2>2. Holders(r, gone) = {}
    BY <1>2 DEF WipeMuseums, Ready, BlockedBy, Needed
  <2> QED BY <1>1, <2>1, <2>2, DeleteStatement, RowAssumption DEF TypeOK
<1>3. CASE WipeCities(r)
  <2> DEFINE locked == gone \cup Referring(r, gone)
             cleared(i) == [View(r)[i] EXCEPT !.city = Null]
             w == [i \in RowIds |->
                      IF i \in gone THEN Absent
                      ELSE IF i \in Referring(r, gone) THEN cleared(i)
                      ELSE tx[r][i]]
  <2>1. db' = db /\ tx' = [tx EXCEPT ![r] = w]
    BY <1>3 DEF WipeCities, DeleteCities, TypeOK, DbTypeOK
  <2>2. Referring(r, gone) \subseteq Referring(r, seen[r])
    BY DEF Referring, Present
  <2>3. Holders(r, locked) = {}
    <3>1. Holders(r, gone \cup Referring(r, seen[r])) = {}
      BY <1>3 DEF WipeCities, Ready, BlockedBy, Needed
    <3> QED BY <2>2, <3>1 DEF Holders
  <2>4. locked \subseteq RowIds
    BY <1>1, ReferringRows, IdSorts DEF TypeOK
  <2>5. \A i \in locked : View(r)[i] # Absent
    BY <1>1 DEF Referring, Present
  <2>6. \A i \in locked : w[i] # Untouched
    <3>1. \A i \in Referring(r, gone) : cleared(i) \in MuseumRows
      BY ReferringRows DEF MuseumRows, TypeOK
    <3>2. \A i \in Referring(r, gone) : cleared(i) # Untouched
      BY <3>1, RowAssumption DEF Rows
    <3> HIDE DEF cleared
    <3> QED BY <1>1, <2>4, <3>2, RowAssumption DEF TypeOK
  <2> QED BY <2>1, <2>3, <2>4, <2>5, <2>6, DeleteStatement DEF TypeOK
<1> QED BY <1>2, <1>3

(* The cities of the populations have been upserted by r.                  *)
LEMMA PopulationsHeld ==
    ASSUME TypeOK, NEW r \in Requests, LoopInv(r),
           pc[r] = "populations", CountingPeople(r)
    PROVE  Holds(r, PopulationsOf(r).city)
<1> DEFINE q == PopulationsOf(r).city
<1>1. q \in Qids
  BY SeriesType DEF Series
<1>2. q \in CityQids(data[r])
  <2>1. data[r] # NoData
    BY DEF CountingPeople, NoData
  <2>2. data[r] \in Datasets
    BY <2>1 DEF TypeOK, RequestTypeOK
  <2> QED BY <2>2, DataAssumption DEF CountingPeople, PopulationsOf
<1>3. Mapped(r, q)
  BY <1>2 DEF LoopInv, AfterCities
<1>4. cityIds[r][q] \in IdsOf(q) /\ Wrote(r, cityIds[r][q])
  BY <1>1, <1>3 DEF LoopInv, MappedAreWritten
<1>5. cityIds[r][q] \in RowIds
  BY <1>1, <1>3, IdSorts DEF TypeOK, RequestTypeOK, Mapped
<1> QED BY <1>4, <1>5 DEF Holds, Wrote

(* The steps that change the tables or the write sets.                     *)
EndStep(r) == Commit(r) \/ CommitFails(r) \/ Rollback(r) \/ Abandon(r)

WipeStep(r) == WipeMuseums(r) \/ WipeCities(r)

WriteStep(r) ==
    \/ FlushState(r) /\ pending[r]
    \/ UpsertCity(r) \/ UpsertMuseum(r) \/ UpsertVisitors(r)
    \/ UpsertPopulations(r) \/ MarkRefreshed(r)

LEMMA DbSteps ==
    ASSUME NEW r \in Requests, Step(r)
    PROVE  UNCHANGED dbVars \/ EndStep(r) \/ WipeStep(r) \/ WriteStep(r)
BY DEF EndStep, WipeStep, WriteStep, Step, Proceed, Disturb, Arrive, Unauthorized, RefuseCooldown,
       CheckFails, PassCooldown, FetchData, FetchFails, FlushConflict, FlushState,
       StartWipeMuseums, StartWipeCities, StartWipe, SkipCity, LeaveLoop,
       ItemConflict, Stamp, DeadlockVictim, StatementFails, Fail

(* What a WriteStep writes, and what it does to the written rows.          *)
LEMMA WriteSteps ==
    ASSUME TypeOK, NEW r \in Requests, LoopInv(r), WriteStep(r)
    PROVE  (\E id : Writes(r, id)) \/ UNCHANGED dbVars
BY FlushWrites, CityWrites, MuseumWrites, VisitorsWrites, PopulationWrites,
   MarkWrites DEF WriteStep, LoopInv, UpsertVisitors

(* Only a commit changes the tables and the history.                       *)
LEMMA OnlyCommits ==
    ASSUME NEW r \in Requests, Step(r), ~Commit(r)
    PROVE  UNCHANGED <<db, committed>>
BY DEF Step, Proceed, Disturb, Arrive, Unauthorized, RefuseCooldown,
       CheckFails, PassCooldown, FetchData, FetchFails, FlushConflict, FlushState,
       StartWipeMuseums, StartWipeCities, StartWipe, SkipCity, LeaveLoop,
       ItemConflict, Stamp, DeadlockVictim, StatementFails, Fail,
       CommitFails, Rollback, Abandon, RollsBack, WipeMuseums, WipeCities,
       DeleteMuseums, DeleteCities, UpsertCity, UpsertMuseum, UpsertVisitors,
       UpsertPopulations, MarkRefreshed, Write, dbVars, ghost

(* What is neither the end of a transaction nor without effect takes its   *)
(* locks first.                                                            *)
LEMMA StepStatement ==
    ASSUME TypeOK, LockInv, NEW r \in Requests, LoopInv(r), Step(r)
    PROVE  UNCHANGED dbVars \/ EndStep(r) \/ Statement(r)
<1>1. CASE FlushState(r) /\ pending[r]
  <2>1. Holders(r, {StateId}) = {}
    BY <1>1 DEF FlushState, Ready, BlockedBy, Needed
  <2> QED BY <1>1, <2>1, FlushWrites, StateStatement DEF TypeOK
<1>2. CASE MarkRefreshed(r)
  <2>1. Holders(r, {StateId}) = {}
    BY <1>2 DEF MarkRefreshed, Ready, BlockedBy, Needed
  <2> QED BY <1>2, <2>1, MarkWrites, StateStatement DEF TypeOK
<1>3. CASE UpsertCity(r)
  <2>1. Holders(r, KeyRows(Enrichment(r).city)) = {}
    BY <1>3 DEF UpsertCity, Ready, BlockedBy, Needed
  <2> QED BY <1>3, <2>1, CityWrites, LockedUpsert DEF TypeOK
<1>4. CASE UpsertMuseum(r)
  <2>1. Holders(r, KeyRows(Enrichment(r).name)) = {}
    BY <1>4 DEF UpsertMuseum, Ready, BlockedBy, Needed, Holders
  <2> QED BY <1>4, <2>1, MuseumWrites, LockedUpsert DEF TypeOK
<1>5. CASE UpsertVisitors(r)
  <2>1. Looping(r) /\ Holds(r, Enrichment(r).name)
    BY <1>5 DEF LoopInv, UpsertVisitors
  <2> QED BY <1>5, <2>1, VisitorsWrites, HeldStatement DEF TypeOK
<1>6. CASE UpsertPopulations(r)
  <2>1. Holds(r, PopulationsOf(r).city)
    BY <1>6, PopulationsHeld DEF UpsertPopulations
  <2> QED BY <1>6, <2>1, PopulationWrites, HeldStatement DEF TypeOK
<1>7. CASE WipeMuseums(r) \/ WipeCities(r)
  BY <1>7, WipeLocks
<1> QED BY <1>1, <1>2, <1>3, <1>4, <1>5, <1>6, <1>7, DbSteps
        DEF WipeStep, WriteStep

LEMMA StepLocks ==
    ASSUME TypeOK, LockInv, NEW r \in Requests, LoopInv(r), Step(r)
    PROVE  LockInv'
<1>1. CASE UNCHANGED dbVars
  BY <1>1, SameLocks
<1>2. CASE EndStep(r)
  BY <1>2, EndLocks
     DEF TypeOK, EndStep, Commit, CommitFails, Rollback, Abandon
<1>3. CASE Statement(r)
  BY <1>3, StatementLocks
<1> QED BY <1>1, <1>2, <1>3, StepStatement

-----------------------------------------------------------------------------
(* Every step of a refresh keeps the types.                                *)
LEMMA StepType ==
    ASSUME TypeOK, NEW r \in Requests, LoopInv(r), Step(r)
    PROVE  TypeOK'
<1>1. CASE \/ Arrive(r) \/ Unauthorized(r)
           \/ PassCooldown(r) \/ RefuseCooldown(r) \/ CheckFails(r)
           \/ FetchData(r) \/ FetchFails(r)
  BY <1>1, StartType
<1>2. CASE FlushState(r) \/ FlushConflict(r)
  BY <1>2, FlushType
<1>3. CASE \/ StartWipeMuseums(r) \/ WipeMuseums(r)
           \/ StartWipeCities(r) \/ WipeCities(r)
  BY <1>3, WipeType
<1>4. CASE SkipCity(r) \/ UpsertCity(r)
  BY <1>4, CityLoopType
<1>5. CASE UpsertMuseum(r) \/ ItemConflict(r)
  BY <1>5, MuseumLoopType DEF UpsertMuseum, ItemConflict
<1>6. CASE UpsertVisitors(r)
  BY <1>6, MuseumLoopType DEF UpsertVisitors, LoopInv
<1>7. CASE UpsertPopulations(r)
  BY <1>7, PopulationLoopType
<1>8. CASE \/ LeaveLoop(r, "cities", "museums")
           \/ LeaveLoop(r, "museums", "populations")
           \/ LeaveLoop(r, "populations", "stamp")
  <2>1. {"museums", "populations", "stamp"} \subseteq Steps
    BY DEF Steps
  <2> QED BY <1>8, <2>1, LeaveLoopType
<1>9. CASE Stamp(r) \/ MarkRefreshed(r)
  BY <1>9, MarkType
<1>10. CASE Commit(r) \/ CommitFails(r) \/ Rollback(r) \/ Abandon(r)
  BY <1>10, EndOfRequestType
<1>11. CASE DeadlockVictim(r) \/ StatementFails(r)
  BY <1>11, FailType DEF DeadlockVictim, StatementFails, Responses
<1> QED BY <1>1, <1>2, <1>3, <1>4, <1>5, <1>6, <1>7, <1>8, <1>9, <1>10, <1>11
        DEF Step, Proceed, Disturb

-----------------------------------------------------------------------------
(* Every step of a refresh keeps what it knows about its rows.             *)
LEMMA WrittenStays ==
    ASSUME TypeOK, NEW r \in Requests, NEW id, Writes(r, id),
           NEW i \in RowIds, Wrote(r, i) \/ i = id
    PROVE  tx'[r][i] \notin {Untouched, Absent}
<1>1. PICK row : id \in RowIds /\ row \notin {Absent, Untouched} /\ Write(r, id, row)
  BY NotMarks DEF Writes
<1>2. tx'[r][i] = IF i = id THEN row ELSE tx[r][i]
  BY <1>1 DEF Write, TypeOK, DbTypeOK, Tables
<1> QED BY <1>1, <1>2 DEF Wrote

(* A statement that deletes nothing keeps the cities of r mapped.          *)
LEMMA MappedStays ==
    ASSUME TypeOK, NEW r \in Requests, MappedAreWritten(r),
           cityIds'[r] = cityIds[r], data'[r] = data[r],
           \A i \in RowIds : Wrote(r, i) => tx'[r][i] \notin {Untouched, Absent}
    PROVE  MappedAreWritten(r)'
<1>1. \A q \in Qids : Mapped(r, q) => cityIds[r][q] \in RowIds
  BY IdSorts DEF Mapped, TypeOK, RequestTypeOK
<1> QED BY <1>1 DEF MappedAreWritten, Mapped, Wrote

LEMMA OthersLoop ==
    ASSUME NEW s \in Requests, LoopInv(s), Own(s)' = Own(s)
    PROVE  LoopInv(s)'
BY DEF Own, LoopInv, MappedAreWritten, Mapped, Wrote, Looping, Holds, Enrichment

(* The request ends, fails or has nothing mapped yet.                      *)
LEMMA NothingMapped ==
    ASSUME NEW r \in Requests, cityIds'[r] = NoCities,
           pc'[r] \in (BeforeLoops \cup {"done"}),
           pc'[r] \in BeforeLoops => cursor'[r] = 1
    PROVE  LoopInv(r)'
BY DEF LoopInv, MappedAreWritten, Mapped, NoCities, BeforeLoops, AfterCities

LEMMA ListPlaces ==
    ASSUME TypeOK, NEW r \in Requests
    PROVE  /\ DOMAIN data[r].museums = 1 .. Len(data[r].museums)
           /\ Len(data[r].museums) \in Nat
           /\ \A k \in DOMAIN data[r].museums : data[r].museums[k].city \in Qids \cup {Null}
           /\ CityQids(data[r]) \subseteq Qids
<1>1. data[r].museums \in Seq(Enrichments)
  BY DataTypes DEF TypeOK, RequestTypeOK
<1>2. \A k \in DOMAIN data[r].museums : data[r].museums[k].city \in Qids \cup {Null}
  <2>1. \A k \in DOMAIN data[r].museums : data[r].museums[k] \in Enrichments
    BY <1>1
  <2> QED BY <2>1 DEF Enrichments
<1> QED BY <1>1, <1>2 DEF CityQids

LEMMA StepLoop ==
    ASSUME TypeOK, LockInv, NEW r \in Requests, LoopInv(r), Step(r)
    PROVE  LoopInv(r)'
<1> USE DEF TypeOK, RequestTypeOK
<1>1. CASE \E answer : Finish(r, answer)
  BY <1>1, NothingMapped DEF Finish
<1>2. CASE \E answer : Fail(r, answer)
  <2>1. MappedAreWritten(r)'
    BY <1>2, MappedStays DEF Fail, LoopInv, Wrote, dbVars, input, loop
  <2>2. pc'[r] = "rollback"
    BY <1>2 DEF Fail
  <2> QED BY <2>1, <2>2 DEF LoopInv, BeforeLoops, AfterCities
<1>3. CASE \/ Arrive(r) \/ PassCooldown(r) \/ FetchData(r) \/ FlushState(r)
           \/ StartWipeMuseums(r) \/ StartWipeCities(r) \/ WipeMuseums(r)
  <2>1. pc[r] \in BeforeLoops /\ pc'[r] \in BeforeLoops
    BY <1>3 DEF Arrive, PassCooldown, FetchData, FlushState, StartWipeMuseums,
                StartWipeCities, StartWipe, WipeMuseums, Goto, Ready, BeforeLoops
  <2>2. cityIds'[r] = cityIds[r] /\ cursor'[r] = cursor[r]
    BY <1>3 DEF Arrive, PassCooldown, FetchData, FlushState, StartWipeMuseums,
                StartWipeCities, StartWipe, WipeMuseums, loop
  <2> QED BY <2>1, <2>2, NothingMapped DEF LoopInv
<1>4. CASE WipeCities(r)
  <2>1. cityIds'[r] = NoCities /\ cursor'[r] = 1 /\ pc'[r] = "cities"
    BY <1>4 DEF WipeCities, Ready, Goto, LoopInv, BeforeLoops
  <2>2. MappedAreWritten(r)'
    BY <2>1 DEF MappedAreWritten, Mapped, NoCities
  <2>3. data' = data
    BY <1>4 DEF WipeCities, input
  <2>4. \A k \in DOMAIN data[r].museums : ~(k < 1)
    BY ListPlaces
  <2> QED BY <2>1, <2>2, <2>3, <2>4 DEF LoopInv, BeforeLoops, AfterCities
<1>5. CASE SkipCity(r)
  <2>1. MappedAreWritten(r)'
    BY <1>5, MappedStays DEF SkipCity, LoopInv, Wrote, dbVars, input
  <2>2. /\ pc'[r] = "cities" /\ cityIds' = cityIds /\ data' = data
        /\ cursor'[r] = cursor[r] + 1 /\ pc[r] = "cities"
    BY <1>5 DEF SkipCity, input
  <2>3. Enrichment(r).city # Null => Mapped(r, Enrichment(r).city)
    BY <1>5, EnrichmentType DEF SkipCity, SkipsCity, Mapped, Enrichments
  <2>4. ASSUME NEW k \in DOMAIN data[r].museums, k < cursor[r] + 1,
               data[r].museums[k].city # Null
        PROVE  Mapped(r, data[r].museums[k].city)
    <3>1. k \in Nat
      BY <2>4, ListPlaces
    <3>2. k < cursor[r] \/ k = cursor[r]
      BY <2>4, <3>1
    <3> QED BY <2>2, <2>3, <2>4, <3>2 DEF LoopInv, Enrichment
  <2> QED BY <2>1, <2>2, <2>4 DEF LoopInv, BeforeLoops, AfterCities, Mapped
<1>6. CASE UpsertCity(r)
  <2> DEFINE q  == Enrichment(r).city
             id == Target(r, q)
  <2>1. q \in Qids /\ id \in CityIds /\ id \in RowIds /\ Writes(r, id)
    BY <1>6, CityWrites, IdSorts
  <2>2. /\ pc' = pc /\ pc[r] = "cities" /\ data' = data
        /\ cityIds'[r] = [cityIds[r] EXCEPT ![q] = id]
        /\ cursor'[r] = cursor[r] + 1
        /\ Looping(r)
    BY <1>6 DEF UpsertCity, Ready, input
  <2>3. id \in IdsOf(q) /\ id # Null
    BY <2>1, TargetKey, RowAssumption
  <2>4. q \in CityQids(data[r])
    BY <2>1, <2>2, DistinctAssumption DEF CityQids, Enrichment, Looping
  <2> HIDE DEF id, q
  <2>5. \A p \in Qids : cityIds'[r][p] = IF p = q THEN id ELSE cityIds[r][p]
    BY <2>1, <2>2
  <2>6. MappedAreWritten(r)'
    <3>1. \A p \in Qids \ {q} : Mapped(r, p) => cityIds[r][p] \in RowIds
      BY IdSorts DEF Mapped
    <3> QED BY <2>1, <2>2, <2>3, <2>4, <2>5, <3>1, WrittenStays
            DEF LoopInv, MappedAreWritten, Mapped, Wrote
  <2>7. ASSUME NEW k \in DOMAIN data[r].museums, k < cursor[r] + 1,
               data[r].museums[k].city # Null
        PROVE  cityIds'[r][data[r].museums[k].city] # Null
    <3>1. k \in Nat /\ data[r].museums[k].city \in Qids
      BY <2>7, ListPlaces
    <3>2. CASE k < cursor[r]
      BY <2>2, <2>3, <2>5, <2>7, <3>1, <3>2 DEF LoopInv, Mapped
    <3>3. CASE k = cursor[r]
      BY <2>1, <2>3, <2>5, <3>3 DEF Enrichment, q
    <3> QED BY <2>7, <3>1, <3>2, <3>3
  <2> QED BY <2>2, <2>6, <2>7 DEF LoopInv, BeforeLoops, AfterCities, Mapped
<1>7. CASE LeaveLoop(r, "cities", "museums")
  <2>1. MappedAreWritten(r)'
    BY <1>7, MappedStays DEF LeaveLoop, LoopInv, Wrote, dbVars, input
  <2>2. /\ pc[r] = "cities" /\ pc'[r] = "museums" /\ UNCHANGED <<cityIds, data>>
        /\ ~Looping(r)
    BY <1>7 DEF LeaveLoop, Goto, input
  <2>3. \A k \in DOMAIN data[r].museums : k < cursor[r]
    BY <2>2, ListPlaces DEF Looping
  <2>4. \A q \in CityQids(data[r]) : Mapped(r, q)
    BY <2>2, <2>3 DEF CityQids, LoopInv
  <2> QED BY <2>1, <2>2, <2>4 DEF LoopInv, BeforeLoops, AfterCities, Mapped
<1>8. CASE UpsertMuseum(r)
  <2> DEFINE id == Target(r, Enrichment(r).name)
  <2>1. /\ pc[r] = "museums" /\ pc'[r] = "visitors" /\ Looping(r)
        /\ UNCHANGED <<cityIds, data, cursor>>
    BY <1>8 DEF UpsertMuseum, Ready, Goto, input, loop
  <2>2. Writes(r, id)
    BY <1>8, MuseumWrites
  <2>3. MappedAreWritten(r)'
    BY <2>1, <2>2, MappedStays, WrittenStays DEF LoopInv
  <2>4. id \in IdsOf(Enrichment(r).name) /\ id \in RowIds
    BY <2>2, TargetKey DEF Writes
  <2>5. tx'[r][id] \notin {Untouched, Absent}
    BY <2>2, <2>4, WrittenStays
  <2> HIDE DEF id
  <2>6. Holds(r, Enrichment(r).name)'
    BY <2>1, <2>4, <2>5 DEF Holds, Enrichment
  <2> QED BY <2>1, <2>3, <2>6 DEF LoopInv, BeforeLoops, AfterCities, Mapped, Looping
<1>9. CASE UpsertVisitors(r) \/ UpsertPopulations(r) \/ MarkRefreshed(r)
  <2>1. /\ pc[r] \in AfterCities /\ pc'[r] \in AfterCities \ {"visitors"}
        /\ UNCHANGED <<cityIds, data>>
    BY <1>9 DEF UpsertVisitors, UpsertPopulations, MarkRefreshed, Ready, Goto,
                AfterCities, input, loop
  <2>2. (\E id : Writes(r, id)) \/ UNCHANGED dbVars
    BY <1>9, VisitorsWrites, PopulationWrites, MarkWrites DEF LoopInv, UpsertVisitors
  <2>3. MappedAreWritten(r)'
    BY <2>1, <2>2, MappedStays, WrittenStays DEF LoopInv, Wrote, dbVars
  <2> QED BY <2>1, <2>3 DEF LoopInv, BeforeLoops, AfterCities, Mapped
<1>10. CASE \/ LeaveLoop(r, "museums", "populations")
            \/ LeaveLoop(r, "populations", "stamp") \/ Stamp(r)
  <2>1. /\ pc[r] \in AfterCities /\ pc'[r] \in AfterCities \ {"visitors"}
        /\ UNCHANGED <<cityIds, data, tx>>
    BY <1>10 DEF LeaveLoop, Stamp, Goto, AfterCities, input, dbVars
  <2>2. MappedAreWritten(r)'
    BY <2>1, MappedStays DEF LoopInv, Wrote
  <2> QED BY <2>1, <2>2 DEF LoopInv, BeforeLoops, AfterCities, Mapped
<1> QED BY <1>1, <1>2, <1>3, <1>4, <1>5, <1>6, <1>7, <1>8, <1>9, <1>10
        DEF Step, Proceed, Disturb, Unauthorized, RefuseCooldown, CheckFails,
            FetchFails, FlushConflict, ItemConflict, Commit, CommitFails,
            StatementFails, DeadlockVictim, Rollback, Abandon

-----------------------------------------------------------------------------
(* refresh_state.                                                          *)
LEMMA StateRowKept ==
    ASSUME TypeOK, NEW r \in Requests, LoopInv(r), MarkInv(r), Step(r)
    PROVE  /\ tx'[r][StateId] # Absent
           /\ ~EndStep(r) /\ Touched(r, StateId) => tx'[r][StateId] # Untouched
<1>1. StateId \in RowIds /\ StateId \notin MuseumIds \cup CityIds
  BY IdSorts
<1>2. CASE UNCHANGED dbVars
  BY <1>2 DEF MarkInv, Touched, dbVars
<1>3. CASE EndStep(r)
  <2>1. tx'[r][StateId] = Untouched
    BY <1>1, <1>3 DEF EndStep, Commit, CommitFails, Rollback, Abandon,
                      Commits, RollsBack, NoWrites, TypeOK, DbTypeOK
  <2> QED BY <1>3, <2>1, RowAssumption
<1>4. CASE WipeStep(r)
  <2>1. StateId \notin Present(r, seen[r])
    BY <1>1 DEF Present, TypeOK, RequestTypeOK
  <2>2. StateId \notin Referring(r, Present(r, seen[r]))
    BY <1>1 DEF Referring, Present
  <2>3. tx'[r][StateId] = tx[r][StateId]
    BY <1>1, <1>4, <2>1, <2>2
       DEF WipeStep, WipeMuseums, WipeCities, DeleteMuseums, DeleteCities,
           TypeOK, DbTypeOK
  <2> QED BY <2>3 DEF MarkInv, Touched
<1>5. CASE WriteStep(r) /\ ~UNCHANGED dbVars
  <2>1. PICK id : Writes(r, id)
    BY <1>5, WriteSteps
  <2>2. Touched(r, StateId) \/ id = StateId => tx'[r][StateId] \notin {Untouched, Absent}
    BY <1>1, <2>1, WrittenStays DEF Wrote, Touched, MarkInv
  <2>3. id # StateId => tx'[r][StateId] = tx[r][StateId]
    BY <1>1, <2>1 DEF Writes, Write, TypeOK, DbTypeOK, Tables
  <2> QED BY <2>2, <2>3 DEF MarkInv
<1> QED BY <1>2, <1>3, <1>4, <1>5, DbSteps

(* A state row that a request sees stays visible to it.                    *)
LEMMA StateRowSeen ==
    ASSUME TypeOK, NEW r \in Requests, LoopInv(r), MarkInv(r), Step(r),
           NEW s \in Requests, MarkInv(s), s = r => ~EndStep(r),
           View(s)[StateId] # Absent
    PROVE  View(s)'[StateId] # Absent
<1>1. StateId \in RowIds
  BY IdSorts
<1>2. db[StateId] # Absent => db'[StateId] # Absent
  <2>1. db' = db \/ db' = View(r)
    BY OnlyCommits DEF Commit, Commits
  <2> QED BY <1>1, <2>1 DEF MarkInv, View
<1>3. tx'[s][StateId] # Absent
  BY Frame, StateRowKept DEF MarkInv, Own
<1>4. Touched(s, StateId) => tx'[s][StateId] # Untouched
  BY Frame, StateRowKept DEF Own, Touched
<1> QED BY <1>1, <1>2, <1>3, <1>4 DEF View, Touched

LEMMA OthersMark ==
    ASSUME TypeOK, NEW r \in Requests, LoopInv(r), MarkInv(r), Step(r),
           NEW s \in Requests \ {r}, MarkInv(s)
    PROVE  MarkInv(s)'
<1>1. Own(s)' = Own(s)
  BY Frame
<1>2. View(s)[StateId] # Absent => View(s)'[StateId] # Absent
  BY StateRowSeen
<1>3. CitiesCount(s)' = CitiesCount(s)
  BY <1>1 DEF Own, CitiesCount
<1> QED BY <1>1, <1>2, <1>3 DEF Own, MarkInv

LEMMA StepMark ==
    ASSUME TypeOK, NEW r \in Requests, LoopInv(r), MarkInv(r), Step(r)
    PROVE  MarkInv(r)'
<1> USE DEF TypeOK, RequestTypeOK
<1>1. tx'[r][StateId] # Absent
  BY StateRowKept
<1>2. CASE pc'[r] \notin {"fetch", "flush", "commit"} \cup TrySteps
  BY <1>1, <1>2 DEF MarkInv, TrySteps
<1>3. CASE PassCooldown(r)
  <2>1. pc'[r] = "fetch" /\ pending'[r] = (View(r)[StateId] = Absent)
    BY <1>3 DEF PassCooldown, Goto
  <2>2. View(r)'[StateId] = View(r)[StateId]
    BY <1>3 DEF PassCooldown, View, dbVars
  <2> QED BY <1>1, <2>1, <2>2 DEF MarkInv
<1>4. CASE FetchData(r)
  <2>1. pc[r] = "fetch" /\ pc'[r] = "flush" /\ pending'[r] = pending[r]
    BY <1>4 DEF FetchData, Goto
  <2>2. View(r)'[StateId] = View(r)[StateId]
    BY <1>4 DEF FetchData, View, dbVars
  <2> QED BY <1>1, <2>1, <2>2 DEF MarkInv
<1>5. CASE FlushState(r)
  <2>1. pc[r] = "flush" /\ pc'[r] = "wipeMuseums"
    BY <1>5 DEF FlushState, Ready, Goto
  <2>2. View(r)'[StateId] # Absent
    <3>1. CASE pending[r]
      <4>1. tx'[r][StateId] = [at |-> Null, museums |-> Null, cities |-> Null]
        BY <1>5, <3>1, IdSorts DEF FlushState, Write, DbTypeOK, Tables
      <4>2. tx'[r][StateId] \in StateRows
        BY <4>1 DEF StateRows
      <4> QED BY <4>2, IdSorts, NotMarks DEF View
    <3>2. CASE ~pending[r]
      <4>1. View(r)'[StateId] = View(r)[StateId]
        BY <1>5, <3>2 DEF FlushState, View, dbVars
      <4> QED BY <2>1, <3>2, <4>1 DEF MarkInv
    <3> QED BY <3>1, <3>2
  <2> QED BY <1>1, <2>1, <2>2 DEF MarkInv
<1>6. CASE MarkRefreshed(r)
  <2>1. /\ pc[r] = "mark" /\ pc'[r] = "commit"
        /\ stamp' = stamp /\ data' = data /\ cityIds' = cityIds
    BY <1>6 DEF MarkRefreshed, Ready, Goto, input, loop
  <2>2. View(r)[StateId] # Absent
    BY <2>1 DEF MarkInv, TrySteps, Steps
  <2>3. tx'[r][StateId] = [at      |-> stamp[r],
                           museums |-> Len(data[r].museums),
                           cities  |-> CitiesCount(r)]
    BY <1>6, <2>2, IdSorts DEF MarkRefreshed, Write, DbTypeOK, Tables
  <2>4. CitiesCount(r)' = CitiesCount(r)
    BY <2>1 DEF CitiesCount
  <2> QED BY <1>1, <2>1, <2>3, <2>4 DEF MarkInv, TrySteps
<1>7. CASE /\ ~EndStep(r) /\ pc[r] \in TrySteps \ {"fetch", "flush", "mark"}
           /\ pc'[r] \in TrySteps \ {"fetch", "flush"}
  <2>1. View(r)'[StateId] # Absent
    BY <1>7, StateRowSeen DEF MarkInv
  <2> QED BY <1>1, <1>7, <2>1 DEF MarkInv, TrySteps
<1>8. CASE \E answer : Finish(r, answer) \/ Fail(r, answer)
  <2>1. pc'[r] \in {"done", "rollback"}
    BY <1>8 DEF Finish, Fail
  <2> QED BY <1>2, <2>1 DEF TrySteps
<1>9. CASE Arrive(r)
  <2>1. pc'[r] = "check"
    BY <1>9 DEF Arrive, Goto
  <2> QED BY <1>2, <2>1 DEF TrySteps
<1>10. CASE \/ StartWipeMuseums(r) \/ StartWipeCities(r) \/ WipeStep(r)
            \/ SkipCity(r) \/ UpsertCity(r) \/ UpsertMuseum(r)
            \/ UpsertVisitors(r) \/ UpsertPopulations(r) \/ Stamp(r)
            \/ LeaveLoop(r, "cities", "museums")
            \/ LeaveLoop(r, "museums", "populations")
            \/ LeaveLoop(r, "populations", "stamp")
  <2>1. /\ pc[r] \in TrySteps \ {"fetch", "flush", "mark"}
        /\ pc'[r] \in TrySteps \ {"fetch", "flush"}
    BY <1>10 DEF StartWipeMuseums, StartWipeCities, StartWipe, WipeStep,
                 WipeMuseums, WipeCities, SkipCity, UpsertCity, UpsertMuseum,
                 UpsertVisitors, UpsertPopulations, Stamp, LeaveLoop,
                 Ready, Goto, TrySteps, Steps
  <2>2. ~EndStep(r)
    BY <2>1 DEF EndStep, Commit, CommitFails, Rollback, Abandon, Finish, TrySteps
  <2> QED BY <1>7, <2>1, <2>2
<1> QED BY <1>3, <1>4, <1>5, <1>6, <1>8, <1>9, <1>10
        DEF Step, Proceed, Disturb, WipeStep, Unauthorized, RefuseCooldown,
            CheckFails, FetchFails, FlushConflict, ItemConflict, Commit,
            CommitFails, StatementFails, DeadlockVictim, Rollback, Abandon

(* Only the commit of r changes what is committed, and then refresh_state  *)
(* is what mark_refreshed wrote for the data set of r.                     *)
LEMMA StateStep ==
    ASSUME TypeOK, NEW r \in Requests, LoopInv(r), MarkInv(r), Step(r),
           StateDescribesLatest
    PROVE  StateDescribesLatest'
<1>1. CASE ~Commit(r)
  <2>1. UNCHANGED <<db, committed>>
    BY <1>1, OnlyCommits
  <2> QED BY <2>1 DEF StateDescribesLatest, LatestContents, Latest, ContentsOf
<1>2. CASE Commit(r)
  <2> DEFINE new == [by |-> r, at |-> stamp[r], data |-> data[r]]
             row == [at      |-> stamp[r],
                     museums |-> Len(data[r].museums),
                     cities  |-> CitiesCount(r)]
  <2>1. tx[r][StateId] = row
    BY <1>2 DEF Commit, MarkInv
  <2>2. row # Untouched
    <3>1. row \in StateRows
      BY CountType DEF StateRows, TypeOK, RequestTypeOK
    <3> QED BY <3>1, IdSorts, NotMarks
  <2>3. db'[StateId] = row
    <3> HIDE DEF row
    <3> QED BY <1>2, <2>1, <2>2, IdSorts DEF Commit, Commits, View
  <2>4. committed' # <<>> /\ Latest' = new
    <3>1. committed \in Seq(CommitRecords) /\ new \in CommitRecords
      BY DEF TypeOK, RequestTypeOK, CommitRecords, Writers
    <3>2. committed' = Append(committed, new)
      BY <1>2 DEF Commit
    <3> HIDE DEF new
    <3> QED BY <3>1, <3>2 DEF Latest, Last
  <2>5. CitiesCount(r) = Cardinality(CityQids(data[r]))
    <3>1. \A q \in CityQids(data[r]) : Mapped(r, q)
      BY <1>2 DEF Commit, LoopInv, AfterCities
    <3>2. \A q \in Qids : Mapped(r, q) => q \in CityQids(data[r])
      BY DEF LoopInv, MappedAreWritten
    <3>3. CityQids(data[r]) = {q \in Qids : cityIds[r][q] # Null}
      BY <3>1, <3>2, ListPlaces DEF Mapped
    <3> QED BY <3>3 DEF CitiesCount
  <2>6. LatestContents.state' = row
    BY <2>4, <2>5 DEF LatestContents, ContentsOf
  <2> QED BY <2>3, <2>4, <2>6 DEF StateDescribesLatest
<1> QED BY <1>1, <1>2

-----------------------------------------------------------------------------
(* Who wrote what.  A request that is over takes no step.                  *)
LEMMA OverIsOver ==
    ASSUME NEW r \in Requests, Step(r)
    PROVE  pc[r] # "done"
<1>1. BlockedBy(r) # {} => pc[r] # "done"
  BY DEF BlockedBy, Needed, Holders
<1> QED BY <1>1
        DEF Step, Proceed, Disturb, Arrive, Unauthorized, RefuseCooldown,
            CheckFails, PassCooldown, FetchData, FetchFails, FlushConflict,
            FlushState, StartWipeMuseums, StartWipeCities, StartWipe, SkipCity,
            LeaveLoop, ItemConflict, Stamp, DeadlockVictim, StatementFails,
            CommitFails, Rollback, Abandon, InFlight, WipeMuseums, WipeCities,
            UpsertCity, UpsertMuseum, UpsertVisitors, UpsertPopulations,
            MarkRefreshed, Commit, Ready, TrySteps

LEMMA RecordedRange ==
    /\ Range(NoRecords) \subseteq {Null}
    /\ \A records \in RecordSets : \A Y, w :
           Range(Recorded(records, Y, w)) \subseteq Range(records) \cup {w}
BY DEF Range, NoRecords, Recorded, RecordSets

LEMMA ViewAuthors ==
    ASSUME TypeOK, AuthorInv, NEW r \in Requests, NEW i \in MuseumIds \cup CityIds,
           View(r)[i] # Absent
    PROVE  Authors(i, View(r)[i]) \subseteq Committers \cup {r, Null}
<1>1. i \in RowIds
  BY IdSorts
<1>2. View(r)[i] = IF tx[r][i] = Untouched THEN db[i] ELSE tx[r][i]
  BY <1>1 DEF View
<1>3. CASE tx[r][i] = Untouched
  BY <1>2, <1>3 DEF AuthorInv, Committed
<1>4. CASE tx[r][i] # Untouched
  BY <1>2, <1>4 DEF AuthorInv, Wrote
<1> QED BY <1>3, <1>4

LEMMA TargetAuthors ==
    ASSUME TypeOK, AuthorInv, NEW r \in Requests, NEW key, 
           Target(r, key) \in MuseumIds \cup CityIds
    PROVE  Target(r, key)[1] \in Committers \cup {r, Null}
<1>1. CASE Present(r, IdsOf(key)) # {}
  <2>1. View(r)[Target(r, key)] # Absent
    BY <1>1 DEF Target, Present
  <2> QED BY <2>1, ViewAuthors DEF Authors
<1>2. CASE Present(r, IdsOf(key)) = {}
  BY <1>2 DEF Target
<1> QED BY <1>1, <1>2

(* The rows that r itself writes.                                          *)
LEMMA StepAuthors ==
    ASSUME TypeOK, AuthorInv, NEW r \in Requests, LoopInv(r), Step(r),
           NEW i \in MuseumIds \cup CityIds, tx'[r][i] \notin {Untouched, Absent}
    PROVE  Authors(i, tx'[r][i]) \subseteq Committers \cup {r, Null}
<1>1. i \in RowIds /\ i # StateId
  BY IdSorts
<1>2. CASE tx'[r][i] = tx[r][i]
  BY <1>2 DEF AuthorInv, Wrote
<1>3. CASE EndStep(r)
  <2>1. tx'[r][i] = Untouched
    BY <1>1, <1>3 DEF EndStep, Commit, CommitFails, Rollback, Abandon,
                      Commits, RollsBack, NoWrites, TypeOK, DbTypeOK
  <2> QED BY <2>1
<1>4. CASE WipeStep(r) /\ tx'[r][i] # tx[r][i]
  <2>1. i \in Referring(r, Present(r, seen[r]))
    BY <1>1, <1>4 DEF WipeStep, WipeMuseums, WipeCities, DeleteMuseums,
                      DeleteCities, TypeOK, DbTypeOK
  <2>2. tx'[r][i] = [View(r)[i] EXCEPT !.city = Null]
    BY <1>1, <1>4, <2>1 DEF WipeStep, WipeMuseums, WipeCities, DeleteMuseums,
                            DeleteCities, TypeOK, DbTypeOK
  <2>3. View(r)[i] \in MuseumRows /\ View(r)[i] # Absent
    BY <2>1, ReferringRows DEF Referring, Present, TypeOK
  <2>4. tx'[r][i].records = View(r)[i].records
    BY <2>2, <2>3 DEF MuseumRows
  <2> QED BY <2>3, <2>4, ViewAuthors DEF Authors
<1>5. CASE UpsertCity(r) /\ tx'[r][i] # tx[r][i]
  <2> DEFINE id  == Target(r, Enrichment(r).city)
             row == IF View(r)[id] = Absent THEN [records |-> NoRecords]
                    ELSE View(r)[id]
  <2>1. i = id /\ tx'[r][i] = row
    BY <1>1, <1>5 DEF UpsertCity, Write, TypeOK, DbTypeOK, Tables
  <2> QED BY <2>1, TargetAuthors, ViewAuthors, RecordedRange DEF Authors
<1>6. CASE UpsertMuseum(r) /\ tx'[r][i] # tx[r][i]
  <2> DEFINE id  == Target(r, Enrichment(r).name)
             old == IF View(r)[id] = Absent THEN NoRecords ELSE View(r)[id].records
  <2>1. i = id /\ tx'[r][i].records = old
    BY <1>1, <1>6 DEF UpsertMuseum, Write, TypeOK, DbTypeOK, Tables
  <2> QED BY <2>1, TargetAuthors, ViewAuthors, RecordedRange DEF Authors
<1>7. CASE UpsertVisitors(r) /\ tx'[r][i] # tx[r][i]
  <2> DEFINE id  == Target(r, Enrichment(r).name)
             old == View(r)[id]
             row == [old EXCEPT !.records = Recorded(@, Enrichment(r).years, r)]
  <2>1. Looping(r) /\ Holds(r, Enrichment(r).name)
    BY <1>7 DEF UpsertVisitors, LoopInv
  <2>2. old \in MuseumRows /\ old # Absent
    BY <2>1, MuseumTarget, HeldIsPresent DEF Present
  <2>3. i = id /\ tx'[r][i] = row
    BY <1>1, <1>7 DEF UpsertVisitors, Write, TypeOK, DbTypeOK, Tables
  <2> HIDE DEF id, old
  <2>4. tx'[r][i].records = Recorded(old.records, Enrichment(r).years, r)
    BY <2>2, <2>3 DEF MuseumRows
  <2>5. old.records \in RecordSets
    BY <2>2 DEF MuseumRows
  <2>6. Range(tx'[r][i].records) \subseteq Range(old.records) \cup {r}
    BY <2>4, <2>5, RecordedRange
  <2> QED BY <2>2, <2>3, <2>6, ViewAuthors DEF Authors, old
<1>8. CASE UpsertPopulations(r) /\ tx'[r][i] # tx[r][i]
  <2> DEFINE id  == Target(r, PopulationsOf(r).city)
             old == View(r)[id]
  <2>1. /\ old # Absent /\ i = id
        /\ tx'[r][i].records = Recorded(old.records, PopulationsOf(r).years, r)
    BY <1>1, <1>8 DEF UpsertPopulations, Write, TypeOK, DbTypeOK, Tables, dbVars
  <2>2. old \in CityRows
    <3>1. id \in CityIds /\ id \in RowIds /\ RowsAt(id) = CityRows
      BY <1>8, SeriesType, TargetSort DEF UpsertPopulations, Series
    <3> QED BY <2>1, <3>1, ViewType DEF TypeOK, Tables
  <2> HIDE DEF id, old
  <2>3. Range(tx'[r][i].records) \subseteq Range(old.records) \cup {r}
    BY <2>1, <2>2, RecordedRange DEF CityRows
  <2> QED BY <2>1, <2>3, ViewAuthors DEF Authors, old
<1>9. CASE (FlushState(r) /\ pending[r]) \/ MarkRefreshed(r)
  <2>1. tx'[r][i] = tx[r][i]
    BY <1>1, <1>9 DEF FlushState, MarkRefreshed, Write, TypeOK, DbTypeOK, Tables, dbVars
  <2> QED BY <1>2, <2>1
<1> QED BY <1>2, <1>3, <1>4, <1>5, <1>6, <1>7, <1>8, <1>9, DbSteps
        DEF WriteStep, dbVars

(* The history grows by the refresh that commits.                          *)
LEMMA CommittersGrow ==
    ASSUME TypeOK, NEW r \in Requests, Step(r)
    PROVE  Committers' = IF Commit(r) THEN Committers \cup {r} ELSE Committers
<1>1. CASE Commit(r)
  <2> DEFINE new == [by |-> r, at |-> stamp[r], data |-> data[r]]
  <2>1. committed \in Seq(CommitRecords) /\ new \in CommitRecords
    BY DEF TypeOK, RequestTypeOK, CommitRecords, Writers
  <2>2. committed' = Append(committed, new) /\ new.by = r
    BY <1>1 DEF Commit
  <2> HIDE DEF new
  <2>3. /\ DOMAIN committed = 1 .. Len(committed)
        /\ DOMAIN committed' = 1 .. Len(committed) + 1
        /\ Len(committed) \in Nat
        /\ \A k \in 1 .. Len(committed) : committed'[k] = committed[k]
        /\ committed'[Len(committed) + 1] = new
    BY <2>1, <2>2
  <2>4. Committers' \subseteq Committers \cup {r}
    BY <2>2, <2>3 DEF Committers
  <2>5. Committers \subseteq Committers' /\ r \in Committers'
    BY <2>2, <2>3 DEF Committers
  <2> QED BY <1>1, <2>4, <2>5
<1>2. CASE ~Commit(r)
  BY <1>2, OnlyCommits DEF Committers
<1> QED BY <1>1, <1>2

LEMMA AuthorStep ==
    ASSUME TypeOK, AuthorInv, NEW r \in Requests, LoopInv(r), Step(r)
    PROVE  AuthorInv'
<1>1. Committers \subseteq Committers'
  BY CommittersGrow
<1>2. ASSUME NEW i \in MuseumIds \cup CityIds, db'[i] # Absent
      PROVE  Authors(i, db'[i]) \subseteq Committers' \cup {Null}
  <2>1. CASE Commit(r)
    <3>1. db' = View(r) /\ Committers' = Committers \cup {r}
      BY <2>1, CommittersGrow DEF Commit, Commits
    <3> QED BY <1>2, <3>1, ViewAuthors
  <2>2. CASE ~Commit(r)
    <3>1. db' = db /\ Committers' = Committers
      BY <2>2, CommittersGrow, OnlyCommits
    <3> QED BY <1>2, <3>1 DEF AuthorInv, Committed
  <2> QED BY <2>1, <2>2
<1>3. ASSUME NEW s \in Requests, NEW i \in MuseumIds \cup CityIds,
             tx'[s][i] \notin {Untouched, Absent}
      PROVE  Authors(i, tx'[s][i]) \subseteq Committers' \cup {s, Null}
  <2>1. CASE s = r
    BY <1>1, <1>3, <2>1, StepAuthors
  <2>2. CASE s # r
    <3>1. tx'[s] = tx[s]
      BY <2>2, Frame DEF Own
    <3> QED BY <1>1, <1>3, <3>1 DEF AuthorInv, Wrote
  <2> QED BY <2>1, <2>2
<1>4. ASSUME NEW s \in Requests \cap Committers'
      PROVE  pc'[s] = "done" /\ response'[s] \in {"202", "500", "lost"}
  <2>1. CASE s = r
    <3>1. r \notin Committers
      BY OverIsOver DEF AuthorInv
    <3>2. Commit(r)
      BY <1>4, <2>1, <3>1, CommittersGrow
    <3> QED BY <2>1, <3>2 DEF Commit, Finish, TypeOK, RequestTypeOK
  <2>2. CASE s # r
    <3>1. s \in Committers
      BY <1>4, <2>2, CommittersGrow
    <3> QED BY <2>2, <3>1, Frame DEF AuthorInv, Own
  <2> QED BY <2>1, <2>2
<1> QED BY <1>2, <1>3, <1>4 DEF AuthorInv, Committed, Authors, Wrote

-----------------------------------------------------------------------------
(* museums.city_id.                                                        *)
WrittenReferences(r) ==
    \A i \in MuseumIds :
        Wrote(r, i) /\ tx[r][i].city # Null => Wrote(r, tx[r][i].city)

(* The museums that r sees refer to cities that r sees.                    *)
LEMMA ViewReferences ==
    ASSUME TypeOK, ReferenceInv, NEW r \in Requests, NEW i \in MuseumIds,
           View(r)[i] # Absent, View(r)[i].city # Null
    PROVE  /\ View(r)[i].city \in CityIds
           /\ View(r)[View(r)[i].city] # Absent
<1>1. i \in RowIds /\ RowsAt(i) = MuseumRows
  BY IdSorts DEF RowsAt
<1>2. View(r)[i] \in MuseumRows
  BY <1>1, ViewType DEF TypeOK, Tables
<1>3. View(r)[i].city \in CityIds /\ View(r)[i].city \in RowIds
  BY <1>2, IdSorts DEF MuseumRows
<1>4. CASE tx[r][i] = Untouched
  <2>1. View(r)[i] = db[i]
    BY <1>1, <1>4 DEF View
  <2>2. db[db[i].city] # Absent /\ tx[r][db[i].city] # Absent
    BY <1>4, <2>1 DEF ReferenceInv, Touched
  <2> QED BY <1>3, <2>1, <2>2 DEF View
<1>5. CASE tx[r][i] # Untouched
  <2>1. View(r)[i] = tx[r][i]
    BY <1>1, <1>5 DEF View
  <2>2. Wrote(r, tx[r][i].city)
    BY <1>5, <2>1 DEF ReferenceInv, Wrote
  <2> QED BY <1>3, <2>1, <2>2 DEF View, Wrote
<1> QED BY <1>4, <1>5

LEMMA OtherRows ==
    ASSUME TypeOK, NEW r \in Requests, NEW id, Writes(r, id), NEW i \in RowIds \ {id}
    PROVE  tx'[r][i] = tx[r][i]
BY DEF Writes, Write, TypeOK, DbTypeOK, Tables

LEMMA StepWrittenReferences ==
    ASSUME TypeOK, LockInv, ReferenceInv, NEW r \in Requests, LoopInv(r), Step(r)
    PROVE  WrittenReferences(r)'
<1> SUFFICES ASSUME NEW i \in MuseumIds, tx'[r][i] \notin {Untouched, Absent},
                    tx'[r][i].city # Null
             PROVE  tx'[r][tx'[r][i].city] \notin {Untouched, Absent}
  BY DEF WrittenReferences, Wrote
<1>1. i \in RowIds /\ i # StateId /\ i \notin CityIds
  BY IdSorts
<1>2. CASE /\ tx'[r][i] = tx[r][i]
           /\ \A c \in CityIds : Wrote(r, c) => tx'[r][c] \notin {Untouched, Absent}
  <2>1. Wrote(r, tx[r][i].city)
    BY <1>2 DEF ReferenceInv, Wrote
  <2>2. tx[r][i] \in MuseumRows
    BY <1>1, <1>2, IdSorts DEF TypeOK, DbTypeOK, Tables, RowsAt
  <2>3. tx[r][i].city \in CityIds
    BY <1>2, <2>2 DEF MuseumRows
  <2>4. tx'[r][tx[r][i].city] \notin {Untouched, Absent}
    BY <1>2, <2>1, <2>3
  <2> QED BY <1>2, <2>4
<1>3. CASE UNCHANGED dbVars
  BY <1>2, <1>3 DEF dbVars, Wrote
<1>4. CASE EndStep(r)
  <2>1. tx'[r][i] = Untouched
    BY <1>1, <1>4 DEF EndStep, Commit, CommitFails, Rollback, Abandon,
                      Commits, RollsBack, NoWrites, TypeOK, DbTypeOK
  <2> QED BY <2>1
<1>5. CASE WipeStep(r)
  <2>1. tx[r][i] \in {Untouched, Absent}
    BY <1>5 DEF WipeStep, WipeMuseums, WipeCities, Ready, ReferenceInv,
                BeforeLoops, Wrote
  <2>2. i \in Referring(r, Present(r, seen[r])) /\ tx'[r][i] = [View(r)[i] EXCEPT !.city = Null]
    BY <1>1, <1>5, <2>1 DEF WipeStep, WipeMuseums, WipeCities, DeleteMuseums,
                            DeleteCities, TypeOK, DbTypeOK
  <2>3. tx'[r][i].city = Null
    BY <2>2, ReferringRows DEF MuseumRows, TypeOK
  <2> QED BY <2>3
<1>6. CASE UpsertMuseum(r)
  <2> DEFINE id == Target(r, Enrichment(r).name)
  <2>1. Writes(r, id) /\ Looping(r)
    BY <1>6, MuseumWrites DEF UpsertMuseum
  <2>2. \A c \in CityIds : Wrote(r, c) => tx'[r][c] \notin {Untouched, Absent}
    BY <2>1, IdSorts, WrittenStays
  <2>3. CASE i # id
    BY <1>1, <1>2, <2>1, <2>2, <2>3, OtherRows
  <2>4. CASE i = id
    <3>1. tx'[r][i].city = CityId(r)
      BY <1>1, <1>6, <2>4 DEF UpsertMuseum, Write, TypeOK, DbTypeOK, Tables
    <3>2. CityId(r) \in CityIds /\ CityId(r) # Null
      BY <2>1, <3>1, MuseumTarget
    <3>3. Enrichment(r).city \in Qids /\ CityId(r) = cityIds[r][Enrichment(r).city]
      BY <2>1, <3>2, EnrichmentType DEF CityId, Enrichments
    <3>4. Wrote(r, CityId(r))
      BY <3>2, <3>3 DEF LoopInv, MappedAreWritten, Mapped
    <3> QED BY <2>2, <3>1, <3>2, <3>4
  <2> QED BY <2>3, <2>4
<1>7. CASE UpsertVisitors(r)
  <2> DEFINE id  == Target(r, Enrichment(r).name)
             old == View(r)[id]
  <2>1. Looping(r) /\ Holds(r, Enrichment(r).name)
    BY <1>7 DEF UpsertVisitors, LoopInv
  <2>2. Writes(r, id)
    BY <1>7, <2>1, VisitorsWrites
  <2>3. \A c \in CityIds : Wrote(r, c) => tx'[r][c] \notin {Untouched, Absent}
    BY <2>2, IdSorts, WrittenStays
  <2>4. CASE i # id
    BY <1>1, <1>2, <2>2, <2>3, <2>4, OtherRows
  <2>5. CASE i = id
    <3>1. old \in MuseumRows /\ old # Absent
      BY <2>1, MuseumTarget, HeldIsPresent DEF Present
    <3>2. Wrote(r, id)
      BY <2>1, <2>2, HeldTarget DEF Writes, Wrote
    <3>3. old = tx[r][id]
      BY <1>1, <2>5, <3>2 DEF View, Wrote
    <3>4. tx'[r][i].city = old.city
      <4>1. tx'[r][i] = [old EXCEPT !.records = Recorded(@, Enrichment(r).years, r)]
        BY <1>1, <1>7, <2>5 DEF UpsertVisitors, Write, TypeOK, DbTypeOK, Tables
      <4> HIDE DEF old
      <4> QED BY <3>1, <4>1 DEF MuseumRows
    <3>5. Wrote(r, old.city) /\ old.city \in CityIds
      BY <2>5, <3>1, <3>2, <3>3, <3>4 DEF ReferenceInv, MuseumRows
    <3> QED BY <2>3, <3>4, <3>5
  <2> QED BY <2>4, <2>5
<1>8. CASE \/ UpsertCity(r) \/ UpsertPopulations(r) \/ MarkRefreshed(r)
           \/ FlushState(r) /\ pending[r]
  <2>1. CASE UNCHANGED dbVars
    BY <1>3, <2>1
  <2>2. CASE ~UNCHANGED dbVars
    <3>1. PICK id \in CityIds \cup {StateId} : Writes(r, id)
      BY <1>8, <2>2, CityWrites, PopulationWrites, MarkWrites, FlushWrites
    <3>2. \A c \in CityIds : Wrote(r, c) => tx'[r][c] \notin {Untouched, Absent}
      BY <3>1, IdSorts, WrittenStays
    <3> QED BY <1>1, <1>2, <3>1, <3>2, OtherRows
  <2> QED BY <2>1, <2>2
<1> QED BY <1>3, <1>4, <1>5, <1>6, <1>7, <1>8, DbSteps DEF WriteStep

LEMMA StepBeforeLoops ==
    ASSUME TypeOK, ReferenceInv, NEW r \in Requests, Step(r)
    PROVE  /\ pc'[r] \in BeforeLoops => \A i \in MuseumIds : ~Wrote(r, i)'
           /\ pc'[r] = "deleteMuseums" => seen'[r] \subseteq MuseumIds
<1> USE DEF TypeOK, RequestTypeOK
<1>1. CASE \/ Arrive(r) \/ PassCooldown(r) \/ FetchData(r) \/ SkipCity(r)
           \/ FlushState(r) \/ UpsertCity(r) \/ StartWipeMuseums(r)
           \/ StartWipeCities(r) \/ WipeMuseums(r)
  <2>1. pc'[r] \in BeforeLoops => pc[r] \in BeforeLoops
    BY <1>1 DEF Arrive, PassCooldown, FetchData, SkipCity, FlushState, UpsertCity,
                StartWipeMuseums, StartWipeCities, StartWipe, WipeMuseums,
                Ready, Goto, BeforeLoops
  <2>2. ASSUME pc[r] \in BeforeLoops, NEW i \in MuseumIds
        PROVE  tx'[r][i] \in {Untouched, Absent}
    <3>1. i \in RowIds /\ i # StateId /\ tx[r][i] \in {Untouched, Absent}
      BY <2>2, IdSorts DEF ReferenceInv, Wrote
    <3>2. ~UpsertCity(r)
      BY <2>2 DEF UpsertCity, Ready, BeforeLoops
    <3>3. CASE WipeMuseums(r)
      BY <3>1, <3>3 DEF WipeMuseums, DeleteMuseums, DbTypeOK
    <3>4. CASE FlushState(r)
      BY <3>1, <3>4, IdSorts DEF FlushState, Write, DbTypeOK, Tables, dbVars
    <3>5. CASE UNCHANGED dbVars
      BY <3>1, <3>5 DEF dbVars
    <3> QED BY <1>1, <3>2, <3>3, <3>4, <3>5
            DEF Arrive, PassCooldown, FetchData, SkipCity,
                StartWipeMuseums, StartWipeCities, StartWipe
  <2>3. pc'[r] = "deleteMuseums" => StartWipeMuseums(r)
    BY <1>1 DEF Arrive, PassCooldown, FetchData, SkipCity, FlushState, UpsertCity,
                StartWipeCities, StartWipe, WipeMuseums, Ready, Goto
  <2>4. StartWipeMuseums(r) => seen'[r] \subseteq MuseumIds
    BY DEF StartWipeMuseums, StartWipe, Present
  <2> QED BY <2>1, <2>2, <2>3, <2>4 DEF Wrote
<1>2. CASE \E answer : Finish(r, answer) \/ Fail(r, answer)
  BY <1>2 DEF Finish, Fail, BeforeLoops
<1>3. CASE \/ WipeCities(r) \/ UpsertMuseum(r)
           \/ UpsertVisitors(r) \/ UpsertPopulations(r) \/ Stamp(r)
           \/ LeaveLoop(r, "cities", "museums")
           \/ LeaveLoop(r, "museums", "populations")
           \/ LeaveLoop(r, "populations", "stamp") \/ MarkRefreshed(r)
  <2>1. pc'[r] \notin BeforeLoops
    BY <1>3 DEF WipeCities, UpsertMuseum, UpsertVisitors, UpsertPopulations, Stamp,
                LeaveLoop, MarkRefreshed, Ready, Goto, BeforeLoops
  <2> QED BY <2>1 DEF BeforeLoops
<1> QED BY <1>1, <1>2, <1>3
        DEF Step, Proceed, Disturb, Unauthorized, RefuseCooldown,
            CheckFails, FetchFails, FlushConflict, ItemConflict, Commit,
            CommitFails, StatementFails, DeadlockVictim, Rollback, Abandon

(* A city that r deletes now: the museums referring to it are r's.         *)
LEMMA DeletedReferences ==
    ASSUME TypeOK, LockInv, ReferenceInv, NEW r \in Requests, LoopInv(r), Step(r),
           NEW i \in MuseumIds, db[i] # Absent, db[i].city # Null,
           tx'[r][db[i].city] = Absent
    PROVE  tx'[r][i] # Untouched
<1> DEFINE c == db[i].city
<1>1. /\ i \in RowIds /\ c \in RowIds /\ c \in CityIds
      /\ c \notin MuseumIds /\ c # i
  <2>1. i \in RowIds /\ RowsAt(i) = MuseumRows
    BY IdSorts DEF RowsAt
  <2>2. db[i] \in MuseumRows
    BY <2>1 DEF TypeOK, DbTypeOK, Tables
  <2> QED BY <2>1, <2>2, IdSorts DEF MuseumRows
<1> HIDE DEF c
<1>2. tx[r][c] = Absent => Touched(r, i)
  BY DEF ReferenceInv, c
<1>3. CASE UNCHANGED dbVars
  BY <1>2, <1>3 DEF dbVars, c, Touched
<1>4. CASE EndStep(r)
  <2>1. tx'[r][c] = Untouched
    BY <1>1, <1>4 DEF EndStep, Commit, CommitFails, Rollback, Abandon,
                      Commits, RollsBack, NoWrites, TypeOK, DbTypeOK
  <2> QED BY <2>1, RowAssumption DEF c
<1>5. CASE WipeMuseums(r)
  <2>1. c \notin Present(r, seen[r])
    BY <1>1, <1>5 DEF WipeMuseums, Ready, ReferenceInv, Present
  <2>2. tx[r][c] = Absent
    BY <1>1, <1>5, <2>1 DEF WipeMuseums, DeleteMuseums, TypeOK, DbTypeOK, c
  <2>3. Statement(r)
    BY <1>5, WipeLocks
  <2> QED BY <1>1, <1>2, <2>2, <2>3 DEF Statement
<1>6. CASE WipeCities(r)
  <2>1. Statement(r)
    BY <1>6, WipeLocks
  <2>2. CASE Touched(r, i)
    BY <1>1, <2>1, <2>2 DEF Statement
  <2>3. CASE ~Touched(r, i)
    <3>1. View(r)[i] = db[i]
      BY <1>1, <2>3 DEF View, Touched
    <3>2. c \in Present(r, seen[r])
      <4>1. tx[r][c] # Absent
        BY <1>2, <2>3
      <4>2. c \notin Referring(r, Present(r, seen[r]))
        BY <1>1 DEF Referring, Present
      <4> QED BY <1>1, <1>6, <4>1, <4>2
              DEF WipeCities, DeleteCities, TypeOK, DbTypeOK, c
    <3>3. i \in Referring(r, Present(r, seen[r]))
      BY <3>1, <3>2 DEF Referring, Present, c
    <3>4. i \notin Present(r, seen[r]) => tx'[r][i] = [View(r)[i] EXCEPT !.city = Null]
      BY <1>1, <1>6, <3>3 DEF WipeCities, DeleteCities, TypeOK, DbTypeOK
    <3>5. i \in Present(r, seen[r]) => tx'[r][i] = Absent
      BY <1>1, <1>6 DEF WipeCities, DeleteCities, TypeOK, DbTypeOK
    <3>6. [View(r)[i] EXCEPT !.city = Null] \in MuseumRows
      BY <3>3, ReferringRows DEF MuseumRows, TypeOK
    <3> QED BY <3>4, <3>5, <3>6, RowAssumption DEF Rows
  <2> QED BY <2>2, <2>3
<1>7. CASE WriteStep(r) /\ ~UNCHANGED dbVars
  <2>1. PICK id : Writes(r, id)
    BY <1>7, WriteSteps
  <2>2. c # id /\ tx[r][c] = Absent
    BY <1>1, <2>1, WrittenStays, OtherRows DEF c
  <2>3. tx[r][i] # Untouched => tx'[r][i] # Untouched
    BY <1>1, <2>1, WrittenStays, OtherRows
  <2> QED BY <1>2, <2>2, <2>3 DEF Touched
<1> QED BY <1>3, <1>4, <1>5, <1>6, <1>7, DbSteps DEF WipeStep

LEMMA ReferenceStep ==
    ASSUME TypeOK, LockInv, ReferenceInv, NEW r \in Requests, LoopInv(r), Step(r)
    PROVE  ReferenceInv'
<1>1. \A s \in Requests : pc'[s] \in BeforeLoops => \A i \in MuseumIds : ~Wrote(s, i)'
  BY StepBeforeLoops, Frame DEF ReferenceInv, Own, Wrote
<1>2. \A s \in Requests : pc'[s] = "deleteMuseums" => seen'[s] \subseteq MuseumIds
  BY StepBeforeLoops, Frame DEF ReferenceInv, Own
<1>3. \A s \in Requests : WrittenReferences(s)'
  <2>1. \A s \in Requests \ {r} : tx'[s] = tx[s]
    BY Frame DEF Own
  <2> QED BY <2>1, StepWrittenReferences DEF WrittenReferences, ReferenceInv, Wrote
<1>4. ASSUME NEW i \in MuseumIds, db'[i] # Absent, db'[i].city # Null
      PROVE  /\ db'[db'[i].city] # Absent
             /\ \A s \in Requests : tx'[s][db'[i].city] = Absent => Touched(s, i)'
  <2>1. \A s \in Requests \ {r} : tx'[s] = tx[s]
    BY Frame DEF Own
  <2>2. CASE ~Commit(r)
    <3>1. db' = db
      BY <2>2, OnlyCommits
    <3>2. tx'[r][db[i].city] = Absent => tx'[r][i] # Untouched
      BY <1>4, <3>1, DeletedReferences
    <3> QED BY <1>4, <2>1, <3>1, <3>2 DEF ReferenceInv, Touched
  <2>3. CASE Commit(r)
    <3>1. db' = View(r) /\ tx'[r] = NoWrites
      BY <2>3 DEF Commit, Commits, TypeOK, DbTypeOK
    <3>2. View(r)[i].city \in CityIds /\ db'[db'[i].city] # Absent
      BY <1>4, <3>1, ViewReferences
    <3>3. ASSUME NEW s \in Requests, tx'[s][db'[i].city] = Absent
          PROVE  tx'[s][i] # Untouched
      <4>1. s # r /\ tx'[s] = tx[s] /\ Touched(s, db'[i].city)
        <5>1. s # r
          BY <3>1, <3>2, <3>3, IdSorts, RowAssumption DEF NoWrites
        <5> QED BY <2>1, <3>3, <5>1, RowAssumption DEF Touched
      <4>2. CASE Touched(r, i)
        <5>1. db'[i] = tx[r][i]
          BY <3>1, <4>2, IdSorts DEF View, Touched
        <5>2. Wrote(r, db'[i].city)
          BY <1>4, <4>2, <5>1 DEF ReferenceInv, Wrote, Touched
        <5> QED BY <3>1, <3>2, <4>1, <5>2, IdSorts
                DEF LockInv, KeysExclusive, Wrote, Touched
      <4>3. CASE ~Touched(r, i)
        <5>1. db'[i] = db[i]
          BY <3>1, <4>3, IdSorts DEF View, Touched
        <5> QED BY <1>4, <3>3, <4>1, <5>1 DEF ReferenceInv, Touched
      <4> QED BY <4>2, <4>3
    <3> QED BY <3>2, <3>3 DEF Touched
  <2> QED BY <2>2, <2>3
<1> QED BY <1>1, <1>2, <1>3, <1>4 DEF ReferenceInv, WrittenReferences

-----------------------------------------------------------------------------
(* The invariant holds at first, and every step keeps it.                  *)
LEMMA InitStored ==
    ASSUME NEW c, NEW i \in RowIds, Stored(c)[i] # Absent
    PROVE  i[1] = Seed
BY DEF Stored

LEMMA InitLocks == Init => LockInv
<1> SUFFICES ASSUME Init PROVE LockInv
  OBVIOUS
<1>1. \A r \in Requests, i \in RowIds : ~Touched(r, i) /\ View(r)[i] = db[i]
  BY DEF Init, NoWrites, Touched, View
<1>2. UniqueKeys(db)
  <2>1. \A i \in RowIds : db[i] # Absent => i[1] = Seed
    BY InitStored DEF Init
  <2>2. \A i, j \in RowIds : i[1] = j[1] /\ i[2] = j[2] => i = j
    BY DEF RowIds, MuseumIds, CityIds, StateId
  <2> QED BY <2>1, <2>2 DEF UniqueKeys
<1> QED BY <1>1, <1>2 DEF LockInv, KeysExclusive, KeysCovered, UniqueKeys

(* What an initial database holds: nothing, or one data set by Seed.       *)
LEMMA InitRows ==
    ASSUME NEW d \in SeedDatasets, db = Stored(ContentsOf(d, Seed, 0))
    PROVE  /\ \A i \in MuseumIds : db[i] # Absent =>
                  /\ i[1] = Seed
                  /\ db[i].city # Null => db[db[i].city] # Absent
                  /\ Range(db[i].records) \subseteq {Seed, Null}
           /\ \A i \in CityIds : db[i] # Absent =>
                  i[1] = Seed /\ Range(db[i].records) \subseteq {Seed, Null}
           /\ db[StateId] = [at      |-> 0,
                             museums |-> Len(d.museums),
                             cities  |-> Cardinality(CityQids(d))]
<1> DEFINE c == ContentsOf(d, Seed, 0)
<1>1. d \in Datasets
  BY DataAssumption
<1>2. ASSUME NEW Y
      PROVE  Range(Recorded(NoRecords, Y, Seed)) \subseteq {Seed, Null}
  BY RecordedRange, NoRecordsType
<1>3. ASSUME NEW i \in CityIds, db[i] # Absent
      PROVE  i[1] = Seed /\ Range(db[i].records) \subseteq {Seed, Null}
  <2>1. i \in RowIds /\ i \notin MuseumIds /\ i # StateId /\ i[2] \in Qids
    BY IdSorts
  <2>2. i[1] = Seed /\ c.cities[i[2]] # Absent /\ db[i] = [records |-> c.cities[i[2]]]
    BY <1>3, <2>1 DEF Stored
  <2>3. c.cities[i[2]] = Recorded(NoRecords, PopulationYears(d, i[2]), Seed)
    BY <2>1, <2>2 DEF ContentsOf
  <2> QED BY <1>2, <2>2, <2>3
<1>4. ASSUME NEW i \in MuseumIds, db[i] # Absent
      PROVE  /\ i[1] = Seed
             /\ db[i].city # Null => db[db[i].city] # Absent
             /\ Range(db[i].records) \subseteq {Seed, Null}
  <2> DEFINE m == c.museums[i[2]]
  <2>1. i \in RowIds /\ i \notin CityIds /\ i # StateId /\ i[2] \in Names
    BY IdSorts
  <2>2. /\ i[1] = Seed /\ m # Absent
        /\ db[i] = [item    |-> m.item,
                    city    |-> IF m.city = Null THEN Null ELSE <<Seed, m.city>>,
                    records |-> m.visitors]
    BY <1>4, <2>1 DEF Stored
  <2>3. i[2] \in MuseumNames(d)
    BY <2>1, <2>2 DEF ContentsOf
  <2>4. /\ m.city = d.museums[Max(Named(d, i[2]))].city
        /\ m.visitors = Recorded(NoRecords, VisitorYears(d, i[2]), Seed)
    BY <2>1, <2>3 DEF ContentsOf
  <2>5. m.city \in Qids \cup {Null}
    BY <1>1, <2>1, <2>3, MuseumContents DEF Writers
  <2>6. m.city # Null => m.city \in CityQids(d)
    <3>1. Max(Named(d, i[2])) \in Named(d, i[2])
      <4>1. Named(d, i[2]) \subseteq 1 .. Len(d.museums) /\ Len(d.museums) \in Nat
        BY <1>1, DataTypes DEF Named
      <4>2. Named(d, i[2]) # {}
        BY <2>3 DEF Named, MuseumNames
      <4> QED BY <4>1, <4>2, MaxBounded
    <3> QED BY <2>4, <3>1 DEF CityQids, Named
  <2>7. ASSUME m.city # Null
        PROVE  db[<<Seed, m.city>>] # Absent
    <3>1. <<Seed, m.city>> \in CityIds /\ <<Seed, m.city>> \in RowIds
          /\ <<Seed, m.city>> \notin MuseumIds /\ m.city \in Qids
      BY <2>5, <2>7, IdSorts DEF Writers
    <3>2. c.cities[m.city] = Recorded(NoRecords, PopulationYears(d, m.city), Seed)
      BY <2>6, <2>7, <3>1 DEF ContentsOf
    <3>3. c.cities[m.city] # Absent
      BY <3>2, NoRecordsType, RecordedType, DistinctAssumption DEF Writers
    <3>4. db[<<Seed, m.city>>] = [records |-> c.cities[m.city]]
      BY <3>1, <3>3 DEF Stored
    <3>5. [records |-> c.cities[m.city]] \in CityRows
      BY <3>2, NoRecordsType, RecordedType DEF CityRows, Writers
    <3> QED BY <3>4, <3>5, RowAssumption DEF Rows
  <2> HIDE DEF m
  <2> QED BY <1>2, <2>2, <2>4, <2>7
<1>5. db[StateId] = [at      |-> 0,
                     museums |-> Len(d.museums),
                     cities  |-> Cardinality(CityQids(d))]
  <2>1. StateId \in RowIds /\ StateId \notin MuseumIds \cup CityIds /\ StateId[1] = Seed
    BY IdSorts DEF StateId
  <2> QED BY <2>1 DEF Stored, ContentsOf
<1> QED BY <1>3, <1>4, <1>5

LEMMA InitInv == Init => IInv
<1> SUFFICES ASSUME Init PROVE IInv
  OBVIOUS
<1>1. TypeOK
  BY InitType
<1>2. LockInv
  BY InitLocks
<1>3. \A r \in Requests : \A i \in RowIds : tx[r][i] = Untouched
  BY DEF Init, NoWrites
<1>4. \A r \in Requests : LoopInv(r)
  BY DEF Init, LoopInv, MappedAreWritten, Mapped, NoCities, BeforeLoops, AfterCities
<1>5. \A r \in Requests : MarkInv(r)
  BY <1>3, IdSorts, RowAssumption DEF Init, MarkInv, TrySteps
<1>6. \A r \in Requests, i \in MuseumIds \cup CityIds : ~Wrote(r, i)
  BY <1>3, IdSorts DEF Wrote
<1>7. CASE db = Stored(EmptyContents) /\ committed = <<>>
  <2>1. \A i \in RowIds : db[i] = Absent
    BY <1>7, IdSorts DEF Stored, EmptyContents
  <2>2. Committers = {}
    BY <1>7 DEF Committers
  <2>3. StateDescribesLatest
    BY <1>7, <2>1, IdSorts DEF StateDescribesLatest
  <2>4. ReferenceInv
    BY <1>6, <2>1, IdSorts DEF ReferenceInv, Init
  <2>5. AuthorInv
    BY <1>6, <2>1, <2>2, IdSorts DEF AuthorInv, Committed
  <2> QED BY <1>1, <1>2, <1>4, <1>5, <2>3, <2>4, <2>5 DEF IInv
<1>8. ASSUME NEW d \in SeedDatasets, db = Stored(ContentsOf(d, Seed, 0)),
             committed = <<[by |-> Seed, at |-> 0, data |-> d]>>
      PROVE  IInv
  <2>1. Committers = {Seed}
    BY <1>8 DEF Committers
  <2>2. StateDescribesLatest
    <3>1. committed # <<>> /\ Latest = [by |-> Seed, at |-> 0, data |-> d]
      BY <1>8 DEF Latest, Last
    <3> QED BY <1>8, <3>1, InitRows
            DEF StateDescribesLatest, LatestContents, ContentsOf
  <2>3. ReferenceInv
    <3>1. ASSUME NEW i \in MuseumIds, db[i] # Absent, db[i].city # Null
          PROVE  db[db[i].city] # Absent /\ db[i].city \in RowIds
      <4>1. i \in RowIds /\ RowsAt(i) = MuseumRows
        BY IdSorts DEF RowsAt
      <4>2. db[i] \in MuseumRows
        BY <1>1, <3>1, <4>1 DEF TypeOK, DbTypeOK, Tables
      <4> QED BY <1>8, <3>1, <4>2, InitRows, IdSorts DEF MuseumRows
    <3> QED BY <1>3, <1>6, <3>1, RowAssumption DEF ReferenceInv, Init
  <2>4. AuthorInv
    <3>1. \A i \in Committed(MuseumIds \cup CityIds) :
              Authors(i, db[i]) \subseteq Committers \cup {Null}
      BY <1>8, <2>1, InitRows DEF Authors, Committed
    <3> QED BY <1>6, <2>1, <3>1, DataAssumption DEF AuthorInv
  <2> QED BY <1>1, <1>2, <1>4, <1>5, <2>2, <2>3, <2>4 DEF IInv
<1> QED BY <1>7, <1>8 DEF Init

LEMMA StepInv ==
    ASSUME IInv, NEW r \in Requests, Step(r)
    PROVE  IInv'
<1>1. TypeOK' /\ LockInv' /\ ReferenceInv' /\ StateDescribesLatest' /\ AuthorInv'
  BY StepType, StepLocks, ReferenceStep, StateStep, AuthorStep DEF IInv
<1>2. ASSUME NEW s \in Requests
      PROVE  LoopInv(s)' /\ MarkInv(s)'
  <2>1. CASE s = r
    BY <2>1, StepLoop, StepMark DEF IInv
  <2>2. CASE s # r
    <3>1. Own(s)' = Own(s)
      BY <2>2, Frame DEF IInv
    <3> QED BY <2>2, <3>1, OthersLoop, OthersMark DEF IInv
  <2> QED BY <2>1, <2>2
<1> QED BY <1>1, <1>2 DEF IInv

(* The clock is no part of the invariant but for its type.                 *)
LEMMA ClockInv ==
    ASSUME IInv, now' \in Nat,
           UNCHANGED <<dbVars, pc, response, input, loop, committed>>
    PROVE  IInv'
<1>1. /\ UNCHANGED <<db, tx>>
      /\ UNCHANGED <<pc, response, forced, pending, data, seen, cursor,
                     cityIds, stamp>>
      /\ committed' = committed
  BY DEF dbVars, input, loop
<1>2. DbTypeOK' /\ LockInv'
  BY <1>1, SameLocks DEF IInv, TypeOK, DbTypeOK, dbVars
<1>3. RequestTypeOK'
  BY <1>1 DEF IInv, TypeOK, RequestTypeOK
<1>4. TypeOK'
  BY <1>1, <1>2, <1>3 DEF IInv, TypeOK
<1>5. ASSUME NEW r \in Requests
      PROVE  LoopInv(r)' /\ MarkInv(r)'
  <2>1. Own(r)' = Own(r) /\ View(r)' = View(r)
    BY <1>1 DEF Own, View
  <2>2. LoopInv(r)'
    BY <2>1, OthersLoop DEF IInv
  <2>3. CitiesCount(r)' = CitiesCount(r)
    BY <1>1 DEF CitiesCount
  <2> QED BY <1>1, <2>1, <2>2, <2>3 DEF IInv, MarkInv
<1>6. ReferenceInv'
  BY <1>1 DEF IInv, ReferenceInv, Wrote, Touched
<1>7. AuthorInv'
  <2>1. Committers' = Committers
    BY <1>1 DEF Committers
  <2> QED BY <1>1, <2>1 DEF IInv, AuthorInv, Wrote, Committed, Authors
<1>8. StateDescribesLatest'
  <2>1. LatestContents.state' = LatestContents.state
    BY <1>1 DEF LatestContents, Latest
  <2> QED BY <1>1, <2>1 DEF IInv, StateDescribesLatest
<1> QED BY <1>2, <1>4, <1>5, <1>6, <1>7, <1>8 DEF IInv

LEMMA NextInv == IInv /\ [Next]_vars => IInv'
<1> SUFFICES ASSUME IInv, [Next]_vars PROVE IInv'
  OBVIOUS
<1>1. now \in Nat
  BY DEF IInv, TypeOK
<1>2. CASE \E r \in Requests : Step(r)
  BY <1>2, StepInv
<1>3. CASE Tick
  <2>1. now' \in Nat
    BY <1>1, <1>3 DEF Tick
  <2> QED BY <1>3, <2>1, ClockInv DEF Tick
<1>4. CASE UNCHANGED vars
  BY <1>1, <1>4, ClockInv DEF vars, ghost
<1> QED BY <1>2, <1>3, <1>4 DEF Next, Finished, Step

(* The invariant of every reachable state.                                 *)
THEOREM Invariant == Spec => []IInv
<1>1. Init => IInv
  BY InitInv
<1>2. IInv /\ [Next]_vars => IInv'
  BY NextInv
<1> QED BY <1>1, <1>2, PTL DEF Spec

-----------------------------------------------------------------------------
(* Whatever the number of requests, the data sets and the interleaving:    *)
(* every row and every local variable of a request is of its type.         *)
THEOREM TypeCorrect == Spec => []TypeOK
<1>1. IInv => TypeOK
  BY DEF IInv
<1> QED BY <1>1, Invariant, PTL

(* Two refreshes never hold uncommitted writes to the same row.            *)
THEOREM LocksCorrect == Spec => []RowLocksExclusive
<1>1. IInv => RowLocksExclusive
  BY DEF IInv, LockInv, KeysExclusive, RowLocksExclusive
<1> QED BY <1>1, Invariant, PTL

(* Concurrent upserts of one key never leave it stored twice.              *)
THEOREM KeysCorrect == Spec => []OneRowPerKey
<1>1. IInv => OneRowPerKey
  BY DEF IInv, LockInv, UniqueKeys, OneRowPerKey, Committed
<1> QED BY <1>1, Invariant, PTL

(* The lookup of a population series always finds its city.                *)
THEOREM PopulationsCorrect == Spec => []PopulationsNeverDropped
<1>1. IInv => PopulationsNeverDropped
  BY PopulationsHeld, HeldIsPresent DEF IInv, PopulationsNeverDropped
<1> QED BY <1>1, Invariant, PTL

(* No museum and no running refresh refers to a city that is gone.         *)
THEOREM ReferencesCorrect == Spec => []NoDanglingCity
<1>1. IInv => NoDanglingCity
  <2> SUFFICES ASSUME IInv PROVE NoDanglingCity
    OBVIOUS
  <2>1. \A i \in Committed(MuseumIds) : db[i].city # Null => db[db[i].city] # Absent
    BY DEF IInv, ReferenceInv, Committed
  <2>2. ASSUME NEW r \in Requests, NEW q \in Qids, cityIds[r][q] # Null
        PROVE  View(r)[cityIds[r][q]] # Absent
    <3>1. Wrote(r, cityIds[r][q])
      BY <2>2 DEF IInv, LoopInv, MappedAreWritten, Mapped
    <3>2. cityIds[r][q] \in RowIds
      BY <2>2, IdSorts DEF IInv, TypeOK, RequestTypeOK
    <3> QED BY <3>1, <3>2 DEF View, Wrote
  <2> QED BY <2>1, <2>2 DEF NoDanglingCity
<1> QED BY <1>1, Invariant, PTL

(* refresh_state is never stale: it is the last committed refresh's.       *)
THEOREM StateCorrect == Spec => []StateDescribesLatest
<1>1. IInv => StateDescribesLatest
  BY DEF IInv
<1> QED BY <1>1, Invariant, PTL

(* A failed refresh leaves no row and no record, and those answered 401,   *)
(* 429, 502 or 503 have failed.                                            *)
THEOREM FailuresCorrect == Spec => []NoTraceOfFailure
<1>1. IInv => NoTraceOfFailure
  BY DEF IInv, AuthorInv, NoTraceOfFailure, Authors
<1> QED BY <1>1, Invariant, PTL

=============================================================================
