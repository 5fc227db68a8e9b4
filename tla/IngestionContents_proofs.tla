---------------------- MODULE IngestionContents_proofs ----------------------
(***************************************************************************)
(* What the database holds after a refresh: the invariant ContentsInv, and *)
(* what follows from it for any number of requests and any data sets.      *)
(***************************************************************************)
EXTENDS IngestionInvariant_proofs

(* Every item is on one row.                                               *)
SameItem(r, i, row) == View(r)[i] # Absent /\ row.item = View(r)[i].item

NewItem(r, i, row) ==
    /\ UpsertMuseum(r)
    /\ i = Target(r, Enrichment(r).name)
    /\ row.item = Enrichment(r).item

(* A row that a step of r writes keeps its item, but for an upsert.        *)
LEMMA WrittenItems ==
    ASSUME IInv, NEW r \in Requests, Step(r),
           NEW i \in MuseumIds, tx'[r][i] \notin {Untouched, Absent}
    PROVE  SameItem(r, i, tx'[r][i]) \/ NewItem(r, i, tx'[r][i])
<1> USE DEF IInv, TypeOK
<1>1. i \in RowIds /\ i # StateId /\ i \notin CityIds
  BY IdSorts
<1>2. CASE tx'[r][i] = tx[r][i]
  BY <1>1, <1>2 DEF View, SameItem
<1>3. CASE EndStep(r)
  <2>1. tx'[r][i] = Untouched
    BY <1>1, <1>3 DEF EndStep, Commit, CommitFails, Rollback, Abandon,
                      Commits, RollsBack, NoWrites, DbTypeOK
  <2> QED BY <2>1
<1>4. CASE WipeStep(r) /\ tx'[r][i] # tx[r][i]
  <2>1. i \in Referring(r, Present(r, seen[r]))
    BY <1>1, <1>4 DEF WipeStep, WipeMuseums, WipeCities, DeleteMuseums,
                      DeleteCities, DbTypeOK
  <2>2. tx'[r][i] = [View(r)[i] EXCEPT !.city = Null]
    BY <1>1, <1>4, <2>1 DEF WipeStep, WipeMuseums, WipeCities, DeleteMuseums,
                            DeleteCities, DbTypeOK
  <2>3. View(r)[i] \in MuseumRows /\ View(r)[i] # Absent
    BY <2>1, ReferringRows DEF Referring, Present
  <2> QED BY <2>2, <2>3 DEF MuseumRows, SameItem
<1>5. CASE UpsertMuseum(r) /\ tx'[r][i] # tx[r][i]
  <2>1. i = Target(r, Enrichment(r).name) /\ tx'[r][i].item = Enrichment(r).item
    BY <1>1, <1>5 DEF UpsertMuseum, Write, DbTypeOK, Tables
  <2> QED BY <1>5, <2>1 DEF NewItem
<1>6. CASE UpsertVisitors(r) /\ tx'[r][i] # tx[r][i]
  <2> DEFINE id  == Target(r, Enrichment(r).name)
             old == View(r)[id]
             row == [old EXCEPT !.records = Recorded(@, Enrichment(r).years, r)]
  <2>1. Looping(r) /\ Holds(r, Enrichment(r).name)
    BY <1>6 DEF UpsertVisitors, LoopInv
  <2>2. old \in MuseumRows /\ old # Absent
    BY <2>1, MuseumTarget, HeldIsPresent DEF Present
  <2>3. i = id /\ tx'[r][i] = row
    BY <1>1, <1>6 DEF UpsertVisitors, Write, DbTypeOK, Tables
  <2> QED BY <2>2, <2>3 DEF MuseumRows, SameItem
<1>7. CASE (\/ UpsertCity(r) \/ UpsertPopulations(r) \/ MarkRefreshed(r)
            \/ FlushState(r) /\ pending[r]) /\ tx'[r][i] # tx[r][i]
  <2>1. CASE UpsertCity(r)
    <3>1. Target(r, Enrichment(r).city) \in CityIds
      BY <2>1, CityWrites
    <3> QED BY <1>1, <1>7, <2>1, <3>1 DEF UpsertCity, Write, DbTypeOK, Tables
  <2>2. CASE UpsertPopulations(r)
    <3>1. Target(r, PopulationsOf(r).city) \in CityIds
      BY <2>2, SeriesType, TargetSort DEF UpsertPopulations, Series
    <3> QED BY <1>1, <1>7, <2>2, <3>1 DEF UpsertPopulations, Write, DbTypeOK, Tables, dbVars
  <2>3. CASE MarkRefreshed(r) \/ (FlushState(r) /\ pending[r])
    BY <1>1, <1>7, <2>3 DEF MarkRefreshed, FlushState, Write, DbTypeOK, Tables, dbVars
  <2> QED BY <1>7, <2>1, <2>2, <2>3
<1> QED BY <1>2, <1>3, <1>4, <1>5, <1>6, <1>7, DbSteps DEF WriteStep, dbVars

(* A row stays locked until the transaction ends.                          *)
LEMMA TouchedStays ==
    ASSUME IInv, NEW r \in Requests, Step(r), ~EndStep(r),
           NEW i \in RowIds, Touched(r, i)
    PROVE  tx'[r][i] # Untouched
BY StepStatement DEF IInv, Statement, Touched, dbVars

(* So it is with what r sees until its transaction ends.                   *)
LEMMA SeenItems ==
    ASSUME IInv, NEW r \in Requests, Step(r), ~EndStep(r),
           NEW i \in MuseumIds, View(r)'[i] # Absent
    PROVE  SameItem(r, i, View(r)'[i]) \/ NewItem(r, i, View(r)'[i])
<1>1. i \in RowIds
  BY IdSorts
<1>2. db' = db
  BY OnlyCommits DEF EndStep
<1>3. CASE tx'[r][i] # Untouched
  <2>1. View(r)'[i] = tx'[r][i]
    BY <1>1, <1>3 DEF View
  <2> QED BY <1>3, <2>1, WrittenItems
<1>4. CASE tx'[r][i] = Untouched
  <2>1. View(r)'[i] = db[i]
    BY <1>1, <1>2, <1>4 DEF View
  <2>2. ~Touched(r, i)
    BY <1>1, <1>4, TouchedStays
  <2> QED BY <1>1, <2>1, <2>2 DEF View, Touched, SameItem
<1> QED BY <1>3, <1>4

(* An item that r upserts is on no row that another transaction has        *)
(* touched, and on no other row that r sees.                               *)
LEMMA UpsertedItem ==
    ASSUME TypeOK, NEW r \in Requests, UpsertMuseum(r), NEW j \in MuseumIds,
           Enrichment(r).item # Null
    PROVE  /\ \A s \in Requests \ {r} :
                  Wrote(s, j) => tx[s][j].item # Enrichment(r).item
           /\ View(r)[j] # Absent /\ j # Target(r, Enrichment(r).name)
                  => View(r)[j].item # Enrichment(r).item
<1>1. Holders(r, ItemRows(Enrichment(r).item)) = {}
  BY DEF UpsertMuseum, Ready, BlockedBy, Needed, Holders
<1>2. ASSUME NEW s \in Requests \ {r}, Wrote(s, j)
      PROVE  tx[s][j].item # Enrichment(r).item
  <2>1. Touched(s, j)
    BY <1>2 DEF Wrote, Touched
  <2>2. j \notin ItemRows(Enrichment(r).item)
    BY <1>1, <2>1 DEF Holders
  <2> QED BY <1>2, <2>2 DEF ItemRows, Carries, Wrote
<1>3. View(r)[j] # Absent /\ j # Target(r, Enrichment(r).name)
          => View(r)[j].item # Enrichment(r).item
  BY DEF UpsertMuseum, ItemTaken, Present
<1> QED BY <1>2, <1>3

LEMMA OwnItems ==
    ASSUME IInv, ItemInv, NEW r \in Requests, Step(r)
    PROVE  UniqueItems(View(r)')
<1>1. CASE EndStep(r)
  <2>1. /\ \A i \in RowIds : tx'[r][i] = Untouched
        /\ db' = View(r) \/ db' = db
    BY <1>1 DEF EndStep, Commit, CommitFails, Rollback, Abandon, Commits,
                RollsBack, NoWrites, IInv, TypeOK, DbTypeOK
  <2>2. \A i \in MuseumIds : View(r)'[i] = db'[i]
    BY <2>1, IdSorts DEF View
  <2> QED BY <2>1, <2>2 DEF ItemInv, UniqueItems
<1>2. CASE ~EndStep(r)
  <2> SUFFICES ASSUME NEW i \in MuseumIds, NEW j \in MuseumIds,
                      View(r)'[i] # Absent, View(r)'[j] # Absent,
                      View(r)'[i].item = View(r)'[j].item, View(r)'[i].item # Null
               PROVE  i = j
    BY DEF UniqueItems
  <2>1. /\ SameItem(r, i, View(r)'[i]) \/ NewItem(r, i, View(r)'[i])
        /\ SameItem(r, j, View(r)'[j]) \/ NewItem(r, j, View(r)'[j])
    BY <1>2, SeenItems
  <2>2. CASE SameItem(r, i, View(r)'[i]) /\ SameItem(r, j, View(r)'[j])
    BY <2>2 DEF SameItem, ItemInv, UniqueItems
  <2>3. CASE NewItem(r, i, View(r)'[i]) /\ SameItem(r, j, View(r)'[j])
    BY <2>3, UpsertedItem DEF NewItem, SameItem, IInv
  <2>4. CASE SameItem(r, i, View(r)'[i]) /\ NewItem(r, j, View(r)'[j])
    BY <2>4, UpsertedItem DEF NewItem, SameItem, IInv
  <2>5. CASE NewItem(r, i, View(r)'[i]) /\ NewItem(r, j, View(r)'[j])
    BY <2>5 DEF NewItem
  <2> QED BY <2>1, <2>2, <2>3, <2>4, <2>5
<1> QED BY <1>1, <1>2

(* What r has written differs in its items from what the others have.      *)
LEMMA WrittenApart ==
    ASSUME IInv, IInv', ItemInv, NEW r \in Requests, Step(r), NEW s \in Requests \ {r},
           NEW i \in MuseumIds, NEW j \in MuseumIds,
           tx'[r][i] \notin {Untouched, Absent}, Wrote(s, j),
           tx'[r][i].item = tx[s][j].item
    PROVE  tx[s][j].item = Null
<1> SUFFICES ASSUME tx[s][j].item # Null PROVE FALSE
  OBVIOUS
<1>1. i \in RowIds /\ j \in RowIds
  BY IdSorts
<1>2. CASE NewItem(r, i, tx'[r][i])
  BY <1>2, UpsertedItem DEF NewItem, IInv
<1>3. CASE SameItem(r, i, tx'[r][i]) /\ tx[r][i] # Untouched
  <2>1. Wrote(r, i) /\ tx[r][i].item = tx[s][j].item
    BY <1>1, <1>3 DEF SameItem, View, Wrote
  <2> QED BY <2>1 DEF ItemInv
<1>4. CASE SameItem(r, i, tx'[r][i]) /\ tx[r][i] = Untouched
  <2>1. db[i] # Absent /\ db[i].item = tx[s][j].item
    BY <1>1, <1>4 DEF SameItem, View
  <2>2. View(s)[j] = tx[s][j] /\ View(s)[j] # Absent
    BY <1>1 DEF View, Wrote
  <2>3. tx[s][i] = Untouched => View(s)[i] = db[i]
    BY <1>1 DEF View
  <2>4. tx[s][i] # Untouched
    BY <2>1, <2>2, <2>3 DEF ItemInv, UniqueItems, Wrote
  <2>5. tx'[s] = tx[s]
    BY Frame DEF IInv, Own
  <2> QED BY <1>1, <2>4, <2>5 DEF IInv, LockInv, KeysExclusive, Touched
<1> QED BY <1>2, <1>3, <1>4, WrittenItems

(* A commit of r puts no second row of an item into what s sees.           *)
LEMMA OthersItems ==
    ASSUME IInv, ItemInv, NEW r \in Requests, Step(r), NEW s \in Requests \ {r}
    PROVE  UniqueItems(View(s)')
<1>1. tx'[s] = tx[s]
  BY Frame DEF IInv, Own
<1>2. CASE ~Commit(r)
  <2>1. db' = db
    BY <1>2, OnlyCommits
  <2>2. View(s)' = View(s)
    BY <1>1, <2>1 DEF View
  <2> QED BY <2>2 DEF ItemInv, UniqueItems
<1>3. CASE Commit(r)
  <2>1. db' = View(r)
    BY <1>3 DEF Commit, Commits
  <2>2. \A i \in MuseumIds : /\ i \in RowIds
                            /\ View(s)'[i] = IF tx[s][i] = Untouched THEN View(r)[i]
                                             ELSE tx[s][i]
    BY <1>1, <2>1, IdSorts DEF View
  <2>3. ASSUME NEW i \in MuseumIds, NEW j \in MuseumIds,
               tx[s][i] = Untouched, tx[s][j] # Untouched,
               View(r)[i] # Absent, tx[s][j] # Absent, tx[s][j].item # Null
        PROVE  View(r)[i].item # tx[s][j].item
    <3>1. CASE tx[r][i] = Untouched
      <4>1. View(r)[i] = db[i] /\ View(s)[i] = db[i] /\ View(s)[j] = tx[s][j]
        BY <2>2, <2>3, <3>1 DEF View
      <4> QED BY <2>3, <4>1 DEF ItemInv, UniqueItems
    <3>2. CASE tx[r][i] # Untouched
      <4>1. View(r)[i] = tx[r][i]
        BY <2>2, <3>2 DEF View
      <4> QED BY <2>3, <3>2, <4>1 DEF ItemInv, Wrote
    <3> QED BY <3>1, <3>2
  <2> SUFFICES ASSUME NEW i \in MuseumIds, NEW j \in MuseumIds,
                      View(s)'[i] # Absent, View(s)'[j] # Absent,
                      View(s)'[i].item = View(s)'[j].item, View(s)'[i].item # Null
               PROVE  i = j
    BY DEF UniqueItems
  <2>4. CASE tx[s][i] = Untouched /\ tx[s][j] = Untouched
    BY <2>2, <2>4 DEF ItemInv, UniqueItems
  <2>5. CASE tx[s][i] # Untouched /\ tx[s][j] # Untouched
    <3>1. /\ View(s)[i] = tx[s][i] /\ View(s)[j] = tx[s][j]
          /\ View(s)'[i] = tx[s][i] /\ View(s)'[j] = tx[s][j]
      BY <2>2, <2>5 DEF View
    <3> QED BY <3>1 DEF ItemInv, UniqueItems
  <2>6. CASE tx[s][i] = Untouched /\ tx[s][j] # Untouched
    BY <2>2, <2>3, <2>6
  <2>7. CASE tx[s][i] # Untouched /\ tx[s][j] = Untouched
    BY <2>2, <2>3, <2>7
  <2> QED BY <2>4, <2>5, <2>6, <2>7
<1> QED BY <1>2, <1>3

LEMMA ItemStep ==
    ASSUME IInv, IInv', ItemInv, NEW r \in Requests, Step(r)
    PROVE  ItemInv'
<1>1. \A s \in Requests : UniqueItems(View(s)')
  BY OwnItems, OthersItems
<1>2. UniqueItems(db')
  <2>1. db' = db \/ db' = View(r)
    BY OnlyCommits DEF Commit, Commits
  <2> QED BY <2>1 DEF ItemInv, UniqueItems
<1>3. ASSUME NEW s \in Requests, NEW t \in Requests,
             NEW i \in MuseumIds, NEW j \in MuseumIds,
             tx'[s][i] \notin {Untouched, Absent}, tx'[t][j] \notin {Untouched, Absent},
             tx'[s][i].item = tx'[t][j].item, tx'[s][i].item # Null
      PROVE  s = t
  <2>1. \A p \in Requests \ {r} : tx'[p] = tx[p]
    BY Frame DEF IInv, Own
  <2>2. CASE s # r /\ t # r
    BY <1>3, <2>1, <2>2 DEF ItemInv, Wrote
  <2>3. CASE s = r /\ t # r
    BY <1>3, <2>1, <2>3, WrittenApart DEF Wrote
  <2>4. CASE s # r /\ t = r
    BY <1>3, <2>1, <2>4, WrittenApart DEF Wrote
  <2> QED BY <2>2, <2>3, <2>4
<1> QED BY <1>1, <1>2, <1>3 DEF ItemInv, UniqueItems, Wrote

-----------------------------------------------------------------------------
(* The rows of the data set.                                               *)
LEMMA KeyIds ==
    /\ \A n \in Names : IdsOf(n) \subseteq MuseumIds
    /\ \A q \in Qids : IdsOf(q) \subseteq CityIds
BY DEF IdsOf, MuseumIds, CityIds

LEMMA DataPlaces ==
    ASSUME TypeOK, NEW r \in Requests
    PROVE  /\ \A k \in DOMAIN data[r].museums :
                  /\ k \in Nat \ {0}
                  /\ data[r].museums[k].name \in Names
                  /\ data[r].museums[k].city \in Qids \cup {Null}
                  /\ data[r].museums[k].years \subseteq Years
           /\ \A k \in DOMAIN data[r].populations :
                  /\ k \in Nat \ {0}
                  /\ data[r].populations[k].city \in CityQids(data[r])
                  /\ data[r].populations[k].city \in Qids
                  /\ data[r].populations[k].years \subseteq Years
<1>1. data[r] \in Datasets \cup {NoData}
  BY DEF TypeOK, RequestTypeOK
<1>2. data[r].museums \in Seq(Enrichments) /\ data[r].populations \in Seq(Series)
  BY <1>1, DataTypes
<1>3. ASSUME NEW k \in DOMAIN data[r].museums
      PROVE  k \in Nat \ {0} /\ data[r].museums[k] \in Enrichments
  BY <1>2
<1>4. ASSUME NEW k \in DOMAIN data[r].populations
      PROVE  k \in Nat \ {0} /\ data[r].populations[k] \in Series
  BY <1>2
<1>5. ASSUME NEW k \in DOMAIN data[r].populations
      PROVE  data[r].populations[k].city \in CityQids(data[r])
  <2>1. data[r] # NoData
    BY <1>5 DEF NoData
  <2> QED BY <1>1, <2>1, DataAssumption
<1> QED BY <1>3, <1>4, <1>5 DEF Enrichments, Series

(* Nothing changes for the museums of s.                                   *)
LEMMA MuseumsKept ==
    ASSUME TypeOK, NEW s \in Requests, MuseumsWritten(s),
           data'[s] = data[s], cityIds'[s] = cityIds[s],
           Upserted(s)' = Upserted(s), Visited(s)' = Visited(s),
           \A i \in MuseumIds : tx'[s][i] = tx[s][i]
    PROVE  MuseumsWritten(s)'
<1>1. \A k \in DOMAIN data[s].museums :
          IdsOf(data[s].museums[k].name) \subseteq MuseumIds
  BY DataPlaces, KeyIds
<1>2. Upserted(s) \subseteq DOMAIN data[s].museums /\ Visited(s) \subseteq DOMAIN data[s].museums
  BY DEF Upserted, Visited
<1> QED BY <1>1, <1>2 DEF MuseumsWritten, LastUpserted, Holds, Wrote

LEMMA PopulationsKept ==
    ASSUME TypeOK, NEW s \in Requests, PopulationsWritten(s),
           data'[s] = data[s], Peopled(s)' = Peopled(s),
           \A i \in CityIds : tx'[s][i] = tx[s][i]
    PROVE  PopulationsWritten(s)'
<1>1. \A k \in DOMAIN data[s].populations :
          IdsOf(data[s].populations[k].city) \subseteq CityIds
  BY DataPlaces, KeyIds
<1>2. Peopled(s) \subseteq DOMAIN data[s].populations
  BY DEF Peopled
<1> QED BY <1>1, <1>2 DEF PopulationsWritten, Wrote

LEMMA OthersWritten ==
    ASSUME TypeOK, NEW s \in Requests, MuseumsWritten(s), PopulationsWritten(s),
           Own(s)' = Own(s)
    PROVE  MuseumsWritten(s)' /\ PopulationsWritten(s)'
<1>1. /\ Upserted(s)' = Upserted(s) /\ Visited(s)' = Visited(s)
      /\ Peopled(s)' = Peopled(s)
  BY DEF Own, Upserted, Visited, Peopled
<1> QED BY <1>1, MuseumsKept, PopulationsKept DEF Own

(* Of the rows of a key, r has written one.                                *)
LEMMA OneWritten ==
    ASSUME LockInv', NEW r \in Requests, NEW i \in RowIds, NEW j \in RowIds,
           i[2] = j[2], tx'[r][i] \notin {Untouched, Absent},
           tx'[r][j] \notin {Untouched, Absent}
    PROVE  i = j
<1>1. View(r)'[i] # Absent /\ View(r)'[j] # Absent
  BY DEF View
<1> QED BY <1>1 DEF LockInv, UniqueKeys

(* The row of a museum that r has upserted is where it lands again.        *)
LEMMA HeldMuseum ==
    ASSUME IInv, NEW r \in Requests, Looping(r), Holds(r, Enrichment(r).name)
    PROVE  /\ Wrote(r, Target(r, Enrichment(r).name))
           /\ View(r)[Target(r, Enrichment(r).name)] = tx[r][Target(r, Enrichment(r).name)]
           /\ tx[r][Target(r, Enrichment(r).name)] \in MuseumRows
<1> DEFINE id == Target(r, Enrichment(r).name)
<1>1. id \in RowIds /\ View(r)[id] \in MuseumRows \cup {Absent}
  BY MuseumTarget DEF IInv
<1>2. tx[r][id] \notin {Untouched, Absent}
  BY <1>1, HeldTarget DEF IInv
<1>3. View(r)[id] = tx[r][id]
  BY <1>1, <1>2 DEF View
<1> QED BY <1>1, <1>2, <1>3 DEF Wrote

LEMMA UpsertWritten ==
    ASSUME IInv, LockInv', NEW r \in Requests, UpsertMuseum(r), MuseumsWritten(r)
    PROVE  MuseumsWritten(r)'
<1>t. TypeOK /\ DbTypeOK /\ pc \in [Requests -> Steps]
  BY DEF IInv, TypeOK, RequestTypeOK
<1>a. PICK e : e = Enrichment(r)
  OBVIOUS
<1>b. PICK id : id = Target(r, e.name)
  OBVIOUS
<1>1. /\ pc[r] = "museums" /\ pc'[r] = "visitors" /\ Looping(r)
      /\ UNCHANGED <<cityIds, data, cursor>>
  BY <1>t DEF UpsertMuseum, Ready, Goto, input, loop
<1>2. /\ e = data[r].museums[cursor[r]] /\ cursor[r] \in DOMAIN data[r].museums
      /\ cursor[r] \in Nat
  BY <1>t, <1>a, <1>1, DataPlaces DEF Looping, Enrichment
<1>3. /\ \A k \in Upserted(r) : k \in DOMAIN data[r].museums /\ k \in Nat /\ k < cursor[r]
      /\ Upserted(r)' = Upserted(r) \cup {cursor[r]}
      /\ Visited(r)' = Visited(r) /\ Visited(r) \subseteq Upserted(r)
  BY <1>t, <1>1, <1>2, DataPlaces DEF Upserted, Visited, AfterMuseums
<1>4. Writes(r, id) /\ id \in RowIds
  BY <1>t, <1>a, <1>b, MuseumWrites DEF Writes
<1>5. /\ tx'[r][id].item = e.item /\ tx'[r][id].city = CityId(r)
      /\ tx'[r][id].records = IF View(r)[id] = Absent THEN NoRecords
                              ELSE View(r)[id].records
      /\ \A i \in RowIds \ {id} : tx'[r][i] = tx[r][i]
  BY <1>t, <1>a, <1>b, <1>4 DEF UpsertMuseum, Write, DbTypeOK, Tables
<1>6. \A i \in RowIds : Wrote(r, i) \/ i = id => tx'[r][i] \notin {Untouched, Absent}
  BY <1>t, <1>4, WrittenStays
<1>7. id \in IdsOf(e.name) /\ id[2] = e.name
  BY <1>b, TargetKey
<1>8. \A k \in DOMAIN data[r].museums : \A i \in IdsOf(data[r].museums[k].name) :
          i \in RowIds /\ i[2] = data[r].museums[k].name
  BY <1>t, DataPlaces, KeyIds, IdSorts, IdsOfKey
<1>9. ASSUME NEW k \in Upserted(r)'
      PROVE  Holds(r, data[r].museums[k].name)'
  BY <1>1, <1>2, <1>3, <1>4, <1>6, <1>7 DEF MuseumsWritten, Holds, Wrote
<1>10. ASSUME NEW k \in Upserted(r)', NEW i \in IdsOf(data[r].museums[k].name),
              Wrote(r, i)', LastUpserted(r, k)'
       PROVE  /\ tx'[r][i].item = data[r].museums[k].item
              /\ tx'[r][i].city = IF data[r].museums[k].city = Null THEN Null
                                  ELSE cityIds[r][data[r].museums[k].city]
  <2>1. i \in RowIds /\ i[2] = data[r].museums[k].name
    BY <1>2, <1>3, <1>8, <1>10
  <2>2. CASE k = cursor[r]
    <3>1. i = id
      BY <1>2, <1>4, <1>6, <1>7, <1>10, <2>1, <2>2, OneWritten DEF Wrote
    <3> QED BY <1>a, <1>2, <1>5, <2>2, <3>1 DEF CityId
  <2>3. CASE k # cursor[r]
    <3>1. k \in Upserted(r) /\ k < cursor[r]
      BY <1>3, <2>3
    <3>2. data[r].museums[k].name # e.name
      <4>1. cursor[r] \in Upserted(r)' /\ ~(cursor[r] <= k) /\ data' = data
        BY <1>1, <1>2, <1>3, <3>1
      <4> QED BY <1>2, <1>10, <4>1 DEF LastUpserted
    <3>3. tx'[r][i] = tx[r][i]
      BY <1>5, <1>7, <2>1, <3>2
    <3>4. LastUpserted(r, k)
      BY <1>1, <1>3, <1>10 DEF LastUpserted
    <3> QED BY <1>10, <3>1, <3>3, <3>4 DEF MuseumsWritten, Wrote
  <2> QED BY <2>2, <2>3
<1>11. ASSUME NEW k \in Visited(r), NEW i \in IdsOf(data[r].museums[k].name),
              Wrote(r, i)', NEW y \in data[r].museums[k].years
       PROVE  tx'[r][i].records[y] = r
  <2>1. i \in RowIds /\ i[2] = data[r].museums[k].name
    BY <1>3, <1>8, <1>11
  <2>2. CASE i # id
    <3>1. tx'[r][i] = tx[r][i] /\ Wrote(r, i)
      BY <1>5, <1>11, <2>1, <2>2 DEF Wrote
    <3> QED BY <1>11, <3>1 DEF MuseumsWritten
  <2>3. CASE i = id
    <3>1. Holds(r, e.name)
      BY <1>3, <1>7, <2>1, <2>3 DEF MuseumsWritten
    <3>2. Wrote(r, id) /\ View(r)[id] = tx[r][id]
      BY <1>1, <3>1, <1>a, <1>b, HeldMuseum
    <3>3. tx'[r][id].records = tx[r][id].records
      BY <1>5, <3>2 DEF Wrote
    <3> QED BY <1>11, <2>3, <3>2, <3>3 DEF MuseumsWritten
  <2> QED BY <2>2, <2>3
<1> QED BY <1>1, <1>3, <1>9, <1>10, <1>11 DEF MuseumsWritten

LEMMA VisitorsWritten ==
    ASSUME IInv, LockInv', NEW r \in Requests, UpsertVisitors(r), MuseumsWritten(r)
    PROVE  MuseumsWritten(r)'
<1>t. /\ TypeOK /\ DbTypeOK /\ LoopInv(r)
      /\ pc \in [Requests -> Steps] /\ cursor \in [Requests -> Nat \ {0}]
  BY DEF IInv, TypeOK, RequestTypeOK
<1>a. PICK e : e = Enrichment(r)
  OBVIOUS
<1>b. PICK id : id = Target(r, e.name)
  OBVIOUS
<1>1. /\ pc[r] = "visitors" /\ pc'[r] = "museums" /\ Looping(r)
      /\ Holds(r, e.name) /\ cursor'[r] = cursor[r] + 1
      /\ UNCHANGED <<cityIds, data>>
  BY <1>t, <1>a DEF UpsertVisitors, Goto, input, LoopInv
<1>2. /\ e = data[r].museums[cursor[r]] /\ cursor[r] \in DOMAIN data[r].museums
      /\ cursor[r] \in Nat /\ e.years \subseteq Years
  BY <1>t, <1>a, <1>1, DataPlaces DEF Looping, Enrichment
<1>3. /\ \A k \in Upserted(r) : k \in DOMAIN data[r].museums
      /\ Upserted(r)' = Upserted(r)
      /\ Visited(r)' = Visited(r) \cup {cursor[r]}
      /\ Visited(r)' \subseteq Upserted(r)
  <2>1. ASSUME NEW k \in DOMAIN data[r].museums
        PROVE  k < cursor[r] + 1 <=> k < cursor[r] \/ k = cursor[r]
    <3>1. k \in Nat
      BY <1>t, DataPlaces
    <3> QED BY <1>2, <3>1
  <2>2. /\ Upserted(r) = {k \in DOMAIN data[r].museums : k < cursor[r] \/ k = cursor[r]}
        /\ Visited(r) = {k \in DOMAIN data[r].museums : k < cursor[r]}
    BY <1>1 DEF Upserted, Visited, AfterMuseums
  <2>3. /\ Upserted(r)' = {k \in DOMAIN data[r].museums : k < cursor[r] + 1}
        /\ Visited(r)' = {k \in DOMAIN data[r].museums : k < cursor[r] + 1}
    BY <1>1 DEF Upserted, Visited, AfterMuseums
  <2> QED BY <1>2, <2>1, <2>2, <2>3
<1>4. /\ id \in RowIds /\ Writes(r, id)
      /\ Wrote(r, id) /\ View(r)[id] = tx[r][id] /\ tx[r][id] \in MuseumRows
  BY <1>t, <1>a, <1>b, <1>1, VisitorsWrites, HeldMuseum DEF Writes
<1>5. /\ tx'[r][id] = [tx[r][id] EXCEPT !.records = Recorded(@, e.years, r)]
      /\ \A i \in RowIds \ {id} : tx'[r][i] = tx[r][i]
  BY <1>t, <1>a, <1>b, <1>4 DEF UpsertVisitors, Write, DbTypeOK, Tables
<1>6. /\ tx'[r][id].item = tx[r][id].item /\ tx'[r][id].city = tx[r][id].city
      /\ \A y \in Years : tx'[r][id].records[y] =
              IF y \in e.years THEN r ELSE tx[r][id].records[y]
  BY <1>4, <1>5 DEF MuseumRows, Recorded
<1>7. \A i \in RowIds : Wrote(r, i)' => Wrote(r, i)
  BY <1>4, <1>5 DEF Wrote
<1>8. \A i \in RowIds : Wrote(r, i) => tx'[r][i] \notin {Untouched, Absent}
  BY <1>t, <1>4, WrittenStays
<1>9. \A k \in DOMAIN data[r].museums : \A i \in IdsOf(data[r].museums[k].name) :
          i \in RowIds /\ i[2] = data[r].museums[k].name
  BY <1>t, DataPlaces, KeyIds, IdSorts, IdsOfKey
<1>10. ASSUME NEW k \in Upserted(r)
       PROVE  Holds(r, data[r].museums[k].name)'
  <2>1. Holds(r, data[r].museums[k].name)
    BY <1>10 DEF MuseumsWritten
  <2> QED BY <1>1, <1>8, <2>1 DEF Holds, Wrote
<1>11. ASSUME NEW k \in Upserted(r), NEW i \in IdsOf(data[r].museums[k].name),
              Wrote(r, i)', LastUpserted(r, k)'
       PROVE  /\ tx'[r][i].item = data[r].museums[k].item
              /\ tx'[r][i].city = IF data[r].museums[k].city = Null THEN Null
                                  ELSE cityIds[r][data[r].museums[k].city]
  <2>1. i \in RowIds
    BY <1>3, <1>9
  <2>2. tx'[r][i].item = tx[r][i].item /\ tx'[r][i].city = tx[r][i].city
    BY <1>5, <1>6, <2>1
  <2>3. LastUpserted(r, k) /\ Wrote(r, i)
    BY <1>1, <1>3, <1>7, <1>11, <2>1 DEF LastUpserted
  <2> QED BY <2>2, <2>3 DEF MuseumsWritten
<1>12. ASSUME NEW k \in Visited(r)', NEW i \in IdsOf(data[r].museums[k].name),
              Wrote(r, i)', NEW y \in data[r].museums[k].years
       PROVE  tx'[r][i].records[y] = r
  <2>1. i \in RowIds /\ i[2] = data[r].museums[k].name /\ y \in Years
    BY <1>t, <1>3, <1>9, DataPlaces
  <2>2. CASE k = cursor[r]
    <3>1. id[2] = e.name /\ tx'[r][id] \notin {Untouched, Absent}
      BY <1>b, <1>4, <1>8, TargetKey
    <3>2. i = id
      BY <1>2, <1>4, <1>12, <2>1, <2>2, <3>1, OneWritten DEF Wrote
    <3> QED BY <1>2, <1>6, <1>12, <2>1, <2>2, <3>2
  <2>3. CASE k # cursor[r]
    <3>1. k \in Visited(r) /\ Wrote(r, i)
      BY <1>3, <1>7, <1>12, <2>1, <2>3
    <3>2. tx[r][i].records[y] = r
      BY <1>12, <3>1 DEF MuseumsWritten
    <3> QED BY <1>5, <1>6, <2>1, <3>2
  <2> QED BY <2>2, <2>3
<1> QED BY <1>1, <1>3, <1>10, <1>11, <1>12 DEF MuseumsWritten

(* Every other step of r leaves the museums it has written alone, or has   *)
(* written none yet, or is the end.                                        *)
LEMMA StepMuseums ==
    ASSUME IInv, IInv', NEW r \in Requests, Step(r), MuseumsWritten(r)
    PROVE  MuseumsWritten(r)'
<1>t. /\ TypeOK /\ DbTypeOK /\ LockInv' /\ LoopInv(r)
      /\ pc \in [Requests -> Steps] /\ cursor \in [Requests -> Nat \ {0}]
  BY DEF IInv, TypeOK, RequestTypeOK
<1>1. CASE pc'[r] \notin {"museums", "visitors"} \cup AfterMuseums
  BY <1>1 DEF MuseumsWritten, Upserted, Visited
<1>2. CASE LeaveLoop(r, "cities", "museums")
  <2>1. pc'[r] = "museums" /\ cursor'[r] = 1 /\ data' = data
    BY <1>t, <1>2 DEF LeaveLoop, Goto, input
  <2>2. Upserted(r)' = {} /\ Visited(r)' = {}
    BY <1>t, <2>1, DataPlaces DEF Upserted, Visited, AfterMuseums
  <2> QED BY <2>2 DEF MuseumsWritten
<1>3. CASE UpsertMuseum(r)
  BY <1>t, <1>3, UpsertWritten
<1>4. CASE UpsertVisitors(r)
  BY <1>t, <1>4, VisitorsWritten
<1>5. CASE LeaveLoop(r, "museums", "populations")
  <2>1. /\ pc[r] = "museums" /\ pc'[r] = "populations" /\ ~Looping(r)
        /\ UNCHANGED <<data, cityIds, tx>>
    BY <1>t, <1>5 DEF LeaveLoop, Goto, input, dbVars
  <2>2. \A k \in DOMAIN data[r].museums : k < cursor[r]
    BY <1>t, <2>1, ListPlaces DEF Looping
  <2>3. Upserted(r)' = Upserted(r) /\ Visited(r)' = Visited(r)
    BY <2>1, <2>2 DEF Upserted, Visited, AfterMuseums
  <2> QED BY <1>t, <2>1, <2>3, MuseumsKept
<1>6. CASE \/ UpsertPopulations(r) \/ LeaveLoop(r, "populations", "stamp")
           \/ Stamp(r) \/ MarkRefreshed(r)
  <2>1. /\ pc[r] \in AfterMuseums /\ pc'[r] \in AfterMuseums
        /\ UNCHANGED <<data, cityIds>>
    BY <1>t, <1>6 DEF UpsertPopulations, LeaveLoop, Stamp, MarkRefreshed, Ready,
                Goto, AfterMuseums, input, loop
  <2>2. Upserted(r)' = Upserted(r) /\ Visited(r)' = Visited(r)
    BY <2>1 DEF Upserted, Visited, AfterMuseums
  <2>3. ASSUME NEW i \in MuseumIds
        PROVE  tx'[r][i] = tx[r][i]
    <3>1. i \in RowIds /\ i # StateId /\ i \notin CityIds
      BY IdSorts
    <3>2. CASE UpsertPopulations(r)
      <4>1. Target(r, PopulationsOf(r).city) \in CityIds
        BY <1>t, <3>2, SeriesType, TargetSort DEF UpsertPopulations, Series
      <4> QED BY <1>t, <3>1, <3>2, <4>1
              DEF UpsertPopulations, Write, DbTypeOK, Tables, dbVars
    <3>3. CASE LeaveLoop(r, "populations", "stamp") \/ Stamp(r) \/ MarkRefreshed(r)
      BY <1>t, <3>1, <3>3 DEF LeaveLoop, Stamp, MarkRefreshed, Write, DbTypeOK,
                              Tables, dbVars
    <3> QED BY <1>6, <3>2, <3>3
  <2> QED BY <1>t, <2>1, <2>2, <2>3, MuseumsKept
<1>7. CASE \E answer : Finish(r, answer) \/ Fail(r, answer)
  <2>1. pc'[r] \in {"done", "rollback"}
    BY <1>t, <1>7 DEF Finish, Fail
  <2> QED BY <1>1, <2>1 DEF AfterMuseums
<1>8. CASE \/ Arrive(r) \/ PassCooldown(r) \/ FetchData(r) \/ FlushState(r)
           \/ StartWipeMuseums(r) \/ StartWipeCities(r) \/ WipeStep(r)
           \/ SkipCity(r) \/ UpsertCity(r)
  <2>1. pc'[r] \in BeforeLoops \cup {"cities"}
    BY <1>t, <1>8 DEF Arrive, PassCooldown, FetchData, FlushState,
                StartWipeMuseums, StartWipeCities, StartWipe, WipeStep,
                WipeMuseums, WipeCities, SkipCity, UpsertCity, Ready, Goto,
                BeforeLoops
  <2> QED BY <1>1, <2>1 DEF BeforeLoops, AfterMuseums
<1> QED BY <1>2, <1>3, <1>4, <1>5, <1>6, <1>7, <1>8
        DEF Step, Proceed, Disturb, WipeStep, Unauthorized, RefuseCooldown,
            CheckFails, FetchFails, FlushConflict, ItemConflict, Commit,
            CommitFails, StatementFails, DeadlockVictim, Rollback, Abandon

-----------------------------------------------------------------------------
(* The city of a series is a row that r has written.                       *)
LEMMA SeriesWritten ==
    ASSUME IInv, LockInv', NEW r \in Requests, UpsertPopulations(r),
           PopulationsWritten(r)
    PROVE  PopulationsWritten(r)'
<1>t. /\ TypeOK /\ DbTypeOK /\ LoopInv(r)
      /\ pc \in [Requests -> Steps] /\ cursor \in [Requests -> Nat \ {0}]
  BY DEF IInv, TypeOK, RequestTypeOK
<1>a. PICK e : e = PopulationsOf(r)
  OBVIOUS
<1>b. PICK id : id = Target(r, e.city)
  OBVIOUS
<1>1. /\ pc[r] = "populations" /\ pc'[r] = "populations" /\ CountingPeople(r)
      /\ cursor'[r] = cursor[r] + 1 /\ UNCHANGED data
  BY <1>t DEF UpsertPopulations, input
<1>2. /\ e = data[r].populations[cursor[r]]
      /\ cursor[r] \in DOMAIN data[r].populations
      /\ cursor[r] \in Nat /\ e.city \in Qids /\ e.years \subseteq Years
  BY <1>t, <1>a, <1>1, DataPlaces DEF CountingPeople, PopulationsOf
<1>3. /\ Peopled(r) \subseteq DOMAIN data[r].populations
      /\ Peopled(r)' = Peopled(r) \cup {cursor[r]}
  <2>1. ASSUME NEW k \in DOMAIN data[r].populations
        PROVE  k < cursor[r] + 1 <=> k < cursor[r] \/ k = cursor[r]
    <3>1. k \in Nat
      BY <1>t, DataPlaces
    <3> QED BY <1>2, <3>1
  <2> QED BY <1>1, <1>2, <2>1 DEF Peopled
<1>4. Holds(r, e.city)
  BY <1>t, <1>a, <1>1, PopulationsHeld
<1>5. /\ id \in CityIds /\ id \in RowIds /\ id[2] = e.city
      /\ View(r)[id] \in CityRows \cup {Absent} /\ View(r)[id] # Absent
  <2>1. id \in CityIds /\ id[2] = e.city
    BY <1>t, <1>b, <1>2, TargetSort, TargetKey
  <2>2. id \in RowIds /\ RowsAt(id) = CityRows
    BY <1>b, <1>2, TargetSort
  <2>3. View(r)[id] \in RowsAt(id) \cup {Absent}
    BY <1>t, <2>2, ViewType DEF Tables
  <2>4. View(r)[id] # Absent
    BY <1>t, <1>b, <1>4, HeldIsPresent DEF Present
  <2> QED BY <2>1, <2>2, <2>3, <2>4
<1>6. /\ Wrote(r, id) /\ View(r)[id] = tx[r][id] /\ tx[r][id] \in CityRows
  <2>1. Wrote(r, id)
    BY <1>b, <1>4, <1>5, HeldTarget DEF IInv, Wrote
  <2> QED BY <1>5, <2>1 DEF View, Wrote
<1>7. /\ tx'[r][id] = [records |-> Recorded(tx[r][id].records, e.years, r)]
      /\ \A i \in RowIds \ {id} : tx'[r][i] = tx[r][i]
  BY <1>t, <1>a, <1>b, <1>5, <1>6 DEF UpsertPopulations, Write, DbTypeOK, Tables
<1>8. \A y \in Years : tx'[r][id].records[y] =
          IF y \in e.years THEN r ELSE tx[r][id].records[y]
  BY <1>7 DEF Recorded
<1>9. \A k \in DOMAIN data[r].populations :
          \A i \in IdsOf(data[r].populations[k].city) :
              i \in RowIds /\ i[2] = data[r].populations[k].city
  BY <1>t, DataPlaces, KeyIds, IdSorts, IdsOfKey
<1>10. \A i \in RowIds : Wrote(r, i)' => Wrote(r, i)
  BY <1>6, <1>7 DEF Wrote
<1>11. tx'[r][id] \notin {Untouched, Absent}
  <2>1. tx'[r][id] \in Rows
    BY <1>6, <1>7, RecordedType DEF CityRows, Rows, Writers
  <2> QED BY <2>1, RowAssumption
<1>12. ASSUME NEW k \in Peopled(r)', NEW i \in IdsOf(data[r].populations[k].city),
              Wrote(r, i)', NEW y \in data[r].populations[k].years
       PROVE  tx'[r][i].records[y] = r
  <2>1. i \in RowIds /\ i[2] = data[r].populations[k].city /\ y \in Years
    BY <1>t, <1>2, <1>3, <1>9, DataPlaces
  <2>2. CASE k = cursor[r]
    <3>1. i = id
      BY <1>2, <1>5, <1>11, <1>12, <2>1, <2>2, OneWritten DEF Wrote
    <3> QED BY <1>2, <1>8, <1>12, <2>1, <2>2, <3>1
  <2>3. CASE k # cursor[r]
    <3>1. k \in Peopled(r) /\ Wrote(r, i)
      BY <1>3, <1>10, <1>12, <2>1, <2>3
    <3>2. tx[r][i].records[y] = r
      BY <1>12, <3>1 DEF PopulationsWritten
    <3> QED BY <1>7, <1>8, <2>1, <3>2
  <2> QED BY <2>2, <2>3
<1> QED BY <1>1, <1>12 DEF PopulationsWritten

LEMMA StepPopulations ==
    ASSUME IInv, IInv', NEW r \in Requests, Step(r), PopulationsWritten(r)
    PROVE  PopulationsWritten(r)'
<1>t. /\ TypeOK /\ DbTypeOK /\ LockInv'
      /\ pc \in [Requests -> Steps] /\ cursor \in [Requests -> Nat \ {0}]
  BY DEF IInv, TypeOK, RequestTypeOK
<1>1. CASE pc'[r] \notin {"populations", "stamp", "mark", "commit"}
  BY <1>1 DEF PopulationsWritten, Peopled
<1>2. CASE LeaveLoop(r, "museums", "populations")
  <2>1. pc'[r] = "populations" /\ cursor'[r] = 1 /\ data' = data
    BY <1>t, <1>2 DEF LeaveLoop, Goto, input
  <2>2. Peopled(r)' = {}
    BY <1>t, <2>1, DataPlaces DEF Peopled
  <2> QED BY <2>2 DEF PopulationsWritten
<1>3. CASE UpsertPopulations(r)
  BY <1>t, <1>3, SeriesWritten
<1>4. CASE LeaveLoop(r, "populations", "stamp")
  <2>1. /\ pc[r] = "populations" /\ pc'[r] = "stamp" /\ ~CountingPeople(r)
        /\ UNCHANGED <<data, tx>>
    BY <1>t, <1>4 DEF LeaveLoop, Goto, input, dbVars
  <2>2. \A k \in DOMAIN data[r].populations : k < cursor[r]
    <3>1. data[r].populations \in Seq(Series)
      BY <1>t, DataTypes DEF TypeOK, RequestTypeOK
    <3>2. cursor[r] \in Nat \ {0}
      BY <1>t
    <3> QED BY <2>1, <3>1, <3>2 DEF CountingPeople
  <2>3. Peopled(r)' = Peopled(r)
    BY <2>1, <2>2 DEF Peopled
  <2> QED BY <1>t, <2>1, <2>3, PopulationsKept
<1>5. CASE Stamp(r) \/ MarkRefreshed(r)
  <2>1. /\ pc[r] \in {"stamp", "mark"} /\ pc'[r] \in {"mark", "commit"}
        /\ UNCHANGED data
    BY <1>t, <1>5 DEF Stamp, MarkRefreshed, Ready, Goto, input
  <2>2. Peopled(r)' = Peopled(r)
    BY <2>1 DEF Peopled
  <2>3. ASSUME NEW i \in CityIds
        PROVE  tx'[r][i] = tx[r][i]
    <3>1. i \in RowIds /\ i # StateId
      BY IdSorts
    <3> QED BY <1>t, <1>5, <3>1 DEF Stamp, MarkRefreshed, Write, DbTypeOK,
                                    Tables, dbVars
  <2> QED BY <1>t, <2>1, <2>2, <2>3, PopulationsKept
<1>6. CASE \E answer : Finish(r, answer) \/ Fail(r, answer)
  <2>1. pc'[r] \in {"done", "rollback"}
    BY <1>t, <1>6 DEF Finish, Fail
  <2> QED BY <1>1, <2>1
<1>7. CASE \/ Arrive(r) \/ PassCooldown(r) \/ FetchData(r) \/ FlushState(r)
           \/ StartWipeMuseums(r) \/ StartWipeCities(r) \/ WipeStep(r)
           \/ SkipCity(r) \/ UpsertCity(r) \/ LeaveLoop(r, "cities", "museums")
           \/ UpsertMuseum(r) \/ UpsertVisitors(r)
  <2>1. pc'[r] \in BeforeLoops \cup {"cities", "museums", "visitors"}
    BY <1>t, <1>7 DEF Arrive, PassCooldown, FetchData, FlushState,
                StartWipeMuseums, StartWipeCities, StartWipe, WipeStep,
                WipeMuseums, WipeCities, SkipCity, UpsertCity, LeaveLoop,
                UpsertMuseum, UpsertVisitors, Ready, Goto, BeforeLoops
  <2> QED BY <1>1, <2>1 DEF BeforeLoops
<1> QED BY <1>2, <1>3, <1>4, <1>5, <1>6, <1>7
        DEF Step, Proceed, Disturb, WipeStep, Unauthorized, RefuseCooldown,
            CheckFails, FetchFails, FlushConflict, ItemConflict, Commit,
            CommitFails, StatementFails, DeadlockVictim, Rollback, Abandon

-----------------------------------------------------------------------------
(* The clock.                                                              *)
LEMMA StepClock ==
    ASSUME NEW r \in Requests, Step(r)
    PROVE  UNCHANGED <<now, forced>>
BY DEF Step, Proceed, Disturb, Arrive, Unauthorized, RefuseCooldown,
       CheckFails, PassCooldown, FetchData, FetchFails, FlushConflict, FlushState,
       StartWipeMuseums, StartWipeCities, StartWipe, SkipCity, LeaveLoop,
       ItemConflict, Stamp, DeadlockVictim, StatementFails, Fail, Finish, Goto,
       CommitFails, Rollback, Abandon, WipeMuseums, WipeCities, UpsertCity,
       UpsertMuseum, UpsertVisitors, UpsertPopulations, MarkRefreshed, Commit,
       input, loop, ghost

LEMMA CleanStep ==
    ASSUME IInv, TimeInv, NEW r \in Requests, Step(r),
           pc'[r] \in {"idle", "check", "fetch", "done"}
    PROVE  tx'[r] = NoWrites
<1>t. DbTypeOK /\ pc \in [Requests -> Steps]
  BY DEF IInv, TypeOK, RequestTypeOK
<1>1. CASE EndStep(r)
  BY <1>t, <1>1 DEF EndStep, Commit, CommitFails, Rollback, Abandon, Commits,
                    RollsBack, DbTypeOK
<1>2. CASE \/ Arrive(r) \/ Unauthorized(r) \/ PassCooldown(r) \/ RefuseCooldown(r)
           \/ CheckFails(r)
  <2>1. pc[r] \in {"idle", "check"} /\ UNCHANGED dbVars
    BY <1>2 DEF Arrive, Unauthorized, PassCooldown, RefuseCooldown, CheckFails
  <2> QED BY <2>1 DEF TimeInv, dbVars
<1>3. CASE \/ FetchData(r) \/ FlushState(r) \/ StartWipeMuseums(r)
           \/ StartWipeCities(r) \/ WipeStep(r) \/ SkipCity(r) \/ UpsertCity(r)
           \/ LeaveLoop(r, "cities", "museums") \/ UpsertMuseum(r)
           \/ UpsertVisitors(r) \/ LeaveLoop(r, "museums", "populations")
           \/ UpsertPopulations(r) \/ LeaveLoop(r, "populations", "stamp")
           \/ Stamp(r) \/ MarkRefreshed(r)
  <2>1. pc'[r] \in TrySteps \cup {"commit"} /\ pc'[r] # "fetch"
    BY <1>t, <1>3 DEF FetchData, FlushState, StartWipeMuseums, StartWipeCities,
          StartWipe, WipeStep, WipeMuseums, WipeCities, SkipCity, UpsertCity,
          LeaveLoop, UpsertMuseum, UpsertVisitors, UpsertPopulations, Stamp,
          MarkRefreshed, Ready, Goto, TrySteps, Steps
  <2> QED BY <2>1 DEF TrySteps
<1>4. CASE \E answer : Fail(r, answer)
  BY <1>t, <1>4 DEF Fail
<1> QED BY <1>1, <1>2, <1>3, <1>4
        DEF Step, Proceed, Disturb, WipeStep, EndStep, FetchFails, FlushConflict,
            ItemConflict, StatementFails, DeadlockVictim

LEMMA StampStep ==
    ASSUME IInv, TimeInv, NEW r \in Requests, Step(r), pc'[r] \in {"mark", "commit"}
    PROVE  \/ pc[r] \in {"mark", "commit"} /\ stamp'[r] = stamp[r]
           \/ Stamp(r) /\ stamp'[r] = now
<1>t. pc \in [Requests -> Steps] /\ stamp \in [Requests -> Nat]
  BY DEF IInv, TypeOK, RequestTypeOK
<1>1. CASE \E answer : Finish(r, answer) \/ Fail(r, answer)
  BY <1>t, <1>1 DEF Finish, Fail
<1>2. CASE \/ Arrive(r) \/ PassCooldown(r) \/ FetchData(r) \/ FlushState(r)
           \/ StartWipeMuseums(r) \/ StartWipeCities(r) \/ WipeStep(r)
           \/ SkipCity(r) \/ UpsertCity(r) \/ LeaveLoop(r, "cities", "museums")
           \/ UpsertMuseum(r) \/ UpsertVisitors(r)
           \/ LeaveLoop(r, "museums", "populations")
           \/ UpsertPopulations(r) \/ LeaveLoop(r, "populations", "stamp")
  BY <1>t, <1>2 DEF Arrive, PassCooldown, FetchData, FlushState, StartWipeMuseums,
        StartWipeCities, StartWipe, WipeStep, WipeMuseums, WipeCities, SkipCity,
        UpsertCity, LeaveLoop, UpsertMuseum, UpsertVisitors, UpsertPopulations,
        Ready, Goto
<1>3. CASE Stamp(r) \/ MarkRefreshed(r)
  BY <1>t, <1>3 DEF Stamp, MarkRefreshed, Ready, loop
<1> QED BY <1>1, <1>2, <1>3
        DEF Step, Proceed, Disturb, WipeStep, Unauthorized, RefuseCooldown,
            CheckFails, FetchFails, FlushConflict, ItemConflict, Commit,
            CommitFails, StatementFails, DeadlockVictim, Rollback, Abandon

(* A commit makes its request the latest one, with its stamp.              *)
LEMMA LatestCommit ==
    ASSUME IInv, IInv', NEW r \in Requests, Commit(r)
    PROVE  /\ pc[r] = "commit"
           /\ committed' # <<>>
           /\ Latest' = [by |-> r, at |-> stamp[r], data |-> data[r]]
           /\ db'[StateId] = ContentsOf(data[r], r, stamp[r]).state
           /\ db'[StateId].at = stamp[r]
<1> DEFINE new == [by |-> r, at |-> stamp[r], data |-> data[r]]
<1>1. committed \in Seq(CommitRecords) /\ new \in CommitRecords
  BY DEF IInv, TypeOK, RequestTypeOK, CommitRecords, Writers
<1>2. committed' = Append(committed, new)
  BY DEF Commit
<1>3. committed' # <<>> /\ Latest' = new
  <2> HIDE DEF new
  <2> QED BY <1>1, <1>2 DEF Latest, Last
<1>4. db'[StateId] = ContentsOf(data[r], r, stamp[r]).state
  BY <1>3 DEF IInv, StateDescribesLatest, LatestContents
<1> QED BY <1>3, <1>4 DEF Commit, ContentsOf

LEMMA DataStep ==
    ASSUME TypeOK, DataInv, NEW r \in Requests, Step(r)
    PROVE  DataInv'
<1> DEFINE past == (TrySteps \ {"fetch"}) \cup {"commit"}
<1>t. pc \in [Requests -> Steps] /\ data \in [Requests -> Datasets \cup {NoData}]
  BY DEF TypeOK, RequestTypeOK
<1>1. CASE FetchData(r)
  <2>1. data'[r] \in Datasets
    BY <1>t, <1>1 DEF FetchData
  <2> QED BY <2>1, Frame DEF DataInv, Own
<1>2. CASE pc'[r] \in past /\ ~FetchData(r)
  <2>1. ASSUME NEW answer
        PROVE  ~Finish(r, answer) /\ ~Fail(r, answer)
    BY <1>t, <1>2 DEF Finish, Fail, TrySteps
  <2>2. pc[r] \in past /\ data'[r] = data[r]
    BY <1>t, <1>2, <2>1
       DEF Step, Proceed, Disturb, Arrive, Unauthorized, RefuseCooldown,
           CheckFails, PassCooldown, FetchFails, FlushState, FlushConflict,
           StartWipeMuseums, StartWipeCities, StartWipe, WipeMuseums,
           WipeCities, SkipCity, UpsertCity, LeaveLoop, UpsertMuseum,
           ItemConflict, UpsertVisitors, UpsertPopulations, Stamp,
           MarkRefreshed, Commit, CommitFails, StatementFails, DeadlockVictim,
           Rollback, Abandon, Ready, Goto, TrySteps, Steps, input
  <2> QED BY <2>2, Frame DEF DataInv, Own
<1>3. CASE pc'[r] \notin past
  BY <1>3, Frame DEF DataInv, Own
<1> QED BY <1>1, <1>2, <1>3

LEMMA TimeStep ==
    ASSUME IInv, IInv', TimeInv, NEW r \in Requests, Step(r)
    PROVE  TimeInv'
<1>t. now \in Nat /\ stamp \in [Requests -> Nat] /\ now' = now
  BY StepClock DEF IInv, TypeOK, RequestTypeOK
<1>1. ASSUME NEW s \in Requests
      PROVE  /\ pc'[s] \in {"idle", "check", "fetch", "done"} => tx'[s] = NoWrites
             /\ pc'[s] \in {"mark", "commit"} => stamp'[s] <= now
  <2>1. CASE s # r
    BY <2>1, Frame DEF IInv, Own, TimeInv
  <2>2. CASE s = r
    BY <1>t, <2>2, CleanStep, StampStep DEF TimeInv
  <2> QED BY <2>1, <2>2
<1>2. db'[StateId] # Absent => db'[StateId].at \in 0 .. now
  <2>1. CASE ~Commit(r)
    BY <2>1, OnlyCommits DEF TimeInv
  <2>2. CASE Commit(r)
    <3>1. pc[r] = "commit" /\ db'[StateId].at = stamp[r]
      BY <2>2, LatestCommit
    <3>2. stamp[r] \in Nat /\ stamp[r] <= now
      BY <1>t, <3>1 DEF TimeInv
    <3> QED BY <1>t, <3>1, <3>2
  <2> QED BY <2>1, <2>2
<1> QED BY <1>t, <1>1, <1>2 DEF TimeInv

-----------------------------------------------------------------------------
(* Serial clients.                                                         *)
LEMMA StepFlight ==
    ASSUME IInv, NEW r \in Requests, Step(r)
    PROVE  InFlight' \subseteq InFlight \cup {r}
BY Frame DEF IInv, Own, InFlight

(* What r sees of a row that a step does not write.                        *)
LEMMA SeenKept ==
    ASSUME TypeOK, NEW r \in Requests, NEW i \in RowIds, db' = db,
           tx'[r][i] = tx[r][i]
    PROVE  View(r)'[i] = View(r)[i]
BY DEF View

LEMMA OnlyMuseumsKept ==
    ASSUME NEW r \in Requests, OnlyMuseums(r), data'[r] = data[r],
           Upserted(r) \subseteq Upserted(r)', Visited(r) \subseteq Visited(r)',
           \A i \in MuseumIds : View(r)'[i] = View(r)[i]
    PROVE  OnlyMuseums(r)'
BY DEF OnlyMuseums, Present

LEMMA OnlyCitiesKept ==
    ASSUME NEW r \in Requests, OnlyCities(r), data'[r] = data[r],
           cityIds'[r] = cityIds[r], Peopled(r) \subseteq Peopled(r)',
           \A i \in CityIds : View(r)'[i] = View(r)[i]
    PROVE  OnlyCities(r)'
BY DEF OnlyCities, Present, Mapped

(* The wipe of a request that nothing runs beside.                         *)
LEMMA WipedMuseums ==
    ASSUME IInv, NEW r \in Requests, NothingElse(r), WipeMuseums(r)
    PROVE  NothingElse(r)'
<1>t. DbTypeOK /\ pc \in [Requests -> Steps]
  BY DEF IInv, TypeOK, RequestTypeOK
<1>1. pc[r] = "deleteMuseums" /\ pc'[r] = "wipeCities" /\ db' = db
  BY <1>t DEF WipeMuseums, DeleteMuseums, Ready, Goto
<1>2. ASSUME NEW i \in MuseumIds
      PROVE  View(r)'[i] = Absent
  <2>1. i \in RowIds
    BY IdSorts
  <2>2. tx'[r][i] = IF i \in Present(r, seen[r]) THEN Absent ELSE tx[r][i]
    BY <1>t, <2>1 DEF WipeMuseums, DeleteMuseums, DbTypeOK
  <2>3. CASE i \in Present(r, seen[r])
    BY <2>1, <2>2, <2>3, RowAssumption DEF View
  <2>4. CASE i \notin Present(r, seen[r])
    <3>1. View(r)[i] = Absent
      BY <1>1, <2>4 DEF NothingElse, Present
    <3> QED BY <1>1, <2>1, <2>2, <2>4, <3>1 DEF View
  <2> QED BY <2>3, <2>4
<1> QED BY <1>1, <1>2 DEF NothingElse, OnlyMuseums, Present, AfterCities

LEMMA WipedCities ==
    ASSUME IInv, NEW r \in Requests, NothingElse(r), WipeCities(r)
    PROVE  NothingElse(r)'
<1>t. DbTypeOK /\ pc \in [Requests -> Steps]
  BY DEF IInv, TypeOK, RequestTypeOK
<1>1. pc[r] = "deleteCities" /\ pc'[r] = "cities" /\ db' = db
  BY <1>t DEF WipeCities, DeleteCities, Ready, Goto
<1>2. Present(r, MuseumIds) = {}
  BY <1>1 DEF NothingElse, OnlyMuseums, Upserted, AfterMuseums
<1>3. Referring(r, Present(r, seen[r])) = {}
  BY <1>2 DEF Referring
<1>4. ASSUME NEW i \in RowIds
      PROVE  tx'[r][i] = IF i \in Present(r, seen[r]) THEN Absent ELSE tx[r][i]
  BY <1>t, <1>3 DEF WipeCities, DeleteCities, DbTypeOK
<1>5. ASSUME NEW i \in MuseumIds \cup CityIds
      PROVE  View(r)'[i] = Absent
  <2>1. i \in RowIds
    BY IdSorts
  <2>2. CASE i \in Present(r, seen[r])
    BY <1>4, <2>1, <2>2, RowAssumption DEF View
  <2>3. CASE i \notin Present(r, seen[r])
    <3>1. View(r)[i] = Absent
      BY <1>1, <1>2, <2>3 DEF NothingElse, Present
    <3> QED BY <1>1, <1>4, <2>1, <2>3, <3>1 DEF View
  <2> QED BY <2>2, <2>3
<1> QED BY <1>1, <1>5 DEF NothingElse, OnlyMuseums, OnlyCities, Present, AfterCities

(* The upserts.                                                            *)
LEMMA UpsertedCity ==
    ASSUME IInv, NEW r \in Requests, NothingElse(r), UpsertCity(r)
    PROVE  NothingElse(r)'
<1>t. DbTypeOK /\ pc \in [Requests -> Steps] /\ TypeOK
  BY DEF IInv, TypeOK, RequestTypeOK
<1>a. PICK q : q = Enrichment(r).city
  OBVIOUS
<1>b. PICK id : id = Target(r, q)
  OBVIOUS
<1>1. /\ pc[r] = "cities" /\ pc'[r] = "cities" /\ db' = db
      /\ UNCHANGED <<data, pc>>
  BY <1>t DEF UpsertCity, Ready, Write, input
<1>2. /\ q \in Qids /\ id \in CityIds /\ id \in RowIds /\ id[2] = q
  <2>1. q \in Qids /\ id \in CityIds
    BY <1>t, <1>a, <1>b, CityWrites
  <2> QED BY <1>b, <2>1, TargetKey, IdSorts
<1>3. /\ cityIds'[r][q] = id
      /\ \A p \in Qids : Mapped(r, p) => Mapped(r, p)'
  BY <1>a, <1>b, <1>2, RowAssumption DEF IInv, TypeOK, RequestTypeOK, UpsertCity, Mapped
<1>4. /\ tx'[r][id] = IF View(r)[id] = Absent THEN [records |-> NoRecords] ELSE View(r)[id]
      /\ \A i \in RowIds \ {id} : tx'[r][i] = tx[r][i]
  BY <1>t, <1>a, <1>b, <1>2 DEF UpsertCity, Write, DbTypeOK, Tables
<1>5. \A i \in RowIds \ {id} : View(r)'[i] = View(r)[i]
  BY <1>1, <1>4 DEF View
<1>6. Upserted(r)' = Upserted(r) /\ Visited(r)' = Visited(r) /\ Peopled(r)' = Peopled(r)
  BY <1>1 DEF Upserted, Visited, Peopled, AfterMuseums
<1>7. OnlyMuseums(r)'
  <2>1. \A i \in MuseumIds : View(r)'[i] = View(r)[i]
    BY <1>2, <1>5, IdSorts
  <2> QED BY <1>1, <1>6, <2>1, OnlyMuseumsKept DEF NothingElse
<1>8. ASSUME NEW i \in CityIds, View(r)'[i] # Absent
      PROVE  /\ Mapped(r, i[2])'
             /\ \A y \in Years : View(r)'[i].records[y] # Null =>
                    \E k \in Peopled(r) : /\ data[r].populations[k].city = i[2]
                                          /\ y \in data[r].populations[k].years
  <2>1. i \in RowIds /\ i[2] \in Qids
    BY IdSorts
  <2>2. CASE View(r)[i] # Absent /\ View(r)'[i] = View(r)[i]
    BY <1>1, <1>3, <2>1, <2>2 DEF NothingElse, OnlyCities, Present
  <2>3. CASE i = id /\ View(r)[id] = Absent
    <3>1. View(r)'[i] = tx'[r][i]
      <4>1. tx'[r][i] = [records |-> NoRecords] /\ tx'[r][i] # Untouched
        BY <1>4, <2>3, NoRecordsType, RowAssumption DEF CityRows, Rows
      <4> QED BY <2>1, <4>1 DEF View
    <3> QED BY <1>2, <1>3, <1>4, <2>3, <3>1, RowAssumption DEF Mapped, NoRecords
  <2>4. CASE i = id /\ View(r)[id] # Absent
    <3>1. tx'[r][id] = View(r)[id] /\ View(r)'[id] = View(r)[id]
      BY <1>1, <1>2, <1>4, <2>4 DEF View
    <3> QED BY <2>2, <2>4, <3>1
  <2> QED BY <1>5, <1>8, <2>1, <2>2, <2>3, <2>4
<1>9. OnlyCities(r)'
  BY <1>1, <1>6, <1>8 DEF OnlyCities, Present
<1> QED BY <1>1, <1>7, <1>9 DEF NothingElse

LEMMA UpsertedMuseum ==
    ASSUME IInv, NEW r \in Requests, NothingElse(r), UpsertMuseum(r)
    PROVE  NothingElse(r)'
<1>t. DbTypeOK /\ pc \in [Requests -> Steps] /\ TypeOK
  BY DEF IInv, TypeOK, RequestTypeOK
<1>a. PICK e : e = Enrichment(r)
  OBVIOUS
<1>b. PICK id : id = Target(r, e.name)
  OBVIOUS
<1>1. /\ pc[r] = "museums" /\ pc'[r] = "visitors" /\ Looping(r) /\ db' = db
      /\ UNCHANGED <<data, cityIds, cursor>>
  BY <1>t DEF UpsertMuseum, Ready, Goto, Write, input, loop
<1>2. /\ e = data[r].museums[cursor[r]] /\ cursor[r] \in DOMAIN data[r].museums
  BY <1>a, <1>1 DEF Looping, Enrichment
<1>3. /\ id \in MuseumIds /\ id \in RowIds /\ id[2] = e.name
  <2>1. e.name \in Names
    BY <1>t, <1>2, DataPlaces
  <2> QED BY <1>b, <2>1, TargetKey, TargetSort
<1>4. /\ tx'[r][id] = [item    |-> e.item,
                       city    |-> CityId(r),
                       records |-> IF View(r)[id] = Absent THEN NoRecords
                                   ELSE View(r)[id].records]
      /\ \A i \in RowIds \ {id} : tx'[r][i] = tx[r][i]
  BY <1>t, <1>a, <1>b, <1>3 DEF UpsertMuseum, Write, DbTypeOK, Tables
<1>5. \A i \in RowIds \ {id} : View(r)'[i] = View(r)[i]
  BY <1>1, <1>4 DEF View
<1>6. /\ Upserted(r) \cup {cursor[r]} \subseteq Upserted(r)'
      /\ Visited(r)' = Visited(r) /\ Peopled(r)' = Peopled(r)
  BY <1>1, <1>2 DEF Upserted, Visited, Peopled, AfterMuseums
<1>7. OnlyCities(r)'
  <2>1. \A i \in CityIds : View(r)'[i] = View(r)[i]
    BY <1>3, <1>5, IdSorts
  <2> QED BY <1>1, <1>6, <2>1, OnlyCitiesKept DEF NothingElse, AfterCities
<1>8. View(r)'[id].records = IF View(r)[id] = Absent THEN NoRecords
                             ELSE View(r)[id].records
  <2>1. Writes(r, id)
    BY <1>t, <1>a, <1>b, MuseumWrites
  <2>2. tx'[r][id] # Untouched
    BY <1>t, <1>3, <2>1, WrittenStays
  <2> QED BY <1>3, <1>4, <2>2 DEF View
<1>9. ASSUME NEW i \in MuseumIds, View(r)'[i] # Absent
      PROVE  /\ \E k \in Upserted(r)' : data[r].museums[k].name = i[2]
             /\ \A y \in Years : View(r)'[i].records[y] # Null =>
                    \E k \in Visited(r) : /\ data[r].museums[k].name = i[2]
                                          /\ y \in data[r].museums[k].years
  <2>1. i \in RowIds
    BY IdSorts
  <2>2. CASE i # id
    BY <1>1, <1>5, <1>6, <1>9, <2>1, <2>2 DEF NothingElse, OnlyMuseums, Present, AfterCities
  <2>3. CASE i = id
    <3>1. \E k \in Upserted(r)' : data[r].museums[k].name = i[2]
      BY <1>2, <1>3, <1>6, <2>3
    <3>2. CASE View(r)[id] = Absent
      <4>1. \A y \in Years : View(r)'[i].records[y] = Null
        BY <1>8, <2>3, <3>2 DEF NoRecords
      <4> QED BY <3>1, <4>1
    <3>3. CASE View(r)[id] # Absent
      <4>1. View(r)'[i].records = View(r)[i].records /\ i \in Present(r, MuseumIds)
        BY <1>8, <2>3, <3>3 DEF Present
      <4> QED BY <1>1, <3>1, <4>1 DEF NothingElse, OnlyMuseums, AfterCities
    <3> QED BY <3>2, <3>3
  <2> QED BY <2>2, <2>3
<1>10. OnlyMuseums(r)'
  BY <1>1, <1>6, <1>9 DEF OnlyMuseums, Present
<1> QED BY <1>1, <1>7, <1>10 DEF NothingElse

LEMMA RecordedVisitors ==
    ASSUME IInv, NEW r \in Requests, NothingElse(r), UpsertVisitors(r)
    PROVE  NothingElse(r)'
<1>t. /\ DbTypeOK /\ TypeOK /\ LoopInv(r)
      /\ pc \in [Requests -> Steps] /\ cursor \in [Requests -> Nat \ {0}]
  BY DEF IInv, TypeOK, RequestTypeOK
<1>a. PICK e : e = Enrichment(r)
  OBVIOUS
<1>b. PICK id : id = Target(r, e.name)
  OBVIOUS
<1>1. /\ pc[r] = "visitors" /\ pc'[r] = "museums" /\ Looping(r) /\ db' = db
      /\ Holds(r, e.name) /\ cursor'[r] = cursor[r] + 1
      /\ UNCHANGED <<data, cityIds>>
  BY <1>t, <1>a DEF UpsertVisitors, Goto, Write, input, LoopInv
<1>2. /\ e = data[r].museums[cursor[r]] /\ cursor[r] \in DOMAIN data[r].museums
      /\ cursor[r] \in Nat
  BY <1>t, <1>a, <1>1, DataPlaces DEF Looping, Enrichment
<1>3. /\ id \in MuseumIds /\ id \in RowIds /\ id[2] = e.name
  <2>1. e.name \in Names
    BY <1>t, <1>2, DataPlaces
  <2> QED BY <1>b, <2>1, TargetKey, TargetSort
<1>4. /\ View(r)[id] # Absent /\ View(r)[id] \in MuseumRows
      /\ tx'[r][id] = [View(r)[id] EXCEPT !.records = Recorded(@, e.years, r)]
      /\ \A i \in RowIds \ {id} : tx'[r][i] = tx[r][i]
  <2>1. View(r)[id] # Absent /\ View(r)[id] \in MuseumRows
    BY <1>a, <1>b, <1>1, HeldMuseum, HeldIsPresent DEF Present
  <2>2. /\ tx'[r][id] = [View(r)[id] EXCEPT !.records = Recorded(@, e.years, r)]
        /\ \A i \in RowIds \ {id} : tx'[r][i] = tx[r][i]
    BY <1>t, <1>a, <1>b, <1>3 DEF UpsertVisitors, Write, DbTypeOK, Tables
  <2> QED BY <2>1, <2>2
<1>5. \A i \in RowIds \ {id} : View(r)'[i] = View(r)[i]
  BY <1>1, <1>4 DEF View
<1>6. /\ Upserted(r) \subseteq Upserted(r)'
      /\ Visited(r) \cup {cursor[r]} \subseteq Visited(r)'
      /\ Peopled(r)' = Peopled(r)
  <2>1. ASSUME NEW k \in DOMAIN data[r].museums
        PROVE  k < cursor[r] + 1 <=> k < cursor[r] \/ k = cursor[r]
    <3>1. k \in Nat
      BY <1>t, DataPlaces
    <3> QED BY <1>2, <3>1
  <2> QED BY <1>1, <1>2, <2>1 DEF Upserted, Visited, Peopled, AfterMuseums
<1>7. OnlyCities(r)'
  <2>1. \A i \in CityIds : View(r)'[i] = View(r)[i]
    BY <1>3, <1>5, IdSorts
  <2> QED BY <1>1, <1>6, <2>1, OnlyCitiesKept DEF NothingElse, AfterCities
<1>8. \A y \in Years : View(r)'[id].records[y] =
          IF y \in e.years THEN r ELSE View(r)[id].records[y]
  <2>1. Writes(r, id)
    BY <1>t, <1>a, <1>b, <1>1, VisitorsWrites
  <2>2. tx'[r][id] # Untouched
    BY <1>t, <1>3, <2>1, WrittenStays
  <2>3. View(r)'[id] = tx'[r][id]
    BY <1>3, <2>2 DEF View
  <2> QED BY <1>4, <2>3 DEF MuseumRows, Recorded
<1>9. ASSUME NEW i \in MuseumIds, View(r)'[i] # Absent
      PROVE  /\ \E k \in Upserted(r)' : data[r].museums[k].name = i[2]
             /\ \A y \in Years : View(r)'[i].records[y] # Null =>
                    \E k \in Visited(r)' : /\ data[r].museums[k].name = i[2]
                                           /\ y \in data[r].museums[k].years
  <2>1. i \in RowIds
    BY IdSorts
  <2>2. CASE i # id
    BY <1>1, <1>5, <1>6, <1>9, <2>1, <2>2 DEF NothingElse, OnlyMuseums, Present, AfterCities
  <2>3. CASE i = id
    <3>1. i \in Present(r, MuseumIds)
      BY <1>4, <2>3 DEF Present
    <3>2. /\ \E k \in Upserted(r) : data[r].museums[k].name = i[2]
          /\ \A y \in Years : View(r)[i].records[y] # Null =>
                 \E k \in Visited(r) : /\ data[r].museums[k].name = i[2]
                                       /\ y \in data[r].museums[k].years
      BY <1>1, <3>1 DEF NothingElse, OnlyMuseums, AfterCities
    <3>3. ASSUME NEW y \in Years, View(r)'[i].records[y] # Null
          PROVE  \E k \in Visited(r)' : /\ data[r].museums[k].name = i[2]
                                        /\ y \in data[r].museums[k].years
      BY <1>2, <1>3, <1>6, <1>8, <2>3, <3>2, <3>3
    <3> QED BY <1>6, <3>2, <3>3
  <2> QED BY <2>2, <2>3
<1>10. OnlyMuseums(r)'
  BY <1>1, <1>9 DEF OnlyMuseums, Present
<1> QED BY <1>1, <1>7, <1>10 DEF NothingElse

LEMMA RecordedSeries ==
    ASSUME IInv, NEW r \in Requests, NothingElse(r), UpsertPopulations(r)
    PROVE  NothingElse(r)'
<1>t. /\ DbTypeOK /\ TypeOK /\ LoopInv(r)
      /\ pc \in [Requests -> Steps] /\ cursor \in [Requests -> Nat \ {0}]
  BY DEF IInv, TypeOK, RequestTypeOK
<1>a. PICK e : e = PopulationsOf(r)
  OBVIOUS
<1>b. PICK id : id = Target(r, e.city)
  OBVIOUS
<1>1. /\ pc[r] = "populations" /\ pc'[r] = "populations" /\ CountingPeople(r)
      /\ db' = db /\ cursor'[r] = cursor[r] + 1 /\ UNCHANGED <<data, cityIds>>
  BY <1>t DEF UpsertPopulations, Write, dbVars, input
<1>2. /\ e = data[r].populations[cursor[r]]
      /\ cursor[r] \in DOMAIN data[r].populations
      /\ cursor[r] \in Nat /\ e.city \in Qids
  BY <1>t, <1>a, <1>1, DataPlaces DEF CountingPeople, PopulationsOf
<1>3. id \in CityIds /\ id \in RowIds /\ id[2] = e.city
  BY <1>b, <1>2, TargetKey, TargetSort
<1>4. Holds(r, e.city) /\ View(r)[id] # Absent
  <2>1. Holds(r, e.city)
    BY <1>t, <1>a, <1>1, PopulationsHeld
  <2> QED BY <1>b, <2>1, HeldIsPresent DEF Present
<1>5. /\ tx'[r][id] = [records |-> Recorded(View(r)[id].records, e.years, r)]
      /\ \A i \in RowIds \ {id} : tx'[r][i] = tx[r][i]
  BY <1>t, <1>a, <1>b, <1>3, <1>4 DEF UpsertPopulations, Write, DbTypeOK, Tables
<1>6. \A i \in RowIds \ {id} : View(r)'[i] = View(r)[i]
  BY <1>1, <1>5 DEF View
<1>7. /\ Upserted(r)' = Upserted(r) /\ Visited(r)' = Visited(r)
      /\ Peopled(r) \cup {cursor[r]} \subseteq Peopled(r)'
  <2>1. ASSUME NEW k \in DOMAIN data[r].populations
        PROVE  k < cursor[r] + 1 <=> k < cursor[r] \/ k = cursor[r]
    <3>1. k \in Nat
      BY <1>t, DataPlaces
    <3> QED BY <1>2, <3>1
  <2> QED BY <1>1, <1>2, <2>1 DEF Upserted, Visited, Peopled, AfterMuseums
<1>8. OnlyMuseums(r)'
  <2>1. \A i \in MuseumIds : View(r)'[i] = View(r)[i]
    BY <1>3, <1>6, IdSorts
  <2> QED BY <1>1, <1>7, <2>1, OnlyMuseumsKept DEF NothingElse, AfterCities
<1>9. \A y \in Years : View(r)'[id].records[y] =
          IF y \in e.years THEN r ELSE View(r)[id].records[y]
  <2>1. Writes(r, id)
    BY <1>t, <1>a, <1>b, <1>1, <1>4, PopulationWrites DEF UpsertPopulations
  <2>2. tx'[r][id] # Untouched
    BY <1>t, <1>3, <2>1, WrittenStays
  <2>3. View(r)'[id] = tx'[r][id]
    BY <1>3, <2>2 DEF View
  <2> QED BY <1>5, <2>3 DEF Recorded
<1>10. ASSUME NEW i \in CityIds, View(r)'[i] # Absent
       PROVE  /\ Mapped(r, i[2])
              /\ \A y \in Years : View(r)'[i].records[y] # Null =>
                     \E k \in Peopled(r)' : /\ data[r].populations[k].city = i[2]
                                            /\ y \in data[r].populations[k].years
  <2>1. i \in RowIds
    BY IdSorts
  <2>2. CASE i # id
    BY <1>1, <1>6, <1>7, <1>10, <2>1, <2>2 DEF NothingElse, OnlyCities, Present, AfterCities
  <2>3. CASE i = id
    <3>1. i \in Present(r, CityIds)
      BY <1>4, <2>3 DEF Present
    <3>2. /\ Mapped(r, i[2])
          /\ \A y \in Years : View(r)[i].records[y] # Null =>
                 \E k \in Peopled(r) : /\ data[r].populations[k].city = i[2]
                                       /\ y \in data[r].populations[k].years
      BY <1>1, <3>1 DEF NothingElse, OnlyCities, AfterCities
    <3>3. ASSUME NEW y \in Years, View(r)'[i].records[y] # Null
          PROVE  \E k \in Peopled(r)' : /\ data[r].populations[k].city = i[2]
                                        /\ y \in data[r].populations[k].years
      BY <1>2, <1>3, <1>7, <1>9, <2>3, <3>2, <3>3
    <3> QED BY <3>2, <3>3
  <2> QED BY <2>2, <2>3
<1>11. OnlyCities(r)'
  BY <1>1, <1>10 DEF OnlyCities, Present, Mapped
<1> QED BY <1>1, <1>8, <1>11 DEF NothingElse

LEMMA StepNothingElse ==
    ASSUME IInv, NEW r \in Requests, NothingElse(r), Step(r)
    PROVE  NothingElse(r)'
<1>t. /\ DbTypeOK /\ TypeOK
      /\ pc \in [Requests -> Steps] /\ cursor \in [Requests -> Nat \ {0}]
      /\ seen \in [Requests -> SUBSET (MuseumIds \cup CityIds)]
  BY DEF IInv, TypeOK, RequestTypeOK
<1>1. CASE pc'[r] \notin {"deleteMuseums", "wipeCities", "deleteCities", "cities"} \cup AfterCities
  BY <1>1 DEF NothingElse
<1>2. CASE StartWipeMuseums(r) \/ StartWipeCities(r)
  <2>1. /\ UNCHANGED <<dbVars, data>>
        /\ \/ pc'[r] = "deleteMuseums" /\ seen'[r] = Present(r, MuseumIds)
           \/ pc[r] = "wipeCities" /\ pc'[r] = "deleteCities" /\ seen'[r] = Present(r, CityIds)
    BY <1>t, <1>2 DEF StartWipeMuseums, StartWipeCities, StartWipe, Goto, input
  <2>2. View(r)' = View(r)
    BY <2>1 DEF View, dbVars
  <2>3. CASE pc'[r] = "deleteMuseums"
    BY <2>1, <2>2, <2>3 DEF NothingElse, Present, AfterCities
  <2>4. CASE pc[r] = "wipeCities" /\ pc'[r] = "deleteCities"
    <3>1. OnlyMuseums(r)'
      <4>1. Upserted(r) = {} /\ Visited(r) = {}
        BY <2>4 DEF Upserted, Visited, AfterMuseums
      <4> QED BY <2>1, <2>2, <2>4, <4>1, OnlyMuseumsKept DEF NothingElse
    <3> QED BY <2>1, <2>2, <2>4, <3>1 DEF NothingElse, Present, AfterCities
  <2> QED BY <2>1, <2>3, <2>4
<1>3. CASE WipeStep(r)
  BY <1>3, WipedMuseums, WipedCities DEF WipeStep
<1>4. CASE UpsertCity(r) \/ UpsertMuseum(r) \/ UpsertVisitors(r) \/ UpsertPopulations(r)
  BY <1>4, UpsertedCity, UpsertedMuseum, RecordedVisitors, RecordedSeries
<1>5. CASE \/ SkipCity(r) \/ LeaveLoop(r, "cities", "museums")
           \/ LeaveLoop(r, "museums", "populations")
           \/ LeaveLoop(r, "populations", "stamp") \/ Stamp(r)
  <2>1. /\ UNCHANGED <<dbVars, data, cityIds>>
        /\ pc[r] \in {"cities", "museums", "populations", "stamp"}
        /\ pc'[r] \in {"cities"} \cup AfterCities
    BY <1>t, <1>5 DEF SkipCity, LeaveLoop, Stamp, Goto, input, AfterCities
  <2>2. View(r)' = View(r)
    BY <2>1 DEF View, dbVars
  <2>3. /\ Upserted(r) \subseteq Upserted(r)' /\ Visited(r) \subseteq Visited(r)'
        /\ Peopled(r) \subseteq Peopled(r)'
    BY <1>t, <1>5 DEF SkipCity, LeaveLoop, Stamp, Goto, input, Upserted, Visited,
                      Peopled, AfterMuseums
  <2>4. OnlyMuseums(r) /\ OnlyCities(r)
    BY <2>1 DEF NothingElse, AfterCities
  <2>5. OnlyMuseums(r)' /\ OnlyCities(r)'
    BY <2>1, <2>2, <2>3, <2>4, OnlyMuseumsKept, OnlyCitiesKept
  <2> QED BY <2>1, <2>5 DEF NothingElse, AfterCities
<1>6. CASE MarkRefreshed(r)
  <2>1. /\ UNCHANGED <<db, data, cityIds>>
        /\ pc[r] = "mark" /\ pc'[r] = "commit"
    BY <1>t, <1>6 DEF MarkRefreshed, Write, Ready, Goto, dbVars, input, loop
  <2>2. ASSUME NEW i \in MuseumIds \cup CityIds
        PROVE  View(r)'[i] = View(r)[i]
    <3>1. i \in RowIds /\ i # StateId
      BY IdSorts
    <3>2. tx'[r][i] = tx[r][i]
      BY <1>t, <1>6, <3>1 DEF MarkRefreshed, Write, DbTypeOK, Tables, dbVars
    <3> QED BY <2>1, <3>1, <3>2 DEF View
  <2>3. /\ Upserted(r)' = Upserted(r) /\ Visited(r)' = Visited(r)
        /\ Peopled(r)' = Peopled(r)
    BY <2>1 DEF Upserted, Visited, Peopled, AfterMuseums
  <2>4. OnlyMuseums(r) /\ OnlyCities(r)
    BY <2>1 DEF NothingElse, AfterCities
  <2>5. OnlyMuseums(r)' /\ OnlyCities(r)'
    BY <2>1, <2>2, <2>3, <2>4, OnlyMuseumsKept, OnlyCitiesKept
  <2> QED BY <2>1, <2>5 DEF NothingElse, AfterCities
<1>7. CASE \E answer : Finish(r, answer) \/ Fail(r, answer)
  <2>1. pc'[r] \in {"done", "rollback"}
    BY <1>t, <1>7 DEF Finish, Fail
  <2> QED BY <1>1, <2>1 DEF AfterCities
<1>8. CASE Arrive(r) \/ PassCooldown(r) \/ FetchData(r) \/ FlushState(r)
  <2>1. pc'[r] \in {"check", "fetch", "flush", "wipeMuseums"}
    BY <1>t, <1>8 DEF Arrive, PassCooldown, FetchData, FlushState, Ready, Goto
  <2> QED BY <1>1, <2>1 DEF AfterCities
<1> QED BY <1>2, <1>3, <1>4, <1>5, <1>6, <1>7, <1>8
        DEF Step, Proceed, Disturb, WipeStep, Unauthorized, RefuseCooldown,
            CheckFails, FetchFails, FlushConflict, ItemConflict, Commit,
            CommitFails, StatementFails, DeadlockVictim, Rollback, Abandon

(* The cooldown.                                                           *)
LEMMA Passed ==
    ASSUME IInv, TimeInv, NEW r \in Requests, PassCooldown(r)
    PROVE  CooledDown(r)'
<1>t. pc \in [Requests -> Steps] /\ now \in Nat /\ Cooldown \in Nat
  BY ParameterAssumption DEF IInv, TypeOK, RequestTypeOK
<1>1. /\ pc[r] = "check" /\ pc'[r] = "fetch" /\ ~CoolingDown(r)
      /\ UNCHANGED <<db, now, forced>>
  BY <1>t DEF PassCooldown, Goto, dbVars, loop, ghost
<1>2. View(r)[StateId] = db[StateId]
  BY <1>1, IdSorts DEF TimeInv, NoWrites, View
<1>3. db[StateId] # Absent => db[StateId].at \in 0 .. now /\ db[StateId].at # Null
  <2>1. Null \notin 0 .. now
    BY <1>t, DistinctAssumption
  <2> QED BY <2>1 DEF TimeInv
<1>4. db[StateId] # Absent => forced[r] \/ ~(now - db[StateId].at < Cooldown)
  BY <1>1, <1>2, <1>3 DEF CoolingDown, CoolingDownAt
<1> QED BY <1>t, <1>1, <1>3, <1>4 DEF CooledDown

LEMMA StepCooledDown ==
    ASSUME IInv, IInv', TimeInv, NEW r \in Requests, CooledDown(r), Step(r)
    PROVE  CooledDown(r)'
<1>t. /\ pc \in [Requests -> Steps] /\ stamp \in [Requests -> Nat]
      /\ UNCHANGED <<now, forced>>
  BY StepClock DEF IInv, TypeOK, RequestTypeOK
<1>1. CASE pc'[r] \notin TrySteps \cup {"commit"}
  BY <1>1 DEF CooledDown
<1>2. CASE PassCooldown(r)
  BY <1>2, Passed
<1>3. CASE pc[r] \in TrySteps \cup {"commit"} /\ pc'[r] \in TrySteps \cup {"commit"}
  <2>1. ~Commit(r)
    BY <1>t, <1>3 DEF Commit, Finish, TrySteps
  <2>2. db' = db
    BY <2>1, OnlyCommits
  <2>3. pc[r] \in {"mark", "commit"} => pc'[r] \in {"mark", "commit"}
    <3>1. ASSUME NEW answer
          PROVE  ~Finish(r, answer) /\ ~Fail(r, answer)
      BY <1>t, <1>3 DEF Finish, Fail, TrySteps
    <3> QED BY <1>t, <1>3, <3>1
          DEF Step, Proceed, Disturb, Arrive, Unauthorized, RefuseCooldown,
              CheckFails, PassCooldown, FetchData, FetchFails, FlushState,
              FlushConflict, StartWipeMuseums, StartWipeCities, StartWipe,
              WipeMuseums, WipeCities, SkipCity, UpsertCity, LeaveLoop,
              UpsertMuseum, ItemConflict, UpsertVisitors, UpsertPopulations,
              Stamp, MarkRefreshed, Commit, CommitFails, StatementFails,
              DeadlockVictim, Rollback, Abandon, Ready, Goto
  <2>4. CASE pc'[r] \notin {"mark", "commit"}
    BY <1>t, <1>3, <2>2, <2>3, <2>4 DEF CooledDown
  <2>5. CASE pc'[r] \in {"mark", "commit"} /\ pc[r] \in {"mark", "commit"}
    <3>1. stamp'[r] = stamp[r]
      BY <2>5, StampStep DEF Stamp
    <3> QED BY <1>t, <1>3, <2>2, <2>5, <3>1 DEF CooledDown
  <2>6. CASE pc'[r] \in {"mark", "commit"} /\ pc[r] \notin {"mark", "commit"}
    <3>1. stamp'[r] = now
      BY <2>6, StampStep
    <3> QED BY <1>t, <1>3, <2>2, <2>6, <3>1 DEF CooledDown
  <2> QED BY <2>4, <2>5, <2>6
<1>4. CASE pc[r] \notin TrySteps \cup {"commit"} /\ ~PassCooldown(r)
  <2>1. pc'[r] \in {"check", "rollback", "done"}
    BY <1>t, <1>4
       DEF Step, Proceed, Disturb, Arrive, Unauthorized, RefuseCooldown,
           CheckFails, FetchData, FetchFails, FlushState,
           FlushConflict, StartWipeMuseums, StartWipeCities, StartWipe,
           WipeMuseums, WipeCities, SkipCity, UpsertCity, LeaveLoop,
           UpsertMuseum, ItemConflict, UpsertVisitors, UpsertPopulations,
           Stamp, MarkRefreshed, Commit, CommitFails, StatementFails,
           DeadlockVictim, Rollback, Abandon, Ready, Goto, Finish, Fail,
           TrySteps, Steps
  <2> QED BY <1>1, <2>1 DEF TrySteps
<1> QED BY <1>1, <1>2, <1>3, <1>4

LEMMA SerialStep ==
    ASSUME IInv, IInv', TimeInv, SerialInv, NEW r \in Requests, Step(r)
    PROVE  SerialInv'
<1> SUFFICES ASSUME Serial PROVE SerialInv'
  BY DEF SerialInv
<1>t. pc \in [Requests -> Steps]
  BY DEF IInv, TypeOK, RequestTypeOK
<1>1. /\ \A s, t \in InFlight : s = t
      /\ \A s \in Requests : NothingElse(s) /\ CooledDown(s)
  BY DEF SerialInv
<1>2. r \in InFlight \/ Arrive(r) \/ Unauthorized(r)
  <2>1. pc[r] # "done"
    BY OverIsOver
  <2>2. pc[r] = "idle" => Arrive(r) \/ Unauthorized(r)
    BY DEF Step, Proceed, Disturb, CheckFails, PassCooldown, RefuseCooldown,
           FetchData, FetchFails, FlushState, FlushConflict, StartWipeMuseums,
           StartWipeCities, StartWipe, WipeMuseums, WipeCities, SkipCity,
           UpsertCity, LeaveLoop, UpsertMuseum, ItemConflict, UpsertVisitors,
           UpsertPopulations, Stamp, MarkRefreshed, Commit, CommitFails,
           StatementFails, DeadlockVictim, Rollback, Abandon, Ready, Needed,
           BlockedBy, Holders, InFlight, TrySteps
  <2> QED BY <2>1, <2>2 DEF InFlight
<1>3. ASSUME NEW s \in InFlight', NEW t \in InFlight'
      PROVE  s = t
  <2>1. CASE r \in InFlight
    BY <1>1, <1>3, <2>1, StepFlight
  <2>2. CASE Arrive(r)
    BY <1>3, <2>2, StepFlight DEF Arrive
  <2>3. CASE Unauthorized(r)
    <3>1. r \notin InFlight'
      BY <1>t, <2>3 DEF Unauthorized, Finish, InFlight
    <3> QED BY <1>1, <1>3, <3>1, StepFlight
  <2> QED BY <1>2, <2>1, <2>2, <2>3
<1>4. ASSUME NEW s \in Requests \ {r}
      PROVE  NothingElse(s)' /\ CooledDown(s)'
  <2>1. Own(s)' = Own(s) /\ UNCHANGED <<now, forced>>
    BY Frame, StepClock DEF IInv
  <2>2. CASE s \notin InFlight
    BY <2>1, <2>2 DEF Own, InFlight, NothingElse, CooledDown, TrySteps, AfterCities
  <2>3. CASE s \in InFlight
    <3>1. ~Commit(r)
      BY <1>1, <2>3 DEF Commit, InFlight
    <3>2. UNCHANGED db
      BY <3>1, OnlyCommits
    <3>3. /\ View(s)' = View(s) /\ Upserted(s)' = Upserted(s)
          /\ Visited(s)' = Visited(s) /\ Peopled(s)' = Peopled(s)
      BY <2>1, <3>2 DEF Own, View, Upserted, Visited, Peopled
    <3>4. (OnlyMuseums(s) => OnlyMuseums(s)') /\ (OnlyCities(s) => OnlyCities(s)')
      BY <2>1, <3>3, OnlyMuseumsKept, OnlyCitiesKept DEF Own
    <3>5. NothingElse(s)'
      BY <1>1, <2>1, <3>3, <3>4 DEF Own, NothingElse, Present
    <3>6. CooledDown(s)'
      BY <1>1, <2>1, <3>2 DEF Own, CooledDown
    <3> QED BY <3>5, <3>6
  <2> QED BY <2>2, <2>3
<1>5. NothingElse(r)' /\ CooledDown(r)'
  BY <1>1, StepNothingElse, StepCooledDown
<1> QED BY <1>3, <1>4, <1>5 DEF SerialInv

-----------------------------------------------------------------------------
(* The initial contents.                                                   *)
LEMMA StoredMuseum ==
    ASSUME NEW d \in SeedDatasets, db = Stored(ContentsOf(d, Seed, 0)),
           NEW i \in MuseumIds, db[i] # Absent
    PROVE  /\ i[1] = Seed /\ i[2] \in MuseumNames(d)
           /\ db[i].item = d.museums[Max(Named(d, i[2]))].item
<1> DEFINE c == ContentsOf(d, Seed, 0)
<1>1. i \in RowIds /\ i \notin CityIds /\ i # StateId /\ i[2] \in Names
  BY IdSorts
<1>2. i[1] = Seed /\ c.museums[i[2]] # Absent
  BY <1>1 DEF Stored
<1>3. db[i].item = c.museums[i[2]].item
  BY <1>1, <1>2 DEF Stored
<1>4. i[2] \in MuseumNames(d)
  BY <1>1, <1>2 DEF ContentsOf
<1>5. c.museums[i[2]].item = d.museums[Max(Named(d, i[2]))].item
  BY <1>1, <1>4 DEF ContentsOf
<1> QED BY <1>2, <1>3, <1>4, <1>5

LEMMA InitItems == Init => UniqueItems(db)
<1> SUFFICES ASSUME Init,
                    NEW i \in MuseumIds, NEW j \in MuseumIds,
                    db[i] # Absent, db[j] # Absent,
                    db[i].item = db[j].item, db[i].item # Null
             PROVE  i = j
  BY DEF UniqueItems
<1>1. CASE db = Stored(EmptyContents)
  <2>1. i \in RowIds /\ i \notin CityIds /\ i # StateId /\ i[2] \in Names
    BY IdSorts
  <2>2. db[i] = Absent
    BY <1>1, <2>1 DEF Stored, EmptyContents
  <2> QED BY <2>2
<1>2. CASE \E d \in SeedDatasets : db = Stored(ContentsOf(d, Seed, 0))
  <2>1. PICK d \in SeedDatasets : db = Stored(ContentsOf(d, Seed, 0))
    BY <1>2
  <2>2. /\ i[1] = Seed /\ i[2] \in MuseumNames(d)
        /\ db[i].item = d.museums[Max(Named(d, i[2]))].item
        /\ j[1] = Seed /\ j[2] \in MuseumNames(d)
        /\ db[j].item = d.museums[Max(Named(d, j[2]))].item
    BY <2>1, StoredMuseum
  <2>3. i[2] = j[2]
    BY <2>2, SeedAssumption
  <2> QED BY <2>2, <2>3 DEF MuseumIds
<1> QED BY <1>1, <1>2 DEF Init

LEMMA InitContents == Init => ContentsInv
<1> SUFFICES ASSUME Init PROVE ContentsInv
  OBVIOUS
<1>1. IInv
  BY InitInv
<1>2. tx = [r \in Requests |-> NoWrites] /\ pc = [r \in Requests |-> "idle"] /\ now = 0
  BY DEF Init
<1>3. ItemInv
  <2>1. \A r \in Requests : \A i \in MuseumIds : tx[r][i] = Untouched /\ View(r)[i] = db[i]
    BY <1>2, IdSorts DEF NoWrites, View
  <2> QED BY <2>1, InitItems DEF ItemInv, UniqueItems, Wrote
<1>4. TimeInv
  <2>1. db[StateId] # Absent => db[StateId].at = 0
    <3>1. CASE db = Stored(EmptyContents)
      BY <3>1, IdSorts DEF Stored, EmptyContents
    <3>2. CASE \E d \in SeedDatasets : db = Stored(ContentsOf(d, Seed, 0))
      <4>1. PICK d \in SeedDatasets : db = Stored(ContentsOf(d, Seed, 0))
        BY <3>2
      <4>2. db[StateId] = [at      |-> 0,
                           museums |-> Len(d.museums),
                           cities  |-> Cardinality(CityQids(d))]
        BY <4>1, InitRows
      <4> QED BY <4>2
    <3> QED BY <3>1, <3>2 DEF Init
  <2> QED BY <1>2, <2>1 DEF TimeInv
<1>5. \A r \in Requests : MuseumsWritten(r) /\ PopulationsWritten(r)
  BY <1>2 DEF MuseumsWritten, PopulationsWritten, Upserted, Visited, Peopled,
              AfterMuseums
<1>6. SerialInv
  BY <1>2 DEF SerialInv, InFlight, NothingElse, CooledDown, AfterCities, TrySteps
<1>7. DataInv
  BY <1>2 DEF DataInv, TrySteps
<1> QED BY <1>1, <1>3, <1>4, <1>5, <1>6, <1>7 DEF ContentsInv

(* The clock runs on.                                                      *)
LEMMA ClockContents ==
    ASSUME ContentsInv, IInv', now' \in Nat, now <= now',
           UNCHANGED <<dbVars, pc, response, input, loop, committed>>
    PROVE  ContentsInv'
<1>1. /\ UNCHANGED <<db, tx>>
      /\ UNCHANGED <<pc, response, forced, pending, data, seen, cursor,
                     cityIds, stamp>>
  BY DEF dbVars, input, loop
<1>t. now \in Nat /\ stamp \in [Requests -> Nat] /\ Cooldown \in Nat
  BY ParameterAssumption DEF ContentsInv, IInv, TypeOK, RequestTypeOK
<1>2. ASSUME NEW r \in Requests
      PROVE  /\ Own(r)' = Own(r) /\ View(r)' = View(r) /\ Upserted(r)' = Upserted(r)
             /\ Visited(r)' = Visited(r) /\ Peopled(r)' = Peopled(r)
  BY <1>1 DEF Own, View, Upserted, Visited, Peopled
<1>3. ItemInv'
  BY <1>1, <1>2 DEF ContentsInv, ItemInv, UniqueItems, Wrote
<1>4. TimeInv'
  BY <1>t, <1>1 DEF ContentsInv, TimeInv
<1>5. \A r \in Requests : MuseumsWritten(r)' /\ PopulationsWritten(r)'
  BY <1>2, OthersWritten DEF ContentsInv, IInv
<1>6. SerialInv'
  <2> SUFFICES ASSUME Serial PROVE SerialInv'
    BY DEF SerialInv
  <2>1. InFlight' = InFlight
    BY <1>1 DEF InFlight
  <2>2. ASSUME NEW r \in Requests
        PROVE  NothingElse(r)'
    <3>1. (OnlyMuseums(r) => OnlyMuseums(r)') /\ (OnlyCities(r) => OnlyCities(r)')
      BY <1>1, <1>2, OnlyMuseumsKept, OnlyCitiesKept
    <3> QED BY <1>1, <1>2, <3>1 DEF ContentsInv, SerialInv, NothingElse, Present
  <2>3. ASSUME NEW r \in Requests
        PROVE  CooledDown(r)'
    <3>1. CooledDown(r) /\ (db[StateId] # Absent => db[StateId].at \in 0 .. now)
      BY DEF ContentsInv, SerialInv, TimeInv
    <3> QED BY <1>t, <1>1, <3>1 DEF CooledDown
  <2> QED BY <2>1, <2>2, <2>3 DEF ContentsInv, SerialInv
<1>7. DataInv'
  BY <1>1 DEF ContentsInv, DataInv
<1> QED BY <1>3, <1>4, <1>5, <1>6, <1>7 DEF ContentsInv

LEMMA NextContents == ContentsInv /\ [Next]_vars => ContentsInv'
<1> SUFFICES ASSUME ContentsInv, [Next]_vars PROVE ContentsInv'
  OBVIOUS
<1>1. IInv /\ IInv' /\ now \in Nat
  BY NextInv DEF ContentsInv, IInv, TypeOK
<1>2. CASE \E r \in Requests : Step(r)
  <2>1. PICK r \in Requests : Step(r)
    BY <1>2
  <2>2. ItemInv' /\ DataInv' /\ TimeInv' /\ SerialInv'
    BY <1>1, <2>1, ItemStep, DataStep, TimeStep, SerialStep DEF ContentsInv, IInv
  <2>3. ASSUME NEW s \in Requests
        PROVE  MuseumsWritten(s)' /\ PopulationsWritten(s)'
    <3>1. CASE s = r
      BY <1>1, <2>1, <3>1, StepMuseums, StepPopulations DEF ContentsInv
    <3>2. CASE s # r
      BY <1>1, <2>1, <3>2, Frame, OthersWritten DEF ContentsInv, IInv
    <3> QED BY <3>1, <3>2
  <2> QED BY <1>1, <2>2, <2>3 DEF ContentsInv
<1>3. CASE Tick
  BY <1>1, <1>3, ClockContents DEF Tick
<1>4. CASE UNCHANGED vars
  BY <1>1, <1>4, ClockContents DEF vars, ghost
<1> QED BY <1>2, <1>3, <1>4 DEF Next, Finished, Step

(* What every request has written so far, and what else it sees.           *)
THEOREM ContentsInvariant == Spec => []ContentsInv
<1>1. Init => ContentsInv
  BY InitContents
<1>2. ContentsInv /\ [Next]_vars => ContentsInv'
  BY NextContents
<1> QED BY <1>1, <1>2, PTL DEF Spec

-----------------------------------------------------------------------------
(* No Wikidata item is ever stored on two museums, however labels change   *)
(* between refreshes and whichever refreshes run at once.                  *)
THEOREM ItemsCorrect == Spec => []OneRowPerItem
<1>1. ContentsInv => OneRowPerItem
  BY DEF ContentsInv, ItemInv, UniqueItems, OneRowPerItem, Committed
<1> QED BY <1>1, ContentsInvariant, PTL

-----------------------------------------------------------------------------
(* What the API shows of the tables t.                                     *)
Shown(t) ==
    LET Stays(ids) == {i \in ids : t[i] # Absent}
        Row(key) == t[CHOOSE i \in Stays(IdsOf(key)) : TRUE]
    IN  [museums |->
            [n \in Names |->
                IF Stays(IdsOf(n)) = {} THEN Absent
                ELSE [item     |-> Row(n).item,
                      city     |-> IF Row(n).city = Null THEN Null ELSE Row(n).city[2],
                      visitors |-> Row(n).records]],
         cities  |->
            [q \in Qids |->
                IF Stays(IdsOf(q)) = {} THEN Absent ELSE Row(q).records],
         state   |-> t[StateId]]

LEMMA ContentsShown == Contents = Shown(db) /\ Contents' = Shown(db')
BY DEF Contents, Shown, Committed

LEMMA ShownMuseum ==
    ASSUME NEW t, UniqueKeys(t), NEW n \in Names, NEW i \in MuseumIds,
           i[2] = n, t[i] # Absent
    PROVE  Shown(t).museums[n] =
               [item     |-> t[i].item,
                city     |-> IF t[i].city = Null THEN Null ELSE t[i].city[2],
                visitors |-> t[i].records]
<1>1. i \in RowIds /\ i \in IdsOf(n)
  BY IdSorts DEF IdsOf, MuseumIds
<1>2. \A j \in IdsOf(n) : j \in RowIds /\ j[2] = n
  BY KeyIds, IdSorts, IdsOfKey
<1>3. {j \in IdsOf(n) : t[j] # Absent} = {i}
  BY <1>1, <1>2 DEF UniqueKeys
<1>4. (CHOOSE j \in {j \in IdsOf(n) : t[j] # Absent} : TRUE) = i
  BY <1>3
<1> QED BY <1>3, <1>4 DEF Shown

LEMMA ShownCity ==
    ASSUME NEW t, UniqueKeys(t), NEW q \in Qids, NEW i \in CityIds,
           i[2] = q, t[i] # Absent
    PROVE  Shown(t).cities[q] = t[i].records
<1>1. i \in RowIds /\ i \in IdsOf(q)
  BY IdSorts DEF IdsOf, CityIds
<1>2. \A j \in IdsOf(q) : j \in RowIds /\ j[2] = q
  BY KeyIds, IdSorts, IdsOfKey
<1>3. {j \in IdsOf(q) : t[j] # Absent} = {i}
  BY <1>1, <1>2 DEF UniqueKeys
<1>4. (CHOOSE j \in {j \in IdsOf(q) : t[j] # Absent} : TRUE) = i
  BY <1>3
<1> QED BY <1>3, <1>4 DEF Shown

LEMMA NotShown ==
    ASSUME NEW t
    PROVE  /\ \A n \in Names : (\A i \in IdsOf(n) : t[i] = Absent)
                                   => Shown(t).museums[n] = Absent
           /\ \A q \in Qids : (\A i \in IdsOf(q) : t[i] = Absent)
                                  => Shown(t).cities[q] = Absent
           /\ Shown(t).state = t[StateId]
BY DEF Shown

LEMMA ShownShape ==
    ASSUME NEW t
    PROVE  Shown(t) = [museums |-> [n \in Names |-> Shown(t).museums[n]],
                       cities  |-> [q \in Qids |-> Shown(t).cities[q]],
                       state   |-> Shown(t).state]
<1>1. /\ Shown(t).museums = [n \in Names |-> Shown(t).museums[n]]
      /\ Shown(t).cities = [q \in Qids |-> Shown(t).cities[q]]
  BY DEF Shown
<1>2. Shown(t) = [museums |-> Shown(t).museums,
                  cities  |-> Shown(t).cities,
                  state   |-> Shown(t).state]
  BY DEF Shown
<1> QED BY <1>1, <1>2

-----------------------------------------------------------------------------
(* The commit of r: what it shows of the museums and the cities it fetched. *)
LEMMA CommitShows ==
    ASSUME ContentsInv, IInv', NEW r \in Requests, Commit(r)
    PROVE  /\ pc[r] = "commit" /\ db' = View(r) /\ UniqueKeys(db')
           /\ Upserted(r) = DOMAIN data[r].museums /\ Visited(r) = DOMAIN data[r].museums
           /\ Peopled(r) = DOMAIN data[r].populations
BY DEF Commit, Commits, Upserted, Visited, Peopled, AfterMuseums, IInv, LockInv

(* After the commit, museum n is shown with the columns of its last        *)
(* enrichment and the records of row i.                                    *)
MuseumFrom(r, n, i, last) ==
    /\ i \in MuseumIds /\ i[2] = n /\ View(r)[i] # Absent
    /\ View(r)[i].records \in RecordSets
    /\ \A y \in VisitorYears(data[r], n) : View(r)[i].records[y] = r
    /\ Contents'.museums[n] = [item     |-> last.item,
                               city     |-> last.city,
                               visitors |-> View(r)[i].records]

LEMMA MuseumShown ==
    ASSUME ContentsInv, IInv', NEW r \in Requests, Commit(r),
           NEW n \in MuseumNames(data[r]),
           NEW last, last = data[r].museums[Max(Named(data[r], n))]
    PROVE  \E i : MuseumFrom(r, n, i, last)
<1>t. /\ IInv /\ TypeOK /\ DbTypeOK /\ LoopInv(r) /\ MuseumsWritten(r)
  BY DEF ContentsInv, IInv, TypeOK
<1>a. PICK k : k = Max(Named(data[r], n))
  OBVIOUS
<1>b. last = data[r].museums[k]
  BY <1>a
<1>1. /\ Upserted(r) = DOMAIN data[r].museums /\ Visited(r) = DOMAIN data[r].museums
      /\ pc[r] = "commit" /\ db' = View(r) /\ UniqueKeys(db')
  BY CommitShows
<1>2. /\ k \in Named(data[r], n)
      /\ \A l \in Named(data[r], n) : l <= k
  <2>1. Named(data[r], n) \subseteq 1 .. Len(data[r].museums) /\ Len(data[r].museums) \in Nat
    BY <1>t, ListPlaces DEF Named
  <2>2. Named(data[r], n) # {}
    BY DEF Named, MuseumNames
  <2> QED BY <1>a, <2>1, <2>2, MaxBounded
<1>3. k \in DOMAIN data[r].museums /\ last.name = n /\ n \in Names
      /\ last.city \in Qids \cup {Null}
  BY <1>t, <1>b, <1>2, DataPlaces DEF Named
<1>4. PICK i \in IdsOf(n) : i \in RowIds /\ Wrote(r, i)
  <2>1. Holds(r, n)
    BY <1>t, <1>b, <1>1, <1>3 DEF MuseumsWritten
  <2> QED BY <2>1 DEF Holds, Wrote
<1>5. i \in MuseumIds /\ i[2] = n /\ View(r)[i] = tx[r][i] /\ tx[r][i] # Absent
      /\ tx[r][i] \in MuseumRows
  <2>1. i \in MuseumIds /\ i[2] = n
    BY <1>3, KeyIds, IdSorts, IdsOfKey
  <2>2. View(r)[i] = tx[r][i] /\ tx[r][i] # Absent
    BY <1>4 DEF View, Wrote
  <2>3. RowsAt(i) = MuseumRows
    BY <2>1 DEF RowsAt
  <2>4. View(r)[i] \in RowsAt(i) \cup {Absent}
    BY <1>t, <1>4, ViewType DEF Tables
  <2> QED BY <2>1, <2>2, <2>3, <2>4
<1>6. LastUpserted(r, k)
  BY <1>1, <1>2, <1>3, <1>b DEF LastUpserted, Named
<1>7. /\ tx[r][i].item = last.item
      /\ tx[r][i].city = IF last.city = Null THEN Null ELSE cityIds[r][last.city]
  BY <1>t, <1>b, <1>1, <1>3, <1>4, <1>6 DEF MuseumsWritten
<1>8. last.city # Null => cityIds[r][last.city] # Null /\ cityIds[r][last.city][2] = last.city
  <2> SUFFICES ASSUME last.city # Null
               PROVE  cityIds[r][last.city] # Null /\ cityIds[r][last.city][2] = last.city
    OBVIOUS
  <2>1. last.city \in CityQids(data[r]) /\ last.city \in Qids
    BY <1>b, <1>3 DEF CityQids
  <2>2. Mapped(r, last.city)
    BY <1>t, <1>1, <2>1 DEF LoopInv, AfterCities
  <2>3. cityIds[r][last.city] \in IdsOf(last.city)
    BY <1>t, <2>1, <2>2 DEF LoopInv, MappedAreWritten
  <2> QED BY <2>1, <2>2, <2>3, IdsOfKey DEF Mapped
<1>9. Contents'.museums[n] = [item |-> last.item, city |-> last.city,
                              visitors |-> tx[r][i].records]
  <2>1. db'[i] = tx[r][i]
    BY <1>1, <1>5
  <2>2. Contents'.museums[n] =
            [item     |-> db'[i].item,
             city     |-> IF db'[i].city = Null THEN Null ELSE db'[i].city[2],
             visitors |-> db'[i].records]
    BY <1>1, <1>3, <1>5, <2>1, ContentsShown, ShownMuseum
  <2> QED BY <1>7, <1>8, <2>1, <2>2
<1>10. \A y \in VisitorYears(data[r], n) : tx[r][i].records[y] = r
  <2>1. ASSUME NEW l \in Named(data[r], n), NEW y \in data[r].museums[l].years
        PROVE  tx[r][i].records[y] = r
    BY <1>t, <1>1, <1>4, <2>1 DEF MuseumsWritten, Named
  <2> QED BY <2>1 DEF VisitorYears
<1>11. tx[r][i].records \in RecordSets
  BY <1>5 DEF MuseumRows
<1>12. MuseumFrom(r, n, i, last)
  BY <1>5, <1>9, <1>10, <1>11 DEF MuseumFrom
<1> QED BY <1>12

LEMMA CityShown ==
    ASSUME ContentsInv, IInv', NEW r \in Requests, Commit(r),
           NEW q \in CityQids(data[r])
    PROVE  LET got == Contents'.cities[q]
           IN  /\ q \in Qids
               /\ got \in RecordSets
               /\ \A y \in PopulationYears(data[r], q) : got[y] = r
               /\ \E i \in CityIds : /\ i[2] = q /\ View(r)[i] # Absent
                                     /\ got = View(r)[i].records
<1>t. /\ IInv /\ TypeOK /\ DbTypeOK /\ LoopInv(r) /\ PopulationsWritten(r)
  BY DEF ContentsInv, IInv, TypeOK
<1>1. /\ Peopled(r) = DOMAIN data[r].populations
      /\ pc[r] = "commit" /\ db' = View(r) /\ UniqueKeys(db')
  BY CommitShows
<1>2. q \in Qids
  BY <1>t, ListPlaces
<1>3. PICK i : i = cityIds[r][q]
  OBVIOUS
<1>4. i \in IdsOf(q) /\ Wrote(r, i)
  <2>1. Mapped(r, q)
    BY <1>t, <1>1 DEF LoopInv, AfterCities
  <2> QED BY <1>t, <1>2, <1>3, <2>1 DEF LoopInv, MappedAreWritten
<1>5. i \in CityIds /\ i \in RowIds /\ i[2] = q
  BY <1>2, <1>4, KeyIds, IdSorts, IdsOfKey
<1>6. View(r)[i] = tx[r][i] /\ tx[r][i] # Absent /\ tx[r][i] \in CityRows
  <2>1. View(r)[i] = tx[r][i] /\ tx[r][i] # Absent
    BY <1>4, <1>5 DEF View, Wrote
  <2>2. RowsAt(i) = CityRows
    BY <1>5, IdSorts DEF RowsAt
  <2>3. View(r)[i] \in RowsAt(i) \cup {Absent}
    BY <1>t, <1>5, ViewType DEF Tables
  <2> QED BY <2>1, <2>2, <2>3
<1>7. Contents'.cities[q] = tx[r][i].records
  <2>1. db'[i] = tx[r][i]
    BY <1>1, <1>6
  <2> QED BY <1>1, <1>2, <1>5, <1>6, <2>1, ContentsShown, ShownCity
<1>8. \A y \in PopulationYears(data[r], q) : tx[r][i].records[y] = r
  <2>1. ASSUME NEW s \in Range(data[r].populations), s.city = q, NEW y \in s.years
        PROVE  tx[r][i].records[y] = r
    <3>1. PICK k \in DOMAIN data[r].populations : s = data[r].populations[k]
      BY DEF Range
    <3> QED BY <1>t, <1>1, <1>4, <2>1, <3>1 DEF PopulationsWritten
  <2> QED BY <2>1 DEF PopulationYears
<1>9. tx[r][i].records \in RecordSets
  BY <1>6 DEF CityRows
<1> QED BY <1>2, <1>5, <1>6, <1>7, <1>8, <1>9

LEMMA NamesType ==
    ASSUME NEW d \in Datasets \cup {NoData}
    PROVE  MuseumNames(d) \subseteq Names
<1>1. \A i \in DOMAIN d.museums : d.museums[i] \in Enrichments
  BY DataTypes
<1> QED BY <1>1 DEF MuseumNames, Enrichments

LEMMA LastPlaces ==
    ASSUME TypeOK, NEW r \in Requests, NEW n \in MuseumNames(data[r])
    PROVE  /\ data[r].museums[Max(Named(data[r], n))].item \in Items \cup {Null}
           /\ data[r].museums[Max(Named(data[r], n))].city \in Qids \cup {Null}
<1>1. data[r].museums \in Seq(Enrichments)
  BY DataTypes DEF TypeOK, RequestTypeOK
<1>2. Named(data[r], n) \subseteq 1 .. Len(data[r].museums) /\ Len(data[r].museums) \in Nat
  BY <1>1 DEF Named
<1>3. Named(data[r], n) # {}
  BY DEF Named, MuseumNames
<1>4. Max(Named(data[r], n)) \in 1 .. Len(data[r].museums)
  BY <1>2, <1>3, MaxBounded
<1>5. data[r].museums[Max(Named(data[r], n))] \in Enrichments
  BY <1>1, <1>4
<1> QED BY <1>5 DEF Enrichments

(* What an earlier refresh left is shown as its data set.                  *)
LEMMA StoredContents ==
    ASSUME NEW d \in SeedDatasets
    PROVE  Shown(Stored(ContentsOf(d, Seed, 0))) = ContentsOf(d, Seed, 0)
<1>1. PICK c : c = ContentsOf(d, Seed, 0)
  OBVIOUS
<1>2. PICK t : t = Stored(c)
  OBVIOUS
<1>3. d \in Datasets
  BY DataAssumption
<1>4. UniqueKeys(t)
  <2>1. ASSUME NEW i \in RowIds, NEW j \in RowIds, i[1] = Seed, j[1] = Seed,
               i[2] = j[2]
        PROVE  i = j
    BY <2>1 DEF RowIds, MuseumIds, CityIds, StateId
  <2> QED BY <1>2, <2>1, InitStored DEF UniqueKeys
<1>5. ASSUME NEW n \in Names
      PROVE  Shown(t).museums[n] = c.museums[n]
  <2>1. \A i \in IdsOf(n) : i \in MuseumIds /\ i \in RowIds /\ i[2] = n
    BY KeyIds, IdSorts, IdsOfKey
  <2>2. <<Seed, n>> \in MuseumIds /\ <<Seed, n>> \in RowIds /\ <<Seed, n>> \notin CityIds
        /\ <<Seed, n>> # StateId
    BY IdSorts DEF Writers
  <2>3. CASE n \notin MuseumNames(d)
    <3>1. c.museums[n] = Absent
      BY <1>1, <2>3 DEF ContentsOf
    <3>2. \A i \in IdsOf(n) : t[i] = Absent
      BY <1>2, <2>1, <3>1, IdSorts DEF Stored
    <3> QED BY <3>1, <3>2, NotShown
  <2>4. CASE n \in MuseumNames(d)
    <3> DEFINE m == c.museums[n]
    <3>1. /\ m = [item |-> m.item, city |-> m.city, visitors |-> m.visitors]
          /\ m.item \in Items \cup {Null} /\ m.city \in Qids \cup {Null}
          /\ m.visitors \in RecordSets
      <4>1. Seed \in Writers
        BY DEF Writers
      <4>2. m.item \in Items \cup {Null} /\ m.city \in Qids \cup {Null}
            /\ m.visitors \in RecordSets
        BY <1>1, <1>3, <2>4, <4>1, MuseumContents
      <4>3. m = [item |-> m.item, city |-> m.city, visitors |-> m.visitors]
        BY <1>1, <2>4 DEF ContentsOf
      <4> QED BY <4>2, <4>3
    <3> HIDE DEF m
    <3>2. m # Absent
      BY <3>1, ShownAssumption
    <3>3. t[<<Seed, n>>] = [item    |-> m.item,
                            city    |-> IF m.city = Null THEN Null ELSE <<Seed, m.city>>,
                            records |-> m.visitors]
      BY <1>2, <2>2, <3>2 DEF Stored, m
    <3>4. m.city # Null => <<Seed, m.city>> \in CityIds
      BY <3>1, IdSorts DEF Writers
    <3>5. t[<<Seed, n>>] \in MuseumRows
      BY <3>1, <3>3, <3>4 DEF MuseumRows
    <3>6. t[<<Seed, n>>] # Absent
      BY <3>5, RowAssumption DEF Rows
    <3>7. Shown(t).museums[n] =
              [item     |-> t[<<Seed, n>>].item,
               city     |-> IF t[<<Seed, n>>].city = Null THEN Null
                            ELSE t[<<Seed, n>>].city[2],
               visitors |-> t[<<Seed, n>>].records]
      BY <1>4, <2>2, <3>6, ShownMuseum
    <3>8. (IF t[<<Seed, n>>].city = Null THEN Null ELSE t[<<Seed, n>>].city[2]) = m.city
      BY <3>3, <3>4, RowAssumption
    <3> QED BY <3>1, <3>3, <3>7, <3>8 DEF m
  <2> QED BY <2>3, <2>4
<1>6. ASSUME NEW q \in Qids
      PROVE  Shown(t).cities[q] = c.cities[q]
  <2>1. \A i \in IdsOf(q) : i \in CityIds /\ i \in RowIds /\ i[2] = q
    BY KeyIds, IdSorts, IdsOfKey
  <2>2. <<Seed, q>> \in CityIds /\ <<Seed, q>> \in RowIds /\ <<Seed, q>> \notin MuseumIds
        /\ <<Seed, q>> # StateId
    BY IdSorts DEF Writers
  <2>3. CASE c.cities[q] = Absent
    <3>1. \A i \in IdsOf(q) : t[i] = Absent
      BY <1>2, <2>1, <2>3, IdSorts DEF Stored
    <3> QED BY <2>3, <3>1, NotShown
  <2>4. CASE c.cities[q] # Absent
    <3>1. c.cities[q] \in RecordSets
      <4>1. c.cities[q] = Recorded(NoRecords, PopulationYears(d, q), Seed)
        BY <1>1, <2>4 DEF ContentsOf
      <4> QED BY <4>1, NoRecordsType, RecordedType DEF Writers
    <3>2. t[<<Seed, q>>] = [records |-> c.cities[q]]
      BY <1>2, <2>2, <2>4 DEF Stored
    <3>3. t[<<Seed, q>>] # Absent
      BY <3>1, <3>2, RowAssumption DEF Rows, CityRows
    <3>4. Shown(t).cities[q] = t[<<Seed, q>>].records
      BY <1>4, <2>2, <3>3, ShownCity
    <3> QED BY <3>2, <3>4
  <2> QED BY <2>3, <2>4
<1>7. Shown(t).state = c.state
  <2>1. t[StateId] = c.state
    BY <1>2, IdSorts DEF Stored, StateId
  <2> QED BY <2>1, NotShown
<1>8. Shown(t) = [museums |-> [n \in Names |-> Shown(t).museums[n]],
                  cities  |-> [q \in Qids |-> Shown(t).cities[q]],
                  state   |-> Shown(t).state]
  BY ShownShape
<1>9. c = [museums |-> [n \in Names |-> c.museums[n]],
           cities  |-> [q \in Qids |-> c.cities[q]],
           state   |-> c.state]
  BY <1>1 DEF ContentsOf
<1> QED BY <1>1, <1>2, <1>5, <1>6, <1>7, <1>8, <1>9

-----------------------------------------------------------------------------
(* Between two commits the contents and the history stay.                  *)
LEMMA LatestKept ==
    ASSUME LatestRefreshComplete, UNCHANGED <<db, committed>>
    PROVE  LatestRefreshComplete'
<1>1. Contents' = Contents
  BY DEF Contents, Committed
<1>2. Latest' = Latest /\ LatestContents' = LatestContents
  BY DEF Latest, LatestContents
<1> QED BY <1>1, <1>2 DEF LatestRefreshComplete

LEMMA LatestStored ==
    ASSUME ContentsInv, IInv', NEW r \in Requests, Commit(r)
    PROVE  LatestRefreshComplete'
<1>1. PICK d : d = data[r]
  OBVIOUS
<1>2. PICK c : c = ContentsOf(d, r, stamp[r])
  OBVIOUS
<1>3. Latest'.data = d /\ LatestContents' = c
  <2>1. Latest' = [by |-> r, at |-> stamp[r], data |-> data[r]]
    BY LatestCommit DEF ContentsInv
  <2> QED BY <1>1, <1>2, <2>1 DEF LatestContents
<1>4. ASSUME NEW n \in MuseumNames(d)
      PROVE  LET got  == Contents'.museums[n]
                 want == c.museums[n]
             IN  /\ got # Absent
                 /\ got.item = want.item
                 /\ got.city = want.city
                 /\ \A y \in Years : want.visitors[y] \in {Null, got.visitors[y]}
  <2> DEFINE last == d.museums[Max(Named(d, n))]
  <2>1. PICK visitors \in RecordSets :
            /\ Contents'.museums[n] = [item |-> last.item, city |-> last.city,
                                       visitors |-> visitors]
            /\ \A y \in VisitorYears(d, n) : visitors[y] = r
    <3>1. PICK set : set = data[r].museums[Max(Named(data[r], n))]
      OBVIOUS
    <3>2. n \in MuseumNames(data[r])
      BY <1>1, <1>4
    <3>3. PICK i : MuseumFrom(r, n, i, set)
      BY <3>1, <3>2, MuseumShown
    <3>4. set = last
      BY <1>1, <3>1
    <3>5. /\ View(r)[i].records \in RecordSets
          /\ \A y \in VisitorYears(d, n) : View(r)[i].records[y] = r
          /\ Contents'.museums[n] = [item     |-> set.item,
                                     city     |-> set.city,
                                     visitors |-> View(r)[i].records]
      BY <1>1, <3>3 DEF MuseumFrom
    <3> HIDE DEF last
    <3> QED BY <3>4, <3>5
  <2>2. n \in Names
    BY <1>1, <1>4, NamesType DEF ContentsInv, IInv, TypeOK, RequestTypeOK
  <2>3. c.museums[n] = [item |-> last.item, city |-> last.city,
                        visitors |-> Recorded(NoRecords, VisitorYears(d, n), r)]
    BY <1>2, <1>4, <2>2 DEF ContentsOf
  <2>4. Contents'.museums[n] # Absent
    <3>1. last.item \in Items \cup {Null} /\ last.city \in Qids \cup {Null}
      BY <1>1, <1>4, LastPlaces DEF ContentsInv, IInv
    <3> HIDE DEF last
    <3> QED BY <2>1, <3>1, ShownAssumption
  <2>5. \A y \in Years : Recorded(NoRecords, VisitorYears(d, n), r)[y]
                             \in {Null, visitors[y]}
    BY <2>1 DEF Recorded, NoRecords
  <2> HIDE DEF last
  <2> QED BY <2>1, <2>3, <2>4, <2>5
<1>5. ASSUME NEW q \in CityQids(d)
      PROVE  LET got  == Contents'.cities[q]
                 want == c.cities[q]
             IN  /\ got # Absent
                 /\ \A y \in Years : want[y] \in {Null, got[y]}
  <2>1. /\ q \in Qids /\ Contents'.cities[q] \in RecordSets
        /\ \A y \in PopulationYears(d, q) : Contents'.cities[q][y] = r
    BY <1>1, <1>5, CityShown
  <2>2. c.cities[q] = Recorded(NoRecords, PopulationYears(d, q), r)
    BY <1>2, <1>5, <2>1 DEF ContentsOf
  <2>3. Contents'.cities[q] # Absent
    BY <2>1, DistinctAssumption
  <2> QED BY <2>1, <2>2, <2>3 DEF Recorded, NoRecords
<1> QED BY <1>3, <1>4, <1>5 DEF LatestRefreshComplete

LEMMA InitLatest == Init => LatestRefreshComplete
<1> SUFFICES ASSUME Init, committed # <<>>
             PROVE  LatestRefreshComplete
  BY DEF LatestRefreshComplete
<1>1. PICK d \in SeedDatasets : /\ db = Stored(ContentsOf(d, Seed, 0))
                               /\ committed = <<[by |-> Seed, at |-> 0, data |-> d]>>
  BY DEF Init
<1>2. Latest.data = d /\ LatestContents = ContentsOf(d, Seed, 0)
  BY <1>1 DEF Latest, LatestContents, Last
<1>3. Contents = ContentsOf(d, Seed, 0)
  BY <1>1, StoredContents, ContentsShown
<1>4. d \in Datasets
  BY DataAssumption
<1>5. ASSUME NEW n \in MuseumNames(d)
      PROVE  /\ Contents.museums[n] # Absent
             /\ \A y \in Years : LatestContents.museums[n].visitors[y]
                                     \in {Null, Contents.museums[n].visitors[y]}
  <2>1. n \in Names
    BY <1>4, <1>5, NamesType
  <2>2. /\ Contents.museums[n] = [item     |-> Contents.museums[n].item,
                                  city     |-> Contents.museums[n].city,
                                  visitors |-> Contents.museums[n].visitors]
        /\ Contents.museums[n].item \in Items \cup {Null}
        /\ Contents.museums[n].city \in Qids \cup {Null}
        /\ Contents.museums[n].visitors \in RecordSets
    <3>1. Seed \in Writers
      BY DEF Writers
    <3> QED BY <1>3, <1>4, <1>5, <2>1, <3>1, MuseumContents DEF ContentsOf
  <2>3. Contents.museums[n] # Absent
    BY <2>2, ShownAssumption
  <2> QED BY <1>2, <1>3, <2>3
<1>6. ASSUME NEW q \in CityQids(d)
      PROVE  Contents.cities[q] # Absent
  <2>1. q \in Qids
    BY <1>4, <1>6, CityQidsType
  <2>2. Contents.cities[q] = Recorded(NoRecords, PopulationYears(d, q), Seed)
    BY <1>3, <1>6, <2>1 DEF ContentsOf
  <2> QED BY <2>2, NoRecordsType, RecordedType, DistinctAssumption DEF Writers
<1> QED BY <1>2, <1>3, <1>5, <1>6 DEF LatestRefreshComplete

(* Whatever the other refreshes do at the same time: everything the last   *)
(* one to commit has fetched is in the database, as it fetched it.         *)
THEOREM LatestComplete == Spec => []LatestRefreshComplete
<1>1. Init => LatestRefreshComplete
  BY InitLatest
<1>2. ContentsInv /\ LatestRefreshComplete /\ [Next]_vars => LatestRefreshComplete'
  <2> SUFFICES ASSUME ContentsInv, LatestRefreshComplete, [Next]_vars
               PROVE  LatestRefreshComplete'
    OBVIOUS
  <2>1. CASE \E r \in Requests : Step(r)
    <3>1. PICK r \in Requests : Step(r)
      BY <2>1
    <3>2. CASE Commit(r)
      BY <3>2, NextInv, LatestStored DEF ContentsInv
    <3>3. CASE ~Commit(r)
      BY <3>1, <3>3, OnlyCommits, LatestKept
    <3> QED BY <3>2, <3>3
  <2>2. CASE Tick
    BY <2>2, LatestKept DEF Tick, dbVars
  <2>3. CASE UNCHANGED vars
    BY <2>3, LatestKept DEF vars, dbVars, ghost
  <2> QED BY <2>1, <2>2, <2>3 DEF Next, Finished, Step
<1> QED BY <1>1, <1>2, ContentsInvariant, PTL DEF Spec

-----------------------------------------------------------------------------
(* A whole number of seconds, rounded down.                                *)
LEMMA WholeSeconds ==
    ASSUME NEW x \in Int
    PROVE  /\ x \div Second \in Int
           /\ (x \div Second) * Second <= x
           /\ x < (x \div Second) * Second + Second
BY ParameterAssumption

(* The Retry-After header of a refusal is too short by less than a second. *)
THEOREM RetryAfterCorrect == Spec => []RetryAfterHonest
<1>1. IInv => RetryAfterHonest
  <2> SUFFICES ASSUME IInv, NEW r \in Requests, CoolingDown(r)
               PROVE  LET told == now + RetryAfter(r) * Second
                      IN  /\ \A time \in now .. told - 1 : CoolingDownAt(r, time)
                          /\ ~CoolingDownAt(r, told + Second)
    BY DEF RetryAfterHonest
  <2>1. PICK at : at = View(r)[StateId].at
    OBVIOUS
  <2>2. /\ View(r)[StateId] # Absent /\ at # Null /\ ~forced[r]
        /\ now - at < Cooldown
    BY <2>1 DEF CoolingDown, CoolingDownAt
  <2>3. at \in Nat
    <3>1. View(r)[StateId] \in RowsAt(StateId) \cup {Absent}
      BY ViewType, IdSorts DEF IInv, TypeOK, Tables
    <3> QED BY <2>1, <2>2, <3>1, IdSorts DEF StateRows
  <2>4. now \in Nat /\ Cooldown \in Nat /\ Second \in Nat \ {0}
    BY ParameterAssumption DEF IInv, TypeOK
  <2>5. PICK told \in Int : /\ told = now + RetryAfter(r) * Second
                           /\ told <= Cooldown + at
                           /\ Cooldown + at < told + Second
    BY <2>1, <2>3, <2>4, WholeSeconds DEF RetryAfter
  <2>6. ASSUME NEW time \in now .. told - 1
        PROVE  CoolingDownAt(r, time)
    <3>1. time - at < Cooldown
      BY <2>3, <2>4, <2>5
    <3> QED BY <2>1, <2>2, <3>1 DEF CoolingDownAt
  <2>7. ASSUME NEW time, time = told + Second
        PROVE  ~CoolingDownAt(r, time)
    <3>1. ~(time - at < Cooldown)
      BY <2>3, <2>4, <2>5, <2>7
    <3> QED BY <2>1, <3>1 DEF CoolingDownAt
  <2> QED BY <2>5, <2>6, <2>7
<1> QED BY <1>1, Invariant, PTL

-----------------------------------------------------------------------------
(* Serial clients: a commit shows its data set and nothing else.           *)
LEMMA RecordsExact ==
    ASSUME NEW records \in RecordSets, NEW Y, NEW w,
           \A y \in Y : records[y] = w,
           \A y \in Years : records[y] # Null => y \in Y
    PROVE  records = Recorded(NoRecords, Y, w)
BY DEF RecordSets, Recorded, NoRecords

LEMMA CommitExact ==
    ASSUME Serial, ContentsInv, IInv', NEW r \in Requests, Commit(r)
    PROVE  Contents' = ContentsOf(data[r], r, stamp[r])
<1>a. PICK d : d = data[r]
  OBVIOUS
<1>b. PICK c : c = ContentsOf(d, r, stamp[r])
  OBVIOUS
<1>t. IInv /\ TypeOK /\ DbTypeOK /\ LoopInv(r)
  BY DEF ContentsInv, IInv, TypeOK
<1>1. /\ Visited(r) = DOMAIN d.museums /\ Upserted(r) = DOMAIN d.museums
      /\ Peopled(r) = DOMAIN d.populations
      /\ pc[r] = "commit" /\ db' = View(r) /\ UniqueKeys(db')
  BY <1>a, CommitShows
<1>2. OnlyMuseums(r) /\ OnlyCities(r)
  BY <1>1 DEF ContentsInv, SerialInv, NothingElse, AfterCities
<1>3. ASSUME NEW n \in Names
      PROVE  Contents'.museums[n] = c.museums[n]
  <2>1. CASE n \in MuseumNames(d)
    <3>a. PICK last : last = d.museums[Max(Named(d, n))]
      OBVIOUS
    <3>1. PICK i : MuseumFrom(r, n, i, last)
      <4>1. n \in MuseumNames(data[r]) /\ last = data[r].museums[Max(Named(data[r], n))]
        BY <1>a, <2>1, <3>a
      <4> QED BY <4>1, MuseumShown
    <3>b. /\ i \in MuseumIds /\ i[2] = n /\ View(r)[i] # Absent
          /\ View(r)[i].records \in RecordSets
          /\ \A y \in VisitorYears(d, n) : View(r)[i].records[y] = r
          /\ Contents'.museums[n] = [item     |-> last.item,
                                     city     |-> last.city,
                                     visitors |-> View(r)[i].records]
      BY <1>a, <3>1 DEF MuseumFrom
    <3>2. ASSUME NEW y \in Years, View(r)[i].records[y] # Null
          PROVE  y \in VisitorYears(d, n)
      <4>1. PICK k \in DOMAIN d.museums : d.museums[k].name = n /\ y \in d.museums[k].years
        BY <1>a, <1>1, <1>2, <3>b, <3>2 DEF OnlyMuseums, Present
      <4> QED BY <4>1 DEF VisitorYears, Named
    <3>3. View(r)[i].records = Recorded(NoRecords, VisitorYears(d, n), r)
      BY <3>b, <3>2, RecordsExact
    <3>4. c.museums[n] = [item     |-> last.item,
                          city     |-> last.city,
                          visitors |-> Recorded(NoRecords, VisitorYears(d, n), r)]
      BY <1>b, <2>1, <3>a DEF ContentsOf
    <3> QED BY <3>b, <3>3, <3>4
  <2>2. CASE n \notin MuseumNames(d)
    <3>1. ASSUME NEW i \in IdsOf(n)
          PROVE  db'[i] = Absent
      <4>1. i \in MuseumIds /\ i[2] = n
        BY <3>1, KeyIds, IdSorts, IdsOfKey
      <4>2. i \notin Present(r, MuseumIds)
        BY <1>a, <1>1, <1>2, <2>2, <4>1 DEF OnlyMuseums, MuseumNames
      <4> QED BY <1>1, <4>1, <4>2 DEF Present
    <3>2. c.museums[n] = Absent
      BY <1>b, <2>2 DEF ContentsOf
    <3> QED BY <3>1, <3>2, NotShown, ContentsShown
  <2> QED BY <2>1, <2>2
<1>4. ASSUME NEW q \in Qids
      PROVE  Contents'.cities[q] = c.cities[q]
  <2>1. CASE q \in CityQids(d)
    <3>1. PICK i \in CityIds :
              /\ i[2] = q /\ View(r)[i] # Absent
              /\ View(r)[i].records \in RecordSets
              /\ \A y \in PopulationYears(d, q) : View(r)[i].records[y] = r
              /\ Contents'.cities[q] = View(r)[i].records
      BY <1>a, <2>1, CityShown
    <3>2. ASSUME NEW y \in Years, View(r)[i].records[y] # Null
          PROVE  y \in PopulationYears(d, q)
      <4>1. PICK k \in DOMAIN d.populations :
                d.populations[k].city = q /\ y \in d.populations[k].years
        BY <1>a, <1>1, <1>2, <3>1, <3>2 DEF OnlyCities, Present
      <4>2. d.populations[k] \in Range(d.populations)
        BY DEF Range
      <4> QED BY <4>1, <4>2 DEF PopulationYears
    <3>3. View(r)[i].records = Recorded(NoRecords, PopulationYears(d, q), r)
      BY <3>1, <3>2, RecordsExact
    <3>4. c.cities[q] = Recorded(NoRecords, PopulationYears(d, q), r)
      BY <1>b, <2>1 DEF ContentsOf
    <3> QED BY <3>1, <3>3, <3>4
  <2>2. CASE q \notin CityQids(d)
    <3>1. ASSUME NEW i \in IdsOf(q)
          PROVE  db'[i] = Absent
      <4>1. i \in CityIds /\ i[2] = q
        BY <3>1, KeyIds, IdSorts, IdsOfKey
      <4>2. ~Mapped(r, q)
        BY <1>a, <1>t, <2>2 DEF LoopInv, MappedAreWritten
      <4>3. i \notin Present(r, CityIds)
        BY <1>2, <4>1, <4>2 DEF OnlyCities
      <4> QED BY <1>1, <4>1, <4>3 DEF Present
    <3>2. c.cities[q] = Absent
      BY <1>b, <2>2 DEF ContentsOf
    <3> QED BY <3>1, <3>2, NotShown, ContentsShown
  <2> QED BY <2>1, <2>2
<1>5. Contents'.state = c.state
  <2>1. db'[StateId] = c.state
    BY <1>a, <1>b, <1>t, LatestCommit
  <2> QED BY <2>1, NotShown, ContentsShown
<1>6. Contents' = [museums |-> [n \in Names |-> Contents'.museums[n]],
                   cities  |-> [q \in Qids |-> Contents'.cities[q]],
                   state   |-> Contents'.state]
  BY ContentsShown, ShownShape
<1>7. c = [museums |-> [n \in Names |-> c.museums[n]],
           cities  |-> [q \in Qids |-> c.cities[q]],
           state   |-> c.state]
  BY <1>b DEF ContentsOf
<1> QED BY <1>a, <1>b, <1>3, <1>4, <1>5, <1>6, <1>7

-----------------------------------------------------------------------------
(* The refinement of AtomicRefresh.                                        *)
LEMMA SameData ==
    /\ Atomic!EmptyContents = EmptyContents
    /\ \A d, w, at : Atomic!ContentsOf(d, w, at) = ContentsOf(d, w, at)
<1>1. Atomic!EmptyContents = EmptyContents
  BY DEF Atomic!EmptyContents, EmptyContents
<1>2. \A d, n : Atomic!Named(d, n) = Named(d, n)
  BY DEF Atomic!Named, Named
<1>3. \A d : Atomic!MuseumNames(d) = MuseumNames(d) /\ Atomic!CityQids(d) = CityQids(d)
  BY DEF Atomic!MuseumNames, MuseumNames, Atomic!CityQids, CityQids
<1>4. \A d, n : Atomic!VisitorYears(d, n) = VisitorYears(d, n)
  BY <1>2 DEF Atomic!VisitorYears, VisitorYears
<1>5. \A d, q : Atomic!PopulationYears(d, q) = PopulationYears(d, q)
  BY DEF Atomic!PopulationYears, PopulationYears, Atomic!Range, Range
<1>6. \A Y, w : Atomic!Recorded(Atomic!NoRecords, Y, w) = Recorded(NoRecords, Y, w)
  BY DEF Atomic!Recorded, Recorded, Atomic!NoRecords, NoRecords
<1>7. \A S : Atomic!Max(S) = Max(S)
  BY DEF Atomic!Max, Max
<1>8. \A S : Atomic!Cardinality(S) = Cardinality(S)
  BY DEF Atomic!Cardinality, Cardinality
<1> QED BY <1>1, <1>2, <1>3, <1>4, <1>5, <1>6, <1>7, <1>8
        DEF Atomic!ContentsOf, ContentsOf

LEMMA InitAtomic == Init => Atomic!Init
<1> SUFFICES ASSUME Init PROVE Atomic!Init
  OBVIOUS
<1>1. Contents \in {EmptyContents} \cup {ContentsOf(d, Seed, 0) : d \in SeedDatasets}
  <2>1. CASE db = Stored(EmptyContents)
    <3>1. \A i \in RowIds : db[i] = Absent
      BY <2>1, IdSorts DEF Stored, EmptyContents
    <3>2. /\ \A n \in Names : Shown(db).museums[n] = Absent
          /\ \A q \in Qids : Shown(db).cities[q] = Absent
          /\ Shown(db).state = Absent
      BY <3>1, NotShown, KeyIds, IdSorts
    <3>3. Shown(db) = [museums |-> [n \in Names |-> Shown(db).museums[n]],
                       cities  |-> [q \in Qids |-> Shown(db).cities[q]],
                       state   |-> Shown(db).state]
      BY ShownShape
    <3>4. Shown(db) = EmptyContents
      BY <3>2, <3>3 DEF EmptyContents
    <3> QED BY <3>4, ContentsShown
  <2>2. CASE \E d \in SeedDatasets : db = Stored(ContentsOf(d, Seed, 0))
    BY <2>2, StoredContents, ContentsShown
  <2> QED BY <2>1, <2>2 DEF Init
<1>2. Committers \ {Seed} = {}
  BY DEF Init, Committers
<1> QED BY <1>1, <1>2, SameData DEF Init, Atomic!Init

LEMMA CommitReplaces ==
    ASSUME Serial, ContentsInv, IInv', NEW r \in Requests, Commit(r)
    PROVE  Atomic!Replace(r, data[r], stamp[r]) /\ data[r] \in Datasets
               /\ stamp[r] \in 0 .. now
<1>t. IInv /\ TypeOK /\ now \in Nat /\ stamp[r] \in Nat /\ Seed # r
  BY DataAssumption DEF ContentsInv, IInv, TypeOK, RequestTypeOK
<1>1. pc[r] = "commit" /\ Step(r)
  BY DEF Commit, Step, Proceed
<1>2. data[r] \in Datasets /\ stamp[r] \in 0 .. now
  BY <1>t, <1>1 DEF ContentsInv, DataInv, TimeInv
<1>3. r \notin Committers \ {Seed}
  BY <1>t, <1>1 DEF IInv, AuthorInv
<1>4. (Committers \ {Seed})' = (Committers \ {Seed}) \cup {r}
  BY <1>t, <1>1, CommittersGrow
<1>5. Contents.state # Absent =>
          /\ Contents.state.at <= stamp[r]
          /\ forced[r] \/ stamp[r] - Contents.state.at >= Cooldown
  <2>1. Contents.state = db[StateId]
    BY DEF Contents
  <2> QED BY <1>1, <2>1 DEF ContentsInv, SerialInv, CooledDown
<1>6. Contents' = Atomic!ContentsOf(data[r], r, stamp[r])
  BY <1>t, CommitExact, SameData
<1>7. UNCHANGED <<forced, now>>
  BY <1>1, StepClock
<1> QED BY <1>2, <1>3, <1>4, <1>5, <1>6, <1>7 DEF Atomic!Replace

LEMMA NextAtomic ==
    ASSUME Serial, ContentsInv, [Next]_vars
    PROVE  [Atomic!Next]_(Atomic!vars)
<1>1. IInv /\ IInv'
  BY NextInv DEF ContentsInv
<1>2. ASSUME UNCHANGED <<db, committed>>
      PROVE  Contents' = Contents /\ Committers' = Committers
  BY <1>2 DEF Contents, Committed, Committers
<1>3. CASE \E r \in Requests : Step(r)
  <2>1. PICK r \in Requests : Step(r)
    BY <1>3
  <2>2. CASE Commit(r)
    BY <1>1, <2>2, CommitReplaces DEF Atomic!Next
  <2>3. CASE ~Commit(r)
    BY <1>2, <2>1, <2>3, OnlyCommits, StepClock DEF Atomic!vars
  <2> QED BY <2>2, <2>3
<1>4. CASE Tick
  BY <1>2, <1>4 DEF Tick, dbVars, input, Atomic!Next, Atomic!Tick
<1>5. CASE UNCHANGED vars
  BY <1>2, <1>5 DEF vars, dbVars, input, ghost, Atomic!vars
<1> QED BY <1>3, <1>4, <1>5 DEF Next, Finished, Step

(* Clients that wait for one answer before they refresh again meet, from   *)
(* the wipe to the commit, a database that holds nothing but what their    *)
(* own refresh has written, and a cooldown that stays over once passed.    *)
THEOREM SerialCorrect == Spec => []SerialInv
<1>1. ContentsInv => SerialInv
  BY DEF ContentsInv
<1> QED BY <1>1, ContentsInvariant, PTL

(* As long as clients wait for one answer before they refresh again, POST  *)
(* /refresh does what AtomicRefresh promises, for every number of requests *)
(* and any data sets: every commit is one Replace, every other step shows  *)
(* nothing.                                                                *)
THEOREM AtomicReplacement ==
    ASSUME Serial
    PROVE  Spec => ImplementsAtomicRefresh
<1>1. Init => Atomic!Init
  BY InitAtomic
<1>2. ContentsInv /\ [Next]_vars => [Atomic!Next]_(Atomic!vars)
  BY NextAtomic
<1> QED BY <1>1, <1>2, ContentsInvariant, PTL
        DEF Spec, ImplementsAtomicRefresh, Atomic!Spec
=============================================================================
