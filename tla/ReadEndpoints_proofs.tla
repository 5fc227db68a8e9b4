------------------------ MODULE ReadEndpoints_proofs ------------------------
(***************************************************************************)
(* Proofs about ReadEndpoints and Analysis.                                *)
(*                                                                         *)
(* The rows of a page are those of one snapshot the read has seen, in the  *)
(* order of their names (PageOf).  What is joined to them later by id is   *)
(* what some snapshot held under that id (LoadedOf, RowsOf).  Unless       *)
(* refreshes overlap, two snapshots have no id in common (SeenInv), so     *)
(* that it is theirs or missing, and every row of the answer is a row of   *)
(* the first snapshot, with its records or without any (ResponseCorrect).  *)
(* When no refresh has committed nothing is missing.                       *)
(***************************************************************************)
EXTENDS AnalysisInvariant, SequenceLemmas

-----------------------------------------------------------------------------
(* What refreshes leave is well typed, and refers to cities that exist.    *)
Stored(db) == SnapshotTypeOK(db) /\ Consistent(db)

LEMMA NoRecordsType == NoRecords \in RecordSets
BY DEF NoRecords, RecordSets

LEMMA RecordedType ==
    ASSUME NEW Y, NEW w \in Writers
    PROVE  Recorded(NoRecords, Y, w) \in RecordSets
BY DEF Recorded, NoRecords, RecordSets

LEMMA LastNamed ==
    ASSUME NEW d \in Datasets, NEW n \in MuseumNames(d)
    PROVE  Max(Named(d, n)) \in DOMAIN d.museums
<1>1. d.museums \in Seq(Enrichments)
  BY DataAssumption DEF DatasetType
<1>2. Len(d.museums) \in Nat /\ DOMAIN d.museums = 1 .. Len(d.museums)
  BY <1>1, LenProperties
<1>3. Named(d, n) \in SUBSET (0 .. Len(d.museums)) /\ Named(d, n) # {}
  BY <1>2 DEF Named, MuseumNames
<1>4. Max(Named(d, n)) \in Named(d, n)
  BY <1>2, <1>3, MaxIsGreatest
<1> QED BY <1>4 DEF Named

(* A row under a key of a museum is one of a museum.                       *)
LEMMA PresentKeys ==
    ASSUME NEW c
    PROVE  /\ \A n \in Names : n \in Present(c) <=> c.museums[n] # Absent
           /\ \A q \in Qids : q \in Present(c) <=> c.cities[q] # Absent
           /\ Present(c) \subseteq Keys
BY DistinctAssumption DEF Present, Keys

LEMMA StoredCity ==
    ASSUME NEW db, Stored(db), NEW q \in CitiesIn(db)
    PROVE  /\ q \in Qids
           /\ db.contents.cities[q] \in RecordSets
           /\ db.by[q] \in Writers
           /\ <<db.by[q], q>> \in CityIds
<1>1. q \in Qids /\ db.contents.cities[q] # Absent
  BY DEF CitiesIn
<1>2. db.contents.cities[q] \in RecordSets
  BY <1>1 DEF Stored, SnapshotTypeOK
<1>3. q \in Keys /\ q \in Present(db.contents)
  BY <1>1, PresentKeys DEF Keys
<1>4. db.by[q] \in Writers
  BY <1>3 DEF Stored, SnapshotTypeOK, Consistent
<1> QED BY <1>1, <1>2, <1>4 DEF CityIds

LEMMA StoredMuseum ==
    ASSUME NEW db, Stored(db), NEW n \in MuseumsIn(db)
    PROVE  /\ n \in Names
           /\ db.contents.museums[n] \in MuseumType
           /\ db.contents.museums[n].city # Null => db.contents.museums[n].city \in CitiesIn(db)
           /\ db.by[n] \in Writers
           /\ <<db.by[n], n>> \in MuseumIds
<1>1. n \in Names /\ db.contents.museums[n] # Absent
  BY DEF MuseumsIn
<1>2. db.contents.museums[n] \in MuseumType
  BY <1>1 DEF Stored, SnapshotTypeOK
<1>3. n \in Keys /\ n \in Present(db.contents)
  BY <1>1, PresentKeys DEF Keys
<1>4. db.by[n] \in Writers
  BY <1>3 DEF Stored, SnapshotTypeOK, Consistent
<1> QED BY <1>1, <1>2, <1>4 DEF MuseumIds, Stored, Consistent

LEMMA MuseumsFinite ==
    ASSUME NEW db, Stored(db)
    PROVE  IsFiniteSet(MuseumsIn(db))
BY DEF Stored, Consistent

LEMMA CitiesFinite ==
    ASSUME NEW db
    PROVE  IsFiniteSet(CitiesIn(db))
<1>1. CitiesIn(db) \in SUBSET Qids
  BY DEF CitiesIn
<1> QED BY <1>1, DataAssumption, FS_Subset

(* What a snapshot holds under the id of a row is the row's.               *)
LEMMA OwnRecords ==
    ASSUME NEW db, Stored(db)
    PROVE  /\ \A n \in MuseumsIn(db) :
                  RecordsOf(db, <<db.by[n], n>>) = db.contents.museums[n].visitors
           /\ \A q \in CitiesIn(db) :
                  PopulationsOf(db)[<<db.by[q], q>>] = db.contents.cities[q]
<1>1. ASSUME NEW n \in MuseumsIn(db)
      PROVE  RecordsOf(db, <<db.by[n], n>>) = db.contents.museums[n].visitors
  BY DEF RecordsOf
<1>2. ASSUME NEW q \in CitiesIn(db)
      PROVE  PopulationsOf(db)[<<db.by[q], q>>] = db.contents.cities[q]
  BY StoredCity DEF PopulationsOf
<1> QED BY <1>1, <1>2

(* A snapshot that has no row in common with it holds nothing under it.    *)
LEMMA OtherRecords ==
    ASSUME NEW db, NEW later, Stored(db), Apart(db, later)
    PROVE  /\ \A n \in MuseumsIn(db) : RecordsOf(later, <<db.by[n], n>>) = NoRecords
           /\ \A q \in CitiesIn(db) : PopulationsOf(later)[<<db.by[q], q>>] = NoRecords
<1>1. \A k \in Keys : db.by[k] \in Writers => db.by[k] # later.by[k]
  BY DistinctAssumption DEF Apart
<1>2. ASSUME NEW n \in MuseumsIn(db)
      PROVE  RecordsOf(later, <<db.by[n], n>>) = NoRecords
  <2>1. n \in Keys /\ db.by[n] # later.by[n]
    BY <1>1, StoredMuseum DEF Keys
  <2> QED BY <2>1 DEF RecordsOf
<1>3. ASSUME NEW q \in CitiesIn(db)
      PROVE  PopulationsOf(later)[<<db.by[q], q>>] = NoRecords
  <2>1. q \in Keys /\ db.by[q] # later.by[q] /\ <<db.by[q], q>> \in CityIds
    BY <1>1, StoredCity DEF Keys
  <2> QED BY <2>1 DEF PopulationsOf
<1> QED BY <1>2, <1>3

-----------------------------------------------------------------------------
(* What a refresh leaves.                                                  *)

(* Contents that are well typed and refer to cities that exist.            *)
Sane(c) ==
    /\ c.museums \in [Names -> MuseumType \cup {Absent}]
    /\ c.cities \in [Qids -> RecordSets \cup {Absent}]
    /\ \A n \in Names : c.museums[n] # Absent /\ c.museums[n].city # Null =>
           c.museums[n].city \in Qids /\ c.cities[c.museums[n].city] # Absent
    /\ IsFiniteSet({n \in Names : c.museums[n] # Absent})

LEMMA ContentsSane ==
    ASSUME NEW d \in Datasets, NEW w \in Writers, NEW at
    PROVE  Sane(ContentsOf(d, w, at))
<1> DEFINE c == ContentsOf(d, w, at)
           last(n) == d.museums[Max(Named(d, n))]
<1>1. /\ \A n \in Names \ MuseumNames(d) : c.museums[n] = Absent
      /\ \A n \in Names \cap MuseumNames(d) :
             c.museums[n] = [item |-> last(n).item, city |-> last(n).city,
                             visitors |-> Recorded(NoRecords, VisitorYears(d, n), w)]
      /\ \A q \in Qids \ CityQids(d) : c.cities[q] = Absent
      /\ \A q \in Qids \cap CityQids(d) :
             c.cities[q] = Recorded(NoRecords, PopulationYears(d, q), w)
      /\ DOMAIN c.museums = Names /\ DOMAIN c.cities = Qids
      /\ c.museums = [n \in Names |-> c.museums[n]]
      /\ c.cities = [q \in Qids |-> c.cities[q]]
  BY DEF ContentsOf
<1> HIDE DEF c
<1>2. \A q \in Qids \cap CityQids(d) : c.cities[q] \in RecordSets
  BY <1>1, RecordedType
<1>3. ASSUME NEW n \in Names \cap MuseumNames(d)
      PROVE  /\ c.museums[n] \in MuseumType
             /\ c.museums[n].city # Null => c.museums[n].city \in Qids \cap CityQids(d)
  <2>1. d.museums \in Seq(Enrichments) /\ Max(Named(d, n)) \in DOMAIN d.museums
    BY LastNamed, DataAssumption DEF DatasetType
  <2>2. last(n) \in Enrichments
    BY <2>1, LenProperties, ElementOfSeq
  <2>3. last(n).city # Null => last(n).city \in Qids \cap CityQids(d)
    BY <2>1, <2>2 DEF CityQids, Enrichments
  <2>4. Recorded(NoRecords, VisitorYears(d, n), w) \in RecordSets
    BY RecordedType
  <2>5. c.museums[n] = [item |-> last(n).item, city |-> last(n).city,
                        visitors |-> Recorded(NoRecords, VisitorYears(d, n), w)]
    BY <1>1
  <2> HIDE DEF last
  <2> QED BY <2>2, <2>3, <2>4, <2>5 DEF MuseumType, Enrichments
<1>4. IsFiniteSet({n \in Names : c.museums[n] # Absent})
  <2>1. {n \in Names : c.museums[n] # Absent} \in SUBSET MuseumNames(d)
    BY <1>1
  <2>2. Len(d.museums) \in Nat /\ DOMAIN d.museums = 1 .. Len(d.museums)
    BY DataAssumption, LenProperties DEF DatasetType
  <2> DEFINE f == [i \in DOMAIN d.museums |-> d.museums[i].name]
  <2>3. f \in Surjection(DOMAIN d.museums, MuseumNames(d))
    BY DEF Surjection, MuseumNames
  <2>4. IsFiniteSet(DOMAIN d.museums)
    <3>1. IsFiniteSet(1 .. Len(d.museums))
      BY <2>2, FS_Interval
    <3> QED BY <2>2, <3>1
  <2> HIDE DEF f
  <2>5. IsFiniteSet(MuseumNames(d))
    BY <2>3, <2>4, FS_Surjection
  <2> QED BY <2>1, <2>5, FS_Subset
<1>5. \A q \in Qids \cap CityQids(d) : c.cities[q] # Absent
  BY <1>2, DistinctAssumption
<1>6. c.museums \in [Names -> MuseumType \cup {Absent}]
  BY <1>1, <1>3
<1>7. c.cities \in [Qids -> RecordSets \cup {Absent}]
  BY <1>1, <1>2
<1>8. Sane(c)
  BY <1>1, <1>3, <1>4, <1>5, <1>6, <1>7 DEF Sane
<1> QED BY <1>8 DEF c

LEMMA EmptySane == Sane(EmptyContents)
<1>1. {n \in Names : EmptyContents.museums[n] # Absent} = {}
  BY DEF EmptyContents
<1>2. IsFiniteSet({n \in Names : EmptyContents.museums[n] # Absent})
  BY <1>1, FS_EmptySet
<1> QED BY <1>2 DEF Sane, EmptyContents

LEMMA RecordsOverType ==
    ASSUME NEW new \in RecordSets, NEW old \in RecordSets
    PROVE  RecordsOver(new, old) \in RecordSets
BY DEF RecordsOver, RecordSets

(* Rows that were missed exist, so that what is merged is sane again.      *)
LEMMA MergedSane ==
    ASSUME NEW new, Sane(new), NEW old, Sane(old), NEW missed, missed \subseteq Present(old)
    PROVE  /\ Sane(Merged(new, old, missed))
           /\ missed \subseteq Present(Merged(new, old, missed))
<1> DEFINE c == Merged(new, old, missed)
<1>1. /\ \A n \in Names : c.museums[n] =
             IF n \in missed THEN MergedMuseum(new.museums[n], old.museums[n], missed)
             ELSE new.museums[n]
      /\ \A q \in Qids : c.cities[q] =
             IF q \in missed THEN MergedCity(new.cities[q], old.cities[q]) ELSE new.cities[q]
      /\ c.museums = [n \in Names |-> c.museums[n]]
      /\ c.cities = [q \in Qids |-> c.cities[q]]
  BY DEF Merged
<1> HIDE DEF c
<1>2. /\ \A n \in Names \cap missed : old.museums[n] # Absent /\ old.museums[n] \in MuseumType
      /\ \A q \in Qids \cap missed : old.cities[q] # Absent /\ old.cities[q] \in RecordSets
  BY PresentKeys DEF Sane
<1>3. ASSUME NEW q \in Qids
      PROVE  /\ c.cities[q] \in RecordSets \cup {Absent}
             /\ q \in missed \/ new.cities[q] # Absent => c.cities[q] # Absent
  <2>1. new.cities[q] \in RecordSets \cup {Absent}
    BY DEF Sane
  <2>2. CASE q \notin missed
    BY <1>1, <2>1, <2>2
  <2>3. CASE q \in missed /\ new.cities[q] = Absent
    BY <1>1, <1>2, <2>3 DEF MergedCity
  <2>4. CASE q \in missed /\ new.cities[q] # Absent
    <3>1. c.cities[q] = RecordsOver(new.cities[q], old.cities[q])
      BY <1>1, <2>4 DEF MergedCity
    <3>2. c.cities[q] \in RecordSets
      BY <1>2, <2>1, <2>4, <3>1, RecordsOverType
    <3> QED BY <3>2, DistinctAssumption
  <2> QED BY <2>2, <2>3, <2>4
<1>4. ASSUME NEW n \in Names
      PROVE  /\ c.museums[n] \in MuseumType \cup {Absent}
             /\ n \in missed => c.museums[n] # Absent
             /\ c.museums[n] # Absent /\ c.museums[n].city # Null =>
                    c.museums[n].city \in Qids /\ c.cities[c.museums[n].city] # Absent
             /\ c.museums[n] # Absent => new.museums[n] # Absent \/ old.museums[n] # Absent
  <2>1. /\ new.museums[n] \in MuseumType \cup {Absent}
        /\ new.museums[n] # Absent /\ new.museums[n].city # Null =>
               new.museums[n].city \in Qids /\ new.cities[new.museums[n].city] # Absent
    BY DEF Sane
  <2>2. CASE n \notin missed
    BY <1>1, <1>3, <2>1, <2>2
  <2>3. CASE n \in missed /\ new.museums[n] = Absent
    <3> DEFINE m == old.museums[n]
    <3>1. m \in MuseumType /\ m # Absent
      BY <1>2, <2>3
    <3>2. c.museums[n] = [m EXCEPT !.city = IF m.city \in missed THEN m.city ELSE Null]
      BY <1>1, <2>3 DEF MergedMuseum
    <3> HIDE DEF m
    <3>3. /\ c.museums[n] \in MuseumType
          /\ c.museums[n].city = IF m.city \in missed THEN m.city ELSE Null
      BY <3>1, <3>2 DEF MuseumType
    <3>4. c.museums[n].city # Null =>
              c.museums[n].city \in Qids /\ c.cities[c.museums[n].city] # Absent
      BY <1>3, <3>1, <3>3 DEF MuseumType
    <3>5. c.museums[n] # Absent
      BY <3>3, ShownAssumption DEF MuseumType
    <3> QED BY <3>1, <3>3, <3>4, <3>5 DEF m
  <2>4. CASE n \in missed /\ new.museums[n] # Absent
    <3> DEFINE m == new.museums[n]
    <3>1. m \in MuseumType /\ old.museums[n].visitors \in RecordSets
      BY <1>2, <2>1, <2>4 DEF MuseumType
    <3>2. c.museums[n] = [m EXCEPT !.visitors = RecordsOver(m.visitors, old.museums[n].visitors)]
      BY <1>1, <2>4 DEF MergedMuseum
    <3>3. RecordsOver(m.visitors, old.museums[n].visitors) \in RecordSets
      BY <3>1, RecordsOverType DEF MuseumType
    <3> HIDE DEF m
    <3>4. c.museums[n] \in MuseumType /\ c.museums[n].city = m.city
      BY <3>1, <3>2, <3>3 DEF MuseumType
    <3>5. c.museums[n] # Absent
      BY <3>4, ShownAssumption DEF MuseumType
    <3>6. m.city # Null => m.city \in Qids /\ new.cities[m.city] # Absent
      BY <2>1, <2>4 DEF m
    <3>7. m.city # Null => m.city \in Qids /\ c.cities[m.city] # Absent
      BY <1>3, <3>6
    <3> QED BY <2>4, <3>4, <3>5, <3>7
  <2> QED BY <2>2, <2>3, <2>4
<1>5. IsFiniteSet({n \in Names : c.museums[n] # Absent})
  <2>1. {n \in Names : c.museums[n] # Absent} \in
            SUBSET ({n \in Names : new.museums[n] # Absent} \cup {n \in Names : old.museums[n] # Absent})
    BY <1>4
  <2>2. IsFiniteSet({n \in Names : new.museums[n] # Absent} \cup {n \in Names : old.museums[n] # Absent})
    BY FS_Union DEF Sane
  <2> QED BY <2>1, <2>2, FS_Subset
<1>6. c.museums \in [Names -> MuseumType \cup {Absent}] /\ c.cities \in [Qids -> RecordSets \cup {Absent}]
  BY <1>1, <1>3, <1>4
<1>7. missed \subseteq Present(c)
  <2>1. missed \subseteq Keys
    BY PresentKeys
  <2> QED BY <1>3, <1>4, <2>1 DEF Present, Keys
<1>8. Sane(c)
  BY <1>4, <1>5, <1>6 DEF Sane
<1> QED BY <1>7, <1>8 DEF c

LEMMA SaneStored ==
    ASSUME NEW db, Stored(db)
    PROVE  Sane(db.contents)
<1>1. {n \in Names : db.contents.museums[n] # Absent} = MuseumsIn(db)
  BY DEF MuseumsIn
<1> QED BY <1>1, DistinctAssumption DEF Stored, SnapshotTypeOK, Consistent, Sane, MuseumsIn, CitiesIn

LEMMA StoredSane ==
    ASSUME NEW db, Sane(db.contents), db.by \in [Keys -> Writers \cup {Null}],
           \A k \in Keys : db.by[k] = Null <=> k \notin Present(db.contents)
    PROVE  Stored(db)
<1>1. MuseumsIn(db) = {n \in Names : db.contents.museums[n] # Absent}
  BY DEF MuseumsIn
<1> QED BY <1>1 DEF Sane, Stored, SnapshotTypeOK, Consistent, MuseumsIn, CitiesIn

(* A refresh leaves a consistent database, and if it has missed nothing,   *)
(* no row of what was there before.                                        *)
LEMMA MergeStored ==
    ASSUME Stored(Snapshot), Committed(Snapshot), applied \subseteq Requests,
           NEW M \in SUBSET applied, NEW C \in SUBSET M,
           NEW r \in Requests, NEW d \in Datasets, NEW at, Merge(r, d, at, Missed(M, C))
    PROVE  /\ Stored(Snapshot')
           /\ Committed(Snapshot)'
           /\ applied \subseteq applied' /\ applied' \subseteq Requests
           /\ Missed(M, C) = {} =>
                  \A db : Stored(db) /\ Committed(db) => Apart(db, Snapshot') /\ Apart(Snapshot', db)
<1>1. PICK old : old = Snapshot
  OBVIOUS
<1>2. PICK new : new = Snapshot'
  OBVIOUS
<1>3. PICK missed : missed = Missed(M, C)
  OBVIOUS
<1>4. old.by = author /\ old.contents = contents /\ new.by = author' /\ new.contents = contents'
  BY <1>1, <1>2 DEF Snapshot
<1>5. /\ r \notin applied /\ applied' = applied \cup {r}
      /\ new.contents = Merged(ContentsOf(d, r, at), old.contents, missed)
      /\ new.by = [k \in Keys |-> IF k \notin Present(new.contents) THEN Null
                                  ELSE IF k \in missed THEN old.by[k] ELSE r]
  BY <1>3, <1>4 DEF Merge
<1>6. /\ old.by \in [Keys -> Writers \cup {Null}]
      /\ \A k \in Keys : old.by[k] \in applied \cup {Seed, Null}
      /\ \A k \in Keys : old.by[k] = Null <=> k \notin Present(old.contents)
  BY <1>1 DEF Stored, SnapshotTypeOK, Consistent, Committed, Range
<1>7. r # Null /\ r # Seed /\ r \in Writers /\ Null \notin applied
  BY DistinctAssumption, DataAssumption DEF Writers
<1>8. missed \in SUBSET Keys /\ \A k \in missed : old.by[k] \in applied
  BY <1>3, <1>4 DEF Missed, Keys
<1>9. missed \subseteq Present(old.contents)
  BY <1>6, <1>7, <1>8
<1>10. Sane(new.contents) /\ missed \subseteq Present(new.contents)
  <2>1. Sane(old.contents)
    BY <1>1, SaneStored
  <2>2. Sane(ContentsOf(d, r, at))
    BY <1>7, ContentsSane
  <2> QED BY <1>5, <1>9, <2>1, <2>2, MergedSane
<1>11. \A k \in Keys : /\ new.by[k] \in applied' \cup {Seed, Null}
                       /\ new.by[k] \in Writers \cup {Null}
                       /\ new.by[k] = Null <=> k \notin Present(new.contents)
  <2> SUFFICES ASSUME NEW k \in Keys
               PROVE  /\ new.by[k] \in applied' \cup {Seed, Null}
                      /\ new.by[k] \in Writers \cup {Null}
                      /\ new.by[k] = Null <=> k \notin Present(new.contents)
    OBVIOUS
  <2>1. CASE k \notin Present(new.contents)
    BY <1>5, <2>1
  <2>2. CASE k \in Present(new.contents) /\ k \in missed
    BY <1>5, <1>6, <1>7, <1>8, <2>2
  <2>3. CASE k \in Present(new.contents) /\ k \notin missed
    BY <1>5, <1>7, <2>3
  <2> QED BY <2>1, <2>2, <2>3
<1>12. new.by \in [Keys -> Writers \cup {Null}]
  BY <1>5, <1>11
<1>13. Stored(new)
  BY <1>10, <1>11, <1>12, StoredSane
<1>14. Committed(Snapshot)'
  BY <1>2, <1>11, <1>12 DEF Committed, Range
<1>15. ASSUME missed = {}, NEW db, Stored(db), Committed(db)
       PROVE  Apart(db, new) /\ Apart(new, db)
  <2>1. \A k \in Keys : db.by[k] # r
    BY <1>5, <1>7, <1>15 DEF Stored, SnapshotTypeOK, Committed, Range
  <2>2. \A k \in Keys : new.by[k] \in {r, Null}
    BY <1>5, <1>15
  <2> QED BY <2>1, <2>2 DEF Apart
<1> QED BY <1>2, <1>3, <1>5, <1>13, <1>14, <1>15

-----------------------------------------------------------------------------
LEMMA SliceOf ==
    ASSUME NEW S, NEW s \in Seq(S), query.skip \in Nat, query.limit \in Nat \ {0}
    PROVE  /\ Slice(s) \in Seq(S)
           /\ Len(Slice(s)) <= Len(s)
           /\ Len(Slice(s)) <= query.limit
           /\ \A k \in DOMAIN Slice(s) :
                  query.skip + k \in DOMAIN s /\ Slice(s)[k] = s[query.skip + k]
           /\ \A i \in DOMAIN s :
                  query.skip < i /\ i <= query.skip + query.limit =>
                      i - query.skip \in DOMAIN Slice(s)
<1> DEFINE skip == query.skip  upTo == Min({skip + query.limit, Len(s)})
<1>1. Len(s) \in Nat /\ DOMAIN s = 1 .. Len(s) /\ \A i \in 1 .. Len(s) : s[i] \in S
  BY LenProperties, ElementOfSeq
<1>t. skip + query.limit \in Nat
  OBVIOUS
<1>2. upTo = IF skip + query.limit <= Len(s) THEN skip + query.limit ELSE Len(s)
  BY <1>t, <1>1, MinOfTwo
<1> HIDE DEF upTo
<1>3. upTo \in Nat /\ upTo <= Len(s)
  <2> HIDE DEF skip
  <2>1. \A a, b \in Nat : (IF a <= b THEN a ELSE b) \in Nat /\ (IF a <= b THEN a ELSE b) <= b
    OBVIOUS
  <2> QED BY <1>t, <1>1, <1>2, <2>1
<1>4. /\ Slice(s) \in Seq(S)
      /\ Len(Slice(s)) = IF skip + 1 <= upTo THEN upTo - (skip + 1) + 1 ELSE 0
      /\ \A i \in 1 .. upTo - (skip + 1) + 1 : Slice(s)[i] = s[skip + 1 + i - 1]
  <2>1. \A i \in skip + 1 .. upTo : s[i] \in S
    BY <1>1, <1>3
  <2>2. skip + 1 \in Int /\ upTo \in Int
    BY <1>3
  <2>3. Slice(s) = SubSeq(s, skip + 1, upTo)
    BY DEF Slice, upTo
  <2> HIDE DEF skip
  <2>4. /\ SubSeq(s, skip + 1, upTo) \in Seq(S)
        /\ Len(SubSeq(s, skip + 1, upTo)) =
               IF skip + 1 <= upTo THEN upTo - (skip + 1) + 1 ELSE 0
        /\ \A i \in 1 .. upTo - (skip + 1) + 1 :
               SubSeq(s, skip + 1, upTo)[i] = s[skip + 1 + i - 1]
    BY <2>1, <2>2, SubSeqProperties
  <2> QED BY <2>3, <2>4
<1>5. DOMAIN Slice(s) = 1 .. Len(Slice(s))
  BY <1>4, LenProperties
<1>s. skip \in Nat /\ Len(Slice(s)) \in Nat
  BY <1>4, LenProperties
<1> HIDE DEF skip
<1>6. Len(Slice(s)) <= Len(s)
  BY <1>s, <1>1, <1>3, <1>4
<1>7. ASSUME NEW k \in DOMAIN Slice(s)
      PROVE  skip + k \in DOMAIN s /\ Slice(s)[k] = s[skip + k]
  <2>1. skip + 1 <= upTo /\ k \in 1 .. upTo - (skip + 1) + 1
    BY <1>s, <1>3, <1>4, <1>5
  <2>2. skip + 1 + k - 1 = skip + k /\ skip + k \in 1 .. Len(s)
    BY <1>s, <1>1, <1>3, <2>1
  <2> QED BY <1>1, <1>4, <2>1, <2>2
<1>8. ASSUME NEW i \in DOMAIN s, skip < i, i <= skip + query.limit
      PROVE  i - skip \in DOMAIN Slice(s)
  <2>1. i <= upTo
    <3>1. i \in Int /\ i <= Len(s)
      BY <1>1
    <3>2. CASE upTo = skip + query.limit
      BY <1>8, <3>2
    <3>3. CASE upTo = Len(s)
      BY <3>1, <3>3
    <3> QED BY <1>2, <3>2, <3>3
  <2> QED BY <1>s, <1>1, <1>3, <1>4, <1>5, <1>8, <2>1
<1>9. Len(Slice(s)) <= query.limit
  <2>1. upTo <= skip + query.limit
    <3>1. CASE upTo = skip + query.limit
      BY <1>t, <3>1
    <3>2. CASE ~(skip + query.limit <= Len(s))
      BY <1>t, <1>1, <1>2, <3>2
    <3> QED BY <1>2, <3>1, <3>2
  <2>2. skip + query.limit - (skip + 1) + 1 = query.limit /\ query.limit \in Nat
    BY <1>s
  <2> QED BY <1>s, <1>t, <1>3, <1>4, <2>1, <2>2
<1> QED BY <1>4, <1>6, <1>7, <1>8, <1>9 DEF skip

-----------------------------------------------------------------------------
(* What build_harmonized_rows computes.                                    *)

(* The copies of these operators that H brings are the same.               *)
LEMMA HCardinality == \A S : H!Cardinality(S) = Cardinality(S)
BY DEF H!Cardinality, Cardinality

LEMMA HMax == \A S : H!Max(S) = Max(S)
BY DEF H!Max, Max

(* Without populations there is no row.                                    *)
LEMMA NoEstimate ==
    ASSUME NEW m, NEW records
    PROVE  ~HasRow(m, records, NoRecords)
<1> DEFINE s == Numbers(NoRecords, m.city[2], Population)
<1>1. H!Known(s) = {}
  BY DEF Numbers, NoRecords, H!Known
<1> HIDE DEF s
<1>2. Cardinality({}) = 0
  BY FS_EmptySet
<1>3. ~H!Fitted(s) /\ \A t : ~H!NearPoint(s, t)
  BY <1>1, <1>2, HCardinality DEF H!Fitted, H!NearPoint
<1>4. \A t : ~H!Survives(s, t)
  BY <1>3 DEF H!Survives, H!Estimate
<1> QED BY <1>4 DEF HasRow, s

(* A row has the visitors of a year.                                       *)
LEMMA RowVisitors ==
    ASSUME NEW m, m.museum \in MuseumIds, NEW records \in RecordSets, NEW points,
           HasRow(m, records, points)
    PROVE  HarmonizedRow(m, records, points).visitors \in Nat
<1> DEFINE Y == {y \in Years : records[y] # Null}
<1>1. records # NoRecords
  BY DEF HasRow, Eligible
<1>2. Y # {}
  BY <1>1 DEF RecordSets, NoRecords
<1>3. Y \in SUBSET Nat /\ IsFiniteSet(Y)
  BY ReadAssumption, FS_Subset
<1>4. H!LatestYear(records) \in Y
  <2>1. H!LatestYear(records) = Max(Y)
    BY HMax DEF H!LatestYear
  <2>2. Max(Y) \in Y
    BY <1>2, <1>3, HasGreatest
  <2> QED BY <2>1, <2>2
<1>5. PICK year \in Y : year = H!LatestYear(records)
  BY <1>4
<1>6. records[year] \in Writers /\ m.museum[2] \in Names
  BY DEF RecordSets, MuseumIds
<1>7. <<<<records[year], m.museum[2]>>, year>> \in MuseumIds \X Years
  BY <1>6 DEF MuseumIds
<1>8. Visitors[<<<<records[year], m.museum[2]>>, year>>] \in Nat
  BY <1>7, ReadAssumption
<1>9. Numbers(records, m.museum[2], Visitors)[year] =
          Visitors[<<<<records[year], m.museum[2]>>, year>>]
  BY DEF Numbers
<1>10. HarmonizedRow(m, records, points).visitors = Numbers(records, m.museum[2], Visitors)[year]
  BY <1>5 DEF HarmonizedRow
<1> QED BY <1>8, <1>9, <1>10

(* The harmonized rows are all there are, each once, in order.             *)
LEMMA HarmonizedOrder ==
    ASSUME DOMAIN page \in SUBSET Nat, IsFiniteSet(DOMAIN page),
           \A k \in Surviving : RowAt(k).visitors \in Nat
    PROVE  \E order \in SetToSeqs(Surviving) :
               /\ Harmonized = [k \in DOMAIN order |-> RowAt(order[k])]
               /\ \A i, j \in DOMAIN order : i < j => RowBefore(order[i], order[j])
<1> DEFINE Sorted(s) == \A i, j \in 1 .. Len(s) : i < j => RowBefore(s[i], s[j])
           order == CHOOSE s \in SetToSeqs(Surviving) : Sorted(s)
           R == {p \in Surviving \X Surviving : RowBefore(p[1], p[2])}
<1>1. IsFiniteSet(Surviving) /\ Surviving \in SUBSET Nat
  <2>1. Surviving \in SUBSET DOMAIN page
    BY DEF Surviving
  <2> QED BY <2>1, FS_Subset
<1>2. \A x, y \in Surviving : <<x, y>> \in R <=> RowBefore(x, y)
  OBVIOUS
<1> HIDE DEF R
<1>3. \E s \in SetToSeqs(Surviving) : \A i, j \in DOMAIN s : i < j => <<s[i], s[j]>> \in R
  <2>1. \A x \in Surviving : <<x, x>> \notin R
    BY <1>1, <1>2 DEF RowBefore
  <2>2. ASSUME NEW x \in Surviving, NEW y \in Surviving
        PROVE  x = y \/ <<x, y>> \in R \/ <<y, x>> \in R
    <3>1. x \in Nat /\ y \in Nat /\ RowAt(x).visitors \in Nat /\ RowAt(y).visitors \in Nat
      BY <1>1
    <3>2. x = y \/ RowBefore(x, y) \/ RowBefore(y, x)
      BY <3>1 DEF RowBefore
    <3> QED BY <1>2, <3>2
  <2>3. \A x, y, z \in Surviving :
            <<x, y>> \in R /\ <<y, z>> \in R => <<x, z>> \in R
    BY <1>1, <1>2 DEF RowBefore
  <2> QED BY <1>1, <2>1, <2>2, <2>3, SortedExists
<1>4. \A s \in SetToSeqs(Surviving) :
          /\ DOMAIN s = 1 .. Len(s)
          /\ \A i \in DOMAIN s : s[i] \in Surviving
  <2> SUFFICES ASSUME NEW s \in SetToSeqs(Surviving)
               PROVE  /\ DOMAIN s = 1 .. Len(s)
                      /\ \A i \in DOMAIN s : s[i] \in Surviving
    OBVIOUS
  <2> QED BY <1>1, Listing, LenProperties, ElementOfSeq
<1>5. \E s \in SetToSeqs(Surviving) : Sorted(s)
  BY <1>2, <1>3, <1>4
<1>6. order \in SetToSeqs(Surviving) /\ Sorted(order)
  BY <1>5
<1>7. Harmonized = [k \in DOMAIN order |-> RowAt(order[k])]
  BY DEF Harmonized, IsSorted
<1> HIDE DEF order
<1> QED BY <1>4, <1>6, <1>7

-----------------------------------------------------------------------------
(* The rows of a page and what is joined to them.                          *)

(* The page consists of the museums names of db.                           *)
PageOf(db, names) ==
    /\ names \in Seq(MuseumsIn(db))
    /\ DOMAIN page = 1 .. Len(names)
    /\ DOMAIN names = 1 .. Len(names)
    /\ page = MuseumRows(db, names)
    /\ \A i, j \in DOMAIN names : names[i] = names[j] => i = j
    /\ \A i, j \in DOMAIN names : i < j => Rank[names[i]] <= Rank[names[j]]
    /\ query.endpoint # "museums" => \A n \in MuseumsIn(db) : \E k \in DOMAIN names : names[k] = n

QueryOK == query.skip \in Nat /\ query.limit \in Nat \ {0}

LEMMA SlicePage ==
    ASSUME NEW db, Stored(db), QueryOK, query.endpoint = "museums",
           NEW order \in Ordered(MuseumsIn(db)), page = MuseumRows(db, Slice(order))
    PROVE  PageOf(db, Slice(order))
<1> DEFINE names == Slice(order)
<1>1. /\ order \in SetToSeqs(MuseumsIn(db))
      /\ \A i, j \in DOMAIN order : i < j => Rank[order[i]] <= Rank[order[j]]
  BY DEF Ordered
<1>2. /\ order \in Seq(MuseumsIn(db))
      /\ \A i, j \in DOMAIN order : order[i] = order[j] => i = j
  BY <1>1, MuseumsFinite, Listing
<1>3. DOMAIN page = DOMAIN names
  BY DEF MuseumRows
<1>4. /\ names \in Seq(MuseumsIn(db))
      /\ \A k \in DOMAIN names :
             query.skip + k \in DOMAIN order /\ names[k] = order[query.skip + k]
  BY <1>2, SliceOf DEF QueryOK
<1> HIDE DEF names
<1>5. Len(names) \in Nat /\ DOMAIN names = 1 .. Len(names)
  BY <1>4, LenProperties
<1>6. ASSUME NEW i \in DOMAIN names, NEW j \in DOMAIN names
      PROVE  /\ names[i] = names[j] => i = j
             /\ i < j => Rank[names[i]] <= Rank[names[j]]
  <2> DEFINE skip == query.skip
  <2>1. skip \in Nat /\ i \in Nat /\ j \in Nat
    BY <1>5 DEF QueryOK
  <2> HIDE DEF skip
  <2>2. /\ skip + i \in DOMAIN order /\ skip + j \in DOMAIN order
        /\ names[i] = order[skip + i] /\ names[j] = order[skip + j]
    BY <1>4 DEF skip
  <2>3. (skip + i = skip + j => i = j) /\ (i < j => skip + i < skip + j)
    BY <2>1
  <2> QED BY <1>1, <1>2, <2>2, <2>3
<1>7. page = MuseumRows(db, names)
  BY DEF names
<1> QED BY <1>3, <1>4, <1>5, <1>6, <1>7 DEF PageOf, names

LEMMA PageNames ==
    ASSUME NEW db, Stored(db), IsPage(db), QueryOK,
           query.endpoint \notin {"museums", "cities"}
    PROVE  \E names : PageOf(db, names)
<1>1. PICK order \in Ordered(MuseumsIn(db)) : page = MuseumRows(db, order)
  BY DEF IsPage
<1>2. order \in SetToSeqs(MuseumsIn(db))
      /\ \A i, j \in DOMAIN order : i < j => Rank[order[i]] <= Rank[order[j]]
  BY DEF Ordered
<1>3. /\ order \in Seq(MuseumsIn(db))
      /\ \A i, j \in DOMAIN order : order[i] = order[j] => i = j
      /\ \A n \in MuseumsIn(db) : \E k \in DOMAIN order : order[k] = n
  BY <1>2, MuseumsFinite, Listing
<1>4. Len(order) \in Nat /\ DOMAIN order = 1 .. Len(order)
  BY <1>3, LenProperties
<1>5. DOMAIN page = DOMAIN order
  BY <1>1 DEF MuseumRows
<1> QED BY <1>1, <1>2, <1>3, <1>4, <1>5 DEF PageOf

-----------------------------------------------------------------------------
(* A batch of visitor records is what a snapshot held under the museum's   *)
(* id: its own, or, when a refresh has replaced it, nothing.               *)
LEMMA LoadedOf ==
    ASSUME ReadInv, step = "answer", query.endpoint # "cities",
           NEW db \in seen, NEW names, PageOf(db, names), NEW k \in DOMAIN page
    PROVE  /\ page[k] = MuseumRow(db, names[k])
           /\ names[k] \in MuseumsIn(db)
           /\ \E later \in seen : loaded[k] = RecordsOf(later, <<db.by[names[k]], names[k]>>)
           /\ ~overlap => loaded[k] \in {db.contents.museums[names[k]].visitors, NoRecords}
           /\ seen = {db} => loaded[k] = db.contents.museums[names[k]].visitors
           /\ loaded[k] \in RecordSets
<1> DEFINE n == names[k]
           own == db.contents.museums[n].visitors
<1>1. page[k] = MuseumRow(db, n) /\ n \in MuseumsIn(db)
  BY ElementOfSeq DEF PageOf, MuseumRows
<1>2. loaded \in Seq(RecordSets) /\ Len(loaded) = Len(page)
  BY DEF ReadInv, TypeOK, LoadedInv
<1>3. page[k].museum = <<db.by[n], n>>
  BY <1>1 DEF MuseumRow
<1>4. k \in DOMAIN loaded
  <2>1. Len(page) = Len(names)
    <3>1. Len(names) \in Nat
      BY LenProperties DEF PageOf
    <3>2. page \in [1 .. Len(names) -> {MuseumRow(db, x) : x \in MuseumsIn(db)}]
      BY ElementOfSeq DEF PageOf, MuseumRows
    <3>3. page \in Seq({MuseumRow(db, x) : x \in MuseumsIn(db)})
      BY <3>1, <3>2, SeqDef
    <3> QED BY <3>1, <3>3, LenProperties DEF PageOf
  <2> QED BY <1>2, <2>1, LenProperties DEF PageOf
<1>5. PICK later \in seen : loaded[k] = RecordsOf(later, page[k].museum)
  BY <1>4 DEF ReadInv, LoadedInv
<1>6. Stored(db)
  BY DEF ReadInv, TypeOK, SeenInv, Stored
<1> HIDE DEF n
<1>7. RecordsOf(db, <<db.by[n], n>>) = own
  BY <1>1, <1>6, OwnRecords
<1>8. ASSUME ~overlap PROVE loaded[k] \in {own, NoRecords}
  <2>1. later = db \/ Apart(db, later)
    BY <1>8 DEF ReadInv, SeenInv
  <2> QED BY <1>1, <1>3, <1>5, <1>6, <1>7, <2>1, OtherRecords
<1>9. seen = {db} => loaded[k] = own
  BY <1>3, <1>5, <1>7
<1>10. loaded[k] \in RecordSets
  BY <1>2, <1>4, LenProperties, ElementOfSeq
<1>11. loaded[k] = RecordsOf(later, <<db.by[n], n>>)
  BY <1>3, <1>5
<1> QED BY <1>1, <1>8, <1>9, <1>10, <1>11 DEF n

(* So are the populations of a city.                                       *)
LEMMA GroupedOf ==
    ASSUME ReadInv, step = "answer", NEW db \in seen, NEW q \in CitiesIn(db)
    PROVE  /\ NeedsPopulations =>
                  \E later \in seen : grouped = PopulationsOf(later)
           /\ ~overlap => grouped[<<db.by[q], q>>] \in {db.contents.cities[q], NoRecords}
           /\ seen = {db} /\ NeedsPopulations => grouped[<<db.by[q], q>>] = db.contents.cities[q]
<1>1. Stored(db)
  BY DEF ReadInv, TypeOK, SeenInv, Stored
<1>2. /\ <<db.by[q], q>> \in CityIds
      /\ PopulationsOf(db)[<<db.by[q], q>>] = db.contents.cities[q]
  BY <1>1, StoredCity, OwnRecords
<1>3. CASE ~NeedsPopulations
  <2>1. grouped = NoPopulations
    BY <1>3 DEF ReadInv, GroupedInv
  <2> QED BY <1>2, <1>3, <2>1 DEF NoPopulations
<1>4. CASE NeedsPopulations
  <2>1. PICK later \in seen : grouped = PopulationsOf(later)
    BY <1>4 DEF ReadInv, GroupedInv
  <2>2. ASSUME ~overlap PROVE grouped[<<db.by[q], q>>] \in {db.contents.cities[q], NoRecords}
    <3>1. later = db \/ Apart(db, later)
      BY <2>2 DEF ReadInv, SeenInv
    <3> QED BY <1>1, <1>2, <2>1, <3>1, OtherRecords
  <2>3. seen = {db} => later = db
    OBVIOUS
  <2> QED BY <1>2, <2>1, <2>2, <2>3
<1> QED BY <1>3, <1>4

(* And so every harmonized row is joined from snapshots by ids; unless     *)
(* refreshes overlap it is one of the database db, and without a refresh   *)
(* no row of it is lost.                                                   *)
LEMMA RowsOf ==
    ASSUME ReadInv, step = "answer", query.endpoint \in {"harmonized", "regression"},
           NEW db \in seen, NEW names, PageOf(db, names), NEW k \in DOMAIN page
    PROVE  /\ k \in Surviving => IsJoined(RowAt(k), db)
           /\ ~overlap /\ k \in Surviving =>
                  HasFullRow(db, names[k]) /\ RowAt(k) = FullRow(db, names[k])
           /\ seen = {db} => (k \in Surviving <=> HasFullRow(db, names[k]))
           /\ seen = {db} /\ k \in Surviving => RowAt(k) = FullRow(db, names[k])
           /\ RowAt(k).museum = <<db.by[names[k]], names[k]>>
           /\ k \in Surviving => RowAt(k).visitors \in Nat
<1> DEFINE n == names[k]
           m == MuseumRow(db, n)
           q == db.contents.museums[n].city
           own == db.contents.museums[n].visitors
<1>1. /\ page[k] = m
      /\ n \in MuseumsIn(db)
      /\ \E later \in seen : loaded[k] = RecordsOf(later, <<db.by[n], n>>)
      /\ ~overlap => loaded[k] \in {own, NoRecords}
      /\ seen = {db} => loaded[k] = own
      /\ loaded[k] \in RecordSets
  BY LoadedOf
<1>2. m.city = IF q = Null THEN Null ELSE <<db.by[q], q>>
  BY DEF MuseumRow
<1>3. Stored(db)
  BY DEF ReadInv, TypeOK, SeenInv, Stored
<1>4. ASSUME m.city # Null PROVE q \in CitiesIn(db) /\ m.city = <<db.by[q], q>>
  <2> HIDE DEF n
  <2> QED BY <1>1, <1>2, <1>3, <1>4, StoredMuseum
<1>5. m.museum = <<db.by[n], n>> /\ <<db.by[n], n>> \in MuseumIds
  <2>1. m.museum = <<db.by[n], n>>
    BY DEF MuseumRow
  <2> HIDE DEF n
  <2> QED BY <1>1, <1>3, <2>1, StoredMuseum
<1> HIDE DEF n, m
<1>6. ASSUME k \in Surviving
      PROVE  /\ HasRow(m, loaded[k], grouped[m.city])
             /\ RowAt(k) = HarmonizedRow(m, loaded[k], grouped[m.city])
             /\ m.city # Null /\ loaded[k] # NoRecords
             /\ NeedsPopulations
  <2>1. HasRow(m, loaded[k], grouped[m.city])
    BY <1>1, <1>6 DEF Surviving
  <2>2. Eligible(m, loaded[k])
    BY <2>1 DEF HasRow
  <2>3. NeedsPopulations
    BY <1>1, <2>2 DEF NeedsPopulations
  <2> QED BY <1>1, <2>1, <2>2, <2>3 DEF RowAt, Eligible
<1>7. ASSUME k \in Surviving PROVE IsJoined(RowAt(k), db)
  <2>1. PICK visited \in seen : loaded[k] = RecordsOf(visited, m.museum)
    BY <1>1, <1>5
  <2>2. PICK peopled \in seen : grouped = PopulationsOf(peopled)
    BY <1>4, <1>6, <1>7, GroupedOf
  <2>3. /\ HasRow(m, RecordsOf(visited, m.museum), PopulationsOf(peopled)[m.city])
        /\ RowAt(k) = HarmonizedRow(m, RecordsOf(visited, m.museum), PopulationsOf(peopled)[m.city])
    BY <1>6, <1>7, <2>1, <2>2
  <2>4. query.endpoint # "museums" /\ query.endpoint # "cities"
    OBVIOUS
  <2> QED BY <1>1, <2>3, <2>4 DEF IsJoined, m
<1>8. ASSUME k \in Surviving, ~overlap \/ seen = {db}
      PROVE  HasFullRow(db, n) /\ RowAt(k) = FullRow(db, n)
  <2>1. grouped[m.city] # NoRecords
    BY <1>6, <1>8, NoEstimate
  <2>2. grouped[m.city] = db.contents.cities[q]
    BY <1>4, <1>6, <1>8, <2>1, GroupedOf
  <2>3. loaded[k] = own
    BY <1>1, <1>6, <1>8
  <2> QED BY <1>6, <1>8, <2>2, <2>3 DEF HasFullRow, FullRow, m
<1>9. k \in Surviving => RowAt(k).visitors \in Nat
  BY <1>1, <1>5, <1>6, RowVisitors
<1>10. ASSUME seen = {db}, HasFullRow(db, n)
       PROVE  k \in Surviving
  <2>1. HasRow(m, own, db.contents.cities[q])
    BY <1>10 DEF HasFullRow, m
  <2>2. loaded[k] = own
    BY <1>1, <1>10
  <2>3. Eligible(m, loaded[k])
    BY <2>1, <2>2 DEF HasRow
  <2>4. NeedsPopulations
    BY <1>1, <2>3 DEF NeedsPopulations
  <2>5. grouped[m.city] = db.contents.cities[q]
    BY <1>4, <1>10, <2>3, <2>4, GroupedOf DEF Eligible
  <2> QED BY <1>1, <2>1, <2>2, <2>5 DEF Surviving
<1>11. RowAt(k).museum = <<db.by[n], n>>
  BY <1>1, <1>5 DEF RowAt, HarmonizedRow
<1> QED BY <1>7, <1>8, <1>9, <1>10, <1>11 DEF n

-----------------------------------------------------------------------------
(* Pages.                                                                  *)

(* What a read is answered with is what was asked for.                     *)
LEMMA RequestedIsSlice ==
    ASSUME NEW S, NEW s \in Seq(S), QueryOK
    PROVE  Requested(s) = Slice(s)
<1> DEFINE skip == query.skip
           n == Len(Slice(s))
           I == {i \in DOMAIN s : skip < i /\ i <= skip + query.limit}
<1>1. /\ Slice(s) \in Seq(S)
      /\ \A k \in DOMAIN Slice(s) : skip + k \in DOMAIN s /\ Slice(s)[k] = s[skip + k]
      /\ \A i \in I : i - skip \in DOMAIN Slice(s)
  BY SliceOf DEF QueryOK
<1>2. n \in Nat /\ DOMAIN Slice(s) = 1 .. n /\ Slice(s) = [k \in 1 .. n |-> Slice(s)[k]]
  BY <1>1, LenProperties
<1>3. skip \in Nat /\ query.limit \in Nat /\ Len(s) \in Nat /\ DOMAIN s = 1 .. Len(s)
  BY LenProperties DEF QueryOK
<1>4. n <= query.limit
  BY SliceOf DEF QueryOK
<1>5. I = skip + 1 .. skip + n
  BY <1>1, <1>2, <1>3, <1>4
<1> HIDE DEF I, n, skip
<1>6. Cardinality(I) = n
  <2> DEFINE a == skip + 1  b == skip + n
  <2>1. a \in Int /\ b \in Int
    BY <1>2, <1>3
  <2>2. (a > b <=> n = 0) /\ b - a + 1 = n
    BY <1>2, <1>3
  <2> HIDE DEF a, b
  <2>3. Cardinality(a .. b) = IF a > b THEN 0 ELSE b - a + 1
    BY <2>1, FS_Interval
  <2>4. I = a .. b
    BY <1>5 DEF a, b
  <2> QED BY <2>2, <2>3, <2>4
<1>7. Requested(s) = [k \in 1 .. n |-> s[skip + k]]
  BY <1>6 DEF Requested, I, skip
<1> QED BY <1>1, <1>2, <1>7 DEF skip
(* How long a slice is only depends on how long the sequence is.           *)
LEMMA SliceLength ==
    ASSUME QueryOK, NEW S, NEW s \in Seq(S), NEW T, NEW t \in Seq(T), Len(s) = Len(t)
    PROVE  Len(Slice(s)) = Len(Slice(t))
<1> DEFINE I == {i \in 1 .. Len(s) : query.skip < i /\ i <= query.skip + query.limit}
<1>1. DOMAIN s = 1 .. Len(s) /\ DOMAIN t = 1 .. Len(s)
  BY LenProperties
<1>2. \A R : \A r \in Seq(R) : DOMAIN r = 1 .. Len(s) => Len(Slice(r)) = Cardinality(I)
  <2> SUFFICES ASSUME NEW R, NEW r \in Seq(R), DOMAIN r = 1 .. Len(s)
               PROVE  Len(Slice(r)) = Cardinality(I)
    OBVIOUS
  <2>1. Requested(r) = [k \in 1 .. Cardinality(I) |-> r[query.skip + k]]
    BY DEF Requested
  <2>2. Requested(r) = Slice(r) /\ Slice(r) \in Seq(R)
    BY RequestedIsSlice, SliceOf DEF QueryOK
  <2>3. DOMAIN Slice(r) = 1 .. Cardinality(I)
    BY <2>1, <2>2
  <2>4. IsFiniteSet(I) /\ Cardinality(I) \in Nat
    <3>1. I \in SUBSET (1 .. Len(s)) /\ Len(s) \in Nat
      BY LenProperties
    <3>2. IsFiniteSet(1 .. Len(s))
      BY <3>1, FS_Interval
    <3> QED BY <3>1, <3>2, FS_Subset, FS_CardinalityType
  <2> HIDE DEF I
  <2> QED BY <2>2, <2>3, <2>4, LenProperties
<1> QED BY <1>1, <1>2

-----------------------------------------------------------------------------
(* The answer of each endpoint.                                            *)

(* items is a listing of the rows of db, in order, or the requested part.  *)
ExactItems(n, items, db) ==
    /\ n = Cardinality(FullRows(db))
    /\ \E order \in SetToSeqs(FullRows(db)) :
           /\ \A i, j \in DOMAIN order : i < j => Before(order[i], order[j])
           /\ items = IF query.endpoint = "regression" THEN order ELSE Requested(order)

OneRefresh(items, db) ==
    /\ IsInjective(items)
    /\ \A row \in Range(items) : IsJoined(row, db)
    /\ overlap \/ Range(items) \subseteq FullRows(db) \cup BareRows(db)

LEMMA MuseumsAnswer ==
    ASSUME ReadInv, step = "answer", query.endpoint = "museums", NEW db \in seen, IsPage(db)
    PROVE  /\ OneRefresh(MuseumsResponse.items, db)
           /\ seen = {db} => ExactItems(MuseumsResponse.total, MuseumsResponse.items, db)
<1>t. Stored(db) /\ QueryOK
  BY DEF ReadInv, SeenInv, TypeOK, Stored, QueryOK
<1>1. PICK order \in Ordered(MuseumsIn(db)) : page = MuseumRows(db, Slice(order))
  BY DEF IsPage
<1> DEFINE names == Slice(order)
           items == MuseumsResponse.items
<1>2. PageOf(db, names)
  BY <1>t, <1>1, SlicePage
<1>3. /\ order \in SetToSeqs(MuseumsIn(db))
      /\ \A i, j \in DOMAIN order : i < j => Rank[order[i]] <= Rank[order[j]]
  BY DEF Ordered
<1>4. /\ IsFiniteSet(MuseumsIn(db))
      /\ Cardinality(MuseumsIn(db)) \in Nat
      /\ order \in Seq(MuseumsIn(db))
      /\ DOMAIN order = 1 .. Cardinality(MuseumsIn(db))
      /\ \A i, j \in DOMAIN order : order[i] = order[j] => i = j
      /\ \A n \in MuseumsIn(db) : \E k \in DOMAIN order : order[k] = n
  BY <1>t, <1>3, MuseumsFinite, Listing
<1>5. DOMAIN items = DOMAIN page /\ DOMAIN page = DOMAIN names
  BY <1>2 DEF MuseumsResponse, Success, PageOf
<1> HIDE DEF names
<1>6. ASSUME NEW k \in DOMAIN page
      PROVE  /\ items[k] = [FullMuseum(db, names[k]) EXCEPT !.records = loaded[k]]
             /\ names[k] \in MuseumsIn(db)
             /\ \E later \in seen : loaded[k] = RecordsOf(later, <<db.by[names[k]], names[k]>>)
             /\ ~overlap => loaded[k] \in {db.contents.museums[names[k]].visitors, NoRecords}
             /\ seen = {db} => loaded[k] = db.contents.museums[names[k]].visitors
             /\ items[k].museum = <<db.by[names[k]], names[k]>>
  <2>1. /\ page[k] = MuseumRow(db, names[k])
        /\ names[k] \in MuseumsIn(db)
        /\ \E later \in seen : loaded[k] = RecordsOf(later, <<db.by[names[k]], names[k]>>)
        /\ ~overlap => loaded[k] \in {db.contents.museums[names[k]].visitors, NoRecords}
        /\ seen = {db} => loaded[k] = db.contents.museums[names[k]].visitors
    BY <1>2, LoadedOf
  <2>2. items[k] = [museum |-> page[k].museum, item |-> page[k].item,
                    city   |-> page[k].city, records |-> loaded[k]]
    BY DEF MuseumsResponse, Success
  <2>3. page[k].museum = <<db.by[names[k]], names[k]>>
    BY <2>1 DEF MuseumRow
  <2> QED BY <2>1, <2>2, <2>3 DEF FullMuseum
<1>7. FullRows(db) = {FullMuseum(db, n) : n \in MuseumsIn(db)}
  BY DEF FullRows
<1>8. BareRows(db) = {[row EXCEPT !.records = NoRecords] : row \in FullRows(db)}
  BY DEF BareRows
<1>9. OneRefresh(items, db)
  <2>1. IsInjective(items)
    <3>1. ASSUME NEW i \in DOMAIN items, NEW j \in DOMAIN items, items[i] = items[j]
          PROVE  i = j
      <4>1. items[i].museum = <<db.by[names[i]], names[i]>> /\ items[j].museum = <<db.by[names[j]], names[j]>>
        BY <1>5, <1>6
      <4>2. names[i] = names[j]
        BY <3>1, <4>1
      <4> QED BY <1>2, <1>5, <4>2 DEF PageOf
    <3> QED BY <3>1 DEF IsInjective
  <2>2. ASSUME NEW k \in DOMAIN items PROVE IsJoined(items[k], db)
    <3>1. PICK later \in seen : loaded[k] = RecordsOf(later, <<db.by[names[k]], names[k]>>)
      BY <1>5, <1>6
    <3>2. /\ names[k] \in MuseumsIn(db)
          /\ items[k] = [FullMuseum(db, names[k]) EXCEPT
                            !.records = RecordsOf(later, <<db.by[names[k]], names[k]>>)]
      BY <1>5, <1>6, <3>1
    <3> HIDE DEF items
    <3> QED BY <3>2 DEF IsJoined
  <2>3. ASSUME NEW k \in DOMAIN items, ~overlap
        PROVE  items[k] \in FullRows(db) \cup BareRows(db)
    <3> DEFINE full == FullMuseum(db, names[k])
    <3>1. /\ items[k] = [full EXCEPT !.records = loaded[k]]
          /\ full \in FullRows(db)
          /\ loaded[k] = NoRecords \/ loaded[k] = db.contents.museums[names[k]].visitors
      BY <1>5, <1>6, <1>7, <2>3
    <3>2. [full EXCEPT !.records = db.contents.museums[names[k]].visitors] = full
      BY DEF FullMuseum
    <3> HIDE DEF full, items
    <3>3. CASE loaded[k] = NoRecords
      BY <1>8, <3>1, <3>3
    <3>4. CASE loaded[k] = db.contents.museums[names[k]].visitors
      BY <3>1, <3>2, <3>4
    <3> QED BY <3>1, <3>3, <3>4
  <2> HIDE DEF items
  <2> QED BY <2>1, <2>2, <2>3 DEF OneRefresh, Range
<1>10. ASSUME seen = {db}
       PROVE  ExactItems(MuseumsResponse.total, items, db)
  <2> DEFINE n == Cardinality(MuseumsIn(db))
             f == [x \in MuseumsIn(db) |-> FullMuseum(db, x)]
             full == [k \in DOMAIN order |-> f[order[k]]]
  <2>1. \A k \in 1 .. n : order[k] \in MuseumsIn(db)
    BY <1>4, ElementOfSeq, LenProperties
  <2>2. /\ DOMAIN full = 1 .. n
        /\ \A k \in 1 .. n : full[k] = FullMuseum(db, order[k])
    BY <1>4, <2>1
  <2>3. \A k \in 1 .. n : full[k].museum = <<db.by[order[k]], order[k]>>
    <3> HIDE DEF full
    <3> QED BY <2>2 DEF FullMuseum
  <2>4. \A x, y \in MuseumsIn(db) : f[x] = f[y] => x = y
    <3>1. \A x \in MuseumsIn(db) : f[x].museum = <<db.by[x], x>>
      BY DEF FullMuseum
    <3> HIDE DEF f
    <3> QED BY <3>1
  <2>5. FullRows(db) = {f[x] : x \in MuseumsIn(db)}
    BY <1>7
  <2> HIDE DEF f
  <2>6. IsFiniteSet(MuseumsIn(db)) /\ order \in SetToSeqs(MuseumsIn(db))
    BY <1>3, <1>4
  <2>7. /\ full \in SetToSeqs(FullRows(db))
        /\ IsFiniteSet(FullRows(db))
        /\ Cardinality(FullRows(db)) = n
    BY <2>4, <2>5, <2>6, MappedListing
  <2> HIDE DEF full
  <2>f. full \in Seq(FullRows(db)) /\ Len(full) = n
    BY <2>7, Listing
  <2> HIDE DEF n
  <2>8. MuseumsResponse.total = n
    <3>1. total = n
      BY <1>10 DEF ReadInv, TotalInv, n
    <3> QED BY <3>1 DEF MuseumsResponse, Success
  <2>9. \A i, j \in DOMAIN full : i < j => Before(full[i], full[j])
    BY <1>3, <1>4, <2>2, <2>3 DEF Before, Key, n
  <2>10. items = Requested(full)
    <3>2. Requested(full) = Slice(full)
      BY <1>t, <2>f, RequestedIsSlice
    <3>3. Len(order) = n
      BY <1>4, LenProperties DEF n
    <3>4. Len(Slice(full)) = Len(names) /\ Slice(full) \in Seq(FullRows(db))
      <4>1. Len(Slice(full)) = Len(Slice(order))
        BY <1>t, <1>4, <2>f, <3>3, SliceLength
      <4> QED BY <1>t, <2>f, <4>1, SliceOf DEF names, QueryOK
    <3>5. DOMAIN Slice(full) = DOMAIN names
      BY <1>2, <3>4, LenProperties DEF PageOf
    <3>6. ASSUME NEW k \in DOMAIN names
          PROVE  items[k] = Slice(full)[k]
      <4>1. Slice(full)[k] = full[query.skip + k] /\ query.skip + k \in 1 .. n
        BY <1>t, <2>2, <2>f, <3>5, SliceOf DEF QueryOK
      <4>2. names[k] = order[query.skip + k]
        BY <1>t, <1>4, SliceOf DEF names, QueryOK
      <4>3. Slice(full)[k] = FullMuseum(db, names[k])
        BY <2>2, <4>1, <4>2
      <4>4. items[k] = FullMuseum(db, names[k])
        BY <1>5, <1>6, <1>10 DEF FullMuseum
      <4> QED BY <4>3, <4>4
    <3>7. items = [k \in DOMAIN items |-> items[k]]
      BY DEF MuseumsResponse, Success
    <3>8. Slice(full) = [k \in DOMAIN Slice(full) |-> Slice(full)[k]]
      BY <3>4, LenProperties
    <3> HIDE DEF items
    <3> QED BY <1>5, <3>2, <3>5, <3>6, <3>7, <3>8
  <2> QED BY <2>7, <2>8, <2>9, <2>10 DEF ExactItems
<1> QED BY <1>9, <1>10

(* A page has no row twice if the sequence it is taken from has none.      *)
LEMMA SliceInjective ==
    ASSUME QueryOK, NEW S, NEW s \in Seq(S), \A i, j \in DOMAIN s : s[i] = s[j] => i = j
    PROVE  /\ Slice(s) \in Seq(S)
           /\ IsInjective(Slice(s))
           /\ Range(Slice(s)) \subseteq S
<1>1. /\ Slice(s) \in Seq(S)
      /\ \A k \in DOMAIN Slice(s) :
             query.skip + k \in DOMAIN s /\ Slice(s)[k] = s[query.skip + k]
  BY SliceOf DEF QueryOK
<1>2. DOMAIN Slice(s) \in SUBSET Nat
  BY <1>1, LenProperties
<1>3. ASSUME NEW i \in DOMAIN Slice(s), NEW j \in DOMAIN Slice(s), Slice(s)[i] = Slice(s)[j]
      PROVE  i = j
  <2> DEFINE skip == query.skip
  <2>1. skip \in Nat /\ i \in Nat /\ j \in Nat
    BY <1>2 DEF QueryOK
  <2>2. skip + i = skip + j
    BY <1>1, <1>3
  <2> HIDE DEF skip
  <2> QED BY <2>1, <2>2
<1>4. \A k \in DOMAIN Slice(s) : Slice(s)[k] \in S
  BY <1>1, LenProperties, ElementOfSeq
<1> QED BY <1>1, <1>3, <1>4 DEF IsInjective, Range

(* The cities are sorted by name, whatever order they were selected in.    *)
LEMMA SortedCities ==
    ASSUME NEW db, Stored(db), NEW selected \in SetToSeqs(CitiesIn(db)),
           page = CityRows(db, selected)
    PROVE  \E order \in Ordered(CitiesIn(db)) : CitiesByName = CityRows(db, order)
<1> DEFINE Sorted(s) == \A i, j \in 1 .. Len(s) : i < j => NameBefore(s[i], s[j])
           sorted == CHOOSE s \in SetToSeqs(DOMAIN page) : Sorted(s)
<1>1. PICK n : n = Cardinality(CitiesIn(db))
  OBVIOUS
<1>2. /\ IsFiniteSet(CitiesIn(db))
      /\ n \in Nat
      /\ selected \in Seq(CitiesIn(db))
      /\ DOMAIN selected = 1 .. n
      /\ \A i, j \in DOMAIN selected : selected[i] = selected[j] => i = j
      /\ \A q \in CitiesIn(db) : \E i \in DOMAIN selected : selected[i] = q
  BY <1>1, CitiesFinite, Listing
<1>3. \A i \in 1 .. n : selected[i] \in CitiesIn(db) /\ selected[i] \in Qids
  BY <1>2, ElementOfSeq DEF CitiesIn
<1>4. DOMAIN page = 1 .. n /\ \A i \in 1 .. n : page[i] = <<db.by[selected[i]], selected[i]>>
  BY <1>2 DEF CityRows
<1>5. \A i \in 1 .. n : page[i][2] = selected[i] /\ Rank[selected[i]] \in Nat
  BY <1>3, <1>4, ReadAssumption
<1>6. IsFiniteSet(DOMAIN page)
  <2>1. 1 \in Int /\ n \in Int
    BY <1>2
  <2> QED BY <1>4, <2>1, FS_Interval
<1>d. PICK D : D = DOMAIN page
  OBVIOUS
<1> DEFINE R == {p \in D \X D : NameBefore(p[1], p[2])}
<1>7. \A x, y \in D : <<x, y>> \in R <=> NameBefore(x, y)
  OBVIOUS
<1> HIDE DEF R
<1>8. \E s \in SetToSeqs(DOMAIN page) : \A i, j \in DOMAIN s : i < j => <<s[i], s[j]>> \in R
  <2>1. ASSUME NEW x \in 1 .. n, NEW y \in 1 .. n
        PROVE  /\ x \in Nat /\ Rank[selected[x]] \in Nat
               /\ <<x, y>> \in R <=> \/ Rank[selected[x]] < Rank[selected[y]]
                                     \/ Rank[selected[x]] = Rank[selected[y]] /\ x < y
    <3>1. page[x][2] = selected[x] /\ page[y][2] = selected[y]
      BY <1>5
    <3>2. x \in Nat /\ Rank[selected[x]] \in Nat
      BY <1>2, <1>5
    <3> QED BY <1>4, <1>d, <1>7, <3>1, <3>2 DEF NameBefore
  <2>2. \A x \in D : <<x, x>> \notin R
    BY <1>4, <1>d, <2>1
  <2>3. ASSUME NEW x \in D, NEW y \in D
        PROVE  x = y \/ <<x, y>> \in R \/ <<y, x>> \in R
    <3>1. /\ x \in Nat /\ Rank[selected[x]] \in Nat
          /\ y \in Nat /\ Rank[selected[y]] \in Nat
      BY <1>4, <1>d, <2>1
    <3>2. \/ x = y
          \/ Rank[selected[x]] < Rank[selected[y]]
          \/ Rank[selected[x]] = Rank[selected[y]] /\ x < y
          \/ Rank[selected[y]] < Rank[selected[x]]
          \/ Rank[selected[y]] = Rank[selected[x]] /\ y < x
      BY <3>1
    <3> QED BY <1>4, <1>d, <2>1, <3>2
  <2>4. ASSUME NEW x \in D, NEW y \in D, NEW z \in D,
               <<x, y>> \in R, <<y, z>> \in R
        PROVE  <<x, z>> \in R
    <3>1. /\ x \in Nat /\ y \in Nat /\ z \in Nat
          /\ Rank[selected[x]] \in Nat /\ Rank[selected[y]] \in Nat /\ Rank[selected[z]] \in Nat
      BY <1>4, <1>d, <2>1
    <3>2. /\ \/ Rank[selected[x]] < Rank[selected[y]]
             \/ Rank[selected[x]] = Rank[selected[y]] /\ x < y
          /\ \/ Rank[selected[y]] < Rank[selected[z]]
             \/ Rank[selected[y]] = Rank[selected[z]] /\ y < z
      BY <1>4, <1>d, <2>1, <2>4
    <3>3. \/ Rank[selected[x]] < Rank[selected[z]]
          \/ Rank[selected[x]] = Rank[selected[z]] /\ x < z
      BY <3>1, <3>2
    <3> QED BY <1>4, <1>d, <2>1, <3>3
  <2> QED BY <1>6, <1>d, <2>2, <2>3, <2>4, SortedExists
<1>9. \A s \in SetToSeqs(DOMAIN page) :
          /\ DOMAIN s = 1 .. Len(s)
          /\ \A i \in DOMAIN s : s[i] \in DOMAIN page
  <2> SUFFICES ASSUME NEW s \in SetToSeqs(DOMAIN page)
               PROVE  /\ DOMAIN s = 1 .. Len(s)
                      /\ \A i \in DOMAIN s : s[i] \in DOMAIN page
    OBVIOUS
  <2> QED BY <1>6, Listing, LenProperties, ElementOfSeq
<1>10. \E s \in SetToSeqs(DOMAIN page) : Sorted(s)
  BY <1>d, <1>7, <1>8, <1>9
<1>11. sorted \in SetToSeqs(DOMAIN page) /\ Sorted(sorted)
  BY <1>10
<1>12. CitiesByName = [k \in DOMAIN sorted |-> page[sorted[k]]]
  BY DEF CitiesByName, IsSorted
<1> HIDE DEF sorted
<1> DEFINE order == [k \in DOMAIN sorted |-> selected[sorted[k]]]
<1>13. \A k \in DOMAIN sorted : sorted[k] \in 1 .. n
  BY <1>4, <1>9, <1>11
<1>14. order \in SetToSeqs(CitiesIn(db))
  <2>1. CitiesIn(db) = {selected[i] : i \in DOMAIN page}
    BY <1>2, <1>3, <1>4
  <2>2. \A i, j \in DOMAIN page : selected[i] = selected[j] => i = j
    BY <1>2, <1>4
  <2> QED BY <1>6, <1>11, <2>1, <2>2, MappedListing
<1>15. ASSUME NEW i \in DOMAIN order, NEW j \in DOMAIN order, i < j
       PROVE  Rank[order[i]] <= Rank[order[j]]
  <2>1. i \in DOMAIN sorted /\ j \in DOMAIN sorted
    OBVIOUS
  <2>2. NameBefore(sorted[i], sorted[j])
    BY <1>9, <1>11, <1>15, <2>1
  <2>3. /\ sorted[i] \in 1 .. n /\ sorted[j] \in 1 .. n
        /\ order[i] = selected[sorted[i]] /\ order[j] = selected[sorted[j]]
    BY <1>13, <2>1
  <2>4. page[sorted[i]][2] = order[i] /\ page[sorted[j]][2] = order[j]
    BY <1>5, <2>3
  <2>5. Rank[order[i]] \in Nat /\ Rank[order[j]] \in Nat
    BY <1>5, <2>3
  <2> HIDE DEF order
  <2> QED BY <2>2, <2>4, <2>5 DEF NameBefore
<1>16. CitiesByName = CityRows(db, order)
  <2>1. \A k \in DOMAIN sorted : page[sorted[k]] = <<db.by[order[k]], order[k]>>
    BY <1>4, <1>13
  <2>2. DOMAIN order = DOMAIN sorted
    OBVIOUS
  <2> HIDE DEF order
  <2> QED BY <1>12, <2>1, <2>2 DEF CityRows
<1>17. order \in Ordered(CitiesIn(db))
  <2> HIDE DEF order
  <2> QED BY <1>14, <1>15 DEF Ordered
<1> QED BY <1>16, <1>17

LEMMA CitiesAnswer ==
    ASSUME ReadInv, step = "answer", query.endpoint = "cities", NEW db \in seen, IsPage(db)
    PROVE  /\ OneRefresh(CitiesResponse.items, db)
           /\ seen = {db} => ExactItems(CitiesResponse.total, CitiesResponse.items, db)
<1>t. QueryOK /\ Stored(db)
  BY DEF ReadInv, TypeOK, SeenInv, Stored, QueryOK
<1>s. PICK selected \in SetToSeqs(CitiesIn(db)) : page = CityRows(db, selected)
  BY DEF IsPage
<1>0. PICK cities : cities = CitiesByName
  OBVIOUS
<1>1. PICK order \in Ordered(CitiesIn(db)) : cities = CityRows(db, order)
  BY <1>t, <1>s, <1>0, SortedCities
<1>2. /\ order \in SetToSeqs(CitiesIn(db))
      /\ \A i, j \in DOMAIN order : i < j => Rank[order[i]] <= Rank[order[j]]
  BY DEF Ordered
<1> DEFINE n == Cardinality(CitiesIn(db))
           all == [k \in DOMAIN cities |-> [city |-> cities[k], records |-> grouped[cities[k]]]]
<1>3. /\ IsFiniteSet(CitiesIn(db))
      /\ n \in Nat
      /\ order \in Seq(CitiesIn(db))
      /\ DOMAIN order = 1 .. n
      /\ \A i, j \in DOMAIN order : order[i] = order[j] => i = j
  BY <1>2, CitiesFinite, Listing
<1> HIDE DEF n
<1>4. \A k \in 1 .. n : order[k] \in CitiesIn(db)
  BY <1>3, ElementOfSeq
<1>5. DOMAIN cities = 1 .. n /\ \A k \in 1 .. n : cities[k] = <<db.by[order[k]], order[k]>>
  BY <1>1, <1>3 DEF CityRows
<1>6. CitiesResponse = [status |-> 200, total |-> Len(cities), items |-> Slice(all)]
  BY <1>0 DEF CitiesResponse, Success
<1>7. /\ DOMAIN all = 1 .. n
      /\ \A k \in 1 .. n : all[k] = [city    |-> <<db.by[order[k]], order[k]>>,
                                     records |-> grouped[<<db.by[order[k]], order[k]>>]]
  BY <1>5
<1>c. ASSUME NEW k \in 1 .. n PROVE all[k].city = <<db.by[order[k]], order[k]>>
  <2>1. all[k] = [city |-> cities[k], records |-> grouped[cities[k]]]
    BY <1>5
  <2> HIDE DEF all
  <2>2. all[k].city = cities[k]
    BY <2>1
  <2> QED BY <1>5, <2>2
<1>8. FullRows(db) = {FullCity(db, q) : q \in CitiesIn(db)}
  BY DEF FullRows
<1>9. BareRows(db) = {[row EXCEPT !.records = NoRecords] : row \in FullRows(db)}
  BY DEF BareRows
<1> HIDE DEF all
<1>10. ASSUME NEW k \in 1 .. n PROVE IsJoined(all[k], db)
  <2>1. NeedsPopulations
    BY DEF NeedsPopulations
  <2>2. PICK later \in seen : grouped = PopulationsOf(later)
    BY <1>4, <2>1, GroupedOf
  <2>3. all[k] = [FullCity(db, order[k]) EXCEPT
                     !.records = PopulationsOf(later)[<<db.by[order[k]], order[k]>>]]
    BY <1>7, <2>2 DEF FullCity
  <2> QED BY <1>4, <2>3 DEF IsJoined
<1>b. ASSUME NEW k \in 1 .. n, ~overlap
      PROVE  all[k] \in FullRows(db) \cup BareRows(db)
  <2> DEFINE full == FullCity(db, order[k])
  <2>1. full \in FullRows(db)
    BY <1>4, <1>8
  <2>2. grouped[<<db.by[order[k]], order[k]>>] \in {db.contents.cities[order[k]], NoRecords}
    BY <1>4, <1>b, GroupedOf
  <2>3. CASE grouped[<<db.by[order[k]], order[k]>>] = NoRecords
    <3>1. all[k] = [full EXCEPT !.records = NoRecords]
      BY <1>7, <2>3 DEF FullCity
    <3> HIDE DEF full
    <3> QED BY <1>9, <2>1, <3>1
  <2>4. CASE grouped[<<db.by[order[k]], order[k]>>] = db.contents.cities[order[k]]
    <3>1. all[k] = full
      BY <1>7, <2>4 DEF FullCity
    <3> QED BY <2>1, <3>1
  <2> QED BY <2>2, <2>3, <2>4
<1>11. OneRefresh(Slice(all), db)
  <2> DEFINE T == {all[k] : k \in 1 .. n}
  <2>1. all \in [1 .. n -> T]
    <3>1. all = [k \in 1 .. n |-> all[k]]
      BY <1>7 DEF all
    <3> QED BY <3>1
  <2>2. all \in Seq(T)
    BY <1>3, <2>1, SeqDef
  <2>3. \A i, j \in DOMAIN all : all[i] = all[j] => i = j
    <3>1. \A k \in 1 .. n : all[k].city = <<db.by[order[k]], order[k]>>
      BY <1>c
    <3> QED BY <1>3, <1>7, <3>1
  <2>4. \A row \in T : IsJoined(row, db)
    BY <1>10
  <2>5. ~overlap => T \subseteq FullRows(db) \cup BareRows(db)
    BY <1>b
  <2> HIDE DEF T
  <2>6. IsInjective(Slice(all)) /\ Range(Slice(all)) \subseteq T
    BY <1>t, <2>2, <2>3, SliceInjective
  <2> QED BY <2>4, <2>5, <2>6 DEF OneRefresh
<1>12. ASSUME seen = {db}
       PROVE  ExactItems(Len(cities), Slice(all), db)
  <2> DEFINE f == [q \in CitiesIn(db) |-> FullCity(db, q)]
             full == [k \in DOMAIN order |-> f[order[k]]]
  <2>1. \A x, y \in CitiesIn(db) : f[x] = f[y] => x = y
    <3>1. \A x \in CitiesIn(db) : f[x].city = <<db.by[x], x>>
      BY DEF FullCity
    <3> HIDE DEF f
    <3> QED BY <3>1
  <2>2. FullRows(db) = {f[x] : x \in CitiesIn(db)}
    BY <1>8
  <2>3. DOMAIN full = 1 .. n /\ \A k \in 1 .. n : full[k] = FullCity(db, order[k])
    BY <1>3, <1>4
  <2>4. full = all
    <3>1. ASSUME NEW k \in 1 .. n PROVE full[k] = all[k]
      <4>1. NeedsPopulations
        BY DEF NeedsPopulations
      <4>2. grouped[<<db.by[order[k]], order[k]>>] = db.contents.cities[order[k]]
        BY <1>4, <1>12, <4>1, GroupedOf
      <4> HIDE DEF full
      <4> QED BY <1>7, <2>3, <4>2 DEF FullCity
    <3>2. all = [k \in 1 .. n |-> all[k]]
      BY <1>7 DEF all
    <3>3. full = [k \in 1 .. n |-> full[k]]
      BY <1>3
    <3> HIDE DEF full
    <3> QED BY <3>1, <3>2, <3>3
  <2> HIDE DEF f
  <2>5. /\ full \in SetToSeqs(FullRows(db))
        /\ IsFiniteSet(FullRows(db))
        /\ Cardinality(FullRows(db)) = n
    <3>1. n = Cardinality(CitiesIn(db))
      BY DEF n
    <3> QED BY <1>2, <1>3, <2>1, <2>2, <3>1, MappedListing
  <2> HIDE DEF full
  <2>6. all \in SetToSeqs(FullRows(db)) /\ all \in Seq(FullRows(db))
    BY <2>4, <2>5, Listing
  <2>7. \A i, j \in DOMAIN all : i < j => Before(all[i], all[j])
    <3>1. \A k \in 1 .. n : all[k].city = <<db.by[order[k]], order[k]>>
      BY <1>c
    <3> QED BY <1>2, <1>3, <1>7, <3>1 DEF Before, Key
  <2>8. Requested(all) = Slice(all)
    BY <1>t, <2>6, RequestedIsSlice
  <2>9. Len(cities) = n
    <3>1. cities \in [1 .. n -> {<<db.by[q], q>> : q \in CitiesIn(db)}]
      <4>1. cities = [k \in 1 .. n |-> cities[k]]
        BY <1>1, <1>5 DEF CityRows
      <4> QED BY <1>4, <1>5, <4>1
    <3>2. cities \in Seq({<<db.by[q], q>> : q \in CitiesIn(db)})
      BY <1>3, <3>1, SeqDef
    <3> QED BY <1>3, <1>5, <3>2, LenProperties
  <2> QED BY <2>5, <2>6, <2>7, <2>8, <2>9 DEF ExactItems
<1>13. CitiesResponse.total = Len(cities) /\ CitiesResponse.items = Slice(all)
  BY <1>6
<1> QED BY <1>11, <1>12, <1>13

LEMMA HarmonizedAnswer ==
    ASSUME ReadInv, step = "answer", query.endpoint \in {"harmonized", "regression"},
           NEW db \in seen, IsPage(db)
    PROVE  /\ \E T : /\ Harmonized \in Seq(T)
                     /\ \A row \in T : IsJoined(row, db)
                     /\ overlap \/ T \subseteq FullRows(db)
           /\ \A i, j \in DOMAIN Harmonized : Harmonized[i] = Harmonized[j] => i = j
           /\ seen = {db} =>
                  /\ Harmonized \in SetToSeqs(FullRows(db))
                  /\ Len(Harmonized) = Cardinality(FullRows(db))
                  /\ \A i, j \in DOMAIN Harmonized :
                         i < j => Before(Harmonized[i], Harmonized[j])
<1>t. QueryOK /\ Stored(db)
  BY DEF ReadInv, TypeOK, SeenInv, Stored, QueryOK
<1>1. PICK names : PageOf(db, names)
  BY <1>t, PageNames
<1>2. /\ Len(names) \in Nat
      /\ DOMAIN page = 1 .. Len(names)
      /\ DOMAIN names = 1 .. Len(names)
      /\ \A i, j \in DOMAIN names : names[i] = names[j] => i = j
      /\ \A i, j \in DOMAIN names : i < j => Rank[names[i]] <= Rank[names[j]]
      /\ \A n \in MuseumsIn(db) : \E k \in DOMAIN names : names[k] = n
      /\ \A k \in DOMAIN names : names[k] \in MuseumsIn(db)
  BY <1>1, LenProperties, ElementOfSeq DEF PageOf
<1>3. \A k \in DOMAIN page :
          /\ k \in Surviving => IsJoined(RowAt(k), db)
          /\ ~overlap /\ k \in Surviving =>
                 HasFullRow(db, names[k]) /\ RowAt(k) = FullRow(db, names[k])
          /\ seen = {db} => (k \in Surviving <=> HasFullRow(db, names[k]))
          /\ seen = {db} /\ k \in Surviving => RowAt(k) = FullRow(db, names[k])
          /\ RowAt(k).museum = <<db.by[names[k]], names[k]>>
          /\ k \in Surviving => RowAt(k).visitors \in Nat
  BY <1>1, RowsOf
<1>4. Surviving \in SUBSET (DOMAIN page)
  BY DEF Surviving
<1>5. DOMAIN page \in SUBSET Nat /\ IsFiniteSet(DOMAIN page) /\ IsFiniteSet(Surviving)
  <2>1. PICK m : m = Len(names)
    OBVIOUS
  <2>2. 1 \in Int /\ m \in Int
    BY <1>2, <2>1
  <2>3. IsFiniteSet(1 .. m)
    BY <2>2, FS_Interval
  <2> QED BY <1>2, <1>4, <2>1, <2>3, FS_Subset
<1>6. PICK order \in SetToSeqs(Surviving) :
          /\ Harmonized = [k \in DOMAIN order |-> RowAt(order[k])]
          /\ \A i, j \in DOMAIN order : i < j => RowBefore(order[i], order[j])
  BY <1>3, <1>4, <1>5, HarmonizedOrder
<1> DEFINE f == [k \in Surviving |-> RowAt(k)]
           T == {f[k] : k \in Surviving}
<1>7. \A k \in DOMAIN order : order[k] \in Surviving
  BY <1>5, <1>6, Listing, ElementOfSeq, LenProperties
<1>8. Harmonized = [k \in DOMAIN order |-> f[order[k]]]
  BY <1>6, <1>7
<1>9. \A k \in Surviving : f[k] = RowAt(k)
  OBVIOUS
<1> HIDE DEF f
<1>10. \A a, b \in Surviving : f[a] = f[b] => a = b
  BY <1>2, <1>3, <1>4, <1>9
<1>11. Harmonized \in SetToSeqs(T) /\ IsFiniteSet(T)
  BY <1>5, <1>6, <1>8, <1>10, MappedListing
<1>12. ASSUME ~overlap \/ seen = {db}
       PROVE  T \subseteq FullRows(db)
  <2>1. FullRows(db) = {FullRow(db, n) : n \in {n \in MuseumsIn(db) : HasFullRow(db, n)}}
    BY DEF FullRows
  <2> SUFFICES ASSUME NEW k \in Surviving PROVE f[k] \in FullRows(db)
    OBVIOUS
  <2>2. names[k] \in MuseumsIn(db) /\ HasFullRow(db, names[k]) /\ f[k] = FullRow(db, names[k])
    BY <1>2, <1>3, <1>4, <1>9, <1>12
  <2> QED BY <2>1, <2>2
<1>13. \A row \in T : IsJoined(row, db)
  BY <1>3, <1>4, <1>9
<1>14. /\ Harmonized \in Seq(T)
       /\ \A i, j \in DOMAIN Harmonized : Harmonized[i] = Harmonized[j] => i = j
       /\ Len(Harmonized) = Cardinality(T)
  BY <1>11, Listing
<1>16. ASSUME seen = {db}
       PROVE  /\ Harmonized \in SetToSeqs(FullRows(db))
              /\ Len(Harmonized) = Cardinality(FullRows(db))
              /\ \A i, j \in DOMAIN Harmonized : i < j => Before(Harmonized[i], Harmonized[j])
  <2>1. T = FullRows(db)
    <3>1. FullRows(db) = {FullRow(db, n) : n \in {n \in MuseumsIn(db) : HasFullRow(db, n)}}
      BY DEF FullRows
    <3>2. ASSUME NEW n \in MuseumsIn(db), HasFullRow(db, n)
          PROVE  FullRow(db, n) \in T
      <4>1. PICK k \in DOMAIN names : names[k] = n
        BY <1>2
      <4>2. k \in Surviving /\ RowAt(k) = FullRow(db, n)
        BY <1>2, <1>3, <1>16, <3>2, <4>1
      <4> QED BY <1>9, <4>2
    <3> QED BY <1>12, <1>16, <3>1, <3>2
  <2>2. ASSUME NEW i \in DOMAIN Harmonized, NEW j \in DOMAIN Harmonized, i < j
        PROVE  Before(Harmonized[i], Harmonized[j])
    <3> DEFINE a == order[i]
               b == order[j]
    <3>1. /\ i \in DOMAIN order /\ j \in DOMAIN order
          /\ Harmonized[i] = RowAt(a) /\ Harmonized[j] = RowAt(b)
      BY <1>6
    <3>2. a \in Surviving /\ b \in Surviving /\ RowBefore(a, b)
      BY <1>6, <1>7, <2>2, <3>1
    <3> HIDE DEF a, b
    <3>3. /\ RowAt(a).museum = <<db.by[names[a]], names[a]>> /\ RowAt(b).museum = <<db.by[names[b]], names[b]>>
          /\ a \in DOMAIN names /\ b \in DOMAIN names
      BY <1>2, <1>3, <1>4, <3>2
    <3>4. Key(RowAt(a)) = Rank[names[a]] /\ Key(RowAt(b)) = Rank[names[b]]
      BY <3>3 DEF Key
    <3>5. CASE RowAt(a).visitors > RowAt(b).visitors
      BY <3>1, <3>5 DEF Before
    <3>6. CASE RowAt(a).visitors = RowAt(b).visitors /\ a < b
      BY <1>2, <3>1, <3>3, <3>4, <3>6 DEF Before
    <3> QED BY <3>2, <3>5, <3>6 DEF RowBefore
  <2> HIDE DEF T
  <2> QED BY <1>11, <1>14, <2>1, <2>2
<1> HIDE DEF T
<1> QED BY <1>12, <1>13, <1>14, <1>16

LEMMA ResponseCorrect ==
    ASSUME ReadInv, step = "answer"
    PROVE  /\ Response.status \in {200, 422}
           /\ Response.status = 200 => \E db \in seen : OneRefresh(Response.items, db)
           /\ \A db \in seen : seen = {db} =>
                  /\ Response.status = 200 => ExactItems(Response.total, Response.items, db)
                  /\ Response.status = 422 => Cardinality(FullRows(db)) < MinRows
<1>1. PICK db \in seen : IsPage(db)
  BY DEF ReadInv, PageInv
<1> SUFFICES /\ Response.status \in {200, 422}
             /\ Response.status = 200 => OneRefresh(Response.items, db)
             /\ seen = {db} =>
                  /\ Response.status = 200 => ExactItems(Response.total, Response.items, db)
                  /\ Response.status = 422 => Cardinality(FullRows(db)) < MinRows
  OBVIOUS
<1>2. query.endpoint \in Endpoints /\ QueryOK
  BY DEF ReadInv, StepInv, TypeOK, QueryOK
<1>3. CASE query.endpoint = "museums"
  <2>1. Response = MuseumsResponse
    BY <1>3 DEF Response
  <2>2. MuseumsResponse.status = 200
    BY DEF MuseumsResponse, Success
  <2> QED BY <1>1, <1>3, <2>1, <2>2, MuseumsAnswer
<1>4. CASE query.endpoint = "cities"
  <2>1. Response = CitiesResponse
    BY <1>4 DEF Response
  <2>2. CitiesResponse.status = 200
    BY DEF CitiesResponse, Success
  <2> QED BY <1>1, <1>4, <2>1, <2>2, CitiesAnswer
<1>5. ASSUME query.endpoint \in {"harmonized", "regression"}
      PROVE  /\ \E T : /\ Harmonized \in Seq(T)
                       /\ \A row \in T : IsJoined(row, db)
                       /\ overlap \/ T \subseteq FullRows(db)
             /\ \A i, j \in DOMAIN Harmonized : Harmonized[i] = Harmonized[j] => i = j
             /\ seen = {db} =>
                    /\ Harmonized \in SetToSeqs(FullRows(db))
                    /\ Len(Harmonized) = Cardinality(FullRows(db))
                    /\ \A i, j \in DOMAIN Harmonized :
                           i < j => Before(Harmonized[i], Harmonized[j])
  BY <1>1, <1>5, HarmonizedAnswer
<1>6. CASE query.endpoint = "harmonized"
  <2>1. Response = HarmonizedResponse
    BY <1>6 DEF Response
  <2>2. HarmonizedResponse = [status |-> 200, total |-> Len(Harmonized),
                              items  |-> Slice(Harmonized)]
    BY DEF HarmonizedResponse, Success
  <2>t. PICK T : /\ Harmonized \in Seq(T)
                 /\ \A row \in T : IsJoined(row, db)
                 /\ overlap \/ T \subseteq FullRows(db)
    BY <1>5, <1>6
  <2>3. IsInjective(Slice(Harmonized)) /\ Range(Slice(Harmonized)) \subseteq T
    BY <1>2, <1>5, <1>6, <2>t, SliceInjective
  <2>4. Requested(Harmonized) = Slice(Harmonized)
    BY <1>2, <2>t, RequestedIsSlice
  <2>5. seen = {db} => ExactItems(Len(Harmonized), Slice(Harmonized), db)
    BY <1>5, <1>6, <2>4 DEF ExactItems
  <2>6. OneRefresh(Slice(Harmonized), db)
    BY <2>t, <2>3 DEF OneRefresh
  <2> QED BY <2>1, <2>2, <2>5, <2>6
<1>7. CASE query.endpoint = "regression"
  <2>1. Response = RegressionResponse
    BY <1>7 DEF Response
  <2>2. CASE Len(Harmonized) < MinRows
    <3>1. RegressionResponse.status = 422
      BY <2>2 DEF RegressionResponse, Failure
    <3> QED BY <1>5, <1>7, <2>1, <2>2, <3>1
  <2>3. CASE ~(Len(Harmonized) < MinRows)
    <3>1. RegressionResponse = [status |-> 200, total |-> Len(Harmonized),
                                items  |-> Harmonized]
      BY <2>3 DEF RegressionResponse, Success
    <3>2. seen = {db} => ExactItems(Len(Harmonized), Harmonized, db)
      BY <1>5, <1>7 DEF ExactItems
    <3>3. OneRefresh(Harmonized, db)
      <4>t. PICK T : /\ Harmonized \in Seq(T)
                     /\ \A row \in T : IsJoined(row, db)
                     /\ overlap \/ T \subseteq FullRows(db)
        BY <1>5, <1>7
      <4>1. \A k \in DOMAIN Harmonized : Harmonized[k] \in T
        BY <4>t, LenProperties, ElementOfSeq
      <4>2. IsInjective(Harmonized)
        BY <1>5, <1>7 DEF IsInjective
      <4>3. Range(Harmonized) \subseteq T
        BY <4>1 DEF Range
      <4> QED BY <4>t, <4>2, <4>3 DEF OneRefresh
    <3> QED BY <2>1, <3>1, <3>2, <3>3
  <2> QED BY <2>2, <2>3
<1> QED BY <1>2, <1>3, <1>4, <1>6, <1>7 DEF Endpoints

-----------------------------------------------------------------------------
(* What an answer is compared with only depends on the query.              *)
LEMMA SameQuery ==
    ASSUME query' = query, NEW db
    PROVE  /\ FullRows(db)' = FullRows(db)
           /\ BareRows(db)' = BareRows(db)
           /\ \A x, y : Before(x, y)' <=> Before(x, y)
           /\ \A s : Requested(s)' = Requested(s)
<1>1. FullRows(db)' = FullRows(db)
  BY DEF FullRows
<1>2. BareRows(db)' = BareRows(db)
  BY <1>1 DEF BareRows
<1>3. \A x, y : Before(x, y)' <=> Before(x, y)
  BY DEF Before, Key
<1>4. \A s : Requested(s)' = Requested(s)
  BY DEF Requested
<1> QED BY <1>1, <1>2, <1>3, <1>4

LEMMA SamePage ==
    ASSUME page' = page, query' = query, NEW db
    PROVE  IsPage(db)' <=> IsPage(db)
BY DEF IsPage, Slice

(* An unfinished answer promises nothing.                                  *)
LEMMA Unfinished ==
    ASSUME step' # "idle"
    PROVE  OneRefreshPerAnswer' /\ QuietReadExact'
BY DEF OneRefreshPerAnswer, QuietReadExact, Returned, Reading

LEMMA SameJoined ==
    ASSUME UNCHANGED <<query, seen>>, NEW row, NEW listed
    PROVE  IsJoined(row, listed)' <=> IsJoined(row, listed)
BY DEF IsJoined

LEMMA SameAnswer ==
    ASSUME OneRefreshPerAnswer, QuietReadExact,
           UNCHANGED <<query, seen, answer, step>>, overlap => overlap'
    PROVE  OneRefreshPerAnswer' /\ QuietReadExact'
<1>1. \A s : Returned(s)' <=> Returned(s)
  BY DEF Returned, Reading
<1>2. OneRefreshPerAnswer'
  <2> SUFFICES ASSUME Returned(200)
               PROVE  /\ IsInjective(answer.items)
                      /\ \E listed \in seen :
                             \A row \in Range(answer.items) : IsJoined(row, listed)'
                      /\ overlap' \/ \E db \in seen :
                             Range(answer.items) \subseteq FullRows(db) \cup BareRows(db)
    BY <1>1, SameQuery DEF OneRefreshPerAnswer
  <2> QED BY SameJoined DEF OneRefreshPerAnswer
<1>3. QuietReadExact'
  <2> SUFFICES ASSUME NEW db \in seen, seen = {db}
               PROVE  /\ Returned(200) =>
                          /\ answer.total = Cardinality(FullRows(db))
                          /\ \E order \in SetToSeqs(FullRows(db)) :
                                 /\ \A i, j \in DOMAIN order :
                                        i < j => Before(order[i], order[j])'
                                 /\ answer.items = IF query.endpoint = "regression"
                                                   THEN order ELSE Requested(order)'
                      /\ Returned(422) => Cardinality(FullRows(db)) < MinRows
    BY <1>1, SameQuery DEF QuietReadExact
  <2> QED BY SameQuery DEF QuietReadExact
<1> QED BY <1>2, <1>3

(* While no refresh commits, the database is one of the states seen.       *)
LEMMA SameSeen ==
    ASSUME SeenInv, Reading, UNCHANGED <<refreshVars, seen, overlap>>
    PROVE  SeenInv'
BY DEF SeenInv, Committed, Snapshot, Reading, refreshVars

LEMMA SeenType ==
    ASSUME \A db \in seen \cup {Snapshot} : SnapshotTypeOK(db),
           UNCHANGED <<refreshVars, seen>>
    PROVE  (\A db \in seen \cup {Snapshot} : SnapshotTypeOK(db))'
BY DEF Snapshot, refreshVars

(* Records belong to whom they are stored for.                             *)
LEMMA RecordsType ==
    ASSUME NEW db, Stored(db)
    PROVE  /\ \A id \in MuseumIds : RecordsOf(db, id) \in RecordSets
           /\ PopulationsOf(db) \in [CityIds -> RecordSets]
<1>k. /\ \A n \in Names : db.by[n] \in Writers => n \in MuseumsIn(db)
      /\ \A q \in Qids : db.by[q] \in Writers => q \in CitiesIn(db)
  BY PresentKeys, DistinctAssumption DEF Stored, Consistent, MuseumsIn, CitiesIn, Keys
<1>1. ASSUME NEW id \in MuseumIds PROVE RecordsOf(db, id) \in RecordSets
  <2>1. id[1] \in Writers /\ id[2] \in Names
    BY DEF MuseumIds
  <2>2. CASE id[1] = db.by[id[2]]
    <3>1. db.contents.museums[id[2]] \in MuseumType
      BY <1>k, <2>1, <2>2, StoredMuseum
    <3> QED BY <2>2, <3>1 DEF RecordsOf, MuseumType
  <2>3. CASE id[1] # db.by[id[2]]
    BY <2>3, NoRecordsType DEF RecordsOf
  <2> QED BY <2>2, <2>3
<1>2. ASSUME NEW id \in CityIds
      PROVE  (IF id[1] = db.by[id[2]] THEN db.contents.cities[id[2]] ELSE NoRecords) \in RecordSets
  <2>1. id[1] \in Writers /\ id[2] \in Qids
    BY DEF CityIds
  <2>2. CASE id[1] = db.by[id[2]]
    BY <1>k, <2>1, <2>2, StoredCity
  <2>3. CASE id[1] # db.by[id[2]]
    BY <2>3, NoRecordsType
  <2> QED BY <2>2, <2>3
<1> QED BY <1>1, <1>2 DEF PopulationsOf

-----------------------------------------------------------------------------
(* Every step keeps the invariant.                                         *)

(* What a read may see is stored.                                          *)
LEMMA SeenStored ==
    ASSUME ReadInv
    PROVE  /\ \A db \in seen \cup {Snapshot} : Stored(db) /\ Committed(db)
           /\ applied \subseteq Requests
BY DEF ReadInv, SeenInv, TypeOK, Stored

LEMMA RefreshKeeps == ReadInv /\ Refresh => ReadInv'
<1> SUFFICES ASSUME ReadInv, Refresh PROVE ReadInv'
  OBVIOUS
<1>m. PICK M \in SUBSET applied : \E C \in SUBSET M :
          /\ \E r \in Requests, d \in Datasets, at \in 0 .. MaxTime :
                 Merge(r, d, at, Missed(M, C))
          /\ overlap' = (overlap \/ Missed(M, C) # {})
  BY DEF Refresh
<1>1. PICK C \in SUBSET M :
          /\ \E r \in Requests, d \in Datasets, at \in 0 .. MaxTime :
                 Merge(r, d, at, Missed(M, C))
          /\ overlap' = (overlap \/ Missed(M, C) # {})
  BY <1>m
<1>2. /\ seen' = IF Reading THEN seen \cup {Snapshot'} ELSE seen
      /\ UNCHANGED <<step, query, total, page, loaded, grouped, answer>>
  BY DEF Refresh
<1>3. PICK r \in Requests, d \in Datasets, at \in 0 .. MaxTime : Merge(r, d, at, Missed(M, C))
  BY <1>1
<1>4. PICK new : new = Snapshot'
  OBVIOUS
<1>5. /\ Stored(new)
      /\ Committed(Snapshot)'
      /\ applied \subseteq applied' /\ applied' \subseteq Requests
      /\ Missed(M, C) = {} =>
             \A db : Stored(db) /\ Committed(db) => Apart(db, new) /\ Apart(new, db)
  BY <1>3, <1>4, SeenStored, MergeStored
<1>6. seen \subseteq seen' /\ seen' \subseteq seen \cup {new} /\ (Reading' <=> Reading)
  BY <1>2, <1>4 DEF Reading
<1>7. SeenInv'
  <2>1. \A db \in seen' \cup {new} : db \in seen \/ db = new
    BY <1>6
  <2>2. \A db \in seen : Stored(db) /\ Committed(db)
    BY SeenStored
  <2>3. \A db : Committed(db) => Committed(db)'
    BY <1>5 DEF Committed
  <2>4. Committed(new)'
    BY <1>4, <1>5 DEF Committed
  <2>5. \A db \in seen' \cup {new} : Consistent(db) /\ Committed(db)'
    BY <1>5, <2>1, <2>2, <2>3, <2>4 DEF Stored
  <2>6. Reading' => new \in seen'
    BY <1>2, <1>4, <1>6
  <2>7. ASSUME ~overlap', NEW a \in seen', NEW b \in seen'
        PROVE  a = b \/ Apart(a, b)
    <3>1. ~overlap /\ Missed(M, C) = {}
      BY <1>1, <2>7
    <3>2. \A x, y \in seen : x = y \/ Apart(x, y)
      BY <3>1 DEF ReadInv, SeenInv
    <3>3. \A x \in seen : Apart(x, new) /\ Apart(new, x)
      BY <1>5, <2>2, <3>1
    <3> QED BY <2>1, <3>2, <3>3
  <2>8. \A db \in seen' \cup {Snapshot'} : Consistent(db) /\ Committed(db)'
    BY <1>4, <2>5
  <2>9. Reading' => Snapshot' \in seen'
    BY <1>4, <2>6
  <2> QED BY <2>7, <2>8, <2>9 DEF SeenInv
<1>8. (\A db \in seen \cup {Snapshot} : SnapshotTypeOK(db))'
  <2>1. \A db \in seen : SnapshotTypeOK(db)
    BY SeenStored DEF Stored
  <2>2. SnapshotTypeOK(new)
    BY <1>5 DEF Stored
  <2>3. \A db \in seen' \cup {Snapshot'} : db \in seen \/ db = new
    BY <1>4, <1>6
  <2> QED BY <2>1, <2>2, <2>3
<1>9. TypeOK'
  <2>1. overlap' \in BOOLEAN
    BY <1>1
  <2> QED BY <1>2, <1>5, <1>8, <2>1 DEF ReadInv, TypeOK
<1>10. StepInv'
  BY <1>2 DEF ReadInv, StepInv, NeedsPopulations
<1>11. TotalInv'
  BY <1>2, <1>6 DEF ReadInv, TotalInv
<1>12. PageInv'
  BY <1>2, <1>6, SamePage DEF ReadInv, PageInv
<1>13. LoadedInv'
  BY <1>2, <1>6 DEF ReadInv, LoadedInv
<1>14. GroupedInv'
  BY <1>2, <1>6 DEF ReadInv, GroupedInv, NeedsPopulations
<1>15. OneRefreshPerAnswer' /\ QuietReadExact'
  <2>1. CASE Reading
    BY <1>2, <2>1, Unfinished DEF Reading
  <2>2. CASE ~Reading
    <3>1. seen' = seen
      BY <1>2, <2>2
    <3> QED BY <1>1, <1>2, <2>2, <3>1, SameAnswer DEF ReadInv
  <2> QED BY <2>1, <2>2
<1> QED BY <1>7, <1>9, <1>10, <1>11, <1>12, <1>13, <1>14, <1>15 DEF ReadInv

(* A step that does nothing keeps it.                                      *)
LEMMA NothingKeeps ==
    ASSUME ReadInv, UNCHANGED <<refreshVars, readVars>>
    PROVE  ReadInv'
<1>1. UNCHANGED <<refreshVars, step, query, total, page, loaded, grouped, answer, seen, overlap>>
  BY DEF readVars
<1>2. TypeOK'
  <2>1. (\A db \in seen \cup {Snapshot} : SnapshotTypeOK(db))'
    BY <1>1, SeenType DEF ReadInv, TypeOK
  <2> QED BY <1>1, <2>1 DEF ReadInv, TypeOK, refreshVars
<1>3. SeenInv'
  BY <1>1 DEF ReadInv, SeenInv, Committed, Snapshot, Reading, refreshVars
<1>4. StepInv' /\ TotalInv'
  BY <1>1 DEF ReadInv, StepInv, TotalInv, NeedsPopulations
<1>5. PageInv'
  BY <1>1, SamePage DEF ReadInv, PageInv
<1>6. LoadedInv' /\ GroupedInv'
  BY <1>1 DEF ReadInv, LoadedInv, GroupedInv, NeedsPopulations
<1>7. OneRefreshPerAnswer' /\ QuietReadExact'
  BY <1>1, SameAnswer DEF ReadInv
<1> QED BY <1>2, <1>3, <1>4, <1>5, <1>6, <1>7 DEF ReadInv

LEMMA AskKeeps ==
    ASSUME ReadInv, NEW e \in Endpoints, Ask(e)
    PROVE  ReadInv'
<1>1. PICK p \in Pages(e) : query' = [endpoint |-> e, skip |-> p.skip, limit |-> p.limit]
  BY DEF Ask
<1>2. /\ step = "idle"
      /\ step' = IF e = "cities" THEN "cities" ELSE "count"
      /\ seen' = {Snapshot}
      /\ answer' = NoAnswer
      /\ overlap' = FALSE
      /\ UNCHANGED <<refreshVars, total, page, loaded, grouped>>
  BY DEF Ask, Reading
<1>3. query'.endpoint = e /\ query'.skip = p.skip /\ query'.limit = p.limit
  BY <1>1
<1>4. p.skip \in Nat /\ p.limit \in Nat \ {0}
  <2>1. CASE e = "regression"
    <3>1. p = NoPage
      BY <2>1 DEF Pages
    <3> QED BY <3>1 DEF NoPage
  <2>2. CASE e # "regression"
    <3>1. p \in [skip : Skips, limit : Limits]
      BY <2>2 DEF Pages
    <3> QED BY <3>1, ReadAssumption
  <2> QED BY <2>1, <2>2
<1>5. page = <<>> /\ grouped = NoPopulations
  BY <1>2 DEF ReadInv, PageInv, GroupedInv
<1>6. loaded = <<>>
  BY <1>5 DEF ReadInv, TypeOK
<1>7. Snapshot' = Snapshot /\ Snapshot.by = author /\ Snapshot.contents = contents
  BY <1>2 DEF Snapshot, refreshVars
<1>8. TypeOK'
  <2>1. (\A db \in seen \cup {Snapshot} : SnapshotTypeOK(db))'
    BY <1>2, <1>7 DEF ReadInv, TypeOK
  <2>2. answer'.status \in {0, 200, 422, 500}
    BY <1>2 DEF NoAnswer, Failure
  <2>3. step' \in {"idle", "count", "museums", "visitors", "cities", "populations", "answer"}
    BY <1>2
  <2>4. (\A k \in DOMAIN page :
           IF query.endpoint = "cities" THEN page[k] \in CityIds
           ELSE /\ page[k].museum \in MuseumIds
                /\ page[k].city \in CityIds \cup {Null}
                /\ page[k].item \in Items \cup {Null})'
    BY <1>2, <1>5
  <2> QED BY <1>2, <1>3, <1>4, <2>1, <2>2, <2>3, <2>4 DEF ReadInv, TypeOK, refreshVars
<1>9. SeenInv'
  <2>1. Consistent(Snapshot) /\ Committed(Snapshot)
    BY DEF ReadInv, SeenInv
  <2>2. Committed(Snapshot)'
    BY <1>2, <1>7, <2>1 DEF Committed, refreshVars
  <2> QED BY <1>2, <1>7, <2>1, <2>2 DEF SeenInv
<1>10. StepInv' /\ TotalInv'
  BY <1>2, <1>3 DEF StepInv, TotalInv
<1>11. PageInv' /\ LoadedInv' /\ GroupedInv'
  BY <1>2, <1>5, <1>6 DEF PageInv, LoadedInv, GroupedInv
<1>12. OneRefreshPerAnswer' /\ QuietReadExact'
  BY <1>2, Unfinished
<1> QED BY <1>8, <1>9, <1>10, <1>11, <1>12 DEF ReadInv

LEMMA SelectCountKeeps == ReadInv /\ SelectCount => ReadInv'
<1> SUFFICES ASSUME ReadInv, SelectCount PROVE ReadInv'
  OBVIOUS
<1>1. /\ step = "count" /\ step' = "museums"
      /\ total' = Cardinality(MuseumsIn(Snapshot))
      /\ UNCHANGED <<refreshVars, query, page, loaded, grouped, answer, seen, overlap>>
  BY DEF SelectCount
<1>2. PICK db \in seen : db = Snapshot
  BY <1>1 DEF ReadInv, SeenInv, Reading
<1>3. total' \in Nat
  <2>1. Stored(db)
    BY SeenStored
  <2> QED BY <1>1, <1>2, <2>1, MuseumsFinite, FS_CardinalityType
<1>4. TypeOK'
  <2>1. (\A s \in seen \cup {Snapshot} : SnapshotTypeOK(s))'
    BY <1>1, SeenType DEF ReadInv, TypeOK
  <2> QED BY <1>1, <1>3, <2>1 DEF ReadInv, TypeOK, refreshVars
<1>5. SeenInv'
  BY <1>1, SameSeen DEF ReadInv, Reading
<1>6. StepInv'
  BY <1>1 DEF ReadInv, StepInv
<1>7. TotalInv'
  BY <1>1, <1>2 DEF TotalInv
<1>8. PageInv' /\ LoadedInv' /\ GroupedInv'
  BY <1>1 DEF ReadInv, PageInv, LoadedInv, GroupedInv
<1>9. OneRefreshPerAnswer' /\ QuietReadExact'
  BY <1>1, Unfinished
<1> QED BY <1>4, <1>5, <1>6, <1>7, <1>8, <1>9 DEF ReadInv

(* The rows that a statement selects.                                      *)
LEMMA MuseumRowsType ==
    ASSUME NEW db, Stored(db), NEW names \in Seq(MuseumsIn(db))
    PROVE  /\ Len(MuseumRows(db, names)) \in Nat
           /\ DOMAIN MuseumRows(db, names) = 1 .. Len(MuseumRows(db, names))
           /\ \A k \in DOMAIN MuseumRows(db, names) :
                  /\ MuseumRows(db, names)[k].museum \in MuseumIds
                  /\ MuseumRows(db, names)[k].city \in CityIds \cup {Null}
                  /\ MuseumRows(db, names)[k].item \in Items \cup {Null}
<1>1. ASSUME NEW n \in MuseumsIn(db)
      PROVE  /\ MuseumRow(db, n).museum \in MuseumIds
             /\ MuseumRow(db, n).city \in CityIds \cup {Null}
             /\ MuseumRow(db, n).item \in Items \cup {Null}
  <2>1. /\ n \in Names /\ <<db.by[n], n>> \in MuseumIds
        /\ db.contents.museums[n] \in MuseumType
        /\ db.contents.museums[n].city # Null => db.contents.museums[n].city \in CitiesIn(db)
    BY StoredMuseum
  <2>2. db.contents.museums[n].item \in Items \cup {Null}
    BY <2>1 DEF MuseumType
  <2>3. db.contents.museums[n].city # Null =>
            <<db.by[db.contents.museums[n].city], db.contents.museums[n].city>> \in CityIds
    BY <2>1, StoredCity
  <2> QED BY <2>1, <2>2, <2>3 DEF MuseumRow
<1> DEFINE n == Len(names)
           rows == MuseumRows(db, names)
           Rows == {MuseumRow(db, x) : x \in MuseumsIn(db)}
<1>2. n \in Nat /\ DOMAIN names = 1 .. n /\ \A k \in 1 .. n : names[k] \in MuseumsIn(db)
  BY LenProperties, ElementOfSeq
<1>3. DOMAIN rows = 1 .. n /\ \A k \in 1 .. n : rows[k] = MuseumRow(db, names[k])
  BY <1>2 DEF MuseumRows
<1>4. rows \in [1 .. n -> Rows]
  BY <1>2 DEF MuseumRows
<1>5. rows \in Seq(Rows)
  BY <1>2, <1>4, SeqDef
<1> HIDE DEF n, rows, Rows
<1>6. Len(rows) = n
  BY <1>2, <1>3, <1>5, LenProperties
<1>7. /\ Len(rows) \in Nat
      /\ DOMAIN rows = 1 .. Len(rows)
      /\ \A k \in DOMAIN rows :
             /\ rows[k].museum \in MuseumIds
             /\ rows[k].city \in CityIds \cup {Null}
             /\ rows[k].item \in Items \cup {Null}
  BY <1>1, <1>2, <1>3, <1>6
<1> QED BY <1>7 DEF rows

LEMMA CityRowsType ==
    ASSUME NEW db, Stored(db), NEW names \in Seq(CitiesIn(db))
    PROVE  /\ Len(CityRows(db, names)) \in Nat
           /\ \A k \in DOMAIN CityRows(db, names) : CityRows(db, names)[k] \in CityIds
<1> DEFINE n == Len(names)
           rows == CityRows(db, names)
<1>1. n \in Nat /\ DOMAIN names = 1 .. n /\ \A k \in 1 .. n : names[k] \in CitiesIn(db)
  BY LenProperties, ElementOfSeq
<1>2. \A k \in 1 .. n : <<db.by[names[k]], names[k]>> \in CityIds
  BY <1>1, StoredCity
<1>3. rows \in [1 .. n -> CityIds]
  BY <1>1, <1>2 DEF CityRows
<1>4. rows \in Seq(CityIds)
  BY <1>1, <1>3, SeqDef
<1> HIDE DEF rows
<1>5. Len(rows) \in Nat /\ \A k \in DOMAIN rows : rows[k] \in CityIds
  BY <1>4, LenProperties, ElementOfSeq
<1> QED BY <1>5 DEF rows

(* What a statement sees.                                                  *)
LEMMA Sees ==
    ASSUME ReadInv, Reading
    PROVE  \E db \in seen : db = Snapshot /\ Stored(db)
<1>1. Snapshot \in seen
  BY DEF ReadInv, SeenInv
<1> QED BY <1>1, SeenStored

LEMMA OrderedIsSeq ==
    ASSUME NEW S, IsFiniteSet(S), NEW order \in Ordered(S)
    PROVE  order \in Seq(S)
BY Listing DEF Ordered

LEMMA SelectMuseumsKeeps == ReadInv /\ SelectMuseums => ReadInv'
<1> SUFFICES ASSUME ReadInv, SelectMuseums PROVE ReadInv'
  OBVIOUS
<1>1. /\ step = "museums"
      /\ step' = IF page' = <<>> THEN "answer" ELSE "visitors"
      /\ UNCHANGED <<refreshVars, query, total, loaded, grouped, answer, seen, overlap>>
  BY DEF SelectMuseums
<1>2. PICK db \in seen : db = Snapshot /\ Stored(db)
  BY <1>1, Sees DEF Reading
<1>3. PICK order \in Ordered(MuseumsIn(db)) :
          page' = MuseumRows(db, IF query.endpoint = "museums" THEN Slice(order) ELSE order)
  BY <1>2 DEF SelectMuseums
<1>t. QueryOK /\ query.endpoint # "cities"
  BY <1>1 DEF ReadInv, TypeOK, StepInv, QueryOK
<1> DEFINE names == IF query.endpoint = "museums" THEN Slice(order) ELSE order
<1>4. names \in Seq(MuseumsIn(db))
  <2>1. order \in Seq(MuseumsIn(db))
    BY <1>2, MuseumsFinite, OrderedIsSeq
  <2>2. Slice(order) \in Seq(MuseumsIn(db))
    BY <1>t, <2>1, SliceOf DEF QueryOK
  <2> QED BY <2>1, <2>2
<1>5. /\ Len(page') \in Nat
      /\ \A k \in DOMAIN page' : /\ page'[k].museum \in MuseumIds
                                 /\ page'[k].city \in CityIds \cup {Null}
                                 /\ page'[k].item \in Items \cup {Null}
  BY <1>2, <1>3, <1>4, MuseumRowsType
<1>6. page = <<>> /\ grouped = NoPopulations
  BY <1>1 DEF ReadInv, PageInv, GroupedInv
<1>7. loaded = <<>>
  BY <1>6 DEF ReadInv, TypeOK
<1>8. TypeOK'
  <2>1. (\A s \in seen \cup {Snapshot} : SnapshotTypeOK(s))'
    BY <1>1, SeenType DEF ReadInv, TypeOK
  <2>2. loaded' \in Seq(RecordSets) /\ Len(loaded') <= Len(page')
    BY <1>1, <1>5, <1>7
  <2> QED BY <1>1, <1>t, <1>5, <2>1, <2>2 DEF ReadInv, TypeOK, refreshVars
<1>9. SeenInv'
  BY <1>1, SameSeen DEF ReadInv, Reading
<1>10. StepInv' /\ TotalInv'
  BY <1>1 DEF ReadInv, StepInv, TotalInv
<1>11. PageInv'
  <2>1. IsPage(db)'
    BY <1>1, <1>t, <1>3 DEF IsPage, Slice
  <2> QED BY <1>1, <2>1 DEF PageInv
<1>12. LoadedInv'
  BY <1>1, <1>7 DEF LoadedInv
<1>13. GroupedInv'
  BY <1>1, <1>t, <1>6 DEF GroupedInv, NeedsPopulations
<1>14. OneRefreshPerAnswer' /\ QuietReadExact'
  BY <1>1, Unfinished
<1> QED BY <1>8, <1>9, <1>10, <1>11, <1>12, <1>13, <1>14 DEF ReadInv

LEMMA PageLength ==
    ASSUME ReadInv, step = "visitors"
    PROVE  Len(page) \in Nat /\ DOMAIN page = 1 .. Len(page)
<1>1. PICK db \in seen : IsPage(db)
  BY DEF ReadInv, PageInv
<1>2. Stored(db) /\ query.endpoint # "cities" /\ QueryOK
  BY SeenStored DEF ReadInv, StepInv, TypeOK, QueryOK
<1>3. PICK order \in Ordered(MuseumsIn(db)) :
          page = MuseumRows(db, IF query.endpoint = "museums" THEN Slice(order) ELSE order)
  BY <1>1, <1>2 DEF IsPage
<1>4. order \in Seq(MuseumsIn(db))
  BY <1>2, MuseumsFinite, OrderedIsSeq
<1>5. Slice(order) \in Seq(MuseumsIn(db))
  BY <1>2, <1>4, SliceOf DEF QueryOK
<1> QED BY <1>2, <1>3, <1>4, <1>5, MuseumRowsType

LEMMA SelectVisitorsKeeps == ReadInv /\ SelectVisitors => ReadInv'
<1> SUFFICES ASSUME ReadInv, SelectVisitors PROVE ReadInv'
  OBVIOUS
<1> DEFINE upTo == Min({Len(loaded) + Batch, Len(page)})
<1>1. /\ step = "visitors"
      /\ loaded' = [k \in 1 .. upTo |-> IF k \in DOMAIN loaded THEN loaded[k]
                                        ELSE RecordsOf(Snapshot, page[k].museum)]
      /\ step' = IF Len(loaded') < Len(page) THEN "visitors"
                 ELSE IF /\ query.endpoint # "museums"
                         /\ \E k \in DOMAIN page : Eligible(page[k], loaded'[k])
                 THEN "populations" ELSE "answer"
      /\ UNCHANGED <<refreshVars, query, total, page, grouped, answer, seen, overlap>>
  BY DEF SelectVisitors
<1>2. PICK db \in seen : db = Snapshot /\ Stored(db)
  BY <1>1, Sees DEF Reading
<1>3. /\ query.endpoint # "cities" /\ grouped = NoPopulations
      /\ loaded \in Seq(RecordSets) /\ Len(loaded) <= Len(page)
  BY <1>1 DEF ReadInv, StepInv, GroupedInv, TypeOK
<1>4. /\ Len(page) \in Nat /\ DOMAIN page = 1 .. Len(page)
      /\ Len(loaded) \in Nat /\ DOMAIN loaded = 1 .. Len(loaded)
      /\ \A k \in DOMAIN loaded : loaded[k] \in RecordSets
  BY <1>1, <1>3, PageLength, LenProperties, ElementOfSeq
<1>5. upTo \in Nat /\ upTo <= Len(page)
  <2>1. Len(loaded) + Batch \in Nat
    BY <1>4, ReadAssumption
  <2>2. upTo = IF Len(loaded) + Batch <= Len(page) THEN Len(loaded) + Batch ELSE Len(page)
    BY <1>4, <2>1, MinOfTwo
  <2> HIDE DEF upTo
  <2>3. CASE Len(loaded) + Batch <= Len(page)
    BY <2>1, <2>2, <2>3
  <2>4. CASE ~(Len(loaded) + Batch <= Len(page))
    BY <1>4, <2>2, <2>4
  <2> QED BY <2>3, <2>4
<1> HIDE DEF upTo
<1>6. /\ DOMAIN loaded' = 1 .. upTo
      /\ \A k \in 1 .. upTo :
             loaded'[k] = IF k \in DOMAIN loaded THEN loaded[k]
                          ELSE RecordsOf(db, page[k].museum)
  BY <1>1, <1>2
<1>7. \A k \in 1 .. upTo : page[k].museum \in MuseumIds
  <2>1. \A k \in DOMAIN page : page[k].museum \in MuseumIds
    BY <1>3 DEF ReadInv, TypeOK
  <2> QED BY <1>4, <1>5, <2>1
<1>8. loaded' \in [1 .. upTo -> RecordSets]
  <2>1. \A k \in 1 .. upTo : loaded'[k] \in RecordSets
    BY <1>2, <1>4, <1>6, <1>7, RecordsType
  <2>2. loaded' = [k \in 1 .. upTo |-> loaded'[k]]
    BY <1>1
  <2> QED BY <2>1, <2>2
<1>9. loaded' \in Seq(RecordSets) /\ Len(loaded') = upTo
  <2>1. loaded' \in Seq(RecordSets)
    BY <1>5, <1>8, SeqDef
  <2> QED BY <1>5, <1>6, <2>1, LenProperties
<1>10. TypeOK'
  <2>1. (\A s \in seen \cup {Snapshot} : SnapshotTypeOK(s))'
    BY <1>1, SeenType DEF ReadInv, TypeOK
  <2>2. Len(loaded') <= Len(page')
    BY <1>1, <1>5, <1>9
  <2>3. step' \in {"visitors", "populations", "answer"}
    BY <1>1
  <2>4. /\ UNCHANGED <<refreshVars, query, total, page, grouped, answer, overlap>>
        /\ loaded' \in Seq(RecordSets)
    BY <1>1, <1>9
  <2> QED BY <2>1, <2>2, <2>3, <2>4 DEF ReadInv, TypeOK, refreshVars
<1>11. SeenInv'
  BY <1>1, SameSeen DEF ReadInv, Reading
<1>12. StepInv'
  BY <1>1, <1>3 DEF ReadInv, StepInv, NeedsPopulations
<1>13. TotalInv'
  BY <1>1 DEF ReadInv, TotalInv
<1>14. PageInv'
  BY <1>1, SamePage DEF ReadInv, PageInv
<1>15. LoadedInv'
  <2>1. \A k \in DOMAIN loaded' : \E x \in seen : loaded'[k] = RecordsOf(x, page[k].museum)
    BY <1>6 DEF ReadInv, LoadedInv
  <2>2. step' \in {"populations", "answer"} => Len(loaded') = Len(page)
    <3>1. ASSUME Len(loaded') < Len(page)
          PROVE  step' = "visitors"
      BY <1>1, <3>1
    <3>2. Len(loaded') < Len(page) \/ Len(loaded') = Len(page)
      <4>1. \A a, b \in Nat : a <= b => a < b \/ a = b
        OBVIOUS
      <4>2. Len(page) \in Nat /\ upTo \in Nat /\ upTo <= Len(page)
        BY <1>4, <1>5
      <4>3. upTo < Len(page) \/ upTo = Len(page)
        BY <4>1, <4>2
      <4> QED BY <1>9, <4>3
    <3> QED BY <3>1, <3>2
  <2> QED BY <1>1, <1>3, <2>1, <2>2 DEF LoadedInv
<1>16. GroupedInv'
  BY <1>1, <1>3 DEF GroupedInv, NeedsPopulations
<1>17. OneRefreshPerAnswer' /\ QuietReadExact'
  BY <1>1, Unfinished
<1> QED BY <1>10, <1>11, <1>12, <1>13, <1>14, <1>15, <1>16, <1>17 DEF ReadInv

LEMMA SelectCitiesKeeps == ReadInv /\ SelectCities => ReadInv'
<1> SUFFICES ASSUME ReadInv, SelectCities PROVE ReadInv'
  OBVIOUS
<1>1. /\ step = "cities" /\ step' = "populations"
      /\ UNCHANGED <<refreshVars, query, total, loaded, grouped, answer, seen, overlap>>
  BY DEF SelectCities
<1>2. PICK db \in seen : db = Snapshot /\ Stored(db)
  BY <1>1, Sees DEF Reading
<1>3. PICK order \in SetToSeqs(CitiesIn(db)) : page' = CityRows(db, order)
  BY <1>2 DEF SelectCities
<1>4. query.endpoint = "cities" /\ grouped = NoPopulations
  BY <1>1 DEF ReadInv, StepInv, GroupedInv
<1>5. loaded = <<>>
  BY <1>4 DEF ReadInv, LoadedInv
<1>6. Len(page') \in Nat /\ \A k \in DOMAIN page' : page'[k] \in CityIds
  <2>1. order \in Seq(CitiesIn(db))
    BY CitiesFinite, Listing
  <2> QED BY <1>2, <1>3, <2>1, CityRowsType
<1>7. TypeOK'
  <2>1. (\A s \in seen \cup {Snapshot} : SnapshotTypeOK(s))'
    BY <1>1, SeenType DEF ReadInv, TypeOK
  <2>2. Len(loaded') <= Len(page')
    BY <1>1, <1>5, <1>6
  <2> QED BY <1>1, <1>4, <1>6, <2>1, <2>2 DEF ReadInv, TypeOK, refreshVars
<1>8. SeenInv'
  BY <1>1, SameSeen DEF ReadInv, Reading
<1>9. StepInv' /\ TotalInv'
  BY <1>1, <1>4 DEF ReadInv, StepInv, TotalInv, NeedsPopulations
<1>10. PageInv'
  <2>1. IsPage(db)'
    BY <1>1, <1>3, <1>4 DEF IsPage
  <2> QED BY <1>1, <2>1 DEF PageInv
<1>11. LoadedInv' /\ GroupedInv'
  BY <1>1, <1>4, <1>5 DEF LoadedInv, GroupedInv
<1>12. OneRefreshPerAnswer' /\ QuietReadExact'
  BY <1>1, Unfinished
<1> QED BY <1>7, <1>8, <1>9, <1>10, <1>11, <1>12 DEF ReadInv

LEMMA SelectPopulationsKeeps == ReadInv /\ SelectPopulations => ReadInv'
<1> SUFFICES ASSUME ReadInv, SelectPopulations PROVE ReadInv'
  OBVIOUS
<1>1. /\ step = "populations" /\ step' = "answer"
      /\ grouped' = PopulationsOf(Snapshot)
      /\ UNCHANGED <<refreshVars, query, total, page, loaded, answer, seen, overlap>>
  BY DEF SelectPopulations
<1>2. PICK db \in seen : db = Snapshot /\ Stored(db)
  BY <1>1, Sees DEF Reading
<1>3. TypeOK'
  <2>1. (\A s \in seen \cup {Snapshot} : SnapshotTypeOK(s))'
    BY <1>1, SeenType DEF ReadInv, TypeOK
  <2>2. grouped' \in [CityIds -> RecordSets]
    BY <1>1, <1>2, RecordsType
  <2> QED BY <1>1, <2>1, <2>2 DEF ReadInv, TypeOK, refreshVars
<1>4. SeenInv'
  BY <1>1, SameSeen DEF ReadInv, Reading
<1>5. StepInv' /\ TotalInv'
  BY <1>1 DEF ReadInv, StepInv, TotalInv
<1>6. PageInv'
  BY <1>1, SamePage DEF ReadInv, PageInv
<1>7. LoadedInv'
  BY <1>1 DEF ReadInv, LoadedInv
<1>8. GroupedInv'
  BY <1>1, <1>2 DEF ReadInv, StepInv, GroupedInv, NeedsPopulations
<1>9. OneRefreshPerAnswer' /\ QuietReadExact'
  BY <1>1, Unfinished
<1> QED BY <1>3, <1>4, <1>5, <1>6, <1>7, <1>8, <1>9 DEF ReadInv

(* The end of a read forgets what it had selected.                         *)
LEMMA ReturnKeeps ==
    ASSUME ReadInv, NEW response, Return(response), response.status \in {0, 200, 422, 500},
           OneRefreshPerAnswer', QuietReadExact'
    PROVE  ReadInv'
<1>1. /\ answer' = response /\ step' = "idle" /\ total' = 0 /\ page' = <<>>
      /\ loaded' = <<>> /\ grouped' = NoPopulations
      /\ UNCHANGED <<refreshVars, query, seen, overlap>>
  BY DEF Return
<1>2. TypeOK'
  <2>1. (\A db \in seen \cup {Snapshot} : SnapshotTypeOK(db))'
    BY <1>1, SeenType DEF ReadInv, TypeOK
  <2>2. loaded' \in Seq(RecordSets) /\ Len(loaded') <= Len(page')
    BY <1>1
  <2>3. grouped' \in [CityIds -> RecordSets]
    BY <1>1, NoRecordsType DEF NoPopulations
  <2>4. (\A k \in DOMAIN page :
           IF query.endpoint = "cities" THEN page[k] \in CityIds
           ELSE /\ page[k].museum \in MuseumIds
                /\ page[k].city \in CityIds \cup {Null}
                /\ page[k].item \in Items \cup {Null})'
    BY <1>1
  <2> QED BY <1>1, <2>1, <2>2, <2>3, <2>4 DEF ReadInv, TypeOK, refreshVars
<1>3. SeenInv'
  BY <1>1 DEF ReadInv, SeenInv, Committed, Snapshot, Reading, refreshVars
<1>4. StepInv' /\ TotalInv'
  BY <1>1 DEF ReadInv, StepInv, TotalInv
<1>5. PageInv' /\ LoadedInv' /\ GroupedInv'
  BY <1>1 DEF PageInv, LoadedInv, GroupedInv
<1> QED BY <1>2, <1>3, <1>4, <1>5 DEF ReadInv

LEMMA AnswerKeeps == ReadInv /\ Answer => ReadInv'
<1> SUFFICES ASSUME ReadInv, Answer PROVE ReadInv'
  OBVIOUS
<1>1. step = "answer" /\ Return(Response)
  BY DEF Answer
<1>2. PICK response : response = Response
  OBVIOUS
<1>3. /\ response.status \in {200, 422}
      /\ response.status = 200 => \E db \in seen : OneRefresh(response.items, db)
      /\ \A db \in seen : seen = {db} =>
             /\ response.status = 200 => ExactItems(response.total, response.items, db)
             /\ response.status = 422 => Cardinality(FullRows(db)) < MinRows
  BY <1>1, <1>2, ResponseCorrect
<1>4. /\ answer' = response /\ step' = "idle"
      /\ UNCHANGED <<query, seen, overlap>>
  BY <1>1, <1>2 DEF Return
<1>5. \A s : Returned(s)' <=> response.status = s
  BY <1>4 DEF Returned, Reading
<1>6. OneRefreshPerAnswer'
  <2> SUFFICES ASSUME response.status = 200
               PROVE  /\ IsInjective(response.items)
                      /\ \E listed \in seen :
                             \A row \in Range(response.items) : IsJoined(row, listed)'
                      /\ overlap \/ \E db \in seen :
                             Range(response.items) \subseteq FullRows(db) \cup BareRows(db)
    BY <1>4, <1>5, SameQuery DEF OneRefreshPerAnswer
  <2> QED BY <1>3, <1>4, SameJoined DEF OneRefresh
<1>7. QuietReadExact'
  <2> SUFFICES ASSUME NEW db \in seen, seen = {db}
               PROVE  /\ response.status = 200 =>
                          /\ response.total = Cardinality(FullRows(db))
                          /\ \E order \in SetToSeqs(FullRows(db)) :
                                 /\ \A i, j \in DOMAIN order :
                                        i < j => Before(order[i], order[j])'
                                 /\ response.items = IF query.endpoint = "regression"
                                                     THEN order ELSE Requested(order)'
                      /\ response.status = 422 => Cardinality(FullRows(db)) < MinRows
    BY <1>4, <1>5, SameQuery DEF QuietReadExact
  <2> QED BY <1>3, <1>4, SameQuery DEF ExactItems
<1> QED BY <1>1, <1>2, <1>3, <1>6, <1>7, ReturnKeeps

LEMMA StatementFailsKeeps == ReadInv /\ StatementFails => ReadInv'
<1> SUFFICES ASSUME ReadInv, StatementFails PROVE ReadInv'
  OBVIOUS
<1> DEFINE response == Failure(500)
<1>1. Return(response)
  BY DEF StatementFails
<1>2. response.status = 500
  BY DEF Failure
<1> HIDE DEF response
<1>3. answer' = response
  BY <1>1 DEF Return
<1>4. OneRefreshPerAnswer' /\ QuietReadExact'
  BY <1>2, <1>3 DEF OneRefreshPerAnswer, QuietReadExact, Returned
<1> QED BY <1>1, <1>2, <1>4, ReturnKeeps

-----------------------------------------------------------------------------
LEMMA InitReads == ReadInit => ReadInv
<1> SUFFICES ASSUME ReadInit PROVE ReadInv
  OBVIOUS
<1>1. /\ step = "idle" /\ total = 0 /\ page = <<>> /\ loaded = <<>>
      /\ query = [endpoint |-> "regression", skip |-> 0, limit |-> 1]
      /\ grouped = NoPopulations /\ answer = NoAnswer /\ seen = {} /\ overlap = FALSE
      /\ applied = {} /\ author = [k \in Keys |-> IF k \in Present(contents) THEN Seed ELSE Null]
  BY DEF ReadInit, Init
<1>2. Stored(Snapshot) /\ Committed(Snapshot)
  <2>1. Sane(contents)
    <3>1. SeedDatasets \subseteq Datasets /\ Seed \in Writers
      BY DataAssumption DEF Writers
    <3> QED BY <3>1, EmptySane, ContentsSane DEF ReadInit, Init
  <2>2. Seed \in Writers /\ Seed # Null
    BY DistinctAssumption DEF Writers
  <2>3. PICK db : db = Snapshot
    OBVIOUS
  <2>4. db.by = author /\ db.contents = contents
    BY <2>3 DEF Snapshot
  <2>5. db.by \in [Keys -> {Seed, Null}]
    BY <1>1, <2>4
  <2>6. \A k \in Keys : db.by[k] = Null <=> k \notin Present(db.contents)
    BY <1>1, <2>2, <2>4
  <2>7. Stored(db)
    BY <2>1, <2>2, <2>4, <2>5, <2>6, StoredSane
  <2>8. Committed(db)
    BY <2>5 DEF Committed, Range
  <2> QED BY <2>3, <2>7, <2>8
<1>3. TypeOK
  <2>1. grouped \in [CityIds -> RecordSets]
    BY <1>1, NoRecordsType DEF NoPopulations
  <2>2. answer.status = 0
    BY <1>1 DEF NoAnswer, Failure
  <2>3. loaded \in Seq(RecordSets) /\ Len(loaded) <= Len(page)
    BY <1>1
  <2>4. query.skip \in Nat /\ query.limit \in Nat \ {0}
    BY <1>1
  <2>5. \A db \in seen \cup {Snapshot} : SnapshotTypeOK(db)
    BY <1>1, <1>2 DEF Stored
  <2>6. DOMAIN page = {}
    BY <1>1
  <2> QED BY <1>1, <2>1, <2>2, <2>3, <2>4, <2>5, <2>6 DEF TypeOK
<1>4. SeenInv
  BY <1>1, <1>2 DEF SeenInv, Reading, Stored
<1>5. StepInv /\ TotalInv /\ PageInv /\ LoadedInv /\ GroupedInv
  BY <1>1 DEF StepInv, TotalInv, PageInv, LoadedInv, GroupedInv, Endpoints
<1>6. OneRefreshPerAnswer /\ QuietReadExact
  <2>1. answer.status = 0
    BY <1>1 DEF NoAnswer, Failure
  <2> QED BY <1>1, <2>1 DEF OneRefreshPerAnswer, QuietReadExact, Returned
<1> QED BY <1>3, <1>4, <1>5, <1>6 DEF ReadInv

LEMMA ReadStep == ReadInv /\ [ReadNext]_allVars => ReadInv'
<1> SUFFICES ASSUME ReadInv, [ReadNext]_allVars PROVE ReadInv'
  OBVIOUS
<1>1. CASE Refresh
  BY <1>1, RefreshKeeps
<1>3. CASE \E e \in Endpoints : Ask(e)
  BY <1>3, AskKeeps
<1>4. CASE SelectCount
  BY <1>4, SelectCountKeeps
<1>5. CASE SelectMuseums
  BY <1>5, SelectMuseumsKeeps
<1>6. CASE SelectVisitors
  BY <1>6, SelectVisitorsKeeps
<1>7. CASE SelectCities
  BY <1>7, SelectCitiesKeeps
<1>8. CASE SelectPopulations
  BY <1>8, SelectPopulationsKeeps
<1>9. CASE Answer
  BY <1>9, AnswerKeeps
<1>10. CASE StatementFails
  BY <1>10, StatementFailsKeeps
<1>11. CASE UNCHANGED allVars
  BY <1>11, NothingKeeps DEF allVars
<1> QED BY <1>1, <1>3, <1>4, <1>5, <1>6, <1>7, <1>8, <1>9, <1>10, <1>11 DEF ReadNext

(* Every part of an unfinished answer is from a state of the database that *)
(* the read has seen, also when refreshes overlap and rows change in place *)
(* between its SELECTs: for every data, page and batch size.               *)
THEOREM ReadsInvariant == ReadSpec => []ReadInv
BY InitReads, ReadStep, PTL DEF ReadSpec

(* Unless refreshes that overlap change rows in place, no answer mixes two *)
(* states of the database: all rows are from one, each once, and at most a *)
(* row's records are missing.  In any case the rows are listed from one    *)
(* state, each once, and none shows the records of another museum or city. *)
THEOREM OneRefreshCorrect == ReadSpec => []OneRefreshPerAnswer
BY ReadsInvariant, PTL DEF ReadInv

(* While no refresh commits, the total, the order and the page of every    *)
(* endpoint are exact, and a regression is refused only for want of rows.  *)
THEOREM QuietReadsCorrect == ReadSpec => []QuietReadExact
BY ReadsInvariant, PTL DEF ReadInv

-----------------------------------------------------------------------------
(* The notebook is a client of ReadEndpoints, the invariant of             *)
(* AnalysisInvariant is inductive, and what follows from it, however large *)
(* the database: what holds beside any refreshes, what holds until rows    *)
(* have survived one (overlaid), and what holds while nothing commits.     *)
LEMMA TheCalls ==
    /\ DOMAIN Calls = 1 .. 7
    /\ Len(Calls) = 7
    /\ Calls[1] = Get("museums", MaxLimit)
    /\ Calls[3] = Get("harmonized", MaxLimit)
    /\ Calls[4] = Get("museums", MaxLimit)
    /\ Calls[5] = Get("cities", DefaultLimit)
    /\ Calls[6] = Get("harmonized", DefaultLimit)
    /\ \A k \in 1 .. 7 : Calls[k].endpoint \in Endpoints
BY DEF Calls, Get, Endpoints

LEMMA LimitsType == MaxLimit \in Nat \ {0} /\ DefaultLimit \in Nat \ {0}
BY AnalysisAssumption, ReadAssumption

(* Every step of the notebook is one of the API, or none.                  *)
LEMMA StepsRead == [AnalysisNext]_analysisVars => [ReadNext]_allVars
<1> SUFFICES ASSUME [AnalysisNext]_analysisVars
             PROVE  ReadNext \/ UNCHANGED allVars
  OBVIOUS
<1>1. CASE PostRefresh \/ Over \/ UNCHANGED analysisVars
  BY <1>1 DEF PostRefresh, Over, analysisVars
<1>2. CASE SomeRefresh
  BY <1>2 DEF SomeRefresh, ReadNext
<1>3. CASE Request
  <2>1. Ask(Calls[call].endpoint) /\ Calls[call].endpoint \in Endpoints
    BY <1>3, TheCalls DEF Request
  <2> QED BY <2>1 DEF ReadNext
<1>4. CASE Serve
  BY <1>4 DEF Serve, ReadNext
<1>5. CASE Receive \/ Raise
  BY <1>5 DEF Receive, Raise, ReadNext
<1> QED BY <1>1, <1>2, <1>3, <1>4, <1>5 DEF AnalysisNext

(* The notebook only does what any client of the API may do: everything    *)
(* that is proved of the reads holds while it runs.                        *)
THEOREM AnalysisReads == AnalysisSpec => ReadSpec
<1>1. AnalysisInit => ReadInit
  BY DEF AnalysisInit
<1> QED BY <1>1, StepsRead, PTL DEF AnalysisSpec, ReadSpec

-----------------------------------------------------------------------------
(* The type invariant and CallInv.                                         *)
LEMMA AnalysisTypeInit == AnalysisInit => AnalysisTypeOK
<1>1. AnalysisInit => overlaid \in BOOLEAN
  BY DEF AnalysisInit
<1>2. AnalysisInit => call = 0
  BY DEF AnalysisInit
<1> QED BY <1>1, <1>2, TheCalls DEF AnalysisTypeOK

LEMMA ReceiveType ==
    ASSUME AnalysisTypeOK, CallInv, Receive
    PROVE  AnalysisTypeOK'
<1>1. call \in 1 .. 7
  BY TheCalls DEF Receive, Answer, CallInv, Reading
<1>2. PICK items : /\ items = answer'.items
                   /\ call' = NextCall(items)
                   /\ museums' = (IF call \in {1, 4} THEN items ELSE museums)
                   /\ populations' = (IF call = 5 THEN items ELSE populations)
                   /\ harmonized' = (IF call = 6 THEN items ELSE harmonized)
  BY DEF Receive
<1>3. overlaid' \in BOOLEAN
  BY DEF Receive, AnalysisTypeOK
<1>4. call' \in 0 .. 8
  BY <1>1, <1>2 DEF NextCall
<1>5. call' = 3 \/ call' > 4 => museums' # <<>>
  <2>1. CASE call = 2
    BY <2>1, <1>2 DEF NextCall
  <2>2. CASE call = 4
    BY <2>2, <1>2 DEF NextCall
  <2>3. CASE call \in {1, 3}
    BY <2>3, <1>2 DEF NextCall
  <2>4. CASE call > 4
    BY <2>4, <1>1, <1>2 DEF AnalysisTypeOK
  <2> QED BY <1>1, <2>1, <2>2, <2>3, <2>4
<1>6. call' > 5 => HasPopulations(populations')
  <2>1. CASE call = 5
    BY <2>1, <1>2 DEF NextCall
  <2>2. CASE call < 5
    BY <2>2, <1>1, <1>2 DEF NextCall
  <2>3. CASE call > 5
    BY <2>3, <1>1, <1>2 DEF AnalysisTypeOK
  <2> QED BY <1>1, <2>1, <2>2, <2>3
<1>7. call' > 6 => harmonized' # <<>>
  <2>1. CASE call = 6
    BY <2>1, <1>2 DEF NextCall
  <2>2. CASE call < 6
    BY <2>2, <1>1, <1>2 DEF NextCall
  <2>3. CASE call > 6
    BY <2>3, <1>1, <1>2 DEF AnalysisTypeOK
  <2> QED BY <1>1, <2>1, <2>2, <2>3
<1> QED BY <1>3, <1>4, <1>5, <1>6, <1>7, TheCalls DEF AnalysisTypeOK, HasPopulations

LEMMA AnalysisTypeKeeps ==
    ASSUME AnalysisTypeOK, CallInv, [AnalysisNext]_analysisVars
    PROVE  AnalysisTypeOK'
<1>1. CASE PostRefresh
  BY <1>1, TheCalls DEF PostRefresh, AnalysisTypeOK, HasPopulations, frames
<1>2. CASE SomeRefresh
  <2>1. overlaid' \in BOOLEAN
    BY <1>2 DEF SomeRefresh, Begun
  <2> QED BY <1>2, <2>1 DEF SomeRefresh, AnalysisTypeOK, HasPopulations, frames
<1>3. CASE Request
  <2>1. overlaid' \in BOOLEAN
    BY <1>3 DEF Request
  <2> QED BY <1>3, <2>1 DEF Request, AnalysisTypeOK, HasPopulations, frames
<1>4. CASE Serve \/ Over \/ UNCHANGED analysisVars
  BY <1>4 DEF Serve, Over, analysisVars, AnalysisTypeOK, HasPopulations, frames
<1>5. CASE Raise
  <2>1. call' = IF call = 2 THEN 1 ELSE call
    BY <1>5 DEF Raise
  <2> QED BY <1>5, <2>1, TheCalls DEF Raise, AnalysisTypeOK, HasPopulations, frames
<1>6. CASE Receive
  BY <1>6, ReceiveType
<1> QED BY <1>1, <1>2, <1>3, <1>4, <1>5, <1>6 DEF AnalysisNext

LEMMA CallKeeps ==
    ASSUME AnalysisTypeOK, CallInv, [AnalysisNext]_analysisVars
    PROVE  CallInv'
<1>1. CASE PostRefresh
  BY <1>1, TheCalls DEF PostRefresh, CallInv, allVars, readVars, Reading
<1>2. CASE SomeRefresh
  BY <1>2 DEF SomeRefresh, Refresh, CallInv, Reading
<1>3. CASE Request
  <2>1. call' = call /\ call \in DOMAIN Calls
    BY <1>3 DEF Request
  <2>2. PICK p : query' = [endpoint |-> Calls[call].endpoint, skip |-> p.skip,
                           limit |-> p.limit]
    BY <1>3 DEF Request, Ask
  <2>3. p.skip = 0 /\ p.limit = Calls[call].limit
    BY <1>3, <2>2 DEF Request
  <2> QED BY <2>1, <2>2, <2>3 DEF CallInv
<1>4. CASE Serve
  <2>1. Reading /\ UNCHANGED <<query, call>>
    BY <1>4 DEF Serve, SelectCount, SelectMuseums, SelectVisitors, SelectCities,
                SelectPopulations, Reading
  <2> QED BY <2>1 DEF CallInv
<1>5. CASE Receive \/ Raise
  BY <1>5 DEF Receive, Raise, Answer, StatementFails, Return, CallInv, Reading
<1>6. CASE Over \/ UNCHANGED analysisVars
  BY <1>6 DEF Over, analysisVars, allVars, readVars, CallInv, Reading
<1> QED BY <1>1, <1>2, <1>3, <1>4, <1>5, <1>6 DEF AnalysisNext

-----------------------------------------------------------------------------
(* OriginInv: where the frames come from.                                  *)
LEMMA OriginInit == AnalysisInit => OriginInv
<1> SUFFICES ASSUME AnalysisInit
             PROVE  OriginInv
  OBVIOUS
<1>1. call = 0 /\ past = {Snapshot} /\ step = "idle"
  BY DEF AnalysisInit, ReadInit
<1>2. Stored(Snapshot) /\ Committed(Snapshot)
  BY InitReads, SeenStored DEF AnalysisInit
<1>3. \A a, b \in past : a = b \/ Apart(a, b)
  BY <1>1
<1> QED BY <1>1, <1>2, <1>3 DEF OriginInv, Reading, Stored

(* The database and the frames stay, and the call that comes next is not a *)
(* later one.                                                              *)
LEMMA OriginFrame ==
    ASSUME OriginInv, UNCHANGED <<refreshVars, museums, preview, past, overlaid>>,
           Reading' => seen' \subseteq past /\ (overlap' => overlaid),
           call' > 1 => call > 1, call' > 3 => call > 3
    PROVE  OriginInv'
<1>1. Snapshot' = Snapshot /\ applied' = applied
  BY DEF Snapshot, refreshVars
<1>2. \A db : (MuseumsFrom(db)' <=> MuseumsFrom(db)) /\ (PreviewFrom(db)' <=> PreviewFrom(db))
  BY DEF MuseumsFrom, PreviewFrom
<1>3. \A db \in past : SnapshotTypeOK(db) /\ Consistent(db) /\ Committed(db)'
  BY <1>1 DEF OriginInv, Committed
<1>4. ~overlaid =>
          /\ \A a, b \in past : a = b \/ Apart(a, b)
          /\ call' > 1 => \E m \in past : MuseumsFrom(m)'
          /\ call' > 3 => \E p \in past : PreviewFrom(p)'
  BY <1>2 DEF OriginInv
<1> QED BY <1>1, <1>3, <1>4 DEF OriginInv

(* A refresh that has missed nothing leaves no row of an earlier state.    *)
LEMMA OriginRefresh ==
    ASSUME OriginInv, ReadInv, call \in 0 .. 8, SomeRefresh
    PROVE  OriginInv'
<1>m. PICK M \in SUBSET applied : \E C \in SUBSET M :
          /\ \E r \in Requests, d \in Datasets, at \in 0 .. MaxTime :
                 Merge(r, d, at, Missed(M, C))
          /\ overlap' = (overlap \/ Missed(M, C) # {})
  BY DEF SomeRefresh, Refresh
<1>1. PICK C \in SUBSET M :
          /\ \E r \in Requests, d \in Datasets, at \in 0 .. MaxTime :
                 Merge(r, d, at, Missed(M, C))
          /\ overlap' = (overlap \/ Missed(M, C) # {})
  BY <1>m
<1>2. PICK r \in Requests, d \in Datasets, at \in 0 .. MaxTime : Merge(r, d, at, Missed(M, C))
  BY <1>1
<1>3. PICK new : new = Snapshot'
  OBVIOUS
<1>4. /\ Stored(new)
      /\ Committed(Snapshot)'
      /\ applied \subseteq applied'
      /\ Missed(M, C) = {} =>
             \A db : Stored(db) /\ Committed(db) => Apart(db, new) /\ Apart(new, db)
  BY <1>2, <1>3, SeenStored, MergeStored
<1>5. /\ past' = IF Begun THEN past \cup {new} ELSE {new}
      /\ overlaid' = (Begun /\ (overlaid \/ overlap'))
      /\ seen' = IF Reading THEN seen \cup {new} ELSE seen
      /\ UNCHANGED <<step, call, museums, preview>>
  BY <1>3 DEF SomeRefresh, Refresh, frames
<1>6. \A db : (MuseumsFrom(db)' <=> MuseumsFrom(db)) /\ (PreviewFrom(db)' <=> PreviewFrom(db))
  BY <1>5 DEF MuseumsFrom, PreviewFrom
<1>7. \A db \in past : Stored(db) /\ Committed(db) /\ Committed(db)'
  BY <1>4 DEF OriginInv, Stored, Committed
<1>8. Stored(new) /\ Committed(new)'
  BY <1>3, <1>4 DEF Committed
<1>9. \A db \in past' : SnapshotTypeOK(db) /\ Consistent(db) /\ Committed(db)'
  BY <1>5, <1>7, <1>8 DEF Stored
<1>10. new \in past' /\ (Reading' <=> Reading)
  BY <1>5 DEF Reading
<1>11. CASE ~Begun
  <2>1. past' = {new} /\ ~Reading /\ ~(call' > 1) /\ call' = call
    BY <1>5, <1>11 DEF Begun
  <2>2. \A a, b \in past' : a = b \/ Apart(a, b)
    BY <2>1
  <2>3. ~(call' > 3)
    BY <2>1
  <2> QED BY <1>3, <1>9, <1>10, <2>1, <2>2, <2>3 DEF OriginInv
<1>12. CASE Begun
  <2>1. past' = past \cup {new} /\ overlaid' = (overlaid \/ overlap')
    BY <1>5, <1>12
  <2>2. Reading' => seen' \subseteq past'
    BY <1>5, <1>10, <2>1 DEF OriginInv
  <2>3. ASSUME ~overlaid'
        PROVE  /\ \A a, b \in past' : a = b \/ Apart(a, b)
               /\ call' > 1 => \E m \in past' : MuseumsFrom(m)'
               /\ call' > 3 => \E p \in past' : PreviewFrom(p)'
    <3>1. ~overlaid /\ Missed(M, C) = {}
      BY <1>1, <2>1, <2>3
    <3>2. /\ \A a, b \in past : a = b \/ Apart(a, b)
          /\ call > 1 => \E m \in past : MuseumsFrom(m)
          /\ call > 3 => \E p \in past : PreviewFrom(p)
      BY <3>1 DEF OriginInv
    <3>3. \A a \in past : Apart(a, new) /\ Apart(new, a)
      BY <1>4, <1>7, <3>1
    <3>4. \A a, b \in past' : a = b \/ Apart(a, b)
      BY <2>1, <3>2, <3>3
    <3> QED BY <1>5, <1>6, <2>1, <3>2, <3>4
  <2>4. Reading' /\ overlap' => overlaid'
    BY <2>1
  <2> QED BY <1>3, <1>9, <1>10, <2>2, <2>3, <2>4 DEF OriginInv
<1> QED BY <1>11, <1>12

(* The first call starts over, and what it may read is the only past.      *)
LEMMA OriginRequest ==
    ASSUME OriginInv, ReadInv, AnalysisTypeOK, Request
    PROVE  OriginInv'
<1>1. /\ call \in 1 .. 7 /\ call' = call
      /\ seen' = {Snapshot} /\ overlap' = FALSE
      /\ past' = IF call = 1 THEN {Snapshot} ELSE past
      /\ overlaid' = (overlaid /\ call > 1)
      /\ UNCHANGED <<refreshVars, museums, preview>>
  BY TheCalls DEF Request, Ask, frames
<1>2. CASE call = 1
  <2>1. Snapshot' = Snapshot /\ applied' = applied
    BY <1>1 DEF Snapshot, refreshVars
  <2>2. PICK db : db = Snapshot
    OBVIOUS
  <2>3. Stored(db) /\ Committed(db)
    BY <2>2, SeenStored
  <2>4. Committed(db)'
    BY <2>1, <2>3 DEF Committed
  <2>5. past' = {db} /\ Snapshot' = db /\ seen' = {db} /\ ~overlap' /\ call' = 1
    BY <1>1, <1>2, <2>1, <2>2
  <2>6. ~(call' > 1) /\ ~(call' > 3)
    BY <2>5
  <2>7. \A a, b \in past' : a = b \/ Apart(a, b)
    BY <2>5
  <2> QED BY <2>3, <2>4, <2>5, <2>6, <2>7 DEF OriginInv, Stored
<1>3. CASE call # 1
  <2>1. past' = past /\ overlaid' = overlaid /\ call > 1
    <3>1. call > 1
      BY <1>1, <1>3
    <3>2. overlaid \in BOOLEAN
      BY DEF AnalysisTypeOK
    <3>3. overlaid' = overlaid
      BY <1>1, <3>1, <3>2, Zenon
    <3> QED BY <1>1, <1>3, <3>1, <3>3
  <2>2. seen' \subseteq past
    BY <1>1 DEF OriginInv
  <2> QED BY <1>1, <2>1, <2>2, OriginFrame
<1> QED BY <1>2, <1>3

(* What a call got is, unless refreshes overlapped, from one snapshot that *)
(* it saw.                                                                 *)
LEMMA Received ==
    ASSUME ReadInv', CallInv, Receive
    PROVE  /\ UNCHANGED <<refreshVars, seen, query, overlap, past, overlaid>>
           /\ Reading /\ ~Reading'
           /\ call \in 1 .. 7 /\ query.endpoint = Calls[call].endpoint
           /\ ~overlap => \E db \in seen :
                  Range(answer'.items) \subseteq FullRows(db) \cup BareRows(db)
<1>1. /\ Answer
      /\ answer'.status = 200
      /\ UNCHANGED <<past, overlaid>>
  BY DEF Receive
<1>2. UNCHANGED <<refreshVars, seen, query, overlap>> /\ step' = "idle" /\ Reading
  BY <1>1 DEF Answer, Return, Reading
<1>3. call \in 1 .. 7 /\ query.endpoint = Calls[call].endpoint
  BY <1>2, TheCalls DEF CallInv
<1>4. OneRefreshPerAnswer'
  BY DEF ReadInv
<1>5. Returned(200)'
  BY <1>1, <1>2 DEF Returned, Reading
<1>6. ASSUME ~overlap
      PROVE  \E db \in seen : Range(answer'.items) \subseteq FullRows(db) \cup BareRows(db)
  <2>1. PICK db \in seen' : Range(answer'.items) \subseteq (FullRows(db) \cup BareRows(db))'
    BY <1>2, <1>4, <1>5, <1>6 DEF OneRefreshPerAnswer
  <2>2. db \in seen
    BY <1>2, <2>1
  <2>3. FullRows(db)' = FullRows(db) /\ BareRows(db)' = BareRows(db)
    BY <1>2, SameQuery
  <2> QED BY <2>1, <2>2, <2>3
<1> QED BY <1>1, <1>2, <1>3, <1>6 DEF Reading

LEMMA OriginReceive ==
    ASSUME ReadInv', OriginInv, CallInv, Receive
    PROVE  OriginInv'
<1>1. PICK items : /\ items = answer'.items
                   /\ call' = NextCall(items)
                   /\ museums' = (IF call \in {1, 4} THEN items ELSE museums)
                   /\ preview' = (IF call = 3 THEN items ELSE preview)
  BY DEF Receive
<1>2. /\ UNCHANGED <<refreshVars, seen, query, overlap, past, overlaid>>
      /\ Reading /\ ~Reading'
      /\ call \in 1 .. 7 /\ query.endpoint = Calls[call].endpoint
  BY Received
<1>3. Snapshot' = Snapshot /\ applied' = applied
  BY <1>2 DEF Snapshot, refreshVars
<1>4. \A db \in past : SnapshotTypeOK(db) /\ Consistent(db) /\ Committed(db)'
  BY <1>3 DEF OriginInv, Committed
<1>5. ASSUME ~overlaid
      PROVE  /\ \A a, b \in past : a = b \/ Apart(a, b)
             /\ call' > 1 => \E m \in past : MuseumsFrom(m)'
             /\ call' > 3 => \E p \in past : PreviewFrom(p)'
  <2>1. /\ \A a, b \in past : a = b \/ Apart(a, b)
        /\ call > 1 => \E m \in past : MuseumsFrom(m)
        /\ call > 3 => \E p \in past : PreviewFrom(p)
        /\ seen \subseteq past /\ ~overlap
    BY <1>2, <1>5 DEF OriginInv
  <2>2. PICK db \in seen : Range(items) \subseteq FullRows(db) \cup BareRows(db)
    BY <1>1, <2>1, Received
  <2>3. db \in past
    BY <2>1
  <2>4. call' > 1 => \E m \in past : MuseumsFrom(m)'
    <3>1. CASE call \in {1, 4}
      <4>1. query.endpoint = "museums"
        BY <1>2, <3>1, TheCalls DEF Get
      <4>2. \A l \in Range(items) :
                l \in ListedMuseums(db) \cup {[k EXCEPT !.records = NoRecords] : k \in ListedMuseums(db)}
        BY <2>2, <4>1 DEF FullRows, BareRows, ListedMuseums
      <4>3. museums' = items
        BY <1>1, <3>1
      <4> QED BY <2>3, <4>2, <4>3 DEF MuseumsFrom
    <3>2. CASE call \notin {1, 4}
      <4>1. call > 1 /\ museums' = museums
        BY <1>1, <1>2, <3>2
      <4> QED BY <2>1, <4>1 DEF MuseumsFrom
    <3> QED BY <3>1, <3>2
  <2>5. call' > 3 => \E p \in past : PreviewFrom(p)'
    <3>1. CASE call = 3
      <4>1. query.endpoint = "harmonized"
        BY <1>2, <3>1, TheCalls DEF Get
      <4>2. Range(items) \subseteq HarmonizedRows(db)
        BY <2>2, <4>1 DEF FullRows, BareRows, HarmonizedRows, WithRow
      <4>3. preview' = items
        BY <1>1, <3>1
      <4> QED BY <2>3, <4>2, <4>3 DEF PreviewFrom
    <3>2. CASE call > 3
      <4>1. preview' = preview
        BY <1>1, <3>2
      <4> QED BY <2>1, <3>2, <4>1 DEF PreviewFrom
    <3>3. CASE call < 3
      <4>1. call = 1 \/ call = 2
        BY <1>2, <3>3
      <4>2. ~(call' > 3)
        BY <1>1, <4>1 DEF NextCall
      <4> QED BY <4>2
    <3> QED BY <1>2, <3>1, <3>2, <3>3
  <2> QED BY <2>1, <2>4, <2>5
<1> QED BY <1>2, <1>3, <1>4, <1>5 DEF OriginInv

LEMMA OriginKeeps ==
    ASSUME ReadInv, ReadInv', OriginInv, AnalysisTypeOK, CallInv, [AnalysisNext]_analysisVars
    PROVE  OriginInv'
<1>t. call \in 0 .. 8
  BY TheCalls DEF AnalysisTypeOK
<1>1. CASE SomeRefresh
  BY <1>t, <1>1, OriginRefresh
<1>2. CASE Receive
  BY <1>2, OriginReceive
<1>3. CASE Request
  BY <1>3, OriginRequest
<1>4. CASE PostRefresh
  <2>1. call' = 1 /\ UNCHANGED <<refreshVars, museums, preview, past, overlaid, step, seen, overlap>>
    BY <1>4 DEF PostRefresh, allVars, readVars, frames
  <2>2. ~(call' > 1) /\ ~(call' > 3)
    BY <2>1
  <2>3. Reading' => seen' \subseteq past /\ (overlap' => overlaid)
    BY <2>1 DEF OriginInv, Reading
  <2> QED BY <2>1, <2>2, <2>3, OriginFrame
<1>5. CASE Over \/ Serve \/ UNCHANGED analysisVars
  <2>1. UNCHANGED <<refreshVars, museums, preview, past, overlaid, call, seen, overlap>>
    BY <1>5 DEF Over, analysisVars, allVars, readVars, frames, Serve, SelectCount,
                SelectMuseums, SelectVisitors, SelectCities, SelectPopulations
  <2>2. Reading' => Reading
    BY <1>5 DEF Over, analysisVars, allVars, readVars, Reading, Serve, SelectCount,
                SelectMuseums, SelectVisitors, SelectCities, SelectPopulations
  <2>3. Reading' => seen' \subseteq past /\ (overlap' => overlaid)
    BY <2>1, <2>2 DEF OriginInv
  <2> QED BY <2>1, <2>3, OriginFrame
<1>6. CASE Raise
  <2>1. /\ UNCHANGED <<refreshVars, museums, preview, past, overlaid>>
        /\ call' = IF call = 2 THEN 1 ELSE call
        /\ step' = "idle"
    BY <1>6 DEF Raise, Answer, StatementFails, Return, frames
  <2>2. (call' > 1 => call > 1) /\ (call' > 3 => call > 3)
    BY <1>t, <2>1
  <2>3. ~Reading'
    BY <2>1 DEF Reading
  <2> QED BY <2>1, <2>2, <2>3, OriginFrame
<1> QED BY <1>1, <1>2, <1>3, <1>4, <1>5, <1>6 DEF AnalysisNext

-----------------------------------------------------------------------------
(* Different elements have different images: there are as many.            *)
LEMMA MappedCount ==
    ASSUME NEW S, IsFiniteSet(S), NEW f, \A a, b \in S : f[a] = f[b] => a = b,
           NEW T, T = {f[x] : x \in S}
    PROVE  IsFiniteSet(T) /\ Cardinality(T) = Cardinality(S)
<1> DEFINE g == [x \in S |-> f[x]]
<1>1. g \in Bijection(S, T)
  BY DEF Bijection, Injection, Surjection, IsInjective
<1>2. ExistsBijection(S, T)
  BY <1>1 DEF ExistsBijection
<1> QED BY <1>2, FS_Bijection

(* ExactInv: an endpoint has one row for each museum, or each city, that   *)
(* it has a row for.                                                       *)
LEMMA ListedMuseumsCount ==
    ASSUME NEW db, Stored(db)
    PROVE  /\ IsFiniteSet(MuseumsIn(db)) /\ IsFiniteSet(ListedMuseums(db))
           /\ Cardinality(ListedMuseums(db)) = Cardinality(MuseumsIn(db))
<1> DEFINE f == [n \in MuseumsIn(db) |-> FullMuseum(db, n)]
<1>1. IsFiniteSet(MuseumsIn(db))
  BY MuseumsFinite
<1>3. \A n \in MuseumsIn(db) : f[n].museum = <<db.by[n], n>>
  BY DEF FullMuseum
<1>4. \A a, b \in MuseumsIn(db) : f[a] = f[b] => a = b
  BY <1>3
<1>5. ListedMuseums(db) = {f[n] : n \in MuseumsIn(db)}
  BY DEF ListedMuseums
<1> HIDE DEF f
<1> QED BY <1>1, <1>4, <1>5, MappedCount

LEMMA HarmonizedRowsCount ==
    ASSUME NEW db, Stored(db)
    PROVE  /\ IsFiniteSet(WithRow(db)) /\ IsFiniteSet(HarmonizedRows(db))
           /\ Cardinality(HarmonizedRows(db)) = Cardinality(WithRow(db))
           /\ Cardinality(WithRow(db)) <= Cardinality(MuseumsIn(db))
<1> DEFINE f == [n \in WithRow(db) |-> FullRow(db, n)]
<1>1. IsFiniteSet(WithRow(db)) /\ Cardinality(WithRow(db)) <= Cardinality(MuseumsIn(db))
  <2>1. IsFiniteSet(MuseumsIn(db)) /\ WithRow(db) \subseteq MuseumsIn(db)
    BY MuseumsFinite DEF WithRow
  <2> QED BY <2>1, FS_Subset
<1>3. \A n \in WithRow(db) : f[n].museum = <<db.by[n], n>>
  BY DEF FullRow, HarmonizedRow, MuseumRow
<1>4. \A a, b \in WithRow(db) : f[a] = f[b] => a = b
  BY <1>3
<1>5. HarmonizedRows(db) = {f[n] : n \in WithRow(db)}
  BY DEF HarmonizedRows
<1> HIDE DEF f
<1> QED BY <1>1, <1>4, <1>5, MappedCount

(* Without skip, the requested rows are the first ones.                    *)
LEMMA RequestedFirst ==
    ASSUME NEW S, NEW s \in Seq(S), QueryOK, query.skip = 0
    PROVE  Requested(s) = FirstRows(s, query.limit)
<1>1. Requested(s) = Slice(s)
  BY RequestedIsSlice
<1>2. PICK t : t = Slice(s)
  OBVIOUS
<1>3. /\ t \in Seq(S)
      /\ Len(t) <= query.limit
      /\ \A k \in DOMAIN t : query.skip + k \in DOMAIN s /\ t[k] = s[query.skip + k]
      /\ \A i \in DOMAIN s :
             query.skip < i /\ i <= query.skip + query.limit => i - query.skip \in DOMAIN t
  BY <1>2, SliceOf DEF QueryOK
<1>4. /\ Len(t) \in Nat /\ DOMAIN t = 1 .. Len(t)
      /\ Len(s) \in Nat /\ DOMAIN s = 1 .. Len(s)
  BY <1>3, LenProperties
<1>5. query.limit \in Nat
  BY DEF QueryOK
<1>6. \A k \in DOMAIN t : k <= query.limit /\ k \in DOMAIN s /\ t[k] = s[k]
  BY <1>3, <1>4, <1>5
<1>7. \A i \in DOMAIN s : i <= query.limit => i \in DOMAIN t
  BY <1>3, <1>4, <1>5
<1>8. DOMAIN t = {k \in DOMAIN s : k <= query.limit}
  BY <1>6, <1>7
<1>9. t = [k \in DOMAIN t |-> t[k]]
  BY <1>3
<1> QED BY <1>1, <1>2, <1>6, <1>8, <1>9 DEF FirstRows

(* What a call got, when nothing committed since it was made.              *)
LEMMA ReceivedExact ==
    ASSUME ReadInv, ReadInv', CallInv, Receive, call # 7,
           NEW db, seen = {db}, IsFiniteSet(FullRows(db))
    PROVE  \E order \in SetToSeqs(FullRows(db)) :
               /\ \A i, j \in DOMAIN order : i < j => Before(order[i], order[j])
               /\ answer'.items = FirstRows(order, Calls[call].limit)
<1>1. /\ UNCHANGED <<seen, query>>
      /\ call \in 1 .. 7 /\ query.endpoint = Calls[call].endpoint
  BY Received
<1>2. /\ Answer
      /\ answer'.status = 200
  BY DEF Receive
<1>3. step' = "idle" /\ Reading
  BY <1>2 DEF Answer, Return, Reading
<1>4. query.skip = 0 /\ query.limit = Calls[call].limit
  BY <1>3 DEF CallInv
<1>5. query.endpoint # "regression"
  BY <1>1, TheCalls DEF Calls, Get
<1>6. Returned(200)'
  BY <1>2, <1>3 DEF Returned, Reading
<1>7. QuietReadExact'
  BY DEF ReadInv
<1>8. seen' = {db}
  BY <1>1
<1>9. PICK order \in SetToSeqs(FullRows(db)') :
          /\ \A i, j \in DOMAIN order : i < j => Before(order[i], order[j])'
          /\ answer'.items = IF query'.endpoint = "regression" THEN order
                             ELSE Requested(order)'
  BY <1>6, <1>7, <1>8 DEF QuietReadExact
<1>10. order \in SetToSeqs(FullRows(db))
  BY <1>1, SameQuery
<1>11. order \in Seq(FullRows(db))
  BY <1>10, Listing
<1>12. Requested(order)' = Requested(order)
  BY <1>1, SameQuery
<1>13. \A i, j \in DOMAIN order : i < j => Before(order[i], order[j])
  BY <1>1, <1>9, SameQuery
<1>14. QueryOK
  BY DEF ReadInv, TypeOK, QueryOK
<1>15. Requested(order) = FirstRows(order, query.limit)
  BY <1>4, <1>11, <1>14, RequestedFirst
<1> QED BY <1>1, <1>4, <1>5, <1>9, <1>10, <1>12, <1>13, <1>15

(* Nothing commits, nothing is received: what was exact still is.          *)
LEMMA ExactFrame ==
    ASSUME ExactInv, UNCHANGED frames, Quiet' => Quiet /\ Snapshot' = Snapshot,
           call \in Int, call' \in Int, call' <= call,
           Quiet' /\ Reading' => seen' = {Snapshot}
    PROVE  ExactInv'
<1> SUFFICES ASSUME Quiet'
             PROVE  /\ Reading'  => seen' = {Snapshot'}
                    /\ call' > 1 => ExactMuseums'
                    /\ call' > 3 => ExactPreview'
                    /\ call' > 6 => ExactHarmonized'
  BY DEF ExactInv
<1>1. Quiet /\ Snapshot' = Snapshot
  OBVIOUS
<1>2. PICK s : s = Snapshot
  OBVIOUS
<1>3. UNCHANGED <<museums, preview, harmonized>>
  BY DEF frames
<1>4. /\ ExactMuseums => ExactMuseums'
      /\ ExactPreview => ExactPreview'
      /\ ExactHarmonized => ExactHarmonized'
  BY <1>1, <1>2, <1>3 DEF ExactMuseums, ExactPreview, ExactHarmonized
<1>5. \A k \in 1 .. 6 : call' > k => call > k
  OBVIOUS
<1> QED BY <1>1, <1>4, <1>5 DEF ExactInv

LEMMA ReceivedMuseums ==
    ASSUME ReadInv, ReadInv', CallInv, Receive, call \in {1, 4}, seen = {Snapshot}
    PROVE  ExactMuseums'
<1>1. PICK s : s = Snapshot
  OBVIOUS
<1>2. Snapshot' = s
  BY <1>1, Received DEF Snapshot, refreshVars
<1>3. Stored(s)
  BY <1>1, SeenStored
<1>4. query.endpoint = "museums" /\ Calls[call].limit = MaxLimit /\ call # 7
  BY Received, TheCalls DEF Get
<1>5. FullRows(s) = ListedMuseums(s)
  BY <1>4 DEF FullRows, ListedMuseums
<1>6. IsFiniteSet(FullRows(s))
  BY <1>3, <1>5, ListedMuseumsCount
<1>7. PICK order \in SetToSeqs(FullRows(s)) :
          answer'.items = FirstRows(order, Calls[call].limit)
  BY <1>1, <1>4, <1>6, ReceivedExact
<1>8. museums' = answer'.items
  BY DEF Receive
<1> QED BY <1>2, <1>4, <1>5, <1>7, <1>8 DEF ExactMuseums

LEMMA ReceivedHarmonized ==
    ASSUME ReadInv, ReadInv', CallInv, Receive, call \in {3, 6}, seen = {Snapshot}
    PROVE  /\ call = 3 => ExactPreview'
           /\ call = 6 => ExactHarmonized'
<1>1. PICK s : s = Snapshot
  OBVIOUS
<1>2. Snapshot' = s
  BY <1>1, Received DEF Snapshot, refreshVars
<1>3. Stored(s)
  BY <1>1, SeenStored
<1>4. query.endpoint = "harmonized" /\ call # 7
  BY Received, TheCalls DEF Get
<1>5. FullRows(s) = HarmonizedRows(s)
  BY <1>4 DEF FullRows, HarmonizedRows, WithRow
<1>6. IsFiniteSet(FullRows(s))
  BY <1>3, <1>5, HarmonizedRowsCount
<1>7. PICK order \in SetToSeqs(FullRows(s)) :
          answer'.items = FirstRows(order, Calls[call].limit)
  BY <1>1, <1>4, <1>6, ReceivedExact
<1>8. /\ call = 3 => preview' = answer'.items
      /\ call = 6 => harmonized' = answer'.items
  BY DEF Receive
<1>9. /\ call = 3 => Calls[call].limit = MaxLimit
      /\ call = 6 => Calls[call].limit = DefaultLimit
  BY TheCalls DEF Get
<1> QED BY <1>2, <1>5, <1>7, <1>8, <1>9 DEF ExactPreview, ExactHarmonized

LEMMA ExactReceive ==
    ASSUME ReadInv, ReadInv', CallInv, ExactInv, Receive
    PROVE  ExactInv'
<1>1. UNCHANGED <<refreshVars, past>> /\ call \in 1 .. 7 /\ Reading /\ ~Reading'
  BY Received
<1>2. Snapshot' = Snapshot
  BY <1>1 DEF Snapshot, refreshVars
<1>3. SUFFICES ASSUME Quiet
               PROVE  /\ call' > 1 => ExactMuseums'
                      /\ call' > 3 => ExactPreview'
                      /\ call' > 6 => ExactHarmonized'
  BY <1>1, <1>2 DEF ExactInv, Quiet
<1>4. /\ seen = {Snapshot}
      /\ call > 1 => ExactMuseums
      /\ call > 3 => ExactPreview
      /\ call > 6 => ExactHarmonized
  BY <1>1, <1>3 DEF ExactInv
<1>5. PICK items : /\ call' = NextCall(items)
                   /\ museums' = (IF call \in {1, 4} THEN items ELSE museums)
                   /\ preview' = (IF call = 3 THEN items ELSE preview)
                   /\ harmonized' = (IF call = 6 THEN items ELSE harmonized)
  BY DEF Receive
<1>6. call' \in Int /\ call' <= call + 1
  BY <1>1, <1>5 DEF NextCall
<1>7. PICK s : s = Snapshot /\ s = Snapshot'
  BY <1>2
<1>8. call' > 1 => ExactMuseums'
  <2>1. CASE call \in {1, 4}
    BY <2>1, <1>4, ReceivedMuseums
  <2>2. CASE call \notin {1, 4}
    <3>1. museums' = museums /\ ExactMuseums
      BY <2>2, <1>1, <1>4, <1>5
    <3> QED BY <3>1, <1>7 DEF ExactMuseums
  <2> QED BY <2>1, <2>2
<1>9. call' > 3 => ExactPreview'
  <2>1. CASE call = 3
    BY <2>1, <1>4, ReceivedHarmonized
  <2>2. CASE call > 3
    <3>1. preview' = preview /\ ExactPreview
      BY <2>2, <1>4, <1>5
    <3> QED BY <3>1, <1>7 DEF ExactPreview
  <2> QED BY <1>1, <1>6, <2>1, <2>2
<1>10. call' > 6 => ExactHarmonized'
  <2>1. CASE call = 6
    BY <2>1, <1>4, ReceivedHarmonized
  <2>2. CASE call > 6
    <3>1. harmonized' = harmonized /\ ExactHarmonized
      BY <2>2, <1>4, <1>5
    <3> QED BY <3>1, <1>7 DEF ExactHarmonized
  <2> QED BY <1>1, <1>6, <2>1, <2>2
<1> QED BY <1>8, <1>9, <1>10

LEMMA ExactKeeps ==
    ASSUME ReadInv, ReadInv', AnalysisTypeOK, CallInv, OriginInv, ExactInv,
           [AnalysisNext]_analysisVars
    PROVE  ExactInv'
<1>1. call \in Int
  BY TheCalls DEF AnalysisTypeOK
<1>2. CASE SomeRefresh
  <2>1. /\ call' = call /\ (Reading' <=> Reading) /\ UNCHANGED frames
        /\ past' = IF Begun THEN past \cup {Snapshot'} ELSE {Snapshot'}
        /\ seen' = IF Reading THEN seen \cup {Snapshot'} ELSE seen
    BY <1>2 DEF SomeRefresh, Refresh, Reading
  <2>2. CASE ~Begun
    BY <1>1, <2>1, <2>2 DEF ExactInv, Begun
  <2>3. CASE Begun
    <3>1. Quiet' => Quiet /\ Snapshot' = Snapshot
      BY <2>1, <2>3 DEF Quiet, OriginInv
    <3>2. Quiet' /\ Reading' => seen' = {Snapshot}
      BY <2>1, <3>1 DEF ExactInv
    <3> QED BY <1>1, <2>1, <3>1, <3>2, ExactFrame
  <2> QED BY <2>2, <2>3
<1>3. CASE Receive
  BY <1>3, ExactReceive
<1>4. CASE Request
  <2>1. /\ UNCHANGED <<refreshVars, frames, call>>
        /\ seen' = {Snapshot}
        /\ past' = IF call = 1 THEN {Snapshot} ELSE past
        /\ call \in 1 .. 7
    BY <1>4, TheCalls DEF Request, Ask
  <2>2. Snapshot' = Snapshot
    BY <2>1 DEF Snapshot, refreshVars
  <2>3. CASE call # 1
    <3>1. Quiet' => Quiet /\ Snapshot' = Snapshot
      BY <2>1, <2>2, <2>3 DEF Quiet
    <3> QED BY <1>1, <2>1, <3>1, ExactFrame
  <2>4. CASE call = 1
    BY <2>1, <2>2, <2>4 DEF ExactInv
  <2> QED BY <2>3, <2>4
<1>5. CASE PostRefresh
  <2>1. call' = 1 /\ ~Reading /\ ~Reading'
    BY <1>5, TheCalls DEF PostRefresh, CallInv, Reading, allVars, readVars
  <2> QED BY <2>1 DEF ExactInv
<1>6. CASE Serve
  <2>1. /\ UNCHANGED <<refreshVars, frames, call, past, seen>>
        /\ Reading
    BY <1>6 DEF Serve, SelectCount, SelectMuseums, SelectVisitors, SelectCities,
                SelectPopulations, Reading
  <2>2. Snapshot' = Snapshot /\ (Quiet' => Quiet)
    BY <2>1 DEF Snapshot, refreshVars, Quiet
  <2>3. Quiet' => seen' = {Snapshot}
    BY <2>1, <2>2 DEF ExactInv
  <2> QED BY <1>1, <2>1, <2>2, <2>3, ExactFrame
<1>7. CASE Raise
  <2>1. /\ UNCHANGED <<refreshVars, frames, past>>
        /\ ~Reading'
    BY <1>7 DEF Raise, Answer, StatementFails, Return, Reading
  <2>2. Snapshot' = Snapshot /\ (Quiet' => Quiet)
    BY <2>1 DEF Snapshot, refreshVars, Quiet
  <2>3. call' \in Int /\ call' <= call
    BY <1>1, <1>7 DEF Raise
  <2> QED BY <1>1, <2>1, <2>2, <2>3, ExactFrame
<1>8. CASE Over \/ UNCHANGED analysisVars
  <2>1. UNCHANGED <<refreshVars, frames, call, past, seen, step>>
    BY <1>8 DEF Over, analysisVars, allVars, readVars
  <2>2. Snapshot' = Snapshot /\ (Quiet' => Quiet)
    BY <2>1 DEF Snapshot, refreshVars, Quiet
  <2>3. Quiet' /\ Reading' => seen' = {Snapshot}
    BY <2>1, <2>2 DEF ExactInv, Reading
  <2> QED BY <1>1, <2>1, <2>2, <2>3, ExactFrame
<1> QED BY <1>2, <1>3, <1>4, <1>5, <1>6, <1>7, <1>8 DEF AnalysisNext

-----------------------------------------------------------------------------
(* The cells of the notebook make their calls in order, whatever the API   *)
(* answers and whatever commits meanwhile: each answer is taken for the    *)
(* call it is of, and no cell runs before the frames it selects columns    *)
(* from have rows.                                                         *)
THEOREM AnalysisCorrect == AnalysisSpec => []AnalysisInv
<1>1. AnalysisInit => AnalysisInv
  <2>1. AnalysisInit => CallInv
    BY DEF AnalysisInit, ReadInit, CallInv, Reading
  <2> QED BY <2>1, AnalysisTypeInit DEF AnalysisInv
<1>2. AnalysisInv /\ [AnalysisNext]_analysisVars => AnalysisInv'
  BY AnalysisTypeKeeps, CallKeeps DEF AnalysisInv
<1> QED BY <1>1, <1>2, PTL DEF AnalysisSpec

(* A data frame of the drop list is from one state of the database, and    *)
(* two states share no row, unless refreshes have overlapped; as long as   *)
(* no refresh commits after the first read, a frame holds the rows that    *)
(* the database holds, as far as its limit goes.                           *)
THEOREM FramesCorrect == AnalysisSpec => []FramesInv
<1>1. AnalysisInit => FramesInv
  <2>1. AnalysisInit => ExactInv
    BY DEF AnalysisInit, ReadInit, ExactInv, Reading
  <2> QED BY <2>1, OriginInit DEF FramesInv
<1>2. FramesInv /\ AnalysisInv /\ ReadInv /\ ReadInv' /\ [AnalysisNext]_analysisVars => FramesInv'
  BY OriginKeeps, ExactKeeps DEF AnalysisInv, FramesInv
<1>3. AnalysisSpec => []ReadInv
  BY AnalysisReads, ReadsInvariant, PTL
<1> QED BY <1>1, <1>2, <1>3, AnalysisCorrect, PTL DEF AnalysisSpec

-----------------------------------------------------------------------------
(* The drop list.  Without overlapping refreshes, equal ids are of the     *)
(* same row of the same state.                                             *)
LEMMA SurvivorsAreReal == FramesInv => SurvivorsReal
<1> SUFFICES ASSUME FramesInv, call = 4, ~overlaid, NEW m \in Range(museums),
                    m.museum \notin Drops.noCity \cup Drops.harmonizer
             PROVE  \E k \in DOMAIN preview :
                        /\ preview[k].museum = m.museum
                        /\ preview[k].city = m.city
                        /\ m.records # NoRecords => preview[k].year = H!LatestYear(m.records)
  BY DEF SurvivorsReal, DropListShown
<1>0. /\ \E a \in past : MuseumsFrom(a)
      /\ \E b \in past : PreviewFrom(b)
      /\ \A a, b \in past : a = b \/ Apart(a, b)
      /\ \A a \in past : Stored(a)
  BY DEF FramesInv, OriginInv, Stored
<1>1. PICK a \in past, b \in past : MuseumsFrom(a) /\ PreviewFrom(b)
  BY <1>0
<1>2. PICK n \in MuseumsIn(a) : \/ m = FullMuseum(a, n)
                                \/ m = [FullMuseum(a, n) EXCEPT !.records = NoRecords]
  BY <1>1 DEF MuseumsFrom, ListedMuseums
<1>3. /\ m.museum = <<a.by[n], n>>
      /\ m.city = MuseumRow(a, n).city
      /\ m.records # NoRecords => m.records = a.contents.museums[n].visitors
  BY <1>2 DEF FullMuseum
<1>4. m.museum \in HarmonizedIds
  BY DEF Drops
<1>5. PICK k \in DOMAIN preview : preview[k].museum = m.museum
  BY <1>4 DEF HarmonizedIds
<1>6. PICK x \in WithRow(b) : preview[k] = FullRow(b, x)
  BY <1>1, <1>5 DEF PreviewFrom, HarmonizedRows, Range
<1>7. /\ preview[k].museum = <<b.by[x], x>>
      /\ preview[k].city = MuseumRow(b, x).city
      /\ preview[k].year = H!LatestYear(b.contents.museums[x].visitors)
  BY <1>6 DEF FullRow, HarmonizedRow, MuseumRow
<1>8. n = x /\ a.by[n] = b.by[n]
  BY <1>3, <1>5, <1>7
<1>9. a = b
  <2>1. n \in Keys /\ a.by[n] # Null
    BY <1>0, StoredMuseum, DistinctAssumption DEF Keys
  <2> QED BY <1>0, <1>8, <2>1 DEF Apart
<1> QED BY <1>3, <1>5, <1>7, <1>8, <1>9

(* As long as refreshes do not overlap, and whenever they commit, a museum *)
(* that the drop list does not mention is among the harmonized rows with   *)
(* its own city and the latest year that /museums has listed for it.       *)
THEOREM SurvivorsCorrect == AnalysisSpec => []SurvivorsReal
BY FramesCorrect, SurvivorsAreReal, PTL

-----------------------------------------------------------------------------
(* A listing that is no longer than the limit is all there.                *)
LEMMA AllRows ==
    ASSUME NEW S, IsFiniteSet(S), NEW order \in SetToSeqs(S), NEW limit \in Nat,
           Cardinality(S) <= limit
    PROVE  /\ FirstRows(order, limit) = order
           /\ Range(order) = S
           /\ Len(order) = Cardinality(S)
<1>1. /\ order \in Seq(S)
      /\ Cardinality(S) \in Nat
      /\ Len(order) = Cardinality(S)
      /\ DOMAIN order = 1 .. Cardinality(S)
      /\ \A x \in S : \E i \in DOMAIN order : order[i] = x
  BY Listing
<1>2. {k \in DOMAIN order : k <= limit} = DOMAIN order
  BY <1>1
<1>3. order = [k \in DOMAIN order |-> order[k]]
  BY <1>1
<1>4. Range(order) = S
  BY <1>1, ElementOfSeq DEF Range
<1> QED BY <1>1, <1>2, <1>3, <1>4 DEF FirstRows

(* Otherwise there are as many rows as the limit.                          *)
LEMMA SomeRows ==
    ASSUME NEW S, IsFiniteSet(S), NEW order \in SetToSeqs(S), NEW limit \in Nat
    PROVE  /\ Range(FirstRows(order, limit)) \subseteq S
           /\ Len(FirstRows(order, limit)) =
                  IF Cardinality(S) <= limit THEN Cardinality(S) ELSE limit
<1>1. /\ order \in Seq(S)
      /\ Cardinality(S) \in Nat
      /\ Len(order) = Cardinality(S)
      /\ DOMAIN order = 1 .. Cardinality(S)
  BY Listing
<1>2. PICK n \in Nat : n = IF Cardinality(S) <= limit THEN Cardinality(S) ELSE limit
  BY <1>1
<1>3. {k \in DOMAIN order : k <= limit} = 1 .. n
  BY <1>1, <1>2
<1>4. FirstRows(order, limit) = [k \in 1 .. n |-> order[k]]
  BY <1>3 DEF FirstRows
<1>5. \A k \in 1 .. n : order[k] \in S
  BY <1>1, <1>2, ElementOfSeq
<1>6. FirstRows(order, limit) \in Seq(S)
  BY <1>4, <1>5
<1>7. DOMAIN FirstRows(order, limit) = 1 .. n
  BY <1>4
<1>8. Len(FirstRows(order, limit)) = n
  BY <1>6, <1>7, LenProperties
<1>9. Range(FirstRows(order, limit)) \subseteq S
  BY <1>4, <1>5 DEF Range
<1> QED BY <1>2, <1>8, <1>9

(* The snapshot that the exact frames are from.                            *)
LEMMA PresentSnapshot ==
    ASSUME OriginInv
    PROVE  \E s : s = Snapshot /\ Stored(s)
BY DEF OriginInv, Stored

LEMMA RowlessIds ==
    ASSUME NEW s
    PROVE  Rowless(s) = {<<s.by[n], n>> : n \in MuseumsIn(s) \ WithRow(s)}
<1>1. \A n \in MuseumsIn(s) : MuseumRow(s, n).museum = <<s.by[n], n>>
  BY DEF MuseumRow
<1>2. \A n \in MuseumsIn(s) : n \in WithRow(s) <=> HasFullRow(s, n)
  BY DEF WithRow
<1> QED BY <1>1, <1>2 DEF Rowless

LEMMA DropsExact == FramesInv => DropListExact
<1> SUFFICES ASSUME FramesInv, DropListShown, Quiet,
                    Cardinality(MuseumsIn(Snapshot)) <= MaxLimit
             PROVE  Drops.noCity \cup Drops.harmonizer = Rowless(Snapshot)
  BY DEF DropListExact
<1>1. PICK s : s = Snapshot /\ Stored(s)
  BY PresentSnapshot DEF FramesInv
<1>3. ExactMuseums /\ ExactPreview
  BY DEF FramesInv, ExactInv, DropListShown
<1>4. /\ IsFiniteSet(ListedMuseums(s)) /\ Cardinality(ListedMuseums(s)) <= MaxLimit
      /\ IsFiniteSet(HarmonizedRows(s)) /\ Cardinality(HarmonizedRows(s)) <= MaxLimit
  <2>1. /\ IsFiniteSet(MuseumsIn(s)) /\ IsFiniteSet(WithRow(s))
        /\ IsFiniteSet(ListedMuseums(s)) /\ IsFiniteSet(HarmonizedRows(s))
        /\ Cardinality(ListedMuseums(s)) = Cardinality(MuseumsIn(s))
        /\ Cardinality(HarmonizedRows(s)) = Cardinality(WithRow(s))
        /\ Cardinality(WithRow(s)) <= Cardinality(MuseumsIn(s))
    BY <1>1, ListedMuseumsCount, HarmonizedRowsCount
  <2>2. Cardinality(MuseumsIn(s)) \in Nat /\ Cardinality(WithRow(s)) \in Nat
    BY <2>1, FS_CardinalityType
  <2> QED BY <1>1, <2>1, <2>2, LimitsType
<1>5. Range(museums) = ListedMuseums(s)
  BY <1>1, <1>3, <1>4, AllRows, LimitsType DEF ExactMuseums
<1>6. Range(preview) = HarmonizedRows(s)
  BY <1>1, <1>3, <1>4, AllRows, LimitsType DEF ExactPreview
<1>7. ASSUME NEW n \in MuseumsIn(s)
      PROVE  <<s.by[n], n>> \in HarmonizedIds <=> n \in WithRow(s)
  <2>1. \A x \in WithRow(s) : FullRow(s, x).museum = <<s.by[x], x>>
    BY DEF FullRow, HarmonizedRow, MuseumRow
  <2>2. <<s.by[n], n>> \in HarmonizedIds <=> \E row \in Range(preview) : row.museum = <<s.by[n], n>>
    BY DEF HarmonizedIds, Range
  <2> QED BY <1>6, <2>1, <2>2 DEF HarmonizedRows
<1>8. \A n \in MuseumsIn(s) : /\ FullMuseum(s, n).museum = <<s.by[n], n>>
                              /\ FullMuseum(s, n).city = MuseumRow(s, n).city
  BY DEF FullMuseum
<1>9. \A n \in WithRow(s) : MuseumRow(s, n).city # Null
  BY DEF WithRow, HasFullRow, HasRow, Eligible
<1>10. Drops.noCity = {<<s.by[n], n>> : n \in {n \in MuseumsIn(s) : MuseumRow(s, n).city = Null}}
  <2>1. Drops.noCity = {m.museum : m \in {m \in ListedMuseums(s) : m.city = Null}}
    BY <1>5 DEF Drops
  <2>2. ASSUME NEW id \in Drops.noCity
        PROVE  \E n \in MuseumsIn(s) : MuseumRow(s, n).city = Null /\ id = <<s.by[n], n>>
    <3>1. PICK m \in ListedMuseums(s) : m.city = Null /\ id = m.museum
      BY <2>1
    <3> QED BY <3>1, <1>8 DEF ListedMuseums
  <2>3. ASSUME NEW n \in MuseumsIn(s), MuseumRow(s, n).city = Null
        PROVE  <<s.by[n], n>> \in Drops.noCity
    <3>1. FullMuseum(s, n) \in {m \in ListedMuseums(s) : m.city = Null}
      BY <1>8, <2>3 DEF ListedMuseums
    <3> QED BY <2>1, <3>1, <1>8
  <2> QED BY <2>2, <2>3
<1>11. Drops.harmonizer = {<<s.by[n], n>> : n \in {n \in MuseumsIn(s) :
                               MuseumRow(s, n).city # Null /\ n \notin WithRow(s)}}
  BY <1>5, <1>7, <1>8 DEF Drops, ListedMuseums
<1>12. Rowless(s) = {<<s.by[n], n>> : n \in MuseumsIn(s) \ WithRow(s)}
  BY RowlessIds
<1>13. Drops.noCity \cup Drops.harmonizer = Rowless(s)
  BY <1>9, <1>10, <1>11, <1>12
<1> QED BY <1>1, <1>13

(* When nothing commits from the first read on, and all museums fit on the *)
(* largest page, the drop list names exactly the museums for which the     *)
(* database has no harmonized row.                                         *)
THEOREM DropListCorrect == AnalysisSpec => []DropListExact
BY FramesCorrect, DropsExact, PTL

-----------------------------------------------------------------------------
LEMMA RowlessCount ==
    ASSUME NEW s, Stored(s)
    PROVE  /\ Cardinality(MuseumsIn(s)) \in Nat /\ Cardinality(WithRow(s)) \in Nat
           /\ Cardinality(WithRow(s)) <= Cardinality(MuseumsIn(s))
           /\ Cardinality(Rowless(s)) = Cardinality(MuseumsIn(s)) - Cardinality(WithRow(s))
<1> DEFINE M == MuseumsIn(s)
           W == WithRow(s)
           f == [n \in M \ W |-> <<s.by[n], n>>]
<1>1. IsFiniteSet(M) /\ IsFiniteSet(W) /\ Cardinality(W) <= Cardinality(M)
  BY ListedMuseumsCount, HarmonizedRowsCount
<1>2. W \subseteq M
  BY DEF WithRow
<1>3. Rowless(s) = {f[n] : n \in M \ W}
  BY RowlessIds
<1>4. \A a, b \in M \ W : f[a] = f[b] => a = b
  OBVIOUS
<1> HIDE DEF M, W, f
<1>5. IsFiniteSet(M \ W)
  BY <1>1, FS_Difference
<1>6. Cardinality(Rowless(s)) = Cardinality(M \ W)
  BY <1>3, <1>4, <1>5, MappedCount
<1>7. M \cap W = W
  BY <1>2
<1>8. Cardinality(M \ W) = Cardinality(M) - Cardinality(W)
  BY <1>1, <1>7, FS_Difference
<1>9. Cardinality(M) \in Nat /\ Cardinality(W) \in Nat
  BY <1>1, FS_CardinalityType
<1> QED BY <1>1, <1>6, <1>8, <1>9 DEF M, W

LEMMA CountedDrops == AnalysisTypeOK /\ FramesInv => DroppedCounted
<1> SUFFICES ASSUME AnalysisTypeOK, FramesInv, call > 6, Quiet,
                    Cardinality(MuseumsIn(Snapshot)) <= MaxLimit,
                    NEW rowless, rowless = Cardinality(Rowless(Snapshot)),
                    NEW dropped, dropped = Len(museums) - Len(harmonized)
             PROVE  /\ dropped >= rowless
                    /\ Cardinality(MuseumsIn(Snapshot)) - rowless <= DefaultLimit =>
                           dropped = rowless
  BY DEF DroppedCounted
<1>1. PICK s : s = Snapshot /\ Stored(s)
  BY PresentSnapshot DEF FramesInv
<1>3. call \in Int
  BY TheCalls DEF AnalysisTypeOK
<1>4. ExactMuseums /\ ExactHarmonized
  BY <1>3 DEF FramesInv, ExactInv
<1>5. PICK m, w : m = Cardinality(MuseumsIn(s)) /\ w = Cardinality(WithRow(s))
  OBVIOUS
<1>6. m \in Nat /\ w \in Nat /\ w <= m /\ rowless = m - w
  BY <1>1, <1>5, RowlessCount
<1>7. /\ IsFiniteSet(ListedMuseums(s)) /\ Cardinality(ListedMuseums(s)) = m
      /\ IsFiniteSet(HarmonizedRows(s)) /\ Cardinality(HarmonizedRows(s)) = w
  BY <1>1, <1>5, ListedMuseumsCount, HarmonizedRowsCount
<1>8. Len(museums) = m
  BY <1>1, <1>4, <1>5, <1>7, AllRows, LimitsType DEF ExactMuseums
<1>9. Len(harmonized) = IF w <= DefaultLimit THEN w ELSE DefaultLimit
  BY <1>1, <1>4, <1>7, SomeRows, LimitsType DEF ExactHarmonized
<1> QED BY <1>1, <1>5, <1>6, <1>8, <1>9, LimitsType

(* When nothing commits from the first read on, and all museums fit on the *)
(* largest page, act 2 reports at least the museums without a harmonized   *)
(* row as dropped, and exactly those when the rows fit on a default page.  *)
THEOREM DropCountCorrect == AnalysisSpec => []DroppedCounted
<1>1. AnalysisInv /\ FramesInv => DroppedCounted
  BY CountedDrops DEF AnalysisInv
<1> QED BY <1>1, AnalysisCorrect, FramesCorrect, PTL
=============================================================================
