--------------------------- MODULE ReadInvariant ---------------------------
(***************************************************************************)
(* The inductive invariant of ReadEndpoints: what a read has got so far is *)
(* what some snapshot held that it has seen, and two snapshots share no    *)
(* row unless refreshes overlapped.                                        *)
(***************************************************************************)
EXTENDS ReadEndpoints

(* Present rows have ids, and museums refer to present cities.             *)
Consistent(db) ==
    /\ IsFiniteSet(MuseumsIn(db))
    /\ \A k \in Keys : db.by[k] = Null <=> k \notin Present(db.contents)
    /\ \A n \in MuseumsIn(db) :
           db.contents.museums[n].city \in CitiesIn(db) \cup {Null}

(* Its rows are from refreshes that took effect.                           *)
Committed(db) == Range(db.by) \subseteq applied \cup {Seed, Null}

(* No row of one is a row of the other.                                    *)
Apart(a, b) == \A k \in Keys : a.by[k] = b.by[k] => a.by[k] = Null

(* A read knows the database it looks at, and the states it has seen have  *)
(* no row in common unless refreshes have overlapped.                      *)
SeenInv ==
    /\ \A db \in seen \cup {Snapshot} : Consistent(db) /\ Committed(db)
    /\ Reading => Snapshot \in seen
    /\ overlap \/ \A a, b \in seen : a = b \/ Apart(a, b)

(* Populations are only read for rows that may need them.                  *)
NeedsPopulations ==
    \/ query.endpoint = "cities"
    \/ /\ query.endpoint # "museums"
       /\ \E k \in DOMAIN page : Eligible(page[k], loaded[k])

(* Which endpoints execute which statements.                               *)
StepInv ==
    /\ query.endpoint \in Endpoints
    /\ step \in {"count", "museums", "visitors"} => query.endpoint # "cities"
    /\ step = "cities" => query.endpoint = "cities"
    /\ step = "populations" => NeedsPopulations

TotalInv ==
    step \in {"museums", "visitors", "populations", "answer"} =>
        \/ query.endpoint = "cities"
        \/ \E db \in seen : total = Cardinality(MuseumsIn(db))

(* The page is what one statement selected from db.                        *)
IsPage(db) ==
    IF query.endpoint = "cities"
    THEN \E order \in SetToSeqs(CitiesIn(db)) : page = CityRows(db, order)
    ELSE \E order \in Ordered(MuseumsIn(db)) :
             page = MuseumRows(db, IF query.endpoint = "museums" THEN Slice(order)
                                   ELSE order)

PageInv ==
    IF step \in {"visitors", "populations", "answer"}
    THEN \E db \in seen : IsPage(db)
    ELSE page = <<>>

(* Every batch of visitor records is from some snapshot.                   *)
LoadedInv ==
    /\ query.endpoint = "cities" => loaded = <<>>
    /\ \A k \in DOMAIN loaded : \E db \in seen : loaded[k] = RecordsOf(db, page[k].museum)
    /\ step \in {"populations", "answer"} /\ query.endpoint # "cities" =>
           Len(loaded) = Len(page)

GroupedInv ==
    IF step = "answer" /\ NeedsPopulations
    THEN \E db \in seen : grouped = PopulationsOf(db)
    ELSE grouped = NoPopulations

(* Every part of an unfinished answer is from a snapshot that was seen     *)
(* while it was read, whatever committed between the statements; without   *)
(* overlapping refreshes the finished answer is from one of them.          *)
ReadInv ==
    /\ TypeOK
    /\ SeenInv
    /\ StepInv
    /\ TotalInv
    /\ PageInv
    /\ LoadedInv
    /\ GroupedInv
    /\ OneRefreshPerAnswer
    /\ QuietReadExact
=============================================================================
