------------------------ MODULE OverlappingRefreshes ------------------------
(***************************************************************************)
(* What POST /refresh does to the contents of the database when refreshes  *)
(* may overlap: it still takes effect in one step and at most once, but    *)
(* need not replace everything (compare AtomicRefresh).  Its two DELETE    *)
(* statements miss the rows of refreshes that committed after they began,  *)
(* and its upserts merge with those rows.                                  *)
(*                                                                         *)
(* The id of a row is <<w, k>>: refresh w inserted it under key k.         *)
(***************************************************************************)
EXTENDS RefreshData

CONSTANT MaxTime   \* bound of the stamps

VARIABLES
    contents,   \* what the API shows
    author,     \* the refresh that inserted the row of a key
    applied     \* the refreshes that took effect

refreshVars == <<contents, author, applied>>

Present(c) ==
    {n \in Names : c.museums[n] # Absent} \cup {q \in Qids : c.cities[q] # Absent}

Snapshot == [by |-> author, contents |-> contents]

Init ==
    /\ contents \in {EmptyContents} \cup {ContentsOf(d, Seed, 0) : d \in SeedDatasets}
    /\ author = [k \in Keys |-> IF k \in Present(contents) THEN Seed ELSE Null]
    /\ applied = {}

(* DELETE FROM museums does not see the refreshes in M, and DELETE FROM    *)
(* cities, which starts later, those in C.                                 *)
Missed(M, C) == {n \in Names : author[n] \in M} \cup {q \in Qids : author[q] \in C}

(* museums.wikidata_qid is unique: an upsert that takes the item of        *)
(* another row fails, and the refresh has no effect.                       *)
ItemsUnique(c) ==
    \A m, n \in Names \cap Present(c) :
        c.museums[m].item = c.museums[n].item /\ c.museums[m].item # Null => m = n

(* Mutant: delete_all is TRUNCATE ... RESTART IDENTITY.                    *)
Merge_RestartsIds(r, d, at, missed) ==
    /\ r \notin applied
    /\ applied' = applied \cup {r}
    /\ contents' = Merged(ContentsOf(d, r, at), contents, missed)
    /\ ItemsUnique(contents')
    /\ author' = [k \in Keys |-> IF k \in Present(contents') THEN Seed ELSE Null]

(* Refresh r takes effect with data set d, stamped at.                     *)
Merge(r, d, at, missed) ==
    /\ r \notin applied
    /\ applied' = applied \cup {r}
    /\ contents' = Merged(ContentsOf(d, r, at), contents, missed)
    /\ ItemsUnique(contents')
    /\ author' = [k \in Keys |-> IF k \notin Present(contents') THEN Null
                                 ELSE IF k \in missed THEN author[k] ELSE r]

Next ==
    \E M \in SUBSET applied : \E C \in SUBSET M :
        \E r \in Requests, d \in Datasets, at \in 0 .. MaxTime :
            Merge(r, d, at, Missed(M, C))

Spec == Init /\ [][Next]_refreshVars
=============================================================================
