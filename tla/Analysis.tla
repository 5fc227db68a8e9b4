------------------------------ MODULE Analysis ------------------------------
(***************************************************************************)
(* The notebook notebook/regression_analysis.ipynb as a client of the API: *)
(* its cells call POST /refresh and then the reads, one after the other,   *)
(* and combine what they got, by museum id (the drop list) and by counting *)
(* rows.  Refreshes commit during the calls and between them.              *)
(***************************************************************************)
EXTENDS ReadEndpoints

CONSTANTS
    MaxLimit,      \* limit=200
    DefaultLimit   \* of the routers (50), for calls without limit

ASSUME AnalysisAssumption ==
    /\ {MaxLimit, DefaultLimit} \subseteq Limits
    /\ DefaultLimit <= MaxLimit

VARIABLES
    call,         \* the call that comes next, 0 is POST /refresh
    museums,      \* the data frames
    preview,      \* _harm_preview
    populations,
    harmonized,
    past,         \* history: what the database held since the first read began
    overlaid      \* history: a row has survived a refresh since then

frames == <<museums, preview, populations, harmonized>>

analysisVars == <<allVars, call, frames, past, overlaid>>

Get(endpoint, limit) == [endpoint |-> endpoint, limit |-> limit]

(* Mutant: the drop list looks for survivors on the first page only.       *)
Calls_DefaultPreview ==
    <<Get("museums", MaxLimit), Get("cities", MaxLimit), Get("harmonized", DefaultLimit),
      Get("museums", MaxLimit), Get("cities", DefaultLimit),
      Get("harmonized", DefaultLimit), Get("regression", 1)>>

(* Mutant: so does the count of raw museums.                               *)
Calls_DefaultMuseums ==
    <<Get("museums", MaxLimit), Get("cities", MaxLimit), Get("harmonized", MaxLimit),
      Get("museums", DefaultLimit), Get("cities", DefaultLimit),
      Get("harmonized", DefaultLimit), Get("regression", 1)>>

(* The calls of the cells "Coverage table" (two), "Drop-list", raw museums *)
(* and raw populations of act 1, act 2 and act 3.                          *)
Calls ==
    <<Get("museums", MaxLimit), Get("cities", MaxLimit), Get("harmonized", MaxLimit),
      Get("museums", MaxLimit), Get("cities", DefaultLimit),
      Get("harmonized", DefaultLimit), Get("regression", 1)>>

AnalysisInit ==
    /\ ReadInit
    /\ call = 0
    /\ museums = <<>>
    /\ preview = <<>>
    /\ populations = <<>>
    /\ harmonized = <<>>
    /\ past = {Snapshot}
    /\ overlaid = FALSE

-----------------------------------------------------------------------------
(* `try: api_post("/refresh") except Exception: print': it goes on, however *)
(* the refresh ends, and also when it has not ended yet (timeout).         *)
PostRefresh ==
    /\ call = 0
    /\ call' = 1
    /\ UNCHANGED <<allVars, frames, past, overlaid>>

Begun == call > 1 \/ Reading

(* The refresh of the notebook, or of somebody else.                       *)
SomeRefresh ==
    /\ Refresh
    /\ past' = IF Begun THEN past \cup {Snapshot'} ELSE {Snapshot'}
    /\ overlaid' = (Begun /\ (overlaid \/ overlap'))
    /\ UNCHANGED <<call, frames>>

Request ==
    /\ call \in DOMAIN Calls
    /\ Ask(Calls[call].endpoint)
    /\ query'.skip = 0
    /\ query'.limit = Calls[call].limit
    /\ past' = IF call = 1 THEN {Snapshot} ELSE past
    /\ overlaid' = (overlaid /\ call > 1)
    /\ UNCHANGED <<call, frames>>

Serve ==
    /\ SelectCount \/ SelectMuseums \/ SelectVisitors \/ SelectCities \/ SelectPopulations
    /\ UNCHANGED <<call, frames, past, overlaid>>

(* A data frame without rows has no columns, and the cell raises a         *)
(* KeyError when it selects one.                                           *)
HasPopulations(items) == \E k \in DOMAIN items : items[k].records # NoRecords

(* Mutant: the cells go on with empty data frames.                         *)
NextCall_Tolerant(items) == call + 1

(* Where the notebook goes on: at the next call, or, after an error, with  *)
(* the first call of the cell, which has to be run again.                  *)
NextCall(items) ==
    CASE call = 2 -> IF museums = <<>> \/ items = <<>> THEN 1 ELSE 3
      [] call \in {4, 6} /\ items = <<>> -> call
      [] call = 5 /\ ~HasPopulations(items) -> 5
      [] OTHER -> call + 1

(* api_get returns, and the rest of the cell runs.                         *)
Receive ==
    /\ Answer
    /\ answer'.status = 200
    /\ LET items == answer'.items
       IN  /\ call' = NextCall(items)
           /\ museums' = IF call \in {1, 4} THEN items ELSE museums
           /\ preview' = IF call = 3 THEN items ELSE preview
           /\ populations' = IF call = 5 THEN items ELSE populations
           /\ harmonized' = IF call = 6 THEN items ELSE harmonized
    /\ UNCHANGED <<past, overlaid>>

(* raise_for_status: the cell has to be run again.                         *)
Raise ==
    /\ (Answer /\ answer'.status # 200) \/ StatementFails
    /\ call' = IF call = 2 THEN 1 ELSE call
    /\ UNCHANGED <<frames, past, overlaid>>

(* Every cell has run.                                                     *)
Over ==
    /\ call > Len(Calls)
    /\ UNCHANGED analysisVars

AnalysisNext ==
    \/ PostRefresh \/ SomeRefresh \/ Request \/ Serve \/ Receive \/ Raise \/ Over

AnalysisSpec == AnalysisInit /\ [][AnalysisNext]_analysisVars

-----------------------------------------------------------------------------
(* What the cells compute.  The drop list: every museum without a city,    *)
(* and every other one that is not among the harmonized ids.               *)
HarmonizedIds == {preview[k].museum : k \in DOMAIN preview}

Drops ==
    [noCity     |-> {m.museum : m \in {m \in Range(museums) : m.city = Null}},
     harmonizer |-> {m.museum : m \in {m \in Range(museums) : /\ m.city # Null
                                                              /\ m.museum \notin HarmonizedIds}}]

-----------------------------------------------------------------------------
(* Type invariant: a cell only runs when the frames it works on have rows. *)
AnalysisTypeOK ==
    /\ call \in 0 .. Len(Calls) + 1
    /\ call = 3 \/ call > 4 => museums # <<>>
    /\ call > 5 => HasPopulations(populations)
    /\ call > 6 => harmonized # <<>>
    /\ overlaid \in BOOLEAN

DropListShown == call = 4

(* However many refreshes commit between the calls, unless rows survive    *)
(* one because they overlap, a museum that the drop list does not mention  *)
(* has a harmonized row that is its own: of the same city, and of the      *)
(* latest year /museums has listed.                                        *)
SurvivorsReal ==
    DropListShown /\ ~overlaid =>
        \A m \in Range(museums) :
            \/ m.museum \in Drops.noCity \cup Drops.harmonizer
            \/ \E k \in DOMAIN preview :
                   /\ preview[k].museum = m.museum
                   /\ preview[k].city = m.city
                   /\ m.records # NoRecords => preview[k].year = H!LatestYear(m.records)

Rowless(db) ==
    {MuseumRow(db, n).museum : n \in {n \in MuseumsIn(db) : ~HasFullRow(db, n)}}

(* No refresh has changed the database since the first read.               *)
Quiet == past = {Snapshot}

(* When no refresh commits from the first read on, the drop list is what   *)
(* it says: the museums without a row in the database.                     *)
DropListExact ==
    DropListShown /\ Quiet /\ Cardinality(MuseumsIn(Snapshot)) <= MaxLimit =>
        Drops.noCity \cup Drops.harmonizer = Rowless(Snapshot)

(* Then "Dropped during harmonization" of act 2 is never less than the     *)
(* drop list, and no more when the harmonized rows fit on a default page.  *)
DroppedCounted ==
    call > 6 /\ Quiet /\ Cardinality(MuseumsIn(Snapshot)) <= MaxLimit =>
        LET rowless == Cardinality(Rowless(Snapshot))
            dropped == Len(museums) - Len(harmonized)
        IN  /\ dropped >= rowless
            /\ Cardinality(MuseumsIn(Snapshot)) - rowless <= DefaultLimit => dropped = rowless
=============================================================================
