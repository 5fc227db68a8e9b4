--------------------------- MODULE AtomicRefresh ---------------------------
(***************************************************************************)
(* What POST /refresh promises (routers/refresh.py, README): a refresh     *)
(* replaces the whole contents of the database in one step or leaves them  *)
(* alone, takes effect at most once, and without force=true only takes     *)
(* effect once the cooldown since the last one has passed.                 *)
(***************************************************************************)
EXTENDS RefreshData

CONSTANTS Cooldown, MaxTime

VARIABLES
    contents,   \* what the API shows
    applied,    \* the refreshes that took effect
    forced,     \* which requests carry force=true
    now         \* the clock

vars == <<contents, applied, forced, now>>

Init ==
    /\ contents \in {EmptyContents} \cup {ContentsOf(d, Seed, 0) : d \in SeedDatasets}
    /\ applied = {}
    /\ forced \in [Requests -> BOOLEAN]
    /\ now = 0

(* Refresh r takes effect with data set d, stamped at.                     *)
Replace(r, d, at) ==
    /\ r \notin applied
    /\ contents.state # Absent =>
           /\ contents.state.at <= at
           /\ forced[r] \/ at - contents.state.at >= Cooldown
    /\ applied' = applied \cup {r}
    /\ contents' = ContentsOf(d, r, at)
    /\ UNCHANGED <<forced, now>>

Tick ==
    /\ now < MaxTime
    /\ now' = now + 1
    /\ UNCHANGED <<contents, applied, forced>>

Next ==
    \/ \E r \in Requests, d \in Datasets, at \in 0 .. now : Replace(r, d, at)
    \/ Tick

Spec == Init /\ [][Next]_vars
=============================================================================
