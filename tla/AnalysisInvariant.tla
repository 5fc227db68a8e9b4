------------------------- MODULE AnalysisInvariant -------------------------
(***************************************************************************)
(* The inductive invariant of Analysis: which call comes when, from which  *)
(* state of the database the data frames of the drop list are, and, as     *)
(* long as no refresh commits, exactly which rows each frame holds.        *)
(***************************************************************************)
EXTENDS Analysis, ReadInvariant

(* A call is only made, and answered, in its place.                        *)
CallInv ==
    Reading =>
        /\ call \in DOMAIN Calls
        /\ query = [endpoint |-> Calls[call].endpoint, skip |-> 0,
                    limit |-> Calls[call].limit]

-----------------------------------------------------------------------------
(* The rows of the endpoints when the database holds db.                   *)
ListedMuseums(db) == {FullMuseum(db, n) : n \in MuseumsIn(db)}

WithRow(db) == {n \in MuseumsIn(db) : HasFullRow(db, n)}

HarmonizedRows(db) == {FullRow(db, n) : n \in WithRow(db)}

MuseumsFrom(db) ==
    \A m \in Range(museums) :
        m \in ListedMuseums(db) \cup {[l EXCEPT !.records = NoRecords] : l \in ListedMuseums(db)}

PreviewFrom(db) == Range(preview) \subseteq HarmonizedRows(db)

(* The frames of the drop list are from one state of the database each,    *)
(* and two states share no row, unless refreshes have overlapped.          *)
OriginInv ==
    /\ Snapshot \in past
    /\ Reading => seen \subseteq past
    /\ \A db \in past : SnapshotTypeOK(db) /\ Consistent(db) /\ Committed(db)
    /\ Reading /\ overlap => overlaid
    /\ ~overlaid =>
           /\ \A a, b \in past : a = b \/ Apart(a, b)
           /\ call > 1 => \E m \in past : MuseumsFrom(m)
           /\ call > 3 => \E p \in past : PreviewFrom(p)

-----------------------------------------------------------------------------
FirstRows(order, limit) == [k \in {k \in DOMAIN order : k <= limit} |-> order[k]]

ExactMuseums ==
    \E order \in SetToSeqs(ListedMuseums(Snapshot)) : museums = FirstRows(order, MaxLimit)

ExactPreview ==
    \E order \in SetToSeqs(HarmonizedRows(Snapshot)) : preview = FirstRows(order, MaxLimit)

ExactHarmonized ==
    \E order \in SetToSeqs(HarmonizedRows(Snapshot)) :
        harmonized = FirstRows(order, DefaultLimit)

(* As long as no refresh commits, all that was read is what the database   *)
(* still holds.                                                            *)
ExactInv ==
    Quiet =>
        /\ Reading  => seen = {Snapshot}
        /\ call > 1 => ExactMuseums
        /\ call > 3 => ExactPreview
        /\ call > 6 => ExactHarmonized

FramesInv == OriginInv /\ ExactInv

(* The cells make their calls in order, each is answered in its place, and *)
(* none runs before the frames that it works on have rows.                 *)
AnalysisInv == AnalysisTypeOK /\ CallInv
=============================================================================
