--------------------------- MODULE MCHarmonization ---------------------------
(* Small instances of Harmonization for TLC.                               *)
EXTENDS Harmonization

Visited(years) == [y \in Years |-> IF y \in years THEN 1 ELSE Null]

(* One visitor record, or one more in the first year.                      *)
SomeVisits == {Visited({y}) : y \in Years} \cup {Visited({1, y}) : y \in Years}
=============================================================================
