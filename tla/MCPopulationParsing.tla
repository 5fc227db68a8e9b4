------------------------ MODULE MCPopulationParsing ------------------------
(* Small instances of PopulationParsing for TLC.                           *)
EXTENDS PopulationParsing

CONSTANTS paris, rome, MaxRows

Binding(q, y, p) == [city |-> q, year |-> y, population |-> p]

(* Every row of paris, one of rome between them, and the rows that are     *)
(* skipped or rejected.                                                    *)
SomeRows ==
    {Binding(paris, y, p) : y \in Years, p \in Populations}
        \cup {Binding(rome, 2, 5), Binding(paris, 1, Null), Binding(paris, Null, 1), Binding(paris, 1, Garbage)}

AllBindings == SeqOf(SomeRows, MaxRows)
=============================================================================
