----------------------------- MODULE MCService -----------------------------
(* Small instances of Service for TLC.                                     *)
EXTENDS Service

CONSTANTS p1, p2, refresh1, refresh2, read1, read2

(* A refresh at each replica, and enough reads at the first to use up its  *)
(* connections.                                                            *)
MostAtFirst == [r \in Requests |-> IF r = refresh2 THEN p2 ELSE p1]
=============================================================================
