---------------------------- MODULE MCNewsReport ----------------------------
(* Two markets; a1 and a2 are of one market, a2 and b1 of one event. *)
EXTENDS NewsReport, TLC

MCMarketOf == [a \in Articles |-> IF a \in {"b1"} THEN "B" ELSE "A"]
MCEventOf == [a \in Articles |-> IF a \in {"a2", "b1"} THEN "quake" ELSE "none"]
MCSymmetry == Permutations(Sources)
=============================================================================
