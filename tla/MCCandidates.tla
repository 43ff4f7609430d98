---------------------------- MODULE MCCandidates ----------------------------
(* Three definitions: two of one service, and one that adds a service. *)
EXTENDS Candidates, TLC

CONSTANTS s1, s2, d1, d2, d3

MCServicesOf == [def \in Defs |-> IF def = d3 THEN {s1, s2} ELSE {s1}]

\* d1 and d2 differ in nothing but their names.
MCSymmetry == Permutations({d1, d2})
=============================================================================
