---------------------------- MODULE MCBookkeeping ----------------------------
(* Two requests of one thread and the rest of the traffic; a node of each    *)
(* class the router knows.                                                   *)
EXTENDS Bookkeeping, TLC
MCNodes == {"rag_generate", "compliance_validation", "panel_consensus"}
Symmetry == Permutations(Requests)
=============================================================================
