---------------------------- MODULE MCSynthesis ----------------------------
(* Model-checking instance of Synthesis.                                   *)
EXTENDS Synthesis, TLC

Symmetry == Permutations(Requests) \cup Permutations(Conns) \cup Permutations(Nodes)
=============================================================================
