---------------------------- MODULE MCApprovals ----------------------------
(* Model-checking instance of Approvals: up to two calls, whatever they    *)
(* are about, and three about one action when two of them approve it.      *)
EXTENDS Approvals, TLC

Crowd == {c \in Calls : pc[c] # "idle"}

MCNext ==
    /\ Next
    /\ \/ Cardinality(Crowd') <= 2
       \/ Cardinality({act[c] : c \in Crowd}') = 1 /\ Cardinality(direct') <= 1

MCSpec == Init /\ [][MCNext]_vars

Symmetry == Permutations(Calls) \cup Permutations(Actions) \cup Permutations(Grants)
=============================================================================
