---------------------------- MODULE MCNodeStore ----------------------------
(***************************************************************************)
(* Model-checking instance of MonitoredNodes.  A behaviour is of the store *)
(* or of the scans (at), so the run's states are the sum of both.  The     *)
(* nodes are interchangeable.                                              *)
(***************************************************************************)
EXTENDS MonitoredNodes, TLC

VARIABLE at

(* A node every scan finds, and one whose priority differs by the skill.   *)
TwoFilings == {[primary |-> "business", all |-> {"business", "legal"}],
               [primary |-> "health", all |-> {"health", "legal"}]}

(* Bound: the others write one row, which stays pending.                   *)
Foreign(set) == {r \in set : r.by = "others"}

(* What the other part starts with does not matter.                        *)
MCInit ==
    /\ Init /\ D!Init
    /\ \/ at = "store" /\ \A n \in Watched : due[n] = D!Min(Dues) /\ filed[n].primary = "health"
       \/ at = "scans" /\ explicit = {}

MCNext ==
    /\ \/ at = "store" /\ Next /\ UNCHANGED deadlines
       \/ /\ at = "scans" /\ D!Next /\ UNCHANGED vars
          /\ Foreign(rows) \subseteq rows' /\ Cardinality(Foreign(rows')) <= 1
    /\ UNCHANGED at

MCSpec == MCInit /\ [][MCNext]_<<vars, at, deadlines>>

Symmetry == Permutations(Nodes) \cup Permutations(Watched)
=============================================================================
