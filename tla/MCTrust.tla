------------------------------ MODULE MCTrust ------------------------------
(***************************************************************************)
(* Model-checking instance of Trust and Performance within TrustRecord.  A *)
(* behaviour is of one of them (at), so the run's states are the sum of    *)
(* both; MCDecisionJournal is the instance for the third.                  *)
(***************************************************************************)
EXTENDS TrustRecord, TLC

VARIABLE at

(* Bars small enough that every tier is met by two sessions and pillars.   *)
LowBar == [t1Closed |-> 1, t1Calls |-> 1, t2Confirmed |-> 1, t2Clean |-> 1, t2Streak |-> 1,
           t3PerPillar |-> 1, t3Pillars |-> 2, t3Clean |-> 2, t3Streak |-> 2]

MCInit == at \in {"trust", "performance"} /\ Init /\ P!Init /\ J!Init

MCNext ==
    /\ \/ at = "trust" /\ Next /\ UNCHANGED performance
       \/ at = "performance" /\ P!Next /\ UNCHANGED vars
    /\ UNCHANGED <<at, decisions>>

MCSpec == MCInit /\ [][MCNext]_<<vars, at, performance, decisions>>

Symmetry == Permutations(Advances) \cup Permutations(Sessions) \cup Permutations(Pillars)
              \cup Permutations(Trackers)
=============================================================================
