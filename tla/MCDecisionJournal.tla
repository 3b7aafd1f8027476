------------------------- MODULE MCDecisionJournal -------------------------
(* Model-checking instance of DecisionJournal within TrustRecord, where    *)
(* the ladder and the tracker stand still.                                 *)
EXTENDS TrustRecord, TLC

LowBar == [t1Closed |-> 0, t1Calls |-> 0, t2Confirmed |-> 0, t2Clean |-> 0, t2Streak |-> 0,
           t3PerPillar |-> 0, t3Pillars |-> 1, t3Clean |-> 0, t3Streak |-> 0]

MCInit == Init /\ P!Init /\ J!Init
MCNext == J!Next /\ UNCHANGED <<vars, performance>>
MCSpec == MCInit /\ [][MCNext]_<<vars, performance, decisions>>

Symmetry == Permutations(Acts) \cup Permutations(Sources)
=============================================================================
