--------------------------- MODULE MCNestedLoops ---------------------------
(***************************************************************************)
(* Model-checking instance of NestedLoops.  All tasks at once are too many *)
(* states: a behaviour is one of a cast of tasks, and the run's states are *)
(* the sum over the casts.  Runs of a kind are interchangeable.            *)
(***************************************************************************)
EXTENDS NestedLoops, TLC

VARIABLE cast

(* Nested corrections and the fail-safe; the fail-safe and two of the      *)
(* tasks whose rows it may end; alerts raised by three.                    *)
Alerting == Signals \cup Safeties
Casts == {Alerting, Corrections \cup Safeties, Safeties \cup Shutdowns \cup SubAgents}
            \cup {{c} \cup Safeties \cup Shutdowns : c \in Corrections}
            \cup {{c} \cup Safeties \cup SubAgents : c \in Corrections}

MCInit == Init /\ cast \in Casts

(* What an alert is about matters only where several tasks raise one.      *)
MCNext ==
    /\ Next
    /\ \A t \in Tasks \ cast : pc'[t] = pc[t]
    /\ cast = Alerting \/ \A s \in Safeties : pc'[s] = "idle" \/ about'[s] = <<"session", None>>
    /\ UNCHANGED cast

MCSpec == MCInit /\ [][MCNext]_<<vars, cast>>

(* Corrections while a shutdown runs, each scheduled again until it ends.  *)
LiveInit == Init /\ cast = Corrections \cup Shutdowns

LiveSpec == LiveInit /\ [][MCNext]_<<vars, cast>> /\ Fairness

Symmetry == Permutations(Corrections) \cup Permutations(Signals) \cup Permutations(Safeties)
=============================================================================
