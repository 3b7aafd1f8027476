----------------------------- MODULE MCReaders -----------------------------
(***************************************************************************)
(* Model-checking instance of NodeReaders.  A behaviour is of one of the   *)
(* readers (at), so the run's states are the sum of both.                  *)
(***************************************************************************)
EXTENDS NodeReaders, SequencesExt, TLC

VARIABLE at

(* Overdue, near, far and no deadlines; nodes of one pillar and of both;   *)
(* one that no budget holds.                                               *)
Profile(ps, left, task, synthesis, matches, tokens) ==
    [pillars |-> ps, dated |-> left < 9999, left |-> left, task |-> task,
     synthesis |-> synthesis, matches |-> matches, tokens |-> tokens]

Table == <<Profile({"legal"}, 5, TRUE, FALSE, TRUE, 1),
           Profile({"legal", "health"}, 9999, FALSE, TRUE, TRUE, 2),
           Profile({"health"}, -2, FALSE, FALSE, FALSE, 5),
           Profile({"legal"}, 300, FALSE, TRUE, TRUE, 3),
           Profile({"legal"}, 5, FALSE, FALSE, FALSE, 1)>>

(* The same nodes in either order of age.                                  *)
FiveNodes == {Table, Reverse(Table)}

MCInit == at \in {"turn", "dashboard"} /\ C!Init /\ D!Init

MCNext ==
    /\ \/ at = "turn" /\ C!Next /\ UNCHANGED dashboard
       \/ at = "dashboard" /\ D!Next /\ UNCHANGED context
    /\ UNCHANGED at

MCSpec == MCInit /\ [][MCNext]_<<at, nodes, context, dashboard>>
=============================================================================
