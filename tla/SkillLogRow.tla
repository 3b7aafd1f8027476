---------------------------- MODULE SkillLogRow ----------------------------
(***************************************************************************)
(* What the skill log promises of a row, whoever writes it: it is opened   *)
(* once, closed once, with one verdict, and never touched again; and the   *)
(* caller is told of a success exactly when the row says ok.               *)
(***************************************************************************)
CONSTANTS Calls

VARIABLES
    row,   \* the status of each row
    told   \* the calls whose caller holds a SkillResult

vars == <<row, told>>

Verdicts == {"ok", "error", "timeout"}

Init ==
    /\ row = [c \in Calls |-> "absent"]
    /\ told = {}

Open(c) ==
    /\ row[c] = "absent"
    /\ row' = [row EXCEPT ![c] = "running"]
    /\ UNCHANGED told

(* The call closes its own row.                                            *)
Settle(c, v) ==
    /\ row[c] = "running"
    /\ row' = [row EXCEPT ![c] = v]
    /\ told' = IF v = "ok" THEN told \cup {c} ELSE told

(* A cleanup closes rows that nobody closed.                               *)
CleanUp(S) ==
    /\ \A c \in S : row[c] = "running"
    /\ row' = [c \in Calls |-> IF c \in S THEN "timeout" ELSE row[c]]
    /\ UNCHANGED told

Next ==
    \/ \E c \in Calls : Open(c)
    \/ \E c \in Calls, v \in Verdicts : Settle(c, v)
    \/ \E S \in SUBSET Calls : CleanUp(S)

Spec == Init /\ [][Next]_vars
=============================================================================
