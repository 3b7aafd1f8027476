--------------------------- MODULE LoopLifecycle ---------------------------
(***************************************************************************)
(* What the loop engine promises of a loop_runs row, whoever runs the loop *)
(* and whoever ends it: a row is inserted once and never comes back to     *)
(* life, a forced end raises one alert and is the only thing that does,    *)
(* and an owner (a session) never has two alerts open.                     *)
(***************************************************************************)
CONSTANTS Loops, Owners, NoOwner

VARIABLES
    phase,   \* where each loop stands
    owner,   \* the session it runs for
    alarm    \* the alert about it

vars == <<phase, owner, alarm>>

TypeOK ==
    /\ phase \in [Loops -> {"absent", "live", "ended"}]
    /\ owner \in [Loops -> Owners \cup {NoOwner}]
    /\ alarm \in [Loops -> {"none", "pending", "resolved"}]

Init ==
    /\ phase = [l \in Loops |-> "absent"]
    /\ owner = [l \in Loops |-> NoOwner]
    /\ alarm = [l \in Loops |-> "none"]

Spawn(l, o) ==
    /\ phase[l] = "absent"
    /\ phase' = [phase EXCEPT ![l] = "live"]
    /\ owner' = [owner EXCEPT ![l] = o]
    /\ UNCHANGED alarm

(* Loops end without an alert: they finish, or their session is closed.    *)
End(S) ==
    /\ \A l \in S : phase[l] # "absent"
    /\ phase' = [l \in Loops |-> IF l \in S THEN "ended" ELSE phase[l]]
    /\ UNCHANGED <<owner, alarm>>

(* A forced end; the loop may have ended by itself in the meantime.        *)
Force(l) ==
    /\ phase[l] # "absent"
    /\ alarm[l] = "none"
    /\ \A m \in Loops : owner[m] = owner[l] => alarm[m] # "pending"
    /\ phase' = [phase EXCEPT ![l] = "ended"]
    /\ alarm' = [alarm EXCEPT ![l] = "pending"]
    /\ UNCHANGED owner

(* The user clears the alerts of one owner.                                *)
Clear(o) ==
    /\ alarm' = [l \in Loops |-> IF owner[l] = o /\ alarm[l] = "pending"
                                 THEN "resolved" ELSE alarm[l]]
    /\ UNCHANGED <<phase, owner>>

Next ==
    \/ \E l \in Loops, o \in Owners : Spawn(l, o)
    \/ \E S \in SUBSET Loops : End(S)
    \/ \E l \in Loops : Force(l)
    \/ \E o \in Owners : Clear(o)

Spec == Init /\ [][Next]_vars
=============================================================================
