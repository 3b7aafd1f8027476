---------------------------- MODULE NestedLoops ----------------------------
(***************************************************************************)
(* The loops a goal loop's session may nest - correction, escalation,      *)
(* safety, shutdown - and the sub-agent runs, over the rows they share:    *)
(* loop_runs, sub_agent_runs and pending_escalations.  Each run is a task  *)
(* with a database transaction; what it has flushed is seen by the others  *)
(* from its first commit on (visible).  An UPDATE locks its row until the  *)
(* commit, so the writes of a transaction are one step; what was read      *)
(* before (the tree of a shutdown, a de-duplication look-up) is not.       *)
(*                                                                         *)
(* One session; a safety run may also have none.                           *)
(***************************************************************************)
EXTENDS Naturals, FiniteSets, FiniteSetsExt

CONSTANTS
    Corrections, Signals, Safeties, Shutdowns,   \* runs of the four loops
    SubAgents,                                   \* runs of run_sub_agent
    Goal,                                        \* the session's goal loop
    Nodes,                                       \* what an escalation may be about
    None

(* A run is of one kind, and rows are named by the run that inserts them.  *)
ASSUME NamesAssumption ==
    /\ \A x \in Corrections : x \notin Signals \cup Safeties \cup Shutdowns \cup SubAgents
    /\ \A x \in Signals : x \notin Safeties \cup Shutdowns \cup SubAgents
    /\ \A x \in Safeties : x \notin Shutdowns \cup SubAgents
    /\ \A x \in Shutdowns : x \notin SubAgents
    /\ Goal \notin Corrections \cup Signals \cup Safeties \cup Shutdowns \cup SubAgents
    /\ \A c \in Corrections :
          <<"escalation", c>> \notin {Goal} \cup Corrections \cup Signals \cup Safeties
                                        \cup Shutdowns \cup SubAgents

VARIABLES
    status,    \* loop_runs.status
    sub,       \* sub_agent_runs.status
    visible,   \* the rows that are committed
    alerts,    \* the pending P0 escalations: <<session, node>>, unique by the index
    reported,  \* the retries a correction's correction_exhaust row tells, or None
    closed,    \* the session is closed, its tree terminated before
    \* the tasks
    pc,
    parent,    \* a correction's parent loop
    attempts,  \* a correction's retries
    prio,      \* the priority a signal was confirmed at
    about,     \* the alert a signal or a safety run is about
    risk,      \* a safety run's risk: runaway and invariant are P0, the others P1
    trigger,   \* the process that triggered a safety run
    planned,   \* the alerts a safety run will insert
    tree       \* the processes a shutdown found

rows == <<status, sub, visible>>
tasks == <<parent, attempts, prio, about, risk, trigger, planned, tree>>
vars == <<rows, alerts, reported, closed, pc, tasks>>

-----------------------------------------------------------------------------
MaxIterations == 3     \* CorrectionLoop.MAX_ITERATIONS
P0 == 0                \* the ranks of _PRIORITY_RANK
P1 == 1
Suppress == 4

Esc(c) == <<"escalation", c>>      \* the escalation loop that drains c's row
Loops == {Goal} \cup Corrections \cup Signals \cup Safeties \cup Shutdowns
            \cup {Esc(c) : c \in Corrections}
Tasks == Corrections \cup Signals \cup Safeties \cup Shutdowns \cup SubAgents
Keys == {"session", None} \X (Nodes \cup {None})

ASSUME NoneAssumption == None \notin Nodes \cup Nat \cup Loops \cup SubAgents

Risks == {"runaway", "invariant", "other"}
Ends == {"done", "raised", "collided"}
Over == {"completed", "failed", "forced"}

TypeOK ==
    /\ status \in [Loops -> {"absent", "running"} \cup Over]
    /\ sub \in [SubAgents -> {"absent", "running"} \cup Over]
    /\ visible \in SUBSET (Loops \cup SubAgents)
    /\ alerts \in SUBSET Keys
    /\ reported \in [Corrections -> 0..MaxIterations \cup {None}]
    /\ closed \in BOOLEAN
    /\ pc \in [Tasks -> Ends \cup {"idle", "retry", "attempt", "exhaust", "drain", "score",
                                   "present", "insert", "respond", "failsafe", "kill", "close",
                                   "handler"}]
    /\ parent \in [Corrections -> Corrections \cup {Goal, None}]
    /\ attempts \in [Corrections -> 0..MaxIterations]
    /\ prio \in [Signals -> P0..Suppress]
    /\ about \in [Signals \cup Safeties -> Keys]
    /\ risk \in [Safeties -> Risks]
    /\ trigger \in [Safeties -> Loops \cup SubAgents \cup {None}]
    /\ planned \in [Safeties -> SUBSET Keys]
    /\ tree \in [Shutdowns -> SUBSET (Loops \cup SubAgents)]

Init ==
    /\ status = [l \in Loops |-> IF l = Goal THEN "running" ELSE "absent"]
    /\ sub = [a \in SubAgents |-> "absent"]
    /\ visible = {Goal}
    /\ alerts = {}
    /\ reported = [c \in Corrections |-> None]
    /\ closed = FALSE
    /\ pc = [t \in Tasks |-> "idle"]
    /\ parent = [c \in Corrections |-> None]
    /\ attempts = [c \in Corrections |-> 0]
    /\ prio = [g \in Signals |-> Suppress]
    /\ about = [g \in Signals \cup Safeties |-> <<None, None>>]
    /\ risk = [s \in Safeties |-> "other"]
    /\ trigger = [s \in Safeties |-> None]
    /\ planned = [s \in Safeties |-> {}]
    /\ tree = [k \in Shutdowns |-> {}]

Goto(t, where) == pc' = [pc EXCEPT ![t] = where]

(* The goal loop ends by itself (SessionLoops); the user answers an alert. *)
GoalEnds ==
    /\ status[Goal] = "running"
    /\ status' = [status EXCEPT ![Goal] = "completed"]
    /\ UNCHANGED <<sub, visible, alerts, reported, closed, pc, tasks>>

Resolve(key) ==
    /\ key \in alerts
    /\ alerts' = alerts \ {key}
    /\ UNCHANGED <<rows, reported, closed, pc, tasks>>

-----------------------------------------------------------------------------
(* CorrectionLoop.run.  A correction may be called from a retry of another *)
(* one, on its database session: whoever commits, commits both.            *)
Child(c) == {d \in Corrections : parent[d] = c}
Waiting(c) == \E d \in Child(c) : pc[d] \notin Ends
Shared(c) == {c, parent[c]} \cap Corrections

CorrectRecursive(c, p, invariant) ==
    /\ pc[c] = "idle"
    /\ p \in Corrections => pc[p] = "attempt" /\ ~Waiting(p)
    /\ status' = [status EXCEPT ![c] = "running"]
    /\ parent' = [parent EXCEPT ![c] = p]
    /\ Goto(c, IF invariant THEN "exhaust" ELSE "retry")
    /\ UNCHANGED <<sub, visible, alerts, reported, closed,
                   attempts, prio, about, risk, trigger, planned, tree>>

Correct(c, p, invariant) ==
    /\ pc[c] = "idle"
    /\ p \in Corrections => pc[p] = "attempt" /\ ~Waiting(p)
    /\ status' = [status EXCEPT ![c] = "running"]
    /\ parent' = [parent EXCEPT ![c] = p]
    /\ Goto(c, IF p \in Corrections \/ invariant THEN "exhaust" ELSE "retry")
    /\ UNCHANGED <<sub, visible, alerts, reported, closed,
                   attempts, prio, about, risk, trigger, planned, tree>>

(* _retry_loop: the bounds, then retry_fn, which may commit or raise.      *)
AttemptUncounted(c) ==
    /\ pc[c] = "retry"
    /\ attempts[c] < MaxIterations
    /\ Goto(c, "attempt")
    /\ UNCHANGED <<rows, alerts, reported, closed, tasks>>

AttemptUnbounded(c) ==
    /\ pc[c] = "retry"
    /\ attempts' = [attempts EXCEPT ![c] = @ + 1]
    /\ Goto(c, "attempt")
    /\ UNCHANGED <<rows, alerts, reported, closed, parent, prio, about, risk, trigger, planned, tree>>

Attempt(c) ==
    /\ pc[c] = "retry"
    /\ attempts[c] < MaxIterations
    /\ attempts' = [attempts EXCEPT ![c] = @ + 1]
    /\ Goto(c, "attempt")
    /\ UNCHANGED <<rows, alerts, reported, closed, parent, prio, about, risk, trigger, planned, tree>>

AttemptFails(c) ==
    /\ pc[c] = "attempt"
    /\ ~Waiting(c)
    /\ visible' \in {visible, visible \cup {c}}
    /\ Goto(c, "retry")
    /\ UNCHANGED <<status, sub, alerts, reported, closed, tasks>>

(* The ORM writes the row by its id, whatever it has become.               *)
Recovered(c) ==
    /\ pc[c] = "attempt"
    /\ ~Waiting(c)
    /\ status' = [status EXCEPT ![c] = "completed"]
    /\ visible' = visible \cup Shared(c)
    /\ Goto(c, "done")
    /\ UNCHANGED <<sub, alerts, reported, closed, tasks>>

GiveUp(c) ==
    /\ pc[c] = "retry"          \* no retry left, or out of time
    /\ Goto(c, "exhaust")
    /\ UNCHANGED <<rows, alerts, reported, closed, tasks>>

(* The parent only while it runs, the own row unconditionally, the         *)
(* escalation loop's row; committed by that loop or the caller, with the   *)
(* roll-back of a partial write (NodeStore) and the snapshot.              *)
Exhausted(c) ==
    [l \in Loops |-> IF l = c THEN "failed"
                     ELSE IF l = Esc(c) THEN "running"
                     ELSE IF l = parent[c] /\ status[l] = "running" THEN "failed"
                     ELSE status[l]]

ExhaustUnreported(c) ==
    /\ pc[c] = "exhaust"
    /\ status' = Exhausted(c)
    /\ visible' = visible \cup Shared(c) \cup {Esc(c)}
    /\ Goto(c, "drain")
    /\ UNCHANGED <<sub, alerts, reported, closed, tasks>>

ExhaustBlind(c) ==
    /\ pc[c] = "exhaust"
    /\ reported' = [reported EXCEPT ![c] =
                      IF attempts[c] = MaxIterations THEN attempts[c] ELSE 0]
    /\ status' = Exhausted(c)
    /\ visible' = visible \cup Shared(c) \cup {Esc(c)}
    /\ Goto(c, "drain")
    /\ UNCHANGED <<sub, alerts, closed, tasks>>

Exhaust(c) ==
    /\ pc[c] = "exhaust"
    /\ reported' = [reported EXCEPT ![c] = attempts[c]]
    /\ status' = Exhausted(c)
    /\ visible' = visible \cup Shared(c) \cup {Esc(c)}
    /\ Goto(c, "drain")
    /\ UNCHANGED <<sub, alerts, closed, tasks>>

(* run_for_pending enriches the row in place, always as P1; or it raises - *)
(* its ten seconds count from the start of the transaction - and the       *)
(* exception is swallowed.                                                 *)
Drain(c) ==
    /\ pc[c] = "drain"
    /\ status' \in {status, [status EXCEPT ![Esc(c)] = "completed"]}
    /\ Goto(c, "done")
    /\ UNCHANGED <<sub, visible, alerts, reported, closed, tasks>>

(* retry_fn raises, or a statement fails: rolled back as far as nobody     *)
(* committed, or committed by a caller that went on.                       *)
CorrectionRaises(c) ==
    /\ pc[c] \in {"retry", "attempt", "exhaust"}
    /\ ~Waiting(c)
    /\ \/ visible' = visible \cup {c} /\ UNCHANGED status
       \/ /\ c \notin visible
          /\ status' = [status EXCEPT ![c] = "absent"]
          /\ UNCHANGED visible
    /\ Goto(c, "raised")
    /\ UNCHANGED <<sub, alerts, reported, closed, tasks>>

-----------------------------------------------------------------------------
(* EscalationLoop.run for a signal: _confirm_priority, the presenter, and  *)
(* _surface_row.  Invoking the skills commits.                             *)
Floor(type) == CASE type = "correction_exhaust" -> P1
                 [] type = "safety_alert" -> P0
                 [] OTHER -> None

Confirmed(type, claimed, scored) ==
    IF Floor(type) # None THEN Floor(type)
    ELSE IF claimed > scored THEN claimed ELSE scored

Signal(g, node) ==
    /\ pc[g] = "idle"
    /\ status' = [status EXCEPT ![g] = "running"]
    /\ about' = [about EXCEPT ![g] = <<"session", node>>]
    /\ Goto(g, "score")
    /\ UNCHANGED <<sub, visible, alerts, reported, closed,
                   parent, attempts, prio, risk, trigger, planned, tree>>

(* A scorer that fails leaves the claim.                                   *)
Score(g, type, claimed) ==
    /\ pc[g] = "score"
    /\ \E scored \in P0..Suppress :
          LET p == Confirmed(type, claimed, scored) IN
          /\ prio' = [prio EXCEPT ![g] = p]
          /\ status' = IF p = Suppress THEN [status EXCEPT ![g] = "completed"] ELSE status
          /\ Goto(g, IF p = Suppress THEN "done" ELSE "present")
    /\ visible' = visible \cup {g}
    /\ UNCHANGED <<sub, alerts, reported, closed,
                   parent, attempts, about, risk, trigger, planned, tree>>

DuplicateOfAny(g) == prio[g] = P0 /\ about[g][2] # None /\ alerts # {}

Duplicate(g) == prio[g] = P0 /\ about[g][2] # None /\ about[g] \in alerts

Present(g) ==
    /\ pc[g] = "present"
    /\ status' = IF Duplicate(g) THEN [status EXCEPT ![g] = "completed"] ELSE status
    /\ Goto(g, IF Duplicate(g) THEN "done" ELSE "insert")
    /\ UNCHANGED <<sub, visible, alerts, reported, closed, tasks>>

Surface(g) ==
    /\ pc[g] = "insert"
    /\ prio[g] = P0 => about[g] \notin alerts
    /\ alerts' = IF prio[g] = P0 THEN alerts \cup {about[g]} ELSE alerts
    /\ status' = [status EXCEPT ![g] = "completed"]
    /\ Goto(g, "done")
    /\ UNCHANGED <<sub, visible, reported, closed, tasks>>

(* The unique index refuses the row.                                       *)
SurfaceCollides(g) ==
    /\ pc[g] = "insert"
    /\ prio[g] = P0 /\ about[g] \in alerts
    /\ Goto(g, "collided")
    /\ UNCHANGED <<rows, alerts, reported, closed, tasks>>

(* Out of time before the first step, or a failing statement: the row is   *)
(* rolled back unless somebody committed it.                               *)
SignalRaises(g) ==
    /\ pc[g] \in {"score", "present", "insert"}
    /\ \/ visible' = visible \cup {g} /\ UNCHANGED status
       \/ /\ g \notin visible
          /\ status' = [status EXCEPT ![g] = "absent"]
          /\ UNCHANGED visible
    /\ Goto(g, "raised")
    /\ UNCHANGED <<sub, alerts, reported, closed, tasks>>

-----------------------------------------------------------------------------
(* SafetyLoop.run: one transaction without a commit before its caller's.   *)
(* _escalate looks a P0 up, if there is a session, and inserts it.         *)
Pending(s) == alerts \cup planned[s]

Risk(s, why, key, process) ==
    /\ pc[s] = "idle"
    /\ why = "runaway" => key[2] = None
    /\ process = None \/ process \in visible
    /\ risk' = [risk EXCEPT ![s] = why]
    /\ about' = [about EXCEPT ![s] = key]
    /\ trigger' = [trigger EXCEPT ![s] = process]
    /\ planned' = [planned EXCEPT ![s] =
                     IF why # "other" /\ (key[1] # None => key \notin alerts) THEN {key} ELSE {}]
    /\ Goto(s, "respond")
    /\ UNCHANGED <<rows, alerts, reported, closed, parent, attempts, prio, tree>>

(* More than ten seconds: the fail-safe's own P0, about no node.           *)
TooLate(s) ==
    /\ pc[s] = "respond"
    /\ LET key == <<about[s][1], None>> IN
       IF key \notin Pending(s)
       THEN planned' = [planned EXCEPT ![s] = @ \cup {key}] /\ Goto(s, "failsafe")
       ELSE UNCHANGED planned /\ Goto(s, IF key[1] = None THEN "collided" ELSE "failsafe")
    /\ UNCHANGED <<rows, alerts, reported, closed, parent, attempts, prio, about, risk, trigger, tree>>

(* The response to an invariant violation suspends the goal loop and stops *)
(* the sub-agents; the fail-safe stops the triggering process.             *)
Invariant(s) == risk[s] = "invariant" /\ about[s][1] # None
FailSafe(s, x) == pc[s] = "failsafe" /\ x = trigger[s]

SuspendsLoop(s, l) == l = Goal /\ status[l] = "running" /\ Invariant(s)
StopsLoop(s, l) == l \in visible /\ status[l] = "running" /\ FailSafe(s, l)
StopsSub(s, a) == a \in visible /\ sub[a] = "running" /\ (Invariant(s) \/ FailSafe(s, a))

RespondForgetting(s) ==
    /\ pc[s] \in {"respond", "failsafe"}
    /\ planned[s] \cap alerts = {}
    /\ alerts' = alerts \cup planned[s]
    /\ status' = [l \in Loops |-> IF l = s THEN IF pc[s] = "failsafe" THEN "forced" ELSE "completed"
                                  ELSE IF SuspendsLoop(s, l) THEN "failed"
                                  ELSE status[l]]
    /\ sub' = [a \in SubAgents |-> IF StopsSub(s, a) THEN "forced" ELSE sub[a]]
    /\ visible' = visible \cup {s}
    /\ Goto(s, "done")
    /\ UNCHANGED <<reported, closed, tasks>>

Respond(s) ==
    /\ pc[s] \in {"respond", "failsafe"}
    /\ planned[s] \cap alerts = {}
    /\ alerts' = alerts \cup planned[s]
    /\ status' = [l \in Loops |-> IF l = s THEN IF pc[s] = "failsafe" THEN "forced" ELSE "completed"
                                  ELSE IF SuspendsLoop(s, l) THEN "failed"
                                  ELSE IF StopsLoop(s, l) THEN "forced"
                                  ELSE status[l]]
    /\ sub' = [a \in SubAgents |-> IF StopsSub(s, a) THEN "forced" ELSE sub[a]]
    /\ visible' = visible \cup {s}
    /\ Goto(s, "done")
    /\ UNCHANGED <<reported, closed, tasks>>

(* The index refuses a planned row: the transaction is lost, what it       *)
(* stopped runs on.                                                        *)
RespondCollides(s) ==
    /\ pc[s] \in {"respond", "failsafe"}
    /\ planned[s] \cap alerts # {}
    /\ Goto(s, "collided")
    /\ UNCHANGED <<rows, alerts, reported, closed, tasks>>

(* Any other failure: nothing of the run is left.                          *)
SafetyRaises(s) ==
    /\ pc[s] \in {"respond", "failsafe"}
    /\ Goto(s, "raised")
    /\ UNCHANGED <<rows, alerts, reported, closed, tasks>>

-----------------------------------------------------------------------------
(* run_sub_agent: the row, the handler, which commits when it invokes a    *)
(* skill, and the final write, by id.                                      *)
Spawn(a) ==
    /\ pc[a] = "idle"
    /\ sub' = [sub EXCEPT ![a] = "running"]
    /\ Goto(a, "handler")
    /\ UNCHANGED <<status, visible, alerts, reported, closed, tasks>>

HandlerCommits(a) ==
    /\ pc[a] = "handler"
    /\ visible' = visible \cup {a}
    /\ UNCHANGED <<status, sub, alerts, reported, closed, pc, tasks>>

SubAgentEnds(a) ==
    /\ pc[a] = "handler"
    /\ \E end \in Over : sub' = [sub EXCEPT ![a] = end]
    /\ visible' = visible \cup {a}
    /\ Goto(a, "done")
    /\ UNCHANGED <<status, alerts, reported, closed, tasks>>

(* The final flush fails, or the process dies.                             *)
SubAgentLost(a) ==
    /\ pc[a] = "handler"
    /\ sub' = IF a \in visible THEN sub ELSE [sub EXCEPT ![a] = "absent"]
    /\ Goto(a, "raised")
    /\ UNCHANGED <<status, visible, alerts, reported, closed, tasks>>

-----------------------------------------------------------------------------
(* ShutdownLoop.run, or /close, which calls terminate_active_tree without  *)
(* a row of its own: read the active tree, then end it and close.          *)
FindTree(k) ==
    /\ pc[k] = "idle"
    /\ tree' = [tree EXCEPT ![k] = visible \cap ({l \in Loops : status[l] = "running"}
                                                 \cup {a \in SubAgents : sub[a] = "running"})]
    /\ Goto(k, "kill")
    /\ UNCHANGED <<rows, alerts, reported, closed, parent, attempts, prio, about, risk,
                   trigger, planned>>

(* The rows are written by id.  run() closes the session in the same       *)
(* transaction and ends its own row, /close does it in its next one.       *)
KillTree(k) ==
    /\ pc[k] = "kill"
    /\ sub' = [a \in SubAgents |-> IF a \in tree[k] THEN "forced" ELSE sub[a]]
    /\ \E own \in {"completed", "absent"} :
          /\ status' = [l \in Loops |-> IF l = k THEN own
                                        ELSE IF l \in tree[k] THEN "forced" ELSE status[l]]
          /\ closed' = (closed \/ own = "completed")
          /\ Goto(k, IF own = "completed" THEN "done" ELSE "close")
    /\ visible' = visible \cup {k}
    /\ UNCHANGED <<alerts, reported, tasks>>

Close(k) ==
    /\ pc[k] = "close"
    /\ closed' = TRUE
    /\ Goto(k, "done")
    /\ UNCHANGED <<rows, alerts, reported, tasks>>

-----------------------------------------------------------------------------
Correction(c) ==
    \/ \E p \in Corrections \cup {Goal, None}, invariant \in BOOLEAN :
          p # c /\ Correct(c, p, invariant)
    \/ Attempt(c) \/ AttemptFails(c) \/ Recovered(c) \/ GiveUp(c)
    \/ Exhaust(c) \/ Drain(c) \/ CorrectionRaises(c)

Escalation(g) ==
    \/ \E node \in Nodes \cup {None} : Signal(g, node)
    \/ \E type \in {"p0_signal", "safety_alert", "correction_exhaust"},
          claimed \in P0..P1 : Score(g, type, claimed)
    \/ Present(g) \/ Surface(g) \/ SurfaceCollides(g) \/ SignalRaises(g)

Safety(s) ==
    \/ \E why \in Risks, key \in Keys, process \in Corrections \cup SubAgents \cup {Goal, None} :
          Risk(s, why, key, process)
    \/ TooLate(s) \/ Respond(s) \/ RespondCollides(s) \/ SafetyRaises(s)

Shutdown(k) == FindTree(k) \/ KillTree(k) \/ Close(k)

SubAgent(a) == Spawn(a) \/ HandlerCommits(a) \/ SubAgentEnds(a) \/ SubAgentLost(a)

Next ==
    \/ GoalEnds
    \/ \E key \in Keys : Resolve(key)
    \/ \E c \in Corrections : Correction(c)
    \/ \E g \in Signals : Escalation(g)
    \/ \E s \in Safeties : Safety(s)
    \/ \E k \in Shutdowns : Shutdown(k)
    \/ \E a \in SubAgents : SubAgent(a)

Spec == Init /\ [][Next]_vars

(* A task that runs is scheduled again until it ends: an await inside it   *)
(* returns, by its own timeout at the latest.                              *)
Running(c) ==
    \/ Attempt(c) \/ AttemptFails(c) \/ Recovered(c) \/ GiveUp(c)
    \/ Exhaust(c) \/ Drain(c)

Fairness == \A c \in Corrections : WF_vars(Running(c))

FairSpec == Spec /\ Fairness

-----------------------------------------------------------------------------
(* A correction and the corrections its retries spawn try three times in   *)
(* all (MAX_CORRECTION_DEPTH, _retry_loop).                                *)
AttemptsBounded ==
    \A c \in Corrections :
        attempts[c] + MapThenSumSet(LAMBDA d : attempts[d], Child(c)) <= MaxIterations

(* The correction_exhaust row tells the retries that were made, also when  *)
(* time ended them (_retry_loop's fix).                                    *)
ReportIsTrue == \A c \in Corrections : reported[c] # None => reported[c] = attempts[c]

(* The goal loop is never failed silently: a correction_exhaust row or an  *)
(* invariant response stands for it.                                       *)
FailureIsReported ==
    status[Goal] = "failed" =>
        \/ \E c \in Corrections : parent[c] = Goal /\ reported[c] # None
        \/ \E s \in Safeties : risk[s] = "invariant" /\ pc[s] = "done"

(* What the fail-safe force-terminated is over, whatever writes its row    *)
(* later (_fail_safe_force_terminate).                                     *)
FailSafeStops ==
    \A s \in Safeties : status[s] = "forced" =>
        /\ trigger[s] \in Loops => status[trigger[s]] # "running"
        /\ trigger[s] \in SubAgents => sub[trigger[s]] # "running"

(* The inductive strengthening.  A correction that has not begun is seen by *)
(* nobody and has tried nothing; one that a retry spawned does not retry;   *)
(* a report is written once, after the last retry.                          *)
CorrectionsInv ==
    \A c \in Corrections :
        /\ pc[c] = "idle" => c \notin visible /\ attempts[c] = 0
        /\ parent[c] \in Corrections =>
              pc[parent[c]] # "idle" /\ pc[c] \notin {"retry", "attempt"} /\ attempts[c] = 0
        /\ reported[c] # None => pc[c] \in {"drain", "done"}

SubAgentsInv == \A a \in SubAgents : a \in visible => pc[a] # "idle"

(* A safety run has no row before it ends, so no shutdown finds one; what   *)
(* triggered it was committed.                                              *)
SafetiesInv ==
    \A s \in Safeties :
        /\ status[s] \in {"absent", "completed", "forced"}
        /\ status[s] # "absent" => pc[s] = "done"
        /\ trigger[s] \in Corrections \cup SubAgents \cup {Goal, None}
        /\ trigger[s] # None => trigger[s] \in visible

TreesInv == \A k \in Shutdowns : tree[k] \cap Safeties = {}

IInv ==
    /\ TypeOK
    /\ CorrectionsInv
    /\ SubAgentsInv
    /\ SafetiesInv
    /\ TreesInv
    /\ ReportIsTrue
    /\ FailureIsReported
    /\ FailSafeStops

(* A signal confirmed as P0 is never dropped as the duplicate of another   *)
(* alert: one about the same thing is pending when it ends (_surface_row). *)
SurfacedIsPending ==
    [][\A g \in Signals :
          pc[g] \in {"present", "insert"} /\ pc'[g] = "done" /\ prio[g] = P0
          => about[g] \in alerts']_vars

(* Every correction comes to an end: retries, rollback and escalation are  *)
(* bounded together.                                                       *)
CorrectionEnds == \A c \in Corrections : pc[c] # "idle" ~> pc[c] \in Ends

(* The fail-safe never fails on its own alert.  False: without a session   *)
(* _escalate does not look up, and between look-up and insert another run  *)
(* may insert.                                                             *)
FailSafeNeverFails == \A s \in Safeties : pc[s] # "collided"

(* An ended correction leaves no escalation loop running.  False: the      *)
(* exception of the drain is swallowed, its row is committed.              *)
EscalationRowEnds == \A c \in Corrections : pc[c] = "done" => status[Esc(c)] # "running"

(* A repeated P0 is recognised, never refused by the index.  False: only   *)
(* signals about a node are looked up.                                     *)
RepeatIsSkipped == \A g \in Signals : pc[g] # "collided"

(* A failed or terminated loop stays so.  False: corrections, escalations  *)
(* and the shutdown write rows by id.                                      *)
EndedStaysEnded ==
    [][\A l \in Loops : status[l] \in {"failed", "forced"} => status'[l] = status[l]]_vars

(* A terminated sub-agent run stays terminated.  False: its final write    *)
(* comes later.                                                            *)
ForcedStaysForced == [][\A a \in SubAgents : sub[a] = "forced" => sub'[a] = "forced"]_vars

(* A closed session has no active sub-agent run.  False: a run whose row   *)
(* was not committed yet is not found.                                     *)
ClosedLeavesNoOrphan ==
    closed => \A a \in SubAgents \cap visible : sub[a] # "running"
=============================================================================
