---------------------------- MODULE SessionLoops ----------------------------
(***************************************************************************)
(* The session API of Aether (start, input, reject, close), the goal loop, *)
(* the reflection loop and the LoopWatchdog over the tables they share:    *)
(* sessions, loop_runs and pending_escalations.                            *)
(*                                                                         *)
(* A request is a task of its own with its own database session.  A task   *)
(* step is the code between two awaits at which another task can commit:   *)
(* one SELECT whose result is used later, or one committed transaction.    *)
(* The database runs READ COMMITTED, so nothing a task read is protected   *)
(* when it writes.                                                         *)
(*                                                                         *)
(* Rows are named by the task that inserts them: session s and its goal    *)
(* loop by the /start task s, a reflection loop by the /close task that    *)
(* runs it, the watchdog's P0 alert by the loop it reports.                *)
(***************************************************************************)
EXTENDS Naturals, FiniteSets

CONSTANTS
    Tasks,          \* the requests a client may ever send (bounds the run)
    GoalMax,        \* GoalLoop.MAX_ITERATIONS
    ReflectionMax,  \* ReflectionLoop.MAX_ITERATIONS
    MaxCrashes,     \* how often the process may die (bounds the run)
    None            \* no row

ASSUME GoalMaxAssumption == GoalMax \in Nat \ {0}
ASSUME ReflectionMaxAssumption == ReflectionMax \in Nat /\ ReflectionMax > 1
ASSUME MaxCrashesAssumption == MaxCrashes \in Nat
ASSUME NoneAssumption == None \notin Tasks

VARIABLES
    \* the database
    sessionStatus,  \* sessions.status
    loopStatus,     \* loop_runs.status
    iteration,      \* loop_runs.iteration_count
    expired,        \* whether now - loop_runs.start_time > max_duration_ms
    alert,          \* the node-less P0 safety_alert the watchdog wrote for a loop
    notice,         \* the P1 clarifications a turn wrote, by their writer
    \* the requests
    op,             \* the endpoint a task serves
    pc,             \* where it stands
    sess,           \* the session of its URL (for /start: the one it created)
    target,         \* the loop row it looked up
    seen,           \* the iteration_count it read
    doomed,         \* the RUNNING rows terminate_active_tree selected
    turned,         \* tasks whose turn was counted: what really ran
    \* the process and its watchdog
    up,             \* the process, hence the watchdog task, is running
    crashes,
    wd,             \* where the watchdog cycle stands
    batch           \* overdue rows of the watchdog's SELECT, not yet handled

db == <<sessionStatus, loopStatus, iteration, expired, alert, notice>>
requests == <<op, pc, sess, target, seen, doomed, turned>>
process == <<up, crashes>>
watchdog == <<wd, batch>>
vars == <<db, requests, process, watchdog>>

-----------------------------------------------------------------------------
Terminal == {"completed", "failed", "forced_termination"}
LoopStatus == {"absent", "running"} \cup Terminal
RowState == {"none", "pending", "resolved"}   \* EscalationStatus, or no row
Writers == {"goal_loop", "input_route"}

Ops == {"none", "start", "input", "reject", "close"}
InFlight ==
    {"start.init", "start.goal",
     "input.loop", "turn.check", "turn.bump", "turn.agent",
     "turn.escalate", "input.escalate",
     "reject.update",
     "close.loop", "close.complete", "close.tree", "close.kill",
     "close.session", "close.summary", "reflect.start", "reflect.run"}

TypeOK ==
    /\ sessionStatus \in [Tasks -> {"absent", "active", "closed"}]
    /\ loopStatus \in [Tasks -> LoopStatus]
    /\ iteration \in [Tasks -> Nat]
    /\ expired \in [Tasks -> BOOLEAN]
    /\ alert \in [Tasks -> RowState]
    /\ notice \in [Tasks -> [Writers -> RowState]]
    /\ op \in [Tasks -> Ops]
    /\ pc \in [Tasks -> {"idle", "done"} \cup InFlight]
    /\ sess \in [Tasks -> Tasks \cup {None}]
    /\ target \in [Tasks -> Tasks \cup {None}]
    /\ seen \in [Tasks -> Nat]
    /\ doomed \in [Tasks -> SUBSET Tasks]
    /\ turned \in SUBSET Tasks
    /\ up \in BOOLEAN
    /\ crashes \in 0..MaxCrashes
    /\ wd \in {"sleep", "loops", "clean"}
    /\ batch \in SUBSET Tasks

Init ==
    /\ sessionStatus = [t \in Tasks |-> "absent"]
    /\ loopStatus = [t \in Tasks |-> "absent"]
    /\ iteration = [t \in Tasks |-> 0]
    /\ expired = [t \in Tasks |-> FALSE]
    /\ alert = [t \in Tasks |-> "none"]
    /\ notice = [t \in Tasks |-> [w \in Writers |-> "none"]]
    /\ op = [t \in Tasks |-> "none"]
    /\ pc = [t \in Tasks |-> "idle"]
    /\ sess = [t \in Tasks |-> None]
    /\ target = [t \in Tasks |-> None]
    /\ seen = [t \in Tasks |-> 0]
    /\ doomed = [t \in Tasks |-> {}]
    /\ turned = {}
    /\ up = TRUE
    /\ crashes = 0
    /\ wd = "sleep"
    /\ batch = {}

-----------------------------------------------------------------------------
(* Helpers.                                                                *)

Running(s) == {l \in Tasks : loopStatus[l] = "running" /\ sess[l] = s}

(* ORDER BY start_time DESC LIMIT 1: a reflection row is younger than the  *)
(* session's goal row; the order of two reflection rows is left open.      *)
Newest(s) ==
    {l \in Running(s) : op[l] = "start" => \A m \in Running(s) : op[m] = "start"}

MaxIterations(l) == IF op[l] = "start" THEN GoalMax ELSE ReflectionMax

Overdue(l) ==
    /\ loopStatus[l] = "running"
    /\ iteration[l] >= MaxIterations(l) \/ expired[l]

(* uq_pe_p0_pending_per_node, NULLS NOT DISTINCT: a session holds at most  *)
(* one pending P0 without a node_id.                                       *)
AlertOpen(s) == \E l \in Tasks : sess[l] = s /\ alert[l] = "pending"

At(t, here) == up /\ pc[t] = here
Goto(t, there) == pc' = [pc EXCEPT ![t] = there]

(* Session s is known to clients once its /start request has ended.        *)
Known(s) == sessionStatus[s] # "absent" /\ pc[s] = "done"

-----------------------------------------------------------------------------
(* POST /session/start                                                     *)

Start(t) ==
    /\ At(t, "idle")
    /\ op' = [op EXCEPT ![t] = "start"]
    /\ sess' = [sess EXCEPT ![t] = t]
    /\ sessionStatus' = [sessionStatus EXCEPT ![t] = "active"]
    /\ Goto(t, "start.init")
    /\ UNCHANGED <<loopStatus, iteration, expired, alert, notice,
                   target, seen, doomed, turned, process, watchdog>>

(* session_initializer and rebuild_l1 succeed.                             *)
StartInit(t) ==
    /\ At(t, "start.init")
    /\ Goto(t, "start.goal")
    /\ UNCHANGED <<db, op, sess, target, seen, doomed, turned, process, watchdog>>

(* LoopWatchdog.is_healthy() holds while the process is up.                *)
StartGoal(t) ==
    /\ At(t, "start.goal")
    /\ loopStatus' = [loopStatus EXCEPT ![t] = "running"]
    /\ Goto(t, "done")
    /\ UNCHANGED <<sessionStatus, iteration, expired, alert, notice,
                   op, sess, target, seen, doomed, turned, process, watchdog>>

-----------------------------------------------------------------------------
(* The check the other endpoints begin with (_get_active_session): 404     *)
(* unless the session is ACTIVE.                                           *)

Request(t, o, s, first) ==
    /\ At(t, "idle")
    /\ Known(s)
    /\ op' = [op EXCEPT ![t] = o]
    /\ sess' = [sess EXCEPT ![t] = s]
    /\ Goto(t, IF sessionStatus[s] = "active" THEN first ELSE "done")
    /\ UNCHANGED <<db, target, seen, doomed, turned, process, watchdog>>

(* _get_active_loop_run_id: the newest RUNNING loop of any type, else 404. *)
LookUpLoop(t, here, there) ==
    /\ At(t, here)
    /\ \/ \E l \in Newest(sess[t]) :
             /\ target' = [target EXCEPT ![t] = l]
             /\ Goto(t, there)
       \/ /\ Running(sess[t]) = {}
          /\ Goto(t, "done")
          /\ UNCHANGED target
    /\ UNCHANGED <<db, op, sess, seen, doomed, turned, process, watchdog>>

-----------------------------------------------------------------------------
(* POST /session/{id}/input                                                *)

Input(t, s) == Request(t, "input", s, "input.loop")
InputLoop(t) == LookUpLoop(t, "input.loop", "turn.check")

(* Variant: the bound is off by one.                                       *)
TurnCheckOffByOne(t) ==
    /\ At(t, "turn.check")
    /\ iteration[target[t]] <= GoalMax
    /\ ~expired[target[t]]
    /\ seen' = [seen EXCEPT ![t] = iteration[target[t]]]
    /\ Goto(t, "turn.bump")
    /\ UNCHANGED <<db, op, sess, target, doomed, turned, process, watchdog>>

(* STEP 1 of execute_turn: the bounds are GoalLoop's whatever the row's    *)
(* type, and the row's status is not looked at.                            *)
TurnCheck(t) ==
    /\ At(t, "turn.check")
    /\ \/ /\ iteration[target[t]] < GoalMax
          /\ ~expired[target[t]]
          /\ seen' = [seen EXCEPT ![t] = iteration[target[t]]]
          /\ Goto(t, "turn.bump")
       \/ /\ iteration[target[t]] >= GoalMax \/ expired[target[t]]
          /\ Goto(t, "done")
          /\ UNCHANGED seen
    /\ UNCHANGED <<db, op, sess, target, doomed, turned, process, watchdog>>

(* Variants: the endpoint counts the turn as well; the UPDATE also writes  *)
(* the status it assumes.                                                  *)
TurnBumpTwice(t) ==
    /\ At(t, "turn.bump")
    /\ iteration' = [iteration EXCEPT ![target[t]] = seen[t] + 2]
    /\ turned' = turned \cup {t}
    /\ Goto(t, "turn.agent")
    /\ UNCHANGED <<sessionStatus, loopStatus, expired, alert, notice,
                   op, sess, target, seen, doomed, process, watchdog>>

(* STEP 2: the count written is the count read, plus one.                  *)
TurnBump(t) ==
    /\ At(t, "turn.bump")
    /\ iteration' = [iteration EXCEPT ![target[t]] = seen[t] + 1]
    /\ turned' = turned \cup {t}
    /\ Goto(t, "turn.agent")
    /\ UNCHANGED <<sessionStatus, loopStatus, expired, alert, notice,
                   op, sess, target, seen, doomed, process, watchdog>>

(* STEPS 3-5: the Master Agent answers, with or without action requests.   *)
TurnAgent(t) ==
    /\ At(t, "turn.agent")
    /\ \E next \in {"done", "turn.escalate"} : Goto(t, next)
    /\ UNCHANGED <<db, op, sess, target, seen, doomed, turned, process, watchdog>>

WriteNotice(t, here, writer, there) ==
    /\ At(t, here)
    /\ notice' = [notice EXCEPT ![t] = [@ EXCEPT ![writer] = "pending"]]
    /\ Goto(t, there)
    /\ UNCHANGED <<sessionStatus, loopStatus, iteration, expired, alert,
                   op, sess, target, seen, doomed, turned, process, watchdog>>

(* STEP 6, and the same insert again in the endpoint.                      *)
TurnEscalate(t) == WriteNotice(t, "turn.escalate", "goal_loop", "input.escalate")
InputEscalate(t) == WriteNotice(t, "input.escalate", "input_route", "done")

-----------------------------------------------------------------------------
(* POST /session/{id}/approve with approved = false: every pending         *)
(* escalation of the session is resolved, whatever it is about.  It names  *)
(* some action_log row of the session; a counted turn and a forced         *)
(* termination leave one.                                                  *)

Reject(t, s) ==
    /\ \E u \in Tasks : sess[u] = s /\ (u \in turned \/ alert[u] # "none")
    /\ Request(t, "reject", s, "reject.update")

Resolved(state) == IF state = "pending" THEN "resolved" ELSE state

(* Variant: the UPDATE without its session_id condition.                   *)
RejectUpdateAnySession(t) ==
    /\ At(t, "reject.update")
    /\ alert' = [l \in Tasks |-> Resolved(alert[l])]
    /\ notice' = [u \in Tasks |-> [w \in Writers |-> Resolved(notice[u][w])]]
    /\ Goto(t, "done")
    /\ UNCHANGED <<sessionStatus, loopStatus, iteration, expired,
                   op, sess, target, seen, doomed, turned, process, watchdog>>

RejectUpdate(t) ==
    /\ At(t, "reject.update")
    /\ alert' = [l \in Tasks |->
                    IF sess[l] = sess[t] THEN Resolved(alert[l]) ELSE alert[l]]
    /\ notice' = [u \in Tasks |-> [w \in Writers |->
                    IF sess[u] = sess[t] THEN Resolved(notice[u][w]) ELSE notice[u][w]]]
    /\ Goto(t, "done")
    /\ UNCHANGED <<sessionStatus, loopStatus, iteration, expired,
                   op, sess, target, seen, doomed, turned, process, watchdog>>

-----------------------------------------------------------------------------
(* POST /session/{id}/close                                                *)

(* Variant: the session is closed before its loops are.                    *)
CloseSessionFirst(t, s) == Request(t, "close", s, "close.session")

Close(t, s) == Request(t, "close", s, "close.loop")
CloseLoop(t) == LookUpLoop(t, "close.loop", "close.complete")

(* GoalLoop.complete: guarded by status = RUNNING.                         *)
CloseComplete(t) ==
    /\ At(t, "close.complete")
    /\ loopStatus' = [loopStatus EXCEPT ![target[t]] =
                         IF @ = "running" THEN "completed" ELSE @]
    /\ Goto(t, "close.tree")
    /\ UNCHANGED <<sessionStatus, iteration, expired, alert, notice,
                   op, sess, target, seen, doomed, turned, process, watchdog>>

(* ShutdownLoop.terminate_active_tree: SELECT the RUNNING rows ...         *)
CloseTree(t) ==
    /\ At(t, "close.tree")
    /\ doomed' = [doomed EXCEPT ![t] = Running(sess[t])]
    /\ Goto(t, "close.kill")
    /\ UNCHANGED <<db, op, sess, target, seen, turned, process, watchdog>>

(* ... and write them back by id, without looking at their status again.   *)
CloseKill(t) ==
    /\ At(t, "close.kill")
    /\ loopStatus' = [l \in Tasks |->
                         IF l \in doomed[t] THEN "forced_termination" ELSE loopStatus[l]]
    /\ doomed' = [doomed EXCEPT ![t] = {}]
    /\ Goto(t, "close.session")
    /\ UNCHANGED <<sessionStatus, iteration, expired, alert, notice,
                   op, sess, target, seen, turned, process, watchdog>>

CloseSession(t) ==
    /\ At(t, "close.session")
    /\ sessionStatus' = [sessionStatus EXCEPT ![sess[t]] = "closed"]
    /\ Goto(t, "close.summary")
    /\ UNCHANGED <<loopStatus, iteration, expired, alert, notice,
                   op, sess, target, seen, doomed, turned, process, watchdog>>

(* Snapshot, summary and the synthesis threshold check.                    *)
CloseSummary(t) ==
    /\ At(t, "close.summary")
    /\ Goto(t, "reflect.start")
    /\ UNCHANGED <<db, op, sess, target, seen, doomed, turned, process, watchdog>>

(* ReflectionLoop.run: the first invoke_skill commits the RUNNING row.     *)
ReflectStart(t) ==
    /\ At(t, "reflect.start")
    /\ loopStatus' = [loopStatus EXCEPT ![t] = "running"]
    /\ iteration' = [iteration EXCEPT ![t] = 1]
    /\ Goto(t, "reflect.run")
    /\ UNCHANGED <<sessionStatus, expired, alert, notice,
                   op, sess, target, seen, doomed, turned, process, watchdog>>

(* The sequence ended; the ORM writes the status by id.                    *)
ReflectEnd(t) ==
    /\ At(t, "reflect.run")
    /\ \E status \in {"completed", "failed"} :
          loopStatus' = [loopStatus EXCEPT ![t] = status]
    /\ Goto(t, "done")
    /\ UNCHANGED <<sessionStatus, iteration, expired, alert, notice,
                   op, sess, target, seen, doomed, turned, process, watchdog>>

-----------------------------------------------------------------------------
(* An exception ends the request: a skill, the model or the synthesis run  *)
(* raises, or the reflection's last flush meets a database transaction     *)
(* that an inner error already aborted, and its row stays as it is.        *)
Fallible == {"start.init", "turn.agent", "close.summary", "reflect.run"}

Fail(t) ==
    /\ up
    /\ pc[t] \in Fallible
    /\ Goto(t, "done")
    /\ UNCHANGED <<db, op, sess, target, seen, doomed, turned, process, watchdog>>

(* Time: a loop outlives its max_duration_ms.                              *)
Expire(l) ==
    /\ loopStatus[l] # "absent"
    /\ ~expired[l]
    /\ expired' = [expired EXCEPT ![l] = TRUE]
    /\ UNCHANGED <<sessionStatus, loopStatus, iteration, alert, notice,
                   requests, process, watchdog>>

-----------------------------------------------------------------------------
(* LoopWatchdog                                                            *)

(* Variants: the SELECT without its status condition; the duration bound   *)
(* forgotten; the UPDATE committed without the P0 row; the cleanup left    *)
(* out of the cycle.                                                       *)
WatchScanAnyStatus ==
    /\ up
    /\ wd = "sleep"
    /\ batch' = {l \in Tasks : loopStatus[l] # "absent" /\ expired[l]}
    /\ wd' = "loops"
    /\ UNCHANGED <<db, requests, process>>

WatchScanNoDuration ==
    /\ up
    /\ wd = "sleep"
    /\ batch' = {l \in Tasks : loopStatus[l] = "running" /\ iteration[l] >= MaxIterations(l)}
    /\ wd' = "loops"
    /\ UNCHANGED <<db, requests, process>>

WatchTerminateSilently(l) ==
    /\ up
    /\ wd = "loops"
    /\ l \in batch
    /\ loopStatus' = [loopStatus EXCEPT ![l] = "forced_termination"]
    /\ batch' = batch \ {l}
    /\ UNCHANGED <<sessionStatus, iteration, expired, alert, notice, requests, process, wd>>

WatchLoopsDoneNoCleanup ==
    /\ up
    /\ wd = "loops"
    /\ batch = {}
    /\ wd' = "sleep"
    /\ UNCHANGED <<db, requests, process, batch>>

WatchScan ==
    /\ up
    /\ wd = "sleep"
    /\ batch' = {l \in Tasks : Overdue(l)}
    /\ wd' = "loops"
    /\ UNCHANGED <<db, requests, process>>

(* One transaction: UPDATE by id, the P0 row, the action_log row.          *)
WatchTerminate(l) ==
    /\ up
    /\ wd = "loops"
    /\ l \in batch
    /\ ~AlertOpen(sess[l])
    /\ loopStatus' = [loopStatus EXCEPT ![l] = "forced_termination"]
    /\ alert' = [alert EXCEPT ![l] = "pending"]
    /\ batch' = batch \ {l}
    /\ UNCHANGED <<sessionStatus, iteration, expired, notice, requests, process, wd>>

(* The P0 insert violates the unique index: the transaction is rolled back *)
(* and _watch's handler ends the whole cycle.                              *)
WatchCollide(l) ==
    /\ up
    /\ wd = "loops"
    /\ l \in batch
    /\ AlertOpen(sess[l])
    /\ batch' = {}
    /\ wd' = "sleep"
    /\ UNCHANGED <<db, requests, process>>

WatchLoopsDone ==
    /\ up
    /\ wd = "loops"
    /\ batch = {}
    /\ wd' = "clean"
    /\ UNCHANGED <<db, requests, process, batch>>

(* _check_stale_skill_logs, then the next sleep.                           *)
WatchClean ==
    /\ up
    /\ wd = "clean"
    /\ wd' = "sleep"
    /\ UNCHANGED <<db, requests, process, batch>>

Watchdog ==
    \/ WatchScan
    \/ \E l \in Tasks : WatchTerminate(l) \/ WatchCollide(l)
    \/ WatchLoopsDone
    \/ WatchClean

-----------------------------------------------------------------------------
(* The process dies: its tasks and its watchdog cycle with it.  Nothing at *)
(* start-up looks at the loop rows it left.                                *)

Crash ==
    /\ up
    /\ crashes < MaxCrashes
    /\ up' = FALSE
    /\ crashes' = crashes + 1
    /\ pc' = [t \in Tasks |-> IF pc[t] \in InFlight THEN "done" ELSE pc[t]]
    /\ wd' = "sleep"
    /\ batch' = {}
    /\ UNCHANGED <<db, op, sess, target, seen, doomed, turned>>

Restart ==
    /\ ~up
    /\ up' = TRUE
    /\ UNCHANGED <<db, requests, crashes, watchdog>>

-----------------------------------------------------------------------------
Arrive(t) ==
    \/ Start(t)
    \/ \E s \in Tasks : Input(t, s) \/ Reject(t, s) \/ Close(t, s)

Advance(t) ==
    \/ StartInit(t) \/ StartGoal(t)
    \/ InputLoop(t) \/ TurnCheck(t) \/ TurnBump(t) \/ TurnAgent(t)
    \/ TurnEscalate(t) \/ InputEscalate(t)
    \/ RejectUpdate(t)
    \/ CloseLoop(t) \/ CloseComplete(t) \/ CloseTree(t) \/ CloseKill(t)
    \/ CloseSession(t) \/ CloseSummary(t) \/ ReflectStart(t) \/ ReflectEnd(t)
    \/ Fail(t)

Next ==
    \/ \E t \in Tasks : Arrive(t) \/ Advance(t) \/ Expire(t)
    \/ Watchdog
    \/ Crash
    \/ Restart

Spec == Init /\ [][Next]_vars

(* The event loop runs every request that has arrived and the watchdog's   *)
(* next await to their end while the process is up (skills and model calls *)
(* have timeouts).  Clients, time and crashes owe nothing.                 *)
Fairness ==
    /\ WF_vars(Watchdog)
    /\ \A t \in Tasks : WF_vars(Advance(t))

FairSpec == Spec /\ Fairness
-----------------------------------------------------------------------------
(***************************************************************************)
(* Properties that hold.                                                   *)
(***************************************************************************)

(* A session never has two node-less P0 alerts pending, whichever loops    *)
(* were forced and whatever was resolved in between (PB-03, the unique     *)
(* index uq_pe_p0_pending_per_node and the paths that meet it).            *)
OneOpenAlert ==
    \A l, m \in Tasks :
        alert[l] = "pending" /\ alert[m] = "pending" /\ sess[l] = sess[m] => l = m

(* A loop with a watchdog alert is over, and stays over although other     *)
(* tasks still write its row; a batch never holds a loop already reported. *)
AlertedLoopsAreOver ==
    \A l \in Tasks :
        alert[l] # "none" => loopStatus[l] \in Terminal /\ l \notin batch

(* No goal loop ends in silence: the watchdog's alert exists, or a /close  *)
(* request of the session got as far as looking a loop up.                 *)
GoalEndsForAReason ==
    \A s \in Tasks :
        op[s] = "start" /\ loopStatus[s] \in Terminal =>
            \/ alert[s] # "none"
            \/ \E t \in Tasks : op[t] = "close" /\ sess[t] = s /\ target[t] # None

(* Nothing of a session outlives its close (INV-09): once it is closed     *)
(* only reflection loops of its /close requests run, and while it is       *)
(* active only its goal loop does.                                         *)
ClosedIsQuiet ==
    \A l \in Tasks :
        loopStatus[l] = "running" =>
            /\ sessionStatus[sess[l]] # "absent"
            /\ (op[l] = "close") <=> (sessionStatus[sess[l]] = "closed")

TurnsOf(l) == {t \in turned : target[t] = l}

(* iteration_count never passes GoalLoop.MAX_ITERATIONS, however requests  *)
(* interleave: the value written is one more than a value read below it.   *)
IterationBounded == \A l \in Tasks : iteration[l] <= GoalMax

(* iteration_count never claims a turn that did not run: concurrent turns  *)
(* lose updates, and only that way (a reflection row starts at 1).         *)
CountIsHonest ==
    \A l \in Tasks :
        iteration[l] <= Cardinality(TurnsOf(l)) + (IF op[l] = "close" THEN 1 ELSE 0)

(* A loop that is over never runs again and a closed session never opens   *)
(* again, although four writers update these rows by id.                   *)
OverIsOver ==
    [][/\ \A l \in Tasks : loopStatus[l] \in Terminal => loopStatus'[l] \in Terminal
       /\ \A s \in Tasks : sessionStatus[s] = "closed" => sessionStatus'[s] = "closed"]_vars

(* A loop the watchdog would end now, were the session's P0 slot not taken *)
(* by an earlier alert.                                                    *)
Colliding(l) == Overdue(l) /\ AlertOpen(sess[l])

(* The watchdog ends every overdue loop of every session, unless some      *)
(* overdue loop belongs to a session whose P0 is still pending, or the     *)
(* process goes down.                                                      *)
OverdueIsEnded ==
    \A l \in Tasks :
        up /\ Overdue(l) ~>
            \/ loopStatus[l] # "running"
            \/ ~up
            \/ \E m \in Tasks : Colliding(m)

(* The stale skill log rows are looked at again and again, on the same     *)
(* condition: the cleanup runs in the cycle that ends loops.               *)
CleanupRecurs ==
    up ~> \/ wd = "clean"
          \/ ~up
          \/ \E m \in Tasks : Colliding(m)

(* The rows obey the contract of LoopLifecycle.                            *)
Phase(status) == CASE status = "absent" -> "absent"
                   [] status = "running" -> "live"
                   [] OTHER -> "ended"

Contract == INSTANCE LoopLifecycle WITH
    Loops <- Tasks, Owners <- Tasks, NoOwner <- None,
    phase <- [l \in Tasks |-> Phase(loopStatus[l])],
    owner <- [l \in Tasks |-> IF loopStatus[l] = "absent" THEN None ELSE sess[l]],
    alarm <- alert

ContractSpec == Contract!Spec

(***************************************************************************)
(* The inductive invariant behind the safety properties: where a task      *)
(* stands fixes which rows exist and whom they belong to.                  *)
(***************************************************************************)

StartPc == {"start.init", "start.goal"}
TurnPc == {"turn.check", "turn.bump", "turn.agent", "turn.escalate", "input.escalate"}
ClosingPc == {"close.complete", "close.tree", "close.kill", "close.session",
              "close.summary", "reflect.start", "reflect.run"}
EndedGoalPc == ClosingPc \ {"close.complete"}

(* An idle task owns nothing; the others hold to their session.            *)
TasksInv ==
    \A t \in Tasks :
        /\ op[t] = "none" <=> pc[t] = "idle"
        /\ op[t] = "none" <=> sess[t] = None
        /\ op[t] = "none" => loopStatus[t] = "absent"
        /\ op[t] = "start" => sess[t] = t
        /\ op[t] \in {"input", "reject", "close"} =>
              sess[t] \in Tasks /\ op[sess[t]] = "start" /\ pc[sess[t]] = "done"
        /\ sessionStatus[t] # "absent" <=> op[t] = "start"
        /\ pc[t] \in StartPc => op[t] = "start"
        /\ pc[t] \in TurnPc \cup {"input.loop"} => op[t] = "input"
        /\ pc[t] = "reject.update" => op[t] = "reject"
        /\ pc[t] \in ClosingPc \cup {"close.loop"} => op[t] = "close"

(* What a task looked up is a row of its session.                          *)
TargetInv ==
    \A t \in Tasks :
        /\ pc[t] \in TurnPc \cup ClosingPc => target[t] # None
        /\ target[t] # None => /\ loopStatus[target[t]] # "absent"
                               /\ sess[target[t]] = sess[t]
        /\ doomed[t] # {} => op[t] = "close" /\ target[t] # None
        /\ \A l \in doomed[t] : loopStatus[l] # "absent" /\ sess[l] = sess[t]

(* Loop rows belong to /start and /close tasks; a reflection row only      *)
(* exists once the session is closed, and then its goal loop is over.      *)
LoopsInv ==
    \A l \in Tasks :
        /\ loopStatus[l] # "absent" => op[l] \in {"start", "close"}
        /\ pc[l] \in InFlight \ {"reflect.run"} => loopStatus[l] = "absent"
        /\ loopStatus[l] # "absent" /\ op[l] = "close" => sessionStatus[sess[l]] = "closed"
        /\ pc[l] \in {"close.summary", "reflect.start", "reflect.run"} =>
              sessionStatus[sess[l]] = "closed"
        /\ pc[l] = "reflect.run" => loopStatus[l] # "absent"
        /\ pc[l] \in EndedGoalPc => loopStatus[sess[l]] # "running"
        /\ sessionStatus[l] = "closed" => loopStatus[l] # "running" /\ pc[l] = "done"

(* The count a turn is about to write is in bounds.                        *)
CountInv ==
    \A t \in Tasks : iteration[t] <= GoalMax /\ (pc[t] = "turn.bump" => seen[t] < GoalMax)

BatchInv == \A l \in batch : loopStatus[l] # "absent" /\ alert[l] = "none"

IInv ==
    /\ TypeOK
    /\ TasksInv
    /\ TargetInv
    /\ LoopsInv
    /\ CountInv
    /\ BatchInv
    /\ AlertedLoopsAreOver
    /\ OneOpenAlert
    /\ GoalEndsForAReason

(***************************************************************************)
(* Properties the repository states and the code does not keep.            *)
(***************************************************************************)

(* A goal loop that /close completed cleanly is not force-terminated.      *)
CompletedGoalStaysCompleted ==
    [][\A s \in Tasks :
          op[s] = "start" /\ loopStatus[s] = "completed" => loopStatus'[s] = "completed"]_vars

(* A goal loop runs at most GoalLoop.MAX_ITERATIONS turns (INV-08).        *)
TurnsAreBounded ==
    \A l \in Tasks : op[l] = "start" => Cardinality(TurnsOf(l)) <= GoalMax

(* The watchdog force-terminates a runaway, if the process stays up.       *)
RunawayIsEnded ==
    \A l \in Tasks : Overdue(l) ~> loopStatus[l] # "running" \/ ~up

(* A session that was opened and is not being closed can be closed: it has *)
(* the RUNNING loop /close asks for.                                       *)
OpenSessionIsClosable ==
    \A s \in Tasks :
        /\ sessionStatus[s] = "active"
        /\ loopStatus[s] # "absent"
        /\ \A t \in Tasks : ~(op[t] = "close" /\ sess[t] = s)
        => Running(s) # {}

(* One notice per condition: a turn's approvals are surfaced once.         *)
OneNoticePerTurn ==
    \A t \in Tasks : \A v, w \in Writers :
        notice[t][v] = "pending" /\ notice[t][w] = "pending" => v = w
=============================================================================
