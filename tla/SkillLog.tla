------------------------------ MODULE SkillLog ------------------------------
(***************************************************************************)
(* invoke_skill, the one entry point for skills, and the rows it keeps in  *)
(* skill_invocation_log: the wrapper's own transactions, the skill running *)
(* between them on the caller's database session, the trigger that freezes *)
(* a finished row, and the two cleanups that close rows nobody closed.     *)
(*                                                                         *)
(* A request holds one database session, db[c] for the calls it makes, and *)
(* makes them one after the other.  The wrapper, the skill and the request *)
(* share that session, so whoever commits or rolls back does it for all    *)
(* three.  A skill may call another one (node_writer does) before it has   *)
(* written anything itself.                                                *)
(***************************************************************************)
EXTENDS Naturals, FiniteSets

CONSTANTS
    Calls,       \* the invocations, each with its log row (bounds the run)
    Requests,    \* the requests, each with its AsyncSession
    MaxCrashes,  \* how often the process may die (bounds the run)
    None         \* no caller

ASSUME NoneAssumption == None \notin Calls /\ None \notin Requests
ASSUME MaxCrashesAssumption == MaxCrashes \in Nat
ASSUME NamesAssumption == Calls \cap Requests = {}

VARIABLES
    \* skill_invocation_log
    status,    \* of each row
    stale,     \* running rows older than the cleanup threshold
    \* the database sessions
    pending,   \* who has uncommitted writes in a session
    usable,    \* no failed statement or flush since its last rollback
    lost,      \* whose writes were rolled back by somebody else's doing
    \* the calls
    pc,        \* where invoke_skill stands
    db,        \* the session it was given
    parent,    \* the call whose skill made it
    \* the process
    up,
    crashes,
    jammed     \* the watchdog's cycle fails before it reaches the cleanup

log == <<status, stale>>
sessions == <<pending, usable, lost>>
calls == <<pc, db, parent>>
process == <<up, crashes, jammed>>
vars == <<log, sessions, calls, process>>

-----------------------------------------------------------------------------
Final == {"ok", "error", "timeout"}
Owners == Calls \cup Requests

(* Where invoke_skill stands; in _update_log, the status it is to write.   *)
Running == {"registry", "skill"} \cup Final
Over == {"returned", "raised", "gone"}       \* gone: cancelled, or died

TypeOK ==
    /\ status \in [Calls -> {"absent", "running"} \cup Final]
    /\ stale \in SUBSET Calls
    /\ pending \in [Requests -> SUBSET Owners]
    /\ usable \in [Requests -> BOOLEAN]
    /\ lost \in SUBSET Calls
    /\ pc \in [Calls -> {"idle"} \cup Running \cup Over]
    /\ db \in [Calls -> Requests \cup {None}]
    /\ parent \in [Calls -> Calls \cup {None}]
    /\ up \in BOOLEAN
    /\ crashes \in 0..MaxCrashes
    /\ jammed \in BOOLEAN

Init ==
    /\ status = [c \in Calls |-> "absent"]
    /\ stale = {}
    /\ pending = [r \in Requests |-> {}]
    /\ usable = [r \in Requests |-> TRUE]
    /\ lost = {}
    /\ pc = [c \in Calls |-> "idle"]
    /\ db = [c \in Calls |-> None]
    /\ parent = [c \in Calls |-> None]
    /\ up = TRUE
    /\ crashes = 0
    /\ jammed = FALSE

-----------------------------------------------------------------------------
(* The calls in progress on a session; at most one with the skill it is in *)
(* the middle of another call.                                             *)
Active(r) == {c \in Calls : db[c] = r /\ pc[c] \in Running}
Nested(c) == {d \in Calls : parent[d] = c /\ pc[d] \in Running}

(* The call whose code runs now.                                           *)
Innermost(c) == pc[c] \in Running /\ Nested(c) = {}
Executes(c) == up /\ pc[c] = "skill" /\ Nested(c) = {}

(* db.commit(): everything the session holds becomes durable.              *)
Commit(r) ==
    /\ pending' = [pending EXCEPT ![r] = {}]
    /\ UNCHANGED <<usable, lost>>

(* The transaction is lost: a flush or statement failed, and until         *)
(* somebody rolls back every further use of the session raises.            *)
Break(r) ==
    /\ pending' = [pending EXCEPT ![r] = {}]
    /\ lost' = lost \cup (pending[r] \cap Calls)
    /\ usable' = [usable EXCEPT ![r] = FALSE]

Goto(c, l) == pc' = [pc EXCEPT ![c] = l]

-----------------------------------------------------------------------------
(* The request around the calls: its own writes, its commits, its end.     *)

RequestWrite(r) ==
    /\ up
    /\ Active(r) = {}
    /\ usable[r]
    /\ pending' = [pending EXCEPT ![r] = @ \cup {r}]
    /\ UNCHANGED <<usable, lost, log, calls, process>>

RequestCommit(r) ==
    /\ up
    /\ Active(r) = {}
    /\ usable[r]
    /\ Commit(r)
    /\ UNCHANGED <<log, calls, process>>

(* get_db: roll back on an exception, close in any case.                   *)
RequestEnd(r) ==
    /\ up
    /\ Active(r) = {}
    /\ pending' = [pending EXCEPT ![r] = {}]
    /\ lost' = lost \cup (pending[r] \cap Calls)
    /\ usable' = [usable EXCEPT ![r] = TRUE]
    /\ UNCHANGED <<log, calls, process>>

-----------------------------------------------------------------------------
(* Variant: the running row is flushed and not committed.                  *)
EnterNoCommit(c, r, p) ==
    /\ db' = [db EXCEPT ![c] = r]
    /\ parent' = [parent EXCEPT ![c] = p]
    /\ usable[r]
    /\ status' = [status EXCEPT ![c] = "running"]
    /\ Goto(c, "registry")
    /\ UNCHANGED <<stale, sessions, process>>

(* invoke_skill, steps 1 and 2: INSERT the running row and commit it, with *)
(* what the caller had pending.  On a session that is broken, or breaks at *)
(* this flush, the call raises without a row.                              *)
Enter(c, r, p) ==
    /\ db' = [db EXCEPT ![c] = r]
    /\ parent' = [parent EXCEPT ![c] = p]
    /\ \/ /\ usable[r]
          /\ status' = [status EXCEPT ![c] = "running"]
          /\ Commit(r)
          /\ Goto(c, "registry")
       \/ /\ Break(r)
          /\ Goto(c, "raised")
          /\ UNCHANGED status
    /\ UNCHANGED <<stale, process>>

Invoke(c, r) ==
    /\ up
    /\ pc[c] = "idle"
    /\ Active(r) = {}
    /\ Enter(c, r, None)

(* node_writer's contradiction scan, ahead of its own writes.              *)
InvokeNested(c, p) ==
    /\ Executes(p)
    /\ pc[c] = "idle"
    /\ parent[p] = None
    /\ p \notin pending[db[p]]
    /\ Enter(c, db[p], p)

(* Step 3: the registry and the Active gate.                               *)
Find(c) ==
    /\ up
    /\ pc[c] = "registry"
    /\ Goto(c, "skill")
    /\ UNCHANGED <<db, parent, log, sessions, process>>

Refuse(c) ==
    /\ up
    /\ pc[c] = "registry"
    /\ Goto(c, "error")
    /\ UNCHANGED <<db, parent, log, sessions, process>>

-----------------------------------------------------------------------------
(* What a skill does to the session it was handed.                         *)

SkillWrite(c) ==
    /\ Executes(c)
    /\ usable[db[c]]
    /\ pending' = [pending EXCEPT ![db[c]] = @ \cup {c}]
    /\ UNCHANGED <<usable, lost, log, calls, process>>

SkillCommit(c) ==
    /\ Executes(c)
    /\ usable[db[c]]
    /\ Commit(db[c])
    /\ UNCHANGED <<log, calls, process>>

(* A flush violates a constraint or a statement fails, and the skill may   *)
(* or may not let the exception through.                                   *)
SkillBreaks(c) ==
    /\ Executes(c)
    /\ Break(db[c])
    /\ UNCHANGED <<log, calls, process>>

(* write_node answers a failure with a rollback, knowingly.                *)
SkillRollback(c) ==
    /\ Executes(c)
    /\ pending' = [pending EXCEPT ![db[c]] = {}]
    /\ lost' = (lost \cup (pending[db[c]] \cap Calls)) \ {c}
    /\ usable' = [usable EXCEPT ![db[c]] = TRUE]
    /\ UNCHANGED <<log, calls, process>>

(* Steps 5 to 7: the skill returns or raises ...                           *)
SkillEnds(c) ==
    /\ Executes(c)
    /\ Goto(c, "ok") \/ Goto(c, "error")
    /\ UNCHANGED <<db, parent, log, sessions, process>>

(* ... or wait_for cancels it, with whatever call it is waiting for; a     *)
(* cancelled statement takes the connection and its transaction along.     *)
SkillTimesOut(c) ==
    /\ up
    /\ pc[c] = "skill"
    /\ pc' = [d \in Calls |-> IF d \in Nested(c) THEN "gone"
                              ELSE IF d = c THEN "timeout" ELSE pc[d]]
    /\ Break(db[c]) \/ UNCHANGED sessions
    /\ UNCHANGED <<db, parent, log, process>>

-----------------------------------------------------------------------------
(* _update_log: SELECT the row, set its status, commit the session.        *)

Told(c) == Goto(c, IF pc[c] = "ok" THEN "returned" ELSE "raised")

UpdateLog(c) ==
    /\ up
    /\ pc[c] \in Final
    /\ usable[db[c]]
    /\ status[c] = "running"
    /\ status' = [status EXCEPT ![c] = pc[c]]
    /\ stale' = stale \ {c}
    /\ Commit(db[c])
    /\ Told(c)
    /\ UNCHANGED <<db, parent, process>>

(* Variant: the result is returned although the trigger refused the row.   *)
UpdateRefusedSilently(c) ==
    /\ up
    /\ pc[c] \in Final
    /\ usable[db[c]]
    /\ status[c] \in Final
    /\ Break(db[c])
    /\ Told(c)
    /\ UNCHANGED <<db, parent, log, process>>

(* The cleanup was there first.  The trigger refuses the UPDATE, and the   *)
(* exception goes to the caller in place of the result.                    *)
UpdateRefused(c) ==
    /\ up
    /\ pc[c] \in Final
    /\ usable[db[c]]
    /\ status[c] \in Final
    /\ Break(db[c])
    /\ Goto(c, "raised")
    /\ UNCHANGED <<db, parent, log, process>>

(* Both say timeout, and the row was read again after a rollback: the      *)
(* mapper finds nothing to UPDATE and commits.                             *)
UpdateAgrees(c) ==
    /\ up
    /\ pc[c] = "timeout"
    /\ usable[db[c]]
    /\ status[c] = "timeout"
    /\ Commit(db[c])
    /\ Told(c)
    /\ UNCHANGED <<db, parent, log, process>>

(* Variants: the failure is swallowed; the update is tried again for ever. *)
UpdateSwallowed(c) ==
    /\ up
    /\ pc[c] \in Final
    /\ ~usable[db[c]]
    /\ Told(c)
    /\ UNCHANGED <<db, parent, log, sessions, process>>

UpdateRetried(c) ==
    /\ up
    /\ pc[c] \in Final
    /\ ~usable[db[c]]
    /\ UNCHANGED vars

(* The session is broken: the SELECT itself raises.                        *)
UpdateImpossible(c) ==
    /\ up
    /\ pc[c] \in Final
    /\ ~usable[db[c]]
    /\ Goto(c, "raised")
    /\ UNCHANGED <<db, parent, log, sessions, process>>

-----------------------------------------------------------------------------
(* run_sub_agent's wait_for cancels a handler in the middle of its calls:  *)
(* CancelledError is not an Exception, so no row is updated.               *)
Cancel(r) ==
    /\ up
    /\ Active(r) # {}
    /\ pc' = [c \in Calls |-> IF c \in Active(r) THEN "gone" ELSE pc[c]]
    /\ Break(r) \/ UNCHANGED sessions
    /\ UNCHANGED <<db, parent, log, process>>

(* now() - timestamp passes 60 seconds.                                    *)
Age(c) ==
    /\ status[c] = "running"
    /\ c \notin stale
    /\ stale' = stale \cup {c}
    /\ UNCHANGED <<status, sessions, calls, process>>

(* _check_loops, earlier in the cycle, fails at an overdue loop whose       *)
(* session has its P0 pending (SessionLoops!Colliding), or does no more.   *)
Jam ==
    /\ up
    /\ jammed' = ~jammed
    /\ UNCHANGED <<log, sessions, calls, up, crashes>>

(* UPDATE ... SET status = 'timeout' WHERE status = 'running' and it is old *)
CloseStale ==
    /\ status' = [c \in Calls |-> IF c \in stale THEN "timeout" ELSE status[c]]
    /\ stale' = {}

(* Variant: the UPDATE fails in every cycle, as it once did.               *)
CleanFails ==
    /\ up
    /\ ~jammed
    /\ stale # {}
    /\ UNCHANGED vars

(* LoopWatchdog._check_stale_skill_logs.                                   *)
Clean ==
    /\ up
    /\ ~jammed
    /\ stale # {}
    /\ CloseStale
    /\ UNCHANGED <<sessions, calls, process>>

Crash ==
    /\ up
    /\ crashes < MaxCrashes
    /\ up' = FALSE
    /\ crashes' = crashes + 1
    /\ pc' = [c \in Calls |-> IF pc[c] \in Running THEN "gone" ELSE pc[c]]
    /\ pending' = [r \in Requests |-> {}]
    /\ lost' = lost \cup {c \in Calls : \E r \in Requests : c \in pending[r]}
    /\ usable' = [r \in Requests |-> TRUE]
    /\ UNCHANGED <<log, db, parent, jammed>>

(* lifespan: the same UPDATE before the first request.                     *)
Restart ==
    /\ ~up
    /\ up' = TRUE
    /\ CloseStale
    /\ UNCHANGED <<sessions, calls, crashes, jammed>>

-----------------------------------------------------------------------------
Request(r) == RequestWrite(r) \/ RequestCommit(r) \/ RequestEnd(r) \/ Cancel(r)

Skill(c) ==
    \/ SkillWrite(c) \/ SkillCommit(c) \/ SkillBreaks(c) \/ SkillRollback(c)
    \/ SkillEnds(c)

LookUp(c) == Find(c) \/ Refuse(c)

Finish(c) ==
    UpdateLog(c) \/ UpdateRefused(c) \/ UpdateAgrees(c) \/ UpdateImpossible(c)

Next ==
    \/ \E r \in Requests : Request(r) \/ \E c \in Calls : Invoke(c, r)
    \/ \E c \in Calls : \E p \in Calls : InvokeNested(c, p)
    \/ \E c \in Calls : LookUp(c) \/ Skill(c) \/ SkillTimesOut(c) \/ Finish(c) \/ Age(c)
    \/ Jam
    \/ Clean
    \/ Crash
    \/ Restart

Spec == Init /\ [][Next]_vars

(* While the process is up the event loop takes the wrapper's own steps,   *)
(* every skill meets its timeout, time passes, and a cycle of the watchdog *)
(* that is not jammed reaches the cleanup.                                 *)
Fairness ==
    /\ \A c \in Calls : /\ WF_vars(LookUp(c))
                        /\ WF_vars(SkillTimesOut(c))
                        /\ WF_vars(Finish(c))
                        /\ WF_vars(Age(c))
    /\ WF_vars(Clean)

FairSpec == Spec /\ Fairness

-----------------------------------------------------------------------------
(***************************************************************************)
(* Properties that hold.                                                   *)
(***************************************************************************)

(* A call is only ever committed or rolled back with writes of its own (or *)
(* of a call its skill made): the commit of the running row has put the    *)
(* caller's writes out of reach of whatever the skill does.                *)
CallerIsSafe ==
    \A c \in Calls :
        Innermost(c) => pending[db[c]] \subseteq {c} \cup {d \in Calls : parent[d] = c}

(* A caller that holds a SkillResult holds a durable one: the row says ok  *)
(* and none of the skill's writes was lost or is still uncommitted,        *)
(* whatever broke, was cleaned up or was cancelled on the way.             *)
ReturnedIsDurable ==
    \A c \in Calls :
        pc[c] = "returned" =>
            /\ status[c] = "ok"
            /\ c \notin lost
            /\ \A r \in Requests : c \notin pending[r]

(* Three writers close rows; a closed row is never written again (INV-09). *)
FinalIsFinal ==
    [][\A c \in Calls : status[c] \in Final => status'[c] = status[c]]_vars

(* No row stays running for ever, not even that of a call which died, was  *)
(* cancelled or could not write it, if the process stays up and its        *)
(* watchdog is not kept from the cleanup.                                  *)
RunningEnds ==
    \A c \in Calls : status[c] = "running" ~> status[c] # "running" \/ ~up \/ jammed

(* invoke_skill comes back to its caller whatever the skill does.          *)
CallsEnd == \A c \in Calls : pc[c] \in Running ~> pc[c] \notin Running

(* The rows obey the contract of SkillLogRow.                              *)
Row == INSTANCE SkillLogRow WITH
    row <- status, told <- {c \in Calls : pc[c] = "returned"}

RowSpec == Row!Spec

(***************************************************************************)
(* The inductive invariant: which calls share a session, and whose writes  *)
(* it can hold.                                                            *)
(***************************************************************************)

(* A call that has not begun has no row; one in progress has, and a session*)
(* to itself.                                                              *)
CallsInv ==
    \A c \in Calls :
        /\ pc[c] = "idle" => status[c] = "absent" /\ db[c] = None /\ parent[c] = None
        /\ pc[c] # "idle" => db[c] \in Requests
        /\ pc[c] \in Running => up /\ status[c] # "absent"
        /\ c \in stale => status[c] = "running"

(* The calls in progress on a session form a stack of at most two.         *)
StackInv ==
    \A c \in Calls :
        /\ parent[c] # None => parent[parent[c]] = None /\ db[parent[c]] = db[c]
        /\ pc[c] \in Running /\ parent[c] # None => pc[parent[c]] = "skill"
        /\ \A d \in Calls :
              pc[c] \in Running /\ pc[d] \in Running /\ db[c] = db[d]
                 /\ parent[c] = parent[d] => c = d

(* Only the calls made on a session and its request write in it, and a     *)
(* broken one holds nothing that could still be committed.                 *)
SessionsInv ==
    /\ \A r \in Requests : ~usable[r] => pending[r] = {}
    /\ \A r \in Requests : \A c \in Calls :
          c \in pending[r] => db[c] = r /\ pc[c] # "returned"

(* A row says ok only when the call returned; what a call in progress lost *)
(* broke its session, so that it cannot return; a nested call began on a   *)
(* session that works.                                                     *)
OutcomeInv ==
    \A c \in Calls :
        /\ status[c] = "ok" <=> pc[c] = "returned"
        /\ pc[c] = "idle" => c \notin lost
        /\ pc[c] \in Running /\ c \in lost => ~usable[db[c]]
        /\ pc[c] \in Running /\ parent[c] # None => parent[c] \notin lost

IInv ==
    /\ TypeOK
    /\ CallsInv
    /\ StackInv
    /\ SessionsInv
    /\ OutcomeInv
    /\ CallerIsSafe
    /\ ReturnedIsDurable

(***************************************************************************)
(* Properties the repository states and the code does not keep.            *)
(***************************************************************************)

(* _update_log works in a transaction of its own: closing a row commits    *)
(* nothing that the failed skill left behind.                              *)
UpdateIsItsOwn ==
    [][\A c \in Calls :
          pc[c] \in Final /\ status[c] = "running" /\ status'[c] \in {"error", "timeout"}
              => pc'[c] = pc[c] \/ pending' = pending]_vars

(* The wrapper logs START and COMPLETE, ERROR or TIMEOUT of every call     *)
(* (INV-09): one that came back to its caller has a closed row.            *)
EveryEndIsLogged ==
    \A c \in Calls :
        pc[c] \in {"returned", "raised"} /\ status[c] # "absent" => status[c] \in Final
=============================================================================
