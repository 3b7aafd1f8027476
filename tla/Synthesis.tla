----------------------------- MODULE Synthesis -----------------------------
(***************************************************************************)
(* run_synthesis and its callers over the connection pool.  The advisory   *)
(* lock it takes belongs to a database connection, and a session keeps its *)
(* connection only until the next commit: run_synthesis commits before it  *)
(* unlocks, so the two statements may run on different connections.        *)
(*                                                                         *)
(* The callers are the close endpoint and the reflection loop, which run a *)
(* synthesis when enough nodes were created since the last one, and the    *)
(* synthesis coordinator, which always does.                               *)
(***************************************************************************)
EXTENDS Integers, Sequences, FiniteSets

CONSTANTS
    Requests,    \* the requests, each with its AsyncSession
    Conns,       \* the connections the pool may open (pool and overflow)
    PoolSize,    \* how many it keeps open
    Nodes,       \* the nodes ever written (bounds the run)
    Threshold,   \* settings.synthesis_threshold_nodes
    MaxAttempts, \* calls of run_synthesis (bounds the run)
    None         \* no connection

ASSUME NoneAssumption == None \notin Conns
ASSUME BoundsAssumption == PoolSize \in Nat /\ Threshold \in Nat /\ MaxAttempts \in Nat

VARIABLES
    \* the pool and what PostgreSQL knows of its connections
    idle,      \* the open connections nobody uses, first in first out
    conn,      \* the connection of a request's transaction
    depth,     \* how many times a connection holds the advisory lock
    \* the requests
    pc,
    attempts,  \* calls of run_synthesis so far
    \* the nodes
    node,      \* whether the transaction that writes it is open or committed
    after,     \* nodes whose created_at is later than the last completed_at
    counted    \* nodes committed when some run completed

pool == <<idle, conn>>
nodes == <<node, after, counted>>
vars == <<pool, depth, pc, attempts, nodes>>

-----------------------------------------------------------------------------
(* A request is out ("idle"), in a transaction of its own ("busy"), about  *)
(* to call run_synthesis because it counted or because it always does, or  *)
(* inside it: lock held and row to be written, row committed.              *)
Calling == {"counted", "asked"}
InTransaction == {"busy", "record"} \cup Calling

TypeOK ==
    /\ idle \in Seq(Conns)
    /\ conn \in [Requests -> Conns \cup {None}]
    /\ \A r \in Requests : conn[r] # None <=> pc[r] \in InTransaction
    /\ depth \in [Conns -> Nat]
    /\ pc \in [Requests -> {"idle", "unlock"} \cup InTransaction]
    /\ attempts \in 0..MaxAttempts
    /\ node \in [Nodes -> {"absent", "open", "in"}]
    /\ after \in SUBSET Nodes
    /\ counted \in SUBSET Nodes

Init ==
    /\ idle = <<>>
    /\ conn = [r \in Requests |-> None]
    /\ depth = [k \in Conns |-> 0]
    /\ pc = [r \in Requests |-> "idle"]
    /\ attempts = 0
    /\ node = [n \in Nodes |-> "absent"]
    /\ after = {}
    /\ counted = {}

-----------------------------------------------------------------------------
(* The pool: a statement outside a transaction checks out the connection   *)
(* that has been idle longest, or opens one; the end of the transaction    *)
(* returns it, or closes it when enough are idle.  Nothing but closing a   *)
(* connection gives up its advisory locks.                                 *)
IdleConns == {idle[i] : i \in DOMAIN idle}
InUse == {conn[r] : r \in Requests}
Unopened == Conns \ (IdleConns \cup InUse)

Available == IF idle # <<>> THEN {Head(idle)} ELSE Unopened

CheckOut(r, k) ==
    /\ k \in Available
    /\ conn' = [conn EXCEPT ![r] = k]
    /\ idle' = IF idle # <<>> THEN Tail(idle) ELSE idle

Return(r) ==
    /\ conn' = [conn EXCEPT ![r] = None]
    /\ IF Len(idle) < PoolSize
         THEN idle' = Append(idle, conn[r]) /\ UNCHANGED depth
         ELSE depth' = [depth EXCEPT ![conn[r]] = 0] /\ UNCHANGED idle

Goto(r, l) == pc' = [pc EXCEPT ![r] = l]

-----------------------------------------------------------------------------
(* Any request's first statement, and its last commit and close.           *)
Enter(r, k) ==
    /\ pc[r] = "idle"
    /\ CheckOut(r, k)
    /\ Goto(r, "busy")
    /\ UNCHANGED <<depth, attempts, nodes>>

Leave(r) ==
    /\ pc[r] = "busy"
    /\ Return(r)
    /\ Goto(r, "idle")
    /\ UNCHANGED <<attempts, nodes>>

(* The nodes a threshold query counts.                                     *)
Fresh == {n \in after : node[n] = "in"}

(* close_session and the reflection loop: count, and call when due.        *)
Count(r) ==
    /\ pc[r] = "busy"
    /\ attempts < MaxAttempts
    /\ Cardinality(Fresh) >= Threshold
    /\ Goto(r, "counted")
    /\ UNCHANGED <<pool, depth, attempts, nodes>>

(* The synthesis coordinator calls in any case.                            *)
Ask(r) ==
    /\ pc[r] = "busy"
    /\ attempts < MaxAttempts
    /\ Goto(r, "asked")
    /\ UNCHANGED <<pool, depth, attempts, nodes>>

(* pg_try_advisory_lock on the request's connection: granted unless        *)
(* another connection holds it; the same connection may hold it again.     *)
Granted(r) == \A k \in Conns \ {conn[r]} : depth[k] = 0

AttemptIgnoringAnswer(r) ==
    /\ pc[r] \in Calling
    /\ attempts < MaxAttempts
    /\ attempts' = attempts + 1
    /\ depth' = IF Granted(r) THEN [depth EXCEPT ![conn[r]] = @ + 1] ELSE depth
    /\ Goto(r, "record")
    /\ UNCHANGED <<pool, nodes>>

Attempt(r) ==
    /\ pc[r] \in Calling
    /\ attempts < MaxAttempts
    /\ attempts' = attempts + 1
    /\ IF Granted(r)
         THEN depth' = [depth EXCEPT ![conn[r]] = @ + 1] /\ Goto(r, "record")
         ELSE Goto(r, "busy") /\ UNCHANGED depth      \* skipped
    /\ UNCHANGED <<pool, nodes>>

(* The row is inserted, completed and committed: the connection goes back  *)
(* to the pool with the lock it holds.                                     *)
Record(r) ==
    /\ pc[r] = "record"
    /\ Return(r)
    /\ Goto(r, "unlock")
    /\ after' = {}
    /\ counted' = counted \cup {n \in Nodes : node[n] = "in"}
    /\ UNCHANGED <<attempts, node>>

(* The flush or the commit fails: the unlock in the finally clause raises  *)
(* in the failed transaction, and the request ends with a rollback.        *)
RecordFails(r) ==
    /\ pc[r] = "record"
    /\ Return(r)
    /\ Goto(r, "idle")
    /\ UNCHANGED <<attempts, nodes>>

(* pg_advisory_unlock: the session checks a connection out again.  Where   *)
(* that one does not hold the lock, PostgreSQL only warns.                 *)
Unlock(r, k) ==
    /\ pc[r] = "unlock"
    /\ CheckOut(r, k)
    /\ depth' = IF depth[k] > 0 THEN [depth EXCEPT ![k] = @ - 1] ELSE depth
    /\ Goto(r, "busy")
    /\ UNCHANGED <<attempts, nodes>>

(* No connection becomes free in time: the request fails.                  *)
UnlockTimesOut(r) ==
    /\ pc[r] = "unlock"
    /\ Available = {}
    /\ Goto(r, "idle")
    /\ UNCHANGED <<pool, depth, attempts, nodes>>

(* Writing a node: created_at is the time its transaction began.           *)
BeginNode(n) ==
    /\ node[n] = "absent"
    /\ node' = [node EXCEPT ![n] = "open"]
    /\ after' = after \cup {n}
    /\ UNCHANGED <<pool, depth, pc, attempts, counted>>

CommitNode(n) ==
    /\ node[n] = "open"
    /\ node' = [node EXCEPT ![n] = "in"]
    /\ UNCHANGED <<pool, depth, pc, attempts, after, counted>>

Next ==
    \/ \E r \in Requests :
          \/ \E k \in Conns : Enter(r, k) \/ Unlock(r, k)
          \/ Leave(r) \/ Count(r) \/ Ask(r) \/ Attempt(r)
          \/ Record(r) \/ RecordFails(r) \/ UnlockTimesOut(r)
    \/ \E n \in Nodes : BeginNode(n) \/ CommitNode(n)

Spec == Init /\ [][Next]_vars

-----------------------------------------------------------------------------
(* Synthesis runs exclude each other: no two requests are between the lock *)
(* and the commit of the run it protects, however the lock was passed on.  *)
OneRunAtATime ==
    \A r, q \in Requests : pc[r] = "record" /\ pc[q] = "record" => r = q

(* Why: a connection serves one request at most, one connection at most    *)
(* holds the lock, and a request that records is on it.  An unlock on an   *)
(* idle connection therefore never takes the lock from a run.              *)
ConnectionsApart ==
    /\ \A r, q \in Requests : conn[r] = conn[q] /\ conn[r] # None => r = q
    /\ \A i, j \in DOMAIN idle : idle[i] = idle[j] => i = j
    /\ \A i \in DOMAIN idle : \A r \in Requests : idle[i] # conn[r]

OneHolder == \A k, l \in Conns : depth[k] > 0 /\ depth[l] > 0 => k = l

RecorderHolds == \A r \in Requests : pc[r] = "record" => depth[conn[r]] > 0

IInv == TypeOK /\ ConnectionsApart /\ OneHolder /\ RecorderHolds

(* A call is skipped only because another run is in progress, as the       *)
(* docstring of run_synthesis says. False: a connection may be back in the *)
(* pool with the lock it holds.                                            *)
SkippedForARun ==
    [][\A r \in Requests :
          pc[r] \in Calling /\ pc'[r] = "busy" =>
              \E q \in Requests \ {r} : pc[q] \in {"record", "unlock"}]_vars

(* A run the threshold triggered starts with the threshold met. False: it  *)
(* was counted before the lock, and another run may end in between.        *)
ThresholdIsMet ==
    [][\A r \in Requests :
          pc[r] = "counted" /\ pc'[r] = "record" => Cardinality(Fresh) >= Threshold]_vars

(* Every committed node counts towards the next run or was there at one.   *)
(* False: a node's time is that of its transaction's beginning, and it may *)
(* commit after a run that completed later.                                *)
EveryNodeCounts == \A n \in Nodes : node[n] = "in" => n \in after \cup counted
=============================================================================
