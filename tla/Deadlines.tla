------------------------------ MODULE Deadlines ------------------------------
(***************************************************************************)
(* The two scans that turn deadlines into notices                          *)
(* (skills/operational/deadline_monitor.py, whose duplicates are looked    *)
(* up, and skills/analytical/legal_deadline_surfacer.py, whose duplicates  *)
(* are left to the unique index), over read_protocol.read_by_deadline and  *)
(* cognitive/signal_scorer.py, with the user who answers notices, the      *)
(* others who write some, and the session_briefer that counts them.        *)
(*                                                                         *)
(* A scan is one transaction: its rows wait in mine until the invoker      *)
(* commits them.  Days are whole days, as timedelta.days counts them.      *)
(***************************************************************************)
EXTENDS Integers, FiniteSets, FiniteSetsExt

CONSTANTS Nodes, Sessions,
          Monitors, Surfacers,   \* runs of the two skills
          Filings,               \* pillars of a node: the primary one and all
          Days,                  \* the values of today (bound)
          Dues,                  \* the deadlines nodes may have (bound)
          None

VARIABLES
    today,
    due, filed,     \* metadata.deadline and the pillars
    live,           \* whether the INV-04 filter lets the node pass
    rows,           \* committed pending_escalations about nodes, status pending
    pc,
    home,           \* the session a scan runs for, if it was given one
    scope,          \* the pillars it was asked for
    began,          \* the day it read the nodes
    todo,           \* the urgent nodes it has still to handle, with priority
    facing,         \* the one a monitor has looked up and is to insert
    mine,           \* its uncommitted rows
    skipped,        \* nodes whose row it lost in a deadlock
    answered        \* nodes about which a notice was answered since it began

store == <<today, due, filed, live>>
scans == <<pc, home, scope, began, todo, facing, mine, skipped, answered>>
vars == <<store, rows, scans>>

Scans == Monitors \cup Surfacers
Pillars == {"legal", "business", "health"}
Pinned == [primary : Pillars, all : SUBSET Pillars]
Row == [node : Nodes, session : Sessions, prio : 0..1, by : Scans \cup {"others"}]

TypeOK ==
    /\ today \in Days
    /\ due \in [Nodes -> Dues]
    /\ filed \in [Nodes -> Filings]
    /\ live \in [Nodes -> BOOLEAN]
    /\ rows \in SUBSET Row
    /\ pc \in [Scans -> {"idle", "look", "insert", "done", "failed"}]
    /\ home \in [Scans -> Sessions \cup {None}]
    /\ scope \in [Scans -> SUBSET Pillars]
    /\ began \in [Scans -> Days]
    /\ todo \in [Scans -> SUBSET (Nodes \X (0..1))]
    /\ facing \in [Scans -> (Nodes \X (0..1)) \cup {None}]
    /\ mine \in [Scans -> SUBSET Row]
    /\ skipped \in [Scans -> SUBSET Nodes]
    /\ answered \in [Scans -> SUBSET Nodes]

Init ==
    /\ today = 0
    /\ due \in [Nodes -> Dues]
    /\ filed \in [Nodes -> Filings]
    /\ live = [n \in Nodes |-> TRUE]
    /\ rows = {}
    /\ pc = [s \in Scans |-> "idle"]
    /\ home = [s \in Scans |-> None]
    /\ scope = [s \in Scans |-> {}]
    /\ began = [s \in Scans |-> 0]
    /\ todo = [s \in Scans |-> {}]
    /\ facing = [s \in Scans |-> None]
    /\ mine = [s \in Scans |-> {}]
    /\ skipped = [s \in Scans |-> {}]
    /\ answered = [s \in Scans |-> {}]

-----------------------------------------------------------------------------
(* signal_scorer for a signal of type deadline: no source scores below 2   *)
(* and no noise penalty applies, so neither decides.                       *)
Impact(p, left) ==
    IF p = "legal" THEN 5
    ELSE IF p = "business" \/ left <= 7 THEN 4
    ELSE 1

TimeSensitivity(left) ==
    IF left <= 1 THEN 5 ELSE IF left <= 7 THEN 4 ELSE IF left <= 30 THEN 3 ELSE 1

Class(impact, time) ==
    IF impact >= 4 /\ time >= 4 THEN 0
    ELSE IF impact >= 3 /\ time >= 3 THEN 1
    ELSE IF impact >= 2 THEN 2
    ELSE 3

Left(n) == due[n] - today

(* The surfacer scores every node as a legal one.                          *)
Priority(s, n) ==
    LET p == IF s \in Surfacers THEN "legal" ELSE filed[n].primary
    IN  IF Left(n) < 0 THEN 0 ELSE Class(Impact(p, Left(n)), TimeSensitivity(Left(n)))

(* read_by_deadline: what is overdue whatever its status, the rest filtered *)
FoundFiltered(ps, ahead) ==
    {n \in Nodes : filed[n].all \cap ps # {} /\ live[n] /\ Left(n) <= ahead}

Found(ps, ahead) ==
    {n \in Nodes : filed[n].all \cap ps # {} /\ (Left(n) < 0 \/ (live[n] /\ Left(n) <= ahead))}

-----------------------------------------------------------------------------
(* uq_pe_p0_pending_per_node: an insert waits for another transaction's    *)
(* row of the same key.                                                    *)
Clash(v, t, set) ==
    \E r \in set : r.prio = 0 /\ t[2] = 0 /\ r.node = t[1] /\ r.session = v

(* Days pass; nodes are superseded, archived, flagged and restored          *)
(* (NodeStore); the user answers a notice; contradiction_enforcer and the  *)
(* escalation loop write rows about nodes, in transactions of their own.   *)
Tick ==
    /\ \E d \in Days : d > today /\ today' = d
    /\ UNCHANGED <<due, filed, live, rows, scans>>

StatusMoves(n) ==
    /\ live' = [live EXCEPT ![n] = ~@]
    /\ UNCHANGED <<today, due, filed, rows, scans>>

Answer(r) ==
    /\ rows' = rows \ {r}
    /\ answered' = [s \in Scans |-> answered[s] \cup (IF pc[s] = "idle" THEN {} ELSE {r.node})]
    /\ UNCHANGED <<store, pc, home, scope, began, todo, facing, mine, skipped>>

OthersNotice(n, v, p) ==
    /\ \A set \in {rows} \cup {mine[s] : s \in Scans} : ~Clash(v, <<n, p>>, set)
    /\ rows' = rows \cup {[node |-> n, session |-> v, prio |-> p, by |-> "others"]}
    /\ UNCHANGED <<store, scans>>

-----------------------------------------------------------------------------
(* Without a session the skill reports and writes nothing.                 *)
Begin(s, v, ps, ahead) ==
    /\ pc[s] = "idle"
    /\ home' = [home EXCEPT ![s] = v]
    /\ scope' = [scope EXCEPT ![s] = ps]
    /\ began' = [began EXCEPT ![s] = today]
    /\ todo' = [todo EXCEPT ![s] =
                  {<<n, Priority(s, n)>> :
                      n \in {x \in Found(ps, ahead) : v # None /\ Priority(s, x) <= 1}}]
    /\ pc' = [pc EXCEPT ![s] = IF s \in Monitors THEN "look" ELSE "insert"]
    /\ UNCHANGED <<store, rows, facing, mine, skipped, answered>>

(* Both go through the nodes by deadline, equal ones in any order.         *)
Turn(s, t) == t \in todo[s] /\ \A u \in todo[s] : due[t[1]] <= due[u[1]]

(* _has_pending_escalation: any pending row about the node, of any session *)
(* and any priority, whoever wrote it.                                     *)
Noticed(s, n) == \E r \in rows \cup mine[s] : r.node = n

Look(s, t) ==
    /\ pc[s] = "look"
    /\ Turn(s, t)
    /\ IF Noticed(s, t[1])
       THEN todo' = [todo EXCEPT ![s] = @ \ {t}] /\ UNCHANGED <<pc, facing>>
       ELSE /\ pc' = [pc EXCEPT ![s] = "insert"] /\ facing' = [facing EXCEPT ![s] = t]
            /\ UNCHANGED todo
    /\ UNCHANGED <<store, rows, home, scope, began, mine, skipped, answered>>

(* The row a scan is at.                                                   *)
Inserting(s, t) ==
    /\ pc[s] = "insert"
    /\ IF s \in Monitors THEN t = facing[s] ELSE Turn(s, t)

Waits(s, u) == \E t \in todo[s] : Inserting(s, t) /\ Clash(home[s], t, mine[u])

Free(s, t) == \A u \in Scans \ {s} : ~Clash(home[s], t, mine[u])

(* What comes after t.                                                     *)
GoOn(s, t) ==
    /\ todo' = [todo EXCEPT ![s] = @ \ {t}]
    /\ pc' = [pc EXCEPT ![s] = IF s \in Monitors THEN "look" ELSE "insert"]
    /\ facing' = [facing EXCEPT ![s] = None]

Lose(s) ==
    /\ pc' = [pc EXCEPT ![s] = "failed"]
    /\ mine' = [mine EXCEPT ![s] = {}]
    /\ UNCHANGED <<todo, facing>>

Insert(s, t) ==
    /\ Inserting(s, t)
    /\ Free(s, t)
    /\ ~Clash(home[s], t, rows \cup mine[s])
    /\ mine' = [mine EXCEPT ![s] =
                  @ \cup {[node |-> t[1], session |-> home[s], prio |-> t[2], by |-> s]}]
    /\ GoOn(s, t)
    /\ UNCHANGED <<store, rows, home, scope, began, skipped, answered>>

(* A duplicate.  The surfacer's savepoint drops the row and it goes on;    *)
(* the monitor's transaction is lost.                                      *)
Refused(s, t) ==
    /\ Inserting(s, t)
    /\ Free(s, t)
    /\ Clash(home[s], t, rows \cup mine[s])
    /\ IF s \in Surfacers THEN GoOn(s, t) /\ UNCHANGED mine ELSE Lose(s)
    /\ UNCHANGED <<store, rows, home, scope, began, skipped, answered>>

(* The database ends a deadlock at the cost of one of those who wait for   *)
(* each other.  The surfacer's savepoint takes that for a duplicate too.   *)
Deadlocked(s) ==
    \E W \in SUBSET Scans :
        /\ s \in W
        /\ \A u \in W : /\ \E w \in W \ {u} : Waits(u, w)
                        /\ \E w \in W \ {u} : Waits(w, u)

BreakDeadlock(s, t) ==
    /\ Deadlocked(s)
    /\ Inserting(s, t)
    /\ ~Free(s, t)
    /\ \/ /\ s \in Surfacers /\ GoOn(s, t) /\ UNCHANGED mine
          /\ skipped' = [skipped EXCEPT ![s] = @ \cup {t[1]}]
       \/ s \notin Surfacers /\ Lose(s) /\ UNCHANGED skipped
    /\ UNCHANGED <<store, rows, home, scope, began, answered>>

Commit(s) ==
    /\ pc[s] \in {"look", "insert"}
    /\ todo[s] = {}
    /\ rows' = rows \cup mine[s]
    /\ mine' = [mine EXCEPT ![s] = {}]
    /\ pc' = [pc EXCEPT ![s] = "done"]
    /\ UNCHANGED <<store, home, scope, began, todo, facing, skipped, answered>>

(* A timeout, which commits what was flushed (SkillLog), or a lost          *)
(* connection, which does not.                                             *)
Fail(s) ==
    /\ pc[s] \in {"look", "insert"}
    /\ rows' \in {rows, rows \cup mine[s]}
    /\ mine' = [mine EXCEPT ![s] = {}]
    /\ pc' = [pc EXCEPT ![s] = "failed"]
    /\ UNCHANGED <<store, home, scope, began, todo, facing, skipped, answered>>

World ==
    \/ Tick
    \/ \E n \in Nodes : StatusMoves(n)
    \/ \E r \in rows : Answer(r)
    \/ \E n \in Nodes, v \in Sessions, p \in 0..1 : OthersNotice(n, v, p)

Scan(s) ==
    \/ \E v \in Sessions \cup {None} :
          \/ s \in Monitors /\ Begin(s, v, Pillars, 90)
          \/ s \in Monitors /\ Begin(s, v, {"business"}, 90)
          \/ \E ahead \in {30, 90} : s \in Surfacers /\ Begin(s, v, {"legal"}, ahead)
    \/ \E t \in todo[s] : Look(s, t) \/ Insert(s, t) \/ Refused(s, t) \/ BreakDeadlock(s, t)
    \/ Commit(s) \/ Fail(s)

Next == World \/ \E s \in Scans : Scan(s)

Spec == Init /\ [][Next]_vars

-----------------------------------------------------------------------------
NoticedNodes == {r.node : r \in rows}

(* After a scan for a session every deadline of its pillars that had       *)
(* passed when it read them has a pending notice, or one was answered      *)
(* meanwhile, or a deadlock took it - also that of a node the INV-04       *)
(* filter hides (read_by_deadline's "must surface", the two skills'        *)
(* de-duplication).                                                        *)
OverdueIsNoticed ==
    \A s \in Scans : pc[s] = "done" /\ home[s] # None =>
        \A n \in Nodes : filed[n].all \cap scope[s] # {} /\ due[n] < began[s] =>
            n \in answered[s] \cup NoticedNodes \cup skipped[s]

(* When all scans are over, what the surfacer skipped has its notice ("a   *)
(* duplicate already exists - fine").  False: it also skips the victim of  *)
(* a deadlock, and the monitor that held the row then meets the            *)
(* surfacer's others and loses its own.                                    *)
SkippedIsNoticed ==
    (\A s \in Scans : pc[s] \in {"done", "failed"}) =>
        \A s \in Surfacers : skipped[s] \subseteq answered[s] \cup NoticedNodes

(* A node has one pending notice.  False: two monitors look before either  *)
(* commits, and the surfacer's P1 rows have no look-up at all.             *)
OneNoticePerNode == \A q, r \in rows : q.node = r.node => q = r

(* A repeated P0 does not cost a monitor its run.  False: the look-up does *)
(* not see the other transaction's row, the index does.                    *)
MonitorSurvives == \A s \in Monitors, t \in Nodes \X {0} :
    Inserting(s, t) => ~Clash(home[s], t, rows)

(* Only active nodes are noticed.  False: read_by_deadline hands out an     *)
(* overdue node whatever its status, superseded or archived, and again      *)
(* after every answer.                                                      *)
ActiveIsScanned ==
    [][\A s \in Scans : pc[s] = "idle" => \A t \in todo'[s] : live[t[1]]]_vars

(* The brief of a session tells every pending notice.  False: it counts    *)
(* those of its own session.                                               *)
Told(v) == {r \in rows : r.session = v}
CatchUpOnReturn == \A v \in Sessions : rows = Told(v)
=============================================================================
