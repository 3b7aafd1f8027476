------------------------------- MODULE Trust -------------------------------
(***************************************************************************)
(* The trust stage and its advancement.  The stage is not stored: it is    *)
(* the destination of the newest trust_maturity row of action_log, newest  *)
(* by the time its transaction began.  An advance reads the stage, reads   *)
(* the evidence and inserts its row, in separate statements, while         *)
(* sessions close, incidents happen and decisions are confirmed.           *)
(***************************************************************************)
EXTENDS Naturals, FiniteSets, Sequences, FiniteSetsExt

CONSTANTS
    Advances,     \* calls of evaluate_and_advance
    Sessions,
    Pillars,
    MaxConfirmed, \* confirmed decisions per pillar (bounds the run)
    MaxClock,     \* transaction start times (bounds the run)
    Bar           \* the evidence thresholds

ASSUME BoundsAssumption == MaxConfirmed \in Nat /\ MaxClock \in Nat

(* The bars of the source are 3, 5, 1, 5, 5, 3, 2, 10, 10 in this order:   *)
(* T3 asks at least what T2 asks.                                          *)
ASSUME BarAssumption ==
    /\ Bar \in [t1Closed : Nat, t1Calls : Nat, t2Confirmed : Nat, t2Clean : Nat,
                t2Streak : Nat, t3PerPillar : Nat, t3Pillars : Nat, t3Clean : Nat,
                t3Streak : Nat]
    /\ Bar.t2Confirmed <= Bar.t3PerPillar /\ Bar.t3Pillars >= 1
    /\ Bar.t2Clean <= Bar.t3Clean /\ Bar.t2Streak <= Bar.t3Streak

VARIABLES
    markers,    \* trust_maturity rows: [from, to, at]
    \* what the evidence is read from
    closed,     \* the closed sessions, oldest first
    okCalls,    \* successful skill invocations, as far as the bar counts
    dirty,      \* sessions with an incident
    confirmed,  \* decisions confirmed correct by blake, per pillar
    degraded,   \* some skill is below its threshold
    \* the advances
    clock,
    pc,
    began,      \* when an advance's transaction started: its row's timestamp
    rung        \* the stage it read and advances from

record == <<closed, okCalls, dirty, confirmed, degraded>>
advances == <<pc, began, rung>>
vars == <<markers, record, clock, advances>>

-----------------------------------------------------------------------------
Stages == 0..3
Top == 3                 \* T3, where _LADDER ends
Default == 0             \* settings.aether_trust_stage

TypeOK ==
    /\ markers \in SUBSET [from : Stages, to : Stages, at : 0..MaxClock]
    /\ closed \in Seq(Sessions)
    /\ okCalls \in 0..Bar.t1Calls
    /\ dirty \in SUBSET Sessions
    /\ confirmed \in [Pillars -> 0..MaxConfirmed]
    /\ degraded \in BOOLEAN
    /\ clock \in 0..MaxClock
    /\ pc \in [Advances -> {"idle", "read", "check", "weigh", "insert", "done", "refused"}]
    /\ began \in [Advances -> 0..MaxClock]
    /\ rung \in [Advances -> Stages]

Init ==
    /\ markers = {}
    /\ closed = <<>>
    /\ okCalls = 0
    /\ dirty = {}
    /\ confirmed = [p \in Pillars |-> 0]
    /\ degraded = FALSE
    /\ clock = 0
    /\ pc = [a \in Advances |-> "idle"]
    /\ began = [a \in Advances |-> 0]
    /\ rung = [a \in Advances |-> 0]

(* current_trust_stage: the greatest (timestamp, rank), else the default.  *)
LaterAnyRank(m, n) == m.at > n.at \/ (m.at = n.at /\ m.to <= n.to)

Later(m, n) == m.at > n.at \/ (m.at = n.at /\ m.to >= n.to)

StageOf(rows) ==
    IF rows = {} THEN Default
    ELSE (CHOOSE m \in rows : \A n \in rows : Later(m, n)).to

Stage == StageOf(markers)

-----------------------------------------------------------------------------
(* surface_advancement_evidence.                                           *)
Clean == {i \in DOMAIN closed : closed[i] \notin dirty}

Streak == {i \in DOMAIN closed : \A j \in i..Len(closed) : closed[j] \notin dirty}

Confirmed == MapThenSumSet(LAMBDA p : confirmed[p], Pillars)

ProvenPillars == {p \in Pillars : confirmed[p] >= Bar.t3PerPillar}

Met(stage) ==
    \/ /\ stage = 1
       /\ Len(closed) >= Bar.t1Closed /\ okCalls >= Bar.t1Calls
    \/ /\ stage = 2
       /\ Confirmed >= Bar.t2Confirmed
       /\ Cardinality(Clean) >= Bar.t2Clean /\ Cardinality(Streak) >= Bar.t2Streak
    \/ /\ stage = 3
       /\ Cardinality(ProvenPillars) >= Bar.t3Pillars
       /\ Cardinality(Clean) >= Bar.t3Clean /\ Cardinality(Streak) >= Bar.t3Streak
       /\ ~degraded

-----------------------------------------------------------------------------
(* What the rest of the system does to the record meanwhile.  An incident  *)
(* may hit a session that is already closed.                               *)
CloseSession(s) ==
    /\ s \notin {closed[i] : i \in DOMAIN closed}
    /\ closed' = Append(closed, s)
    /\ UNCHANGED <<markers, okCalls, dirty, confirmed, degraded, clock, advances>>

SkillSucceeds ==
    /\ okCalls < Bar.t1Calls
    /\ okCalls' = okCalls + 1
    /\ UNCHANGED <<markers, closed, dirty, confirmed, degraded, clock, advances>>

Incident(s) ==
    /\ dirty' = dirty \cup {s}
    /\ UNCHANGED <<markers, closed, okCalls, confirmed, degraded, clock, advances>>

(* confirm_decision may also turn a verdict round.                         *)
Judge(p) ==
    /\ \E n \in 0..MaxConfirmed :
          /\ n \in {confirmed[p] + 1, confirmed[p] - 1}
          /\ confirmed' = [confirmed EXCEPT ![p] = n]
    /\ UNCHANGED <<markers, closed, okCalls, dirty, degraded, clock, advances>>

Degrade ==
    /\ degraded' = ~degraded
    /\ UNCHANGED <<markers, closed, okCalls, dirty, confirmed, clock, advances>>

-----------------------------------------------------------------------------
(* evaluate_and_advance with a sign-off: a transaction of its own, whose   *)
(* now() may equal another's.                                              *)
Begin(a) ==
    /\ pc[a] = "idle"
    /\ clock' \in {clock, clock + 1} /\ clock' <= MaxClock
    /\ began' = [began EXCEPT ![a] = clock']
    /\ pc' = [pc EXCEPT ![a] = "read"]
    /\ UNCHANGED <<markers, record, rung>>

ReadStage(a) ==
    /\ pc[a] = "read"
    /\ rung' = [rung EXCEPT ![a] = Stage]
    /\ pc' = [pc EXCEPT ![a] = IF Stage = Top THEN "done" ELSE "check"]
    /\ UNCHANGED <<markers, record, clock, began>>

(* execute_trust_advance: the live stage again, then the evidence.         *)
CheckStage(a) ==
    /\ pc[a] = "check"
    /\ pc' = [pc EXCEPT ![a] = IF Stage = rung[a] THEN "weigh" ELSE "refused"]
    /\ UNCHANGED <<markers, record, clock, began, rung>>

Weigh(a) ==
    /\ pc[a] = "weigh"
    /\ pc' = [pc EXCEPT ![a] = IF Met(rung[a] + 1) THEN "insert" ELSE "refused"]
    /\ UNCHANGED <<markers, record, clock, began, rung>>

InsertTwoUp(a) ==
    /\ pc[a] = "insert"
    /\ markers' = markers \cup {[from |-> rung[a], to |-> rung[a] + 2, at |-> began[a]]}
    /\ pc' = [pc EXCEPT ![a] = "done"]
    /\ UNCHANGED <<record, clock, began, rung>>

(* The INSERT and the caller's commit.                                     *)
Insert(a) ==
    /\ pc[a] = "insert"
    /\ markers' = markers \cup {[from |-> rung[a], to |-> rung[a] + 1, at |-> began[a]]}
    /\ pc' = [pc EXCEPT ![a] = "done"]
    /\ UNCHANGED <<record, clock, began, rung>>

(* The request fails before its commit.                                    *)
Fail(a) ==
    /\ pc[a] \in {"read", "check", "weigh", "insert"}
    /\ pc' = [pc EXCEPT ![a] = "refused"]
    /\ UNCHANGED <<markers, record, clock, began, rung>>

Advance(a) ==
    Begin(a) \/ ReadStage(a) \/ CheckStage(a) \/ Weigh(a) \/ Insert(a) \/ Fail(a)

World ==
    \/ \E s \in Sessions : CloseSession(s) \/ Incident(s)
    \/ \E p \in Pillars : Judge(p)
    \/ SkillSucceeds \/ Degrade

Next == World \/ \E a \in Advances : Advance(a)

Spec == Init /\ [][Next]_vars

-----------------------------------------------------------------------------
(* No rung is skipped on the way up: a row to a stage stands on an earlier *)
(* row to the stage below it, whoever raced whom (execute_trust_advance).  *)
LadderComplete ==
    \A m \in markers :
        /\ m.to = m.from + 1
        /\ m.from = Default \/ \E n \in markers : n.to = m.from

(* The inductive strengthening: an advance under way read a stage that was *)
(* reached.                                                                *)
RungReached ==
    \A a \in Advances : pc[a] \in {"check", "weigh", "insert"} =>
        /\ rung[a] < Top
        /\ rung[a] = Default \/ \E n \in markers : n.to = rung[a]

IInv == TypeOK /\ LadderComplete /\ RungReached

(* An advance that inserts from the live stage, and began no earlier than  *)
(* the rows it sees, is live: equal timestamps are broken upward           *)
(* (current_trust_stage's fix).                                            *)
AdvanceCounts ==
    [][\A a \in Advances :
          pc[a] = "insert" /\ pc'[a] = "done" /\ Stage = rung[a]
             /\ (\A m \in markers : m.at <= began[a])
          => Stage' = rung[a] + 1]_vars

(* The stage never drops.  False: two requests advance from T0 together,   *)
(* a third goes on to T2, and the later row to T1 is the newest again.     *)
StageNeverDrops == [][Stage' >= Stage]_vars
=============================================================================
