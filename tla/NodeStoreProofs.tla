-------------------------- MODULE NodeStoreProofs --------------------------
(***************************************************************************)
(* Proofs about NodeStore, for any writers, sessions and number of edits:  *)
(* no interleaving of writes, links, rollbacks and audits makes a fact     *)
(* disappear, and nothing is flagged without an escalation.  And about     *)
(* Deadlines, for any nodes, scans and days: what is overdue is noticed.   *)
(***************************************************************************)
EXTENDS MonitoredNodes, TLAPS

(* A set of superseded nodes always has a successor outside it that is not *)
(* archived.  Of one node it says that it has such a successor, of a chain *)
(* or a circle of corrections that it leads out.                           *)
Superseded == {n \in Nodes : status[n] = "superseded"}

LeadsOut(S) ==
    \E n \in S, m \in Nodes \ S : <<m, n>> \in supersedes /\ status[m] # "archived"

ChainsLeadOut == \A S \in SUBSET Superseded : S # {} => LeadsOut(S)

IInv == TypeOK /\ FlaggedIsSurfaced /\ ChainsLeadOut

-----------------------------------------------------------------------------
(* A step that supersedes nothing and archives nothing keeps every way out.*)
LEMMA ChainsKept ==
    ASSUME ChainsLeadOut,
           supersedes \subseteq supersedes',
           Superseded' \subseteq Superseded,
           \A m \in Nodes : status'[m] = "archived" => status[m] = "archived"
    PROVE  ChainsLeadOut'
<1> SUFFICES ASSUME NEW S \in SUBSET Superseded', S # {} PROVE LeadsOut(S)'
  BY DEF ChainsLeadOut
<1>1. PICK n \in S, m \in Nodes \ S : <<m, n>> \in supersedes /\ status[m] # "archived"
  BY DEF ChainsLeadOut, LeadsOut
<1> QED BY <1>1 DEF LeadsOut

-----------------------------------------------------------------------------
(* Each action preserves the inductive invariant.                          *)

LEMMA QuietStep ==
    ASSUME IInv,
           \/ \E s \in Sessions : RebuildL1(s)
           \/ \E n \in Nodes : Scan(n) \/ Match(n) \/ WriteFails(n) \/ EnforceFails(n)
           \/ UNCHANGED vars
    PROVE  IInv'
<1> USE DEF IInv
<1>1. UNCHANGED <<status, supersedes, escalated>>
  BY DEF RebuildL1, Scan, Match, WriteFails, EnforceFails, vars, tables
<1>2. TypeOK'
  <2>1. CASE \E s \in Sessions : RebuildL1(s)
    BY <2>1 DEF TypeOK, RebuildL1, Rebuilt, Visible, writers
  <2>2. CASE \E n \in Nodes : Scan(n)
    BY <2>2 DEF TypeOK, Scan, Existing, tables
  <2>3. CASE \E n \in Nodes : Match(n)
    BY <2>3 DEF TypeOK, Match, Active, tables
  <2>4. CASE \E n \in Nodes : WriteFails(n) \/ EnforceFails(n)
    BY <2>4 DEF TypeOK, WriteFails, EnforceFails, tables
  <2>5. CASE UNCHANGED vars BY <2>5 DEF TypeOK, vars, tables, writers
  <2> QED BY <2>1, <2>2, <2>3, <2>4, <2>5
<1>3. FlaggedIsSurfaced' BY <1>1 DEF FlaggedIsSurfaced
<1>4. ChainsLeadOut' BY <1>1, ChainsKept DEF Superseded
<1> QED BY <1>2, <1>3, <1>4

(* The corrected node's way out is the node just written; a set without    *)
(* the corrected node had one before.                                      *)
LEMMA WriteCommitStep ==
    ASSUME NEW n \in Nodes, IInv, WriteCommit(n)
    PROVE  IInv'
<1> USE NoneAssumption DEF IInv, WriteCommit
<1>1. TypeOK'
  <2>1. supersedes' \in SUBSET (Nodes \X Nodes) BY DEF TypeOK
  <2>2. snapshot' \in [Sessions -> (SUBSET Nodes) \cup {{None}}]
    BY DEF TypeOK, Rebuilt, Visible
  <2>3. status' \in [Nodes -> Status] BY DEF TypeOK, Status
  <2>4. pc' \in [Nodes -> {"idle", "match", "write", "enforce", "done", "failed"}]
    BY DEF TypeOK, Enforced
  <2> QED BY <2>1, <2>2, <2>3, <2>4 DEF TypeOK
<1>2. FlaggedIsSurfaced' BY DEF FlaggedIsSurfaced
<1>3. ChainsLeadOut'
  <2> SUFFICES ASSUME NEW S \in SUBSET Superseded', S # {} PROVE LeadsOut(S)'
    BY DEF ChainsLeadOut
  <2>1. n \notin S BY DEF Superseded
  <2>2. CASE match[n] \in S
    <3>1. <<n, match[n]>> \in supersedes' BY <2>2 DEF Superseded
    <3>2. status'[n] # "archived" OBVIOUS
    <3> QED BY <2>1, <2>2, <3>1, <3>2 DEF LeadsOut
  <2>3. CASE match[n] \notin S
    <3>1. S \subseteq Superseded BY <2>1, <2>3 DEF Superseded
    <3>2. PICK x \in S, m \in Nodes \ S : <<m, x>> \in supersedes /\ status[m] # "archived"
      BY <3>1 DEF ChainsLeadOut, LeadsOut
    <3>3. <<m, x>> \in supersedes' /\ status'[m] # "archived" BY <3>2
    <3> QED BY <3>2, <3>3 DEF LeadsOut
  <2> QED BY <2>2, <2>3
<1> QED BY <1>1, <1>2, <1>3

(* Flagging both halves, by a writer's enforcement or by a link.           *)
LEMMA FlagStep ==
    ASSUME NEW a \in Nodes, NEW b \in Nodes, IInv, FlagBoth(a, b), UNCHANGED supersedes
    PROVE  /\ status' \in [Nodes -> Status]
           /\ contradicts' \in SUBSET (Nodes \X Nodes)
           /\ escalated' \in SUBSET Nodes
           /\ FlaggedIsSurfaced'
           /\ ChainsLeadOut'
<1> USE DEF IInv, FlagBoth
<1>1. /\ status' \in [Nodes -> Status]
      /\ contradicts' \in SUBSET (Nodes \X Nodes)
      /\ escalated' \in SUBSET Nodes
  BY DEF TypeOK, Status
<1>2. FlaggedIsSurfaced' BY DEF FlaggedIsSurfaced, TypeOK
<1>3. Superseded' \subseteq Superseded BY DEF Superseded, TypeOK
<1>4. \A m \in Nodes : status'[m] = "archived" => status[m] = "archived" BY DEF TypeOK
<1> QED BY <1>1, <1>2, <1>3, <1>4, ChainsKept

LEMMA EnforceStep ==
    ASSUME NEW n \in Nodes, IInv, Enforce(n)
    PROVE  IInv'
<1>1. PICK c \in conflicts[n] :
        FlagBoth(n, c) /\ conflicts' = [conflicts EXCEPT ![n] = @ \ {c}]
  BY DEF Enforce
<1>2. c \in Nodes BY DEF IInv, TypeOK
<1>3. /\ status' \in [Nodes -> Status]
      /\ contradicts' \in SUBSET (Nodes \X Nodes)
      /\ escalated' \in SUBSET Nodes
      /\ FlaggedIsSurfaced'
      /\ ChainsLeadOut'
  BY <1>1, <1>2, FlagStep DEF Enforce
<1>4. conflicts' \in [Nodes -> SUBSET Nodes] BY <1>1 DEF IInv, TypeOK
<1>5. TypeOK' BY <1>3, <1>4 DEF IInv, TypeOK, Enforce
<1> QED BY <1>3, <1>5 DEF IInv

LEMMA EditType ==
    ASSUME IInv, Edit
    PROVE  edits' \in 0..MaxEdits /\ UNCHANGED <<snapshot, writers>>
BY MaxEditsAssumption DEF IInv, TypeOK, Edit

LEMMA LinkStep ==
    ASSUME NEW a \in Nodes, NEW b \in Nodes, IInv,
           LinkSupersedes(a, b) \/ LinkContradicts(a, b) \/ LinkWithoutSession(a, b)
    PROVE  IInv'
<1>1. edits' \in 0..MaxEdits /\ UNCHANGED <<snapshot, writers>>
  BY EditType DEF LinkSupersedes, LinkContradicts, LinkWithoutSession
<1>2. CASE LinkContradicts(a, b)
  <2>1. /\ status' \in [Nodes -> Status]
        /\ contradicts' \in SUBSET (Nodes \X Nodes)
        /\ escalated' \in SUBSET Nodes
        /\ FlaggedIsSurfaced'
        /\ ChainsLeadOut'
    BY <1>2, FlagStep DEF LinkContradicts
  <2>2. TypeOK' BY <1>1, <1>2, <2>1 DEF IInv, TypeOK, LinkContradicts, writers
  <2> QED BY <2>1, <2>2 DEF IInv
<1>3. CASE LinkSupersedes(a, b) \/ LinkWithoutSession(a, b)
  <2>1. UNCHANGED <<status, escalated>> /\ supersedes \subseteq supersedes'
    BY <1>3 DEF LinkSupersedes, LinkWithoutSession
  <2>2. /\ supersedes' \in SUBSET (Nodes \X Nodes)
        /\ contradicts' \in SUBSET (Nodes \X Nodes)
    BY <1>3 DEF IInv, TypeOK, LinkSupersedes, LinkWithoutSession
  <2>3. TypeOK' BY <1>1, <2>1, <2>2 DEF IInv, TypeOK, writers
  <2>4. FlaggedIsSurfaced' BY <2>1 DEF IInv, FlaggedIsSurfaced
  <2>5. ChainsLeadOut' BY <2>1, ChainsKept DEF IInv, Superseded
  <2> QED BY <2>3, <2>4, <2>5 DEF IInv
<1> QED BY <1>2, <1>3

(* What stays superseded after a rollback had nothing to do with the       *)
(* archived node, so its way out is still one.                             *)
LEMMA RollbackStep ==
    ASSUME NEW n \in Nodes, IInv, Rollback(n)
    PROVE  IInv'
<1> USE DEF Rollback
<1>1. edits' \in 0..MaxEdits /\ UNCHANGED <<snapshot, writers>> BY EditType
<1>2. TypeOK' BY <1>1 DEF IInv, TypeOK, Status, writers
<1>3. FlaggedIsSurfaced' BY DEF IInv, FlaggedIsSurfaced, Restored
<1>4. ChainsLeadOut'
  <2> SUFFICES ASSUME NEW S \in SUBSET Superseded', S # {} PROVE LeadsOut(S)'
    BY DEF ChainsLeadOut
  <2>1. \A x \in S : /\ x \in Nodes /\ status[x] = "superseded"
                     /\ <<n, x>> \notin supersedes
    BY DEF Superseded, Restored
  <2>2. PICK x \in S, m \in Nodes \ S : <<m, x>> \in supersedes /\ status[m] # "archived"
    BY <2>1 DEF IInv, ChainsLeadOut, LeadsOut, Superseded
  <2>3. m # n BY <2>1, <2>2
  <2>4. status'[m] # "archived" BY <2>2, <2>3
  <2> QED BY <2>2, <2>4 DEF LeadsOut
<1> QED BY <1>2, <1>3, <1>4 DEF IInv

LEMMA AuditStep ==
    ASSUME NEW n \in Nodes, IInv, Audit(n)
    PROVE  IInv'
<1> USE DEF Audit
<1>1. edits' \in 0..MaxEdits /\ UNCHANGED <<snapshot, writers>> BY EditType
<1>2. TypeOK' BY <1>1 DEF IInv, TypeOK, Status, writers
<1>3. FlaggedIsSurfaced' BY DEF IInv, FlaggedIsSurfaced, TypeOK
<1>4. Superseded' \subseteq Superseded BY DEF IInv, Superseded, TypeOK
<1>5. \A m \in Nodes : status'[m] = "archived" => status[m] = "archived"
  BY DEF IInv, TypeOK
<1>6. ChainsLeadOut' BY <1>4, <1>5, ChainsKept DEF IInv
<1> QED BY <1>2, <1>3, <1>6 DEF IInv

-----------------------------------------------------------------------------
LEMMA StoreInvariant == Spec => []IInv
<1>1. Init => IInv
  <2> SUFFICES ASSUME Init PROVE IInv OBVIOUS
  <2>1. TypeOK BY MaxEditsAssumption DEF Init, TypeOK, Status
  <2>2. FlaggedIsSurfaced BY DEF Init, FlaggedIsSurfaced
  <2>3. ChainsLeadOut BY DEF Init, ChainsLeadOut, Superseded
  <2> QED BY <2>1, <2>2, <2>3 DEF IInv
<1>2. IInv /\ [Next]_vars => IInv'
  BY QuietStep, WriteCommitStep, EnforceStep, LinkStep, RollbackStep, AuditStep
     DEF Next, Writer, Maintenance
<1> QED BY <1>1, <1>2, PTL DEF Spec

(* Type correctness of the store.                                          *)
THEOREM StoreTypeCorrect == Spec => []TypeOK
<1>1. IInv => TypeOK BY DEF IInv
<1> QED BY <1>1, StoreInvariant, PTL

(* A superseded node always has a successor that is not rolled back.       *)
THEOREM SupersededHasSuccessorHolds == Spec => []SupersededHasSuccessor
<1>1. IInv => SupersededHasSuccessor
  <2> SUFFICES ASSUME IInv, NEW n \in Nodes, status[n] = "superseded"
               PROVE  \E m \in Nodes : <<m, n>> \in supersedes /\ status[m] # "archived"
    BY DEF SupersededHasSuccessor
  <2>1. {n} \in SUBSET Superseded BY DEF Superseded
  <2> QED BY <2>1 DEF IInv, ChainsLeadOut, LeadsOut
<1> QED BY <1>1, StoreInvariant, PTL

(* However corrections, links and rollbacks are chained, the successors of *)
(* a superseded node lead to one that is neither superseded nor archived.  *)
THEOREM FactIsNotLostHolds == Spec => []FactIsNotLost
<1>1. IInv => FactIsNotLost
  <2> SUFFICES ASSUME IInv,
                      NEW S \in SUBSET {n \in Nodes : status[n] \in {"superseded", "archived"}},
                      \A n \in S, m \in Nodes : <<m, n>> \in supersedes => m \in S,
                      NEW x \in S, status[x] = "superseded"
               PROVE  FALSE
    BY DEF FactIsNotLost
  <2> DEFINE T == S \cap Superseded
  <2>1. T \in SUBSET Superseded /\ T # {} BY DEF Superseded
  <2>2. PICK n \in T, m \in Nodes \ T : <<m, n>> \in supersedes /\ status[m] # "archived"
    BY <2>1 DEF IInv, ChainsLeadOut, LeadsOut
  <2>3. m \in S BY <2>2
  <2>4. m \in T BY <2>2, <2>3 DEF Superseded
  <2> QED BY <2>2, <2>4
<1> QED BY <1>1, StoreInvariant, PTL

(* Whoever flags a node has put it before the user in the same step.       *)
THEOREM FlaggedIsSurfacedHolds == Spec => []FlaggedIsSurfaced
<1>1. IInv => FlaggedIsSurfaced BY DEF IInv
<1> QED BY <1>1, StoreInvariant, PTL

-----------------------------------------------------------------------------
(* The deadline scans, for any nodes, scans, days and deadlines: what was  *)
(* overdue when a scan read it is noticed when the scan is over.           *)

(* What had passed when a scan for a session read the nodes of its         *)
(* pillars; the nodes some rows notice, those it has still to handle, and  *)
(* those it need not handle any more.                                      *)
Overdue(s) ==
    {n \in Watched : asked[s] # None /\ filed[n].all \cap scope[s] # {} /\ due[n] < began[s]}
NoticedIn(set) == {r.node : r \in set}
ToDo(s) == {t[1] : t \in todo[s]}
Settled(s) == answered[s] \cup skipped[s] \cup NoticedIn(rows)

(* Until a scan is over, what it found overdue is noticed, answered,       *)
(* skipped or still to be handled; without a session it has nothing to do. *)
Covered ==
    \A s \in D!Scans :
        /\ scanning[s] \in {"look", "insert"} =>
              Overdue(s) \subseteq Settled(s) \cup NoticedIn(mine[s]) \cup ToDo(s)
        /\ scanning[s] = "done" => Overdue(s) \subseteq Settled(s)
        /\ asked[s] = None => todo[s] = {}

DInv == D!TypeOK /\ Covered

(* What a scan reads contains whatever is overdue, with the highest        *)
(* priority.                                                               *)
LEMMA OverdueIsFound ==
    ASSUME D!TypeOK, NEW s, NEW ps, NEW ahead, NEW n \in Watched,
           filed[n].all \cap ps # {}, due[n] < today
    PROVE  n \in D!Found(ps, ahead) /\ D!Priority(s, n) = 0
<1>1. due[n] \in Nat /\ today \in Nat BY DaysAssumption DEF D!TypeOK
<1>2. D!Left(n) < 0 BY <1>1 DEF D!Left
<1> QED BY <1>2 DEF D!Found, D!Priority

LEMMA PriorityType ==
    ASSUME NEW s, NEW n
    PROVE  D!Priority(s, n) \in 0..3
BY DEF D!Priority, D!Class

LEMMA BeginStep ==
    ASSUME DInv, NEW s \in D!Scans, NEW v \in Sessions \cup {None},
           NEW ps \in SUBSET D!Pillars, NEW ahead, D!Begin(s, v, ps, ahead)
    PROVE  DInv'
<1> USE DEF DInv, D!Begin, D!store
<1> DEFINE urgent == {x \in D!Found(ps, ahead) : v # None /\ D!Priority(s, x) <= 1}
           found == {<<n, D!Priority(s, n)>> : n \in urgent}
<1>1. found \in SUBSET (Watched \X (0..1))
  <2>1. \A n \in urgent : n \in Watched BY DEF D!Found
  <2>2. \A n : D!Priority(s, n) <= 1 => D!Priority(s, n) \in 0..1 BY PriorityType
  <2> QED BY <2>1, <2>2
<1>2. \A n \in Watched : v # None /\ filed[n].all \cap ps # {} /\ due[n] < today =>
        n \in {t[1] : t \in found}
  <2> SUFFICES ASSUME NEW n \in Watched, v # None, filed[n].all \cap ps # {}, due[n] < today
               PROVE  n \in {t[1] : t \in found}
    OBVIOUS
  <2>1. n \in D!Found(ps, ahead) /\ D!Priority(s, n) = 0 BY OverdueIsFound
  <2> DEFINE t == <<n, D!Priority(s, n)>>
  <2>2. t \in found /\ t[1] = n
    <3>1. D!Priority(s, n) <= 1 BY <2>1
    <3> QED BY <2>1, <3>1
  <2> HIDE DEF t, found
  <2> QED BY <2>2
<1>3. v = None => found = {} OBVIOUS
<1>4. todo' = [todo EXCEPT ![s] = found] OBVIOUS
<1> HIDE DEF found
<1>5. D!TypeOK' BY <1>1, <1>4 DEF D!TypeOK
<1>6. Covered'
  <2>1. todo'[s] = found /\ ToDo(s)' = {t[1] : t \in found} BY <1>4 DEF ToDo, D!TypeOK
  <2>2. Overdue(s)' = {n \in Watched : v # None /\ filed[n].all \cap ps # {} /\ due[n] < today}
    BY DEF Overdue, D!TypeOK
  <2>3. Overdue(s)' \subseteq ToDo(s)' BY <1>2, <2>1, <2>2
  <2>4. asked'[s] = v /\ scanning'[s] # "done" BY DEF D!TypeOK
  <2>5. ASSUME NEW u \in D!Scans, u # s
        PROVE  /\ scanning'[u] = scanning[u] /\ asked'[u] = asked[u] /\ todo'[u] = todo[u]
               /\ Overdue(u)' = Overdue(u) /\ ToDo(u)' = ToDo(u)
    BY <2>5 DEF D!TypeOK, Overdue, ToDo
  <2>6. \A u \in D!Scans : Settled(u)' = Settled(u) /\ NoticedIn(mine[u])' = NoticedIn(mine[u])
    BY DEF Settled, NoticedIn
  <2> QED BY <1>3, <2>1, <2>3, <2>4, <2>5, <2>6 DEF Covered
<1> QED BY <1>5, <1>6

(* A step on one urgent node: whatever leaves the list is noticed, or      *)
(* skipped.                                                                *)
LEMMA NodeStep ==
    ASSUME DInv, NEW s \in D!Scans, NEW t \in todo[s],
           D!Look(s, t) \/ D!Insert(s, t) \/ D!Refused(s, t) \/ D!BreakDeadlock(s, t)
    PROVE  DInv'
<1> USE DEF DInv, D!store
<1>1. t \in Watched \X (0..1) /\ t[1] \in Watched /\ t[2] \in 0..1 BY DEF D!TypeOK
<1>2. asked[s] # None /\ asked[s] \in Sessions BY DEF Covered, D!TypeOK
<1> DEFINE row == [node |-> t[1], session |-> asked[s], prio |-> t[2], by |-> s]
<1>3. row \in D!Row BY <1>1, <1>2 DEF D!Row
<1>4. UNCHANGED <<today, due, filed, live, rows, asked, scope, began, answered>>
  BY DEF D!Look, D!Insert, D!Refused, D!BreakDeadlock
<1>5. \A u \in D!Scans : u # s => /\ scanning'[u] = scanning[u] /\ skipped'[u] = skipped[u]
                                  /\ todo'[u] = todo[u] /\ mine'[u] = mine[u]
  BY DEF D!TypeOK, D!Look, D!Insert, D!Refused, D!BreakDeadlock, D!GoOn, D!Lose
<1>6. D!TypeOK'
  <2>1. CASE D!Look(s, t) BY <1>1, <2>1 DEF D!TypeOK, D!Look
  <2>2. CASE D!Insert(s, t)
    <3>1. mine' = [mine EXCEPT ![s] = @ \cup {row}] BY <2>2 DEF D!Insert
    <3> HIDE DEF row
    <3> QED BY <1>3, <2>2, <3>1 DEF D!TypeOK, D!Insert, D!GoOn
  <2>3. CASE D!Refused(s, t)
    <3>1. CASE s \in Surfacers BY <2>3, <3>1 DEF D!TypeOK, D!Refused, D!GoOn
    <3>2. CASE s \notin Surfacers BY <2>3, <3>2 DEF D!TypeOK, D!Refused, D!Lose
    <3> QED BY <3>1, <3>2
  <2>4. CASE D!BreakDeadlock(s, t)
    <3>1. CASE s \in Surfacers
      <4>1. /\ todo' = [todo EXCEPT ![s] = @ \ {t}]
            /\ \E p \in {"look", "insert"} : scanning' = [scanning EXCEPT ![s] = p]
            /\ facing' = [facing EXCEPT ![s] = None] /\ mine' = mine
            /\ skipped' = [skipped EXCEPT ![s] = @ \cup {t[1]}]
        BY <2>4, <3>1 DEF D!BreakDeadlock, D!GoOn
      <4> QED BY <1>1, <1>4, <4>1 DEF D!TypeOK
    <3>2. CASE s \notin Surfacers
      <4>1. /\ scanning' = [scanning EXCEPT ![s] = "failed"]
            /\ mine' = [mine EXCEPT ![s] = {}] /\ UNCHANGED <<todo, facing, skipped>>
        BY <2>4, <3>2 DEF D!BreakDeadlock, D!Lose
      <4> QED BY <1>4, <4>1 DEF D!TypeOK
    <3> QED BY <3>1, <3>2
  <2> QED BY <2>1, <2>2, <2>3, <2>4
<1>7. scanning'[s] \in {"look", "insert"} =>
        skipped[s] \cup NoticedIn(rows) \cup NoticedIn(mine[s]) \cup ToDo(s)
          \subseteq skipped'[s] \cup NoticedIn(rows) \cup NoticedIn(mine[s])' \cup ToDo(s)'
  <2>1. CASE D!Look(s, t)
    <3>1. /\ mine'[s] = mine[s] /\ skipped'[s] = skipped[s]
          /\ todo'[s] = todo[s] \/ (todo'[s] = todo[s] \ {t} /\ D!Noticed(s, t[1]))
      BY <2>1 DEF D!Look, D!TypeOK
    <3> QED BY <3>1 DEF D!Noticed, NoticedIn, ToDo
  <2>2. CASE D!Insert(s, t)
    <3>1. mine'[s] = mine[s] \cup {row} /\ todo'[s] = todo[s] \ {t} /\ skipped'[s] = skipped[s]
      BY <2>2 DEF D!Insert, D!GoOn, D!TypeOK
    <3>2. row.node = t[1] OBVIOUS
    <3> HIDE DEF row
    <3> QED BY <3>1, <3>2 DEF NoticedIn, ToDo
  <2>3. CASE D!Refused(s, t)
    <3>1. ASSUME s \in Surfacers
          PROVE  mine'[s] = mine[s] /\ todo'[s] = todo[s] \ {t} /\ skipped'[s] = skipped[s]
      BY <2>3, <3>1 DEF D!Refused, D!GoOn, D!TypeOK
    <3>2. s \notin Surfacers => scanning'[s] = "failed" BY <2>3 DEF D!Refused, D!Lose, D!TypeOK
    <3>3. \E r \in rows \cup mine[s] : r.node = t[1] BY <2>3 DEF D!Refused, D!Clash
    <3> QED BY <3>1, <3>2, <3>3 DEF NoticedIn, ToDo
  <2>4. CASE D!BreakDeadlock(s, t)
    <3>1. ASSUME s \in Surfacers
          PROVE  /\ mine'[s] = mine[s] /\ todo'[s] = todo[s] \ {t}
                 /\ skipped'[s] = skipped[s] \cup {t[1]}
      BY <2>4, <3>1 DEF D!BreakDeadlock, D!GoOn, D!TypeOK
    <3>2. s \notin Surfacers => scanning'[s] = "failed"
      BY <2>4 DEF D!BreakDeadlock, D!Lose, D!TypeOK
    <3> QED BY <3>1, <3>2 DEF NoticedIn, ToDo
  <2> QED BY <2>1, <2>2, <2>3, <2>4
<1>8. scanning[s] \in {"look", "insert"} /\ scanning'[s] # "done"
  BY DEF D!Look, D!Insert, D!Refused, D!BreakDeadlock, D!Inserting, D!GoOn, D!Lose, D!TypeOK
<1>9. Covered'
  <2>1. \A u \in D!Scans : Overdue(u)' = Overdue(u) BY <1>4 DEF Overdue
  <2>2. NoticedIn(rows)' = NoticedIn(rows) BY <1>4 DEF NoticedIn
  <2>3. \A u \in D!Scans : u # s => /\ NoticedIn(mine[u])' = NoticedIn(mine[u])
                                    /\ Settled(u)' = Settled(u) /\ ToDo(u)' = ToDo(u)
    BY <1>4, <1>5 DEF NoticedIn, Settled, ToDo
  <2>4. asked'[s] # None BY <1>2, <1>4
  <2>5. Settled(s)' = answered[s] \cup skipped'[s] \cup NoticedIn(rows) BY <1>4, <2>2 DEF Settled
  <2>6. scanning'[s] \in {"look", "insert"} =>
          Overdue(s) \subseteq Settled(s)' \cup NoticedIn(mine[s])' \cup ToDo(s)'
    BY <1>7, <1>8, <2>5 DEF Covered, Settled
  <2> QED BY <1>4, <1>5, <1>8, <2>1, <2>3, <2>4, <2>6 DEF Covered
<1> QED BY <1>6, <1>9

(* The end of a scan: what it has not committed is lost with it only when  *)
(* it fails.                                                               *)
LEMMA ScanEndsStep ==
    ASSUME DInv, NEW s \in D!Scans, D!Commit(s) \/ D!Fail(s)
    PROVE  DInv'
<1> USE DEF DInv, D!store, D!Commit, D!Fail
<1>1. mine[s] \in SUBSET D!Row BY DEF D!TypeOK
<1>2. D!TypeOK' BY <1>1 DEF D!TypeOK
<1>3. /\ UNCHANGED <<due, filed, asked, scope, began, todo, skipped, answered>>
      /\ rows \subseteq rows'
  OBVIOUS
<1>4. \A u \in D!Scans : u # s => scanning'[u] = scanning[u] /\ mine'[u] = mine[u]
  BY DEF D!TypeOK
<1>5. scanning'[s] = "failed" \/ (scanning'[s] = "done" /\ todo[s] = {} /\ rows' = rows \cup mine[s]
                                   /\ scanning[s] \in {"look", "insert"})
  BY DEF D!TypeOK
<1>6. \A u \in D!Scans : Overdue(u)' = Overdue(u) /\ ToDo(u)' = ToDo(u)
  BY <1>3 DEF Overdue, ToDo
<1>7. \A u \in D!Scans : Settled(u) \subseteq Settled(u)' BY <1>3 DEF Settled, NoticedIn
<1>8. ASSUME NEW u \in D!Scans, u # s PROVE NoticedIn(mine[u])' = NoticedIn(mine[u])
  BY <1>4, <1>8 DEF NoticedIn
<1>9. scanning'[s] = "done" => ToDo(s) = {} /\ Settled(s) \cup NoticedIn(mine[s]) \subseteq Settled(s)'
  BY <1>3, <1>5 DEF ToDo, Settled, NoticedIn
<1>10. Covered' BY <1>3, <1>4, <1>5, <1>6, <1>7, <1>8, <1>9 DEF Covered
<1> QED BY <1>2, <1>10

LEMMA CoveredKept ==
    ASSUME Covered, UNCHANGED <<scanning, asked, todo>>,
           \A u \in D!Scans : /\ Overdue(u)' = Overdue(u) /\ ToDo(u)' = ToDo(u)
                              /\ NoticedIn(mine[u])' = NoticedIn(mine[u]),
           \A u \in D!Scans : scanning[u] # "idle" => Settled(u) \subseteq Settled(u)'
    PROVE  Covered'
<1> SUFFICES ASSUME NEW u \in D!Scans
             PROVE  /\ scanning[u] \in {"look", "insert"} =>
                          Overdue(u)' \subseteq Settled(u)' \cup NoticedIn(mine[u])' \cup ToDo(u)'
                    /\ scanning[u] = "done" => Overdue(u)' \subseteq Settled(u)'
                    /\ asked[u] = None => todo[u] = {}
  BY DEF Covered
<1>1. scanning[u] \in {"look", "insert"} =>
        Overdue(u) \subseteq Settled(u) \cup NoticedIn(mine[u]) \cup ToDo(u)
  BY DEF Covered
<1>2. scanning[u] = "done" => Overdue(u) \subseteq Settled(u) BY DEF Covered
<1>3. asked[u] = None => todo[u] = {} BY DEF Covered
<1> QED BY <1>1, <1>2, <1>3

(* A notice is answered, or another one is written.                        *)
LEMMA NoticeStep ==
    ASSUME DInv,
           \/ \E r \in rows : D!Answer(r)
           \/ \E n \in Watched, v \in Sessions, p \in 0..1 : D!OthersNotice(n, v, p)
    PROVE  DInv'
<1> USE DEF DInv, D!store, D!scans
<1>1. UNCHANGED <<due, filed, scanning, asked, scope, began, todo, mine>>
  BY DEF D!Answer, D!OthersNotice
<1>2. \A u \in D!Scans : Overdue(u)' = Overdue(u) /\ ToDo(u)' = ToDo(u)
                         /\ NoticedIn(mine[u])' = NoticedIn(mine[u])
  BY <1>1 DEF Overdue, ToDo, NoticedIn
<1>3. CASE \E r \in rows : D!Answer(r)
  <2> PICK r \in rows : D!Answer(r) BY <1>3
  <2>1. r.node \in Watched BY DEF D!TypeOK, D!Row
  <2>2. D!TypeOK' BY <2>1 DEF D!TypeOK, D!Answer
  <2>3. \A u \in D!Scans : scanning[u] # "idle" => Settled(u) \subseteq Settled(u)'
    BY DEF Settled, NoticedIn, D!Answer
  <2> QED BY <1>1, <1>2, <2>2, <2>3, CoveredKept
<1>4. CASE \E n \in Watched, v \in Sessions, p \in 0..1 : D!OthersNotice(n, v, p)
  <2> PICK n \in Watched, v \in Sessions, p \in 0..1 : D!OthersNotice(n, v, p) BY <1>4
  <2> DEFINE row == [node |-> n, session |-> v, prio |-> p, by |-> "others"]
  <2>1. row \in D!Row BY DEF D!Row
  <2>2. rows' = rows \cup {row} /\ UNCHANGED <<answered, skipped>> BY DEF D!OthersNotice
  <2> HIDE DEF row
  <2>3. D!TypeOK' BY <2>1, <2>2 DEF D!TypeOK, D!OthersNotice
  <2>4. \A u \in D!Scans : Settled(u) \subseteq Settled(u)' BY <2>2 DEF Settled, NoticedIn
  <2> QED BY <1>1, <1>2, <2>3, <2>4, CoveredKept
<1> QED BY <1>3, <1>4

LEMMA StandStill ==
    ASSUME DInv, D!TypeOK',
           UNCHANGED <<due, filed, rows, scanning, asked, scope, began, todo, mine, skipped, answered>>
    PROVE  DInv'
BY DEF DInv, Covered, Overdue, Settled, ToDo, NoticedIn

LEMMA ScanInvariant == D!Spec => []DInv
<1>1. D!Init => DInv
  <2> SUFFICES ASSUME D!Init PROVE DInv OBVIOUS
  <2>1. /\ filed \in [Watched -> Filings]
        /\ asked \in [D!Scans -> Sessions \cup {None}]
        /\ scanning \in [D!Scans -> {"idle", "look", "insert", "done", "failed"}]
        /\ facing \in [D!Scans -> (Watched \X (0..1)) \cup {None}]
    BY DEF D!Init
  <2>2. /\ todo \in [D!Scans -> SUBSET (Watched \X (0..1))]
        /\ mine \in [D!Scans -> SUBSET D!Row]
        /\ skipped \in [D!Scans -> SUBSET Watched]
        /\ answered \in [D!Scans -> SUBSET Watched]
        /\ scope \in [D!Scans -> SUBSET D!Pillars]
    BY DEF D!Init
  <2>3. /\ today \in Days /\ began \in [D!Scans -> Days]
        /\ live \in [Watched -> BOOLEAN] /\ rows \in SUBSET D!Row
    BY DaysAssumption DEF D!Init
  <2>4. D!TypeOK BY <2>1, <2>2, <2>3 DEF D!Init, D!TypeOK
  <2>5. \A s \in D!Scans : scanning[s] = "idle" /\ todo[s] = {} BY DEF D!Init
  <2>6. Covered BY <2>5 DEF Covered
  <2> QED BY <2>4, <2>6 DEF DInv
<1>2. DInv /\ [D!Next]_D!vars => DInv'
  <2> SUFFICES ASSUME DInv, [D!Next]_D!vars PROVE DInv' OBVIOUS
  <2>1. CASE D!World
    <3> USE DEF D!scans, D!store
    <3>1. CASE D!Tick BY <3>1, StandStill DEF D!Tick, DInv, D!TypeOK
    <3>2. ASSUME NEW n \in Watched, D!StatusMoves(n) PROVE DInv'
      BY <3>2, StandStill DEF D!StatusMoves, DInv, D!TypeOK
    <3> QED BY <2>1, <3>1, <3>2, NoticeStep DEF D!World
  <2>2. ASSUME NEW s \in D!Scans, D!Scan(s) PROVE DInv'
    <3>1. ASSUME NEW v \in Sessions \cup {None}, NEW ps \in SUBSET D!Pillars, NEW ahead,
                 D!Begin(s, v, ps, ahead)
          PROVE  DInv'
      BY <3>1, BeginStep
    <3>2. /\ D!Pillars \in SUBSET D!Pillars
          /\ {"business"} \in SUBSET D!Pillars /\ {"legal"} \in SUBSET D!Pillars
      BY DEF D!Pillars
    <3>3. ASSUME NEW t \in todo[s],
                 D!Look(s, t) \/ D!Insert(s, t) \/ D!Refused(s, t) \/ D!BreakDeadlock(s, t)
          PROVE  DInv'
      BY <3>3, NodeStep
    <3>4. ASSUME D!Commit(s) \/ D!Fail(s) PROVE DInv' BY <3>4, ScanEndsStep
    <3> QED BY <2>2, <3>1, <3>2, <3>3, <3>4 DEF D!Scan
  <2>3. CASE UNCHANGED D!vars
    BY <2>3, StandStill DEF D!vars, D!store, D!scans, DInv, D!TypeOK
  <2> QED BY <2>1, <2>2, <2>3 DEF D!Next
<1> QED BY <1>1, <1>2, PTL DEF D!Spec

(* Type correctness of the scans and their notices.                        *)
THEOREM ScansTypeCorrect == D!Spec => []D!TypeOK
<1>1. DInv => D!TypeOK BY DEF DInv
<1> QED BY <1>1, ScanInvariant, PTL

(* When a scan for a session is over, every deadline of its pillars that   *)
(* had passed when it read them is noticed, or was answered meanwhile, or  *)
(* fell to a deadlock (read_by_deadline, deadline_monitor,                 *)
(* legal_deadline_surfacer).                                               *)
THEOREM OverdueIsNoticedHolds == D!Spec => []OverdueIsNoticed
<1>1. DInv => OverdueIsNoticed
  BY DEF DInv, Covered, Settled, OverdueIsNoticed, D!OverdueIsNoticed, D!NoticedNodes, Overdue,
         NoticedIn
<1> QED BY <1>1, ScanInvariant, PTL
=============================================================================
