----------------------------- MODULE NodeStore -----------------------------
(***************************************************************************)
(* The memory nodes and the four ways their status changes: node_writer    *)
(* (scan for contradictions, match for supersession, one transaction that  *)
(* writes, one enforcement per conflict), node_linker, rollback_executor   *)
(* and confidence_auditor, each on a database session of its own.          *)
(*                                                                         *)
(* A transaction is one step: the UPDATEs hold their row locks until the   *)
(* commit, so nobody sees its middle.  What a writer read in an earlier    *)
(* statement or transaction (conflicts, match) is kept beside it and may   *)
(* be stale.  A node is named by the writer that creates it.               *)
(***************************************************************************)
EXTENDS Naturals, FiniteSets

CONSTANTS
    Nodes,      \* the writers, and the node each of them writes
    Sessions,   \* user sessions, each with an L1 snapshot
    MaxEdits,   \* links, rollbacks and audits in a run (bounds the run)
    None

ASSUME NoneAssumption == None \notin Nodes
ASSUME MaxEditsAssumption == MaxEdits \in Nat

VARIABLES
    \* the tables
    status,       \* nodes.status
    supersedes,   \* node_links of type supersedes: <<newer, older>>
    contradicts,  \* node_links of type contradicts
    escalated,    \* nodes some pending_escalations row is about
    snapshot,     \* sessions.l1_snapshot: the nodes it shows, or None yet
    \* the writers
    pc,
    home,         \* the session a writer writes for
    explicit,     \* drafts of confidence explicit: the user corrects a fact
    conflicts,    \* nodes found to contradict the draft, not yet enforced
    match,        \* the node the draft restates, read before its update
    edits

tables == <<status, supersedes, contradicts, escalated, snapshot>>
writers == <<pc, home, explicit, conflicts, match>>
vars == <<tables, writers, edits>>

-----------------------------------------------------------------------------
Status == {"absent", "active", "superseded", "flagged", "archived"}
Existing == {n \in Nodes : status[n] # "absent"}
Active == {n \in Nodes : status[n] = "active"}

(* What rebuild_l1 collects: open tasks and flagged nodes.                 *)
Visible == {n \in Nodes : status[n] \in {"active", "flagged"}}

TypeOK ==
    /\ status \in [Nodes -> Status]
    /\ supersedes \in SUBSET (Nodes \X Nodes)
    /\ contradicts \in SUBSET (Nodes \X Nodes)
    /\ escalated \in SUBSET Nodes
    /\ snapshot \in [Sessions -> (SUBSET Nodes) \cup {{None}}]
    /\ pc \in [Nodes -> {"idle", "match", "write", "enforce", "done", "failed"}]
    /\ home \in [Nodes -> Sessions]
    /\ explicit \in SUBSET Nodes
    /\ conflicts \in [Nodes -> SUBSET Nodes]
    /\ match \in [Nodes -> Nodes \cup {None}]
    /\ edits \in 0..MaxEdits

Init ==
    /\ status = [n \in Nodes |-> "absent"]
    /\ supersedes = {}
    /\ contradicts = {}
    /\ escalated = {}
    /\ snapshot = [s \in Sessions |-> {None}]
    /\ pc = [n \in Nodes |-> "idle"]
    /\ home \in [Nodes -> Sessions]
    /\ explicit \in SUBSET Nodes
    /\ conflicts = [n \in Nodes |-> {}]
    /\ match = [n \in Nodes |-> None]
    /\ edits = 0

-----------------------------------------------------------------------------
(* rebuild_l1: the stored snapshot if there is one.                        *)
Rebuilt(s, fresh) == IF snapshot[s] = {None} THEN fresh ELSE snapshot[s]

(* session start, or the context of a turn.                                *)
RebuildL1(s) ==
    /\ snapshot' = [snapshot EXCEPT ![s] = Rebuilt(s, Visible)]
    /\ UNCHANGED <<status, supersedes, contradicts, escalated, writers, edits>>

(* _run_contradiction_scan: similar nodes of any status, of which the      *)
(* model calls some contradicting; no answer means none (fail-open).       *)
Scan(n) ==
    /\ pc[n] = "idle"
    /\ \E found \in SUBSET Existing : conflicts' = [conflicts EXCEPT ![n] = found]
    /\ pc' = [pc EXCEPT ![n] = "match"]
    /\ UNCHANGED <<tables, home, explicit, match, edits>>

(* _check_supersession's SELECT: only an explicit draft supersedes.        *)
Match(n) ==
    /\ pc[n] = "match"
    /\ \E best \in (IF n \in explicit THEN Active ELSE {}) \cup {None} :
          match' = [match EXCEPT ![n] = best]
    /\ pc' = [pc EXCEPT ![n] = "write"]
    /\ UNCHANGED <<tables, home, explicit, conflicts, edits>>

Enforced(n) == IF conflicts[n] = {} THEN "done" ELSE "enforce"

(* From the UPDATE of the match to the commit: the node, its link and the  *)
(* snapshot.  The UPDATE names the match by its id only.                   *)
WriteCommitNoLink(n) ==
    /\ pc[n] = "write"
    /\ status' = [m \in Nodes |-> IF m = n THEN "active"
                                  ELSE IF m = match[n] THEN "superseded" ELSE status[m]]
    /\ snapshot' = [snapshot EXCEPT ![home[n]] =
                      Rebuilt(home[n], (Visible \ {match[n]}) \cup {n})]
    /\ pc' = [pc EXCEPT ![n] = Enforced(n)]
    /\ UNCHANGED <<supersedes, contradicts, escalated, home, explicit, conflicts, match, edits>>

WriteCommit(n) ==
    /\ pc[n] = "write"
    /\ status' = [m \in Nodes |-> IF m = n THEN "active"
                                  ELSE IF m = match[n] THEN "superseded" ELSE status[m]]
    /\ supersedes' = supersedes \cup (IF match[n] = None THEN {} ELSE {<<n, match[n]>>})
    /\ snapshot' = [snapshot EXCEPT ![home[n]] =
                      Rebuilt(home[n], (Visible \ {match[n]}) \cup {n})]
    /\ pc' = [pc EXCEPT ![n] = Enforced(n)]
    /\ UNCHANGED <<contradicts, escalated, home, explicit, conflicts, match, edits>>

(* A refused draft, a failing statement or a crash before the commit:      *)
(* nothing of the write is left.                                           *)
WriteFails(n) ==
    /\ pc[n] \in {"match", "write"}
    /\ pc' = [pc EXCEPT ![n] = "failed"]
    /\ UNCHANGED <<tables, home, explicit, conflicts, match, edits>>

(* contradiction_enforcer(a, b): flags both, links them unless linked,     *)
(* escalates; one transaction.                                             *)
FlagBothNoDuplicate(a, b) ==
    /\ status' = [status EXCEPT ![a] = "flagged", ![b] = "flagged"]
    /\ contradicts' = contradicts \cup {<<a, b>>}
    /\ escalated' = IF <<a, b>> \in contradicts THEN escalated ELSE escalated \cup {a, b}

FlagBoth(a, b) ==
    /\ status' = [status EXCEPT ![a] = "flagged", ![b] = "flagged"]
    /\ contradicts' = contradicts \cup {<<a, b>>}
    /\ escalated' = escalated \cup {a, b}

Enforce(n) ==
    /\ pc[n] = "enforce"
    /\ \E c \in conflicts[n] :
          /\ FlagBoth(n, c)
          /\ conflicts' = [conflicts EXCEPT ![n] = @ \ {c}]
    /\ pc' = [pc EXCEPT ![n] = IF conflicts'[n] = {} THEN "done" ELSE "enforce"]
    /\ UNCHANGED <<supersedes, snapshot, home, explicit, match, edits>>

(* A failing enforcement, a timeout of the skill or a crash ends the       *)
(* writer; the node is written, its other conflicts are forgotten.         *)
EnforceFails(n) ==
    /\ pc[n] = "enforce"
    /\ pc' = [pc EXCEPT ![n] = "failed"]
    /\ UNCHANGED <<tables, home, explicit, conflicts, match, edits>>

-----------------------------------------------------------------------------
Edit ==
    /\ edits < MaxEdits
    /\ edits' = edits + 1
    /\ UNCHANGED <<snapshot, writers>>

(* link_nodes: any two existing nodes; a duplicate is skipped.             *)
LinkSupersedes(a, b) ==
    /\ Edit
    /\ {a, b} \subseteq Existing
    /\ <<a, b>> \notin supersedes
    /\ supersedes' = supersedes \cup {<<a, b>>}
    /\ UNCHANGED <<status, contradicts, escalated>>

LinkContradicts(a, b) ==
    /\ Edit
    /\ {a, b} \subseteq Existing
    /\ <<a, b>> \notin contradicts
    /\ FlagBoth(a, b)
    /\ UNCHANGED supersedes

(* The inputs name no valid session, which is noticed after the flush of   *)
(* the link: invoke_skill logs the error and so commits the link alone.    *)
LinkWithoutSession(a, b) ==
    /\ Edit
    /\ {a, b} \subseteq Existing
    /\ <<a, b>> \notin contradicts
    /\ contradicts' = contradicts \cup {<<a, b>>}
    /\ UNCHANGED <<status, supersedes, escalated>>

(* rollback_executor: archives the node, restores what it superseded.      *)
Restored(n) == {m \in Nodes : <<n, m>> \in supersedes /\ status[m] = "superseded" /\ m # n}

Rollback(n) ==
    /\ Edit
    /\ n \in Existing
    /\ status' = [m \in Nodes |-> IF m = n THEN "archived"
                                  ELSE IF m \in Restored(n) THEN "active" ELSE status[m]]
    /\ escalated' = escalated \cup {n}
    /\ UNCHANGED <<supersedes, contradicts>>

(* confidence_auditor: flags an inferred or speculative node whatever its  *)
(* status is.                                                              *)
Audit(n) ==
    /\ Edit
    /\ n \in Existing \ explicit
    /\ status' = [status EXCEPT ![n] = "flagged"]
    /\ escalated' = escalated \cup {n}
    /\ UNCHANGED <<supersedes, contradicts>>

-----------------------------------------------------------------------------
Writer(n) ==
    \/ Scan(n) \/ Match(n) \/ WriteCommit(n) \/ WriteFails(n)
    \/ Enforce(n) \/ EnforceFails(n)

Maintenance ==
    \/ \E a, b \in Nodes :
          LinkSupersedes(a, b) \/ LinkContradicts(a, b) \/ LinkWithoutSession(a, b)
    \/ \E n \in Nodes : Rollback(n) \/ Audit(n)

Next ==
    \/ \E s \in Sessions : RebuildL1(s)
    \/ \E n \in Nodes : Writer(n)
    \/ Maintenance
    \/ /\ \A n \in Nodes : pc[n] \in {"done", "failed"}
       /\ UNCHANGED vars

Spec == Init /\ [][Next]_vars

-----------------------------------------------------------------------------
(* A superseded node always has a successor that is not rolled back:       *)
(* rollback_executor's restoration (step 5) and write_node's link are in   *)
(* step with the statuses, however writers and rollbacks interleave.       *)
SupersededHasSuccessor ==
    \A n \in Nodes : status[n] = "superseded" =>
        \E m \in Nodes : <<m, n>> \in supersedes /\ status[m] # "archived"

(* Following the successors of a superseded node leads to one that is      *)
(* active or flagged: a correction never makes a fact disappear, not even  *)
(* when a correction of a correction is rolled back (rollback_executor,    *)
(* _check_supersession).                                                   *)
FactIsNotLost ==
    \A S \in SUBSET {n \in Nodes : status[n] \in {"superseded", "archived"}} :
        (\A n \in S, m \in Nodes : <<m, n>> \in supersedes => m \in S)
            => \A n \in S : status[n] # "superseded"

(* Every flagged node was put before the user (INV-07): an escalation is   *)
(* about it, whoever flagged it (contradiction_enforcer,                   *)
(* confidence_auditor).                                                    *)
FlaggedIsSurfaced == \A n \in Nodes : status[n] = "flagged" => n \in escalated

(* A surfaced contradiction is resolved by nobody but a rollback: a        *)
(* flagged node stays flagged or is archived.  False: the UPDATE of a      *)
(* supersession matched before the flag turns it to superseded.            *)
ContradictionStays ==
    [][\A n \in Nodes : status[n] = "flagged" => status'[n] \in {"flagged", "archived"}]_vars

(* A contradiction found before a write is linked once the writer has      *)
(* ended with the node written (node_writer).  False: the enforcements     *)
(* after the commit are forgotten when one of them fails.                  *)
DetectedIsSurfaced ==
    \A n \in Nodes : pc[n] \in {"done", "failed"} /\ n \in Existing => conflicts[n] = {}

(* A contradicts link never stands without the enforcer's escalation       *)
(* (NodeLink).  False: link_nodes reads session_id after the flush.        *)
LinkedIsSurfaced == \A l \in contradicts : {l[1], l[2]} \subseteq escalated

(* A write leaves its session a snapshot that shows the store (write_node, *)
(* step 10).  False: rebuild_l1 returns the stored one.                    *)
SnapshotIsFresh ==
    [][\A n \in Nodes : pc[n] = "write" /\ pc'[n] \in {"enforce", "done"}
          => snapshot'[home[n]] = Visible']_vars
=============================================================================
