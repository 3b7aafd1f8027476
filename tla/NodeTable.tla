------------------------------ MODULE NodeTable ------------------------------
(***************************************************************************)
(* The node table as its readers see it (memory/read_protocol.py): nodes   *)
(* are written in the order of their numbers, and their status moves       *)
(* between the reads of one request (NodeStore says how).  The rest of a   *)
(* node does not change and is taken from one of the Tables.               *)
(*                                                                         *)
(* No code of the repository sets pending_review, so the INV-04 filter     *)
(* passes the active nodes and no others.                                  *)
(***************************************************************************)
EXTENDS Integers, Sequences, SequencesExt, FiniteSets, FiniteSetsExt

CONSTANTS Count,      \* how many nodes are written at most (bound)
          Tables,     \* what they may be: functions of 1..Count to profiles
          MaxMoves    \* how often a status moves (bound)

VARIABLES profile, status, moves

table == <<profile, status, moves>>

Ids == 1..Count
Pillars == {"legal", "health"}
Status == {"absent", "active", "flagged", "gone"}     \* gone: superseded, archived

(* What does not change of a node: left is the days to its deadline.       *)
Profiles == [pillars : SUBSET Pillars, dated : BOOLEAN, left : Int, task : BOOLEAN,
             synthesis : BOOLEAN, matches : BOOLEAN, tokens : Nat]

TableOK ==
    /\ profile \in Tables
    /\ status \in [Ids -> Status]
    /\ moves \in 0..MaxMoves

TableInit ==
    /\ profile \in Tables
    /\ \E n \in 0..Count : status = [m \in Ids |-> IF m <= n THEN "active" ELSE "absent"]
    /\ moves = 0

Written == {n \in Ids : status[n] # "absent"}

Write ==
    /\ \E n \in Ids \ Written :
          /\ 1..(n - 1) \subseteq Written
          /\ status' = [status EXCEPT ![n] = "active"]
    /\ UNCHANGED <<profile, moves>>

Move ==
    /\ moves < MaxMoves
    /\ moves' = moves + 1
    /\ \E n \in Written, s \in Status \ {"absent"} :
          s # status[n] /\ status' = [status EXCEPT ![n] = s]
    /\ UNCHANGED profile

Within(days, n) == profile[n].dated /\ profile[n].left <= days

(* _inv04_clause and the reads built on it.                                *)
Live == {n \in Ids : status[n] = "active"}

ReadByPillar(ps) == {n \in Live : profile[n].pillars \cap ps # {}}

ReadByType(ps) == {n \in ReadByPillar(ps) : profile[n].task}

(* A set as a sequence, in an order of its members: each comes after as    *)
(* many as precede it.                                                     *)
Ordered(set, Precedes(_, _)) ==
    LET Earlier(n) == {m \in set : Precedes(m, n)}
    IN  [i \in 1..Cardinality(set) |-> CHOOSE n \in set : Cardinality(Earlier(n)) = i - 1]

(* The newest limit of a set; what ranks best, in any order.               *)
Newest(set, limit) == {n \in set : Cardinality({m \in set : m > n}) < limit}

FetchL3(p, limit) == Newest({n \in ReadByPillar({p}) : profile[n].synthesis}, limit)

FulltextSearch(p, limit) ==
    LET hits == {n \in ReadByPillar({p}) : profile[n].matches}
    IN  kSubset(Min({limit, Cardinality(hits)}), hits)

(* read_by_deadline from now on: in range and live, or overdue at all.     *)
ReadByDeadline(ps, days) ==
    {n \in Written : profile[n].pillars \cap ps # {} /\ Within(days, n)
                     /\ (n \in Live \/ profile[n].left < 0)}
=============================================================================
