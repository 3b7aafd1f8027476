------------------------------- MODULE Context -------------------------------
(***************************************************************************)
(* The context packet of a turn (skills/operational/context_assembler.py): *)
(* the mode derived from the intent, one or two reads of the node table    *)
(* with other requests' writes between them, the order, and the token      *)
(* budget.  upcoming is what the session's L1 snapshot tells of deadlines, *)
(* taken once when the session opened (memory/session_state.py).           *)
(***************************************************************************)
EXTENDS NodeTable

CONSTANTS Budget,        \* llm_context_token_budget
          L3Limit, SearchLimit,
          None

VARIABLES upcoming, pc, mode, implied, gathered, packet

vars == <<table, upcoming, pc, mode, implied, gathered, packet>>

Modes == {"synthesis", "direct_write", "challenge_and_prepare", "orchestrated", "direct"}

TypeOK ==
    /\ TableOK
    /\ upcoming \subseteq Ids
    /\ pc \in {"idle", "second", "assemble", "done"}
    /\ mode \in Modes
    /\ implied \in {<<p>> : p \in Pillars} \cup {<<p, q>> : p, q \in Pillars}
    /\ gathered \subseteq Ids
    /\ packet = None \/ /\ packet.truncated \in BOOLEAN
                        /\ packet.matched \in 0..Count
                        /\ ToSet(packet.nodes) \subseteq gathered

(* A new session's snapshot; rebuild_l1 hands it out from then on.         *)
Init ==
    /\ TableInit
    /\ upcoming = ReadByDeadline(Pillars, 30)
    /\ pc = "idle"
    /\ mode = "direct"
    /\ implied = <<"legal">>
    /\ gathered = {}
    /\ packet = None

-----------------------------------------------------------------------------
(* _derive_routing_mode; without implied pillars the legal one.            *)
RoutingMode(action, ps) ==
    CASE action = "synthesize" -> "synthesis"
      [] action = "write" -> "direct_write"
      [] action = "task" -> "challenge_and_prepare"
      [] OTHER -> IF Len(ps) > 1 THEN "orchestrated" ELSE "direct"

Primary == implied[1]

First(m, ps) ==
    CASE m \in {"direct", "direct_write"} -> ReadByPillar({ps[1]})
      [] m = "synthesis" -> FetchL3(ps[1], L3Limit)
      [] OTHER -> ReadByPillar(ToSet(ps))

(* What the second read may bring; challenge mode's deadlines are read     *)
(* between the two and left unused.                                        *)
Second ==
    CASE mode \in {"direct", "orchestrated"} -> FulltextSearch(Primary, SearchLimit)
      [] mode = "synthesis" -> {ReadByPillar({Primary})}
      [] mode = "challenge_and_prepare" -> {ReadByType(ToSet(implied))}
      [] OTHER -> {{}}

Ask(action, ps) ==
    /\ pc = "idle"
    /\ mode' = RoutingMode(action, ps)
    /\ implied' = IF ps = <<>> THEN <<"legal">> ELSE ps
    /\ gathered' = First(mode', implied')
    /\ pc' = "second"
    /\ UNCHANGED <<table, upcoming, packet>>

ReadAgain ==
    /\ pc = "second"
    /\ \E more \in Second : gathered' = gathered \cup more
    /\ pc' = "assemble"
    /\ UNCHANGED <<table, upcoming, mode, implied, packet>>

(* The sort key: has a deadline, flagged - which no read returns - newest. *)
BeforeByAge(m, n) == m > n

Before(m, n) ==
    LET d == profile[m].dated  e == profile[n].dated
    IN  (d /\ ~e) \/ (d = e /\ m > n)

(* Each node's tokens, counted.                                            *)
Tokens(ns) == Cardinality(UNION {{n} \X (1..profile[n].tokens) : n \in ns})

(* How many of the sequence fit: the first that does not ends it.          *)
FittingOneMore(seq) ==
    Max({k \in 0..Len(seq) : k = 0 \/ Tokens(ToSet(SubSeq(seq, 1, k - 1))) <= Budget})

Fitting(seq) == Max({k \in 0..Len(seq) : Tokens(ToSet(SubSeq(seq, 1, k))) <= Budget})

Assemble ==
    /\ pc = "assemble"
    /\ LET seq == Ordered(gathered, Before)
           k == Fitting(seq)
       IN  packet' = [nodes |-> SubSeq(seq, 1, k), matched |-> Len(seq), truncated |-> k < Len(seq)]
    /\ pc' = "done"
    /\ UNCHANGED <<table, upcoming, mode, implied, gathered>>

Next ==
    \/ (Write \/ Move) /\ UNCHANGED <<upcoming, pc, mode, implied, gathered, packet>>
    \/ \E action \in {"query", "write", "task", "synthesize"},
          ps \in {<<>>, <<"legal">>, <<"health">>, <<"legal", "health">>} : Ask(action, ps)
    \/ ReadAgain
    \/ Assemble

Spec == Init /\ [][Next]_vars

-----------------------------------------------------------------------------
Offered == ToSet(packet.nodes)

(* What the loop left out, and the one of those it came to first.          *)
LeftOut == gathered \ Offered
Cut(n) == n \in LeftOut /\ \A m \in LeftOut \ {n} : Before(n, m)

(* The packet keeps the budget, says when it left something out, and stops *)
(* only at a node that does not fit any more (the token budget loop).      *)
BudgetIsKept ==
    packet # None =>
        /\ Tokens(Offered) <= Budget
        /\ packet.truncated = (Offered # gathered)
        /\ \A n \in gathered : Cut(n) => Tokens(Offered) + profile[n].tokens > Budget

(* A deadline within 30 days is left out for nodes with deadlines only,     *)
(* never for a newer node without one ("deadline<=30d, then flagged, then  *)
(* relevance, then most recent", as far as the sort keeps it).             *)
NearDeadlineIsKept ==
    packet # None => \A n \in LeftOut : Within(30, n) =>
        \A m \in Offered : profile[m].dated

(* Something is offered when something was found.  False: a first node     *)
(* that alone exceeds the budget ends the loop.                            *)
SomethingIsOffered == packet # None /\ gathered # {} => Offered # {}

(* A contradiction is surfaced with both its nodes.  False: the filter of  *)
(* every read drops flagged nodes, and the enforcer flags both.            *)
FlaggedIsOffered ==
    [][pc = "second" /\ pc' = "assemble" =>
         \A n \in Ids : status[n] = "flagged" /\ Primary \in profile[n].pillars
                          => n \in gathered']_vars

(* A deadline within 30 days comes before everything else.  False: any     *)
(* deadline counts, however far.                                           *)
NearComesFirst ==
    packet # None => \A i, j \in DOMAIN packet.nodes : i < j =>
        ~(Within(30, packet.nodes[j]) /\ ~Within(30, packet.nodes[i]))

(* A task's packet tells the near deadlines of its pillars, as nodes or in *)
(* the session state.  False: the list that was read is not used.          *)
DeadlinesAreTold ==
    [][pc = "idle" /\ pc' = "second" /\ mode' = "challenge_and_prepare" =>
         ReadByDeadline(ToSet(implied'), 30) \subseteq gathered' \cup upcoming]_vars
=============================================================================
