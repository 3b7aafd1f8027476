------------------------------ MODULE Dashboard ------------------------------
(***************************************************************************)
(* The dashboard (api/routes/dashboard.py build_dashboard): one read of    *)
(* the node table per pillar tile, one for Today and one for the memory    *)
(* zone, with other requests' writes between them.  What a tile tells is   *)
(* kept as [status, items], Today as [items, more].  The header, the       *)
(* approval cards and the trust block only copy what other modules hold.   *)
(***************************************************************************)
EXTENDS NodeTable

CONSTANTS TileLimit, TodayLimit, MemoryLimit,   \* 5, 7 and 10 in the code
          None

VARIABLES pc, tiles, today, memory

vars == <<table, pc, tiles, today, memory>>

Rank == [attention |-> 0, scheduled |-> 1, on_track |-> 3]      \* _STATUS_RANK

Init ==
    /\ TableInit
    /\ pc = "tiles"
    /\ tiles = [p \in Pillars |-> None]
    /\ today = None
    /\ memory = {}

TypeOK ==
    /\ TableOK
    /\ pc \in {"tiles", "today", "memory", "done"}
    /\ \A p \in Pillars : tiles[p] = None \/ /\ tiles[p].status \in DOMAIN Rank
                                             /\ Len(tiles[p].items) <= TileLimit
    /\ today = None \/ (Len(today.items) <= TodayLimit /\ today.more \in 0..Count)
    /\ memory \subseteq Ids /\ Cardinality(memory) <= MemoryLimit

-----------------------------------------------------------------------------
NodeStatus(n) ==
    IF Within(7, n) THEN "attention" ELSE IF profile[n].dated THEN "scheduled" ELSE "on_track"

(* The most urgent status first, the newest first among equals.            *)
MoreUrgentByAge(m, n) == m > n

MoreUrgent(m, n) ==
    LET r == Rank[NodeStatus(m)]  s == Rank[NodeStatus(n)] IN r < s \/ (r = s /\ m > n)

Cut(seq, limit) == SubSeq(seq, 1, Min({limit, Len(seq)}))

ReadTile(p) ==
    /\ pc = "tiles" /\ tiles[p] = None
    /\ LET items == Cut(Ordered(ReadByPillar({p}), MoreUrgent), TileLimit)
           worst == {n \in ToSet(items) : \A m \in ToSet(items) :
                                             Rank[NodeStatus(n)] <= Rank[NodeStatus(m)]}
       IN  tiles' = [tiles EXCEPT ![p] =
                       [items |-> items,
                        status |-> IF items = <<>> THEN "on_track"
                                   ELSE NodeStatus(CHOOSE n \in worst : TRUE)]]
    /\ pc' = IF \E q \in Pillars \ {p} : tiles[q] = None THEN "tiles" ELSE "today"
    /\ UNCHANGED <<table, today, memory>>

Sooner(m, n) ==
    \/ profile[m].left < profile[n].left
    \/ profile[m].left = profile[n].left /\ m < n

Dated == {n \in Live : profile[n].dated}

(* The seven earliest deadlines, and how many more there are.              *)
ReadTodayCutFirst ==
    /\ pc = "today"
    /\ LET newest == Newest(Dated, TodayLimit)
       IN  today' = [items |-> Ordered(newest, Sooner),
                     more |-> Cardinality(Dated) - Cardinality(newest)]
    /\ pc' = "memory"
    /\ UNCHANGED <<table, tiles, memory>>

ReadToday ==
    /\ pc = "today"
    /\ LET seq == Ordered(Dated, Sooner)
       IN  today' = [items |-> Cut(seq, TodayLimit), more |-> Max({0, Len(seq) - TodayLimit})]
    /\ pc' = "memory"
    /\ UNCHANGED <<table, tiles, memory>>

ReadMemoryUnlimited ==
    /\ pc = "memory"
    /\ memory' = Live
    /\ pc' = "done"
    /\ UNCHANGED <<table, tiles, today>>

ReadMemory ==
    /\ pc = "memory"
    /\ memory' = Newest(Live, MemoryLimit)
    /\ pc' = "done"
    /\ UNCHANGED <<table, tiles, today>>

Next ==
    \/ (Write \/ Move) /\ UNCHANGED <<pc, tiles, today, memory>>
    \/ \E p \in Pillars : ReadTile(p)
    \/ ReadToday
    \/ ReadMemory

Spec == Init /\ [][Next]_vars

-----------------------------------------------------------------------------
(* A tile asks for attention exactly when some node of its pillar is due   *)
(* within a week or overdue, however many nodes the pillar has and however *)
(* old that one is (the sort before items[:5]).                            *)
TileTellsTheWorst ==
    [][\A p \in Pillars : tiles'[p] # tiles[p] =>
          (tiles'[p].status = "attention" <=> \E n \in ReadByPillar({p}) : Within(7, n))]_vars

(* No deadline is kept from Today for a later one, and more_count counts   *)
(* exactly the kept ones.                                                  *)
TodayIsEarliest ==
    [][today' # today =>
          LET shown == ToSet(today'.items) IN
          /\ today'.more = Cardinality(Dated \ shown)
          /\ \A n \in Dated \ shown, m \in shown : profile[m].left <= profile[n].left]_vars

(* "+N more in Pillars": what Today leaves out is in a tile.  False: a     *)
(* tile keeps its own first items, and the reads are of different moments. *)
MoreIsInPillars ==
    [][today' # today => \A n \in Dated \ ToSet(today'.items) :
          \E p \in Pillars : n \in ToSet(tiles[p].items)]_vars
=============================================================================
