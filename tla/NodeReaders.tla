---------------------------- MODULE NodeReaders ----------------------------
(***************************************************************************)
(* The readers of the node table: the assembly of a turn's context and the *)
(* dashboard, over the same nodes.                                         *)
(***************************************************************************)
EXTENDS Integers

CONSTANTS
    Count, Tables, MaxMoves,                 \* of NodeTable
    Budget, L3Limit, SearchLimit,            \* of Context
    TileLimit, TodayLimit, MemoryLimit,      \* of Dashboard
    None

VARIABLES
    profile, status, moves,                                    \* NodeTable
    upcoming, assembling, routing, implied, gathered, packet,  \* Context
    building, tiles, agenda, memory                            \* Dashboard

C == INSTANCE Context WITH pc <- assembling, mode <- routing
D == INSTANCE Dashboard WITH pc <- building, today <- agenda

nodes == <<profile, status, moves>>
context == <<upcoming, assembling, routing, implied, gathered, packet>>
dashboard == <<building, tiles, agenda, memory>>

ASSUME TablesAssumption ==
    /\ Count \in Nat /\ MaxMoves \in Nat
    /\ Tables \subseteq [1..Count -> C!Profiles]
ASSUME LimitsAssumption ==
    /\ Budget \in Nat
    /\ TileLimit \in Nat \ {0} /\ TodayLimit \in Nat /\ MemoryLimit \in Nat

-----------------------------------------------------------------------------
(* The type invariants of both modules.                                    *)
ReadersOK == C!TypeOK /\ D!TypeOK

(* The properties of Context and Dashboard, which say there what they are  *)
(* about: the token budget and what makes way for what, the worst node of  *)
(* a pillar in its tile, the earliest deadlines in Today.                  *)
BudgetIsKept == C!BudgetIsKept
NearDeadlineIsKept == C!NearDeadlineIsKept
TileTellsTheWorst == D!TileTellsTheWorst
TodayIsEarliest == D!TodayIsEarliest
=============================================================================
