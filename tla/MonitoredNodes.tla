--------------------------- MODULE MonitoredNodes ---------------------------
(***************************************************************************)
(* The memory nodes with the scans that watch their deadlines: NodeStore,  *)
(* and Deadlines beside it, to which what NodeStore does to a node is the  *)
(* one bit live.                                                           *)
(***************************************************************************)
EXTENDS NodeStore

CONSTANTS Watched,                                     \* the nodes with a deadline
          Monitors, Surfacers, Filings, Days, Dues     \* of Deadlines

VARIABLES
    today, due, filed, live, rows,
    scanning, asked, scope, began, todo, facing, mine, skipped, answered

D == INSTANCE Deadlines WITH Nodes <- Watched, pc <- scanning, home <- asked

deadlines == <<today, due, filed, live, rows,
               scanning, asked, scope, began, todo, facing, mine, skipped, answered>>

ASSUME DaysAssumption == Days \subseteq Nat /\ Dues \subseteq Nat /\ 0 \in Days
ASSUME ScansAssumption == Monitors \cap Surfacers = {}
ASSUME FilingsAssumption == Filings \subseteq D!Pinned

-----------------------------------------------------------------------------
(* The properties of Deadlines: when a scan is over, what had passed when  *)
(* it read the nodes of its pillars is noticed, or was answered meanwhile, *)
(* or fell to a deadlock - which is not always noticed by another.         *)
OverdueIsNoticed == D!OverdueIsNoticed
SkippedIsNoticed == D!SkippedIsNoticed
=============================================================================
