---------------------------- MODULE TrustRecord ----------------------------
(***************************************************************************)
(* The trust ladder with the two records its evidence is taken from: the   *)
(* rows of the performance tracker, of which Trust keeps one bit           *)
(* (degraded), and the decision journal, of which it keeps how many        *)
(* outcomes were confirmed (confirmed).                                    *)
(***************************************************************************)
EXTENDS Trust

CONSTANTS
    Skills, Trackers, LastDay, Window, MaxCalls, FlagPercent,   \* of Performance
    Decisions, Acts, Sources, Blank, None                       \* of DecisionJournal

VARIABLES
    day, calls, row, tracking, begun, todo, current, seen, draft, due,
    brief, verdict, by, confirming, call, loaded

P == INSTANCE Performance WITH pc <- tracking
J == INSTANCE DecisionJournal WITH pc <- confirming

performance == <<day, calls, row, tracking, begun, todo, current, seen, draft, due>>
decisions == <<brief, verdict, by, confirming, call, loaded>>

(* Skills stand for their names, which have an order.                      *)
ASSUME TrackerAssumption ==
    /\ Skills \subseteq Nat /\ Skills # {}
    /\ LastDay \in Nat /\ Window \in Nat /\ FlagPercent \in Nat
ASSUME JournalAssumption == None \notin Sources \cup BOOLEAN /\ Blank \notin Sources

-----------------------------------------------------------------------------
(* The properties of Performance and DecisionJournal, which say there what *)
(* they are about: what a session used is graded, two closing sessions     *)
(* never wait for each other's rows, no skill is flagged without a cause,  *)
(* no verdict or source is made up.                                        *)
UsedIsGraded == P!UsedIsGraded
NoDeadlock == P!NoDeadlock
FlagHasCause == P!FlagHasCause
NothingIsSynthesized == J!NothingIsSynthesized
=============================================================================
