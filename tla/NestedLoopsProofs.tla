------------------------- MODULE NestedLoopsProofs -------------------------
(***************************************************************************)
(* Proofs about NestedLoops, for any number of corrections, signals,       *)
(* safety runs, shutdowns and sub-agents: a failed goal loop is reported,  *)
(* a report tells the retries that were made, what a fail-safe stopped     *)
(* stays stopped, and no P0 signal is dropped.                             *)
(***************************************************************************)
EXTENDS NestedLoops, FiniteSetTheorems, WellFoundedInduction, TLAPS

(* The kinds of runs, and that no run is of two kinds.                     *)
LEMMA Names ==
    /\ Goal \in Loops
    /\ Corrections \subseteq Loops /\ Signals \subseteq Loops
    /\ Safeties \subseteq Loops /\ Shutdowns \subseteq Loops
    /\ \A c \in Corrections : Esc(c) \in Loops
    /\ Corrections \subseteq Tasks /\ Signals \subseteq Tasks /\ Safeties \subseteq Tasks
    /\ Shutdowns \subseteq Tasks /\ SubAgents \subseteq Tasks
BY DEF Loops, Tasks

LEMMA Kinds ==
    /\ \A x \in Corrections : x \notin Signals /\ x \notin Safeties /\ x \notin Shutdowns
                              /\ x \notin SubAgents /\ x # Goal
    /\ \A x \in Signals : x \notin Safeties /\ x \notin Shutdowns /\ x \notin SubAgents /\ x # Goal
    /\ \A x \in Safeties : x \notin Shutdowns /\ x \notin SubAgents /\ x # Goal
    /\ \A x \in Shutdowns : x \notin SubAgents /\ x # Goal
    /\ \A x \in Loops : x \notin SubAgents
    /\ \A c \in Corrections : /\ Esc(c) # Goal
                              /\ Esc(c) \notin Corrections /\ Esc(c) \notin Signals
                              /\ Esc(c) \notin Safeties /\ Esc(c) \notin Shutdowns
BY NamesAssumption DEF Loops, Esc

LEMMA Nones ==
    /\ None \notin Loops /\ None \notin SubAgents /\ None \notin Corrections /\ None # Goal
    /\ None \notin 0..MaxIterations
BY NoneAssumption DEF Loops, MaxIterations

-----------------------------------------------------------------------------
(* What a step leaves of the invariant when it does not concern a run.     *)

(* A step that neither ends a safety run nor starts a process anew.        *)
LEMMA SafetiesKept ==
    ASSUME IInv, TypeOK',
           UNCHANGED <<risk, trigger, tree>>,
           visible \subseteq visible',
           \A s \in Safeties : pc'[s] = pc[s] /\ status'[s] = status[s],
           \A l \in visible : l \in Corrections \cup {Goal} /\ status'[l] = "running"
                              => status[l] = "running",
           \A a \in visible : a \in SubAgents /\ sub'[a] = "running" => sub[a] = "running"
    PROVE  SafetiesInv' /\ TreesInv' /\ FailSafeStops'
<1>1. SafetiesInv' BY DEF IInv, SafetiesInv
<1>2. TreesInv' BY DEF IInv, TreesInv
<1>3. ASSUME NEW s \in Safeties, status'[s] = "forced"
      PROVE  /\ trigger'[s] \in Loops => status'[trigger'[s]] # "running"
             /\ trigger'[s] \in SubAgents => sub'[trigger'[s]] # "running"
  <2>1. status[s] = "forced" /\ trigger'[s] = trigger[s] BY <1>3
  <2>2. /\ trigger[s] \in Loops => status[trigger[s]] # "running"
        /\ trigger[s] \in SubAgents => sub[trigger[s]] # "running"
    BY <2>1 DEF IInv, FailSafeStops
  <2>3. CASE trigger[s] = None BY <2>1, <2>3, Nones
  <2>4. CASE trigger[s] # None
    <3>1. trigger[s] \in visible /\ trigger[s] \in Corrections \cup SubAgents \cup {Goal}
      BY <2>4 DEF IInv, SafetiesInv
    <3>2. trigger[s] \in Loops => trigger[s] \in Corrections \cup {Goal} BY <3>1, Kinds
    <3> QED BY <2>1, <2>2, <3>1, <3>2
  <2> QED BY <2>3, <2>4
<1>4. FailSafeStops' BY <1>3 DEF FailSafeStops
<1> QED BY <1>1, <1>2, <1>4

(* A step that is not one of a correction, and makes none visible.         *)
LEMMA CorrectionsKept ==
    ASSUME IInv,
           UNCHANGED <<parent, attempts, reported>>,
           \A c \in Corrections : pc'[c] = pc[c] /\ (c \in visible' => c \in visible)
    PROVE  CorrectionsInv' /\ ReportIsTrue'
<1>1. CorrectionsInv' BY DEF IInv, CorrectionsInv
<1>2. ReportIsTrue' BY DEF IInv, ReportIsTrue
<1> QED BY <1>1, <1>2

(* A step that fails no goal loop and withdraws no report.                 *)
LEMMA FailureKept ==
    ASSUME IInv,
           status'[Goal] = "failed" => status[Goal] = "failed",
           \A c \in Corrections : parent[c] = Goal /\ reported[c] # None
                                  => parent'[c] = Goal /\ reported'[c] # None,
           \A s \in Safeties : risk[s] = "invariant" /\ pc[s] = "done"
                               => risk'[s] = "invariant" /\ pc'[s] = "done"
    PROVE  FailureIsReported'
BY DEF IInv, FailureIsReported

LEMMA SubAgentsKept ==
    ASSUME IInv,
           \A a \in SubAgents : pc'[a] = pc[a] /\ (a \in visible' => a \in visible)
    PROVE  SubAgentsInv'
BY DEF IInv, SubAgentsInv

-----------------------------------------------------------------------------
(* Corrections.                                                            *)

LEMMA CorrectStep ==
    ASSUME NEW c \in Corrections, NEW p \in Corrections \cup {Goal, None},
           NEW invariant \in BOOLEAN, p # c, IInv, Correct(c, p, invariant)
    PROVE  IInv'
<1> USE Names, Kinds, Nones DEF Correct, Goto
<1>1. TypeOK' BY DEF IInv, TypeOK
<1>2. CorrectionsInv'
  <2>1. ASSUME NEW d \in Corrections
        PROVE  /\ pc'[d] = "idle" => d \notin visible' /\ attempts'[d] = 0
               /\ reported'[d] # None => pc'[d] \in {"drain", "done"}
    BY DEF IInv, TypeOK, CorrectionsInv
  <2>2. ASSUME NEW d \in Corrections, parent'[d] \in Corrections
        PROVE  pc'[parent'[d]] # "idle" /\ pc'[d] \notin {"retry", "attempt"} /\ attempts'[d] = 0
    <3>1. CASE d = c BY <2>2, <3>1 DEF IInv, TypeOK, CorrectionsInv
    <3>2. CASE d # c BY <2>2, <3>2 DEF IInv, TypeOK, CorrectionsInv
    <3> QED BY <3>1, <3>2
  <2> QED BY <2>1, <2>2 DEF CorrectionsInv
<1>3. SubAgentsInv' BY SubAgentsKept DEF IInv, TypeOK
<1>4. SafetiesInv' /\ TreesInv' /\ FailSafeStops'
  <2>1. c \notin visible BY DEF IInv, CorrectionsInv
  <2> QED BY <1>1, <2>1, SafetiesKept DEF IInv, TypeOK
<1>5. ReportIsTrue' BY DEF IInv, ReportIsTrue
<1>6. FailureIsReported'
  <2>1. \A d \in Corrections : reported[d] # None => d # c BY DEF IInv, CorrectionsInv
  <2> QED BY <2>1, FailureKept DEF IInv, TypeOK
<1> QED BY <1>1, <1>2, <1>3, <1>4, <1>5, <1>6 DEF IInv

LEMMA AttemptStep ==
    ASSUME NEW c \in Corrections, IInv, Attempt(c)
    PROVE  IInv'
<1> USE Names, Kinds, Nones DEF Attempt, Goto, rows
<1>1. TypeOK' BY DEF IInv, TypeOK, MaxIterations
<1>2. CorrectionsInv' BY DEF IInv, TypeOK, CorrectionsInv
<1>3. SubAgentsInv' BY SubAgentsKept DEF IInv, TypeOK
<1>4. SafetiesInv' /\ TreesInv' /\ FailSafeStops' BY <1>1, SafetiesKept DEF IInv, TypeOK
<1>5. ReportIsTrue' BY DEF IInv, TypeOK, ReportIsTrue, CorrectionsInv
<1>6. FailureIsReported' BY FailureKept DEF IInv, TypeOK
<1> QED BY <1>1, <1>2, <1>3, <1>4, <1>5, <1>6 DEF IInv

(* A retry that fails, the last retry, the end of the drain.               *)
LEMMA MoveStep ==
    ASSUME NEW c \in Corrections, IInv, AttemptFails(c) \/ GiveUp(c) \/ Drain(c)
    PROVE  IInv'
<1> USE Names, Kinds, Nones DEF AttemptFails, GiveUp, Drain, Goto, rows, tasks
<1>1. TypeOK'
  <2>1. ASSUME AttemptFails(c) PROVE TypeOK' BY <2>1 DEF IInv, TypeOK
  <2>2. ASSUME GiveUp(c) PROVE TypeOK' BY <2>2 DEF IInv, TypeOK
  <2>3. ASSUME Drain(c) PROVE TypeOK' BY <2>3 DEF IInv, TypeOK, Over, Ends
  <2> QED BY <2>1, <2>2, <2>3
<1>2. CorrectionsInv' BY DEF IInv, TypeOK, CorrectionsInv
<1>3. SubAgentsInv' BY SubAgentsKept DEF IInv, TypeOK
<1>4. SafetiesInv' /\ TreesInv' /\ FailSafeStops' BY <1>1, SafetiesKept DEF IInv, TypeOK
<1>5. ReportIsTrue' BY DEF IInv, ReportIsTrue
<1>6. FailureIsReported' BY FailureKept DEF IInv, TypeOK
<1> QED BY <1>1, <1>2, <1>3, <1>4, <1>5, <1>6 DEF IInv

LEMMA RecoveredStep ==
    ASSUME NEW c \in Corrections, IInv, Recovered(c)
    PROVE  IInv'
<1> USE Names, Kinds, Nones DEF Recovered, Goto, tasks
<1>0. Shared(c) \subseteq Corrections BY DEF Shared
<1>1. TypeOK' BY <1>0 DEF IInv, TypeOK, Over, Ends
<1>2. CorrectionsInv' BY DEF IInv, TypeOK, CorrectionsInv, Shared
<1>3. SubAgentsInv' BY <1>0, SubAgentsKept DEF IInv, TypeOK
<1>4. SafetiesInv' /\ TreesInv' /\ FailSafeStops' BY <1>0, <1>1, SafetiesKept DEF IInv, TypeOK
<1>5. ReportIsTrue' BY DEF IInv, ReportIsTrue
<1>6. FailureIsReported' BY FailureKept DEF IInv, TypeOK
<1> QED BY <1>1, <1>2, <1>3, <1>4, <1>5, <1>6 DEF IInv

(* The goal loop is failed by the correction whose report stands for it.   *)
LEMMA ExhaustStep ==
    ASSUME NEW c \in Corrections, IInv, Exhaust(c)
    PROVE  IInv'
<1> USE Names, Kinds, Nones DEF Exhaust, Goto
<1>0. Shared(c) \subseteq Corrections BY DEF Shared
<1>9. UNCHANGED <<sub, alerts, closed, parent, attempts, prio, about, risk, trigger, planned, tree>>
  BY DEF tasks
<1>1. TypeOK'
  <2>1. status' \in [Loops -> {"absent", "running"} \cup Over]
    BY DEF IInv, TypeOK, Exhausted, Over
  <2> QED BY <1>0, <1>9, <2>1 DEF IInv, TypeOK
<1>2. CorrectionsInv' BY <1>9 DEF IInv, TypeOK, CorrectionsInv, Shared
<1>3. SubAgentsInv' BY <1>0, SubAgentsKept DEF IInv, TypeOK
<1>4. SafetiesInv' /\ TreesInv' /\ FailSafeStops'
  <2>1. \A s \in Safeties : pc'[s] = pc[s] /\ status'[s] = status[s]
    BY DEF IInv, TypeOK, Exhausted
  <2>2. \A l \in Corrections \cup {Goal} : status'[l] = "running" => status[l] = "running"
    BY DEF Exhausted
  <2> QED BY <1>1, <1>9, <2>1, <2>2, SafetiesKept
<1>5. ReportIsTrue' BY <1>9 DEF IInv, TypeOK, ReportIsTrue
<1>6. FailureIsReported'
  <2>1. reported'[c] # None /\ parent'[c] = parent[c] BY <1>9 DEF IInv, TypeOK
  <2>2. CASE parent[c] = Goal BY <2>1, <2>2 DEF FailureIsReported
  <2>3. CASE parent[c] # Goal
    <3>1. status'[Goal] = status[Goal] BY <2>3 DEF Exhausted
    <3> QED BY <1>9, <2>1, <3>1, FailureKept DEF IInv, TypeOK
  <2> QED BY <2>2, <2>3
<1> QED BY <1>1, <1>2, <1>3, <1>4, <1>5, <1>6 DEF IInv

LEMMA CorrectionRaisesStep ==
    ASSUME NEW c \in Corrections, IInv, CorrectionRaises(c)
    PROVE  IInv'
<1> USE Names, Kinds, Nones DEF CorrectionRaises, Goto, tasks
<1>1. TypeOK' BY DEF IInv, TypeOK, Ends
<1>2. CorrectionsInv' BY DEF IInv, TypeOK, CorrectionsInv
<1>3. SubAgentsInv' BY SubAgentsKept DEF IInv, TypeOK
<1>4. SafetiesInv' /\ TreesInv' /\ FailSafeStops' BY <1>1, SafetiesKept DEF IInv, TypeOK
<1>5. ReportIsTrue' BY DEF IInv, ReportIsTrue
<1>6. FailureIsReported' BY FailureKept DEF IInv, TypeOK
<1> QED BY <1>1, <1>2, <1>3, <1>4, <1>5, <1>6 DEF IInv

LEMMA CorrectionStep ==
    ASSUME NEW c \in Corrections, IInv, Correction(c)
    PROVE  IInv'
BY CorrectStep, AttemptStep, MoveStep, RecoveredStep, ExhaustStep, CorrectionRaisesStep
DEF Correction

-----------------------------------------------------------------------------
(* Signals: they touch their own row and the alerts only.                  *)

LEMMA EscalationStep ==
    ASSUME NEW g \in Signals, IInv, Escalation(g)
    PROVE  IInv'
<1> USE Names, Kinds, Nones DEF Goto, rows, tasks
<1>1. TypeOK'
  <2>1. ASSUME NEW node \in Nodes \cup {None}, Signal(g, node) PROVE TypeOK'
    <3>1. <<"session", node>> \in Keys BY DEF Keys
    <3> QED BY <2>1, <3>1 DEF IInv, TypeOK, Signal
  <2>2. ASSUME NEW type, NEW claimed \in P0..P1, Score(g, type, claimed) PROVE TypeOK'
    <3>1. \A scored \in P0..Suppress : Confirmed(type, claimed, scored) \in P0..Suppress
      BY DEF Confirmed, Floor, P0, P1, Suppress
    <3> QED BY <2>2, <3>1 DEF IInv, TypeOK, Score, Over, Ends
  <2>3. ASSUME Present(g) PROVE TypeOK' BY <2>3 DEF IInv, TypeOK, Present, Over, Ends
  <2>4. ASSUME Surface(g) PROVE TypeOK' BY <2>4 DEF IInv, TypeOK, Surface, Over, Ends
  <2>5. ASSUME SurfaceCollides(g) PROVE TypeOK'
    BY <2>5 DEF IInv, TypeOK, SurfaceCollides, Ends
  <2>6. ASSUME SignalRaises(g) PROVE TypeOK' BY <2>6 DEF IInv, TypeOK, SignalRaises, Ends
  <2> QED BY <2>1, <2>2, <2>3, <2>4, <2>5, <2>6 DEF Escalation
<1>2. /\ UNCHANGED <<parent, attempts, reported, risk, trigger, tree, sub>>
      /\ visible \subseteq visible' /\ visible' \subseteq visible \cup {g}
      /\ \A l \in Loops : l # g => status'[l] = status[l]
      /\ \A t \in Tasks : t # g => pc'[t] = pc[t]
  BY DEF IInv, TypeOK, Escalation, Signal, Score, Present, Surface, SurfaceCollides,
         SignalRaises
<1>3. CorrectionsInv' /\ ReportIsTrue' BY <1>2, CorrectionsKept
<1>4. SubAgentsInv' BY <1>2, SubAgentsKept
<1>5. SafetiesInv' /\ TreesInv' /\ FailSafeStops' BY <1>1, <1>2, SafetiesKept
<1>6. FailureIsReported' BY <1>2, FailureKept
<1> QED BY <1>1, <1>3, <1>4, <1>5, <1>6 DEF IInv

-----------------------------------------------------------------------------
(* Safety runs.                                                            *)

(* A run that begins, and one that is late, has no row yet.                *)
LEMMA RiskStep ==
    ASSUME NEW s \in Safeties, NEW why \in Risks, NEW key \in Keys,
           NEW process \in Corrections \cup SubAgents \cup {Goal, None},
           IInv, Risk(s, why, key, process)
    PROVE  IInv'
<1> USE Names, Kinds, Nones DEF Risk, Goto, rows
<1>1. TypeOK' BY DEF IInv, TypeOK
<1>2. CorrectionsInv' /\ ReportIsTrue' BY CorrectionsKept DEF IInv, TypeOK
<1>3. SubAgentsInv' BY SubAgentsKept DEF IInv, TypeOK
<1>4. status[s] = "absent" BY DEF IInv, SafetiesInv
<1>5. SafetiesInv' BY <1>4 DEF IInv, TypeOK, SafetiesInv
<1>6. TreesInv' BY DEF IInv, TreesInv
<1>7. FailSafeStops' BY <1>4 DEF IInv, TypeOK, FailSafeStops
<1>8. FailureIsReported' BY FailureKept DEF IInv, TypeOK
<1> QED BY <1>1, <1>2, <1>3, <1>5, <1>6, <1>7, <1>8 DEF IInv

LEMMA TooLateStep ==
    ASSUME NEW s \in Safeties, IInv, TooLate(s)
    PROVE  IInv'
<1> USE Names, Kinds, Nones DEF TooLate, Goto, rows
<1>1. TypeOK'
  <2>1. <<about[s][1], None>> \in Keys BY DEF IInv, TypeOK, Keys
  <2> QED BY <2>1 DEF IInv, TypeOK, Ends
<1>2. CorrectionsInv' /\ ReportIsTrue' BY CorrectionsKept DEF IInv, TypeOK
<1>3. SubAgentsInv' BY SubAgentsKept DEF IInv, TypeOK
<1>4. status[s] = "absent" BY DEF IInv, SafetiesInv
<1>5. SafetiesInv' BY <1>4 DEF IInv, TypeOK, SafetiesInv
<1>6. TreesInv' BY DEF IInv, TreesInv
<1>7. FailSafeStops' BY DEF IInv, TypeOK, FailSafeStops
<1>8. FailureIsReported' BY FailureKept DEF IInv, TypeOK
<1> QED BY <1>1, <1>2, <1>3, <1>5, <1>6, <1>7, <1>8 DEF IInv

(* The run ends: what it stops is over, and it stands for the goal loop it *)
(* fails.                                                                  *)
LEMMA RespondStep ==
    ASSUME NEW s \in Safeties, IInv, Respond(s)
    PROVE  IInv'
<1> USE Names, Kinds, Nones DEF Respond, Goto
<1>0. UNCHANGED <<reported, closed, parent, attempts, prio, about, risk, trigger, planned, tree>>
  BY DEF tasks
<1>1. TypeOK'
  <2>1. status' \in [Loops -> {"absent", "running"} \cup Over] BY DEF IInv, TypeOK, Over
  <2>2. sub' \in [SubAgents -> {"absent", "running"} \cup Over] BY DEF IInv, TypeOK, Over
  <2> QED BY <1>0, <2>1, <2>2 DEF IInv, TypeOK, Ends
<1>2. CorrectionsInv' /\ ReportIsTrue' BY <1>0, CorrectionsKept DEF IInv, TypeOK
<1>3. SubAgentsInv' BY SubAgentsKept DEF IInv, TypeOK
<1>4. /\ \A l \in Loops : status'[l] = "running" => status[l] = "running"
      /\ \A a \in SubAgents : sub'[a] = "running" => sub[a] = "running"
  OBVIOUS
<1>5. \A r \in Safeties : r # s => status'[r] = status[r]
  <2>1. ASSUME NEW r \in Safeties, r # s PROVE status[r] # "running"
    BY DEF IInv, SafetiesInv
  <2> QED BY <2>1 DEF SuspendsLoop, StopsLoop
<1>6. SafetiesInv' BY <1>0, <1>5 DEF IInv, TypeOK, SafetiesInv
<1>7. TreesInv' BY <1>0 DEF IInv, TreesInv
<1>8. FailSafeStops'
  <2>1. ASSUME NEW r \in Safeties, r # s, status'[r] = "forced"
        PROVE  /\ trigger[r] \in Loops => status'[trigger[r]] # "running"
               /\ trigger[r] \in SubAgents => sub'[trigger[r]] # "running"
    BY <1>4, <1>5, <2>1 DEF IInv, FailSafeStops
  <2>2. ASSUME status'[s] = "forced"
        PROVE  /\ trigger[s] \in Loops => status'[trigger[s]] # "running"
               /\ trigger[s] \in SubAgents => sub'[trigger[s]] # "running"
    <3>1. pc[s] = "failsafe" BY <2>2
    <3>2. trigger[s] # None => trigger[s] \in visible BY DEF IInv, SafetiesInv
    <3>3. ASSUME trigger[s] \in Loops PROVE status'[trigger[s]] # "running"
      BY <1>4, <3>1, <3>2, <3>3 DEF StopsLoop, FailSafe
    <3>4. ASSUME trigger[s] \in SubAgents PROVE sub'[trigger[s]] # "running"
      BY <1>4, <3>1, <3>2, <3>4 DEF StopsSub, FailSafe
    <3> QED BY <3>3, <3>4
  <2> QED BY <1>0, <2>1, <2>2 DEF FailSafeStops
<1>9. FailureIsReported'
  <2>1. CASE SuspendsLoop(s, Goal)
    <3>1. risk'[s] = "invariant" /\ pc'[s] = "done"
      BY <1>0, <2>1 DEF SuspendsLoop, Invariant, IInv, TypeOK
    <3> QED BY <3>1 DEF FailureIsReported
  <2>2. CASE ~SuspendsLoop(s, Goal)
    <3>1. status'[Goal] = "failed" => status[Goal] = "failed" BY <2>2
    <3> QED BY <1>0, <3>1, FailureKept DEF IInv, TypeOK
  <2> QED BY <2>1, <2>2
<1> QED BY <1>1, <1>2, <1>3, <1>6, <1>7, <1>8, <1>9 DEF IInv

LEMMA SafetyLostStep ==
    ASSUME NEW s \in Safeties, IInv, RespondCollides(s) \/ SafetyRaises(s)
    PROVE  IInv'
<1> USE Names, Kinds, Nones DEF RespondCollides, SafetyRaises, Goto, rows, tasks
<1>1. TypeOK'
  <2>1. pc' \in [Tasks -> Ends \cup {"idle", "retry", "attempt", "exhaust", "drain", "score",
                                    "present", "insert", "respond", "failsafe", "kill", "close",
                                    "handler"}]
    BY DEF IInv, TypeOK, Ends
  <2> QED BY <2>1 DEF IInv, TypeOK
<1>2. CorrectionsInv' /\ ReportIsTrue' BY CorrectionsKept DEF IInv, TypeOK
<1>3. SubAgentsInv' BY SubAgentsKept DEF IInv, TypeOK
<1>4. status[s] = "absent" BY DEF IInv, SafetiesInv
<1>5. SafetiesInv' BY <1>4 DEF IInv, TypeOK, SafetiesInv
<1>6. TreesInv' BY DEF IInv, TreesInv
<1>7. FailSafeStops' BY DEF IInv, FailSafeStops
<1>8. FailureIsReported' BY FailureKept DEF IInv, TypeOK
<1> QED BY <1>1, <1>2, <1>3, <1>5, <1>6, <1>7, <1>8 DEF IInv

LEMMA SafetyStep ==
    ASSUME NEW s \in Safeties, IInv, Safety(s)
    PROVE  IInv'
BY RiskStep, TooLateStep, RespondStep, SafetyLostStep DEF Safety

-----------------------------------------------------------------------------
(* Sub-agents, shutdowns and the session's own steps.                      *)

(* Only a spawn makes a sub-agent active, and its row is then unseen.      *)
LEMMA SubAgentStep ==
    ASSUME NEW a \in SubAgents, IInv, SubAgent(a)
    PROVE  IInv'
<1> USE Names, Kinds, Nones DEF Goto, rows, tasks
<1>1. TypeOK'
  <2>1. ASSUME Spawn(a) PROVE TypeOK' BY <2>1 DEF IInv, TypeOK, Spawn
  <2>2. ASSUME HandlerCommits(a) PROVE TypeOK' BY <2>2 DEF IInv, TypeOK, HandlerCommits
  <2>3. ASSUME SubAgentEnds(a) PROVE TypeOK' BY <2>3 DEF IInv, TypeOK, SubAgentEnds, Ends
  <2>4. ASSUME SubAgentLost(a) PROVE TypeOK' BY <2>4 DEF IInv, TypeOK, SubAgentLost, Ends
  <2> QED BY <2>1, <2>2, <2>3, <2>4 DEF SubAgent
<1>2. /\ UNCHANGED <<parent, attempts, reported, risk, trigger, tree, status>>
      /\ visible \subseteq visible' /\ visible' \subseteq visible \cup {a}
      /\ \A t \in Tasks : t # a => pc'[t] = pc[t]
      /\ \A b \in SubAgents : b # a => sub'[b] = sub[b]
  BY DEF IInv, TypeOK, SubAgent, Spawn, HandlerCommits, SubAgentEnds, SubAgentLost
<1>3. /\ sub'[a] = "running" => sub[a] = "running" \/ a \notin visible
      /\ a \in visible' => pc'[a] # "idle"
  BY DEF IInv, TypeOK, SubAgentsInv, SubAgent, Spawn, HandlerCommits, SubAgentEnds,
         SubAgentLost, Over
<1>4. CorrectionsInv' /\ ReportIsTrue' BY <1>2, CorrectionsKept
<1>5. SubAgentsInv' BY <1>2, <1>3 DEF IInv, SubAgentsInv
<1>6. SafetiesInv' /\ TreesInv' /\ FailSafeStops' BY <1>1, <1>2, <1>3, SafetiesKept
<1>7. FailureIsReported' BY <1>2, FailureKept
<1> QED BY <1>1, <1>4, <1>5, <1>6, <1>7 DEF IInv

(* A shutdown ends what it found, never a safety run.                      *)
LEMMA ShutdownStep ==
    ASSUME NEW k \in Shutdowns, IInv, Shutdown(k)
    PROVE  IInv'
<1> USE Names, Kinds, Nones DEF Goto, rows, tasks
<1>1. TypeOK'
  <2>1. ASSUME FindTree(k) PROVE TypeOK'
    <3>1. tree' \in [Shutdowns -> SUBSET (Loops \cup SubAgents)]
      BY <2>1 DEF IInv, TypeOK, FindTree
    <3> QED BY <2>1, <3>1 DEF IInv, TypeOK, FindTree
  <2>2. ASSUME KillTree(k) PROVE TypeOK'
    <3>1. status' \in [Loops -> {"absent", "running"} \cup Over]
      BY <2>2 DEF IInv, TypeOK, KillTree, Over
    <3>2. sub' \in [SubAgents -> {"absent", "running"} \cup Over]
      BY <2>2 DEF IInv, TypeOK, KillTree, Over
    <3> QED BY <2>2, <3>1, <3>2 DEF IInv, TypeOK, KillTree, Ends
  <2>3. ASSUME Close(k) PROVE TypeOK' BY <2>3 DEF IInv, TypeOK, Close, Ends
  <2> QED BY <2>1, <2>2, <2>3 DEF Shutdown
<1>2. /\ UNCHANGED <<parent, attempts, reported, risk, trigger>>
      /\ visible \subseteq visible' /\ visible' \subseteq visible \cup {k}
      /\ \A t \in Tasks : t # k => pc'[t] = pc[t]
  BY DEF IInv, TypeOK, Shutdown, FindTree, KillTree, Close
<1>3. TreesInv'
  <2>1. \A r \in Safeties : status[r] # "running" BY DEF IInv, SafetiesInv
  <2>2. ASSUME FindTree(k) PROVE TreesInv'
    BY <2>1, <2>2 DEF IInv, TypeOK, TreesInv, FindTree
  <2>3. ASSUME KillTree(k) \/ Close(k) PROVE TreesInv'
    BY <2>3 DEF IInv, TreesInv, KillTree, Close
  <2> QED BY <2>2, <2>3 DEF Shutdown
<1>4. /\ \A l \in Loops : /\ status'[l] = "running" => status[l] = "running"
                          /\ status'[l] = "failed" => status[l] = "failed"
      /\ \A a \in SubAgents : sub'[a] = "running" => sub[a] = "running"
      /\ \A r \in Safeties : status'[r] = status[r]
  <2>1. \A r \in Safeties : r \notin tree[k] BY DEF IInv, TreesInv
  <2> QED BY <2>1 DEF Shutdown, FindTree, KillTree, Close
<1>5. CorrectionsInv' /\ ReportIsTrue' BY <1>2, CorrectionsKept
<1>6. SubAgentsInv' BY <1>2, SubAgentsKept
<1>7. SafetiesInv' BY <1>2, <1>4 DEF IInv, SafetiesInv
<1>8. FailSafeStops' BY <1>2, <1>4 DEF IInv, FailSafeStops
<1>9. FailureIsReported' BY <1>2, <1>4, FailureKept
<1> QED BY <1>1, <1>3, <1>5, <1>6, <1>7, <1>8, <1>9 DEF IInv

LEMMA GoalEndsStep ==
    ASSUME IInv, GoalEnds
    PROVE  IInv'
<1> USE Names, Kinds, Nones DEF GoalEnds, tasks
<1>1. TypeOK' BY DEF IInv, TypeOK, Over
<1>2. CorrectionsInv' /\ ReportIsTrue' BY CorrectionsKept
<1>3. SubAgentsInv' BY SubAgentsKept
<1>4. SafetiesInv' /\ TreesInv' /\ FailSafeStops' BY <1>1, SafetiesKept DEF IInv, TypeOK
<1>5. FailureIsReported' BY FailureKept DEF IInv, TypeOK
<1> QED BY <1>1, <1>2, <1>3, <1>4, <1>5 DEF IInv

(* An answered alert, and no step at all.                                  *)
LEMMA StillStep ==
    ASSUME IInv, UNCHANGED <<rows, reported, closed, pc, tasks>>, alerts' \subseteq alerts
    PROVE  IInv'
<1> USE DEF rows, tasks
<1>1. TypeOK' BY DEF IInv, TypeOK
<1>2. CorrectionsInv' /\ ReportIsTrue' BY CorrectionsKept
<1>3. SubAgentsInv' BY SubAgentsKept
<1>4. SafetiesInv' /\ TreesInv' /\ FailSafeStops' BY <1>1, SafetiesKept
<1>5. FailureIsReported' BY FailureKept
<1> QED BY <1>1, <1>2, <1>3, <1>4, <1>5 DEF IInv

-----------------------------------------------------------------------------
LEMMA Initially == Init => IInv
<1> SUFFICES ASSUME Init PROVE IInv OBVIOUS
<1> USE Names, Kinds, Nones DEF Init
<1>1. TypeOK
  <2>1. <<None, None>> \in Keys BY DEF Keys
  <2>2. /\ status \in [Loops -> {"absent", "running"} \cup Over]
        /\ visible \in SUBSET (Loops \cup SubAgents)
    OBVIOUS
  <2>3. /\ reported \in [Corrections -> 0..MaxIterations \cup {None}]
        /\ attempts \in [Corrections -> 0..MaxIterations]
        /\ prio \in [Signals -> P0..Suppress]
    BY DEF MaxIterations, P0, Suppress
  <2> QED BY <2>1, <2>2, <2>3 DEF TypeOK, Risks
<1>2. CorrectionsInv /\ ReportIsTrue BY DEF CorrectionsInv, ReportIsTrue
<1>3. SubAgentsInv BY DEF SubAgentsInv
<1>4. SafetiesInv /\ TreesInv /\ FailSafeStops BY DEF SafetiesInv, TreesInv, FailSafeStops
<1>5. FailureIsReported BY DEF FailureIsReported
<1> QED BY <1>1, <1>2, <1>3, <1>4, <1>5 DEF IInv

LEMMA Inductive == IInv /\ [Next]_vars => IInv'
<1> SUFFICES ASSUME IInv, [Next]_vars PROVE IInv' OBVIOUS
<1>1. CASE GoalEnds BY <1>1, GoalEndsStep
<1>2. ASSUME NEW key \in Keys, Resolve(key) PROVE IInv' BY <1>2, StillStep DEF Resolve
<1>3. ASSUME NEW c \in Corrections, Correction(c) PROVE IInv' BY <1>3, CorrectionStep
<1>4. ASSUME NEW g \in Signals, Escalation(g) PROVE IInv' BY <1>4, EscalationStep
<1>5. ASSUME NEW s \in Safeties, Safety(s) PROVE IInv' BY <1>5, SafetyStep
<1>6. ASSUME NEW k \in Shutdowns, Shutdown(k) PROVE IInv' BY <1>6, ShutdownStep
<1>7. ASSUME NEW a \in SubAgents, SubAgent(a) PROVE IInv' BY <1>7, SubAgentStep
<1>8. CASE UNCHANGED vars BY <1>8, StillStep DEF vars
<1> QED BY <1>1, <1>2, <1>3, <1>4, <1>5, <1>6, <1>7, <1>8 DEF Next

(* The inductive invariant of the session's nested loops.                  *)
THEOREM Invariance == Spec => []IInv
BY Initially, Inductive, PTL DEF Spec

(* The rows of the three tables and the tasks' variables keep their types. *)
THEOREM TypeCorrect == Spec => []TypeOK
<1>1. IInv => TypeOK BY DEF IInv
<1> QED BY <1>1, Invariance, PTL

(* A correction_exhaust row tells the retries that were made, however the  *)
(* correction was ended (_retry_loop).                                     *)
THEOREM ReportTrue == Spec => []ReportIsTrue
<1>1. IInv => ReportIsTrue BY DEF IInv
<1> QED BY <1>1, Invariance, PTL

(* Whatever fails the goal loop leaves a report behind: the exhausted      *)
(* correction's row or the invariant response (_exhaust, _respond).        *)
THEOREM FailureReported == Spec => []FailureIsReported
<1>1. IInv => FailureIsReported BY DEF IInv
<1> QED BY <1>1, Invariance, PTL

(* No later write, of the process itself or of a shutdown, makes active    *)
(* again what the fail-safe terminated (_fail_safe_force_terminate).       *)
THEOREM FailSafeHolds == Spec => []FailSafeStops
<1>1. IInv => FailSafeStops BY DEF IInv
<1> QED BY <1>1, Invariance, PTL

-----------------------------------------------------------------------------
(* A signal confirmed as P0 is not dropped: when it is handled an alert    *)
(* about the same thing is pending, its own or the one it repeats          *)
(* (_surface_row).                                                         *)
THEOREM SurfacedPending == Spec => SurfacedIsPending
<1>1. ASSUME IInv, [Next]_vars, NEW g \in Signals,
             pc[g] \in {"present", "insert"}, pc'[g] = "done", prio[g] = P0
      PROVE  about[g] \in alerts'
  <2> USE Names, Kinds DEF Goto
  <2>1. Escalation(g)
    <3>1. ~ UNCHANGED pc BY <1>1
    <3>2. ASSUME NEW c \in Corrections, Correction(c) PROVE FALSE
      BY <1>1, <3>2
      DEF IInv, TypeOK, Correction, Correct, Attempt, AttemptFails, Recovered, GiveUp, Exhaust,
          Drain, CorrectionRaises
    <3>3. ASSUME NEW h \in Signals, h # g, Escalation(h) PROVE FALSE
      BY <1>1, <3>3
      DEF IInv, TypeOK, Escalation, Signal, Score, Present, Surface, SurfaceCollides, SignalRaises
    <3>4. ASSUME NEW s \in Safeties, Safety(s) PROVE FALSE
      BY <1>1, <3>4
      DEF IInv, TypeOK, Safety, Risk, TooLate, Respond, RespondCollides, SafetyRaises
    <3>5. ASSUME NEW k \in Shutdowns, Shutdown(k) PROVE FALSE
      BY <1>1, <3>5 DEF IInv, TypeOK, Shutdown, FindTree, KillTree, Close
    <3>6. ASSUME NEW a \in SubAgents, SubAgent(a) PROVE FALSE
      BY <1>1, <3>6
      DEF IInv, TypeOK, SubAgent, Spawn, HandlerCommits, SubAgentEnds, SubAgentLost
    <3>7. ~ GoalEnds /\ \A key \in Keys : ~ Resolve(key) BY <3>1 DEF GoalEnds, Resolve
    <3> QED BY <1>1, <3>1, <3>2, <3>3, <3>4, <3>5, <3>6, <3>7 DEF Next, vars
  <2>2. Present(g) \/ Surface(g)
    BY <1>1, <2>1 DEF IInv, TypeOK, Escalation, Signal, Score, SurfaceCollides, SignalRaises
  <2>3. CASE Present(g)
    <3>1. Duplicate(g) BY <1>1, <2>3 DEF Present, IInv, TypeOK
    <3> QED BY <2>3, <3>1 DEF Present, Duplicate
  <2>4. CASE Surface(g) BY <1>1, <2>4 DEF Surface
  <2> QED BY <2>2, <2>3, <2>4
<1>2. IInv /\ [Next]_vars
        => [\A g \in Signals :
              pc[g] \in {"present", "insert"} /\ pc'[g] = "done" /\ prio[g] = P0
              => about[g] \in alerts']_vars
  BY <1>1
<1> QED BY <1>2, Invariance, PTL DEF Spec, SurfacedIsPending

-----------------------------------------------------------------------------
(* The retries of a correction and of those its retries spawned.           *)

(* Every non-empty set of naturals has a least element.                    *)
LEMMA LeastExists ==
    ASSUME NEW S, S \subseteq Nat, S # {}
    PROVE  \E x \in S : \A y \in S : x <= y
<1> DEFINE Less == {ss \in Nat \X Nat : ss[1] < ss[2]}
<1>1. IsWellFoundedOn(Less, Nat) BY NatLessThanWellFounded DEF OpToRel
<1>2. PICK x \in S : \A y \in S : <<y, x>> \notin Less
  <2> HIDE DEF Less
  <2> QED BY <1>1, WFMin
<1>3. ASSUME NEW y \in S PROVE x <= y
  <2>1. x \in Nat /\ y \in Nat OBVIOUS
  <2>2. <<y, x>> \in Nat \X Nat /\ <<y, x>> \notin Less BY <1>2, <2>1
  <2> QED BY <2>1, <2>2
<1> QED BY <1>3

(* MapThenSumSet of the values of f, its fold written out.                 *)
Any(s) == CHOOSE x \in s : TRUE
SumStep(f, g, s) == IF s = {} THEN 0 ELSE f[Any(s)] + g[s \ {Any(s)}]
Sums(f, T) == CHOOSE g : g = [s \in SUBSET T |-> SumStep(f, g, s)]

(* The sum of zeros over a finite set, as the fold computes it.            *)
LEMMA SumOfZeros ==
    ASSUME NEW f, NEW T, IsFiniteSet(T), \A x \in T : f[x] = 0
    PROVE  Sums(f, T)[T] = 0
<1> DEFINE iter == Sums(f, T)
           bad == {s \in SUBSET T : iter[s] # 0}
           sizes == {Cardinality(s) : s \in bad}
<1>1. \A s \in SUBSET T : s # {} => Any(s) \in s BY DEF Any
<1>2. iter = [s \in SUBSET T |-> SumStep(f, iter, s)]
  <2> DEFINE zero == [s \in SUBSET T |-> 0]
  <2>1. ASSUME NEW s \in SUBSET T PROVE SumStep(f, zero, s) = 0
    <3>1. CASE s = {} BY <3>1 DEF SumStep
    <3>2. CASE s # {} BY <1>1, <3>2 DEF SumStep
    <3> QED BY <3>1, <3>2
  <2>2. zero = [s \in SUBSET T |-> SumStep(f, zero, s)] BY <2>1
  <2> HIDE DEF zero
  <2> QED BY <2>2 DEF Sums
<1> HIDE DEF iter
<1>3. \A s \in SUBSET T : iter[s] = SumStep(f, iter, s) BY <1>2
<1>5. bad = {}
  <2> SUFFICES ASSUME bad # {} PROVE FALSE OBVIOUS
  <2>1. sizes \subseteq Nat /\ sizes # {} BY FS_Subset, FS_CardinalityType
  <2>2. PICK n \in sizes : \A m \in sizes : n <= m
    <3> HIDE DEF sizes
    <3> QED BY <2>1, LeastExists
  <2>3. PICK s \in bad : n = Cardinality(s) OBVIOUS
  <2>4. s # {} BY <1>3, <2>3 DEF SumStep
  <2>5. Any(s) \in s /\ IsFiniteSet(s) BY <1>1, <2>4, FS_Subset
  <2>6. Cardinality(s \ {Any(s)}) = n - 1 /\ n \in Nat
    BY <2>1, <2>3, <2>5, FS_RemoveElement
  <2>7. s \ {Any(s)} \notin bad
    <3>1. n - 1 \notin sizes BY <2>1, <2>2
    <3> QED BY <2>6, <3>1
  <2>8. iter[s \ {Any(s)}] = 0 BY <2>7
  <2>9. iter[s] = f[Any(s)] + iter[s \ {Any(s)}] BY <1>3, <2>3, <2>4 DEF SumStep
  <2>10. f[Any(s)] = 0 BY <2>3, <2>5
  <2> QED BY <2>3, <2>8, <2>9, <2>10
<1> QED BY <1>5 DEF iter

(* Finitely many corrections have begun at any time.                       *)
Begun == {c \in Corrections : parent[c] # None}

LEMMA BegunFinite == Spec => []IsFiniteSet(Begun)
<1>1. Init => IsFiniteSet(Begun)
  <2>1. Init => Begun = {} BY DEF Init, Begun
  <2> QED BY <2>1, FS_EmptySet
<1>2. ASSUME IInv, IsFiniteSet(Begun), [Next]_vars PROVE IsFiniteSet(Begun')
  <2>1. CASE UNCHANGED parent BY <1>2, <2>1 DEF Begun
  <2>2. CASE \E c \in Corrections : \E p, i : Correct(c, p, i)
    <3>1. PICK c \in Corrections : \E p, i : Correct(c, p, i) BY <2>2
    <3>2. \A d \in Corrections \ {c} : parent'[d] = parent[d]
      BY <1>2, <3>1 DEF Correct, IInv, TypeOK
    <3>3. Begun' \subseteq Begun \cup {c} BY <3>2 DEF Begun
    <3>4. IsFiniteSet(Begun \cup {c}) BY <1>2, FS_AddElement
    <3> QED BY <3>3, <3>4, FS_Subset
  <2>3. Next => UNCHANGED parent \/ \E c \in Corrections : \E p, i : Correct(c, p, i)
    <3> USE DEF tasks
    <3>1. ASSUME NEW c \in Corrections, Correction(c)
          PROVE  UNCHANGED parent \/ \E p, i : Correct(c, p, i)
      BY <3>1 DEF Correction, Attempt, AttemptFails, Recovered, GiveUp, Exhaust, Drain,
                  CorrectionRaises
    <3>2. ASSUME NEW g \in Signals, Escalation(g) PROVE UNCHANGED parent
      BY <3>2 DEF Escalation, Signal, Score, Present, Surface, SurfaceCollides, SignalRaises
    <3>3. ASSUME NEW s \in Safeties, Safety(s) PROVE UNCHANGED parent
      BY <3>3 DEF Safety, Risk, TooLate, Respond, RespondCollides, SafetyRaises
    <3>4. ASSUME NEW k \in Shutdowns, Shutdown(k) PROVE UNCHANGED parent
      BY <3>4 DEF Shutdown, FindTree, KillTree, Close
    <3>5. ASSUME NEW a \in SubAgents, SubAgent(a) PROVE UNCHANGED parent
      BY <3>5 DEF SubAgent, Spawn, HandlerCommits, SubAgentEnds, SubAgentLost
    <3>6. GoalEnds => UNCHANGED parent BY DEF GoalEnds
    <3>7. ASSUME NEW key \in Keys, Resolve(key) PROVE UNCHANGED parent BY <3>7 DEF Resolve
    <3> QED BY <3>1, <3>2, <3>3, <3>4, <3>5, <3>6, <3>7 DEF Next
  <2> QED BY <1>2, <2>1, <2>2, <2>3 DEF vars, tasks
<1>3. IsFiniteSet(Begun') <=> IsFiniteSet(Begun)' OBVIOUS
<1>4. IInv /\ IsFiniteSet(Begun) /\ [Next]_vars => IsFiniteSet(Begun)' BY <1>2, <1>3
<1> QED BY <1>1, <1>4, Invariance, PTL DEF Spec

(* However corrections nest, three attempts are made in all                *)
(* (MAX_CORRECTION_DEPTH, _retry_loop).                                    *)
THEOREM AttemptsAreBounded == Spec => []AttemptsBounded
<1>1. IInv /\ IsFiniteSet(Begun) => AttemptsBounded
  <2> SUFFICES ASSUME IInv, IsFiniteSet(Begun), NEW c \in Corrections
               PROVE  attempts[c] + MapThenSumSet(LAMBDA d : attempts[d], Child(c))
                        <= MaxIterations
    BY DEF AttemptsBounded
  <2>1. Child(c) \subseteq Begun BY Nones DEF Child, Begun
  <2>2. IsFiniteSet(Child(c)) BY <2>1, FS_Subset
  <2>3. \A d \in Child(c) : attempts[d] = 0 BY DEF IInv, CorrectionsInv, Child
  <2>4. MapThenSumSet(LAMBDA d : attempts[d], Child(c)) = Sums(attempts, Child(c))[Child(c)]
    BY DEF MapThenSumSet, MapThenFoldSet, Sums, SumStep, Any
  <2>5. Sums(attempts, Child(c))[Child(c)] = 0 BY <2>2, <2>3, SumOfZeros
  <2>6. attempts[c] \in 0..MaxIterations BY DEF IInv, TypeOK
  <2> QED BY <2>4, <2>5, <2>6 DEF MaxIterations
<1> QED BY <1>1, Invariance, BegunFinite, PTL
=============================================================================
