-------------------------- MODULE SessionLoopsProofs --------------------------
(***************************************************************************)
(* Proofs about SessionLoops, for any set of requests and any bounds: the  *)
(* inductive invariant, the safety properties that follow from it, and     *)
(* that the session loops implement the contract of LoopLifecycle.         *)
(***************************************************************************)
EXTENDS SessionLoops, FiniteSetTheorems, TLAPS

-----------------------------------------------------------------------------
(* Each action preserves the inductive invariant.                          *)
(* A new session has no loop row, no alert and no task yet.                 *)
LEMMA StartStep ==
    ASSUME NEW t \in Tasks, IInv, Start(t)
    PROVE  IInv'
<1> USE NoneAssumption DEF Start, At, Goto, db, requests, process, watchdog, IInv, TypeOK
<1>1. TypeOK' BY DEF Ops, InFlight
<1>2. TasksInv' BY DEF TasksInv, TurnPc, ClosingPc
<1>3. TargetInv' BY DEF TargetInv, TurnPc, ClosingPc, TasksInv
<1>4. LoopsInv' BY DEF LoopsInv, TasksInv
<1>5. CountInv' BY DEF CountInv
<1>6. GoalEndsForAReason' BY DEF GoalEndsForAReason, Terminal, TasksInv
<1>7. alert[t] = "none" BY DEF AlertedLoopsAreOver, TasksInv, Terminal
<1>8. OneOpenAlert' BY <1>7 DEF OneOpenAlert
<1>9. (BatchInv /\ AlertedLoopsAreOver)' BY DEF BatchInv, AlertedLoopsAreOver
<1> QED BY <1>1, <1>2, <1>3, <1>4, <1>5, <1>6, <1>7, <1>8, <1>9

(* Only the task moves.                                                     *)
LEMMA StartInitStep ==
    ASSUME NEW t \in Tasks, IInv, StartInit(t)
    PROVE  IInv'
<1> USE DEF StartInit, At, Goto, db, requests, process, watchdog, IInv, TypeOK
<1>1. TypeOK' BY DEF InFlight
<1>2. TasksInv' BY DEF TasksInv, StartPc, TurnPc, ClosingPc
<1>3. TargetInv' BY DEF TargetInv, TurnPc, ClosingPc
<1>4. LoopsInv' BY DEF LoopsInv, ClosingPc, EndedGoalPc
<1>5. CountInv' BY DEF CountInv
<1>6. (BatchInv /\ AlertedLoopsAreOver /\ OneOpenAlert /\ GoalEndsForAReason)'
  BY DEF BatchInv, AlertedLoopsAreOver, OneOpenAlert, GoalEndsForAReason
<1> QED BY <1>1, <1>2, <1>3, <1>4, <1>5, <1>6

(* The goal loop's row is inserted by the task that owns it.                *)
LEMMA StartGoalStep ==
    ASSUME NEW t \in Tasks, IInv, StartGoal(t)
    PROVE  IInv'
<1> USE DEF StartGoal, At, Goto, db, requests, process, watchdog, IInv, TypeOK
<1>1. TypeOK' BY DEF LoopStatus
<1>2. TasksInv' BY DEF TasksInv, StartPc, TurnPc, ClosingPc
<1>3. TargetInv' BY DEF TargetInv, TurnPc, ClosingPc
<1>4. LoopsInv' BY DEF LoopsInv, StartPc, ClosingPc, InFlight, TasksInv, EndedGoalPc
<1>5. CountInv' BY DEF CountInv
<1>6. BatchInv' BY DEF BatchInv
<1>7. AlertedLoopsAreOver' BY DEF AlertedLoopsAreOver, Terminal, LoopsInv, InFlight
<1>8. GoalEndsForAReason' BY DEF GoalEndsForAReason, Terminal
<1>9. OneOpenAlert' BY DEF OneOpenAlert
<1> QED BY <1>1, <1>2, <1>3, <1>4, <1>5, <1>6, <1>7, <1>8, <1>9

(* A request attaches to a session that exists.                             *)
LEMMA InputStep ==
    ASSUME NEW t \in Tasks, NEW s \in Tasks, IInv, Input(t, s)
    PROVE  IInv'
<1> USE DEF Input, Request, Known, At, Goto, db, requests, process, watchdog, IInv, TypeOK
<1>1. TypeOK' BY DEF Ops, InFlight
<1>2. TasksInv' BY DEF TasksInv, StartPc, ClosingPc
<1>3. TargetInv' BY DEF TargetInv, TurnPc, ClosingPc, TasksInv
<1>4. LoopsInv' BY DEF LoopsInv, ClosingPc, TasksInv, EndedGoalPc
<1>5. CountInv' BY DEF CountInv
<1>6. GoalEndsForAReason' BY DEF GoalEndsForAReason, TasksInv
<1>7. alert[t] = "none" BY DEF AlertedLoopsAreOver, TasksInv, Terminal
<1>8. OneOpenAlert' BY <1>7 DEF OneOpenAlert
<1>9. (BatchInv /\ AlertedLoopsAreOver)' BY DEF BatchInv, AlertedLoopsAreOver
<1> QED BY <1>1, <1>2, <1>3, <1>4, <1>5, <1>6, <1>7, <1>8, <1>9

(* A request attaches to a session that exists.                             *)
LEMMA RejectStep ==
    ASSUME NEW t \in Tasks, NEW s \in Tasks, IInv, Reject(t, s)
    PROVE  IInv'
<1> USE DEF Reject, Request, Known, At, Goto, db, requests, process, watchdog, IInv, TypeOK
<1>1. TypeOK' BY DEF Ops, InFlight
<1>2. TasksInv' BY DEF TasksInv, StartPc, TurnPc, ClosingPc
<1>3. TargetInv' BY DEF TargetInv, TurnPc, ClosingPc, TasksInv
<1>4. LoopsInv' BY DEF LoopsInv, ClosingPc, TasksInv, EndedGoalPc
<1>5. CountInv' BY DEF CountInv
<1>6. GoalEndsForAReason' BY DEF GoalEndsForAReason, TasksInv
<1>7. alert[t] = "none" BY DEF AlertedLoopsAreOver, TasksInv, Terminal
<1>8. OneOpenAlert' BY <1>7 DEF OneOpenAlert
<1>9. (BatchInv /\ AlertedLoopsAreOver)' BY DEF BatchInv, AlertedLoopsAreOver
<1> QED BY <1>1, <1>2, <1>3, <1>4, <1>5, <1>6, <1>7, <1>8, <1>9

(* A request attaches to a session that exists.                             *)
LEMMA CloseStep ==
    ASSUME NEW t \in Tasks, NEW s \in Tasks, IInv, Close(t, s)
    PROVE  IInv'
<1> USE DEF Close, Request, Known, At, Goto, db, requests, process, watchdog, IInv, TypeOK
<1>1. TypeOK' BY DEF Ops, InFlight
<1>2. TasksInv' BY DEF TasksInv, StartPc, TurnPc
<1>3. TargetInv' BY DEF TargetInv, TurnPc, ClosingPc, TasksInv
<1>4. LoopsInv' BY DEF LoopsInv, ClosingPc, TasksInv, EndedGoalPc
<1>5. CountInv' BY DEF CountInv
<1>6. GoalEndsForAReason' BY DEF GoalEndsForAReason, TasksInv
<1>7. alert[t] = "none" BY DEF AlertedLoopsAreOver, TasksInv, Terminal
<1>8. OneOpenAlert' BY <1>7 DEF OneOpenAlert
<1>9. (BatchInv /\ AlertedLoopsAreOver)' BY DEF BatchInv, AlertedLoopsAreOver
<1> QED BY <1>1, <1>2, <1>3, <1>4, <1>5, <1>6, <1>7, <1>8, <1>9

(* What is looked up is a row of the task's session.                        *)
LEMMA InputLoopStep ==
    ASSUME NEW t \in Tasks, IInv, InputLoop(t)
    PROVE  IInv'
<1> USE DEF InputLoop, LookUpLoop, At, Goto, db, requests, process, watchdog, IInv, TypeOK
<1>1. /\ \/ target' = target /\ pc' = [pc EXCEPT ![t] = "done"]
         \/ \E l \in Tasks : /\ target' = [target EXCEPT ![t] = l]
                             /\ loopStatus[l] = "running" /\ sess[l] = sess[t]
                             /\ pc' = [pc EXCEPT ![t] = "turn.check"]
      /\ UNCHANGED <<db, op, sess, seen, doomed, turned, process, watchdog>>
      /\ pc[t] = "input.loop"
  BY DEF Newest, Running
<1> USE <1>1
<1> HIDE DEF InputLoop, LookUpLoop, At, Goto
<1>2. TypeOK'
  <2>1. target' \in [Tasks -> Tasks \cup {None}] OBVIOUS
  <2>2. pc' \in [Tasks -> {"idle", "done"} \cup InFlight] BY DEF InFlight
  <2> QED BY <2>1, <2>2
<1>3. TasksInv' BY DEF TasksInv, StartPc, TurnPc, ClosingPc
<1>4. \A u \in Tasks : target[u] # None => target'[u] # None
  BY NoneAssumption
<1>5. TargetInv'
  <2>1. \A u \in Tasks : pc'[u] \in TurnPc \cup ClosingPc => target'[u] # None
    BY NoneAssumption DEF TargetInv, TurnPc, ClosingPc
  <2>2. \A u \in Tasks : \/ target'[u] = target[u]
                         \/ loopStatus[target'[u]] = "running" /\ sess[target'[u]] = sess[u]
    OBVIOUS
  <2> QED BY <2>1, <2>2, <1>4 DEF TargetInv
<1>6. LoopsInv' BY DEF LoopsInv, ClosingPc, EndedGoalPc
<1>7. CountInv' BY DEF CountInv
<1>8. GoalEndsForAReason' BY <1>4 DEF GoalEndsForAReason
<1>9. (BatchInv /\ AlertedLoopsAreOver /\ OneOpenAlert)'
  BY DEF BatchInv, AlertedLoopsAreOver, OneOpenAlert
<1> QED BY <1>2, <1>3, <1>5, <1>6, <1>7, <1>8, <1>9

(* What is looked up is a row of the task's session.                        *)
LEMMA CloseLoopStep ==
    ASSUME NEW t \in Tasks, IInv, CloseLoop(t)
    PROVE  IInv'
<1> USE DEF CloseLoop, LookUpLoop, At, Goto, db, requests, process, watchdog, IInv, TypeOK
<1>1. /\ \/ target' = target /\ pc' = [pc EXCEPT ![t] = "done"]
         \/ \E l \in Tasks : /\ target' = [target EXCEPT ![t] = l]
                             /\ loopStatus[l] = "running" /\ sess[l] = sess[t]
                             /\ pc' = [pc EXCEPT ![t] = "close.complete"]
      /\ UNCHANGED <<db, op, sess, seen, doomed, turned, process, watchdog>>
      /\ pc[t] = "close.loop"
  BY DEF Newest, Running
<1> USE <1>1
<1> HIDE DEF CloseLoop, LookUpLoop, At, Goto
<1>2. TypeOK'
  <2>1. target' \in [Tasks -> Tasks \cup {None}] OBVIOUS
  <2>2. pc' \in [Tasks -> {"idle", "done"} \cup InFlight] BY DEF InFlight
  <2> QED BY <2>1, <2>2
<1>3. TasksInv' BY DEF TasksInv, StartPc, TurnPc, ClosingPc
<1>4. \A u \in Tasks : target[u] # None => target'[u] # None
  BY NoneAssumption
<1>5. TargetInv'
  <2>1. \A u \in Tasks : pc'[u] \in TurnPc \cup ClosingPc => target'[u] # None
    BY NoneAssumption DEF TargetInv, TurnPc, ClosingPc
  <2>2. \A u \in Tasks : \/ target'[u] = target[u]
                         \/ loopStatus[target'[u]] = "running" /\ sess[target'[u]] = sess[u]
    OBVIOUS
  <2> QED BY <2>1, <2>2, <1>4 DEF TargetInv
<1>6. LoopsInv' BY DEF LoopsInv, TasksInv, EndedGoalPc
<1>7. CountInv' BY DEF CountInv
<1>8. GoalEndsForAReason' BY <1>4 DEF GoalEndsForAReason
<1>9. (BatchInv /\ AlertedLoopsAreOver /\ OneOpenAlert)'
  BY DEF BatchInv, AlertedLoopsAreOver, OneOpenAlert
<1> QED BY <1>2, <1>3, <1>5, <1>6, <1>7, <1>8, <1>9

(* A turn passes the check only below the bound.                            *)
LEMMA TurnCheckStep ==
    ASSUME NEW t \in Tasks, IInv, TurnCheck(t)
    PROVE  IInv'
<1>0. /\ pc \in [Tasks -> {"idle", "done"} \cup InFlight]
      /\ \E there \in {"turn.bump", "done"} : pc' = [pc EXCEPT ![t] = there]
      /\ target \in [Tasks -> Tasks \cup {None}] /\ pc[t] = "turn.check"
  BY DEF TurnCheck, Goto, At, IInv, TypeOK
<1>7. target[t] \in Tasks BY <1>0 DEF IInv, TargetInv, TurnPc
<1> USE DEF TurnCheck, At, Goto, db, requests, process, watchdog, IInv, TypeOK
<1>1. TypeOK'
  <2>1. seen' \in [Tasks -> Nat] BY <1>7
  <2>2. pc' \in [Tasks -> {"idle", "done"} \cup InFlight]
    <3> HIDE DEF TurnCheck, At, Goto, db, requests, process, watchdog, IInv, TypeOK
    <3> QED BY <1>0 DEF InFlight
  <2> QED BY <2>1, <2>2
<1>2. TasksInv' BY DEF TasksInv, StartPc, TurnPc, ClosingPc
<1>3. TargetInv' BY DEF TargetInv, TurnPc, ClosingPc
<1>4. LoopsInv' BY DEF LoopsInv, ClosingPc, EndedGoalPc
<1>5. CountInv' BY DEF CountInv
<1>6. (BatchInv /\ AlertedLoopsAreOver /\ OneOpenAlert /\ GoalEndsForAReason)'
  BY DEF BatchInv, AlertedLoopsAreOver, OneOpenAlert, GoalEndsForAReason
<1> QED BY <1>1, <1>2, <1>3, <1>4, <1>5, <1>6

(* The count written is one more than a count below the bound.              *)
LEMMA TurnBumpStep ==
    ASSUME NEW t \in Tasks, IInv, TurnBump(t)
    PROVE  IInv'
<1> USE GoalMaxAssumption DEF TurnBump, At, Goto, db, requests, process, watchdog, IInv,
          TypeOK
<1>1. TypeOK'
  <2>1. seen[t] + 1 \in Nat OBVIOUS
  <2>2. iteration' \in [Tasks -> Nat] BY <2>1
  <2>3. pc' \in [Tasks -> {"idle", "done"} \cup InFlight] BY DEF InFlight
  <2> QED BY <2>1, <2>2, <2>3
<1>2. TasksInv' BY DEF TasksInv, StartPc, TurnPc, ClosingPc
<1>3. TargetInv' BY DEF TargetInv, TurnPc
<1>4. LoopsInv' BY DEF LoopsInv, ClosingPc, EndedGoalPc
<1>5. CountInv' BY DEF CountInv
<1>6. (BatchInv /\ AlertedLoopsAreOver /\ OneOpenAlert /\ GoalEndsForAReason)'
  BY DEF BatchInv, AlertedLoopsAreOver, OneOpenAlert, GoalEndsForAReason
<1> QED BY <1>1, <1>2, <1>3, <1>4, <1>5, <1>6

(* Only the task moves.                                                     *)
LEMMA TurnAgentStep ==
    ASSUME NEW t \in Tasks, IInv, TurnAgent(t)
    PROVE  IInv'
<1> USE DEF TurnAgent, At, Goto, db, requests, process, watchdog, IInv, TypeOK
<1>1. TypeOK' BY DEF InFlight
<1>2. TasksInv' BY DEF TasksInv, StartPc, TurnPc, ClosingPc
<1>3. TargetInv' BY DEF TargetInv, TurnPc
<1>4. LoopsInv' BY DEF LoopsInv, ClosingPc, EndedGoalPc
<1>5. CountInv' BY DEF CountInv
<1>6. (BatchInv /\ AlertedLoopsAreOver /\ OneOpenAlert /\ GoalEndsForAReason)'
  BY DEF BatchInv, AlertedLoopsAreOver, OneOpenAlert, GoalEndsForAReason
<1> QED BY <1>1, <1>2, <1>3, <1>4, <1>5, <1>6

(* Only a notice is written.                                                *)
LEMMA TurnEscalateStep ==
    ASSUME NEW t \in Tasks, IInv, TurnEscalate(t)
    PROVE  IInv'
<1> USE DEF TurnEscalate, WriteNotice, At, Goto, db, requests, process, watchdog, IInv,
          TypeOK
<1>1. TypeOK' BY DEF RowState, Writers, InFlight
<1>2. TasksInv' BY DEF TasksInv, StartPc, TurnPc, ClosingPc
<1>3. TargetInv' BY DEF TargetInv, TurnPc
<1>4. LoopsInv' BY DEF LoopsInv, ClosingPc, EndedGoalPc
<1>5. CountInv' BY DEF CountInv
<1>6. (BatchInv /\ AlertedLoopsAreOver /\ OneOpenAlert /\ GoalEndsForAReason)'
  BY DEF BatchInv, AlertedLoopsAreOver, OneOpenAlert, GoalEndsForAReason
<1> QED BY <1>1, <1>2, <1>3, <1>4, <1>5, <1>6

(* Only a notice is written.                                                *)
LEMMA InputEscalateStep ==
    ASSUME NEW t \in Tasks, IInv, InputEscalate(t)
    PROVE  IInv'
<1> USE DEF InputEscalate, WriteNotice, At, Goto, db, requests, process, watchdog, IInv,
          TypeOK
<1>1. TypeOK' BY DEF RowState, Writers
<1>2. TasksInv' BY DEF TasksInv, StartPc, TurnPc
<1>3. TargetInv' BY DEF TargetInv, TurnPc
<1>4. LoopsInv' BY DEF LoopsInv, TasksInv, EndedGoalPc
<1>5. CountInv' BY DEF CountInv
<1>6. (BatchInv /\ AlertedLoopsAreOver /\ OneOpenAlert /\ GoalEndsForAReason)'
  BY DEF BatchInv, AlertedLoopsAreOver, OneOpenAlert, GoalEndsForAReason
<1> QED BY <1>1, <1>2, <1>3, <1>4, <1>5, <1>6

(* Pending rows become resolved; none becomes pending.                      *)
LEMMA RejectUpdateStep ==
    ASSUME NEW t \in Tasks, IInv, RejectUpdate(t)
    PROVE  IInv'
<1> USE DEF RejectUpdate, Resolved, At, Goto, db, requests, process, watchdog, IInv, TypeOK
<1>1. TypeOK' BY DEF RowState
<1>2. TasksInv' BY DEF TasksInv, StartPc
<1>3. TargetInv' BY DEF TargetInv, TasksInv
<1>4. LoopsInv' BY DEF LoopsInv, TasksInv
<1>5. CountInv' BY DEF CountInv
<1>6. BatchInv' BY DEF BatchInv
<1>7. AlertedLoopsAreOver' BY DEF AlertedLoopsAreOver
<1>8. OneOpenAlert' BY DEF OneOpenAlert
<1>9. GoalEndsForAReason' BY DEF GoalEndsForAReason
<1> QED BY <1>1, <1>2, <1>3, <1>4, <1>5, <1>6, <1>7, <1>8, <1>9

(* The goal loop of the session is not running afterwards.                  *)
LEMMA CloseCompleteStep ==
    ASSUME NEW t \in Tasks, IInv, CloseComplete(t)
    PROVE  IInv'
<1> USE DEF CloseComplete, At, Goto, db, requests, process, watchdog, IInv, TypeOK
<1>1. TypeOK' BY DEF LoopStatus, Terminal, InFlight
<1>2. TasksInv' BY DEF TasksInv, StartPc, TurnPc, ClosingPc
<1>3. TargetInv' BY DEF TargetInv, ClosingPc
<1>4. LoopsInv' BY DEF LoopsInv, ClosingPc, TasksInv, TargetInv
<1>5. CountInv' BY DEF CountInv
<1>6. BatchInv' BY DEF BatchInv
<1>7. AlertedLoopsAreOver' BY DEF AlertedLoopsAreOver, Terminal
<1>8. GoalEndsForAReason' BY DEF GoalEndsForAReason, TasksInv, TargetInv, ClosingPc
<1>9. OneOpenAlert' BY DEF OneOpenAlert
<1> QED BY <1>1, <1>2, <1>3, <1>4, <1>5, <1>6, <1>7, <1>8, <1>9

(* The selected rows are rows of the session.                               *)
LEMMA CloseTreeStep ==
    ASSUME NEW t \in Tasks, IInv, CloseTree(t)
    PROVE  IInv'
<1> USE DEF CloseTree, Running, At, Goto, db, requests, process, watchdog, IInv, TypeOK
<1>1. TypeOK' BY DEF InFlight
<1>2. TasksInv' BY DEF TasksInv, StartPc, TurnPc, ClosingPc
<1>3. TargetInv' BY DEF TargetInv, ClosingPc, TasksInv
<1>4. LoopsInv' BY DEF LoopsInv, ClosingPc, EndedGoalPc
<1>5. CountInv' BY DEF CountInv
<1>6. (BatchInv /\ AlertedLoopsAreOver /\ OneOpenAlert /\ GoalEndsForAReason)'
  BY DEF BatchInv, AlertedLoopsAreOver, OneOpenAlert, GoalEndsForAReason
<1> QED BY <1>1, <1>2, <1>3, <1>4, <1>5, <1>6

(* The rows written are the rows selected.                                  *)
LEMMA CloseKillStep ==
    ASSUME NEW t \in Tasks, IInv, CloseKill(t)
    PROVE  IInv'
<1> USE DEF CloseKill, At, Goto, db, requests, process, watchdog, IInv,
          TypeOK
<1>1. TypeOK' BY DEF LoopStatus, Terminal, InFlight
<1>2. TasksInv' BY DEF TasksInv, StartPc, TurnPc, ClosingPc, TargetInv
<1>3. TargetInv' BY DEF TargetInv, ClosingPc
<1>4. LoopsInv' BY DEF LoopsInv, ClosingPc, TasksInv, TargetInv, EndedGoalPc
<1>5. CountInv' BY DEF CountInv
<1>6. BatchInv' BY DEF BatchInv
<1>7. AlertedLoopsAreOver' BY DEF AlertedLoopsAreOver, Terminal
<1>8. GoalEndsForAReason'
  <2>1. op[t] = "close" /\ target[t] # None BY DEF TasksInv, TargetInv, ClosingPc
  <2>2. \A l \in doomed[t] : sess[l] = sess[t] BY DEF TargetInv
  <2>3. \A l \in Tasks : op[l] = "start" => sess[l] = l BY DEF TasksInv
  <2> QED BY <2>1, <2>2, <2>3 DEF GoalEndsForAReason
<1>9. OneOpenAlert' BY DEF OneOpenAlert
<1> QED BY <1>1, <1>2, <1>3, <1>4, <1>5, <1>6, <1>7, <1>8, <1>9

(* By now the session's goal loop is over.                                  *)
LEMMA CloseSessionStep ==
    ASSUME NEW t \in Tasks, IInv, CloseSession(t)
    PROVE  IInv'
<1> USE DEF CloseSession, At, Goto, db, requests, process, watchdog, IInv, TypeOK
<1>1. TypeOK' BY DEF InFlight
<1>2. TasksInv' BY DEF TasksInv, StartPc, TurnPc, ClosingPc
<1>3. TargetInv' BY DEF TargetInv, ClosingPc
<1>4. LoopsInv' BY DEF LoopsInv, ClosingPc, TasksInv, EndedGoalPc
<1>5. CountInv' BY DEF CountInv
<1>6. (BatchInv /\ AlertedLoopsAreOver /\ OneOpenAlert /\ GoalEndsForAReason)'
  BY DEF BatchInv, AlertedLoopsAreOver, OneOpenAlert, GoalEndsForAReason
<1> QED BY <1>1, <1>2, <1>3, <1>4, <1>5, <1>6

(* Only the task moves.                                                     *)
LEMMA CloseSummaryStep ==
    ASSUME NEW t \in Tasks, IInv, CloseSummary(t)
    PROVE  IInv'
<1> USE DEF CloseSummary, At, Goto, db, requests, process, watchdog, IInv, TypeOK
<1>1. TypeOK' BY DEF InFlight
<1>2. TasksInv' BY DEF TasksInv, StartPc, TurnPc, ClosingPc
<1>3. TargetInv' BY DEF TargetInv, ClosingPc
<1>4. LoopsInv' BY DEF LoopsInv, TasksInv
<1>5. CountInv' BY DEF CountInv
<1>6. (BatchInv /\ AlertedLoopsAreOver /\ OneOpenAlert /\ GoalEndsForAReason)'
  BY DEF BatchInv, AlertedLoopsAreOver, OneOpenAlert, GoalEndsForAReason
<1> QED BY <1>1, <1>2, <1>3, <1>4, <1>5, <1>6

(* The session is closed before its reflection row is inserted.             *)
LEMMA ReflectStartStep ==
    ASSUME NEW t \in Tasks, IInv, ReflectStart(t)
    PROVE  IInv'
<1> USE GoalMaxAssumption DEF ReflectStart, At, Goto, db, requests,
          process, watchdog, IInv, TypeOK
<1>1. TypeOK' BY DEF LoopStatus, InFlight
<1>2. TasksInv' BY DEF TasksInv, StartPc, TurnPc, ClosingPc
<1>3. TargetInv' BY DEF TargetInv, ClosingPc
<1>4. LoopsInv' BY DEF LoopsInv, ClosingPc, TasksInv, EndedGoalPc
<1>5. CountInv' BY DEF CountInv
<1>6. BatchInv' BY DEF BatchInv
<1>7. AlertedLoopsAreOver'
  <2>1. alert[t] = "none" BY DEF AlertedLoopsAreOver, Terminal, LoopsInv, InFlight
  <2> QED BY <2>1 DEF AlertedLoopsAreOver
<1>8. GoalEndsForAReason' BY DEF GoalEndsForAReason, Terminal
<1>9. OneOpenAlert' BY DEF OneOpenAlert
<1> QED BY <1>1, <1>2, <1>3, <1>4, <1>5, <1>6, <1>7, <1>8, <1>9

(* The reflection row exists, whatever its status is.                       *)
LEMMA ReflectEndStep ==
    ASSUME NEW t \in Tasks, IInv, ReflectEnd(t)
    PROVE  IInv'
<1> USE DEF ReflectEnd, At, Goto, db, requests, process, watchdog, IInv, TypeOK
<1>1. TypeOK' BY DEF LoopStatus, Terminal
<1>2. TasksInv' BY DEF TasksInv, StartPc, LoopsInv
<1>3. TargetInv' BY DEF TargetInv, TasksInv, LoopsInv
<1>4. LoopsInv' BY DEF LoopsInv, InFlight, TasksInv
<1>5. CountInv' BY DEF CountInv
<1>6. BatchInv' BY DEF BatchInv
<1>7. AlertedLoopsAreOver' BY DEF AlertedLoopsAreOver, Terminal
<1>8. GoalEndsForAReason' BY DEF GoalEndsForAReason, TasksInv, ClosingPc
<1>9. OneOpenAlert' BY DEF OneOpenAlert
<1> QED BY <1>1, <1>2, <1>3, <1>4, <1>5, <1>6, <1>7, <1>8, <1>9

(* The task ends; its rows stay as they are.                                *)
LEMMA FailStep ==
    ASSUME NEW t \in Tasks, IInv, Fail(t)
    PROVE  IInv'
<1> USE DEF Fail, Fallible, At, Goto, db, requests, process, watchdog, IInv, TypeOK
<1>1. TypeOK' OBVIOUS
<1>2. TasksInv' BY DEF TasksInv, StartPc, TurnPc, ClosingPc
<1>3. TargetInv' BY DEF TargetInv, TurnPc, ClosingPc
<1>4. LoopsInv' BY DEF LoopsInv, InFlight, TasksInv, EndedGoalPc
<1>5. CountInv' BY DEF CountInv
<1>6. (BatchInv /\ AlertedLoopsAreOver /\ OneOpenAlert /\ GoalEndsForAReason)'
  BY DEF BatchInv, AlertedLoopsAreOver, OneOpenAlert, GoalEndsForAReason
<1> QED BY <1>1, <1>2, <1>3, <1>4, <1>5, <1>6

(* The clock is not part of any invariant but the type.                     *)
LEMMA ExpireStep ==
    ASSUME NEW l \in Tasks, IInv, Expire(l)
    PROVE  IInv'
<1> USE DEF Expire, db, requests, process, watchdog, IInv, TypeOK
<1>1. TypeOK' OBVIOUS
<1>2. (/\ TasksInv /\ TargetInv /\ LoopsInv /\ CountInv /\ BatchInv
       /\ AlertedLoopsAreOver /\ OneOpenAlert /\ GoalEndsForAReason)'
  BY DEF TasksInv, TargetInv, LoopsInv, CountInv, BatchInv, AlertedLoopsAreOver,
         OneOpenAlert, GoalEndsForAReason
<1> QED BY <1>1, <1>2

(* A running loop has no alert yet.                                         *)
LEMMA WatchScanStep ==
    ASSUME IInv, WatchScan
    PROVE  IInv'
<1> USE DEF WatchScan, Overdue, db, requests, process, watchdog, IInv, TypeOK
<1>1. TypeOK' OBVIOUS
<1>2. BatchInv' BY DEF BatchInv, AlertedLoopsAreOver, Terminal
<1>3. AlertedLoopsAreOver' BY DEF AlertedLoopsAreOver, Terminal
<1>4. (TasksInv /\ TargetInv /\ LoopsInv /\ CountInv /\ OneOpenAlert /\ GoalEndsForAReason)'
  BY DEF TasksInv, TargetInv, LoopsInv, CountInv, OneOpenAlert, GoalEndsForAReason
<1> QED BY <1>1, <1>2, <1>3, <1>4

(* The loop had no alert and its session none pending.                      *)
LEMMA WatchTerminateStep ==
    ASSUME NEW l \in Tasks, IInv, WatchTerminate(l)
    PROVE  IInv'
<1> USE DEF WatchTerminate, AlertOpen, db, requests, process, watchdog, IInv, TypeOK
<1>1. TypeOK' BY DEF RowState, LoopStatus, Terminal
<1>2. TasksInv' BY DEF TasksInv, BatchInv
<1>3. TargetInv' BY DEF TargetInv
<1>4. LoopsInv' BY DEF LoopsInv, BatchInv
<1>5. BatchInv' BY DEF BatchInv
<1>6. AlertedLoopsAreOver' BY DEF AlertedLoopsAreOver, Terminal
<1>7. OneOpenAlert' BY DEF OneOpenAlert
<1>8. GoalEndsForAReason' BY DEF GoalEndsForAReason
<1>9. CountInv' BY DEF CountInv
<1> QED BY <1>1, <1>2, <1>3, <1>4, <1>5, <1>6, <1>7, <1>8, <1>9

(* The cycle ends.                                                          *)
LEMMA WatchCollideStep ==
    ASSUME NEW l \in Tasks, IInv, WatchCollide(l)
    PROVE  IInv'
<1> USE DEF WatchCollide, db, requests, process, watchdog, IInv, TypeOK
<1>1. TypeOK' OBVIOUS
<1>2. BatchInv' BY DEF BatchInv
<1>3. AlertedLoopsAreOver' BY DEF AlertedLoopsAreOver
<1>4. (TasksInv /\ TargetInv /\ LoopsInv /\ CountInv /\ OneOpenAlert /\ GoalEndsForAReason)'
  BY DEF TasksInv, TargetInv, LoopsInv, CountInv, OneOpenAlert, GoalEndsForAReason
<1> QED BY <1>1, <1>2, <1>3, <1>4

(* Only the cycle moves.                                                    *)
LEMMA WatchLoopsDoneStep ==
    ASSUME IInv, WatchLoopsDone
    PROVE  IInv'
<1> USE DEF WatchLoopsDone, db, requests, process, watchdog, IInv, TypeOK
<1>1. TypeOK' OBVIOUS
<1>2. (/\ TasksInv /\ TargetInv /\ LoopsInv /\ CountInv /\ BatchInv
       /\ AlertedLoopsAreOver /\ OneOpenAlert /\ GoalEndsForAReason)'
  BY DEF TasksInv, TargetInv, LoopsInv, CountInv, BatchInv, AlertedLoopsAreOver,
         OneOpenAlert, GoalEndsForAReason
<1> QED BY <1>1, <1>2

(* Only the cycle moves.                                                    *)
LEMMA WatchCleanStep ==
    ASSUME IInv, WatchClean
    PROVE  IInv'
<1> USE DEF WatchClean, db, requests, process, watchdog, IInv, TypeOK
<1>1. TypeOK' OBVIOUS
<1>2. (/\ TasksInv /\ TargetInv /\ LoopsInv /\ CountInv /\ BatchInv
       /\ AlertedLoopsAreOver /\ OneOpenAlert /\ GoalEndsForAReason)'
  BY DEF TasksInv, TargetInv, LoopsInv, CountInv, BatchInv, AlertedLoopsAreOver,
         OneOpenAlert, GoalEndsForAReason
<1> QED BY <1>1, <1>2

(* Tasks in flight end as if they had failed.                               *)
LEMMA CrashStep ==
    ASSUME IInv, Crash
    PROVE  IInv'
<1> USE MaxCrashesAssumption DEF Crash, db, requests, process, watchdog, IInv, TypeOK
<1>1. TypeOK'
  <2>1. crashes' \in 0..MaxCrashes OBVIOUS
  <2>2. pc' \in [Tasks -> {"idle", "done"} \cup InFlight] BY DEF InFlight
  <2> QED BY <2>1, <2>2
<1>2. TasksInv' BY DEF TasksInv, StartPc, TurnPc, ClosingPc, InFlight
<1>3. TargetInv' BY DEF TargetInv, TurnPc, ClosingPc
<1>4. LoopsInv' BY DEF LoopsInv, InFlight, TasksInv, EndedGoalPc
<1>5. CountInv' BY DEF CountInv
<1>6. BatchInv' BY DEF BatchInv
<1>7. AlertedLoopsAreOver' BY DEF AlertedLoopsAreOver
<1>8. (OneOpenAlert /\ GoalEndsForAReason)' BY DEF OneOpenAlert, GoalEndsForAReason
<1> QED BY <1>1, <1>2, <1>3, <1>4, <1>5, <1>6, <1>7, <1>8

(* Nothing is repaired.                                                     *)
LEMMA RestartStep ==
    ASSUME IInv, Restart
    PROVE  IInv'
<1> USE DEF Restart, db, requests, process, watchdog, IInv, TypeOK
<1>1. TypeOK' OBVIOUS
<1>2. (/\ TasksInv /\ TargetInv /\ LoopsInv /\ CountInv /\ BatchInv
       /\ AlertedLoopsAreOver /\ OneOpenAlert /\ GoalEndsForAReason)'
  BY DEF TasksInv, TargetInv, LoopsInv, CountInv, BatchInv, AlertedLoopsAreOver,
         OneOpenAlert, GoalEndsForAReason
<1> QED BY <1>1, <1>2

-----------------------------------------------------------------------------
(* No row and no task: every part of the invariant holds at the start.      *)
LEMMA InitEstablishes == Init => IInv
<1> SUFFICES ASSUME Init PROVE IInv
  OBVIOUS
<1> USE NoneAssumption, MaxCrashesAssumption, GoalMaxAssumption DEF Init
<1>1. TypeOK BY DEF TypeOK, Ops, LoopStatus, RowState
<1>2. TasksInv BY DEF TasksInv, StartPc, TurnPc, ClosingPc
<1>3. TargetInv BY DEF TargetInv, TurnPc, ClosingPc
<1>4. LoopsInv BY DEF LoopsInv, EndedGoalPc, ClosingPc
<1>5. CountInv /\ BatchInv BY DEF CountInv, BatchInv
<1>6. AlertedLoopsAreOver /\ OneOpenAlert /\ GoalEndsForAReason
  BY DEF AlertedLoopsAreOver, OneOpenAlert, GoalEndsForAReason
<1> QED BY <1>1, <1>2, <1>3, <1>4, <1>5, <1>6 DEF IInv

(* A step that changes nothing preserves it.                                *)
LEMMA StutterPreserves == IInv /\ UNCHANGED vars => IInv'
BY DEF vars, db, requests, process, watchdog, IInv, TypeOK, TasksInv, TargetInv, LoopsInv,
       CountInv, BatchInv, AlertedLoopsAreOver, OneOpenAlert, GoalEndsForAReason

(* Every step preserves it.                                                 *)
LEMMA StepPreserves == IInv /\ [Next]_vars => IInv'
<1> SUFFICES ASSUME IInv, [Next]_vars PROVE IInv'
  OBVIOUS
<1>1. ASSUME NEW t \in Tasks, Arrive(t) PROVE IInv'
  BY <1>1, StartStep, InputStep, RejectStep, CloseStep DEF Arrive
<1>2. ASSUME NEW t \in Tasks, Advance(t) PROVE IInv'
  BY <1>2, StartInitStep, StartGoalStep, InputLoopStep, TurnCheckStep, TurnBumpStep,
     TurnAgentStep, TurnEscalateStep, InputEscalateStep, RejectUpdateStep, CloseLoopStep,
     CloseCompleteStep, CloseTreeStep, CloseKillStep, CloseSessionStep, CloseSummaryStep,
     ReflectStartStep, ReflectEndStep, FailStep DEF Advance
<1>3. ASSUME NEW l \in Tasks, Expire(l) PROVE IInv'
  BY <1>3, ExpireStep
<1>4. ASSUME Watchdog PROVE IInv'
  BY <1>4, WatchScanStep, WatchTerminateStep, WatchCollideStep, WatchLoopsDoneStep,
     WatchCleanStep DEF Watchdog
<1>5. ASSUME Crash \/ Restart PROVE IInv'
  BY <1>5, CrashStep, RestartStep
<1> QED BY <1>1, <1>2, <1>3, <1>4, <1>5, StutterPreserves DEF Next

(* IInv is an invariant: where a task stands fixes which rows exist, whom   *)
(* they belong to and what has been reported about them.                    *)
THEOREM InductiveInvariant == Spec => []IInv
BY InitEstablishes, StepPreserves, PTL DEF Spec

-----------------------------------------------------------------------------
(* Every variable keeps its type.                                           *)
THEOREM TypeCorrect == Spec => []TypeOK
<1>1. IInv => TypeOK BY DEF IInv
<1> QED BY <1>1, InductiveInvariant, PTL

(* A session never has two node-less P0 alerts of the watchdog pending.     *)
THEOREM OneOpenAlertHolds == Spec => []OneOpenAlert
<1>1. IInv => OneOpenAlert BY DEF IInv
<1> QED BY <1>1, InductiveInvariant, PTL

(* A loop the watchdog reported is over, and no cycle reports it again.     *)
THEOREM AlertedLoopsAreOverHolds == Spec => []AlertedLoopsAreOver
<1>1. IInv => AlertedLoopsAreOver BY DEF IInv
<1> QED BY <1>1, InductiveInvariant, PTL

(* A goal loop is over only after the watchdog's alert or a /close request. *)
THEOREM GoalEndsForAReasonHolds == Spec => []GoalEndsForAReason
<1>1. IInv => GoalEndsForAReason BY DEF IInv
<1> QED BY <1>1, InductiveInvariant, PTL

(* In a closed session only reflection loops run, in an active one only its *)
(* goal loop does.                                                          *)
THEOREM ClosedIsQuietHolds == Spec => []ClosedIsQuiet
<1>1. IInv => ClosedIsQuiet
  BY NoneAssumption DEF IInv, ClosedIsQuiet, TypeOK, TasksInv, LoopsInv, Ops
<1> QED BY <1>1, InductiveInvariant, PTL

(* iteration_count never passes GoalLoop.MAX_ITERATIONS.                    *)
THEOREM IterationBoundedHolds == Spec => []IterationBounded
<1>1. IInv => IterationBounded BY DEF IInv, IterationBounded, CountInv
<1> QED BY <1>1, InductiveInvariant, PTL

-----------------------------------------------------------------------------
(* How many turns a loop's count may claim: those that ran, and the one a   *)
(* reflection row starts with.                                              *)
Claimable(l) == Cardinality(TurnsOf(l)) + (IF op[l] = "close" THEN 1 ELSE 0)
Counted == {"turn.agent", "turn.escalate", "input.escalate", "done"}

(* Finitely many turns have run, each is counted once, and the count a turn *)
(* has read was claimable.                                                  *)
TurnsInv ==
    /\ IsFiniteSet(turned)
    /\ \A t \in turned : pc[t] \in Counted
    /\ \A t, l \in Tasks : pc[t] = "turn.bump" /\ target[t] = l => seen[t] <= Claimable(l)
    /\ CountIsHonest

(* What may be claimed never shrinks: a counted turn keeps its loop.        *)
LEMMA ClaimableGrows ==
    ASSUME IsFiniteSet(turned), IsFiniteSet(turned'), turned \subseteq turned',
           \A t \in turned : target'[t] = target[t],
           \A l \in Tasks : op[l] = "close" => op'[l] = "close",
           NEW l \in Tasks
    PROVE  /\ Cardinality(TurnsOf(l)) \in Nat /\ Cardinality(TurnsOf(l)') \in Nat
           /\ Claimable(l) \in Nat /\ Claimable(l)' \in Nat
           /\ Claimable(l) <= Claimable(l)'
<1>1. TurnsOf(l) \subseteq TurnsOf(l)' BY DEF TurnsOf
<1>2. IsFiniteSet(TurnsOf(l)) /\ IsFiniteSet(TurnsOf(l)')
  <2>1. TurnsOf(l) \subseteq turned /\ TurnsOf(l)' \subseteq turned' BY DEF TurnsOf
  <2> QED BY <2>1, FS_Subset
<1>3. /\ Cardinality(TurnsOf(l)) \in Nat /\ Cardinality(TurnsOf(l)') \in Nat
      /\ Cardinality(TurnsOf(l)) <= Cardinality(TurnsOf(l)')
  BY <1>1, <1>2, FS_Subset, FS_CardinalityType
<1> DEFINE before == Cardinality(TurnsOf(l))
           after == Cardinality(TurnsOf(l)')
<1>4. Claimable(l) = before + (IF op[l] = "close" THEN 1 ELSE 0) BY DEF Claimable
<1>5. Claimable(l)' = after + (IF op'[l] = "close" THEN 1 ELSE 0) BY DEF Claimable
<1> HIDE DEF before, after
<1>6. before \in Nat /\ after \in Nat /\ before <= after BY <1>3 DEF before, after
<1>7. op[l] = "close" => op'[l] = "close" OBVIOUS
<1> QED BY <1>3, <1>4, <1>5, <1>6, <1>7

(* A step that neither counts nor reads a count keeps TurnsInv.             *)
LEMMA OthersCountNothing ==
    ASSUME IInv, TurnsInv, UNCHANGED <<iteration, turned>>,
           \A t \in turned : pc'[t] \in Counted /\ target'[t] = target[t],
           \A t \in Tasks : pc'[t] = "turn.bump" =>
               pc[t] = "turn.bump" /\ seen'[t] = seen[t] /\ target'[t] = target[t],
           \A l \in Tasks : op[l] = "close" => op'[l] = "close"
    PROVE  TurnsInv'
<1> USE DEF TurnsInv
<1>1. ASSUME NEW l \in Tasks
      PROVE  Claimable(l) \in Nat /\ Claimable(l)' \in Nat /\ Claimable(l) <= Claimable(l)'
  BY <1>1, ClaimableGrows
<1>3. \A t \in Tasks : seen[t] \in Nat /\ iteration[t] \in Nat BY DEF IInv, TypeOK
<1>4. ASSUME NEW t \in Tasks, NEW l \in Tasks, pc'[t] = "turn.bump", target'[t] = l
      PROVE  seen'[t] <= Claimable(l)'
  <2>1. seen[t] <= Claimable(l) BY <1>4
  <2> QED BY <1>1, <1>3, <1>4, <2>1
<1>5. CountIsHonest'
  <2>1. \A l \in Tasks : iteration[l] <= Claimable(l) BY DEF CountIsHonest, Claimable
  <2>2. \A l \in Tasks : iteration'[l] <= Claimable(l)' BY <1>1, <1>3, <2>1
  <2> QED BY <2>2 DEF CountIsHonest, Claimable
<1> QED BY <1>4, <1>5

(* The count written by a turn is one more than what was claimable.         *)
LEMMA TurnCounts ==
    ASSUME IInv, TurnsInv, NEW t \in Tasks, TurnBump(t)
    PROVE  TurnsInv'
<1> USE DEF TurnsInv, TurnBump, At, Goto
<1>1. target[t] \in Tasks BY DEF IInv, TypeOK, TargetInv, TurnPc
<1>2. t \notin turned BY DEF Counted
<1>3. IsFiniteSet(turned') /\ turned' = turned \cup {t} BY FS_AddElement
<1>4. ASSUME NEW l \in Tasks
      PROVE  /\ Cardinality(TurnsOf(l)) \in Nat /\ Claimable(l) \in Nat
             /\ Claimable(l)' \in Nat /\ Claimable(l) <= Claimable(l)'
  BY <1>3, <1>4, ClaimableGrows
<1>5. \A u \in Tasks : seen[u] \in Nat /\ iteration[u] \in Nat BY DEF IInv, TypeOK
<1>6. ASSUME NEW l \in Tasks, l = target[t] PROVE Claimable(l)' = Claimable(l) + 1
  <2>1. TurnsOf(l)' = TurnsOf(l) \cup {t} /\ t \notin TurnsOf(l)
    BY <1>2, <1>3, <1>6 DEF TurnsOf
  <2>2. IsFiniteSet(TurnsOf(l))
    <3>1. TurnsOf(l) \subseteq turned BY DEF TurnsOf
    <3> QED BY <3>1, FS_Subset
  <2>3. Cardinality(TurnsOf(l)') = Cardinality(TurnsOf(l)) + 1 BY <2>1, <2>2, FS_AddElement
  <2>4. Cardinality(TurnsOf(l)) \in Nat BY <2>2, FS_CardinalityType
  <2>5. op' = op OBVIOUS
  <2> QED BY <2>3, <2>4, <2>5 DEF Claimable
<1>7. CountIsHonest'
  <2>1. \A l \in Tasks : iteration[l] <= Claimable(l) BY DEF CountIsHonest, Claimable
  <2>2. ASSUME NEW l \in Tasks PROVE iteration'[l] <= Claimable(l)'
    <3>1. CASE l = target[t]
      <4>1. iteration'[l] = seen[t] + 1 BY <3>1 DEF IInv, TypeOK
      <4>2. seen[t] <= Claimable(l) BY <3>1
      <4> QED BY <1>4, <1>5, <1>6, <3>1, <4>1, <4>2
    <3>2. CASE l # target[t]
      <4>1. iteration'[l] = iteration[l] BY <3>2 DEF IInv, TypeOK
      <4> QED BY <1>4, <1>5, <2>1, <4>1
    <3> QED BY <3>1, <3>2
  <2> QED BY <2>2 DEF CountIsHonest, Claimable
<1>8. \A u \in turned' : pc'[u] \in Counted BY <1>3 DEF Counted, IInv, TypeOK
<1>9. ASSUME NEW u \in Tasks, NEW l \in Tasks, pc'[u] = "turn.bump", target'[u] = l
      PROVE  seen'[u] <= Claimable(l)'
  <2>1. pc[u] = "turn.bump" /\ seen'[u] = seen[u] /\ target[u] = l
    BY <1>9 DEF IInv, TypeOK
  <2> QED BY <1>4, <1>5, <2>1
<1> QED BY <1>3, <1>7, <1>8, <1>9

(* The count a turn reads is one the loop may claim.                        *)
LEMMA CheckReadsClaimable ==
    ASSUME IInv, TurnsInv, NEW t \in Tasks, TurnCheck(t)
    PROVE  TurnsInv'
<1> USE DEF TurnsInv, TurnCheck, At, Goto, db
<1>1. UNCHANGED <<iteration, turned, target, op>> OBVIOUS
<1>2. \A l : Claimable(l)' = Claimable(l) BY <1>1 DEF Claimable, TurnsOf
<1>3. CountIsHonest' BY <1>1 DEF CountIsHonest, TurnsOf
<1>4. \A u \in turned' : pc'[u] \in Counted BY DEF Counted, IInv, TypeOK
<1>5. ASSUME NEW u \in Tasks, NEW l \in Tasks, pc'[u] = "turn.bump", target'[u] = l
      PROVE  seen'[u] <= Claimable(l)'
  <2>1. CASE u = t
    <3>1. seen'[u] = iteration[l] BY <1>5, <2>1 DEF IInv, TypeOK
    <3>2. iteration[l] <= Claimable(l) BY DEF CountIsHonest, Claimable
    <3> QED BY <1>2, <3>1, <3>2
  <2>2. CASE u # t
    <3>1. pc[u] = "turn.bump" /\ seen'[u] = seen[u] /\ target[u] = l
      BY <1>1, <1>5, <2>2 DEF IInv, TypeOK
    <3> QED BY <1>2, <3>1
  <2> QED BY <2>1, <2>2
<1> QED BY <1>1, <1>3, <1>4, <1>5

(* A reflection row starts with a count of one.                             *)
LEMMA ReflectionCounts ==
    ASSUME IInv, TurnsInv, NEW t \in Tasks, ReflectStart(t)
    PROVE  TurnsInv'
<1> USE DEF TurnsInv, ReflectStart, At, Goto
<1>1. op[t] = "close" BY DEF IInv, TasksInv, ClosingPc
<1>2. UNCHANGED <<turned, target, op, seen>> OBVIOUS
<1>3. \A l : Claimable(l)' = Claimable(l) BY <1>2 DEF Claimable, TurnsOf
<1>4. ASSUME NEW l \in Tasks PROVE iteration'[l] <= Claimable(l)
  <2>1. CASE l = t
    <3>1. TurnsOf(l) \subseteq turned BY DEF TurnsOf
    <3>2. Cardinality(TurnsOf(l)) \in Nat BY <3>1, FS_Subset, FS_CardinalityType
    <3> QED BY <1>1, <2>1, <3>2 DEF Claimable, IInv, TypeOK
  <2>2. CASE l # t BY <2>2 DEF CountIsHonest, Claimable, IInv, TypeOK
  <2> QED BY <2>1, <2>2
<1>5. CountIsHonest' BY <1>3, <1>4 DEF CountIsHonest, Claimable
<1>6. \A u \in turned' : pc'[u] \in Counted BY DEF Counted, IInv, TypeOK
<1>7. ASSUME NEW u \in Tasks, NEW l \in Tasks, pc'[u] = "turn.bump", target'[u] = l
      PROVE  seen'[u] <= Claimable(l)'
  <2>1. pc[u] = "turn.bump" /\ target[u] = l BY <1>2, <1>7 DEF IInv, TypeOK
  <2> QED BY <1>2, <1>3, <2>1
<1> QED BY <1>2, <1>5, <1>6, <1>7

(* Every step keeps TurnsInv.                                               *)
LEMMA TurnsInvKept == IInv /\ TurnsInv /\ [Next]_vars => TurnsInv'
<1> SUFFICES ASSUME IInv, TurnsInv, [Next]_vars PROVE TurnsInv' OBVIOUS
<1> USE DEF At, Goto, db, requests, process, watchdog
<1>1. ASSUME NEW t \in Tasks, Arrive(t) PROVE TurnsInv'
  <2>1. /\ pc[t] = "idle" /\ op[t] = "none" /\ t \notin turned
    BY <1>1 DEF Arrive, Start, Input, Reject, Close, Request, TurnsInv, Counted, IInv, TasksInv
  <2>2. /\ UNCHANGED <<iteration, turned, seen, target>>
        /\ \E there \in {"start.init", "input.loop", "reject.update", "close.loop", "done"} :
              pc' = [pc EXCEPT ![t] = there]
        /\ \E o \in Ops : op' = [op EXCEPT ![t] = o]
    BY <1>1 DEF Arrive, Start, Input, Reject, Close, Request, Ops
  <2>3. \A u \in turned : pc'[u] \in Counted BY <2>1, <2>2 DEF TurnsInv
  <2>4. \A u \in Tasks : pc'[u] = "turn.bump" => pc[u] = "turn.bump" BY <2>2 DEF IInv, TypeOK
  <2>5. \A l \in Tasks : op[l] = "close" => op'[l] = "close" BY <2>1, <2>2 DEF IInv, TypeOK
  <2> QED BY <2>2, <2>3, <2>4, <2>5, OthersCountNothing
<1>2. ASSUME NEW t \in Tasks, InputLoop(t) \/ CloseLoop(t) PROVE TurnsInv'
  <2>1. t \notin turned BY <1>2 DEF InputLoop, CloseLoop, LookUpLoop, TurnsInv, Counted
  <2>2. /\ UNCHANGED <<iteration, turned, seen, op>>
        /\ \A u \in Tasks \ {t} : pc'[u] = pc[u] /\ target'[u] = target[u]
        /\ pc'[t] # "turn.bump"
    BY <1>2 DEF InputLoop, CloseLoop, LookUpLoop, IInv, TypeOK
  <2>3. turned \subseteq Tasks BY DEF IInv, TypeOK
  <2> QED BY <2>1, <2>2, <2>3, OthersCountNothing DEF TurnsInv
<1>3. ASSUME NEW t \in Tasks,
             \/ StartInit(t) \/ StartGoal(t) \/ TurnAgent(t) \/ TurnEscalate(t) \/ InputEscalate(t)
             \/ RejectUpdate(t) \/ CloseComplete(t) \/ CloseTree(t) \/ CloseKill(t)
             \/ CloseSession(t) \/ CloseSummary(t) \/ ReflectEnd(t) \/ Fail(t)
      PROVE  TurnsInv'
  <2>1. /\ UNCHANGED <<iteration, turned, seen, target, op>>
        /\ \E there \in {"start.goal", "done", "turn.escalate", "input.escalate", "close.tree",
                         "close.kill", "close.session", "close.summary", "reflect.start"} :
              pc' = [pc EXCEPT ![t] = there]
        /\ t \in turned => pc'[t] \in Counted
    BY <1>3 DEF StartInit, StartGoal, TurnAgent, TurnEscalate, InputEscalate, WriteNotice,
                RejectUpdate, CloseComplete, CloseTree, CloseKill, CloseSession, CloseSummary,
                ReflectEnd, Fail, TurnsInv, Counted, IInv, TypeOK
  <2>2. \A u \in turned : pc'[u] \in Counted BY <2>1 DEF TurnsInv
  <2>3. \A u \in Tasks : pc'[u] = "turn.bump" => pc[u] = "turn.bump" BY <2>1 DEF IInv, TypeOK
  <2> QED BY <2>1, <2>2, <2>3, OthersCountNothing
<1>4. ASSUME \/ \E l \in Tasks : Expire(l)
             \/ Watchdog \/ Restart \/ UNCHANGED vars
      PROVE  TurnsInv'
  <2>1. UNCHANGED <<iteration, turned, seen, target, op, pc>>
    BY <1>4 DEF Expire, Watchdog, WatchScan, WatchTerminate, WatchCollide, WatchLoopsDone,
                WatchClean, Restart, vars
  <2> QED BY <2>1, OthersCountNothing DEF TurnsInv
<1>5. CASE Crash
  <2>1. UNCHANGED <<iteration, turned, seen, target, op>> BY <1>5 DEF Crash
  <2>2. \A u \in Tasks : pc'[u] = pc[u] \/ pc'[u] = "done" BY <1>5 DEF Crash
  <2>3. turned \subseteq Tasks BY DEF IInv, TypeOK
  <2>4. \A u \in turned : pc'[u] \in Counted BY <2>2, <2>3 DEF TurnsInv, Counted
  <2> QED BY <2>1, <2>2, <2>4, OthersCountNothing
<1> QED BY <1>1, <1>2, <1>3, <1>4, <1>5, TurnCounts, CheckReadsClaimable, ReflectionCounts
        DEF Next, Advance

(* iteration_count never claims a turn that did not run (execute_turn's     *)
(* read and write of it, a reflection row's first count).                   *)
THEOREM CountIsHonestHolds == Spec => []CountIsHonest
<1>1. Init => TurnsInv
  <2> SUFFICES ASSUME Init PROVE TurnsInv OBVIOUS
  <2>1. \A l : TurnsOf(l) = {} BY DEF Init, TurnsOf
  <2> QED BY <2>1, FS_EmptySet DEF Init, TurnsInv, CountIsHonest
<1>2. TurnsInv => CountIsHonest BY DEF TurnsInv
<1> QED BY <1>1, <1>2, TurnsInvKept, InductiveInvariant, PTL DEF Spec

-----------------------------------------------------------------------------
(* Only Start and CloseSession write a session's status, and neither        *)
(* reopens one; the writers of a loop's status never write RUNNING to a row *)
(* that exists.                                                             *)
LEMMA OverStaysOver ==
    ASSUME IInv, [Next]_vars
    PROVE  /\ \A l \in Tasks : loopStatus[l] \in Terminal => loopStatus'[l] \in Terminal
           /\ \A s \in Tasks : sessionStatus[s] = "closed" => sessionStatus'[s] = "closed"
<1>0. TypeOK /\ TasksInv /\ LoopsInv BY DEF IInv
<1> USE <1>0
<1>1. ASSUME NEW t \in Tasks, Start(t)
      PROVE  /\ loopStatus' = loopStatus
             /\ \A s \in Tasks : sessionStatus[s] = "closed" => sessionStatus'[s] = "closed"
  BY <1>1 DEF Start, At, TypeOK, TasksInv
<1>2. ASSUME NEW t \in Tasks, CloseSession(t)
      PROVE  /\ loopStatus' = loopStatus
             /\ \A s \in Tasks : sessionStatus[s] = "closed" => sessionStatus'[s] = "closed"
  BY <1>2 DEF CloseSession, At, TypeOK
<1>3. ASSUME NEW t \in Tasks, StartGoal(t) \/ ReflectStart(t)
      PROVE  /\ sessionStatus' = sessionStatus
             /\ \A l \in Tasks : loopStatus[l] \in Terminal => loopStatus'[l] \in Terminal
  <2>1. loopStatus[t] = "absent" BY <1>3 DEF StartGoal, ReflectStart, At, LoopsInv, InFlight
  <2> QED BY <1>3, <2>1 DEF StartGoal, ReflectStart, TypeOK, Terminal
<1>4. ASSUME NEW t \in Tasks, CloseComplete(t) \/ CloseKill(t) \/ ReflectEnd(t)
      PROVE  /\ sessionStatus' = sessionStatus
             /\ \A l \in Tasks : loopStatus[l] \in Terminal => loopStatus'[l] \in Terminal
  BY <1>4 DEF CloseComplete, CloseKill, ReflectEnd, TypeOK, Terminal
<1>5. ASSUME NEW l \in Tasks, WatchTerminate(l)
      PROVE  /\ sessionStatus' = sessionStatus
             /\ \A m \in Tasks : loopStatus[m] \in Terminal => loopStatus'[m] \in Terminal
  BY <1>5 DEF WatchTerminate, TypeOK, Terminal
<1>6. ASSUME NEW t \in Tasks,
             \/ \E s \in Tasks : Input(t, s) \/ Reject(t, s) \/ Close(t, s)
             \/ StartInit(t) \/ InputLoop(t) \/ TurnCheck(t) \/ TurnBump(t) \/ TurnAgent(t)
             \/ TurnEscalate(t) \/ InputEscalate(t) \/ RejectUpdate(t) \/ CloseLoop(t)
             \/ CloseTree(t) \/ CloseSummary(t) \/ Fail(t) \/ Expire(t) \/ WatchCollide(t)
      PROVE  UNCHANGED <<sessionStatus, loopStatus>>
  BY <1>6 DEF Input, Reject, Close, Request, StartInit, InputLoop, LookUpLoop, TurnCheck, TurnBump,
              TurnAgent, TurnEscalate, InputEscalate, WriteNotice, RejectUpdate, CloseLoop,
              CloseTree, CloseSummary, Fail, Expire, WatchCollide, db
<1>7. ASSUME WatchScan \/ WatchLoopsDone \/ WatchClean \/ Crash \/ Restart \/ UNCHANGED vars
      PROVE  UNCHANGED <<sessionStatus, loopStatus>>
  BY <1>7 DEF WatchScan, WatchLoopsDone, WatchClean, Crash, Restart, vars, db
<1> QED BY <1>1, <1>2, <1>3, <1>4, <1>5, <1>6, <1>7 DEF Next, Arrive, Advance, Watchdog

(* No step brings a finished loop or a closed session back.                 *)
THEOREM OverIsOverHolds == Spec => OverIsOver
<1>1. IInv /\ [Next]_vars =>
        [/\ \A l \in Tasks : loopStatus[l] \in Terminal => loopStatus'[l] \in Terminal
         /\ \A s \in Tasks : sessionStatus[s] = "closed" => sessionStatus'[s] = "closed"]_vars
  BY OverStaysOver
<1> QED BY <1>1, InductiveInvariant, PTL DEF Spec, OverIsOver

-----------------------------------------------------------------------------
(* Each step of the session loops is a step of the contract or leaves its   *)
(* variables alone.                                                         *)
(* StartGoal spawns the session's goal loop.                                *)
LEMMA StartGoalSimulates ==
    ASSUME NEW t \in Tasks, IInv, StartGoal(t)
    PROVE  Contract!Spawn(t, t)
<1> USE NoneAssumption DEF IInv, StartGoal, At, Goto, db, requests, process, watchdog
<1>1. loopStatus[t] = "absent" BY DEF LoopsInv, InFlight
<1>2. sess[t] = t BY DEF TasksInv, StartPc
<1> QED BY <1>1, <1>2 DEF TypeOK, Contract!Spawn, Phase

(* ReflectStart spawns a reflection loop for the session it closed.         *)
LEMMA ReflectStartSimulates ==
    ASSUME NEW t \in Tasks, IInv, ReflectStart(t)
    PROVE  \E s \in Tasks : Contract!Spawn(t, s)
<1> USE NoneAssumption DEF IInv, ReflectStart, At, Goto, db, requests, process, watchdog
<1>1. loopStatus[t] = "absent" BY DEF LoopsInv, InFlight
<1>2. sess[t] \in Tasks BY DEF TypeOK, TasksInv, ClosingPc
<1> QED BY <1>1, <1>2 DEF TypeOK, Contract!Spawn, Phase

(* GoalLoop.complete ends the loop that was looked up.                      *)
LEMMA CloseCompleteSimulates ==
    ASSUME NEW t \in Tasks, IInv, CloseComplete(t)
    PROVE  Contract!End({target[t]})
<1> USE NoneAssumption DEF IInv, CloseComplete, At, Goto, db, requests, process, watchdog
<1>1. target[t] \in Tasks /\ loopStatus[target[t]] # "absent" BY DEF TargetInv, TypeOK, ClosingPc
<1> QED BY <1>1 DEF TypeOK, Contract!End, Phase

(* terminate_active_tree ends the rows it selected.                         *)
LEMMA CloseKillSimulates ==
    ASSUME NEW t \in Tasks, IInv, CloseKill(t)
    PROVE  Contract!End(doomed[t])
<1> USE NoneAssumption DEF IInv, CloseKill, At, Goto, db, requests, process, watchdog
<1>1. \A l \in doomed[t] : l \in Tasks /\ loopStatus[l] # "absent" BY DEF TargetInv, TypeOK
<1> QED BY <1>1 DEF TypeOK, Contract!End, Phase

(* The reflection loop ends by itself.                                      *)
LEMMA ReflectEndSimulates ==
    ASSUME NEW t \in Tasks, IInv, ReflectEnd(t)
    PROVE  Contract!End({t})
<1> USE DEF IInv, ReflectEnd, At, Goto, db, requests, process, watchdog
<1>1. loopStatus[t] # "absent" BY DEF LoopsInv
<1> QED BY <1>1 DEF TypeOK, Contract!End, Phase

(* A forced termination is the contract's: the loop had no alert and its    *)
(* session none pending.                                                    *)
LEMMA WatchTerminateSimulates ==
    ASSUME NEW l \in Tasks, IInv, WatchTerminate(l)
    PROVE  Contract!Force(l)
<1> USE NoneAssumption DEF IInv, WatchTerminate, requests, process
<1>1. loopStatus[l] # "absent" /\ alert[l] = "none" BY DEF BatchInv
<1>2. sess[l] \in Tasks BY <1>1 DEF TypeOK, TasksInv, Ops
<1>3. ASSUME NEW m \in Tasks, loopStatus[m] # "absent", sess[m] = sess[l]
      PROVE  alert[m] # "pending"
  BY <1>3 DEF AlertOpen
<1> QED BY <1>1, <1>2, <1>3 DEF TypeOK, Contract!Force, Phase, AlertOpen

(* A rejection clears the alerts of its session.                            *)
LEMMA RejectUpdateSimulates ==
    ASSUME NEW t \in Tasks, IInv, RejectUpdate(t)
    PROVE  Contract!Clear(sess[t]) /\ sess[t] \in Tasks
<1> USE NoneAssumption DEF IInv, RejectUpdate, At, Goto, db, requests, process, watchdog
<1>1. sess[t] \in Tasks BY DEF TasksInv, TypeOK
<1>2. \A l \in Tasks : loopStatus[l] = "absent" => alert[l] # "pending" BY DEF AlertedLoopsAreOver, Terminal
<1> QED BY <1>1, <1>2 DEF TypeOK, Contract!Clear, Phase, Resolved

(* An arriving task has no row yet, so its session does not show.           *)
LEMMA ArrivalStutters ==
    ASSUME NEW t \in Tasks, IInv, Arrive(t)
    PROVE  UNCHANGED Contract!vars
<1> USE DEF IInv
<1>1. At(t, "idle") /\ UNCHANGED <<loopStatus, alert>> /\ \E s \in Tasks : sess' = [sess EXCEPT ![t] = s]
  BY DEF Arrive, Start, Input, Reject, Close, Request, db
<1>2. loopStatus[t] = "absent" BY <1>1 DEF At, TasksInv
<1> QED BY <1>1, <1>2 DEF TypeOK, Contract!vars

(* The contract sees loop status, session and alert only.                   *)
LEMMA OthersStutter ==
    ASSUME UNCHANGED <<loopStatus, sess, alert>>
    PROVE  UNCHANGED Contract!vars
BY DEF Contract!vars

(* Every step maps to a step of the contract or to a stutter.               *)
LEMMA StepSimulates ==
    ASSUME IInv, [Next]_vars
    PROVE  [Contract!Next]_(Contract!vars)
<1>1. ASSUME NEW t \in Tasks, Arrive(t) PROVE UNCHANGED Contract!vars
  BY <1>1, ArrivalStutters
<1>2. ASSUME NEW t \in Tasks, Advance(t) PROVE Contract!Next \/ UNCHANGED Contract!vars
  <2>1. CASE StartGoal(t)
    <3>1. Contract!Spawn(t, t) BY <2>1, StartGoalSimulates
    <3> QED BY <3>1 DEF Contract!Next
  <2>2. CASE CloseComplete(t)
    <3>1. {target[t]} \in SUBSET Tasks
      BY <2>2, NoneAssumption DEF IInv, CloseComplete, At, TargetInv, TypeOK, ClosingPc
    <3> QED BY <2>2, <3>1, CloseCompleteSimulates DEF Contract!Next
  <2>3. CASE CloseKill(t) BY <2>3, CloseKillSimulates DEF Contract!Next, IInv, TypeOK
  <2>4. CASE ReflectStart(t)
    <3>1. PICK s \in Tasks : Contract!Spawn(t, s) BY <2>4, ReflectStartSimulates
    <3> QED BY <3>1 DEF Contract!Next
  <2>5. CASE ReflectEnd(t) BY <2>5, ReflectEndSimulates DEF Contract!Next
  <2>6. CASE RejectUpdate(t) BY <2>6, RejectUpdateSimulates DEF Contract!Next
  <2>7. ASSUME \/ StartInit(t) \/ InputLoop(t) \/ TurnCheck(t) \/ TurnBump(t) \/ TurnAgent(t)
               \/ TurnEscalate(t) \/ InputEscalate(t) \/ CloseLoop(t) \/ CloseTree(t)
               \/ CloseSession(t) \/ CloseSummary(t) \/ Fail(t)
        PROVE  UNCHANGED <<loopStatus, sess, alert>>
    BY <2>7 DEF StartInit, InputLoop, LookUpLoop, TurnCheck, TurnBump, TurnAgent, TurnEscalate,
                InputEscalate, WriteNotice, CloseLoop, CloseTree, CloseSession, CloseSummary, Fail, db
  <2> QED BY <1>2, <2>1, <2>2, <2>3, <2>4, <2>5, <2>6, <2>7, OthersStutter DEF Advance
<1>3. ASSUME NEW l \in Tasks, WatchTerminate(l) PROVE Contract!Next
  BY <1>3, WatchTerminateSimulates DEF Contract!Next
<1>4. ASSUME \/ \E l \in Tasks : Expire(l) \/ WatchCollide(l)
             \/ WatchScan \/ WatchLoopsDone \/ WatchClean \/ Crash \/ Restart \/ UNCHANGED vars
      PROVE  UNCHANGED <<loopStatus, sess, alert>>
  BY <1>4 DEF Expire, WatchCollide, WatchScan, WatchLoopsDone, WatchClean, Crash, Restart,
              vars, db, requests
<1> QED BY <1>1, <1>2, <1>3, <1>4, OthersStutter DEF Next, Watchdog

(* The initial states map to the contract's.                                *)
LEMMA InitSimulates == Init => Contract!Init
BY DEF Init, Contract!Init, Phase

(* The rows the session loops write obey the contract of LoopLifecycle:     *)
(* each loop is spawned once and never revived, and a forced end raises its *)
(* one alert while its session has none pending.                            *)
THEOREM ImplementsContract == Spec => ContractSpec
BY InitSimulates, StepSimulates, InductiveInvariant, PTL DEF Spec, ContractSpec, Contract!Spec
=============================================================================
