-------------------------- MODULE SynthesisProofs --------------------------
(***************************************************************************)
(* Proofs about Synthesis, for any requests, connections and pool size:    *)
(* although the lock may be left with an idle connection or released on    *)
(* the wrong one, two runs are never recorded at once.                     *)
(***************************************************************************)
EXTENDS Synthesis, TLAPS

-----------------------------------------------------------------------------
(* What the pool guarantees: the connection it hands out is nobody's.      *)
LEMMA CheckOutApart ==
    ASSUME NEW r \in Requests, NEW k \in Conns, IInv, conn[r] = None, CheckOut(r, k)
    PROVE  /\ idle' \in Seq(Conns)
           /\ conn' = [conn EXCEPT ![r] = k]
           /\ \A q \in Requests : conn[q] # k
           /\ ConnectionsApart'
<1> USE NoneAssumption DEF IInv, TypeOK, CheckOut
<1>1. \A q \in Requests : conn[q] # k
  <2>1. CASE idle # <<>>
    <3>1. k = idle[1] /\ 1 \in DOMAIN idle BY <2>1 DEF Available
    <3> QED BY <3>1 DEF ConnectionsApart
  <2>2. CASE idle = <<>> BY <2>2 DEF Available, Unopened, InUse
  <2> QED BY <2>1, <2>2
<1>2. idle' \in Seq(Conns) OBVIOUS
<1>3. \A i \in DOMAIN idle' : /\ i + 1 \in DOMAIN idle \/ idle = <<>>
                              /\ idle # <<>> => idle'[i] = idle[i + 1]
  OBVIOUS
<1>4. CASE idle # <<>>
  <2>1. k = idle[1] /\ 1 \in DOMAIN idle BY <1>4 DEF Available
  <2>2. \A i, j \in DOMAIN idle' : idle'[i] = idle'[j] => i = j
    <3>1. \A i \in DOMAIN idle' : i \in Nat BY <1>2
    <3> QED BY <1>3, <1>4, <3>1 DEF ConnectionsApart
  <2>3. \A i \in DOMAIN idle' : idle'[i] # k /\ \A q \in Requests : idle'[i] # conn[q]
    <3>1. \A i \in DOMAIN idle' : i \in Nat /\ i > 0 BY <1>2
    <3> QED BY <1>3, <1>4, <2>1, <3>1 DEF ConnectionsApart
  <2> QED BY <1>1, <1>2, <2>2, <2>3 DEF ConnectionsApart
<1>5. CASE idle = <<>> BY <1>1, <1>2, <1>5 DEF ConnectionsApart
<1> QED BY <1>1, <1>2, <1>4, <1>5

(* A returned connection is idle once or closed.                           *)
LEMMA ReturnApart ==
    ASSUME NEW r \in Requests, IInv, conn[r] # None, Return(r)
    PROVE  /\ idle' \in Seq(Conns)
           /\ conn' = [conn EXCEPT ![r] = None]
           /\ depth' \in [Conns -> Nat]
           /\ \A k \in Conns : depth'[k] = depth[k] \/ (k = conn[r] /\ depth'[k] = 0)
           /\ ConnectionsApart'
<1> USE NoneAssumption DEF IInv, TypeOK, Return
<1>1. conn[r] \in Conns OBVIOUS
<1>2. idle' \in Seq(Conns) /\ conn' = [conn EXCEPT ![r] = None]
  <2>1. conn' = [conn EXCEPT ![r] = None] OBVIOUS
  <2>2. Append(idle, conn[r]) \in Seq(Conns) BY <1>1
  <2>3. idle' \in {idle, Append(idle, conn[r])} OBVIOUS
  <2> QED BY <2>1, <2>2, <2>3
<1>3. depth' \in [Conns -> Nat]
  BY <1>1
<1>4. \A k \in Conns : depth'[k] = depth[k] \/ (k = conn[r] /\ depth'[k] = 0) BY <1>1
<1>5. ConnectionsApart'
  <2>1. \A i \in DOMAIN idle : idle[i] # conn[r] /\ idle[i] \in Conns
    BY DEF ConnectionsApart
  <2>2. CASE idle' = idle BY <1>1, <1>2, <2>1, <2>2 DEF ConnectionsApart
  <2>3. CASE idle' = Append(idle, conn[r])
    <3>1. /\ DOMAIN idle' = DOMAIN idle \cup {Len(idle) + 1}
          /\ idle'[Len(idle) + 1] = conn[r]
          /\ \A i \in DOMAIN idle : idle'[i] = idle[i] /\ i # Len(idle) + 1
      BY <1>1, <2>3
    <3>2. \A i, j \in DOMAIN idle' : idle'[i] = idle'[j] => i = j
      BY <2>1, <3>1 DEF ConnectionsApart
    <3>3. \A q \in Requests \ {r} : conn[q] # conn[r] BY DEF ConnectionsApart
    <3>4. \A i \in DOMAIN idle' : \A q \in Requests : idle'[i] # conn'[q]
      BY <1>1, <1>2, <2>1, <3>1, <3>3 DEF ConnectionsApart
    <3> QED BY <1>1, <1>2, <3>2, <3>4 DEF ConnectionsApart
  <2> QED BY <2>2, <2>3
<1> QED BY <1>2, <1>3, <1>4, <1>5

-----------------------------------------------------------------------------
(* Each action preserves the inductive invariant.                          *)

LEMMA EnterStep ==
    ASSUME NEW r \in Requests, NEW k \in Conns, IInv, Enter(r, k)
    PROVE  IInv'
<1> USE NoneAssumption, BoundsAssumption DEF IInv, TypeOK, Enter, Goto, nodes
<1>1. conn[r] = None BY DEF InTransaction, Calling
<1>2. /\ idle' \in Seq(Conns) /\ conn' = [conn EXCEPT ![r] = k]
      /\ \A q \in Requests : conn[q] # k
      /\ ConnectionsApart'
  BY <1>1, CheckOutApart
<1>3. TypeOK' BY <1>2 DEF InTransaction, Calling
<1>4. OneHolder' BY DEF OneHolder
<1>5. RecorderHolds' BY <1>2 DEF RecorderHolds
<1> QED BY <1>2, <1>3, <1>4, <1>5

(* The connection an unlock gets is not a recorder's.                      *)
LEMMA UnlockStep ==
    ASSUME NEW r \in Requests, NEW k \in Conns, IInv, Unlock(r, k)
    PROVE  IInv'
<1> USE NoneAssumption, BoundsAssumption DEF IInv, TypeOK, Unlock, Goto, nodes
<1>1. conn[r] = None BY DEF InTransaction, Calling
<1>2. /\ idle' \in Seq(Conns) /\ conn' = [conn EXCEPT ![r] = k]
      /\ \A q \in Requests : conn[q] # k
      /\ ConnectionsApart'
  BY <1>1, CheckOutApart
<1>3. depth' \in [Conns -> Nat] OBVIOUS
<1>4. \A l \in Conns : depth'[l] <= depth[l] /\ (l # k => depth'[l] = depth[l]) OBVIOUS
<1>5. TypeOK' BY <1>2, <1>3 DEF InTransaction, Calling
<1>6. OneHolder' BY <1>3, <1>4 DEF OneHolder
<1>7. RecorderHolds'
  <2>1. ASSUME NEW q \in Requests, pc'[q] = "record" PROVE depth'[conn'[q]] > 0
    <3>1. q # r /\ pc[q] = "record" BY <2>1
    <3>2. conn[q] \in Conns /\ conn'[q] = conn[q] /\ conn[q] # k
      BY <1>2, <3>1 DEF InTransaction, Calling
    <3> QED BY <1>4, <3>1, <3>2 DEF RecorderHolds
  <2> QED BY <2>1 DEF RecorderHolds
<1> QED BY <1>2, <1>5, <1>6, <1>7

(* Whoever returns a connection is on none afterwards.                     *)
LEMMA ReturnStep ==
    ASSUME NEW r \in Requests, IInv, Leave(r) \/ Record(r) \/ RecordFails(r)
    PROVE  IInv'
<1> USE NoneAssumption, BoundsAssumption DEF IInv, TypeOK, nodes
<1>0. Return(r) BY DEF Leave, Record, RecordFails
<1>1. conn[r] # None BY DEF Leave, Record, RecordFails, InTransaction, Calling
<1>2. /\ idle' \in Seq(Conns) /\ conn' = [conn EXCEPT ![r] = None]
      /\ depth' \in [Conns -> Nat]
      /\ \A k \in Conns : depth'[k] = depth[k] \/ (k = conn[r] /\ depth'[k] = 0)
      /\ ConnectionsApart'
  BY <1>0, <1>1, ReturnApart
<1>3. PICK l \in {"idle", "unlock"} : pc' = [pc EXCEPT ![r] = l]
  BY DEF Leave, Record, RecordFails, Goto
<1>4. UNCHANGED attempts /\ node' \in [Nodes -> {"absent", "open", "in"}]
        /\ after' \in SUBSET Nodes /\ counted' \in SUBSET Nodes
  BY DEF Leave, Record, RecordFails
<1>5. TypeOK' BY <1>2, <1>3, <1>4 DEF InTransaction, Calling
<1>6. OneHolder'
  <2>1. ASSUME NEW k \in Conns, depth'[k] > 0 PROVE depth[k] > 0
    <3>1. depth'[k] # 0 BY <2>1
    <3>2. depth'[k] = depth[k] BY <1>2, <3>1
    <3> QED BY <2>1, <3>2
  <2> QED BY <2>1 DEF OneHolder
<1>7. RecorderHolds'
  <2>1. ASSUME NEW q \in Requests, pc'[q] = "record" PROVE depth'[conn'[q]] > 0
    <3>1. q # r /\ pc[q] = "record" BY <1>3, <2>1
    <3>2. conn[q] \in Conns /\ conn'[q] = conn[q] /\ conn[q] # conn[r]
      BY <1>2, <3>1 DEF ConnectionsApart, InTransaction, Calling
    <3> QED BY <1>2, <3>1, <3>2 DEF RecorderHolds
  <2> QED BY <2>1 DEF RecorderHolds
<1> QED BY <1>2, <1>5, <1>6, <1>7

(* The lock is granted to nobody while another connection has it.          *)
LEMMA AttemptStep ==
    ASSUME NEW r \in Requests, IInv, Attempt(r)
    PROVE  IInv'
<1> USE NoneAssumption, BoundsAssumption DEF IInv, TypeOK, Attempt, Goto, nodes, pool
<1>1. conn[r] \in Conns BY DEF InTransaction, Calling
<1>2. TypeOK'
  <2>1. depth' \in [Conns -> Nat] BY <1>1
  <2>2. pc' \in {[pc EXCEPT ![r] = "record"], [pc EXCEPT ![r] = "busy"]} OBVIOUS
  <2>3. pc' \in [Requests -> {"idle", "unlock"} \cup InTransaction]
    BY <2>2 DEF InTransaction
  <2>4. \A q \in Requests : pc'[q] \in InTransaction <=> pc[q] \in InTransaction
    BY <2>2 DEF InTransaction
  <2>5. \A q \in Requests : conn'[q] # None <=> pc'[q] \in InTransaction BY <2>4
  <2>6. attempts' \in 0..MaxAttempts OBVIOUS
  <2> QED BY <2>1, <2>3, <2>5, <2>6
<1>3. ConnectionsApart' BY DEF ConnectionsApart
<1>4. CASE Granted(r)
  <2>1. depth' = [depth EXCEPT ![conn[r]] = @ + 1] /\ pc' = [pc EXCEPT ![r] = "record"]
    BY <1>4
  <2>2. \A k \in Conns \ {conn[r]} : depth'[k] = 0 BY <1>1, <1>4, <2>1 DEF Granted
  <2>3. \A k \in Conns : depth'[k] >= depth[k] BY <2>1
  <2>4. depth'[conn[r]] > 0 BY <1>1, <2>1
  <2>5. OneHolder'
    <3>1. ASSUME NEW k \in Conns, depth'[k] > 0 PROVE k = conn[r] BY <2>2, <3>1
    <3> QED BY <3>1 DEF OneHolder
  <2>6. RecorderHolds'
    <3>1. ASSUME NEW q \in Requests, q # r, pc'[q] = "record" PROVE depth'[conn[q]] > 0
      <4>1. pc[q] = "record" /\ conn[q] \in Conns BY <2>1, <3>1 DEF InTransaction, Calling
      <4>2. depth[conn[q]] \in Nat /\ depth'[conn[q]] \in Nat BY <1>2, <4>1
      <4> QED BY <2>3, <4>1, <4>2 DEF RecorderHolds
    <3> QED BY <2>4, <3>1 DEF RecorderHolds
  <2> QED BY <1>2, <1>3, <2>5, <2>6
<1>5. CASE ~Granted(r)
  <2>1. UNCHANGED depth /\ pc' = [pc EXCEPT ![r] = "busy"] BY <1>5
  <2>2. OneHolder' BY <2>1 DEF OneHolder
  <2>3. RecorderHolds' BY <2>1 DEF RecorderHolds
  <2> QED BY <1>2, <1>3, <2>2, <2>3
<1> QED BY <1>4, <1>5

(* The remaining steps touch neither connections nor locks.                *)
LEMMA OtherStep ==
    ASSUME IInv,
           \/ \E r \in Requests : Count(r) \/ Ask(r) \/ UnlockTimesOut(r)
           \/ \E n \in Nodes : BeginNode(n) \/ CommitNode(n)
    PROVE  IInv'
<1> USE NoneAssumption, BoundsAssumption
        DEF IInv, TypeOK, Goto, nodes, pool, ConnectionsApart, OneHolder, RecorderHolds,
            InTransaction, Calling
<1>1. ASSUME NEW r \in Requests, Count(r) PROVE IInv' BY <1>1 DEF Count
<1>2. ASSUME NEW r \in Requests, Ask(r) PROVE IInv' BY <1>2 DEF Ask
<1>3. ASSUME NEW r \in Requests, UnlockTimesOut(r) PROVE IInv' BY <1>3 DEF UnlockTimesOut
<1>4. ASSUME NEW n \in Nodes, BeginNode(n) PROVE IInv' BY <1>4 DEF BeginNode
<1>5. ASSUME NEW n \in Nodes, CommitNode(n) PROVE IInv' BY <1>5 DEF CommitNode
<1> QED BY <1>1, <1>2, <1>3, <1>4, <1>5

LEMMA Stutters ==
    ASSUME IInv, UNCHANGED vars
    PROVE  IInv'
BY DEF IInv, TypeOK, ConnectionsApart, OneHolder, RecorderHolds, InTransaction, Calling,
       vars, pool, nodes

(* The inductive invariant: connections serve one request each, one of     *)
(* them holds the lock, and whoever records a run is on it.                *)
THEOREM SynthesisInductiveInvariant == Spec => []IInv
<1>1. Init => IInv
  <2> SUFFICES ASSUME Init PROVE IInv OBVIOUS
  <2>1. TypeOK BY BoundsAssumption DEF Init, TypeOK, InTransaction, Calling
  <2>2. ConnectionsApart /\ OneHolder /\ RecorderHolds
    BY DEF Init, ConnectionsApart, OneHolder, RecorderHolds
  <2> QED BY <2>1, <2>2 DEF IInv
<1>2. IInv /\ [Next]_vars => IInv'
  BY EnterStep, UnlockStep, ReturnStep, AttemptStep, OtherStep, Stutters DEF Next
<1> QED BY <1>1, <1>2, PTL DEF Spec

(* Two synthesis runs are never in progress at once, although run_synthesis*)
(* may unlock on a connection that does not hold the lock.                 *)
THEOREM OneRunAtATimeHolds == Spec => []OneRunAtATime
<1>1. IInv => OneRunAtATime
  <2> SUFFICES ASSUME IInv, NEW r \in Requests, NEW q \in Requests,
                      pc[r] = "record", pc[q] = "record"
               PROVE  r = q
    BY DEF OneRunAtATime
  <2>1. conn[r] # None /\ conn[r] \in Conns /\ conn[q] \in Conns
    BY DEF IInv, TypeOK, InTransaction, Calling
  <2>2. conn[r] = conn[q] BY <2>1 DEF IInv, RecorderHolds, OneHolder
  <2> QED BY <2>1, <2>2 DEF IInv, ConnectionsApart
<1> QED BY <1>1, SynthesisInductiveInvariant, PTL
=============================================================================
