---------------------------- MODULE TrustProofs ----------------------------
(***************************************************************************)
(* Proofs about the trust ladder and the two records behind it.  For any   *)
(* number of advances and any bars no rung is skipped and an advance from  *)
(* the live stage takes effect.  For any skills, days and invocations no   *)
(* two trackers wait for each other and no skill is flagged without a      *)
(* cause.  For any decisions and confirmations no outcome is made up.      *)
(***************************************************************************)
EXTENDS TrustRecord, FiniteSetTheorems, WellFoundedInduction, TLAPS

Markers == [from : Stages, to : Stages, at : 0..MaxClock]

(* The greater the marker in the order of current_trust_stage, the smaller.*)
Age(m) == 4 * (MaxClock - m.at) + (Top - m.to)

LEMMA AgeType ==
    ASSUME NEW m \in Markers
    PROVE  Age(m) \in Nat
<1>1. m.to \in 0..3 /\ m.at \in 0..MaxClock BY DEF Markers, Stages
<1> QED BY <1>1, BoundsAssumption DEF Age, Top

LEMMA AgeOrder ==
    ASSUME NEW m \in Markers, NEW n \in Markers, ~(Age(n) < Age(m))
    PROVE  Later(m, n)
<1>1. m.to \in 0..3 /\ m.at \in 0..MaxClock BY DEF Markers, Stages
<1>2. n.to \in 0..3 /\ n.at \in 0..MaxClock BY DEF Markers, Stages
<1> QED BY <1>1, <1>2, BoundsAssumption DEF Age, Top, Later

(* Every non-empty set of naturals has a least element.                   *)
LEMMA LeastExists ==
    ASSUME NEW S, S \subseteq Nat, S # {}
    PROVE  \E x \in S : \A y \in S : x <= y
<1> DEFINE Less == {ss \in Nat \X Nat : ss[1] < ss[2]}
<1>1. IsWellFoundedOn(Less, Nat) BY NatLessThanWellFounded DEF OpToRel
<1>2. PICK x \in S : \A y \in S : <<y, x>> \notin Less
  <2> HIDE DEF Less
  <2> QED BY <1>1, WFMin
<1>3. ASSUME NEW y \in S PROVE x <= y
  <2>1. x \in Nat /\ y \in Nat OBVIOUS
  <2>2. ~ (y < x)
    <3>1. <<y, x>> \notin Less BY <1>2
    <3>2. <<y, x>> \in Nat \X Nat BY <2>1
    <3> QED BY <3>1, <3>2
  <2> QED BY <2>1, <2>2
<1> QED BY <1>3

(* The rows of the ladder have a newest one, so the stage is well defined. *)
LEMMA NewestExists ==
    ASSUME NEW rows, rows \subseteq Markers, rows # {}
    PROVE  \E m \in rows : \A n \in rows : Later(m, n)
<1> DEFINE ages == {Age(m) : m \in rows}
<1>1. ages \subseteq Nat BY AgeType
<1>2. ages # {} OBVIOUS
<1>4. PICK x \in ages : \A y \in ages : x <= y
  <2> HIDE DEF ages
  <2> QED BY <1>1, <1>2, LeastExists
<1>5. PICK m \in rows : x = Age(m) OBVIOUS
<1>6. \A n \in rows : ~ (Age(n) < Age(m)) BY <1>1, <1>4, <1>5, AgeType
<1> QED BY <1>5, <1>6, AgeOrder

(* The stage is the destination of a row that is later than all others.    *)
LEMMA StageIsNewest ==
    ASSUME NEW rows, rows \subseteq Markers, rows # {}
    PROVE  \E m \in rows : StageOf(rows) = m.to /\ \A n \in rows : Later(m, n)
<1>1. \E m \in rows : \A n \in rows : Later(m, n) BY NewestExists
<1> DEFINE top == CHOOSE m \in rows : \A n \in rows : Later(m, n)
<1>2. top \in rows /\ \A n \in rows : Later(top, n) BY <1>1
<1>3. StageOf(rows) = top.to BY DEF StageOf
<1> QED BY <1>2, <1>3

(* The stage is a rung, and one some row led to unless it is the default.  *)
LEMMA StageReached ==
    ASSUME TypeOK
    PROVE  /\ Stage \in Stages
           /\ Stage = Default \/ \E n \in markers : n.to = Stage
<1>1. CASE markers = {} BY <1>1 DEF Stage, StageOf, Default, Stages
<1>2. CASE markers # {}
  <2>1. markers \subseteq Markers BY DEF TypeOK, Markers
  <2>2. PICK m \in markers : StageOf(markers) = m.to BY <1>2, <2>1, StageIsNewest
  <2>3. m.to \in Stages BY <2>1 DEF Markers
  <2> QED BY <2>2, <2>3 DEF Stage
<1> QED BY <1>1, <1>2

-----------------------------------------------------------------------------
(* Each step preserves the inductive invariant.                            *)

(* What the rest of the system does leaves markers and rungs alone.        *)
LEMMA WorldStep ==
    ASSUME IInv, World
    PROVE  IInv'
<1> USE DEF IInv, TypeOK, advances
<1>1. UNCHANGED <<markers, clock, advances>>
  BY DEF World, CloseSession, Incident, Judge, SkillSucceeds, Degrade
<1>2. TypeOK'
  <2>1. ASSUME NEW s \in Sessions, CloseSession(s) PROVE TypeOK' BY <2>1 DEF CloseSession
  <2>2. ASSUME NEW s \in Sessions, Incident(s) PROVE TypeOK' BY <2>2 DEF Incident
  <2>3. ASSUME NEW p \in Pillars, Judge(p) PROVE TypeOK'
    <3>1. \E n \in 0..MaxConfirmed : confirmed' = [confirmed EXCEPT ![p] = n]
      BY <2>3 DEF Judge
    <3>2. confirmed' \in [Pillars -> 0..MaxConfirmed] BY <3>1
    <3> QED BY <2>3, <3>2 DEF Judge
  <2>4. ASSUME SkillSucceeds PROVE TypeOK'
    <3>1. okCalls + 1 \in 0..Bar.t1Calls BY <2>4, BarAssumption DEF SkillSucceeds
    <3> QED BY <2>4, <3>1 DEF SkillSucceeds
  <2>5. ASSUME Degrade PROVE TypeOK' BY <2>5 DEF Degrade
  <2> QED BY <2>1, <2>2, <2>3, <2>4, <2>5 DEF World
<1>3. LadderComplete' BY <1>1 DEF LadderComplete
<1>4. RungReached' BY <1>1 DEF RungReached
<1> QED BY <1>2, <1>3, <1>4

(* The row of an advance stands on the rung it read.                       *)
LEMMA InsertStep ==
    ASSUME NEW a \in Advances, IInv, Insert(a)
    PROVE  IInv'
<1> DEFINE marker == [from |-> rung[a], to |-> rung[a] + 1, at |-> began[a]]
<1> USE BoundsAssumption DEF IInv, TypeOK, record, Insert
<1>1. /\ rung[a] \in Stages /\ rung[a] < Top
      /\ rung[a] = Default \/ \E n \in markers : n.to = rung[a]
  BY DEF RungReached
<1>2. rung[a] + 1 \in Stages BY <1>1 DEF Stages, Top
<1>3. TypeOK' BY <1>1, <1>2
<1>4. markers' = markers \cup {marker} OBVIOUS
<1>5. LadderComplete' BY <1>1, <1>4 DEF LadderComplete
<1>6. RungReached' BY <1>4 DEF RungReached
<1> QED BY <1>3, <1>5, <1>6

(* An advance reads its rung where the ladder stands.                      *)
LEMMA ReadStageStep ==
    ASSUME NEW a \in Advances, IInv, ReadStage(a)
    PROVE  IInv'
<1> USE DEF IInv, TypeOK, record, ReadStage
<1>1. Stage \in Stages /\ (Stage = Default \/ \E n \in markers : n.to = Stage)
  BY StageReached
<1>2. Stage # Top => Stage < Top BY <1>1 DEF Stages, Top
<1>3. TypeOK' BY <1>1
<1>4. LadderComplete' BY DEF LadderComplete
<1>5. RungReached' BY <1>1, <1>2 DEF RungReached
<1> QED BY <1>3, <1>4, <1>5

(* The other steps of an advance move its pc only, or fix its timestamp.   *)
LEMMA AdvanceStep ==
    ASSUME NEW a \in Advances, IInv, Advance(a)
    PROVE  IInv'
<1> USE BoundsAssumption DEF IInv, TypeOK, record, LadderComplete, RungReached
<1>1. CASE Begin(a) BY <1>1 DEF Begin
<1>2. CASE ReadStage(a) BY <1>2, ReadStageStep
<1>3. CASE CheckStage(a) BY <1>3 DEF CheckStage
<1>4. CASE Weigh(a) BY <1>4 DEF Weigh
<1>5. CASE Insert(a) BY <1>5, InsertStep
<1>6. CASE Fail(a) BY <1>6 DEF Fail
<1> QED BY <1>1, <1>2, <1>3, <1>4, <1>5, <1>6 DEF Advance

LEMMA Stutters ==
    ASSUME IInv, UNCHANGED vars
    PROVE  IInv'
BY DEF IInv, TypeOK, LadderComplete, RungReached, vars, record, advances

(* The inductive invariant: every row of trust_maturity stands on a row to *)
(* the rung below it, however many advances race (execute_trust_advance).  *)
THEOREM TrustInductiveInvariant == Spec => []IInv
<1>1. Init => IInv
  <2> SUFFICES ASSUME Init PROVE IInv OBVIOUS
  <2>1. Bar.t1Calls \in Nat BY BarAssumption
  <2>2. closed \in Seq(Sessions) BY DEF Init
  <2>3. TypeOK
    <3>1. 0 \in 0..Bar.t1Calls /\ 0 \in 0..MaxConfirmed /\ 0 \in 0..MaxClock /\ 0 \in Stages
      BY <2>1, BoundsAssumption DEF Stages
    <3>2. markers \in SUBSET [from : Stages, to : Stages, at : 0..MaxClock] BY DEF Init
    <3> QED BY <2>2, <3>1, <3>2 DEF Init, TypeOK
  <2>4. LadderComplete /\ RungReached BY DEF Init, LadderComplete, RungReached
  <2> QED BY <2>3, <2>4 DEF IInv
<1>2. IInv /\ [Next]_vars => IInv'
  BY WorldStep, AdvanceStep, Stutters DEF Next
<1> QED BY <1>1, <1>2, PTL DEF Spec

(* Type correctness of the trust ladder.                                   *)
THEOREM TrustTypeCorrect == Spec => []TypeOK
<1>1. IInv => TypeOK BY DEF IInv
<1> QED BY <1>1, TrustInductiveInvariant, PTL

(* No rung is skipped on the way up (execute_trust_advance).               *)
THEOREM LadderCompleteHolds == Spec => []LadderComplete
<1>1. IInv => LadderComplete BY DEF IInv
<1> QED BY <1>1, TrustInductiveInvariant, PTL

-----------------------------------------------------------------------------
(* An advance from the live stage, no older than the rows it sees, is the  *)
(* newest row afterwards: equal timestamps are broken upward.              *)
LEMMA InsertCounts ==
    ASSUME IInv, IInv', NEW a \in Advances, Insert(a), Stage = rung[a],
           \A m \in markers : m.at <= began[a]
    PROVE  Stage' = rung[a] + 1
<1> DEFINE marker == [from |-> rung[a], to |-> rung[a] + 1, at |-> began[a]]
<1>1. markers' = markers \cup {marker} BY DEF Insert
<1>2. PICK n \in markers' : StageOf(markers') = n.to /\ \A m \in markers' : Later(n, m)
  <2>1. markers' \subseteq Markers /\ markers' # {} BY <1>1 DEF IInv, TypeOK, Markers
  <2> QED BY <2>1, StageIsNewest
<1>3. CASE n = marker BY <1>2, <1>3 DEF Stage
<1>4. CASE n \in markers
  <2>0. markers \subseteq Markers BY DEF IInv, TypeOK, Markers
  <2>1. /\ n.at \in Nat /\ n.to \in Nat /\ rung[a] \in Nat /\ began[a] \in Nat
    <3>1. n.at \in 0..MaxClock /\ n.to \in 0..3 BY <1>4, <2>0 DEF Markers, Stages
    <3>2. rung[a] \in 0..3 /\ began[a] \in 0..MaxClock BY DEF IInv, TypeOK, Stages
    <3> QED BY <3>1, <3>2, BoundsAssumption
  <2>2. Later(n, marker) BY <1>1, <1>2 DEF Later
  <2>3. n.at = began[a] /\ n.to > rung[a] BY <1>4, <2>1, <2>2 DEF Later
  <2>4. PICK m \in markers : Stage = m.to /\ \A k \in markers : Later(m, k)
    BY <1>4, <2>0, StageIsNewest DEF Stage
  <2>5. m.at \in Nat /\ m.to \in Nat
    <3>1. m.at \in 0..MaxClock /\ m.to \in 0..3 BY <2>0, <2>4 DEF Markers, Stages
    <3> QED BY <3>1, BoundsAssumption
  <2>6. Later(m, n) BY <1>4, <2>4
  <2> QED BY <2>1, <2>3, <2>4, <2>5, <2>6 DEF Later
<1> QED BY <1>1, <1>2, <1>3, <1>4

(* An advance made from the live stage takes effect, whatever else happens *)
(* in the same instant (current_trust_stage).                              *)
THEOREM AdvanceCountsHolds == Spec => AdvanceCounts
<1>1. ASSUME IInv, IInv', [Next]_vars, NEW a \in Advances, pc[a] = "insert", pc'[a] = "done",
             Stage = rung[a], \A m \in markers : m.at <= began[a]
      PROVE  Stage' = rung[a] + 1
  <2>1. Insert(a)
    <3>1. Next BY <1>1 DEF vars, advances
    <3>2. ASSUME World PROVE FALSE
      <4>1. UNCHANGED pc
        BY <3>2 DEF World, CloseSession, Incident, Judge, SkillSucceeds, Degrade, advances
      <4> QED BY <1>1, <4>1
    <3>3. PICK b \in Advances : Advance(b) BY <3>1, <3>2 DEF Next
    <3>4. b = a
      BY <1>1, <3>3 DEF Advance, Begin, ReadStage, CheckStage, Weigh, Insert, Fail, IInv, TypeOK
    <3> QED
      BY <1>1, <3>3, <3>4 DEF Advance, Begin, ReadStage, CheckStage, Weigh, Fail, IInv, TypeOK
  <2> QED BY <1>1, <2>1, InsertCounts
<1>2. IInv /\ IInv' /\ [Next]_vars
        => [\A a \in Advances :
              pc[a] = "insert" /\ pc'[a] = "done" /\ Stage = rung[a]
                 /\ (\A m \in markers : m.at <= began[a])
              => Stage' = rung[a] + 1]_vars
  BY <1>1
<1> QED BY <1>2, TrustInductiveInvariant, PTL DEF Spec, AdvanceCounts

-----------------------------------------------------------------------------
(* Sums over finite sets, as MapThenSumSet folds them.                     *)
Any(s) == CHOOSE x \in s : TRUE
SumStep(f, g, s) == IF s = {} THEN 0 ELSE f[Any(s)] + g[s \ {Any(s)}]
IsSum(g, f, T) == g = [s \in SUBSET T |-> SumStep(f, g, s)]

LEMMA OneLess ==
    ASSUME NEW T, IsFiniteSet(T), NEW s \in SUBSET T, s # {}
    PROVE  /\ Any(s) \in s /\ s \ {Any(s)} \in SUBSET T
           /\ Cardinality(s) \in Nat /\ Cardinality(s \ {Any(s)}) = Cardinality(s) - 1
           /\ Cardinality(s \ {Any(s)}) \in Nat
<1>1. Any(s) \in s BY DEF Any
<1>2. IsFiniteSet(s) BY FS_Subset
<1> QED BY <1>1, <1>2, FS_RemoveElement, FS_CardinalityType

(* The fold's recursion has a solution: one for the sets of n elements     *)
(* extends to those of n + 1.                                              *)
LEMMA SumExists ==
    ASSUME NEW T, IsFiniteSet(T), NEW f
    PROVE  \E g : IsSum(g, f, T)
<1> DEFINE Small(n) == {s \in SUBSET T : Cardinality(s) <= n}
           Solves(g, n) == g = [s \in Small(n) |-> SumStep(f, g, s)]
           unsolved == {n \in Nat : \A g : ~ Solves(g, n)}
<1>1. ASSUME NEW n \in Nat, NEW g, Solves(g, n) PROVE \E h : Solves(h, n + 1)
  <2> DEFINE h == [s \in Small(n + 1) |-> SumStep(f, g, s)]
  <2>1. ASSUME NEW s \in Small(n + 1) PROVE SumStep(f, g, s) = SumStep(f, h, s)
    <3>1. CASE s = {} BY <3>1 DEF SumStep
    <3>2. CASE s # {}
      <4>1. s \ {Any(s)} \in Small(n) /\ s \ {Any(s)} \in Small(n + 1) BY <3>2, OneLess
      <4>2. g[s \ {Any(s)}] = SumStep(f, g, s \ {Any(s)})
        <5> HIDE DEF Small
        <5> QED BY <1>1, <4>1
      <4>3. h[s \ {Any(s)}] = SumStep(f, g, s \ {Any(s)}) BY <4>1
      <4> HIDE DEF h
      <4> QED BY <3>2, <4>2, <4>3 DEF SumStep
    <3> QED BY <3>1, <3>2
  <2>2. Solves(h, n + 1)
    <3>1. h = [s \in Small(n + 1) |-> SumStep(f, h, s)]
      <4> HIDE DEF Small
      <4> QED BY <2>1
    <3> QED BY <3>1
  <2> HIDE DEF h, Solves
  <2> QED BY <2>2
<1>2. 0 \notin unsolved
  <2> DEFINE h == [s \in Small(0) |-> 0]
  <2>1. ASSUME NEW s \in Small(0) PROVE SumStep(f, h, s) = 0
    <3>1. s = {}
      <4>1. s \in SUBSET T /\ Cardinality(s) <= 0 OBVIOUS
      <4>2. ASSUME s # {} PROVE Cardinality(s) \in Nat /\ Cardinality(s) - 1 \in Nat
        BY <4>1, <4>2, OneLess
      <4> QED BY <4>1, <4>2
    <3> QED BY <3>1 DEF SumStep
  <2>2. Solves(h, 0) BY <2>1
  <2> HIDE DEF Solves, h
  <2> QED BY <2>2
<1>3. unsolved = {}
  <2> SUFFICES ASSUME unsolved # {} PROVE FALSE OBVIOUS
  <2>1. PICK n \in unsolved : \A m \in unsolved : n <= m
    <3> HIDE DEF Solves
    <3> QED BY LeastExists
  <2>2. n # 0 BY <1>2
  <2>3. n \in Nat /\ n - 1 \in Nat /\ n - 1 \notin unsolved BY <2>1, <2>2
  <2>4. PICK g : Solves(g, n - 1)
    <3> HIDE DEF Solves
    <3> QED BY <2>3
  <2>5. \E h : Solves(h, (n - 1) + 1)
    <3> HIDE DEF Solves
    <3> QED BY <1>1, <2>3, <2>4
  <2>6. (n - 1) + 1 = n BY <2>3
  <2> HIDE DEF Solves
  <2> QED BY <2>1, <2>5, <2>6
<1>4. Cardinality(T) \in Nat BY FS_CardinalityType
<1>5. Small(Cardinality(T)) = SUBSET T BY FS_Subset
<1>6. PICK g : Solves(g, Cardinality(T))
  <2> HIDE DEF Solves
  <2> QED BY <1>3, <1>4
<1>7. IsSum(g, f, T) BY <1>5, <1>6 DEF IsSum
<1> QED BY <1>7

(* The sum of natural numbers is one, positive when some summand is.       *)
LEMMA SumValue ==
    ASSUME NEW T, IsFiniteSet(T), NEW f, \A x \in T : f[x] \in Nat, NEW g, IsSum(g, f, T)
    PROVE  g[T] \in Nat /\ (g[T] > 0 <=> \E x \in T : f[x] > 0)
<1> DEFINE Right(s) == g[s] \in Nat /\ (g[s] > 0 <=> \E x \in s : f[x] > 0)
           wrong == {s \in SUBSET T : ~ Right(s)}
           sizes == {Cardinality(s) : s \in wrong}
<1>1. \A s \in SUBSET T : g[s] = SumStep(f, g, s) BY DEF IsSum
<1>2. wrong = {}
  <2> SUFFICES ASSUME wrong # {} PROVE FALSE OBVIOUS
  <2>1. sizes \subseteq Nat /\ sizes # {} BY FS_Subset, FS_CardinalityType
  <2>2. PICK n \in sizes : \A m \in sizes : n <= m
    <3> HIDE DEF sizes
    <3> QED BY <2>1, LeastExists
  <2>3. PICK s \in wrong : n = Cardinality(s) OBVIOUS
  <2>4. s # {} BY <1>1, <2>3 DEF SumStep
  <2> DEFINE y == Any(s)
             r == s \ {Any(s)}
  <2>5. y \in s /\ r \in SUBSET T /\ Cardinality(r) = n - 1 /\ n \in Nat
    BY <2>3, <2>4, OneLess
  <2>6. r \notin wrong
    <3>1. n - 1 \notin sizes BY <2>2, <2>5
    <3> QED BY <2>5, <3>1
  <2>7. Right(r) BY <2>5, <2>6
  <2>8. g[s] = f[y] + g[r] BY <1>1, <2>3, <2>4 DEF SumStep
  <2>9. f[y] \in Nat BY <2>3, <2>5
  <2>10. \A x \in s : x = y \/ x \in r OBVIOUS
  <2>11. g[s] \in Nat /\ (g[s] > 0 <=> f[y] > 0 \/ g[r] > 0) BY <2>7, <2>8, <2>9
  <2>12. (\E x \in s : f[x] > 0) <=> f[y] > 0 \/ \E x \in r : f[x] > 0 BY <2>5, <2>10
  <2>13. Right(s) BY <2>7, <2>11, <2>12
  <2> QED BY <2>3, <2>13
<1> QED BY <1>2

-----------------------------------------------------------------------------
(* The performance tracker, for any skills, trackers, days and window:     *)
(* closing sessions never wait for each other, what a session used is      *)
(* graded, and no skill is flagged without a cause.                        *)

(* A tracker holds rows only of skills whose names come before all it has  *)
(* still to do.                                                            *)
InOrder ==
    \A t \in Trackers :
        /\ tracking[t] \in {"idle", "done", "failed"} => draft[t] = P!NoDraft
        /\ tracking[t] = "upsert" => \A r \in todo[t] : current[t] <= r
        /\ \A s \in Skills : draft[t][s] # "none" => \A r \in todo[t] : s < r

(* An invocation in the window failed or was slow.                         *)
Cause(s, d) == P!InWindow(s, "bad", d) + P!InWindow(s, "slow", d) > 0

(* What a tracker has seen, and what it wrote, had a cause.                *)
Caused ==
    \A t \in Trackers :
        /\ tracking[t] = "upsert" /\ seen[t] => Cause(current[t], begun[t])
        /\ \A s \in Skills : draft[t][s] = "below" => Cause(s, begun[t])

(* What a tracker has to grade is still to do, or written and not          *)
(* committed: it has invocations in the window, so no look passes it over. *)
Counted(s, d) == P!Total(s, d) > 0

Pending ==
    \A t \in Trackers :
        /\ \A s \in due[t] : Counted(s, begun[t])
        /\ tracking[t] \in {"look", "upsert"} =>
              \A s \in due[t] : s \in todo[t] \/ draft[t][s] # "none"

PInv == P!TypeOK /\ InOrder /\ Caused /\ Pending /\ P!FlagHasCause /\ P!UsedIsGraded

LEMMA WindowSum ==
    ASSUME P!TypeOK, NEW s \in Skills, NEW o \in P!Outcomes, NEW d \in P!Days
    PROVE  /\ P!InWindow(s, o, d) \in Nat
           /\ P!InWindow(s, o, d) > 0 <=> \E e \in P!Days : e + Window >= d /\ calls[s][e][o] > 0
<1> DEFINE days == {e \in P!Days : e + Window >= d}
           Sum(g) == g = [t \in SUBSET days |->
                            IF t = {} THEN 0 ELSE calls[s][Any(t)][o] + g[t \ {Any(t)}]]
           it == CHOOSE g : Sum(g)
           f == [e \in days |-> calls[s][e][o]]
<1>1. P!InWindow(s, o, d) = it[days] BY DEF P!InWindow, P!MapThenSumSet, P!MapThenFoldSet, Any
<1>2. IsFiniteSet(days)
  <2>1. IsFiniteSet(P!Days) BY FS_Interval, TrackerAssumption DEF P!Days
  <2> QED BY <2>1, FS_Subset
<1>3. \A e \in days : f[e] = calls[s][e][o] /\ f[e] \in Nat BY DEF P!TypeOK
<1>4. ASSUME NEW g PROVE IsSum(g, f, days) <=> Sum(g)
  <2>1. ASSUME NEW t \in SUBSET days
        PROVE  SumStep(f, g, t)
                 = IF t = {} THEN 0 ELSE calls[s][Any(t)][o] + g[t \ {Any(t)}]
    <3>1. t # {} => Any(t) \in days BY DEF Any
    <3> HIDE DEF f, days
    <3> QED BY <1>3, <3>1 DEF SumStep
  <2> HIDE DEF f, days
  <2> QED BY <2>1 DEF IsSum
<1> HIDE DEF f, days, Sum
<1>5. \E g : Sum(g) BY <1>2, <1>4, SumExists
<1>6. Sum(it) BY <1>5
<1>7. IsSum(it, f, days) BY <1>4, <1>6
<1> HIDE DEF it
<1>8. it[days] \in Nat /\ (it[days] > 0 <=> \E e \in days : f[e] > 0)
  BY <1>2, <1>3, <1>7, SumValue
<1> QED BY <1>1, <1>3, <1>8 DEF days

LEMMA TotalValue ==
    ASSUME P!TypeOK, NEW s \in Skills, NEW d \in P!Days
    PROVE  /\ P!Total(s, d) \in Nat
           /\ P!Total(s, d) > 0 <=> \E o \in P!Outcomes : P!InWindow(s, o, d) > 0
<1> DEFINE Sum(g) == g = [t \in SUBSET P!Outcomes |->
                            IF t = {} THEN 0 ELSE P!InWindow(s, Any(t), d) + g[t \ {Any(t)}]]
           it == CHOOSE g : Sum(g)
           f == [o \in P!Outcomes |-> P!InWindow(s, o, d)]
<1>1. P!Total(s, d) = it[P!Outcomes] BY DEF P!Total, P!MapThenSumSet, P!MapThenFoldSet, Any
<1>2. IsFiniteSet(P!Outcomes)
  <2>1. IsFiniteSet({"running"}) BY FS_Singleton
  <2>2. IsFiniteSet({"running"} \cup {"ok"}) BY <2>1, FS_AddElement
  <2>3. IsFiniteSet({"running"} \cup {"ok"} \cup {"slow"}) BY <2>2, FS_AddElement
  <2>4. IsFiniteSet({"running"} \cup {"ok"} \cup {"slow"} \cup {"bad"}) BY <2>3, FS_AddElement
  <2>5. P!Outcomes = {"running"} \cup {"ok"} \cup {"slow"} \cup {"bad"} BY DEF P!Outcomes
  <2> QED BY <2>4, <2>5
<1>3. \A o \in P!Outcomes : f[o] = P!InWindow(s, o, d) /\ f[o] \in Nat BY WindowSum
<1>4. ASSUME NEW g PROVE IsSum(g, f, P!Outcomes) <=> Sum(g)
  <2>1. ASSUME NEW t \in SUBSET P!Outcomes
        PROVE  SumStep(f, g, t)
                 = IF t = {} THEN 0 ELSE P!InWindow(s, Any(t), d) + g[t \ {Any(t)}]
    <3>1. t # {} => Any(t) \in P!Outcomes BY DEF Any
    <3> HIDE DEF f
    <3> QED BY <1>3, <3>1 DEF SumStep
  <2> HIDE DEF f
  <2> QED BY <2>1 DEF IsSum
<1> HIDE DEF f, Sum
<1>5. \E g : Sum(g) BY <1>2, <1>4, SumExists
<1>6. Sum(it) BY <1>5
<1>7. IsSum(it, f, P!Outcomes) BY <1>4, <1>6
<1> HIDE DEF it
<1> QED BY <1>1, <1>2, <1>3, <1>7, SumValue

(* A cause is an invocation, so later invocations do not take it away.     *)
LEMMA CauseIsACall ==
    ASSUME P!TypeOK, NEW s \in Skills, NEW d \in P!Days
    PROVE  Cause(s, d) <=>
             \E e \in P!Days : e + Window >= d /\ (calls[s][e]["bad"] > 0 \/ calls[s][e]["slow"] > 0)
<1>1. "bad" \in P!Outcomes /\ "slow" \in P!Outcomes BY DEF P!Outcomes
<1> QED BY <1>1, WindowSum DEF Cause

(* A tracker sees a skill below its threshold only with a cause: a rate    *)
(* above the flag, or a latency of a slow or failed invocation.            *)
LEMMA SeenHasCause ==
    ASSUME P!TypeOK, NEW s \in Skills, NEW d \in P!Days, TRUE \in P!Below(s, d)
    PROVE  Cause(s, d)
<1>1. /\ P!InWindow(s, "bad", d) \in Nat /\ P!InWindow(s, "slow", d) \in Nat
      /\ P!Total(s, d) \in Nat
  BY WindowSum, TotalValue DEF P!Outcomes
<1> DEFINE flag == (200 * FlagPercent + 1) * P!Total(s, d)
<1>2. flag \in Nat BY <1>1, TrackerAssumption
<1>3. ASSUME P!Erring(s, d) PROVE P!InWindow(s, "bad", d) > 0
  <2>1. 20000 * P!InWindow(s, "bad", d) > flag BY <1>3 DEF P!Erring, P!Above
  <2> HIDE DEF flag
  <2> QED BY <1>1, <1>2, <2>1
<1>4. CASE P!Erring(s, d) BY <1>1, <1>3, <1>4 DEF Cause
<1>5. CASE ~ P!Erring(s, d)
  <2>1. P!InWindow(s, "slow", d) + P!InWindow(s, "bad", d) > 0 BY <1>5 DEF P!Below
  <2> HIDE DEF flag
  <2> QED BY <1>1, <2>1 DEF Cause
<1> QED BY <1>4, <1>5

Called(s, d) ==
    \E e \in P!Days : e + Window >= d /\ (calls[s][e]["bad"] > 0 \/ calls[s][e]["slow"] > 0)

CausesAreCalls == \A s \in Skills, d \in P!Days : Cause(s, d) <=> Called(s, d)

LEMMA CallsNow == P!TypeOK => CausesAreCalls
BY CauseIsACall DEF CausesAreCalls, Called

LEMMA CallsNext == P!TypeOK' => CausesAreCalls'
BY CallsNow, PTL

(* A step that takes no failed or slow invocation away keeps the causes.   *)
LEMMA CauseStays ==
    ASSUME P!TypeOK, P!TypeOK',
           \A s \in Skills, e \in P!Days, o \in {"bad", "slow"} :
               calls[s][e][o] > 0 => calls'[s][e][o] > 0
    PROVE  \A s \in Skills, d \in P!Days : Cause(s, d) => Cause(s, d)'
<1>1. \A s \in Skills, d \in P!Days : Called(s, d) => Called(s, d)' BY DEF Called
<1> QED BY <1>1, CallsNow, CallsNext DEF CausesAreCalls

(* An invocation that is answered stays one of the total.                  *)
Held(s, d) == \E e \in P!Days, o \in P!Outcomes : e + Window >= d /\ calls[s][e][o] > 0

TotalsAreCalls == \A s \in Skills, d \in P!Days : Counted(s, d) <=> Held(s, d)

LEMMA TotalsNow == P!TypeOK => TotalsAreCalls
<1> SUFFICES ASSUME P!TypeOK, NEW s \in Skills, NEW d \in P!Days
             PROVE  Counted(s, d) <=> Held(s, d)
  BY DEF TotalsAreCalls
<1>1. Counted(s, d) <=> \E o \in P!Outcomes : P!InWindow(s, o, d) > 0 BY TotalValue DEF Counted
<1>2. \A o \in P!Outcomes : P!InWindow(s, o, d) > 0
          <=> \E e \in P!Days : e + Window >= d /\ calls[s][e][o] > 0
  BY WindowSum
<1> QED BY <1>1, <1>2 DEF Held

LEMMA TotalsNext == P!TypeOK' => TotalsAreCalls'
BY TotalsNow, PTL

LEMMA CountedStays ==
    ASSUME P!TypeOK, P!TypeOK',
           \A s \in Skills, e \in P!Days : (\E o \in P!Outcomes : calls[s][e][o] > 0)
               => \E o \in P!Outcomes : calls'[s][e][o] > 0
    PROVE  \A s \in Skills, d \in P!Days : Counted(s, d) => Counted(s, d)'
<1>1. \A s \in Skills, d \in P!Days : Held(s, d) => Held(s, d)' BY DEF Held
<1> QED BY <1>1, TotalsNow, TotalsNext DEF TotalsAreCalls

-----------------------------------------------------------------------------
LEMMA WorldGoesOn ==
    ASSUME PInv,
           P!Midnight \/ \E s \in Skills :
               P!Invoke(s) \/ \E d \in P!Days, o \in P!Outcomes \ {"running"} : P!Answer(s, d, o)
    PROVE  PInv'
<1> USE DEF PInv, P!tracker
<1>1. UNCHANGED <<row, tracking, begun, todo, current, seen, draft, due>>
  BY DEF P!Midnight, P!Invoke, P!Answer
<1>2. day' \in P!Days
  <2>1. day \in 0..LastDay BY DEF P!TypeOK, P!Days
  <2>2. day' = day \/ (day' = day + 1 /\ day < LastDay) BY DEF P!Midnight, P!Invoke, P!Answer
  <2> QED BY <2>1, <2>2, TrackerAssumption DEF P!Days
<1>3. /\ calls' \in [Skills -> [P!Days -> [P!Outcomes -> Nat]]]
      /\ \A s \in Skills, e \in P!Days, o \in {"bad", "slow"} :
             calls[s][e][o] > 0 => calls'[s][e][o] > 0
      /\ \A s \in Skills, e \in P!Days : (\E o \in P!Outcomes : calls[s][e][o] > 0)
             => \E o \in P!Outcomes : calls'[s][e][o] > 0
  <2>1. CASE P!Midnight BY <2>1 DEF P!Midnight, P!TypeOK
  <2>2. ASSUME NEW s \in Skills, P!Invoke(s)
        PROVE  calls' = [calls EXCEPT ![s][day]["running"] = @ + 1]
    BY <2>2 DEF P!Invoke
  <2>3. "running" \in P!Outcomes /\ {"bad", "slow"} \subseteq P!Outcomes \ {"running"}
    BY DEF P!Outcomes
  <2>4. day \in P!Days /\ calls \in [Skills -> [P!Days -> [P!Outcomes -> Nat]]] BY DEF P!TypeOK
  <2>5. CASE \E s \in Skills : P!Invoke(s)
    <3>1. PICK s \in Skills : calls' = [calls EXCEPT ![s][day]["running"] = @ + 1]
      BY <2>2, <2>5
    <3>2. \A r \in Skills, e \in P!Days, o \in P!Outcomes :
              /\ calls'[r][e][o] \in Nat
              /\ calls[r][e][o] > 0 => calls'[r][e][o] > 0
      BY <3>1, <2>3, <2>4
    <3>3. calls' \in [Skills -> [P!Days -> [P!Outcomes -> Nat]]] BY <3>1, <2>3, <2>4
    <3> QED BY <3>2, <3>3, <2>3
  <2>6. CASE \E s \in Skills, d \in P!Days, o \in P!Outcomes \ {"running"} : P!Answer(s, d, o)
    <3>1. PICK s \in Skills, d \in P!Days, o \in P!Outcomes \ {"running"} : P!Answer(s, d, o)
      BY <2>6
    <3> DEFINE new == [[calls[s][d] EXCEPT !["running"] = @ - 1] EXCEPT ![o] = @ + 1]
    <3>2. /\ calls[s][d]["running"] > 0
          /\ calls' = [calls EXCEPT ![s] = [@ EXCEPT ![d] = new]]
      BY <2>4, <3>1 DEF P!Answer
    <3>3. /\ new \in [P!Outcomes -> Nat]
          /\ \A q \in {"bad", "slow"} : calls[s][d][q] > 0 => new[q] > 0
          /\ new[o] > 0
      <4>1. calls[s][d] \in [P!Outcomes -> Nat] BY <2>4
      <4> QED BY <2>3, <3>2, <4>1
    <3> HIDE DEF new
    <3>4. calls' \in [Skills -> [P!Days -> [P!Outcomes -> Nat]]] BY <2>4, <3>2, <3>3
    <3>5. ASSUME NEW r \in Skills, NEW e \in P!Days, NEW q \in {"bad", "slow"},
                 calls[r][e][q] > 0
          PROVE  calls'[r][e][q] > 0
      <4>1. CASE r = s /\ e = d BY <2>4, <3>2, <3>3, <3>5, <4>1
      <4>2. CASE ~ (r = s /\ e = d) BY <2>4, <3>2, <3>5, <4>2
      <4> QED BY <4>1, <4>2
    <3>6. ASSUME NEW r \in Skills, NEW e \in P!Days, NEW q \in P!Outcomes, calls[r][e][q] > 0
          PROVE  \E w \in P!Outcomes : calls'[r][e][w] > 0
      <4>1. CASE r = s /\ e = d BY <2>4, <3>2, <3>3, <4>1
      <4>2. CASE ~ (r = s /\ e = d) BY <2>4, <3>2, <3>6, <4>2
      <4> QED BY <4>1, <4>2
    <3> QED BY <3>4, <3>5, <3>6
  <2> QED BY <2>1, <2>5, <2>6
<1>4. P!TypeOK' BY <1>1, <1>2, <1>3 DEF P!TypeOK
<1>5. InOrder' BY <1>1 DEF InOrder
<1>6. \A s \in Skills, d \in P!Days : Cause(s, d) => Cause(s, d)' BY <1>3, <1>4, CauseStays
<1>7. Caused'
  <2>1. ASSUME NEW t \in Trackers, tracking[t] = "upsert" PROVE current[t] \in Skills
    BY <2>1 DEF P!TypeOK
  <2> QED BY <1>1, <1>6, <2>1 DEF Caused, P!TypeOK
<1>8. P!FlagHasCause' BY <1>1, <1>6 DEF P!FlagHasCause, Cause
<1>9. Pending'
  <2>1. \A s \in Skills, d \in P!Days : Counted(s, d) => Counted(s, d)'
    BY <1>3, <1>4, CountedStays
  <2> QED BY <1>1, <2>1 DEF Pending, P!TypeOK
<1>10. P!UsedIsGraded' BY <1>1 DEF P!UsedIsGraded
<1> QED BY <1>4, <1>5, <1>7, <1>8, <1>9, <1>10

(* While the invocations stand still, so do the causes and the totals.     *)
LEMMA SameCause ==
    ASSUME UNCHANGED calls
    PROVE  \A s, d : Cause(s, d)' <=> Cause(s, d)
<1> SUFFICES ASSUME NEW s, NEW d PROVE Cause(s, d)' <=> Cause(s, d) OBVIOUS
<1>1. /\ P!InWindow(s, "bad", d)' = P!InWindow(s, "bad", d)
      /\ P!InWindow(s, "slow", d)' = P!InWindow(s, "slow", d)
  BY DEF P!InWindow, P!MapThenSumSet, P!MapThenFoldSet
<1> QED BY <1>1 DEF Cause

LEMMA SameTotal ==
    ASSUME P!TypeOK, P!TypeOK', UNCHANGED calls
    PROVE  \A s \in Skills, d \in P!Days : Counted(s, d)' <=> Counted(s, d)
<1>1. \A s \in Skills, d \in P!Days : Held(s, d)' <=> Held(s, d) BY DEF Held
<1> QED BY <1>1, TotalsNow, TotalsNext DEF TotalsAreCalls

LEMMA StartStep ==
    ASSUME PInv, NEW t \in Trackers, NEW S \in SUBSET Skills, P!Start(t, S)
    PROVE  PInv'
<1> USE DEF PInv, P!Start
<1>0. \A s, d : Cause(s, d)' <=> Cause(s, d) BY SameCause
<1>1. P!TypeOK' BY DEF P!TypeOK
<1>2. draft[t] = P!NoDraft BY DEF InOrder
<1>3. InOrder' BY <1>2 DEF InOrder, P!TypeOK, P!NoDraft
<1>4. Caused' BY <1>0, <1>2 DEF Caused, P!TypeOK, P!NoDraft
<1>5. P!FlagHasCause' BY <1>0 DEF P!FlagHasCause, Cause
<1>6. Pending'
  <2>1. \A s \in Skills, d \in P!Days : Counted(s, d)' <=> Counted(s, d) BY <1>1, SameTotal
  <2>2. /\ begun'[t] = day /\ todo'[t] = S /\ due'[t] = {s \in S : Counted(s, day)}
        /\ \A u \in Trackers : u # t =>
              begun'[u] = begun[u] /\ todo'[u] = todo[u] /\ due'[u] = due[u]
                /\ tracking'[u] = tracking[u]
    BY DEF P!TypeOK, Counted
  <2>3. \A u \in Trackers : due'[u] \subseteq Skills /\ begun'[u] \in P!Days
    BY <1>1 DEF P!TypeOK
  <2> QED BY <2>1, <2>2, <2>3 DEF Pending
<1>7. P!UsedIsGraded' BY DEF P!UsedIsGraded, P!TypeOK
<1> QED BY <1>1, <1>3, <1>4, <1>5, <1>6, <1>7

LEMMA LookStep ==
    ASSUME PInv, NEW t \in Trackers, P!Look(t)
    PROVE  PInv'
<1> USE DEF PInv, P!Look
<1>0. \A s, d : Cause(s, d)' <=> Cause(s, d) BY SameCause
<1>1. PICK s \in P!First(todo[t]) :
        /\ current' = [current EXCEPT ![t] = s]
        /\ \/ /\ todo' = [todo EXCEPT ![t] = @ \ {s}] /\ UNCHANGED <<tracking, seen>>
              /\ P!Total(s, begun[t]) = 0
           \/ /\ \E b \in P!Below(s, begun[t]) : seen' = [seen EXCEPT ![t] = b]
              /\ tracking' = [tracking EXCEPT ![t] = "upsert"]
              /\ UNCHANGED todo
        /\ UNCHANGED <<day, calls, row, begun, draft, due>>
        /\ tracking[t] = "look" /\ todo[t] # {}
  BY DEF P!Grade
<1> HIDE DEF P!Look
<1>2. s \in todo[t] /\ \A r \in todo[t] : s <= r
  <2>1. todo[t] \subseteq Nat /\ todo[t] # {} BY <1>1, TrackerAssumption DEF P!TypeOK
  <2>2. \E x \in todo[t] : \A y \in todo[t] : x <= y BY <2>1, LeastExists
  <2>3. s = CHOOSE x \in todo[t] : \A y \in todo[t] : x <= y BY <1>1 DEF P!First, P!Min
  <2> QED BY <2>2, <2>3
<1> DEFINE Other == \A u \in Trackers : u # t =>
                        /\ tracking'[u] = tracking[u] /\ todo'[u] = todo[u]
                        /\ current'[u] = current[u] /\ seen'[u] = seen[u]
<1>3. Other /\ current'[t] = s BY <1>1 DEF P!TypeOK
<1>4. /\ UNCHANGED <<day, calls, row, begun, draft, due>> /\ todo'[t] \subseteq todo[t]
      /\ tracking[t] = "look" /\ tracking'[t] \in {"look", "upsert"}
      /\ tracking'[t] = "upsert" => todo'[t] = todo[t]
  BY <1>1 DEF P!TypeOK
<1>5. P!TypeOK'
  <2>1. seen' \in [Trackers -> BOOLEAN]
    <3>1. P!Below(s, begun[t]) \subseteq BOOLEAN BY DEF P!Below
    <3>2. seen' = seen \/ \E b \in BOOLEAN : seen' = [seen EXCEPT ![t] = b] BY <1>1, <3>1
    <3> QED BY <3>2 DEF P!TypeOK
  <2>2. /\ tracking' \in [Trackers -> {"idle", "look", "upsert", "done", "failed"}]
        /\ todo' \in [Trackers -> SUBSET Skills]
        /\ current' \in [Trackers -> Skills]
    <3>1. s \in Skills BY <1>2 DEF P!TypeOK
    <3>2. current' \in [Trackers -> Skills] BY <1>1, <3>1 DEF P!TypeOK
    <3>3. todo[t] \ {s} \in SUBSET Skills BY DEF P!TypeOK
    <3>4. todo' \in [Trackers -> SUBSET Skills] BY <1>1, <3>3 DEF P!TypeOK
    <3>5. tracking' \in [Trackers -> {"idle", "look", "upsert", "done", "failed"}]
      <4>1. tracking' = tracking \/ tracking' = [tracking EXCEPT ![t] = "upsert"] BY <1>1
      <4> QED BY <4>1 DEF P!TypeOK
    <3> QED BY <3>2, <3>4, <3>5
  <2>3. \A u \in Trackers : tracking'[u] = "upsert" => current'[u] \in todo'[u]
    BY <1>2, <1>3, <1>4 DEF P!TypeOK
  <2>4. \A u \in Trackers : tracking'[u] \in {"done", "failed"} => draft'[u] = P!NoDraft
    BY <1>3, <1>4 DEF P!TypeOK
  <2> QED BY <1>4, <2>1, <2>2, <2>3, <2>4 DEF P!TypeOK
<1>6. InOrder' BY <1>2, <1>3, <1>4 DEF InOrder
<1>7. Caused'
  <2>1. ASSUME tracking'[t] = "upsert", seen'[t] PROVE Cause(s, begun[t])
    <3>1. TRUE \in P!Below(s, begun[t])
      <4>1. PICK b \in P!Below(s, begun[t]) : seen' = [seen EXCEPT ![t] = b]
        BY <1>1, <1>4, <2>1
      <4>2. b \in BOOLEAN BY DEF P!Below
      <4> QED BY <2>1, <4>1, <4>2 DEF P!TypeOK
    <3> QED BY <1>2, <3>1, SeenHasCause DEF P!TypeOK
  <2> QED BY <1>0, <1>3, <1>4, <2>1 DEF Caused
<1>8. P!FlagHasCause' BY <1>0, <1>4 DEF P!FlagHasCause, Cause
<1>9. Pending'
  <2>1. \A r \in Skills, d \in P!Days : Counted(r, d)' <=> Counted(r, d)
    BY <1>4, <1>5, SameTotal
  <2>2. ASSUME NEW r \in due[t] PROVE r \in todo'[t] \/ draft[t][r] # "none"
    <3>1. r \in todo[t] \/ draft[t][r] # "none" BY <1>4 DEF Pending
    <3>2. ASSUME r = s, P!Total(s, begun[t]) = 0 PROVE FALSE
      BY <3>2 DEF Pending, Counted
    <3> QED BY <1>1, <3>1, <3>2 DEF P!TypeOK
  <2>3. \A u \in Trackers : due[u] \subseteq Skills /\ begun[u] \in P!Days BY DEF P!TypeOK
  <2> QED BY <1>3, <1>4, <2>1, <2>2, <2>3 DEF Pending
<1>10. P!UsedIsGraded' BY <1>3, <1>4 DEF P!UsedIsGraded
<1> QED BY <1>5, <1>6, <1>7, <1>8, <1>9, <1>10

LEMMA UpsertStep ==
    ASSUME PInv, NEW t \in Trackers, P!Upsert(t)
    PROVE  PInv'
<1> USE DEF PInv, P!Upsert
<1>0. \A s, d : Cause(s, d)' <=> Cause(s, d) BY SameCause
<1>1. current[t] \in todo[t] /\ current[t] \in Skills BY DEF P!TypeOK
<1> DEFINE grade == IF seen[t] THEN "below" ELSE "good"
<1>2. /\ draft' = [draft EXCEPT ![t] = [@ EXCEPT ![current[t]] = grade]]
      /\ grade \in P!Grades
  BY DEF P!TypeOK, P!Grades
<1>3. draft' \in [Trackers -> [Skills -> P!Grades]]
  <2> HIDE DEF grade
  <2> QED BY <1>2 DEF P!TypeOK
<1>4. P!TypeOK' BY <1>2, <1>3 DEF P!TypeOK
<1>5. InOrder'
  <2>1. ASSUME NEW s \in Skills, draft'[t][s] # "none", NEW r \in todo'[t] PROVE s < r
    <3>1. r \in todo[t] /\ r # current[t] BY DEF P!TypeOK
    <3>2. CASE s = current[t]
      <4>1. r \in Nat /\ s \in Nat /\ s <= r
        BY <3>1, <3>2, TrackerAssumption DEF InOrder, P!TypeOK
      <4> QED BY <3>1, <3>2, <4>1
    <3>3. CASE s # current[t]
      <4>1. draft[t][s] # "none" BY <2>1, <1>2, <3>3 DEF P!TypeOK
      <4> QED BY <3>1, <4>1 DEF InOrder
    <3> QED BY <3>2, <3>3
  <2>2. \A u \in Trackers : u # t => draft'[u] = draft[u] /\ todo'[u] = todo[u] BY DEF P!TypeOK
  <2>3. tracking'[t] = "look" /\ \A u \in Trackers : u # t => tracking'[u] = tracking[u]
    BY DEF P!TypeOK
  <2> QED BY <2>1, <2>2, <2>3 DEF InOrder
<1>6. Caused'
  <2>1. ASSUME NEW s \in Skills, draft'[t][s] = "below" PROVE Cause(s, begun[t])
    BY <1>2, <2>1 DEF Caused, P!TypeOK
  <2> QED BY <1>0, <2>1 DEF Caused, P!TypeOK
<1>7. P!FlagHasCause' BY <1>0 DEF P!FlagHasCause, Cause
<1>8. Pending'
  <2>1. \A s \in Skills, d \in P!Days : Counted(s, d)' <=> Counted(s, d) BY <1>4, SameTotal
  <2>2. ASSUME NEW s \in due[t] PROVE s \in todo'[t] \/ draft'[t][s] # "none"
    <3>1. s \in Skills /\ (s \in todo[t] \/ draft[t][s] # "none") BY DEF Pending, P!TypeOK
    <3>2. /\ todo'[t] = todo[t] \ {current[t]}
          /\ draft'[t] = [draft[t] EXCEPT ![current[t]] = grade]
      BY <1>2 DEF P!TypeOK
    <3>3. CASE s = current[t] BY <1>1, <3>1, <3>2, <3>3 DEF P!TypeOK
    <3>4. CASE s # current[t] BY <3>1, <3>2, <3>4 DEF P!TypeOK
    <3> QED BY <3>3, <3>4
  <2>3. \A u \in Trackers : u # t =>
            draft'[u] = draft[u] /\ todo'[u] = todo[u] /\ tracking'[u] = tracking[u]
    BY DEF P!TypeOK
  <2>4. \A u \in Trackers : due[u] \subseteq Skills /\ begun[u] \in P!Days BY DEF P!TypeOK
  <2> QED BY <2>1, <2>2, <2>3, <2>4 DEF Pending
<1>9. P!UsedIsGraded' BY DEF P!UsedIsGraded, P!TypeOK
<1> QED BY <1>4, <1>5, <1>6, <1>7, <1>8, <1>9

(* The rows a tracker commits, in whole or after an error in part.         *)
LEMMA EndStep ==
    ASSUME PInv, NEW t \in Trackers, P!Commit(t) \/ P!Abort(t)
    PROVE  PInv'
<1> USE DEF PInv, P!Commit, P!Abort
<1>0. \A s, d : Cause(s, d)' <=> Cause(s, d) BY SameCause
<1>1. \A s \in Skills : "none" \in P!Grades /\ P!NoDraft[s] = "none" BY DEF P!NoDraft, P!Grades
<1>2. P!With(t) \in [Skills -> [P!Days -> P!Grades]] BY DEF P!With, P!TypeOK
<1>3. P!TypeOK'
  <2>1. P!NoDraft \in [Skills -> P!Grades] BY DEF P!NoDraft, P!Grades
  <2>2. row' \in [Skills -> [P!Days -> P!Grades]] BY <1>2 DEF P!TypeOK
  <2>3. tracking' \in [Trackers -> {"idle", "look", "upsert", "done", "failed"}] BY DEF P!TypeOK
  <2>4. draft' \in [Trackers -> [Skills -> P!Grades]] BY <2>1 DEF P!TypeOK
  <2> QED BY <2>2, <2>3, <2>4 DEF P!TypeOK
<1>4. InOrder' BY <1>1 DEF InOrder, P!TypeOK
<1>5. Caused' BY <1>0, <1>1 DEF Caused, P!TypeOK
<1>6. P!FlagHasCause'
  <2>1. ASSUME NEW s \in Skills, NEW d \in P!Days, P!With(t)[s][d] = "below" PROVE Cause(s, d)
    <3>1. CASE row[s][d] = "below" BY <3>1 DEF P!FlagHasCause, Cause
    <3>2. CASE row[s][d] # "below"
      <4>1. draft[t][s] = "below" /\ d = begun[t] BY <2>1, <3>2 DEF P!With, P!TypeOK
      <4> QED BY <4>1 DEF Caused
    <3> QED BY <3>1, <3>2
  <2> QED BY <1>0, <2>1 DEF P!FlagHasCause, Cause
<1>7. Pending'
  <2>1. \A s \in Skills, d \in P!Days : Counted(s, d)' <=> Counted(s, d) BY <1>3, SameTotal
  <2>2. tracking'[t] \notin {"look", "upsert"} BY DEF P!TypeOK
  <2>3. \A u \in Trackers : u # t => draft'[u] = draft[u] /\ tracking'[u] = tracking[u]
    BY DEF P!TypeOK
  <2>4. \A u \in Trackers : due[u] \subseteq Skills /\ begun[u] \in P!Days BY DEF P!TypeOK
  <2> QED BY <2>1, <2>2, <2>3, <2>4 DEF Pending
<1>8. P!UsedIsGraded'
  <2>1. ASSUME NEW u \in Trackers, tracking'[u] = "done", NEW s \in due[u]
        PROVE  row'[s][begun[u]] # "none"
    <3>1. s \in Skills /\ begun[u] \in P!Days /\ row[s] \in [P!Days -> P!Grades] BY DEF P!TypeOK
    <3>2. row[s][begun[u]] # "none" => row'[s][begun[u]] # "none"
      BY <3>1 DEF P!With
    <3>3. CASE u # t
      <4>1. tracking[u] = "done" BY <2>1, <3>3 DEF P!TypeOK
      <4> QED BY <2>1, <3>2, <4>1 DEF P!UsedIsGraded
    <3>4. CASE u = t
      <4>1. P!Commit(t) BY <2>1, <3>4 DEF P!TypeOK
      <4>2. draft[t][s] # "none" BY <2>1, <3>4, <4>1 DEF Pending
      <4> QED BY <3>1, <3>4, <4>1, <4>2 DEF P!With, P!TypeOK
    <3> QED BY <3>3, <3>4
  <2> QED BY <2>1 DEF P!UsedIsGraded
<1> QED BY <1>3, <1>4, <1>5, <1>6, <1>7, <1>8

(* The inductive invariant of the tracker.                                 *)
LEMMA TrackerInvariant == P!Spec => []PInv
<1>1. P!Init => PInv
  <2> SUFFICES ASSUME P!Init PROVE PInv OBVIOUS
  <2>1. 0 \in P!Days BY TrackerAssumption DEF P!Days
  <2>2. P!Min(Skills) \in Skills
    <3>1. \E x \in Skills : \A y \in Skills : x <= y BY LeastExists, TrackerAssumption
    <3> QED BY <3>1 DEF P!Min
  <2>3. P!TypeOK BY <2>1, <2>2 DEF P!Init, P!TypeOK, P!NoDraft, P!Grades, P!Outcomes
  <2>4. \A s \in Skills : P!NoDraft[s] = "none" BY DEF P!NoDraft
  <2> QED BY <2>3, <2>4 DEF P!Init, PInv, InOrder, Caused, Pending,
                          P!FlagHasCause, P!UsedIsGraded
<1>2. PInv /\ [P!Next]_P!vars => PInv'
  <2> SUFFICES ASSUME PInv, [P!Next]_P!vars PROVE PInv' OBVIOUS
  <2>1. ASSUME NEW t \in Trackers, NEW S \in SUBSET Skills, P!Start(t, S) PROVE PInv'
    BY <2>1, StartStep
  <2>2. ASSUME NEW t \in Trackers, P!Look(t) PROVE PInv' BY <2>2, LookStep
  <2>3. ASSUME NEW t \in Trackers, P!Upsert(t) PROVE PInv' BY <2>3, UpsertStep
  <2>4. ASSUME NEW t \in Trackers, P!Commit(t) \/ P!Abort(t) PROVE PInv' BY <2>4, EndStep
  <2>5. CASE P!Next BY <2>1, <2>2, <2>3, <2>4, <2>5, WorldGoesOn DEF P!Next
  <2>6. CASE UNCHANGED P!vars
    <3> USE <2>6 DEF PInv, P!vars, P!tracker
    <3>1. \A s, d : Cause(s, d)' <=> Cause(s, d) BY SameCause
    <3>2. P!TypeOK' BY DEF P!TypeOK
    <3>3. InOrder' BY DEF InOrder
    <3>4. Caused' BY <3>1 DEF Caused
    <3>5. P!FlagHasCause' BY <3>1 DEF P!FlagHasCause, Cause
    <3>6. Pending'
      <4>1. \A s \in Skills, d \in P!Days : Counted(s, d)' <=> Counted(s, d)
        BY <3>2, SameTotal
      <4> QED BY <4>1 DEF Pending, P!TypeOK
    <3>7. P!UsedIsGraded' BY DEF P!UsedIsGraded
    <3> QED BY <3>2, <3>3, <3>4, <3>5, <3>6, <3>7
  <2> QED BY <2>5, <2>6
<1> QED BY <1>1, <1>2, PTL DEF P!Spec

(* Type correctness of the tracker and its rows.                           *)
THEOREM TrackerTypeCorrect == P!Spec => []P!TypeOK
<1>1. PInv => P!TypeOK BY DEF PInv
<1> QED BY <1>1, TrackerInvariant, PTL

(* Two closing sessions never wait for each other's rows: both take the    *)
(* skills in the order of their names (skill_performance_tracker).         *)
THEOREM NoDeadlockHolds == P!Spec => []NoDeadlock
<1>1. PInv => NoDeadlock
  <2> SUFFICES ASSUME PInv, NEW t \in Trackers, NEW u \in Trackers,
                      tracking[t] = "upsert", tracking[u] = "upsert",
                      P!Holds(u, current[t], begun[t]), P!Holds(t, current[u], begun[u])
               PROVE  FALSE
    BY DEF NoDeadlock, P!NoDeadlock
  <2>1. current[t] \in todo[t] /\ current[u] \in todo[u] BY DEF PInv, P!TypeOK
  <2>2. current[t] \in Skills /\ current[u] \in Skills BY <2>1 DEF PInv, P!TypeOK
  <2>3. current[t] < current[u] /\ current[u] < current[t]
    BY <2>1, <2>2 DEF PInv, InOrder, P!Holds
  <2>4. current[t] \in Nat /\ current[u] \in Nat BY <2>2, TrackerAssumption
  <2> QED BY <2>3, <2>4
<1> QED BY <1>1, TrackerInvariant, PTL

(* A skill is marked below its threshold only when an invocation in the    *)
(* window failed or was slow (_compute_metrics).                           *)
THEOREM FlagHasCauseHolds == P!Spec => []FlagHasCause
<1>1. PInv => FlagHasCause BY DEF PInv, FlagHasCause
<1> QED BY <1>1, TrackerInvariant, PTL

(* What a session used is graded when its tracker commits, whatever other  *)
(* trackers, midnights or skills without rows come between                 *)
(* (track_skill_performance).                                              *)
THEOREM UsedIsGradedHolds == P!Spec => []UsedIsGraded
<1>1. PInv => UsedIsGraded BY DEF PInv, UsedIsGraded
<1> QED BY <1>1, TrackerInvariant, PTL

-----------------------------------------------------------------------------
(* The decision journal, for any decisions, confirmations and sources: no  *)
(* outcome is made up, and what needs approval is challenged.              *)

(* A confirmation past its check names a decision and a source.            *)
ConfirmationInv ==
    \A a \in Acts : confirming[a] \in {"loaded", "done"} =>
        /\ call[a] \in [decision : Decisions, source : Sources, correct : BOOLEAN]
        /\ brief[call[a].decision] # None

JournalInv == J!TypeOK /\ ConfirmationInv /\ J!NothingIsSynthesized /\ J!ApprovalIsChallenged

(* What the protocol writes is a brief, and one that challenges whatever   *)
(* it asks approval for (run_decision_protocol).                           *)
LEMMA BriefIsChallenged ==
    ASSUME NEW level \in J!Levels, NEW wants \in J!Wants, NEW reply \in J!Replies \cup {None}
    PROVE  /\ J!BriefOf(level, wants, reply) \in J!Briefs
           /\ J!BriefOf(level, wants, reply).approval => J!BriefOf(level, wants, reply).challenge
<1>1. level \in Nat /\ (level > 2) \in BOOLEAN BY DEF J!Levels
<1>2. reply # None => reply.challenge \in BOOLEAN /\ reply.advice \in BOOLEAN BY DEF J!Replies
<1>3. (reply = None \/ reply.challenge \/ level > 2) \in BOOLEAN OBVIOUS
<1>4. (wants # "no" /\ reply # None /\ reply.advice) \in BOOLEAN OBVIOUS
<1>5. J!BriefOf(level, wants, reply) \in J!Briefs BY <1>1, <1>3, <1>4 DEF J!BriefOf, J!Briefs
<1>6. J!BriefOf(level, wants, reply).approval => J!BriefOf(level, wants, reply).challenge
  BY DEF J!BriefOf
<1> QED BY <1>5, <1>6

LEMMA RecordStep ==
    ASSUME NEW d \in Decisions, JournalInv, J!Record(d)
    PROVE  JournalInv'
<1> USE JournalAssumption DEF JournalInv, J!TypeOK, J!Record
<1>1. PICK b \in J!Briefs : brief' = [brief EXCEPT ![d] = b] /\ (b.approval => b.challenge)
  <2>1. PICK level \in J!Levels, wants \in J!Wants, reply \in J!Replies \cup {None} :
          brief' = [brief EXCEPT ![d] = J!BriefOf(level, wants, reply)]
    OBVIOUS
  <2> QED BY <2>1, BriefIsChallenged
<1>2. J!TypeOK'
  <2>1. b # None \/ verdict[d] = None OBVIOUS
  <2> QED BY <1>1, <2>1
<1>3. ConfirmationInv'
  <2>1. ASSUME NEW a \in Acts, confirming[a] \in {"loaded", "done"} PROVE call[a].decision # d
    BY <2>1 DEF ConfirmationInv
  <2> QED BY <1>1, <2>1 DEF ConfirmationInv
<1>4. J!NothingIsSynthesized' BY DEF J!NothingIsSynthesized, J!Confirmations
<1>5. J!ApprovalIsChallenged' BY <1>1 DEF J!ApprovalIsChallenged
<1> QED BY <1>2, <1>3, <1>4, <1>5

LEMMA LoadStep ==
    ASSUME NEW a \in Acts, NEW d \in Decisions, NEW s \in Sources \cup {Blank},
           NEW c \in BOOLEAN, JournalInv, J!Load(a, d, s, c)
    PROVE  JournalInv'
<1> USE JournalAssumption DEF JournalInv, J!TypeOK, J!Load, J!journal
<1>1. J!TypeOK'
  <2>1. [decision |-> d, source |-> s, correct |-> c]
          \in [decision : Decisions, source : Sources \cup {Blank}, correct : BOOLEAN]
    OBVIOUS
  <2>2. call' \in [Acts -> {J!NoCall} \cup
                     [decision : Decisions, source : Sources \cup {Blank}, correct : BOOLEAN]]
    BY <2>1
  <2>3. [verdict |-> verdict[d], by |-> by[d]]
          \in [verdict : BOOLEAN \cup {None}, by : Sources \cup {None}]
    OBVIOUS
  <2>4. loaded' \in [Acts -> [verdict : BOOLEAN \cup {None}, by : Sources \cup {None}]]
    BY <2>3
  <2>5. confirming' \in [Acts -> {"idle", "loaded", "done", "refused"}] OBVIOUS
  <2>6. UNCHANGED <<brief, verdict, by>> OBVIOUS
  <2> QED BY <2>2, <2>4, <2>5, <2>6
<1>2. ConfirmationInv' BY DEF ConfirmationInv
<1>3. J!NothingIsSynthesized' BY DEF J!NothingIsSynthesized, J!Confirmations
<1>4. J!ApprovalIsChallenged' BY DEF J!ApprovalIsChallenged
<1> QED BY <1>1, <1>2, <1>3, <1>4

(* Whatever the flush leaves in the row is its own or was there before.    *)
LEMMA FlushStep ==
    ASSUME NEW a \in Acts, JournalInv, J!Flush(a)
    PROVE  JournalInv'
<1> DEFINE c == call[a]
<1> USE JournalAssumption DEF JournalInv, J!TypeOK, J!Flush
<1>1. c \in [decision : Decisions, source : Sources, correct : BOOLEAN] /\ brief[c.decision] # None
  BY DEF ConfirmationInv
<1>2. J!TypeOK' BY <1>1
<1>3. ConfirmationInv' BY DEF ConfirmationInv
<1>4. J!NothingIsSynthesized'
  <2> SUFFICES ASSUME NEW d \in Decisions
               PROVE  /\ verdict'[d] # None => \E b \in J!Confirmations(d)' : call'[b].correct = verdict'[d]
                      /\ by'[d] # None => \E b \in J!Confirmations(d)' : call'[b].source = by'[d]
    BY DEF J!NothingIsSynthesized
  <2>1. J!Confirmations(d) \subseteq J!Confirmations(d)' BY DEF J!Confirmations
  <2>2. c.decision = d => a \in J!Confirmations(d)' BY DEF J!Confirmations
  <2>3. verdict'[d] = verdict[d] \/ (c.decision = d /\ verdict'[d] = c.correct) BY <1>1
  <2>4. by'[d] = by[d] \/ (c.decision = d /\ by'[d] = c.source) BY <1>1
  <2> QED BY <2>1, <2>2, <2>3, <2>4 DEF J!NothingIsSynthesized
<1>5. J!ApprovalIsChallenged' BY DEF J!ApprovalIsChallenged
<1> QED BY <1>2, <1>3, <1>4, <1>5

LEMMA JournalStutters ==
    ASSUME JournalInv, UNCHANGED J!vars
    PROVE  JournalInv'
BY DEF JournalInv, J!TypeOK, ConfirmationInv, J!NothingIsSynthesized, J!ApprovalIsChallenged, J!Confirmations,
       J!vars, J!journal

LEMMA JournalInvariant == J!Spec => []JournalInv
<1>1. J!Init => JournalInv
  BY JournalAssumption DEF J!Init, JournalInv, J!TypeOK, ConfirmationInv, J!NothingIsSynthesized, 
         J!ApprovalIsChallenged, J!NotLoaded
<1>2. JournalInv /\ [J!Next]_J!vars => JournalInv'
  <2> SUFFICES ASSUME JournalInv, [J!Next]_J!vars PROVE JournalInv' OBVIOUS
  <2>1. ASSUME NEW d \in Decisions, J!Record(d) PROVE JournalInv' BY <2>1, RecordStep
  <2>2. ASSUME NEW a \in Acts, NEW d \in Decisions, NEW s \in Sources \cup {Blank},
               NEW c \in BOOLEAN, J!Load(a, d, s, c)
        PROVE  JournalInv'
    BY <2>2, LoadStep
  <2>3. ASSUME NEW a \in Acts, J!Flush(a) PROVE JournalInv' BY <2>3, FlushStep
  <2>4. CASE UNCHANGED J!vars BY <2>4, JournalStutters
  <2>5. CASE J!Next BY <2>1, <2>2, <2>3, <2>5 DEF J!Next
  <2> QED BY <2>4, <2>5
<1> QED BY <1>1, <1>2, PTL DEF J!Spec

(* Type correctness of the journal and its confirmations.                  *)
THEOREM JournalTypeCorrect == J!Spec => []J!TypeOK
<1>1. JournalInv => J!TypeOK BY DEF JournalInv
<1> QED BY <1>1, JournalInvariant, PTL

(* However confirmations overlap, a row's verdict was given for that       *)
(* decision and its source did confirm it (confirm_decision).              *)
THEOREM NothingIsSynthesizedHolds == J!Spec => []NothingIsSynthesized
<1>1. JournalInv => NothingIsSynthesized BY DEF JournalInv, NothingIsSynthesized
<1> QED BY <1>1, JournalInvariant, PTL

(* What asks for approval carries a challenge, whatever the model answered *)
(* (run_decision_protocol).                                                *)
THEOREM ApprovalIsChallengedHolds == J!Spec => []J!ApprovalIsChallenged
<1>1. JournalInv => J!ApprovalIsChallenged BY DEF JournalInv
<1> QED BY <1>1, JournalInvariant, PTL
=============================================================================
