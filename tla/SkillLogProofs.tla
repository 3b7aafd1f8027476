--------------------------- MODULE SkillLogProofs ---------------------------
(***************************************************************************)
(* Proofs about SkillLog, for any set of calls and requests: the inductive *)
(* invariant, the properties that follow from it, and that the skill log   *)
(* implements the contract of SkillLogRow.                                 *)
(***************************************************************************)
EXTENDS SkillLog, TLAPS

-----------------------------------------------------------------------------
(* Two calls in progress on one session: one made the other.               *)
LEMMA Sharing ==
    ASSUME IInv, NEW c \in Calls, NEW d \in Calls, c # d,
           pc[c] \in Running, pc[d] \in Running, db[c] = db[d]
    PROVE  parent[c] = d \/ parent[d] = c
<1> USE NoneAssumption DEF IInv, TypeOK, StackInv, Running
<1>1. CASE parent[c] = None /\ parent[d] # None
  <2>1. parent[parent[d]] = parent[c] /\ pc[parent[d]] = "skill" /\ db[parent[d]] = db[c]
    BY <1>1
  <2> QED BY <1>1, <2>1
<1>2. CASE parent[c] # None /\ parent[d] = None
  <2>1. parent[parent[c]] = parent[d] /\ pc[parent[c]] = "skill" /\ db[parent[c]] = db[d]
    BY <1>2
  <2> QED BY <1>2, <2>1
<1>3. CASE parent[c] # None /\ parent[d] # None
  <2>1. parent[c] = parent[d]
    <3>1. /\ parent[parent[c]] = parent[parent[d]]
          /\ pc[parent[c]] = "skill" /\ pc[parent[d]] = "skill"
          /\ db[parent[c]] = db[parent[d]]
      BY <1>3
    <3> QED BY <1>3, <3>1
  <2> QED BY <2>1
<1> QED BY <1>1, <1>2, <1>3

-----------------------------------------------------------------------------
(* Each action preserves the inductive invariant.                          *)

(* The request adds to its session; no call is in progress on it.          *)
LEMMA RequestWriteStep ==
    ASSUME NEW r \in Requests, IInv, RequestWrite(r)
    PROVE  IInv'
<1> USE NoneAssumption DEF RequestWrite, Active, log, calls, process, IInv, TypeOK,
        Running, Over, Final, Owners
<1>1. TypeOK' OBVIOUS
<1>2. CallsInv' BY DEF CallsInv
<1>3. StackInv' BY DEF StackInv
<1>4. SessionsInv' BY NamesAssumption DEF SessionsInv
<1>5. OutcomeInv' BY DEF OutcomeInv
<1>6. CallerIsSafe' BY DEF CallerIsSafe, Innermost, Nested
<1>7. ReturnedIsDurable' BY NamesAssumption DEF ReturnedIsDurable
<1> QED BY <1>1, <1>2, <1>3, <1>4, <1>5, <1>6, <1>7

(* A commit only empties the session.                                      *)
LEMMA RequestCommitStep ==
    ASSUME NEW r \in Requests, IInv, RequestCommit(r)
    PROVE  IInv'
<1> USE NoneAssumption DEF RequestCommit, Active, Commit, log, calls, process, IInv,
        TypeOK, Running, Over, Final, Owners
<1>1. TypeOK' OBVIOUS
<1>2. CallsInv' BY DEF CallsInv
<1>3. StackInv' BY DEF StackInv
<1>4. SessionsInv' BY DEF SessionsInv
<1>5. OutcomeInv' BY DEF OutcomeInv
<1>6. CallerIsSafe' BY DEF CallerIsSafe, Innermost, Nested
<1>7. ReturnedIsDurable' BY DEF ReturnedIsDurable
<1> QED BY <1>1, <1>2, <1>3, <1>4, <1>5, <1>6, <1>7

(* Ending the request empties its session; no call is in progress on it.   *)
LEMMA RequestEndStep ==
    ASSUME NEW r \in Requests, IInv, RequestEnd(r)
    PROVE  IInv'
<1> USE NoneAssumption DEF RequestEnd, Active, log, calls, process, IInv, TypeOK,
        Running, Over, Final, Owners
<1>1. TypeOK' OBVIOUS
<1>2. CallsInv' BY DEF CallsInv
<1>3. StackInv' BY DEF StackInv
<1>4. SessionsInv' BY DEF SessionsInv
<1>5. OutcomeInv' BY DEF OutcomeInv, CallsInv, SessionsInv, StackInv
<1>6. CallerIsSafe' BY DEF CallerIsSafe, Innermost, Nested
<1>7. ReturnedIsDurable' BY DEF ReturnedIsDurable
<1> QED BY <1>1, <1>2, <1>3, <1>4, <1>5, <1>6, <1>7

(* The running row starts with an empty session, or there is no row.       *)
LEMMA InvokeStep ==
    ASSUME NEW c \in Calls, NEW r \in Requests, IInv, Invoke(c, r)
    PROVE  IInv'
<1> USE NoneAssumption DEF Invoke, Enter, Active, Commit, Break, Goto, process, IInv,
        TypeOK, Running, Over, Final, Owners
<1>1. TypeOK'
  <2>1. /\ pc' \in [Calls -> {"idle"} \cup Running \cup Over]
        /\ db' \in [Calls -> Requests \cup {None}]
        /\ parent' \in [Calls -> Calls \cup {None}]
    BY DEF CallsInv
  <2>2. status' \in [Calls -> {"absent", "running"} \cup Final] OBVIOUS
  <2>3. pending' \in [Requests -> SUBSET Owners] OBVIOUS
  <2>4. usable' \in [Requests -> BOOLEAN] /\ lost' \in SUBSET Calls OBVIOUS
  <2> QED BY <2>1, <2>2, <2>3, <2>4
<1>2. CallsInv' BY DEF CallsInv
<1>3. StackInv' BY DEF StackInv, CallsInv
<1>4. SessionsInv' BY DEF SessionsInv, CallsInv
<1>5. OutcomeInv' BY DEF OutcomeInv, CallsInv, SessionsInv, StackInv
<1>6. CallerIsSafe' BY DEF CallerIsSafe, Innermost, Nested, CallsInv
<1>7. ReturnedIsDurable' BY DEF ReturnedIsDurable
<1> QED BY <1>1, <1>2, <1>3, <1>4, <1>5, <1>6, <1>7

(* A nested call is pushed on its caller, whose skill has written nothing. *)
LEMMA InvokeNestedStep ==
    ASSUME NEW c \in Calls, NEW p \in Calls, IInv, InvokeNested(c, p)
    PROVE  IInv'
<1> USE NoneAssumption DEF InvokeNested, Enter, Executes, Nested, Commit, Break, Goto,
        process, IInv, TypeOK, Running, Over, Final, Owners
<1>1. TypeOK'
  <2>1. /\ pc' \in [Calls -> {"idle"} \cup Running \cup Over]
        /\ db' \in [Calls -> Requests \cup {None}]
        /\ parent' \in [Calls -> Calls \cup {None}]
    BY DEF CallsInv
  <2>2. status' \in [Calls -> {"absent", "running"} \cup Final] OBVIOUS
  <2>3. pending' \in [Requests -> SUBSET Owners] OBVIOUS
  <2>4. usable' \in [Requests -> BOOLEAN] /\ lost' \in SUBSET Calls OBVIOUS
  <2> QED BY <2>1, <2>2, <2>3, <2>4
<1>2. CallsInv' BY DEF CallsInv
<1>3. StackInv' BY DEF StackInv, CallsInv
<1>4. SessionsInv' BY DEF SessionsInv, CallsInv
<1>5. OutcomeInv' BY DEF OutcomeInv, CallsInv, CallerIsSafe, Innermost, StackInv
<1>6. CallerIsSafe' BY DEF CallerIsSafe, Innermost, CallsInv
<1>7. ReturnedIsDurable' BY DEF ReturnedIsDurable, CallsInv
<1> QED BY <1>1, <1>2, <1>3, <1>4, <1>5, <1>6, <1>7

(* Only the call moves.                                                    *)
LEMMA FindStep ==
    ASSUME NEW c \in Calls, IInv, Find(c)
    PROVE  IInv'
<1> USE NoneAssumption DEF Find, Goto, log, sessions, process, IInv, TypeOK, Running,
        Over, Final, Owners
<1>1. TypeOK' OBVIOUS
<1>2. CallsInv' BY DEF CallsInv
<1>3. StackInv' BY DEF StackInv
<1>4. SessionsInv' BY DEF SessionsInv
<1>5. OutcomeInv' BY DEF OutcomeInv
<1>6. CallerIsSafe' BY DEF CallerIsSafe, Innermost, Nested
<1>7. ReturnedIsDurable' BY DEF ReturnedIsDurable
<1> QED BY <1>1, <1>2, <1>3, <1>4, <1>5, <1>6, <1>7

(* Only the call moves.                                                    *)
LEMMA RefuseStep ==
    ASSUME NEW c \in Calls, IInv, Refuse(c)
    PROVE  IInv'
<1> USE NoneAssumption DEF Refuse, Goto, log, sessions, process, IInv, TypeOK, Running,
        Over, Final, Owners
<1>1. TypeOK' OBVIOUS
<1>2. CallsInv' BY DEF CallsInv
<1>3. StackInv' BY DEF StackInv
<1>4. SessionsInv' BY DEF SessionsInv
<1>5. OutcomeInv' BY DEF OutcomeInv
<1>6. CallerIsSafe' BY DEF CallerIsSafe, Innermost, Nested
<1>7. ReturnedIsDurable' BY DEF ReturnedIsDurable
<1> QED BY <1>1, <1>2, <1>3, <1>4, <1>5, <1>6, <1>7

(* The innermost call writes in its own session.                           *)
LEMMA SkillWriteStep ==
    ASSUME NEW c \in Calls, IInv, SkillWrite(c)
    PROVE  IInv'
<1> USE NoneAssumption DEF SkillWrite, Executes, Nested, log, calls, process, IInv,
        TypeOK, Running, Over, Final, Owners
<1>1. TypeOK' OBVIOUS
<1>2. CallsInv' BY DEF CallsInv
<1>3. StackInv' BY DEF StackInv
<1>4. SessionsInv' BY DEF SessionsInv
<1>5. OutcomeInv' BY DEF OutcomeInv
<1>6. CallerIsSafe' BY DEF CallerIsSafe, Innermost, StackInv
<1>7. ReturnedIsDurable' BY DEF ReturnedIsDurable
<1> QED BY <1>1, <1>2, <1>3, <1>4, <1>5, <1>6, <1>7

(* A commit only empties the session.                                      *)
LEMMA SkillCommitStep ==
    ASSUME NEW c \in Calls, IInv, SkillCommit(c)
    PROVE  IInv'
<1> USE NoneAssumption DEF SkillCommit, Executes, Nested, Commit, log, calls, process,
        IInv, TypeOK, Running, Over, Final, Owners
<1>1. TypeOK' OBVIOUS
<1>2. CallsInv' BY DEF CallsInv
<1>3. StackInv' BY DEF StackInv
<1>4. SessionsInv' BY DEF SessionsInv
<1>5. OutcomeInv' BY DEF OutcomeInv
<1>6. CallerIsSafe' BY DEF CallerIsSafe, Innermost
<1>7. ReturnedIsDurable' BY DEF ReturnedIsDurable
<1> QED BY <1>1, <1>2, <1>3, <1>4, <1>5, <1>6, <1>7

(* What is lost was the innermost call's, and its session is broken.       *)
LEMMA SkillBreaksStep ==
    ASSUME NEW c \in Calls, IInv, SkillBreaks(c)
    PROVE  IInv'
<1> USE NoneAssumption DEF SkillBreaks, Executes, Nested, Break, log, calls, process,
        IInv, TypeOK, Running, Over, Final, Owners
<1>1. TypeOK' OBVIOUS
<1>2. CallsInv' BY DEF CallsInv
<1>3. StackInv' BY DEF StackInv
<1>4. SessionsInv' BY DEF SessionsInv
<1>5. OutcomeInv' BY DEF OutcomeInv, CallsInv, CallerIsSafe, Innermost, StackInv
<1>6. CallerIsSafe' BY DEF CallerIsSafe, Innermost
<1>7. ReturnedIsDurable' BY DEF ReturnedIsDurable, CallsInv
<1> QED BY <1>1, <1>2, <1>3, <1>4, <1>5, <1>6, <1>7

(* The skill gives up its own writes and can use the session again.        *)
LEMMA SkillRollbackStep ==
    ASSUME NEW c \in Calls, IInv, SkillRollback(c)
    PROVE  IInv'
<1> USE NoneAssumption DEF SkillRollback, Executes, Nested, log, calls, process, IInv,
        TypeOK, Running, Over, Final, Owners
<1>1. TypeOK' OBVIOUS
<1>2. CallsInv' BY DEF CallsInv
<1>3. StackInv' BY DEF StackInv
<1>4. SessionsInv' BY DEF SessionsInv
<1>5. OutcomeInv'
  <2>1. pending[db[c]] \subseteq {c} \cup {d \in Calls : parent[d] = c}
    BY DEF CallerIsSafe, Innermost
  <2>2. ASSUME NEW d \in Calls, pc[d] \in Running, d \in lost', d # c
        PROVE  ~usable'[db[d]]
    <3>1. d \notin pending[db[c]] BY <2>1, <2>2
    <3>2. d \in lost BY <3>1, <2>2
    <3>3. ~usable[db[d]] BY <2>2, <3>2 DEF OutcomeInv
    <3>4. db[d] # db[c]
      <4>1. parent[c] # d BY <3>2 DEF OutcomeInv
      <4> QED BY <2>2, <4>1, Sharing DEF Innermost
    <3> QED BY <2>2, <3>3, <3>4 DEF CallsInv
  <2>3. ASSUME NEW d \in Calls, pc[d] \in Running, parent[d] # None
        PROVE  parent[d] \notin lost'
    <3>1. parent[d] \notin lost BY <2>3 DEF OutcomeInv
    <3>2. parent[parent[d]] = None BY <2>3 DEF StackInv
    <3> QED BY <2>1, <3>1, <3>2
  <2>4. c \notin lost' OBVIOUS
  <2>5. UNCHANGED <<pc, status, parent, db>> OBVIOUS
  <2>6. ASSUME NEW d \in Calls, pc[d] = "idle" PROVE d \notin lost'
    <3>1. d \notin pending[db[c]] BY <2>6, NoneAssumption DEF SessionsInv, CallsInv
    <3> QED BY <2>6, <3>1 DEF OutcomeInv
  <2> QED BY <2>2, <2>3, <2>4, <2>5, <2>6 DEF OutcomeInv
<1>6. CallerIsSafe' BY DEF CallerIsSafe, Innermost
<1>7. ReturnedIsDurable' BY DEF ReturnedIsDurable, CallsInv
<1> QED BY <1>1, <1>2, <1>3, <1>4, <1>5, <1>6, <1>7

(* Only the call moves.                                                    *)
LEMMA SkillEndsStep ==
    ASSUME NEW c \in Calls, IInv, SkillEnds(c)
    PROVE  IInv'
<1> USE NoneAssumption DEF SkillEnds, Executes, Nested, Goto, log, sessions, process,
        IInv, TypeOK, Running, Over, Final, Owners
<1>1. TypeOK' OBVIOUS
<1>2. CallsInv' BY DEF CallsInv
<1>3. StackInv' BY DEF StackInv
<1>4. SessionsInv' BY DEF SessionsInv
<1>5. OutcomeInv' BY DEF OutcomeInv
<1>6. CallerIsSafe' BY DEF CallerIsSafe, Innermost
<1>7. ReturnedIsDurable' BY DEF ReturnedIsDurable
<1> QED BY <1>1, <1>2, <1>3, <1>4, <1>5, <1>6, <1>7

(* The nested call goes with its caller, who inherits what it wrote.       *)
LEMMA SkillTimesOutStep ==
    ASSUME NEW c \in Calls, IInv, SkillTimesOut(c)
    PROVE  IInv'
<1> USE NoneAssumption DEF SkillTimesOut, Nested, Break, log, sessions, process, IInv,
        TypeOK, Running, Over, Final, Owners
<1>1. TypeOK'
  <2>1. pc' \in [Calls -> {"idle"} \cup Running \cup Over] OBVIOUS
  <2>2. \/ UNCHANGED <<pending, usable, lost>>
        \/ /\ pending' = [pending EXCEPT ![db[c]] = {}]
           /\ lost' = lost \cup (pending[db[c]] \cap Calls)
           /\ usable' = [usable EXCEPT ![db[c]] = FALSE]
    OBVIOUS
  <2>3. /\ pending \in [Requests -> SUBSET Owners] /\ usable \in [Requests -> BOOLEAN]
        /\ lost \in SUBSET Calls
    OBVIOUS
  <2>4. /\ pending' \in [Requests -> SUBSET Owners]
        /\ usable' \in [Requests -> BOOLEAN]
        /\ lost' \in SUBSET Calls
    <3> HIDE DEF SkillTimesOut, Nested, Break, log, sessions, process, IInv, TypeOK,
             Running, Over, Final, Owners
    <3> QED BY <2>2, <2>3
  <2> QED BY <2>1, <2>4
<1>2. CallsInv' BY DEF CallsInv
<1>3. StackInv' BY DEF StackInv
<1>4. SessionsInv' BY DEF SessionsInv
<1>5. OutcomeInv' BY DEF OutcomeInv, CallsInv, CallerIsSafe, Innermost, StackInv
<1>6. CallerIsSafe' BY DEF CallerIsSafe, Innermost, CallsInv, StackInv
<1>7. ReturnedIsDurable' BY DEF ReturnedIsDurable, CallsInv
<1> QED BY <1>1, <1>2, <1>3, <1>4, <1>5, <1>6, <1>7

(* The row is closed in the transaction that commits the skill's writes.   *)
LEMMA UpdateLogStep ==
    ASSUME NEW c \in Calls, IInv, UpdateLog(c)
    PROVE  IInv'
<1> USE NoneAssumption DEF UpdateLog, Told, Commit, Goto, process, IInv, TypeOK, Running,
        Over, Final, Owners
<1>1. TypeOK' OBVIOUS
<1>2. CallsInv' BY DEF CallsInv
<1>3. StackInv' BY DEF StackInv
<1>4. SessionsInv' BY DEF SessionsInv
<1>5. OutcomeInv' BY DEF OutcomeInv
<1>6. CallerIsSafe' BY DEF CallerIsSafe, Innermost, Nested, StackInv
<1>7. ReturnedIsDurable' BY DEF ReturnedIsDurable, OutcomeInv, SessionsInv
<1> QED BY <1>1, <1>2, <1>3, <1>4, <1>5, <1>6, <1>7

(* The call raises, on a broken session.                                   *)
LEMMA UpdateRefusedStep ==
    ASSUME NEW c \in Calls, IInv, UpdateRefused(c)
    PROVE  IInv'
<1> USE NoneAssumption DEF UpdateRefused, Break, Goto, log, process, IInv, TypeOK,
        Running, Over, Final, Owners
<1>1. TypeOK' OBVIOUS
<1>2. CallsInv' BY DEF CallsInv
<1>3. StackInv' BY DEF StackInv
<1>4. SessionsInv' BY DEF SessionsInv
<1>5. OutcomeInv' BY DEF OutcomeInv, CallsInv, CallerIsSafe, Innermost, Nested, StackInv
<1>6. CallerIsSafe' BY DEF CallerIsSafe, Innermost, Nested, StackInv
<1>7. ReturnedIsDurable' BY DEF ReturnedIsDurable, CallsInv
<1> QED BY <1>1, <1>2, <1>3, <1>4, <1>5, <1>6, <1>7

(* The call raises; its row already said timeout.                          *)
LEMMA UpdateAgreesStep ==
    ASSUME NEW c \in Calls, IInv, UpdateAgrees(c)
    PROVE  IInv'
<1> USE NoneAssumption DEF UpdateAgrees, Told, Commit, Goto, log, process, IInv, TypeOK,
        Running, Over, Final, Owners
<1>1. TypeOK' OBVIOUS
<1>2. CallsInv' BY DEF CallsInv
<1>3. StackInv' BY DEF StackInv
<1>4. SessionsInv' BY DEF SessionsInv
<1>5. OutcomeInv' BY DEF OutcomeInv
<1>6. CallerIsSafe' BY DEF CallerIsSafe, Innermost, Nested, StackInv
<1>7. ReturnedIsDurable' BY DEF ReturnedIsDurable
<1> QED BY <1>1, <1>2, <1>3, <1>4, <1>5, <1>6, <1>7

(* Only the call moves.                                                    *)
LEMMA UpdateImpossibleStep ==
    ASSUME NEW c \in Calls, IInv, UpdateImpossible(c)
    PROVE  IInv'
<1> USE NoneAssumption DEF UpdateImpossible, Goto, log, sessions, process, IInv, TypeOK,
        Running, Over, Final, Owners
<1>1. TypeOK' OBVIOUS
<1>2. CallsInv' BY DEF CallsInv
<1>3. StackInv' BY DEF StackInv
<1>4. SessionsInv' BY DEF SessionsInv
<1>5. OutcomeInv' BY DEF OutcomeInv
<1>6. CallerIsSafe' BY DEF CallerIsSafe, Innermost, Nested, StackInv
<1>7. ReturnedIsDurable' BY DEF ReturnedIsDurable
<1> QED BY <1>1, <1>2, <1>3, <1>4, <1>5, <1>6, <1>7

(* All calls of the session go.                                            *)
LEMMA CancelStep ==
    ASSUME NEW r \in Requests, IInv, Cancel(r)
    PROVE  IInv'
<1> USE NoneAssumption DEF Cancel, Active, Break, log, sessions, process, IInv, TypeOK,
        Running, Over, Final, Owners
<1>1. TypeOK' OBVIOUS
<1>2. CallsInv' BY DEF CallsInv
<1>3. StackInv' BY DEF StackInv
<1>4. SessionsInv' BY DEF SessionsInv
<1>5. OutcomeInv' BY DEF OutcomeInv, CallsInv, CallerIsSafe, Innermost, Nested, StackInv
<1>6. CallerIsSafe' BY DEF CallerIsSafe, Innermost, Nested, CallsInv, StackInv
<1>7. ReturnedIsDurable' BY DEF ReturnedIsDurable
<1> QED BY <1>1, <1>2, <1>3, <1>4, <1>5, <1>6, <1>7

(* Age changes no fact of the invariant.                                   *)
LEMMA AgeStep ==
    ASSUME NEW c \in Calls, IInv, Age(c)
    PROVE  IInv'
<1> USE NoneAssumption DEF Age, sessions, calls, process, IInv, TypeOK, Running, Over,
        Final, Owners
<1>1. TypeOK' OBVIOUS
<1>2. CallsInv' BY DEF CallsInv
<1>3. StackInv' BY DEF StackInv
<1>4. SessionsInv' BY DEF SessionsInv
<1>5. OutcomeInv' BY DEF OutcomeInv
<1>6. CallerIsSafe' BY DEF CallerIsSafe, Innermost, Nested
<1>7. ReturnedIsDurable' BY DEF ReturnedIsDurable
<1> QED BY <1>1, <1>2, <1>3, <1>4, <1>5, <1>6, <1>7

(* Jam changes no fact of the invariant.                                   *)
LEMMA JamStep ==
    ASSUME IInv, Jam
    PROVE  IInv'
<1> USE NoneAssumption DEF Jam, log, sessions, calls, IInv, TypeOK, Running, Over,
        Final, Owners
<1>1. TypeOK' OBVIOUS
<1>2. CallsInv' BY DEF CallsInv
<1>3. StackInv' BY DEF StackInv
<1>4. SessionsInv' BY DEF SessionsInv
<1>5. OutcomeInv' BY DEF OutcomeInv
<1>6. CallerIsSafe' BY DEF CallerIsSafe, Innermost, Nested
<1>7. ReturnedIsDurable' BY DEF ReturnedIsDurable
<1> QED BY <1>1, <1>2, <1>3, <1>4, <1>5, <1>6, <1>7

(* A cleanup closes running rows, and their calls have not returned.       *)
LEMMA CleanStep ==
    ASSUME IInv, Clean
    PROVE  IInv'
<1> USE NoneAssumption DEF Clean, CloseStale, sessions, calls, process, IInv,
        TypeOK, Running, Over, Final, Owners
<1>1. TypeOK' OBVIOUS
<1>2. CallsInv' BY DEF CallsInv
<1>3. StackInv' BY DEF StackInv
<1>4. SessionsInv' BY DEF SessionsInv
<1>5. OutcomeInv' BY DEF OutcomeInv, CallsInv
<1>6. CallerIsSafe' BY DEF CallerIsSafe, Innermost, Nested
<1>7. ReturnedIsDurable' BY DEF ReturnedIsDurable, CallsInv
<1> QED BY <1>1, <1>2, <1>3, <1>4, <1>5, <1>6, <1>7

(* All calls and all transactions are gone.                                *)
LEMMA CrashStep ==
    ASSUME IInv, Crash
    PROVE  IInv'
<1> USE NoneAssumption DEF Crash, log, IInv, TypeOK, Running, Over, Final, Owners
<1>1. TypeOK'
  <2>1. crashes' \in 0..MaxCrashes BY MaxCrashesAssumption
  <2>2. pc' \in [Calls -> {"idle"} \cup Running \cup Over] OBVIOUS
  <2> QED BY <2>1, <2>2
<1>2. CallsInv' BY DEF CallsInv
<1>3. StackInv' BY DEF StackInv
<1>4. SessionsInv' BY DEF SessionsInv
<1>5. OutcomeInv' BY DEF OutcomeInv, CallsInv, SessionsInv
<1>6. CallerIsSafe' BY DEF CallerIsSafe, Innermost
<1>7. ReturnedIsDurable' BY DEF ReturnedIsDurable
<1> QED BY <1>1, <1>2, <1>3, <1>4, <1>5, <1>6, <1>7

(* A cleanup closes running rows, and their calls have not returned.       *)
LEMMA RestartStep ==
    ASSUME IInv, Restart
    PROVE  IInv'
<1> USE NoneAssumption DEF Restart, CloseStale, sessions, calls, IInv, TypeOK,
        Running, Over, Final, Owners
<1>1. TypeOK' OBVIOUS
<1>2. CallsInv' BY DEF CallsInv
<1>3. StackInv' BY DEF StackInv
<1>4. SessionsInv' BY DEF SessionsInv
<1>5. OutcomeInv' BY DEF OutcomeInv, CallsInv
<1>6. CallerIsSafe' BY DEF CallerIsSafe, Innermost, CallsInv
<1>7. ReturnedIsDurable' BY DEF ReturnedIsDurable, CallsInv
<1> QED BY <1>1, <1>2, <1>3, <1>4, <1>5, <1>6, <1>7
-----------------------------------------------------------------------------
(* Nothing has been called.                                                *)
LEMMA InitInv == Init => IInv
<1> SUFFICES ASSUME Init PROVE IInv OBVIOUS
<1> USE NoneAssumption, MaxCrashesAssumption DEF Init
<1>1. TypeOK
  <2>1. /\ status \in [Calls -> {"absent", "running"} \cup Final]
        /\ pending \in [Requests -> SUBSET Owners]
        /\ usable \in [Requests -> BOOLEAN]
    OBVIOUS
  <2>2. /\ pc \in [Calls -> {"idle"} \cup Running \cup Over]
        /\ db \in [Calls -> Requests \cup {None}]
        /\ parent \in [Calls -> Calls \cup {None}]
    OBVIOUS
  <2>3. crashes \in 0..MaxCrashes OBVIOUS
  <2>4. up \in BOOLEAN /\ jammed \in BOOLEAN BY Zenon
  <2> QED BY <2>1, <2>2, <2>3, <2>4 DEF TypeOK
<1>2. CallsInv /\ StackInv BY DEF CallsInv, StackInv, Running, Final
<1>3. SessionsInv /\ OutcomeInv BY DEF SessionsInv, OutcomeInv, Running, Final
<1>4. CallerIsSafe /\ ReturnedIsDurable
  BY DEF CallerIsSafe, ReturnedIsDurable, Innermost, Running, Final
<1> QED BY <1>1, <1>2, <1>3, <1>4 DEF IInv

(* Every step preserves the invariant.                                     *)
LEMMA NextInv ==
    ASSUME IInv, [Next]_vars
    PROVE  IInv'
<1>1. ASSUME NEW r \in Requests, Request(r) PROVE IInv'
  BY <1>1, RequestWriteStep, RequestCommitStep, RequestEndStep, CancelStep DEF Request
<1>2. ASSUME NEW r \in Requests, NEW c \in Calls, Invoke(c, r) PROVE IInv'
  BY <1>2, InvokeStep
<1>3. ASSUME NEW c \in Calls, NEW p \in Calls, InvokeNested(c, p) PROVE IInv'
  BY <1>3, InvokeNestedStep
<1>4. ASSUME NEW c \in Calls, LookUp(c) \/ Skill(c) PROVE IInv'
  BY <1>4, FindStep, RefuseStep, SkillWriteStep, SkillCommitStep, SkillBreaksStep,
     SkillRollbackStep, SkillEndsStep DEF LookUp, Skill
<1>5. ASSUME NEW c \in Calls, SkillTimesOut(c) \/ Finish(c) \/ Age(c) PROVE IInv'
  BY <1>5, SkillTimesOutStep, UpdateLogStep, UpdateRefusedStep, UpdateAgreesStep,
     UpdateImpossibleStep, AgeStep DEF Finish
<1>6. CASE UNCHANGED vars
  BY <1>6 DEF vars, log, sessions, calls, process, IInv, TypeOK, CallsInv, StackInv,
              SessionsInv, OutcomeInv, CallerIsSafe, ReturnedIsDurable, Innermost, Nested
<1> QED BY <1>1, <1>2, <1>3, <1>4, <1>5, <1>6, JamStep, CleanStep, CrashStep, RestartStep DEF Next

(* Which calls share a session, whose writes it holds, and how a call that *)
(* lost writes is kept from returning.                                     *)
THEOREM LogInductiveInvariant == Spec => []IInv
BY InitInv, NextInv, PTL DEF Spec

(* What the caller had written is committed before a skill runs, so that   *)
(* nothing a skill rolls back or breaks can take it away.                  *)
THEOREM CallerIsSafeHolds == Spec => []CallerIsSafe
<1>1. IInv => CallerIsSafe BY DEF IInv
<1> QED BY <1>1, LogInductiveInvariant, PTL

(* A SkillResult in the caller's hands stands for an ok row and for writes *)
(* that are durable.                                                       *)
THEOREM ReturnedIsDurableHolds == Spec => []ReturnedIsDurable
<1>1. IInv => ReturnedIsDurable BY DEF IInv
<1> QED BY <1>1, LogInductiveInvariant, PTL

-----------------------------------------------------------------------------
(* What each step does to the rows and to what callers hold.               *)

(* INSERT of the running row, or no row.                                   *)
LEMMA EnterOpens ==
    ASSUME NEW c \in Calls, NEW r, NEW p, IInv, pc[c] = "idle", Enter(c, r, p)
    PROVE  Row!Open(c) \/ UNCHANGED Row!vars
<1> USE DEF IInv, TypeOK, Enter, Commit, Break, Goto
<1>1. status[c] = "absent" BY DEF CallsInv
<1>2. {d \in Calls : pc'[d] = "returned"} = {d \in Calls : pc[d] = "returned"}
  OBVIOUS
<1> QED BY <1>1, <1>2 DEF Row!Open, Row!vars

(* The wrapper closes its own row with the status it came with.            *)
LEMMA UpdateLogSettles ==
    ASSUME NEW c \in Calls, IInv, UpdateLog(c), NEW v, v = pc[c]
    PROVE  v \in Row!Verdicts /\ Row!Settle(c, v)
<1> USE DEF IInv, TypeOK, UpdateLog, Told, Goto, Final
<1>1. {d \in Calls : pc'[d] = "returned"} =
        IF pc[c] = "ok" THEN {d \in Calls : pc[d] = "returned"} \cup {c}
        ELSE {d \in Calls : pc[d] = "returned"}
  OBVIOUS
<1> QED BY <1>1 DEF Row!Settle, Row!Verdicts

(* Both cleanups close running rows only.                                  *)
LEMMA CloseStaleCleansUp ==
    ASSUME IInv, CloseStale, UNCHANGED pc, NEW S, S = stale
    PROVE  S \in SUBSET Calls /\ Row!CleanUp(S)
BY DEF IInv, TypeOK, CallsInv, CloseStale, Row!CleanUp

(* No other step closes a row or hands a result to a caller.               *)
LEMMA OtherStepsStutter ==
    ASSUME IInv, UNCHANGED status,
           \A c \in Calls : pc'[c] = "returned" <=> pc[c] = "returned"
    PROVE  UNCHANGED Row!vars
BY DEF Row!vars

(* Every step maps to a step of the contract or to a stutter.              *)
LEMMA StepSimulates ==
    ASSUME IInv, [Next]_vars
    PROVE  [Row!Next]_(Row!vars)
<1>1. ASSUME NEW r \in Requests, Request(r) PROVE UNCHANGED Row!vars
  BY <1>1, OtherStepsStutter DEF Request, RequestWrite, RequestCommit, RequestEnd, Cancel,
     log, calls, IInv, TypeOK, Active, Running, Final
<1>2. ASSUME NEW r \in Requests, NEW c \in Calls, Invoke(c, r)
      PROVE  Row!Next \/ UNCHANGED Row!vars
  BY <1>2, EnterOpens DEF Invoke, Row!Next
<1>3. ASSUME NEW c \in Calls, NEW p \in Calls, InvokeNested(c, p)
      PROVE  Row!Next \/ UNCHANGED Row!vars
  BY <1>3, EnterOpens DEF InvokeNested, Row!Next
<1>4. ASSUME NEW c \in Calls, LookUp(c) \/ Skill(c) \/ SkillTimesOut(c) \/ Age(c)
      PROVE  UNCHANGED Row!vars
  <2> USE DEF IInv, TypeOK, Goto, log, calls
  <2>1. CASE LookUp(c) BY <2>1, OtherStepsStutter DEF LookUp, Find, Refuse
  <2>2. CASE Skill(c)
    BY <2>2, OtherStepsStutter DEF Skill, SkillWrite, SkillCommit, SkillBreaks, SkillRollback,
       SkillEnds, Executes
  <2>3. CASE SkillTimesOut(c)
    BY <2>3, OtherStepsStutter DEF SkillTimesOut, Nested, Running, Final
  <2>4. CASE Age(c) BY <2>4, OtherStepsStutter DEF Age
  <2> QED BY <1>4, <2>1, <2>2, <2>3, <2>4
<1>5. ASSUME NEW c \in Calls, Finish(c) PROVE Row!Next \/ UNCHANGED Row!vars
  <2>1. CASE UpdateLog(c)
    <3>1. PICK v : v = pc[c] OBVIOUS
    <3> QED BY <2>1, <3>1, UpdateLogSettles DEF Row!Next
  <2>2. CASE UpdateRefused(c) \/ UpdateAgrees(c) \/ UpdateImpossible(c)
    <3>1. pc[c] # "returned" /\ UNCHANGED status
      BY <2>2 DEF UpdateRefused, UpdateAgrees, UpdateImpossible, log, Final
    <3>2. pc' = [pc EXCEPT ![c] = "raised"]
      <4>1. CASE UpdateRefused(c) \/ UpdateImpossible(c)
        BY <4>1 DEF UpdateRefused, UpdateImpossible, Goto
      <4>2. CASE UpdateAgrees(c) BY <4>2 DEF UpdateAgrees, Told, Goto
      <4> QED BY <2>2, <4>1, <4>2
    <3> QED BY <3>1, <3>2, OtherStepsStutter DEF IInv, TypeOK
  <2> QED BY <1>5, <2>1, <2>2 DEF Finish
<1>6. CASE Clean \/ Restart
  <2>1. PICK S : S = stale OBVIOUS
  <2> QED BY <1>6, <2>1, CloseStaleCleansUp DEF Clean, Restart, calls, Row!Next
<1>7. CASE Crash
  BY <1>7, OtherStepsStutter DEF Crash, log, IInv, TypeOK, Running, Final
<1>8. CASE Jam \/ UNCHANGED vars BY <1>8, OtherStepsStutter DEF Jam, vars, log, calls
<1> QED BY <1>1, <1>2, <1>3, <1>4, <1>5, <1>6, <1>7, <1>8 DEF Next

(* The initial states map to the contract's.                               *)
LEMMA InitSimulates == Init => Row!Init
BY DEF Init, Row!Init

(* The rows that calls and cleanups write obey the contract of             *)
(* SkillLogRow: opened once, closed once, ok exactly when the caller was   *)
(* told of a success.                                                      *)
THEOREM ImplementsRow == Spec => RowSpec
BY InitSimulates, StepSimulates, LogInductiveInvariant, PTL DEF Spec, RowSpec, Row!Spec

(* A step of the contract leaves closed rows alone.                        *)
LEMMA ContractFreezes ==
    ASSUME [Row!Next]_(Row!vars), NEW c \in Calls, status[c] \in Final, IInv
    PROVE  status'[c] = status[c]
BY DEF Row!Next, Row!vars, Row!Open, Row!Settle, Row!CleanUp, Final, IInv, TypeOK

(* A closed row is never written again, by its call or by a cleanup.       *)
THEOREM FinalIsFinalHolds == Spec => FinalIsFinal
<1>1. IInv /\ [Next]_vars =>
        [\A c \in Calls : status[c] \in Final => status'[c] = status[c]]_vars
  BY StepSimulates, ContractFreezes
<1> QED BY <1>1, LogInductiveInvariant, PTL DEF Spec, FinalIsFinal
=============================================================================
