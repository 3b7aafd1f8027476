-------------------------- MODULE ApprovalsProofs --------------------------
(***************************************************************************)
(* Proofs about Approvals, for any calls, actions, sessions and grants:    *)
(* what the gateway executes was logged, authorized and either approved in *)
(* its session or granted, and an approval that comes late is refused.     *)
(***************************************************************************)
EXTENDS Approvals, TLAPS

(* A call that has started is about an action; past the commit of its log  *)
(* row it is logged; past the authority check it has the level and the     *)
(* trust its type needs.                                                   *)
Started(c) == pc[c] # "idle" => act[c] \in Actions

Logged(c) == pc[c] \in {"stage", "grant", "approval", "executed"} => c \in logged

Passed(c) ==
    pc[c] \in {"grant", "approval", "executed"} =>
        c \in able /\ (kind[act[c]] = "confirm" => seen[c] >= T3)

Based(c) ==
    pc[c] = "executed" =>
        \/ basis[c] = "approval" /\ ApprovedSession(owner[act[c]])
        \/ basis[c] \in granted \ narrow /\ seen[c] >= T3 /\ c \in scoped

(* A late approval meets the marker it came after.                         *)
Late(c) ==
    c \in late => /\ pc[c] \in {"lookup", "refused", "failed"}
                  /\ pc[c] = "lookup" => confirms[act[c]] # {}

CallInv(c) == Started(c) /\ Logged(c) /\ Passed(c) /\ Based(c) /\ Late(c)

IInv == TypeOK /\ \A c \in Calls : CallInv(c)

-----------------------------------------------------------------------------
(* The steps of others leave every call its standing: confirmations and    *)
(* grants are only added, and bounds and owners do not change.             *)
LEMMA Undisturbed ==
    ASSUME NEW c \in Calls, IInv, TypeOK',
           UNCHANGED <<owner, kind, narrow>>,
           \A a \in Actions : confirms[a] \subseteq confirms'[a],
           granted \subseteq granted',
           pc'[c] = pc[c], act'[c] = act[c], seen'[c] = seen[c], basis'[c] = basis[c],
           c \in late' => c \in late,
           c \in logged => c \in logged', c \in scoped => c \in scoped',
           c \in able => c \in able'
    PROVE  CallInv(c)'
<1> USE DEF IInv, CallInv
<1>1. Started(c)' /\ Logged(c)' BY DEF Started, Logged
<1>2. Passed(c)' BY DEF Passed
<1>3. Based(c)'
  <2> SUFFICES ASSUME pc[c] = "executed" PROVE Based(c)' BY DEF Based
  <2>1. CASE basis[c] = "approval" /\ ApprovedSession(owner[act[c]])
    BY <2>1 DEF Based, ApprovedSession
  <2>2. CASE basis[c] \in granted \ narrow /\ seen[c] >= T3 /\ c \in scoped
    BY <2>2 DEF Based
  <2> QED BY <2>1, <2>2 DEF Based
<1>4. Late(c)'
  <2> SUFFICES ASSUME c \in late PROVE Late(c)' BY DEF Late
  <2>1. pc[c] = "lookup" => confirms[act[c]] # {} /\ act[c] \in Actions BY DEF Late, Started
  <2> QED BY <2>1 DEF Late
<1> QED BY <1>1, <1>2, <1>3, <1>4

(* Once the type is kept, a call's step needs looking at that call only.   *)
LEMMA OwnStep ==
    ASSUME NEW c \in Calls, IInv, TypeOK', CallInv(c)',
           UNCHANGED <<owner, kind, authority>>,
           \A a \in Actions : confirms[a] \subseteq confirms'[a],
           \A d \in Calls \ {c} :
              /\ pc'[d] = pc[d] /\ act'[d] = act[d] /\ seen'[d] = seen[d] /\ basis'[d] = basis[d]
              /\ d \in late' => d \in late
              /\ d \in logged => d \in logged'
              /\ d \in scoped => d \in scoped'
              /\ d \in able => d \in able'
    PROVE  IInv'
<1>1. ASSUME NEW d \in Calls \ {c} PROVE CallInv(d)'
  BY <1>1, Undisturbed DEF authority
<1> QED BY <1>1 DEF IInv

-----------------------------------------------------------------------------
(* Each action preserves the inductive invariant.                          *)

LEMMA AuthorityStep ==
    ASSUME IInv, TrustMoves \/ \E g \in Grants : GrantStanding(g) \/ Lapse(g)
    PROVE  IInv'
<1> USE DEF TrustMoves, GrantStanding, Lapse, rows, calls
<1>1. TypeOK' BY DEF IInv, TypeOK
<1>2. UNCHANGED <<rows, narrow, calls>> /\ granted \subseteq granted' OBVIOUS
<1>3. ASSUME NEW c \in Calls PROVE CallInv(c)' BY <1>1, <1>2, Undisturbed
<1> QED BY <1>1, <1>3 DEF IInv

LEMMA ApproveStep ==
    ASSUME NEW c \in Calls, NEW a \in Actions, NEW s \in Sessions, NEW open \in BOOLEAN, IInv,
           Approve(c, a, s, open)
    PROVE  IInv'
<1> USE DEF IInv, Approve, Goto, rows, authority
<1>1. TypeOK' BY DEF TypeOK, Ends
<1>2. /\ pc'[c] \in {"lookup", "refused"} /\ act'[c] = a
      /\ c \in late' => c \in late \/ confirms[a] # {}
  BY DEF TypeOK
<1>3. c \notin late BY DEF CallInv, Late
<1>4. CallInv(c)' BY <1>2, <1>3 DEF CallInv, Started, Logged, Passed, Based, Late
<1> QED BY <1>1, <1>4, OwnStep DEF TypeOK

LEMMA CallDirectlyStep ==
    ASSUME NEW c \in Calls, NEW a \in Actions, IInv, CallDirectly(c, a)
    PROVE  IInv'
<1> USE DEF IInv, CallDirectly, Goto, rows, authority
<1>1. TypeOK' BY DEF TypeOK, Ends
<1>2. pc'[c] = "log" /\ act'[c] = a BY DEF TypeOK
<1>3. c \notin late BY DEF CallInv, Late
<1>4. CallInv(c)' BY <1>2, <1>3 DEF CallInv, Started, Logged, Passed, Based, Late
<1> QED BY <1>1, <1>4, OwnStep DEF TypeOK

(* The look-up keeps a late approval out, whatever the count.              *)
LEMMA LookUpStep ==
    ASSUME NEW c \in Calls, IInv, LookUp(c) \/ Fail(c)
    PROVE  IInv'
<1> USE DEF IInv, Goto, rows, authority
<1>1. PICK l \in {"insert", "refused", "failed"} :
        /\ pc' = [pc EXCEPT ![c] = l]
        /\ l = "insert" => pc[c] = "lookup" /\ confirms[act[c]] = {}
        /\ pc[c] # "idle"
  BY DEF LookUp, Fail
<1>2. UNCHANGED <<rows, authority, act, direct, able, scoped, late, logged, seen, basis>>
  BY DEF LookUp, Fail
<1>3. TypeOK' BY <1>1, <1>2 DEF TypeOK, Ends
<1>4. pc'[c] = l BY <1>1 DEF TypeOK
<1>5. CallInv(c)' BY <1>1, <1>2, <1>4 DEF CallInv, Started, Logged, Passed, Based, Late
<1> QED BY <1>1, <1>2, <1>3, <1>5, OwnStep DEF TypeOK

LEMMA ConfirmStep ==
    ASSUME NEW c \in Calls, IInv, Confirm(c)
    PROVE  IInv'
<1> USE DEF IInv, Confirm, Goto, rows, authority
<1>1. act[c] \in Actions BY DEF CallInv, Started
<1>2. TypeOK' BY <1>1 DEF TypeOK, Ends
<1>3. \A b \in Actions : confirms[b] \subseteq confirms'[b] BY DEF TypeOK
<1>4. pc'[c] = "log" /\ c \notin late BY DEF TypeOK, CallInv, Late
<1>5. CallInv(c)' BY <1>1, <1>4 DEF CallInv, Started, Logged, Passed, Based, Late
<1> QED BY <1>2, <1>3, <1>5, OwnStep DEF TypeOK

LEMMA LogFirstStep ==
    ASSUME NEW c \in Calls, IInv, LogFirst(c)
    PROVE  IInv'
<1> USE DEF IInv, LogFirst, Goto, rows, authority
<1>1. TypeOK' BY DEF TypeOK, Ends
<1>2. pc'[c] = "stage" /\ c \notin late /\ act[c] \in Actions
  BY DEF TypeOK, CallInv, Late, Started
<1>3. CallInv(c)' BY <1>2 DEF CallInv, Started, Logged, Passed, Based, Late
<1> QED BY <1>1, <1>3, OwnStep DEF TypeOK

(* The authority check passes what has the trust its type needs.           *)
LEMMA ReadStageStep ==
    ASSUME NEW c \in Calls, IInv, ReadStage(c)
    PROVE  IInv'
<1> USE DEF IInv, ReadStage, Goto, rows, authority
<1>1. TypeOK' BY DEF TypeOK, Ends
<1>2. /\ pc'[c] = IF Authorized(c, stage) THEN "grant" ELSE "blocked"
      /\ seen'[c] = stage /\ able' = able
      /\ c \notin late /\ c \in logged /\ act[c] \in Actions
  BY DEF TypeOK, CallInv, Late, Started, Logged
<1>3. CallInv(c)'
  BY <1>2 DEF CallInv, Started, Logged, Passed, Based, Late, Authorized
<1> QED BY <1>1, <1>3, OwnStep DEF TypeOK

LEMMA FindGrantStep ==
    ASSUME NEW c \in Calls, IInv, FindGrant(c)
    PROVE  IInv'
<1> USE DEF IInv, FindGrant, Goto, rows, authority
<1>1. TypeOK' BY DEF TypeOK, Ends
<1>2. /\ c \notin late /\ c \in logged /\ act[c] \in Actions
      /\ kind[act[c]] = "confirm" => seen[c] >= T3
  BY DEF CallInv, Late, Started, Logged, Passed
<1>3. \/ pc'[c] = "approval"
      \/ pc'[c] = "executed" /\ basis'[c] \in Valid /\ seen[c] >= T3 /\ c \in scoped
  BY DEF TypeOK
<1>4. CallInv(c)'
  BY <1>2, <1>3 DEF CallInv, Started, Logged, Passed, Based, Late, Valid
<1> QED BY <1>1, <1>4, OwnStep DEF TypeOK

LEMMA CheckApprovalStep ==
    ASSUME NEW c \in Calls, IInv, CheckApproval(c)
    PROVE  IInv'
<1> USE DEF IInv, CheckApproval, Goto, rows, authority
<1>1. TypeOK' BY DEF TypeOK, Ends
<1>2. /\ c \notin late /\ c \in logged /\ act[c] \in Actions
      /\ kind[act[c]] = "confirm" => seen[c] >= T3
  BY DEF CallInv, Late, Started, Logged, Passed
<1>3. \/ pc'[c] = "blocked"
      \/ pc'[c] = "executed" /\ basis'[c] = "approval" /\ ApprovedSession(owner[act[c]])
  BY DEF TypeOK
<1>4. CallInv(c)'
  BY <1>2, <1>3 DEF CallInv, Started, Logged, Passed, Based, Late, ApprovedSession
<1> QED BY <1>1, <1>4, OwnStep DEF TypeOK

-----------------------------------------------------------------------------
LEMMA ApprovalsInvariant == Spec => []IInv
<1>1. Init => IInv
  <2> SUFFICES ASSUME Init PROVE IInv OBVIOUS
  <2>1. TypeOK BY DEF Init, TypeOK, Ends
  <2>2. \A c \in Calls : CallInv(c)
    BY DEF Init, CallInv, Started, Logged, Passed, Based, Late
  <2> QED BY <2>1, <2>2 DEF IInv
<1>2. IInv /\ [Next]_vars => IInv'
  <2> SUFFICES ASSUME IInv, [Next]_vars PROVE IInv' OBVIOUS
  <2>1. CASE Next
    BY <2>1, AuthorityStep, ApproveStep, CallDirectlyStep, LookUpStep, ConfirmStep,
       LogFirstStep, ReadStageStep, FindGrantStep, CheckApprovalStep DEF Next, Call, Gateway
  <2>2. CASE UNCHANGED vars
    <3> USE <2>2 DEF vars, rows, authority, calls
    <3>1. TypeOK' BY DEF IInv, TypeOK
    <3>2. ASSUME NEW c \in Calls PROVE CallInv(c)' BY <3>1, Undisturbed
    <3> QED BY <3>1, <3>2 DEF IInv
  <2> QED BY <2>1, <2>2
<1> QED BY <1>1, <1>2, PTL DEF Spec

(* Type correctness of the gateway's state.                                *)
THEOREM ApprovalsTypeCorrect == Spec => []TypeOK
<1>1. IInv => TypeOK BY DEF IInv
<1> QED BY <1>1, ApprovalsInvariant, PTL

(* Whatever the interleaving of approvals, direct calls, grants and trust, *)
(* the gateway executes nothing unlogged, unauthorized or without either a *)
(* confirmation of the session or a grant within its bounds.               *)
THEOREM ExecutedIsAuthorizedHolds == Spec => []ExecutedIsAuthorized
<1>1. IInv => ExecutedIsAuthorized
  BY DEF IInv, CallInv, Logged, Passed, Based, ExecutedIsAuthorized
<1> QED BY <1>1, ApprovalsInvariant, PTL

(* An approval that finds an earlier one committed is refused or fails, as *)
(* approve_action intends.                                                 *)
THEOREM LateIsRefusedHolds == Spec => []LateIsRefused
<1>1. IInv => LateIsRefused
  BY DEF IInv, TypeOK, CallInv, Late, LateIsRefused
<1> QED BY <1>1, ApprovalsInvariant, PTL
=============================================================================
