----------------------------- MODULE TurnProofs -----------------------------
(***************************************************************************)
(* Proofs about Turn, for any number of retries and turns: whatever the    *)
(* model answers, a turn's requests are bounded and its answer is grounded.*)
(* Then about NodeReaders, for any table of nodes and any limits: what the *)
(* packet of a turn holds, and what the dashboard shows of the same nodes. *)
(***************************************************************************)
EXTENDS Turn, NodeReaders, FiniteSets, Sequences, FiniteSetTheorems, SequenceTheorems,
        WellFoundedInduction, TLAPS

(* How many requests may have been made where the turn stands.             *)
CallsBefore == IF prompt = 1 THEN 2 ELSE 2 + (MaxRetries + 2)

Allowance ==
    CASE pc \in {"init", "parse"} -> 0
      [] pc = "reparse" -> 1
      [] pc \in {"route", "assemble"} -> 2
      [] pc = "reason" -> CallsBefore + tries
      [] pc = "reask" -> CallsBefore + tries + 1
      [] pc = "validate" -> CallsBefore + MaxRetries + 2
      [] OTHER -> CallLimit

CallsInv == calls <= Allowance

(* A turn under way has neither ended nor written; before it reasons it is *)
(* at its first prompt, and past the router its intent is unambiguous.     *)
FreshInv ==
    /\ pc \in Stages => outcome = "none" /\ rows = 0 /\ queue = 0
    /\ pc \in {"init", "parse", "reparse", "route", "assemble"} => prompt = 1 /\ tries = 0

Grounded == intent.named /\ ~intent.ambiguous

IntentInv ==
    /\ pc = "route" => intent \in Intents /\ (intent.named \/ intent.ambiguous)
    /\ pc \in {"assemble", "reason", "reask", "validate", "finish"} =>
          intent \in Intents /\ Grounded
    /\ pc = "finish" => output \in Valid

IInv == TypeOK /\ CallsInv /\ FreshInv /\ IntentInv /\ AnswerIsGrounded

-----------------------------------------------------------------------------
LEMMA IntentIsRecord == NoIntent \notin Intents /\ NoIntent.action = "none"
BY DEF NoIntent, Intents, Actions

LEMMA ParsedIntents ==
    /\ [action |-> "clarify", pillars |-> "one", named |-> FALSE, ambiguous |-> TRUE] \in Intents
    /\ \A a \in Actions, p \in Pillars \cup {"none"}, flag \in BOOLEAN :
          /\ Defaulted(a, p, flag) \in Intents
          /\ Defaulted(a, p, flag).named \/ Defaulted(a, p, flag).ambiguous
<1>1. [action |-> "clarify", pillars |-> "one", named |-> FALSE, ambiguous |-> TRUE] \in Intents
  BY DEF Intents, Actions, Pillars
<1>2. ASSUME NEW a \in Actions, NEW p \in Pillars \cup {"none"}, NEW flag \in BOOLEAN
      PROVE  /\ Defaulted(a, p, flag) \in Intents
             /\ Defaulted(a, p, flag).named \/ Defaulted(a, p, flag).ambiguous
  <2>1. (IF p = "none" THEN "one" ELSE p) \in Pillars BY DEF Pillars
  <2>2. (p # "none") \in BOOLEAN /\ (flag \/ p = "none") \in BOOLEAN OBVIOUS
  <2>3. Defaulted(a, p, flag) \in Intents BY <2>1, <2>2 DEF Defaulted, Intents
  <2>4. Defaulted(a, p, flag).named \/ Defaulted(a, p, flag).ambiguous BY DEF Defaulted
  <2> QED BY <2>3, <2>4
<1> QED BY <1>1, <1>2

(* A request is counted, for the allowance leaves room for it.             *)
LEMMA Requested ==
    ASSUME IInv, Request, pc \in {"parse", "reparse", "reason", "reask"}
    PROVE  calls' = calls + 1 /\ calls' \in 0..CallLimit
<1> USE BoundsAssumption DEF IInv, TypeOK, CallsInv, FreshInv, Request, CallLimit
<1>1. calls \in Nat /\ tries \in Nat /\ tries <= MaxRetries /\ MaxRetries \in Nat
      /\ prompt \in {1, 2}
  OBVIOUS
<1>2. calls + 1 <= CallLimit
  <2>1. CASE pc \in {"parse", "reparse"} BY <1>1, <2>1 DEF Allowance
  <2>2. CASE pc \in {"reason", "reask"}
    <3>1. CallsBefore <= 2 + (MaxRetries + 2) /\ CallsBefore \in Nat BY <1>1 DEF CallsBefore
    <3>2. Allowance \in Nat /\ Allowance <= CallsBefore + tries + 1
      BY <1>1, <2>2, <3>1 DEF Allowance
    <3> QED BY <1>1, <3>1, <3>2
  <2>3. pc \in {"parse", "reparse"} \/ pc \in {"reason", "reask"} OBVIOUS
  <2> QED BY ONLY <2>1, <2>2, <2>3
<1>3. calls' = calls + 1 BY <1>1, <1>2
<1> QED BY <1>1, <1>2, <1>3

(* An exception ends the turn without an answer.                           *)
LEMMA RaisedAfter ==
    ASSUME IInv, NEW f \in Faults, NEW r \in 0..1, rows + r \in 0..2, RaiseAfter(f, r),
           calls' \in 0..CallLimit
    PROVE  IInv'
<1> USE BoundsAssumption DEF IInv, RaiseAfter
<1>1. TypeOK' BY DEF TypeOK, CallLimit
<1>2. CallsInv' BY DEF CallsInv, Allowance, CallLimit
<1>3. FreshInv' /\ IntentInv' /\ AnswerIsGrounded'
  BY DEF FreshInv, IntentInv, AnswerIsGrounded, Stages
<1> QED BY <1>1, <1>2, <1>3

LEMMA Raised ==
    ASSUME IInv, NEW f \in Faults, Raise(f), calls' \in 0..CallLimit
    PROVE  IInv'
<1>1. rows + 0 \in 0..2 BY DEF IInv, TypeOK
<1> QED BY <1>1, RaisedAfter DEF Raise

-----------------------------------------------------------------------------
(* Each action preserves the inductive invariant.                          *)

LEMMA BeginStep == ASSUME IInv, Begin PROVE IInv'
<1> USE BoundsAssumption DEF IInv, Begin
<1>1. TypeOK' BY DEF TypeOK, Stages, CallLimit
<1>2. CallsInv' BY DEF CallsInv, Allowance
<1>3. FreshInv' /\ IntentInv' /\ AnswerIsGrounded'
  BY DEF FreshInv, IntentInv, AnswerIsGrounded
<1> QED BY <1>1, <1>2, <1>3

(* The stages before reasoning.                                            *)
LEMMA EarlyStep ==
    ASSUME IInv, Initialize \/ ParseNothing \/ ParseIntent \/ Route
    PROVE  IInv'
<1> USE BoundsAssumption, IntentIsRecord DEF IInv, Goto, Result
<1>1. CASE Initialize
  <2> USE <1>1 DEF Initialize
  <2>1. TypeOK' BY DEF TypeOK, Stages
  <2>2. CallsInv' BY DEF CallsInv, Allowance
  <2>3. FreshInv' /\ IntentInv' /\ AnswerIsGrounded'
    BY DEF FreshInv, IntentInv, AnswerIsGrounded, Stages
  <2> QED BY <2>1, <2>2, <2>3
<1>2. CASE ParseNothing
  <2> USE <1>2 DEF ParseNothing
  <2>1. calls' = calls + 1 /\ calls' \in 0..CallLimit BY Requested
  <2>2. /\ intent' \in Intents \cup {NoIntent}
        /\ pc' = "route" => intent' \in Intents /\ intent'.ambiguous
    <3>1. CASE pc = "parse"
      <4>1. intent' = intent /\ pc' = "reparse" BY <3>1
      <4> QED BY <4>1 DEF TypeOK
    <3>2. CASE pc = "reparse"
      <4>1. /\ intent' = [action |-> "clarify", pillars |-> "one", named |-> FALSE,
                          ambiguous |-> TRUE]
            /\ intent'.ambiguous
        BY <3>2
      <4> QED BY <4>1, ParsedIntents
    <3> QED BY <3>1, <3>2
  <2>3. TypeOK' BY <2>1, <2>2 DEF TypeOK, Stages, CallLimit
  <2>4. CallsInv' BY <2>1 DEF TypeOK, CallsInv, Allowance
  <2>5. FreshInv' /\ AnswerIsGrounded'
    BY DEF FreshInv, AnswerIsGrounded, Stages
  <2>6. IntentInv' BY <2>2 DEF IntentInv
  <2> QED BY <2>3, <2>4, <2>5, <2>6
<1>3. CASE ParseIntent
  <2> USE <1>3 DEF ParseIntent
  <2>1. calls' = calls + 1 /\ calls' \in 0..CallLimit BY Requested
  <2>2. intent' \in Intents /\ (intent'.named \/ intent'.ambiguous)
    BY ParsedIntents
  <2>3. TypeOK' BY <2>1, <2>2 DEF TypeOK, Stages, CallLimit
  <2>4. CallsInv' BY <2>1 DEF TypeOK, CallsInv, Allowance
  <2>5. FreshInv' /\ AnswerIsGrounded' BY DEF FreshInv, AnswerIsGrounded, Stages
  <2>6. IntentInv' BY <2>2 DEF IntentInv
  <2> QED BY <2>3, <2>4, <2>5, <2>6
<1>4. CASE Route
  <2> USE <1>4 DEF Route
  <2>1. mode' \in Modes
    <3>1. \A i : RoutingMode(i) \in Modes BY DEF RoutingMode, Modes
    <3> QED BY <3>1
  <2>2. intent \in Intents /\ Grounded BY DEF IntentInv, Grounded
  <2>3. TypeOK' BY <2>1, <2>2 DEF TypeOK, Stages
  <2>4. CallsInv' BY DEF CallsInv, Allowance
  <2>5. FreshInv' /\ AnswerIsGrounded' BY DEF FreshInv, AnswerIsGrounded, Stages
  <2>6. IntentInv' BY <2>2 DEF IntentInv, Grounded
  <2> QED BY <2>3, <2>4, <2>5, <2>6
<1> QED BY <1>1, <1>2, <1>3, <1>4

(* The steps that end the turn with a reply.                               *)
LEMMA ReplyStep ==
    ASSUME IInv, UNCHANGED calls,
           \E o \in {"clarified", "answered", "unanswered", "flagged"}, q \in 0..2 :
              /\ End(o, 2, q)
              /\ o = "answered" => output \in Valid /\ Grounded
           , pc \in Stages
    PROVE  IInv'
<1> USE BoundsAssumption DEF IInv, End
<1>1. rows' = 2 /\ queue' \in 0..2 BY DEF FreshInv
<1>2. TypeOK' BY <1>1 DEF TypeOK, Stages
<1>3. CallsInv'
  <2>1. CallsBefore \in Nat /\ CallsBefore <= 2 + (MaxRetries + 2)
    BY DEF TypeOK, CallsBefore
  <2>2. Allowance <= CallLimit
    BY <2>1 DEF TypeOK, Allowance, CallLimit
  <2>3. Allowance' = CallLimit BY DEF Allowance, CallLimit
  <2>4. calls \in Nat /\ CallLimit \in Nat BY DEF TypeOK, CallLimit
  <2>5. Allowance \in Nat BY <2>1 DEF TypeOK, Allowance, CallLimit
  <2> QED BY <2>2, <2>3, <2>4, <2>5 DEF CallsInv
<1>4. FreshInv' /\ IntentInv' BY DEF FreshInv, IntentInv, Stages
<1>5. AnswerIsGrounded' BY DEF AnswerIsGrounded, Grounded
<1> QED BY <1>2, <1>3, <1>4, <1>5

(* From the router to the validator; raising is Raised.                    *)
LEMMA ReasonStep ==
    ASSUME IInv, Assemble \/ Unavailable \/ NotJson \/ Json \/ Validate,
           pc' # "idle"
    PROVE  IInv'
<1> USE BoundsAssumption DEF IInv, Goto, Result
<1>0. /\ calls \in Nat /\ tries \in Nat /\ tries <= MaxRetries /\ prompt \in {1, 2}
      /\ CallsBefore \in Nat
  BY DEF TypeOK, CallsBefore
<1>1. CASE Assemble
  <2> USE <1>1 DEF Assemble, Raise, RaiseAfter
  <2>1. TypeOK' BY DEF TypeOK, Stages
  <2>2. CallsInv' BY <1>0 DEF CallsInv, Allowance, CallsBefore, FreshInv
  <2>3. FreshInv' /\ AnswerIsGrounded' BY DEF FreshInv, AnswerIsGrounded, Stages
  <2>4. IntentInv' BY DEF IntentInv, Grounded
  <2> QED BY <2>1, <2>2, <2>3, <2>4
<1>2. CASE Unavailable
  <2> USE <1>2 DEF Unavailable, Raise, RaiseAfter
  <2>1. calls' = calls + 1 /\ calls' \in 0..CallLimit BY Requested
  <2>2. tries' = tries + 1 /\ tries < MaxRetries /\ UNCHANGED <<intent, mode, prompt, output, turns>>
    OBVIOUS
  <2>3. TypeOK' BY <1>0, <2>1, <2>2 DEF TypeOK, Stages, CallLimit
  <2>4. CallsInv' BY <1>0, <2>1, <2>2 DEF CallsInv, Allowance, CallsBefore
  <2>5. FreshInv' /\ AnswerIsGrounded' BY <2>2 DEF FreshInv, AnswerIsGrounded, Stages
  <2>6. IntentInv' BY <2>2 DEF IntentInv, Grounded
  <2> QED BY <2>3, <2>4, <2>5, <2>6
<1>3. CASE NotJson
  <2> USE <1>3 DEF NotJson, Raise, RaiseAfter
  <2>1. calls' = calls + 1 /\ calls' \in 0..CallLimit BY Requested
  <2>2. pc = "reason" /\ UNCHANGED <<intent, mode, prompt, tries, output, turns>> OBVIOUS
  <2>3. TypeOK' BY <2>1, <2>2 DEF TypeOK, Stages, CallLimit
  <2>4. CallsInv' BY <1>0, <2>1, <2>2 DEF CallsInv, Allowance, CallsBefore
  <2>5. FreshInv' /\ AnswerIsGrounded' BY <2>2 DEF FreshInv, AnswerIsGrounded, Stages
  <2>6. IntentInv' BY <2>2 DEF IntentInv, Grounded
  <2> QED BY <2>3, <2>4, <2>5, <2>6
<1>4. CASE Json
  <2> USE <1>4 DEF Json
  <2>1. calls' = calls + 1 /\ calls' \in 0..CallLimit BY Requested
  <2>2. TypeOK' BY <2>1 DEF TypeOK, Stages, CallLimit
  <2>3. CallsInv'
    <3>1. calls <= CallsBefore + tries + 1 BY <1>0 DEF CallsInv, Allowance
    <3>2. CallsBefore' = CallsBefore BY DEF CallsBefore
    <3> QED BY <1>0, <2>1, <3>1, <3>2 DEF CallsInv, Allowance
  <2>4. FreshInv' /\ AnswerIsGrounded' BY DEF FreshInv, AnswerIsGrounded, Stages
  <2>5. IntentInv' BY DEF IntentInv, Grounded
  <2> QED BY <2>2, <2>3, <2>4, <2>5
<1>5. CASE Validate
  <2> USE <1>5 DEF Validate, Raise, RaiseAfter, End
  <2>1. TypeOK' BY DEF TypeOK, Stages
  <2>2. CallsInv'
    <3>1. CASE pc' = "finish"
      <4>1. Allowance' = CallLimit BY <3>1 DEF Allowance, CallLimit
      <4>2. Allowance <= CallLimit
        BY <1>0 DEF Allowance, CallLimit, CallsBefore
      <4>3. Allowance \in Nat /\ CallLimit \in Nat BY <1>0 DEF Allowance, CallLimit
      <4> QED BY <1>0, <4>1, <4>2, <4>3 DEF CallsInv
    <3>2. CASE pc' = "reason"
      <4>1. prompt = 1 /\ prompt' = 2 /\ tries' = 0 BY <3>2
      <4> QED BY <1>0, <3>2, <4>1 DEF CallsInv, Allowance, CallsBefore
    <3> QED BY <3>1, <3>2
  <2>3. FreshInv' /\ AnswerIsGrounded' BY DEF FreshInv, AnswerIsGrounded, Stages
  <2>4. IntentInv' BY DEF IntentInv, Grounded
  <2> QED BY <2>1, <2>2, <2>3, <2>4
<1> QED BY <1>1, <1>2, <1>3, <1>4, <1>5

(* Without a request the count stays within the limit.                     *)
LEMMA WithinLimit ==
    ASSUME IInv
    PROVE  calls \in 0..CallLimit
<1> USE BoundsAssumption DEF IInv, TypeOK
<1>1. /\ calls \in Nat /\ tries \in Nat /\ tries <= MaxRetries
      /\ CallsBefore \in Nat /\ CallsBefore <= 2 + (MaxRetries + 2)
  BY DEF CallsBefore
<1>2. Allowance <= CallLimit /\ Allowance \in Nat BY <1>1 DEF Allowance, CallLimit
<1>3. CallLimit \in Nat BY DEF CallLimit
<1> QED BY <1>1, <1>2, <1>3 DEF CallsInv

(* Every way to raise.                                                     *)
LEMMA RaiseStep ==
    ASSUME IInv,
           \/ SkillFails \/ ParseOdd \/ Refused \/ ReaskFails
           \/ pc' = "idle" /\ (Assemble \/ Unavailable \/ NotJson)
    PROVE  IInv'
<1>1. ASSUME UNCHANGED calls PROVE calls' \in 0..CallLimit BY <1>1, WithinLimit
<1>2. ASSUME Request, pc \in {"parse", "reparse", "reason", "reask"}
      PROVE  calls' \in 0..CallLimit
  BY <1>2, Requested
<1>3. CASE SkillFails BY <1>1, <1>3, Raised DEF SkillFails, Faults
<1>4. CASE ParseOdd BY <1>2, <1>4, Raised DEF ParseOdd, Faults
<1>5. CASE Refused BY <1>2, <1>5, Raised DEF Refused, Faults
<1>6. CASE ReaskFails BY <1>2, <1>6, Raised DEF ReaskFails, Faults
<1>7. CASE Assemble /\ pc' = "idle"
  BY <1>1, <1>7, Raised DEF Assemble, Faults, Goto
<1>8. CASE Unavailable /\ pc' = "idle"
  BY <1>2, <1>8, Raised DEF Unavailable, Faults, Goto
<1>9. CASE NotJson /\ pc' = "idle"
  BY <1>2, <1>9, Raised DEF NotJson, Faults, Goto
<1> QED BY <1>3, <1>4, <1>5, <1>6, <1>7, <1>8, <1>9

(* The validator and the reply, where they end the turn.                   *)
LEMMA EndStep ==
    ASSUME IInv, Clarify \/ Finish \/ (Validate /\ pc' = "idle")
    PROVE  IInv'
<1>1. CASE Clarify
  <2>1. pc \in Stages /\ UNCHANGED calls /\ End("clarified", 2, 0)
    BY <1>1 DEF Clarify, Stages
  <2> QED BY <2>1, ReplyStep
<1>2. CASE Finish
  <2>1. pc \in Stages /\ UNCHANGED calls /\ output \in Valid /\ Grounded
    BY <1>2 DEF Finish, Stages, IInv, IntentInv
  <2>2. CASE Raise("request") BY <2>1, <2>2, WithinLimit, Raised DEF Faults
  <2>3. CASE End("unanswered", 2, 0) BY <2>1, <2>3, ReplyStep
  <2>4. CASE End("answered", 2, 2) BY <2>1, <2>4, ReplyStep
  <2>5. CASE End("answered", 2, 0) BY <2>1, <2>5, ReplyStep
  <2>6. CASE RaiseAfter("reply", 1)
    <3>1. rows + 1 \in 0..2 BY <2>1 DEF IInv, FreshInv
    <3> QED BY <2>1, <2>6, <3>1, WithinLimit, RaisedAfter DEF Faults
  <2>7. \/ Raise("request") \/ End("unanswered", 2, 0) \/ RaiseAfter("reply", 1)
        \/ End("answered", 2, 2) \/ End("answered", 2, 0)
    BY <1>2, <2>1 DEF Finish, Valid
  <2> QED BY <2>2, <2>3, <2>4, <2>5, <2>6, <2>7
<1>3. CASE Validate /\ pc' = "idle"
  <2>1. pc \in Stages /\ UNCHANGED calls BY <1>3 DEF Validate, Stages
  <2>2. Raise("shape") \/ End("flagged", 2, 0) BY <1>3 DEF Validate, Goto
  <2>3. CASE Raise("shape") BY <2>1, <2>3, WithinLimit, Raised DEF Faults
  <2>4. CASE End("flagged", 2, 0) BY <2>1, <2>4, ReplyStep
  <2> QED BY <2>2, <2>3, <2>4
<1> QED BY <1>1, <1>2, <1>3

-----------------------------------------------------------------------------
LEMMA TurnInvariant == Spec => []IInv
<1>1. Init => IInv
  <2> SUFFICES ASSUME Init PROVE IInv OBVIOUS
  <2> USE BoundsAssumption DEF Init
  <2>1. TypeOK BY DEF TypeOK, CallLimit
  <2>2. CallsInv BY DEF CallsInv, Allowance, CallLimit
  <2>3. FreshInv /\ IntentInv /\ AnswerIsGrounded
    BY DEF FreshInv, IntentInv, AnswerIsGrounded, Stages
  <2> QED BY <2>1, <2>2, <2>3 DEF IInv
<1>2. IInv /\ [Next]_vars => IInv'
  <2> SUFFICES ASSUME IInv, [Next]_vars PROVE IInv' OBVIOUS
  <2>1. CASE Next
    <3>1. Json => pc' # "idle" BY DEF Json, Goto
    <3>2. CASE pc' # "idle" /\ (Assemble \/ Unavailable \/ NotJson \/ Json \/ Validate)
      BY <3>2, ReasonStep
    <3>3. CASE pc' = "idle" /\ (Assemble \/ Unavailable \/ NotJson \/ Validate)
      BY <3>3, RaiseStep, EndStep
    <3>4. CASE SkillFails \/ ParseOdd \/ Refused \/ ReaskFails BY <3>4, RaiseStep
    <3>5. CASE Begin \/ Initialize \/ ParseNothing \/ ParseIntent \/ Route
      BY <3>5, BeginStep, EarlyStep
    <3>6. CASE Clarify \/ Finish BY <3>6, EndStep
    <3> QED BY <2>1, <3>1, <3>2, <3>3, <3>4, <3>5, <3>6 DEF Next, Step
  <2>2. CASE UNCHANGED vars
    BY <2>2 DEF vars, IInv, TypeOK, CallsInv, Allowance, CallsBefore, FreshInv, IntentInv,
                Grounded, AnswerIsGrounded
  <2> QED BY <2>1, <2>2
<1> QED BY <1>1, <1>2, PTL DEF Spec

(* Type correctness of a turn.                                             *)
THEOREM TurnTypeCorrect == Spec => []TypeOK
<1>1. IInv => TypeOK BY DEF IInv
<1> QED BY <1>1, TurnInvariant, PTL

(* Retries, the second request for JSON and the second prompt multiply to  *)
(* CallLimit and no further, whatever MAX_RETRIES is.                      *)
THEOREM CallsBoundedHolds == Spec => []CallsBounded
<1>1. IInv => CallsBounded BY WithinLimit, BoundsAssumption DEF CallsBounded, CallLimit
<1> QED BY <1>1, TurnInvariant, PTL

(* An answer passed the validator and rests on an intent the parser found. *)
THEOREM AnswerIsGroundedHolds == Spec => []AnswerIsGrounded
<1>1. IInv => AnswerIsGrounded BY DEF IInv
<1> QED BY <1>1, TurnInvariant, PTL

-----------------------------------------------------------------------------
(* The readers of the node table sort it three times.                      *)

(* R orders the members of S strictly and totally.                         *)
Orders(R, S) ==
    /\ \A m \in S : <<m, m>> \notin R
    /\ \A m, n, o \in S : <<m, n>> \in R /\ <<n, o>> \in R => <<m, o>> \in R
    /\ \A m, n \in S : m # n => <<m, n>> \in R \/ <<n, m>> \in R

Under(n, R, S) == {m \in S : <<m, n>> \in R}

(* What comes later has more below it, and each place is someone's.        *)
LEMMA RanksGrow ==
    ASSUME NEW S, IsFiniteSet(S), NEW R, Orders(R, S), NEW m \in S, NEW n \in S, <<m, n>> \in R
    PROVE  Cardinality(Under(m, R, S)) < Cardinality(Under(n, R, S))
<1>1. Under(m, R, S) \subseteq Under(n, R, S) BY DEF Orders, Under
<1>2. m \in Under(n, R, S) /\ m \notin Under(m, R, S) BY DEF Orders, Under
<1>3. IsFiniteSet(Under(n, R, S)) BY FS_Subset DEF Under
<1>4. /\ Cardinality(Under(m, R, S)) <= Cardinality(Under(n, R, S))
      /\ Cardinality(Under(m, R, S)) # Cardinality(Under(n, R, S))
  BY <1>1, <1>2, <1>3, FS_Subset
<1>5. IsFiniteSet(Under(m, R, S)) BY <1>1, <1>3, FS_Subset
<1> QED BY <1>3, <1>4, <1>5, FS_CardinalityType

LEMMA RanksFill ==
    ASSUME NEW S, IsFiniteSet(S), NEW R, Orders(R, S), NEW i \in 1..Cardinality(S)
    PROVE  \E n \in S : Cardinality(Under(n, R, S)) = i - 1
<1> DEFINE c == Cardinality(S)
           rank == [n \in S |-> Cardinality(Under(n, R, S))]
<1>1. c \in Nat BY FS_CardinalityType
<1>2. ASSUME NEW n \in S PROVE rank[n] \in 0..(c - 1)
  <2>1. Under(n, R, S) \subseteq S /\ n \notin Under(n, R, S) BY DEF Orders, Under
  <2>2. Cardinality(Under(n, R, S)) <= c /\ Cardinality(Under(n, R, S)) # c
        /\ IsFiniteSet(Under(n, R, S))
    BY <2>1, FS_Subset
  <2> QED BY <1>1, <2>2, FS_CardinalityType
<1>3. rank \in Injection(S, 0..(c - 1))
  <2>1. ASSUME NEW m \in S, NEW n \in S, m # n PROVE rank[m] # rank[n]
    <3>1. <<m, n>> \in R \/ <<n, m>> \in R BY <2>1 DEF Orders
    <3>2. rank[m] < rank[n] \/ rank[n] < rank[m] BY <3>1, RanksGrow
    <3>3. rank[m] \in Int /\ rank[n] \in Int BY <1>2
    <3> QED BY <3>2, <3>3
  <2>2. rank \in [S -> 0..(c - 1)] BY <1>2
  <2> QED BY <2>1, <2>2 DEF Injection, IsInjective
<1>4. IsFiniteSet(0..(c - 1)) /\ Cardinality(0..(c - 1)) = c
  <2> HIDE DEF c
  <2>1. 0 \in Int /\ c - 1 \in Int BY <1>1
  <2>2. /\ IsFiniteSet(0..(c - 1))
        /\ Cardinality(0..(c - 1)) = IF 0 > c - 1 THEN 0 ELSE (c - 1) - 0 + 1
    BY <2>1, FS_Interval
  <2> QED BY <1>1, <2>2
<1>5. rank \in Surjection(S, 0..(c - 1))
  <2> HIDE DEF rank
  <2> QED BY <1>3, <1>4, FS_Injection
<1>6. i - 1 \in 0..(c - 1) BY <1>1
<1>7. \E n \in S : rank[n] = i - 1 BY <1>5, <1>6 DEF Surjection
<1> QED BY <1>7

(* A sequence that gives each place to a member with that many below it is *)
(* the set in order.                                                       *)
InOrder(q, R, S) ==
    /\ Cardinality(S) \in Nat
    /\ q \in [1..Cardinality(S) -> S]
    /\ q \in Seq(S) /\ Len(q) = Cardinality(S)
    /\ \A n \in S : \E i \in 1..Cardinality(S) : q[i] = n
    /\ \A i, j \in 1..Cardinality(S) : i < j => <<q[i], q[j]>> \in R
    /\ \A i, j \in 1..Cardinality(S) : q[i] = q[j] => i = j

LEMMA SortedIsInOrder ==
    ASSUME NEW S, IsFiniteSet(S), NEW R, Orders(R, S), NEW q,
           q \in [1..Cardinality(S) -> S],
           \A i \in 1..Cardinality(S) : Cardinality(Under(q[i], R, S)) = i - 1
    PROVE  InOrder(q, R, S)
<1> DEFINE c == Cardinality(S)
<1>1. c \in Nat BY FS_CardinalityType
<1>2. q \in Seq(S) /\ Len(q) = c BY <1>1
<1>3. ASSUME NEW i \in 1..c, NEW j \in 1..c, q[i] = q[j] PROVE i = j
  <2>1. i - 1 = j - 1 BY <1>3
  <2> QED BY <1>1, <2>1
<1>4. ASSUME NEW i \in 1..c, NEW j \in 1..c, i < j PROVE <<q[i], q[j]>> \in R
  <2>1. q[i] # q[j] BY <1>1, <1>3, <1>4
  <2>2. CASE <<q[j], q[i]>> \in R
    <3>1. Cardinality(Under(q[j], R, S)) < Cardinality(Under(q[i], R, S)) BY <2>2, RanksGrow
    <3>2. j - 1 < i - 1 BY <3>1
    <3> QED BY <1>1, <1>4, <3>2
  <2> QED BY <2>1, <2>2 DEF Orders
<1>5. ASSUME NEW n \in S PROVE \E i \in 1..c : q[i] = n
  <2>1. q \in Injection(1..c, S) BY <1>3 DEF Injection, IsInjective
  <2>2. Cardinality(1..c) = c BY <1>1, FS_Interval
  <2>3. q \in Surjection(1..c, S) BY <2>1, <2>2, FS_Injection
  <2> QED BY <2>3 DEF Surjection
<1> QED BY <1>1, <1>2, <1>3, <1>4, <1>5 DEF InOrder

-----------------------------------------------------------------------------
(* The orders of the three sorts.                                          *)
Ids == 1..Count

LEMMA Profiled ==
    ASSUME profile \in Tables, NEW n \in Ids
    PROVE  /\ profile[n].dated \in BOOLEAN /\ profile[n].left \in Int
           /\ profile[n].tokens \in Nat
<1>1. profile[n] \in C!Profiles BY TablesAssumption DEF Ids
<1> QED BY <1>1 DEF C!Profiles

LEMMA IdsFinite ==
    ASSUME NEW S, S \subseteq Ids
    PROVE  IsFiniteSet(S) /\ Cardinality(S) \in 0..Count
<1>1. IsFiniteSet(Ids) /\ Cardinality(Ids) = Count
  <2>1. 1 \in Int /\ Count \in Int /\ Count \in Nat BY TablesAssumption
  <2> QED BY <2>1, FS_Interval DEF Ids
<1>2. IsFiniteSet(S) /\ Cardinality(S) <= Count BY <1>1, FS_Subset
<1> QED BY <1>2, FS_CardinalityType, TablesAssumption

Befores(S) == {p \in S \X S : C!Before(p[1], p[2])}
Urgencies(S) == {p \in S \X S : D!MoreUrgent(p[1], p[2])}
Sooners(S) == {p \in S \X S : D!Sooner(p[1], p[2])}

(* The operator of the finite sets, as the instances have it.              *)
LEMMA SameCardinality ==
    \A S : C!Cardinality(S) = Cardinality(S) /\ D!Cardinality(S) = Cardinality(S)
BY DEF C!Cardinality, D!Cardinality, Cardinality

LEMMA ChosenInOrder ==
    ASSUME NEW S, IsFiniteSet(S), NEW R, Orders(R, S), NEW q,
           q = [i \in 1..Cardinality(S) |-> q[i]],
           \A i \in 1..Cardinality(S), n \in S : Cardinality(Under(n, R, S)) = i - 1 =>
               q[i] \in S /\ Cardinality(Under(q[i], R, S)) = i - 1
    PROVE  InOrder(q, R, S)
<1>1. ASSUME NEW i \in 1..Cardinality(S)
      PROVE  q[i] \in S /\ Cardinality(Under(q[i], R, S)) = i - 1
  BY RanksFill
<1>2. q \in [1..Cardinality(S) -> S] BY <1>1
<1> QED BY <1>1, <1>2, SortedIsInOrder

LEMMA ContextOrder ==
    ASSUME profile \in Tables, NEW S, S \subseteq Ids
    PROVE  InOrder(C!Ordered(S, C!Before), Befores(S), S)
<1> DEFINE R == Befores(S)
           q == C!Ordered(S, C!Before)
<1>1. IsFiniteSet(S) BY IdsFinite
<1>2. Orders(R, S)
  <2>1. \A m, n \in S : <<m, n>> \in R <=> C!Before(m, n) BY DEF Befores
  <2>2. \A n \in S : n \in Int BY DEF Ids
  <2> HIDE DEF R
  <2> QED BY <2>1, <2>2, Profiled DEF Orders, C!Before
<1>3. \A n \in S : {m \in S : C!Before(m, n)} = Under(n, R, S) BY DEF Under, Befores
<1>4. q = [i \in 1..C!Cardinality(S) |->
             CHOOSE n \in S : C!Cardinality({m \in S : C!Before(m, n)}) = i - 1]
  BY DEF C!Ordered
<1>5. ASSUME NEW i \in 1..Cardinality(S), NEW n \in S, Cardinality(Under(n, R, S)) = i - 1
      PROVE  q[i] \in S /\ Cardinality(Under(q[i], R, S)) = i - 1
  <2>1. C!Cardinality({m \in S : C!Before(m, n)}) = i - 1 BY <1>3, <1>5, SameCardinality
  <2>2. q[i] = CHOOSE o \in S : C!Cardinality({m \in S : C!Before(m, o)}) = i - 1
    BY <1>4, SameCardinality
  <2> HIDE DEF q, R
  <2>3. q[i] \in S /\ C!Cardinality({m \in S : C!Before(m, q[i])}) = i - 1
    BY <2>1, <2>2
  <2> QED BY <1>3, <2>3, SameCardinality
<1>6. DOMAIN q = 1..Cardinality(S) /\ q = [i \in 1..Cardinality(S) |-> q[i]]
  BY <1>4, SameCardinality
<1>7. InOrder(q, R, S)
  <2> HIDE DEF q, R
  <2> QED BY <1>1, <1>2, <1>5, <1>6, ChosenInOrder
<1> QED BY <1>7

LEMMA Ranked == \A n : D!Rank[D!NodeStatus(n)] \in Nat /\ D!NodeStatus(n) \in DOMAIN D!Rank
                        /\ (D!Rank[D!NodeStatus(n)] = 0 <=> D!NodeStatus(n) = "attention")
                        /\ (D!NodeStatus(n) = "attention" <=> D!Within(7, n))
BY DEF D!Rank, D!NodeStatus

LEMMA TileOrder ==
    ASSUME profile \in Tables, NEW S, S \subseteq Ids
    PROVE  InOrder(D!Ordered(S, D!MoreUrgent), Urgencies(S), S)
<1> DEFINE R == Urgencies(S)
           q == D!Ordered(S, D!MoreUrgent)
<1>1. IsFiniteSet(S) BY IdsFinite
<1>2. Orders(R, S)
  <2>1. \A m, n \in S : <<m, n>> \in R <=> D!MoreUrgent(m, n) BY DEF Urgencies
  <2>2. \A n \in S : n \in Int BY DEF Ids
  <2> HIDE DEF R
  <2> QED BY <2>1, <2>2, Profiled, Ranked DEF Orders, D!MoreUrgent
<1>3. \A n \in S : {m \in S : D!MoreUrgent(m, n)} = Under(n, R, S) BY DEF Under, Urgencies
<1>4. q = [i \in 1..D!Cardinality(S) |->
             CHOOSE n \in S : D!Cardinality({m \in S : D!MoreUrgent(m, n)}) = i - 1]
  BY DEF D!Ordered
<1>5. ASSUME NEW i \in 1..Cardinality(S), NEW n \in S, Cardinality(Under(n, R, S)) = i - 1
      PROVE  q[i] \in S /\ Cardinality(Under(q[i], R, S)) = i - 1
  <2>1. D!Cardinality({m \in S : D!MoreUrgent(m, n)}) = i - 1 BY <1>3, <1>5, SameCardinality
  <2>2. q[i] = CHOOSE o \in S : D!Cardinality({m \in S : D!MoreUrgent(m, o)}) = i - 1
    BY <1>4, SameCardinality
  <2> HIDE DEF q, R
  <2>3. q[i] \in S /\ D!Cardinality({m \in S : D!MoreUrgent(m, q[i])}) = i - 1
    BY <2>1, <2>2
  <2> QED BY <1>3, <2>3, SameCardinality
<1>6. DOMAIN q = 1..Cardinality(S) /\ q = [i \in 1..Cardinality(S) |-> q[i]]
  BY <1>4, SameCardinality
<1>7. InOrder(q, R, S)
  <2> HIDE DEF q, R
  <2> QED BY <1>1, <1>2, <1>5, <1>6, ChosenInOrder
<1> QED BY <1>7

LEMMA TodayOrder ==
    ASSUME profile \in Tables, NEW S, S \subseteq Ids
    PROVE  InOrder(D!Ordered(S, D!Sooner), Sooners(S), S)
<1> DEFINE R == Sooners(S)
           q == D!Ordered(S, D!Sooner)
<1>1. IsFiniteSet(S) BY IdsFinite
<1>2. Orders(R, S)
  <2>1. \A m, n \in S : <<m, n>> \in R <=> D!Sooner(m, n) BY DEF Sooners
  <2>2. \A n \in S : n \in Int BY DEF Ids
  <2> HIDE DEF R
  <2> QED BY <2>1, <2>2, Profiled DEF Orders, D!Sooner
<1>3. \A n \in S : {m \in S : D!Sooner(m, n)} = Under(n, R, S) BY DEF Under, Sooners
<1>4. q = [i \in 1..D!Cardinality(S) |->
             CHOOSE n \in S : D!Cardinality({m \in S : D!Sooner(m, n)}) = i - 1]
  BY DEF D!Ordered
<1>5. ASSUME NEW i \in 1..Cardinality(S), NEW n \in S, Cardinality(Under(n, R, S)) = i - 1
      PROVE  q[i] \in S /\ Cardinality(Under(q[i], R, S)) = i - 1
  <2>1. D!Cardinality({m \in S : D!Sooner(m, n)}) = i - 1 BY <1>3, <1>5, SameCardinality
  <2>2. q[i] = CHOOSE o \in S : D!Cardinality({m \in S : D!Sooner(m, o)}) = i - 1
    BY <1>4, SameCardinality
  <2> HIDE DEF q, R
  <2>3. q[i] \in S /\ D!Cardinality({m \in S : D!Sooner(m, q[i])}) = i - 1
    BY <2>1, <2>2
  <2> QED BY <1>3, <2>3, SameCardinality
<1>6. DOMAIN q = 1..Cardinality(S) /\ q = [i \in 1..Cardinality(S) |-> q[i]]
  BY <1>4, SameCardinality
<1>7. InOrder(q, R, S)
  <2> HIDE DEF q, R
  <2> QED BY <1>1, <1>2, <1>5, <1>6, ChosenInOrder
<1> QED BY <1>7

-----------------------------------------------------------------------------
(* The first k of an ordered set: k members, and each of the others comes  *)
(* after them.                                                             *)
Top(q, k) == {q[i] : i \in 1..k}

LEMMA HeadOfOrder ==
    ASSUME NEW S, IsFiniteSet(S), NEW R, NEW q, InOrder(q, R, S), NEW k \in 0..Len(q)
    PROVE  /\ Top(q, k) \subseteq S
           /\ IsFiniteSet(Top(q, k)) /\ Cardinality(Top(q, k)) = k
           /\ \A m \in Top(q, k), n \in S \ Top(q, k) : <<m, n>> \in R
           /\ Top(q, k) = S <=> k = Len(q)
           /\ k < Len(q) => /\ q[k + 1] \in S \ Top(q, k)
                            /\ Top(q, k + 1) = Top(q, k) \cup {q[k + 1]}
<1> DEFINE c == Cardinality(S)
<1>1. /\ c \in Nat /\ Len(q) = c /\ k \in Nat /\ k <= c
      /\ q \in [1..c -> S]
      /\ \A n \in S : \E i \in 1..c : q[i] = n
      /\ \A i, j \in 1..c : i < j => <<q[i], q[j]>> \in R
      /\ \A i, j \in 1..c : q[i] = q[j] => i = j
  BY DEF InOrder
<1>2. Top(q, k) \subseteq S BY <1>1 DEF Top
<1>3. IsFiniteSet(Top(q, k)) /\ Cardinality(Top(q, k)) = k
  <2> DEFINE f == [i \in 1..k |-> q[i]]
  <2>1. f \in Surjection(1..k, Top(q, k)) BY DEF Surjection, Top
  <2>2. f \in Injection(1..k, Top(q, k))
    <3>1. f \in [1..k -> Top(q, k)] BY DEF Top
    <3>2. \A i, j \in 1..k : f[i] = f[j] => i = j BY <1>1
    <3> QED BY <3>1, <3>2 DEF Injection, IsInjective
  <2>3. IsFiniteSet(1..k) /\ Cardinality(1..k) = k BY <1>1, FS_Interval
  <2> HIDE DEF f
  <2> QED BY <2>1, <2>2, <2>3, FS_Surjection
<1>4. ASSUME NEW m \in Top(q, k), NEW n \in S \ Top(q, k) PROVE <<m, n>> \in R
  <2>1. PICK i \in 1..k : q[i] = m BY DEF Top
  <2>2. PICK j \in 1..c : q[j] = n BY <1>1
  <2>3. j \notin 1..k BY <2>2 DEF Top
  <2> QED BY <1>1, <2>1, <2>2, <2>3
<1>5. Top(q, k) = S <=> k = Len(q)
  <2>1. CASE k = c BY <1>1, <1>2, <2>1 DEF Top
  <2>2. CASE k # c BY <1>1, <1>3, <2>2
  <2> QED BY <1>1, <2>1, <2>2
<1>6. ASSUME k < Len(q)
      PROVE  /\ q[k + 1] \in S \ Top(q, k)
             /\ Top(q, k + 1) = Top(q, k) \cup {q[k + 1]}
  <2>1. k + 1 \in 1..c /\ 1..(k + 1) = (1..k) \cup {k + 1} BY <1>1, <1>6
  <2>2. q[k + 1] \in S BY <1>1, <2>1
  <2>3. q[k + 1] \notin Top(q, k) BY <1>1, <2>1 DEF Top
  <2> QED BY <2>1, <2>2, <2>3 DEF Top
<1> QED BY <1>2, <1>3, <1>4, <1>5, <1>6

LEMMA CutIsHead ==
    ASSUME NEW S, NEW R, NEW q, InOrder(q, R, S), NEW k \in 0..Len(q)
    PROVE  /\ Len(SubSeq(q, 1, k)) = k
           /\ C!ToSet(SubSeq(q, 1, k)) = Top(q, k)
           /\ D!ToSet(SubSeq(q, 1, k)) = Top(q, k)
           /\ \A i \in 1..k : SubSeq(q, 1, k)[i] = q[i]
<1>1. q \in Seq(S) /\ k \in Nat /\ k <= Len(q) /\ Len(q) \in Nat BY DEF InOrder
<1>2. \A i \in 1..k : q[i] \in S BY <1>1
<1>3. /\ SubSeq(q, 1, k) \in Seq(S)
      /\ Len(SubSeq(q, 1, k)) = IF 1 <= k THEN k - 1 + 1 ELSE 0
      /\ \A i \in 1..(k - 1 + 1) : SubSeq(q, 1, k)[i] = q[1 + i - 1]
  BY <1>1, <1>2, 1 \in Int, k \in Int, SubSeqProperties
<1>4. Len(SubSeq(q, 1, k)) = k BY <1>1, <1>3
<1>5. DOMAIN SubSeq(q, 1, k) = 1..k BY <1>3, <1>4
<1>6. \A i \in 1..k : SubSeq(q, 1, k)[i] = q[i] BY <1>1, <1>3
<1> QED BY <1>4, <1>5, <1>6 DEF Top, C!ToSet, D!ToSet

LEMMA WholeIsHead ==
    ASSUME NEW S, NEW R, NEW q, InOrder(q, R, S)
    PROVE  Top(q, Len(q)) = S /\ C!ToSet(q) = S /\ D!ToSet(q) = S
<1>1. DOMAIN q = 1..Len(q) BY DEF InOrder
<1>2. Top(q, Len(q)) = S BY DEF InOrder, Top
<1> QED BY <1>1, <1>2 DEF Top, C!ToSet, D!ToSet

-----------------------------------------------------------------------------
(* A set of naturals that are bounded has a greatest one.                  *)
LEMMA LeastOf ==
    ASSUME NEW S, S \subseteq Nat, S # {}
    PROVE  \E x \in S : \A y \in S : x <= y
<1> DEFINE Less == {ss \in Nat \X Nat : ss[1] < ss[2]}
<1>1. IsWellFoundedOn(Less, Nat) BY NatLessThanWellFounded DEF OpToRel
<1>2. PICK x \in S : \A y \in S : <<y, x>> \notin Less
  <2> HIDE DEF Less
  <2> QED BY <1>1, WFMin
<1>3. ASSUME NEW y \in S PROVE x <= y
  <2>1. x \in Nat /\ y \in Nat OBVIOUS
  <2>2. <<y, x>> \in Nat \X Nat /\ <<y, x>> \notin Less BY <1>2, <2>1
  <2> QED BY <2>1, <2>2
<1> QED BY <1>3

LEMMA GreatestOf ==
    ASSUME NEW b \in Nat, NEW S, S \subseteq 0..b, S # {}
    PROVE  C!Max(S) \in S /\ \A y \in S : y <= C!Max(S)
<1> DEFINE T == {x \in 0..b : b - x \in S}
<1>1. T \subseteq Nat /\ T # {}
  <2>1. PICK y \in S : TRUE OBVIOUS
  <2>2. b - y \in 0..b /\ b - (b - y) = y BY <2>1
  <2> QED BY <2>1, <2>2
<1>2. PICK x \in T : \A y \in T : x <= y
  <2> HIDE DEF T
  <2> QED BY <1>1, LeastOf
<1>3. ASSUME NEW y \in S PROVE b - x >= y
  <2>1. b - y \in T
    <3>1. b - y \in 0..b /\ b - (b - y) = y OBVIOUS
    <3> QED BY <3>1
  <2>2. x <= b - y BY <1>2, <2>1
  <2> QED BY <2>2
<1>4. \E z \in S : \A y \in S : z >= y BY <1>2, <1>3
<1>5. C!Max(S) \in S /\ \A y \in S : C!Max(S) >= y BY <1>4 DEF C!Max
<1> QED BY <1>5

-----------------------------------------------------------------------------
(* The tokens of one node more.                                            *)
Cells(ns) == UNION {{n} \X (1..profile[n].tokens) : n \in ns}

LEMMA CellsFinite ==
    ASSUME profile \in Tables, NEW ns, ns \subseteq Ids
    PROVE  IsFiniteSet(Cells(ns)) /\ Cardinality(Cells(ns)) \in Nat
<1> DEFINE Cell(n) == {n} \X (1..profile[n].tokens)
           T == {Cell(n) : n \in ns}
           f == [n \in ns |-> Cell(n)]
<1>1. \A n \in ns : IsFiniteSet(Cell(n))
  <2> SUFFICES ASSUME NEW n \in ns PROVE IsFiniteSet(Cell(n)) OBVIOUS
  <2>1. profile[n].tokens \in Nat BY Profiled
  <2>2. IsFiniteSet(1..profile[n].tokens)
    BY <2>1, 1 \in Int, profile[n].tokens \in Int, FS_Interval
  <2>3. IsFiniteSet({n}) BY FS_Singleton
  <2> QED BY <2>2, <2>3, FS_Product
<1>2. IsFiniteSet(ns) BY IdsFinite
<1>3. f \in Surjection(ns, T) BY DEF Surjection
<1>4. IsFiniteSet(T)
  <2> HIDE DEF f, T
  <2> QED BY <1>2, <1>3, FS_Surjection
<1>5. \A t \in T : IsFiniteSet(t) BY <1>1
<1>6. IsFiniteSet(UNION T)
  <2> HIDE DEF T
  <2> QED BY <1>4, <1>5, FS_UNION
<1>7. IsFiniteSet(Cells(ns)) BY <1>6 DEF Cells
<1> QED BY <1>7, FS_CardinalityType

LEMMA OneMore ==
    ASSUME profile \in Tables, NEW ns, ns \subseteq Ids, NEW n \in Ids \ ns
    PROVE  Cardinality(Cells(ns \cup {n})) = Cardinality(Cells(ns)) + profile[n].tokens
<1> DEFINE t == profile[n].tokens
           new == {n} \X (1..t)
<1>1. t \in Nat BY Profiled
<1>2. IsFiniteSet(1..t) /\ Cardinality(1..t) = t
  <2> HIDE DEF t
  <2> QED BY <1>1, 1 \in Int, t \in Int, FS_Interval
<1>3. IsFiniteSet({n}) /\ Cardinality({n}) = 1 BY FS_Singleton
<1>4. IsFiniteSet(new) /\ Cardinality(new) = t
  <2>1. IsFiniteSet(new) /\ Cardinality(new) = Cardinality({n}) * Cardinality(1..t)
    BY <1>2, <1>3, FS_Product, Zenon
  <2>2. Cardinality({n}) = 1 /\ Cardinality(1..t) = t BY <1>2, <1>3, Zenon
  <2> QED BY <1>1, <2>1, <2>2
<1>5. Cells(ns \cup {n}) = Cells(ns) \cup new BY DEF Cells
<1>6. Cells(ns) \cap new = {}
  <2> SUFFICES ASSUME NEW e \in Cells(ns) PROVE e \notin new OBVIOUS
  <2>1. PICK m \in ns : e \in {m} \X (1..profile[m].tokens) BY DEF Cells
  <2>2. e[1] = m /\ m # n BY <2>1
  <2> QED BY <2>2
<1>7. IsFiniteSet(Cells(ns)) /\ Cardinality(Cells(ns)) \in Nat BY CellsFinite
<1>8. Cardinality({}) = 0 BY FS_EmptySet
<1>9. Cardinality(Cells(ns) \cup new)
        = Cardinality(Cells(ns)) + Cardinality(new) - Cardinality(Cells(ns) \cap new)
  <2> HIDE DEF new
  <2> QED BY <1>4, <1>7, FS_Union
<1>10. /\ Cardinality(Cells(ns \cup {n})) = Cardinality(Cells(ns) \cup new)
       /\ Cardinality(Cells(ns) \cap new) = 0
  BY <1>5, <1>6, <1>8, Zenon
<1> HIDE DEF new, t
<1>11. Cardinality(Cells(ns)) + t - 0 = Cardinality(Cells(ns)) + t BY <1>1, <1>7
<1>12. Cardinality(Cells(ns \cup {n})) = Cardinality(Cells(ns)) + t
  BY <1>4, <1>9, <1>10, <1>11, Zenon
<1> QED BY <1>12 DEF t

LEMMA TokensAreCells == \A ns : C!Tokens(ns) = Cardinality(Cells(ns))
BY SameCardinality DEF C!Tokens, Cells

-----------------------------------------------------------------------------
(* The context packet.  Before a packet is assembled there is none; what   *)
(* one holds is the head of the gathered nodes in their order.             *)
ContextInv ==
    /\ C!TypeOK
    /\ assembling # "done" => packet = None
    /\ BudgetIsKept
    /\ NearDeadlineIsKept

LEMMA ReadsAreOfIds ==
    ASSUME C!TableOK
    PROVE  /\ C!Live \subseteq Ids
           /\ \A ps : C!ReadByPillar(ps) \subseteq Ids /\ C!ReadByType(ps) \subseteq Ids
           /\ \A p : C!FetchL3(p, L3Limit) \subseteq Ids
           /\ \A p : C!FulltextSearch(p, SearchLimit) \subseteq SUBSET Ids
           /\ \A ps, d : C!ReadByDeadline(ps, d) \subseteq Ids
<1>1. C!Live \subseteq Ids BY DEF C!Live, C!Ids, Ids
<1>2. \A ps : C!ReadByPillar(ps) \subseteq Ids BY <1>1 DEF C!ReadByPillar
<1>3. \A ps : C!ReadByType(ps) \subseteq Ids BY <1>2 DEF C!ReadByType
<1>4. \A p : C!FetchL3(p, L3Limit) \subseteq Ids BY <1>2 DEF C!FetchL3, C!Newest
<1>5. \A p : C!FulltextSearch(p, SearchLimit) \subseteq SUBSET Ids
  BY <1>2 DEF C!FulltextSearch, C!kSubset
<1>6. \A ps, d : C!ReadByDeadline(ps, d) \subseteq Ids
  BY DEF C!ReadByDeadline, C!Written, C!Ids, Ids
<1> QED BY <1>1, <1>2, <1>3, <1>4, <1>5, <1>6

(* Another request's write moves no more than a status.                    *)
LEMMA TableStep ==
    ASSUME C!TableOK, C!Write \/ C!Move
    PROVE  C!TableOK' /\ UNCHANGED profile
<1> USE DEF C!TableOK
<1>1. CASE C!Write BY <1>1 DEF C!Write, C!Status
<1>2. CASE C!Move BY <1>2, TablesAssumption DEF C!Move, C!Status, C!Written
<1> QED BY <1>1, <1>2

LEMMA ContextInit == C!Init => ContextInv
<1> SUFFICES ASSUME C!Init PROVE ContextInv OBVIOUS
<1> USE DEF C!Init
<1>1. C!TableOK
  <2>1. status \in [C!Ids -> C!Status] BY DEF C!TableInit, C!Status
  <2> QED BY <2>1, TablesAssumption DEF C!TableInit, C!TableOK
<1>2. upcoming \subseteq C!Ids BY <1>1, ReadsAreOfIds DEF C!Ids, Ids
<1>3. C!TypeOK BY <1>1, <1>2 DEF C!TypeOK, C!Modes, C!Pillars
<1>4. BudgetIsKept /\ NearDeadlineIsKept
  BY DEF BudgetIsKept, NearDeadlineIsKept, C!BudgetIsKept, C!NearDeadlineIsKept
<1> QED BY <1>3, <1>4 DEF ContextInv

LEMMA AskStep ==
    ASSUME ContextInv,
           NEW action \in {"query", "write", "task", "synthesize"},
           NEW ps \in {<<>>, <<"legal">>, <<"health">>, <<"legal", "health">>},
           C!Ask(action, ps)
    PROVE  ContextInv'
<1> USE DEF ContextInv, C!Ask
<1>1. C!TableOK' BY DEF C!TypeOK, C!table, C!TableOK
<1>2. routing' \in C!Modes BY DEF C!RoutingMode, C!Modes
<1>3. implied' \in {<<p>> : p \in C!Pillars} \cup {<<p, q>> : p, q \in C!Pillars}
  BY DEF C!Pillars
<1>4. gathered' \subseteq C!Ids
  <2>1. C!TableOK BY DEF C!TypeOK
  <2> QED BY <2>1, ReadsAreOfIds DEF C!First, C!Ids, Ids
<1>5. packet' = None /\ packet = None OBVIOUS
<1>6. C!TypeOK' BY <1>1, <1>2, <1>3, <1>4, <1>5 DEF C!TypeOK
<1>7. BudgetIsKept' /\ NearDeadlineIsKept'
  BY <1>5 DEF BudgetIsKept, NearDeadlineIsKept, C!BudgetIsKept, C!NearDeadlineIsKept
<1> QED BY <1>5, <1>6, <1>7

LEMMA ReadAgainStep ==
    ASSUME ContextInv, C!ReadAgain
    PROVE  ContextInv'
<1> USE DEF ContextInv, C!ReadAgain
<1>1. C!TableOK' BY DEF C!TypeOK, C!table, C!TableOK
<1>2. gathered' \subseteq C!Ids
  <2>1. C!TableOK BY DEF C!TypeOK
  <2>2. PICK more \in C!Second : gathered' = gathered \cup more OBVIOUS
  <2>3. more \subseteq Ids
    <3>1. \A p : \A s \in C!FulltextSearch(p, SearchLimit) : s \subseteq Ids
      BY <2>1, ReadsAreOfIds
    <3>2. CASE routing \in {"direct", "orchestrated"} BY <2>2, <3>1, <3>2 DEF C!Second
    <3>3. CASE routing \notin {"direct", "orchestrated"}
      BY <2>1, <2>2, <3>3, ReadsAreOfIds DEF C!Second
    <3> QED BY <3>2, <3>3
  <2>4. gathered \subseteq Ids BY DEF C!TypeOK, C!Ids, Ids
  <2>5. gathered' \subseteq Ids BY <2>2, <2>3, <2>4, Zenon
  <2> QED BY <2>5 DEF C!Ids, Ids
<1>3. packet' = None /\ packet = None OBVIOUS
<1>4. C!TypeOK' BY <1>1, <1>2, <1>3 DEF C!TypeOK
<1>5. BudgetIsKept' /\ NearDeadlineIsKept'
  BY <1>3 DEF BudgetIsKept, NearDeadlineIsKept, C!BudgetIsKept, C!NearDeadlineIsKept
<1> QED BY <1>3, <1>4, <1>5

(* The loop over the sorted nodes stops at the first that does not fit.    *)
LEMMA FittingHead ==
    ASSUME profile \in Tables, NEW S, S \subseteq Ids, NEW q, InOrder(q, Befores(S), S)
    PROVE  /\ C!Fitting(q) \in 0..Len(q)
           /\ Cardinality(Cells(Top(q, C!Fitting(q)))) <= Budget
           /\ \A k \in 0..Len(q) : Cardinality(Cells(Top(q, k))) <= Budget => k <= C!Fitting(q)
<1> DEFINE K == {k \in 0..Len(q) : C!Tokens(C!ToSet(SubSeq(q, 1, k))) <= Budget}
<1>1. Len(q) \in Nat BY DEF InOrder
<1>2. ASSUME NEW k \in 0..Len(q)
      PROVE  C!Tokens(C!ToSet(SubSeq(q, 1, k))) = Cardinality(Cells(Top(q, k)))
  BY CutIsHead, TokensAreCells
<1>3. 0 \in K
  <2>1. Top(q, 0) = {} BY DEF Top
  <2>2. Cells({}) = {} BY DEF Cells
  <2>3. Cardinality({}) = 0 BY FS_EmptySet
  <2>4. 0 \in 0..Len(q) BY <1>1
  <2>5. C!Tokens(C!ToSet(SubSeq(q, 1, 0))) = 0 BY <1>2, <2>1, <2>2, <2>3, <2>4
  <2> QED BY <2>4, <2>5, LimitsAssumption
<1>4. C!Fitting(q) = C!Max(K) BY DEF C!Fitting
<1>5. C!Max(K) \in K /\ \A k \in K : k <= C!Max(K)
  <2>1. K \subseteq 0..Len(q) /\ K # {} BY <1>3
  <2> HIDE DEF K
  <2> QED BY <1>1, <2>1, GreatestOf
<1> QED BY <1>2, <1>4, <1>5

LEMMA AssembleStep ==
    ASSUME ContextInv, C!Assemble
    PROVE  ContextInv'
<1> DEFINE seq == C!Ordered(gathered, C!Before)
           k == C!Fitting(seq)
           R == Befores(gathered)
<1>1. /\ profile \in Tables /\ gathered \subseteq Ids
      /\ UNCHANGED <<nodes, upcoming, routing, implied, gathered>> /\ assembling' = "done"
  BY DEF ContextInv, C!TypeOK, C!TableOK, C!Assemble, C!Ids, Ids, C!table, nodes
<1>2. packet' = [nodes |-> SubSeq(seq, 1, k), matched |-> Len(seq), truncated |-> k < Len(seq)]
  BY DEF C!Assemble
<1>3. InOrder(seq, R, gathered) BY <1>1, ContextOrder
<1>4. IsFiniteSet(gathered) /\ Cardinality(gathered) \in 0..Count BY <1>1, IdsFinite
<1>5. /\ k \in 0..Len(seq)
      /\ Cardinality(Cells(Top(seq, k))) <= Budget
      /\ \A j \in 0..Len(seq) : Cardinality(Cells(Top(seq, j))) <= Budget => j <= k
  BY <1>1, <1>3, FittingHead
<1>6. \A m, n \in gathered : <<m, n>> \in R <=> C!Before(m, n) BY DEF Befores
<1> HIDE DEF seq, k, R
<1>7. C!ToSet(SubSeq(seq, 1, k)) = Top(seq, k) BY <1>3, <1>5, CutIsHead
<1>8. C!Offered' = Top(seq, k) BY <1>2, <1>7 DEF C!Offered
<1>9. /\ Top(seq, k) \subseteq gathered
      /\ \A m \in Top(seq, k), n \in gathered \ Top(seq, k) : <<m, n>> \in R
      /\ Top(seq, k) = gathered <=> k = Len(seq)
      /\ k < Len(seq) => /\ seq[k + 1] \in gathered \ Top(seq, k)
                         /\ Top(seq, k + 1) = Top(seq, k) \cup {seq[k + 1]}
  BY <1>3, <1>4, <1>5, HeadOfOrder
<1>10. Len(seq) = Cardinality(gathered) BY <1>3 DEF InOrder
<1>11. C!TypeOK'
  <2>1. C!TableOK' BY <1>1 DEF ContextInv, C!TypeOK, C!TableOK, C!table, nodes
  <2>2. /\ packet'.truncated \in BOOLEAN /\ packet'.matched \in 0..Count
        /\ C!ToSet(packet'.nodes) \subseteq gathered'
    BY <1>1, <1>2, <1>4, <1>7, <1>9, <1>10
  <2> QED BY <1>1, <2>1, <2>2 DEF ContextInv, C!TypeOK
<1>12. BudgetIsKept'
  <2>1. C!Tokens(C!Offered)' = Cardinality(Cells(Top(seq, k)))
    <3>1. profile' = profile BY <1>1 DEF nodes
    <3> QED BY <1>8, <3>1, SameCardinality DEF C!Tokens, Cells
  <2>2. packet'.truncated = (C!Offered' # gathered')
    <3>1. Len(seq) \in Nat BY <1>3 DEF InOrder
    <3> QED BY <1>1, <1>2, <1>5, <1>8, <1>9, <3>1
  <2>3. ASSUME NEW n \in gathered \ Top(seq, k),
               \A m \in (gathered \ Top(seq, k)) \ {n} : C!Before(n, m)
        PROVE  Cardinality(Cells(Top(seq, k))) + profile[n].tokens > Budget
    <3>1. Len(seq) \in Nat BY <1>3 DEF InOrder
    <3>2. k < Len(seq) BY <1>5, <1>9, <2>3, <3>1
    <3> DEFINE m == seq[k + 1]
    <3>3. m \in gathered \ Top(seq, k) /\ Top(seq, k + 1) = Top(seq, k) \cup {m} BY <1>9, <3>2
    <3>4. k + 1 \in 0..Len(seq) /\ ~(k + 1 <= k) BY <1>5, <3>1, <3>2
    <3>5. m = n
      <4> SUFFICES ASSUME m # n PROVE FALSE OBVIOUS
      <4>1. C!Before(n, m) BY <2>3, <3>3
      <4>2. \A x \in Top(seq, k + 1), y \in gathered \ Top(seq, k + 1) : <<x, y>> \in R
        <5> DEFINE j == k + 1
        <5>1. j \in 0..Len(seq) BY <3>4
        <5> HIDE DEF j, m
        <5>2. \A x \in Top(seq, j), y \in gathered \ Top(seq, j) : <<x, y>> \in R
          BY <1>3, <1>4, <5>1, HeadOfOrder
        <5> QED BY <5>2 DEF j
      <4>3. C!Before(m, n)
        <5>1. m \in Top(seq, k + 1) /\ n \in gathered \ Top(seq, k + 1) BY <2>3, <3>3
        <5> HIDE DEF m
        <5> QED BY <1>6, <3>3, <4>2, <5>1
      <4>4. /\ profile[m].dated \in BOOLEAN /\ profile[n].dated \in BOOLEAN
            /\ m \in Int /\ n \in Int
        <5>1. m \in Ids /\ n \in Ids BY <1>1, <3>3
        <5> HIDE DEF m
        <5> QED BY <1>1, <5>1, Profiled DEF Ids
      <4> HIDE DEF m
      <4> QED BY <4>1, <4>3, <4>4 DEF C!Before
    <3>6. ~(Cardinality(Cells(Top(seq, k) \cup {n})) <= Budget) BY <1>5, <3>3, <3>4, <3>5
    <3>7. Cardinality(Cells(Top(seq, k) \cup {n}))
            = Cardinality(Cells(Top(seq, k))) + profile[n].tokens
      BY <1>1, <1>9, <2>3, OneMore
    <3>8. Cardinality(Cells(Top(seq, k))) \in Nat BY <1>1, <1>9, CellsFinite
    <3>9. profile[n].tokens \in Nat BY <1>1, Profiled
    <3> QED BY <3>6, <3>7, <3>8, <3>9, LimitsAssumption
  <2>4. profile' = profile /\ gathered' = gathered BY <1>1 DEF nodes
  <2>5. C!LeftOut' = gathered \ Top(seq, k) BY <1>8, <2>4 DEF C!LeftOut
  <2>6. ASSUME NEW n \in gathered', C!Cut(n)'
        PROVE  (C!Tokens(C!Offered) + profile[n].tokens > Budget)'
    <3>1. n \in gathered \ Top(seq, k) /\ \A m \in (gathered \ Top(seq, k)) \ {n} : C!Before(n, m)'
      BY <2>5, <2>6 DEF C!Cut
    <3>2. \A m : C!Before(n, m)' = C!Before(n, m) BY <2>4 DEF C!Before
    <3> QED BY <2>1, <2>3, <2>4, <3>1, <3>2
  <2> QED BY <1>5, <2>1, <2>2, <2>6 DEF BudgetIsKept, C!BudgetIsKept
<1>13. NearDeadlineIsKept'
  <2>1. ASSUME NEW n \in gathered \ Top(seq, k), profile[n].dated, NEW m \in Top(seq, k)
        PROVE  profile[m].dated
    <3>1. C!Before(m, n) BY <1>6, <1>9
    <3>2. profile[m].dated \in BOOLEAN /\ profile[n].dated \in BOOLEAN BY <1>1, <1>9, Profiled
    <3> QED BY <2>1, <3>1, <3>2 DEF C!Before
  <2>2. profile' = profile /\ gathered' = gathered BY <1>1 DEF nodes
  <2>3. C!LeftOut' = gathered \ Top(seq, k) BY <1>8, <2>2 DEF C!LeftOut
  <2> QED BY <1>8, <2>1, <2>2, <2>3
      DEF NearDeadlineIsKept, C!NearDeadlineIsKept, C!Within
<1> QED BY <1>1, <1>11, <1>12, <1>13 DEF ContextInv

LEMMA ContextInvariant == C!Spec => []ContextInv
<1>1. ContextInv /\ [C!Next]_(C!vars) => ContextInv'
  <2> SUFFICES ASSUME ContextInv, [C!Next]_(C!vars) PROVE ContextInv' OBVIOUS
  <2>1. ASSUME C!TableOK', UNCHANGED <<profile, context>>
        PROVE  ContextInv'
    BY <2>1 DEF ContextInv, C!TypeOK, BudgetIsKept, C!BudgetIsKept, NearDeadlineIsKept,
                C!NearDeadlineIsKept, C!Tokens, C!Offered, C!LeftOut, C!Cut, C!Before, C!Within,
                context
  <2>2. CASE (C!Write \/ C!Move) /\ UNCHANGED context
    BY <2>1, <2>2, TableStep DEF ContextInv, C!TypeOK
  <2>3. CASE UNCHANGED C!vars
    BY <2>1, <2>3 DEF C!vars, C!table, ContextInv, C!TypeOK, C!TableOK, context
  <2>4. CASE C!ReadAgain \/ C!Assemble BY <2>4, ReadAgainStep, AssembleStep
  <2>5. ASSUME NEW action \in {"query", "write", "task", "synthesize"},
               NEW ps \in {<<>>, <<"legal">>, <<"health">>, <<"legal", "health">>},
               C!Ask(action, ps)
        PROVE  ContextInv'
    BY <2>5, AskStep
  <2> QED BY <2>2, <2>3, <2>4, <2>5 DEF C!Next, context
<1> QED BY <1>1, ContextInit, PTL DEF C!Spec

(* The packet keeps the token budget, says when it left something out, and *)
(* leaves a node out only when it would not have fitted (the budget loop   *)
(* of assemble_context).                                                   *)
THEOREM BudgetIsKeptHolds == C!Spec => []BudgetIsKept
<1>1. ContextInv => BudgetIsKept BY DEF ContextInv
<1> QED BY <1>1, ContextInvariant, PTL

(* A deadline within 30 days makes way for dated nodes only (the sort      *)
(* before the loop).                                                       *)
THEOREM NearDeadlineIsKeptHolds == C!Spec => []NearDeadlineIsKept
<1>1. ContextInv => NearDeadlineIsKept BY DEF ContextInv
<1> QED BY <1>1, ContextInvariant, PTL

-----------------------------------------------------------------------------
(* The dashboard's lists.                                                  *)
LEMMA Pairs ==
    ASSUME NEW a \in Int, NEW b \in Int
    PROVE  /\ D!Min({a, b}) = IF a <= b THEN a ELSE b
           /\ D!Max({a, b}) = IF a >= b THEN a ELSE b
<1>1. \E x \in {a, b} : \A y \in {a, b} : x <= y OBVIOUS
<1>2. \E x \in {a, b} : \A y \in {a, b} : x >= y OBVIOUS
<1>3. D!Min({a, b}) \in {a, b} /\ \A y \in {a, b} : D!Min({a, b}) <= y BY <1>1 DEF D!Min
<1>4. D!Max({a, b}) \in {a, b} /\ \A y \in {a, b} : D!Max({a, b}) >= y BY <1>2 DEF D!Max
<1> QED BY <1>3, <1>4

(* The first limit of an ordered set, or all of it.                        *)
LEMMA CutOfOrder ==
    ASSUME NEW S, NEW R, NEW q, InOrder(q, R, S), NEW limit \in Nat
    PROVE  \E k \in 0..Len(q) :
              /\ k <= limit /\ (k = limit \/ k = Len(q))
              /\ D!Cut(q, limit) = SubSeq(q, 1, k)
<1>1. Len(q) \in Nat BY DEF InOrder
<1>2. D!Min({limit, Len(q)}) = IF limit <= Len(q) THEN limit ELSE Len(q) BY <1>1, Pairs
<1> DEFINE k == D!Min({limit, Len(q)})
<1>3. k \in 0..Len(q) /\ k <= limit /\ (k = limit \/ k = Len(q)) BY <1>1, <1>2
<1>4. D!Cut(q, limit) = SubSeq(q, 1, k) BY DEF D!Cut
<1> QED BY <1>3, <1>4

(* A read limited to the newest takes no more than that.                   *)
LEMMA NewestAreFew ==
    ASSUME NEW S, S \subseteq Ids, NEW limit \in Nat
    PROVE  D!Newest(S, limit) \subseteq S /\ D!Cardinality(D!Newest(S, limit)) <= limit
<1> DEFINE N == D!Newest(S, limit)
           R == {p \in S \X S : p[1] > p[2]}
           rank == [n \in N |-> Cardinality(Under(n, R, S))]
<1>1. IsFiniteSet(S) /\ \A n \in S : n \in Int
  <2>1. \A n \in S : n \in Int BY DEF Ids
  <2> QED BY <2>1, IdsFinite
<1>2. Orders(R, S) BY <1>1 DEF Orders
<1>3. ASSUME NEW n \in S PROVE {m \in S : m > n} = Under(n, R, S) BY DEF Under
<1>4. N \subseteq S /\ \A n \in N : Cardinality(Under(n, R, S)) < limit
  BY <1>3, SameCardinality DEF D!Newest
<1>5. ASSUME NEW n \in N PROVE rank[n] \in 0..(limit - 1)
  <2>1. IsFiniteSet(Under(n, R, S)) BY <1>1, FS_Subset DEF Under
  <2>2. Cardinality(Under(n, R, S)) \in Nat BY <2>1, FS_CardinalityType
  <2>3. Cardinality(Under(n, R, S)) < limit BY <1>4
  <2> QED BY <2>2, <2>3
<1>6. rank \in Injection(N, 0..(limit - 1))
  <2>1. ASSUME NEW m \in N, NEW n \in N, m # n PROVE rank[m] # rank[n]
    <3> HIDE DEF R
    <3>1. m \in S /\ n \in S BY <1>4
    <3>2. <<m, n>> \in R \/ <<n, m>> \in R BY <1>2, <2>1, <3>1 DEF Orders
    <3>3. rank[m] < rank[n] \/ rank[n] < rank[m] BY <1>1, <1>2, <3>1, <3>2, RanksGrow
    <3>4. rank[m] \in Int /\ rank[n] \in Int BY <1>5
    <3> QED BY <3>3, <3>4
  <2>2. rank \in [N -> 0..(limit - 1)] BY <1>5
  <2> HIDE DEF rank
  <2> QED BY <2>1, <2>2 DEF Injection, IsInjective
<1>7. IsFiniteSet(0..(limit - 1)) /\ Cardinality(0..(limit - 1)) = limit
  <2>1. 0 \in Int /\ limit - 1 \in Int OBVIOUS
  <2>2. /\ IsFiniteSet(0..(limit - 1))
        /\ Cardinality(0..(limit - 1)) = IF 0 > limit - 1 THEN 0 ELSE (limit - 1) - 0 + 1
    BY <2>1, FS_Interval
  <2> QED BY <2>2
<1>8. Cardinality(N) <= limit
  <2> HIDE DEF rank, N
  <2> QED BY <1>6, <1>7, FS_Injection
<1> QED BY <1>4, <1>8, SameCardinality

LEMMA DashboardReadsIds ==
    ASSUME D!TableOK
    PROVE  /\ profile \in Tables
           /\ D!Live \subseteq Ids /\ D!Dated \subseteq Ids
           /\ \A ps : D!ReadByPillar(ps) \subseteq Ids
<1>1. D!Live \subseteq Ids BY DEF D!Live, D!Ids, Ids
<1> QED BY <1>1 DEF D!TableOK, D!Dated, D!ReadByPillar

(* What a tile tells.                                                      *)
LEMMA TileStep ==
    ASSUME D!TypeOK, NEW p \in D!Pillars, D!ReadTile(p)
    PROVE  /\ D!TypeOK'
           /\ \A q \in D!Pillars : tiles'[q] # tiles[q] =>
                 (tiles'[q].status = "attention" <=> \E n \in D!ReadByPillar({q}) : D!Within(7, n))
<1> DEFINE S == D!ReadByPillar({p})
           seq == D!Ordered(S, D!MoreUrgent)
           R == Urgencies(S)
           items == D!Cut(seq, TileLimit)
           worst == {n \in D!ToSet(items) : \A m \in D!ToSet(items) :
                       D!Rank[D!NodeStatus(n)] <= D!Rank[D!NodeStatus(m)]}
           told == IF items = <<>> THEN "on_track" ELSE D!NodeStatus(CHOOSE n \in worst : TRUE)
<1>1. tiles' = [tiles EXCEPT ![p] = [items |-> items, status |-> told]] BY DEF D!ReadTile
<1>2. S \subseteq Ids /\ profile \in Tables BY DashboardReadsIds DEF D!TypeOK
<1>3. InOrder(seq, R, S) BY <1>2, TileOrder
<1>4. \A m, n \in S : <<m, n>> \in R <=> D!MoreUrgent(m, n) BY DEF Urgencies
<1> HIDE DEF S, seq, R
<1>5. PICK k \in 0..Len(seq) : /\ k <= TileLimit /\ (k = TileLimit \/ k = Len(seq))
                               /\ items = SubSeq(seq, 1, k)
  BY <1>3, CutOfOrder, LimitsAssumption
<1>6. Len(items) = k /\ D!ToSet(items) = Top(seq, k) BY <1>3, <1>5, CutIsHead
<1>7. /\ Top(seq, k) \subseteq S
      /\ \A m \in Top(seq, k), n \in S \ Top(seq, k) : <<m, n>> \in R
      /\ Top(seq, k) = S <=> k = Len(seq)
  BY <1>2, <1>3, IdsFinite, HeadOfOrder
<1>8. Len(seq) \in Nat /\ (k = 0 => Len(seq) = 0) BY <1>3, <1>5, LimitsAssumption DEF InOrder
<1>9. items = <<>> <=> k = 0
  <2>1. k = 0 => items = <<>>
    <3>1. ASSUME k = 0 PROVE SubSeq(seq, 1, k) = <<>> BY <3>1, SubSeqEmpty
    <3> QED BY <1>5, <3>1
  <2> QED BY <1>6, <2>1
<1>10. ASSUME k # 0
       PROVE  \E n \in Top(seq, k) : /\ told = D!NodeStatus(n)
                                      /\ \A m \in Top(seq, k) :
                                           D!Rank[D!NodeStatus(n)] <= D!Rank[D!NodeStatus(m)]
  <2> DEFINE ranks == {D!Rank[D!NodeStatus(n)] : n \in Top(seq, k)}
  <2>1. ranks \subseteq Nat BY Ranked
  <2>2. ranks # {}
    <3>1. seq[1] \in Top(seq, k) BY <1>5, <1>8, <1>10 DEF Top
    <3> QED BY <3>1
  <2>3. PICK r \in ranks : \A s \in ranks : r <= s
    <3> HIDE DEF ranks
    <3> QED BY <2>1, <2>2, LeastOf
  <2>4. worst # {} BY <1>6, <2>3
  <2>5. (CHOOSE n \in worst : TRUE) \in worst BY <2>4
  <2>6. told = D!NodeStatus(CHOOSE n \in worst : TRUE) BY <1>9, <1>10
  <2> QED BY <1>6, <2>5, <2>6
<1>11. told \in DOMAIN D!Rank
  <2>1. CASE k = 0 BY <1>9, <2>1 DEF D!Rank
  <2>2. CASE k # 0 BY <1>10, <2>2, Ranked
  <2> QED BY <2>1, <2>2
<1>12. told = "attention" <=> \E n \in S : D!Within(7, n)
  <2>1. CASE k = 0
    <3>1. S = {} BY <1>7, <1>8, <2>1 DEF Top
    <3> QED BY <1>9, <2>1, <3>1
  <2>2. CASE k # 0
    <3>1. PICK n \in Top(seq, k) : /\ told = D!NodeStatus(n)
                                   /\ \A m \in Top(seq, k) :
                                        D!Rank[D!NodeStatus(n)] <= D!Rank[D!NodeStatus(m)]
      BY <1>10, <2>2
    <3>2. told = "attention" => D!Within(7, n) /\ n \in S BY <1>7, <3>1, Ranked
    <3>3. ASSUME NEW m \in S, D!Within(7, m) PROVE told = "attention"
      <4>1. D!Rank[D!NodeStatus(m)] = 0 BY <3>3, Ranked
      <4>2. CASE m \in Top(seq, k)
        <5>1. D!Rank[D!NodeStatus(n)] <= 0 BY <3>1, <4>1, <4>2
        <5> QED BY <3>1, <5>1, Ranked
      <4>3. CASE m \notin Top(seq, k)
        <5>1. D!MoreUrgent(n, m) BY <1>4, <1>7, <4>3
        <5>2. D!Rank[D!NodeStatus(n)] <= 0 BY <4>1, <5>1, Ranked DEF D!MoreUrgent
        <5> QED BY <3>1, <5>2, Ranked
      <4> QED BY <4>2, <4>3
    <3> QED BY <3>2, <3>3
  <2> QED BY <2>1, <2>2
<1> HIDE DEF items, told
<1>13. D!TypeOK'
  <2>1. D!TableOK' BY DEF D!ReadTile, D!TypeOK, D!TableOK, D!table
  <2>2. ASSUME NEW q \in D!Pillars
        PROVE  tiles'[q] = None \/ /\ tiles'[q].status \in DOMAIN D!Rank
                                   /\ Len(tiles'[q].items) <= TileLimit
    <3>1. CASE q = p /\ p \in DOMAIN tiles BY <1>1, <1>5, <1>6, <1>11, <3>1
    <3>2. CASE q # p \/ p \notin DOMAIN tiles BY <1>1, <3>2 DEF D!TypeOK
    <3> QED BY <3>1, <3>2
  <2> QED BY <2>1, <2>2 DEF D!TypeOK, D!ReadTile
<1>14. ASSUME NEW q \in D!Pillars, tiles'[q] # tiles[q]
       PROVE  tiles'[q].status = "attention" <=> \E n \in D!ReadByPillar({q}) : D!Within(7, n)
  <2>1. q = p /\ tiles'[q].status = told BY <1>1, <1>14
  <2> QED BY <1>12, <2>1 DEF S
<1> QED BY <1>13, <1>14

(* Today: the first of the dated nodes, and the count of the others.       *)
TodayTells(S, shown, more) ==
    /\ shown \subseteq S
    /\ more = Cardinality(S \ shown)
    /\ \A n \in S \ shown, m \in shown : profile[m].left <= profile[n].left

LEMMA TodayStep ==
    ASSUME D!TypeOK, D!ReadToday
    PROVE  D!TypeOK' /\ TodayTells(D!Dated, D!ToSet(agenda'.items), agenda'.more)
<1> DEFINE S == D!Dated
           seq == D!Ordered(S, D!Sooner)
           R == Sooners(S)
<1>1. agenda' = [items |-> D!Cut(seq, TodayLimit), more |-> D!Max({0, Len(seq) - TodayLimit})]
  BY DEF D!ReadToday
<1>2. S \subseteq Ids /\ profile \in Tables BY DashboardReadsIds DEF D!TypeOK
<1>3. InOrder(seq, R, S) BY <1>2, TodayOrder
<1>4. \A m, n \in S : <<m, n>> \in R <=> D!Sooner(m, n) BY DEF Sooners
<1> HIDE DEF seq, R, S
<1>5. PICK k \in 0..Len(seq) : /\ k <= TodayLimit /\ (k = TodayLimit \/ k = Len(seq))
                               /\ D!Cut(seq, TodayLimit) = SubSeq(seq, 1, k)
  BY <1>3, CutOfOrder, LimitsAssumption
<1>6. Len(agenda'.items) = k /\ D!ToSet(agenda'.items) = Top(seq, k)
  BY <1>1, <1>3, <1>5, CutIsHead
<1>7. IsFiniteSet(S) /\ Cardinality(S) \in 0..Count BY <1>2, IdsFinite
<1>8. /\ Top(seq, k) \subseteq S
      /\ IsFiniteSet(Top(seq, k)) /\ Cardinality(Top(seq, k)) = k
      /\ \A m \in Top(seq, k), n \in S \ Top(seq, k) : <<m, n>> \in R
  BY <1>3, <1>5, <1>7, HeadOfOrder
<1>9. Len(seq) = Cardinality(S) /\ Len(seq) \in Nat /\ k \in Nat /\ k <= Len(seq)
  BY <1>3, <1>5, <1>7 DEF InOrder
<1>10. agenda'.more = Len(seq) - k
  <2>1. 0 \in Int /\ Len(seq) - TodayLimit \in Int BY <1>9, LimitsAssumption
  <2>2. agenda'.more = IF 0 >= Len(seq) - TodayLimit THEN 0 ELSE Len(seq) - TodayLimit
    BY <1>1, <2>1, Pairs
  <2> QED BY <1>5, <1>9, <2>2, LimitsAssumption
<1>11. Cardinality(S \ Top(seq, k)) = Len(seq) - k
  <2>1. Cardinality(S \ Top(seq, k)) = Cardinality(S) - Cardinality(S \cap Top(seq, k))
    BY <1>7, FS_Difference
  <2>2. S \cap Top(seq, k) = Top(seq, k) BY <1>8
  <2> QED BY <1>8, <1>9, <2>1, <2>2
<1>12. ASSUME NEW n \in S \ Top(seq, k), NEW m \in Top(seq, k)
       PROVE  profile[m].left <= profile[n].left
  <2>1. D!Sooner(m, n) BY <1>4, <1>8
  <2>2. profile[m].left \in Int /\ profile[n].left \in Int BY <1>2, <1>8, Profiled
  <2> QED BY <2>1, <2>2 DEF D!Sooner
<1>13. D!TypeOK'
  <2>1. D!TableOK' BY DEF D!ReadToday, D!TypeOK, D!TableOK, D!table
  <2>2. Len(agenda'.items) <= TodayLimit /\ agenda'.more \in 0..Count
    BY <1>5, <1>6, <1>7, <1>9, <1>10, TablesAssumption
  <2> QED BY <2>1, <2>2 DEF D!TypeOK, D!ReadToday
<1>14. TodayTells(S, Top(seq, k), agenda'.more) BY <1>8, <1>10, <1>11, <1>12 DEF TodayTells
<1> QED BY <1>6, <1>13, <1>14 DEF S

LEMMA MemoryStep ==
    ASSUME D!TypeOK, D!ReadMemory
    PROVE  D!TypeOK'
<1>1. D!Live \subseteq Ids BY DashboardReadsIds DEF D!TypeOK
<1>2. /\ D!Newest(D!Live, MemoryLimit) \subseteq D!Live
      /\ D!Cardinality(D!Newest(D!Live, MemoryLimit)) <= MemoryLimit
  BY <1>1, NewestAreFew, LimitsAssumption
<1>3. memory' \subseteq D!Ids /\ D!Cardinality(memory') <= MemoryLimit
  BY <1>1, <1>2 DEF D!ReadMemory, D!Ids, Ids
<1>4. D!TableOK' BY DEF D!ReadMemory, D!TypeOK, D!TableOK, D!table
<1> QED BY <1>3, <1>4 DEF D!TypeOK, D!ReadMemory

LEMMA DashboardInit == D!Init => D!TypeOK
<1> SUFFICES ASSUME D!Init PROVE D!TypeOK OBVIOUS
<1> USE DEF D!Init
<1>1. D!TableOK
  <2>1. status \in [D!Ids -> D!Status] BY DEF D!TableInit, D!Status
  <2> QED BY <2>1, TablesAssumption DEF D!TableInit, D!TableOK
<1>2. memory \subseteq D!Ids /\ D!Cardinality(memory) <= MemoryLimit
  <2>1. Cardinality({}) = 0 BY FS_EmptySet
  <2> QED BY <2>1, SameCardinality, LimitsAssumption
<1> QED BY <1>1, <1>2 DEF D!TypeOK

(* Another request's write, between two reads.                             *)
LEMMA DashboardTableStep ==
    ASSUME D!TypeOK, D!Write \/ D!Move, UNCHANGED dashboard
    PROVE  D!TypeOK'
<1> USE DEF D!TypeOK, D!TableOK
<1>1. D!TableOK'
  <2>1. CASE D!Write BY <2>1 DEF D!Write, D!Status
  <2>2. CASE D!Move BY <2>2, TablesAssumption DEF D!Move, D!Status, D!Written
  <2> QED BY <2>1, <2>2
<1> QED BY <1>1 DEF dashboard

LEMMA DashboardInvariant == D!Spec => []D!TypeOK
<1>1. D!TypeOK /\ [D!Next]_(D!vars) => D!TypeOK'
  <2> SUFFICES ASSUME D!TypeOK, [D!Next]_(D!vars) PROVE D!TypeOK' OBVIOUS
  <2>1. CASE (D!Write \/ D!Move) /\ UNCHANGED dashboard BY <2>1, DashboardTableStep
  <2>2. CASE D!ReadToday \/ D!ReadMemory BY <2>2, TodayStep, MemoryStep
  <2>3. ASSUME NEW p \in D!Pillars, D!ReadTile(p) PROVE D!TypeOK' BY <2>3, TileStep
  <2>4. CASE UNCHANGED D!vars BY <2>4 DEF D!vars, D!table, D!TypeOK, D!TableOK
  <2> QED BY <2>1, <2>2, <2>3, <2>4 DEF D!Next, dashboard
<1> QED BY <1>1, DashboardInit, PTL DEF D!Spec

(* The type invariants of the two readers.                                 *)
THEOREM ReadersOKHolds == C!Spec /\ D!Spec => []ReadersOK
<1>1. ContextInv /\ D!TypeOK => ReadersOK BY DEF ContextInv, ReadersOK
<1> QED BY <1>1, ContextInvariant, DashboardInvariant, PTL

(* A tile asks for attention exactly when a node of its pillar is due      *)
(* within a week or overdue, however many nodes the pillar has.            *)
THEOREM TileTellsTheWorstHolds == D!Spec => TileTellsTheWorst
<1> DEFINE A == \A p \in D!Pillars : tiles'[p] # tiles[p] =>
                   (tiles'[p].status = "attention"
                      <=> \E n \in D!ReadByPillar({p}) : D!Within(7, n))
<1>1. D!TypeOK /\ [D!Next]_(D!vars) => [A]_(D!vars)
  <2> SUFFICES ASSUME D!TypeOK, D!Next PROVE A OBVIOUS
  <2>1. CASE (D!Write \/ D!Move) /\ UNCHANGED dashboard BY <2>1 DEF dashboard
  <2>2. CASE D!ReadToday \/ D!ReadMemory BY <2>2 DEF D!ReadToday, D!ReadMemory
  <2>3. ASSUME NEW p \in D!Pillars, D!ReadTile(p) PROVE A BY <2>3, TileStep
  <2> HIDE DEF A
  <2> QED BY <2>1, <2>2, <2>3 DEF D!Next, dashboard
<1> QED BY <1>1, DashboardInvariant, PTL DEF D!Spec, TileTellsTheWorst, D!TileTellsTheWorst

(* No deadline is kept from Today for a later one, and more_count counts   *)
(* exactly the kept ones.                                                  *)
THEOREM TodayIsEarliestHolds == D!Spec => TodayIsEarliest
<1> DEFINE A == agenda' # agenda =>
                   LET shown == D!ToSet(agenda'.items) IN
                   /\ agenda'.more = D!Cardinality(D!Dated \ shown)
                   /\ \A n \in D!Dated \ shown, m \in shown :
                         profile[m].left <= profile[n].left
<1>1. D!TypeOK /\ [D!Next]_(D!vars) => [A]_(D!vars)
  <2> SUFFICES ASSUME D!TypeOK, D!Next PROVE A OBVIOUS
  <2>1. CASE (D!Write \/ D!Move) /\ UNCHANGED dashboard BY <2>1 DEF dashboard
  <2>2. CASE D!ReadMemory BY <2>2 DEF D!ReadMemory
  <2>3. ASSUME NEW p \in D!Pillars, D!ReadTile(p) PROVE A BY <2>3 DEF D!ReadTile
  <2>4. CASE D!ReadToday BY <2>4, TodayStep, SameCardinality DEF TodayTells
  <2> HIDE DEF A
  <2> QED BY <2>1, <2>2, <2>3, <2>4 DEF D!Next, dashboard
<1> QED BY <1>1, DashboardInvariant, PTL DEF D!Spec, TodayIsEarliest, D!TodayIsEarliest
=============================================================================
