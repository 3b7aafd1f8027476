-------------------------- MODULE DecisionJournal --------------------------
(***************************************************************************)
(* The Decision Protocol's brief, the journal row it is recorded in, and   *)
(* the confirmations of its outcome.  A confirmation loads the row and     *)
(* flushes it later; the flush updates the columns whose values changed,   *)
(* and nothing keeps two confirmations of one decision apart.              *)
(***************************************************************************)
EXTENDS Naturals

CONSTANTS
    Decisions,  \* the protocol's runs
    Acts,       \* the calls of confirm_decision
    Sources,    \* who confirms
    Blank,      \* an empty source
    None        \* NULL

VARIABLES
    \* decision_journal
    brief,      \* what the protocol put in the row
    verdict,    \* confirmed_correct
    by,         \* confirmed_by
    \* the calls of confirm_decision
    pc,
    call,       \* their arguments
    loaded      \* the row as the session loaded it

journal == <<brief, verdict, by>>
vars == <<journal, pc, call, loaded>>

-----------------------------------------------------------------------------
(* How an intent comes to want a recommendation: not at all, by asking, or *)
(* by a text in which "recommend" or "advise" is part of another word.     *)
Wants == {"no", "asked", "mentioned"}

(* A brief: whether an approval is asked for, the challenge is non-empty   *)
(* and there is a recommendation, with what the intent had of one.         *)
Briefs == [approval : BOOLEAN, challenge : BOOLEAN, wants : Wants, advice : BOOLEAN]
NoCall == [decision |-> None, source |-> None, correct |-> None]
NotLoaded == [verdict |-> None, by |-> None]

TypeOK ==
    /\ brief \in [Decisions -> Briefs \cup {None}]
    /\ verdict \in [Decisions -> BOOLEAN \cup {None}]
    /\ by \in [Decisions -> Sources \cup {None}]
    /\ \A d \in Decisions : verdict[d] # None => brief[d] # None /\ by[d] # None
    /\ pc \in [Acts -> {"idle", "loaded", "done", "refused"}]
    /\ call \in [Acts -> {NoCall} \cup
                   [decision : Decisions, source : Sources \cup {Blank}, correct : BOOLEAN]]
    /\ loaded \in [Acts -> [verdict : BOOLEAN \cup {None}, by : Sources \cup {None}]]

Init ==
    /\ brief = [d \in Decisions |-> None]
    /\ verdict = [d \in Decisions |-> None]
    /\ by = [d \in Decisions |-> None]
    /\ pc = [a \in Acts |-> "idle"]
    /\ call = [a \in Acts |-> NoCall]
    /\ loaded = [a \in Acts |-> NotLoaded]

-----------------------------------------------------------------------------
(* run_decision_protocol: level is the authority the intent's action type  *)
(* needs, 3 when it has none; reply is None when the model gave nothing,   *)
(* else whether it has a challenge and a recommendation.                   *)
Levels == 0..3
Replies == [challenge : BOOLEAN, advice : BOOLEAN]

BriefOf(level, wants, reply) ==
    [approval |-> level > 2, wants |-> wants,
     challenge |-> reply = None \/ reply.challenge \/ level > 2,
     advice |-> wants # "no" /\ reply # None /\ reply.advice]

(* record_decision: the row starts unconfirmed.                            *)
RecordConfirmed(d) ==
    /\ brief[d] = None
    /\ \E level \in Levels, wants \in Wants, reply \in Replies \cup {None} :
          brief' = [brief EXCEPT ![d] = BriefOf(level, wants, reply)]
    /\ verdict' = [verdict EXCEPT ![d] = TRUE]
    /\ by' = [by EXCEPT ![d] = CHOOSE s \in Sources : TRUE]
    /\ UNCHANGED <<pc, call, loaded>>

Record(d) ==
    /\ brief[d] = None
    /\ \E level \in Levels, wants \in Wants, reply \in Replies \cup {None} :
          brief' = [brief EXCEPT ![d] = BriefOf(level, wants, reply)]
    /\ UNCHANGED <<verdict, by, pc, call, loaded>>

(* confirm_decision: no source, no confirmation; else load the row.        *)
Load(a, d, s, c) ==
    /\ pc[a] = "idle" /\ brief[d] # None
    /\ call' = [call EXCEPT ![a] = [decision |-> d, source |-> s, correct |-> c]]
    /\ IF s = Blank
         THEN pc' = [pc EXCEPT ![a] = "refused"] /\ UNCHANGED loaded
         ELSE /\ pc' = [pc EXCEPT ![a] = "loaded"]
              /\ loaded' = [loaded EXCEPT ![a] = [verdict |-> verdict[d], by |-> by[d]]]
    /\ UNCHANGED journal

(* The flush writes the attributes that differ from what was loaded; the   *)
(* row's CHECK admits no verdict without a source.                         *)
Flush(a) ==
    LET c == call[a]  d == c.decision IN
    /\ pc[a] = "loaded"
    /\ verdict' = IF c.correct = loaded[a].verdict THEN verdict
                                                   ELSE [verdict EXCEPT ![d] = c.correct]
    /\ by' = IF c.source = loaded[a].by THEN by ELSE [by EXCEPT ![d] = c.source]
    /\ verdict'[d] # None => by'[d] # None
    /\ pc' = [pc EXCEPT ![a] = "done"]
    /\ UNCHANGED <<brief, call, loaded>>

Next ==
    \/ \E d \in Decisions : Record(d)
    \/ \E a \in Acts :
          \/ \E d \in Decisions, s \in Sources \cup {Blank}, c \in BOOLEAN : Load(a, d, s, c)
          \/ Flush(a)

Spec == Init /\ [][Next]_vars

-----------------------------------------------------------------------------
Confirmations(d) == {a \in Acts : pc[a] = "done" /\ call[a].decision = d}

(* No outcome is made up: the verdict of a row was given for that          *)
(* decision, and its named source did confirm it (decision_journal.py,     *)
(* "Confirmation is NEVER synthesized here").                              *)
NothingIsSynthesized ==
    \A d \in Decisions :
        /\ verdict[d] # None => \E a \in Confirmations(d) : call[a].correct = verdict[d]
        /\ by[d] # None => \E a \in Confirmations(d) : call[a].source = by[d]

(* A brief that asks for approval challenges the action, whatever the      *)
(* model answered or failed to.                                            *)
ApprovalIsChallenged ==
    \A d \in Decisions : brief[d] # None /\ brief[d].approval => brief[d].challenge

(* A recommendation was explicitly asked for. False: a part of another     *)
(* word will do.                                                           *)
AdviceWasAsked ==
    \A d \in Decisions : brief[d] # None /\ brief[d].advice => brief[d].wants = "asked"

(* The verdict in a row is the one its source gave. False: two             *)
(* confirmations that loaded the same row write different columns.         *)
VerdictIsItsOwn ==
    \A d \in Decisions : verdict[d] # None =>
        \E a \in Confirmations(d) : call[a].source = by[d] /\ call[a].correct = verdict[d]

(* The confirmation columns change once, from NULL. False: nothing looks   *)
(* whether they are set.                                                   *)
ConfirmedOnce ==
    [][\A d \in Decisions : verdict[d] # None =>
          verdict'[d] = verdict[d] /\ by'[d] = by[d]]_vars
=============================================================================
