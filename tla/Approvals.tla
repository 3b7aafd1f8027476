----------------------------- MODULE Approvals -----------------------------
(***************************************************************************)
(* From an approval to the (mocked) execution: POST /approve with          *)
(* approved = true, the action gateway behind it, the authority check, the *)
(* standing grants and the session-wide approval guard, every SELECT and   *)
(* every commit a step, with other requests between them.                  *)
(*                                                                         *)
(* The gateway is also a registered skill that can be called directly,     *)
(* which is the only way to name a pillar and an action for a grant.       *)
(***************************************************************************)
EXTENDS Naturals, FiniteSets

CONSTANTS
    Calls,     \* requests: each one /approve or one direct gateway call
    Actions,   \* action_log rows put before the user
    Sessions,
    Grants,    \* standing_authorities rows, all for one pillar and action
    None

ASSUME NoneAssumption == None \notin Actions \cup Grants
ASSUME NamesAssumption == "approval" \notin Grants

VARIABLES
    owner,      \* the session of an action_log row
    kind,       \* its action_type, as far as the authority matrix tells apart
    confirms,   \* the calls that inserted a CONFIRM row approve:<action>
    stage,      \* the live trust stage: T3, or 0 for any below it
    granted,    \* grants with status active: no code ever changes it
    lapsed,     \* grants past their renewal date
    narrow,     \* grants whose bounds the requests exceed
    \* the calls
    pc,
    act,        \* the action a call is about
    direct,     \* calls of the gateway without /approve
    able,       \* calls whose agent and level the authority matrix lets pass
    scoped,     \* of these, the calls that name the grants' pillar and action
    late,       \* /approve calls that came after a confirmation of their action
    logged,     \* calls whose gateway row is committed
    seen,       \* the trust stage a call read
    basis       \* what its execution rests on

rows == <<owner, kind, confirms>>
authority == <<stage, granted, lapsed, narrow>>
calls == <<pc, act, direct, able, scoped, late, logged, seen, basis>>
vars == <<rows, authority, calls>>

-----------------------------------------------------------------------------
Ends == {"executed", "blocked", "refused", "failed"}
T3 == 3

TypeOK ==
    /\ owner \in [Actions -> Sessions]
    /\ kind \in [Actions -> {"confirm", "other"}]
    /\ confirms \in [Actions -> SUBSET Calls]
    /\ stage \in {0, T3}
    /\ granted \in SUBSET Grants
    /\ lapsed \in SUBSET Grants
    /\ narrow \in SUBSET Grants
    /\ pc \in [Calls -> {"idle", "lookup", "insert", "log", "stage", "grant", "approval"} \cup Ends]
    /\ act \in [Calls -> Actions \cup {None}]
    /\ direct \in SUBSET Calls
    /\ able \in SUBSET Calls
    /\ scoped \in SUBSET direct
    /\ late \in SUBSET Calls
    /\ logged \in SUBSET Calls
    /\ seen \in [Calls -> {0, T3}]
    /\ basis \in [Calls -> Grants \cup {None, "approval"}]

Init ==
    /\ owner \in [Actions -> Sessions]
    /\ kind \in [Actions -> {"confirm", "other"}]
    /\ confirms = [a \in Actions |-> {}]
    /\ stage = 0
    /\ granted = {} /\ lapsed = {}
    /\ narrow \in SUBSET Grants
    /\ pc = [c \in Calls |-> "idle"]
    /\ act = [c \in Calls |-> None]
    /\ direct = {} /\ able = {} /\ scoped = {} /\ late = {} /\ logged = {}
    /\ seen = [c \in Calls |-> 0]
    /\ basis = [c \in Calls |-> None]

Goto(c, where) == pc' = [pc EXCEPT ![c] = where]

-----------------------------------------------------------------------------
(* Trust may be advanced, and falls when advances race (Trust); a grant is *)
(* added whatever grants there are, and time passes its renewal date.      *)
TrustMoves ==
    /\ stage' \in {0, T3}
    /\ UNCHANGED <<rows, granted, lapsed, narrow, calls>>

GrantStanding(g) ==
    /\ g \notin granted
    /\ granted' = granted \cup {g}
    /\ UNCHANGED <<rows, stage, lapsed, narrow, calls>>

Lapse(g) ==
    /\ g \in granted
    /\ lapsed' = lapsed \cup {g}
    /\ UNCHANGED <<rows, stage, granted, narrow, calls>>

-----------------------------------------------------------------------------
(* POST /approve; naming the session the row belongs to, or not.  open:    *)
(* that session is active and the row itself not confirmed.  The endpoint  *)
(* speaks for the master at the highest level.                             *)
Approve(c, a, s, open) ==
    /\ pc[c] = "idle"
    /\ act' = [act EXCEPT ![c] = a]
    /\ late' = IF confirms[a] # {} THEN late \cup {c} ELSE late
    /\ able' = able \cup {c}
    /\ Goto(c, IF open /\ owner[a] = s THEN "lookup" ELSE "refused")
    /\ UNCHANGED <<rows, authority, direct, scoped, logged, seen, basis>>

(* The marker's row: none, one (409), or several, which                    *)
(* scalar_one_or_none answers with MultipleResultsFound (500).             *)
LookUpOriginalRow(c) ==
    /\ pc[c] = "lookup"
    /\ Goto(c, "insert")
    /\ UNCHANGED <<rows, authority, act, direct, able, scoped, late, logged, seen, basis>>

LookUp(c) ==
    /\ pc[c] = "lookup"
    /\ \/ confirms[act[c]] = {} /\ Goto(c, "insert")
       \/ Cardinality(confirms[act[c]]) = 1 /\ Goto(c, "refused")
       \/ Cardinality(confirms[act[c]]) > 1 /\ Goto(c, "failed")
    /\ UNCHANGED <<rows, authority, act, direct, able, scoped, late, logged, seen, basis>>

Confirm(c) ==
    /\ pc[c] = "insert"
    /\ confirms' = [confirms EXCEPT ![act[c]] = @ \cup {c}]
    /\ Goto(c, "log")
    /\ UNCHANGED <<owner, kind, authority, act, direct, able, scoped, late, logged, seen, basis>>

(* invoke_skill("operational.action_gateway") by anybody else, at any      *)
(* level and for any agent.                                                *)
CallDirectly(c, a) ==
    /\ pc[c] = "idle"
    /\ act' = [act EXCEPT ![c] = a]
    /\ direct' = direct \cup {c}
    /\ able' \in {able, able \cup {c}}
    /\ scoped' \in {scoped, scoped \cup {c}}
    /\ Goto(c, "log")
    /\ UNCHANGED <<rows, authority, late, logged, seen, basis>>

(* action_gateway_skill, step 1 and its commit.                            *)
LogFirst(c) ==
    /\ pc[c] = "log"
    /\ logged' = logged \cup {c}
    /\ Goto(c, "stage")
    /\ UNCHANGED <<rows, authority, act, direct, able, scoped, late, seen, basis>>

(* check_authority: the level the matrix asks for the type, by an agent     *)
(* that may; confirm also needs T3.                                        *)
AuthorizedAny(c, trust) == c \in able

Authorized(c, trust) == c \in able /\ (kind[act[c]] = "confirm" => trust >= T3)

ReadStage(c) ==
    /\ pc[c] = "stage"
    /\ seen' = [seen EXCEPT ![c] = stage]
    /\ Goto(c, IF Authorized(c, stage) THEN "grant" ELSE "blocked")
    /\ UNCHANGED <<rows, authority, act, direct, able, scoped, late, logged, basis>>

(* find_valid_standing_grant: the first active row, in no stated order,    *)
(* and only then its renewal date and its bounds.                          *)
Valid == granted \ (lapsed \cup narrow)

FindGrant(c) ==
    /\ pc[c] = "grant"
    /\ \/ /\ c \in scoped /\ seen[c] >= T3
          /\ \E g \in granted :
                IF g \in Valid THEN basis' = [basis EXCEPT ![c] = g] /\ Goto(c, "executed")
                               ELSE UNCHANGED basis /\ Goto(c, "approval")
       \/ /\ c \notin scoped \/ seen[c] < T3 \/ granted = {}
          /\ Goto(c, "approval")
          /\ UNCHANGED basis
    /\ UNCHANGED <<rows, authority, act, direct, able, scoped, late, logged, seen>>

(* assert_has_user_approval: a CONFIRM row of the session, whatever it     *)
(* confirms.                                                               *)
ApprovedSession(s) == \E a \in Actions : owner[a] = s /\ confirms[a] # {}

CheckApproval(c) ==
    /\ pc[c] = "approval"
    /\ \/ /\ ApprovedSession(owner[act[c]])
          /\ basis' = [basis EXCEPT ![c] = "approval"]
          /\ Goto(c, "executed")
       \/ /\ ~ApprovedSession(owner[act[c]])
          /\ Goto(c, "blocked")
          /\ UNCHANGED basis
    /\ UNCHANGED <<rows, authority, act, direct, able, scoped, late, logged, seen>>

(* An error or a crash at any step leaves what is committed.               *)
Fail(c) ==
    /\ pc[c] \notin Ends \cup {"idle"}
    /\ Goto(c, "failed")
    /\ UNCHANGED <<rows, authority, act, direct, able, scoped, late, logged, seen, basis>>

Gateway(c) == LogFirst(c) \/ ReadStage(c) \/ FindGrant(c) \/ CheckApproval(c)

Call(c) ==
    \/ \E a \in Actions, s \in Sessions, open \in BOOLEAN : Approve(c, a, s, open)
    \/ \E a \in Actions : CallDirectly(c, a)
    \/ LookUp(c) \/ Confirm(c) \/ Gateway(c) \/ Fail(c)

Next ==
    \/ TrustMoves
    \/ \E g \in Grants : GrantStanding(g) \/ Lapse(g)
    \/ \E c \in Calls : Call(c)

Spec == Init /\ [][Next]_vars

-----------------------------------------------------------------------------
(* Nothing is executed without a committed log row, the authority for its  *)
(* type, and either a confirmation in its session or a grant that covered  *)
(* it under earned trust (INV-01, INV-05).                                 *)
ExecutedIsAuthorized ==
    \A c \in Calls : pc[c] = "executed" =>
        /\ c \in logged \cap able
        /\ kind[act[c]] = "confirm" => seen[c] >= T3
        /\ \/ basis[c] = "approval" /\ ApprovedSession(owner[act[c]])
           \/ basis[c] \in granted \ narrow /\ seen[c] >= T3 /\ c \in scoped

(* An approval that comes after a committed one of the same action gets    *)
(* nowhere: the marker row stands for the user_confirmed that is never     *)
(* set (approve_action).                                                   *)
LateIsRefused ==
    \A c \in late : pc[c] \in {"lookup", "refused", "failed"}

(* An action is executed at most once by its approvals.  False: two        *)
(* requests look the marker up before either inserts it.                   *)
ApprovedOnce ==
    \A a \in Actions :
        Cardinality({c \in Calls \ direct : act[c] = a /\ pc[c] = "executed"}) <= 1

(* What is executed without a grant was itself approved.  False: any       *)
(* confirmation of the session will do.                                    *)
ApprovedItself ==
    \A c \in Calls : pc[c] = "executed" /\ basis[c] = "approval" => confirms[act[c]] # {}

(* A call some grant covers is executed under it.  False: a lapsed or      *)
(* narrower active row may be the first found.                             *)
GrantHonoured ==
    [][\A c \in Calls :
          pc[c] = "grant" /\ pc'[c] # "grant" /\ pc'[c] # "failed"
             /\ c \in scoped /\ seen[c] >= T3 /\ Valid # {}
          => basis'[c] \in Valid]_vars
=============================================================================
