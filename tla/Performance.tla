---------------------------- MODULE Performance ----------------------------
(***************************************************************************)
(* skill_performance_tracker: at every session close it recomputes, for    *)
(* the skills the session used, whether they are below their threshold,    *)
(* and upserts one row per skill and day.  Two closes may run at once; an  *)
(* upsert locks its row until the transaction ends.  The meta loop and the *)
(* T3 evidence of the trust ladder read the rows.                          *)
(***************************************************************************)
EXTENDS Naturals, FiniteSetsExt

CONSTANTS
    Skills,      \* the skills, numbered in the order of their names
    Trackers,    \* runs of the tracker
    LastDay,     \* days (bounds the run)
    Window,      \* the days before today the tracker looks back on (30)
    MaxCalls,    \* invocations in all (bounds the run)
    FlagPercent  \* _ERROR_FLAG

VARIABLES
    day,
    calls,    \* skill_invocation_log, per skill, day and outcome
    row,      \* skill_performance, per skill and day, as committed
    \* the trackers
    pc,
    begun,    \* the day of its window_end
    todo,     \* skills of the session not yet done
    current,  \* the skill it is at
    seen,     \* whether it found that skill below its threshold
    draft,    \* its uncommitted upserts: rows it holds
    due       \* of its skills, those with invocations in its window when it began (history)

tracker == <<pc, begun, todo, current, seen, draft, due>>
vars == <<day, calls, row, tracker>>

-----------------------------------------------------------------------------
Days == 0..LastDay
Outcomes == {"running", "ok", "slow", "bad"}    \* slow: ok but near its timeout; bad: error, timeout
Grades == {"none", "good", "below"}
NoDraft == [s \in Skills |-> "none"]

TypeOK ==
    /\ day \in Days
    /\ calls \in [Skills -> [Days -> [Outcomes -> Nat]]]
    /\ row \in [Skills -> [Days -> Grades]]
    /\ pc \in [Trackers -> {"idle", "look", "upsert", "done", "failed"}]
    /\ begun \in [Trackers -> Days]
    /\ todo \in [Trackers -> SUBSET Skills]
    /\ current \in [Trackers -> Skills]
    /\ \A t \in Trackers : pc[t] = "upsert" => current[t] \in todo[t]
    /\ seen \in [Trackers -> BOOLEAN]
    /\ draft \in [Trackers -> [Skills -> Grades]]
    /\ \A t \in Trackers : pc[t] \in {"done", "failed"} => draft[t] = NoDraft
    /\ due \in [Trackers -> SUBSET Skills]

Init ==
    /\ day = 0
    /\ calls = [s \in Skills |-> [d \in Days |-> [o \in Outcomes |-> 0]]]
    /\ row = [s \in Skills |-> [d \in Days |-> "none"]]
    /\ pc = [t \in Trackers |-> "idle"]
    /\ begun = [t \in Trackers |-> 0]
    /\ todo = [t \in Trackers |-> {}]
    /\ current = [t \in Trackers |-> Min(Skills)]
    /\ seen = [t \in Trackers |-> FALSE]
    /\ draft = [t \in Trackers |-> NoDraft]
    /\ due = [t \in Trackers |-> {}]

-----------------------------------------------------------------------------
(* The invocations of a skill since the start of a window that ends on d.  *)
InWindow(s, o, d) ==
    LET days == {e \in Days : e + Window >= d}
    IN  MapThenSumSet(LAMBDA e : calls[s][e][o], days)

Total(s, d) == MapThenSumSet(LAMBDA o : InWindow(s, o, d), Outcomes)

(* An error rate, rounded to four digits, above the flag.  Running rows    *)
(* count in the total only.                                                *)
Above(errors, total) == 20000 * errors > (200 * FlagPercent + 1) * total

ErringCountsRunning(s, d) ==
    Above(InWindow(s, "bad", d) + InWindow(s, "running", d), Total(s, d))

Erring(s, d) == Above(InWindow(s, "bad", d), Total(s, d))

(* A slow or a failed invocation may be the one at the p95 latency.        *)
Below(s, d) ==
    IF Erring(s, d) THEN {TRUE}
    ELSE IF InWindow(s, "slow", d) + InWindow(s, "bad", d) > 0 THEN BOOLEAN ELSE {FALSE}

-----------------------------------------------------------------------------
Invoke(s) ==
    /\ MapThenSumSet(LAMBDA r : MapThenSumSet(LAMBDA d : MapThenSumSet(
           LAMBDA o : calls[r][d][o], Outcomes), Days), Skills) < MaxCalls
    /\ calls' = [calls EXCEPT ![s][day]["running"] = @ + 1]
    /\ UNCHANGED <<day, row, tracker>>

Answer(s, d, o) ==
    /\ calls[s][d]["running"] > 0
    /\ calls' = [calls EXCEPT ![s][d]["running"] = @ - 1, ![s][d][o] = @ + 1]
    /\ UNCHANGED <<day, row, tracker>>

Midnight ==
    /\ day < LastDay
    /\ day' = day + 1
    /\ UNCHANGED <<calls, row, tracker>>

(* A tracker starts: the skills its session invoked.                       *)
Start(t, S) ==
    /\ pc[t] = "idle" /\ S # {}
    /\ \A s \in S : \E d \in Days, o \in Outcomes : calls[s][d][o] > 0
    /\ begun' = [begun EXCEPT ![t] = day]
    /\ todo' = [todo EXCEPT ![t] = S]
    /\ due' = [due EXCEPT ![t] = {s \in S : Total(s, day) > 0}]
    /\ pc' = [pc EXCEPT ![t] = "look"]
    /\ UNCHANGED <<day, calls, row, current, seen, draft>>

(* The order of the skills: by name.                                       *)
FirstAny(S) == S
First(S) == {Min(S)}

(* The grade of a skill that has invocations in the window.                *)
Grade(t, s) ==
    /\ Total(s, begun[t]) > 0
    /\ \E b \in Below(s, begun[t]) : seen' = [seen EXCEPT ![t] = b]
    /\ pc' = [pc EXCEPT ![t] = "upsert"]
    /\ UNCHANGED todo

(* A skill without any ends the evaluation.                                *)
LookStopping(t) ==
    /\ pc[t] = "look" /\ todo[t] # {}
    /\ \E s \in First(todo[t]) :
          /\ current' = [current EXCEPT ![t] = s]
          /\ \/ Grade(t, s)
             \/ /\ Total(s, begun[t]) = 0
                /\ todo' = [todo EXCEPT ![t] = {}]
                /\ UNCHANGED <<pc, seen>>
    /\ UNCHANGED <<day, calls, row, begun, draft, due>>

(* One skill: count its rows; without any in the window, the next one.     *)
Look(t) ==
    /\ pc[t] = "look" /\ todo[t] # {}
    /\ \E s \in First(todo[t]) :
          /\ current' = [current EXCEPT ![t] = s]
          /\ \/ Grade(t, s)
             \/ /\ Total(s, begun[t]) = 0
                /\ todo' = [todo EXCEPT ![t] = @ \ {s}]
                /\ UNCHANGED <<pc, seen>>
    /\ UNCHANGED <<day, calls, row, begun, draft, due>>

(* Another transaction holds the row of this skill and window.             *)
Holds(u, s, d) == begun[u] = d /\ draft[u][s] # "none"
Blocked(t) == \E u \in Trackers \ {t} : Holds(u, current[t], begun[t])

Upsert(t) ==
    /\ pc[t] = "upsert" /\ ~Blocked(t)
    /\ draft' = [draft EXCEPT ![t][current[t]] = IF seen[t] THEN "below" ELSE "good"]
    /\ todo' = [todo EXCEPT ![t] = @ \ {current[t]}]
    /\ pc' = [pc EXCEPT ![t] = "look"]
    /\ UNCHANGED <<day, calls, row, begun, current, seen, due>>

(* The rows with a tracker's upserts among them.                           *)
With(t) ==
    [s \in Skills |-> IF draft[t][s] = "none" THEN row[s]
                      ELSE [row[s] EXCEPT ![begun[t]] = draft[t][s]]]

Commit(t) ==
    /\ pc[t] = "look" /\ todo[t] = {}
    /\ row' = With(t)
    /\ draft' = [draft EXCEPT ![t] = NoDraft]
    /\ pc' = [pc EXCEPT ![t] = "done"]
    /\ UNCHANGED <<day, calls, begun, todo, current, seen, due>>

(* An exception or the time limit, after which invoke_skill commits what    *)
(* was written so far (SkillLog), or a failed statement, after which it    *)
(* cannot.                                                                 *)
Abort(t) ==
    /\ pc[t] \in {"look", "upsert"}
    /\ row' \in {row, With(t)}
    /\ draft' = [draft EXCEPT ![t] = NoDraft]
    /\ pc' = [pc EXCEPT ![t] = "failed"]
    /\ UNCHANGED <<day, calls, begun, todo, current, seen, due>>

Next ==
    \/ Midnight
    \/ \E s \in Skills : Invoke(s) \/ \E d \in Days, o \in Outcomes \ {"running"} : Answer(s, d, o)
    \/ \E t \in Trackers :
          \/ \E S \in SUBSET Skills : Start(t, S)
          \/ Look(t) \/ Upsert(t) \/ Commit(t) \/ Abort(t)

Spec == Init /\ [][Next]_vars

-----------------------------------------------------------------------------
(* Two closing sessions never wait for each other's rows: both take them   *)
(* in the order of the names.                                              *)
NoDeadlock ==
    \A t, u \in Trackers :
        ~ /\ t # u /\ pc[t] = "upsert" /\ pc[u] = "upsert"
          /\ Holds(u, current[t], begun[t]) /\ Holds(t, current[u], begun[u])

(* Every skill of a session whose tracker committed has a row for the day  *)
(* the tracker began on: whatever another close, a skill without recent    *)
(* invocations before it or a midnight in between did to it.               *)
UsedIsGraded ==
    \A t \in Trackers : pc[t] = "done" => \A s \in due[t] : row[s][begun[t]] # "none"

(* A skill is marked below its threshold only if an invocation in the      *)
(* window failed or was slow: not for the ones still running, of which the *)
(* tracker itself is one.                                                  *)
FlagHasCause ==
    \A s \in Skills, d \in Days :
        row[s][d] = "below" => InWindow(s, "bad", d) + InWindow(s, "slow", d) > 0

(* The number the T3 bar wants to be 0.                                    *)
DegradedSkills == {x \in Skills \X Days : row[x[1]][x[2]] = "below"}

Evaluated(s) == {d \in Days : row[s][d] # "none"}

(* While it is not 0, some skill is degraded by its newest evaluation.     *)
(* False: rows of earlier days count on.                                   *)
DegradedIsCurrent ==
    DegradedSkills # {} =>
        \E s \in Skills : Evaluated(s) # {} /\ row[s][Max(Evaluated(s))] = "below"
=============================================================================
