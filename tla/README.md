# Aether: a TLA+ model of its loops, its memory and its approvals

Aether is a personal assistant: a FastAPI service over PostgreSQL in which a
session is opened, a *goal loop* answers the user's turns, further loops
correct, escalate and respond to risks, a *watchdog* ends whatever runs too
long, and what was learned is kept as *nodes* that supersede and contradict
each other. This directory models the parts of it that decide something while
others change the same rows, checks the models with TLC and proves the central
results with TLAPS.

## How the program is built

One process runs an asyncio event loop. Every HTTP request is a task with a
database session of its own (`database.get_db`), and one background task, the
watchdog, wakes every second. Tasks do not share memory; they meet in the
tables. PostgreSQL runs READ COMMITTED, so what a task has read may be old
when it writes. The code between two `await`s is atomic for the event loop,
and a transaction is atomic for the tables. `invoke_skill` commits its caller's
session before and after each skill, which cuts many operations into more
transactions than their code suggests.

| Component | State it keeps | Operations | What makes it hard | Modelled in |
|---|---|---|---|---|
| Session API (`api/routes/session.py`) | `sessions`, confirmations in `action_log` | start, input, approve, close | each endpoint is several transactions; requests of one session overlap | `SessionLoops`, `Approvals` |
| Goal loop (`loops/goal_loop.py`) | its `loop_runs` row | start, execute_turn, complete | counter is read, then written; bounds are checked on a copy | `SessionLoops` |
| Watchdog (`loops/watchdog.py`) | `loop_runs`, P0 rows in `pending_escalations` | the cycle: end overdue loops, clean stale skill rows | acts on a list read earlier; one error ends the cycle | `SessionLoops`, `SkillLog` |
| Reflection loop (`loops/reflection_loop.py`) | its `loop_runs` row | run | runs inside /close, writes its status by id at the end | `SessionLoops` |
| Shutdown loop (`loops/shutdown_loop.py`) | `loop_runs`, `sub_agent_runs` | terminate_active_tree, run | selects, then writes what it selected | `SessionLoops`, `NestedLoops` |
| Escalation, correction, safety loops | `loop_runs`, `pending_escalations` | run | de-duplication by lookup and by index, retries that nest, swallowed exceptions | `NestedLoops` |
| Sub-agents (`agents/sub_agents/runtime.py`) | `sub_agent_runs` | run_sub_agent | its last write can overwrite a forced end | `NestedLoops`, `SkillLog` |
| Skill invoker (`skills/invoker.py`) | `skill_invocation_log` | invoke_skill | two transactions around a timeout; a trigger freezes finished rows | `SkillLog` |
| Approvals, gateway, standing authority | `action_log`, `standing_authorities` | approve, act, grant, lapse | check and insert are separate statements | `Approvals` |
| Dynamic trust (`memory/trust_state.py`) | markers in `action_log` | surface, advance, current stage | state is derived from an append-only log | `Trust` |
| Memory (`memory/write_protocol.py`, safety skills) | `nodes`, `node_links`, L1 snapshots | write, supersede, link, contradict, roll back, audit | chains of supersession and their undoing | `NodeStore` |
| Reads and context (`memory/read_protocol.py`, `context_assembler.py`) | none | reads, ranking, token budget | several reads of a table that changes | `NodeTable`, `Context` |
| Deadline monitor and legal surfacer | `pending_escalations` | scan, notice; the brief | two scans notice the same node, and can deadlock over it | `Deadlines` |
| Dashboard (`api/routes/dashboard.py`) | none | tiles, Today, memory zone | several reads, each cut to a limit | `NodeTable`, `Dashboard` |
| Synthesis (`memory/synthesis.py`) | `synthesis_runs`, an advisory lock | run_synthesis | the lock belongs to a pooled connection | `Synthesis` |
| Decision protocol and journal | `decision_journal` | brief, record, confirm | the flush writes what differs from what was loaded | `DecisionJournal` |
| Master agent (`agents/master_agent.py`) | none | one turn: parse, route, ask, validate, reply | retries inside re-prompts; the model may answer anything | `Turn` |
| Skill performance (`skill_performance_tracker.py`) | `skill_performance` | the evaluation at a close | upserts of several rows in one transaction | `Performance` |
| Meta loop, catalogue, specialists, reports, configuration | reports | model calls and reports | none that a model checker reaches | not modelled |

Calls between them: the API calls the goal loop, which calls the master agent,
which calls skills through `invoke_skill`; /approve calls the gateway, which
asks the authority check, the grants and the trust stage; /close calls the goal
loop, the shutdown loop, synthesis, the reflection loop and the evaluating
skills; corrections call escalations; the watchdog is called by nobody and meets
the others in `loop_runs`. `PROJECT.json` lists every component with its
status, and under `hazards` the places where an order of steps, a crash or an
old value can go wrong.

What makes each component correct, in short: a loop that is over stays over and
is over for a reason somebody can see; nothing of a session outlives its close;
bounds hold however turns overlap and retries nest; an overdue loop is ended; a
finished log row never changes; nothing is executed without authority and
consent; trust climbs rung by rung; a correction never makes a fact disappear;
whatever is flagged or overdue is put before the user; two syntheses never run
at once; no verdict is made up.

## Modules

| Module | What it is |
|---|---|
| `LoopLifecycle` | The abstract contract of a loop row: spawned once, ended, never revived; a forced end raises the loop's one alert while its session has none open; alerts are cleared per session. |
| `SessionLoops` | The session API (start, input, reject, close), goal loop, reflection loop, watchdog, crash and restart over `sessions`, `loop_runs` and `pending_escalations`. Properties and the inductive invariant are at its end. |
| `SessionLoopsProofs` | The theorems about `SessionLoops`. |
| `SkillLogRow` | The abstract contract of a skill log row: opened once, closed once with one verdict, never touched again; the caller is told of a success exactly when the row says ok. |
| `SkillLog` | `invoke_skill` and its log over the database session that wrapper, skill and request share; the watchdog's and the start-up's cleanup; crash and restart. |
| `SkillLogProofs` | The theorems about `SkillLog`. |
| `NodeStore` | Nodes, their links and statuses: writers in four transactions, links, rollbacks, audits, and the L1 snapshots. |
| `MonitoredNodes` | `NodeStore` with `Deadlines` beside it. |
| `NodeStoreProofs` | The theorems about `NodeStore` and `Deadlines`. |
| `Trust` | `evaluate_and_advance` over the marker rows and the evidence, while the evidence moves. |
| `TrustRecord` | `Trust` with the two records its evidence is taken from: `Performance` and `DecisionJournal`. |
| `TrustProofs` | The theorems about `Trust`, `Performance` and `DecisionJournal`. |
| `Approvals` | /approve, direct calls of the action gateway, the authority check, standing grants. |
| `ApprovalsProofs` | The theorems about `Approvals`. |
| `NestedLoops` | Correction, escalation, safety and shutdown loops and sub-agent runs over the rows they share. |
| `NestedLoopsProofs` | The theorems about `NestedLoops`. |
| `Deadlines` | The deadline monitor and the legal surfacer, signal scores, notices, those of others among them, and the session brief. |
| `NodeTable` | The node table as its readers see it, with the status filter of every read. |
| `Context` | The routing modes and the context packet, over `NodeTable`. |
| `Dashboard` | The tiles, Today and the memory zone, over `NodeTable`. |
| `NodeReaders` | `Context` and `Dashboard` over one node table. |
| `Synthesis` | `run_synthesis` and its advisory lock over the connection pool. |
| `SynthesisProofs` | The theorems about `Synthesis`. |
| `DecisionJournal` | The brief, the journal row and its confirmations. |
| `Turn` | One turn of the master agent against a model that may answer anything. |
| `TurnProofs` | The theorems about `Turn`, `Context` and `Dashboard`: what a turn reads and what it makes of it. |
| `Performance` | The skill performance tracker at two closes at once. |
| `MCSynthesis` | The symmetry set for TLC. |
| `MCTrust`, `MCDecisionJournal` | `TrustRecord` with small bars: `Trust` or `Performance` in the one, `DecisionJournal` in the other. |
| `MCNodeStore` | `MonitoredNodes`: the store or the scans. |
| `MCReaders` | `NodeReaders` over five nodes: the context or the dashboard. |
| `MCApprovals` | `Approvals` with two calls about anything or three about one action. |
| `MCNestedLoops` | `NestedLoops` with one cast of tasks per behaviour. |

Where an MC module has two models, a behaviour is of one of them (`at`), so that the
states are the sum and not the product. `TrustRecord`, `MonitoredNodes` and
`NodeReaders` hold the models together for the runs and the proofs alike: what a
run checks and what a theorem states is the same definition.

How the models fit together. `SessionLoops` and `SkillLog` meet at the
watchdog: in `SessionLoops` its cycle reaches the cleanup or fails before it
(`Colliding`); in `SkillLog` that is one bit, `jammed`, which may change at any
time, so that what is shown there holds whatever the loops do. The same is done
elsewhere: a model that needs something another one works out takes it as a
value that may change at any step. `Approvals` takes the trust stage
(`TrustMoves`) that `Trust` derives; `Trust` takes one bit `degraded` that
`Performance` works out; `Deadlines`, `Context` and `Dashboard` take statuses
that `NodeStore` moves; `Turn` takes failures of a skill at any stage, which
`SkillLog` explains. So what a module shows holds under more behaviours than the
composed system has. A refuted statement could in principle rest on a
behaviour the composition excludes; each of those listed below was followed
through the code, and the bits it needs are ones the other module does set.

### How `SessionLoops` corresponds to the code

A *task* is one HTTP request. `pc[t]` is the `await` at which it stands,
`sess[t]` the session of its URL, `target[t]`, `seen[t]` and `doomed[t]` the
local variables it carries over an `await` (`loop_run_id`,
`loop_run.iteration_count`, `active_loops`). One action is one SELECT whose
result is used later, or one committed transaction:

| Code | Actions |
|---|---|
| `start_session` | `Start`, `StartInit` (skill and L1, may fail), `StartGoal` |
| `_get_active_session`, `_get_active_loop_run_id` | `Request`, `LookUpLoop` |
| `submit_input`, `GoalLoop.execute_turn` | `Input`, `InputLoop`, `TurnCheck`, `TurnBump`, `TurnAgent`, `TurnEscalate`, `InputEscalate` |
| `approve_action` with `approved = false` | `Reject`, `RejectUpdate` |
| `close_session` | `Close`, `CloseLoop`, `CloseComplete`, `CloseTree`, `CloseKill`, `CloseSession`, `CloseSummary`, `ReflectStart`, `ReflectEnd` |
| an exception | `Fail` |
| `LoopWatchdog._watch` | `WatchScan`, `WatchTerminate`, `WatchCollide`, `WatchLoopsDone`, `WatchClean` |
| the process | `Crash`, `Restart` |
| `now - start_time > max_duration_ms` | `Expire` |

Rows are named by the task that inserts them, since each task inserts at most
one session row and one loop row: session `s` and its goal loop by the /start
task `s`, a reflection loop by its /close task, an alert by the loop it is
about. Time is one bit per loop, `expired`. Rows are inserted by `ReflectStart`
when they become visible, at the commit inside the first `invoke_skill`.

Abstracted: texts, L1 snapshots, what the agent does in a turn (its outcome is
"approvals to surface" or not), the action log except for what a rejection
needs to name, and failures of the database itself other than the unique index.

### How `SkillLog` corresponds to the code

A *request* is one `AsyncSession` and whoever holds it; a *call* is one
invocation of a skill, with its row. A request makes its calls one after the
other, and a skill may make one itself (`node_writer` runs the contradiction
enforcer before it writes anything). `pending[r]` says whose uncommitted writes a
session holds, `usable[r]` whether it still works (after a failed flush or
statement SQLAlchemy refuses everything until a rollback), `lost` whose writes
were rolled back by somebody else's doing. `pc[c]` is where `invoke_skill`
stands; in `_update_log` it is the status about to be written. `stale` holds the
running rows older than the cleanup's 60 seconds.

| Code | Actions |
|---|---|
| the caller's own use of its session, `get_db` | `RequestWrite`, `RequestCommit`, `RequestEnd` |
| `invoke_skill`, the INSERT and its commit | `Invoke`; from inside a skill `InvokeNested` |
| the registry and the Active gate | `Find`, `Refuse` |
| the skill | `SkillWrite`, `SkillCommit`, `SkillBreaks`, `SkillRollback`, `SkillEnds` |
| `asyncio.wait_for` in `invoke_skill` | `SkillTimesOut` |
| `_update_log` and the trigger `prevent_finalized_skill_log_update` | `UpdateLog`, `UpdateRefused`, `UpdateAgrees`, `UpdateImpossible` |
| `asyncio.wait_for` in `run_sub_agent` | `Cancel` |
| `_check_stale_skill_logs` | `Clean` |
| `lifespan` | `Restart` |
| `now() - timestamp`, an earlier failure of the cycle, the process | `Age`, `Jam`, `Crash` |

A row may become stale at any moment while it runs: no timeout covers the
wrapper's own `await`s, and a skill may be allowed more than the 60 seconds
(`cognitive.synthesis_engine` has 120).

Abstracted: what skills compute, the catalogue, the fields of a row other than
its status, and failures of the database in the wrapper's own commits.

### How the other modules correspond to the code

The same rule holds everywhere: one action is one SELECT whose result is used
later, or one transaction; what is carried over an `await` is a variable, and
rows are named by the task that inserts them. `map` in `PROJECT.json` gives the
lines of every definition.

**`NodeStore`.** A writer `n` is one call of the skill `node_writer` and the node
it creates. `conflicts[n]` and `match[n]` are what it read before its transaction.

| Code | Actions |
|---|---|
| `detect_contradiction` | `Scan` |
| `write_node`: `_check_supersession`, `_write_node_transactional`, its failure | `Match`, `WriteCommit`, `WriteFails` |
| `_enforce_contradiction`, `contradiction_enforcer` | `Enforce`, `EnforceFails` |
| `link_nodes` | `LinkSupersedes`, `LinkContradicts`, `LinkWithoutSession` |
| `rollback_executor`, `audit_confidence` | `Rollback`, `Audit` |
| `rebuild_l1`, `save_l1_snapshot` | `RebuildL1` |

Texts, tags and similarity scores are left out: what a comparison finds is any
subset of what the code would compare.

**`Trust`.** `markers` are the `trust_maturity` rows of `action_log`; the stage is
derived from them as `current_trust_stage` derives it, by the time of the
transaction and then by rank.

| Code | Actions |
|---|---|
| `evaluate_and_advance` | `Begin` |
| `execute_trust_advance`: its reads, the bars, the INSERT | `ReadStage`, `CheckStage`, `Weigh`, `Insert` |
| the evidence of `surface_advancement_evidence` | the steps of `record`: sessions close clean or with an incident, calls succeed, decisions are confirmed, a skill degrades or recovers |

**`Approvals`.** A call is one /approve or one direct call of the gateway.

| Code | Actions |
|---|---|
| `approve_action`: start, look-up of an earlier CONFIRM row, its insert, the gateway | `Approve`, `LookUp`, `Confirm`, `Gateway` |
| `action_gateway_skill` | `CallDirectly`, `LogFirst`, `ReadStage`, `FindGrant`, `CheckApproval` |
| `check_authority`, `find_valid_standing_grant`, `assert_has_user_approval` | `Authorized`, `Valid`, `ApprovedSession` |
| `standing_authority.grant`, the renewal date, an advance or its absence | `GrantStanding`, `Lapse`, `TrustMoves` |

Which agent calls and at which level is one bit per call, `able`: whether the matrix
of `check_authority` lets it. /approve always is, a direct call may be either.
Whether /approve finds the session active and the row unconfirmed is left open
(`open`), so that more calls reach the look-up than in the code.

**`NestedLoops`.** One session and the runs of four loops and of sub-agents in it.
`visible` holds the rows that are committed: a task's own transaction may be long,
and what it flushed is seen by the others only after its first commit.

| Code | Actions |
|---|---|
| `CorrectionLoop.run`, `_retry_loop` | `Correct`, `Attempt`, `AttemptFails`, `Recovered`, `GiveUp`, `Exhaust`, `Drain`, `CorrectionRaises` |
| `EscalationLoop.run`, `_confirm_priority`, `_surface_row` | `Signal`, `Score`, `Present`, `Surface`, `SurfaceCollides`, `SignalRaises` |
| `SafetyLoop.run`, `_escalate`, `_respond_*`, `_fail_safe_force_terminate` | `Risk`, `TooLate`, `Respond`, `RespondCollides`, `SafetyRaises` |
| `ShutdownLoop.run`, `terminate_active_tree`, `close_session` | `FindTree`, `KillTree`, `Close` |
| `run_sub_agent` and its handlers | `Spawn`, `HandlerCommits`, `SubAgentEnds`, `SubAgentLost` |
| `GoalLoop.complete`, the user's answer to an alert | `GoalEnds`, `Resolve` |

**`Deadlines`.** A scan is one run of the monitor or of the legal surfacer, for a
session or for none (then it reports and writes nothing); its rows wait in `mine`
until the commit. A node has a primary pillar and others (`filed`): the query looks
at all, the monitor's score at the primary one. `facing` is the node a monitor has
looked up and is about to insert, `skipped` what a surfacer's savepoint dropped as
the victim of a deadlock.

| Code | Actions |
|---|---|
| `monitor_deadlines`, `surface_legal_deadlines`, `read_by_deadline`, `score_signal` | `Begin`, with `Found` and `Priority` |
| `_has_pending_escalation`, the INSERT, the savepoint | `Look`, `Insert`, `Refused`, `BreakDeadlock` (with `GoOn`, `Lose`) |
| the unique index, waiting for it and for each other | `Clash`, `Waits`, `Deadlocked` |
| `invoke_skill`'s commit, a timeout or a lost connection | `Commit`, `Fail` |
| `contradiction_enforcer`, the escalation loop: rows about nodes in transactions of their own | `OthersNotice` |
| `approve_action`, days, statuses | `Answer`, `Tick`, `StatusMoves` |
| `build_session_brief` | `Told` |

**`NodeTable`, `Context`, `Dashboard`.** The table is a sequence of nodes of given
profiles (pillars, days to a deadline, tokens); `Write` and `Move` change it
between the reads of a request. A sort is `Ordered`: each place goes to the node
that has as many before it. The tokens of a set of nodes are counted one by one
(`Tokens`). Both are written without recursion, so that they can be proved about.

| Code | Actions |
|---|---|
| `read_by_pillar`, `read_by_type`, `read_by_deadline`, `fetch_l3`, `fulltext_search`, `_inv04_clause` | operators of the same names, `Live` |
| `assemble_context`, `_derive_routing_mode`, `_priority_key` | `Ask`, `ReadAgain`, `Assemble`, with `RoutingMode`, `Before`, `Fitting` |
| `build_dashboard` | `ReadTile`, `ReadToday`, `ReadMemory` |

**`Synthesis`.** A request holds a connection of the pool (`conn`) while it is in a
transaction; `depth` counts how often a connection holds the advisory lock.

| Code | Actions |
|---|---|
| `get_db`, a commit and what follows it | `Enter`, `Leave`, with `CheckOut` and `Return` of the pool |
| `close_session`, `ReflectionLoop.run`, `synthesis_coordinator` | `Count`, `Ask` |
| `run_synthesis` | `Attempt`, `Record`, `RecordFails`, `Unlock`, `UnlockTimesOut` |
| nodes written meanwhile | `BeginNode`, `CommitNode` |

**`DecisionJournal`.** `run_decision_protocol` with `record_decision` is `Record`;
`confirm_decision` is `Load` and, later, `Flush`, which writes the columns that
differ from what was loaded.

**`Turn`.** `MasterAgent.process` from the goal loop's `Begin` to its `End`:
`Initialize`, `ParseIntent` (with `ParseNothing` and `ParseOdd` for an answer that
is no object), `Clarify`, `Route`, `Assemble`, then `_llm_call` (`Json`, `NotJson`,
`Refused`, `Unavailable`, `ReaskFails`), `Validate` and `Finish`. The model is the
environment. `SkillFails` and `Raise` are the ways out; a reply with a text or
proposals that no reply may hold raises after the agent has logged (`RaiseAfter`).
What is counted are calls of `messages.create`: what the client library sends
again within one is not seen by this code.

**`Performance`.** `track_skill_performance` at a /close: `Start`, then `Look` and
`Upsert` for each skill in the order of the names, `Commit` or `Abort`; the
invocations it counts come from `Invoke` and `Answer`. A latency is near the timeout
or not ("slow"), or is that of a failed call and may be either, since the code's p95
takes failed rows in; an error rate is compared after its rounding (`Above`). `due`
is a history variable: the skills a tracker found rows of when it began.

**`Crash`** in `SessionLoops` and `SkillLog` is the environment's: the process may end
at any `await`. `Restart` is the code of `lifespan`.

## What TLC checks

Eleven runs pass and one shows a disagreement. State counts are distinct states.
Deadlock checking is on for `node_store` and `skill_log`, where something can
always happen; elsewhere a run may use up its requests and stop.

| Run | Instance | Shows |
|---|---|---|
| `session_loops` | 3 requests, `GoalMax` 1, one crash, fair; 143,000 states | the safety of the loop rows, the refinement of `LoopLifecycle`, and what the watchdog achieves |
| `skill_log` | 2 calls, 2 requests, one crash, fair; 162,000 | whose writes a commit takes along, the refinement of `SkillLogRow`, and that rows end |
| `node_store` | 3 writers, 1 session, 2 edits; 2 deadlines in two pillars each, a monitor, a surfacer, 2 days; 1,871,000 | no fact disappears, nothing is flagged in silence, what is overdue is noticed |
| `trust` | 3 advances, 2 sessions, 2 pillars, 3 start times; 2 trackers over 2 skills and 2 days; 225,000 | the ladder, the order of markers, the locks, the completeness and the flags of the tracker |
| `approvals` | 3 calls, 2 actions, 2 sessions, 1 grant; 1,541,000 | what is executed was authorized, a late approval is refused |
| `approved_once` | 2 calls, 1 action | refutes `ApprovedOnce` (below) |
| `nested_loops` | casts of 2 corrections, 2 signals, a safety run, a shutdown, a sub-agent; 1,052,000 | bounds of nested retries, reports, the fail-safe, P0 signals |
| `nested_live` | 2 corrections, a shutdown, fair; 290,000 | every correction ends |
| `readers` | a table of 5 nodes with 2 changes, both orders of age; 310,000 | token budget and what gives way to it, the cuts of the dashboard |
| `synthesis` | 4 requests, 3 connections, a pool of 2; 34,000 | one run at a time |
| `decision_journal` | 1 decision, 3 confirmations, 2 sources; 8,000 | nothing is made up |
| `turn` | 2 turns, 3 retries (the code's number), fair; 35,000 | requests bounded, answers grounded, turns end |

Why the bounds are enough.

- *Session loops.* A conflict needs a session (one request), two requests that
  overlap in it, and the watchdog, which is always there. With `GoalMax` 1
  two inputs reach the bound and would pass it, one after the other or at once.
  A crash ends every task and restores nothing, so a second one meets the states
  of the first. Four requests with `GoalMax` 2 (without liveness) showed nothing
  else.
- *Skill log.* Calls on different sessions share nothing but the cleanup. On one
  session a call, the call its skill makes and one that comes before or after is
  all that can meet.
- *Nodes.* Three nodes are the shortest chain in which a correction of a correction
  can be rolled back, and two edits are a rollback on top of a link. Two dated nodes
  give two scans something to find in either order; on the two days a deadline is
  far off, within the month, within the week or past. Each node is business or
  health first and legal besides (`TwoFilings`), so that both scans find it and
  score it differently, or alike. Others write one row, which stays pending
  (`Foreign`): it is there before a look-up, after it, or between look-up and insert.
- *Trust.* Three advances are what a stage needs to be overtaken: two that start
  from one stage and one that goes on. The bars are 1 and 2 instead of the code's
  3 to 10 (`LowBar`), ordered the same way (`BarAssumption`); the module is the
  same for any bars. The flag is at 50 percent instead of 5, so that two invocations
  reach it, meet it and stay below it. The window is one day, so that a midnight
  leaves a skill of the session without rows.
- *Approvals.* Two calls about anything, three about one action, at most one of them
  direct (`Crowd`): two to race and one that comes late.
- *Nested loops.* All tasks at once are too many states. A behaviour is therefore
  one of a cast: those that raise alerts; nested corrections with the fail-safe;
  the fail-safe with each pair of the tasks whose rows it may end. No action reads
  rows of more than these.
- *Readers.* The five nodes are a near, an overdue, a far and two undated or equal
  deadlines in one or both pillars, one of 5 tokens; a tile keeps 2, Today 3, the
  packet 4 tokens, so that each cut leaves something out and one node never fits.
- *Synthesis.* Two pooled connections and an overflow one give a lock left behind,
  a request that gets that connection, and a third elsewhere.
- *Decision journal.* The third confirmation comes on top of a mixed row.
- *Turn.* A second turn meets what the first left; retries are the code's.

### Safety

`SessionLoops`:

- `AlertedLoopsAreOver`: a reported loop is over, and no cycle reports it twice.
- `GoalEndsForAReason`: a goal loop is over only after an alert or a /close.
- `ClosedIsQuiet`: in a closed session only reflection loops run, in an active
  one only its goal loop.
- `IterationBounded`: `iteration_count` never passes the bound, although two
  turns may overlap.
- `CountIsHonest`: `iteration_count` never exceeds the turns that ran.
- `ContractSpec`: the rows implement `LoopLifecycle`.

`SkillLog`:

- `CallerIsSafe`: while a call runs, its session holds no uncommitted writes but
  its own and those of calls its skill made. Neither a commit nor a rollback in
  a skill reaches what the caller had written.
- `ReturnedIsDurable`: a caller that got a `SkillResult` has an ok row, and none
  of the skill's writes was lost or is still uncommitted.
- `RowSpec`: the rows implement `SkillLogRow`.

The others:

- `FactIsNotLost` (`NodeStore`): from a superseded node its successors lead to one
  that is neither superseded nor archived, whatever is rolled back in which order.
- `FlaggedIsSurfaced` (`NodeStore`): an escalation is about every flagged node.
- `LadderComplete` (`Trust`): no rung is skipped, however advances race.
- `AdvanceCounts` (`Trust`): an advance from the live stage takes effect, also at
  equal timestamps.
- `UsedIsGraded` (`Performance`): a tracker that committed has graded each skill its
  session used in the window, on the day it began, whatever came between.
- `NoDeadlock` (`Performance`): two closes never wait for each other's rows.
- `FlagHasCause` (`Performance`): a skill is graded down only if a call in the
  window failed or was slow.
- `ExecutedIsAuthorized` (`Approvals`): nothing is executed unlogged, without the
  level and trust of its type, or without a confirmation in its session or a grant that
  covers it.
- `LateIsRefused` (`Approvals`): an approval after a committed one gets nowhere.
- `AttemptsBounded` (`NestedLoops`): a correction and those its retries spawn try
  three times in all.
- `ReportIsTrue`: the report of an exhausted correction tells its retries.
- `FailureIsReported`: a goal loop never fails without a report or a response.
- `FailSafeStops`: what the fail-safe terminated does not run again.
- `SurfacedIsPending`: a P0 is never dropped as a duplicate of something else.
- `OverdueIsNoticed` (`Deadlines`): after a scan for a session every overdue deadline
  it was asked about has a pending notice, or one was answered meanwhile, or the
  surfacer lost its row in a deadlock.
- `BudgetIsKept`, `NearDeadlineIsKept` (`Context`): the packet fits, says when it was
  cut and is cut only where the next node does not fit; a deadline within 30 days
  gives way to nodes with deadlines only.
- `TileTellsTheWorst`, `TodayIsEarliest` (`Dashboard`): the cuts hide neither the
  worst status of a pillar nor an earlier deadline, and count what they leave out.
- `OneRunAtATime` (`Synthesis`): two runs are never between lock and commit, even
  when a lock was left with an idle connection or unlocked on the wrong one.
- `NothingIsSynthesized` (`DecisionJournal`): each verdict was given for its
  decision, and the source named beside it did confirm.
- `CallsBounded`, `AnswerIsGrounded` (`Turn`): at most 2 + 2 (`MAX_RETRIES` + 2)
  requests; an answer passed the validator and rests on an unambiguous intent.

Type invariants are checked where they say something of their own (`ReadersOK`,
`NestedLoops!TypeOK`) and proved for all modules but the abstract two.

### Liveness and its fairness

The fairness is what the event loop gives: a task that is ready is run, and every
`await` of these paths ends because skills and model calls have timeouts. Nothing
is assumed of clients, users, crashes or restarts.

- `OverdueIsEnded`: an overdue loop is ended, or the process is down, or the P0 of
  some overdue loop's session is still pending. `CleanupRecurs`: the cleanup of
  stale skill rows comes round, with the same two exceptions. Fair are the watchdog
  and each request's next step.
- `RunningEnds`: a running row is closed, also that of a call that died, was
  cancelled or could not write it, unless the process goes down or the watchdog is
  kept from its cleanup. `CallsEnd`: `invoke_skill` comes to an end whatever the
  skill does. Fair are the wrapper's own steps, every skill's timeout (not the
  skill), time, and the cleanup while the cycle reaches it.
- `CorrectionEnds`: a correction ends, also one that a retry of another spawned and
  waits for. Fair is each correction's own next step. Which branch a retry takes is
  not, so the bound on retries does the work.
- `TurnEnds`: a turn ends with a reply or an error. Fair is the turn's next step.

### Where the code and its documentation part

One disagreement is kept as a run and a finding of `PROJECT.json`:

- `ApprovedOnce`: `approve_action` says of its look-up for an earlier CONFIRM row
  that without it "every /approve call for the same action_log_id would have
  silently succeeded again". Look-up and insert are separate statements without a
  lock or a unique index, so two overlapping approvals both pass and both execute.

The modules state further things a reader of the code, its comments or its tests
would expect and which the code does not keep. They are definitions, marked
"False" or gathered at the end of `SessionLoops` and `SkillLog`, and no run
checks them. To see the behaviour, put the name into the run's cfg in place of its INVARIANTS and
PROPERTIES (for `Context`, `Dashboard`, `Performance`, `DecisionJournal` and `Deadlines` by a
definition through the instance, as `NodeReaders`, `TrustRecord` and
`MonitoredNodes` have for the other properties). TLC refutes each with the constants of
the cfg, but for `GrantHonoured` (two grants) and `CatchUpOnReturn` (two sessions).

| Statement | What happens instead |
|---|---|
| `CompletedGoalStaysCompleted` | the watchdog overwrites a goal loop that /close completed between its SELECT and its UPDATE, and raises a P0 about it |
| `TurnsAreBounded` | overlapping inputs lose counter updates, so more turns run than `MAX_ITERATIONS` |
| `RunawayIsEnded` | while a session's P0 alert is pending, forcing another of its loops violates the unique index; the cycle ends there, every second again |
| `OpenSessionIsClosable` | after a forced end of its goal loop a session stays ACTIVE, and /close answers 404 |
| `OneNoticePerTurn` | the approvals of a turn are inserted twice |
| `UpdateIsItsOwn` | closing the row of a failed skill commits what that skill had flushed |
| `EveryEndIsLogged` | a skill that breaks the session leaves its row running; `_update_log` raises in place of the skill's own error |
| `ContradictionStays` | a supersession matched before a node was flagged turns it to superseded |
| `DetectedIsSurfaced` | the enforcements after the commit are forgotten when one fails |
| `LinkedIsSurfaced` | `link_nodes` looks for its session after the flush; the link stands alone |
| `SnapshotIsFresh` | `rebuild_l1` returns the stored snapshot |
| `StageNeverDrops` | two requests advance from T0 together, a third goes on to T2, and the later row to T1 is the newest again |
| `ApprovedItself` | any confirmation of the session lets an action pass the guard |
| `GrantHonoured` | a lapsed or narrower row may be the first the look-up finds |
| `FailSafeNeverFails` | the fail-safe's own alert may meet the unique index, and its transaction is lost |
| `EscalationRowEnds` | the exception of the drain is swallowed, its row stays running |
| `RepeatIsSkipped` | only signals about a node are looked up |
| `EndedStaysEnded`, `ForcedStaysForced` | corrections, escalations and sub-agents write their rows by id at the end |
| `ClosedLeavesNoOrphan` | a row that is not committed yet is not found by the shutdown |
| `OneNoticePerNode` | two scans look before either commits; the surfacer's P1 rows have no look-up |
| `MonitorSurvives` | the index refuses what the look-up did not see, and the run's rows are lost |
| `ActiveIsScanned` | an overdue node is handed out whatever its status |
| `CatchUpOnReturn` | the brief counts the notices of its own session only |
| `SkippedIsNoticed` | the surfacer's savepoint takes a deadlock for a duplicate; the monitor that held the row then meets another one of the surfacer's and loses its own |
| `SomethingIsOffered` | a first node that alone exceeds the token budget leaves the packet empty |
| `FlaggedIsOffered` | every read drops flagged nodes, and the enforcer flags both sides |
| `NearComesFirst` | any deadline comes first, however far |
| `DeadlinesAreTold` | the deadlines that were read for a task are not used |
| `MoreIsInPillars` | a tile keeps its own first items, read at another moment |
| `SkippedForARun` | a lock left with an idle connection makes later calls skip |
| `ThresholdIsMet` | the count is read before the lock, and a run may end in between |
| `EveryNodeCounts` | a node whose transaction began before a run completed and committed after it is never counted |
| `VerdictIsItsOwn`, `ConfirmedOnce` | two confirmations load the row before either flushes, and only changed columns are written |
| `AdviceWasAsked` | "advise" inside another word asks for a recommendation |
| `FlaggedIsQueued`, `EveryTurnIsLogged` | a reply "flagged for review" leaves no row to review; a turn that raises before its reply leaves no log row |
| `ParserNeverRaises` | JSON that is not an object raises in the parser |
| `InvalidIsReprompted` | an output the validator itself fails on is not asked for again |
| `UnavailableIsRetried` | a failure in the second request for raw JSON is not retried |
| `ActionIsChallenged` | actions come from the answer, not from the routing mode |
| `DegradedIsCurrent` | a degraded row of an earlier day still counts after a better one |

## What is proved

Every safety invariant and every action property that a passing run checks is also
a theorem, for all values of the constants; so are the two refinements. The
assumptions are named in the modules, and TLC evaluates them in the runs:

- `NoneAssumption` (of several modules), `JournalAssumption`: the marks `None` and
  `Blank` are no members of the sets beside them.
- `NamesAssumption`, `ScansAssumption`: tasks of different kinds have different names,
  as rows of different tables or ids of different requests have.
- bounds are naturals (`BoundsAssumption` and others); `GoalMax` is at least 1, and a
  tile keeps at least one item (`LimitsAssumption`; 5 in the code).
- `BarAssumption`: the bars of T3 ask at least what those of T2 ask, true of the source's
  numbers.
- `TrackerAssumption`: skills stand for their names, which have an order.
- `FilingsAssumption`: a node has a primary pillar and a set of pillars.
- `DaysAssumption`: days and due dates are numbers and time starts at day 0.
- `TablesAssumption`: a node is one of `Profiles`: days to a deadline are an integer,
  tokens a natural number.

None of them restricts the program. Every proof has one lemma per action or group of
like actions, with one step per part of the invariant it can disturb.

| Module | Theorems |
|---|---|
| `SessionLoopsProofs` | `InductiveInvariant`, `TypeCorrect`, `OneOpenAlertHolds`, `AlertedLoopsAreOverHolds`, `GoalEndsForAReasonHolds`, `ClosedIsQuietHolds`, `IterationBoundedHolds`, `CountIsHonestHolds`, `OverIsOverHolds`, `ImplementsContract` |
| `SkillLogProofs` | `LogInductiveInvariant`, `CallerIsSafeHolds`, `ReturnedIsDurableHolds`, `FinalIsFinalHolds`, `ImplementsRow` |
| `NestedLoopsProofs` | `Invariance`, `TypeCorrect`, `AttemptsAreBounded`, `ReportTrue`, `FailureReported`, `FailSafeHolds`, `SurfacedPending` |
| `NodeStoreProofs` | `StoreTypeCorrect`, `SupersededHasSuccessorHolds`, `FactIsNotLostHolds`, `FlaggedIsSurfacedHolds`; of the scans `ScansTypeCorrect`, `OverdueIsNoticedHolds` |
| `TrustProofs` | `TrustInductiveInvariant`, `TrustTypeCorrect`, `LadderCompleteHolds`, `AdvanceCountsHolds`; of the tracker `TrackerTypeCorrect`, `UsedIsGradedHolds`, `NoDeadlockHolds`, `FlagHasCauseHolds`; of the journal `JournalTypeCorrect`, `NothingIsSynthesizedHolds`, `ApprovalIsChallengedHolds` |
| `ApprovalsProofs` | `ApprovalsTypeCorrect`, `ExecutedIsAuthorizedHolds`, `LateIsRefusedHolds` |
| `SynthesisProofs` | `SynthesisInductiveInvariant`, `OneRunAtATimeHolds` |
| `TurnProofs` | `TurnTypeCorrect`, `CallsBoundedHolds`, `AnswerIsGroundedHolds`; of the readers `ReadersOKHolds`, `BudgetIsKeptHolds`, `NearDeadlineIsKeptHolds`, `TileTellsTheWorstHolds`, `TodayIsEarliestHolds` |

Some theorems state properties no run lists, because they follow from the same
invariant: `OneOpenAlert` (a session never has two node-less P0 alerts pending),
`OverIsOver` (no step revives a finished loop or reopens a closed session),
`FinalIsFinal` (a closed log row is never written again, by three writers),
`SupersededHasSuccessor` and `ApprovalIsChallenged`.

### The arguments

*The session loops.* The properties are not inductive as they stand: that a closed
session's goal loop is over, for example, rests on where the closing task is,
since the status was written two transactions earlier. `IInv` therefore ties
`pc` to the rows: `TasksInv` says which task owns what, `TargetInv` that what a
task carries over an `await` is a row of its own session, `LoopsInv` that a
/close task past `CloseComplete` has a goal loop that is over and past
`CloseSession` a closed session, `CountInv` that a turn about to write its
counter read a value below the bound, `BatchInv` that the watchdog's list holds
no loop already reported. The refinement maps `running` to `live`,
the three terminal states to `ended` and an absent row to `absent`; `Start`
and the other arrivals stutter, and there is one lemma per step that does not.

*The turn count.* `CountIsHonest` compares a counter with the number of turns that
ran, and the counter is written from a value read earlier. `TurnsInv` therefore adds
that the value a turn is about to count up was `Claimable` when it was read, and
`ClaimableGrows` that what may be claimed never shrinks, since a turn that ran keeps
its loop. The turn that writes has just joined the turns that ran and so raises the
number by one (`TurnCounts`); lost updates only leave the counter behind.

*The skill log.* `ReturnedIsDurable` needs to know, when a row is closed as ok, that
nothing the call wrote was lost before. `OutcomeInv` supplies it: what a call in
progress lost left its session broken, and on a broken session the call cannot
return. That is inductive only because nobody repairs a session behind the
call's back: a rollback inside a nested call would, if the outer call had
something to lose. `StackInv` says that the calls in progress on a session are a
skill and at most one call it makes, `OutcomeInv` that such a call begins on a
working session, and `CallerIsSafe` that the outer call then has nothing
pending. `SessionsInv` says that only the calls of a session write in it and
that a broken session holds nothing. Lemma `Sharing` puts this in the form most
steps use: two calls in progress on one session are caller and callee. The
refinement maps `status` to `row` and the calls whose `pc` is returned to `told`;
`UpdateLog` settles, both cleanups clean up, all else opens or stutters.

*The nodes.* That each superseded node has a live successor is not enough:
links may form circles, since `link_nodes` checks nothing. `ChainsLeadOut` says that
every non-empty set of superseded nodes has a successor outside it that is not
archived. A writer adds itself as a successor from outside; a rollback restores
what the archived node superseded, so that what had its way out through it is
itself superseded no longer. `FactIsNotLost` says that no set closed under
successors holds superseded and archived nodes only, one of them superseded; the
superseded ones of such a set would have no way out. Neither needs an induction
over paths.

*The scans.* `Covered` follows what was overdue when a scan read the nodes through
its run: each such node is still to do, noticed in a row that waits or is committed,
answered, or skipped by the surfacer's savepoint. It holds because the look-up that drops a node from the list has found
a pending row about it, because the index refuses the surfacer only what a pending row
or one of its own already says, and because `Begin` puts every overdue node on the
list with the highest priority; rows of others only add to what is noticed. A scan
that fails, the victim of a deadlock among them, is over without a claim.

*Nested loops.* The properties rest on one invariant, for all tasks at once and not
only for the casts of the runs. `CorrectionsInv` says that a correction spawned by a
retry makes no attempts of its own, which bounds those of a whole family: the sum
over the children, a sum over a set, is shown to be 0 by the smallest set for which
it would not be. It also says that a report is written only by a correction past
its retries. `SafetiesInv` says that a safety run has no row before it ends, so that
no shutdown finds it, and that what triggered it was committed and begun, so that its
fail-safe ends a row that is there; `TreesInv` says the same of the lists that
shutdowns have read.

*Trust.* The stage is the destination of the newest row, newest by start time and
then by rank. `NewestExists` shows from the well-foundedness of the naturals that
there is one. The invariant is the ladder itself with `RungReached`: what an advance
read as its stage was reached, and stays so since rows are only added.

*The tracker.* `InOrder` says that a tracker has written rows only of skills whose
names come before all it has still to do; two trackers that wait for each other
would each stand at a name before the other's. `Caused` carries from the reads to
the flush that an invocation in the window failed or was slow; `WindowSum` shows that
a sum over the days of a window is positive exactly when some day's is. `Pending`
says that what a tracker has to grade is still on its list or written: its rows in
the window are answered but never taken away (`CountedStays`), so no look finds it
without any. Time and calls only grow while a tracker runs, but what it works with
is the day on which it began (`begun`).

*Approvals.* `CallInv` says of a call what must be true where it stands: past the
log commit it is logged, past the authority check it has the level and the trust of its type,
executed it has its basis. Grants and confirmations are only added and bounds never
change, so the steps of others leave it alone (lemma `Undisturbed`).

*Synthesis.* `ConnectionsApart` says that no connection is both idle and in use or
used twice, `OneHolder` that at most one connection holds the lock, `RecorderHolds`
that whoever records is on it. An unlock on an idle connection can then only
release a lock that was left behind, never that of a run in progress.

*The decision journal.* What a confirmation carries from its load to its flush names
a decision and a source; the flush writes nothing else, so each column
came from a confirmation, though not both from the same one.

*A turn.* `Allowance` gives for every stage how many requests may have been made
there; each step that asks moves to a stage that allows one more. Past the router an
intent is unambiguous, and before `Finish` the output is one the validator passed.

*The readers.* A set is sorted by giving each place to the member with as many before
it. `RanksGrow` shows that in a strict total order what comes later has more before
it, `RanksFill`, by counting, that every place is taken, and `SortedIsInOrder` that
the sequence holds each member once, in order. `HeadOfOrder` says what cutting it
leaves: the others all come after. For each of the three sorts one lemma shows that
its key is such an order. The packet's loop stops at the greatest head that fits
(`GreatestOf`, from the well-foundedness of the naturals); the next node has its
tokens on top of that (`OneMore`), which is why it did not fit. The properties of the
dashboard are of single steps: between a read and its list nothing intervenes.

### What is only model-checked

The liveness properties: `OverdueIsEnded`, `CleanupRecurs`, `RunningEnds`, `CallsEnd`,
`CorrectionEnds` and `TurnEnds`. Fairness and `ENABLED` are out of the prover's reach.
And, of course, the refutation of `ApprovedOnce`, which is a behaviour TLC finds.

## Not modelled

- *Meta loop*: counts rows and inserts one report.
- *Skill catalogue*: an idempotent seeding at start-up. What its gate lets through
  is left open in `SkillLog` (`Find`, `Refuse`).
- *Specialists, synthesis engine and report skills*: one request to the model and a
  report; they keep no state. What a model answers is left open everywhere.
- *Prompts, schemas, configuration*: data.
- *Texts*: nodes, summaries, the wording of notices. Similarity, relevance and
  scores that rest on a text are any outcome.
- *Dashboard header, approval cards, trust block*: copies of what the other
  modules keep.
- *The sub-agents' handlers*: what they commit is in `NestedLoops`, what they
  compute is not.
- *Guards on values the models do not keep* (`invariants/guards.py`, other than the
  loop bound and the approval).
- *Failures of the database itself* beyond failing statements, refused commits and
  lost connections.

## What remains

1. `Approvals` composed with the rejections of `SessionLoops`, which resolve the
   escalations an approval is about.
2. A refinement of `LoopLifecycle` by `NestedLoops`, for the loops that do not
   write their row by id.
3. The statements the code does not keep (above) that would hold after a small repair,
   as theorems about the repaired definition.
