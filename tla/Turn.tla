-------------------------------- MODULE Turn --------------------------------
(***************************************************************************)
(* One turn of the goal loop inside the master agent: parse the intent,    *)
(* assemble the context, ask the model, validate what it answers, ask once *)
(* more, and reply.  The model is the environment: it may fail, answer     *)
(* something that is not JSON, or JSON of any shape.  The iteration bound  *)
(* and the concurrent requests of a session are SessionLoops's.            *)
(***************************************************************************)
EXTENDS Naturals

CONSTANTS
    MaxRetries,  \* _MAX_RETRIES
    MaxTurns     \* turns of the session (bounds the run)

ASSUME BoundsAssumption == MaxRetries \in Nat /\ MaxTurns \in Nat

VARIABLES
    pc,
    intent,    \* what the parser made of the input
    mode,      \* the routing mode
    prompt,    \* the first reasoning prompt or the second, with the schema reminder
    tries,     \* requests of the retry loop of this _llm_call
    calls,     \* requests to the model in this turn
    output,    \* what the last reasoning call returned
    outcome,   \* how the turn ended
    fault,     \* what made it raise
    rows,      \* action_log rows of this turn
    queue,     \* pending_escalations rows of this turn
    turns

vars == <<pc, intent, mode, prompt, tries, calls, output, outcome, fault, rows, queue, turns>>

-----------------------------------------------------------------------------
Actions == {"query", "write", "review", "task", "synthesize", "clarify"}
Pillars == {"one", "several", "unknown"}        \* unknown: some name is no PillarName
Intents == [action : Actions, pillars : Pillars, named : BOOLEAN, ambiguous : BOOLEAN]
NoIntent == [action |-> "none", pillars |-> "none", named |-> FALSE, ambiguous |-> FALSE]

Modes == {"synthesis", "direct_write", "challenge_and_prepare", "orchestrated", "direct"}

(* Twice for the intent, and for each of two prompts the retry loop and    *)
(* one request more; calls is kept one beyond, which bounds the run.       *)
CallLimit == 2 + 2 * (MaxRetries + 2)

(* JSON the model may answer a reasoning prompt with: null, a list or a    *)
(* scalar, an object that misses the format, or one that meets it, with    *)
(* an empty text, a plain one, action requests, malformed requests or      *)
(* proposals that are no list, or a text or proposals no reply may hold.   *)
Valid == {"empty", "plain", "requests", "malformed", "unfit"}
Outputs == {"null", "odd", "bad"} \cup Valid

Stages == {"init", "parse", "reparse", "route", "assemble", "reason", "reask", "validate",
           "finish"}
Faults == {"database", "intent", "pillar", "unavailable", "unparsable", "api", "shape", "request",
           "reply"}

TypeOK ==
    /\ pc \in {"idle"} \cup Stages
    /\ intent \in Intents \cup {NoIntent}
    /\ prompt \in 1..2
    /\ tries \in 0..MaxRetries
    /\ calls \in 0..(CallLimit + 1)
    /\ mode \in Modes \cup {"none"}
    /\ output \in Outputs \cup {"none"}
    /\ outcome \in {"none", "clarified", "answered", "unanswered", "flagged", "raised"}
    /\ fault \in Faults \cup {"none"}
    /\ rows \in 0..2 /\ queue \in 0..2
    /\ turns \in 0..MaxTurns
    /\ pc \in {"assemble", "reason", "reask", "validate", "finish"} => intent # NoIntent

Init ==
    /\ pc = "idle" /\ intent = NoIntent /\ mode = "none" /\ prompt = 1 /\ tries = 0 /\ calls = 0
    /\ output = "none" /\ outcome = "none" /\ fault = "none" /\ rows = 0 /\ queue = 0
    /\ turns = 0

-----------------------------------------------------------------------------
Result == <<outcome, fault, rows, queue>>

End(o, r, q) ==
    /\ pc' = "idle" /\ outcome' = o /\ rows' = rows + r /\ queue' = queue + q
    /\ UNCHANGED <<fault, intent, mode, prompt, tries, output, turns>>

(* Nobody catches an exception of the turn: the request gets the error.    *)
RaiseAfter(f, r) ==
    /\ pc' = "idle" /\ outcome' = "raised" /\ fault' = f /\ rows' = rows + r
    /\ UNCHANGED <<intent, mode, prompt, tries, output, queue, turns>>

Raise(f) == RaiseAfter(f, 0)

Goto(l) == pc' = l /\ UNCHANGED Result

Request == calls' = IF calls > CallLimit THEN calls ELSE calls + 1

(* The endpoint counted the iteration; the agent starts.                   *)
Begin ==
    /\ pc = "idle" /\ turns < MaxTurns
    /\ pc' = "init" /\ turns' = turns + 1
    /\ intent' = NoIntent /\ mode' = "none" /\ prompt' = 1 /\ tries' = 0 /\ calls' = 0 /\ output' = "none"
    /\ outcome' = "none" /\ fault' = "none" /\ rows' = 0 /\ queue' = 0

(* session_initializer.                                                    *)
Initialize ==
    /\ pc = "init"
    /\ Goto("parse")
    /\ UNCHANGED <<intent, mode, prompt, tries, calls, output, turns>>

(* A statement, a commit or a skill's time limit fails at any stage.       *)
SkillFails ==
    /\ pc \in Stages
    /\ Raise("database")
    /\ UNCHANGED calls

-----------------------------------------------------------------------------
(* intent_parser.  No reply, text that is not JSON, or null: once more     *)
(* with the schema, then a clarifying question.                            *)
ParseNothing ==
    /\ pc \in {"parse", "reparse"}
    /\ Request
    /\ IF pc = "parse"
         THEN Goto("reparse") /\ UNCHANGED intent
         ELSE /\ Goto("route")
              /\ intent' = [action |-> "clarify", pillars |-> "one", named |-> FALSE,
                            ambiguous |-> TRUE]
    /\ UNCHANGED <<mode, prompt, tries, output, turns>>

(* JSON that is no object, or a value UserIntent does not admit.           *)
ParseOdd ==
    /\ pc \in {"parse", "reparse"}
    /\ Request
    /\ Raise("intent")

(* An object: no pillars means the default pillar, and ambiguity.          *)
Defaulted(a, p, flag) ==
    [action |-> a, pillars |-> IF p = "none" THEN "one" ELSE p, named |-> p # "none",
     ambiguous |-> flag \/ p = "none"]

ParseIntent ==
    /\ pc \in {"parse", "reparse"}
    /\ Request
    /\ \E a \in Actions, p \in Pillars \cup {"none"}, flag \in BOOLEAN :
          intent' = Defaulted(a, p, flag)
    /\ Goto("route")
    /\ UNCHANGED <<mode, prompt, tries, output, turns>>

(* An ambiguous intent is answered with a question.                        *)
Clarify ==
    /\ pc = "route" /\ intent.ambiguous
    /\ End("clarified", 2, 0)
    /\ UNCHANGED calls

Authority(a) == CASE a = "synthesize" -> 1 [] a = "write" -> 2 [] a = "task" -> 3 [] OTHER -> 0

RoutingMode(i) ==
    CASE i.action = "synthesize" -> "synthesis"
      [] i.action = "write" -> "direct_write"
      [] i.action = "task" /\ Authority(i.action) >= 3 -> "challenge_and_prepare"
      [] i.pillars = "several" -> "orchestrated"
      [] OTHER -> "direct"

Route ==
    /\ pc = "route" /\ ~intent.ambiguous
    /\ mode' = RoutingMode(intent)
    /\ Goto("assemble")
    /\ UNCHANGED <<intent, prompt, tries, calls, output, turns>>

(* context_assembler: a pillar that is none raises.                        *)
Assemble ==
    /\ pc = "assemble"
    /\ IF intent.pillars = "unknown"
         THEN Raise("pillar")
         ELSE Goto("reason") /\ UNCHANGED <<intent, mode, prompt, tries, output, turns>>
    /\ UNCHANGED calls

-----------------------------------------------------------------------------
(* _llm_call.  A retryable failure is tried again, with a back-off, while  *)
(* tries are left.  What the client library sends again within one         *)
(* messages.create is one request here.                                    *)
UnavailableForever ==
    /\ pc = "reason"
    /\ Request
    /\ tries' = (tries + 1) % (MaxRetries + 1)
    /\ Goto("reason") /\ UNCHANGED <<intent, mode, prompt, output, turns>>

Unavailable ==
    /\ pc = "reason"
    /\ Request
    /\ IF tries < MaxRetries
         THEN tries' = tries + 1 /\ Goto("reason") /\ UNCHANGED <<intent, mode, prompt, output, turns>>
         ELSE Raise("unavailable")

Refused ==
    /\ pc = "reason"
    /\ Request
    /\ Raise("unavailable")

(* Text that is not JSON is asked for once more, outside the retry loop.   *)
NotJson ==
    /\ pc \in {"reason", "reask"}
    /\ Request
    /\ IF pc = "reason"
         THEN Goto("reask") /\ UNCHANGED <<intent, mode, prompt, tries, output, turns>>
         ELSE Raise("unparsable")

ReaskFails ==
    /\ pc = "reask"
    /\ Request
    /\ Raise("api")

Json ==
    /\ pc \in {"reason", "reask"}
    /\ Request
    /\ output' \in Outputs
    /\ Goto("validate")
    /\ UNCHANGED <<intent, mode, prompt, tries, turns>>

-----------------------------------------------------------------------------
(* output_validator, twice at most.  It asks the output for its keys, so   *)
(* what is neither null nor an object raises.                              *)
ValidateOnce ==
    /\ pc = "validate"
    /\ IF output = "odd" THEN Raise("shape")
       ELSE IF output \in Valid \/ prompt = 2
         THEN Goto("finish") /\ UNCHANGED <<intent, mode, prompt, tries, output, turns>>
       ELSE /\ prompt' = 2 /\ tries' = 0 /\ Goto("reason")
            /\ UNCHANGED <<intent, mode, output, turns>>
    /\ UNCHANGED calls

Validate ==
    /\ pc = "validate"
    /\ IF output = "odd" THEN Raise("shape")
       ELSE IF output \in Valid
         THEN Goto("finish") /\ UNCHANGED <<intent, mode, prompt, tries, output, turns>>
       ELSE IF prompt = 1
         THEN /\ prompt' = 2 /\ tries' = 0 /\ Goto("reason")
              /\ UNCHANGED <<intent, mode, output, turns>>
       ELSE End("flagged", 2, 0)
    /\ UNCHANGED calls

(* The reply: its proposals and action requests are checked, the agent     *)
(* logs, the text and the proposals are checked, the goal loop logs, and   *)
(* the goal loop and the endpoint each queue the requests.                 *)
Finish ==
    /\ pc = "finish"
    /\ CASE output = "malformed" -> Raise("request")
         [] output = "unfit" -> RaiseAfter("reply", 1)
         [] output = "empty" -> End("unanswered", 2, 0)
         [] output = "requests" -> End("answered", 2, 2)
         [] OTHER -> End("answered", 2, 0)
    /\ UNCHANGED calls

Step ==
    \/ Initialize
    \/ ParseNothing \/ ParseOdd \/ ParseIntent \/ Clarify \/ Route \/ Assemble
    \/ Unavailable \/ Refused \/ NotJson \/ ReaskFails \/ Json
    \/ Validate \/ Finish

Next == Begin \/ SkillFails \/ Step

Spec == Init /\ [][Next]_vars
FairSpec == Spec /\ WF_vars(Step)

-----------------------------------------------------------------------------
(* A turn asks the model a bounded number of times, whatever it answers.   *)
CallsBounded == calls <= CallLimit

(* What the user reads as an answer passed the validator, on the first     *)
(* prompt or on the second, and nobody reasons over a pillar the parser    *)
(* had to make up.                                                         *)
AnswerIsGrounded ==
    outcome = "answered" => output \in Valid /\ intent.named /\ ~intent.ambiguous

(* A turn ends, with a reply or an error.                                  *)
TurnEnds == pc # "idle" ~> pc = "idle"

(* A reply that says it was flagged for review left something to review.   *)
(* False: only action requests are queued.                                 *)
FlaggedIsQueued == outcome = "flagged" => queue > 0

(* An action that asks for approval went through challenge_and_prepare,    *)
(* the mode for what is not minor. False: actions come from the answer,    *)
(* whatever the mode.                                                      *)
ActionIsChallenged == queue > 0 => mode = "challenge_and_prepare"

(* A turn leaves a row in action_log, however it ends (INV-01). False: one *)
(* that raises before its reply leaves none.                               *)
EveryTurnIsLogged == outcome # "none" => rows > 0

(* The intent parser degrades and never raises, whatever the model says.   *)
(* False: JSON of another shape raises.                                    *)
ParserNeverRaises == fault # "intent"

(* An output that does not meet the format is asked for once more. False:  *)
(* the validator raises on what is neither null nor an object.             *)
InvalidIsReprompted ==
    [][pc = "validate" /\ prompt = 1 /\ output \notin Valid /\ fault' # "database"
          => prompt' = 2]_vars

(* A failure of the model's API is retried, wherever in the call it comes. *)
(* False: not in the request for JSON after a text.                        *)
UnavailableIsRetried == fault # "api"
=============================================================================
