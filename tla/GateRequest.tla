---------------------------- MODULE GateRequest ----------------------------
(***************************************************************************)
(* The two requests that decide whether a protected body runs, from the    *)
(* attempts on the wire to the exception or the body:                      *)
(*   /gate     check_workflow_budget -> Transport.check, or the edge box,  *)
(*   /execute  _run_tool_policy_gate -> runtime.execute ->                 *)
(*             Transport.execute,                                          *)
(* with _retry_with_backoff under both (src/src/nullrun/transport.py,      *)
(* runtime.py, edge.py, decorators.py).  What the approvals do between the *)
(* gates is ProtectedCall's subject; here they only have an outcome.       *)
(*                                                                         *)
(* One thread makes one call after the other.  stop(), which wakes every   *)
(* retry wait, may come at any moment.                                     *)
(***************************************************************************)
EXTENDS Refusals, FiniteSets

CONSTANTS
  Confs,          \* the configurations to consider, a subset of Configurations
  Codes,          \* wire codes that occur
  GateSent,       \* the answers /gate gives, the backend's or somebody else's
  ExecuteSent,    \* the answers /execute gives
  GateRetries,    \* max_retries of Transport.check, 3 in the code
  ExecuteRetries, \* _execute_max_retries, 10 in the code
  EdgeRetries,    \* NULLRUN_EDGE_MAX_RETRIES
  Env,            \* which of EnvKinds the environment does
  MaxCalls        \* bound: calls of one behaviour

(* NULLRUN_* variables, and the arguments of init() *)
Configurations ==
  [edge : BOOLEAN,          \* NULLRUN_EDGE_URL
   prod : BOOLEAN,          \* _is_production_environment
   failOpen : BOOLEAN,      \* NULLRUN_SENSITIVE_FAIL_OPEN
   failOpenAck : BOOLEAN,   \* NULLRUN_ALLOW_SENSITIVE_FAIL_OPEN
   skip : BOOLEAN,          \* NULLRUN_SKIP_BUDGET_CHECK
   skipAck : BOOLEAN,       \* NULLRUN_ALLOW_SKIP_BUDGET_CHECK
   permissive : BOOLEAN,    \* fallback_mode
   message : BOOLEAN]       \* on_denied = "message"

EnvKinds ==
  { "direct",       \* the application calls runtime.execute itself
    "box" }         \* the edge box does not answer, or answers with a fault

ASSUME ConfsKnown == Confs \subseteq Configurations
ASSUME EnvKnown == Env \subseteq EnvKinds
ASSUME CodesText == Codes \subseteq STRING
ASSUME RetriesNat == {GateRetries, ExecuteRetries, EdgeRetries, MaxCalls} \subseteq Nat

(***************************************************************************)
(* Answers.  A body that is JSON but no object is "list", one that is no   *)
(* JSON is "text".                                                         *)
(***************************************************************************)
Statuses == {200, 302, 401, 403, 404, 429, 503}

Response ==
  [status : Statuses,
   form : {"object", "list", "text"},
   decision : {"none", "allow", "block", "soft_pass", "require_approval", "deny", "pause"},
   source : {"none", "gateway", "fallback", "network_error", "edge_lease"},
   category : Categories \cup {"none", "newer"},
   place : Places,
   code : Codes \cup {NoCode},
   wait : {"none", "short", "long"}]      \* Retry-After, against the ceiling

NoAnswer ==
  [status |-> 200, form |-> "object", decision |-> "none", source |-> "none",
   category |-> "none", place |-> "nowhere", code |-> NoCode, wait |-> "none"]

ASSUME SentKnown == GateSent \cup ExecuteSent \subseteq Response

Verdict(d, s) == [NoAnswer EXCEPT !.decision = d, !.source = s]

VARIABLES
  conf,       \* the configuration, fixed at Init
  stopped,    \* _stop_event
  lastSource, \* edge.last_source
  op,         \* _operation_id_var, 0 for None
  ops,        \* operation ids handed out so far
  mode,       \* "protect", or the on_transport_error of a direct execute
  chained,    \* the call is inside a chain, so the cached path is taken
  pc,         \* where the call is
  ep,         \* the endpoint being asked
  attempt,    \* attempt of _retry_with_backoff
  answer,     \* the last response, or the gate-shaped dict made of it
  granted,    \* /execute is being asked again with an approval_id
  err,        \* class of the exception the call ended with, or "none"
  (* history *)
  said,       \* by endpoint: what the last attempt of this call was told
  seen,       \* the requests that reached a server, as <<operation, call, mode>>
  calls       \* calls begun

vars == <<conf, stopped, lastSource, op, ops, mode, chained, pc, ep, attempt, answer,
          granted, err, said, seen, calls>>

----------------------------------------------------------------------------
(* _next_retry_delay with _retry_after_seconds_from: a Retry-After beyond  *)
(* NULLRUN_RETRY_AFTER_CEILING ends the retries, any other only delays.    *)
Deferred(r) == r.wait = "long"

MaxRetries  == IF ep = "gate" THEN GateRetries ELSE ExecuteRetries
RetryOn5xx  == ep = "gate"
Handler     == IF ep = "gate" THEN "none"
               ELSE IF mode = "protect" THEN "raise" ELSE mode

(* sensitive_fail_open_enabled *)
FailOpen == conf.failOpen /\ (conf.prod => conf.failOpenAck)

(* Mutant of IsFallback: the transport's own spelling is not known. *)
MutIsFallback(s) == s = "network_error"

(* is_fallback_decision_source *)
IsFallback(s) == s \in {"fallback", "network_error"}

(* Where _build_block_exception looks for the code of a block              *)
BlockCode(v) == IF v.place \in {"error_code", "details", "emptyTop"} THEN v.code ELSE NoCode

(* The exceptions that tell _run_tool_policy_gate that nobody could be     *)
(* asked                                                                   *)
Unavailable == (Transport \ {"NullRunExecutionNotFoundError", "RateLimitError"}) \cup Untyped

(* What an answer means to someone who reads it as the backend wrote it:   *)
(* its refusals are blocks, whatever the status (is_gate_refusal), and the *)
(* other 4xx, of /execute only those with the code of a decision.          *)
GateMeaning(r) ==
  LET readable == r.form = "object" /\ (r.status = 200 => r.source = "gateway") IN
  CASE readable /\ r.status = 200 /\ r.decision = "require_approval" -> "ask"
    [] readable /\ r.status = 200 /\ r.decision \in {"allow", "soft_pass"} -> "pass"
    [] readable /\ r.status = 200 /\ r.decision \in {"block", "deny"} -> "refuse"
    [] readable /\ r.status \in 400..499 -> "refuse"
    [] readable /\ r.status >= 500 /\ r.decision = "block" -> "refuse"
    [] OTHER -> "fault"

ExecuteRefuses(r) ==
  LET code == WireCode(r.place, r.code) IN
  \/ r.decision = "block" /\ r.status \notin 300..399
  \/ r.status \in 400..499 /\ code \in Catalogued /\ Class[code] \in Decision

(* ... but the SDK takes some refusals of /execute for an outage: it never *)
(* reads the body of a 5xx, and a code can stand for an exception of the   *)
(* transport, or for one that _build_block_exception cannot build.         *)
Overlooked(r) ==
  \/ r.status >= 500
  \/ r.status = 200 /\ BlockError(BlockCode(r)) \in Unavailable
  \/ r.status \in 400..499 \ {401} /\ Parsed(r.status, WireCode(r.place, r.code)) \in Unavailable \ {"TypeError"}

ExecuteMeaning(r) ==
  LET readable == r.form = "object" IN
  CASE readable /\ r.status = 200 /\ r.decision = "require_approval" -> "ask"
    [] readable /\ r.status = 200 /\ r.decision \notin {"require_approval", "block"} -> "pass"
    [] readable /\ ExecuteRefuses(r) /\ ~Overlooked(r) -> "refuse"
    [] readable /\ ExecuteRefuses(r) /\ Overlooked(r) -> "unread"
    [] OTHER -> "fault"

Meaning(r) == IF ep = "gate" THEN GateMeaning(r) ELSE ExecuteMeaning(r)

Tell(meaning) ==
  /\ said' = [said EXCEPT ![ep] = meaning]
  /\ seen' = seen \cup {<<op, calls, mode>>}

call == <<op, ops, mode, chained, ep, attempt, granted>>

(* An exception leaves the request: the tool gate still looks at one of    *)
(* /execute, nobody at one of /gate.                                       *)
Throw(class) ==
  /\ pc' = IF ep = "execute" THEN "failed" ELSE "raised"
  /\ err' = class

GoTo(place) == pc' = place /\ UNCHANGED err

Ask(endpoint) ==
  /\ GoTo("attempt")
  /\ ep' = endpoint /\ attempt' = 0 /\ answer' = NoAnswer

----------------------------------------------------------------------------
(* A call of a protected function reaches check_workflow_budget ...        *)
Call ==
  /\ pc = "idle" /\ calls < MaxCalls
  /\ calls' = calls + 1
  /\ mode' = "protect" /\ chained' \in BOOLEAN
  /\ GoTo("budget") /\ ep' = "gate"
  /\ UNCHANGED <<conf, stopped, lastSource, op, ops, attempt, answer, granted, said, seen>>

(* ... and the application may call runtime.execute itself.                *)
CallExecute ==
  /\ "direct" \in Env
  /\ pc = "idle" /\ calls < MaxCalls
  /\ calls' = calls + 1
  /\ mode' \in {"none", "raise", "open", "closed"}
  /\ GoTo("tool") /\ ep' = "execute"
  /\ UNCHANGED <<conf, stopped, lastSource, op, ops, chained, attempt, answer, granted, said, seen>>

(* NULLRUN_SKIP_BUDGET_CHECK, which production has to acknowledge          *)
SkipBudget ==
  /\ pc = "budget" /\ conf.skip
  /\ IF conf.prod /\ ~conf.skipAck THEN Throw("NullRunInfrastructureError") ELSE GoTo("tool")
  /\ UNCHANGED <<conf, stopped, lastSource, call, answer, said, seen, calls>>

(* The operation id of the whole call *)
NewOperation == ops' = ops + 1 /\ op' = ops + 1

(* Outside every workflow there is no budget to ask for. *)
Unscoped ==
  /\ pc = "budget" /\ ~conf.skip /\ ~chained
  /\ NewOperation
  /\ GoTo("tool")
  /\ UNCHANGED <<conf, stopped, lastSource, mode, chained, ep, attempt, answer, granted, said, seen, calls>>

AskGate ==
  /\ pc = "budget" /\ ~conf.skip
  /\ NewOperation
  /\ IF conf.edge THEN GoTo("edge") /\ attempt' = 0 /\ UNCHANGED <<ep, answer>> ELSE Ask("gate")
  /\ UNCHANGED <<conf, stopped, lastSource, mode, chained, granted, said, seen, calls>>

----------------------------------------------------------------------------
(* EdgeTransport: enforce, _post, _unreachable                             *)

Decide(v) == GoTo("decide") /\ answer' = v

(* The box decides from its lease, and whatever is not an allow is a no.   *)
EdgeAnswers ==
  /\ pc = "edge"
  /\ \E d \in {"allow", "block"} :
       /\ Decide(Verdict(d, "edge_lease"))
       /\ Tell(IF d = "allow" THEN "pass" ELSE "refuse")
  /\ lastSource' = "edge_lease"
  /\ UNCHANGED <<conf, stopped, call, calls>>

(* No connection: again, with the same event id *)
EdgeRetry ==
  /\ pc = "edge" /\ "box" \in Env
  /\ attempt < EdgeRetries
  /\ attempt' = attempt + 1
  /\ Tell("fault")
  /\ UNCHANGED <<conf, stopped, lastSource, op, ops, mode, chained, pc, ep, answer, granted, err, calls>>

(* The last attempt, or an answer that is no decision (5xx, no JSON, no    *)
(* object), which is not retried                                           *)
EdgeUnreachable ==
  /\ pc = "edge" /\ "box" \in Env
  /\ Decide(Verdict("block", "fallback"))
  /\ Tell("fault")
  /\ UNCHANGED <<conf, stopped, lastSource, call, calls>>

----------------------------------------------------------------------------
(* _retry_with_backoff                                                     *)

(* The request is answered.  401 is never retried; with the handler        *)
(* "raise" no 5xx is; /gate returns the 5xx of its last attempt.           *)
Attempt ==
  /\ pc = "attempt"
  /\ \E r \in IF ep = "gate" THEN GateSent ELSE ExecuteSent :
       /\ answer' = r
       /\ Tell(Meaning(r))
       /\ \/ r.status = 401 /\ Throw("NullRunAuthError")
          \/ r.status >= 500 /\ Handler = "raise" /\ Throw("NullRunBackendError")
          \/ /\ r.status >= 500 /\ Handler # "raise" /\ (RetryOn5xx => attempt < MaxRetries)
             /\ GoTo(IF attempt >= MaxRetries \/ Deferred(r) THEN "gaveUp" ELSE "wait")
          \/ r.status >= 500 /\ RetryOn5xx /\ attempt >= MaxRetries /\ GoTo("answered")
          \/ r.status < 500 /\ r.status # 401 /\ GoTo("answered")
  /\ UNCHANGED <<conf, stopped, lastSource, call, calls>>

(* Mutant of AttemptFails: one attempt too many. *)
MutAttemptFails ==
  /\ pc = "attempt"
  /\ answer' = NoAnswer
  /\ Tell("fault")
  /\ GoTo(IF attempt > MaxRetries THEN "gaveUp" ELSE "wait")
  /\ UNCHANGED <<conf, stopped, lastSource, call, calls>>

(* No connection, or no answer in time; the request may have arrived.      *)
AttemptFails ==
  /\ pc = "attempt"
  /\ answer' = NoAnswer
  /\ Tell("fault")
  /\ GoTo(IF attempt >= MaxRetries THEN "gaveUp" ELSE "wait")
  /\ UNCHANGED <<conf, stopped, lastSource, call, calls>>

(* Mutant of Wait: the attempt is not counted. *)
MutWait ==
  /\ pc = "wait"
  /\ GoTo(IF stopped THEN "gaveUp" ELSE "attempt")
  /\ UNCHANGED <<conf, stopped, lastSource, call, answer, said, seen, calls>>

(* _interruptible_sleep: stop() ends the wait and the retries.             *)
Wait ==
  /\ pc = "wait"
  /\ IF stopped THEN GoTo("gaveUp") /\ UNCHANGED attempt
     ELSE GoTo("attempt") /\ attempt' = attempt + 1
  /\ UNCHANGED <<conf, stopped, lastSource, op, ops, mode, chained, ep, answer, granted, said, seen, calls>>

(* Out of attempts: /gate still returns a 5xx when that was the last thing *)
(* it saw, and otherwise makes up a block that is marked as a fallback.    *)
GateGivesUp ==
  /\ pc = "gaveUp" /\ ep = "gate"
  /\ IF answer.status >= 500 THEN GoTo("answered") /\ UNCHANGED answer
     ELSE Decide(Verdict("block", "fallback"))
  /\ UNCHANGED <<conf, stopped, lastSource, call, said, seen, calls>>

(* FallbackMode *)
FallbackDecision ==
  Verdict(IF conf.permissive THEN "allow" ELSE "block", "fallback")

(* /execute does what on_transport_error says.                             *)
ExecuteGivesUp ==
  /\ pc = "gaveUp" /\ ep = "execute"
  /\ CASE Handler = "raise"  -> Throw("NullRunTransportError") /\ UNCHANGED answer
       [] Handler = "open"   -> Decide(Verdict("allow", "network_error"))
       [] Handler = "closed" -> Decide(Verdict("block", "network_error"))
       [] Handler = "none"   -> Decide(FallbackDecision)
  /\ UNCHANGED <<conf, stopped, lastSource, call, said, seen, calls>>

(* stop() *)
Stop ==
  /\ ~stopped
  /\ stopped' = TRUE
  /\ UNCHANGED <<conf, lastSource, call, pc, answer, err, said, seen, calls>>

----------------------------------------------------------------------------
(* Transport.check: what an answer of /gate becomes                        *)

(* Mutant of GateRefused: every 5xx is an outage. *)
MutGateRefused(r) == r.status \in 400..499

(* The answer is refused by the gate, whatever its status.                 *)
GateRefused(r) == r.status \in 400..499 \/ (r.status >= 500 /\ r.decision = "block")

GateAnswered ==
  /\ pc = "answered" /\ ep = "gate"
  /\ LET r == answer IN
     \/ /\ r.status = 200
        /\ IF r.form = "text" THEN Throw("NullRunMalformedGateResponseError") /\ UNCHANGED answer
           ELSE Decide(r)
     \/ /\ GateRefused(r) /\ r.form = "list"          \* AttributeError
        /\ IF chained THEN Throw("AttributeError") /\ UNCHANGED answer
           ELSE Decide(Verdict("block", "fallback"))
     \/ /\ GateRefused(r) /\ r.form # "list"
        /\ IF r.decision = "block" /\ Unclassified(r.category)
           THEN Throw("NullRunUnclassifiedRefusalError") /\ UNCHANGED answer
           ELSE Decide([r EXCEPT !.decision = "block", !.source = "gateway"])
     \/ /\ ~GateRefused(r) /\ r.status # 200
        /\ Decide(Verdict("block", "fallback"))
  /\ UNCHANGED <<conf, stopped, lastSource, call, said, seen, calls>>

----------------------------------------------------------------------------
(* check_workflow_budget acts on the answer.                               *)

(* _require_gate_decision *)
GateDecision(v) ==
  /\ v.form = "object"
  /\ v.source \in {"gateway", "fallback", "edge_lease"}
  /\ v.decision \in {"allow", "block", "soft_pass", "require_approval", "deny"}

(* _build_block_exception; what has no code may still be a budget block by *)
(* its explanation.                                                        *)
BlockErrors(v) ==
  {BlockError(BlockCode(v))}
    \cup (IF ep = "gate" /\ BlockCode(v) = NoCode THEN {"NullRunBudgetError"} ELSE {})

(* Mutant of ToldToModel: the category is not looked at. *)
MutToldToModel(v) == conf.message

(* A refusal that may be told to the model.  Only Transport.check turns    *)
(* the category of a body into a DecisionCategory, and not for a 200.      *)
ToldToModel(v) == v.category = "denied" /\ conf.message

BudgetBlocks(v) ==
  IF v.status # 200 /\ ToldToModel(v) THEN Throw("NullRunDeniedError")
  ELSE \E class \in BlockErrors(v) : Throw(class)

(* How the wait for an approval ends is ProtectedCall's subject. *)
BudgetApproval ==
  \/ GoTo("tool")
  \/ \E class \in {"NullRunBackendError", "NullRunApprovalDeniedError",
                    "NullRunApprovalExpiredError"} : Throw(class)

BudgetActs(v) ==
  \/ v.decision = "block" /\ BudgetBlocks(v)
  \/ v.decision = "deny" /\ Throw("NullRunBlockedException")
  \/ v.decision = "require_approval" /\ BudgetApproval
  \/ v.decision \in {"allow", "soft_pass"} /\ GoTo("tool")

BudgetDecision ==
  /\ pc = "decide" /\ ep = "gate"
  /\ IF ~GateDecision(answer) THEN Throw("NullRunMalformedGateResponseError")
     ELSE IF IsFallback(answer.source) THEN GoTo("tool")
     ELSE BudgetActs(answer)
  /\ UNCHANGED <<conf, stopped, lastSource, call, answer, said, seen, calls>>

----------------------------------------------------------------------------
(* NullRunRuntime.execute and Transport.execute                            *)

(* Mutant of AskExecute: a fresh operation id for /execute. *)
MutAskExecute ==
  /\ pc = "tool"
  /\ NewOperation
  /\ granted' = FALSE
  /\ IF conf.edge
     THEN /\ Decide(Verdict("allow", IF lastSource = "none" THEN "edge_lease" ELSE lastSource))
          /\ ep' = "execute" /\ UNCHANGED attempt
     ELSE Ask("execute")
  /\ UNCHANGED <<conf, stopped, lastSource, mode, chained, said, seen, calls>>

(* The operation id of the call is reused, and only made when there is     *)
(* none.  An edge box has decided for both gates.                          *)
AskExecute ==
  /\ pc = "tool"
  /\ IF op = 0 THEN NewOperation ELSE UNCHANGED <<op, ops>>
  /\ granted' = FALSE
  /\ IF conf.edge
     THEN /\ Decide(Verdict("allow", IF lastSource = "none" THEN "edge_lease" ELSE lastSource))
          /\ ep' = "execute" /\ UNCHANGED attempt
     ELSE Ask("execute")
  /\ UNCHANGED <<conf, stopped, lastSource, mode, chained, said, seen, calls>>

(* An exception of the error parser; the second request is not inside the  *)
(* handler that turns a denial into a message.                             *)
ThrowParsed(r) ==
  LET class == Parsed(r.status, WireCode(r.place, r.code)) IN
  IF class = "TypeError" THEN Decide(Verdict("block", "fallback"))
  ELSE /\ Throw(IF class \in Blocked /\ ToldToModel(r) /\ ~granted
                THEN "NullRunDeniedError" ELSE class)
       /\ UNCHANGED answer

ExecuteAnswered ==
  /\ pc = "answered" /\ ep = "execute"
  /\ LET r == answer IN
     \/ r.status = 200 /\ r.form = "object" /\ Decide([r EXCEPT !.source = "gateway"])
     \/ r.status = 200 /\ r.form = "list" /\ Throw("TypeError") /\ UNCHANGED answer
     \/ r.status = 200 /\ r.form = "text" /\ Throw("ValueError") /\ UNCHANGED answer
     \/ r.status >= 400 /\ ThrowParsed(r)
     \/ r.status \in 300..399 /\ Decide(FallbackDecision)
  /\ UNCHANGED <<conf, stopped, lastSource, call, said, seen, calls>>

(* An approval that is granted is taken to /execute once more.             *)
ToolApproval ==
  \/ ~granted /\ granted' = TRUE /\ Ask("execute")
  \/ /\ \E class \in IF granted THEN {"NullRunApprovalReplayRejectedError"}
                      ELSE {"NullRunApprovalResponseMissingError", "NullRunApprovalDeniedError",
                            "NullRunApprovalExpiredError", "NullRunBlockedException"} :
          Throw(class)
     /\ UNCHANGED <<ep, attempt, answer, granted>>

ExecuteDecision ==
  /\ pc = "decide" /\ ep = "execute"
  /\ \/ answer.decision = "require_approval" /\ ToolApproval
     \/ /\ answer.decision = "block"
        /\ \E class \in BlockErrors(answer) : Throw(class)
        /\ UNCHANGED <<ep, attempt, answer, granted>>
     \/ /\ answer.decision \notin {"require_approval", "block"}
        /\ GoTo("passed")
        /\ UNCHANGED <<ep, attempt, answer, granted>>
  /\ UNCHANGED <<conf, stopped, lastSource, op, ops, mode, chained, said, seen, calls>>

----------------------------------------------------------------------------
(* _run_tool_policy_gate: what it makes of an exception ...                *)

ToolGateFailed ==
  /\ pc = "failed"
  /\ IF mode = "protect" /\ err \in Unavailable
     THEN IF FailOpen THEN pc' = "body" /\ err' = "none"
          ELSE pc' = "raised" /\ err' = "NullRunBlockedException"
     ELSE pc' = "raised" /\ UNCHANGED err
  /\ UNCHANGED <<conf, stopped, lastSource, call, answer, said, seen, calls>>

(* ... and of an answer.                                                   *)
ToolGatePassed ==
  /\ pc = "passed"
  /\ IF mode = "protect" /\ IsFallback(answer.source) /\ ~FailOpen
     THEN pc' = "raised" /\ err' = "NullRunBlockedException"
     ELSE GoTo("body")
  /\ UNCHANGED <<conf, stopped, lastSource, call, answer, said, seen, calls>>

(* The call is over.  The operation id stays in its context variable.      *)
Return ==
  /\ pc \in {"body", "raised"}
  /\ pc' = "idle" /\ err' = "none"
  /\ answer' = NoAnswer /\ attempt' = 0 /\ granted' = FALSE /\ chained' = FALSE
  /\ said' = [gate |-> "none", execute |-> "none"]
  /\ UNCHANGED <<conf, stopped, lastSource, op, ops, mode, ep, seen, calls>>

----------------------------------------------------------------------------
Init ==
  /\ conf \in Confs
  /\ stopped = FALSE /\ lastSource = "none"
  /\ op = 0 /\ ops = 0
  /\ mode = "protect" /\ chained = FALSE
  /\ pc = "idle" /\ ep = "gate" /\ attempt = 0 /\ answer = NoAnswer
  /\ granted = FALSE /\ err = "none"
  /\ said = [gate |-> "none", execute |-> "none"] /\ seen = {} /\ calls = 0

(* Steps of the calling thread once a call has begun *)
Step ==
  \/ SkipBudget \/ Unscoped \/ AskGate
  \/ EdgeAnswers \/ EdgeRetry \/ EdgeUnreachable
  \/ Attempt \/ AttemptFails \/ Wait \/ GateGivesUp \/ ExecuteGivesUp
  \/ GateAnswered \/ BudgetDecision
  \/ AskExecute \/ ExecuteAnswered \/ ExecuteDecision
  \/ ToolGateFailed \/ ToolGatePassed \/ Return

Next == Call \/ CallExecute \/ Step \/ Stop

Spec == Init /\ [][Next]_vars

(* A thread keeps running, and every request has a timeout of 5 seconds.   *)
FairSpec == Spec /\ WF_vars(Step)

----------------------------------------------------------------------------
(* The types of the variables; attempts stay within the retry budget of    *)
(* whoever is asked.                                                       *)
TypeOK ==
  /\ conf \in Confs /\ stopped \in BOOLEAN
  /\ lastSource \in {"none", "edge_lease"}
  /\ ops \in Nat /\ op \in 0..ops
  /\ mode \in {"protect", "none", "raise", "open", "closed"}
  /\ chained \in BOOLEAN /\ granted \in BOOLEAN
  /\ pc \in {"idle", "budget", "edge", "attempt", "wait", "gaveUp", "answered", "decide", "tool",
              "passed", "failed", "body", "raised"}
  /\ ep \in {"gate", "execute"}
  /\ attempt \in 0..(IF pc = "edge" THEN EdgeRetries
                     ELSE IF conf.edge THEN EdgeRetries ELSE MaxRetries)
  /\ answer \in Response
  /\ err \in Exceptions \cup {"none"}
  /\ said \in [{"gate", "execute"} -> {"none", "fault", "refuse", "unread", "ask", "pass"}]
  /\ seen \subseteq (1..ops) \X (1..calls) \X {"protect", "none", "raise", "open", "closed"}
  /\ calls \in 0..MaxCalls

(* The operator asked for bodies to run when nobody can decide: by         *)
(* NULLRUN_SENSITIVE_FAIL_OPEN, or for a direct execute by its handler.    *)
OptedOut == IF mode = "protect" THEN FailOpen ELSE mode = "open" \/ conf.permissive

(* A refusal is final: whatever is retried, misparsed or covered by        *)
(* fail-open, no body runs when the last thing either gate said was a no   *)
(* ("Real decision=block from the gateway is still honored", decorators).  *)
(* The code breaks that for a no of /execute which it takes for an outage  *)
(* (Overlooked), where the operator lets bodies run in an outage.          *)
RefusalIsFinal ==
  pc = "body" => /\ "refuse" \notin {said.gate, said.execute}
                 /\ said.execute = "unread" => OptedOut

(* Fail-closed: without the opt-out a protected body only runs when        *)
(* /execute itself answered this call and let it pass, whatever the budget *)
(* gate, which fails open, made of its own failures.                       *)
FailClosed ==
  pc = "body" /\ mode = "protect" /\ ~FailOpen /\ ~conf.edge => said.execute = "pass"

(* Only a refusal of the category "denied" is handed to the model as text; *)
(* budget, halt and infrastructure refusals stay exceptions for the        *)
(* operator.                                                               *)
OnlyDenialsReachModel ==
  err = "NullRunDeniedError" => answer.category = "denied" /\ conf.message

(* The gates of one call, and all their attempts, carry one operation id;  *)
(* and no two protected calls share one, unless they skip the budget gate. *)
OneOperationPerCall ==
  \A r, s \in seen :
    /\ r[2] = s[2] => r[1] = s[1]
    /\ r[1] = s[1] /\ r[3] = "protect" /\ s[3] = "protect" /\ ~conf.skip => r[2] = s[2]

(* Every call ends, also when stop() never comes and nothing answers.      *)
CallEnds == pc # "idle" ~> pc = "idle"

=============================================================================
