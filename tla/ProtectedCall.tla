--------------------------- MODULE ProtectedCall ---------------------------
(***************************************************************************)
(* A call of a function under @protect (src/src/nullrun/decorators.py,     *)
(* src/src/nullrun/runtime.py): the control-plane check, the budget gate   *)
(* (POST /gate), the tool gate (POST /execute), the body, and the cleanup  *)
(* after an exception.  Either gate may ask for a human approval, for      *)
(* which the calling thread waits until the WebSocket thread hands it the  *)
(* operator's answer, or until it times out.                               *)
(*                                                                         *)
(* Callers are the application's threads; each keeps the reservation id it *)
(* captured last in a context variable that outlives the call.  The        *)
(* WebSocket thread handles one push at a time.  One action is one request *)
(* to the backend, one critical section of _approval_lock, or one step     *)
(* that another thread can see.                                            *)
(***************************************************************************)
EXTENDS Naturals, FiniteSets

CONSTANTS
  Callers,     \* application threads
  Execs,       \* execution (reservation) ids the backend can mint
  Approvals,   \* approval ids the backend can mint
  None,
  MaxCalls,    \* bound: calls in one behaviour
  FailOpen,    \* NULLRUN_SENSITIVE_FAIL_OPEN
  Env          \* which of EnvKinds happen

EnvKinds ==
  { "kill",         \* the control plane kills or pauses the workflow
    "unreachable",  \* a request gets no answer
    "error",        \* a gate answers with an error that is raised, or leaves out the
                    \* approval id it should name
    "uncaptured",   \* the budget gate fails open on an exception the transport lets out
    "bare",         \* /execute allows without a reservation_id
    "chain",        \* calls run in one chain, so the gate cache is used
    "unscoped",     \* some calls are made outside every workflow
    "raises",       \* the body raises
    "aged",         \* a call outlives its reservation (295 s)
    "cancelled",    \* the body of a coroutine ends in CancelledError
    "lost",         \* a push is lost
    "repeated",     \* a push is delivered more than once
    "sweep" }       \* the backend's sweeper expires approval rows

ASSUME Distinct == None \notin Callers \cup Execs \cup Approvals
ASSUME Switches == FailOpen \in BOOLEAN /\ Env \subseteq EnvKinds /\ MaxCalls \in Nat

VARIABLES
  (* the backend *)
  exec,       \* what has become of each reservation
  row,        \* status of each approval row
  bound,      \* the execution each approval row is for
  verdict,    \* the outcome that the push about each row carries
  push,       \* pushes that have not reached the SDK
  (* the runtime, shared by the threads *)
  stopped,    \* the cached remote state is Killed or Paused
  cache,      \* _GATE_CACHE
  pending,    \* _approval_pending: whose entry waits for each approval
  index,      \* _pending_approval_id_by_execution
  hand,       \* where _handle_approval_resolved is, with which push and entry
  (* each caller *)
  pc,
  eid,        \* the server-minted execution id of its context
  gate,       \* which gate asked for the approval it waits for
  appr,       \* that approval
  event,      \* its entry's threading.Event is set
  outcome,    \* its entry's "outcome"
  got,        \* the outcome it has read and not yet acted on
  (* history *)
  needed,     \* approvals the gates have asked for in the current call
  completed,  \* executions whose body has completed
  woken,      \* approvals whose waiter was woken
  calls

backend == <<exec, row, bound, verdict, push>>
waiting == <<pending, hand, event, outcome>>
history == <<completed, woken, calls>>
vars == <<backend, stopped, cache, waiting, index, pc, eid, gate, appr, got, needed, history>>

Decisions == {"allow", "block", "require_approval"}
Outcomes  == {"approved", "denied", "expired"}
Idle      == [step |-> "idle", a |-> None, who |-> None]
NoAnswer  == [decision |-> "none", exec |-> None, appr |-> None]
Fallback  == [decision |-> "fallback", exec |-> None, appr |-> None]

Granted == {a \in Approvals : verdict[a] = "approved"}

Goto(c, place) == pc' = [pc EXCEPT ![c] = place]

(* Mutant of Capture: an answer without an id leaves the old one. *)
MutCapture(c, x) == eid' = [eid EXCEPT ![c] = IF x = None THEN @ ELSE x]

(* _capture_server_minted_execution_id: an answer without an id clears it. *)
Capture(c, x) == eid' = [eid EXCEPT ![c] = x]

(* The backend mints a reservation, or a reservation and an approval row.  *)
Mint(x) ==
  /\ exec[x] = "unused"
  /\ exec' = [exec EXCEPT ![x] = "open"]
MintApproval(x, a) ==
  /\ row[a] = "unused"
  /\ row' = [row EXCEPT ![a] = "PENDING"]
  /\ bound' = [bound EXCEPT ![a] = x]

(* POST /approvals/a/consume, which flips an approved row, or no answer *)
ConsumeApproval(a) ==
  \/ row' = IF row[a] = "APPROVED" THEN [row EXCEPT ![a] = "CONSUMED"] ELSE row
  \/ "unreachable" \in Env /\ UNCHANGED row

(* The gate's answer asks for approval a: the caller goes on to wait for it. *)
AskApproval(c, g, a) ==
  /\ Goto(c, "register")
  /\ gate' = [gate EXCEPT ![c] = g]
  /\ appr' = [appr EXCEPT ![c] = a]
  /\ needed' = [needed EXCEPT ![c] = @ \cup {a}]

----------------------------------------------------------------------------
(* _protect_body enters, and check_control_plane reads the cached state.   *)
Call(c) ==
  /\ pc[c] = "idle"
  /\ calls < MaxCalls
  /\ calls' = calls + 1
  /\ needed' = [needed EXCEPT ![c] = {}]
  /\ Goto(c, IF stopped THEN "raise" ELSE "budget")
  /\ UNCHANGED <<backend, stopped, cache, waiting, index, eid, gate, appr, got,
                 completed, woken>>

(* Outside every workflow neither that check nor the budget gate runs.     *)
CallUnscoped(c) ==
  /\ "unscoped" \in Env
  /\ pc[c] = "idle"
  /\ calls < MaxCalls
  /\ calls' = calls + 1
  /\ needed' = [needed EXCEPT ![c] = {}]
  /\ Goto(c, "tool")
  /\ UNCHANGED <<backend, stopped, cache, waiting, index, eid, gate, appr, got,
                 completed, woken>>

(* Mutant of Decide: a missing approval id is not noticed. *)
MutDecide(c, answer) ==
  /\ Capture(c, answer.exec)
  /\ IF answer.decision = "require_approval" THEN AskApproval(c, "budget", answer.appr)
     ELSE /\ Goto(c, IF answer.decision = "block" THEN "raise" ELSE "tool")
          /\ UNCHANGED <<gate, appr, needed>>

(* check_workflow_budget acts on an answer, fresh or cached, and lets the  *)
(* call go on when it is the transport's substitute for an answer.         *)
Decide(c, answer) ==
  /\ Capture(c, answer.exec)
  /\ \/ /\ answer.decision \in {"allow", "fallback"}
        /\ Goto(c, "tool")
        /\ UNCHANGED <<gate, appr, needed>>
     \/ /\ answer.decision = "block" \/ (answer.decision = "require_approval" /\ answer.appr = None)
        /\ Goto(c, "raise")
        /\ UNCHANGED <<gate, appr, needed>>
     \/ /\ answer.decision = "require_approval" /\ answer.appr # None
        /\ AskApproval(c, "budget", answer.appr)

(* Mutant of CacheEnabled: also calls outside a chain use the cache. *)
MutCacheEnabled == TRUE

(* cache_enabled *)
CacheEnabled == "chain" \in Env

(* An entry within its TTL is used instead of a request. *)
LookUp(c) ==
  /\ pc[c] = "budget"
  /\ IF CacheEnabled /\ cache # NoAnswer
     THEN Decide(c, cache)
     ELSE Goto(c, "asking") /\ UNCHANGED <<eid, gate, appr, needed>>
  /\ UNCHANGED <<backend, stopped, cache, waiting, index, got, history>>

(* The budget gate answers; whatever it says is cached, also a refusal or  *)
(* a request for approval.                                                 *)
BudgetAnswer(c) ==
  /\ pc[c] = "asking"
  /\ \E answer \in [decision : Decisions, exec : Execs \cup {None}, appr : Approvals \cup {None}] :
       /\ answer.decision = "block" <=> answer.exec = None
       /\ answer.appr # None => answer.decision = "require_approval"
       /\ answer.decision = "require_approval" => answer.appr # None \/ "error" \in Env
       /\ IF answer.exec # None THEN Mint(answer.exec) ELSE UNCHANGED exec
       /\ IF answer.appr # None THEN MintApproval(answer.exec, answer.appr)
          ELSE UNCHANGED <<row, bound>>
       /\ Decide(c, answer)
       /\ cache' = IF CacheEnabled THEN answer ELSE cache
  /\ UNCHANGED <<verdict, push, stopped, waiting, index, got, history>>

(* No answer: the transport makes one up, which is captured and cached     *)
(* like any other.                                                         *)
BudgetUnreachable(c) ==
  /\ "unreachable" \in Env
  /\ pc[c] = "asking"
  /\ Decide(c, Fallback)
  /\ cache' = IF CacheEnabled THEN Fallback ELSE cache
  /\ UNCHANGED <<backend, stopped, waiting, index, got, history>>

(* An answer that is raised before it is captured, or that fails open      *)
(* there: the call goes on with the id of an earlier one.                  *)
BudgetError(c) ==
  /\ pc[c] = "asking"
  /\ \/ "error" \in Env /\ Goto(c, "raise")
     \/ "uncaptured" \in Env /\ Goto(c, "tool")
  /\ UNCHANGED <<backend, stopped, cache, waiting, index, eid, gate, appr, got, needed, history>>

----------------------------------------------------------------------------
(* _run_tool_policy_gate, NullRunRuntime.execute.  The backend only knows  *)
(* executions that a gate has minted and nobody has cancelled.             *)
Known(c) == eid[c] # None /\ exec[eid[c]] \in {"open", "settled"}

ToolAllow(c) ==
  /\ pc[c] = "tool" /\ Known(c)
  /\ Goto(c, "body")
  /\ \/ UNCHANGED eid
     \/ "bare" \in Env /\ Capture(c, None)
  /\ UNCHANGED <<backend, stopped, cache, waiting, index, gate, appr, got, needed, history>>

ToolBlock(c) ==
  /\ pc[c] = "tool" /\ Known(c)
  /\ Goto(c, "raise")
  /\ Capture(c, None)
  /\ UNCHANGED <<backend, stopped, cache, waiting, index, gate, appr, got, needed, history>>

(* The approval row gets an execution of its own, which is captured; an    *)
(* answer that does not name the approval is raised.                       *)
ToolApproval(c) ==
  /\ pc[c] = "tool" /\ Known(c)
  /\ \E x \in Execs :
       /\ Mint(x)
       /\ Capture(c, x)
       /\ \/ \E a \in Approvals : MintApproval(x, a) /\ AskApproval(c, "tool", a)
          \/ /\ "error" \in Env
             /\ Goto(c, "raise")
             /\ UNCHANGED <<row, bound, gate, appr, needed>>
  /\ UNCHANGED <<verdict, push, stopped, cache, waiting, index, got, history>>

(* 404 for an unknown execution, or another error, is raised. *)
ToolError(c) ==
  /\ pc[c] = "tool"
  /\ ~Known(c) \/ "error" \in Env
  /\ Goto(c, "raise")
  /\ UNCHANGED <<backend, stopped, cache, waiting, index, eid, gate, appr, got, needed, history>>

ToolUnreachable(c) ==
  /\ "unreachable" \in Env
  /\ pc[c] = "tool"
  /\ Goto(c, IF FailOpen THEN "body" ELSE "raise")
  /\ UNCHANGED <<backend, stopped, cache, waiting, index, eid, gate, appr, got, needed, history>>

----------------------------------------------------------------------------
(* _wait_for_approval_resolution *)

(* A new entry, which takes the place of any other for the same approval   *)
Register(c) ==
  /\ pc[c] = "register"
  /\ pending' = [pending EXCEPT ![appr[c]] = c]
  /\ Goto(c, "wait")
  /\ UNCHANGED <<backend, stopped, cache, hand, event, outcome, index, eid, gate, appr, got, needed, history>>

(* The caller has its result and drops its entry; what the handler still   *)
(* does to it reaches nobody.                                              *)
Read(c, result) ==
  /\ got' = [got EXCEPT ![c] = result]
  /\ event' = [event EXCEPT ![c] = FALSE]
  /\ outcome' = [outcome EXCEPT ![c] = "none"]
  /\ hand' = IF hand.who = c THEN [hand EXCEPT !.who = None] ELSE hand
  /\ Goto(c, "resolved")

(* event.wait returns True, and the entry is read as it is now. *)
Wake(c) ==
  /\ pc[c] = "wait" /\ event[c]
  /\ Read(c, outcome[c])
  /\ woken' = woken \cup {appr[c]}
  /\ UNCHANGED <<backend, stopped, cache, pending, index, eid, gate, appr, needed, completed, calls>>

(* Mutant of TimeOut: only a caller that is still registered times out.    *)
MutTimeOut(c) ==
  /\ pc[c] = "wait" /\ ~event[c] /\ pending[appr[c]] = c
  /\ Goto(c, "timedOut")
  /\ UNCHANGED <<backend, stopped, cache, waiting, index, eid, gate, appr, got, needed, history>>

(* event.wait returns False ... *)
TimeOut(c) ==
  /\ pc[c] = "wait" /\ ~event[c]
  /\ Goto(c, "timedOut")
  /\ UNCHANGED <<backend, stopped, cache, waiting, index, eid, gate, appr, got, needed, history>>

(* ... and then the entry for this approval, whoever's it is by now, is    *)
(* removed. *)
Unregister(c) ==
  /\ pc[c] = "timedOut"
  /\ pending' = [pending EXCEPT ![appr[c]] = None]
  /\ Read(c, "timeout")
  /\ UNCHANGED <<backend, stopped, cache, index, eid, gate, appr, needed, history>>

----------------------------------------------------------------------------
(* What the two gates do with the outcome *)

Act(c, place) == Goto(c, place) /\ got' = [got EXCEPT ![c] = "none"]

(* Mutant of Refused: only an explicit denial is raised. *)
MutRefused(c) ==
  /\ pc[c] = "resolved" /\ got[c] # "approved"
  /\ Act(c, IF got[c] = "denied" THEN "raise" ELSE "tool")
  /\ UNCHANGED <<backend, stopped, cache, waiting, index, eid, gate, appr, needed, history>>

(* Anything but "approved" is raised: denied, expired or unresolved. *)
Refused(c) ==
  /\ pc[c] = "resolved" /\ got[c] # "approved"
  /\ Act(c, "raise")
  /\ UNCHANGED <<backend, stopped, cache, waiting, index, eid, gate, appr, needed, history>>

(* check_workflow_budget: consume the row ... *)
BudgetApproved(c) ==
  /\ pc[c] = "resolved" /\ got[c] = "approved" /\ gate[c] = "budget"
  /\ ConsumeApproval(appr[c])
  /\ Act(c, "unindex")
  /\ UNCHANGED <<exec, bound, verdict, push, stopped, cache, waiting, index, eid, gate, appr,
                 needed, history>>

(* ... pop the reverse index and return. *)
Unindex(c) ==
  /\ pc[c] = "unindex"
  /\ index' = IF eid[c] = None THEN index ELSE [index EXCEPT ![eid[c]] = None]
  /\ Goto(c, "tool")
  /\ UNCHANGED <<backend, stopped, cache, waiting, eid, gate, appr, got, needed, history>>

(* execute: ask /execute again, with the approval; the backend consumes an *)
(* approved row that is bound to this execution, and asks for approval     *)
(* again otherwise, which is raised.                                       *)
ReCheck(c) ==
  /\ pc[c] = "resolved" /\ got[c] = "approved" /\ gate[c] = "tool"
  /\ \/ /\ row[appr[c]] = "APPROVED" /\ bound[appr[c]] = eid[c]
        /\ row' = [row EXCEPT ![appr[c]] = "CONSUMED"]
        /\ Act(c, "body")
     \/ /\ row[appr[c]] # "APPROVED" \/ bound[appr[c]] # eid[c] \/ "error" \in Env
        /\ Act(c, "raise")
        /\ UNCHANGED row
     \/ /\ "unreachable" \in Env
        /\ Act(c, IF FailOpen THEN "body" ELSE "raise")
        /\ UNCHANGED row
  /\ UNCHANGED <<exec, bound, verdict, push, stopped, cache, waiting, index, eid, gate, appr,
                 needed, history>>

----------------------------------------------------------------------------
(* The body, and the except clause of the wrappers *)

(* The cost event is tracked with the captured id, which stays captured    *)
(* unless it is older than a reservation lives.                            *)
BodyReturns(c) ==
  /\ pc[c] = "body"
  /\ \/ completed' = completed \cup ({eid[c]} \ {None}) /\ UNCHANGED eid
     \/ "aged" \in Env /\ Capture(c, None) /\ UNCHANGED completed
  /\ Goto(c, "idle")
  /\ UNCHANGED <<backend, stopped, cache, waiting, index, gate, appr, got, needed, woken, calls>>

BodyRaises(c) ==
  /\ pc[c] = "body"
  /\ \/ "raises" \in Env /\ Goto(c, "raise")
     \/ "cancelled" \in Env /\ Goto(c, "idle")
  /\ UNCHANGED <<backend, stopped, cache, waiting, index, eid, gate, appr, got, needed, history>>

(* _safe_cancel_active_execution: POST /cancel for the captured id ... *)
Cancel(c) ==
  /\ pc[c] = "raise"
  /\ IF eid[c] = None
     THEN Goto(c, "idle") /\ UNCHANGED exec
     ELSE /\ Goto(c, "orphan")
          /\ \/ exec' = IF exec[eid[c]] = "open" THEN [exec EXCEPT ![eid[c]] = "cancelled"]
                        ELSE exec
             \/ "unreachable" \in Env /\ UNCHANGED exec
  /\ UNCHANGED <<row, bound, verdict, push, stopped, cache, waiting, index, eid, gate, appr,
                 got, needed, history>>

(* ... and consume the approval that the reverse index names. *)
CloseOrphan(c) ==
  /\ pc[c] = "orphan"
  /\ IF index[eid[c]] = None THEN UNCHANGED row ELSE ConsumeApproval(index[eid[c]])
  /\ Goto(c, "idle")
  /\ UNCHANGED <<exec, bound, verdict, push, stopped, cache, waiting, index, eid, gate, appr,
                 got, needed, history>>

----------------------------------------------------------------------------
(* The WebSocket thread: _handle_approval_resolved *)

(* Pop the entry, if there is one. *)
Deliver(a) ==
  /\ hand = Idle
  /\ a \in push
  /\ \/ push' = push \ {a}
     \/ "repeated" \in Env /\ UNCHANGED push
  /\ hand' = IF pending[a] = None THEN hand
             ELSE [step |-> "mark", a |-> a, who |-> pending[a]]
  /\ pending' = [pending EXCEPT ![a] = None]
  /\ UNCHANGED <<exec, row, bound, verdict, stopped, cache, event, outcome, index, pc, eid, gate,
                 appr, got, needed, history>>

(* Mutant of Mark: the index is not written. *)
MutMark ==
  /\ hand.step = "mark"
  /\ hand' = [hand EXCEPT !.step = "set"]
  /\ UNCHANGED <<backend, stopped, cache, pending, event, outcome, index, pc, eid, gate, appr,
                 got, needed, history>>

(* _mark_approval_resolved_for_execution *)
Mark ==
  /\ hand.step = "mark"
  /\ index' = [index EXCEPT ![bound[hand.a]] = hand.a]
  /\ hand' = [hand EXCEPT !.step = "set"]
  /\ UNCHANGED <<backend, stopped, cache, pending, event, outcome, pc, eid, gate, appr,
                 got, needed, history>>

(* event.set() *)
SetEvent ==
  /\ hand.step = "set"
  /\ event' = IF hand.who = None THEN event ELSE [event EXCEPT ![hand.who] = TRUE]
  /\ hand' = [hand EXCEPT !.step = "stash"]
  /\ UNCHANGED <<backend, stopped, cache, pending, outcome, index, pc, eid, gate, appr,
                 got, needed, history>>

(* The outcome is put into the entry only now. *)
Stash ==
  /\ hand.step = "stash"
  /\ outcome' = IF hand.who = None THEN outcome
                ELSE [outcome EXCEPT ![hand.who] = verdict[hand.a]]
  /\ hand' = Idle
  /\ UNCHANGED <<backend, stopped, cache, pending, event, index, pc, eid, gate, appr,
                 got, needed, history>>

----------------------------------------------------------------------------
(* The backend, the operator and the control plane *)

(* The row leaves PENDING, and a push says so. *)
Resolve(a) ==
  /\ row[a] = "PENDING"
  /\ \E v \in Outcomes :
       /\ v = "expired" => "sweep" \in Env
       /\ row' = [row EXCEPT ![a] = CASE v = "approved" -> "APPROVED"
                                      [] v = "denied"   -> "DENIED"
                                      [] v = "expired"  -> "EXPIRED"]
       /\ verdict' = [verdict EXCEPT ![a] = v]
  /\ push' = push \cup {a}
  /\ UNCHANGED <<exec, bound, stopped, cache, waiting, index, pc, eid, gate, appr, got, needed,
                 history>>

(* approval_expiry_sweeper closes a stale grant. *)
SweepGrant(a) ==
  /\ "sweep" \in Env
  /\ row[a] = "APPROVED"
  /\ row' = [row EXCEPT ![a] = "EXPIRED"]
  /\ UNCHANGED <<exec, bound, verdict, push, stopped, cache, waiting, index, pc, eid, gate, appr,
                 got, needed, history>>

LosePush(a) ==
  /\ "lost" \in Env
  /\ a \in push
  /\ push' = push \ {a}
  /\ UNCHANGED <<exec, row, bound, verdict, stopped, cache, waiting, index, pc, eid, gate, appr,
                 got, needed, history>>

(* The cost event of a completed call reaches /track. *)
Settle(x) ==
  /\ x \in completed /\ exec[x] = "open"
  /\ exec' = [exec EXCEPT ![x] = "settled"]
  /\ UNCHANGED <<row, bound, verdict, push, stopped, cache, waiting, index, pc, eid, gate, appr,
                 got, needed, history>>

(* A state change from the control plane is applied to _remote_states.     *)
Control ==
  /\ "kill" \in Env
  /\ stopped' = ~stopped
  /\ UNCHANGED <<backend, cache, waiting, index, pc, eid, gate, appr, got, needed, history>>

(* The entry's TTL passes, the chain ends or runs out of budget. *)
CacheExpires ==
  /\ cache # NoAnswer
  /\ cache' = NoAnswer
  /\ UNCHANGED <<backend, stopped, waiting, index, pc, eid, gate, appr, got, needed, history>>

----------------------------------------------------------------------------

Init ==
  /\ exec = [x \in Execs |-> "unused"]
  /\ row = [a \in Approvals |-> "unused"]
  /\ bound = [a \in Approvals |-> None]
  /\ verdict = [a \in Approvals |-> "none"]
  /\ push = {} /\ stopped = FALSE /\ cache = NoAnswer /\ hand = Idle
  /\ pending = [a \in Approvals |-> None]
  /\ index = [x \in Execs |-> None]
  /\ pc = [c \in Callers |-> "idle"]
  /\ eid = [c \in Callers |-> None]
  /\ gate = [c \in Callers |-> "budget"]
  /\ appr = [c \in Callers |-> None]
  /\ event = [c \in Callers |-> FALSE]
  /\ outcome = [c \in Callers |-> "none"]
  /\ got = [c \in Callers |-> "none"]
  /\ needed = [c \in Callers |-> {}]
  /\ completed = {} /\ woken = {} /\ calls = 0

(* The rest of a call that has begun *)
BudgetGate(c) == LookUp(c) \/ BudgetAnswer(c) \/ BudgetUnreachable(c) \/ BudgetError(c)
ToolGate(c)   == ToolAllow(c) \/ ToolBlock(c) \/ ToolApproval(c) \/ ToolError(c)
                 \/ ToolUnreachable(c)
Await(c)      == Register(c) \/ Wake(c) \/ TimeOut(c) \/ Unregister(c)
Outcome(c)    == Refused(c) \/ BudgetApproved(c) \/ Unindex(c) \/ ReCheck(c)
Body(c)       == BodyReturns(c) \/ BodyRaises(c) \/ Cancel(c) \/ CloseOrphan(c)
Step(c)       == BudgetGate(c) \/ ToolGate(c) \/ Await(c) \/ Outcome(c) \/ Body(c)

Handler == Mark \/ SetEvent \/ Stash

Next ==
  \/ \E c \in Callers : Call(c) \/ CallUnscoped(c) \/ Step(c)
  \/ \E a \in Approvals : Deliver(a) \/ Resolve(a) \/ SweepGrant(a) \/ LosePush(a)
  \/ \E x \in Execs : Settle(x)
  \/ Handler \/ Control \/ CacheExpires

Spec == Init /\ [][Next]_vars

(* A thread inside a call runs on, its requests have timeouts, and so does *)
(* its wait; bodies are assumed to end.  Nothing is assumed of the         *)
(* operator, the pushes or the WebSocket thread.                           *)
Fairness == \A c \in Callers : WF_vars(Step(c))

FairSpec == Spec /\ Fairness

----------------------------------------------------------------------------

Places == {"idle", "budget", "asking", "tool", "register", "wait", "timedOut", "resolved",
           "unindex", "body", "raise", "orphan"}

TypeOK ==
  /\ exec \in [Execs -> {"unused", "open", "settled", "cancelled"}]
  /\ row \in [Approvals -> {"unused", "PENDING", "APPROVED", "DENIED", "EXPIRED", "CONSUMED"}]
  /\ bound \in [Approvals -> Execs \cup {None}]
  /\ verdict \in [Approvals -> Outcomes \cup {"none"}]
  /\ push \subseteq Approvals
  /\ stopped \in BOOLEAN
  /\ cache \in [decision : Decisions \cup {"none", "fallback"}, exec : Execs \cup {None},
                appr : Approvals \cup {None}]
  /\ pending \in [Approvals -> Callers \cup {None}]
  /\ index \in [Execs -> Approvals \cup {None}]
  /\ hand \in [step : {"idle", "mark", "set", "stash"}, a : Approvals \cup {None},
               who : Callers \cup {None}]
  /\ pc \in [Callers -> Places]
  /\ eid \in [Callers -> Execs \cup {None}]
  /\ gate \in [Callers -> {"budget", "tool"}]
  /\ appr \in [Callers -> Approvals \cup {None}]
  /\ event \in [Callers -> BOOLEAN]
  /\ outcome \in [Callers -> Outcomes \cup {"none"}]
  /\ got \in [Callers -> Outcomes \cup {"none", "timeout"}]
  /\ needed \in [Callers -> SUBSET Approvals]
  /\ completed \subseteq Execs /\ woken \subseteq Approvals
  /\ calls \in Nat

(* A body only runs when the operator has approved every approval that a   *)
(* gate asked for in this call: no timeout, lost, repeated or mixed-up     *)
(* push, shared answer or unreachable backend stands in for a grant.       *)
RunsOnlyApproved == \A c \in Callers : pc[c] = "body" => needed[c] \subseteq Granted

(* A grant that woke its waiter is not left APPROVED when the call is      *)
(* over: it was consumed on the success path or the exception path found   *)
(* it in the reverse index.                                                *)
GrantClosed ==
  \A a \in woken \cap Granted :
    row[a] = "APPROVED" => \E c \in Callers : appr[c] = a /\ pc[c] # "idle"

(* While a body runs, the reservation it will be charged to is open. *)
RunsOnOpenReservation ==
  \A c \in Callers : pc[c] = "body" /\ eid[c] # None => exec[eid[c]] = "open"

(* The reservation of a call whose body completed is not cancelled: its    *)
(* cost still has to be charged to it.                                     *)
CompletedNeverCancelled == \A x \in completed : exec[x] # "cancelled"

(* Every protected call returns or raises. *)
CallEnds == \A c \in Callers : pc[c] # "idle" ~> pc[c] = "idle"

=============================================================================
