-------------------------- MODULE GateRequestProofs --------------------------
(***************************************************************************)
(* A refusal is final, an outage fails closed, only denials reach the      *)
(* model, a call keeps one operation id and a request keeps to its budget  *)
(* of attempts, for every set of wire codes, answers and configurations,   *)
(* and any number of retries and calls.                                    *)
(***************************************************************************)
EXTENDS GateRequest, TLAPS

Endpoints == {"gate", "execute"}
Meanings  == {"none", "fault", "refuse", "unread", "ask", "pass"}

Shapes ==
  /\ ep \in Endpoints
  /\ said \in [Endpoints -> Meanings]
  /\ answer \in Response
  /\ lastSource \in {"none", "edge_lease"}
  /\ mode \in {"protect", "none", "raise", "open", "closed"}

(* What was said so far: nothing before a gate is asked, and no refusal of *)
(* /gate once the call has come to /execute.                               *)
Unasked ==
  /\ ep = "gate" \/ pc \in {"idle", "tool"} => said["execute"] = "none"
  /\ pc \in {"idle", "budget"} => said["gate"] = "none"
  /\ pc \in {"budget", "edge"} => ep = "gate"
  /\ ep = "execute" \/ pc = "tool" => said["gate"] # "refuse"

(* What /gate said is kept in the answer, or was no refusal.               *)
GateRead ==
  ep = "gate" =>
    /\ pc = "answered" => said["gate"] = GateMeaning(answer)
    /\ pc \in {"wait", "gaveUp"} =>
         said["gate"] = IF answer.status >= 500 THEN GateMeaning(answer) ELSE "fault"
    /\ pc = "decide" /\ said["gate"] = "refuse" =>
         ~GateDecision(answer) \/ (~IsFallback(answer.source) /\ answer.decision \in {"block", "deny"})

(* Whoever calls execute directly asked to run in an outage.               *)
Waived == mode # "protect" => mode = "open" \/ conf.permissive

(* An answer of /execute, a block the SDK made up, or an allow it made up, *)
(* for which nobody had refused in a way the SDK understands               *)
ExecuteVerdict ==
  \/ said["execute"] = ExecuteMeaning(answer) /\ answer.status = 200 /\ answer.form = "object"
  \/ answer.decision = "block" /\ BlockCode(answer) = NoCode
  \/ /\ said["execute"] # "refuse" /\ answer.decision = "allow"
     /\ ~conf.edge => IsFallback(answer.source)
     /\ said["execute"] = "unread" => IsFallback(answer.source) /\ Waived

ExecuteRead ==
  ep = "execute" =>
    /\ pc = "answered" => said["execute"] = ExecuteMeaning(answer) /\ answer.status # 401
    /\ pc \in {"wait", "gaveUp"} => said["execute"] \in {"fault", "unread"}
    /\ pc = "decide" => ExecuteVerdict

(* The tool gate only sees /execute.                                       *)
ToolGate ==
  /\ pc \in {"failed", "passed", "body"} => ep = "execute"
  /\ pc = "failed" /\ err \in Unavailable => said["execute"] # "refuse"
  /\ pc = "passed" =>
       /\ said["execute"] # "refuse"
       /\ said["execute"] = "unread" => IsFallback(answer.source) /\ Waived
       /\ ~conf.edge => said["execute"] = "pass" \/ IsFallback(answer.source)

GateInv ==
  Shapes /\ Unasked /\ GateRead /\ ExecuteRead /\ ToolGate /\ RefusalIsFinal /\ FailClosed

----------------------------------------------------------------------------
(* The catalogue has no classes but those of the SDK.                      *)
LEMMA ClassTyped == \A code \in Catalogued : Class[code] \notin Untyped
<1>1. ASSUME NEW table, NEW code \in Listed(table)
      PROVE  ClassIn(table, code) \in DOMAIN table
  BY <1>1 DEF Listed, ClassIn
<1>2. /\ DOMAIN ContractCodes \cap Untyped = {}
      /\ DOMAIN GateCodes \cap Untyped = {}
      /\ DOMAIN LaterCodes \cap Untyped = {}
  BY DEF ContractCodes, GateCodes, LaterCodes, Untyped
<1> QED
  BY <1>1, <1>2 DEF Class, Catalogued

(* To have no code is not a code of the catalogue.                         *)
LEMMA NoCodeUnlisted == NoCode \notin Catalogued
<1>1. \A k \in DOMAIN ContractCodes : NoCode \notin ContractCodes[k]
  BY DEF NoCode, ContractCodes
<1>2. \A k \in DOMAIN GateCodes : NoCode \notin GateCodes[k]
  BY DEF NoCode, GateCodes
<1>3. \A k \in DOMAIN LaterCodes : NoCode \notin LaterCodes[k]
  BY DEF NoCode, LaterCodes
<1> QED
  BY <1>1, <1>2, <1>3 DEF Catalogued, Listed

(* A block without a code is raised as one.                                *)
LEMMA BareBlock ==
  ASSUME ep = "execute", NEW r, BlockCode(r) = NoCode, NEW class \in BlockErrors(r)
  PROVE  class \notin Unavailable
<1>1. "NullRunBlockedException" \notin Unavailable
  BY DEF Unavailable, Transport, Untyped
<1> QED
  BY <1>1, NoCodeUnlisted DEF BlockErrors, BlockError

LEMMA NoAnswerShape == NoAnswer \in Response /\ NoAnswer.status = 200
BY DEF NoAnswer, Response, Statuses, Categories, Places, NoCode

(* Answers the SDK makes up are answers.                                   *)
LEMMA VerdictShape ==
  ASSUME NEW d \in {"allow", "block"}, NEW s \in {"fallback", "network_error", "edge_lease"}
  PROVE  /\ Verdict(d, s) \in Response
         /\ Verdict(d, s).decision = d /\ Verdict(d, s).source = s
         /\ Verdict(d, s).status = 200 /\ BlockCode(Verdict(d, s)) = NoCode
<1>1. [NoAnswer EXCEPT !.decision = d] =
        [status |-> 200, form |-> "object", decision |-> d, source |-> "none",
         category |-> "none", place |-> "nowhere", code |-> NoCode, wait |-> "none"]
  BY DEF NoAnswer
<1>2. [[status |-> 200, form |-> "object", decision |-> d, source |-> "none",
        category |-> "none", place |-> "nowhere", code |-> NoCode, wait |-> "none"]
         EXCEPT !.source = s] =
        [status |-> 200, form |-> "object", decision |-> d, source |-> s,
         category |-> "none", place |-> "nowhere", code |-> NoCode, wait |-> "none"]
  OBVIOUS
<1>3. Verdict(d, s) =
        [status |-> 200, form |-> "object", decision |-> d, source |-> s,
         category |-> "none", place |-> "nowhere", code |-> NoCode, wait |-> "none"]
  BY <1>1, <1>2, Zenon DEF Verdict
<1> QED
  BY <1>3 DEF Response, Statuses, Categories, Places, BlockCode

----------------------------------------------------------------------------
(* The call begins: nothing was said in it yet.                            *)
LEMMA BeginKeeps ==
  ASSUME GateInv, Call \/ CallExecute \/ SkipBudget \/ Unscoped \/ AskGate
  PROVE  GateInv'
<1> USE NoAnswerShape
    DEF GateInv, Shapes, Unasked, GateRead, ExecuteRead, ToolGate, RefusalIsFinal, FailClosed,
        Endpoints, Meanings, GoTo, Throw, Ask, NewOperation, call
<1>1. CASE Call
  BY <1>1 DEF Call
<1>2. CASE CallExecute
  BY <1>2 DEF CallExecute
<1>3. CASE SkipBudget
  BY <1>3 DEF SkipBudget
<1>4. CASE Unscoped
  BY <1>4 DEF Unscoped
<1>5. CASE AskGate
  BY <1>5 DEF AskGate
<1> QED
  BY <1>1, <1>2, <1>3, <1>4, <1>5

(* The edge box speaks for /gate.                                          *)
LEMMA EdgeKeeps ==
  ASSUME GateInv, EdgeAnswers \/ EdgeRetry \/ EdgeUnreachable
  PROVE  GateInv'
<1> USE DEF GateInv, Shapes, Unasked, GateRead, ExecuteRead, ToolGate, RefusalIsFinal, FailClosed,
        Endpoints, Meanings, GoTo, Tell, Decide, IsFallback, call
<1>1. CASE EdgeAnswers
  BY <1>1, VerdictShape DEF EdgeAnswers
<1>2. CASE EdgeRetry
  BY <1>2 DEF EdgeRetry
<1>3. CASE EdgeUnreachable
  BY <1>3, VerdictShape DEF EdgeUnreachable
<1> QED
  BY <1>1, <1>2, <1>3

(* A server error is no decision of /execute that the SDK would see, and a *)
(* redirection is none at all.                                             *)
LEMMA MeaningShape ==
  ASSUME NEW r \in Response
  PROVE  /\ GateMeaning(r) \in Meanings /\ ExecuteMeaning(r) \in Meanings
         /\ r.status >= 500 => ExecuteMeaning(r) \in {"fault", "unread"}
         /\ r.status \in 300..399 => ExecuteMeaning(r) = "fault"
<1>1. r.status \in Nat /\ (r.status >= 500 => r.status \notin 300..399)
  BY DEF Response, Statuses
<1>2. GateMeaning(r) \in Meanings
  BY <1>1 DEF GateMeaning, Meanings
<1>3. ExecuteMeaning(r) \in Meanings
  BY <1>1 DEF ExecuteMeaning, Meanings
<1>4. ASSUME r.status >= 500 PROVE ExecuteMeaning(r) \in {"fault", "unread"}
  BY <1>1, <1>4 DEF ExecuteMeaning, Overlooked
<1>5. ASSUME r.status \in 300..399 PROVE ExecuteMeaning(r) = "fault"
  BY <1>1, <1>5 DEF ExecuteMeaning, ExecuteRefuses
<1> QED
  BY <1>2, <1>3, <1>4, <1>5

(* The attempts on the wire                                                *)
LEMMA WireKeeps ==
  ASSUME GateInv, Attempt \/ AttemptFails \/ Wait \/ GateGivesUp \/ ExecuteGivesUp \/ Stop
  PROVE  GateInv'
<1>0. ASSUME Attempt
      PROVE  \E r \in Response :
               /\ answer' = r
               /\ said' = [said EXCEPT ![ep] = Meaning(r)]
               /\ \/ r.status = 401 /\ Throw("NullRunAuthError")
                  \/ r.status >= 500 /\ Handler = "raise" /\ Throw("NullRunBackendError")
                  \/ r.status >= 500 /\ pc' \in {"gaveUp", "wait"}
                  \/ r.status >= 500 /\ RetryOn5xx /\ pc' = "answered"
                  \/ r.status < 500 /\ r.status # 401 /\ pc' = "answered"
  <2>1. PICK r \in IF ep = "gate" THEN GateSent ELSE ExecuteSent :
          /\ answer' = r
          /\ Tell(Meaning(r))
          /\ \/ r.status = 401 /\ Throw("NullRunAuthError")
             \/ r.status >= 500 /\ Handler = "raise" /\ Throw("NullRunBackendError")
             \/ /\ r.status >= 500 /\ Handler # "raise" /\ (RetryOn5xx => attempt < MaxRetries)
                /\ GoTo(IF attempt >= MaxRetries \/ Deferred(r) THEN "gaveUp" ELSE "wait")
             \/ r.status >= 500 /\ RetryOn5xx /\ attempt >= MaxRetries /\ GoTo("answered")
             \/ r.status < 500 /\ r.status # 401 /\ GoTo("answered")
    BY <1>0, Zenon DEF Attempt
  <2>2. r \in Response
    BY SentKnown
  <2>3. GoTo(IF attempt >= MaxRetries \/ Deferred(r) THEN "gaveUp" ELSE "wait") => pc' \in {"gaveUp", "wait"}
    BY DEF GoTo
  <2>4. GoTo("answered") => pc' = "answered"
    BY DEF GoTo
  <2>5. said' = [said EXCEPT ![ep] = Meaning(r)]
    BY <2>1 DEF Tell
  <2> QED
    BY <2>1, <2>2, <2>3, <2>4, <2>5, ZenonT(60)
<1> USE DEF GateInv, Shapes, Unasked, GateRead, ExecuteRead, ToolGate, RefusalIsFinal, FailClosed,
        Endpoints, GoTo, Tell, Decide, IsFallback, call
<1>1. CASE Attempt
  <2>1. PICK r \in Response :
          /\ answer' = r
          /\ said' = [said EXCEPT ![ep] = Meaning(r)]
          /\ \/ r.status = 401 /\ Throw("NullRunAuthError")
             \/ r.status >= 500 /\ Handler = "raise" /\ Throw("NullRunBackendError")
             \/ r.status >= 500 /\ pc' \in {"gaveUp", "wait"}
             \/ r.status >= 500 /\ RetryOn5xx /\ pc' = "answered"
             \/ r.status < 500 /\ r.status # 401 /\ pc' = "answered"
    BY <1>0, <1>1
  <2>2. pc = "attempt" /\ UNCHANGED <<conf, lastSource, ep, mode>>
    BY <1>1 DEF Attempt
  <2>3. CASE ep = "gate"
    BY <2>1, <2>2, <2>3, MeaningShape DEF Meaning, Throw, RetryOn5xx, Handler, Meanings
  <2>4. CASE ep = "execute"
    <3>1. "NullRunAuthError" \notin Unavailable
      BY DEF Unavailable, Transport, Untyped
    <3> QED
      BY <2>1, <2>2, <2>4, <3>1, MeaningShape DEF Meaning, Throw, RetryOn5xx, Handler, Meanings
  <2> QED
    BY <2>3, <2>4
<1>2. CASE AttemptFails
  BY <1>2, NoAnswerShape DEF AttemptFails, Meanings
<1>3. CASE Wait
  BY <1>3 DEF Wait
<1>4. CASE GateGivesUp
  BY <1>4, VerdictShape DEF GateGivesUp
<1>5. CASE ExecuteGivesUp
  <2>1. \/ pc' = "failed" /\ UNCHANGED answer
        \/ /\ pc' = "decide"
           /\ \E d \in {"allow", "block"}, s \in {"fallback", "network_error"} :
                answer' = Verdict(d, s) /\ (d = "allow" => Waived)
    <3>1. Handler \in {"raise", "open", "closed", "none"}
      BY DEF Handler
    <3>2. CASE Handler = "raise"
      <4>1. Throw("NullRunTransportError") /\ UNCHANGED answer /\ ep = "execute"
        BY <1>5, <3>2 DEF ExecuteGivesUp
      <4> QED
        BY <4>1 DEF Throw
    <3>3. CASE Handler = "open"
      <4>1. Waived
        BY <3>3 DEF Handler, Waived
      <4> QED
        BY <1>5, <3>3, <4>1 DEF ExecuteGivesUp
    <3>4. CASE Handler = "none"
      <4>1. pc' = "decide" /\ answer' = FallbackDecision
        BY <1>5, <3>4 DEF ExecuteGivesUp
      <4>2. ep = "execute"
        BY <1>5 DEF ExecuteGivesUp
      <4>3. mode # "protect"
        BY <3>4, <4>2 DEF Handler
      <4> QED
        <5>1. CASE conf.permissive
          <6>1. answer' = Verdict("allow", "fallback") /\ Waived
            BY <4>1, <4>3, <5>1 DEF FallbackDecision, Waived
          <6> QED
            BY <4>1, <6>1
        <5>2. CASE ~conf.permissive
          <6>1. answer' = Verdict("block", "fallback")
            BY <4>1, <5>2 DEF FallbackDecision
          <6> QED
            BY <4>1, <6>1
        <5> QED
          BY <5>1, <5>2
    <3>5. CASE Handler = "closed"
      <4>1. pc' = "decide" /\ answer' = Verdict("block", "network_error")
        BY <1>5, <3>5 DEF ExecuteGivesUp
      <4> QED
        BY <4>1
    <3> QED
      BY <3>1, <3>2, <3>3, <3>4, <3>5
  <2>2. pc = "gaveUp" /\ ep = "execute" /\ UNCHANGED <<conf, lastSource, ep, mode, said>>
    BY <1>5 DEF ExecuteGivesUp
  <2>3. CASE pc' = "failed" /\ UNCHANGED answer
    BY <2>2, <2>3
  <2>4. ASSUME NEW d \in {"allow", "block"}, NEW s \in {"fallback", "network_error"},
               pc' = "decide", answer' = Verdict(d, s), d = "allow" => Waived
        PROVE  GateInv'
    BY <2>2, <2>4, VerdictShape DEF ExecuteVerdict, Waived
  <2> QED
    BY <2>1, <2>3, <2>4
<1>6. CASE Stop
  BY <1>6 DEF Stop, ExecuteVerdict, Waived, OptedOut, FailOpen
<1> QED
  BY <1>1, <1>2, <1>3, <1>4, <1>5, <1>6

(* A refusal of /gate as Transport.check hands it on                       *)
LEMMA RefusedShape ==
  ASSUME NEW r \in Response
  PROVE  /\ [r EXCEPT !.decision = "block", !.source = "gateway"] \in Response
         /\ [r EXCEPT !.decision = "block", !.source = "gateway"].decision = "block"
         /\ [r EXCEPT !.decision = "block", !.source = "gateway"].source = "gateway"
<1> DEFINE q == [r EXCEPT !.decision = "block"]
           p == [q EXCEPT !.source = "gateway"]
<1>1. q \in Response /\ q.decision = "block"
  BY DEF Response
<1>2. p = [r EXCEPT !.decision = "block", !.source = "gateway"]
  BY Zenon
<1> HIDE DEF q
<1>3. p \in Response /\ p.decision = "block" /\ p.source = "gateway"
  BY <1>1 DEF Response
<1> HIDE DEF p
<1> QED
  BY <1>2, <1>3, Zenon

(* What Transport.check makes of /gate's answer                            *)
LEMMA CheckKeeps ==
  ASSUME GateInv, GateAnswered
  PROVE  GateInv'
<1> DEFINE refused == [answer EXCEPT !.decision = "block", !.source = "gateway"]
<1>1. /\ pc = "answered" /\ ep = "gate" /\ said["gate"] = GateMeaning(answer)
      /\ answer \in Response
      /\ UNCHANGED <<conf, lastSource, ep, mode, said>>
  BY DEF GateAnswered, GateInv, GateRead, Shapes, call
<1>2. \A class : Throw(class) => pc' = "raised"
  BY <1>1 DEF Throw
<1>3. \A v : Decide(v) => pc' = "decide" /\ answer' = v
  BY DEF Decide, GoTo
<1>4. \/ pc' = "raised" /\ answer' = answer
      \/ pc' = "decide" /\ answer' = answer /\ answer.status = 200
      \/ pc' = "decide" /\ answer' = Verdict("block", "fallback") /\ answer.form = "list" /\ GateRefused(answer)
      \/ pc' = "decide" /\ answer' = Verdict("block", "fallback") /\ ~GateRefused(answer) /\ answer.status # 200
      \/ pc' = "decide" /\ answer' = refused
  <2>1. CASE /\ answer.status = 200
             /\ IF answer.form = "text" THEN Throw("NullRunMalformedGateResponseError") /\ UNCHANGED answer
                ELSE Decide(answer)
    BY <1>2, <1>3, <2>1
  <2>2. CASE /\ GateRefused(answer) /\ answer.form = "list"
             /\ IF chained THEN Throw("AttributeError") /\ UNCHANGED answer
                ELSE Decide(Verdict("block", "fallback"))
    BY <1>2, <1>3, <2>2
  <2>3. CASE /\ GateRefused(answer) /\ answer.form # "list"
             /\ IF answer.decision = "block" /\ Unclassified(answer.category)
                THEN Throw("NullRunUnclassifiedRefusalError") /\ UNCHANGED answer
                ELSE Decide(refused)
    <3> HIDE DEF refused
    <3> QED
      BY <1>2, <1>3, <2>3
  <2>4. CASE ~GateRefused(answer) /\ answer.status # 200 /\ Decide(Verdict("block", "fallback"))
    BY <1>2, <1>3, <2>4
  <2> QED
    BY <2>1, <2>2, <2>3, <2>4, Zenon DEF GateAnswered
<1>5. answer.status # 200 \/ ~GateRefused(answer)
  BY DEF GateRefused
<1>6. refused \in Response /\ refused.decision = "block" /\ refused.source = "gateway"
  BY <1>1, RefusedShape, Zenon
<1> HIDE DEF refused
<1> USE DEF GateInv, Shapes, Unasked, GateRead, ExecuteRead, ToolGate, RefusalIsFinal, FailClosed,
        Endpoints, Meanings
<1>7. CASE pc' = "raised" /\ answer' = answer
  BY <1>1, <1>7
<1>8. CASE pc' = "decide" /\ answer' = answer /\ answer.status = 200
  <2>1. GateMeaning(answer) = "refuse" => answer.decision \in {"block", "deny"} /\ answer.source = "gateway"
    BY <1>1, <1>8 DEF GateMeaning
  <2> QED
    BY <1>1, <1>8, <2>1 DEF IsFallback
<1>9. CASE /\ pc' = "decide" /\ answer' = Verdict("block", "fallback")
           /\ \/ answer.form = "list" /\ GateRefused(answer)
              \/ ~GateRefused(answer) /\ answer.status # 200
  <2>1. GateMeaning(answer) # "refuse"
    BY <1>5, <1>9 DEF GateMeaning, GateRefused
  <2> QED
    BY <1>1, <1>9, <2>1, VerdictShape
<1>10. CASE pc' = "decide" /\ answer' = refused
  BY <1>1, <1>6, <1>10 DEF IsFallback
<1> QED
  BY <1>4, <1>7, <1>8, <1>9, <1>10

(* What check_workflow_budget makes of it                                  *)
LEMMA BudgetKeeps ==
  ASSUME GateInv, BudgetDecision
  PROVE  GateInv'
<1>1. /\ pc = "decide" /\ ep = "gate"
      /\ UNCHANGED <<conf, lastSource, ep, mode, answer, said>>
  BY DEF BudgetDecision, call
<1>2. \A class : Throw(class) => pc' = "raised"
  BY <1>1 DEF Throw
<1>3. pc' = "raised" \/ (pc' = "tool" /\ said["gate"] # "refuse")
  <2>1. CASE ~GateDecision(answer)
    BY <1>2, <2>1, Zenon DEF BudgetDecision
  <2>2. CASE GateDecision(answer) /\ IsFallback(answer.source)
    BY <1>1, <2>2 DEF BudgetDecision, GoTo, GateInv, GateRead
  <2>3. CASE GateDecision(answer) /\ ~IsFallback(answer.source) /\ answer.decision = "block"
    <3>1. BudgetBlocks(answer)
      BY <2>3 DEF BudgetDecision, BudgetActs
    <3> QED
      BY <1>2, <3>1 DEF BudgetBlocks
  <2>4. CASE GateDecision(answer) /\ ~IsFallback(answer.source) /\ answer.decision = "deny"
    BY <1>2, <2>4 DEF BudgetDecision, BudgetActs
  <2>5. CASE GateDecision(answer) /\ ~IsFallback(answer.source) /\ answer.decision \notin {"block", "deny"}
    <3>1. said["gate"] # "refuse"
      BY <1>1, <2>5 DEF GateInv, GateRead
    <3>2. BudgetApproval \/ GoTo("tool")
      BY <2>5 DEF BudgetDecision, BudgetActs
    <3> QED
      BY <1>2, <3>1, <3>2 DEF BudgetApproval, GoTo
  <2> QED
    BY <2>1, <2>2, <2>3, <2>4, <2>5
<1> QED
  BY <1>1, <1>3
     DEF GateInv, Shapes, Unasked, GateRead, ExecuteRead, ToolGate, RefusalIsFinal, FailClosed, Endpoints, Meanings

(* /execute is asked, or an edge box has decided for it.                   *)
LEMMA AskKeeps ==
  ASSUME GateInv, AskExecute
  PROVE  GateInv'
<1> USE DEF GateInv, Shapes, Unasked, GateRead, ExecuteRead, ToolGate, RefusalIsFinal, FailClosed,
        Endpoints, Meanings, GoTo, Decide, Ask
<1>1. (IF lastSource = "none" THEN "edge_lease" ELSE lastSource) = "edge_lease"
  OBVIOUS
<1> QED
  BY <1>1, NoAnswerShape, VerdictShape DEF AskExecute, ExecuteVerdict

(* What Transport.execute makes of an answer                               *)
LEMMA AnsweredKeeps ==
  ASSUME GateInv, ExecuteAnswered
  PROVE  GateInv'
<1> USE DEF GateInv, Shapes, Unasked, GateRead, ExecuteRead, ToolGate, RefusalIsFinal, FailClosed,
        Endpoints, Meanings
<1>1. /\ pc = "answered" /\ ep = "execute"
      /\ said["execute"] = ExecuteMeaning(answer) /\ answer.status # 401
      /\ UNCHANGED <<conf, lastSource, ep, mode, said>>
  BY DEF ExecuteAnswered, call
<1>2. CASE answer.status = 200 /\ answer.form = "object" /\ Decide([answer EXCEPT !.source = "gateway"])
  <2>1. /\ answer' \in Response /\ answer'.status = 200 /\ answer'.form = "object"
        /\ answer'.decision = answer.decision /\ answer'.place = answer.place /\ answer'.code = answer.code
    BY <1>2 DEF Decide, Response
  <2>2. ExecuteMeaning(answer') = ExecuteMeaning(answer)
    BY <1>2, <2>1 DEF ExecuteMeaning, ExecuteRefuses, Overlooked, BlockCode
  <2> QED
    BY <1>1, <1>2, <2>1, <2>2 DEF Decide, GoTo, ExecuteVerdict
<1>3. CASE /\ answer.status = 200 /\ answer.form # "object"
           /\ (Throw("TypeError") \/ Throw("ValueError")) /\ UNCHANGED answer
  BY <1>1, <1>3 DEF Throw, ExecuteMeaning
<1>4. CASE answer.status >= 400 /\ ThrowParsed(answer)
  <2> DEFINE code  == WireCode(answer.place, answer.code)
             class == Parsed(answer.status, code)
  <2>1. CASE class = "TypeError"
    BY <1>1, <1>4, <2>1, VerdictShape DEF ThrowParsed, Decide, GoTo, ExecuteVerdict
  <2>2. CASE class # "TypeError"
    <3>1. ExecuteMeaning(answer) = "refuse" => ~Overlooked(answer)
      BY <1>4 DEF ExecuteMeaning
    <3>2. ExecuteMeaning(answer) = "refuse" => class \notin Unavailable
      <4>1. answer.status \in Statuses /\ answer.status # 401
        BY <1>1 DEF Response
      <4>2. answer.status >= 500 \/ answer.status \in 400..499 \ {401}
        BY <1>4, <4>1 DEF Statuses
      <4> QED
        BY <2>2, <3>1, <4>2 DEF Overlooked
    <3>3. "NullRunDeniedError" \notin Unavailable
      BY DEF Unavailable, Transport, Untyped
    <3>4. /\ pc' = "failed" /\ UNCHANGED answer
          /\ err' = class \/ err' = "NullRunDeniedError"
      BY <1>1, <1>4, <2>2 DEF ThrowParsed, Throw
    <3> HIDE DEF class, code
    <3> QED
      BY <1>1, <3>2, <3>3, <3>4
  <2> QED
    BY <2>1, <2>2
<1>5. CASE answer.status \in 300..399 /\ Decide(FallbackDecision)
  <2>1. PICK d \in {"allow", "block"} : answer' = Verdict(d, "fallback") /\ pc' = "decide"
    BY <1>5 DEF Decide, GoTo, FallbackDecision
  <2>2. said["execute"] = "fault"
    BY <1>1, <1>5, MeaningShape
  <2> QED
    BY <1>1, <2>1, <2>2, VerdictShape DEF ExecuteVerdict, IsFallback
<1> QED
  BY <1>2, <1>3, <1>4, <1>5 DEF ExecuteAnswered

(* What runtime.execute makes of it                                        *)
LEMMA DecisionKeeps ==
  ASSUME GateInv, ExecuteDecision
  PROVE  GateInv'
<1> USE DEF GateInv, Shapes, Unasked, GateRead, ExecuteRead, ToolGate, RefusalIsFinal, FailClosed,
        Endpoints, Meanings
<1>1. /\ pc = "decide" /\ ep = "execute" /\ ExecuteVerdict
      /\ UNCHANGED <<conf, lastSource, mode, said>>
  BY DEF ExecuteDecision
<1>2. CASE ToolApproval
  <2>1. CASE Ask("execute")
    BY <1>1, <2>1, NoAnswerShape DEF Ask, GoTo
  <2>2. ASSUME NEW class \in {"NullRunApprovalReplayRejectedError", "NullRunApprovalResponseMissingError",
                              "NullRunApprovalDeniedError", "NullRunApprovalExpiredError",
                              "NullRunBlockedException"},
               Throw(class), UNCHANGED <<ep, answer>>
        PROVE  GateInv'
    <3>1. class \notin Unavailable
      BY DEF Unavailable, Transport, Untyped
    <3> QED
      BY <1>1, <2>2, <3>1 DEF Throw
  <2> QED
    BY <1>2, <2>1, <2>2 DEF ToolApproval
<1>3. ASSUME answer.decision = "block", NEW class \in BlockErrors(answer), Throw(class),
             UNCHANGED <<ep, answer>>
      PROVE  GateInv'
  <2>1. pc' = "failed" /\ err' = class
    BY <1>1, <1>3 DEF Throw
  <2>2. class \in Unavailable => said["execute"] # "refuse"
    <3>1. CASE BlockCode(answer) = NoCode
      BY <1>1, <1>3, <3>1, BareBlock
    <3>2. CASE said["execute"] = ExecuteMeaning(answer) /\ answer.status = 200
      BY <1>1, <1>3, <3>2 DEF ExecuteMeaning, Overlooked, BlockErrors
    <3> QED
      BY <1>1, <1>3, <3>1, <3>2 DEF ExecuteVerdict
  <2> QED
    BY <1>1, <1>3, <2>1, <2>2
<1>4. CASE /\ answer.decision \notin {"require_approval", "block"}
           /\ GoTo("passed") /\ UNCHANGED <<ep, answer>>
  <2>1. \/ said["execute"] = "pass"
        \/ /\ said["execute"] # "refuse" /\ (~conf.edge => IsFallback(answer.source))
           /\ said["execute"] = "unread" => IsFallback(answer.source) /\ Waived
    <3>1. CASE said["execute"] = ExecuteMeaning(answer) /\ answer.status = 200 /\ answer.form = "object"
      BY <1>4, <3>1 DEF ExecuteMeaning, ExecuteRefuses
    <3> QED
      BY <1>1, <1>4, <3>1 DEF ExecuteVerdict
  <2>2. Waived' = Waived
    BY <1>1 DEF Waived
  <2> QED
    BY <1>1, <1>4, <2>1, <2>2 DEF GoTo
<1> QED
  BY <1>2, <1>3, <1>4 DEF ExecuteDecision

(* What the tool gate makes of the outcome, and the end of the call        *)
LEMMA EndKeeps ==
  ASSUME GateInv, ToolGateFailed \/ ToolGatePassed \/ Return
  PROVE  GateInv'
<1> USE DEF GateInv, Shapes, Unasked, GateRead, ExecuteRead, ToolGate, RefusalIsFinal, FailClosed,
        Endpoints, Meanings
<1>1. CASE ToolGateFailed
  <2>1. /\ pc = "failed" /\ pc' \in {"body", "raised"}
        /\ pc' = "body" => mode = "protect" /\ err \in Unavailable /\ FailOpen
        /\ UNCHANGED <<conf, lastSource, mode, ep, answer, said>>
    BY <1>1 DEF ToolGateFailed, call
  <2>2. FailOpen' = FailOpen
    BY <2>1 DEF FailOpen
  <2> QED
    BY <2>1, <2>2 DEF OptedOut
<1>2. CASE ToolGatePassed
  <2>1. /\ pc = "passed" /\ pc' \in {"body", "raised"}
        /\ pc' = "body" /\ mode = "protect" => ~IsFallback(answer.source) \/ FailOpen
        /\ UNCHANGED <<conf, lastSource, mode, ep, answer, said>>
    BY <1>2 DEF ToolGatePassed, GoTo, call
  <2>2. FailOpen' = FailOpen
    BY <2>1 DEF FailOpen
  <2> QED
    BY <2>1, <2>2 DEF OptedOut, Waived
<1>3. CASE Return
  BY <1>3, NoAnswerShape DEF Return
<1> QED
  BY <1>1, <1>2, <1>3

----------------------------------------------------------------------------
LEMMA GateInvariant == Spec => []GateInv
<1>1. Init => GateInv
  BY NoAnswerShape
     DEF Init, GateInv, Shapes, Unasked, GateRead, ExecuteRead, ToolGate, RefusalIsFinal, FailClosed,
         Endpoints, Meanings
<1>2. GateInv /\ [Next]_vars => GateInv'
  <2>1. CASE UNCHANGED vars
    BY <2>1
       DEF vars, GateInv, Shapes, Unasked, GateRead, ExecuteRead, ToolGate, RefusalIsFinal, FailClosed,
           ExecuteVerdict, Waived, OptedOut, FailOpen
  <2> QED
    BY <2>1, BeginKeeps, EdgeKeeps, WireKeeps, CheckKeeps, BudgetKeeps, AskKeeps, AnsweredKeeps,
       DecisionKeeps, EndKeeps DEF Next, Step
<1> QED
  BY <1>1, <1>2, PTL DEF Spec

(* No body runs after a gate said no, and none after a no of /execute that *)
(* the SDK takes for an outage (a 5xx, a transport code, an exception that *)
(* cannot be built) unless the operator lets bodies run in an outage:      *)
(* Transport.check, check_workflow_budget, Transport.execute and           *)
(* _run_tool_policy_gate together, for every status, wire code and         *)
(* configuration.                                                          *)
THEOREM RefusalSafe == Spec => []RefusalIsFinal
BY GateInvariant, PTL DEF GateInv

(* Without the opt-out of sensitive_fail_open_enabled a protected body     *)
(* only runs after /execute let this very call pass.                       *)
THEOREM FailClosedSafe == Spec => []FailClosed
BY GateInvariant, PTL DEF GateInv

----------------------------------------------------------------------------
(* An exception is under way only at the end of a call, and what is handed *)
(* to the model is still in the answer then.                               *)
Erring ==
  /\ err \in Exceptions \cup {"none"}
  /\ pc \notin {"failed", "raised"} => err = "none"
  /\ OnlyDenialsReachModel

(* Requests of the current call carry its operation id; that id is made at *)
(* the budget gate, where no request of this call has been sent, so no     *)
(* protected call before it has used it.                                   *)
Modes == {"protect", "none", "raise", "open", "closed"}
Numbered ==
  /\ ops \in Nat /\ op \in 0..ops /\ calls \in 0..MaxCalls
  /\ seen \subseteq (1..ops) \X (1..calls) \X Modes
  /\ pc \in {"edge", "attempt", "wait", "gaveUp", "answered", "decide"} => op # 0
  /\ pc # "idle" => calls # 0
OwnOperation ==
  \A r \in seen :
    /\ r[2] = calls => r[1] = op /\ pc # "budget"
    /\ r[1] = op /\ r[3] = "protect" /\ mode = "protect" /\ ~conf.skip /\ pc \notin {"idle", "budget"} =>
         r[2] = calls
Operations == Numbered /\ OwnOperation /\ OneOperationPerCall

(* Attempts are counted from 0 for each request, and the box is never      *)
(* asked after a server, or a server after the box.                        *)
Counted ==
  /\ pc \in {"idle", "budget", "edge", "attempt", "wait", "gaveUp", "answered", "decide", "tool",
             "passed", "failed", "body", "raised"}
  /\ conf \in Confs /\ stopped \in BOOLEAN /\ chained \in BOOLEAN /\ granted \in BOOLEAN
  /\ attempt \in 0..(IF conf.edge THEN EdgeRetries ELSE MaxRetries)
  /\ pc \in {"idle", "budget"} => attempt = 0
  /\ pc = "wait" => attempt < MaxRetries
  /\ pc = "edge" => conf.edge
  /\ conf.edge => pc \notin {"attempt", "wait", "gaveUp", "answered"}
  /\ conf.edge /\ pc = "decide" => answer.decision # "require_approval"

(* The catalogue names classes of the hierarchy, and never the one that    *)
(* speaks to the model.                                                    *)
LEMMA ClassKnown == \A code \in Catalogued : Class[code] \in Exceptions \ {"NullRunDeniedError"}
<1>1. ASSUME NEW table, NEW code \in Listed(table)
      PROVE  ClassIn(table, code) \in DOMAIN table
  BY <1>1 DEF Listed, ClassIn
<1> DEFINE known == Exceptions \ {"NullRunDeniedError"}
<1>2. DOMAIN ContractCodes \subseteq known
  BY DEF ContractCodes, Exceptions, Decision, Blocked, PolicyBlocks, ApprovalBlocks, GrantBlocks, McpBlocks,
         OtherDecisions, Infrastructure, Transport, Authentication, Protocol, Untyped
<1>3. DOMAIN GateCodes \subseteq known
  BY DEF GateCodes, Exceptions, Decision, Blocked, PolicyBlocks, ApprovalBlocks, GrantBlocks, McpBlocks,
         OtherDecisions, Infrastructure, Transport, Authentication, Protocol, Untyped
<1>4. DOMAIN LaterCodes \subseteq known
  BY DEF LaterCodes, Exceptions, Decision, Blocked, PolicyBlocks, ApprovalBlocks, GrantBlocks, McpBlocks,
         OtherDecisions, Infrastructure, Transport, Authentication, Protocol, Untyped
<1> HIDE DEF known
<1>5. \A code \in Catalogued : Class[code] \in known
  BY <1>1, <1>2, <1>3, <1>4 DEF Class, Catalogued
<1> QED
  BY <1>5 DEF known

(* The codes that are parsed by name are in the catalogue.                 *)
LEMMA DispatchedListed == Dispatched \subseteq Catalogued
<1>1. ASSUME NEW k \in DOMAIN ContractCodes
      PROVE  ContractCodes[k] \subseteq Catalogued
  BY DEF Catalogued, Listed
<1> SUFFICES ASSUME NEW code \in Dispatched
             PROVE  \E k \in DOMAIN ContractCodes : code \in ContractCodes[k]
  BY <1>1
<1> QED
  BY DEF Dispatched, ContractCodes

LEMMA ParsedKnown ==
  ASSUME NEW status, NEW code
  PROVE  Parsed(status, code) \in Exceptions \ {"NullRunDeniedError"}
<1>1. ByStatus(status) \in Exceptions \ {"NullRunDeniedError"}
  BY DEF ByStatus, Exceptions, Infrastructure, Transport, Authentication
<1>2. "TypeError" \in Exceptions \ {"NullRunDeniedError"}
  BY DEF Exceptions, Untyped
<1> QED
  BY <1>1, <1>2, ClassKnown, DispatchedListed, Zenon DEF Parsed

LEMMA BlockKnown ==
  ASSUME NEW v, NEW class \in BlockErrors(v)
  PROVE  class \in Exceptions \ {"NullRunDeniedError"}
<1>1. {"TypeError", "NullRunBlockedException", "NullRunBudgetError"} \subseteq Exceptions \ {"NullRunDeniedError"}
  BY DEF Exceptions, Untyped, Decision, Blocked, PolicyBlocks
<1>2. BlockError(BlockCode(v)) \in Exceptions \ {"NullRunDeniedError"}
  BY <1>1, ClassKnown DEF BlockError
<1> QED
  BY <1>1, <1>2 DEF BlockErrors

(* The classes the model names                                             *)
Raised ==
  {"NullRunInfrastructureError", "NullRunAuthError", "NullRunBackendError", "NullRunTransportError",
   "NullRunMalformedGateResponseError", "NullRunUnclassifiedRefusalError", "AttributeError", "TypeError",
   "ValueError", "NullRunApprovalDeniedError", "NullRunApprovalExpiredError", "NullRunBlockedException",
   "NullRunApprovalReplayRejectedError", "NullRunApprovalResponseMissingError"}

LEMMA RaisedKnown == Raised \subseteq Exceptions \ {"NullRunDeniedError"}
BY DEF Raised, Exceptions, Decision, Blocked, PolicyBlocks, ApprovalBlocks, GrantBlocks, McpBlocks,
       OtherDecisions, Infrastructure, Transport, Authentication, Protocol, Untyped

(* The ways a step may go on: with no exception, or with one that is not   *)
(* for the model                                                           *)
LEMMA GoesOn ==
  ASSUME Erring, pc \notin {"failed", "raised"}, NEW place, place \notin {"failed", "raised"}, GoTo(place)
  PROVE  Erring'
BY DEF Erring, GoTo, OnlyDenialsReachModel

LEMMA Throws ==
  ASSUME NEW class \in Exceptions \ {"NullRunDeniedError"}, Throw(class)
  PROVE  Erring'
BY DEF Erring, Throw, OnlyDenialsReachModel

LEMMA BeginErring ==
  ASSUME Erring, \/ Call \/ CallExecute \/ SkipBudget \/ Unscoped \/ AskGate
                 \/ EdgeAnswers \/ EdgeRetry \/ EdgeUnreachable
  PROVE  Erring'
<1> USE GoesOn
<1>1. CASE Call \/ CallExecute \/ Unscoped
  BY <1>1 DEF Call, CallExecute, Unscoped
<1>2. CASE SkipBudget
  BY <1>2, Throws, RaisedKnown DEF SkipBudget, Raised
<1>3. CASE AskGate
  BY <1>3 DEF AskGate, Ask
<1>4. CASE EdgeAnswers \/ EdgeUnreachable
  BY <1>4 DEF EdgeAnswers, EdgeUnreachable, Decide
<1>5. CASE EdgeRetry
  BY <1>5 DEF EdgeRetry, Erring, OnlyDenialsReachModel
<1> QED
  BY <1>1, <1>2, <1>3, <1>4, <1>5

LEMMA WireErring ==
  ASSUME Shapes, Erring, Attempt \/ AttemptFails \/ Wait \/ GateGivesUp \/ ExecuteGivesUp
  PROVE  Erring'
<1>1. CASE Attempt
  <2>1. pc = "attempt"
    BY <1>1 DEF Attempt
  <2>2. \/ \E class \in Raised : Throw(class)
        \/ \E place \in {"gaveUp", "wait", "answered"} : GoTo(place)
    <3>1. ASSUME NEW b PROVE (IF b THEN "gaveUp" ELSE "wait") \in {"gaveUp", "wait", "answered"}
      OBVIOUS
    <3>2. {"NullRunAuthError", "NullRunBackendError"} \subseteq Raised /\ "answered" \in {"gaveUp", "wait", "answered"}
      BY DEF Raised
    <3> QED
      BY <1>1, <3>1, <3>2, ZenonT(60) DEF Attempt
  <2> QED
    BY <2>1, <2>2, GoesOn, Throws, RaisedKnown
<1>2. CASE AttemptFails
  BY <1>2, GoesOn DEF AttemptFails
<1>3. CASE Wait
  BY <1>3, GoesOn DEF Wait
<1>4. CASE GateGivesUp
  BY <1>4, GoesOn DEF GateGivesUp, Decide
<1>5. CASE ExecuteGivesUp
  <2>1. Handler \in {"raise", "open", "closed", "none"}
    BY DEF Handler, Shapes
  <2> QED
    BY <1>5, <2>1, GoesOn, Throws, RaisedKnown DEF ExecuteGivesUp, Decide, Raised
<1> QED
  BY <1>1, <1>2, <1>3, <1>4, <1>5

LEMMA GateErring ==
  ASSUME Erring, GateAnswered \/ BudgetDecision
  PROVE  Erring'
<1>0. pc \notin {"failed", "raised"} /\ UNCHANGED conf
  BY DEF GateAnswered, BudgetDecision
<1>1. \A v : Decide(v) => Erring'
  BY <1>0, GoesOn DEF Decide
<1>2. \A class \in Raised : Throw(class) => Erring'
  BY Throws, RaisedKnown
<1>3. CASE GateAnswered
  <2> DEFINE refused == [answer EXCEPT !.decision = "block", !.source = "gateway"]
  <2>1. {"NullRunMalformedGateResponseError", "AttributeError", "NullRunUnclassifiedRefusalError"} \subseteq Raised
    BY DEF Raised
  <2>2. \/ Throw("NullRunMalformedGateResponseError") \/ Decide(answer)
        \/ Throw("AttributeError") \/ Decide(Verdict("block", "fallback"))
        \/ Throw("NullRunUnclassifiedRefusalError") \/ Decide(refused)
    BY <1>3, Zenon DEF GateAnswered
  <2> HIDE DEF refused
  <2> QED
    BY <1>1, <1>2, <2>1, <2>2
<1>4. CASE BudgetDecision
  <2>1. UNCHANGED answer
    BY <1>4 DEF BudgetDecision
  <2>2. CASE BudgetBlocks(answer)
    <3>1. CASE ToldToModel(answer) /\ Throw("NullRunDeniedError")
      <4>1. "NullRunDeniedError" \in Exceptions
        BY DEF Exceptions, Decision, Blocked, PolicyBlocks
      <4> QED
        BY <1>0, <2>1, <3>1, <4>1 DEF Erring, Throw, ToldToModel, OnlyDenialsReachModel
    <3>2. CASE \E class \in BlockErrors(answer) : Throw(class)
      BY <3>2, BlockKnown, Throws
    <3> QED
      BY <2>2, <3>1, <3>2 DEF BudgetBlocks
  <2>3. CASE GoTo("tool") \/ \E class \in Raised : Throw(class)
    BY <1>0, <1>2, <2>3, GoesOn
  <2>4. BudgetBlocks(answer) \/ GoTo("tool") \/ \E class \in Raised : Throw(class)
    <3>1. {"NullRunMalformedGateResponseError", "NullRunBackendError", "NullRunApprovalDeniedError",
           "NullRunApprovalExpiredError", "NullRunBlockedException"} \subseteq Raised
      BY DEF Raised
    <3> QED
      BY <1>4, <3>1, Zenon DEF BudgetDecision, BudgetActs, BudgetApproval
  <2> QED
    BY <2>2, <2>3, <2>4
<1> QED
  BY <1>3, <1>4

LEMMA ExecuteErring ==
  ASSUME Erring, AskExecute \/ ExecuteAnswered \/ ExecuteDecision
  PROVE  Erring'
<1>0. pc \notin {"failed", "raised"} /\ UNCHANGED conf
  BY DEF AskExecute, ExecuteAnswered, ExecuteDecision
<1>1. \A v : Decide(v) => Erring'
  BY <1>0, GoesOn DEF Decide
<1>2. \A class \in Raised : Throw(class) => Erring'
  BY Throws, RaisedKnown
<1>3. \A e : Ask(e) => Erring'
  BY <1>0, GoesOn DEF Ask
<1>4. CASE AskExecute
  BY <1>1, <1>3, <1>4 DEF AskExecute
<1>5. CASE ExecuteAnswered
  <2>1. CASE ThrowParsed(answer)
    <3> DEFINE class == Parsed(answer.status, WireCode(answer.place, answer.code))
    <3>1. class \in Exceptions \ {"NullRunDeniedError"}
      BY ParsedKnown
    <3> HIDE DEF class
    <3>2. CASE Decide(Verdict("block", "fallback"))
      BY <1>1, <3>2
    <3>3. CASE Throw(class)
      BY <3>1, <3>3, Throws
    <3>4. CASE Throw("NullRunDeniedError") /\ ToldToModel(answer) /\ UNCHANGED answer
      <4>1. "NullRunDeniedError" \in Exceptions
        BY DEF Exceptions, Decision, Blocked, PolicyBlocks
      <4> QED
        BY <1>0, <3>4, <4>1 DEF Erring, Throw, ToldToModel, OnlyDenialsReachModel
    <3>5. \/ Decide(Verdict("block", "fallback"))
          \/ /\ Throw(IF class \in Blocked /\ ToldToModel(answer) /\ ~granted
                      THEN "NullRunDeniedError" ELSE class)
             /\ UNCHANGED answer
      BY <2>1, Zenon DEF ThrowParsed, class
    <3> QED
      BY <3>2, <3>3, <3>4, <3>5
  <2>2. ThrowParsed(answer) \/ (\E v : Decide(v)) \/ \E class \in Raised : Throw(class)
    <3>1. {"TypeError", "ValueError"} \subseteq Raised
      BY DEF Raised
    <3> QED
      BY <1>5, <3>1, Zenon DEF ExecuteAnswered
  <2> QED
    BY <1>1, <1>2, <2>1, <2>2
<1>6. CASE ExecuteDecision
  <2>1. CASE ToolApproval
    <3>1. (IF granted THEN {"NullRunApprovalReplayRejectedError"}
           ELSE {"NullRunApprovalResponseMissingError", "NullRunApprovalDeniedError",
                 "NullRunApprovalExpiredError", "NullRunBlockedException"}) \subseteq Raised
      BY DEF Raised
    <3>2. Ask("execute") \/ \E class \in Raised : Throw(class)
      BY <2>1, <3>1 DEF ToolApproval
    <3> QED
      BY <1>2, <1>3, <3>2
  <2>2. CASE \E class \in BlockErrors(answer) : Throw(class)
    BY <2>2, BlockKnown, Throws
  <2>3. CASE GoTo("passed")
    BY <1>0, <2>3, GoesOn
  <2> QED
    BY <1>6, <2>1, <2>2, <2>3 DEF ExecuteDecision
<1> QED
  BY <1>4, <1>5, <1>6

LEMMA EndErring ==
  ASSUME Erring, ToolGateFailed \/ ToolGatePassed \/ Return \/ Stop
  PROVE  Erring'
<1>1. CASE ToolGateFailed
  <2>1. "NullRunBlockedException" \in Exceptions
    BY DEF Exceptions, Decision, Blocked, PolicyBlocks
  <2> QED
    BY <1>1, <2>1 DEF ToolGateFailed, Erring, OnlyDenialsReachModel
<1>2. CASE ToolGatePassed
  <2>1. "NullRunBlockedException" \in Exceptions
    BY DEF Exceptions, Decision, Blocked, PolicyBlocks
  <2> QED
    BY <1>2, <2>1, GoesOn DEF ToolGatePassed, Erring, OnlyDenialsReachModel
<1>3. CASE Return
  BY <1>3 DEF Return, Erring, OnlyDenialsReachModel
<1>4. CASE Stop
  BY <1>4 DEF Stop, Erring, OnlyDenialsReachModel
<1> QED
  BY <1>1, <1>2, <1>3, <1>4

LEMMA ErringHolds == Spec => []Erring
<1>1. Init => Erring
  BY DEF Init, Erring, OnlyDenialsReachModel
<1>2. GateInv /\ Erring /\ [Next]_vars => Erring'
  <2>1. CASE UNCHANGED vars
    BY <2>1 DEF vars, Erring, OnlyDenialsReachModel
  <2> QED
    BY <2>1, BeginErring, WireErring, GateErring, ExecuteErring, EndErring DEF Next, Step, GateInv
<1> QED
  BY <1>1, <1>2, GateInvariant, PTL DEF Spec

(* Only a refusal that the backend filed under "denied" is ever handed to  *)
(* the model, and only when the application asked for that with            *)
(* on_denied = "message": the two parsers never build that class, for any  *)
(* code of the catalogue, and the answer is not replaced once the          *)
(* exception is under way.                                                 *)
THEOREM DenialSafe == Spec => []OnlyDenialsReachModel
BY ErringHolds, PTL DEF Erring

----------------------------------------------------------------------------
(* A step that sends nothing and makes no operation                        *)
LEMMA SameOperation ==
  ASSUME Operations, UNCHANGED <<op, ops, seen, calls, mode, conf>>,
         pc # "idle", pc' # "budget" \/ pc' = pc,
         pc' \in {"edge", "attempt", "wait", "gaveUp", "answered", "decide"} => op # 0,
         pc \in {"idle", "budget"} /\ pc' \notin {"idle", "budget"} => conf.skip
  PROVE  Operations'
BY DEF Operations, Numbered, OwnOperation, OneOperationPerCall

(* A request                                                               *)
LEMMA TellOperation ==
  ASSUME Shapes, Operations, UNCHANGED <<op, ops, calls, mode, conf>>,
         pc \in {"edge", "attempt"}, pc' \notin {"idle", "budget"},
         NEW meaning, Tell(meaning)
  PROVE  Operations'
<1>1. op \in 1..ops /\ calls \in 1..calls /\ mode \in Modes
  BY RetriesNat DEF Operations, Numbered, Shapes, Modes
<1>2. seen' = seen \cup {<<op, calls, mode>>}
  BY DEF Tell
<1>3. Numbered'
  BY <1>1, <1>2 DEF Operations, Numbered
<1>4. \A r \in seen' : r \in seen \/ (r[1] = op /\ r[2] = calls /\ r[3] = mode)
  BY <1>2
<1>5. OwnOperation'
  BY <1>4 DEF Operations, OwnOperation
<1>6. OneOperationPerCall'
  BY <1>4 DEF Operations, OwnOperation, OneOperationPerCall
<1> QED
  BY <1>3, <1>5, <1>6 DEF Operations

(* A new operation, before the first request of the call                   *)
LEMMA FreshOperation ==
  ASSUME Operations, NewOperation, UNCHANGED <<seen, calls, mode, conf>>,
         pc = "budget" \/ op = 0, pc # "idle", pc' \notin {"idle", "budget"}
  PROVE  Operations'
<1>1. \A r \in seen : r[1] \in 1..ops /\ r[2] # calls
  BY DEF Operations, Numbered, OwnOperation
<1>2. op' = ops + 1 /\ ops' = ops + 1 /\ ops \in Nat
  BY DEF NewOperation, Operations, Numbered
<1>3. Numbered'
  <2>1. (1..ops) \X (1..calls) \X Modes \subseteq (1..ops') \X (1..calls') \X Modes
    BY <1>2
  <2> QED
    BY <1>2, <2>1 DEF Operations, Numbered
<1>4. \A r \in seen : r[1] # op'
  BY <1>1, <1>2
<1>5. OwnOperation' /\ OneOperationPerCall'
  BY <1>1, <1>4 DEF Operations, OwnOperation, OneOperationPerCall
<1> QED
  BY <1>3, <1>5 DEF Operations

LEMMA OperationStep ==
  ASSUME GateInv, Operations, Next
  PROVE  Operations'
<1>0. Shapes
  BY DEF GateInv
<1>1. CASE Call \/ CallExecute
  <2>1. /\ calls' = calls + 1 /\ calls < MaxCalls /\ UNCHANGED <<op, ops, seen, conf>>
        /\ pc' \in {"budget", "tool"} /\ (pc' = "budget" \/ mode' # "protect")
    BY <1>1 DEF Call, CallExecute, GoTo
  <2>2. \A r \in seen : r[2] # calls' /\ r[1] \in 1..ops
    BY <2>1, RetriesNat DEF Operations, Numbered
  <2>3. Numbered'
    <3>1. (1..ops) \X (1..calls) \X Modes \subseteq (1..ops') \X (1..calls') \X Modes
      BY <2>1, RetriesNat DEF Operations, Numbered
    <3> QED
      BY <2>1, <3>1, RetriesNat DEF Operations, Numbered
  <2>4. OwnOperation' /\ OneOperationPerCall'
    BY <2>1, <2>2 DEF Operations, OwnOperation, OneOperationPerCall
  <2> QED
    BY <2>3, <2>4 DEF Operations
<1>2. CASE SkipBudget
  BY <1>2, SameOperation DEF SkipBudget, Throw, GoTo, call, GateInv, Unasked
<1>3. CASE Unscoped
  BY <1>3, FreshOperation DEF Unscoped, GoTo
<1>4. CASE AskGate
  BY <1>4, FreshOperation DEF AskGate, GoTo, Ask
<1>5. CASE EdgeAnswers
  BY <1>0, <1>5, TellOperation DEF EdgeAnswers, Decide, GoTo, call
<1>6. CASE EdgeRetry
  BY <1>0, <1>6, TellOperation DEF EdgeRetry
<1>7. CASE EdgeUnreachable
  BY <1>0, <1>7, TellOperation DEF EdgeUnreachable, Decide, GoTo, call
<1>8. CASE Attempt
  <2>1. pc = "attempt" /\ UNCHANGED <<op, ops, calls, mode, conf>>
    BY <1>8 DEF Attempt, call
  <2>2. \E m : Tell(m)
    BY <1>8, ZenonT(60) DEF Attempt
  <2>3. pc' \notin {"idle", "budget"}
    <3>1. (\E class : Throw(class)) \/ \E place \in {"gaveUp", "wait", "answered"} : GoTo(place)
      <4>1. ASSUME NEW b PROVE (IF b THEN "gaveUp" ELSE "wait") \in {"gaveUp", "wait", "answered"}
        OBVIOUS
      <4>2. "answered" \in {"gaveUp", "wait", "answered"}
        OBVIOUS
      <4> QED
        BY <1>8, <4>1, <4>2, ZenonT(60) DEF Attempt
    <3> QED
      BY <3>1 DEF Throw, GoTo
  <2> QED
    BY <1>0, <2>1, <2>2, <2>3, TellOperation
<1>9. CASE AttemptFails
  BY <1>0, <1>9, TellOperation DEF AttemptFails, GoTo, call
<1>10. CASE Wait
  BY <1>10, SameOperation DEF Wait, GoTo, Operations, Numbered
<1>11. CASE GateGivesUp \/ GateAnswered \/ BudgetDecision
  <2>1. UNCHANGED <<op, ops, seen, calls, mode, conf>> /\ pc \in {"gaveUp", "answered", "decide"}
    BY <1>11 DEF GateGivesUp, GateAnswered, BudgetDecision, call
  <2>2. op # 0
    BY <2>1 DEF Operations, Numbered
  <2>3. pc' \notin {"idle", "budget", "edge", "attempt", "wait"}
    <3>1. CASE GateGivesUp
      BY <3>1 DEF GateGivesUp, GoTo, Decide
    <3>2. CASE GateAnswered
      <4> DEFINE refused == [answer EXCEPT !.decision = "block", !.source = "gateway"]
      <4>1. \/ Throw("NullRunMalformedGateResponseError") \/ Decide(answer)
            \/ Throw("AttributeError") \/ Decide(Verdict("block", "fallback"))
            \/ Throw("NullRunUnclassifiedRefusalError") \/ Decide(refused)
        BY <3>2, Zenon DEF GateAnswered
      <4> HIDE DEF refused
      <4> QED
        BY <4>1 DEF Throw, Decide, GoTo
    <3>3. CASE BudgetDecision
      <4>1. (\E class : Throw(class)) \/ GoTo("tool")
        BY <3>3, Zenon DEF BudgetDecision, BudgetActs, BudgetBlocks, BudgetApproval
      <4> QED
        BY <4>1 DEF Throw, GoTo
    <3> QED
      BY <1>11, <3>1, <3>2, <3>3
  <2> QED
    BY <2>1, <2>2, <2>3, SameOperation
<1>12. CASE ExecuteGivesUp \/ ExecuteAnswered
  <2>1. UNCHANGED <<op, ops, seen, calls, mode, conf>> /\ pc \in {"gaveUp", "answered"}
    BY <1>12 DEF ExecuteGivesUp, ExecuteAnswered, call
  <2>2. (\E class : Throw(class)) \/ \E v : Decide(v)
    <3>1. CASE ExecuteGivesUp
      <4>1. Handler \in {"raise", "open", "closed", "none"}
        BY <1>0 DEF Handler, Shapes
      <4> QED
        BY <3>1, <4>1 DEF ExecuteGivesUp
    <3>2. CASE ExecuteAnswered
      BY <3>2, Zenon DEF ExecuteAnswered, ThrowParsed
    <3> QED
      BY <1>12, <3>1, <3>2
  <2>3. pc' \in {"failed", "raised", "decide"}
    BY <2>2 DEF Throw, Decide, GoTo
  <2>4. op # 0
    BY <2>1 DEF Operations, Numbered
  <2> QED
    BY <2>1, <2>3, <2>4, SameOperation
<1>13. CASE AskExecute
  <2>1. UNCHANGED <<seen, calls, mode, conf>> /\ pc = "tool" /\ pc' \in {"decide", "attempt"}
    BY <1>13 DEF AskExecute, Decide, Ask, GoTo
  <2>2. CASE op = 0 /\ NewOperation
    BY <2>1, <2>2, FreshOperation
  <2>3. CASE op # 0 /\ UNCHANGED <<op, ops>>
    BY <2>1, <2>3, SameOperation
  <2> QED
    BY <1>13, <2>2, <2>3 DEF AskExecute
<1>14. CASE ToolGateFailed \/ ToolGatePassed \/ Return
  BY <1>14, SameOperation DEF ToolGateFailed, ToolGatePassed, Return, GoTo, call
<1>15. CASE Stop
  BY <1>15 DEF Stop, call, Operations, Numbered, OwnOperation, OneOperationPerCall
<1>16. CASE ExecuteDecision
  <2>1. UNCHANGED <<op, ops, seen, calls, mode, conf>> /\ pc = "decide"
    BY <1>16 DEF ExecuteDecision
  <2>2. (\E class : Throw(class)) \/ Ask("execute") \/ GoTo("passed")
    BY <1>16, Zenon DEF ExecuteDecision, ToolApproval
  <2>3. pc' \in {"failed", "raised", "attempt", "passed"}
    BY <2>2 DEF Throw, Ask, GoTo
  <2>4. op # 0
    BY <2>1 DEF Operations, Numbered
  <2> QED
    BY <2>1, <2>3, <2>4, SameOperation
<1> QED
  BY <1>1, <1>2, <1>3, <1>4, <1>5, <1>6, <1>7, <1>8, <1>9, <1>10, <1>11, <1>12, <1>13, <1>14, <1>15, <1>16
     DEF Next, Step

LEMMA OperationsHold == Spec => []Operations
<1>1. Init => Operations
  BY RetriesNat DEF Init, Operations, Numbered, OwnOperation, OneOperationPerCall
<1>2. GateInv /\ Operations /\ [Next]_vars => Operations'
  <2>1. CASE UNCHANGED vars
    BY <2>1 DEF vars, Operations, Numbered, OwnOperation, OneOperationPerCall
  <2> QED
    BY <2>1, OperationStep
<1> QED
  BY <1>1, <1>2, GateInvariant, PTL DEF Spec

(* Both gates of one call and every attempt of _retry_with_backoff carry   *)
(* the operation id that the budget gate made, and no other protected call *)
(* has it, for any number of retries and calls, although the id stays in   *)
(* its context variable between calls.                                     *)
THEOREM OperationSafe == Spec => []OneOperationPerCall
BY OperationsHold, PTL DEF Operations

----------------------------------------------------------------------------
(* A step that keeps the count                                             *)
LEMMA SameCount ==
  ASSUME Counted, UNCHANGED <<conf, attempt, ep>>, granted' \in BOOLEAN, chained' \in BOOLEAN, stopped' \in BOOLEAN,
         pc' \in {"gaveUp", "answered", "decide", "tool", "passed", "failed", "body", "raised"},
         conf.edge => pc' \notin {"gaveUp", "answered"},
         conf.edge /\ pc' = "decide" => answer'.decision # "require_approval"
  PROVE  Counted'
BY DEF Counted, MaxRetries

(* A request that is begun                                                 *)
LEMMA AskCount ==
  ASSUME Counted, UNCHANGED conf, granted' \in BOOLEAN, chained' \in BOOLEAN, stopped' \in BOOLEAN,
         ~conf.edge, NEW endpoint \in Endpoints, Ask(endpoint)
  PROVE  Counted'
BY RetriesNat DEF Counted, MaxRetries, Ask, GoTo

LEMMA BeginCount ==
  ASSUME GateInv, Counted, \/ Call \/ CallExecute \/ SkipBudget \/ Unscoped \/ AskGate
                           \/ EdgeAnswers \/ EdgeRetry \/ EdgeUnreachable
  PROVE  Counted'
<1>1. CASE Call \/ CallExecute
  BY <1>1, RetriesNat DEF Call, CallExecute, GoTo, Counted, MaxRetries
<1>2. CASE SkipBudget
  BY <1>2, SameCount DEF SkipBudget, Throw, GoTo, call, Counted
<1>3. CASE Unscoped
  BY <1>3, SameCount DEF Unscoped, GoTo, Counted
<1>4. CASE AskGate
  <2>1. UNCHANGED <<conf, granted, chained, stopped>>
    BY <1>4 DEF AskGate
  <2>2. CASE ~conf.edge
    BY <1>4, <2>1, <2>2, AskCount DEF AskGate, Counted, Endpoints
  <2>3. CASE conf.edge
    BY <1>4, <2>1, <2>3, RetriesNat DEF AskGate, Counted, GoTo
  <2> QED
    BY <2>2, <2>3
<1>5. CASE EdgeAnswers \/ EdgeUnreachable
  BY <1>5, SameCount, VerdictShape DEF EdgeAnswers, EdgeUnreachable, Decide, GoTo, call, Counted
<1>6. CASE EdgeRetry
  BY <1>6, RetriesNat DEF EdgeRetry, Counted
<1> QED
  BY <1>1, <1>2, <1>3, <1>4, <1>5, <1>6

LEMMA WireCount ==
  ASSUME GateInv, Counted, Attempt \/ AttemptFails \/ Wait \/ GateGivesUp \/ ExecuteGivesUp
  PROVE  Counted'
<1>0. /\ ~conf.edge /\ UNCHANGED <<conf, ep, granted, chained, stopped>>
      /\ granted \in BOOLEAN /\ chained \in BOOLEAN /\ stopped \in BOOLEAN
      /\ MaxRetries' = MaxRetries /\ MaxRetries \in Nat
  <2>1. UNCHANGED <<conf, ep, granted, chained, stopped>>
    BY Zenon DEF Attempt, AttemptFails, Wait, GateGivesUp, ExecuteGivesUp, call
  <2>2. ~conf.edge
    BY DEF Attempt, AttemptFails, Wait, GateGivesUp, ExecuteGivesUp, Counted
  <2> QED
    BY <2>1, <2>2, RetriesNat DEF Counted, MaxRetries
<1>1. ASSUME UNCHANGED attempt, pc' = "wait", attempt < MaxRetries PROVE Counted'
  BY <1>0, <1>1 DEF Counted
<1>2. ASSUME UNCHANGED attempt, pc' \in {"gaveUp", "answered", "decide", "failed", "raised"} PROVE Counted'
  BY <1>0, <1>2, SameCount
<1>3. \A class : Throw(class) => pc' \in {"failed", "raised"}
  BY DEF Throw
<1>4. \A place : GoTo(place) => pc' = place
  BY DEF GoTo
<1>5. attempt \in Nat
  BY <1>0 DEF Counted
<1>6. CASE Attempt
  <2>1. UNCHANGED attempt
    BY <1>6 DEF Attempt, call
  <2>2. \/ \E class : Throw(class)
        \/ \E r : GoTo(IF attempt >= MaxRetries \/ Deferred(r) THEN "gaveUp" ELSE "wait")
        \/ GoTo("answered")
    BY <1>6, ZenonT(60) DEF Attempt
  <2>3. pc' \in {"failed", "raised", "gaveUp", "answered"} \/ (pc' = "wait" /\ ~(attempt >= MaxRetries))
    BY <1>3, <1>4, <2>2
  <2> QED
    BY <1>0, <1>1, <1>2, <1>5, <2>1, <2>3
<1>7. CASE AttemptFails
  BY <1>0, <1>1, <1>2, <1>5, <1>7 DEF AttemptFails, GoTo, call
<1>8. CASE Wait
  <2>1. attempt < MaxRetries
    BY <1>8 DEF Wait, Counted
  <2>2. CASE pc' = "attempt" /\ attempt' = attempt + 1
    BY <1>0, <1>5, <2>1, <2>2 DEF Counted
  <2> QED
    BY <1>2, <1>8, <2>2 DEF Wait, GoTo
<1>9. CASE GateGivesUp
  BY <1>2, <1>9 DEF GateGivesUp, Decide, GoTo, call
<1>10. CASE ExecuteGivesUp
  <2>1. Handler \in {"raise", "open", "closed", "none"}
    BY DEF Handler, Shapes, GateInv
  <2>2. (\E class : Throw(class)) \/ GoTo("decide")
    BY <1>10, <2>1 DEF ExecuteGivesUp, Decide
  <2> QED
    BY <1>2, <1>3, <1>4, <1>10, <2>2 DEF ExecuteGivesUp, call
<1> QED
  BY <1>6, <1>7, <1>8, <1>9, <1>10

LEMMA RestCount ==
  ASSUME GateInv, Counted,
         \/ GateAnswered \/ BudgetDecision \/ AskExecute \/ ExecuteAnswered \/ ExecuteDecision
         \/ ToolGateFailed \/ ToolGatePassed \/ Return \/ Stop
  PROVE  Counted'
<1>0. granted \in BOOLEAN /\ chained \in BOOLEAN /\ stopped \in BOOLEAN
  BY DEF Counted
<1>1. \A class : Throw(class) => pc' \in {"failed", "raised"}
  BY DEF Throw
<1>2. \A place : GoTo(place) => pc' = place
  BY DEF GoTo
<1>3. \A v : Decide(v) => pc' = "decide"
  BY DEF Decide, GoTo
<1>4. CASE GateAnswered \/ ExecuteAnswered
  <2>1. ~conf.edge /\ UNCHANGED <<conf, attempt, ep, granted, chained, stopped>>
    BY <1>4 DEF GateAnswered, ExecuteAnswered, call, Counted
  <2>2. pc' \in {"failed", "raised", "decide"}
    <3>1. CASE GateAnswered
      <4> DEFINE refused == [answer EXCEPT !.decision = "block", !.source = "gateway"]
      <4>1. \/ Throw("NullRunMalformedGateResponseError") \/ Decide(answer)
            \/ Throw("AttributeError") \/ Decide(Verdict("block", "fallback"))
            \/ Throw("NullRunUnclassifiedRefusalError") \/ Decide(refused)
        BY <3>1, Zenon DEF GateAnswered
      <4> HIDE DEF refused
      <4> QED
        BY <1>1, <1>3, <4>1
    <3>2. CASE ExecuteAnswered
      <4>1. (\E class : Throw(class)) \/ \E v : Decide(v)
        BY <3>2, Zenon DEF ExecuteAnswered, ThrowParsed
      <4> QED
        BY <1>1, <1>3, <4>1
    <3> QED
      BY <1>4, <3>1, <3>2
  <2> QED
    BY <1>0, <2>1, <2>2, SameCount
<1>5. CASE BudgetDecision
  <2>1. (\E class : Throw(class)) \/ GoTo("tool")
    BY <1>5, Zenon DEF BudgetDecision, BudgetActs, BudgetBlocks, BudgetApproval
  <2> QED
    BY <1>0, <1>1, <1>2, <1>5, <2>1, SameCount DEF BudgetDecision, call
<1>6. CASE AskExecute
  <2>1. /\ UNCHANGED <<conf, chained, stopped>> /\ granted' = FALSE
        /\ ~conf.edge => Ask("execute")
        /\ conf.edge =>
             /\ UNCHANGED attempt /\ pc' = "decide"
             /\ answer' = Verdict("allow", IF lastSource = "none" THEN "edge_lease" ELSE lastSource)
    BY <1>6 DEF AskExecute, Decide, GoTo
  <2>2. CASE ~conf.edge
    BY <1>0, <2>1, <2>2, AskCount DEF Endpoints
  <2>3. CASE conf.edge
    <3>1. lastSource \in {"none", "edge_lease"}
      BY DEF GateInv, Shapes
    <3>2. answer'.decision = "allow"
      BY <2>1, <2>3, <3>1, VerdictShape
    <3> QED
      BY <1>0, <2>1, <2>3, <3>2 DEF Counted
  <2> QED
    BY <2>2, <2>3
<1>7. CASE ExecuteDecision
  <2>1. UNCHANGED <<conf, chained, stopped>> /\ pc = "decide"
    BY <1>7 DEF ExecuteDecision
  <2>2. CASE answer.decision = "require_approval" /\ granted' = TRUE /\ Ask("execute")
    BY <1>0, <2>1, <2>2, AskCount DEF Endpoints, Counted
  <2>3. CASE ((\E class : Throw(class)) \/ GoTo("passed")) /\ UNCHANGED <<ep, attempt, answer, granted>>
    BY <1>0, <1>1, <1>2, <2>1, <2>3, SameCount
  <2> QED
    BY <1>7, <2>2, <2>3, Zenon DEF ExecuteDecision, ToolApproval
<1>8. CASE ToolGateFailed \/ ToolGatePassed
  BY <1>0, <1>8, SameCount DEF ToolGateFailed, ToolGatePassed, GoTo, call
<1>9. CASE Return
  <2>1. attempt' \in 0..(IF conf.edge THEN EdgeRetries ELSE MaxRetries)'
    BY <1>9, RetriesNat DEF Return, MaxRetries
  <2>2. pc' = "idle" /\ granted' = FALSE /\ chained' = FALSE /\ attempt' = 0 /\ UNCHANGED <<conf, stopped>>
    BY <1>9 DEF Return
  <2> QED
    BY <2>1, <2>2 DEF Counted
<1>10. CASE Stop
  BY <1>10 DEF Stop, Counted, MaxRetries, call
<1> QED
  BY <1>4, <1>5, <1>6, <1>7, <1>8, <1>9, <1>10

(* The types, and with them the retry budgets: no request is attempted     *)
(* more often than its endpoint, or the edge box, allows.                  *)
THEOREM TypeCorrect == Spec => []TypeOK
<1>1. Init => Counted
  <2> SUFFICES ASSUME Init PROVE Counted
    OBVIOUS
  <2>1. attempt \in 0..(IF conf.edge THEN EdgeRetries ELSE MaxRetries)
    BY RetriesNat DEF Init, MaxRetries
  <2> QED
    BY <2>1 DEF Init, Counted
<1>2. GateInv /\ Counted /\ [Next]_vars => Counted'
  <2>1. CASE UNCHANGED vars
    BY <2>1 DEF vars, Counted, MaxRetries
  <2> QED
    BY <2>1, BeginCount, WireCount, RestCount DEF Next, Step
<1>3. GateInv /\ Erring /\ Operations /\ Counted => TypeOK
  BY DEF GateInv, Shapes, Endpoints, Meanings, Modes, Erring, Operations, Numbered, Counted, TypeOK
<1> QED
  BY <1>1, <1>2, <1>3, GateInvariant, ErringHolds, OperationsHold, PTL DEF Spec

=============================================================================
