------------------------------ MODULE Refusals ------------------------------
(***************************************************************************)
(* How an answer that is not an allow becomes an exception of the SDK: the *)
(* exception hierarchy (src/src/nullrun/breaker/exceptions.py), the        *)
(* catalogue of wire codes, and the two parsers that use it, one for the   *)
(* error envelopes of /execute (src/src/nullrun/transport.py) and one for  *)
(* the block decisions of both endpoints (src/src/nullrun/runtime.py).     *)
(*                                                                         *)
(* A class stands for the exceptions of that class; messages, metrics and  *)
(* user texts are left out.                                                *)
(***************************************************************************)
EXTENDS Integers

(***************************************************************************)
(* The hierarchy, as the sets of classes an `except` clause catches.       *)
(***************************************************************************)

(* A policy, a budget or a denial refuses the call. *)
PolicyBlocks ==
  {"NullRunBlockedException", "NullRunDeniedError", "NullRunBudgetError",
   "NullRunBudgetRecheckFailedError"}

(* An approval is missing, pending or denied, or the tool is blocked. *)
ApprovalBlocks ==
  {"NullRunToolBlockedError", "NullRunApprovalNotYetApprovedError",
   "NullRunApprovalResponseMissingError", "NullRunApprovalDeniedError"}

(* A grant cannot be used: too late, again, or for something else. *)
GrantBlocks ==
  {"NullRunApprovalExpiredError", "NullRunApprovalReplayRejectedError",
   "NullRunApprovalDigestMismatchError", "NullRunApprovalToolDigestMismatchError"}

(* The checks of MCP tools, and an approval store that fails closed *)
McpBlocks ==
  {"NullRunMcpDestructiveBlockedError", "NullRunMcpReadonlyBypassBlockedError",
   "NullRunMcpApprovalRequiredError", "NullRunApprovalDbUnavailableError"}

(* except NullRunBlockedException *)
Blocked == PolicyBlocks \cup ApprovalBlocks \cup GrantBlocks \cup McpBlocks

(* Decisions that are no block, each with a constructor of its own *)
OtherDecisions ==
  {"NullRunChainError", "NullRunConsumeOverbudgetError", "NullRunWorkflowInactiveError"}

(* except NullRunDecision *)
Decision == Blocked \cup OtherDecisions

(* except NullRunTransportError *)
Transport ==
  {"NullRunTransportError", "NullRunBackendError", "NullRunExecutionNotFoundError",
   "RateLimitError"}

(* except NullRunAuthenticationError *)
Authentication == {"NullRunAuthenticationError", "NullRunAuthError"}

(* except NullRunProtocolError *)
Protocol == {"NullRunProtocolError", "NullRunMalformedGateResponseError"}

(* except NullRunInfrastructureError *)
Infrastructure ==
  Transport \cup Authentication \cup Protocol \cup
  {"NullRunInfrastructureError", "NullRunConfigError", "NullRunRateLimitRedisError",
   "NullRunUnclassifiedRefusalError"}

(* what only `except Exception` catches *)
Untyped == {"TypeError", "ValueError", "AttributeError"}

Exceptions == Decision \cup Infrastructure \cup Untyped

----------------------------------------------------------------------------
(* _V3_ERROR_CODE_MAP, from the classes to their codes                     *)

(* The wire contract of v3, with the outcomes of consuming a grant *)
ContractCodes ==
  [NullRunProtocolError |-> {"PROTOCOL_TOO_OLD", "PROTOCOL_TOO_NEW"},
   NullRunBudgetError |->
     {"BUDGET_HARD_BLOCKED", "BUDGET_SOFT_BLOCKED", "BUDGET_OVERDRAFT_EXCEEDED",
      "BUDGET_PERIOD_NOT_STARTED", "BUDGET_WORKFLOW_BLOCKED", "BUDGET_CACHE_EXCEEDED"},
   NullRunChainError |->
     {"CHAIN_MAX_DURATION_EXCEEDED", "CHAIN_CROSS_ORG", "CHAIN_ORG_MISMATCH",
      "PARENT_EXECUTION_NOT_FOUND", "PARENT_EXECUTION_ORG_MISMATCH",
      "PARENT_EXECUTION_KEY_MISMATCH"},
   NullRunWorkflowInactiveError |-> {"WORKFLOW_INACTIVE"},
   NullRunAuthError |->
     {"API_KEY_REVOKED", "API_KEY_EXPIRED", "API_KEY_DISABLED", "API_KEY_INVALID",
      "API_KEY_MISSING", "API_KEY_MALFORMED"},
   NullRunConsumeOverbudgetError |-> {"CONSUME_OVERBUDGET"},
   RateLimitError |-> {"RATE_LIMIT_EXCEEDED"},
   NullRunRateLimitRedisError |-> {"RATE_LIMIT_REDIS_UNAVAILABLE"},
   NullRunBackendError |-> {"BUDGET_DATA_UNAVAILABLE"},
   NullRunApprovalDbUnavailableError |->
     {"APPROVAL_DB_UNAVAILABLE", "APPROVAL_PERSISTENCE_FAILED",
      "APPROVAL_VALIDATION_FAILED", "APPROVAL_CONFLICT", "APPROVAL_NOT_FOUND",
      "APPROVAL_CREATE_FAILED"},
   NullRunApprovalNotYetApprovedError |-> {"APPROVAL_NOT_YET_APPROVED"},
   NullRunApprovalDeniedError |-> {"APPROVAL_DENIED"},
   NullRunApprovalExpiredError |-> {"APPROVAL_EXPIRED"},
   NullRunApprovalDigestMismatchError |-> {"APPROVAL_DIGEST_MISMATCH"},
   NullRunApprovalToolDigestMismatchError |-> {"APPROVAL_TOOL_DIGEST_MISMATCH"},
   NullRunApprovalReplayRejectedError |-> {"APPROVAL_REPLAY_REJECTED"},
   NullRunBudgetRecheckFailedError |-> {"BUDGET_RECHECK_FAILED"}]

(* What /gate, the MCP checks and sub-workflows added *)
GateCodes ==
  [NullRunBudgetError |-> {"BUDGET_ANTI_DOS_RESERVED_CAP", "BUDGET_REDIS_UNAVAILABLE"},
   NullRunChainError |->
     {"CHAIN_ID_INVALID", "WORKFLOW_CYCLE_DETECTED", "WORKFLOW_DEPTH_EXCEEDED",
      "WORKFLOW_PARENT_BINDING_EXPIRED", "WORKFLOW_DEPTH_LOOKUP_FAILED",
      "SUBWORKFLOW_INVOKE_DISABLED"},
   NullRunAuthError |->
     {"EXECUTION_KEY_MISMATCH", "EXECUTION_ORG_MISMATCH", "ORG_MISMATCH"},
   NullRunProtocolError |-> {"PROTOCOL_HEADER_INVALID", "PROTOCOL_HEADER_REQUIRED"},
   NullRunToolBlockedError |-> {"TOOL_BLOCKED"},
   NullRunBlockedException |->
     {"LOOP_DETECTED", "MODEL_REQUIRED", "POLICY_UNCONFIGURED",
      "TOO_MANY_PENDING_APPROVALS", "BUSINESS_IMPACT_INVALID", "VALIDATION_FAILED",
      "LEGACY_GRANT_REJECTED"},
   NullRunMcpDestructiveBlockedError |-> {"MCP_DESTRUCTIVE_BLOCKED"},
   NullRunMcpReadonlyBypassBlockedError |-> {"MCP_READONLY_BYPASS_BLOCKED"},
   NullRunMcpApprovalRequiredError |-> {"MCP_APPROVAL_REQUIRED"},
   NullRunBackendError |->
     {"EXECUTION_ID_MALFORMED", "EXECUTION_ID_REQUIRED", "INVALID_EXECUTION_ID",
      "INVALID_FIELD", "INVALID_JSON", "IDEMPOTENCY_REDIS_UNAVAILABLE",
      "INVOKE_PERSIST_FAILED"},
   NullRunExecutionNotFoundError |-> {"EXECUTION_NOT_FOUND"},
   NullRunRateLimitRedisError |-> {"RATE_LIMIT_PLAN_LOOKUP_FAILED"},
   NullRunApprovalReplayRejectedError |-> {"APPROVAL_ALREADY_DECIDED"}]

(* The later additions *)
LaterCodes ==
  [NullRunBudgetError |-> {"BUDGET_ORG_CEILING_BLOCKED"},
   NullRunBlockedException |->
     {"CIRCUIT_BREAKER_TRIPPED", "WORKFLOW_PAUSED", "EXECUTION_QUOTA_EXCEEDED"},
   NullRunBackendError |->
     {"CIRCUIT_BREAKER_STATE_LOOKUP_FAILED", "WORKFLOW_INACTIVE_LOOKUP_FAILED",
      "WORKFLOW_ID_BODY_MISMATCH", "REDIS_UNAVAILABLE", "INTERNAL_ERROR"},
   NullRunProtocolError |-> {"IDEMPOTENCY_KEY_MISMATCH"},
   NullRunApprovalDbUnavailableError |->
     {"APPROVAL_RULES_UNAVAILABLE", "APPROVAL_DIGEST_RECOMPUTE_FAILED"}]

Listed(table) == UNION {table[k] : k \in DOMAIN table}

Catalogued == Listed(ContractCodes) \cup Listed(GateCodes) \cup Listed(LaterCodes)

ClassIn(table, code) == CHOOSE k \in DOMAIN table : code \in table[k]

(* _V3_ERROR_CODE_MAP *)
Class ==
  [code \in Catalogued |->
     IF code \in Listed(ContractCodes) THEN ClassIn(ContractCodes, code)
     ELSE IF code \in Listed(GateCodes) THEN ClassIn(GateCodes, code)
     ELSE ClassIn(LaterCodes, code)]

(* The answer carries no code, or an empty one *)
NoCode == "NO_CODE"

----------------------------------------------------------------------------
(* _extract_error_envelope: where a body may hold its code.  A top-level   *)
(* error_code wins even when it is empty; the legacy `error` slug is put   *)
(* in upper case, which is a catalogued code only for a v3 slug.           *)
Places == {"error_code", "emptyTop", "details", "slug", "legacySlug", "nowhere"}

WireCode(place, code) ==
  CASE place \in {"error_code", "details", "slug"} -> code
    [] place \in {"emptyTop", "nowhere"}           -> NoCode
    [] place = "legacySlug"                        -> "LEGACY_SLUG"

(* The codes _parse_v3_error_envelope_uncategorised handles by name, with  *)
(* the arguments their class needs                                         *)
Dispatched ==
  {"PROTOCOL_TOO_OLD", "PROTOCOL_TOO_NEW", "CONSUME_OVERBUDGET",
   "CHAIN_MAX_DURATION_EXCEEDED", "CHAIN_CROSS_ORG", "CHAIN_ORG_MISMATCH",
   "WORKFLOW_INACTIVE", "BUDGET_RECHECK_FAILED", "APPROVAL_NOT_YET_APPROVED",
   "APPROVAL_DENIED", "APPROVAL_EXPIRED", "APPROVAL_DIGEST_MISMATCH",
   "APPROVAL_TOOL_DIGEST_MISMATCH", "APPROVAL_REPLAY_REJECTED",
   "RATE_LIMIT_REDIS_UNAVAILABLE", "RATE_LIMIT_EXCEEDED"}

(* The classes its fall-back builds: the ones it knows the constructor of, *)
(* and those that can be built from a message alone.  Every other subclass *)
(* of NullRunBlockedException needs a reason and raises a TypeError.       *)
Buildable ==
  {"NullRunBackendError", "NullRunExecutionNotFoundError", "NullRunBudgetError",
   "NullRunRateLimitRedisError", "NullRunProtocolError", "NullRunAuthError",
   "NullRunToolBlockedError", "NullRunBlockedException", "NullRunChainError"}

(* ... and a code it does not know: by the status *)
ByStatus(status) ==
  CASE status \in {401, 403} -> "NullRunAuthenticationError"
    [] status = 429          -> "RateLimitError"
    [] OTHER                 -> "NullRunBackendError"

(* The exception _parse_v3_error_envelope returns, or raises *)
Parsed(status, code) ==
  IF code \in Dispatched THEN Class[code]
  ELSE IF code \in Catalogued
       THEN IF Class[code] \in Buildable THEN Class[code] ELSE "TypeError"
  ELSE ByStatus(status)

----------------------------------------------------------------------------
(* _build_block_exception: the class of a catalogued code, built with the  *)
(* arguments of a NullRunBlockedException unless it is an infrastructure   *)
(* error.  Classes with another constructor raise a TypeError.             *)
Foreign == OtherDecisions \cup {"NullRunBudgetRecheckFailedError"}

(* Without a catalogued code the class is NullRunBlockedException and the  *)
(* keywords of the explanation only choose its error_code.                 *)
BlockError(code) ==
  IF code \notin Catalogued THEN "NullRunBlockedException"
  ELSE IF Class[code] \in Foreign THEN "TypeError" ELSE Class[code]

----------------------------------------------------------------------------
(* DecisionCategory, is_gate_refusal and resolve_refusal_category          *)
Categories == {"denied", "budget", "halt", "infra"}

(* A refusal without a category, or with one the SDK does not know, is     *)
(* never rounded to a known one.                                           *)
Unclassified(category) == category \notin Categories

=============================================================================
