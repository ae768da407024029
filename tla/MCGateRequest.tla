-------------------------- MODULE MCGateRequest --------------------------
(***************************************************************************)
(* GateRequest for TLC: a wire code for every way the SDK treats one, the  *)
(* answers that carry them, and the configurations that set few variables. *)
(***************************************************************************)
EXTENDS GateRequest, Sequences

WireCodes ==
  { "BUDGET_HARD_BLOCKED",      \* a refusal
    "API_KEY_REVOKED",          \* an infrastructure error
    "REDIS_UNAVAILABLE",        \* a transport error
    "EXECUTION_NOT_FOUND",      \* one the tool gate lets through
    "CHAIN_CROSS_ORG",          \* a decision that is no block
    "MCP_DESTRUCTIVE_BLOCKED",  \* one the envelope parser cannot build
    "UNKNOWN_TO_THE_SDK" }

(* One variable at a time, and the pairs that meet in a decision with      *)
(* their acknowledgement.                                                  *)
FewSet ==
  {c \in Configurations :
     LET set == {k \in DOMAIN c : c[k]} IN
     \/ Cardinality(set \ {"failOpenAck", "skipAck"}) <= 1 /\ set \cap {"failOpenAck", "skipAck"} = {}
     \/ \E f \in {"permissive", "message", "edge"} : set = {"failOpen", f}
     \/ \E f \in {"failOpen", "skip"} : {"prod", f} \subseteq set /\ set \subseteq {"prod", f, f \o "Ack"}}

(* Of these /gate only tells three kinds apart. *)
GateWireCodes == {"BUDGET_HARD_BLOCKED", "CHAIN_CROSS_ORG", "UNKNOWN_TO_THE_SDK"}

Blocks(categories, codes) ==
  {[Verdict("block", "gateway") EXCEPT !.category = c, !.place = "error_code", !.code = k] :
     c \in categories, k \in codes}

Refused(s, categories, codes) ==
  {[NoAnswer EXCEPT !.status = s, !.decision = "block", !.category = c, !.place = "error_code", !.code = k] :
     c \in categories, k \in codes}

Placed ==
  {[NoAnswer EXCEPT !.status = 404, !.place = l, !.code = k] :
     l \in Places, k \in {"BUDGET_HARD_BLOCKED", "MCP_DESTRUCTIVE_BLOCKED"}}

Plain ==
  {[NoAnswer EXCEPT !.status = s] : s \in {302, 401, 403, 404, 429}}
  \cup {[NoAnswer EXCEPT !.status = 503, !.wait = w] : w \in {"short", "long"}}

(* A captive portal or a proxy: no JSON, no object, no decision of the gate *)
Portal ==
  {Verdict("none", "none"), Verdict("allow", "none"), Verdict("allow", "fallback")}
  \cup {[NoAnswer EXCEPT !.status = s, !.form = f] : s \in {200, 403, 503}, f \in {"list", "text"}}

GateAnswersSet ==
  Blocks({"infra", "denied"}, GateWireCodes) \cup Plain \cup Portal
  \cup UNION {Refused(s, {"newer", "infra", "denied"}, GateWireCodes) : s \in {403, 503}}
  \cup {Verdict(d, "gateway") : d \in {"allow", "soft_pass", "require_approval", "deny"}}

ExecuteAnswersSet ==
  Blocks({"denied"}, WireCodes) \cup Refused(403, {"infra", "denied"}, WireCodes) \cup Placed \cup Plain \cup Portal
  \cup Refused(404, {"infra"}, {"UNKNOWN_TO_THE_SDK"}) \cup Refused(503, {"infra"}, {"BUDGET_HARD_BLOCKED"})
  \cup {Verdict(d, "gateway") : d \in {"allow", "require_approval", "pause"}}

=============================================================================
