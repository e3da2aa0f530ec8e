---------------------------- MODULE MCRequestParts -----------------------------
(* Small texts, short retries, a small graph, and deployments that differ   *)
(* from a production profile in up to two settings, or in any of the        *)
(* feature flags and one setting more.                                      *)
EXTENDS RequestParts

(* A letter, a space and a line break. *)
Alphabet == {"x", "_", "/"}

Words(n) == {w \in UNION {[1..k -> Alphabet] : k \in 1..n} : Strip(w) # <<>>}

(* One segment of up to six characters, or two of up to three. *)
SomeSegmentLists == {<<w>> : w \in Words(6)} \cup (Words(3) \X Words(3))

SomeChunkSettings == {<<1, 0>>, <<2, 1>>, <<3, 0>>, <<3, 2>>, <<4, 1>>, <<4, 3>>}

Edge(a, b, c, ok) == [source |-> a, target |-> b, chunk |-> c, confident |-> ok]

(* A path of five entities with a doubtful shortcut, over three chunks. *)
SomeEdges ==
    <<Edge(1, 2, 1, TRUE), Edge(2, 3, 1, TRUE), Edge(3, 4, 2, TRUE),
      Edge(5, 2, 3, FALSE), Edge(4, 5, 3, TRUE)>>

SomeMatching == <<3, 1>>

SomeSimilarity == <<1, 3, 3>>

-----------------------------------------------------------------------------
Production ==
    [environment |-> "production", debug |-> FALSE, tracebacks |-> FALSE, cors |-> "listed",
     cors_credentials |-> FALSE, hosts |-> "listed", database |-> "postgresql",
     chat_model_provider |-> "anthropic", keys |-> [openai |-> "real", anthropic |-> "real"],
     provider_required |-> TRUE, rag_enabled |-> TRUE, knowledge_graph_enabled |-> FALSE,
     agentic_workflow_enabled |-> TRUE, multi_agent_workflow_enabled |-> TRUE,
     judge_enabled |-> FALSE, routing_enabled |-> TRUE, override |-> NoMode,
     chunk_size |-> 2, chunk_overlap |-> 1, max_steps |-> 5, recursion_limit |-> 13,
     input_cost |-> FALSE, output_cost |-> FALSE, exporter |-> "none",
     otlp_endpoint |-> "absent", policy_enabled |-> FALSE, policy_url |-> "absent",
     policy_token |-> TRUE, policy_path |-> TRUE, auth_enabled |-> TRUE,
     verification_key |-> "strong", jwks_url |-> "absent", algorithm |-> "RS256",
     issuer |-> TRUE, audience |-> TRUE, retry_base_delay_ms |-> 250]

Others(f) ==
    CASE f = "environment" -> {"staging"}
      [] f = "cors" -> {"none", "any", "malformed"}
      [] f = "hosts" -> {"none", "any"}
      [] f = "database" -> {"absent", "other", "placeholder"}
      [] f = "chat_model_provider" -> {"openai"}
      [] f = "keys" -> [{"openai", "anthropic"} -> {"absent", "placeholder", "real"}]
      [] f = "override" -> ExecutionMode
      [] f = "chunk_overlap" -> {2}
      [] f = "chunk_size" -> {1}
      [] f = "max_steps" -> {4, 6}
      [] f = "recursion_limit" -> {12}
      [] f = "exporter" -> {"otlp"}
      [] f \in {"otlp_endpoint", "policy_url", "jwks_url"} -> {"malformed", "http", "https"}
      [] f = "verification_key" -> {"absent", "placeholder", "short"}
      [] f = "algorithm" -> {"HS256"}
      [] f = "retry_base_delay_ms" -> {4000, 4001, 60001}
      [] OTHER -> {~Production[f]}

(* Deployments that differ from one of S in at most one setting. *)
Varied(S) == UNION {{[sf[1] EXCEPT ![sf[2]] = v] : v \in Others(sf[2])} :
                        sf \in S \X DOMAIN Production}

Flags ==
    {"provider_required", "rag_enabled", "knowledge_graph_enabled",
     "agentic_workflow_enabled", "multi_agent_workflow_enabled", "routing_enabled"}

Profiles ==
    {[f \in DOMAIN Production |-> IF f \in flipped THEN ~Production[f] ELSE Production[f]] :
        flipped \in SUBSET Flags}

SomeDeployments == Varied(Varied({Production})) \cup Varied(Profiles)

SomeWorkloads ==
    [pain_points : {1, 2, 3}, constraints : {1, 3}, concerns : {1, 2, 3},
     coordination : BOOLEAN, rich : BOOLEAN]

SomeRoleClaims == {{"analyst"}, {"analyst", "reviewer"}, {"reviewer", "admin"}, {"analyst", "owner"}}

-----------------------------------------------------------------------------
(* Policies: the default one, one that switches every condition off, ones   *)
(* that complete everything they may, and one whose decisions fall as the   *)
(* risk rises; candidates with up to two risks.                             *)
Default ==
    [medium_risk_decision |-> "complete_with_warning",
     high_risk_decision |-> "require_human_review",
     critical_risk_decision |-> "block_and_escalate",
     review_on_insufficient_evidence |-> TRUE,
     review_on_degraded_execution |-> TRUE,
     review_on_specialist_unavailable |-> TRUE,
     review_on_tool_failure |-> TRUE,
     block_high_risk_invalid_provenance |-> TRUE,
     block_critical_missing_mitigation |-> TRUE]

Switches ==
    {"review_on_insufficient_evidence", "review_on_degraded_execution",
     "review_on_specialist_unavailable", "review_on_tool_failure",
     "block_high_risk_invalid_provenance", "block_critical_missing_mitigation"}

SwitchedOff(p) == [f \in DOMAIN p |-> IF f \in Switches THEN FALSE ELSE p[f]]

Lenient == [Default EXCEPT !.medium_risk_decision = "auto_complete",
                           !.high_risk_decision = "auto_complete",
                           !.critical_risk_decision = "complete_with_warning"]

Inverted == [Default EXCEPT !.medium_risk_decision = "block_and_escalate",
                            !.critical_risk_decision = "auto_complete"]

Tolerant == [Lenient EXCEPT !.review_on_tool_failure = FALSE]

SomePolicies == {Default, SwitchedOff(Default), Tolerant, SwitchedOff(Lenient), Inverted}

UpToTwoRisks == {risks \in SUBSET Risk : Cardinality(risks) <= 2}
=============================================================================
