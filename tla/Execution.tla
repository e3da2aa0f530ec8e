------------------------------- MODULE Execution -------------------------------
(***************************************************************************)
(* From the settings of a deployment to the answer of an assessment:       *)
(* Settings accepts or refuses them (core/config.py), api/dependencies.py  *)
(* builds the providers and the parts they ask for, anew for every         *)
(* request, ExecutionRouter prefers a mode for it, AssessmentService falls *)
(* back to one it can run, dispatches, filters the references of the       *)
(* result and reports what it did.                                         *)
(*                                                                         *)
(* URLs, keys and lists of hosts are the classes of them the validators    *)
(* tell apart.  A reference or a piece of evidence is a member of Chunks.  *)
(* What happens inside the workflows is SingleAgentWorkflow and            *)
(* MultiAgentWorkflow; the tables and the gate are ReviewTransactions.     *)
(*                                                                         *)
(* A definition introduced by "Faulty variant" is the definition after it  *)
(* with a plausible mistake; the specification does not use it.            *)
(***************************************************************************)
EXTENDS Integers, Sequences, FiniteSets, Ordering

CONSTANTS
    Deployments,   \* settings to start with
    Workloads,     \* requests: what the router sees of them
    Chunks,        \* that evidence and references name
    MaxCited,      \* references of one result
    NoMode         \* an absent EXECUTION_MODE_OVERRIDE or preferred mode

VARIABLES
    deployment,    \* Settings
    parts,         \* what get_assessment_service gets
    routing,       \* ResolvedExecutionRoute
    job            \* the assessment under way

executionVars == <<deployment, parts, routing, job>>

ExecutionMode == {"deterministic", "single_agent", "multi_agent"}

(* The literals and flags of Settings, as their annotations have them. *)
ASSUME SettingsTypeAssumption ==
    /\ NoMode \notin ExecutionMode
    /\ \A s \in Deployments :
        /\ s.override \in ExecutionMode \cup {NoMode}
        /\ s.exporter \in {"none", "otlp"}
        /\ s.routing_enabled \in BOOLEAN
        /\ s.agentic_workflow_enabled \in BOOLEAN /\ s.multi_agent_workflow_enabled \in BOOLEAN
        /\ s.retry_base_delay_ms \in Int

ASSUME MaxCitedAssumption == MaxCited \in Nat

NoRoute == [preferred |-> NoMode, mode |-> NoMode, reasons |-> {}, fallback |-> {}]

NoJob ==
    [pc |-> "idle", evidence |-> {}, cited |-> <<>>, hybrid |-> FALSE, status |-> "none",
     references |-> <<>>, grounded |-> FALSE, provenance |-> TRUE, reported |-> NoRoute]

NoParts == [rag |-> "none", agentic |-> FALSE, multi |-> FALSE, router |-> FALSE, exporter |-> "none"]

-----------------------------------------------------------------------------
(* Settings. *)

Usable(url) == url \in {"http", "https"}

provider_is_configured(s) == s.keys[s.chat_model_provider] # "absent"

_validate_auth_settings(s) ==
    /\ (s.verification_key # "absent") # (s.jwks_url # "absent")
    /\ s.jwks_url # "absent" => Usable(s.jwks_url) /\ s.algorithm = "RS256"
    /\ s.issuer /\ s.audience

(* The part of _validate_production_settings on provider keys. *)
ProviderKeys(s) ==
    LET needed == \/ s.provider_required \/ s.rag_enabled \/ s.agentic_workflow_enabled
                  \/ s.multi_agent_workflow_enabled \/ s.knowledge_graph_enabled
                  \/ s.judge_enabled
    IN  /\ needed => provider_is_configured(s)
        /\ (s.rag_enabled \/ s.knowledge_graph_enabled) => s.keys["openai"] # "absent"
        /\ provider_is_configured(s) => s.keys[s.chat_model_provider] # "placeholder"

_validate_production_settings(s) ==
    /\ ~s.debug /\ ~s.tracebacks
    /\ s.cors # "any" /\ (s.cors_credentials => s.cors # "none")
    /\ s.hosts = "listed"
    /\ s.database = "postgresql"
    /\ s.policy_enabled => s.policy_url = "https"
    /\ ProviderKeys(s)
    /\ s.auth_enabled /\ _validate_auth_settings(s)
    /\ IF s.jwks_url # "absent" THEN s.jwks_url = "https" ELSE s.verification_key = "strong"

validate_chunk_settings(s) ==
    /\ s.chunk_overlap < s.chunk_size
    /\ s.agentic_workflow_enabled => s.recursion_limit >= 2 * s.max_steps + 3
    /\ s.input_cost = s.output_cost
    /\ s.exporter = "otlp" => s.otlp_endpoint # "absent"
    /\ s.otlp_endpoint # "absent" => Usable(s.otlp_endpoint)
    /\ s.policy_enabled => Usable(s.policy_url) /\ s.policy_token /\ s.policy_path
    /\ s.cors # "malformed"
    /\ IF s.environment = "production" THEN _validate_production_settings(s)
       ELSE s.auth_enabled => _validate_auth_settings(s)

LargestBaseDelayMs == 60000

(* The bounds of the field, then the validator.  What requests build from   *)
(* the other numbers of Settings has the same bounds, or none.              *)
Settings(s) == s.retry_base_delay_ms \in 0..LargestBaseDelayMs /\ validate_chunk_settings(s)

-----------------------------------------------------------------------------
(* The parts. *)

(* The maximum delay is never given. *)
MaxDelayMs == 4000

(* validate_delay_bounds: whether the policy can be made.  The bounds of    *)
(* its fields are those of Settings.                                        *)
RetryPolicy(base_delay_ms) == base_delay_ms <= MaxDelayMs

(* A provider makes its policy; its client is made when it is called. *)
build_structured_model_provider(s) == RetryPolicy(s.retry_base_delay_ms)

build_embedding_provider(s) == RetryPolicy(s.retry_base_delay_ms)

(* Faulty variant: the override does not build what the flag leaves out. *)
get_agentic_assessment_workflow_flagged(s) ==
    CASE s.override # NoMode -> s.override = "single_agent" /\ s.agentic_workflow_enabled
      [] s.override = NoMode /\ s.routing_enabled -> s.agentic_workflow_enabled
      [] OTHER -> s.agentic_workflow_enabled /\ ~s.multi_agent_workflow_enabled

get_agentic_assessment_workflow(s) ==
    CASE s.override # NoMode -> s.override = "single_agent"
      [] s.override = NoMode /\ s.routing_enabled -> s.agentic_workflow_enabled
      [] OTHER -> s.agentic_workflow_enabled /\ ~s.multi_agent_workflow_enabled

get_multi_agent_assessment_workflow(s) ==
    IF s.override # NoMode THEN s.override = "multi_agent" ELSE s.multi_agent_workflow_enabled

get_execution_router(s) == s.override # NoMode \/ s.routing_enabled

get_assessment_rag_service(s) ==
    CASE ~s.rag_enabled -> "none"
      [] s.rag_enabled /\ s.knowledge_graph_enabled -> "hybrid"
      [] OTHER -> "vector"

build_telemetry_exporter(s) ==
    IF s.exporter = "none" THEN "none"
    ELSE IF s.otlp_endpoint # "absent" THEN "otlp" ELSE "unsupported"

get_assessment_service(s) ==
    [rag |-> get_assessment_rag_service(s), agentic |-> get_agentic_assessment_workflow(s),
     multi |-> get_multi_agent_assessment_workflow(s), router |-> get_execution_router(s),
     exporter |-> build_telemetry_exporter(s)]

-----------------------------------------------------------------------------
(* The route. *)

(* The mode ExecutionRouter.route prefers, and why. *)
RouteOf(s, w) ==
    LET signals ==
            (IF w.pain_points >= 2 THEN {"multiple_pain_points"} ELSE {}) \cup
            (IF w.constraints >= 2 THEN {"multiple_constraints"} ELSE {}) \cup
            (IF w.concerns >= 2 THEN {"multiple_workload_concerns"} ELSE {}) \cup
            (IF w.rich THEN {"rich_process_context"} ELSE {})
        specialist == /\ w.concerns >= 3
                      /\ w.coordination \/ w.pain_points >= 3 \/ w.constraints >= 3
    IN  CASE s.override # NoMode ->
                [preferred |-> s.override, reasons |-> {"environment_override"}]
          [] s.override = NoMode /\ specialist ->
                [preferred |-> "multi_agent",
                 reasons |-> signals \cup {"specialist_separation_beneficial"}
                             \cup IF w.coordination THEN {"cross_functional_coordination"} ELSE {}]
          [] s.override = NoMode /\ ~specialist /\ signals # {} ->
                [preferred |-> "single_agent",
                 reasons |-> signals \cup {"single_reasoning_context_sufficient"}]
          [] OTHER -> [preferred |-> "deterministic",
                       reasons |-> {"bounded_scope", "low_coordination_complexity"}]

(* Without a router: the flags, the larger workflow first. *)
LegacyMode(p) ==
    CASE p.multi -> "multi_agent"
      [] ~p.multi /\ p.agentic -> "single_agent"
      [] OTHER -> "deterministic"

_route_execution(s, p, w) ==
    LET decision == RouteOf(s, w)
        preferred == decision.preferred
        noMulti  == preferred = "multi_agent" /\ ~p.multi
        noSingle == ~p.agentic /\ (noMulti \/ preferred = "single_agent")
        actual == CASE noSingle -> "deterministic"
                    [] ~noSingle /\ noMulti -> "single_agent"
                    [] OTHER -> preferred
    IN  IF ~p.router
        THEN [preferred |-> LegacyMode(p), mode |-> LegacyMode(p),
              reasons |-> {"legacy_flag_selection"}, fallback |-> {}]
        ELSE [preferred |-> preferred, mode |-> actual, reasons |-> decision.reasons,
              fallback |->
                (IF noMulti THEN {"multi_agent_capability_unavailable"} ELSE {}) \cup
                (IF noSingle THEN {"single_agent_capability_unavailable", "fallback_to_deterministic"}
                 ELSE {}) \cup
                (IF noMulti /\ ~noSingle THEN {"fallback_to_single_agent"} ELSE {})]

-----------------------------------------------------------------------------
(* The assessment. *)

ExecutionIdle ==
    /\ deployment = [environment |-> "none"] /\ parts = NoParts /\ routing = NoRoute
    /\ job = NoJob

ExecutionBegin ==
    /\ deployment \in Deployments /\ parts = NoParts /\ routing = NoRoute
    /\ job = [NoJob EXCEPT !.pc = "start"]

Continue(j) == job' = j /\ UNCHANGED <<deployment, parts, routing>>

Boot ==
    /\ job.pc = "start"
    /\ Continue([job EXCEPT !.pc = IF Settings(deployment) THEN "serving" ELSE "refused"])

Fails(j, code) == [j EXCEPT !.pc = "answered", !.status = code]

(* The dependencies of a request for an assessment, the providers among     *)
(* them: a ValidationError there is no ApplicationError.                    *)
SolveDependencies ==
    /\ job.pc = "serving"
    /\ IF build_structured_model_provider(deployment) /\ build_embedding_provider(deployment)
       THEN /\ parts' = get_assessment_service(deployment)
            /\ job' = [job EXCEPT !.pc = "ready"]
       ELSE parts' = parts /\ job' = Fails(job, "internal_server_error")
    /\ UNCHANGED <<deployment, routing>>

(* Requests are routed with whatever parts there are, and dispatched. *)
Dispatch ==
    /\ job.pc = "ready"
    /\ \E w \in Workloads :
        /\ routing' = _route_execution(deployment, parts, w)
        /\ job' = [job EXCEPT !.pc = CASE routing'.mode = "multi_agent" /\ parts.multi -> "workflow"
                                       [] routing'.mode = "single_agent" /\ parts.agentic -> "workflow"
                                       [] routing'.mode = "deterministic" -> "retrieve"
                                       [] OTHER -> "assertion"]
    /\ UNCHANGED <<deployment, parts>>

(* The AssertionError of a workflow that is missing, or any exception that  *)
(* is not an ApplicationError.                                              *)
Unexpected ==
    /\ job.pc \in {"assertion", "workflow", "retrieve", "generate"}
    /\ Continue(Fails(job, IF job.pc = "assertion" THEN "missing_workflow"
                           ELSE "assessment_generation_error"))

ChatConfigured == provider_is_configured(deployment)

(* The model call, or the calls of a workflow, fail. *)
GenerationError ==
    /\ job.pc \in {"workflow", "generate"}
    /\ Continue(Fails(job, IF ChatConfigured THEN "llm_provider_error"
                           ELSE "provider_not_configured"))

(* The deterministic path's retrieval; only the hybrid one goes on without  *)
(* a path that fails.                                                       *)
Retrieve ==
    /\ job.pc = "retrieve"
    /\ LET embeds == deployment.keys["openai"] # "absent"
           found(E) == [job EXCEPT !.pc = "generate", !.evidence = E,
                                   !.hybrid = parts.rag = "hybrid"]
       IN  \/ parts.rag = "none" /\ Continue(found({}))
           \/ /\ parts.rag # "none" /\ (embeds \/ parts.rag = "hybrid")
              /\ \E E \in SUBSET Chunks : Continue(found(E))
           \/ parts.rag = "vector" /\ Continue(Fails(job, IF embeds THEN "embedding_provider_error"
                                                          ELSE "embedding_not_configured"))

(* A candidate: the evidence a workflow gathered, and the references the    *)
(* model gives, which may repeat or be foreign.                             *)
Generate ==
    /\ job.pc \in {"workflow", "generate"} /\ ChatConfigured
    /\ \E E \in SUBSET Chunks, cited \in UNION {[1..n -> Chunks] : n \in 0..MaxCited} :
        /\ job.pc = "generate" => E = job.evidence
        /\ Continue([job EXCEPT !.pc = "ground", !.evidence = E, !.cited = cited])

_provenance_is_valid(cited, E) == \A i \in DOMAIN cited : cited[i] \in E

(* Faulty variant: a reference is kept as often as the model gives it. *)
KeptRepeated(cited, E) == SelectSeq(cited, LAMBDA c : c \in E)

(* The references that are evidence, each once, in the order given. *)
Kept(cited, E) ==
    LET first == {i \in DOMAIN cited : cited[i] \in E /\ \A k \in 1..i - 1 : cited[k] # cited[i]}
        order == InOrder(first, Ascending(first))
    IN  [n \in DOMAIN order |-> cited[order[n]]]

(* _apply_grounding_metadata, and the execution that is stored and parsed   *)
(* back for the answer.                                                     *)
Ground ==
    /\ job.pc = "ground"
    /\ Continue([job EXCEPT
            !.pc = "answered", !.status = "ok",
            !.provenance = _provenance_is_valid(job.cited, job.evidence),
            !.references = Kept(job.cited, job.evidence),
            !.grounded = job.evidence # {},
            !.reported = IF parts.router THEN routing
                         ELSE [NoRoute EXCEPT !.mode = routing.mode]])

ExecutionNext ==
    \/ Boot \/ SolveDependencies \/ Dispatch \/ Unexpected \/ GenerationError \/ Retrieve \/ Generate \/ Ground

-----------------------------------------------------------------------------
(* Properties. *)

Size(mode) ==
    CASE mode = "deterministic" -> 1 [] mode = "single_agent" -> 2 [] mode = "multi_agent" -> 3

Served == routing # NoRoute

(***************************************************************************)
(* The modes are selected as the README's table of precedence says, for    *)
(* whatever settings are accepted: an override decides, and its workflow   *)
(* is built without its flag; with routing a mode is run that its flag     *)
(* allows, and only ever a smaller one than preferred, with reasons;       *)
(* without routing the flags decide.  No request reaches a workflow that   *)
(* was not built (the asserts of generate_assessment), and the answer      *)
(* names the route that was taken.                                         *)
(***************************************************************************)
RouteIsRunnable ==
    LET s == deployment
        r == routing
    IN  Served =>
        /\ job.pc # "assertion" /\ job.status # "missing_workflow"
        /\ s.override # NoMode => r.mode = s.override
        /\ (s.override = NoMode /\ s.routing_enabled) =>
            /\ r.mode = "single_agent" => s.agentic_workflow_enabled
            /\ r.mode = "multi_agent" => s.multi_agent_workflow_enabled
        /\ (s.override = NoMode /\ ~s.routing_enabled) =>
            r.mode = CASE s.multi_agent_workflow_enabled -> "multi_agent"
                       [] ~s.multi_agent_workflow_enabled /\ s.agentic_workflow_enabled ->
                            "single_agent"
                       [] OTHER -> "deterministic"
        /\ r.fallback = {} <=> r.mode = r.preferred
        /\ Size(r.mode) <= Size(r.preferred)
        /\ (job.status = "ok" /\ (s.override # NoMode \/ s.routing_enabled)) => job.reported = r

(***************************************************************************)
(* What production settings require is what requests use: no assessment of *)
(* an accepted production deployment fails for want of a key, unless       *)
(* PROVIDER_REQUIRED=false was set with no feature on, and its retrieval   *)
(* never does; and the telemetry exporter can be built.  (The searches of  *)
(* the agents' tools also embed, and may lack the key of the embeddings    *)
(* when neither RAG nor the graph is on: the tool then fails.)             *)
(***************************************************************************)
ProductionIsConfigured ==
    LET s == deployment
    IN  /\ (Served /\ s.environment = "production") =>
            /\ job.status # "embedding_not_configured"
            /\ job.status = "provider_not_configured" =>
                ~s.provider_required /\ ~s.rag_enabled /\ ~s.agentic_workflow_enabled
                /\ ~s.multi_agent_workflow_enabled /\ ~s.knowledge_graph_enabled
                /\ ~s.judge_enabled
        /\ Served => parts.exporter # "unsupported"

(***************************************************************************)
(* The settings that are accepted are those requests can be served with,   *)
(* as both of the above say, except a PROVIDER_RETRY_BASE_DELAY_MS that is *)
(* above the maximum delay of RetryPolicy: no request passes the           *)
(* dependencies then, and nothing else stops one there.                    *)
(***************************************************************************)
SettingsAreRunnable ==
    /\ RouteIsRunnable /\ ProductionIsConfigured
    /\ job.pc \notin {"idle", "start", "refused", "serving"} =>
        (job.status = "internal_server_error" <=> deployment.retry_base_delay_ms > MaxDelayMs)

(***************************************************************************)
(* What Settings accepts (config.py:114: a base delay of up to 60000 ms,   *)
(* the bound base_delay_ms has in runtime/models.py:293) lets the          *)
(* dependencies of a request be built.                                     *)
(***************************************************************************)
AcceptedSettingsServe == job.status # "internal_server_error"

(***************************************************************************)
(* An answer cites evidence only: its references are pieces of the         *)
(* evidence of this very run, each once, in the order in which the model   *)
(* first gives them, and every reference the model gave is either there or *)
(* the provenance the gate sees is invalid.  Evidence is said to be        *)
(* retrieved exactly when the run has some, and a run without retrieval    *)
(* has none.                                                               *)
(***************************************************************************)
AnswerIsGrounded ==
    job.status = "ok" =>
        LET kept == {job.references[i] : i \in DOMAIN job.references}
        IN  /\ kept \subseteq job.evidence
            /\ \A i, k \in DOMAIN job.references : job.references[i] = job.references[k] => i = k
            /\ \A i, k \in DOMAIN job.references : i < k =>
                \E p \in DOMAIN job.cited :
                    /\ job.cited[p] = job.references[i]
                    /\ \A q \in 1..p : job.cited[q] # job.references[k]
            /\ job.provenance <=> kept = {job.cited[i] : i \in DOMAIN job.cited}
            /\ job.grounded <=> job.evidence # {}
            /\ (routing.mode = "deterministic" /\ parts.rag = "none") => ~job.grounded
=============================================================================
