----------------------------- MODULE RuntimeGate -----------------------------
(***************************************************************************)
(* The runtime risk and quality gate: RuntimeGovernanceService.derive_     *)
(* signals turns a validated candidate and the metadata of its execution   *)
(* into signals, RuntimeRiskGate.evaluate turns signals and policy into one*)
(* decision with reason codes.                                             *)
(*                                                                         *)
(* A candidate is abstracted to what the gate reads: the severity of its   *)
(* risks and whether each has a mitigation, whether human review is        *)
(* recommended, whether evidence was retrieved and whether every reference *)
(* points into it.                                                         *)
(***************************************************************************)
EXTENDS Naturals, FiniteSets

CONSTANTS
    Policies, \* the policies considered
    Risks     \* the sets of risks a candidate may carry

Levels == {"low", "medium", "high", "critical"}
HighLevels == {"high", "critical"}

Rank == [low |-> 0, medium |-> 1, high |-> 2, critical |-> 3]

RuntimeRiskDecision ==
    {"auto_complete", "complete_with_warning", "require_human_review",
     "block_and_escalate"}

RuntimeRiskPolicy ==
    [medium_risk_decision : RuntimeRiskDecision,
     high_risk_decision : RuntimeRiskDecision,
     critical_risk_decision : RuntimeRiskDecision,
     review_on_insufficient_evidence : BOOLEAN,
     review_on_degraded_execution : BOOLEAN,
     review_on_specialist_unavailable : BOOLEAN,
     review_on_tool_failure : BOOLEAN,
     block_high_risk_invalid_provenance : BOOLEAN,
     block_critical_missing_mitigation : BOOLEAN]

Risk == [severity : Levels, mitigated : BOOLEAN]

ASSUME PolicyAssumption == Policies \subseteq RuntimeRiskPolicy
ASSUME RisksAssumption == Risks \subseteq SUBSET Risk

(* Execution metadata: the graph retrieval of any mode (graph_error covers  *)
(* graph_error_code and vector_error_code), how a single agent terminated,  *)
(* whether a multi-agent run degraded or lost an agent, and tool failures   *)
(* in the trace of either.                                                  *)
Execution ==
    [mode : {"deterministic", "single_agent", "multi_agent"},
     graph_degraded : BOOLEAN, graph_error : BOOLEAN,
     terminated_early : BOOLEAN, degraded_mode : BOOLEAN,
     agent_down : BOOLEAN, tool_failed : BOOLEAN]

Candidate ==
    [risks : Risks, review_recommended : BOOLEAN, evidence : BOOLEAN,
     provenance_valid : BOOLEAN]

QualityGateSignals ==
    [risk_level : Levels, evidence_required : BOOLEAN, evidence_available : BOOLEAN,
     provenance_valid : BOOLEAN, unsupported_claims_detected : BOOLEAN,
     degraded_execution : BOOLEAN, specialist_unavailable : BOOLEAN,
     retrieval_failed : BOOLEAN, tool_failed : BOOLEAN, model_failed : BOOLEAN,
     human_oversight_required : BOOLEAN, human_oversight_present : BOOLEAN,
     mitigations_complete : BOOLEAN]

-----------------------------------------------------------------------------
(* derive_signals *)

RiskLevel(risks) ==
    IF risks = {} THEN "low"
    ELSE CHOOSE l \in {risk.severity : risk \in risks} :
            \A risk \in risks : Rank[risk.severity] <= Rank[l]

derive_signals(candidate, execution) ==
    LET level == RiskLevel(candidate.risks)
        single == execution.mode = "single_agent"
        multi == execution.mode = "multi_agent"
    IN  [risk_level |-> level,
         evidence_required |-> level \in HighLevels,
         evidence_available |-> candidate.evidence,
         provenance_valid |-> candidate.provenance_valid,
         unsupported_claims_detected |-> FALSE,
         degraded_execution |->
            \/ execution.graph_degraded
            \/ single /\ execution.terminated_early
            \/ multi /\ execution.degraded_mode,
         specialist_unavailable |-> multi /\ execution.agent_down,
         retrieval_failed |-> execution.graph_error,
         tool_failed |-> (single \/ multi) /\ execution.tool_failed,
         model_failed |-> FALSE,
         human_oversight_required |-> level \in HighLevels,
         human_oversight_present |-> candidate.review_recommended,
         mitigations_complete |-> \A risk \in candidate.risks : risk.mitigated]

-----------------------------------------------------------------------------
(* RuntimeRiskGate.evaluate *)

risk_decision(level, policy) ==
    CASE level = "critical" -> policy.critical_risk_decision
      [] level = "high"     -> policy.high_risk_decision
      [] level = "medium"   -> policy.medium_risk_decision
      [] OTHER              -> "auto_complete"

priority(decision) ==
    CASE decision = "auto_complete"         -> 0
      [] decision = "complete_with_warning" -> 1
      [] decision = "require_human_review"  -> 2
      [] OTHER                              -> 3

Blocks(s, policy) ==
    \/ s.model_failed
    \/ /\ ~s.provenance_valid
       /\ policy.block_high_risk_invalid_provenance
       /\ s.risk_level \in HighLevels
    \/ /\ ~s.mitigations_complete
       /\ policy.block_critical_missing_mitigation
       /\ s.risk_level = "critical"

(* Faulty variant: the oversight rule is put under a policy switch. *)
review_conditions_optional_oversight(s, policy) ==
    \/ /\ policy.review_on_insufficient_evidence
       /\ \/ s.evidence_required /\ ~s.evidence_available
          \/ s.retrieval_failed
          \/ s.human_oversight_required /\ ~s.human_oversight_present
    \/ s.degraded_execution /\ policy.review_on_degraded_execution
    \/ s.specialist_unavailable /\ policy.review_on_specialist_unavailable
    \/ s.tool_failed /\ policy.review_on_tool_failure
    \/ s.unsupported_claims_detected

(* Faulty variant: an else-if chain whose tool branch hides the retrieval one. *)
review_conditions_chained(s, policy) ==
    \/ /\ s.evidence_required
       /\ ~s.evidence_available
       /\ policy.review_on_insufficient_evidence
    \/ s.degraded_execution /\ policy.review_on_degraded_execution
    \/ s.specialist_unavailable /\ policy.review_on_specialist_unavailable
    \/ IF s.tool_failed THEN policy.review_on_tool_failure
       ELSE s.retrieval_failed /\ policy.review_on_insufficient_evidence
    \/ s.human_oversight_required /\ ~s.human_oversight_present
    \/ s.unsupported_claims_detected

review_conditions(s, policy) ==
    \/ /\ s.evidence_required
       /\ ~s.evidence_available
       /\ policy.review_on_insufficient_evidence
    \/ s.degraded_execution /\ policy.review_on_degraded_execution
    \/ s.specialist_unavailable /\ policy.review_on_specialist_unavailable
    \/ s.tool_failed /\ policy.review_on_tool_failure
    \/ s.retrieval_failed /\ policy.review_on_insufficient_evidence
    \/ s.human_oversight_required /\ ~s.human_oversight_present
    \/ s.unsupported_claims_detected

(* Faulty variant: the review rule ignores how strong the decision already is. *)
evaluate_review_last(s, policy) ==
    IF review_conditions(s, policy) THEN "require_human_review"
    ELSE IF Blocks(s, policy) THEN "block_and_escalate"
    ELSE risk_decision(s.risk_level, policy)

evaluate(s, policy) ==
    LET base == IF Blocks(s, policy) THEN "block_and_escalate"
                ELSE risk_decision(s.risk_level, policy)
    IN  IF /\ review_conditions(s, policy)
           /\ priority(base) < priority("require_human_review")
        THEN "require_human_review"
        ELSE base

(* _reason_codes: one code per signal that is out of order. *)
Triggers(s) ==
    [medium_risk |-> s.risk_level = "medium",
     high_risk |-> s.risk_level = "high",
     critical_risk |-> s.risk_level = "critical",
     insufficient_evidence |-> s.evidence_required /\ ~s.evidence_available,
     invalid_provenance |-> ~s.provenance_valid,
     degraded_execution |-> s.degraded_execution,
     specialist_unavailable |-> s.specialist_unavailable,
     missing_human_oversight |->
        s.human_oversight_required /\ ~s.human_oversight_present,
     missing_risk_mitigation |-> ~s.mitigations_complete,
     unsupported_claim |-> s.unsupported_claims_detected,
     model_failure |-> s.model_failed,
     tool_failure |-> s.tool_failed,
     retrieval_failure |-> s.retrieval_failed]

reason_codes(s) == {code \in DOMAIN Triggers(s) : Triggers(s)[code]}

-----------------------------------------------------------------------------
(* One run of the gate: the workflow delivers a candidate, process_candidate*)
(* derives the signals, applies the caller's signal_overrides (the demo     *)
(* seed turns evidence_required off) and evaluates them.                    *)

VARIABLES
    policy,    \* the policy of this instance
    candidate, \* the validated candidate
    execution, \* the metadata of its execution
    signals,   \* what the gate saw; the neutral signals before it ran
    result     \* gate result: decision and reason codes

gateVars == <<policy, candidate, execution, signals, result>>

NoResult == [decision |-> "none", reasons |-> {}]

Unasked == [decision |-> "unasked", reasons |-> {}]

NoPolicy == {}

NeutralSignals ==
    [risk_level |-> "low", evidence_required |-> FALSE, evidence_available |-> FALSE,
     provenance_valid |-> TRUE, unsupported_claims_detected |-> FALSE,
     degraded_execution |-> FALSE, specialist_unavailable |-> FALSE,
     retrieval_failed |-> FALSE, tool_failed |-> FALSE, model_failed |-> FALSE,
     human_oversight_required |-> FALSE, human_oversight_present |-> TRUE,
     mitigations_complete |-> TRUE]

Overridden(s, overrides) ==
    IF overrides THEN [s EXCEPT !.evidence_required = FALSE] ELSE s

(* No candidate is to be decided about. *)
GateIdle ==
    /\ policy = NoPolicy /\ candidate = {} /\ execution = {}
    /\ signals = NeutralSignals /\ result = Unasked

GateBegin ==
    /\ policy \in Policies
    /\ candidate \in Candidate
    /\ execution \in Execution
    /\ signals = NeutralSignals
    /\ result = NoResult

ProcessCandidate(overrides) ==
    /\ result = NoResult
    /\ signals' = Overridden(derive_signals(candidate, execution), overrides)
    /\ result' = [decision |-> evaluate(signals', policy),
                  reasons |-> reason_codes(signals')]
    /\ UNCHANGED <<policy, candidate, execution>>

GateNext == \E overrides \in BOOLEAN : ProcessCandidate(overrides)

GateSpec == GateBegin /\ [][GateNext]_gateVars

Decided == result.decision \in RuntimeRiskDecision

-----------------------------------------------------------------------------
(* Properties.                                                             *)

TypeOK ==
    /\ policy \in Policies
    /\ candidate \in Candidate
    /\ execution \in Execution
    /\ signals \in QualityGateSignals
    /\ result.decision \in RuntimeRiskDecision \cup {"none"}

(***************************************************************************)
(* "Return the strongest justified outcome": the decision is the strongest *)
(* of everything the policy says about the signals, so no later rule of    *)
(* evaluate weakens an earlier one.                                        *)
(***************************************************************************)
Justified(s, p) ==
    {risk_decision(s.risk_level, p)}
    \cup {d \in {"block_and_escalate"} : Blocks(s, p)}
    \cup {d \in {"require_human_review"} : review_conditions(s, p)}

StrongestOutcome ==
    Decided =>
        /\ result.decision \in Justified(signals, policy)
        /\ \A d \in Justified(signals, policy) :
                priority(d) <= priority(result.decision)

(***************************************************************************)
(* "Machine-readable reason codes explain every non-automatic outcome".    *)
(***************************************************************************)
OutcomeIsExplained ==
    Decided /\ result.decision # "auto_complete" => result.reasons # {}

(***************************************************************************)
(* evaluate and _reason_codes agree with the policy and with each other.   *)
(***************************************************************************)
OutcomeIsJustified == StrongestOutcome /\ OutcomeIsExplained

(***************************************************************************)
(* More trouble never weakens the decision: had any one more signal been   *)
(* out of order at the same risk level, the gate would have decided at     *)
(* least as strictly, under the same policy.                               *)
(***************************************************************************)
Troubled(s) ==
    {[s EXCEPT !.evidence_available = FALSE],
     [s EXCEPT !.provenance_valid = FALSE],
     [s EXCEPT !.unsupported_claims_detected = TRUE],
     [s EXCEPT !.degraded_execution = TRUE],
     [s EXCEPT !.specialist_unavailable = TRUE],
     [s EXCEPT !.retrieval_failed = TRUE],
     [s EXCEPT !.tool_failed = TRUE],
     [s EXCEPT !.model_failed = TRUE],
     [s EXCEPT !.human_oversight_present = FALSE],
     [s EXCEPT !.mitigations_complete = FALSE]}

TroubleNeverWeakens ==
    Decided =>
        \A worse \in Troubled(signals) :
            priority(result.decision) <= priority(evaluate(worse, policy))

(***************************************************************************)
(* Missing human oversight cannot be configured away: a candidate with a   *)
(* high or critical risk that does not recommend human review is never     *)
(* completed by the gate, whatever the policy and the overrides.           *)
(***************************************************************************)
OversightCannotBeSwitchedOff ==
    (/\ Decided
     /\ \E risk \in candidate.risks : risk.severity \in HighLevels
     /\ ~candidate.review_recommended) =>
        result.decision \in {"require_human_review", "block_and_escalate"}
=============================================================================
