-------------------------- MODULE RuntimeGateProofs --------------------------
(***************************************************************************)
(* Proofs about RuntimeGate, for every set of policies and candidates.     *)
(***************************************************************************)
EXTENDS RuntimeGate, TLAPS

(* The order of the levels. *)
LEMMA RankValues ==
    /\ Rank["low"] = 0 /\ Rank["medium"] = 1 /\ Rank["high"] = 2 /\ Rank["critical"] = 3
  BY DEF Rank

(* A set of levels that is not empty has a highest one. *)
LEMMA HighestLevel ==
    ASSUME NEW S \in SUBSET Levels, S # {}
    PROVE  \E l \in S : \A m \in S : Rank[m] <= Rank[l]
  <1> USE RankValues DEF Levels
  <1>1. CASE "critical" \in S
    <2>1. \A m \in S : Rank[m] <= Rank["critical"]
      OBVIOUS
    <2> QED BY <1>1, <2>1
  <1>2. CASE "critical" \notin S /\ "high" \in S
    <2>1. \A m \in S : Rank[m] <= Rank["high"]
      BY <1>2
    <2> QED BY <1>2, <2>1
  <1>3. CASE "critical" \notin S /\ "high" \notin S /\ "medium" \in S
    <2>1. \A m \in S : Rank[m] <= Rank["medium"]
      BY <1>3
    <2> QED BY <1>3, <2>1
  <1>4. CASE "critical" \notin S /\ "high" \notin S /\ "medium" \notin S
    <2>1. \A m \in S : m = "low"
      BY <1>4
    <2>2. PICK l \in S : TRUE
      OBVIOUS
    <2>3. \A m \in S : Rank[m] <= Rank[l]
      BY <2>1
    <2> QED BY <2>3
  <1> QED BY <1>1, <1>2, <1>3, <1>4

(* The level of a candidate is the highest severity among its risks: the    *)
(* CHOOSE of RiskLevel always finds one.                                    *)
LEMMA RiskLevelIsHighest ==
    ASSUME NEW risks \in SUBSET Risk
    PROVE  /\ RiskLevel(risks) \in Levels
           /\ \A risk \in risks : Rank[risk.severity] <= Rank[RiskLevel(risks)]
  <1>2. CASE risks = {}
    BY <1>2 DEF RiskLevel, Levels
  <1>3. CASE risks # {}
    <2> DEFINE S == {risk.severity : risk \in risks}
    <2>1. S \subseteq Levels /\ S # {}
      BY <1>3 DEF Risk
    <2>2. \E l \in S : \A m \in S : Rank[m] <= Rank[l]
      BY <2>1, HighestLevel
    <2>3. \E l \in S : \A risk \in risks : Rank[risk.severity] <= Rank[l]
      BY <2>2
    <2>4. /\ RiskLevel(risks) \in S
          /\ \A risk \in risks : Rank[risk.severity] <= Rank[RiskLevel(risks)]
      BY <2>3, <1>3 DEF RiskLevel
    <2> QED BY <2>1, <2>4
  <1> QED BY <1>2, <1>3

(* A candidate with a high or critical risk has a high or critical level.   *)
LEMMA HighRiskIsHigh ==
    ASSUME NEW risks \in SUBSET Risk, NEW risk \in risks, risk.severity \in HighLevels
    PROVE  RiskLevel(risks) \in HighLevels
  BY RankValues, RiskLevelIsHighest DEF Levels, HighLevels

(* derive_signals returns signals. *)
LEMMA SignalTypes ==
    ASSUME NEW c \in Candidate, NEW x \in Execution
    PROVE  derive_signals(c, x) \in QualityGateSignals
  <1>1. c.risks \in SUBSET Risk
    BY RisksAssumption DEF Candidate
  <1>2. RiskLevel(c.risks) \in Levels
    BY <1>1, RiskLevelIsHighest
  <1>3. c.evidence \in BOOLEAN /\ c.provenance_valid \in BOOLEAN /\ c.review_recommended \in BOOLEAN
    BY DEF Candidate
  <1>4. x.graph_error \in BOOLEAN
    BY DEF Execution
  <1> QED BY <1>2, <1>3, <1>4 DEF derive_signals, QualityGateSignals

(* The decision of evaluate is one of the four, and the four are ordered.   *)
LEMMA DecisionTypes ==
    ASSUME NEW s \in QualityGateSignals, NEW p \in RuntimeRiskPolicy
    PROVE  /\ risk_decision(s.risk_level, p) \in RuntimeRiskDecision
           /\ evaluate(s, p) \in RuntimeRiskDecision
  <1>1. risk_decision(s.risk_level, p) \in RuntimeRiskDecision
    BY DEF risk_decision, RuntimeRiskPolicy, RuntimeRiskDecision
  <1> QED BY <1>1 DEF evaluate, RuntimeRiskDecision

-----------------------------------------------------------------------------
(* What the gate decided, in every reachable state. *)
GateInv ==
    /\ TypeOK
    /\ Decided =>
        /\ result.decision = evaluate(signals, policy)
        /\ result.reasons = reason_codes(signals)
        /\ \E overrides \in BOOLEAN :
                signals = Overridden(derive_signals(candidate, execution), overrides)

(* process_candidate stores the decision of the gate on the signals it      *)
(* stores.                                                                  *)
THEOREM GateInvariance == GateSpec => []GateInv
  <1>1. GateBegin => GateInv
    <2> SUFFICES ASSUME GateBegin PROVE GateInv
      OBVIOUS
    <2>1. NeutralSignals \in QualityGateSignals
      BY DEF NeutralSignals, QualityGateSignals, Levels
    <2> QED BY <2>1 DEF GateBegin, GateInv, TypeOK, Decided, NoResult, RuntimeRiskDecision
  <1>2. GateInv /\ [GateNext]_gateVars => GateInv'
    <2> SUFFICES ASSUME GateInv, [GateNext]_gateVars PROVE GateInv'
      OBVIOUS
    <2>1. CASE UNCHANGED gateVars
      BY <2>1 DEF gateVars, GateInv, TypeOK, Decided
    <2>2. ASSUME NEW overrides \in BOOLEAN, ProcessCandidate(overrides)
          PROVE  GateInv'
      <3>1. derive_signals(candidate, execution) \in QualityGateSignals
        BY SignalTypes DEF GateInv, TypeOK
      <3>2. signals' \in QualityGateSignals
        BY <2>2, <3>1 DEF ProcessCandidate, Overridden, QualityGateSignals
      <3>3. policy \in RuntimeRiskPolicy
        BY PolicyAssumption DEF GateInv, TypeOK
      <3>4. evaluate(signals', policy) \in RuntimeRiskDecision
        BY <3>2, <3>3, DecisionTypes
      <3>5. /\ result'.decision = evaluate(signals', policy)
            /\ result'.reasons = reason_codes(signals')
        BY <2>2 DEF ProcessCandidate
      <3>6. policy' = policy /\ candidate' = candidate /\ execution' = execution
        BY <2>2 DEF ProcessCandidate
      <3>7. TypeOK'
        BY <3>2, <3>4, <3>5, <3>6 DEF GateInv, TypeOK
      <3>8. signals' = Overridden(derive_signals(candidate', execution'), overrides)
        BY <2>2, <3>6 DEF ProcessCandidate
      <3> QED BY <3>5, <3>6, <3>7, <3>8 DEF GateInv
    <2> QED BY <2>1, <2>2 DEF GateNext
  <1> QED BY <1>1, <1>2, PTL DEF GateSpec

(* evaluate returns the strongest of what the policy says about the signals. *)
LEMMA EvaluateIsStrongest ==
    ASSUME NEW s \in QualityGateSignals, NEW p \in RuntimeRiskPolicy
    PROVE  /\ evaluate(s, p) \in Justified(s, p)
           /\ \A d \in Justified(s, p) : priority(d) <= priority(evaluate(s, p))
  <1> DEFINE base == risk_decision(s.risk_level, p)
  <1>1. base \in RuntimeRiskDecision
    BY DecisionTypes
  <1>2. /\ priority("auto_complete") = 0 /\ priority("complete_with_warning") = 1
        /\ priority("require_human_review") = 2 /\ priority("block_and_escalate") = 3
    BY DEF priority
  <1> HIDE DEF base
  <1>3. CASE Blocks(s, p)
    <2>1. evaluate(s, p) = "block_and_escalate"
      BY <1>2, <1>3 DEF evaluate
    <2> QED BY <2>1, <1>1, <1>2, <1>3 DEF Justified, RuntimeRiskDecision, base
  <1>4. CASE ~Blocks(s, p)
    <2>1. evaluate(s, p) = IF review_conditions(s, p) /\ priority(base) < 2
                           THEN "require_human_review" ELSE base
      BY <1>2, <1>4 DEF evaluate, base
    <2>2. Justified(s, p) = {base} \cup {d \in {"require_human_review"} : review_conditions(s, p)}
      BY <1>4 DEF Justified, base
    <2>3. priority(base) \in 0..3
      BY <1>1, <1>2 DEF RuntimeRiskDecision
    <2> QED BY <2>1, <2>2, <2>3, <1>2
  <1> QED BY <1>3, <1>4

(* The gate returns the strongest justified outcome.                        *)
THEOREM GateIsStrongest == GateSpec => []StrongestOutcome
  <1>1. GateInv => StrongestOutcome
    BY EvaluateIsStrongest, PolicyAssumption DEF GateInv, TypeOK, StrongestOutcome
  <1> QED BY <1>1, GateInvariance, PTL

(* Any decision but auto_complete has a reason code.                         *)
LEMMA ReasonExists ==
    ASSUME NEW s \in QualityGateSignals, NEW p \in RuntimeRiskPolicy,
           evaluate(s, p) # "auto_complete"
    PROVE  reason_codes(s) # {}
  <1> DEFINE T == Triggers(s)
  <1>1. DOMAIN T = {"medium_risk", "high_risk", "critical_risk", "insufficient_evidence",
                    "invalid_provenance", "degraded_execution", "specialist_unavailable",
                    "missing_human_oversight", "missing_risk_mitigation",
                    "unsupported_claim", "model_failure", "tool_failure",
                    "retrieval_failure"}
    BY DEF Triggers
  <1>2. \A code \in DOMAIN T : T[code] => reason_codes(s) # {}
    BY DEF reason_codes
  <1>3. CASE s.risk_level # "low"
    <2>1. T["medium_risk"] \/ T["high_risk"] \/ T["critical_risk"]
      BY <1>3 DEF Triggers, QualityGateSignals, Levels
    <2> QED BY <2>1, <1>1, <1>2
  <1>4. CASE s.risk_level = "low"
    <2>1. Blocks(s, p) \/ review_conditions(s, p)
      BY <1>4 DEF evaluate, risk_decision
    <2>2. CASE Blocks(s, p)
      <3>1. T["model_failure"]
        BY <1>4, <2>2 DEF Blocks, Triggers, HighLevels
      <3> QED BY <3>1, <1>1, <1>2
    <2>3. CASE review_conditions(s, p)
      <3>1. \/ T["insufficient_evidence"] \/ T["degraded_execution"]
            \/ T["specialist_unavailable"] \/ T["tool_failure"] \/ T["retrieval_failure"]
            \/ T["missing_human_oversight"] \/ T["unsupported_claim"]
        BY <2>3 DEF review_conditions, Triggers
      <3> QED BY <3>1, <1>1, <1>2
    <2> QED BY <2>1, <2>2, <2>3
  <1> QED BY <1>3, <1>4

(* Reason codes explain every outcome that is not automatic.                *)
THEOREM GateExplains == GateSpec => []OutcomeIsExplained
  <1>1. GateInv => OutcomeIsExplained
    BY ReasonExists, PolicyAssumption DEF GateInv, TypeOK, OutcomeIsExplained
  <1> QED BY <1>1, GateInvariance, PTL

(* The decision and its reason codes agree with the policy.                 *)
THEOREM GateIsJustified == GateSpec => []OutcomeIsJustified
  <1>1. StrongestOutcome /\ OutcomeIsExplained => OutcomeIsJustified
    BY DEF OutcomeIsJustified
  <1> QED BY <1>1, GateIsStrongest, GateExplains, PTL

(* One more signal out of order at the same level keeps every rule that     *)
(* applied.                                                                 *)
LEMMA TroubleKeepsRules ==
    ASSUME NEW s \in QualityGateSignals, NEW p \in RuntimeRiskPolicy, NEW w \in Troubled(s)
    PROVE  /\ w \in QualityGateSignals
           /\ w.risk_level = s.risk_level
           /\ Blocks(s, p) => Blocks(w, p)
           /\ review_conditions(s, p) => review_conditions(w, p)
  <1>1. w \in QualityGateSignals /\ w.risk_level = s.risk_level
    BY DEF Troubled, QualityGateSignals
  <1>2. /\ s.model_failed => w.model_failed
        /\ w.provenance_valid => s.provenance_valid
        /\ w.mitigations_complete => s.mitigations_complete
    BY DEF Troubled, QualityGateSignals
  <1>3. /\ w.evidence_required = s.evidence_required
        /\ w.human_oversight_required = s.human_oversight_required
        /\ w.evidence_available => s.evidence_available
        /\ w.human_oversight_present => s.human_oversight_present
        /\ s.degraded_execution => w.degraded_execution
        /\ s.specialist_unavailable => w.specialist_unavailable
        /\ s.tool_failed => w.tool_failed
        /\ s.retrieval_failed => w.retrieval_failed
        /\ s.unsupported_claims_detected => w.unsupported_claims_detected
    BY DEF Troubled, QualityGateSignals
  <1>4. Blocks(s, p) => Blocks(w, p)
    BY <1>1, <1>2 DEF Blocks
  <1>5. review_conditions(s, p) => review_conditions(w, p)
    BY <1>3 DEF review_conditions
  <1> QED BY <1>1, <1>4, <1>5

(* More trouble never weakens the decision.                                 *)
THEOREM GateIsMonotone == GateSpec => []TroubleNeverWeakens
  <1>1. ASSUME NEW s \in QualityGateSignals, NEW p \in RuntimeRiskPolicy,
               NEW w \in Troubled(s)
        PROVE  priority(evaluate(s, p)) <= priority(evaluate(w, p))
    <2>1. w \in QualityGateSignals /\ Justified(s, p) \subseteq Justified(w, p)
      BY TroubleKeepsRules DEF Justified
    <2> QED BY <2>1, EvaluateIsStrongest
  <1>2. GateInv => TroubleNeverWeakens
    BY <1>1, PolicyAssumption DEF GateInv, TypeOK, TroubleNeverWeakens
  <1> QED BY <1>2, GateInvariance, PTL

(* A high or critical risk without a recommended review is never completed  *)
(* by the gate.                                                             *)
THEOREM OversightProved == GateSpec => []OversightCannotBeSwitchedOff
  <1>1. ASSUME GateInv, Decided, NEW risk \in candidate.risks,
               risk.severity \in HighLevels, ~candidate.review_recommended
        PROVE  result.decision \in {"require_human_review", "block_and_escalate"}
    <2>1. /\ signals \in QualityGateSignals /\ policy \in RuntimeRiskPolicy
          /\ candidate.risks \in SUBSET Risk
          /\ result.decision = evaluate(signals, policy)
      BY <1>1, PolicyAssumption, RisksAssumption DEF GateInv, TypeOK, Candidate
    <2>2. RiskLevel(candidate.risks) \in HighLevels
      BY <1>1, <2>1, HighRiskIsHigh
    <2>3. /\ derive_signals(candidate, execution).human_oversight_required
          /\ ~derive_signals(candidate, execution).human_oversight_present
      BY <1>1, <2>2 DEF derive_signals
    <2>4. derive_signals(candidate, execution) \in QualityGateSignals
      BY <1>1, SignalTypes DEF GateInv, TypeOK
    <2>5. signals.human_oversight_required /\ ~signals.human_oversight_present
      BY <1>1, <2>3, <2>4 DEF GateInv, Overridden, QualityGateSignals
    <2>6. review_conditions(signals, policy)
      BY <2>5 DEF review_conditions
    <2>7. priority("require_human_review") <= priority(evaluate(signals, policy))
      BY <2>1, <2>6, EvaluateIsStrongest DEF Justified
    <2>8. evaluate(signals, policy) \in RuntimeRiskDecision
      BY <2>1, DecisionTypes
    <2> QED BY <2>1, <2>7, <2>8 DEF priority, RuntimeRiskDecision
  <1>2. GateInv => OversightCannotBeSwitchedOff
    BY <1>1 DEF OversightCannotBeSwitchedOff
  <1> QED BY <1>2, GateInvariance, PTL
=============================================================================
