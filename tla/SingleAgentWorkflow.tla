------------------------- MODULE SingleAgentWorkflow -------------------------
(***************************************************************************)
(* AgenticAssessmentWorkflow.run: the LangGraph loop reason -> execute_tool*)
(* -> reason ... -> synthesize or fail, with its own limits on steps and   *)
(* tool calls and LangGraph's recursion limit around it.                   *)
(*                                                                         *)
(* LangGraph (external) runs one node per superstep; the hidden start node *)
(* takes superstep 0, and before every superstep, the empty one after the  *)
(* last node included, it raises GraphRecursionError when the superstep's  *)
(* number exceeds the limit.                                               *)
(*                                                                         *)
(* The agent's decision is an input: no tool call, any tool call, fail (the*)
(* graph handles it; the built-in agent never decides so), or a provider   *)
(* error.                                                                  *)
(*                                                                         *)
(* A definition introduced by "Faulty variant" is the definition after it  *)
(* with a plausible mistake; the specification does not use it.            *)
(***************************************************************************)
EXTENDS ToolRegistry, FiniteSets

CONSTANTS
    Limits, \* settings: AGENTIC_WORKFLOW_ENABLED and the three limits; when the
            \* flag is off, EXECUTION_MODE_OVERRIDE forced this workflow
    NoCall  \* no pending tool call

ASSUME LimitsAssumption ==
    Limits \subseteq [agentic : BOOLEAN, steps : Nat \ {0}, tools : Nat \ {0},
                      recursion : Nat \ {0}]
ASSUME NoCallAssumption == NoCall \notin ToolCalls

VARIABLES
    limits,          \* the settings of this deployment
    node,            \* the node LangGraph runs next, or how the run ended
    superstep,       \* the number of the next superstep
    step,            \* reasoning steps
    tool_calls_used, \* tool calls counted
    pending,         \* the tool call reason asked for
    history,         \* tool_history
    cache,           \* tool_cache
    evidence,        \* retrieved_evidence and observed_documents
    trace,           \* trace events
    termination,     \* termination_reason
    error,           \* the state's error, or what the run raised
    final_result,    \* whether the state holds a result
    ran              \* fingerprint -> how often its handler ran

vars == <<limits, node, superstep, step, tool_calls_used, pending, history, cache,
          evidence, trace, termination, error, final_result, ran>>

observed == <<tool_calls_used, history, cache, evidence, ran>>

Ended == {"returned", "raised"}

TraceEvent(type) == [type |-> type, step |-> step]

(* Settings validation: validate_chunk_settings checks the recursion limit  *)
(* only when the agentic workflow is enabled.                               *)
Validated ==
    {l \in Limits : l.agentic => l.recursion >= 2 * l.steps + 3}

Init ==
    /\ limits \in Validated
    /\ node = "reason" /\ superstep = 1
    /\ step = 0 /\ tool_calls_used = 0 /\ pending = NoCall
    /\ history = <<>> /\ cache = EmptyCache /\ evidence = {} /\ trace = <<>>
    /\ termination = "none" /\ error = "none" /\ final_result = FALSE
    /\ ran = [f \in Fingerprints |-> 0]

(* No run is under way. *)
WorkflowIdle ==
    /\ limits = [agentic |-> TRUE, steps |-> 1, tools |-> 1, recursion |-> 5]
    /\ node = "raised" /\ superstep = 1
    /\ step = 0 /\ tool_calls_used = 0 /\ pending = NoCall
    /\ history = <<>> /\ cache = EmptyCache /\ evidence = {} /\ trace = <<>>
    /\ termination = "none" /\ error = "none" /\ final_result = FALSE
    /\ ran = [f \in Fingerprints |-> 0]

(* LangGraph runs node n in the next superstep. *)
Superstep(n) ==
    /\ node = n
    /\ superstep <= limits.recursion
    /\ superstep' = superstep + 1
    /\ UNCHANGED limits

OutOfSteps ==
    /\ node \notin Ended
    /\ superstep > limits.recursion
    /\ node' = "raised"
    /\ error' = "recursion_limit"
    /\ UNCHANGED <<limits, superstep, step, observed, pending, trace, termination,
                   final_result>>

-----------------------------------------------------------------------------
(* reason *)

(* Faulty variant: off by one. *)
AtStepLimitLate == step > limits.steps

AtStepLimit == step >= limits.steps

AtToolLimit == tool_calls_used >= limits.tools

LimitReason == IF AtStepLimit THEN "max_steps_reached" ELSE "max_tool_calls_reached"

(* A limit was reached: synthesis is forced. *)
ReasonAtLimit ==
    /\ Superstep("reason")
    /\ AtStepLimit \/ AtToolLimit
    /\ node' = "synthesize"
    /\ termination' = LimitReason
    /\ trace' = Append(trace, TraceEvent(LimitReason))
    /\ UNCHANGED <<step, observed, pending, error, final_result>>

(* The agent is asked; its step counts before it answers. *)
Reason ==
    /\ Superstep("reason")
    /\ ~AtStepLimit /\ ~AtToolLimit
    /\ step' = step + 1
    /\ UNCHANGED <<observed, error, final_result>>

ReasonTool(call) ==
    /\ Reason
    /\ node' = "execute_tool"
    /\ pending' = call
    /\ trace' = trace \o <<[type |-> "reasoning_started", step |-> step'],
                           [type |-> "tool_requested", step |-> step']>>
    /\ UNCHANGED termination

ReasonStop(action) ==
    /\ Reason
    /\ node' = action
    /\ pending' = NoCall
    /\ termination' = IF action = "synthesize" THEN "agent_stopped" ELSE "failed"
    /\ trace' = Append(trace, [type |-> "reasoning_started", step |-> step'])

(* decide raises (provider error): the node's updates are lost. *)
ReasonRaises ==
    /\ Superstep("reason")
    /\ ~AtStepLimit /\ ~AtToolLimit
    /\ node' = "raised"
    /\ error' = "provider_error"
    /\ UNCHANGED <<step, observed, pending, trace, termination, final_result>>

-----------------------------------------------------------------------------
(* execute_tool *)

(* Faulty variant: a cached answer counts as completed. *)
ToolEventCached(result) ==
    TraceEvent(IF result.cached \/ result.success THEN "tool_completed" ELSE "tool_failed")

ToolEvent(result) ==
    TraceEvent(IF result.success THEN "tool_completed" ELSE "tool_failed")

Observed(result) == evidence \cup result.evidence

(* The node's update after the call went as x. *)
RecordTool(x) ==
    /\ Superstep("execute_tool")
    /\ node' = "reason"
    /\ tool_calls_used' = tool_calls_used + 1
    /\ pending' = NoCall
    /\ history' = Append(history, [step |-> step, call |-> pending, result |-> x.result])
    /\ cache' = x.cache
    /\ evidence' = Observed(x.result)
    /\ trace' = Append(trace, ToolEvent(x.result))
    /\ ran' = [f \in Fingerprints |-> IF f \in x.ran THEN ran[f] + 1 ELSE ran[f]]
    /\ UNCHANGED <<step, termination, error, final_result>>

(* Faulty variant: a failed call is tried again inside the node. *)
ExecuteToolRetrying ==
    \E x \in execute(pending, cache) : x.result.success /\ RecordTool(x)

ExecuteTool == \E x \in execute(pending, cache) : RecordTool(x)

-----------------------------------------------------------------------------
(* synthesize, fail, and the end of run *)

Synthesize ==
    LET reason == IF termination = "none" THEN "completed" ELSE termination
    IN  /\ Superstep("synthesize")
        /\ node' = "end"
        /\ final_result' = TRUE
        /\ termination' = reason
        /\ trace' = trace \o <<TraceEvent("synthesis_started"),
                               TraceEvent("workflow_completed")>>
        /\ UNCHANGED <<step, observed, pending, error>>

SynthesizeRaises ==
    /\ Superstep("synthesize")
    /\ node' = "raised"
    /\ error' = "provider_error"
    /\ UNCHANGED <<step, observed, pending, trace, termination, final_result>>

Fail ==
    /\ Superstep("fail")
    /\ node' = "end"
    /\ error' = "agent_terminated_without_result"
    /\ termination' = "failed"
    /\ trace' = Append(trace, TraceEvent("workflow_failed"))
    /\ UNCHANGED <<step, observed, pending, final_result>>

Delivers == final_result /\ termination # "none" /\ error = "none"

(* The empty superstep, then run checks the state. *)
Finish ==
    /\ Superstep("end")
    /\ node' = IF Delivers THEN "returned" ELSE "raised"
    /\ UNCHANGED <<step, observed, pending, trace, termination, error, final_result>>

Next ==
    \/ ReasonAtLimit \/ ReasonRaises
    \/ \E call \in ToolCalls : ReasonTool(call)
    \/ \E action \in {"synthesize", "fail"} : ReasonStop(action)
    \/ ExecuteTool
    \/ Synthesize \/ SynthesizeRaises \/ Fail
    \/ Finish \/ OutOfSteps

Spec == Init /\ [][Next]_vars

(* The run is one synchronous call whose provider and tool calls all have   *)
(* time limits, so it always makes its next step.                           *)
FairSpec == Spec /\ WF_vars(Next)

-----------------------------------------------------------------------------
(* Properties.                                                             *)

(***************************************************************************)
(* "LANGGRAPH_RECURSION_LIMIT is an outer graph guard": with the settings  *)
(* validated for the agentic workflow, its own limits always bite before   *)
(* LangGraph's, which would throw away all evidence.                       *)
(***************************************************************************)
LimitsBiteFirst == limits.agentic => error # "recursion_limit"

(***************************************************************************)
(* "Max-step and max-tool-call checks force deterministic synthesis with   *)
(* available context": under all settings the program accepts, also when   *)
(* the override forced this workflow.                                      *)
(***************************************************************************)
SynthesisIsForced == error # "recursion_limit"

(***************************************************************************)
(* AGENT_MAX_STEPS bounds the reasoning decisions and AGENT_MAX_TOOL_CALLS *)
(* all tool requests, cache hits and rejected calls included; a tool call  *)
(* belongs to a reasoning step of its own.                                 *)
(***************************************************************************)
WithinBudget ==
    /\ step <= limits.steps
    /\ Len(history) = tool_calls_used
    /\ tool_calls_used <= limits.tools
    /\ \A i, j \in 1..Len(history) : i < j => history[i].step < history[j].step

(***************************************************************************)
(* The three limits around the loop: the two of the reason node hold, and  *)
(* with validated settings they are what ends it.                          *)
(***************************************************************************)
LimitsHold == LimitsBiteFirst /\ WithinBudget

(***************************************************************************)
(* Identical calls are reused within one execution: no handler runs twice  *)
(* for one fingerprint, also when it failed or timed out, and a call the   *)
(* registry rejects runs none.                                             *)
(***************************************************************************)
HandlerRunsOnce ==
    \A f \in Fingerprints :
        /\ ran[f] = IF cache[f] = NoResult THEN 0 ELSE 1
        /\ cache[f] # NoResult =>
            \E i \in 1..Len(history) :
                /\ history[i].call \in Valid
                /\ Fingerprint[history[i].call] = f

(***************************************************************************)
(* The evidence the synthesis sees is all the evidence any tool returned,  *)
(* and nothing else: later calls, cached answers and failures lose none.   *)
(***************************************************************************)
EvidenceIsObserved ==
    /\ evidence = UNION {history[i].result.evidence : i \in 1..Len(history)}
    /\ evidence = CachedEvidence(cache)

ToolEvents == {i \in 1..Len(trace) : trace[i].type \in {"tool_completed", "tool_failed"}}

(***************************************************************************)
(* The gate reads tool failures from the trace, the agent reads them from  *)
(* the history: the trace has exactly the tool events of the history, in   *)
(* its order and steps (every tool call has a step of its own).            *)
(***************************************************************************)
TraceMatchesHistory ==
    /\ \A k \in 1..Len(history) : \E i \in ToolEvents :
        /\ trace[i].step = history[k].step
        /\ (trace[i].type = "tool_failed") <=> ~history[k].result.success
    /\ \A i \in ToolEvents : \E k \in 1..Len(history) : trace[i].step = history[k].step
    /\ \A i, j \in ToolEvents : i < j => trace[i].step < trace[j].step

(***************************************************************************)
(* A result is returned only after one synthesis, and the reason it reports*)
(* (from which the gate derives a degraded execution) is what happened: the*)
(* agent stopped by itself at a step without a tool call, or every step had*)
(* one and a limit was used up.                                            *)
(***************************************************************************)
ReasonIsTruthful ==
    node = "returned" =>
        /\ Cardinality({i \in 1..Len(trace) : trace[i].type = "workflow_completed"}) = 1
        /\ \/ termination = "agent_stopped" /\ Len(history) = step - 1
           \/ /\ termination = "max_steps_reached"
              /\ Len(history) = step /\ step = limits.steps
           \/ /\ termination = "max_tool_calls_reached"
              /\ Len(history) = step /\ step = limits.tools /\ step < limits.steps

(***************************************************************************)
(* What the run reports is what it did: its evidence, its trace and the    *)
(* reason it gives for ending can all be read off its tool history.        *)
(***************************************************************************)
ReportIsTruthful == EvidenceIsObserved /\ TraceMatchesHistory /\ ReasonIsTruthful

(***************************************************************************)
(* The loop ends, with a result or an error, whatever the model asks for.  *)
(***************************************************************************)
Terminates == <>(node \in Ended)
=============================================================================
