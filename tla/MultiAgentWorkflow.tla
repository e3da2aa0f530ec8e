-------------------------- MODULE MultiAgentWorkflow --------------------------
(***************************************************************************)
(* MultiAgentAssessmentWorkflow.run: initialize, the evidence agent with   *)
(* its tool loop, the parallel architecture and risk branches, synthesis   *)
(* and validation.                                                         *)
(*                                                                         *)
(* The graph state is a function of channels <<agent, field>>; the agent   *)
(* "workflow" stands for initialization_trace and execution.  A node       *)
(* returns an update of some channels.  LangGraph (external) runs the two  *)
(* branches in threads of one superstep, waits for both, applies their     *)
(* updates together and raises InvalidUpdateError when both write one      *)
(* channel.                                                                *)
(*                                                                         *)
(* Model answers are inputs: any tool call or none, any brief, failure of  *)
(* any call.  A definition introduced by "Faulty variant" is the definition*)
(* after it with a plausible mistake; the specification does not use it.   *)
(***************************************************************************)
EXTENDS ToolRegistry, FiniteSets

CONSTANTS
    Limits,      \* evidence_agent_max_steps, .._max_tool_calls, max_failures
    Permitted,   \* calls of the tools the evidence agent may use
    Chunks,      \* chunk ids
    Documents,   \* document ids
    DocumentOf,  \* Chunks -> Documents
    BriefItems,  \* the evidence items a model may write
    None

ASSUME LimitsAssumption ==
    Limits \subseteq [steps : Nat \ {0}, tools : Nat \ {0}, failures : 0..2]
ASSUME PermittedAssumption == Permitted \subseteq ToolCalls
ASSUME ObservationAssumption ==
    /\ Observations \subseteq Chunks \cup Documents
    /\ Chunks \cap Documents = {}
    /\ DocumentOf \in [Chunks -> Documents]
ASSUME BriefItemsAssumption ==
    BriefItems \subseteq [documents : SUBSET Documents, chunks : SUBSET Chunks]
(* None is none of the values a channel, an event or a local can have. *)
ASSUME NoneAssumption ==
    None \notin {"evidence", "architecture", "risk_governance", "synthesis",
                 "failed", "analysis", "invalid_update", "too_many_failures",
                 "agent_stopped", "max_steps_reached", "max_tool_calls_reached"}

VARIABLES
    limits,      \* the settings of this deployment
    node,        \* where the graph is, or how the run ended
    state,       \* the graph's channels
    writes,      \* the updates the branches of this superstep have returned
    raised,      \* why the run raised
    step, history, cache, observed, termination, \* locals of gather
    ran          \* fingerprints whose handler ran

vars == <<limits, node, state, writes, raised, step, history, cache, observed,
          termination, ran>>

gathered == <<step, history, cache, observed, termination, ran>>

Specialists == {"evidence", "architecture", "risk_governance"}
Branches == {"architecture", "risk_governance"}
Ended == {"returned", "raised"}

Channels ==
    ((Specialists \cup {"synthesis"}) \X {"output", "status", "error", "trace"})
        \cup {<<"evidence", "observed">>, <<"evidence", "history">>,
              <<"workflow", "trace">>, <<"workflow", "output">>}

Event(agent, type) == [agent |-> agent, type |-> type]

EvidenceBrief(items, documents, chunks) ==
    [items |-> items, documents |-> documents, chunks |-> chunks]

unavailable == EvidenceBrief({}, {}, {})

(* The update of an agent's channels by a record of fields. *)
Update(agent, fields) == [c \in {<<agent, f>> : f \in DOMAIN fields} |-> fields[c[2]]]

NoUpdate == [c \in {} |-> None]

Applied(s, update) ==
    [c \in DOMAIN s |-> IF c \in DOMAIN update THEN update[c] ELSE s[c]]

initialize_multi_agent_state ==
    [c \in Channels |->
        CASE c[2] = "status" -> "pending"
          [] c[2] \in {"trace", "history"} -> <<>>
          [] c[2] = "observed" -> {}
          [] OTHER -> None]

Init ==
    /\ limits \in Limits
    /\ node = "initialize"
    /\ state = initialize_multi_agent_state
    /\ writes = [b \in Branches |-> NoUpdate]
    /\ raised = None
    /\ step = 0 /\ history = <<>> /\ cache = EmptyCache /\ observed = {}
    /\ termination = None /\ ran = {}

Initialize ==
    /\ node = "initialize"
    /\ node' = "evidence"
    /\ state' = Applied(state, Update("workflow",
                    [trace |-> <<Event(None, "workflow_started")>>]))
    /\ UNCHANGED <<limits, writes, raised, gathered>>

-----------------------------------------------------------------------------
(* The evidence agent's loop (gather). *)

Exhausted == step >= limits.steps

AtToolLimit == Len(history) >= limits.tools

(* The loop is left: its range is exhausted, or a limit was reached. *)
GatherAtLimit ==
    /\ node = "evidence"
    /\ Exhausted \/ AtToolLimit
    /\ node' = "brief"
    /\ termination' = IF Exhausted THEN "max_steps_reached" ELSE "max_tool_calls_reached"
    /\ UNCHANGED <<limits, state, writes, raised, step, history, cache, observed, ran>>

Asking == node = "evidence" /\ ~Exhausted /\ ~AtToolLimit

GatherStops ==
    /\ Asking
    /\ node' = "brief"
    /\ step' = step + 1
    /\ termination' = "agent_stopped"
    /\ UNCHANGED <<limits, state, writes, raised, history, cache, observed, ran>>

(* One iteration with a tool call, authorised by AgentToolPermissions. *)
GatherTool(call) ==
    \E x \in permitted_execute(Permitted, call, cache) :
        /\ Asking
        /\ step' = step + 1
        /\ history' = Append(history, [step |-> step', call |-> call, result |-> x.result])
        /\ cache' = x.cache
        /\ observed' = observed \cup x.result.evidence
        /\ ran' = ran \cup x.ran
        /\ UNCHANGED <<limits, node, state, writes, raised, termination>>

-----------------------------------------------------------------------------
(* The evidence node. *)

allowed_chunks == observed \cap Chunks

allowed_documents == {DocumentOf[c] : c \in allowed_chunks} \cup (observed \cap Documents)

(* Faulty variant: an item with one observed source keeps all its sources. *)
sanitize_brief_items(items) ==
    EvidenceBrief(
        {i \in items : i.documents \cap allowed_documents # {} \/ i.chunks \cap allowed_chunks # {}},
        allowed_documents, allowed_chunks)

sanitize_brief(items) ==
    LET kept == {[documents |-> i.documents \cap allowed_documents,
                  chunks |-> i.chunks \cap allowed_chunks] : i \in items}
    IN  EvidenceBrief({i \in kept : i.documents # {} \/ i.chunks # {}},
                      allowed_documents, allowed_chunks)

tool_event_type(result) ==
    IF result.error = "unauthorized_tool" THEN "tool_authorization_denied"
    ELSE IF result.success THEN "tool_completed" ELSE "tool_failed"

ToolTrace ==
    [i \in 1..Len(history) |-> Event("evidence", tool_event_type(history[i].result))]

EvidenceCompletes(items) ==
    /\ node = "brief"
    /\ node' = "branches"
    /\ state' = Applied(state, Update("evidence",
            [output |-> sanitize_brief(items), observed |-> observed, history |-> history,
             status |-> "completed",
             trace |-> <<Event("evidence", "agent_started")>> \o ToolTrace
                         \o <<Event("evidence", "agent_completed")>>]))
    /\ UNCHANGED <<limits, writes, raised, gathered>>

(* gather raises: what it observed is lost, its brief is the unavailable one. *)
EvidenceFails ==
    /\ Asking \/ node = "brief"
    /\ node' = "branches"
    /\ state' = Applied(state, Update("evidence",
            [output |-> unavailable, status |-> "failed", error |-> "failed",
             trace |-> <<Event("evidence", "agent_started"), Event("evidence", "agent_failed"),
                         Event(None, "degraded_mode")>>]))
    /\ UNCHANGED <<limits, writes, raised, gathered>>

-----------------------------------------------------------------------------
(* The two branches of one superstep, and the join. *)

BranchTrace(b, type) == <<Event(b, "agent_started"), Event(b, type)>>

(* Faulty variant: the branches share one trace. *)
CompletedBranchSharing(b) ==
    [c \in {<<b, "output">>, <<b, "status">>, <<"workflow", "trace">>} |->
        CASE c[2] = "output" -> "analysis"
          [] c[2] = "status" -> "completed"
          [] OTHER -> state[c] \o BranchTrace(b, "agent_completed")]

CompletedBranch(b) ==
    Update(b, [output |-> "analysis", status |-> "completed",
               trace |-> BranchTrace(b, "agent_completed")])

(* Faulty variant: only the status tells of the failure. *)
FailedBranchSilent(b) ==
    Update(b, [status |-> "failed", trace |-> BranchTrace(b, "agent_failed")])

FailedBranch(b) ==
    Update(b, [status |-> "failed", error |-> "failed",
               trace |-> BranchTrace(b, "agent_failed")])

(* Faulty variant: a branch is skipped when there is no evidence. *)
BranchReturnsWithEvidence(b, update) ==
    /\ node = "branches"
    /\ state[<<"evidence", "status">>] = "completed"
    /\ writes[b] = NoUpdate
    /\ writes' = [writes EXCEPT ![b] = update]
    /\ UNCHANGED <<limits, node, state, raised, gathered>>

BranchReturns(b, update) ==
    /\ node = "branches"
    /\ writes[b] = NoUpdate
    /\ writes' = [writes EXCEPT ![b] = update]
    /\ UNCHANGED <<limits, node, state, raised, gathered>>

architecture ==
    \/ BranchReturns("architecture", CompletedBranch("architecture"))
    \/ BranchReturns("architecture", FailedBranch("architecture"))

risk_governance ==
    \/ BranchReturns("risk_governance", CompletedBranch("risk_governance"))
    \/ BranchReturns("risk_governance", FailedBranch("risk_governance"))

(* The list-form fan-in edge. *)
ReadyToJoin == \A b \in Branches : writes[b] # NoUpdate

SharedChannels == DOMAIN writes["architecture"] \cap DOMAIN writes["risk_governance"]

Join ==
    /\ node = "branches"
    /\ ReadyToJoin
    /\ node' = IF SharedChannels = {} THEN "synthesis" ELSE "raised"
    /\ raised' = IF SharedChannels = {} THEN raised ELSE "invalid_update"
    /\ state' = IF SharedChannels = {}
                THEN Applied(Applied(state, writes["architecture"]), writes["risk_governance"])
                ELSE state
    /\ UNCHANGED <<limits, writes, gathered>>

-----------------------------------------------------------------------------
(* Synthesis and validation. *)

failures == {a \in Specialists : state[<<a, "error">>] # None}

available ==
    \/ state[<<"evidence", "status">>] = "completed"
    \/ \E b \in Branches : state[<<b, "output">>] # None

MaySynthesize == Cardinality(failures) <= limits.failures /\ available

SynthesisRefused ==
    /\ node = "synthesis"
    /\ ~MaySynthesize
    /\ node' = "raised"
    /\ raised' = "too_many_failures"
    /\ UNCHANGED <<limits, state, writes, gathered>>

SynthesisRaises ==
    /\ node = "synthesis"
    /\ MaySynthesize
    /\ node' = "raised"
    /\ raised' = "synthesis"
    /\ UNCHANGED <<limits, state, writes, gathered>>

(* degradation_reasons names the failed specialists, here by the agent; they*)
(* join the information gaps of the result.                                 *)
degradation_reasons == failures

Synthesize ==
    /\ node = "synthesis"
    /\ MaySynthesize
    /\ node' = "validate"
    /\ state' = Applied(state, Update("synthesis",
            [output |-> [information_gaps |-> degradation_reasons], status |-> "completed",
             trace |-> BranchTrace("synthesis", "agent_completed")]))
    /\ UNCHANGED <<limits, writes, raised, gathered>>

merged_trace ==
    state[<<"workflow", "trace">>] \o state[<<"evidence", "trace">>]
        \o state[<<"architecture", "trace">>] \o state[<<"risk_governance", "trace">>]
        \o state[<<"synthesis", "trace">>] \o <<Event(None, "workflow_completed")>>

Validate ==
    /\ node = "validate"
    /\ node' = "returned"
    /\ state' = Applied(state, Update("workflow",
            [output |-> [statuses |-> [a \in Specialists |-> state[<<a, "status">>]],
                         errors |-> [a \in Specialists |-> state[<<a, "error">>]],
                         tool_calls |-> Len(state[<<"evidence", "history">>]),
                         degradation_reasons |-> degradation_reasons,
                         degraded |-> degradation_reasons # {},
                         trace |-> merged_trace]]))
    /\ UNCHANGED <<limits, writes, raised, gathered>>

Next ==
    \/ Initialize
    \/ GatherAtLimit \/ GatherStops
    \/ \E call \in ToolCalls : GatherTool(call)
    \/ \E items \in SUBSET BriefItems : EvidenceCompletes(items)
    \/ EvidenceFails
    \/ architecture \/ risk_governance
    \/ Join
    \/ SynthesisRefused \/ SynthesisRaises \/ Synthesize
    \/ Validate

Spec == Init /\ [][Next]_vars

(* The run is a synchronous call; both branch threads run, and every model  *)
(* and tool call has a time limit.                                          *)
FairSpec ==
    /\ Spec
    /\ WF_vars(Next)
    /\ WF_vars(architecture)
    /\ WF_vars(risk_governance)

-----------------------------------------------------------------------------
(* Properties.                                                             *)

Returned(h) == UNION {h[i].result.evidence : i \in 1..Len(h)}

(***************************************************************************)
(* The brief both branches and the synthesis work from cites only chunks   *)
(* that tools returned in this run and documents read or behind such       *)
(* chunks, no item without a source, and lists exactly what was retrieved; *)
(* after a failure of the evidence agent it claims nothing.                *)
(***************************************************************************)
BriefIsGrounded ==
    LET brief == state[<<"evidence", "output">>]
        seen == Returned(state[<<"evidence", "history">>])
        documents == {DocumentOf[c] : c \in seen \cap Chunks} \cup (seen \cap Documents)
    IN  brief # None =>
            /\ state[<<"evidence", "observed">>] = seen
            /\ brief.chunks = seen \cap Chunks /\ brief.documents = documents
            /\ \A i \in brief.items :
                /\ i.chunks \subseteq seen /\ i.documents \subseteq documents
                /\ i.chunks # {} \/ i.documents # {}

(***************************************************************************)
(* A handler runs only for a call the evidence agent is permitted; a denied*)
(* call is recorded as such, returns nothing and still counts.             *)
(***************************************************************************)
ToolsAreAuthorized ==
    /\ ran \subseteq {Fingerprint[c] : c \in Permitted \cap Valid}
    /\ \A i \in 1..Len(history) :
        (history[i].call \notin Permitted) <=> (history[i].result.error = "unauthorized_tool")
    /\ observed = Returned(history)
    /\ observed = CachedEvidence(cache)

(***************************************************************************)
(* The loop's two limits hold, each call has a step of its own, and the    *)
(* reason for leaving the loop is what happened.                           *)
(***************************************************************************)
EvidenceBudget ==
    /\ Len(history) <= limits.tools
    /\ Len(history) \in {step, step - 1}
    /\ termination = "agent_stopped" => Len(history) = step - 1
    /\ termination = "max_steps_reached" => Len(history) = limits.steps
    /\ termination = "max_tool_calls_reached" =>
            Len(history) = limits.tools /\ limits.tools < limits.steps

(***************************************************************************)
(* What the evidence agent gathers is permitted, bounded and observed, from*)
(* the first tool call to the brief the other agents see.                  *)
(***************************************************************************)
GatheringIsSound == BriefIsGrounded /\ ToolsAreAuthorized /\ EvidenceBudget

(***************************************************************************)
(* "The branches write to separate typed state keys, so convergence never  *)
(* depends on completion order": no update is refused or lost, and the     *)
(* synthesis sees what both branches returned.                             *)
(***************************************************************************)
BranchesConverge ==
    /\ raised # "invalid_update"
    /\ node \in {"synthesis", "validate"} =>
            \A b \in Branches :
                /\ <<b, "status">> \in DOMAIN writes[b]
                /\ \A c \in DOMAIN writes[b] : state[c] = writes[b][c]

Failed == {a \in Specialists : state[<<a, "status">>] = "failed"}

(***************************************************************************)
(* "Successful completion requires synthesis and at least one available    *)
(* specialist analysis", and the budget is exact: no more failures than    *)
(* MULTI_AGENT_MAX_FAILURES, and a run within the budget is not refused.   *)
(***************************************************************************)
FailureBudget ==
    /\ node \in {"validate", "returned"} =>
            Cardinality(Failed) <= limits.failures /\ Failed # Specialists
    /\ raised = "too_many_failures" => Cardinality(Failed) > limits.failures

(***************************************************************************)
(* A returned result hides no failed specialist: the metadata's statuses,  *)
(* errors and reasons and the result's information gaps name the same ones.*)
(***************************************************************************)
FailuresAreDisclosed ==
    node = "returned" =>
        LET execution == state[<<"workflow", "output">>]
        IN  /\ execution.degradation_reasons = Failed
            /\ {a \in Specialists : execution.errors[a] # None} = Failed
            /\ {a \in Specialists : execution.statuses[a] = "failed"} = Failed
            /\ state[<<"synthesis", "output">>].information_gaps = Failed
            /\ execution.degraded <=> Failed # {}

(***************************************************************************)
(* Failed specialists: never more than the budget, never a run refused     *)
(* within it, and never one a returned result keeps quiet about.           *)
(***************************************************************************)
FailuresAreHandled == FailureBudget /\ FailuresAreDisclosed

Rank == [a \in Specialists \cup {"synthesis"} |->
            CASE a = "evidence" -> 1 [] a = "architecture" -> 2
              [] a = "risk_governance" -> 3 [] OTHER -> 4]

(* Where the events of an agent are in the merged trace. *)
AgentEvents(a) ==
    LET trace == state[<<"workflow", "output">>].trace
    IN  {i \in 1..Len(trace) : trace[i].agent = a}

(***************************************************************************)
(* The merged trace tells the run in the fixed order of the agents however *)
(* the branches interleaved: each agent starts once, ends once and as its  *)
(* status says, and the evidence agent's tool events are its history.      *)
(***************************************************************************)
TraceTellsTheRun ==
    node = "returned" =>
        LET execution == state[<<"workflow", "output">>]
            trace == execution.trace
        IN  /\ \A i, j \in 1..Len(trace) :
                (i < j /\ trace[i].agent # None /\ trace[j].agent # None) =>
                    Rank[trace[i].agent] <= Rank[trace[j].agent]
            /\ \A a \in Specialists \cup {"synthesis"} :
                \E first, last \in AgentEvents(a) :
                    \A i \in AgentEvents(a) :
                        /\ first <= i /\ i <= last
                        /\ (trace[i].type = "agent_started") <=> (i = first)
                        /\ (trace[i].type = "agent_completed") <=> (i = last /\ a \notin Failed)
                        /\ (trace[i].type = "agent_failed") <=> (i = last /\ a \in Failed)
            /\ Cardinality(AgentEvents("evidence")) = execution.tool_calls + 2
            /\ "evidence" \notin Failed => execution.tool_calls = Len(history)

(***************************************************************************)
(* However the branches' threads interleave, the fan-in loses nothing of   *)
(* either, and the merged trace reads as if they had run in turn.          *)
(***************************************************************************)
BranchesMerge == BranchesConverge /\ TraceTellsTheRun

(***************************************************************************)
(* The run ends, with a result or an error.                                *)
(***************************************************************************)
Terminates == <>(node \in Ended)
=============================================================================
