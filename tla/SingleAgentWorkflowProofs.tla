----------------------- MODULE SingleAgentWorkflowProofs -----------------------
(***************************************************************************)
(* Proofs about SingleAgentWorkflow for all settings the program accepts,  *)
(* all tools and whatever the model asks for.                              *)
(***************************************************************************)
EXTENDS SingleAgentWorkflow, FiniteSetTheorems, TLAPS

HistoryEntry == [step : Nat, call : ToolCalls, result : ToolExecutionResult]

CacheType == [Fingerprints -> ToolExecutionResult \cup {NoResult}]

(* Where the superstep and the counters are at each node: two supersteps    *)
(* per reasoning step with a tool call.                                     *)
Counted ==
    /\ node = "reason" => superstep = 2 * step + 1 /\ tool_calls_used = step
    /\ node = "execute_tool" =>
            /\ superstep = 2 * step
            /\ tool_calls_used = step - 1
            /\ tool_calls_used < limits.tools
            /\ pending \in ToolCalls
    /\ node \in {"synthesize", "fail"} => superstep <= 2 * step + 2
    /\ node = "end" => superstep <= 2 * step + 3

Budgeted ==
    /\ step <= limits.steps
    /\ tool_calls_used <= limits.tools
    /\ Len(history) = tool_calls_used
    /\ \A i \in 1..Len(history) : history[i].step = i

Typed ==
    /\ limits \in Validated
    /\ node \in {"reason", "execute_tool", "synthesize", "fail", "end"} \cup Ended
    /\ superstep \in Nat /\ step \in Nat /\ tool_calls_used \in Nat
    /\ history \in Seq(HistoryEntry)
    /\ cache \in CacheType
    /\ ran \in [Fingerprints -> Nat]

IInv ==
    /\ Typed
    /\ Counted
    /\ Budgeted
    /\ LimitsBiteFirst
    /\ HandlerRunsOnce

(***************************************************************************)
(* What ToolRegistry.execute may do: reject or reuse, leaving the cache    *)
(* alone, or run the handler of a valid call whose fingerprint is not      *)
(* cached and remember its result.                                         *)
(***************************************************************************)
LEMMA ExecuteOutcome ==
    ASSUME NEW c \in ToolCalls, NEW memo \in CacheType, NEW x \in execute(c, memo)
    PROVE  /\ x.result \in ToolExecutionResult
           /\ \/ x.ran = {} /\ x.cache = memo
              \/ /\ c \in Valid /\ memo[Fingerprint[c]] = NoResult
                 /\ x.ran = {Fingerprint[c]}
                 /\ x.cache = [memo EXCEPT ![Fingerprint[c]] = x.result]
<1> USE CallAssumption, FingerprintAssumption, ReturnsAssumption
<1>1. \A code \in RejectCodes \cup FailureCodes : Failure(code) \in ToolExecutionResult
    BY DEF Failure, ToolExecutionResult
<1>2. c \in Valid => HandlerResults(c) \subseteq ToolExecutionResult
    <2>1. ASSUME c \in Valid, NEW o \in Returns[c] PROVE Success(o) \in ToolExecutionResult
        BY <2>1 DEF Success, ToolExecutionResult
    <2> QED
        BY <1>1, <2>1 DEF HandlerResults
<1>3. CASE c \notin Registered
    <2>1. x = Execution(Failure("unknown_tool"), memo, {})
        BY <1>3 DEF execute
    <2> QED
        BY <1>1, <2>1 DEF Execution, RejectCodes
<1>4. CASE c \in Registered \ Valid
    <2>1. x = Execution(Failure("invalid_tool_arguments"), memo, {})
        BY <1>4 DEF execute
    <2> QED
        BY <1>1, <2>1 DEF Execution, RejectCodes
<1>5. CASE c \in Valid /\ memo[Fingerprint[c]] # NoResult
    <2>1. x = Execution([memo[Fingerprint[c]] EXCEPT !.cached = TRUE], memo, {})
        BY <1>5 DEF execute
    <2>2. memo[Fingerprint[c]] \in ToolExecutionResult
        BY <1>5 DEF CacheType
    <2>3. [memo[Fingerprint[c]] EXCEPT !.cached = TRUE] \in ToolExecutionResult
        BY <2>2 DEF ToolExecutionResult
    <2> QED
        BY <2>1, <2>3 DEF Execution
<1>6. CASE c \in Valid /\ memo[Fingerprint[c]] = NoResult
    <2>1. PICK r \in HandlerResults(c) :
            x = Execution(r, [memo EXCEPT ![Fingerprint[c]] = r], {Fingerprint[c]})
        BY <1>6 DEF execute
    <2> QED
        BY <1>2, <1>6, <2>1 DEF Execution
<1> QED
    BY <1>3, <1>4, <1>5, <1>6

(* The invariant holds initially. *)
LEMMA InitIInv == Init => IInv
BY LimitsAssumption
   DEF Init, IInv, Typed, Counted, Budgeted, LimitsBiteFirst, HandlerRunsOnce, EmptyCache,
       CacheType, Validated, Ended

(* The settings the workflow runs under. *)
LEMMA LimitsType ==
    ASSUME Typed
    PROVE  /\ limits.steps \in Nat /\ limits.tools \in Nat /\ limits.recursion \in Nat
           /\ limits.agentic \in BOOLEAN
           /\ limits.agentic => limits.recursion >= 2 * limits.steps + 3
BY LimitsAssumption DEF Typed, Validated

(* A step that leaves what the tools did alone. *)
LEMMA ObservedUnchanged ==
    ASSUME IInv, UNCHANGED <<limits, observed>>, superstep' \in Nat, step' \in Nat,
           node' \in {"reason", "execute_tool", "synthesize", "fail", "end"} \cup Ended
    PROVE  Typed' /\ HandlerRunsOnce'
BY DEF IInv, Typed, HandlerRunsOnce, observed

(* execute_tool preserves IInv. *)
LEMMA ToolKeepsIInv == ASSUME IInv, ExecuteTool PROVE IInv'
<1>1. PICK x \in execute(pending, cache) : RecordTool(x)
    BY DEF ExecuteTool
<1> USE <1>1 DEF RecordTool, Superstep
<1>2. pending \in ToolCalls /\ cache \in CacheType
    BY DEF IInv, Counted, Typed
<1>3. /\ x.result \in ToolExecutionResult
      /\ \/ x.ran = {} /\ x.cache = cache
         \/ /\ pending \in Valid /\ cache[Fingerprint[pending]] = NoResult
            /\ x.ran = {Fingerprint[pending]}
            /\ x.cache = [cache EXCEPT ![Fingerprint[pending]] = x.result]
    BY <1>2, ExecuteOutcome
<1> DEFINE e == [step |-> step, call |-> pending, result |-> x.result]
<1>4. e \in HistoryEntry
    BY <1>2, <1>3 DEF HistoryEntry, IInv, Typed
<1>5. history \in Seq(HistoryEntry) /\ history' = Append(history, e)
    BY DEF IInv, Typed
<1>6. /\ history' \in Seq(HistoryEntry)
      /\ Len(history') = Len(history) + 1
      /\ \A i \in 1..Len(history) : history'[i] = history[i]
      /\ history'[Len(history) + 1] = e
    BY <1>4, <1>5
<1>7. cache' \in CacheType /\ ran' \in [Fingerprints -> Nat]
    <2>1. cache' \in CacheType
        BY <1>2, <1>3, FingerprintAssumption DEF CacheType
    <2>2. ran' \in [Fingerprints -> Nat]
        <3>1. \A f \in Fingerprints : ran[f] \in Nat
            BY DEF IInv, Typed
        <3>2. ran' = [f \in Fingerprints |-> IF f \in x.ran THEN ran[f] + 1 ELSE ran[f]]
            OBVIOUS
        <3> QED
            BY <3>1, <3>2
    <2> QED
        BY <2>1, <2>2
<1>8. Typed'
    BY <1>6, <1>7 DEF IInv, Typed, Ended
<1>9. Budgeted'
    <2>1. Len(history) = tool_calls_used /\ tool_calls_used = step - 1
        BY DEF IInv, Budgeted, Counted
    <2>2. \A i \in 1..Len(history') : history'[i].step = i
        BY <1>6, <2>1 DEF IInv, Budgeted, Typed
    <2>3. tool_calls_used < limits.tools /\ step <= limits.steps
        BY DEF IInv, Budgeted, Counted
    <2>4. tool_calls_used \in Nat /\ limits.tools \in Nat
        BY LimitsType DEF IInv, Typed
    <2>5. Len(history') = tool_calls_used' /\ tool_calls_used' <= limits'.tools
        BY <1>6, <2>1, <2>3, <2>4
    <2> QED
        BY <2>2, <2>3, <2>5 DEF Budgeted
<1>10. Counted'
    BY LimitsType DEF IInv, Counted, Typed
<1>11. HandlerRunsOnce'
    <2> SUFFICES ASSUME NEW f \in Fingerprints
                 PROVE  /\ ran'[f] = IF cache'[f] = NoResult THEN 0 ELSE 1
                        /\ cache'[f] # NoResult =>
                            \E i \in 1..Len(history') :
                                history'[i].call \in Valid /\ Fingerprint[history'[i].call] = f
        BY DEF HandlerRunsOnce
    <2>1. /\ ran[f] = IF cache[f] = NoResult THEN 0 ELSE 1
          /\ cache[f] # NoResult =>
                \E i \in 1..Len(history) :
                    history[i].call \in Valid /\ Fingerprint[history[i].call] = f
        BY DEF IInv, HandlerRunsOnce
    <2>2. CASE f \notin x.ran
        <3>1. cache'[f] = cache[f] /\ ran'[f] = ran[f]
            BY <1>2, <1>3, <2>2 DEF CacheType
        <3> QED
            BY <1>5, <1>6, <2>1, <3>1
    <2>3. CASE f \in x.ran
        <3>1. /\ pending \in Valid /\ f = Fingerprint[pending]
              /\ cache[f] = NoResult /\ cache'[f] = x.result
            BY <1>2, <1>3, <2>3, FingerprintAssumption DEF CacheType
        <3>2. x.result # NoResult
            BY <1>3, ResultAssumption
        <3>3. ran'[f] = 1
            BY <2>1, <2>3, <3>1 DEF IInv, Typed
        <3> QED
            BY <1>5, <1>6, <3>1, <3>2, <3>3
    <2> QED
        BY <2>2, <2>3
<1>12. LimitsBiteFirst'
    BY DEF IInv, LimitsBiteFirst
<1> QED
    BY <1>8, <1>9, <1>10, <1>11, <1>12 DEF IInv

(* Every step of the workflow preserves IInv. *)
LEMMA StepKeepsIInv == ASSUME IInv, Next PROVE IInv'
<1> USE LimitsType
<1>1. CASE ReasonAtLimit
    <2>1. Typed' /\ HandlerRunsOnce'
        BY <1>1, ObservedUnchanged DEF ReasonAtLimit, Superstep, Ended, IInv, Typed
    <2> QED
        BY <1>1, <2>1 DEF ReasonAtLimit, Superstep, observed, IInv, Typed, Counted, Budgeted,
                          LimitsBiteFirst
<1>2. CASE ReasonRaises
    <2>1. Typed' /\ HandlerRunsOnce'
        BY <1>2, ObservedUnchanged DEF ReasonRaises, Superstep, Ended, IInv, Typed
    <2> QED
        BY <1>2, <2>1 DEF ReasonRaises, Superstep, observed, IInv, Typed, Counted, Budgeted,
                          LimitsBiteFirst
<1>3. ASSUME NEW c \in ToolCalls, ReasonTool(c) PROVE IInv'
    <2>1. Typed' /\ HandlerRunsOnce'
        BY <1>3, ObservedUnchanged DEF ReasonTool, Reason, Superstep, Ended, IInv, Typed
    <2>2. node' = "execute_tool" /\ node = "reason" /\ tool_calls_used < limits.tools
        BY <1>3 DEF ReasonTool, Reason, Superstep, AtToolLimit, IInv, Typed
    <2>3. Counted'
        BY <1>3, <2>2 DEF ReasonTool, Reason, Superstep, observed, IInv, Typed, Counted
    <2>4. Budgeted'
        BY <1>3 DEF ReasonTool, Reason, AtStepLimit, Superstep, observed, IInv, Typed, Budgeted
    <2> QED
        BY <1>3, <2>1, <2>3, <2>4 DEF ReasonTool, Reason, Superstep, IInv, LimitsBiteFirst
<1>4. ASSUME NEW action \in {"synthesize", "fail"}, ReasonStop(action) PROVE IInv'
    <2>1. Typed' /\ HandlerRunsOnce'
        BY <1>4, ObservedUnchanged DEF ReasonStop, Reason, Superstep, Ended, IInv, Typed
    <2>2. node' \in {"synthesize", "fail"} /\ node = "reason"
        BY <1>4 DEF ReasonStop, Reason, Superstep
    <2>3. Counted'
        BY <1>4, <2>2 DEF ReasonStop, Reason, Superstep, IInv, Typed, Counted
    <2>4. Budgeted'
        BY <1>4 DEF ReasonStop, Reason, AtStepLimit, Superstep, observed, IInv, Typed, Budgeted
    <2> QED
        BY <1>4, <2>1, <2>3, <2>4 DEF ReasonStop, Reason, Superstep, IInv, LimitsBiteFirst
<1>5. CASE ExecuteTool
    BY <1>5, ToolKeepsIInv
<1>6. CASE Synthesize
    <2>1. Typed' /\ HandlerRunsOnce'
        BY <1>6, ObservedUnchanged DEF Synthesize, Superstep, Ended, IInv, Typed
    <2> QED
        BY <1>6, <2>1 DEF Synthesize, Superstep, observed, IInv, Typed, Counted, Budgeted,
                          LimitsBiteFirst
<1>7. CASE SynthesizeRaises
    <2>1. Typed' /\ HandlerRunsOnce'
        BY <1>7, ObservedUnchanged DEF SynthesizeRaises, Superstep, Ended, IInv, Typed
    <2> QED
        BY <1>7, <2>1 DEF SynthesizeRaises, Superstep, observed, IInv, Typed, Counted, Budgeted,
                          LimitsBiteFirst
<1>8. CASE Fail
    <2>1. Typed' /\ HandlerRunsOnce'
        BY <1>8, ObservedUnchanged DEF Fail, Superstep, Ended, IInv, Typed
    <2> QED
        BY <1>8, <2>1 DEF Fail, Superstep, observed, IInv, Typed, Counted, Budgeted,
                          LimitsBiteFirst
<1>9. CASE Finish
    <2>1. Typed' /\ HandlerRunsOnce'
        BY <1>9, ObservedUnchanged DEF Finish, Superstep, Ended, IInv, Typed
    <2>2. node' \in Ended
        BY <1>9 DEF Finish, Ended
    <2> QED
        BY <1>9, <2>1, <2>2 DEF Finish, Superstep, observed, Ended, IInv, Typed, Counted,
                                Budgeted, LimitsBiteFirst
<1>10. CASE OutOfSteps
    <2>1. Typed' /\ HandlerRunsOnce'
        BY <1>10, ObservedUnchanged DEF OutOfSteps, Ended, IInv, Typed
    <2>2. ~limits.agentic
        BY <1>10 DEF OutOfSteps, Ended, IInv, Typed, Counted, Budgeted
    <2> QED
        BY <1>10, <2>1, <2>2 DEF OutOfSteps, observed, IInv, Counted, Budgeted, LimitsBiteFirst
<1> QED
    BY <1>1, <1>2, <1>3, <1>4, <1>5, <1>6, <1>7, <1>8, <1>9, <1>10 DEF Next

(* The invariant holds in every reachable state. *)
LEMMA Inductive == Spec => []IInv
<1>1. IInv /\ UNCHANGED vars => IInv'
    BY DEF IInv, vars, observed, Typed, Counted, Budgeted, LimitsBiteFirst, HandlerRunsOnce
<1>2. IInv /\ [Next]_vars => IInv'
    BY <1>1, StepKeepsIInv
<1> QED
    BY InitIInv, <1>2, PTL DEF Spec

(***************************************************************************)
(* For all settings validate_chunk_settings accepts for the agentic        *)
(* workflow, LangGraph's recursion limit is never what ends the run:       *)
(* 2 * AGENT_MAX_STEPS + 3 is enough.                                      *)
(***************************************************************************)
THEOREM RecursionLimitIsEnough == Spec => []LimitsBiteFirst
<1>1. IInv => LimitsBiteFirst
    BY DEF IInv
<1> QED
    BY <1>1, Inductive, PTL

(***************************************************************************)
(* For all limits, the reason node's two checks bound the reasoning steps  *)
(* and all tool requests, each request with a step of its own.             *)
(***************************************************************************)
THEOREM BudgetsHold == Spec => []WithinBudget
<1>1. IInv => WithinBudget
    BY DEF IInv, Typed, Budgeted, WithinBudget
<1> QED
    BY <1>1, Inductive, PTL

(***************************************************************************)
(* Both limits of the reason node hold for all settings, and for the       *)
(* validated ones they bite before LangGraph's recursion limit.            *)
(***************************************************************************)
THEOREM LimitsAlwaysHold == Spec => []LimitsHold
<1>1. LimitsBiteFirst /\ WithinBudget => LimitsHold
    BY DEF LimitsHold
<1> QED
    BY <1>1, RecursionLimitIsEnough, BudgetsHold, PTL

(***************************************************************************)
(* For all tools and calls, ToolRegistry.execute runs the handler of a     *)
(* fingerprint at most once in an execution, failed calls included.        *)
(***************************************************************************)
THEOREM NoHandlerRunsTwice == Spec => []HandlerRunsOnce
<1>1. IInv => HandlerRunsOnce
    BY DEF IInv
<1> QED
    BY <1>1, Inductive, PTL
-----------------------------------------------------------------------------
(* What the run reports.                                                   *)

TraceTypes ==
    {"reasoning_started", "tool_requested", "tool_completed", "tool_failed",
     "max_steps_reached", "max_tool_calls_reached", "synthesis_started",
     "workflow_completed", "workflow_failed"}

TraceRecord == [type : TraceTypes, step : Nat]

IsToolEvent(e) == e.type \in {"tool_completed", "tool_failed"}

CompletedAt == {i \in 1..Len(trace) : trace[i].type = "workflow_completed"}

(* Why the loop ended, before the synthesis reports it. *)
TellsWhy ==
    \/ termination = "agent_stopped" /\ Len(history) = step - 1
    \/ /\ termination = "max_steps_reached"
       /\ Len(history) = step /\ step = limits.steps
    \/ /\ termination = "max_tool_calls_reached"
       /\ Len(history) = step /\ step = limits.tools /\ step < limits.steps

(* Which of it is known at which node: nothing is completed before the      *)
(* synthesis, and a result comes with one completion and the reason.        *)
Reported ==
    /\ node \in {"reason", "execute_tool", "synthesize", "fail"} =>
            CompletedAt = {} /\ final_result = FALSE
    /\ node = "synthesize" => TellsWhy
    /\ node = "end" /\ final_result => TellsWhy /\ \E i : CompletedAt = {i}
    /\ node = "returned" => TellsWhy /\ \E i : CompletedAt = {i}

RInv ==
    /\ trace \in Seq(TraceRecord)
    /\ EvidenceIsObserved
    /\ TraceMatchesHistory
    /\ Reported

(* The cache after a call holds the evidence it held before and that of the *)
(* call's result: a rejected call has none, a cached one adds none.         *)
LEMMA ExecuteEvidence ==
    ASSUME NEW c \in ToolCalls, NEW memo \in CacheType, NEW x \in execute(c, memo)
    PROVE  CachedEvidence(x.cache) = CachedEvidence(memo) \cup x.result.evidence
<1> USE CallAssumption, FingerprintAssumption, ReturnsAssumption
<1>1. CASE c \notin Valid
    <2>1. PICK code : x = Execution(Failure(code), memo, {})
        BY <1>1 DEF execute
    <2> QED
        BY <2>1 DEF Execution, Failure
<1>2. CASE c \in Valid /\ memo[Fingerprint[c]] # NoResult
    <2> DEFINE f == Fingerprint[c]
    <2>1. x = Execution([memo[f] EXCEPT !.cached = TRUE], memo, {})
        BY <1>2 DEF execute
    <2>2. memo[f] \in ToolExecutionResult /\ f \in Fingerprints
        BY <1>2 DEF CacheType
    <2>3. x.result.evidence = memo[f].evidence /\ x.cache = memo
        BY <2>1, <2>2 DEF Execution, ToolExecutionResult
    <2>4. memo[f].evidence \subseteq CachedEvidence(memo)
        BY <1>2, <2>2 DEF CachedEvidence
    <2> QED
        BY <2>3, <2>4
<1>3. CASE c \in Valid /\ memo[Fingerprint[c]] = NoResult
    <2>1. PICK f \in Fingerprints : f = Fingerprint[c]
        BY <1>3
    <2>2. x.cache = [memo EXCEPT ![f] = x.result] /\ x.result \in ToolExecutionResult
        <3>1. PICK r \in HandlerResults(c) : x = Execution(r, [memo EXCEPT ![f] = r], {f})
            BY <1>3, <2>1 DEF execute
        <3> QED
            BY <3>1, ExecuteOutcome DEF Execution
    <2>3. x.result # NoResult
        BY <2>2, ResultAssumption
    <2>4. memo[f] = NoResult /\ memo \in [Fingerprints -> ToolExecutionResult \cup {NoResult}]
        BY <1>3, <2>1 DEF CacheType
    <2>5. \A g \in Fingerprints : x.cache[g] = IF g = f THEN x.result ELSE memo[g]
        BY <2>2, <2>4
    <2>6. {g \in Fingerprints : x.cache[g] # NoResult}
            = {g \in Fingerprints : memo[g] # NoResult} \cup {f}
        BY <2>3, <2>5
    <2>7. \A g \in Fingerprints : memo[g] # NoResult => g # f
        BY <2>4
    <2> QED
        BY <2>5, <2>6, <2>7 DEF CachedEvidence
<1> QED
    BY <1>1, <1>2, <1>3

(* Events that are not about tools leave the trace as faithful as it was.   *)
LEMMA OtherEvents ==
    ASSUME RInv, NEW x \in Seq(TraceRecord), trace' = trace \o x, history' = history,
           \A i \in 1..Len(x) : ~IsToolEvent(x[i])
    PROVE  /\ trace' \in Seq(TraceRecord)
           /\ TraceMatchesHistory'
<1>1. /\ trace \in Seq(TraceRecord) /\ trace' \in Seq(TraceRecord)
      /\ Len(trace') = Len(trace) + Len(x) /\ Len(trace) \in Nat /\ Len(x) \in Nat
      /\ \A i \in 1..Len(trace) : trace'[i] = trace[i]
      /\ \A i \in (Len(trace) + 1)..(Len(trace) + Len(x)) : trace'[i] = x[i - Len(trace)]
    <2>1. trace \in Seq(TraceRecord)
        BY DEF RInv
    <2> QED
        BY <2>1
<1>2. ToolEvents' = ToolEvents
    <2>1. \A i \in (Len(trace) + 1)..(Len(trace) + Len(x)) : i - Len(trace) \in 1..Len(x)
        BY <1>1
    <2>2. \A i \in (Len(trace) + 1)..(Len(trace) + Len(x)) : ~IsToolEvent(trace'[i])
        BY <1>1, <2>1
    <2>3. \A i : i \in 1..Len(trace') <=>
                    i \in 1..Len(trace) \/ i \in (Len(trace) + 1)..(Len(trace) + Len(x))
        BY <1>1
    <2> QED
        BY <1>1, <2>2, <2>3 DEF ToolEvents, IsToolEvent
<1>3. \A i \in ToolEvents : trace'[i] = trace[i]
    BY <1>1 DEF ToolEvents
<1>4. TraceMatchesHistory
    BY DEF RInv
<1>5. \A k \in 1..Len(history') : \E i \in ToolEvents' :
        /\ trace'[i].step = history'[k].step
        /\ (trace'[i].type = "tool_failed") <=> ~history'[k].result.success
    <2> SUFFICES ASSUME NEW k \in 1..Len(history')
                 PROVE  \E i \in ToolEvents' :
                            /\ trace'[i].step = history'[k].step
                            /\ (trace'[i].type = "tool_failed") <=> ~history'[k].result.success
        OBVIOUS
    <2>1. PICK i \in ToolEvents :
            /\ trace[i].step = history[k].step
            /\ (trace[i].type = "tool_failed") <=> ~history[k].result.success
        BY <1>4 DEF TraceMatchesHistory
    <2> QED
        BY <1>2, <1>3, <2>1
<1>6. \A i \in ToolEvents' : \E k \in 1..Len(history') : trace'[i].step = history'[k].step
    <2> SUFFICES ASSUME NEW i \in ToolEvents'
                 PROVE  \E k \in 1..Len(history') : trace'[i].step = history'[k].step
        OBVIOUS
    <2>1. i \in ToolEvents /\ trace'[i] = trace[i]
        BY <1>2, <1>3
    <2>2. PICK k \in 1..Len(history) : trace[i].step = history[k].step
        BY <1>4, <2>1 DEF TraceMatchesHistory
    <2> QED
        BY <2>1, <2>2
<1>7. \A i, j \in ToolEvents' : i < j => trace'[i].step < trace'[j].step
    <2> SUFFICES ASSUME NEW i \in ToolEvents, NEW j \in ToolEvents, i < j
                 PROVE  trace[i].step < trace[j].step
        BY <1>2, <1>3
    <2> QED
        BY <1>4 DEF TraceMatchesHistory
<1> QED
    BY <1>1, <1>5, <1>6, <1>7 DEF TraceMatchesHistory

(* The same for the completion events, none or one of which is added. *)
LEMMA CompletionEvents ==
    ASSUME RInv, NEW x \in Seq(TraceRecord), trace' = trace \o x, CompletedAt = {}
    PROVE  /\ (\A i \in 1..Len(x) : x[i].type # "workflow_completed") => CompletedAt' = {}
           /\ \A k \in 1..Len(x) :
                (\A i \in 1..Len(x) : (x[i].type = "workflow_completed") <=> i = k) =>
                    CompletedAt' = {Len(trace) + k}
<1>1. /\ trace \in Seq(TraceRecord)
      /\ Len(trace') = Len(trace) + Len(x) /\ Len(trace) \in Nat /\ Len(x) \in Nat
      /\ \A i \in 1..Len(trace) : trace'[i] = trace[i]
      /\ \A i \in (Len(trace) + 1)..(Len(trace) + Len(x)) : trace'[i] = x[i - Len(trace)]
    <2>1. trace \in Seq(TraceRecord)
        BY DEF RInv
    <2> QED
        BY <2>1
<1>2. \A i \in 1..Len(trace) : trace'[i].type # "workflow_completed"
    BY <1>1 DEF CompletedAt
<1>3. ASSUME NEW i \in 1..Len(trace'), trace'[i].type = "workflow_completed"
      PROVE  i - Len(trace) \in 1..Len(x) /\ x[i - Len(trace)].type = "workflow_completed"
    <2>1. i \in (Len(trace) + 1)..(Len(trace) + Len(x))
        BY <1>1, <1>2, <1>3
    <2> QED
        BY <1>1, <1>3, <2>1
<1>4. (\A i \in 1..Len(x) : x[i].type # "workflow_completed") => CompletedAt' = {}
    BY <1>3 DEF CompletedAt
<1>5. ASSUME NEW k \in 1..Len(x),
             \A i \in 1..Len(x) : (x[i].type = "workflow_completed") <=> i = k
      PROVE  CompletedAt' = {Len(trace) + k}
    <2>1. /\ Len(trace) + k \in 1..Len(trace')
          /\ trace'[Len(trace) + k].type = "workflow_completed"
        <3>1. Len(trace) + k \in (Len(trace) + 1)..(Len(trace) + Len(x))
            BY <1>1
        <3>2. (Len(trace) + k) - Len(trace) = k /\ x[k].type = "workflow_completed"
            BY <1>1, <1>5
        <3> QED
            BY <1>1, <3>1, <3>2
    <2>2. ASSUME NEW i \in 1..Len(trace'), trace'[i].type = "workflow_completed"
          PROVE  i = Len(trace) + k
        <3>1. i - Len(trace) = k
            BY <1>3, <1>5, <2>2
        <3> QED
            BY <1>1, <3>1
    <2> QED
        BY <2>1, <2>2 DEF CompletedAt
<1> QED
    BY <1>4, <1>5

(* A step that calls no tool and adds the events x. *)
LEMMA ReportSteps ==
    ASSUME RInv, UNCHANGED observed, NEW x \in Seq(TraceRecord), trace' = trace \o x,
           \A i \in 1..Len(x) : ~IsToolEvent(x[i]), Reported'
    PROVE  RInv'
<1>1. history' = history /\ evidence' = evidence /\ cache' = cache
    BY DEF observed
<1>2. EvidenceIsObserved'
    BY <1>1 DEF RInv, EvidenceIsObserved
<1>3. trace' \in Seq(TraceRecord) /\ TraceMatchesHistory'
    BY <1>1, OtherEvents
<1> QED
    BY <1>2, <1>3 DEF RInv

(* A step that adds no event at all. *)
LEMMA SilentSteps ==
    ASSUME RInv, UNCHANGED <<observed, trace>>, Reported'
    PROVE  RInv'
<1>1. trace \in Seq(TraceRecord) /\ <<>> \in Seq(TraceRecord)
    BY DEF RInv
<1>2. trace' = trace \o <<>> /\ Len(<<>>) = 0
    BY <1>1
<1>3. \A i \in 1..Len(<<>>) : ~IsToolEvent(<<>>[i])
    BY <1>2
<1> QED
    BY <1>1, <1>2, <1>3, ReportSteps

(* The tool call: its evidence and its event are those of its history entry. *)
LEMMA ToolReports == ASSUME IInv, RInv, ExecuteTool PROVE RInv'
<1>1. PICK x \in execute(pending, cache) : RecordTool(x)
    BY DEF ExecuteTool
<1> DEFINE h == [step |-> step, call |-> pending, result |-> x.result]
           e == ToolEvent(x.result)
<1>2. pending \in ToolCalls /\ cache \in CacheType /\ step \in Nat /\ node = "execute_tool"
    BY <1>1 DEF IInv, Counted, Typed, RecordTool, Superstep
<1>3. x.result \in ToolExecutionResult
    BY <1>2, ExecuteOutcome
<1>4. /\ h \in HistoryEntry /\ h.step = step /\ h.result = x.result
      /\ e \in TraceRecord /\ e.step = step /\ IsToolEvent(e)
      /\ (e.type = "tool_failed") <=> ~h.result.success
    <2>1. h \in HistoryEntry /\ h.step = step /\ h.result = x.result
        BY <1>2, <1>3 DEF HistoryEntry
    <2>4. x.result.success \in BOOLEAN
        BY <1>3 DEF ToolExecutionResult
    <2>2. CASE x.result.success
        <3>1. e = [type |-> "tool_completed", step |-> step]
            BY <2>2 DEF ToolEvent, TraceEvent
        <3> HIDE DEF h, e
        <3>2. /\ e \in TraceRecord /\ e.step = step /\ e.type = "tool_completed" /\ IsToolEvent(e)
              /\ (e.type = "tool_failed") <=> FALSE
            BY <1>2, <3>1 DEF TraceRecord, TraceTypes, IsToolEvent
        <3>3. h.result.success = TRUE
            BY <2>1, <2>2, <2>4
        <3> QED
            BY <2>1, <3>2, <3>3
    <2>3. CASE ~x.result.success
        <3>1. e = [type |-> "tool_failed", step |-> step]
            BY <2>3 DEF ToolEvent, TraceEvent
        <3> HIDE DEF h, e
        <3>2. /\ e \in TraceRecord /\ e.step = step /\ e.type = "tool_failed" /\ IsToolEvent(e)
              /\ (e.type = "tool_failed") <=> TRUE
            BY <1>2, <3>1 DEF TraceRecord, TraceTypes, IsToolEvent
        <3>3. h.result.success = FALSE
            BY <2>1, <2>3, <2>4
        <3> QED
            BY <2>1, <3>2, <3>3
    <2> QED
        BY <2>2, <2>3
<1>5. /\ history' = Append(history, h) /\ trace' = Append(trace, e)
      /\ evidence' = evidence \cup x.result.evidence /\ cache' = x.cache
      /\ node' = "reason" /\ UNCHANGED <<termination, final_result>>
    BY <1>1 DEF RecordTool, Observed
<1> HIDE DEF h, e
<1>6. /\ history \in Seq(HistoryEntry) /\ Len(history) \in Nat
      /\ Len(history') = Len(history) + 1 /\ history'[Len(history) + 1] = h
      /\ \A i \in 1..Len(history) : history'[i] = history[i]
    <2>1. history \in Seq(HistoryEntry)
        BY DEF IInv, Typed
    <2> QED
        BY <1>4, <1>5, <2>1
<1>7. /\ trace \in Seq(TraceRecord) /\ trace' \in Seq(TraceRecord) /\ Len(trace) \in Nat
      /\ Len(trace') = Len(trace) + 1 /\ trace'[Len(trace) + 1] = e
      /\ \A i \in 1..Len(trace) : trace'[i] = trace[i]
    <2>1. trace \in Seq(TraceRecord)
        BY DEF RInv
    <2> QED
        BY <1>4, <1>5, <2>1
<1>8. EvidenceIsObserved'
    <2>1. evidence' = CachedEvidence(cache')
        BY <1>2, <1>5, ExecuteEvidence DEF RInv, EvidenceIsObserved
    <2>2. evidence = UNION {history[i].result.evidence : i \in 1..Len(history)}
        BY DEF RInv, EvidenceIsObserved
    <2>3. {history'[i].result.evidence : i \in 1..Len(history')}
            = {history[i].result.evidence : i \in 1..Len(history)} \cup {x.result.evidence}
        BY <1>4, <1>6
    <2>4. evidence' = UNION {history'[i].result.evidence : i \in 1..Len(history')}
        BY <1>5, <2>2, <2>3
    <2> QED
        BY <2>1, <2>4 DEF EvidenceIsObserved
<1>9. ToolEvents' = ToolEvents \cup {Len(trace) + 1}
    BY <1>4, <1>7 DEF ToolEvents, IsToolEvent
<1>10. \A i \in ToolEvents : trace'[i] = trace[i] /\ i \in 1..Len(trace)
    BY <1>7 DEF ToolEvents
<1>11. /\ Len(history) = step - 1
       /\ \A i \in 1..Len(history) : history[i].step = i
    BY <1>2 DEF IInv, Counted, Budgeted
<1>12. \A i \in ToolEvents : trace[i].step < step
    BY <1>2, <1>11 DEF RInv, TraceMatchesHistory
<1>13. TraceMatchesHistory'
    <2>1. ASSUME NEW k \in 1..Len(history')
          PROVE  \E i \in ToolEvents' :
                    /\ trace'[i].step = history'[k].step
                    /\ (trace'[i].type = "tool_failed") <=> ~history'[k].result.success
        <3>1. CASE k = Len(history) + 1
            BY <3>1, <1>4, <1>6, <1>7, <1>9
        <3>2. CASE k \in 1..Len(history)
            <4>1. PICK i \in ToolEvents :
                    /\ trace[i].step = history[k].step
                    /\ (trace[i].type = "tool_failed") <=> ~history[k].result.success
                BY <3>2 DEF RInv, TraceMatchesHistory
            <4> QED
                BY <3>2, <4>1, <1>6, <1>9, <1>10
        <3> QED
            BY <1>6, <3>1, <3>2
    <2>2. ASSUME NEW i \in ToolEvents'
          PROVE  \E k \in 1..Len(history') : trace'[i].step = history'[k].step
        <3>1. CASE i = Len(trace) + 1
            BY <3>1, <1>4, <1>6, <1>7
        <3>2. CASE i \in ToolEvents
            <4>1. PICK k \in 1..Len(history) : trace[i].step = history[k].step
                BY <3>2 DEF RInv, TraceMatchesHistory
            <4> QED
                BY <3>2, <4>1, <1>6, <1>10
        <3> QED
            BY <1>9, <3>1, <3>2
    <2>3. ASSUME NEW i \in ToolEvents', NEW j \in ToolEvents', i < j
          PROVE  trace'[i].step < trace'[j].step
        <3>1. i \in ToolEvents
            BY <2>3, <1>7, <1>9, <1>10
        <3>2. CASE j = Len(trace) + 1
            BY <3>1, <3>2, <1>4, <1>7, <1>10, <1>12
        <3>3. CASE j \in ToolEvents
            BY <2>3, <3>1, <3>3, <1>10 DEF RInv, TraceMatchesHistory
        <3> QED
            BY <1>9, <3>2, <3>3
    <2> QED
        BY <2>1, <2>2, <2>3 DEF TraceMatchesHistory
<1>14. Reported'
    <2>1. CompletedAt = {} /\ final_result = FALSE
        BY <1>2 DEF RInv, Reported
    <2>2. e.type # "workflow_completed"
        BY <1>4 DEF IsToolEvent
    <2>3. CompletedAt' = {}
        BY <1>7, <2>1, <2>2 DEF CompletedAt
    <2> QED
        BY <1>5, <2>1, <2>3 DEF Reported
<1> QED
    BY <1>7, <1>8, <1>13, <1>14 DEF RInv

(* Sequences of one and of two events that are not about tools. *)
LEMMA FewEvents ==
    ASSUME NEW a \in TraceRecord, NEW b \in TraceRecord,
           trace \in Seq(TraceRecord), ~IsToolEvent(a), ~IsToolEvent(b)
    PROVE  /\ Append(trace, a) = trace \o <<a>> /\ <<a>> \in Seq(TraceRecord) /\ Len(<<a>>) = 1
           /\ <<a>>[1] = a /\ (\A i \in 1..Len(<<a>>) : ~IsToolEvent(<<a>>[i]))
           /\ <<a, b>> \in Seq(TraceRecord) /\ Len(<<a, b>>) = 2
           /\ <<a, b>>[1] = a /\ <<a, b>>[2] = b
           /\ (\A i \in 1..Len(<<a, b>>) : ~IsToolEvent(<<a, b>>[i]))
<1>1. /\ Append(trace, a) = trace \o <<a>> /\ <<a>> \in Seq(TraceRecord) /\ Len(<<a>>) = 1
      /\ <<a>>[1] = a
    OBVIOUS
<1>2. /\ <<a, b>> \in Seq(TraceRecord) /\ Len(<<a, b>>) = 2
      /\ <<a, b>>[1] = a /\ <<a, b>>[2] = b
    OBVIOUS
<1>3. \A i \in 1..Len(<<a>>) : i = 1
    BY <1>1
<1>4. \A i \in 1..Len(<<a, b>>) : i = 1 \/ i = 2
    BY <1>2
<1> QED
    BY <1>1, <1>2, <1>3, <1>4

(* RInv is inductive relative to IInv. *)
LEMMA ReportStep == ASSUME IInv, RInv, [Next]_vars PROVE RInv'
<1>1. CASE UNCHANGED vars
    <2>1. /\ trace' = trace /\ history' = history /\ evidence' = evidence /\ cache' = cache
          /\ node' = node /\ step' = step /\ limits' = limits /\ termination' = termination
          /\ final_result' = final_result
        BY <1>1 DEF vars
    <2>2. ToolEvents' = ToolEvents /\ CompletedAt' = CompletedAt
        BY <2>1 DEF ToolEvents, CompletedAt
    <2>3. EvidenceIsObserved => EvidenceIsObserved'
        BY <2>1 DEF EvidenceIsObserved
    <2>4. TraceMatchesHistory => TraceMatchesHistory'
        BY <2>1, <2>2 DEF TraceMatchesHistory
    <2>5. TellsWhy => TellsWhy'
        BY <2>1 DEF TellsWhy
    <2>6. Reported => Reported'
        BY <2>1, <2>2, <2>5 DEF Reported
    <2> QED
        BY <2>1, <2>3, <2>4, <2>6 DEF RInv
<1>2. trace \in Seq(TraceRecord) /\ step \in Nat /\ step + 1 \in Nat
    BY DEF RInv, IInv, Typed
<1>3. CASE ReasonAtLimit
    <2> DEFINE e == TraceEvent(LimitReason)
    <2>1. /\ e \in TraceRecord /\ ~IsToolEvent(e) /\ e.type # "workflow_completed"
        BY <1>2 DEF TraceEvent, LimitReason, TraceRecord, TraceTypes, IsToolEvent
    <2>2. /\ node = "reason" /\ node' = "synthesize" /\ trace' = Append(trace, e)
          /\ termination' = LimitReason /\ (AtStepLimit \/ AtToolLimit)
          /\ UNCHANGED <<limits, step, observed, final_result>> /\ history' = history
        BY <1>3 DEF ReasonAtLimit, Superstep, observed
    <2> HIDE DEF e
    <2>3. trace' = trace \o <<e>>
        BY <1>2, <2>1, <2>2, FewEvents
    <2>4. CompletedAt = {} /\ final_result = FALSE
        BY <2>2 DEF RInv, Reported
    <2>5. CompletedAt' = {}
        <3>1. \A i \in 1..Len(<<e>>) : <<e>>[i].type # "workflow_completed"
            BY <2>1
        <3> QED
            BY <1>2, <2>1, <2>3, <2>4, <3>1, FewEvents, CompletionEvents
    <2>6. TellsWhy'
        <3>1. Len(history) = step /\ tool_calls_used = step /\ step <= limits.steps
              /\ tool_calls_used <= limits.tools /\ limits.steps \in Nat /\ limits.tools \in Nat
            BY <2>2, LimitsType DEF IInv, Counted, Budgeted
        <3> QED
            BY <1>2, <2>2, <3>1 DEF TellsWhy, LimitReason, AtStepLimit, AtToolLimit
    <2>7. Reported'
        BY <2>2, <2>4, <2>5, <2>6 DEF Reported
    <2> QED
        BY <1>2, <2>1, <2>2, <2>3, <2>7, FewEvents, ReportSteps
<1>4. CASE ReasonRaises \/ SynthesizeRaises \/ OutOfSteps
    <2>1. node' = "raised" /\ UNCHANGED <<observed, trace>>
        BY <1>4 DEF ReasonRaises, SynthesizeRaises, OutOfSteps
    <2>2. Reported'
        BY <2>1 DEF Reported
    <2> QED
        BY <2>1, <2>2, SilentSteps
<1>5. ASSUME NEW c \in ToolCalls, ReasonTool(c) PROVE RInv'
    <2> DEFINE a == [type |-> "reasoning_started", step |-> step + 1]
               b == [type |-> "tool_requested", step |-> step + 1]
    <2>1. /\ a \in TraceRecord /\ ~IsToolEvent(a) /\ a.type # "workflow_completed"
          /\ b \in TraceRecord /\ ~IsToolEvent(b) /\ b.type # "workflow_completed"
        BY <1>2 DEF TraceRecord, TraceTypes, IsToolEvent
    <2>2. /\ node = "reason" /\ node' = "execute_tool" /\ trace' = trace \o <<a, b>>
          /\ UNCHANGED <<observed, final_result>>
        BY <1>5 DEF ReasonTool, Reason, Superstep
    <2> HIDE DEF a, b
    <2>3. CompletedAt = {} /\ final_result = FALSE
        BY <2>2 DEF RInv, Reported
    <2>4. CompletedAt' = {}
        <3>1. \A i \in 1..Len(<<a, b>>) : <<a, b>>[i].type # "workflow_completed"
            BY <2>1
        <3> QED
            BY <1>2, <2>1, <2>2, <2>3, <3>1, FewEvents, CompletionEvents
    <2>5. Reported'
        BY <2>2, <2>3, <2>4 DEF Reported
    <2> QED
        BY <1>2, <2>1, <2>2, <2>5, FewEvents, ReportSteps
<1>6. ASSUME NEW action \in {"synthesize", "fail"}, ReasonStop(action) PROVE RInv'
    <2> DEFINE e == [type |-> "reasoning_started", step |-> step + 1]
    <2>1. e \in TraceRecord /\ ~IsToolEvent(e) /\ e.type # "workflow_completed"
        BY <1>2 DEF TraceRecord, TraceTypes, IsToolEvent
    <2>2. /\ node = "reason" /\ node' = action /\ trace' = Append(trace, e)
          /\ UNCHANGED <<observed, final_result>> /\ history' = history /\ step' = step + 1
          /\ action = "synthesize" => termination' = "agent_stopped"
        BY <1>6 DEF ReasonStop, Reason, Superstep, observed
    <2> HIDE DEF e
    <2>3. trace' = trace \o <<e>>
        BY <1>2, <2>1, <2>2, FewEvents
    <2>4. CompletedAt = {} /\ final_result = FALSE
        BY <2>2 DEF RInv, Reported
    <2>5. CompletedAt' = {}
        <3>1. \A i \in 1..Len(<<e>>) : <<e>>[i].type # "workflow_completed"
            BY <2>1
        <3> QED
            BY <1>2, <2>1, <2>3, <2>4, <3>1, FewEvents, CompletionEvents
    <2>6. action = "synthesize" => TellsWhy'
        <3>1. Len(history) = step
            BY <2>2 DEF IInv, Counted, Budgeted
        <3> QED
            BY <1>2, <2>2, <3>1 DEF TellsWhy
    <2>7. Reported'
        BY <2>2, <2>4, <2>5, <2>6 DEF Reported
    <2> QED
        BY <1>2, <2>1, <2>2, <2>3, <2>7, FewEvents, ReportSteps
<1>7. CASE ExecuteTool
    BY <1>7, ToolReports
<1>8. CASE Synthesize
    <2> DEFINE a == TraceEvent("synthesis_started")
               b == TraceEvent("workflow_completed")
    <2>1. /\ a \in TraceRecord /\ ~IsToolEvent(a) /\ a.type # "workflow_completed"
          /\ b \in TraceRecord /\ ~IsToolEvent(b) /\ b.type = "workflow_completed"
        BY <1>2 DEF TraceEvent, TraceRecord, TraceTypes, IsToolEvent
    <2>2. /\ node = "synthesize" /\ node' = "end" /\ trace' = trace \o <<a, b>>
          /\ UNCHANGED <<limits, step, observed>> /\ history' = history
          /\ termination' = IF termination = "none" THEN "completed" ELSE termination
        BY <1>8 DEF Synthesize, Superstep, observed
    <2> HIDE DEF a, b
    <2>3. CompletedAt = {} /\ TellsWhy
        BY <2>2 DEF RInv, Reported
    <2>4. CompletedAt' = {Len(trace) + 2}
        <3>1. \A i \in 1..Len(<<a, b>>) : (<<a, b>>[i].type = "workflow_completed") <=> i = 2
            BY <2>1
        <3>2. 2 \in 1..Len(<<a, b>>) /\ <<a, b>> \in Seq(TraceRecord)
            BY <2>1
        <3> QED
            BY <2>2, <2>3, <3>1, <3>2, CompletionEvents
    <2>5. TellsWhy'
        BY <2>2, <2>3 DEF TellsWhy
    <2>6. Reported'
        BY <2>2, <2>4, <2>5 DEF Reported
    <2> QED
        BY <1>2, <2>1, <2>2, <2>6, FewEvents, ReportSteps
<1>9. CASE Fail
    <2> DEFINE e == TraceEvent("workflow_failed")
    <2>1. e \in TraceRecord /\ ~IsToolEvent(e)
        BY <1>2 DEF TraceEvent, TraceRecord, TraceTypes, IsToolEvent
    <2>2. /\ node = "fail" /\ node' = "end" /\ trace' = Append(trace, e)
          /\ UNCHANGED <<observed, final_result>>
        BY <1>9 DEF Fail, Superstep
    <2> HIDE DEF e
    <2>3. final_result' = FALSE
        BY <2>2 DEF RInv, Reported
    <2>4. Reported'
        BY <2>2, <2>3 DEF Reported
    <2>5. trace' = trace \o <<e>>
        BY <1>2, <2>1, <2>2, FewEvents
    <2> QED
        BY <1>2, <2>1, <2>2, <2>4, <2>5, FewEvents, ReportSteps
<1>10. CASE Finish
    <2>1. /\ node = "end" /\ node' \in {"returned", "raised"} /\ (node' = "returned" => final_result)
          /\ UNCHANGED <<limits, step, observed, trace, termination, final_result>>
          /\ history' = history
        BY <1>10 DEF Finish, Superstep, Delivers, observed
    <2>2. Reported'
        BY <2>1 DEF RInv, Reported, TellsWhy, CompletedAt
    <2> QED
        BY <2>1, <2>2, SilentSteps
<1> QED
    BY <1>1, <1>3, <1>4, <1>5, <1>6, <1>7, <1>8, <1>9, <1>10 DEF Next

(***************************************************************************)
(* For all tools and settings, what the run reports is what it did: the    *)
(* evidence and the tool events are those of its history, and a returned   *)
(* result comes with one completion and the true reason for ending.        *)
(***************************************************************************)
THEOREM ReportsAreTruthful == Spec => []ReportIsTruthful
<1>1. Init => RInv
    <2> SUFFICES ASSUME Init PROVE RInv
        OBVIOUS
    <2>1. trace = <<>> /\ history = <<>> /\ evidence = {} /\ node = "reason" /\ final_result = FALSE
        BY DEF Init
    <2>2. trace \in Seq(TraceRecord) /\ Len(trace) = 0 /\ Len(history) = 0
        BY <2>1
    <2>3. CachedEvidence(cache) = {}
        BY DEF Init, EmptyCache, CachedEvidence
    <2>4. EvidenceIsObserved
        BY <2>1, <2>2, <2>3 DEF EvidenceIsObserved
    <2>5. TraceMatchesHistory /\ Reported
        BY <2>1, <2>2 DEF TraceMatchesHistory, ToolEvents, Reported, CompletedAt
    <2> QED
        BY <2>2, <2>4, <2>5 DEF RInv
<1>2. Spec => []RInv
    BY <1>1, ReportStep, Inductive, PTL DEF Spec
<1>3. RInv => ReportIsTruthful
    <2> SUFFICES ASSUME RInv, node = "returned" PROVE Cardinality(CompletedAt) = 1 /\ TellsWhy
        BY DEF RInv, ReportIsTruthful, ReasonIsTruthful, CompletedAt, TellsWhy
    <2>1. TellsWhy /\ \E i : CompletedAt = {i}
        BY DEF RInv, Reported
    <2> QED
        BY <2>1, FS_Singleton
<1> QED
    BY <1>2, <1>3, PTL

=============================================================================
