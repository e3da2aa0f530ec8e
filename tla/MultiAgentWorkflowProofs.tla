----------------------- MODULE MultiAgentWorkflowProofs -----------------------
(***************************************************************************)
(* Proofs about MultiAgentWorkflow for all limits, tools and permissions,  *)
(* whatever the models answer and however the branches interleave.         *)
(***************************************************************************)
EXTENDS MultiAgentWorkflow, FiniteSetTheorems, TLAPS

HistoryEntry == [step : Nat, call : ToolCalls, result : ToolExecutionResult]

(* A refused call is not cached. *)
Cacheable == {r \in ToolExecutionResult : r.error \notin RejectCodes}

CacheType == [Fingerprints -> Cacheable \cup {NoResult}]

Gathering == {"initialize", "evidence", "brief"}

BeforeJoin == Gathering \cup {"branches"}

Nodes == BeforeJoin \cup {"synthesis", "validate"} \cup Ended

Typed ==
    /\ limits \in Limits
    /\ node \in Nodes
    /\ state = [c \in Channels |-> state[c]]
    /\ raised \in {None, "too_many_failures", "synthesis"}
    /\ step \in Nat
    /\ history \in Seq(HistoryEntry)
    /\ cache \in CacheType

(* The loop: while it runs, every step so far called a tool. *)
Looping ==
    /\ node \in {"initialize", "evidence"} =>
            Len(history) = step /\ step <= limits.steps /\ termination = None
    /\ EvidenceBudget
    /\ ToolsAreAuthorized

(* The channels of an agent that has not run. *)
Untouched(a) ==
    /\ state[<<a, "output">>] = None
    /\ state[<<a, "status">>] = "pending"
    /\ state[<<a, "error">>] = None
    /\ state[<<a, "trace">>] = <<>>

EvidenceCompleted ==
    /\ \E items \in SUBSET BriefItems : state[<<"evidence", "output">>] = sanitize_brief(items)
    /\ state[<<"evidence", "observed">>] = observed
    /\ state[<<"evidence", "history">>] = history
    /\ state[<<"evidence", "status">>] = "completed"
    /\ state[<<"evidence", "error">>] = None
    /\ state[<<"evidence", "trace">>] =
            <<Event("evidence", "agent_started")>> \o ToolTrace
                \o <<Event("evidence", "agent_completed")>>

EvidenceFailed ==
    /\ state[<<"evidence", "output">>] = unavailable
    /\ state[<<"evidence", "observed">>] = {}
    /\ state[<<"evidence", "history">>] = <<>>
    /\ state[<<"evidence", "status">>] = "failed"
    /\ state[<<"evidence", "error">>] = "failed"
    /\ state[<<"evidence", "trace">>] =
            <<Event("evidence", "agent_started"), Event("evidence", "agent_failed"),
              Event(None, "degraded_mode")>>

EvidenceChannels ==
    IF node \in Gathering
    THEN /\ Untouched("evidence")
         /\ state[<<"evidence", "observed">>] = {}
         /\ state[<<"evidence", "history">>] = <<>>
    ELSE EvidenceCompleted \/ EvidenceFailed

(* What a branch returned is what the join leaves in its channels. *)
BranchCompleted(b) ==
    /\ writes[b] = CompletedBranch(b)
    /\ state[<<b, "output">>] = "analysis"
    /\ state[<<b, "status">>] = "completed"
    /\ state[<<b, "error">>] = None
    /\ state[<<b, "trace">>] = BranchTrace(b, "agent_completed")

BranchFailed(b) ==
    /\ writes[b] = FailedBranch(b)
    /\ state[<<b, "output">>] = None
    /\ state[<<b, "status">>] = "failed"
    /\ state[<<b, "error">>] = "failed"
    /\ state[<<b, "trace">>] = BranchTrace(b, "agent_failed")

BranchChannels ==
    /\ writes = [b \in Branches |-> writes[b]]
    /\ \A b \in Branches :
        /\ writes[b] \in {NoUpdate, CompletedBranch(b), FailedBranch(b)}
        /\ IF node \in BeforeJoin THEN Untouched(b) ELSE BranchCompleted(b) \/ BranchFailed(b)

Metadata ==
    [statuses |-> [a \in Specialists |-> state[<<a, "status">>]],
     errors |-> [a \in Specialists |-> state[<<a, "error">>]],
     tool_calls |-> Len(state[<<"evidence", "history">>]),
     degradation_reasons |-> degradation_reasons,
     degraded |-> degradation_reasons # {},
     trace |-> merged_trace]

(* What was synthesized and returned, from the channels of the others. *)
Outcome ==
    /\ node # "initialize" =>
            state[<<"workflow", "trace">>] = <<Event(None, "workflow_started")>>
    /\ node \in {"validate", "returned"} =>
            /\ MaySynthesize
            /\ state[<<"synthesis", "output">>] = [information_gaps |-> failures]
            /\ state[<<"synthesis", "trace">>] = BranchTrace("synthesis", "agent_completed")
            /\ state[<<"synthesis", "status">>] = "completed"
    /\ node = "returned" => state[<<"workflow", "output">>] = Metadata
    /\ raised = "too_many_failures" => node = "raised" /\ ~MaySynthesize

Inv ==
    /\ Typed
    /\ Looping
    /\ EvidenceChannels
    /\ BranchChannels
    /\ Outcome
-----------------------------------------------------------------------------
(* What one tool call may do. *)

(***************************************************************************)
(* AgentToolPermissions.execute: a call that is not permitted is refused   *)
(* as such; a permitted one is rejected or reused, leaving the cache alone,*)
(* or runs its handler, whose result is remembered.                        *)
(***************************************************************************)
LEMMA PermittedOutcome ==
    ASSUME NEW c \in ToolCalls, NEW memo \in CacheType,
           NEW x \in permitted_execute(Permitted, c, memo)
    PROVE  /\ x.result \in ToolExecutionResult
           /\ c \notin Permitted => x.result.error = "unauthorized_tool"
           /\ c \in Permitted => x.result.error # "unauthorized_tool"
           /\ x.ran = {} \/ (c \in Permitted \cap Valid /\ x.ran = {Fingerprint[c]})
           /\ \/ /\ x.cache = memo
                 /\ \/ x.result.evidence = {}
                    \/ \E f \in Fingerprints : memo[f] # NoResult
                                               /\ x.result.evidence = memo[f].evidence
              \/ /\ c \in Permitted \cap Valid /\ memo[Fingerprint[c]] = NoResult
                 /\ x.result \in Cacheable
                 /\ x.cache = [memo EXCEPT ![Fingerprint[c]] = x.result]
<1> USE CallAssumption, FingerprintAssumption, ReturnsAssumption
<1>1. \A code \in RejectCodes \cup FailureCodes :
        /\ Failure(code) \in ToolExecutionResult
        /\ Failure(code).error = code /\ Failure(code).evidence = {}
    BY DEF Failure, ToolExecutionResult
<1>2. CASE c \notin Permitted
    <2>1. x = Execution(Failure("unauthorized_tool"), memo, {})
        BY <1>2 DEF permitted_execute
    <2> QED
        BY <1>1, <1>2, <2>1 DEF Execution, RejectCodes
<1>3. CASE c \in Permitted /\ c \notin Valid
    <2>1. PICK code \in {"unknown_tool", "invalid_tool_arguments"} :
            x = Execution(Failure(code), memo, {})
        BY <1>3 DEF permitted_execute, execute
    <2> QED
        BY <1>1, <1>3, <2>1 DEF Execution, RejectCodes
<1>4. CASE c \in Permitted /\ c \in Valid /\ memo[Fingerprint[c]] # NoResult
    <2>1. PICK f \in Fingerprints : f = Fingerprint[c]
        BY <1>4
    <2>2. x = Execution([memo[f] EXCEPT !.cached = TRUE], memo, {})
        BY <1>4, <2>1 DEF permitted_execute, execute
    <2>3. /\ memo[f] \in ToolExecutionResult /\ memo[f] # NoResult
          /\ memo[f].error # "unauthorized_tool"
        BY <1>4, <2>1 DEF CacheType, Cacheable, RejectCodes
    <2>4. /\ x.result = [memo[f] EXCEPT !.cached = TRUE] /\ x.ran = {} /\ x.cache = memo
        BY <2>2 DEF Execution
    <2>5. /\ x.result \in ToolExecutionResult
          /\ x.result.evidence = memo[f].evidence /\ x.result.error = memo[f].error
        BY <2>3, <2>4 DEF ToolExecutionResult
    <2> QED
        BY <1>4, <2>3, <2>4, <2>5
<1>5. CASE c \in Permitted /\ c \in Valid /\ memo[Fingerprint[c]] = NoResult
    <2>1. PICK r \in HandlerResults(c) :
            x = Execution(r, [memo EXCEPT ![Fingerprint[c]] = r], {Fingerprint[c]})
        BY <1>5 DEF permitted_execute, execute
    <2>2. r \in Cacheable
        <3>1. ASSUME NEW o \in Returns[c] PROVE Success(o) \in ToolExecutionResult
                                                /\ Success(o).error = "none"
            BY <1>5, <3>1 DEF Success, ToolExecutionResult
        <3> QED
            BY <1>1, <3>1, <2>1 DEF HandlerResults, FailureCodes, RejectCodes, Cacheable
    <2> QED
        BY <1>5, <2>1, <2>2 DEF Execution, Cacheable, RejectCodes
<1> QED
    BY <1>2, <1>3, <1>4, <1>5

(* The cache after a call holds the evidence it held before and that of the *)
(* call's result.                                                           *)
LEMMA PermittedEvidence ==
    ASSUME NEW c \in ToolCalls, NEW memo \in CacheType,
           NEW x \in permitted_execute(Permitted, c, memo)
    PROVE  /\ CachedEvidence(x.cache) = CachedEvidence(memo) \cup x.result.evidence
           /\ x.cache \in CacheType
<1>1. CASE x.cache = memo /\ x.result.evidence = {}
    BY <1>1
<1>2. ASSUME NEW f \in Fingerprints, x.cache = memo,
             memo[f] # NoResult /\ x.result.evidence = memo[f].evidence
      PROVE  CachedEvidence(x.cache) = CachedEvidence(memo) \cup x.result.evidence
    <2>1. memo[f].evidence \subseteq CachedEvidence(memo)
        BY <1>2 DEF CachedEvidence
    <2> QED
        BY <1>2, <2>1
<1>3. CASE /\ c \in Permitted \cap Valid /\ memo[Fingerprint[c]] = NoResult
           /\ x.result \in Cacheable
           /\ x.cache = [memo EXCEPT ![Fingerprint[c]] = x.result]
    <2>1. PICK f \in Fingerprints : f = Fingerprint[c]
        BY <1>3, FingerprintAssumption
    <2>2. x.result # NoResult
        BY <1>3, ResultAssumption DEF Cacheable
    <2>3. memo[f] = NoResult /\ memo \in [Fingerprints -> Cacheable \cup {NoResult}]
        BY <1>3, <2>1 DEF CacheType
    <2>4. \A g \in Fingerprints : x.cache[g] = IF g = f THEN x.result ELSE memo[g]
        BY <1>3, <2>1, <2>3
    <2>5. {g \in Fingerprints : x.cache[g] # NoResult}
            = {g \in Fingerprints : memo[g] # NoResult} \cup {f}
        BY <2>2, <2>4
    <2>6. \A g \in Fingerprints : memo[g] # NoResult => g # f
        BY <2>3
    <2>7. x.cache \in CacheType
        BY <1>3, <2>1, <2>3 DEF CacheType
    <2> QED
        BY <2>4, <2>5, <2>6, <2>7 DEF CachedEvidence
<1> QED
    BY <1>1, <1>2, <1>3, PermittedOutcome

-----------------------------------------------------------------------------
(* Channels. *)

(* The fields of an agent's update are its channels' values after it; the   *)
(* other channels keep theirs.                                              *)
LEMMA UpdateAgent ==
    ASSUME NEW s, s = [c \in Channels |-> s[c]], NEW agent, NEW fields
    PROVE  LET t == Applied(s, Update(agent, fields))
           IN  /\ t = [c \in Channels |-> t[c]]
               /\ \A a, f : <<a, f>> \in Channels =>
                    t[<<a, f>>] = IF a = agent /\ f \in DOMAIN fields THEN fields[f]
                                  ELSE s[<<a, f>>]
<1> DEFINE u == Update(agent, fields)
           t == Applied(s, u)
<1>1. DOMAIN u = {<<agent, f>> : f \in DOMAIN fields}
    BY DEF Update
<1>2. \A f \in DOMAIN fields : u[<<agent, f>>] = fields[f]
    BY DEF Update
<1>3. DOMAIN s = Channels
    OBVIOUS
<1> HIDE DEF u
<1>4. t = [c \in Channels |-> IF c \in DOMAIN u THEN u[c] ELSE s[c]]
    BY <1>3 DEF Applied
<1> HIDE DEF t
<1>5. t = [c \in Channels |-> t[c]]
    BY <1>4
<1>6. ASSUME NEW a, NEW f, <<a, f>> \in Channels
      PROVE  t[<<a, f>>] = IF a = agent /\ f \in DOMAIN fields THEN fields[f]
                           ELSE s[<<a, f>>]
    <2>1. (<<a, f>> \in DOMAIN u) <=> (a = agent /\ f \in DOMAIN fields)
        BY <1>1
    <2> QED
        BY <1>2, <1>4, <1>6, <2>1
<1> QED
    BY <1>5, <1>6 DEF t, u

(* The channels there are. *)
LEMMA ChannelNames ==
    /\ \A a \in {"evidence", "architecture", "risk_governance", "synthesis"},
          f \in {"output", "status", "error", "trace"} : <<a, f>> \in Channels
    /\ <<"evidence", "observed">> \in Channels /\ <<"evidence", "history">> \in Channels
    /\ <<"workflow", "trace">> \in Channels /\ <<"workflow", "output">> \in Channels
BY DEF Channels, Specialists

(* A run starts with nothing in its channels. *)
LEMMA InitInv == Init => Inv
<1> SUFFICES ASSUME Init PROVE Inv
    OBVIOUS
<1> USE DEF Init
<1>1. state = [c \in Channels |-> state[c]]
    BY DEF initialize_multi_agent_state
<1>2. \A a, f : <<a, f>> \in Channels => state[<<a, f>>] =
            CASE f = "status" -> "pending"
              [] f \in {"trace", "history"} -> <<>>
              [] f = "observed" -> {}
              [] OTHER -> None
    BY DEF initialize_multi_agent_state
<1>3. Typed
    BY <1>1 DEF Typed, Nodes, BeforeJoin, Gathering, EmptyCache, CacheType
<1>4. Len(history) = 0
    OBVIOUS
<1>5. Looping
    <2>1. limits.steps \in Nat /\ limits.tools \in Nat
        BY LimitsAssumption
    <2>2. EvidenceBudget
        BY <1>4, <2>1, NoneAssumption DEF EvidenceBudget
    <2>3. Returned(history) = {}
        BY <1>4 DEF Returned
    <2>4. CachedEvidence(cache) = {}
        BY DEF EmptyCache, CachedEvidence
    <2>5. ToolsAreAuthorized
        BY <1>4, <2>3, <2>4 DEF ToolsAreAuthorized
    <2> QED
        BY <1>4, <2>1, <2>2, <2>5 DEF Looping
<1>6. \A a \in {"evidence", "architecture", "risk_governance"} : Untouched(a)
    BY <1>2, ChannelNames DEF Untouched
<1>7. EvidenceChannels
    BY <1>2, <1>6, ChannelNames DEF EvidenceChannels, Gathering
<1>8. BranchChannels
    BY <1>6 DEF BranchChannels, Branches, BeforeJoin, Gathering
<1>9. Outcome
    BY NoneAssumption DEF Outcome
<1> QED
    BY <1>3, <1>5, <1>7, <1>8, <1>9 DEF Inv

-----------------------------------------------------------------------------
(* The steps. *)

LocalsTyped ==
    limits \in Limits /\ step \in Nat /\ history \in Seq(HistoryEntry) /\ cache \in CacheType

(* The limits of a run are numbers. *)
LEMMA LimitsType ==
    ASSUME limits \in Limits
    PROVE  limits.steps \in Nat /\ limits.tools \in Nat /\ limits.failures \in 0..2
BY LimitsAssumption

(* A step outside the loop. *)
LEMMA LoopUnchanged ==
    ASSUME Typed, Looping, UNCHANGED <<limits, gathered>>,
           node' \in {"initialize", "evidence"} => node \in {"initialize", "evidence"}
    PROVE  LocalsTyped' /\ Looping'
BY DEF Typed, LocalsTyped, Looping, gathered, EvidenceBudget, ToolsAreAuthorized, Returned,
       CachedEvidence

(* One tool call leaves the evidence loop in a state of its type. *)
LEMMA ToolStep ==
    ASSUME Typed, Looping, NEW call \in ToolCalls, GatherTool(call)
    PROVE  LocalsTyped' /\ Looping'
<1>1. PICK x \in permitted_execute(Permitted, call, cache) :
        /\ Asking
        /\ step' = step + 1
        /\ history' = Append(history, [step |-> step', call |-> call, result |-> x.result])
        /\ cache' = x.cache
        /\ observed' = observed \cup x.result.evidence
        /\ ran' = ran \cup x.ran
        /\ UNCHANGED <<limits, node, state, writes, raised, termination>>
    BY DEF GatherTool
<1>2. cache \in CacheType /\ step \in Nat /\ step + 1 \in Nat /\ limits \in Limits
    BY DEF Typed
<1>3. /\ x.result \in ToolExecutionResult
      /\ (call \notin Permitted) <=> (x.result.error = "unauthorized_tool")
      /\ x.ran = {} \/ (call \in Permitted \cap Valid /\ x.ran = {Fingerprint[call]})
    <2>1. x.result \in ToolExecutionResult
        BY <1>2, PermittedOutcome
    <2>2. call \in Permitted => x.result.error # "unauthorized_tool"
        BY <1>2, PermittedOutcome
    <2>4. call \notin Permitted => x.result.error = "unauthorized_tool"
        BY DEF permitted_execute, Execution, Failure
    <2>3. x.ran = {} \/ (call \in Permitted \cap Valid /\ x.ran = {Fingerprint[call]})
        BY <1>2, PermittedOutcome
    <2> QED
        BY <2>1, <2>2, <2>3, <2>4
<1>4. /\ CachedEvidence(x.cache) = CachedEvidence(cache) \cup x.result.evidence
      /\ x.cache \in CacheType
    BY <1>2, PermittedEvidence
<1> DEFINE e == [step |-> step + 1, call |-> call, result |-> x.result]
<1>5. e \in HistoryEntry /\ e.call = call /\ e.result = x.result
    BY <1>2, <1>3 DEF HistoryEntry
<1>6. history \in Seq(HistoryEntry) /\ history' = Append(history, e)
    BY <1>1 DEF Typed
<1> HIDE DEF e
<1>7. /\ history' \in Seq(HistoryEntry) /\ Len(history) \in Nat
      /\ Len(history') = Len(history) + 1
      /\ \A i \in 1..Len(history) : history'[i] = history[i]
      /\ history'[Len(history) + 1] = e
    BY <1>5, <1>6
<1>8. LocalsTyped'
    BY <1>1, <1>2, <1>4, <1>7 DEF LocalsTyped
<1>9. /\ node = "evidence" /\ ~(step >= limits.steps) /\ ~(Len(history) >= limits.tools)
    BY <1>1 DEF Asking, Exhausted, AtToolLimit
<1>10. Len(history) = step /\ termination = None
    BY <1>9 DEF Looping
<1>11. EvidenceBudget'
    BY <1>1, <1>2, <1>7, <1>9, <1>10, LimitsType, NoneAssumption DEF EvidenceBudget
<1>12. ToolsAreAuthorized'
    <2>1. {history'[i].result.evidence : i \in 1..Len(history')}
            = {history[i].result.evidence : i \in 1..Len(history)} \cup {x.result.evidence}
        BY <1>5, <1>7
    <2>2. Returned(history') = Returned(history) \cup x.result.evidence
        BY <2>1 DEF Returned
    <2>3. observed' = Returned(history') /\ observed' = CachedEvidence(cache')
        BY <1>1, <1>4, <2>2 DEF Looping, ToolsAreAuthorized
    <2>4. ran' \subseteq {Fingerprint[c] : c \in Permitted \cap Valid}
        BY <1>1, <1>3 DEF Looping, ToolsAreAuthorized
    <2>5. \A i \in 1..Len(history') :
            (history'[i].call \notin Permitted)
                <=> (history'[i].result.error = "unauthorized_tool")
        <3> SUFFICES ASSUME NEW i \in 1..Len(history')
                     PROVE  (history'[i].call \notin Permitted)
                                <=> (history'[i].result.error = "unauthorized_tool")
            OBVIOUS
        <3>1. CASE i = Len(history) + 1
            BY <1>3, <1>5, <1>7, <3>1
        <3>2. CASE i \in 1..Len(history)
            BY <1>7, <3>2 DEF Looping, ToolsAreAuthorized
        <3> QED
            BY <1>7, <3>1, <3>2
    <2> QED
        BY <2>3, <2>4, <2>5 DEF ToolsAreAuthorized
<1>13. Len(history') = step' /\ step' <= limits'.steps /\ termination' = None
    BY <1>1, <1>2, <1>7, <1>9, <1>10, LimitsType
<1> QED
    BY <1>8, <1>11, <1>12, <1>13 DEF Looping

(* The loop is left: nothing but the reason and the step count changes. *)
LEMMA LeaveStep ==
    ASSUME Typed, Looping, GatherAtLimit \/ GatherStops
    PROVE  LocalsTyped' /\ Looping'
<1>1. /\ node = "evidence" /\ node' = "brief"
      /\ UNCHANGED <<limits, history, cache, observed, ran>>
    BY DEF GatherAtLimit, GatherStops, Asking
<1>2. /\ Len(history) = step /\ step <= limits.steps /\ Len(history) <= limits.tools
      /\ step \in Nat /\ limits.steps \in Nat /\ limits.tools \in Nat
    BY <1>1, LimitsType DEF Typed, Looping, EvidenceBudget
<1>3. ToolsAreAuthorized'
    BY <1>1 DEF Looping, ToolsAreAuthorized, Returned, CachedEvidence
<1>4. CASE GatherAtLimit
    <2>1. step' = step /\ (step >= limits.steps \/ Len(history) >= limits.tools)
          /\ termination' = IF step >= limits.steps THEN "max_steps_reached"
                            ELSE "max_tool_calls_reached"
        BY <1>4 DEF GatherAtLimit, Exhausted, AtToolLimit
    <2>2. EvidenceBudget'
        BY <1>1, <1>2, <2>1 DEF EvidenceBudget
    <2>3. LocalsTyped'
        BY <1>1, <2>1 DEF LocalsTyped, Typed
    <2> QED
        BY <1>1, <1>3, <2>2, <2>3 DEF Looping
<1>5. CASE GatherStops
    <2>1. step' = step + 1 /\ termination' = "agent_stopped"
        BY <1>5 DEF GatherStops
    <2>2. EvidenceBudget'
        BY <1>1, <1>2, <2>1 DEF EvidenceBudget
    <2>3. LocalsTyped'
        BY <1>1, <1>2, <2>1 DEF LocalsTyped, Typed
    <2> QED
        BY <1>1, <1>3, <2>2, <2>3 DEF Looping
<1> QED
    BY <1>4, <1>5

(* Initialize preserves Inv. *)
LEMMA InitializeStep == ASSUME Inv, Initialize PROVE Inv'
<1> USE ChannelNames
<1>1. /\ node = "initialize" /\ node' = "evidence"
      /\ UNCHANGED <<limits, writes, raised, gathered>>
      /\ state' = Applied(state, Update("workflow",
                    [trace |-> <<Event(None, "workflow_started")>>]))
    BY DEF Initialize
<1>2. /\ state' = [c \in Channels |-> state'[c]]
      /\ \A a, f : <<a, f>> \in Channels => state'[<<a, f>>] =
            IF a = "workflow" /\ f \in {"trace"} THEN <<Event(None, "workflow_started")>>
            ELSE state[<<a, f>>]
    BY <1>1, UpdateAgent DEF Inv, Typed
<1>3. LocalsTyped' /\ Looping'
    BY <1>1, LoopUnchanged DEF Inv
<1>4. \A a \in {"evidence", "architecture", "risk_governance"} : Untouched(a)
    BY <1>1 DEF Inv, EvidenceChannels, BranchChannels, Branches, Gathering, BeforeJoin
<1>5. \A a \in {"evidence", "architecture", "risk_governance"} : Untouched(a)'
    BY <1>2, <1>4 DEF Untouched
<1>6. EvidenceChannels'
    BY <1>1, <1>2, <1>5 DEF Inv, EvidenceChannels, Gathering
<1>7. BranchChannels'
    BY <1>1, <1>5 DEF Inv, BranchChannels, Branches, Gathering, BeforeJoin, CompletedBranch,
                      FailedBranch
<1>8. Outcome'
    BY <1>1, <1>2 DEF Inv, Outcome
<1>9. Typed'
    BY <1>1, <1>2, <1>3 DEF Inv, Typed, LocalsTyped, Nodes, BeforeJoin, Gathering
<1> QED
    BY <1>3, <1>6, <1>7, <1>8, <1>9 DEF Inv

(* The loop's steps leave the channels alone. *)
LEMMA GatherStep ==
    ASSUME Inv,
           GatherAtLimit \/ GatherStops \/ \E call \in ToolCalls : GatherTool(call)
    PROVE  Inv'
<1>1. /\ node = "evidence" /\ node' \in {"evidence", "brief"}
      /\ UNCHANGED <<limits, state, writes, raised>>
    BY DEF GatherAtLimit, GatherStops, GatherTool, Asking
<1>2. LocalsTyped' /\ Looping'
    BY ToolStep, LeaveStep DEF Inv
<1>3. EvidenceChannels'
    BY <1>1 DEF Inv, EvidenceChannels, Gathering, Untouched
<1>4. BranchChannels'
    BY <1>1 DEF Inv, BranchChannels, Gathering, BeforeJoin, Untouched, CompletedBranch,
                FailedBranch
<1>5. Outcome'
    BY <1>1 DEF Inv, Outcome
<1>6. Typed'
    BY <1>1, <1>2 DEF Inv, Typed, LocalsTyped, Nodes, BeforeJoin, Gathering
<1> QED
    BY <1>2, <1>3, <1>4, <1>5, <1>6 DEF Inv

(* The evidence node returns. *)
LEMMA EvidenceStep ==
    ASSUME Inv, EvidenceFails \/ \E items \in SUBSET BriefItems : EvidenceCompletes(items)
    PROVE  Inv'
<1> USE ChannelNames
<1>1. /\ node \in {"evidence", "brief"} /\ node' = "branches"
      /\ UNCHANGED <<limits, writes, raised, gathered>>
    BY DEF EvidenceFails, EvidenceCompletes, Asking
<1>2. LocalsTyped' /\ Looping'
    BY <1>1, LoopUnchanged DEF Inv
<1>3. /\ state = [c \in Channels |-> state[c]]
      /\ Untouched("evidence")
      /\ state[<<"evidence", "observed">>] = {} /\ state[<<"evidence", "history">>] = <<>>
    BY <1>1 DEF Inv, Typed, EvidenceChannels, Gathering
<1>4. /\ state' = [c \in Channels |-> state'[c]]
      /\ \A a, f : <<a, f>> \in Channels /\ a # "evidence" => state'[<<a, f>>] = state[<<a, f>>]
      /\ EvidenceCompleted' \/ EvidenceFailed'
    <2>1. CASE EvidenceFails
        <3> DEFINE fields == [output |-> unavailable, status |-> "failed", error |-> "failed",
                 trace |-> <<Event("evidence", "agent_started"), Event("evidence", "agent_failed"),
                             Event(None, "degraded_mode")>>]
        <3>1. state' = Applied(state, Update("evidence", fields))
            BY <2>1 DEF EvidenceFails
        <3>2. DOMAIN fields = {"output", "status", "error", "trace"}
            OBVIOUS
        <3>3. /\ fields["output"] = unavailable
              /\ fields["status"] = "failed" /\ fields["error"] = "failed"
              /\ fields["trace"] =
                    <<Event("evidence", "agent_started"), Event("evidence", "agent_failed"),
                      Event(None, "degraded_mode")>>
            OBVIOUS
        <3> HIDE DEF fields
        <3>4. /\ state' = [c \in Channels |-> state'[c]]
              /\ \A a, f : <<a, f>> \in Channels => state'[<<a, f>>] =
                    IF a = "evidence" /\ f \in DOMAIN fields THEN fields[f] ELSE state[<<a, f>>]
            BY <1>3, <3>1, UpdateAgent
        <3>5. EvidenceFailed'
            BY <1>3, <3>2, <3>3, <3>4 DEF EvidenceFailed, unavailable
        <3> QED
            BY <3>4, <3>5
    <2>2. ASSUME NEW items \in SUBSET BriefItems, EvidenceCompletes(items)
          PROVE  /\ state' = [c \in Channels |-> state'[c]]
                 /\ \A a, f : <<a, f>> \in Channels /\ a # "evidence" =>
                        state'[<<a, f>>] = state[<<a, f>>]
                 /\ EvidenceCompleted'
        <3> DEFINE tr == <<Event("evidence", "agent_started")>> \o ToolTrace
                            \o <<Event("evidence", "agent_completed")>>
                   fields == [output |-> sanitize_brief(items), observed |-> observed,
                              history |-> history, status |-> "completed", trace |-> tr]
        <3>1. state' = Applied(state, Update("evidence", fields))
            BY <2>2 DEF EvidenceCompletes
        <3>6. tr' = tr /\ sanitize_brief(items)' = sanitize_brief(items)
              /\ observed' = observed /\ history' = history
            BY <1>1 DEF gathered, ToolTrace, sanitize_brief, allowed_documents, allowed_chunks
        <3>7. tr' = (<<Event("evidence", "agent_started")>> \o ToolTrace
                            \o <<Event("evidence", "agent_completed")>>)'
            OBVIOUS
        <3> HIDE DEF tr
        <3>2. DOMAIN fields = {"output", "observed", "history", "status", "trace"}
            OBVIOUS
        <3>3. /\ fields["output"] = sanitize_brief(items)
              /\ fields["status"] = "completed" /\ fields["observed"] = observed
              /\ fields["history"] = history /\ fields["trace"] = tr
            OBVIOUS
        <3> HIDE DEF fields
        <3>4. /\ state' = [c \in Channels |-> state'[c]]
              /\ \A a, f : <<a, f>> \in Channels => state'[<<a, f>>] =
                    IF a = "evidence" /\ f \in DOMAIN fields THEN fields[f] ELSE state[<<a, f>>]
            BY <1>3, <3>1, UpdateAgent
        <3>5. /\ state'[<<"evidence", "output">>] = sanitize_brief(items)'
              /\ state'[<<"evidence", "observed">>] = observed'
              /\ state'[<<"evidence", "history">>] = history'
              /\ state'[<<"evidence", "status">>] = "completed"
              /\ state'[<<"evidence", "error">>] = None
              /\ state'[<<"evidence", "trace">>] = tr'
            BY <1>3, <3>2, <3>3, <3>4, <3>6 DEF Untouched
        <3>8. EvidenceCompleted'
            BY <3>5, <3>7 DEF EvidenceCompleted
        <3> QED
            BY <3>4, <3>8
    <2> QED
        BY <2>1, <2>2
<1>5. EvidenceChannels'
    BY <1>1, <1>4 DEF EvidenceChannels, Gathering
<1>6. BranchChannels'
    <2>1. \A b \in Branches : Untouched(b)
        BY <1>1 DEF Inv, BranchChannels, BeforeJoin, Gathering
    <2>2. \A b \in Branches : Untouched(b)'
        BY <1>4, <2>1 DEF Untouched, Branches
    <2> QED
        BY <1>1, <2>2 DEF Inv, BranchChannels, Branches, Gathering, BeforeJoin, CompletedBranch,
                      FailedBranch
<1>7. Outcome'
    BY <1>1, <1>4 DEF Inv, Outcome
<1>8. Typed'
    BY <1>1, <1>2, <1>4 DEF Inv, Typed, LocalsTyped, Nodes, BeforeJoin
<1> QED
    BY <1>2, <1>5, <1>6, <1>7, <1>8 DEF Inv

(* What the branches may return, and where it goes. *)
LEMMA BranchUpdates ==
    ASSUME NEW b \in Branches
    PROVE  /\ DOMAIN CompletedBranch(b) = {<<b, "output">>, <<b, "status">>, <<b, "trace">>}
           /\ CompletedBranch(b)[<<b, "output">>] = "analysis"
           /\ CompletedBranch(b)[<<b, "status">>] = "completed"
           /\ CompletedBranch(b)[<<b, "trace">>] = BranchTrace(b, "agent_completed")
           /\ DOMAIN FailedBranch(b) = {<<b, "status">>, <<b, "error">>, <<b, "trace">>}
           /\ FailedBranch(b)[<<b, "status">>] = "failed"
           /\ FailedBranch(b)[<<b, "error">>] = "failed"
           /\ FailedBranch(b)[<<b, "trace">>] = BranchTrace(b, "agent_failed")
           /\ CompletedBranch(b) # NoUpdate /\ FailedBranch(b) # NoUpdate
           /\ \A c \in DOMAIN CompletedBranch(b) : c[1] = b
           /\ \A c \in DOMAIN FailedBranch(b) : c[1] = b
           /\ <<b, "error">> \notin DOMAIN CompletedBranch(b)
           /\ <<b, "output">> \notin DOMAIN FailedBranch(b)
<1>1. /\ DOMAIN CompletedBranch(b) = {<<b, "output">>, <<b, "status">>, <<b, "trace">>}
      /\ CompletedBranch(b)[<<b, "output">>] = "analysis"
      /\ CompletedBranch(b)[<<b, "status">>] = "completed"
      /\ CompletedBranch(b)[<<b, "trace">>] = BranchTrace(b, "agent_completed")
    BY DEF CompletedBranch, Update
<1>2. /\ DOMAIN FailedBranch(b) = {<<b, "status">>, <<b, "error">>, <<b, "trace">>}
      /\ FailedBranch(b)[<<b, "status">>] = "failed"
      /\ FailedBranch(b)[<<b, "error">>] = "failed"
      /\ FailedBranch(b)[<<b, "trace">>] = BranchTrace(b, "agent_failed")
    BY DEF FailedBranch, Update
<1>3. DOMAIN NoUpdate = {}
    BY DEF NoUpdate
<1>4. CompletedBranch(b) # NoUpdate
    BY <1>1, <1>3
<1>5. FailedBranch(b) # NoUpdate
    BY <1>2, <1>3
<1>6. /\ \A c \in DOMAIN CompletedBranch(b) : c[1] = b
      /\ <<b, "error">> \notin DOMAIN CompletedBranch(b)
    BY <1>1
<1>7. /\ \A c \in DOMAIN FailedBranch(b) : c[1] = b
      /\ <<b, "output">> \notin DOMAIN FailedBranch(b)
    BY <1>2
<1> QED
    BY <1>1, <1>2, <1>4, <1>5, <1>6, <1>7

(* Each branch preserves Inv, in whichever order they return. *)
LEMMA BranchStep == ASSUME Inv, architecture \/ risk_governance PROVE Inv'
<1>0. PICK b \in Branches :
        BranchReturns(b, CompletedBranch(b)) \/ BranchReturns(b, FailedBranch(b))
    BY DEF architecture, risk_governance, Branches
<1>1. PICK update \in {CompletedBranch(b), FailedBranch(b)} : BranchReturns(b, update)
    BY <1>0
<1>2. /\ node = "branches" /\ writes' = [writes EXCEPT ![b] = update]
      /\ UNCHANGED <<limits, node, state, raised, gathered>>
    BY <1>1 DEF BranchReturns
<1>3. LocalsTyped' /\ Looping'
    BY <1>2, LoopUnchanged DEF Inv
<1>4. EvidenceChannels'
    BY <1>2 DEF Inv, EvidenceChannels, EvidenceCompleted, EvidenceFailed, Gathering, gathered,
                sanitize_brief, allowed_chunks, allowed_documents, ToolTrace
<1>5. BranchChannels'
    <2>1. writes = [x \in Branches |-> writes[x]]
        BY DEF Inv, BranchChannels
    <2>2. /\ writes' = [x \in Branches |-> writes'[x]]
          /\ \A x \in Branches : writes'[x] = IF x = b THEN update ELSE writes[x]
        BY <1>2, <2>1
    <2>3. \A x \in Branches :
            writes'[x] \in {NoUpdate, CompletedBranch(x), FailedBranch(x)}
        BY <1>1, <2>2 DEF Inv, BranchChannels
    <2>4. \A x \in Branches : Untouched(x)'
        BY <1>2 DEF Inv, BranchChannels, BeforeJoin, Untouched
    <2> QED
        BY <1>2, <2>2, <2>3, <2>4 DEF BranchChannels, BeforeJoin, CompletedBranch, FailedBranch
<1>6. Outcome'
    BY <1>2 DEF Inv, Outcome
<1>7. Typed'
    BY <1>2, <1>3 DEF Inv, Typed, LocalsTyped
<1> QED
    BY <1>3, <1>4, <1>5, <1>6, <1>7 DEF Inv

(* The updates of the two branches share no channel. *)
LEMMA NothingShared ==
    ASSUME Inv, ReadyToJoin
    PROVE  /\ SharedChannels = {}
           /\ \A b \in Branches : writes[b] \in {CompletedBranch(b), FailedBranch(b)}
           /\ \A b \in Branches : \A c \in DOMAIN writes[b] : c[1] = b
<1>1. \A b \in Branches : writes[b] \in {CompletedBranch(b), FailedBranch(b)}
    BY DEF Inv, BranchChannels, ReadyToJoin
<1>2. \A b \in Branches : \A c \in DOMAIN writes[b] : c[1] = b
    BY ZenonT(60), <1>1, BranchUpdates
<1>3. "architecture" \in Branches /\ "risk_governance" \in Branches
    BY DEF Branches
<1>4. SharedChannels = {}
    BY <1>2, <1>3 DEF SharedChannels
<1> QED
    BY <1>1, <1>2, <1>4

(* Join preserves Inv. *)
LEMMA JoinStep == ASSUME Inv, Join PROVE Inv'
<1> USE ChannelNames
<1>1. node = "branches" /\ ReadyToJoin
    BY DEF Join
<1>2. /\ \A b \in Branches : writes[b] \in {CompletedBranch(b), FailedBranch(b)}
      /\ \A b \in Branches : \A c \in DOMAIN writes[b] : c[1] = b
    BY <1>1, NothingShared
<1>3. /\ node' = "synthesis" /\ UNCHANGED <<limits, writes, raised, gathered>>
      /\ state' = Applied(Applied(state, writes["architecture"]), writes["risk_governance"])
    BY <1>1, NothingShared DEF Join
<1>4. LocalsTyped' /\ Looping'
    BY <1>1, <1>3, LoopUnchanged DEF Inv
<1>5. /\ state' = [c \in Channels |-> state'[c]]
      /\ \A c \in Channels : state'[c] =
            IF c \in DOMAIN writes["risk_governance"] THEN writes["risk_governance"][c]
            ELSE IF c \in DOMAIN writes["architecture"] THEN writes["architecture"][c]
            ELSE state[c]
    <2>1. state = [c \in Channels |-> state[c]]
        BY DEF Inv, Typed
    <2> DEFINE mid == Applied(state, writes["architecture"])
    <2>2. mid = [c \in Channels |->
                    IF c \in DOMAIN writes["architecture"] THEN writes["architecture"][c]
                    ELSE state[c]]
        BY <2>1 DEF Applied
    <2> HIDE DEF mid
    <2>3. state' = [c \in Channels |->
            IF c \in DOMAIN writes["risk_governance"] THEN writes["risk_governance"][c]
            ELSE mid[c]]
        BY <1>3, <2>2 DEF Applied, mid
    <2> QED
        BY <2>2, <2>3
<1>6. /\ \A c \in Channels : c[1] \notin Branches => state'[c] = state[c]
      /\ \A b \in Branches : \A c \in Channels : c[1] = b =>
            state'[c] = IF c \in DOMAIN writes[b] THEN writes[b][c] ELSE state[c]
    <2>1. \A c \in Channels : c[1] # "architecture" => c \notin DOMAIN writes["architecture"]
        BY <1>2 DEF Branches
    <2>2. \A c \in Channels :
            c[1] # "risk_governance" => c \notin DOMAIN writes["risk_governance"]
        BY <1>2 DEF Branches
    <2> QED
        BY <1>5, <2>1, <2>2 DEF Branches
<1>7. EvidenceChannels'
    <2>1. \A f : <<"evidence", f>> \in Channels =>
            state'[<<"evidence", f>>] = state[<<"evidence", f>>]
        BY <1>6 DEF Branches
    <2> QED
        BY ZenonT(60), <1>1, <1>3, <2>1 DEF Inv, EvidenceChannels, EvidenceCompleted, EvidenceFailed,
            Gathering, gathered, sanitize_brief, allowed_chunks, allowed_documents, ToolTrace
<1>8. BranchChannels'
    <2> SUFFICES ASSUME NEW b \in Branches PROVE (BranchCompleted(b) \/ BranchFailed(b))'
        BY <1>3 DEF Inv, BranchChannels, BeforeJoin, Gathering, CompletedBranch, FailedBranch
    <2>1. \A f \in {"output", "status", "error", "trace"} :
            /\ <<b, f>> \in Channels
            /\ state'[<<b, f>>] = IF <<b, f>> \in DOMAIN writes[b] THEN writes[b][<<b, f>>]
                                  ELSE state[<<b, f>>]
        BY <1>6 DEF Branches
    <2>2. Untouched(b)
        BY <1>1 DEF Inv, BranchChannels, BeforeJoin
    <2>3. CASE writes[b] = CompletedBranch(b)
        <3>1. /\ state'[<<b, "output">>] = "analysis"
              /\ state'[<<b, "status">>] = "completed"
              /\ state'[<<b, "error">>] = None
              /\ state'[<<b, "trace">>] = BranchTrace(b, "agent_completed")
            <4>1. /\ DOMAIN CompletedBranch(b) = {<<b, "output">>, <<b, "status">>, <<b, "trace">>}
                  /\ CompletedBranch(b)[<<b, "output">>] = "analysis"
                  /\ CompletedBranch(b)[<<b, "status">>] = "completed"
                  /\ CompletedBranch(b)[<<b, "trace">>] = BranchTrace(b, "agent_completed")
                  /\ <<b, "error">> \notin DOMAIN CompletedBranch(b)
                BY BranchUpdates
            <4>2. PICK w : w = CompletedBranch(b)
                OBVIOUS
            <4>3. /\ <<b, "output">> \in DOMAIN w /\ <<b, "status">> \in DOMAIN w
                  /\ <<b, "trace">> \in DOMAIN w /\ <<b, "error">> \notin DOMAIN w
                  /\ w[<<b, "output">>] = "analysis" /\ w[<<b, "status">>] = "completed"
                  /\ w[<<b, "trace">>] = BranchTrace(b, "agent_completed")
                BY <4>1, <4>2
            <4>4. writes[b] = w
                BY <2>3, <4>2
            <4> QED
                BY <2>1, <2>2, <4>3, <4>4 DEF Untouched
        <3> QED
            BY <1>3, <2>3, <3>1 DEF BranchCompleted, CompletedBranch
    <2>4. CASE writes[b] = FailedBranch(b)
        <3>1. /\ state'[<<b, "output">>] = None
              /\ state'[<<b, "status">>] = "failed"
              /\ state'[<<b, "error">>] = "failed"
              /\ state'[<<b, "trace">>] = BranchTrace(b, "agent_failed")
            <4>1. /\ DOMAIN FailedBranch(b) = {<<b, "status">>, <<b, "error">>, <<b, "trace">>}
                  /\ FailedBranch(b)[<<b, "status">>] = "failed"
                  /\ FailedBranch(b)[<<b, "error">>] = "failed"
                  /\ FailedBranch(b)[<<b, "trace">>] = BranchTrace(b, "agent_failed")
                  /\ <<b, "output">> \notin DOMAIN FailedBranch(b)
                BY BranchUpdates
            <4>2. PICK w : w = FailedBranch(b)
                OBVIOUS
            <4>3. /\ <<b, "status">> \in DOMAIN w /\ <<b, "error">> \in DOMAIN w
                  /\ <<b, "trace">> \in DOMAIN w /\ <<b, "output">> \notin DOMAIN w
                  /\ w[<<b, "status">>] = "failed" /\ w[<<b, "error">>] = "failed"
                  /\ w[<<b, "trace">>] = BranchTrace(b, "agent_failed")
                BY <4>1, <4>2
            <4>4. writes[b] = w
                BY <2>4, <4>2
            <4> QED
                BY <2>1, <2>2, <4>3, <4>4 DEF Untouched
        <3> QED
            BY <1>3, <2>4, <3>1 DEF BranchFailed, FailedBranch
    <2> QED
        BY <1>2, <2>3, <2>4
<1>9. Outcome'
    <2>1. state'[<<"workflow", "trace">>] = state[<<"workflow", "trace">>]
        BY <1>6 DEF Branches
    <2> QED
        BY <1>1, <1>3, <2>1 DEF Inv, Outcome
<1>10. Typed'
    BY <1>3, <1>4, <1>5 DEF Inv, Typed, LocalsTyped, Nodes
<1> QED
    BY <1>4, <1>7, <1>8, <1>9, <1>10 DEF Inv

(* Steps after the join that leave the specialists' channels alone. *)
LEMMA SpecialistsUnchanged ==
    ASSUME Inv, node \notin BeforeJoin, node' \in Nodes \ BeforeJoin,
           UNCHANGED <<limits, writes, gathered>>,
           \A a \in Specialists : \A f : <<a, f>> \in Channels =>
                state'[<<a, f>>] = state[<<a, f>>]
    PROVE  /\ LocalsTyped' /\ Looping' /\ EvidenceChannels' /\ BranchChannels'
           /\ failures' = failures /\ (MaySynthesize' <=> MaySynthesize)
<1> USE ChannelNames
<1>1. LocalsTyped' /\ Looping'
    BY LoopUnchanged DEF Inv, BeforeJoin, Gathering
<1>2. \A f : <<"evidence", f>> \in Channels =>
        state'[<<"evidence", f>>] = state[<<"evidence", f>>]
    BY DEF Specialists
<1>3. EvidenceChannels'
    <2>1. \A f \in {"output", "observed", "history", "status", "error", "trace"} :
            state'[<<"evidence", f>>] = state[<<"evidence", f>>]
        BY <1>2
    <2>2. EvidenceCompleted \/ EvidenceFailed
        BY DEF Inv, EvidenceChannels, BeforeJoin
    <2>4. observed' = observed /\ history' = history /\ ToolTrace' = ToolTrace
        BY DEF gathered, ToolTrace
    <2>5. allowed_chunks' = allowed_chunks /\ allowed_documents' = allowed_documents
        BY <2>4 DEF allowed_chunks, allowed_documents
    <2>6. EvidenceCompleted => EvidenceCompleted'
        <3> SUFFICES ASSUME EvidenceCompleted PROVE EvidenceCompleted'
            OBVIOUS
        <3>1. PICK items \in SUBSET BriefItems :
                state[<<"evidence", "output">>] = sanitize_brief(items)
            BY DEF EvidenceCompleted
        <3>2. state'[<<"evidence", "output">>] = sanitize_brief(items)'
            BY <2>1, <2>5, <3>1 DEF sanitize_brief
        <3> QED
            BY <2>1, <2>4, <3>2 DEF EvidenceCompleted
    <2>7. EvidenceFailed => EvidenceFailed'
        BY <2>1 DEF EvidenceFailed
    <2>3. EvidenceCompleted' \/ EvidenceFailed'
        BY <2>2, <2>6, <2>7
    <2> QED
        BY <2>3 DEF EvidenceChannels, BeforeJoin
<1>4. \A a \in Specialists, f \in {"output", "status", "error", "trace"} :
        state'[<<a, f>>] = state[<<a, f>>]
    BY DEF Specialists
<1>5. BranchChannels'
    <2> SUFFICES ASSUME NEW b \in Branches PROVE (BranchCompleted(b) \/ BranchFailed(b))'
        BY DEF Inv, BranchChannels, CompletedBranch, FailedBranch
    <2>1. BranchCompleted(b) \/ BranchFailed(b)
        BY DEF Inv, BranchChannels
    <2>2. b \in Specialists
        BY DEF Branches, Specialists
    <2>3. \A f \in {"output", "status", "error", "trace"} :
            state'[<<b, f>>] = state[<<b, f>>]
        BY <1>4, <2>2
    <2> QED
        BY <2>1, <2>3 DEF BranchCompleted, BranchFailed, CompletedBranch, FailedBranch
<1>6. failures' = failures
    BY <1>4 DEF failures
<1>7. available' <=> available
    BY <1>4 DEF available, Branches, Specialists
<1>8. MaySynthesize' <=> MaySynthesize
    BY <1>6, <1>7 DEF MaySynthesize
<1> QED
    BY <1>1, <1>3, <1>5, <1>6, <1>8

(* A synthesis that is refused or raises preserves Inv. *)
LEMMA RaiseStep == ASSUME Inv, SynthesisRefused \/ SynthesisRaises PROVE Inv'
<1>1. /\ node = "synthesis" /\ node' = "raised"
      /\ UNCHANGED <<limits, state, writes, gathered>>
      /\ raised' \in {"too_many_failures", "synthesis"}
      /\ raised' = "too_many_failures" => ~MaySynthesize
    BY DEF SynthesisRefused, SynthesisRaises
<1>2. node \notin BeforeJoin /\ node' \in Nodes \ BeforeJoin
    BY <1>1 DEF BeforeJoin, Gathering, Nodes, Ended
<1>3. /\ LocalsTyped' /\ Looping' /\ EvidenceChannels' /\ BranchChannels'
      /\ MaySynthesize' <=> MaySynthesize
    BY <1>1, <1>2, SpecialistsUnchanged
<1>4. Outcome'
    BY <1>1, <1>3 DEF Inv, Outcome
<1>5. Typed'
    BY <1>1, <1>2, <1>3 DEF Inv, Typed, LocalsTyped
<1> QED
    BY <1>3, <1>4, <1>5 DEF Inv

(* Synthesize preserves Inv. *)
LEMMA SynthesizeStep == ASSUME Inv, Synthesize PROVE Inv'
<1> USE ChannelNames
<1> DEFINE fields == [output |-> [information_gaps |-> degradation_reasons],
                      status |-> "completed",
                      trace |-> BranchTrace("synthesis", "agent_completed")]
<1>1. /\ node = "synthesis" /\ node' = "validate" /\ MaySynthesize
      /\ UNCHANGED <<limits, writes, raised, gathered>>
      /\ state' = Applied(state, Update("synthesis", fields))
    BY DEF Synthesize
<1>2. DOMAIN fields = {"output", "status", "trace"}
    OBVIOUS
<1>3. /\ fields["output"] = [information_gaps |-> failures]
      /\ fields["status"] = "completed"
      /\ fields["trace"] = BranchTrace("synthesis", "agent_completed")
    BY DEF degradation_reasons
<1> HIDE DEF fields
<1>4. /\ state' = [c \in Channels |-> state'[c]]
      /\ \A a, f : <<a, f>> \in Channels => state'[<<a, f>>] =
            IF a = "synthesis" /\ f \in DOMAIN fields THEN fields[f] ELSE state[<<a, f>>]
    <2>1. state = [c \in Channels |-> state[c]]
        BY DEF Inv, Typed
    <2> QED
        BY <1>1, <2>1, UpdateAgent
<1>5. node \notin BeforeJoin /\ node' \in Nodes \ BeforeJoin
    BY <1>1 DEF BeforeJoin, Gathering, Nodes
<1>6. \A a \in Specialists : \A f : <<a, f>> \in Channels =>
        state'[<<a, f>>] = state[<<a, f>>]
    BY <1>4 DEF Specialists
<1>7. /\ LocalsTyped' /\ Looping' /\ EvidenceChannels' /\ BranchChannels'
      /\ failures' = failures /\ (MaySynthesize' <=> MaySynthesize)
    BY <1>1, <1>5, <1>6, SpecialistsUnchanged
<1>8. /\ state'[<<"workflow", "trace">>] = state[<<"workflow", "trace">>]
      /\ state'[<<"synthesis", "output">>] = [information_gaps |-> failures]
      /\ state'[<<"synthesis", "trace">>] = BranchTrace("synthesis", "agent_completed")
      /\ state'[<<"synthesis", "status">>] = "completed"
    BY <1>2, <1>3, <1>4
<1>9. Outcome'
    BY <1>1, <1>7, <1>8 DEF Inv, Outcome
<1>10. Typed'
    BY <1>1, <1>4, <1>5, <1>7 DEF Inv, Typed, LocalsTyped
<1> QED
    BY <1>7, <1>9, <1>10 DEF Inv

(* Validate preserves Inv. *)
LEMMA ValidateStep == ASSUME Inv, Validate PROVE Inv'
<1> USE ChannelNames
<1> DEFINE fields == [output |-> Metadata]
<1>1. /\ node = "validate" /\ node' = "returned"
      /\ UNCHANGED <<limits, writes, raised, gathered>>
      /\ state' = Applied(state, Update("workflow", fields))
    BY DEF Validate, Metadata
<1>2. DOMAIN fields = {"output"} /\ fields["output"] = Metadata
    OBVIOUS
<1> HIDE DEF fields
<1>4. /\ state' = [c \in Channels |-> state'[c]]
      /\ \A a, f : <<a, f>> \in Channels => state'[<<a, f>>] =
            IF a = "workflow" /\ f \in DOMAIN fields THEN fields[f] ELSE state[<<a, f>>]
    BY <1>1, UpdateAgent DEF Inv, Typed
<1>5. node \notin BeforeJoin /\ node' \in Nodes \ BeforeJoin
    BY <1>1 DEF BeforeJoin, Gathering, Nodes, Ended
<1>6. \A a \in Specialists : \A f : <<a, f>> \in Channels =>
        state'[<<a, f>>] = state[<<a, f>>]
    BY <1>4 DEF Specialists
<1>7. /\ LocalsTyped' /\ Looping' /\ EvidenceChannels' /\ BranchChannels'
      /\ failures' = failures /\ (MaySynthesize' <=> MaySynthesize)
    BY <1>1, <1>5, <1>6, SpecialistsUnchanged
<1>8. /\ state'[<<"workflow", "output">>] = Metadata
      /\ state'[<<"workflow", "trace">>] = state[<<"workflow", "trace">>]
      /\ \A f \in {"output", "status", "error", "trace"} :
            state'[<<"synthesis", f>>] = state[<<"synthesis", f>>]
    BY <1>2, <1>4
<1>9. Metadata' = Metadata
    <2>1. \A a \in Specialists : /\ state'[<<a, "status">>] = state[<<a, "status">>]
                                 /\ state'[<<a, "error">>] = state[<<a, "error">>]
                                 /\ state'[<<a, "trace">>] = state[<<a, "trace">>]
        BY <1>6 DEF Specialists
    <2>2. state'[<<"evidence", "history">>] = state[<<"evidence", "history">>]
        BY <1>6 DEF Specialists
    <2>3. merged_trace' = merged_trace
        BY <1>8, <2>1 DEF merged_trace, Specialists
    <2>4. /\ [a \in Specialists |-> state'[<<a, "status">>]]
                = [a \in Specialists |-> state[<<a, "status">>]]
          /\ [a \in Specialists |-> state'[<<a, "error">>]]
                = [a \in Specialists |-> state[<<a, "error">>]]
        BY <2>1
    <2> QED
        BY <1>7, <2>2, <2>3, <2>4 DEF Metadata, degradation_reasons
<1>10. Outcome'
    BY <1>1, <1>7, <1>8, <1>9 DEF Inv, Outcome
<1>11. Typed'
    BY <1>1, <1>4, <1>5, <1>7 DEF Inv, Typed, LocalsTyped
<1> QED
    BY <1>7, <1>10, <1>11 DEF Inv

(* The invariant holds throughout. *)
LEMMA Inductive == Spec => []Inv
<1>1. ASSUME Inv, UNCHANGED vars PROVE Inv'
    <2>1. /\ LocalsTyped' /\ Looping'
        BY <1>1, LoopUnchanged DEF vars, gathered, Inv
    <2>2. Typed'
        BY <1>1, <2>1 DEF vars, Inv, Typed
    <2>3. EvidenceChannels'
        BY <1>1 DEF vars, Inv, EvidenceChannels, EvidenceCompleted, EvidenceFailed, Untouched,
            sanitize_brief, allowed_chunks, allowed_documents, ToolTrace
    <2>4. BranchChannels'
        BY <1>1 DEF vars, Inv, BranchChannels, BranchCompleted, BranchFailed, Untouched,
            CompletedBranch, FailedBranch
    <2>5. Outcome'
        BY <1>1 DEF vars, Inv, Outcome, MaySynthesize, failures, available, Metadata,
            merged_trace, degradation_reasons
    <2> QED
        BY <2>1, <2>2, <2>3, <2>4, <2>5 DEF Inv
<1>2. ASSUME Inv, Next PROVE Inv'
    BY <1>2, InitializeStep, GatherStep, EvidenceStep, BranchStep, JoinStep, RaiseStep,
       SynthesizeStep, ValidateStep DEF Next
<1>3. Inv /\ [Next]_vars => Inv'
    BY <1>1, <1>2
<1> QED
    BY InitInv, <1>3, PTL DEF Spec

-----------------------------------------------------------------------------
(* What follows. *)

(***************************************************************************)
(* For all tools, permissions and limits: the brief the other agents work  *)
(* from cites only what permitted tools returned in this run, within the   *)
(* limits of the evidence agent's loop.                                    *)
(***************************************************************************)
THEOREM GatheringSafe == Spec => []GatheringIsSound
<1>1. ASSUME Inv PROVE BriefIsGrounded
    <2> DEFINE brief == state[<<"evidence", "output">>]
               seen == Returned(state[<<"evidence", "history">>])
               documents == {DocumentOf[c] : c \in seen \cap Chunks} \cup (seen \cap Documents)
    <2> SUFFICES ASSUME brief # None
                 PROVE  /\ state[<<"evidence", "observed">>] = seen
                        /\ brief.chunks = seen \cap Chunks /\ brief.documents = documents
                        /\ \A i \in brief.items :
                            /\ i.chunks \subseteq seen /\ i.documents \subseteq documents
                            /\ i.chunks # {} \/ i.documents # {}
        BY DEF BriefIsGrounded
    <2>1. EvidenceCompleted \/ EvidenceFailed
        BY <1>1 DEF Inv, EvidenceChannels, Untouched
    <2>2. CASE EvidenceCompleted
        <3>1. PICK items \in SUBSET BriefItems : brief = sanitize_brief(items)
            BY <2>2 DEF EvidenceCompleted
        <3>2. /\ seen = observed /\ state[<<"evidence", "observed">>] = seen
            BY <1>1, <2>2 DEF EvidenceCompleted, Inv, Looping, ToolsAreAuthorized
        <3>3. allowed_chunks = seen \cap Chunks /\ allowed_documents = documents
            BY <3>2 DEF allowed_chunks, allowed_documents
        <3> HIDE DEF brief, seen, documents
        <3>4. brief.chunks = allowed_chunks /\ brief.documents = allowed_documents
            BY <3>1 DEF sanitize_brief, EvidenceBrief
        <3>5. ASSUME NEW i \in brief.items
              PROVE  /\ i.chunks \subseteq allowed_chunks
                     /\ i.documents \subseteq allowed_documents
                     /\ i.chunks # {} \/ i.documents # {}
            BY <3>1, <3>5 DEF sanitize_brief, EvidenceBrief
        <3> QED
            BY <3>2, <3>3, <3>4, <3>5
    <2>3. CASE EvidenceFailed
        <3>1. brief = unavailable /\ state[<<"evidence", "observed">>] = {}
              /\ state[<<"evidence", "history">>] = <<>>
            BY <2>3 DEF EvidenceFailed
        <3>2. seen = {}
            BY <3>1 DEF Returned
        <3>3. documents = {}
            BY <3>2
        <3> HIDE DEF brief, seen, documents
        <3> QED
            BY <3>1, <3>2, <3>3 DEF unavailable, EvidenceBrief
    <2> QED
        BY <2>1, <2>2, <2>3
<1>2. Inv => GatheringIsSound
    BY <1>1 DEF Inv, Looping, GatheringIsSound
<1> QED
    BY <1>2, Inductive, PTL

(* After the join the errors are the failures, and an analysis is available *)
(* unless all three specialists failed.                                     *)
LEMMA FailuresAreFailed ==
    ASSUME Inv, node \notin BeforeJoin
    PROVE  /\ failures = Failed
           /\ available <=> Failed # Specialists
<1>1. EvidenceCompleted \/ EvidenceFailed
    BY DEF Inv, EvidenceChannels, BeforeJoin
<1>2. \A b \in Branches : BranchCompleted(b) \/ BranchFailed(b)
    BY DEF Inv, BranchChannels
<1>3. Specialists = {"evidence"} \cup Branches
    BY DEF Specialists, Branches
<1>4. \A a \in Specialists :
        \/ state[<<a, "status">>] = "failed" /\ state[<<a, "error">>] = "failed"
        \/ state[<<a, "status">>] = "completed" /\ state[<<a, "error">>] = None
    BY <1>1, <1>2, <1>3 DEF EvidenceCompleted, EvidenceFailed, BranchCompleted, BranchFailed
<1>5. failures = Failed
    BY <1>4, NoneAssumption DEF failures, Failed
<1>6. \A b \in Branches : (state[<<b, "output">>] # None) <=> (b \notin Failed)
    BY <1>2, <1>3, NoneAssumption DEF BranchCompleted, BranchFailed, Failed
<1>7. (state[<<"evidence", "status">>] = "completed") <=> ("evidence" \notin Failed)
    BY <1>3, <1>4 DEF Failed
<1>8. Failed \subseteq Specialists
    BY DEF Failed
<1>9. available <=> Failed # Specialists
    BY <1>3, <1>6, <1>7, <1>8 DEF available
<1> QED
    BY <1>5, <1>9

(* There are three specialists. *)
LEMMA ThreeSpecialists ==
    /\ IsFiniteSet(Specialists) /\ Cardinality(Specialists) = 3
    /\ \A F \in SUBSET Specialists : Cardinality(F) \in Nat
<1>1. /\ IsFiniteSet({"evidence"}) /\ Cardinality({"evidence"}) = 1
    BY FS_Singleton
<1>2. /\ IsFiniteSet({"evidence"} \cup {"architecture"})
      /\ Cardinality({"evidence"} \cup {"architecture"}) = 2
    BY <1>1, FS_AddElement
<1>3. /\ IsFiniteSet(({"evidence"} \cup {"architecture"}) \cup {"risk_governance"})
      /\ Cardinality(({"evidence"} \cup {"architecture"}) \cup {"risk_governance"}) = 3
    BY <1>2, FS_AddElement
<1>4. Specialists = ({"evidence"} \cup {"architecture"}) \cup {"risk_governance"}
    BY DEF Specialists
<1>5. \A F \in SUBSET Specialists : IsFiniteSet(F)
    BY <1>3, <1>4, FS_Subset
<1> QED
    BY <1>3, <1>4, <1>5, FS_CardinalityType

(***************************************************************************)
(* For all settings of MULTI_AGENT_MAX_FAILURES: a run is refused exactly  *)
(* when more specialists failed than that or all did, and a returned result*)
(* names every specialist that failed.                                     *)
(***************************************************************************)
THEOREM FailuresSafe == Spec => []FailuresAreHandled
<1>1. ASSUME Inv PROVE FailureBudget
    <2>1. limits.failures \in 0..2
        BY <1>1, LimitsType DEF Inv, Typed
    <2>2. ASSUME node \in {"validate", "returned"}
          PROVE  Cardinality(Failed) <= limits.failures /\ Failed # Specialists
        <3>1. MaySynthesize /\ node \notin BeforeJoin
            BY <1>1, <2>2 DEF Inv, Outcome, BeforeJoin, Gathering
        <3> QED
            BY <1>1, <3>1, FailuresAreFailed DEF MaySynthesize
    <2>3. ASSUME raised = "too_many_failures" PROVE Cardinality(Failed) > limits.failures
        <3>1. ~MaySynthesize /\ node \notin BeforeJoin
            BY <1>1, <2>3 DEF Inv, Outcome, BeforeJoin, Gathering
        <3>2. failures = Failed /\ (available <=> Failed # Specialists)
            BY <1>1, <3>1, FailuresAreFailed
        <3>3. ~(Cardinality(Failed) <= limits.failures) \/ Failed = Specialists
            BY <3>1, <3>2 DEF MaySynthesize
        <3>4. Cardinality(Failed) \in Nat /\ Cardinality(Specialists) = 3
            BY ThreeSpecialists DEF Failed
        <3>5. Failed = Specialists => Cardinality(Failed) = 3
            BY <3>4
        <3> QED
            BY <2>1, <3>3, <3>4, <3>5
    <2> QED
        BY <2>2, <2>3 DEF FailureBudget
<1>2. ASSUME Inv PROVE FailuresAreDisclosed
    <2> SUFFICES ASSUME node = "returned" PROVE FailuresAreDisclosed
        BY DEF FailuresAreDisclosed
    <2>1. failures = Failed
        BY <1>2, FailuresAreFailed DEF BeforeJoin, Gathering
    <2>2. /\ state[<<"workflow", "output">>] = Metadata
          /\ state[<<"synthesis", "output">>].information_gaps = Failed
        BY <1>2, <2>1 DEF Inv, Outcome
    <2>3. /\ Metadata.degradation_reasons = Failed
          /\ \A a \in Specialists : Metadata.errors[a] = state[<<a, "error">>]
          /\ \A a \in Specialists : Metadata.statuses[a] = state[<<a, "status">>]
          /\ Metadata.degraded = (Failed # {})
        BY <2>1 DEF Metadata, degradation_reasons
    <2>4. {a \in Specialists : Metadata.errors[a] # None} = Failed
        BY <2>1, <2>3 DEF failures
    <2>5. {a \in Specialists : Metadata.statuses[a] = "failed"} = Failed
        BY <2>3 DEF Failed
    <2> QED
        BY <2>2, <2>3, <2>4, <2>5 DEF FailuresAreDisclosed
<1>3. Inv => FailuresAreHandled
    BY <1>1, <1>2 DEF FailuresAreHandled
<1> QED
    BY <1>3, Inductive, PTL

-----------------------------------------------------------------------------
(* The merged trace. *)

EventRecord ==
    [agent : Specialists \cup {"synthesis", None},
     type : {"workflow_started", "workflow_completed", "degraded_mode",
             "agent_started", "agent_completed", "agent_failed",
             "tool_authorization_denied", "tool_completed", "tool_failed"}]

(* The evidence agent's part: its own K events, then perhaps the workflow's *)
(* note that it is degraded.                                                *)
LEMMA EvidenceTrace ==
    ASSUME Inv, node \notin BeforeJoin
    PROVE  LET E == state[<<"evidence", "trace">>]
           IN  /\ E \in Seq(EventRecord)
               /\ \E K \in 2..Len(E) :
                    /\ K = Len(state[<<"evidence", "history">>]) + 2
                    /\ \A i \in 1..Len(E) : E[i].agent = IF i <= K THEN "evidence" ELSE None
                    /\ \A i \in 1..K :
                        /\ (E[i].type = "agent_started") <=> (i = 1)
                        /\ (E[i].type = "agent_completed") <=> (i = K /\ "evidence" \notin Failed)
                        /\ (E[i].type = "agent_failed") <=> (i = K /\ "evidence" \in Failed)
<1> DEFINE E == state[<<"evidence", "trace">>]
<1>1. EvidenceCompleted \/ EvidenceFailed
    BY DEF Inv, EvidenceChannels, BeforeJoin
<1>2. CASE EvidenceFailed
    <2> DEFINE e1 == Event("evidence", "agent_started")
               e2 == Event("evidence", "agent_failed")
               e3 == Event(None, "degraded_mode")
    <2>1. /\ e1 \in EventRecord /\ e2 \in EventRecord /\ e3 \in EventRecord
          /\ e1.agent = "evidence" /\ e1.type = "agent_started"
          /\ e2.agent = "evidence" /\ e2.type = "agent_failed"
          /\ e3.agent = None
        BY DEF Event, EventRecord, Specialists
    <2>2. E = <<e1, e2, e3>> /\ Len(state[<<"evidence", "history">>]) = 0
          /\ "evidence" \in Failed
        BY <1>2 DEF EvidenceFailed, Failed, Specialists
    <2> HIDE DEF e1, e2, e3, E
    <2>3. E \in Seq(EventRecord) /\ Len(E) = 3 /\ E[1] = e1 /\ E[2] = e2 /\ E[3] = e3
        BY <2>1, <2>2
    <2>4. \A i \in 1..Len(E) : E[i].agent = IF i <= 2 THEN "evidence" ELSE None
        BY <2>1, <2>3
    <2>5. \A i \in 1..2 :
            /\ (E[i].type = "agent_started") <=> (i = 1)
            /\ (E[i].type = "agent_completed") <=> (i = 2 /\ "evidence" \notin Failed)
            /\ (E[i].type = "agent_failed") <=> (i = 2 /\ "evidence" \in Failed)
        BY <2>1, <2>2, <2>3
    <2> QED
        BY <2>2, <2>3, <2>4, <2>5 DEF E
<1>3. CASE EvidenceCompleted
    <2> DEFINE e1 == Event("evidence", "agent_started")
               e2 == Event("evidence", "agent_completed")
    <2>1. /\ e1 \in EventRecord /\ e2 \in EventRecord
          /\ e1.agent = "evidence" /\ e1.type = "agent_started"
          /\ e2.agent = "evidence" /\ e2.type = "agent_completed"
        BY DEF Event, EventRecord, Specialists
    <2>2. E = (<<e1>> \o ToolTrace) \o <<e2>> /\ state[<<"evidence", "history">>] = history
          /\ "evidence" \notin Failed
        BY <1>3 DEF EvidenceCompleted, Failed
    <2> HIDE DEF e1, e2, E
    <2>3. history \in Seq(HistoryEntry) /\ Len(history) \in Nat
        BY DEF Inv, Typed
    <2>4. \A i \in 1..Len(history) :
            /\ ToolTrace[i] \in EventRecord /\ ToolTrace[i].agent = "evidence"
            /\ ToolTrace[i].type
                \notin {"agent_started", "agent_completed", "agent_failed"}
        BY DEF ToolTrace, Event, tool_event_type, EventRecord, Specialists
    <2>5. ToolTrace \in Seq(EventRecord) /\ Len(ToolTrace) = Len(history)
        <3>1. ToolTrace = [i \in 1..Len(history) |-> ToolTrace[i]]
            BY DEF ToolTrace
        <3> QED
            BY <2>3, <2>4, <3>1
    <2> DEFINE M == <<e1>> \o ToolTrace
    <2>6. /\ M \in Seq(EventRecord) /\ Len(M) = Len(history) + 1 /\ M[1] = e1
          /\ \A i \in 2..Len(history) + 1 : M[i] = ToolTrace[i - 1]
        BY <2>1, <2>3, <2>5
    <2> HIDE DEF M
    <2>7. E = M \o <<e2>>
        BY <2>2 DEF M
    <2>8. /\ E \in Seq(EventRecord) /\ Len(E) = Len(history) + 2
          /\ E[Len(history) + 2] = e2
          /\ \A i \in 1..Len(history) + 1 : E[i] = M[i]
        BY <2>1, <2>3, <2>6, <2>7
    <2>9. PICK K \in Nat : K = Len(history) + 2
        BY <2>3
    <2>10. /\ K \in 2..Len(E) /\ Len(E) = K /\ E[1] = e1 /\ E[K] = e2
           /\ \A i \in 2..K - 1 : E[i] = ToolTrace[i - 1] /\ i - 1 \in 1..Len(history)
        BY <2>3, <2>6, <2>8, <2>9
    <2>11. \A i \in 1..K : i = 1 \/ i = K \/ i \in 2..K - 1
        BY <2>9
    <2>12. \A i \in 2..K - 1 :
            /\ E[i].agent = "evidence"
            /\ E[i].type \notin {"agent_started", "agent_completed", "agent_failed"}
        BY <2>4, <2>10
    <2>13. \A i \in 1..Len(E) : E[i].agent = IF i <= K THEN "evidence" ELSE None
        BY <2>1, <2>9, <2>10, <2>11, <2>12
    <2>14. \A i \in 1..K :
            /\ (E[i].type = "agent_started") <=> (i = 1)
            /\ (E[i].type = "agent_completed") <=> (i = K /\ "evidence" \notin Failed)
            /\ (E[i].type = "agent_failed") <=> (i = K /\ "evidence" \in Failed)
        <3> SUFFICES ASSUME NEW i \in 1..K
                     PROVE  /\ (E[i].type = "agent_started") <=> (i = 1)
                            /\ (E[i].type = "agent_completed") <=> (i = K)
                            /\ E[i].type # "agent_failed"
            BY <2>2
        <3>1. 1 # K
            BY <2>10
        <3> QED
            BY <2>1, <2>10, <2>11, <2>12, <3>1
    <2> QED
        BY <2>2, <2>8, <2>9, <2>10, <2>13, <2>14 DEF E
<1> QED
    BY <1>1, <1>2, <1>3

(* The agent of each event of the merged trace, and its type.               *)
LEMMA MergedTrace ==
    ASSUME Inv, node = "returned"
    PROVE  LET T == state[<<"workflow", "output">>].trace
           IN  \E n \in Nat : \E K \in 2..n :
                /\ Len(T) = n + 8
                /\ K = state[<<"workflow", "output">>].tool_calls + 2
                /\ \A i \in 1..n + 8 : T[i].agent =
                    IF i = 1 THEN None
                    ELSE IF i <= K + 1 THEN "evidence"
                    ELSE IF i <= n + 1 THEN None
                    ELSE IF i <= n + 3 THEN "architecture"
                    ELSE IF i <= n + 5 THEN "risk_governance"
                    ELSE IF i <= n + 7 THEN "synthesis"
                    ELSE None
                /\ \A i \in 2..K + 1 :
                    /\ (T[i].type = "agent_started") <=> (i = 2)
                    /\ (T[i].type = "agent_completed") <=> (i = K + 1 /\ "evidence" \notin Failed)
                    /\ (T[i].type = "agent_failed") <=> (i = K + 1 /\ "evidence" \in Failed)
                /\ T[n + 2].type = "agent_started"
                /\ T[n + 3].type = IF "architecture" \in Failed THEN "agent_failed"
                                   ELSE "agent_completed"
                /\ T[n + 4].type = "agent_started"
                /\ T[n + 5].type = IF "risk_governance" \in Failed THEN "agent_failed"
                                   ELSE "agent_completed"
                /\ T[n + 6].type = "agent_started"
                /\ T[n + 7].type = "agent_completed"
<1> DEFINE T == state[<<"workflow", "output">>].trace
           E == state[<<"evidence", "trace">>]
           Ending(b) == IF b \in Failed THEN "agent_failed" ELSE "agent_completed"
<1>1. node \notin BeforeJoin
    BY DEF BeforeJoin, Gathering
<1>2. /\ state[<<"workflow", "output">>] = Metadata
      /\ state[<<"workflow", "trace">>] = <<Event(None, "workflow_started")>>
      /\ state[<<"synthesis", "trace">>] = BranchTrace("synthesis", "agent_completed")
    BY DEF Inv, Outcome
<1>3. /\ T = merged_trace
      /\ state[<<"workflow", "output">>].tool_calls = Len(state[<<"evidence", "history">>])
    BY <1>2 DEF Metadata
<1>4. \A b \in Branches : state[<<b, "trace">>] = BranchTrace(b, Ending(b))
    <2> SUFFICES ASSUME NEW b \in Branches PROVE state[<<b, "trace">>] = BranchTrace(b, Ending(b))
        OBVIOUS
    <2>1. BranchCompleted(b) \/ BranchFailed(b)
        BY <1>1 DEF Inv, BranchChannels
    <2> QED
        BY <2>1 DEF BranchCompleted, BranchFailed, Failed, Branches, Specialists
<1>5. E \in Seq(EventRecord)
    BY <1>1, EvidenceTrace
<1>6. PICK K \in 2..Len(E) :
        /\ K = Len(state[<<"evidence", "history">>]) + 2
        /\ \A i \in 1..Len(E) : E[i].agent = IF i <= K THEN "evidence" ELSE None
        /\ \A i \in 1..K :
            /\ (E[i].type = "agent_started") <=> (i = 1)
            /\ (E[i].type = "agent_completed") <=> (i = K /\ "evidence" \notin Failed)
            /\ (E[i].type = "agent_failed") <=> (i = K /\ "evidence" \in Failed)
    BY <1>1, EvidenceTrace
<1> DEFINE w == Event(None, "workflow_started")
           a1 == Event("architecture", "agent_started")
           a2 == Event("architecture", Ending("architecture"))
           r1 == Event("risk_governance", "agent_started")
           r2 == Event("risk_governance", Ending("risk_governance"))
           s1 == Event("synthesis", "agent_started")
           s2 == Event("synthesis", "agent_completed")
           z == Event(None, "workflow_completed")
<1>7. T = <<w>> \o E \o <<a1, a2>> \o <<r1, r2>> \o <<s1, s2>> \o <<z>>
    BY <1>2, <1>3, <1>4 DEF merged_trace, BranchTrace, Branches
<1>8. /\ w \in EventRecord /\ w.agent = None
      /\ a1 \in EventRecord /\ a1.agent = "architecture" /\ a1.type = "agent_started"
      /\ a2 \in EventRecord /\ a2.agent = "architecture" /\ a2.type = Ending("architecture")
      /\ r1 \in EventRecord /\ r1.agent = "risk_governance" /\ r1.type = "agent_started"
      /\ r2 \in EventRecord /\ r2.agent = "risk_governance"
      /\ r2.type = Ending("risk_governance")
      /\ s1 \in EventRecord /\ s1.agent = "synthesis" /\ s1.type = "agent_started"
      /\ s2 \in EventRecord /\ s2.agent = "synthesis" /\ s2.type = "agent_completed"
      /\ z \in EventRecord /\ z.agent = None
    BY DEF Event, EventRecord, Specialists
<1> HIDE DEF w, a1, a2, r1, r2, s1, s2, z, T, E
<1>9. PICK n \in Nat : n = Len(E)
    BY <1>5
<1>10. /\ Len(T) = n + 8
       /\ T[1] = w
       /\ \A i \in 2..n + 1 : T[i] = E[i - 1]
       /\ T[n + 2] = a1 /\ T[n + 3] = a2
       /\ T[n + 4] = r1 /\ T[n + 5] = r2
       /\ T[n + 6] = s1 /\ T[n + 7] = s2 /\ T[n + 8] = z
    <2>2. PICK T1 : T1 = <<w>> \o E
        OBVIOUS
    <2>3. /\ T1 \in Seq(EventRecord) /\ Len(T1) = n + 1 /\ T1[1] = w
          /\ \A i \in 2..n + 1 : T1[i] = E[i - 1]
        BY <1>5, <1>8, <1>9, <2>2
    <2>4. PICK T2 : T2 = T1 \o <<a1, a2>>
        OBVIOUS
    <2>5. /\ T2 \in Seq(EventRecord) /\ Len(T2) = n + 3
          /\ \A i \in 1..n + 1 : T2[i] = T1[i]
          /\ T2[n + 2] = a1 /\ T2[n + 3] = a2
        BY <1>8, <2>3, <2>4
    <2>6. PICK T3 : T3 = T2 \o <<r1, r2>>
        OBVIOUS
    <2>7. /\ T3 \in Seq(EventRecord) /\ Len(T3) = n + 5
          /\ \A i \in 1..n + 3 : T3[i] = T2[i]
          /\ T3[n + 4] = r1 /\ T3[n + 5] = r2
        BY <1>8, <2>5, <2>6
    <2>8. PICK T4 : T4 = T3 \o <<s1, s2>>
        OBVIOUS
    <2>9. /\ T4 \in Seq(EventRecord) /\ Len(T4) = n + 7
          /\ \A i \in 1..n + 5 : T4[i] = T3[i]
          /\ T4[n + 6] = s1 /\ T4[n + 7] = s2
        BY <1>8, <2>7, <2>8
    <2>10. T = T4 \o <<z>>
        BY <1>7, <2>2, <2>4, <2>6, <2>8
    <2>11. /\ Len(T) = n + 8
           /\ \A i \in 1..n + 7 : T[i] = T4[i]
           /\ T[n + 8] = z
        BY <1>8, <2>9, <2>10
    <2>12. T[1] = w /\ \A i \in 2..n + 1 : T[i] = E[i - 1]
        <3>1. ASSUME NEW i \in 1..n + 1 PROVE T[i] = T1[i]
            <4>1. i \in 1..n + 3 /\ i \in 1..n + 5 /\ i \in 1..n + 7
                OBVIOUS
            <4> QED
                BY <2>5, <2>7, <2>9, <2>11, <4>1
        <3> QED
            BY <2>3, <3>1
    <2>13. T[n + 2] = a1 /\ T[n + 3] = a2
        BY <2>5, <2>7, <2>9, <2>11
    <2>14. T[n + 4] = r1 /\ T[n + 5] = r2
        BY <2>7, <2>9, <2>11
    <2>15. T[n + 6] = s1 /\ T[n + 7] = s2
        BY <2>9, <2>11
    <2> QED
        BY <2>11, <2>12, <2>13, <2>14, <2>15
<1>11. K \in Nat /\ 2 <= K /\ K <= n /\ K \in 2..n
    BY <1>6, <1>9
<1>12. \A i \in 2..n + 1 : T[i].agent = IF i <= K + 1 THEN "evidence" ELSE None
    <2> SUFFICES ASSUME NEW i \in 2..n + 1
                 PROVE  T[i].agent = IF i <= K + 1 THEN "evidence" ELSE None
        OBVIOUS
    <2>1. i - 1 \in 1..Len(E) /\ T[i] = E[i - 1]
        BY <1>9, <1>10
    <2>2. E[i - 1].agent = IF i - 1 <= K THEN "evidence" ELSE None
        BY <1>6, <2>1
    <2> QED
        BY <1>11, <2>1, <2>2
<1>13. \A i \in 1..n + 8 : T[i].agent =
            IF i = 1 THEN None
            ELSE IF i <= K + 1 THEN "evidence"
            ELSE IF i <= n + 1 THEN None
            ELSE IF i <= n + 3 THEN "architecture"
            ELSE IF i <= n + 5 THEN "risk_governance"
            ELSE IF i <= n + 7 THEN "synthesis"
            ELSE None
    <2> SUFFICES ASSUME NEW i \in 1..n + 8
                 PROVE  T[i].agent =
                            IF i = 1 THEN None
                            ELSE IF i <= K + 1 THEN "evidence"
                            ELSE IF i <= n + 1 THEN None
                            ELSE IF i <= n + 3 THEN "architecture"
                            ELSE IF i <= n + 5 THEN "risk_governance"
                            ELSE IF i <= n + 7 THEN "synthesis"
                            ELSE None
        OBVIOUS
    <2>1. \/ i = 1 \/ i \in 2..n + 1 \/ i = n + 2 \/ i = n + 3 \/ i = n + 4 \/ i = n + 5
          \/ i = n + 6 \/ i = n + 7 \/ i = n + 8
        OBVIOUS
    <2>2. CASE i \in 2..n + 1
        BY <1>11, <1>12, <2>2
    <2>3. CASE i = 1
        BY <1>8, <1>10, <2>3
    <2>4. CASE i = n + 2 \/ i = n + 3
        <3>1. T[i].agent = "architecture"
            BY <1>8, <1>10, <2>4
        <3>2. ~(i = 1) /\ ~(i <= K + 1) /\ ~(i <= n + 1) /\ i <= n + 3
            BY <1>11, <2>4
        <3> QED
            BY <3>1, <3>2
    <2>5. CASE i = n + 4 \/ i = n + 5
        <3>1. T[i].agent = "risk_governance"
            BY <1>8, <1>10, <2>5
        <3>2. ~(i = 1) /\ ~(i <= K + 1) /\ ~(i <= n + 3) /\ i <= n + 5
            BY <1>11, <2>5
        <3> QED
            BY <3>1, <3>2
    <2>6. CASE i = n + 6 \/ i = n + 7
        <3>1. T[i].agent = "synthesis"
            BY <1>8, <1>10, <2>6
        <3>2. ~(i = 1) /\ ~(i <= K + 1) /\ ~(i <= n + 5) /\ i <= n + 7
            BY <1>11, <2>6
        <3> QED
            BY <3>1, <3>2
    <2>7. CASE i = n + 8
        BY <1>8, <1>10, <1>11, <2>7
    <2> QED
        BY <2>1, <2>2, <2>3, <2>4, <2>5, <2>6, <2>7
<1>14. \A i \in 2..K + 1 :
        /\ (T[i].type = "agent_started") <=> (i = 2)
        /\ (T[i].type = "agent_completed") <=> (i = K + 1 /\ "evidence" \notin Failed)
        /\ (T[i].type = "agent_failed") <=> (i = K + 1 /\ "evidence" \in Failed)
    <2> SUFFICES ASSUME NEW i \in 2..K + 1
                 PROVE  /\ (T[i].type = "agent_started") <=> (i = 2)
                        /\ (T[i].type = "agent_completed")
                                <=> (i = K + 1 /\ "evidence" \notin Failed)
                        /\ (T[i].type = "agent_failed") <=> (i = K + 1 /\ "evidence" \in Failed)
        OBVIOUS
    <2>1. PICK j \in 1..K : j = i - 1
        BY <1>11
    <2>2. T[i] = E[j]
        BY <1>10, <1>11, <2>1
    <2>3. /\ (E[j].type = "agent_started") <=> (j = 1)
          /\ (E[j].type = "agent_completed") <=> (j = K /\ "evidence" \notin Failed)
          /\ (E[j].type = "agent_failed") <=> (j = K /\ "evidence" \in Failed)
        BY <1>6
    <2>4. (j = 1 <=> i = 2) /\ (j = K <=> i = K + 1)
        BY <1>11, <2>1
    <2> QED
        BY <2>2, <2>3, <2>4
<1>15. /\ T[n + 2].type = "agent_started" /\ T[n + 3].type = Ending("architecture")
       /\ T[n + 4].type = "agent_started" /\ T[n + 5].type = Ending("risk_governance")
       /\ T[n + 6].type = "agent_started" /\ T[n + 7].type = "agent_completed"
    BY <1>8, <1>10
<1> QED
    BY ZenonT(60), <1>3, <1>6, <1>9, <1>10, <1>11, <1>13, <1>14, <1>15 DEF T

(***************************************************************************)
(* However the branches' threads interleave, for all tools and limits: no  *)
(* update of a branch is refused or lost at the fan-in, and the merged     *)
(* trace reads as if the agents had run in turn.                           *)
(***************************************************************************)
THEOREM BranchesSafe == Spec => []BranchesMerge
<1>1. ASSUME Inv PROVE BranchesConverge
    <2>1. raised # "invalid_update"
        BY <1>1, NoneAssumption DEF Inv, Typed
    <2>2. ASSUME node \in {"synthesis", "validate"}, NEW b \in Branches
          PROVE  /\ <<b, "status">> \in DOMAIN writes[b]
                 /\ \A c \in DOMAIN writes[b] : state[c] = writes[b][c]
        <3>1. BranchCompleted(b) \/ BranchFailed(b)
            BY <1>1, <2>2 DEF Inv, BranchChannels, BeforeJoin, Gathering
        <3>2. PICK w : w = writes[b]
            OBVIOUS
        <3>3. CASE BranchCompleted(b)
            <4>1. /\ DOMAIN w = {<<b, "output">>, <<b, "status">>, <<b, "trace">>}
                  /\ w[<<b, "output">>] = "analysis" /\ w[<<b, "status">>] = "completed"
                  /\ w[<<b, "trace">>] = BranchTrace(b, "agent_completed")
                BY <3>2, <3>3, BranchUpdates DEF BranchCompleted
            <4> QED
                BY <3>2, <3>3, <4>1 DEF BranchCompleted
        <3>4. CASE BranchFailed(b)
            <4>1. /\ DOMAIN w = {<<b, "status">>, <<b, "error">>, <<b, "trace">>}
                  /\ w[<<b, "status">>] = "failed" /\ w[<<b, "error">>] = "failed"
                  /\ w[<<b, "trace">>] = BranchTrace(b, "agent_failed")
                BY <3>2, <3>4, BranchUpdates DEF BranchFailed
            <4> QED
                BY <3>2, <3>4, <4>1 DEF BranchFailed
        <3> QED
            BY <3>1, <3>3, <3>4
    <2> QED
        BY <2>1, <2>2 DEF BranchesConverge
<1>2. ASSUME Inv PROVE TraceTellsTheRun
    <2> SUFFICES ASSUME node = "returned" PROVE TraceTellsTheRun
        BY DEF TraceTellsTheRun
    <2> DEFINE T == state[<<"workflow", "output">>].trace
               calls == state[<<"workflow", "output">>].tool_calls
    <2>1. PICK n \in Nat : \E K \in 2..n :
                /\ Len(T) = n + 8
                /\ K = calls + 2
                /\ \A i \in 1..n + 8 : T[i].agent =
                    IF i = 1 THEN None
                    ELSE IF i <= K + 1 THEN "evidence"
                    ELSE IF i <= n + 1 THEN None
                    ELSE IF i <= n + 3 THEN "architecture"
                    ELSE IF i <= n + 5 THEN "risk_governance"
                    ELSE IF i <= n + 7 THEN "synthesis"
                    ELSE None
                /\ \A i \in 2..K + 1 :
                    /\ (T[i].type = "agent_started") <=> (i = 2)
                    /\ (T[i].type = "agent_completed") <=> (i = K + 1 /\ "evidence" \notin Failed)
                    /\ (T[i].type = "agent_failed") <=> (i = K + 1 /\ "evidence" \in Failed)
                /\ T[n + 2].type = "agent_started"
                /\ T[n + 3].type = IF "architecture" \in Failed THEN "agent_failed"
                                   ELSE "agent_completed"
                /\ T[n + 4].type = "agent_started"
                /\ T[n + 5].type = IF "risk_governance" \in Failed THEN "agent_failed"
                                   ELSE "agent_completed"
                /\ T[n + 6].type = "agent_started"
                /\ T[n + 7].type = "agent_completed"
        BY <1>2, MergedTrace
    <2>2. PICK K \in 2..n :
                /\ Len(T) = n + 8
                /\ K = calls + 2
                /\ \A i \in 1..n + 8 : T[i].agent =
                    IF i = 1 THEN None
                    ELSE IF i <= K + 1 THEN "evidence"
                    ELSE IF i <= n + 1 THEN None
                    ELSE IF i <= n + 3 THEN "architecture"
                    ELSE IF i <= n + 5 THEN "risk_governance"
                    ELSE IF i <= n + 7 THEN "synthesis"
                    ELSE None
                /\ \A i \in 2..K + 1 :
                    /\ (T[i].type = "agent_started") <=> (i = 2)
                    /\ (T[i].type = "agent_completed") <=> (i = K + 1 /\ "evidence" \notin Failed)
                    /\ (T[i].type = "agent_failed") <=> (i = K + 1 /\ "evidence" \in Failed)
                /\ T[n + 2].type = "agent_started"
                /\ T[n + 3].type = IF "architecture" \in Failed THEN "agent_failed"
                                   ELSE "agent_completed"
                /\ T[n + 4].type = "agent_started"
                /\ T[n + 5].type = IF "risk_governance" \in Failed THEN "agent_failed"
                                   ELSE "agent_completed"
                /\ T[n + 6].type = "agent_started"
                /\ T[n + 7].type = "agent_completed"
        BY <2>1
    <2> HIDE DEF T, calls
    <2>3. K \in Nat /\ 2 <= K /\ K <= n
        OBVIOUS
    <2>4. \A i, j \in 1..Len(T) :
            (i < j /\ T[i].agent # None /\ T[j].agent # None) =>
                Rank[T[i].agent] <= Rank[T[j].agent]
        <3> SUFFICES ASSUME NEW i \in 1..n + 8, NEW j \in 1..n + 8, i < j,
                            T[i].agent # None, T[j].agent # None
                     PROVE  Rank[T[i].agent] <= Rank[T[j].agent]
            BY <2>2
        <3>1. /\ Rank["evidence"] = 1 /\ Rank["architecture"] = 2
              /\ Rank["risk_governance"] = 3 /\ Rank["synthesis"] = 4
            BY DEF Rank, Specialists
        <3>2. \A k \in 1..n + 8 : T[k].agent # None =>
                \/ k <= K + 1 /\ T[k].agent = "evidence"
                \/ n + 1 < k /\ k <= n + 3 /\ T[k].agent = "architecture"
                \/ n + 3 < k /\ k <= n + 5 /\ T[k].agent = "risk_governance"
                \/ n + 5 < k /\ T[k].agent = "synthesis"
            BY <2>2, <2>3
        <3> QED
            BY <2>3, <3>1, <3>2
    <2>5. /\ AgentEvents("evidence") = 2..K + 1
          /\ AgentEvents("architecture") = {n + 2, n + 3}
          /\ AgentEvents("risk_governance") = {n + 4, n + 5}
          /\ AgentEvents("synthesis") = {n + 6, n + 7}
        <3>6. Len(T) = n + 8
            BY <2>2
        <3>1. \A a : AgentEvents(a) = {i \in 1..n + 8 : T[i].agent = a}
            BY <3>6 DEF AgentEvents, T
        <3>2. AgentEvents("evidence") = 2..K + 1
            <4>1. \A i \in 1..n + 8 : (T[i].agent = "evidence") <=> (2 <= i /\ i <= K + 1)
                BY <2>2, <2>3, NoneAssumption
            <4>2. \A i : i \in 2..K + 1 <=> (i \in 1..n + 8 /\ 2 <= i /\ i <= K + 1)
                BY <2>3
            <4> QED
                BY <3>1, <4>1, <4>2
        <3>3. AgentEvents("architecture") = {n + 2, n + 3}
            <4>1. \A i \in 1..n + 8 : (T[i].agent = "architecture") <=> (i = n + 2 \/ i = n + 3)
                BY <2>2, <2>3, NoneAssumption
            <4>2. n + 2 \in 1..n + 8 /\ n + 3 \in 1..n + 8
                OBVIOUS
            <4> QED
                BY <3>1, <4>1, <4>2
        <3>4. AgentEvents("risk_governance") = {n + 4, n + 5}
            <4>1. \A i \in 1..n + 8 : (T[i].agent = "risk_governance") <=> (i = n + 4 \/ i = n + 5)
                BY <2>2, <2>3, NoneAssumption
            <4>2. n + 4 \in 1..n + 8 /\ n + 5 \in 1..n + 8
                OBVIOUS
            <4> QED
                BY <3>1, <4>1, <4>2
        <3>5. AgentEvents("synthesis") = {n + 6, n + 7}
            <4>1. \A i \in 1..n + 8 : (T[i].agent = "synthesis") <=> (i = n + 6 \/ i = n + 7)
                BY <2>2, <2>3, NoneAssumption
            <4>2. n + 6 \in 1..n + 8 /\ n + 7 \in 1..n + 8
                OBVIOUS
            <4> QED
                BY <3>1, <4>1, <4>2
        <3> QED
            BY <3>2, <3>3, <3>4, <3>5
    <2> DEFINE Told(a, first, last) ==
                \A i \in AgentEvents(a) :
                    /\ first <= i /\ i <= last
                    /\ (T[i].type = "agent_started") <=> (i = first)
                    /\ (T[i].type = "agent_completed") <=> (i = last /\ a \notin Failed)
                    /\ (T[i].type = "agent_failed") <=> (i = last /\ a \in Failed)
               Tells(a) == \E first, last \in AgentEvents(a) : Told(a, first, last)
    <2>6. Tells("evidence")
        <3>1. 2 \in AgentEvents("evidence") /\ K + 1 \in AgentEvents("evidence")
            BY <2>3, <2>5
        <3>2. \A i \in 2..K + 1 : 2 <= i /\ i <= K + 1
            BY <2>3
        <3>3. AgentEvents("evidence") = 2..K + 1
            BY <2>5
        <3>4. Told("evidence", 2, K + 1)
            BY <2>2, <3>2, <3>3
        <3> HIDE DEF Told
        <3> QED
            BY <3>1, <3>4
    <2>7. Tells("architecture")
        <3>1. AgentEvents("architecture") = {n + 2, n + 3}
            BY <2>5
        <3>2. T[n + 2].type = "agent_started"
            BY <2>2
        <3>3. T[n + 3].type = IF "architecture" \in Failed THEN "agent_failed" ELSE "agent_completed"
            BY <2>2
        <3>4. Told("architecture", n + 2, n + 3)
            BY <3>1, <3>2, <3>3
        <3> HIDE DEF Told
        <3> QED
            BY <3>1, <3>4
    <2>8. Tells("risk_governance")
        <3>1. AgentEvents("risk_governance") = {n + 4, n + 5}
            BY <2>5
        <3>2. T[n + 4].type = "agent_started"
            BY <2>2
        <3>3. T[n + 5].type = IF "risk_governance" \in Failed THEN "agent_failed" ELSE "agent_completed"
            BY <2>2
        <3>4. Told("risk_governance", n + 4, n + 5)
            BY <3>1, <3>2, <3>3
        <3> HIDE DEF Told
        <3> QED
            BY <3>1, <3>4
    <2>9. Tells("synthesis")
        <3>1. AgentEvents("synthesis") = {n + 6, n + 7}
            BY <2>5
        <3>2. T[n + 6].type = "agent_started"
            BY <2>2
        <3>3. T[n + 7].type = IF "synthesis" \in Failed THEN "agent_failed" ELSE "agent_completed"
            BY <2>2 DEF Failed, Specialists
        <3>4. Told("synthesis", n + 6, n + 7)
            BY <3>1, <3>2, <3>3
        <3> HIDE DEF Told
        <3> QED
            BY <3>1, <3>4
    <2>10. \A a \in Specialists \cup {"synthesis"} : Tells(a)
        <3> HIDE DEF Tells
        <3> QED
            BY <2>6, <2>7, <2>8, <2>9 DEF Specialists
    <2>11. Cardinality(AgentEvents("evidence")) = calls + 2
        <3>1. Cardinality(2..K + 1) = K
            BY <2>3, FS_Interval
        <3> QED
            BY <2>2, <2>5, <3>1
    <2>12. "evidence" \notin Failed => calls = Len(history)
        <3>1. EvidenceCompleted \/ EvidenceFailed
            BY <1>2 DEF Inv, EvidenceChannels, Gathering
        <3>2. EvidenceFailed => "evidence" \in Failed
            BY DEF EvidenceFailed, Failed, Specialists
        <3>3. EvidenceCompleted => state[<<"evidence", "history">>] = history
            BY DEF EvidenceCompleted
        <3>4. calls = Len(state[<<"evidence", "history">>])
            BY <1>2 DEF Inv, Outcome, Metadata, calls
        <3> QED
            BY <3>1, <3>2, <3>3, <3>4
    <2> QED
        BY <2>4, <2>10, <2>11, <2>12 DEF TraceTellsTheRun, T, calls
<1>3. Inv => BranchesMerge
    BY <1>1, <1>2 DEF BranchesMerge
<1> QED
    BY <1>3, Inductive, PTL

=============================================================================
