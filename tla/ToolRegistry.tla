----------------------------- MODULE ToolRegistry -----------------------------
(***************************************************************************)
(* ToolRegistry.execute and AgentToolPermissions.execute: what one tool    *)
(* call of an agent may return, and what it leaves in the cache of the     *)
(* execution.  A tool call is a name with raw arguments; calls that        *)
(* normalise to the same arguments share a fingerprint.                    *)
(*                                                                         *)
(* A definition introduced by "Faulty variant" is the definition after it  *)
(* with a plausible mistake; the specification does not use it.            *)
(***************************************************************************)
EXTENDS Naturals, Sequences

CONSTANTS
    ToolCalls,    \* tool calls a model may ask for
    Registered,   \* the ones whose name is in the registry
    Valid,        \* the ones whose arguments also match the tool's schema
    Fingerprints, \* sha256 of name and normalised arguments
    Fingerprint,  \* Valid -> Fingerprints
    Observations, \* the chunks and documents the tools can return
    Returns,      \* Valid -> the sets of observations a handler may return
    NoResult      \* no cache entry

ASSUME CallAssumption == Valid \subseteq Registered /\ Registered \subseteq ToolCalls
ASSUME FingerprintAssumption == Fingerprint \in [Valid -> Fingerprints]
ASSUME ReturnsAssumption == Returns \in [Valid -> SUBSET SUBSET Observations]

RejectCodes == {"unknown_tool", "invalid_tool_arguments", "unauthorized_tool"}

FailureCodes == {"tool_timeout", "application_error", "tool_execution_error"}

ToolExecutionResult ==
    [success : BOOLEAN, evidence : SUBSET Observations,
     error : RejectCodes \cup FailureCodes \cup {"none"}, cached : BOOLEAN]

ASSUME ResultAssumption == NoResult \notin ToolExecutionResult

Success(evidence) ==
    [success |-> TRUE, evidence |-> evidence, error |-> "none", cached |-> FALSE]

Failure(code) ==
    [success |-> FALSE, evidence |-> {}, error |-> code, cached |-> FALSE]

(* The handler of a valid call returns evidence, raises, or exceeds its time limit. *)
HandlerResults(call) ==
    {Success(evidence) : evidence \in Returns[call]}
        \cup {Failure(code) : code \in FailureCodes}

EmptyCache == [f \in Fingerprints |-> NoResult]

(* One way a call can go: its result, the cache after it, and the           *)
(* fingerprint whose handler ran.                                           *)
Execution(result, cache, ran) == [result |-> result, cache |-> cache, ran |-> ran]

(* Faulty variant: a failed call is not remembered. *)
execute_without_failures(call, cache) ==
    CASE call \notin Registered -> {Execution(Failure("unknown_tool"), cache, {})}
      [] call \in Registered \ Valid ->
            {Execution(Failure("invalid_tool_arguments"), cache, {})}
      [] call \in Valid /\ cache[Fingerprint[call]] # NoResult ->
            {Execution([cache[Fingerprint[call]] EXCEPT !.cached = TRUE], cache, {})}
      [] OTHER ->
            {Execution(result,
                       [cache EXCEPT ![Fingerprint[call]] =
                            IF result.success THEN result ELSE NoResult],
                       {Fingerprint[call]}) : result \in HandlerResults(call)}

(* ToolRegistry.execute; rejected calls are not cached, failures are. *)
execute(call, cache) ==
    CASE call \notin Registered -> {Execution(Failure("unknown_tool"), cache, {})}
      [] call \in Registered \ Valid ->
            {Execution(Failure("invalid_tool_arguments"), cache, {})}
      [] call \in Valid /\ cache[Fingerprint[call]] # NoResult ->
            {Execution([cache[Fingerprint[call]] EXCEPT !.cached = TRUE], cache, {})}
      [] OTHER ->
            {Execution(result, [cache EXCEPT ![Fingerprint[call]] = result],
                       {Fingerprint[call]}) : result \in HandlerResults(call)}

(* AgentToolPermissions.execute for an agent allowed the calls in allowed. *)
permitted_execute(allowed, call, cache) ==
    IF call \in allowed THEN execute(call, cache)
    ELSE {Execution(Failure("unauthorized_tool"), cache, {})}

(* What the cache holds as evidence. *)
CachedEvidence(cache) ==
    UNION {cache[f].evidence : f \in {g \in Fingerprints : cache[g] # NoResult}}
=============================================================================
