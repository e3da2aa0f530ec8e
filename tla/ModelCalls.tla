------------------------------ MODULE ModelCalls -------------------------------
(***************************************************************************)
(* Calls of the model providers: generate_structured and decide_tool_call  *)
(* of OpenAI and Anthropic, embed_texts of OpenAI, their attempts under    *)
(* run_with_retry, and the RuntimeMetricsRecorder the calls of a request   *)
(* share.                                                                  *)
(*                                                                         *)
(* External (the providers): an attempt is answered or raises; one that    *)
(* times out may have been executed all the same; an answer may be         *)
(* malformed; embeddings may come in any order, be missing or repeated.    *)
(*                                                                         *)
(* A vector is the text it embeds, and whether it has the dimension and    *)
(* finite values.  Delays between attempts are left out.                   *)
(*                                                                         *)
(* A definition introduced by "Faulty variant" is the definition after it  *)
(* with a plausible mistake; the specification does not use it.            *)
(***************************************************************************)
EXTENDS Integers, Sequences, SequencesExt, Ordering

CONSTANTS
    MaxRetries,   \* PROVIDER_MAX_RETRIES
    MaxCalls,     \* calls of one request
    TextCounts,   \* numbers of texts to embed
    BatchSize     \* texts of one embedding request

ASSUME RetryAssumption ==
    MaxRetries \in 0..10 /\ BatchSize \in Nat \ {0} /\ TextCounts \subseteq Nat

VARIABLES
    provider,     \* CHAT_MODEL_PROVIDER
    keys,         \* providers whose key is set
    call,         \* the call under way
    metrics,      \* RuntimeMetricsRecorder
    ledger        \* history: what was really asked of the providers

callVars == <<provider, keys, call, metrics, ledger>>

NoCall ==
    [pc |-> "idle", kind |-> "none", texts |-> 0, batch |-> 0, attempt |-> 0,
     raised |-> "none", vectors |-> <<>>, sound |-> TRUE, result |-> "none"]

CallIdle ==
    /\ provider = "openai" /\ keys = {} /\ call = NoCall
    /\ metrics = [model |-> 0, embedding |-> 0, retries |-> 0, timeouts |-> 0, usage |-> 0]
    /\ ledger = [calls |-> 0, operations |-> 0, executed |-> 0, usage |-> 0,
                 timeouts |-> 0, surrendered |-> 0]

CallBegin ==
    /\ provider \in {"openai", "anthropic"} /\ keys \in SUBSET {"openai", "anthropic"}
    /\ call = [NoCall EXCEPT !.pc = "ready"]
    /\ metrics = [model |-> 0, embedding |-> 0, retries |-> 0, timeouts |-> 0, usage |-> 0]
    /\ ledger = [calls |-> 0, operations |-> 0, executed |-> 0, usage |-> 0,
                 timeouts |-> 0, surrendered |-> 0]

-----------------------------------------------------------------------------
(* Exceptions. *)

VendorErrors ==
    {"APITimeoutError", "RateLimitError", "APIConnectionError", "InternalServerError", "SDKError"}

LocalErrors == {"ValueError", "TypeError", "AttributeError", "RuntimeError"}

_normalize_provider_error(e) ==
    CASE e = "APITimeoutError" -> "ProviderTimeoutError"
      [] e \in {"RateLimitError", "APIConnectionError", "InternalServerError"} ->
            "ProviderTransientError"
      [] e = "SDKError" -> "ProviderPermanentError"
      [] OTHER -> e

classify_failure(e) ==
    CASE e = "ProviderTimeoutError" -> "timeout"
      [] e = "ProviderTransientError" -> "transient"
      [] e \in {"ValueError", "TypeError"} -> "validation"
      [] OTHER -> "permanent"

ProviderErrors == {"ProviderTimeoutError", "ProviderTransientError", "ProviderPermanentError"}

(* What the caller of a chat model sees. *)
ChatError(e) ==
    CASE e \in ProviderErrors -> "llm_provider_error"
      [] e \in {"TypeError", "ValueError"} -> "invalid_llm_response"
      [] e = "NotConfigured" /\ provider = "openai" -> "openai_not_configured"
      [] e = "NotConfigured" /\ provider = "anthropic" -> "model_provider_not_configured"
      [] OTHER -> "unhandled"

(* What the caller of embed_texts sees. *)
EmbeddingError(e) ==
    CASE e \in ProviderErrors -> "embedding_provider_error"
      [] e \in {"AttributeError", "TypeError", "ValueError"} -> "invalid_embedding"
      [] OTHER -> "unhandled"

Embedding(c) == c.kind = "embed"

Raise(c, e) ==
    [c EXCEPT !.pc = "done", !.raised = e,
              !.result = IF Embedding(c) THEN EmbeddingError(e) ELSE ChatError(e)]

-----------------------------------------------------------------------------
(* The start of a call. *)

Start(c) ==
    /\ call.pc \in {"ready", "done"} /\ ledger.calls < MaxCalls
    /\ call' = c
    /\ ledger' = [ledger EXCEPT !.calls = @ + 1]
    /\ UNCHANGED <<provider, keys, metrics>>

generate_structured == Start([NoCall EXCEPT !.pc = "attempt", !.kind = "structured"])

decide_tool_call == Start([NoCall EXCEPT !.pc = "attempt", !.kind = "tool"])

(* The client is built once, before the first batch and outside the retry. *)
embed_texts ==
    \E n \in TextCounts, blank \in BOOLEAN :
        LET c == [NoCall EXCEPT !.kind = "embed", !.texts = n]
        IN  Start(CASE n = 0 \/ blank ->
                        [c EXCEPT !.pc = "done", !.result = "invalid_embedding"]
                    [] n > 0 /\ ~blank /\ "openai" \notin keys ->
                        [c EXCEPT !.pc = "done", !.result = "embedding_not_configured"]
                    [] OTHER -> [c EXCEPT !.pc = "attempt"])

-----------------------------------------------------------------------------
(* One attempt of an operation. *)

(* The recorder after an attempt, whatever its outcome. *)
Recorded(usage) ==
    IF Embedding(call) THEN [metrics EXCEPT !.embedding = @ + 1]
    ELSE [metrics EXCEPT !.model = @ + 1, !.usage = IF usage THEN @ + 1 ELSE @]

(* The history after an attempt that the provider executed or not. *)
Asked(executed, usage) ==
    [ledger EXCEPT !.operations = IF call.attempt = 0 THEN @ + 1 ELSE @,
                   !.executed = IF executed THEN @ + 1 ELSE @,
                   !.usage = IF usage THEN @ + 1 ELSE @]

(* Faulty variant: one attempt too many. *)
AttemptFailsOnceMore(e, executed) ==
    LET failure == _normalize_provider_error(e)
        category == classify_failure(failure)
        again == category \in {"transient", "timeout"} /\ call.attempt <= MaxRetries
    IN  /\ call.pc = "attempt"
        /\ call' = IF again THEN [call EXCEPT !.attempt = @ + 1] ELSE Raise(call, failure)
        /\ metrics' = LET seen == Recorded(FALSE)
                      IN  IF ~again THEN seen
                          ELSE [seen EXCEPT !.retries = @ + 1,
                                            !.timeouts = IF category = "timeout" THEN @ + 1 ELSE @]
        /\ ledger' = [Asked(executed, FALSE) EXCEPT
                        !.timeouts = IF category = "timeout" THEN @ + 1 ELSE @,
                        !.surrendered = IF category = "timeout" /\ ~again THEN @ + 1 ELSE @]
        /\ UNCHANGED <<provider, keys>>

(* The attempt raises: it is repeated, or the call fails. *)
AttemptFails(e, executed) ==
    LET failure == _normalize_provider_error(e)
        category == classify_failure(failure)
        again == category \in {"transient", "timeout"} /\ call.attempt < MaxRetries
    IN  /\ call.pc = "attempt"
        /\ call' = IF again THEN [call EXCEPT !.attempt = @ + 1] ELSE Raise(call, failure)
        /\ metrics' = LET seen == Recorded(FALSE)
                      IN  IF ~again THEN seen
                          ELSE [seen EXCEPT !.retries = @ + 1,
                                            !.timeouts = IF category = "timeout" THEN @ + 1 ELSE @]
        /\ ledger' = [Asked(executed, FALSE) EXCEPT
                        !.timeouts = IF category = "timeout" THEN @ + 1 ELSE @,
                        !.surrendered = IF category = "timeout" /\ ~again THEN @ + 1 ELSE @]
        /\ UNCHANGED <<provider, keys>>

(* A chat model whose client cannot be built fails within the attempt. *)
Reachable == Embedding(call) \/ provider \in keys

NotConfigured == ~Reachable /\ AttemptFails("NotConfigured", FALSE)

ProviderFails ==
    /\ Reachable
    /\ \/ \E e \in VendorErrors : AttemptFails(e, FALSE)
       \/ AttemptFails("APITimeoutError", TRUE)
       \/ \E e \in LocalErrors : AttemptFails(e, TRUE)

Answer(c, usage) ==
    /\ call.pc = "attempt" /\ Reachable
    /\ call' = c
    /\ metrics' = Recorded(usage)
    /\ ledger' = Asked(TRUE, usage)
    /\ UNCHANGED <<provider, keys>>

(* The parsed output is missing or does not validate, or it does. *)
StructuredAnswer ==
    /\ call.kind = "structured"
    /\ \E usage \in BOOLEAN, result \in {"ok", "invalid_llm_response"} :
        Answer([call EXCEPT !.pc = "done", !.result = result], usage)

(* No call, or one whose arguments are an object or else become {}. *)
ToolAnswer ==
    /\ call.kind = "tool"
    /\ \E usage \in BOOLEAN, result \in {"no_call", "ok", "ok_without_arguments"} :
        Answer([call EXCEPT !.pc = "done", !.result = result], usage)

-----------------------------------------------------------------------------
(* Embedding responses. *)

(* The positions of the batch in the texts. *)
Batch(c) == {i \in 1..c.texts : i > c.batch /\ i <= c.batch + BatchSize}

Item(i, good) == [index |-> i, vector |-> [of |-> i, good |-> good]]

(* What may come back: each position once at most, in any order. *)
SoundItems(B) ==
    {[k \in DOMAIN p |-> Item(p[k], good)] : p \in SetToAllKPermutations(B), good \in BOOLEAN}

(* Or, not sound, one of the positions once more. *)
Repeating(r, i) == Append(r, Item(i, TRUE))

Responses(B) ==
    {[items |-> r, sound |-> TRUE] : r \in SoundItems(B)} \cup
    {[items |-> Repeating(r, i), sound |-> FALSE] : r \in SoundItems(B), i \in B}

(* Faulty variant: the items are taken as they come. *)
OrderedAsReceived(items) == [k \in DOMAIN items |-> items[k].vector]

(* sorted(response.data, key = index), which is stable. *)
Ordered(items) ==
    LET places == DOMAIN items
        byIndex == {p \in places \X places :
                        \/ items[p[1]].index < items[p[2]].index
                        \/ items[p[1]].index = items[p[2]].index /\ p[1] < p[2]}
        order == InOrder(places, byIndex)
    IN  [k \in DOMAIN order |-> items[order[k]].vector]

(* The checks after the last batch. *)
Checked(c) ==
    [c EXCEPT !.pc = "done",
              !.result = IF Len(c.vectors) # c.texts \/ \E k \in DOMAIN c.vectors : ~c.vectors[k].good
                         THEN "invalid_embedding" ELSE "ok"]

EmbeddingAnswer ==
    /\ Embedding(call)
    /\ \/ \E r \in Responses(Batch(call)) :
            LET c == [call EXCEPT !.vectors = @ \o Ordered(r.items), !.attempt = 0,
                                  !.batch = @ + BatchSize, !.sound = @ /\ r.sound]
            IN  Answer(IF c.batch < c.texts THEN c ELSE Checked(c), FALSE)
       \/ \* response.data is not what the code expects
          \E e \in {"AttributeError", "TypeError"} : Answer(Raise(call, e), FALSE)

CallNext ==
    \/ generate_structured \/ decide_tool_call \/ embed_texts
    \/ NotConfigured \/ ProviderFails
    \/ StructuredAnswer \/ ToolAnswer \/ EmbeddingAnswer

-----------------------------------------------------------------------------
(***************************************************************************)
(* What the recorder reports of a request explains what the providers were *)
(* asked: attempts are operations plus retries, but for the attempt under  *)
(* way; no operation is attempted, so none is executed, more than          *)
(* PROVIDER_MAX_RETRIES + 1 times; token usage is counted once per answer  *)
(* that carried it, never for a repeated attempt; and the timeouts it      *)
(* misses are exactly those of the operations that gave up on one.  A call *)
(* reports a provider failure only after an error that is not retried, or  *)
(* after the last attempt.                                                 *)
(***************************************************************************)
CallsAreAccounted ==
    /\ ledger.operations + metrics.retries =
        metrics.model + metrics.embedding
            + IF call.pc = "attempt" /\ call.attempt > 0 THEN 1 ELSE 0
    /\ ledger.executed <= ledger.operations * (MaxRetries + 1)
    /\ call.attempt <= MaxRetries
    /\ metrics.usage = ledger.usage
    /\ metrics.timeouts = ledger.timeouts - ledger.surrendered
    /\ call.result \in {"llm_provider_error", "embedding_provider_error"} =>
        call.raised = "ProviderPermanentError" \/ call.attempt = MaxRetries

(***************************************************************************)
(* embed_texts returns the vector of each text at its place, over all      *)
(* batches, retries and orders of the items in a response, or it fails.    *)
(* Only the total is counted, so this takes responses that repeat no       *)
(* index: a missing item of one batch is then never made up by another.    *)
(***************************************************************************)
VectorsAreAligned ==
    (Embedding(call) /\ call.result = "ok" /\ call.sound) =>
        [i \in DOMAIN call.vectors |-> call.vectors[i].of] = [i \in 1..call.texts |-> i]
=============================================================================
