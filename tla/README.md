# A TLA+ verification of the enterprise agentic AI platform

The repository is a FastAPI service that turns a business request into a
structured assessment.  A request is routed to one of three executions (a
deterministic RAG prompt, a single tool-using agent, a fan-out of specialist
agents), the validated candidate passes a runtime risk gate, and the gate either
publishes it, holds it for a human reviewer or blocks it.  Documents reach the
knowledge base by ingestion; retrieval and tools read it.

This project models the parts whose correctness depends on order, interleaving,
failure or a limit.  `PROJECT.json` maps every definition to the source lines it
translates, lists the runs, the hazards and the theorems.

## Inventory

| Component | State | Operations | Why it is hard | What makes it correct |
|---|---|---|---|---|
| Assessment lifecycle (`services/assessments.py`, `repositories/assessments.py`) | row of `assessments`: status, result, execution, error | create, mark_processing, mark_completed, mark_pending_review, mark_failed; three to four transactions per request | a crash or a database error between two transactions; a commit whose acknowledgement is lost | a result is public only when something decided on it; a final row stays |
| Runtime governance (`services/runtime_governance.py`, `repositories/runtime_reviews.py`) | checkpoint row, append-only review events, `revision_count`/`max_revisions` | process_candidate, approve, reject, request_revision, resume_revision | two reviewers on one checkpoint; three tables written together; a counter with a limit that comes from the settings of the day | the tables agree, the history explains the checkpoint, the counter equals the history's count |
| Runtime gate (`runtime/gate.py`) | none (pure) | derive_signals, evaluate, _reason_codes | thirteen signals, nine policy switches, rules of different strength | strongest justified outcome, always explained, monotone |
| Settings and wiring (`core/config.py`, `api/dependencies.py`) | the settings of a deployment | validation, construction of the parts they ask for | dozens of flags that depend on each other, and an override that builds a part without its flag | what is accepted can be run |
| Execution router (`services/execution_router.py`, `_route_execution`) | none | route, fallback by capability | scores, overrides, missing capabilities | never routes to a missing workflow |
| Single-agent workflow (`graph/workflow.py`, `graph/nodes.py`, `agents/assessment_agent.py`) | LangGraph state: steps, tool calls, observations, termination | reason, execute_tool, synthesize, fail | two limits and a recursion limit that must fit together; a node that raises loses its update | ends within its limits, synthesises exactly once |
| Multi-agent workflow (`graph/multi_agent_*.py`) | reducer-merged state of parallel branches | evidence, architecture, risk_governance, synthesize, validate | branches merge in any order; failures are counted across branches | degraded runs are recognised, no result without evidence of it |
| Evidence agent (`agents/evidence_agent.py`) | observations, brief | bounded tool loop, brief, sanitising | tool budget shared by several calls | the brief cites only observed evidence |
| Tool registry and permissions (`tools/`) | per-request cache of results | execute: permission, validation, cache, timeout | the worker of a timed-out tool keeps using the request's session; failures are cached | a denied tool never runs; a result belongs to its arguments |
| Model calls (`providers/`, `runtime/resilience.py`, `runtime/metrics.py`) | attempt counter, the request's counters | generate_structured, decide_tool_call, embed_texts, run_with_retry | classification decides between retry and failure; a timed-out attempt may have been executed; answers of several batches | at most 1 + max retries attempts; counters that tell what happened; vectors at their texts. An answer that fails its schema is an error: there is no repair call |
| Ingestion (`ingestion/`, `rag/`) | documents, chunks, embeddings | upload, parse, deduplicate, chunk, embed, store | duplicate check and insert are two statements without a constraint behind them | a document is stored with all its chunks or not at all |
| Graph enrichment (`knowledge_graph/enrichment.py`, `repositories/knowledge_graph.py`) | entities, mentions, relationships | extract, upsert, commit | two enrichments meet at the unique indexes and may wait for each other | all or nothing; one name is one entity |
| Policy-repository connector (`connectors/`) | counters of the sync report | sync document by document | one document fails, the others must go on | the report adds up |
| Hybrid retrieval (`knowledge_graph/hybrid.py`, `retrieval.py`, `rag/retrieval.py`) | visited entities, frontier | vector and graph retrieval, bounded traversal, fusion | cycles, limits, one source failing, commits between the statements | bounded, no duplicate evidence, one path's ApplicationError costs only that path |
| Product read models (`services/product_read.py`) | none | list of assessments with totals and facets, review candidate | several reads without a snapshot | what is shown together can be explained |
| HTTP admission and identity (`main.py`, `api/`, `identity/`) | JWKS client of the verifier | size limit, hosts, body, dependencies in order, token verification, roles, schema, statuses | key rotation and outages of the issuer; the order of the checks decides the answer | no handler without a verified principal of a sufficient role |
| Evaluation, demo seed, frontend, migrations | - | - | offline metrics, fixed data, presentation | see "What is not modelled" |

### How the components interact

`AssessmentService.generate_assessment` commits the pending row, commits
`processing`, calls the routed workflow synchronously in the request's thread, and
hands the candidate to `RuntimeGovernanceService.process_candidate`, which calls the
gate and writes assessment row, checkpoint and event through repositories that
share the request's SQLAlchemy session; the service commits.  Reviewers call
`approve`, `reject` and `request_revision` over the API; `resume_revision` is an
internal entry point.  Reviews read the checkpoint with `SELECT ... FOR UPDATE`.
Tools run in the same request, partly in a worker thread, on the same session.
Before any of this a request passes the middleware and the dependencies of its route.
Uploads, document creation, enrichment and syncs write the knowledge tables, each in a
session of its own; searches read them statement by statement while others commit.

## Modules

| Module | Models | Kind |
|---|---|---|
| `ReviewTables` | rows of the three tables and the values the repositories and review methods write | shared definitions |
| `ReviewLifecycle` | the promise: one action per committed transaction | abstract specification |
| `ReviewTransactions` | requests with sessions, row locks, flushes, commits, faults and deployments | detailed specification, refines `ReviewLifecycle` |
| `ReviewTransactionsProofs` | locks, durability, telemetry, and the refinement, for any number of requests | proofs |
| `ReviewLifecycleProofs` | inductive invariant and theorems about `ReviewLifecycle`, and the reads of `ReviewReads` | proofs |
| `RuntimeGate` | `derive_signals`, `evaluate`, `_reason_codes` | pure algorithm with one step |
| `RuntimeGateProofs` | theorems about the gate for every policy and every set of risks | proofs |
| `ToolRegistry` | `ToolRegistry.execute` with its cache, `AgentToolPermissions.execute` | shared definitions |
| `SingleAgentWorkflow` | the reason/tool loop with its limits and LangGraph's, extends `ToolRegistry` | specification |
| `SingleAgentWorkflowProofs` | limits, handler runs and the report, for every setting | proofs |
| `MultiAgentWorkflow` | evidence agent, parallel branches, join, synthesis, validation, extends `ToolRegistry` | specification |
| `MultiAgentWorkflowProofs` | gathering, branches and failures for every setting | proofs |
| `ToolSession` | tool workers, timeouts and the finalisation on one database session | specification |
| `ToolSessionProofs` | atomicity without timeouts, for any number of tool calls | proofs |
| `AgentRequest` | a request in single-agent mode: its workflow, or the session under it | composition |
| `ReviewReads` | the list of assessments and the review candidate, read between commits; extends `ReviewLifecycle` | specification |
| `KnowledgeTables` | rows of the five knowledge tables, their keys, what a whole document is | shared definitions |
| `KnowledgeStore` | the promise: a commit adds a whole document or grounded graph rows | abstract specification |
| `FileIntake` | the checks an upload passes before the tables are touched | operators |
| `KnowledgeBase` | concurrent creations, uploads, syncs and enrichments with faults; extends `FileIntake` | detailed specification, refines `KnowledgeStore` |
| `KnowledgeBaseProofs` | deduplication, atomic enrichment, true answers and the refinement, for any number of requests | proofs |
| `Ordering` | `ORDER BY`, `LIMIT`, `sorted()` and positions in order, used by `ModelCalls`, `Retrieval` and `Execution` | operators |
| `Chunking` | `normalize_text`, the loop of `chunk_text`, provenance | algorithm |
| `ModelCalls` | provider calls, retries, embeddings in batches, the metrics recorder | specification |
| `Retrieval` | vector search, graph traversal, fusion, while other requests commit | specification |
| `Execution` | settings, wiring, router, fallback, dispatch, grounding of the answer | specification |
| `Admission` | the way of an HTTP request to its handler, token verification, key rotation | specification |
| `RequestParts` | the five specifications above and the gate; one behaviour is one of them | composition |
| `RequestPartsProofs` | chunks, call accounting, aligned vectors, hybrid retrieval, runnable settings, grounding and admission, for every setting | proofs |
| `MCReviewLifecycle`, `MCReviewTransactions`, `MCSingleAgentWorkflow`, `MCMultiAgentWorkflow`, `MCKnowledgeBase`, `MCRequestParts` | instances for TLC | model checking |

A definition introduced by the comment "Faulty variant" is the next definition with
a plausible bug.  No specification uses it; substituting it must make TLC report
the property `PROJECT.json` names, which shows that the property can fail.

### Review lifecycle

State: `assessments[id]` (status, result, error), `states[id]` (decision, review
status, candidate, revision, max), `events[id]` (the review events in creation
order).  Each action is one committed transaction: `Create`, `MarkProcessing`,
`PersistFailure`, `CompleteUngated` (gate disabled), `ProcessCandidate`, `Approve`,
`Reject`, `RequestRevision`, `ResumeRevision`.  Candidates are opaque; the gate's
decision is an input, because any decision is possible for some candidate.
`max_human_revisions` is an input too: each server instance stores its own setting.

### Transactions

A request is a record: what it does (`kind`), how far it is (`at`), the settings it
started with, and the writes it has flushed but not committed.  A commit (`Apply`)
makes them visible at once.  `LocksState` is `get_state(for_update=True)`; waiting
for the lock is the guard.  The faults: `DatabaseFails` (SQLAlchemyError and
rollback), `AcknowledgementLost` (the commit took effect, the reply is an error),
`Crash`; `Redeploy` changes the settings of later requests.  PostgreSQL at READ
COMMITTED is the external component; its row lock, atomic commit and rollback are
assumed.  SQLAlchemy's identity map is weak and the repositories return copies, so
`mark_*` reads its row again under the lock; `ReviewTransactions` therefore needs no
stale copy of the assessments row.

### Gate

A candidate is reduced to what the gate reads.  `signal_overrides` (used by the demo
seed only) may turn `evidence_required` off and is an input of the step.

### Tools

A tool call is a model value; `Registered` and `Valid` say what the registry makes of
it, `Fingerprint` which calls are the same after normalising.  `execute` returns the
set of ways a call can go (result, cache after it, fingerprint whose handler ran): a
rejected call is not cached, a failure is.  `permitted_execute` puts the permission
check of the specialists in front.

### Single-agent workflow

The variables are the fields of `AssessmentGraphState` (evidence and documents as one
set), plus the node LangGraph runs next and the number of the superstep.  One action
per node and outcome: `ReasonAtLimit`, `ReasonTool`, `ReasonStop`, `ReasonRaises`,
`ExecuteTool`, `Synthesize`, `SynthesizeRaises`, `Fail`, `Finish` (the check in `run`)
and `OutOfSteps` (`GraphRecursionError`).  A node that raises loses its update.
`Validated` is the settings' validation; `limits.agentic` is false when only
`EXECUTION_MODE_OVERRIDE` selected the workflow.  `ran` is a history variable.

### Multi-agent workflow

`state` is the graph's state, a function of channels `<<agent, field>>`; a node
returns an update of some of them.  The evidence agent's loop is unfolded into one
action per iteration (`GatherTool`, `GatherStops`, `GatherAtLimit`), because its
failure can come between any two.  The branches return their updates in any order
(`architecture`, `risk_governance`), `Join` applies both.  LangGraph is external: it
waits for both branches and refuses two writes of one channel.

### Tool session

One request: its thread (`CallTool`, `ToolReturns`, `ToolTimesOut`,
`BeginFinalisation`, `Write`, `WriteFails`, `Commit`) and a worker per tool call
(`EmbeddingReturns`, `QueryReturns`, `QueryFails`, `Rollback`), all on one session
whose transaction is none, open or aborted.  Statements are atomic here; SQLAlchemy
sessions are not thread-safe, and a real overlap can only make more statements fail.
PostgreSQL's behaviour (a failed statement aborts the transaction, COMMIT of an
aborted transaction rolls back without an error) is external.  `get_knowledge_document`
does not roll back after a database error as the searches do, and the registry swallows
the error (`registry.py:136`): the finalisation then fails and the row stays in
`processing`.  `TimelyToolsAreHarmless` says exactly that only such a read does this.
`AgentRequest` puts the session beside the workflow whose tools use it, for one run that
looks at either.

### Reads of the review tables

`list_assessments` and `get_review_candidate` are unfolded into their statements; between
two of them transactions of `ReviewLifecycle` commit, `MaxCommits` per read.  The read
under way is the variable `read`; which rows a page holds is left open.  The page and its
total may disagree when a filter is set and rows move on, and `PageIsExplicable` allows
just that.  It has two parts, `ItemsAreExplained` about the rows listed and `FacetsCover`
about the counts beside them; `Total` is the sum of a `GROUP BY`, written as the number of
pairs of a value and a row number so that it can be reasoned about.

### Knowledge base

`db` is the committed rows.  A session holds what it has flushed, and the loop it is in:
`Ingest` is the union of the steps of creation, upload and sync, `Enrich` those of one
enrichment.  External PostgreSQL: an insert of a key that another open transaction holds
waits; a committed key makes it fail; `DeadlockVictim` breaks a cycle of waits.  `Fail`
is a database error, a provider error or a lost acknowledgement, `Crash` ends every
request.  `content_hash` has an index and no unique constraint, so `FirstStoredIsReused`
is restricted to requests that do not overlap: two uploads of one content at the same
time are both stored, and what each request is told is still true (`AnswersAreTrue`).
A `sync` that meets an exception `enrich` does not handle goes on with a session that
still holds that enrichment's rows; the next commit stores them.  `GraphIsAtomic` names
this exception.  A chunk yields any of the given entities and at most one relationship
(`ExtractEdges`; `enrichment.py:84` loops over any number), so that waits at the
relationship index are explored without a queue of them.

### Chunking, model calls, retrieval, execution, admission

Five modules with state of their own, checked in one run, with the gate, because a request makes use of
them one after another and they meet only in values (`RequestParts` says which).

- `Chunking`: a text is a sequence over letter, space and line break, offsets are the
  code's.  `ChunksCoverText` is what `chunk_text` promises: slices of the text within the
  size, in order, that miss nothing but white space.  `IndexIsFaithful` is what ingestion
  makes of them: offsets that a second normalization does not move, and chunks attributed
  to the segments their characters are from.
- `ModelCalls`: `run_with_retry` is unfolded into attempts; an answer may be malformed
  and embeddings may come in any order.  The counters of `RuntimeMetricsRecorder` are
  compared with a history of what was really executed.  `embed_texts` checks only the
  total number of vectors, so `VectorsAreAligned` is about responses that repeat no index.
- `Retrieval`: one action per statement of the traversal (`Expand` reads the
  relationships of a level into `queue`) and one per relationship followed (`FollowEdge`);
  `MaxCommits` commits of others in between.  What is within a distance is defined by
  walks (`Within`), not by the traversal's own loop.  Exactness is claimed only of a
  traversal that met no limit, and of the graph as it was when it began.  Hybrid search
  goes on after an `ApplicationError` of either path (`VectorFails`, `GraphFails`); any
  other exception ends it without an answer (`SearchRaises`), and `HybridDegrades` says so.
- `Ordering`: a sorted list puts each row at the place given by the number of rows ahead
  of it, so that sorting and `LIMIT` need no recursion and can be proved about.
- `Execution`: `Settings` with the checks that relate settings and the range of the base
  delay of retries; the parts `api/dependencies.py` builds for a request
  (`SolveDependencies`), the providers with their `RetryPolicy` first; the route, the
  dispatch and the filtering of references, of which an answer has up to `MaxCited`.
  Searches, calls and workflows return any of their outcomes.  `SettingsAreRunnable` is
  exact about the base delay: requests fail in their dependencies when it exceeds the
  maximum of the policy (see Findings), and never otherwise.
- `Admission`: a route is the class of routes with the same dependencies; tokens have a
  key, roles and whether their other claims hold; the issuer may replace its keys or be
  out of reach.  `TRUSTED_HOSTS` may be empty, and then no host is refused.  The verifier,
  and with it the JWKS client and its cache, is built anew for each request
  (`identity/dependencies.py:16`), although the documentation speaks of cached keys (see
  Findings).  `AdmissionIsSound` is about the code as it is: a key that was withdrawn
  before the verifier was made is not accepted.  Two histories serve the properties:
  `published`, what the issuer published while the token was verified, and `delivered`,
  the keys that earlier requests were given.

## Runs

| Run | Shows | Bounds |
|---|---|---|
| `review_lifecycle` | the checkpoint matches its row, the history explains the checkpoint, no undecided result, explicable reads, finality, append-only history | 2 assessments, 2 candidates, limits 0 to 2: two full revision rounds and a refused third; filters any/pending_review/completed, page sizes 1 and 2, 2 commits during a read |
| `review_transactions` | the interleaved requests implement the lifecycle; the checked checkpoint is still current at commit; an answered decision is durable; review telemetry is committed first; execution metadata belongs to the result | 1 assessment (rows are independent), 2 requests at a time (slots are reused, so any number in sequence), 1 fault, 1 deployment, symmetric requests and candidates |
| `review_liveness` | every request is answered; a generation settles unless a fault hit it; revisions resume | 1 assessment, 2 requests, 1 fault, no deployment; no symmetry |
| `lowered_revision_limit` | violation: a deployment that lowers the limit strands a requested revision | 1 request, 1 deployment, no fault |
| `single_agent` | limits and recursion limit, one run per fingerprint, a truthful report (evidence, trace, reason), termination; on the session, atomic finalisation without timeouts, harmless search failures, an answer in spite of hung tools | limits 1 to 3 on both sides of each other with the tightest accepted recursion limit, and one unvalidated triple; 5 calls, two of them with one fingerprint, one invalid, one unknown; on the session 3 tool calls: one abandoned, one failed and one current at a time |
| `unmatched_recursion_limit` | violation: the override skips the validation of the recursion limit | steps 3, tool calls 3, recursion limit 7 |
| `multi_agent` | sound gathering (grounded brief, authorised tools, limits of the loop), merging branches, failures counted and disclosed, termination | steps and tool calls 1 to 2, failure budgets 0 to 2, 4 tools (one not permitted, one unknown), 3 chunks of 2 documents, briefs that cite observed and unobserved sources; every specialist may fail, every order of the branches |
| `knowledge_base` | the concurrent writers implement `KnowledgeStore`; enrichment is all or nothing; what a request is told is so; sequential requests never store a content twice; no request waits forever | 2 sessions, 4 document ids, one content of 1 and one of 2 chunks, 2 names (enough for a cycle of waits), one upload for each refusal, syncs of fresh and repeated, malformed or too many documents, 1 fault |
| `request_parts` | chunks that cover the text; faithful offsets and provenance; exact counters and retries; aligned vectors; exact neighbourhood; graceful fusion; runnable settings and routes; grounded answers; sound admission; the gate's strongest justified outcome with its reasons, its monotonicity, oversight | texts up to 6 characters or two segments of 3, 6 chunk settings; 1 retry, 2 calls, 0 to 3 texts in batches of 2; 5 entities, 5 edges, 3 chunks, depth 2, 3 entities at most, 2 commits; deployments that differ from a production deployment in up to 2 settings, or in any flags and one more setting; base delays of 250, 4000, 4001 and 60001 ms; up to 3 references; 2 requests, 3 keys, 1 rotation, 4 role claims; 5 policies (default, all switches off, lenient and tolerating tool failures, lenient and off, inverted), up to 2 risks, every execution |
| `abandoned_worker` | violation: a late worker discards the request's writes | 1 tool call, which may time out |
| `uncached_signing_keys` | violation: a request fetches keys an earlier one was given | the admission of `request_parts` (2 requests), nothing else |
| `refused_retry_delay` | violation: an accepted base delay of retries fails every request | the deployments of `request_parts`, nothing else |

Deadlock is checked in the transaction runs (a slot that is answered is reused, so
the system never stops).  The other systems end: the lifecycle when every assessment
is final, the gate when it has decided, a workflow when it has returned or raised, a
request when it is answered, the knowledge base when every session is, a part of a
request when it is done.  Their runs say `CHECK_DEADLOCK FALSE`, and the
workflows' termination is a property of its own.

**Fairness.** `FairSpec` assumes weak fairness of each request's own steps: every
external call has a timeout and bounded retries, and PostgreSQL queues row locks.
Arrivals, faults and deployments are not fair.  `ResumeSpec` adds that the trusted
revision path keeps being called; `RevisionsResume` is about what happens when
somebody does resume, and nothing in the code resumes by itself.  The two workflows
are synchronous calls, so their `FairSpec` assumes weak fairness of the next step
(and of each branch's thread): every model and tool call in them has a time limit.
`ToolSession` (and `AgentSpec`, for either side) assumes weak fairness of the request's
thread only; a worker may hang.
`KnowledgeBase` assumes weak fairness of each session's own steps and of
`DeadlockVictim`, PostgreSQL's deadlock detection; faults are not fair.  `RequestParts`
assumes none, its properties are invariants.

### Findings

- `lowered_revision_limit`: `resume_revision` calls `process_candidate`, which stores
  the current deployment's `max_human_revisions` (`runtime_governance.py:223`).  With a
  limit below the checkpoint's `revision_count` the check constraint `revision_bounds`
  rejects the write, every time; `approve` and `reject` need status `pending`, so the
  assessment stays in `pending_review`.
- `unmatched_recursion_limit`: the settings compare the recursion limit with the step
  limit only when `AGENTIC_WORKFLOW_ENABLED` is set (`config.py:198`), but
  `EXECUTION_MODE_OVERRIDE=single_agent` runs the workflow without it.  With
  `AGENT_MAX_STEPS=12`, `AGENT_MAX_TOOL_CALLS=12` (with the default 5 the synthesis is
  forced in time) and the default recursion limit 25, a long run of tool calls ends in `GraphRecursionError` instead of the forced synthesis the README describes.
- `abandoned_worker`: the worker of a timed-out tool is not "isolated": it shares the
  request's session (`resilience.py:65`).  When its query fails late, its rollback
  discards what the request has flushed; the commit still succeeds.
- `uncached_signing_keys`: "Signing keys are cached" (README.md:136; likewise README.md:27,
  `identity/tokens.py:65`, ADR-008 and overview.md:131), but `get_token_verifier`
  (`identity/dependencies.py:24`) makes a new JWKS client for every request, so each one
  fetches the keys, whatever `AUTH_JWKS_CACHE_SECONDS` is, and depends on the issuer
  being reachable.
- `refused_retry_delay`: `Settings` accepts `PROVIDER_RETRY_BASE_DELAY_MS` up to 60000
  (`config.py:114`), and `RetryPolicy` refuses more than its maximum delay of 4000, which
  nothing sets (`runtime/models.py:294-301`, `providers/factory.py:23-26, 56-59`).  The
  policy is made with the dependencies of a request, so the process starts and every
  request that needs a provider is answered with 500.

## Proofs

`ReviewLifecycleProofs` proves, for any sets of ids and candidates and any limit,
type correctness, the six state invariants and `RecordStands`, that is `DecisionIsFinal`
and `HistoryOnlyGrows`.  The invariants are not inductive one by
one: `ResultIsDecided` needs that a pending checkpoint never coexists with a completed row (part of `TablesAgree`), `FeedbackIsLatest` needs the
ledger, and the ledger needs that no event carries a later revision.  `Inv` is their
conjunction, stated per row as `RowInv(a, s, e)` so that a step has to be examined
for one assessment only (`OneRow`); a lemma per action (`ApproveRow`, `RejectRow`,
`RequestRevisionRow`, `ResumeRow`, `ProcessCandidateRow`) shows that it preserves
`RowInv`, resting on facts about appending to a history (`AppendFacts`,
`ChainAppend`, `LedgerAppend`, `LedgerRequest`).  `CheckpointMatches` and `HistorySafe`
put the invariants together as the run states them.

The same module proves `ReadsAreExplicable`, for any number of commits between the
statements of a read.  Reads change no table (`ReadsChangeNothing`), so `Inv` holds
throughout.  `RowMoves` says what a commit may do to one assessment: a row that is there
stays, a final one is not touched, a checkpoint stays.  `ReadInv` is what the statements
done so far have established: the rows of the page still stand (`Remembers`), the
checkpoints read after them explain them (`Follows`), the counts include them.  It needs
two facts that no invariant of the lifecycle states (`Explained`): a failed generation
left no checkpoint, and an approved candidate is the result.  `FacetInv` bounds every
count by the size of the table when it was made, and tables only grow; `CountsTotal`, that
the counts of a column sum up to the number of rows, is shown by a bijection.

Assumptions: `NoCandidate` is not a candidate, the limit is a natural number and `Ids` is
finite.

`ReviewTransactionsProofs` proves, for any number of assessments, requests, faults and
deployments, the four invariants of the run and `LifecycleRefined`: the committed tables
of the interleaved requests are a behaviour of `ReviewLifecycle`.  The invariant has two
sides.  `RowInv` is about the committed rows (what a status says about result, checkpoint
and execution).  `RequestInv` is about one request: between its checks and its commit the
rows still are what it checked.  Nothing in a request protects the rows it read, so the
two need `Locks` (only a review between `get_state(for_update=True)` and its commit holds
the row lock) and `Owners` (a row that is being generated belongs to one request).  With `RequestInv`, the flushed writes of a request
at its commit are exactly the writes of one action of `ReviewLifecycle`, and every other
step leaves the tables alone.

`RuntimeGateProofs` proves the gate's properties (`GateIsJustified` joins the outcome
and its reasons) for every policy in
`RuntimeRiskPolicy` and every finite or infinite choice of risk sets; `HighestLevel`
shows that a non-empty set of risks has a highest severity, which makes the `CHOOSE`
in `RiskLevel` meaningful.  Assumptions: `Policies` and `Risks` are well-typed.

`SingleAgentWorkflowProofs` proves `LimitsBiteFirst`, `WithinBudget` (together
`LimitsHold`) and `HandlerRunsOnce` for any limits, any set of tool calls and any fingerprint function.
That the recursion limit suffices is not inductive: `Counted` ties the superstep to the
step (`2 * step + 1` before `reason`, `2 * step` before `execute_tool`, at most
`2 * step + 2` before `synthesize` or `fail`, at most `2 * step + 3` at the end), so
with `step <= max_steps` the superstep never passes `2 * max_steps + 3`, which is
exactly the bound the settings check; the constant 3 cannot be made smaller.
`Budgeted` says that entry i of the history belongs to step i.  `ReportIsTruthful` needs
`RInv` besides: the trace is the history read through `ToolEvents`, evidence comes from
observations only, and the termination reason is fixed together with the edge the router
takes.  `ExecuteOutcome` states
what one tool call does to the cache.  Assumptions: those of `ToolRegistry` and
`LimitsAssumption`.

`ToolSessionProofs` proves `AtomicUnlessAbandoned` and `SearchFailureIsCleaned`
(together `TimelyToolsAreHarmless`) for any number of tool calls.  The invariant says that without an abandoned call only the
current call's worker is active, and only while the request waits; so at the
finalisation no worker is left, the pending writes are exactly the prefix written so
far, and an aborted transaction goes back to a document read.

`MultiAgentWorkflowProofs` proves `GatheringIsSound`, `FailuresAreHandled` and
`BranchesMerge` for any tools, permissions, budgets, documents and briefs.  The invariant
goes along the graph: what the gathering loop has observed, cached and traced so far; what
the evidence channels hold once it has returned; for each branch, that the update it
returned writes its own channels only, with the failure it reports in both the counter and
the trace; and what the join makes of two such updates, in whichever order they came.
Assumptions: those of `ToolRegistry` and `NoneAssumption` (`None`, an unwritten channel,
is none of the values the nodes write).

`KnowledgeBaseProofs` proves `GraphIsAtomic`, `FirstStoredIsReused`, `AnswersAreTrue` and
`StoreRefined` (the refinement of `KnowledgeStore`) for any contents, uploads and pages, any
entities and at most one relationship extracted per chunk, and any number of requests and
faults.  The committed rows alone say too little: whether a commit is allowed depends on what its transaction has flushed, and that
on rows other transactions have committed meanwhile.  `At(s, r, p)` says what a session's
flushed rows are at each point of its request:
`PendingAt` which rows they can be (graph rows outlive an enrichment only in a sync, as
leftovers), `Supported` what they rest on (committed chunks, and entities and mentions
that are committed or flushed with them, except the entity whose mention is the very next
statement), `Resolving` how the queue of statements, the resolved names and the rows fit
together, `Fresh` and `Deduplicating` what the document being stored may be.
`NamesAreUnique` ranges over committed and flushed entities of all sessions: the wait at
the unique index is what preserves it.  One lemma per action; `OthersKept` shows once
that a step of one session leaves what is said of the others true, because the tables
only grow.  `Least` (a set of numbers has a least one, from the well-foundedness of `<`)
gives the lookup of the earliest duplicate its meaning.  `AnswersAreTrue` rests on a second
invariant, `TellInv`, inductive relative to the first: `Reported` says that the report of
a request is true of what it has done so far, with one document open while its enrichment
is under way, and `Told` at which point which part holds.  An enrichment under way has no
row in `completed` yet, so that its commit is one more; a document just stored is a birth
that was not there before.  Assumptions: those of
`KnowledgeTables`; pages are sequences of contents, blank or malformed documents
(`PagesAssumption`), extractions are sequences (`ExtractionsAssumption`).

`RequestPartsProofs` proves eight of the nine invariants of `RequestParts`, each from an
invariant about the state of one part (a step of any other part leaves that state alone).

- `ChunksCoverText`, for every text, size and overlap.  The loop's `Loop` says that there
  are no more chunks than characters passed, that none ends after the next slice or begins
  after its first solid character, and that what is passed is covered.  Two facts make it
  inductive.  `EndGrows`: the next slice leaves out nothing solid, even when the boundary
  lies where the slice began and only `start + 1` moves the loop on.  `BoundaryGrows`: a
  later window never has an earlier boundary, although paragraphs are preferred to lines
  and lines to words, so the chunks stay in order however large the overlap is.
- `CallsAreAccounted`, for any retry budget.  `CallsInv` bounds the executed calls by
  `Allowed(operations)`, the calls a number of operations may make; while an operation is
  being retried the bound is lower by what its remaining attempts may still use, which is
  what makes it inductive.
- `VectorsAreAligned`, for any number of texts and batches.  The vectors of the batches
  answered so far rise strictly within the positions of those batches (`AlignedInv`):
  sorting by index makes a response rise (`SortedRises`), and batches follow one another.
  At the end there are as many vectors as texts, and a strictly rising list of that length
  within `1..n` is `1..n` (`AllRise`).
- `NeighborhoodIsExact` and `HybridDegrades`, for every graph and limit and any commits in
  between.  `SearchInv` says of a traversal under way: what is visited is within the level
  of a seed along relationships taken (`Reached`); the relationships still in the queue
  touch what was visited before (`Queued`); if no limit was met, everything within the
  level of the graph as it was at the start has been seen (`Seen`, `Whole`); tables only
  grow, so what one statement established still holds for the next (`StageGrows`).  A set
  that no relationship leaves contains every walk from it (`WithinClosed`), which covers
  the traversal that stops before its depth is used up.  Of the answer it says that it is
  the vector path's ranking followed by the graph's other chunks (`MergedAs`), each once.
- `SettingsAreRunnable` and `AnswerIsGrounded`, for any deployments.  `ExecutionInv` says
  that past the start the settings passed validation, that past the dependencies the
  providers could be made and the parts were wired from the settings,
  that the route was chosen by the documented precedence, that an assessment without
  retrieval has no evidence, and that a failure has the cause its status names;
  `KeptIsExact` shows that the references kept are those that are evidence, each once, in
  the order in which the model first gives them, for any number of them: they are at the
  places of a finite set of numbers listed in ascending order.
- `AdmissionIsSound`, for any keys and role claims.  `AdmissionInv` says that the
  dependencies left to solve are a tail of the route's list, what the solved ones have
  established about caller and body, that the resolver never holds a key that was not
  published since the verifier was made, and that the audit role is the strongest one
  (`AuditRole`).

The induction principles of the library are out of reach here, so facts about every
length (walks, lists, the largest and the least of a set) are shown by the least
counterexample (`Smallest`); `InOrderIsBijective` shows that every finite set has its list
in any strict total order because ranks are a bijection.  Assumptions: those of the five
modules, among them `SettingsTypeAssumption`, the literal types and flags `Settings`
declares; `RowAssumption`, that rows are numbered and finitely many; `RetryAssumption`;
and `TextAssumption`, that `normalize_text` returns a string, which is a fact about folds
the provers cannot show and TLC evaluates for the texts of the run.

`TraceMatchesHistory` and `TraceTellsTheRun` compare the trace with the history entry by
entry (`ToolEvents`, `AgentEvents`) instead of filtering it with a recursive operator, so
that they can be proved as they are checked.

Only model-checked: liveness, which is out of the prover's reach, and `IndexIsFaithful`,
which is about what the folds of `normalize_text` and `_build_provenance_spans` compute and
needs an induction over data.  Every other property of a passing run is also a theorem.

## What is not modelled, and why

- Payload contents, prompts, the vendors' message formats, embeddings and similarity:
  data without control.
- `evaluation/`: offline arithmetic over fixed datasets, sequential, without state that
  outlives a run; its metrics are functions of floating-point numbers.
- Demo seed, `frontend/`, `alembic/`, `docker/`: fixed data, presentation, migrations,
  deployment.  The seed's use of `signal_overrides` is an input of the gate.
- CORS, request ids, readiness probes, shutdown; wiring that only passes values on; what
  an exporter sends (when it sends is in `ReviewTransactions`).
- The update of an empty entity description during an upsert.
- The connection pool, and SQLite, on which `FOR UPDATE` has no effect.
- Real overlap of two threads inside one SQLAlchemy session (see Tool session).

## Plan

1. Done: review lifecycle, transactions and gate; tool registry, both workflows, tool
   session; reads of the review tables; knowledge base with its abstract store; chunking,
   model calls, retrieval, execution and admission.
2. Done: proofs about the review lifecycle and its transactions, the gate, both workflows,
   the tool session, the knowledge base and the parts of a request, with both refinements.
3. Done: sorted lists without recursion, and from them aligned vectors, exact
   neighbourhoods, graceful fusion and chunks that cover the text.
4. Open: `IndexIsFaithful` for every text, which takes a normalization defined without
   folds and a proof that it equals the code's loop.
