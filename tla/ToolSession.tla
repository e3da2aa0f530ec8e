------------------------------ MODULE ToolSession ------------------------------
(***************************************************************************)
(* The tools of one assessment request and the request's own writes share  *)
(* one SQLAlchemy session.  run_with_timeout runs each tool call in a      *)
(* daemon thread; after a timeout the request goes on while the thread is  *)
(* still using the session.                                                *)
(*                                                                         *)
(* External: the session's transaction begins with its first statement; a  *)
(* statement that fails aborts the transaction, after which every statement*)
(* fails until a rollback; COMMIT of an aborted transaction rolls it back  *)
(* without an error (PostgreSQL).  Statements do not overlap here; overlap *)
(* inside SQLAlchemy can only make more of them fail.                      *)
(*                                                                         *)
(* A definition introduced by "Faulty variant" is the definition after it  *)
(* with a plausible mistake; the specification does not use it.            *)
(***************************************************************************)
EXTENDS Naturals, Sequences, FiniteSets

CONSTANTS
    MaxCalls,   \* tool calls of one request
    Timeouts    \* whether a handler may exceed tool_timeout_seconds

ASSUME CallsAssumption == MaxCalls \in Nat \ {0} /\ Timeouts \in BOOLEAN

(* What process_candidate flushes for a candidate that needs a review. *)
Finalisation == <<"row", "state", "event">>

AllWrites == {Finalisation[i] : i \in 1..Len(Finalisation)}

(* vector: search_knowledge; graph: search_knowledge_graph; document:       *)
(* get_knowledge_document.                                                  *)
Tools == {"vector", "graph", "document"}

Calls == 1..MaxCalls

VARIABLES
    request,     \* what the request's thread does: "agent", "waiting",
                 \* "writing", "answered"
    call,        \* number of its latest tool call
    written,     \* how many of Finalisation are flushed
    answer,      \* what the client is told
    worker,      \* call -> where its thread is
    tool,        \* call -> its tool
    abandoned,   \* calls that timed out
    transaction, \* of the session: "none", "open", "aborted"
    flushed,     \* written, not committed
    committed    \* in the database

sessionVars == <<request, call, written, answer, worker, tool, abandoned, transaction,
                 flushed, committed>>

SessionInit ==
    /\ request = "agent" /\ call = 0 /\ written = 0 /\ answer = "none"
    /\ worker = [c \in Calls |-> "idle"]
    /\ tool = [c \in Calls |-> "none"]
    /\ abandoned = {}
    /\ transaction = "none" /\ flushed = {} /\ committed = {}

(* A request without tools that was answered. *)
SessionIdle ==
    /\ request = "answered" /\ call = 0 /\ written = Len(Finalisation) /\ answer = "stored"
    /\ worker = [c \in Calls |-> "idle"]
    /\ tool = [c \in Calls |-> "none"]
    /\ abandoned = {}
    /\ transaction = "none" /\ flushed = {} /\ committed = AllWrites

-----------------------------------------------------------------------------
(* The request's thread. *)

(* run_with_timeout starts the worker. *)
CallTool(t) ==
    /\ request = "agent" /\ call < MaxCalls
    /\ request' = "waiting"
    /\ call' = call + 1
    /\ tool' = [tool EXCEPT ![call'] = t]
    /\ worker' = [worker EXCEPT ![call'] = IF t = "vector" THEN "embedding" ELSE "querying"]
    /\ UNCHANGED <<written, answer, abandoned, transaction, flushed, committed>>

ToolReturns ==
    /\ request = "waiting" /\ worker[call] = "done"
    /\ request' = "agent"
    /\ UNCHANGED <<call, written, answer, worker, tool, abandoned, transaction,
                   flushed, committed>>

(* Faulty variant: the request waits for its worker. *)
ToolTimesOutJoining == FALSE /\ UNCHANGED sessionVars

ToolTimesOut ==
    /\ Timeouts
    /\ request = "waiting" /\ worker[call] # "done"
    /\ request' = "agent"
    /\ abandoned' = abandoned \cup {call}
    /\ UNCHANGED <<call, written, answer, worker, tool, transaction, flushed, committed>>

(* The workflow returned a candidate. *)
BeginFinalisation ==
    /\ request = "agent"
    /\ request' = "writing"
    /\ UNCHANGED <<call, written, answer, worker, tool, abandoned, transaction,
                   flushed, committed>>

(* Faulty variant: every write is committed on its own. *)
WriteCommitting ==
    /\ request = "writing" /\ written < Len(Finalisation)
    /\ transaction # "aborted"
    /\ written' = written + 1
    /\ transaction' = "none"
    /\ committed' = committed \cup {Finalisation[written']}
    /\ UNCHANGED <<request, call, answer, worker, tool, abandoned, flushed>>

Write ==
    /\ request = "writing" /\ written < Len(Finalisation)
    /\ transaction # "aborted"
    /\ written' = written + 1
    /\ transaction' = "open"
    /\ flushed' = flushed \cup {Finalisation[written']}
    /\ UNCHANGED <<request, call, answer, worker, tool, abandoned, committed>>

(* A flush fails in an aborted transaction; _handle_database_error rolls it  *)
(* back.                                                                     *)
WriteFails ==
    /\ request = "writing" /\ written < Len(Finalisation)
    /\ transaction = "aborted"
    /\ request' = "answered"
    /\ answer' = "database_unavailable"
    /\ transaction' = "none"
    /\ flushed' = {}
    /\ UNCHANGED <<call, written, worker, tool, abandoned, committed>>

(* The service commits and answers; the session is closed. *)
Commit ==
    /\ request = "writing" /\ written = Len(Finalisation)
    /\ request' = "answered"
    /\ answer' = "stored"
    /\ committed' = IF transaction = "open" THEN committed \cup flushed ELSE committed
    /\ transaction' = "none"
    /\ flushed' = {}
    /\ UNCHANGED <<call, written, worker, tool, abandoned>>

-----------------------------------------------------------------------------
(* A worker.  After the answer it has a transaction of its own, which the   *)
(* request does not see.                                                    *)

EmbeddingReturns(c) ==
    /\ worker[c] = "embedding"
    /\ \E at \in {"querying", "done"} : worker' = [worker EXCEPT ![c] = at]
    /\ UNCHANGED <<request, call, written, answer, tool, abandoned, transaction,
                   flushed, committed>>

QueryReturns(c) ==
    /\ worker[c] = "querying"
    /\ request = "answered" \/ transaction # "aborted"
    /\ worker' = [worker EXCEPT ![c] = "done"]
    /\ transaction' = IF request = "answered" THEN transaction ELSE "open"
    /\ UNCHANGED <<request, call, written, answer, tool, abandoned, flushed, committed>>

(* Faulty variant: a failed search leaves the transaction as it is. *)
RollsBackNever(t) == FALSE

(* The searches roll the session back after a failure, the document read    *)
(* does not: the registry swallows its error.                               *)
RollsBack(t) == t \in {"vector", "graph"}

QueryFails(c) ==
    /\ worker[c] = "querying"
    /\ worker' = [worker EXCEPT ![c] = IF RollsBack(tool[c]) THEN "failed" ELSE "done"]
    /\ transaction' = IF request = "answered" THEN transaction ELSE "aborted"
    /\ UNCHANGED <<request, call, written, answer, tool, abandoned, flushed, committed>>

Rollback(c) ==
    /\ worker[c] = "failed"
    /\ worker' = [worker EXCEPT ![c] = "done"]
    /\ transaction' = "none"
    /\ flushed' = {}
    /\ UNCHANGED <<request, call, written, answer, tool, abandoned, committed>>

RequestNext ==
    \/ \E t \in Tools : CallTool(t)
    \/ ToolReturns \/ ToolTimesOut
    \/ BeginFinalisation \/ Write \/ WriteFails \/ Commit

WorkerNext(c) ==
    EmbeddingReturns(c) \/ QueryReturns(c) \/ QueryFails(c) \/ Rollback(c)

SessionNext == RequestNext \/ \E c \in Calls : WorkerNext(c)

SessionSpec == SessionInit /\ [][SessionNext]_sessionVars

(* The request's thread runs and its waits are bounded; nothing is assumed  *)
(* of the workers, whose embedding or query may hang.                       *)
FairSessionSpec == SessionSpec /\ WF_sessionVars(RequestNext)

-----------------------------------------------------------------------------
(* Properties.                                                             *)

TypeOK ==
    /\ request \in {"agent", "waiting", "writing", "answered"}
    /\ call \in 0..MaxCalls
    /\ written \in 0..Len(Finalisation)
    /\ answer \in {"none", "stored", "database_unavailable"}
    /\ worker \in [Calls -> {"idle", "embedding", "querying", "failed", "done"}]
    /\ tool \in [Calls -> Tools \cup {"none"}]
    /\ abandoned \subseteq 1..call
    /\ transaction \in {"none", "open", "aborted"}
    /\ flushed \subseteq AllWrites /\ committed \subseteq AllWrites

(***************************************************************************)
(* "Bound a read-only synchronous operation using an isolated daemon       *)
(* worker": whatever a tool's worker does, the request's finalisation is   *)
(* committed as a whole when the client is told so, and not at all before. *)
(***************************************************************************)
WorkersAreIsolated == committed = IF answer = "stored" THEN AllWrites ELSE {}

(***************************************************************************)
(* The same, as long as no tool call of the request has timed out.         *)
(***************************************************************************)
AtomicUnlessAbandoned == abandoned = {} => WorkersAreIsolated

(***************************************************************************)
(* A search that failed in time leaves the session usable, so the request  *)
(* can still be stored; only a document read cannot.                       *)
(***************************************************************************)
SearchFailureIsCleaned ==
    (abandoned = {} /\ answer = "database_unavailable") =>
        \E c \in 1..call : tool[c] = "document"

(***************************************************************************)
(* Tools that end in time, with or without an error, do not disturb what   *)
(* the request writes on the session they share with it.                   *)
(***************************************************************************)
TimelyToolsAreHarmless == AtomicUnlessAbandoned /\ SearchFailureIsCleaned

(***************************************************************************)
(* The request is answered even if its tools hang, because every wait is   *)
(* bounded.                                                                *)
(***************************************************************************)
RequestIsAnswered == <>(request = "answered")
=============================================================================
