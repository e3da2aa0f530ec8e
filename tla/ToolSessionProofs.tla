--------------------------- MODULE ToolSessionProofs ---------------------------
(***************************************************************************)
(* Proofs about ToolSession for every number of tool calls: as long as no  *)
(* call timed out, no worker touches the session while the request writes. *)
(***************************************************************************)
EXTENDS ToolSession, TLAPS

(* What is flushed when the first n writes are. *)
Flushed(n) == {Finalisation[i] : i \in 1..n}

FutureIsIdle == \A c \in Calls : c > call => worker[c] = "idle"

PastIsNamed == \A c \in Calls : c <= call => tool[c] \in Tools

(* Only the call the request waits for is running. *)
OneWorker ==
    abandoned = {} =>
        \A c \in Calls : worker[c] \notin {"idle", "done"} => c = call /\ request = "waiting"

Progress ==
    /\ request \in {"agent", "waiting"} =>
            written = 0 /\ flushed = {} /\ committed = {} /\ answer = "none"
    /\ request = "writing" =>
            committed = {} /\ answer = "none" /\ flushed = Flushed(written)
    /\ (request = "writing" /\ written > 0) => transaction = "open"
    /\ request = "answered" =>
            \/ answer = "stored" /\ committed = AllWrites
            \/ answer = "database_unavailable" /\ committed = {}

Cause == \E c \in 1..call : tool[c] = "document"

(* An aborted transaction is about to be rolled back, or a document read    *)
(* aborted it.                                                              *)
Aborted ==
    /\ transaction = "aborted" =>
            Cause \/ (request = "waiting" /\ worker[call] = "failed")
    /\ answer = "database_unavailable" => Cause

IInv ==
    /\ TypeOK
    /\ FutureIsIdle
    /\ PastIsNamed
    /\ OneWorker
    /\ abandoned = {} => Progress /\ Aborted
    /\ request = "waiting" => call \in Calls
    /\ \A c \in Calls : worker[c] = "failed" => RollsBack(tool[c])

(* The invariant holds initially. *)
LEMMA InitIInv == SessionInit => IInv
BY CallsAssumption DEF SessionInit, IInv, TypeOK, FutureIsIdle, PastIsNamed, OneWorker, Progress, Aborted,
   Calls, AllWrites, Flushed, Finalisation

(* Each step of the request's thread keeps the invariant. *)
LEMMA RequestKeepsIInv == IInv /\ RequestNext => IInv'
<1> SUFFICES ASSUME IInv, RequestNext PROVE IInv'
    OBVIOUS
<1> USE CallsAssumption
<1>1. ASSUME NEW t \in Tools, CallTool(t) PROVE IInv'
    BY <1>1 DEF IInv, CallTool, TypeOK, FutureIsIdle, PastIsNamed, OneWorker, Progress, Aborted, Cause,
                Calls, Tools, AllWrites, RollsBack
<1>2. CASE ToolReturns
    BY <1>2 DEF IInv, ToolReturns, TypeOK, FutureIsIdle, PastIsNamed, OneWorker, Progress, Aborted, Cause,
                Calls
<1>3. CASE ToolTimesOut
    BY <1>3 DEF IInv, ToolTimesOut, TypeOK, FutureIsIdle, PastIsNamed, OneWorker, Calls
<1>4. CASE BeginFinalisation
    BY <1>4 DEF IInv, BeginFinalisation, TypeOK, FutureIsIdle, PastIsNamed, OneWorker, Progress, Aborted,
                Cause, Calls, Flushed
<1>5. CASE Write
    <2>1. TypeOK' /\ FutureIsIdle' /\ PastIsNamed' /\ OneWorker'
        BY <1>5 DEF IInv, Write, TypeOK, FutureIsIdle, PastIsNamed, OneWorker, Calls, AllWrites, Finalisation
    <2>2. flushed = Flushed(written) => flushed' = Flushed(written')
        BY <1>5 DEF IInv, Write, TypeOK, Flushed, Finalisation
    <2>3. abandoned' = {} => Progress'
        BY <1>5, <2>2 DEF IInv, Write, TypeOK, Progress
    <2>4. abandoned' = {} => Aborted'
        BY <1>5 DEF IInv, Write, Aborted, Cause, Progress
    <2> QED
        BY <1>5, <2>1, <2>3, <2>4 DEF IInv, Write
<1>6. CASE WriteFails
    BY <1>6 DEF IInv, WriteFails, TypeOK, FutureIsIdle, PastIsNamed, OneWorker, Progress, Aborted, Cause,
                Calls
<1>7. CASE Commit
    <2>1. Flushed(Len(Finalisation)) = AllWrites /\ Len(Finalisation) > 0
        BY DEF Flushed, AllWrites, Finalisation
    <2>2. abandoned' = {} => committed' = AllWrites
        BY <1>7, <2>1 DEF IInv, Commit, Progress
    <2>3. TypeOK' /\ FutureIsIdle' /\ PastIsNamed' /\ OneWorker'
        BY <1>7 DEF IInv, Commit, TypeOK, FutureIsIdle, PastIsNamed, OneWorker, Calls
    <2> QED
        BY <1>7, <2>2, <2>3 DEF IInv, Commit, Progress, Aborted, Cause
<1> QED
    BY <1>1, <1>2, <1>3, <1>4, <1>5, <1>6, <1>7 DEF RequestNext

(* Each step of a worker keeps the invariant: without an abandoned call the *)
(* worker is the one the request waits for.                                 *)
LEMMA WorkerKeepsIInv ==
    ASSUME NEW c \in Calls, IInv, WorkerNext(c) PROVE IInv'
<1> USE CallsAssumption
<1>1. CASE EmbeddingReturns(c)
    BY <1>1 DEF IInv, EmbeddingReturns, TypeOK, FutureIsIdle, PastIsNamed, OneWorker, Progress, Aborted,
                Cause, Calls
<1>2. CASE QueryReturns(c)
    BY <1>2 DEF IInv, QueryReturns, TypeOK, FutureIsIdle, PastIsNamed, OneWorker, Progress, Aborted,
                Cause, Calls
<1>3. CASE QueryFails(c)
    <2>1. TypeOK' /\ FutureIsIdle' /\ PastIsNamed' /\ OneWorker'
        BY <1>3 DEF IInv, QueryFails, TypeOK, FutureIsIdle, PastIsNamed, OneWorker, Calls
    <2>2. abandoned' = {} => Progress'
        BY <1>3 DEF IInv, QueryFails, OneWorker, Progress
    <2>3. c <= call /\ tool[c] \in Tools
        BY <1>3 DEF IInv, QueryFails, FutureIsIdle, PastIsNamed, TypeOK, Calls
    <2>4. ASSUME abandoned' = {} PROVE Aborted'
        <3>1. c = call /\ request = "waiting"
            BY <1>3, <2>4 DEF IInv, QueryFails, OneWorker
        <3>2. CASE RollsBack(tool[c])
            BY <1>3, <2>4, <3>1, <3>2 DEF IInv, QueryFails, Aborted, Cause, TypeOK, Progress
        <3>3. CASE ~RollsBack(tool[c])
            <4>1. tool[c] = "document"
                BY <2>3, <3>3 DEF RollsBack, Tools
            <4> QED
                BY <1>3, <2>3, <2>4, <3>1, <4>1 DEF IInv, QueryFails, Aborted, Cause, TypeOK, Calls
        <3> QED
            BY <3>2, <3>3
    <2> QED
        BY <1>3, <2>1, <2>2, <2>4 DEF IInv, QueryFails, TypeOK
<1>4. CASE Rollback(c)
    BY <1>4 DEF IInv, Rollback, TypeOK, FutureIsIdle, PastIsNamed, OneWorker, Progress, Aborted,
                Cause, Calls
<1> QED
    BY <1>1, <1>2, <1>3, <1>4 DEF WorkerNext

(* The invariant holds in every reachable state. *)
LEMMA Inductive == SessionSpec => []IInv
<1>1. IInv /\ UNCHANGED sessionVars => IInv'
    BY DEF IInv, sessionVars, TypeOK, FutureIsIdle, PastIsNamed, OneWorker, Progress, Aborted, Cause, RollsBack
<1>2. IInv /\ [SessionNext]_sessionVars => IInv'
    BY <1>1, RequestKeepsIInv, WorkerKeepsIInv DEF SessionNext
<1> QED
    BY InitIInv, <1>2, PTL DEF SessionSpec

(***************************************************************************)
(* For every number of tool calls: while no call of the request has timed  *)
(* out, the finalisation is committed as a whole exactly when the client is*)
(* told so (run_with_timeout around a session the tools share).            *)
(***************************************************************************)
THEOREM AtomicWithoutTimeouts == SessionSpec => []AtomicUnlessAbandoned
<1>1. IInv => AtomicUnlessAbandoned
    BY DEF IInv, TypeOK, Progress, AtomicUnlessAbandoned, WorkersAreIsolated
<1> QED
    BY <1>1, Inductive, PTL

(***************************************************************************)
(* For every number of tool calls: without a timeout only a document read  *)
(* can leave the session unusable for the request's own writes (the        *)
(* searches roll back, get_knowledge_document does not).                   *)
(***************************************************************************)
THEOREM OnlyDocumentReadsPoison == SessionSpec => []SearchFailureIsCleaned
<1>1. IInv => SearchFailureIsCleaned
    BY DEF IInv, Aborted, Cause, SearchFailureIsCleaned
<1> QED
    BY <1>1, Inductive, PTL

(***************************************************************************)
(* For every number of tool calls: tools that end in time do not disturb   *)
(* the finalisation of the request whose session they use.                 *)
(***************************************************************************)
THEOREM SessionIsShareable == SessionSpec => []TimelyToolsAreHarmless
BY AtomicWithoutTimeouts, OnlyDocumentReadsPoison, PTL DEF TimelyToolsAreHarmless
=============================================================================
