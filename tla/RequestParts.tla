----------------------------- MODULE RequestParts ------------------------------
(***************************************************************************)
(* The computations requests are made of, each on state of its own: an     *)
(* assessment is routed and dispatched (Execution), a request calls its    *)
(* providers (ModelCalls), the knowledge base is searched (Retrieval), a   *)
(* document is cut into chunks (Chunking), the candidate passes the gate   *)
(* (RuntimeGate), and before any of them the request is admitted           *)
(* (Admission).  One behaviour is one of them.                             *)
(* They meet only in values: ModelCalls embeds any number of texts, hence  *)
(* the chunks Chunking makes or the query of a search; Retrieval and       *)
(* KnowledgeBase take embed_texts to return or to fail; Execution takes a  *)
(* search to return any evidence, and a call any of its outcomes; the gate *)
(* takes any candidate with any evidence and provenance.                   *)
(***************************************************************************)
EXTENDS Chunking, ModelCalls, Retrieval, Execution, RuntimeGate, Admission

partVars == <<chunkVars, callVars, searchVars, executionVars, gateVars, admissionVars>>

PartInit ==
    \/ ChunkBegin /\ CallIdle /\ SearchIdle /\ ExecutionIdle /\ GateIdle /\ AdmissionIdle
    \/ ChunkIdle /\ CallBegin /\ SearchIdle /\ ExecutionIdle /\ GateIdle /\ AdmissionIdle
    \/ ChunkIdle /\ CallIdle /\ SearchBegin /\ ExecutionIdle /\ GateIdle /\ AdmissionIdle
    \/ ChunkIdle /\ CallIdle /\ SearchIdle /\ ExecutionBegin /\ GateIdle /\ AdmissionIdle
    \/ ChunkIdle /\ CallIdle /\ SearchIdle /\ ExecutionIdle /\ GateBegin /\ AdmissionIdle
    \/ ChunkIdle /\ CallIdle /\ SearchIdle /\ ExecutionIdle /\ GateIdle /\ AdmissionBegin

PartNext ==
    \/ ChunkNext /\ UNCHANGED <<callVars, searchVars, executionVars, gateVars, admissionVars>>
    \/ CallNext /\ UNCHANGED <<chunkVars, searchVars, executionVars, gateVars, admissionVars>>
    \/ SearchNext /\ UNCHANGED <<chunkVars, callVars, executionVars, gateVars, admissionVars>>
    \/ ExecutionNext /\ UNCHANGED <<chunkVars, callVars, searchVars, gateVars, admissionVars>>
    \/ GateNext /\ UNCHANGED <<chunkVars, callVars, searchVars, executionVars, admissionVars>>
    \/ AdmissionNext /\ UNCHANGED <<chunkVars, callVars, searchVars, executionVars, gateVars>>

PartSpec == PartInit /\ [][PartNext]_partVars
=============================================================================
