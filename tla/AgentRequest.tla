----------------------------- MODULE AgentRequest -----------------------------
(***************************************************************************)
(* A request in single-agent mode, seen from two sides: the workflow with  *)
(* its limits and its registry (SingleAgentWorkflow), to which a tool call *)
(* is one step, and the database session under it (ToolSession), on which  *)
(* the workers of the tools and the finalisation meet.  One behaviour is   *)
(* one of them.  They meet only in values: a tool call of the workflow     *)
(* returns or fails with any of its outcomes, and the session sees any     *)
(* number of calls up to MaxCalls.                                         *)
(***************************************************************************)
EXTENDS SingleAgentWorkflow, ToolSession

RequestVars == <<vars, sessionVars>>

AgentInit == (Init /\ SessionIdle) \/ (WorkflowIdle /\ SessionInit)

WorkflowStep == Next /\ UNCHANGED sessionVars

ThreadStep == RequestNext /\ UNCHANGED vars

WorkersStep == (\E c \in Calls : WorkerNext(c)) /\ UNCHANGED vars

(* The fairness is that of FairSpec and FairSessionSpec. *)
AgentSpec ==
    /\ AgentInit /\ [][WorkflowStep \/ ThreadStep \/ WorkersStep]_RequestVars
    /\ WF_RequestVars(WorkflowStep) /\ WF_RequestVars(ThreadStep)
=============================================================================
