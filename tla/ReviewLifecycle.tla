--------------------------- MODULE ReviewLifecycle ---------------------------
(***************************************************************************)
(* The promise of the assessment lifecycle: what the three tables          *)
(* assessments, assessment_runtime_states and human_review_events may look *)
(* like after each COMMITTED transaction of AssessmentService and          *)
(* RuntimeGovernanceService.                                               *)
(*                                                                         *)
(* One action is one committed transaction.  A transaction that fails is   *)
(* rolled back and is a stuttering step here; how requests interleave, wait*)
(* for locks, crash and roll back is the subject of ReviewTransactions,    *)
(* which is shown to implement this module.                                *)
(*                                                                         *)
(* The gate's decision is an input: any decision of the gate is possible   *)
(* for some candidate (module RuntimeGate computes it).  Every server      *)
(* instance runs with its own settings, so max_human_revisions is an input *)
(* of the transactions that store it.                                      *)
(***************************************************************************)
EXTENDS ReviewTables

VARIABLES
    assessments, \* table assessments: id -> row
    states,      \* table assessment_runtime_states: id -> row
    events       \* table human_review_events: id -> rows in creation order

vars == <<assessments, states, events>>

-----------------------------------------------------------------------------
HasState(id) == Exists(states[id])

Final == {"completed", "failed"}

Init ==
    /\ assessments = [id \in Ids |-> NoRow]
    /\ states = [id \in Ids |-> NoState]
    /\ events = [id \in Ids |-> <<>>]

(* generate_assessment, first transaction: the pending row. *)
Create(id) ==
    /\ assessments[id].status = "absent"
    /\ assessments' = [assessments EXCEPT ![id] = create]
    /\ UNCHANGED <<states, events>>

(* generate_assessment, second transaction. *)
MarkProcessing(id) ==
    /\ assessments[id].status = "pending"
    /\ assessments' = [assessments EXCEPT ![id] = mark_processing(assessments[id])]
    /\ UNCHANGED <<states, events>>

(* generate_assessment when generation raised: _persist_failure. *)
PersistFailure(id) ==
    /\ assessments[id].status = "processing"
    /\ assessments' = [assessments EXCEPT ![id] = mark_failed("generation_failed")]
    /\ UNCHANGED <<states, events>>

(* generate_assessment with RUNTIME_RISK_GATE_ENABLED=false. *)
CompleteUngated(id, c) ==
    /\ assessments[id].status = "processing"
    /\ assessments' = [assessments EXCEPT ![id] = mark_completed(c)]
    /\ UNCHANGED <<states, events>>

(* generate_assessment with the gate: process_candidate and the commit. *)
ProcessCandidate(id, c, d, max) ==
    /\ assessments[id].status = "processing"
    /\ assessments' = [assessments EXCEPT ![id] = GatedRow(c, d)]
    /\ states' = [states EXCEPT ![id] = GatedState(c, d, 0, max)]
    /\ events' = [events EXCEPT ![id] = @ \o RequestEvents(d)]

Approve(id) ==
    /\ MayApprove(states[id])
    /\ assessments' =
        [assessments EXCEPT ![id] = mark_completed(states[id].candidate)]
    /\ states' = [states EXCEPT ![id] = Decided(states[id], "approved")]
    /\ events' = [events EXCEPT ![id] =
                    Append(@, DecisionEvent(states[id], "approved"))]

(* Faulty variant: mark_failed is forgotten. *)
RejectStateOnly(id) ==
    /\ MayReject(states[id])
    /\ states' = [states EXCEPT ![id] = Decided(states[id], "rejected")]
    /\ events' = [events EXCEPT ![id] =
                    Append(@, DecisionEvent(states[id], "rejected"))]
    /\ UNCHANGED assessments

Reject(id) ==
    /\ MayReject(states[id])
    /\ assessments' =
        [assessments EXCEPT ![id] = mark_failed("human_review_rejected")]
    /\ states' = [states EXCEPT ![id] = Decided(states[id], "rejected")]
    /\ events' = [events EXCEPT ![id] =
                    Append(@, DecisionEvent(states[id], "rejected"))]

RequestRevision(id) ==
    /\ MayRequestRevision(states[id])
    /\ states' = [states EXCEPT ![id] = RevisionRequested(states[id])]
    /\ events' = [events EXCEPT ![id] =
                    Append(@, RevisionRequestEvent(states[id]))]
    /\ UNCHANGED assessments

(* resume_revision: the trusted path submits a regenerated candidate. *)
ResumeRevision(id, c, d, max) ==
    /\ MayResume(states[id])
    /\ RevisionBounds(Resumed(states[id], c, d, max))
    /\ assessments' = [assessments EXCEPT ![id] = GatedRow(c, d)]
    /\ states' = [states EXCEPT ![id] = Resumed(states[id], c, d, max)]
    /\ events' = [events EXCEPT ![id] = Append(@, ResumeEvent(states[id], d))]

Generation(id) ==
    \/ Create(id)
    \/ MarkProcessing(id)
    \/ PersistFailure(id)
    \/ \E c \in Candidates :
        \/ CompleteUngated(id, c)
        \/ \E d \in RuntimeRiskDecision, max \in 0..MaxHumanRevisions :
                ProcessCandidate(id, c, d, max)

Review(id) ==
    \/ Approve(id)
    \/ Reject(id)
    \/ RequestRevision(id)
    \/ \E c \in Candidates, d \in RuntimeRiskDecision,
          max \in 0..MaxHumanRevisions : ResumeRevision(id, c, d, max)

Next == \E id \in Ids : Generation(id) \/ Review(id)

Spec == Init /\ [][Next]_vars

-----------------------------------------------------------------------------
(* get_revision_feedback: the newest revision_requested event that carries  *)
(* the current revision number; the empty set is the PersistenceError.      *)
FeedbackIndexes(id) ==
    {i \in 1..Len(events[id]) :
        /\ events[id][i].action = "revision_requested"
        /\ events[id][i].revision = states[id].revision}

-----------------------------------------------------------------------------
(* Properties.                                                             *)

TypeOK ==
    /\ assessments \in [Ids -> AssessmentRow]
    /\ states \in [Ids -> StateRow]
    /\ events \in [Ids -> Seq(Event)]

(***************************************************************************)
(* The checkpoint is "sufficient to resume finalization": it is written in *)
(* the transaction that settles the generation, never earlier, it always   *)
(* holds the candidate a reviewer may approve, and an assessment without   *)
(* one has no review history.                                              *)
(***************************************************************************)
CheckpointIsComplete ==
    \A id \in Ids :
        /\ assessments[id].status \in {"absent", "pending", "processing"} => ~HasState(id)
        /\ HasState(id) => states[id].candidate \in Candidates
        /\ ~HasState(id) => states[id] = NoState /\ events[id] = <<>>

(***************************************************************************)
(* No result without a decision: the public result of an assessment (the   *)
(* column mark_completed fills) is null unless the gate was off, the gate  *)
(* itself completed this very candidate, or the last review event is an    *)
(* approval and the result is the candidate in the checkpoint ("Approval   *)
(* finalizes the exact persisted validated candidate").                    *)
(***************************************************************************)
ResultIsDecided ==
    \A id \in Ids :
        /\ assessments[id].result # NoCandidate => assessments[id].status = "completed"
        /\ assessments[id].status = "completed" =>
            /\ assessments[id].result # NoCandidate
            /\ HasState(id) =>
                /\ assessments[id].result = states[id].candidate
                /\ \/ /\ states[id].decision \in AutoDecisions
                      /\ states[id].review = "not_required"
                   \/ /\ states[id].review = "approved"
                      /\ events[id] # <<>>
                      /\ events[id][Len(events[id])].action = "approved"

(***************************************************************************)
(* The two tables the reviewer's queue joins agree: an assessment is       *)
(* pending_review exactly while its checkpoint waits for a reviewer or for *)
(* a revision, and a failed row names the cause its checkpoint shows.      *)
(***************************************************************************)
TablesAgree ==
    \A id \in Ids :
        /\ (assessments[id].status = "pending_review") <=>
              (HasState(id) /\ states[id].review \in {"pending", "revision_requested"})
        /\ (assessments[id].status = "failed") <=> (assessments[id].error # "none")
        /\ (assessments[id].error = "human_review_rejected") <=>
              (HasState(id) /\ states[id].review = "rejected")
        /\ (assessments[id].error = "runtime_risk_gate_blocked") <=>
              (states[id].decision = "block_and_escalate")

(***************************************************************************)
(* The three tables tell one story after every transaction: a complete     *)
(* checkpoint, and a public status and error code that match it.           *)
(***************************************************************************)
CheckpointMatchesRow == CheckpointIsComplete /\ TablesAgree

(***************************************************************************)
(* The audit history explains the checkpoint: it starts with the gate's    *)
(* request, each event starts from the status the event before it left,    *)
(* and the last one leaves the status the checkpoint holds.                *)
(***************************************************************************)
AuditChain ==
    \A id \in Ids :
        /\ events[id] = <<>> => states[id].review = "not_required"
        /\ events[id] # <<>> =>
            /\ events[id][1].action = "requested"
            /\ events[id][1].previous = "not_required"
            /\ events[id][Len(events[id])].new = states[id].review
            /\ \A i \in 1..(Len(events[id]) - 1) :
                    events[id][i].new = events[id][i + 1].previous

(***************************************************************************)
(* The bounded revision counter is the audit history's own count: it never *)
(* passes the stored limit, each revision up to it was requested by exactly*)
(* one event, and no event speaks of a later revision.                     *)
(***************************************************************************)
RevisionLedger ==
    \A id \in Ids :
        /\ RevisionBounds(states[id])
        /\ \A n \in 1..states[id].revision :
            \E i \in 1..Len(events[id]) :
                /\ events[id][i].action = "revision_requested"
                /\ events[id][i].revision = n
        /\ \A i, j \in 1..Len(events[id]) :
            (/\ events[id][i].action = "revision_requested"
             /\ events[id][j].action = "revision_requested"
             /\ events[id][i].revision = events[id][j].revision) => i = j
        /\ \A i \in 1..Len(events[id]) :
            events[id][i].revision <= states[id].revision

(***************************************************************************)
(* get_revision_feedback always finds the feedback while a revision is     *)
(* requested, and it is the last thing that happened to the assessment.    *)
(***************************************************************************)
FeedbackIsLatest ==
    \A id \in Ids :
        states[id].review = "revision_requested" =>
            FeedbackIndexes(id) = {Len(events[id])}

(***************************************************************************)
(* The append-only history explains the mutable checkpoint: its status,    *)
(* its revision count and the feedback resume_revision works from can all  *)
(* be read off the events of the assessment.                               *)
(***************************************************************************)
HistoryExplains == AuditChain /\ RevisionLedger /\ FeedbackIsLatest

(***************************************************************************)
(* A final decision stays: once an assessment is completed or failed, no   *)
(* later transaction touches its row, its checkpoint or its history.       *)
(***************************************************************************)
DecisionIsFinal ==
    [][\A id \in Ids :
        assessments[id].status \in Final =>
            /\ assessments'[id] = assessments[id]
            /\ states'[id] = states[id]
            /\ events'[id] = events[id]]_vars

(***************************************************************************)
(* human_review_events is append-only: a transaction adds at most one event*)
(* and changes none, and the checkpoint's review status never moves without*)
(* an event.                                                               *)
(***************************************************************************)
HistoryOnlyGrows ==
    [][\A id \in Ids :
        /\ Len(events'[id]) \in {Len(events[id]), Len(events[id]) + 1}
        /\ \A i \in 1..Len(events[id]) : events'[id][i] = events[id][i]
        /\ states'[id].review # states[id].review =>
                Len(events'[id]) = Len(events[id]) + 1]_vars

(***************************************************************************)
(* The record stands: whatever sequence of generations and reviews commits,*)
(* a final decision is never reopened or rewritten, and what led to it     *)
(* stays in human_review_events as it was written.                         *)
(***************************************************************************)
RecordStands == DecisionIsFinal /\ HistoryOnlyGrows
=============================================================================
