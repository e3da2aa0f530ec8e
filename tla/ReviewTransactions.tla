-------------------------- MODULE ReviewTransactions --------------------------
(***************************************************************************)
(* The requests that drive the assessment lifecycle, interleaved.          *)
(*                                                                         *)
(* Each request runs AssessmentService.generate_assessment or one method of*)
(* RuntimeGovernanceService in a thread of its own, with a request-scoped  *)
(* SQLAlchemy session (autoflush and expire_on_commit off) on PostgreSQL at*)
(* READ COMMITTED.  Flushed writes are invisible to others until commit, so*)
(* a request keeps them as its own pending row, checkpoint and events.  A  *)
(* review first reads the assessment row without a lock, only to see that  *)
(* it exists, then the checkpoint row with SELECT ... FOR UPDATE; the      *)
(* identity map is weak and the repositories hand out copies, so each      *)
(* mark_... reads its row again.                                           *)
(*                                                                         *)
(* Faults: the database fails a transaction (rollback), the acknowledgement*)
(* of a commit is lost, the server process dies; a deployment changes the  *)
(* settings new requests run with.                                         *)
(*                                                                         *)
(* A definition introduced by "Faulty variant" is the definition after it  *)
(* with a plausible mistake; the specification does not use it.            *)
(***************************************************************************)
EXTENDS ReviewTables, FiniteSets

CONSTANTS
    Requests,    \* request slots: how many requests run at the same time
    Settings,    \* the deployments: records [gate : BOOLEAN, max : Nat]
    NoRequest,   \* nobody holds the row lock
    MaxFaults,   \* bound on the number of faults
    MaxDeploys   \* bound on the number of deployments

ASSUME SettingsAssumption ==
    Settings \subseteq [gate : BOOLEAN, max : 0..MaxHumanRevisions]
ASSUME RequestAssumption == NoRequest \notin Requests
ASSUME BoundAssumption == MaxFaults \in Nat /\ MaxDeploys \in Nat

VARIABLES
    assessments, \* committed assessments rows, with the execution column
    states,      \* committed assessment_runtime_states rows
    events,      \* committed human_review_events rows
    lock,        \* id -> the request holding the checkpoint row lock
    requests,    \* request -> its progress, session and pending writes
    settings,    \* the settings the next request will run with
    exported,    \* operational telemetry that left the process
    faults,      \* faults so far
    deploys      \* deployments so far

tables == <<assessments, states, events>>
vars == <<assessments, states, events, lock, requests, settings, exported, faults,
          deploys>>

-----------------------------------------------------------------------------
(* The assessments row with its execution_metadata column; the metadata of  *)
(* the execution that produced candidate c is named by c.                   *)
WithExecution(row, execution) ==
    [status |-> row.status, result |-> row.result, error |-> row.error,
     execution |-> execution]

FullRow == [status : AssessmentStatus, result : Payload, error : ErrorCodes,
            execution : Payload]

NoFullRow == WithExecution(NoRow, NoCandidate)

ReviewKinds == {"approve", "reject", "request_revision", "resume_revision"}

Answers == {"ok", "conflict", "not_found", "error"}

Idle == [kind |-> "none", at |-> "idle", id |-> NoRequest,
         config |-> [gate |-> FALSE, max |-> 0],
         row |-> NoFullRow, state |-> NoState, event |-> <<>>]

Export(id, s) == [id |-> id, review |-> s.review, revision |-> s.revision]

(* End of the request: the session is closed, which ends its transaction.   *)
Answer(r, answer) ==
    /\ requests' = [requests EXCEPT ![r] =
            [Idle EXCEPT !.kind = requests[r].kind, !.id = requests[r].id,
                         !.at = answer]]
    /\ lock' = [id \in Ids |-> IF lock[id] = r THEN NoRequest ELSE lock[id]]

(* Faulty variant: the review events are not part of the transaction. *)
ApplyWithoutEvents(q) ==
    /\ assessments' = [assessments EXCEPT ![q.id] = q.row]
    /\ states' = [states EXCEPT ![q.id] = q.state]
    /\ UNCHANGED events

(* commit: the pending writes become visible. *)
Apply(q) ==
    /\ assessments' = [assessments EXCEPT ![q.id] = q.row]
    /\ states' = [states EXCEPT ![q.id] = q.state]
    /\ events' = [events EXCEPT ![q.id] = @ \o q.event]

-----------------------------------------------------------------------------
(* generate_assessment                                                     *)

(* A fresh uuid4 row, committed as pending. *)
CreateAssessment(r, id) ==
    /\ requests[r].at = "idle"
    /\ assessments[id].status = "absent"
    /\ assessments' = [assessments EXCEPT ![id] = WithExecution(create, NoCandidate)]
    /\ requests' = [requests EXCEPT ![r] =
            [Idle EXCEPT !.kind = "generate", !.at = "created", !.id = id,
                         !.config = settings]]
    /\ UNCHANGED <<states, events, lock, settings, exported, faults, deploys>>

MarkProcessing(r) ==
    LET q == requests[r] IN
    /\ q.at = "created"
    /\ assessments' = [assessments EXCEPT ![q.id] =
            mark_processing(assessments[q.id])]
    /\ requests' = [requests EXCEPT ![r].at = "generating"]
    /\ UNCHANGED <<states, events, lock, settings, exported, faults, deploys>>

(* The workflow returned a candidate and the gate decided: the writes of    *)
(* process_candidate are flushed and its telemetry is exported, before the  *)
(* commit.  _export_telemetry swallows the exporter's errors, so a failed   *)
(* export changes nothing else; exported over-approximates what arrives.    *)
GenerateGated(r, c, d) ==
    LET q == requests[r]
        s == GatedState(c, d, 0, q.config.max) IN
    /\ q.at = "generating"
    /\ q.config.gate
    /\ requests' = [requests EXCEPT ![r] =
            [q EXCEPT !.at = "committing",
                      !.row = WithExecution(GatedRow(c, d),
                                IF d = "block_and_escalate" THEN NoCandidate ELSE c),
                      !.state = s,
                      !.event = RequestEvents(d)]]
    /\ exported' = exported \cup {Export(q.id, s)}
    /\ UNCHANGED <<tables, lock, settings, faults, deploys>>

GenerateUngated(r, c) ==
    LET q == requests[r] IN
    /\ q.at = "generating"
    /\ ~q.config.gate
    /\ requests' = [requests EXCEPT ![r] =
            [q EXCEPT !.at = "committing",
                      !.row = WithExecution(mark_completed(c), c)]]
    /\ UNCHANGED <<tables, lock, settings, exported, faults, deploys>>

(* Faulty variant: the error is re-raised without _persist_failure. *)
GenerationFailsUnpersisted(r) ==
    /\ requests[r].at = "generating"
    /\ Answer(r, "error")
    /\ UNCHANGED <<tables, settings, exported, faults, deploys>>

(* Generation raised: mark_failed is flushed, the error is re-raised after  *)
(* the commit.                                                              *)
GenerationFails(r) ==
    LET q == requests[r] IN
    /\ q.at = "generating"
    /\ requests' = [requests EXCEPT ![r] =
            [q EXCEPT !.at = "persist_failure",
                      !.row = WithExecution(mark_failed("generation_failed"),
                                            NoCandidate)]]
    /\ UNCHANGED <<tables, lock, settings, exported, faults, deploys>>

PersistFailure(r) ==
    /\ requests[r].at = "persist_failure"
    /\ Apply(requests[r])
    /\ Answer(r, "error")
    /\ UNCHANGED <<settings, exported, faults, deploys>>

CommitGeneration(r) ==
    /\ requests[r].at = "committing"
    /\ requests[r].kind = "generate"
    /\ Apply(requests[r])
    /\ Answer(r, "ok")
    /\ UNCHANGED <<settings, exported, faults, deploys>>

-----------------------------------------------------------------------------
(* approve, reject, request_revision, resume_revision                      *)

(* _required_assessment: an unlocked read.                                  *)
BeginReview(r, kind, id) ==
    /\ requests[r].at = "idle"
    /\ requests' = [requests EXCEPT ![r] =
            [Idle EXCEPT !.kind = kind, !.id = id,
                !.at = IF assessments[id].status = "absent"
                       THEN "not_found" ELSE "reading_state",
                !.config = settings]]
    /\ UNCHANGED <<tables, lock, settings, exported, faults, deploys>>

(* get_state without a row: RuntimeStateNotFoundError. *)
StateMissing(r) ==
    /\ requests[r].at = "reading_state"
    /\ ~Exists(states[requests[r].id])
    /\ Answer(r, "not_found")
    /\ UNCHANGED <<tables, settings, exported, faults, deploys>>

(* Faulty variant: a plain SELECT. *)
LocksStateUnlocked(r) ==
    /\ requests[r].at = "reading_state"
    /\ Exists(states[requests[r].id])

(* SELECT ... FOR UPDATE waits until the row is unlocked and returns the    *)
(* version that is committed then.                                          *)
LocksState(r) ==
    /\ requests[r].at = "reading_state"
    /\ Exists(states[requests[r].id])
    /\ lock[requests[r].id] = NoRequest

MayReview(kind, s) ==
    CASE kind = "approve"          -> MayApprove(s)
      [] kind = "reject"           -> MayReject(s)
      [] kind = "request_revision" -> MayRequestRevision(s)
      [] kind = "resume_revision"  -> MayResume(s)

(* Faulty variant: the session stays open after the error. *)
RefuseReviewHoldingLock(r) ==
    /\ LocksState(r)
    /\ ~MayReview(requests[r].kind, states[requests[r].id])
    /\ requests' = [requests EXCEPT ![r].at = "conflict"]
    /\ lock' = [lock EXCEPT ![requests[r].id] = r]
    /\ UNCHANGED <<tables, settings, exported, faults, deploys>>

(* InvalidReviewTransitionError or RevisionLimitReachedError (a checkpoint   *)
(* without a candidate, PersistenceError in approve, never exists).         *)
RefuseReview(r) ==
    /\ LocksState(r)
    /\ ~MayReview(requests[r].kind, states[requests[r].id])
    /\ Answer(r, "conflict")
    /\ UNCHANGED <<tables, settings, exported, faults, deploys>>

(* Flush the writes of a review under the row lock. *)
FlushReview(r, row, s, event) ==
    /\ requests' = [requests EXCEPT ![r].at = "committing", ![r].row = row,
                                    ![r].state = s, ![r].event = <<event>>]
    /\ lock' = [lock EXCEPT ![requests[r].id] = r]

(* Faulty variant: the checkpoint's execution metadata is not passed on. *)
WriteApprovalWithoutExecution(r) ==
    LET s == states[requests[r].id] IN
    /\ LocksState(r)
    /\ requests[r].kind = "approve"
    /\ MayApprove(s)
    /\ FlushReview(r, WithExecution(mark_completed(s.candidate), NoCandidate),
                   Decided(s, "approved"), DecisionEvent(s, "approved"))
    /\ UNCHANGED <<tables, settings, exported, faults, deploys>>

WriteApproval(r) ==
    LET s == states[requests[r].id] IN
    /\ LocksState(r)
    /\ requests[r].kind = "approve"
    /\ MayApprove(s)
    /\ FlushReview(r, WithExecution(mark_completed(s.candidate), s.candidate),
                   Decided(s, "approved"), DecisionEvent(s, "approved"))
    /\ UNCHANGED <<tables, settings, exported, faults, deploys>>

(* Faulty variant: the telemetry is exported before the commit. *)
WriteRejectionExportingFirst(r) ==
    LET s == states[requests[r].id] IN
    /\ LocksState(r)
    /\ requests[r].kind = "reject"
    /\ MayReject(s)
    /\ FlushReview(r, WithExecution(mark_failed("human_review_rejected"), NoCandidate),
                   Decided(s, "rejected"), DecisionEvent(s, "rejected"))
    /\ exported' = exported \cup {Export(requests[r].id, Decided(s, "rejected"))}
    /\ UNCHANGED <<tables, settings, faults, deploys>>

WriteRejection(r) ==
    LET s == states[requests[r].id] IN
    /\ LocksState(r)
    /\ requests[r].kind = "reject"
    /\ MayReject(s)
    /\ FlushReview(r, WithExecution(mark_failed("human_review_rejected"), NoCandidate),
                   Decided(s, "rejected"), DecisionEvent(s, "rejected"))
    /\ UNCHANGED <<tables, settings, exported, faults, deploys>>

WriteRevisionRequest(r) ==
    LET s == states[requests[r].id] IN
    /\ LocksState(r)
    /\ requests[r].kind = "request_revision"
    /\ MayRequestRevision(s)
    /\ FlushReview(r, assessments[requests[r].id],
                   RevisionRequested(s), RevisionRequestEvent(s))
    /\ UNCHANGED <<tables, settings, exported, faults, deploys>>

(* resume_revision: process_candidate flushes and exports once before the   *)
(* commit; a limit lowered below the revision count breaks the check        *)
(* constraint at the flush, before any export.                              *)
WriteResume(r, c, d) ==
    LET q == requests[r]
        s == states[q.id]
        new == Resumed(s, c, d, q.config.max) IN
    /\ LocksState(r)
    /\ q.kind = "resume_revision"
    /\ MayResume(s)
    /\ IF RevisionBounds(new)
       THEN /\ FlushReview(r, WithExecution(GatedRow(c, d),
                                IF d = "block_and_escalate" THEN NoCandidate ELSE c),
                           new, ResumeEvent(s, d))
            /\ exported' = exported \cup {Export(q.id, new)}
       ELSE /\ Answer(r, "error")
            /\ UNCHANGED exported
    /\ UNCHANGED <<tables, settings, faults, deploys>>

(* Faulty variant: the writes are flushed, never committed. *)
CommitReviewFlushOnly(r) ==
    /\ requests[r].at = "committing"
    /\ requests[r].kind \in ReviewKinds
    /\ requests' = [requests EXCEPT ![r].at = "exporting"]
    /\ lock' = [lock EXCEPT ![requests[r].id] = NoRequest]
    /\ UNCHANGED <<tables, settings, exported, faults, deploys>>

CommitReview(r) ==
    /\ requests[r].at = "committing"
    /\ requests[r].kind \in ReviewKinds
    /\ Apply(requests[r])
    /\ requests' = [requests EXCEPT ![r].at = "exporting"]
    /\ lock' = [lock EXCEPT ![requests[r].id] = NoRequest]
    /\ UNCHANGED <<settings, exported, faults, deploys>>

(* _export_telemetry after the commit, then the response. *)
ExportReview(r) ==
    LET q == requests[r] IN
    /\ q.at = "exporting"
    /\ exported' = exported \cup {Export(q.id, q.state)}
    /\ Answer(r, "ok")
    /\ UNCHANGED <<tables, settings, faults, deploys>>

(* The client has its answer; the slot serves another request. *)
Done(r) ==
    /\ requests[r].at \in Answers
    /\ requests' = [requests EXCEPT ![r] = Idle]
    /\ UNCHANGED <<tables, lock, settings, exported, faults, deploys>>

-----------------------------------------------------------------------------
(* Faults and deployments                                                  *)

Fault ==
    /\ faults < MaxFaults
    /\ faults' = faults + 1

(* A statement or the commit raises SQLAlchemyError: rollback, error reply. *)
DatabaseFails(r) ==
    /\ Fault
    /\ requests[r].at \in {"created", "persist_failure", "committing", "reading_state"}
    /\ Answer(r, "error")
    /\ UNCHANGED <<tables, settings, exported, deploys>>

(* The commit took effect but the connection broke before it was confirmed. *)
AcknowledgementLost(r) ==
    /\ Fault
    /\ requests[r].at \in {"persist_failure", "committing"}
    /\ Apply(requests[r])
    /\ Answer(r, "error")
    /\ UNCHANGED <<settings, exported, deploys>>

(* The server process dies; the database rolls its transaction back. *)
Crash(r) ==
    /\ Fault
    /\ requests[r].at \notin Answers \cup {"idle"}
    /\ requests' = [requests EXCEPT ![r] = Idle]
    /\ lock' = [id \in Ids |-> IF lock[id] = r THEN NoRequest ELSE lock[id]]
    /\ UNCHANGED <<tables, settings, exported, deploys>>

(* New requests run with other settings; running ones keep theirs. *)
Redeploy ==
    /\ deploys < MaxDeploys
    /\ deploys' = deploys + 1
    /\ settings' \in Settings \ {settings}
    /\ UNCHANGED <<tables, lock, requests, exported, faults>>

-----------------------------------------------------------------------------
Init ==
    /\ assessments = [id \in Ids |-> NoFullRow]
    /\ states = [id \in Ids |-> NoState]
    /\ events = [id \in Ids |-> <<>>]
    /\ lock = [id \in Ids |-> NoRequest]
    /\ requests = [r \in Requests |-> Idle]
    /\ settings \in Settings
    /\ exported = {}
    /\ faults = 0
    /\ deploys = 0

(* A step the server takes by itself once the request has arrived. *)
Step(r) ==
    \/ MarkProcessing(r)
    \/ \E c \in Candidates :
        \/ GenerateUngated(r, c)
        \/ \E d \in RuntimeRiskDecision : GenerateGated(r, c, d) \/ WriteResume(r, c, d)
    \/ GenerationFails(r) \/ PersistFailure(r) \/ CommitGeneration(r)
    \/ StateMissing(r) \/ RefuseReview(r)
    \/ WriteApproval(r) \/ WriteRejection(r) \/ WriteRevisionRequest(r)
    \/ CommitReview(r) \/ ExportReview(r)
    \/ Done(r)

Arrive(r) ==
    \E id \in Ids :
        \/ CreateAssessment(r, id)
        \/ \E kind \in ReviewKinds : BeginReview(r, kind, id)

Next ==
    \/ \E r \in Requests :
        \/ Arrive(r) \/ Step(r)
        \/ DatabaseFails(r) \/ AcknowledgementLost(r) \/ Crash(r)
    \/ Redeploy

Spec == Init /\ [][Next]_vars

(* Every call a request makes is bounded: model, embedding and tool calls   *)
(* have timeouts and bounded retries, and PostgreSQL grants row locks in    *)
(* the order they were asked for.  Arrivals, faults and deployments are not *)
(* fair.                                                                    *)
FairSpec == Spec /\ \A r \in Requests : WF_vars(Step(r))

(* The trusted revision path also keeps trying to resume. *)
ResumeSpec ==
    /\ FairSpec
    /\ \A id \in Ids, r \in Requests : SF_vars(BeginReview(r, "resume_revision", id))

-----------------------------------------------------------------------------
(* Properties.                                                             *)

(***************************************************************************)
(* The interleaved requests implement the lifecycle of ReviewLifecycle:    *)
(* seen through the columns it speaks of, every commit is one of its       *)
(* transactions and every other step changes nothing.                      *)
(***************************************************************************)
Lifecycle == INSTANCE ReviewLifecycle WITH
    assessments <- [id \in Ids |-> [status |-> assessments[id].status,
                                    result |-> assessments[id].result,
                                    error  |-> assessments[id].error]]

RefinesLifecycle == Lifecycle!Spec

(***************************************************************************)
(* What _required_pending_state checked is still true at the commit: while *)
(* a review waits to commit, no other request can have moved the checkpoint*)
(* it was computed from.                                                   *)
(***************************************************************************)
CheckedStateIsCurrent ==
    \A r \in Requests :
        (/\ requests[r].at = "committing"
         /\ requests[r].kind \in ReviewKinds) =>
            /\ lock[requests[r].id] = r
            /\ MayReview(requests[r].kind, states[requests[r].id])

(***************************************************************************)
(* A reviewer who is told "approved" or "rejected" finds exactly that in   *)
(* the tables, whatever the other requests do afterwards.                  *)
(***************************************************************************)
AnswerIsDurable ==
    \A r \in Requests :
        LET q == requests[r] IN
        q.at = "ok" =>
            /\ q.kind = "approve" =>
                /\ assessments[q.id].status = "completed"
                /\ states[q.id].review = "approved"
            /\ q.kind = "reject" =>
                /\ assessments[q.id].error = "human_review_rejected"
                /\ states[q.id].review = "rejected"
            /\ q.kind = "generate" =>
                assessments[q.id].status \notin {"absent", "pending", "processing"}

(***************************************************************************)
(* Telemetry that reports a reviewer's action left the process only after  *)
(* that action was committed to the audit history, although process and    *)
(* database may fail between any two steps.                                *)
(***************************************************************************)
ReviewExportIsCommitted ==
    \A x \in exported :
        x.review \in {"approved", "rejected", "revision_requested"} =>
            \E i \in 1..Len(events[x.id]) :
                /\ events[x.id][i].new = x.review
                /\ events[x.id][i].revision = x.revision

(***************************************************************************)
(* The execution metadata a client sees belongs to what the row shows: to  *)
(* the run that produced the result of a completed assessment, to the      *)
(* candidate under review, and to nothing once the assessment failed       *)
(* ("Persist only safe failure metadata"), although a revision may replace *)
(* candidate and metadata between a reviewer's read and the decision.      *)
(***************************************************************************)
ExecutionMatchesResult ==
    \A id \in Ids :
        LET row == assessments[id] IN
        /\ row.status = "completed" => row.execution = row.result
        /\ row.status = "pending_review" => row.execution = states[id].candidate
        /\ row.status = "failed" => row.execution = NoCandidate

(***************************************************************************)
(* No request waits forever: each one is answered or dies with its process,*)
(* also when it queues for the checkpoint lock of another.                 *)
(***************************************************************************)
RequestsAreAnswered ==
    \A r \in Requests :
        requests[r].at # "idle" ~> requests[r].at \in Answers \cup {"idle"}

(***************************************************************************)
(* An assessment does not stay pending or processing, unless a fault hit   *)
(* the system: nothing sweeps rows whose request was lost.                 *)
(***************************************************************************)
GenerationSettles ==
    \A id \in Ids :
        assessments[id].status \in {"pending", "processing"} ~>
            (assessments[id].status \notin {"pending", "processing"} \/ faults > 0)

(***************************************************************************)
(* A requested revision can be resumed: while the trusted revision path    *)
(* keeps submitting candidates, the checkpoint leaves revision_requested.  *)
(***************************************************************************)
RevisionsResume ==
    \A id \in Ids :
        states[id].review = "revision_requested" ~>
            states[id].review # "revision_requested"
=============================================================================
