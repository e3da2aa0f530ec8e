----------------------------- MODULE ReviewTables -----------------------------
(***************************************************************************)
(* The rows of the tables assessments, assessment_runtime_states and       *)
(* human_review_events, and the values the repositories write into them.   *)
(* Payload columns hold a candidate or NULL; timestamps, texts and reviewer*)
(* identities are left out.                                                *)
(*                                                                         *)
(* A definition introduced by "Faulty variant" is the definition after it  *)
(* with a plausible mistake; the specification does not use it.            *)
(***************************************************************************)
EXTENDS Naturals, Sequences

CONSTANTS
    Ids,              \* assessment ids (uuid4)
    Candidates,       \* validated AssessmentResult payloads
    NoCandidate,      \* SQL NULL in a payload column
    MaxHumanRevisions \* upper limit of the setting max_human_revisions

ASSUME CandidateAssumption == NoCandidate \notin Candidates
ASSUME RevisionAssumption == MaxHumanRevisions \in Nat

-----------------------------------------------------------------------------
(* Columns.  "absent" and "none" stand for a row that is not there.        *)

AssessmentStatus ==
    {"absent", "pending", "processing", "completed", "failed", "pending_review"}

ErrorCodes ==
    {"none", "generation_failed", "runtime_risk_gate_blocked",
     "human_review_rejected"}

AutoDecisions == {"auto_complete", "complete_with_warning"}

RuntimeRiskDecision ==
    AutoDecisions \cup {"require_human_review", "block_and_escalate"}

HumanReviewStatus ==
    {"not_required", "pending", "approved", "rejected", "revision_requested"}

HumanReviewAction ==
    {"requested", "approved", "rejected", "revision_requested",
     "revision_submitted"}

Payload == Candidates \cup {NoCandidate}

AssessmentRow == [status : AssessmentStatus, result : Payload, error : ErrorCodes]

StateRow == [decision  : RuntimeRiskDecision \cup {"none"},
             review    : HumanReviewStatus,
             candidate : Payload,
             revision  : Nat,
             max       : Nat]

Event == [action : HumanReviewAction, previous : HumanReviewStatus,
          new : HumanReviewStatus, revision : Nat]

NoRow == [status |-> "absent", result |-> NoCandidate, error |-> "none"]

NoState == [decision |-> "none", review |-> "not_required",
            candidate |-> NoCandidate, revision |-> 0, max |-> 0]

Exists(s) == s.decision # "none"

-----------------------------------------------------------------------------
(* The rows the repositories write.                                        *)

create == [NoRow EXCEPT !.status = "pending"]

mark_processing(row) == [row EXCEPT !.status = "processing"]

mark_completed(result) ==
    [status |-> "completed", result |-> result, error |-> "none"]

mark_pending_review ==
    [status |-> "pending_review", result |-> NoCandidate, error |-> "none"]

mark_failed(code) ==
    [status |-> "failed", result |-> NoCandidate, error |-> code]

ReviewEvent(action, previous, new, revision) ==
    [action |-> action, previous |-> previous, new |-> new, revision |-> revision]

(* The check constraint revision_bounds of assessment_runtime_states: a     *)
(* flush of a row outside it raises and the transaction is rolled back.     *)
RevisionBounds(s) == s.revision <= s.max

-----------------------------------------------------------------------------
(* process_candidate: what the gate's decision d makes of candidate c.      *)

(* Faulty variant: only a block keeps the result back. *)
GatedRowPublishing(c, d) ==
    IF d = "block_and_escalate" THEN mark_failed("runtime_risk_gate_blocked")
    ELSE mark_completed(c)

GatedRow(c, d) ==
    CASE d = "require_human_review" -> mark_pending_review
      [] d = "block_and_escalate"   -> mark_failed("runtime_risk_gate_blocked")
      [] OTHER                      -> mark_completed(c)

GatedReview(d) ==
    IF d = "require_human_review" THEN "pending" ELSE "not_required"

GatedState(c, d, revision, max) ==
    [decision |-> d, review |-> GatedReview(d), candidate |-> c,
     revision |-> revision, max |-> max]

(* The event of process_candidate with record_review_request.               *)
RequestEvents(d) ==
    IF GatedReview(d) = "pending"
    THEN <<ReviewEvent("requested", "not_required", "pending", 0)>>
    ELSE <<>>

-----------------------------------------------------------------------------
(* The review actions: guard and new values over the checkpoint s.          *)

(* Faulty variant: the status of the checkpoint is not looked at. *)
PendingStateUnchecked(s) == Exists(s)

(* _required_pending_state: the checkpoint exists and waits for a reviewer. *)
PendingState(s) == Exists(s) /\ s.review = "pending"

MayApprove(s) == PendingState(s) /\ s.candidate # NoCandidate

MayReject(s) == PendingState(s)

MayRequestRevision(s) == PendingState(s) /\ s.revision < s.max

(* Faulty variant: the guard of the reviewer's actions. *)
MayResumePending(s) == PendingState(s)

MayResume(s) == Exists(s) /\ s.review = "revision_requested"

(* _persist_transition *)
Decided(s, review) == [s EXCEPT !.review = review]

DecisionEvent(s, review) == ReviewEvent(review, "pending", review, s.revision)

RevisionRequested(s) ==
    [s EXCEPT !.review = "revision_requested", !.revision = @ + 1]

(* Faulty variant: the event carries the count before the increment. *)
RevisionRequestEventStale(s) ==
    ReviewEvent("revision_requested", "pending", "revision_requested", s.revision)

RevisionRequestEvent(s) ==
    ReviewEvent("revision_requested", "pending", "revision_requested",
                s.revision + 1)

(* resume_revision keeps the revision count and takes the limit of the      *)
(* instance that runs the revision.                                         *)
Resumed(s, c, d, max) == GatedState(c, d, s.revision, max)

ResumeEvent(s, d) ==
    ReviewEvent("revision_submitted", s.review, GatedReview(d), s.revision)
=============================================================================
