------------------------ MODULE ReviewLifecycleProofs ------------------------
(***************************************************************************)
(* Proofs about ReviewLifecycle, for every set of ids and candidates and   *)
(* every revision limit, and about the reads of ReviewReads.               *)
(***************************************************************************)
EXTENDS ReviewReads, FiniteSetTheorems, FunctionTheorems, TLAPS

-----------------------------------------------------------------------------
(* Type correctness.                                                       *)

(* The rows and events the transactions write have the types of their      *)
(* tables.                                                                 *)
LEMMA WrittenTypes ==
    /\ NoRow \in AssessmentRow /\ NoState \in StateRow /\ create \in AssessmentRow
    /\ mark_pending_review \in AssessmentRow
    /\ \A row \in AssessmentRow : mark_processing(row) \in AssessmentRow
    /\ \A c \in Candidates : mark_completed(c) \in AssessmentRow
    /\ \A code \in ErrorCodes : mark_failed(code) \in AssessmentRow
    /\ \A c \in Candidates, d \in RuntimeRiskDecision : GatedRow(c, d) \in AssessmentRow
  <1> USE DEF AssessmentRow, AssessmentStatus, ErrorCodes, Payload
  <1>1. NoRow \in AssessmentRow /\ create \in AssessmentRow /\ mark_pending_review \in AssessmentRow
    BY DEF NoRow, create, mark_pending_review
  <1>2. NoState \in StateRow
    BY DEF NoState, StateRow, HumanReviewStatus
  <1>3. \A row \in AssessmentRow : mark_processing(row) \in AssessmentRow
    BY DEF mark_processing
  <1>4. \A c \in Candidates : mark_completed(c) \in AssessmentRow
    BY DEF mark_completed
  <1>5. \A code \in ErrorCodes : mark_failed(code) \in AssessmentRow
    BY DEF mark_failed
  <1>6. \A c \in Candidates, d \in RuntimeRiskDecision : GatedRow(c, d) \in AssessmentRow
    BY <1>1, <1>4, <1>5 DEF GatedRow
  <1> QED BY <1>1, <1>2, <1>3, <1>4, <1>5, <1>6

(* The same for the checkpoints and the events of the gate and of a review. *)
LEMMA ReviewTypes ==
    ASSUME NEW s \in StateRow
    PROVE  /\ Decided(s, "approved") \in StateRow /\ Decided(s, "rejected") \in StateRow
           /\ DecisionEvent(s, "approved") \in Event /\ DecisionEvent(s, "rejected") \in Event
           /\ RevisionRequested(s) \in StateRow /\ RevisionRequestEvent(s) \in Event
           /\ \A c \in Candidates, d \in RuntimeRiskDecision, n, max \in Nat :
                /\ GatedState(c, d, n, max) \in StateRow
                /\ Resumed(s, c, d, max) \in StateRow
                /\ ResumeEvent(s, d) \in Event
                /\ RequestEvents(d) \in Seq(Event)
  <1> USE DEF HumanReviewStatus, HumanReviewAction
  <1>1. Decided(s, "approved") \in StateRow /\ Decided(s, "rejected") \in StateRow
    BY DEF Decided, StateRow
  <1>2. DecisionEvent(s, "approved") \in Event /\ DecisionEvent(s, "rejected") \in Event
    BY DEF DecisionEvent, ReviewEvent, Event, StateRow
  <1>3. s.revision \in Nat /\ s.revision + 1 \in Nat
    BY DEF StateRow
  <1>4. RevisionRequested(s) \in StateRow
    BY <1>3 DEF RevisionRequested, StateRow
  <1>5. RevisionRequestEvent(s) \in Event
    BY <1>3 DEF RevisionRequestEvent, ReviewEvent, Event
  <1>6. \A d \in RuntimeRiskDecision : GatedReview(d) \in {"pending", "not_required"}
    BY DEF GatedReview
  <1>7. \A c \in Candidates, d \in RuntimeRiskDecision, n, max \in Nat :
            GatedState(c, d, n, max) \in StateRow
    BY <1>6 DEF GatedState, StateRow, Payload
  <1>8. \A c \in Candidates, d \in RuntimeRiskDecision, max \in Nat :
            Resumed(s, c, d, max) \in StateRow
    BY <1>3, <1>7 DEF Resumed
  <1>9. \A d \in RuntimeRiskDecision : ResumeEvent(s, d) \in Event
    BY <1>6 DEF ResumeEvent, ReviewEvent, Event, StateRow
  <1>10. ReviewEvent("requested", "not_required", "pending", 0) \in Event
    BY DEF ReviewEvent, Event
  <1>11. \A d \in RuntimeRiskDecision : RequestEvents(d) \in Seq(Event)
    BY <1>10 DEF RequestEvents
  <1> QED BY <1>1, <1>2, <1>4, <1>5, <1>7, <1>8, <1>9, <1>11

(* TypeOK: the three tables only ever hold rows of their types, whatever   *)
(* transactions generate_assessment and the review actions commit.         *)
THEOREM TypeCorrect == Spec => []TypeOK
  <1>1. Init => TypeOK
    BY WrittenTypes DEF Init, TypeOK
  <1>2. ASSUME TypeOK, [Next]_vars
        PROVE  TypeOK'
    <2> USE TypeOK DEF TypeOK
    <2>1. CASE UNCHANGED vars
      BY <2>1 DEF vars
    <2>2. ASSUME NEW id \in Ids, Create(id)
          PROVE  TypeOK'
      BY <2>2, WrittenTypes DEF Create
    <2>3. ASSUME NEW id \in Ids, MarkProcessing(id)
          PROVE  TypeOK'
      BY <2>3, WrittenTypes DEF MarkProcessing
    <2>4. ASSUME NEW id \in Ids, PersistFailure(id)
          PROVE  TypeOK'
      <3>1. mark_failed("generation_failed") \in AssessmentRow
        BY WrittenTypes DEF ErrorCodes
      <3> QED BY <2>4, <3>1 DEF PersistFailure
    <2>5. ASSUME NEW id \in Ids, NEW c \in Candidates, CompleteUngated(id, c)
          PROVE  TypeOK'
      BY <2>5, WrittenTypes DEF CompleteUngated
    <2>6. ASSUME NEW id \in Ids, NEW c \in Candidates, NEW d \in RuntimeRiskDecision,
                 NEW max \in 0..MaxHumanRevisions, ProcessCandidate(id, c, d, max)
          PROVE  TypeOK'
      <3>1. max \in Nat
        BY RevisionAssumption
      <3>2. /\ GatedRow(c, d) \in AssessmentRow
            /\ GatedState(c, d, 0, max) \in StateRow
            /\ RequestEvents(d) \in Seq(Event)
        BY <3>1, WrittenTypes, ReviewTypes
      <3>3. events[id] \o RequestEvents(d) \in Seq(Event)
        BY <3>2
      <3> QED BY <2>6, <3>2, <3>3 DEF ProcessCandidate
    <2>7. ASSUME NEW id \in Ids, Approve(id)
          PROVE  TypeOK'
      <3>1. states[id] \in StateRow /\ states[id].candidate \in Candidates
        BY <2>7 DEF Approve, MayApprove, StateRow, Payload
      <3>2. mark_completed(states[id].candidate) \in AssessmentRow
        BY <3>1, WrittenTypes
      <3>3. /\ Decided(states[id], "approved") \in StateRow
            /\ DecisionEvent(states[id], "approved") \in Event
        BY <3>1, ReviewTypes
      <3>4. Append(events[id], DecisionEvent(states[id], "approved")) \in Seq(Event)
        BY <3>3
      <3> QED BY <2>7, <3>2, <3>3, <3>4 DEF Approve
    <2>8. ASSUME NEW id \in Ids, Reject(id)
          PROVE  TypeOK'
      <3>1. mark_failed("human_review_rejected") \in AssessmentRow
        BY WrittenTypes DEF ErrorCodes
      <3>2. /\ Decided(states[id], "rejected") \in StateRow
            /\ DecisionEvent(states[id], "rejected") \in Event
        BY ReviewTypes
      <3>3. Append(events[id], DecisionEvent(states[id], "rejected")) \in Seq(Event)
        BY <3>2
      <3> QED BY <2>8, <3>1, <3>2, <3>3 DEF Reject
    <2>9. ASSUME NEW id \in Ids, RequestRevision(id)
          PROVE  TypeOK'
      <3>1. /\ RevisionRequested(states[id]) \in StateRow
            /\ RevisionRequestEvent(states[id]) \in Event
        BY ReviewTypes
      <3>2. Append(events[id], RevisionRequestEvent(states[id])) \in Seq(Event)
        BY <3>1
      <3> QED BY <2>9, <3>1, <3>2 DEF RequestRevision
    <2>10. ASSUME NEW id \in Ids, NEW c \in Candidates, NEW d \in RuntimeRiskDecision,
                  NEW max \in 0..MaxHumanRevisions, ResumeRevision(id, c, d, max)
           PROVE  TypeOK'
      <3>1. max \in Nat
        BY RevisionAssumption
      <3>2. /\ GatedRow(c, d) \in AssessmentRow
            /\ Resumed(states[id], c, d, max) \in StateRow
            /\ ResumeEvent(states[id], d) \in Event
        BY <3>1, WrittenTypes, ReviewTypes
      <3>3. Append(events[id], ResumeEvent(states[id], d)) \in Seq(Event)
        BY <3>2
      <3> QED BY <2>10, <3>2, <3>3 DEF ResumeRevision
    <2> HIDE DEF TypeOK
    <2> QED
      BY <1>2, <2>1, <2>2, <2>3, <2>4, <2>5, <2>6, <2>7, <2>8, <2>9, <2>10
         DEF Next, Generation, Review
  <1> QED BY <1>1, <1>2, PTL DEF Spec

-----------------------------------------------------------------------------
(* The safety invariants.  None of them is inductive by itself: which      *)
(* transaction may run is decided by the checkpoint (s), what it must not  *)
(* disturb is in the assessment row (a) and in the history (e).  Their     *)
(* conjunction is inductive, one assessment at a time.                     *)

CheckpointRow(a, s, e) ==
    /\ a.status \in {"absent", "pending", "processing"} => ~Exists(s)
    /\ Exists(s) => s.candidate \in Candidates
    /\ ~Exists(s) => s = NoState /\ e = <<>>

ResultRow(a, s, e) ==
    /\ a.result # NoCandidate => a.status = "completed"
    /\ a.status = "completed" =>
        /\ a.result # NoCandidate
        /\ Exists(s) =>
            /\ a.result = s.candidate
            /\ \/ s.decision \in AutoDecisions /\ s.review = "not_required"
               \/ /\ s.review = "approved"
                  /\ e # <<>>
                  /\ e[Len(e)].action = "approved"

TablesRow(a, s) ==
    /\ (a.status = "pending_review") <=>
          (Exists(s) /\ s.review \in {"pending", "revision_requested"})
    /\ (a.status = "failed") <=> (a.error # "none")
    /\ (a.error = "human_review_rejected") <=> (Exists(s) /\ s.review = "rejected")
    /\ (a.error = "runtime_risk_gate_blocked") <=> (s.decision = "block_and_escalate")

ChainRow(s, e) ==
    /\ e = <<>> => s.review = "not_required"
    /\ e # <<>> =>
        /\ e[1].action = "requested"
        /\ e[1].previous = "not_required"
        /\ e[Len(e)].new = s.review
        /\ \A i \in 1..(Len(e) - 1) : e[i].new = e[i + 1].previous

LedgerRow(s, e) ==
    /\ RevisionBounds(s)
    /\ \A n \in 1..s.revision :
        \E i \in 1..Len(e) : e[i].action = "revision_requested" /\ e[i].revision = n
    /\ \A i, j \in 1..Len(e) :
        (/\ e[i].action = "revision_requested"
         /\ e[j].action = "revision_requested"
         /\ e[i].revision = e[j].revision) => i = j
    /\ \A i \in 1..Len(e) : e[i].revision <= s.revision

FeedbackRow(s, e) ==
    s.review = "revision_requested" =>
        {i \in 1..Len(e) : /\ e[i].action = "revision_requested"
                           /\ e[i].revision = s.revision} = {Len(e)}

RowTypes(a, s, e) == a \in AssessmentRow /\ s \in StateRow /\ e \in Seq(Event)

RowInv(a, s, e) ==
    /\ RowTypes(a, s, e)
    /\ CheckpointRow(a, s, e)
    /\ ResultRow(a, s, e)
    /\ TablesRow(a, s)
    /\ ChainRow(s, e)
    /\ LedgerRow(s, e)
    /\ FeedbackRow(s, e)

(* The inductive invariant. *)
Inv == /\ TypeOK
       /\ \A id \in Ids : RowInv(assessments[id], states[id], events[id])

(* An assessment that has no checkpoint has none of its traces either. *)
LEMMA NoCheckpoint ==
    ASSUME NEW a \in AssessmentRow,
           a.status \in {"absent", "pending", "processing", "failed", "completed"},
           a.result # NoCandidate <=> a.status = "completed",
           a.status = "failed" <=> a.error # "none",
           a.error \in {"none", "generation_failed"}
    PROVE  RowInv(a, NoState, <<>>)
  <1>1. /\ ~Exists(NoState) /\ NoState.review = "not_required" /\ NoState.revision = 0
        /\ NoState.max = 0 /\ NoState.decision = "none"
    BY DEF Exists, NoState
  <1>2. RowTypes(a, NoState, <<>>)
    BY WrittenTypes DEF RowTypes
  <1>3. CheckpointRow(a, NoState, <<>>) /\ ResultRow(a, NoState, <<>>) /\ TablesRow(a, NoState)
    BY <1>1 DEF CheckpointRow, ResultRow, TablesRow
  <1>4. ChainRow(NoState, <<>>) /\ LedgerRow(NoState, <<>>) /\ FeedbackRow(NoState, <<>>)
    BY <1>1 DEF ChainRow, LedgerRow, FeedbackRow, RevisionBounds
  <1> QED BY <1>2, <1>3, <1>4 DEF RowInv

(* Generation is still running: nothing but the row exists. *)
LEMMA Unsettled ==
    ASSUME NEW a, NEW s, NEW e, RowInv(a, s, e),
           a.status \in {"absent", "pending", "processing"}
    PROVE  s = NoState /\ e = <<>> /\ a.result = NoCandidate /\ a.error = "none"
  BY DEF RowInv, CheckpointRow, ResultRow, TablesRow

(* What GatedRow, GatedState and the request event are for each decision. *)
LEMMA GateWrites ==
    ASSUME NEW c \in Candidates, NEW d \in RuntimeRiskDecision, NEW n \in Nat, NEW max \in Nat,
           NEW e \in Seq(Event), ChainRow(GatedState(c, d, n, max), e),
           LedgerRow(GatedState(c, d, n, max), e)
    PROVE  RowInv(GatedRow(c, d), GatedState(c, d, n, max), e)
  <1> DEFINE a == GatedRow(c, d)
             s == GatedState(c, d, n, max)
  <1>1. RowTypes(a, s, e)
    <2>1. s \in StateRow
      BY WrittenTypes, ReviewTypes
    <2>2. a \in AssessmentRow
      BY WrittenTypes
    <2> QED BY <2>1, <2>2 DEF RowTypes
  <1>2. Exists(s) /\ s.candidate = c /\ s.decision = d /\ s.review = GatedReview(d)
    BY DEF GatedState, Exists, RuntimeRiskDecision, AutoDecisions
  <1>3. CheckpointRow(a, s, e)
    BY <1>2 DEF CheckpointRow, GatedRow, mark_pending_review, mark_failed, mark_completed
  <1>4. ResultRow(a, s, e)
    BY <1>2, CandidateAssumption
       DEF ResultRow, GatedRow, GatedReview, mark_pending_review, mark_failed,
           mark_completed, RuntimeRiskDecision, AutoDecisions
  <1>5. TablesRow(a, s)
    BY <1>2
       DEF TablesRow, GatedRow, GatedReview, mark_pending_review, mark_failed,
           mark_completed, RuntimeRiskDecision, AutoDecisions
  <1>6. FeedbackRow(s, e)
    BY <1>2 DEF FeedbackRow, GatedReview
  <1> QED BY <1>1, <1>3, <1>4, <1>5, <1>6 DEF RowInv

(* What the history looks like with one more event. *)
LEMMA AppendFacts ==
    ASSUME NEW e \in Seq(Event), NEW x \in Event
    PROVE  /\ Append(e, x) \in Seq(Event)
           /\ Append(e, x) # <<>>
           /\ Len(e) \in Nat
           /\ Len(Append(e, x)) = Len(e) + 1
           /\ \A i \in 1..Len(e) : Append(e, x)[i] = e[i]
           /\ Append(e, x)[Len(e) + 1] = x
  OBVIOUS

(* An event that starts where the history ended keeps the chain. *)
LEMMA ChainAppend ==
    ASSUME NEW s, NEW s2, NEW e \in Seq(Event), NEW x \in Event,
           ChainRow(s, e), s.review # "not_required",
           x.previous = s.review, s2.review = x.new
    PROVE  ChainRow(s2, Append(e, x))
  <1> DEFINE f == Append(e, x)
  <1>1. e # <<>> /\ Len(e) \in Nat \ {0}
    BY DEF ChainRow
  <1>2. f # <<>> /\ Len(f) = Len(e) + 1 /\ f[Len(f)] = x
    BY <1>1, AppendFacts
  <1>3. f[1] = e[1]
    BY <1>1, AppendFacts
  <1>4. ASSUME NEW i \in 1..(Len(f) - 1)
        PROVE  f[i].new = f[i + 1].previous
    <2>1. CASE i = Len(e)
      BY <2>1, <1>1, <1>2, AppendFacts DEF ChainRow
    <2>2. CASE i \in 1..(Len(e) - 1)
      <3>1. f[i] = e[i] /\ f[i + 1] = e[i + 1]
        BY <2>2, <1>1, AppendFacts
      <3> QED BY <2>2, <3>1, <1>1 DEF ChainRow
    <2> QED BY <2>1, <2>2, <1>1, <1>2
  <1> HIDE DEF f
  <1>5. ChainRow(s2, f)
    BY <1>1, <1>2, <1>3, <1>4 DEF ChainRow
  <1> QED BY <1>5 DEF f

(* An event that requests no revision keeps the ledger. *)
LEMMA LedgerAppend ==
    ASSUME NEW s \in StateRow, NEW s2 \in StateRow, NEW e \in Seq(Event), NEW x \in Event,
           LedgerRow(s, e), s2.revision = s.revision, RevisionBounds(s2),
           x.action # "revision_requested", x.revision = s.revision
    PROVE  LedgerRow(s2, Append(e, x))
  <1> DEFINE f == Append(e, x)
  <1>1. /\ Len(e) \in Nat /\ Len(f) = Len(e) + 1 /\ f[Len(e) + 1] = x
        /\ \A i \in 1..Len(e) : f[i] = e[i]
    BY AppendFacts
  <1> HIDE DEF f
  <1>2. \A i \in 1..Len(f) : i \in 1..Len(e) \/ i = Len(e) + 1
    BY <1>1
  <1>3. s.revision \in Nat
    BY DEF StateRow
  <1>4. ASSUME NEW n \in 1..s2.revision
        PROVE  \E i \in 1..Len(f) : f[i].action = "revision_requested" /\ f[i].revision = n
    <2>1. PICK i \in 1..Len(e) : e[i].action = "revision_requested" /\ e[i].revision = n
      BY DEF LedgerRow
    <2> QED BY <2>1, <1>1
  <1>5. ASSUME NEW i \in 1..Len(f), NEW j \in 1..Len(f),
               f[i].action = "revision_requested", f[j].action = "revision_requested",
               f[i].revision = f[j].revision
        PROVE  i = j
    <2>1. i \in 1..Len(e) /\ j \in 1..Len(e)
      BY <1>1, <1>2, <1>5
    <2> QED BY <2>1, <1>1, <1>5 DEF LedgerRow
  <1>6. ASSUME NEW i \in 1..Len(f)
        PROVE  f[i].revision <= s2.revision
    BY <1>1, <1>2, <1>3 DEF LedgerRow
  <1>7. LedgerRow(s2, f)
    BY <1>4, <1>5, <1>6 DEF LedgerRow
  <1> QED BY <1>7 DEF f

(* The event of request_revision opens the next line of the ledger and is   *)
(* the feedback get_revision_feedback will find.                            *)
LEMMA LedgerRequest ==
    ASSUME NEW s \in StateRow, NEW s2 \in StateRow, NEW e \in Seq(Event), NEW x \in Event,
           LedgerRow(s, e), s2.revision = s.revision + 1, RevisionBounds(s2),
           x.action = "revision_requested", x.revision = s2.revision
    PROVE  LedgerRow(s2, Append(e, x)) /\ FeedbackRow(s2, Append(e, x))
  <1> DEFINE f == Append(e, x)
  <1>1. /\ Len(e) \in Nat /\ Len(f) = Len(e) + 1 /\ f[Len(e) + 1] = x
        /\ \A i \in 1..Len(e) : f[i] = e[i]
    BY AppendFacts
  <1>2. \A i \in 1..Len(e) : e[i].revision \in Nat
    <2>1. \A i \in 1..Len(e) : e[i] \in Event
      OBVIOUS
    <2> QED BY <2>1 DEF Event
  <1> HIDE DEF f
  <1>3. \A i \in 1..Len(f) : i \in 1..Len(e) \/ i = Len(e) + 1
    BY <1>1
  <1>4. s.revision \in Nat
    BY DEF StateRow
  <1>5. \A i \in 1..Len(e) : f[i].revision <= s.revision /\ f[i].revision # s2.revision
    BY <1>1, <1>2, <1>4 DEF LedgerRow
  <1>6. ASSUME NEW n \in 1..s2.revision
        PROVE  \E i \in 1..Len(f) : f[i].action = "revision_requested" /\ f[i].revision = n
    <2>1. CASE n = s2.revision
      BY <2>1, <1>1
    <2>2. CASE n \in 1..s.revision
      <3>1. PICK i \in 1..Len(e) : e[i].action = "revision_requested" /\ e[i].revision = n
        BY <2>2 DEF LedgerRow
      <3> QED BY <3>1, <1>1
    <2> QED BY <2>1, <2>2, <1>4
  <1>7. ASSUME NEW i \in 1..Len(f), NEW j \in 1..Len(f),
               f[i].action = "revision_requested", f[j].action = "revision_requested",
               f[i].revision = f[j].revision
        PROVE  i = j
    <2>1. CASE i \in 1..Len(e) /\ j \in 1..Len(e)
      BY <2>1, <1>1, <1>7 DEF LedgerRow
    <2>2. CASE i = Len(e) + 1 \/ j = Len(e) + 1
      BY <2>2, <1>1, <1>3, <1>5, <1>7
    <2> QED BY <2>1, <2>2, <1>3
  <1>8. ASSUME NEW i \in 1..Len(f)
        PROVE  f[i].revision <= s2.revision
    BY <1>1, <1>2, <1>3, <1>4, <1>5
  <1>9. LedgerRow(s2, f)
    BY <1>6, <1>7, <1>8 DEF LedgerRow
  <1>10. FeedbackRow(s2, f)
    BY <1>1, <1>3, <1>5 DEF FeedbackRow
  <1> QED BY <1>9, <1>10 DEF f

-----------------------------------------------------------------------------
(* The review actions, one assessment at a time.                           *)

(* A checkpoint under review belongs to a row that waits for it. *)
LEMMA UnderReview ==
    ASSUME NEW a, NEW s, NEW e, RowInv(a, s, e), Exists(s),
           s.review \in {"pending", "revision_requested"}
    PROVE  /\ a.status = "pending_review" /\ a.result = NoCandidate
           /\ a.error = "none" /\ s.decision # "block_and_escalate"
  BY DEF RowInv, ResultRow, TablesRow

(* approve *)
LEMMA ApproveRow ==
    ASSUME NEW a, NEW s, NEW e, RowInv(a, s, e), MayApprove(s)
    PROVE  RowInv(mark_completed(s.candidate), Decided(s, "approved"),
                  Append(e, DecisionEvent(s, "approved")))
  <1> DEFINE b == mark_completed(s.candidate)
             t == Decided(s, "approved")
             x == DecisionEvent(s, "approved")
             f == Append(e, x)
  <1>1. s \in StateRow /\ e \in Seq(Event) /\ Exists(s) /\ s.review = "pending"
    BY DEF RowInv, RowTypes, MayApprove, PendingState
  <1>2. s.candidate \in Candidates /\ s.decision # "block_and_escalate"
    BY <1>1, UnderReview DEF RowInv, CheckpointRow
  <1>3. /\ x \in Event /\ x.action = "approved" /\ x.previous = "pending"
        /\ x.new = "approved" /\ x.revision = s.revision
    BY <1>1, ReviewTypes DEF DecisionEvent, ReviewEvent
  <1>4. /\ t \in StateRow /\ t.decision = s.decision /\ t.review = "approved"
        /\ t.candidate = s.candidate /\ t.revision = s.revision /\ t.max = s.max
        /\ Exists(t)
    BY <1>1, ReviewTypes DEF Decided, StateRow, Exists
  <1>5. b \in AssessmentRow /\ b.status = "completed" /\ b.result = s.candidate /\ b.error = "none"
    BY <1>2, WrittenTypes DEF mark_completed
  <1>6. f \in Seq(Event) /\ f # <<>> /\ f[Len(f)] = x
    BY <1>1, <1>3, AppendFacts
  <1> HIDE DEF b, t, x
  <1>7. ChainRow(t, f)
    BY <1>1, <1>3, <1>4, ChainAppend DEF RowInv
  <1>8. LedgerRow(t, f)
    <2>1. LedgerRow(s, e) /\ RevisionBounds(t)
      BY <1>4 DEF RowInv, LedgerRow, RevisionBounds
    <2> QED BY <2>1, <1>1, <1>3, <1>4, LedgerAppend
  <1> HIDE DEF f
  <1>9. RowTypes(b, t, f) /\ CheckpointRow(b, t, f) /\ FeedbackRow(t, f) /\ TablesRow(b, t)
    BY <1>2, <1>4, <1>5, <1>6 DEF RowTypes, CheckpointRow, FeedbackRow, TablesRow
  <1>10. ResultRow(b, t, f)
    BY <1>2, <1>3, <1>4, <1>5, <1>6, CandidateAssumption DEF ResultRow
  <1>11. RowInv(b, t, f)
    BY <1>7, <1>8, <1>9, <1>10 DEF RowInv
  <1> QED BY <1>11 DEF b, t, x, f

(* reject *)
LEMMA RejectRow ==
    ASSUME NEW a, NEW s, NEW e, RowInv(a, s, e), MayReject(s)
    PROVE  RowInv(mark_failed("human_review_rejected"), Decided(s, "rejected"),
                  Append(e, DecisionEvent(s, "rejected")))
  <1> DEFINE b == mark_failed("human_review_rejected")
             t == Decided(s, "rejected")
             x == DecisionEvent(s, "rejected")
             f == Append(e, x)
  <1>1. s \in StateRow /\ e \in Seq(Event) /\ Exists(s) /\ s.review = "pending"
    BY DEF RowInv, RowTypes, MayReject, PendingState
  <1>2. s.candidate \in Candidates /\ s.decision # "block_and_escalate"
    BY <1>1, UnderReview DEF RowInv, CheckpointRow
  <1>3. /\ x \in Event /\ x.action = "rejected" /\ x.previous = "pending"
        /\ x.new = "rejected" /\ x.revision = s.revision
    BY <1>1, ReviewTypes DEF DecisionEvent, ReviewEvent
  <1>4. /\ t \in StateRow /\ t.decision = s.decision /\ t.review = "rejected"
        /\ t.candidate = s.candidate /\ t.revision = s.revision /\ t.max = s.max
        /\ Exists(t)
    BY <1>1, ReviewTypes DEF Decided, StateRow, Exists
  <1>5. /\ b \in AssessmentRow /\ b.status = "failed" /\ b.result = NoCandidate
        /\ b.error = "human_review_rejected"
    BY WrittenTypes DEF mark_failed, ErrorCodes
  <1>6. f \in Seq(Event) /\ f # <<>>
    BY <1>1, <1>3, AppendFacts
  <1> HIDE DEF b, t, x
  <1>7. ChainRow(t, f)
    BY <1>1, <1>3, <1>4, ChainAppend DEF RowInv
  <1>8. LedgerRow(t, f)
    <2>1. LedgerRow(s, e) /\ RevisionBounds(t)
      BY <1>4 DEF RowInv, LedgerRow, RevisionBounds
    <2> QED BY <2>1, <1>1, <1>3, <1>4, LedgerAppend
  <1> HIDE DEF f
  <1>9. /\ RowTypes(b, t, f) /\ CheckpointRow(b, t, f) /\ FeedbackRow(t, f)
        /\ TablesRow(b, t) /\ ResultRow(b, t, f)
    BY <1>2, <1>4, <1>5, <1>6 DEF RowTypes, CheckpointRow, FeedbackRow, TablesRow, ResultRow
  <1>10. RowInv(b, t, f)
    BY <1>7, <1>8, <1>9 DEF RowInv
  <1> QED BY <1>10 DEF b, t, x, f

(* request_revision *)
LEMMA RequestRevisionRow ==
    ASSUME NEW a, NEW s, NEW e, RowInv(a, s, e), MayRequestRevision(s)
    PROVE  RowInv(a, RevisionRequested(s), Append(e, RevisionRequestEvent(s)))
  <1> DEFINE t == RevisionRequested(s)
             x == RevisionRequestEvent(s)
             f == Append(e, x)
  <1>1. /\ a \in AssessmentRow /\ s \in StateRow /\ e \in Seq(Event) /\ Exists(s)
        /\ s.review = "pending" /\ s.revision < s.max
    BY DEF RowInv, RowTypes, MayRequestRevision, PendingState
  <1>2. /\ s.candidate \in Candidates /\ s.decision # "block_and_escalate"
        /\ a.status = "pending_review" /\ a.result = NoCandidate /\ a.error = "none"
    BY <1>1, UnderReview DEF RowInv, CheckpointRow
  <1>3. s.revision \in Nat /\ s.max \in Nat
    BY <1>1 DEF StateRow
  <1>4. /\ x \in Event /\ x.action = "revision_requested" /\ x.previous = "pending"
        /\ x.new = "revision_requested" /\ x.revision = s.revision + 1
    BY <1>1, ReviewTypes DEF RevisionRequestEvent, ReviewEvent
  <1>5. /\ t \in StateRow /\ t.decision = s.decision /\ t.review = "revision_requested"
        /\ t.candidate = s.candidate /\ t.revision = s.revision + 1 /\ t.max = s.max
        /\ Exists(t)
    BY <1>1, ReviewTypes DEF RevisionRequested, StateRow, Exists
  <1>6. f \in Seq(Event) /\ f # <<>>
    BY <1>1, <1>4, AppendFacts
  <1> HIDE DEF t, x
  <1>7. ChainRow(t, f)
    BY <1>1, <1>4, <1>5, ChainAppend DEF RowInv
  <1>8. LedgerRow(t, f) /\ FeedbackRow(t, f)
    <2>1. LedgerRow(s, e) /\ RevisionBounds(t)
      BY <1>1, <1>3, <1>5 DEF RowInv, RevisionBounds
    <2> QED BY <2>1, <1>1, <1>4, <1>5, LedgerRequest
  <1> HIDE DEF f
  <1>9. RowTypes(a, t, f) /\ CheckpointRow(a, t, f) /\ TablesRow(a, t) /\ ResultRow(a, t, f)
    BY <1>1, <1>2, <1>5, <1>6 DEF RowTypes, CheckpointRow, TablesRow, ResultRow
  <1>10. RowInv(a, t, f)
    BY <1>7, <1>8, <1>9 DEF RowInv
  <1> QED BY <1>10 DEF t, x, f

(* resume_revision *)
LEMMA ResumeRow ==
    ASSUME NEW a, NEW s, NEW e, RowInv(a, s, e), MayResume(s),
           NEW c \in Candidates, NEW d \in RuntimeRiskDecision, NEW max \in Nat,
           RevisionBounds(Resumed(s, c, d, max))
    PROVE  RowInv(GatedRow(c, d), Resumed(s, c, d, max), Append(e, ResumeEvent(s, d)))
  <1> DEFINE t == Resumed(s, c, d, max)
             x == ResumeEvent(s, d)
             f == Append(e, x)
  <1>1. s \in StateRow /\ e \in Seq(Event) /\ Exists(s) /\ s.review = "revision_requested"
    BY DEF RowInv, RowTypes, MayResume
  <1>2. s.revision \in Nat /\ t = GatedState(c, d, s.revision, max)
    BY <1>1 DEF Resumed, StateRow
  <1>3. /\ x \in Event /\ x.action = "revision_submitted" /\ x.previous = s.review
        /\ x.new = GatedReview(d) /\ x.revision = s.revision
    BY <1>1, ReviewTypes DEF ResumeEvent, ReviewEvent
  <1>4. t \in StateRow /\ t.review = GatedReview(d) /\ t.revision = s.revision
    BY <1>1, ReviewTypes DEF Resumed, GatedState
  <1>5. f \in Seq(Event)
    BY <1>1, <1>3, AppendFacts
  <1> HIDE DEF t, x
  <1>6. ChainRow(t, f)
    BY <1>1, <1>3, <1>4, ChainAppend DEF RowInv
  <1>7. LedgerRow(t, f)
    <2>1. LedgerRow(s, e) /\ RevisionBounds(t)
      BY DEF RowInv, t
    <2> QED BY <2>1, <1>1, <1>3, <1>4, LedgerAppend
  <1>8. RowInv(GatedRow(c, d), t, f)
    BY <1>2, <1>5, <1>6, <1>7, GateWrites
  <1> QED BY <1>8 DEF t, x, f

(* process_candidate, from the gate's first decision. *)
LEMMA ProcessCandidateRow ==
    ASSUME NEW c \in Candidates, NEW d \in RuntimeRiskDecision, NEW max \in Nat
    PROVE  RowInv(GatedRow(c, d), GatedState(c, d, 0, max), <<>> \o RequestEvents(d))
  <1> DEFINE s == GatedState(c, d, 0, max)
             x == ReviewEvent("requested", "not_required", "pending", 0)
             e == RequestEvents(d)
  <1>1. s.revision = 0 /\ s.max = max /\ s.review = GatedReview(d)
    BY DEF GatedState
  <1>2. e \in Seq(Event)
    BY WrittenTypes, ReviewTypes
  <1>3. <<>> \o e = e
    BY <1>2
  <1>4. /\ x.action = "requested" /\ x.previous = "not_required" /\ x.new = "pending"
        /\ x.revision = 0
    BY DEF ReviewEvent
  <1>5. e = IF GatedReview(d) = "pending" THEN <<x>> ELSE <<>>
    BY DEF RequestEvents
  <1>6. GatedReview(d) \in {"pending", "not_required"}
    BY DEF GatedReview
  <1> HIDE DEF s, x, e
  <1>7. ChainRow(s, e)
    BY <1>1, <1>4, <1>5, <1>6 DEF ChainRow
  <1>8. LedgerRow(s, e)
    BY <1>1, <1>4, <1>5 DEF LedgerRow, RevisionBounds
  <1> QED BY <1>2, <1>3, <1>7, <1>8, GateWrites DEF s, e

-----------------------------------------------------------------------------
(* The specification.                                                      *)

(* One transaction writes the tables of one assessment; the rows of every   *)
(* other assessment stay.                                                   *)
LEMMA OneRow ==
    ASSUME Inv, TypeOK', NEW id \in Ids, NEW a, NEW s, NEW e, RowInv(a, s, e),
           assessments' = [assessments EXCEPT ![id] = a],
           states' = [states EXCEPT ![id] = s],
           events' = [events EXCEPT ![id] = e]
    PROVE  Inv'
  <1>1. ASSUME NEW other \in Ids
        PROVE  RowInv(assessments'[other], states'[other], events'[other])
    <2>1. CASE other = id
      BY <2>1 DEF Inv, TypeOK
    <2>2. CASE other # id
      BY <2>2 DEF Inv, TypeOK
    <2> QED BY <2>1, <2>2
  <1> QED BY <1>1 DEF Inv

(* Inv is inductive. *)
LEMMA InvStep == Inv /\ TypeOK' /\ [Next]_vars => Inv'
  <1> SUFFICES ASSUME Inv, TypeOK', [Next]_vars
               PROVE  Inv'
    OBVIOUS
  <1>1. CASE UNCHANGED vars
    BY <1>1 DEF vars, Inv, TypeOK
  <1>2. ASSUME NEW id \in Ids
        PROVE  /\ RowInv(assessments[id], states[id], events[id])
               /\ states = [states EXCEPT ![id] = states[id]]
               /\ events = [events EXCEPT ![id] = events[id]]
               /\ assessments = [assessments EXCEPT ![id] = assessments[id]]
               /\ assessments[id] \in AssessmentRow
    BY DEF Inv, TypeOK
  <1>3. ASSUME NEW id \in Ids, Create(id)
        PROVE  Inv'
    <2>1. states[id] = NoState /\ events[id] = <<>>
      BY <1>2, <1>3, Unsettled DEF Create
    <2>2. /\ create \in AssessmentRow /\ create.status = "pending"
          /\ create.result = NoCandidate /\ create.error = "none"
      BY WrittenTypes DEF create, NoRow
    <2>3. RowInv(create, states[id], events[id])
      BY <2>1, <2>2, NoCheckpoint
    <2> QED BY <1>2, <1>3, <2>3, OneRow DEF Create
  <1>4. ASSUME NEW id \in Ids, MarkProcessing(id)
        PROVE  Inv'
    <2> DEFINE row == mark_processing(assessments[id])
    <2>1. /\ states[id] = NoState /\ events[id] = <<>>
          /\ assessments[id].result = NoCandidate /\ assessments[id].error = "none"
      BY <1>2, <1>4, Unsettled DEF MarkProcessing
    <2>2. row \in AssessmentRow
      BY <1>2, WrittenTypes
    <2>3. row.status = "processing" /\ row.result = NoCandidate /\ row.error = "none"
      BY <1>2, <2>1 DEF mark_processing, AssessmentRow
    <2>4. RowInv(row, states[id], events[id])
      BY <2>1, <2>2, <2>3, NoCheckpoint
    <2>5. /\ assessments' = [assessments EXCEPT ![id] = row]
          /\ states' = [states EXCEPT ![id] = states[id]]
          /\ events' = [events EXCEPT ![id] = events[id]]
      BY <1>2, <1>4 DEF MarkProcessing
    <2> QED BY <2>4, <2>5, OneRow
  <1>5. ASSUME NEW id \in Ids, PersistFailure(id)
        PROVE  Inv'
    <2> DEFINE row == mark_failed("generation_failed")
    <2>1. states[id] = NoState /\ events[id] = <<>>
      BY <1>2, <1>5, Unsettled DEF PersistFailure
    <2>2. /\ row \in AssessmentRow /\ row.status = "failed" /\ row.result = NoCandidate
          /\ row.error = "generation_failed"
      BY WrittenTypes DEF mark_failed, ErrorCodes
    <2>3. RowInv(row, states[id], events[id])
      BY <2>1, <2>2, NoCheckpoint
    <2>4. /\ assessments' = [assessments EXCEPT ![id] = row]
          /\ states' = [states EXCEPT ![id] = states[id]]
          /\ events' = [events EXCEPT ![id] = events[id]]
      BY <1>2, <1>5 DEF PersistFailure
    <2> QED BY <2>3, <2>4, OneRow
  <1>6. ASSUME NEW id \in Ids, NEW c \in Candidates, CompleteUngated(id, c)
        PROVE  Inv'
    <2>1. states[id] = NoState /\ events[id] = <<>>
      BY <1>2, <1>6, Unsettled DEF CompleteUngated
    <2>2. /\ mark_completed(c) \in AssessmentRow /\ mark_completed(c).status = "completed"
          /\ mark_completed(c).result # NoCandidate /\ mark_completed(c).error = "none"
      BY WrittenTypes, CandidateAssumption DEF mark_completed
    <2>3. RowInv(mark_completed(c), states[id], events[id])
      BY <2>1, <2>2, NoCheckpoint
    <2> QED BY <1>2, <1>6, <2>3, OneRow DEF CompleteUngated
  <1>7. ASSUME NEW id \in Ids, NEW c \in Candidates, NEW d \in RuntimeRiskDecision,
               NEW max \in 0..MaxHumanRevisions, ProcessCandidate(id, c, d, max)
        PROVE  Inv'
    <2>1. events[id] = <<>> /\ max \in Nat
      BY <1>2, <1>7, Unsettled, RevisionAssumption DEF ProcessCandidate
    <2>2. RowInv(GatedRow(c, d), GatedState(c, d, 0, max), events[id] \o RequestEvents(d))
      BY <2>1, ProcessCandidateRow
    <2> QED BY <1>7, <2>2, OneRow DEF ProcessCandidate
  <1>8. ASSUME NEW id \in Ids, Approve(id)
        PROVE  Inv'
    <2>1. RowInv(mark_completed(states[id].candidate), Decided(states[id], "approved"),
                 Append(events[id], DecisionEvent(states[id], "approved")))
      BY <1>2, <1>8, ApproveRow DEF Approve
    <2> QED BY <1>8, <2>1, OneRow DEF Approve
  <1>9. ASSUME NEW id \in Ids, Reject(id)
        PROVE  Inv'
    <2>1. RowInv(mark_failed("human_review_rejected"), Decided(states[id], "rejected"),
                 Append(events[id], DecisionEvent(states[id], "rejected")))
      BY <1>2, <1>9, RejectRow DEF Reject
    <2> QED BY <1>9, <2>1, OneRow DEF Reject
  <1>10. ASSUME NEW id \in Ids, RequestRevision(id)
         PROVE  Inv'
    <2>1. RowInv(assessments[id], RevisionRequested(states[id]),
                 Append(events[id], RevisionRequestEvent(states[id])))
      BY <1>2, <1>10, RequestRevisionRow DEF RequestRevision
    <2> QED BY <1>2, <1>10, <2>1, OneRow DEF RequestRevision
  <1>11. ASSUME NEW id \in Ids, NEW c \in Candidates, NEW d \in RuntimeRiskDecision,
                NEW max \in 0..MaxHumanRevisions, ResumeRevision(id, c, d, max)
         PROVE  Inv'
    <2>1. max \in Nat
      BY RevisionAssumption
    <2>2. RowInv(GatedRow(c, d), Resumed(states[id], c, d, max),
                 Append(events[id], ResumeEvent(states[id], d)))
      BY <1>2, <1>11, <2>1, ResumeRow DEF ResumeRevision
    <2> QED BY <1>11, <2>2, OneRow DEF ResumeRevision
  <1> QED
    BY <1>1, <1>3, <1>4, <1>5, <1>6, <1>7, <1>8, <1>9, <1>10, <1>11
       DEF Next, Generation, Review

(* Inv holds in every reachable state. *)
THEOREM Invariance == Spec => []Inv
  <1>1. Init => Inv
    <2> SUFFICES ASSUME Init PROVE Inv
      OBVIOUS
    <2>1. TypeOK
      BY WrittenTypes DEF Init, TypeOK
    <2>2. /\ NoRow \in AssessmentRow /\ NoRow.status = "absent"
          /\ NoRow.result = NoCandidate /\ NoRow.error = "none"
      BY WrittenTypes DEF NoRow
    <2>3. RowInv(NoRow, NoState, <<>>)
      BY <2>2, NoCheckpoint
    <2> QED BY <2>1, <2>3 DEF Init, Inv
  <1>2. Spec => []TypeOK
    BY TypeCorrect
  <1> QED BY <1>1, <1>2, InvStep, PTL DEF Spec

(* The checkpoint of process_candidate is sufficient to finalize later.     *)
THEOREM CheckpointSafe == Spec => []CheckpointIsComplete
  <1>1. Inv => CheckpointIsComplete
    BY DEF Inv, RowInv, CheckpointRow, CheckpointIsComplete, HasState
  <1> QED BY <1>1, Invariance, PTL

(* No public result without the gate's or a reviewer's decision, and an     *)
(* approved result is the persisted candidate.                              *)
THEOREM ResultSafe == Spec => []ResultIsDecided
  <1>1. Inv => ResultIsDecided
    BY DEF Inv, RowInv, ResultRow, ResultIsDecided, HasState
  <1> QED BY <1>1, Invariance, PTL

(* assessments and assessment_runtime_states agree after every commit.      *)
THEOREM TablesSafe == Spec => []TablesAgree
  <1>1. Inv => TablesAgree
    BY DEF Inv, RowInv, TablesRow, TablesAgree, HasState
  <1> QED BY <1>1, Invariance, PTL

(* Checkpoint and row match for any number of assessments and revisions.    *)
THEOREM CheckpointMatches == Spec => []CheckpointMatchesRow
  <1>1. CheckpointIsComplete /\ TablesAgree => CheckpointMatchesRow
    BY DEF CheckpointMatchesRow
  <1> QED BY <1>1, CheckpointSafe, TablesSafe, PTL

(* human_review_events is an unbroken chain that ends at the checkpoint.    *)
THEOREM AuditSafe == Spec => []AuditChain
  <1>1. Inv => AuditChain
    BY DEF Inv, RowInv, ChainRow, AuditChain
  <1> QED BY <1>1, Invariance, PTL

(* revision_count is the number of requested revisions, within its limit.   *)
THEOREM RevisionSafe == Spec => []RevisionLedger
  <1>1. Inv => RevisionLedger
    BY DEF Inv, RowInv, LedgerRow, RevisionLedger
  <1> QED BY <1>1, Invariance, PTL

(* get_revision_feedback finds the request that is being worked on.         *)
THEOREM FeedbackSafe == Spec => []FeedbackIsLatest
  <1>1. Inv => FeedbackIsLatest
    BY DEF Inv, RowInv, FeedbackRow, FeedbackIsLatest, FeedbackIndexes
  <1> QED BY <1>1, Invariance, PTL

(* The history explains the checkpoint for any number of revisions.         *)
THEOREM HistorySafe == Spec => []HistoryExplains
  <1>1. AuditChain /\ RevisionLedger /\ FeedbackIsLatest => HistoryExplains
    BY DEF HistoryExplains
  <1> QED BY <1>1, AuditSafe, RevisionSafe, FeedbackSafe, PTL

(* A completed or failed assessment is never touched again.                 *)
THEOREM FinalityProved == Spec => DecisionIsFinal
  <1> DEFINE Kept(id) == /\ assessments'[id] = assessments[id]
                         /\ states'[id] = states[id]
                         /\ events'[id] = events[id]
  <1>1. ASSUME Inv, Next, NEW id \in Ids, assessments[id].status \in Final
        PROVE  Kept(id)
    <2>1. ~PendingState(states[id]) /\ ~MayResume(states[id])
      BY <1>1 DEF Inv, RowInv, TablesRow, Final, PendingState, MayResume
    <2>2. PICK x \in Ids : Generation(x) \/ Review(x)
      BY <1>1 DEF Next
    <2>3. CASE x = id
      BY <1>1, <2>1, <2>2, <2>3
         DEF Final, Generation, Create, MarkProcessing, PersistFailure, CompleteUngated,
             ProcessCandidate, Review, Approve, Reject, RequestRevision, ResumeRevision,
             MayApprove, MayReject, MayRequestRevision
    <2>4. CASE x # id /\ Generation(x)
      BY <1>1, <2>4
         DEF Inv, TypeOK, Generation, Create, MarkProcessing, PersistFailure,
             CompleteUngated, ProcessCandidate
    <2>5. CASE x # id /\ Review(x)
      BY <1>1, <2>5
         DEF Inv, TypeOK, Review, Approve, Reject, RequestRevision, ResumeRevision
    <2> QED BY <2>2, <2>3, <2>4, <2>5
  <1>2. Inv /\ [Next]_vars =>
            [\A id \in Ids : assessments[id].status \in Final => Kept(id)]_vars
    BY <1>1
  <1> QED BY <1>2, Invariance, PTL DEF Spec, DecisionIsFinal

(* human_review_events is append-only, at most one event per transaction,   *)
(* and the review status never moves without one.                           *)
THEOREM HistoryGrows == Spec => HistoryOnlyGrows
  <1> DEFINE Grows(id) ==
        /\ Len(events'[id]) \in {Len(events[id]), Len(events[id]) + 1}
        /\ \A i \in 1..Len(events[id]) : events'[id][i] = events[id][i]
        /\ states'[id].review # states[id].review => Len(events'[id]) = Len(events[id]) + 1
  <1>1. ASSUME NEW id \in Ids, TypeOK, NEW x \in Event,
               events'[id] = Append(events[id], x)
        PROVE  Grows(id)
    <2>1. events[id] \in Seq(Event)
      BY <1>1 DEF TypeOK
    <2> QED BY <1>1, <2>1
  <1>2. ASSUME NEW id \in Ids, TypeOK, events'[id] = events[id],
               states'[id].review = states[id].review
        PROVE  Grows(id)
    BY <1>2
  <1>3. ASSUME Inv, Next, NEW id \in Ids
        PROVE  Grows(id)
    <2>1. TypeOK /\ states[id] \in StateRow /\ events[id] \in Seq(Event)
      BY <1>3 DEF Inv, TypeOK
    <2>2. PICK x \in Ids : Generation(x) \/ Review(x)
      BY <1>3 DEF Next
    <2> HIDE DEF Grows
    <2>3. CASE x # id
      <3>1. states'[id] = states[id] /\ events'[id] = events[id]
        <4>1. CASE Generation(x)
          BY <2>1, <2>3, <4>1
             DEF TypeOK, Generation, Create, MarkProcessing, PersistFailure, CompleteUngated,
                 ProcessCandidate
        <4>2. CASE Review(x)
          BY <2>1, <2>3, <4>2
             DEF TypeOK, Review, Approve, Reject, RequestRevision, ResumeRevision
        <4> QED BY <2>2, <4>1, <4>2
      <3> QED BY <1>2, <2>1, <3>1
    <2>4. CASE x = id /\ (Create(id) \/ MarkProcessing(id) \/ PersistFailure(id)
                            \/ \E c \in Candidates : CompleteUngated(id, c))
      <3>1. states' = states /\ events' = events
        BY <2>4 DEF Create, MarkProcessing, PersistFailure, CompleteUngated
      <3> QED BY <1>2, <2>1, <3>1
    <2>5. ASSUME NEW c \in Candidates, NEW d \in RuntimeRiskDecision,
                 NEW max \in 0..MaxHumanRevisions, ProcessCandidate(id, c, d, max)
          PROVE  Grows(id)
      <3>1. states[id].review = "not_required"
        BY <1>3, <2>5 DEF ProcessCandidate, Inv, RowInv, CheckpointRow, NoState
      <3>2. states'[id] = GatedState(c, d, 0, max) /\ events'[id] = events[id] \o RequestEvents(d)
        BY <2>1, <2>5 DEF ProcessCandidate, TypeOK
      <3>3. CASE GatedReview(d) = "pending"
        <4> DEFINE e == ReviewEvent("requested", "not_required", "pending", 0)
        <4>1. e \in Event
          BY DEF ReviewEvent, Event, HumanReviewAction, HumanReviewStatus
        <4>2. RequestEvents(d) = <<e>>
          BY <3>3 DEF RequestEvents
        <4> HIDE DEF e
        <4>3. events'[id] = Append(events[id], e)
          BY <2>1, <3>2, <4>1, <4>2
        <4> QED BY <1>1, <2>1, <4>1, <4>3
      <3>4. CASE GatedReview(d) # "pending"
        <4>1. RequestEvents(d) = <<>> /\ GatedReview(d) = "not_required"
          BY <3>4 DEF RequestEvents, GatedReview
        <4>2. events'[id] = events[id]
          BY <2>1, <3>2, <4>1
        <4>3. states'[id].review = "not_required"
          BY <3>2, <4>1 DEF GatedState
        <4> QED BY <1>2, <2>1, <3>1, <4>2, <4>3
      <3> QED BY <3>3, <3>4
    <2>6. ASSUME NEW e \in Event, events' = [events EXCEPT ![id] = Append(events[id], e)]
          PROVE  Grows(id)
      <3>1. events'[id] = Append(events[id], e)
        BY <2>1, <2>6 DEF TypeOK
      <3> QED BY <1>1, <2>1, <3>1
    <2>7. CASE Approve(id)
      <3>1. DecisionEvent(states[id], "approved") \in Event
        BY <2>1 DEF DecisionEvent, ReviewEvent, Event, StateRow, HumanReviewAction,
                    HumanReviewStatus
      <3> QED BY <2>6, <2>7, <3>1 DEF Approve
    <2>8. CASE Reject(id)
      <3>1. DecisionEvent(states[id], "rejected") \in Event
        BY <2>1 DEF DecisionEvent, ReviewEvent, Event, StateRow, HumanReviewAction,
                    HumanReviewStatus
      <3> QED BY <2>6, <2>8, <3>1 DEF Reject
    <2>9. CASE RequestRevision(id)
      <3>1. RevisionRequestEvent(states[id]) \in Event
        BY <2>1 DEF RevisionRequestEvent, ReviewEvent, Event, StateRow, HumanReviewAction,
                    HumanReviewStatus
      <3> QED BY <2>6, <2>9, <3>1 DEF RequestRevision
    <2>10. ASSUME NEW c \in Candidates, NEW d \in RuntimeRiskDecision,
                  NEW max \in 0..MaxHumanRevisions, ResumeRevision(id, c, d, max)
           PROVE  Grows(id)
      <3>1. ResumeEvent(states[id], d) \in Event
        BY <2>1 DEF ResumeEvent, ReviewEvent, Event, StateRow, HumanReviewAction,
                    HumanReviewStatus, GatedReview
      <3> QED BY <2>6, <2>10, <3>1 DEF ResumeRevision
    <2> QED BY <2>2, <2>3, <2>4, <2>5, <2>7, <2>8, <2>9, <2>10 DEF Generation, Review
  <1>4. Inv /\ [Next]_vars => [\A id \in Ids : Grows(id)]_vars
    BY <1>3
  <1> QED BY <1>4, Invariance, PTL DEF Spec, HistoryOnlyGrows

(* No sequence of transactions reopens a final decision or rewrites the     *)
(* history of one.                                                          *)
THEOREM RecordSafe == Spec => RecordStands
  BY FinalityProved, HistoryGrows DEF RecordStands

-----------------------------------------------------------------------------
(* Reads between the commits.                                              *)

(* The statements of a read change no table: what holds of the tables in    *)
(* every state of ReviewLifecycle holds while they are read.                *)
THEOREM ReadsChangeNothing == ReadSpec => Spec
  <1>1. ReadInit => Init
    BY DEF ReadInit
  <1>2. [ReadNext]_readVars => [Next]_vars
    BY DEF ReadNext, readVars, OtherCommits, BeginPage, list_page, get_states, count,
           count_by_status, count_by_gate_decision, count_by_review_status,
           BeginCandidate, get_by_id, get_state, Answer, Reads
  <1> QED BY <1>1, <1>2, PTL DEF ReadSpec, Spec

(* What a reader relies on besides Inv: a failed generation left no         *)
(* checkpoint, and an approved candidate is the result.                     *)
Explained(a, s) ==
    /\ a.error = "generation_failed" => ~Exists(s)
    /\ s.review = "approved" => a.status = "completed" /\ a.result = s.candidate

(* What is still true of a row whose status was read. *)
Remembers(a, s, status) ==
    /\ a.status # "absent"
    /\ status \in Final => a.status = status
    /\ status = "pending_review" => Exists(s)

(* What a transaction does to the row and the checkpoint of one id. *)
Moves(a, s, b, t) ==
    /\ Explained(a, s) => Explained(b, t)
    /\ a.status # "absent" => b.status # "absent"
    /\ a.status \in Final => b = a /\ t = s
    /\ Exists(s) => Exists(t)

(* A transaction moves every row forward. *)
LEMMA RowMoves ==
    ASSUME Inv, Next, NEW id \in Ids
    PROVE  Moves(assessments[id], states[id], assessments'[id], states'[id])
  <1>1. /\ RowInv(assessments[id], states[id], events[id])
        /\ assessments \in [Ids -> AssessmentRow] /\ states \in [Ids -> StateRow]
        /\ assessments[id] \in AssessmentRow /\ states[id] \in StateRow
    BY DEF Inv, TypeOK
  <1>2. /\ assessments[id].status \in {"absent", "pending", "processing"} => states[id] = NoState
        /\ assessments[id].status \in Final => ~PendingState(states[id]) /\ ~MayResume(states[id])
        /\ Exists(states[id]) => assessments[id].status # "absent"
    BY <1>1 DEF RowInv, CheckpointRow, TablesRow, Final, PendingState, MayResume
  <1>3. ASSUME assessments'[id] = assessments[id], states'[id] = states[id]
        PROVE  Moves(assessments[id], states[id], assessments'[id], states'[id])
    BY <1>3 DEF Moves
  <1>4. PICK x \in Ids : Generation(x) \/ Review(x)
    BY DEF Next
  <1>5. CASE x # id
    <2>1. CASE Generation(x)
      BY <1>1, <1>3, <1>5, <2>1
         DEF Generation, Create, MarkProcessing, PersistFailure, CompleteUngated,
             ProcessCandidate
    <2>2. CASE Review(x)
      BY <1>1, <1>3, <1>5, <2>2 DEF Review, Approve, Reject, RequestRevision, ResumeRevision
    <2> QED BY <1>4, <2>1, <2>2
  <1>6. CASE x = id /\ (Create(id) \/ MarkProcessing(id) \/ PersistFailure(id)
                          \/ \E c \in Candidates : CompleteUngated(id, c))
    <2>1. states'[id] = NoState /\ states[id] = NoState
      BY <1>2, <1>6 DEF Create, MarkProcessing, PersistFailure, CompleteUngated
    <2>2. assessments[id].status \notin Final
      BY <1>6 DEF Create, MarkProcessing, PersistFailure, CompleteUngated, Final
    <2>3. assessments'[id].status # "absent"
      BY <1>1, <1>6 DEF Create, MarkProcessing, PersistFailure, CompleteUngated,
                 create, NoRow, mark_processing, mark_failed, mark_completed, AssessmentRow
    <2> QED BY <2>1, <2>2, <2>3 DEF Moves, Explained, NoState, Exists
  <1>7. ASSUME NEW c \in Candidates, NEW d \in RuntimeRiskDecision,
               assessments'[id] = GatedRow(c, d), states'[id].decision = d,
               states'[id].review = GatedReview(d), assessments[id].status \notin Final
        PROVE  Moves(assessments[id], states[id], assessments'[id], states'[id])
    <2>1. /\ GatedRow(c, d).status # "absent" /\ GatedRow(c, d).error # "generation_failed"
          /\ GatedReview(d) # "approved" /\ d # "none"
      BY DEF GatedRow, GatedReview, mark_pending_review, mark_failed, mark_completed,
             RuntimeRiskDecision, AutoDecisions
    <2> QED BY <1>7, <2>1 DEF Moves, Explained, Exists
  <1>8. ASSUME x = id, NEW c \in Candidates, NEW d \in RuntimeRiskDecision,
               NEW max \in 0..MaxHumanRevisions, ProcessCandidate(id, c, d, max)
        PROVE  Moves(assessments[id], states[id], assessments'[id], states'[id])
    BY <1>1, <1>7, <1>8 DEF ProcessCandidate, GatedState, Final
  <1>9. ASSUME x = id, NEW c \in Candidates, NEW d \in RuntimeRiskDecision,
               NEW max \in 0..MaxHumanRevisions, ResumeRevision(id, c, d, max)
        PROVE  Moves(assessments[id], states[id], assessments'[id], states'[id])
    BY <1>1, <1>2, <1>7, <1>9 DEF ResumeRevision, Resumed, GatedState
  <1>10. CASE x = id /\ (Approve(id) \/ Reject(id) \/ RequestRevision(id))
    <2>1. PendingState(states[id]) /\ assessments[id].status \notin Final
      BY <1>2, <1>10 DEF Approve, Reject, RequestRevision, MayApprove, MayReject,
                         MayRequestRevision
    <2>2. CASE Approve(id)
      BY <1>1, <2>1, <2>2
         DEF Approve, Moves, Explained, Exists, mark_completed, Decided, StateRow
    <2>3. CASE Reject(id)
      BY <1>1, <2>1, <2>3
         DEF Reject, Moves, Explained, Exists, mark_failed, Decided, StateRow
    <2>4. CASE RequestRevision(id)
      <3>1. assessments'[id] = assessments[id] /\ states'[id] = RevisionRequested(states[id])
        BY <1>1, <2>4 DEF RequestRevision
      <3>2. /\ states'[id].decision = states[id].decision
            /\ states'[id].review = "revision_requested"
        BY <1>1, <3>1 DEF RevisionRequested, StateRow
      <3>3. Exists(states'[id]) = Exists(states[id])
        BY <3>2 DEF Exists
      <3> QED BY <2>1, <3>1, <3>2, <3>3 DEF Moves, Explained
    <2> QED BY <1>10, <2>2, <2>3, <2>4
  <1> QED BY <1>4, <1>5, <1>6, <1>8, <1>9, <1>10 DEF Generation, Review

(* The fields of the record read. *)
ReadShape ==
    read = [kind |-> read.kind, at |-> read.at, status |-> read.status,
            limit |-> read.limit, page |-> read.page, shown |-> read.shown,
            total |-> read.total, status_counts |-> read.status_counts,
            decision_counts |-> read.decision_counts,
            review_counts |-> read.review_counts, commits |-> read.commits]

(* The rows of a page are still there, the final ones unchanged. *)
PageStands ==
    /\ DOMAIN read.page \subseteq Ids
    /\ \A id \in DOMAIN read.page : Remembers(assessments[id], states[id], read.page[id])

(* What was shown of the checkpoints explains the page. *)
ItemsFollow == \A id \in DOMAIN read.page : Follows(read.page[id], read.shown[id])

(* The items of status s. *)
Shows(s) == {id \in DOMAIN read.page : read.page[id] = s}

(* The facet of the statuses counts the final rows of the page. *)
FinalRowsCounted ==
    \A s \in Final : Shows(s) # {} =>
        /\ s \in DOMAIN read.status_counts
        /\ Cardinality(Shows(s)) <= read.status_counts[s]

(* What a reviewer was shown. *)
CandidateShown ==
    \A id \in DOMAIN read.page :
        /\ read.page[id] = "pending_review" => read.shown[id].candidate \in Candidates
        /\ read.shown[id].review = "approved" =>
                read.shown[id].candidate = assessments[id].result

(* What the statements done so far have established. *)
PageRead ==
    /\ read.at > 1 => PageStands
    /\ read.kind = "page" =>
        /\ read.at \in 1..7
        /\ read.at > 2 => ItemsFollow
        /\ read.at > 3 => (read.status = AnyStatus => Cardinality(DOMAIN read.page) <= read.total)
        /\ read.at > 4 => FinalRowsCounted
    /\ read.kind = "candidate" =>
        /\ read.at \in 1..3
        /\ read.at > 2 => CandidateShown

(* The invariant of a read under way. *)
ReadInv ==
    /\ \A id \in Ids : Explained(assessments[id], states[id])
    /\ ReadShape
    /\ read.kind \in {"none", "page", "candidate"}
    /\ read.kind = "none" => read = NoRead
    /\ read.at \in Nat
    /\ PageRead

(* Which statement a read has reached. *)
LEMMA StatementOrder ==
    ASSUME ReadInv, NEW s, At(s)
    PROVE  /\ s = "list_page" => read.kind = "page" /\ read.at = 1
           /\ s = "get_states" => read.kind = "page" /\ read.at = 2
           /\ s = "count" => read.kind = "page" /\ read.at = 3
           /\ s = "count_by_status" => read.kind = "page" /\ read.at = 4
           /\ s = "count_by_gate_decision" => read.kind = "page" /\ read.at = 5
           /\ s = "count_by_review_status" => read.kind = "page" /\ read.at = 6
           /\ s = "get_by_id" => read.kind = "candidate" /\ read.at = 1
           /\ s = "get_state" => read.kind = "candidate" /\ read.at = 2
  <1>1. CASE read.kind = "page"
    <2>1. /\ read.at \in {1, 2, 3, 4, 5, 6} /\ list_assessments[read.at] = s
      BY <1>1 DEF ReadInv, PageRead, At, Statements, list_assessments
    <2> QED BY <1>1, <2>1 DEF list_assessments
  <1>2. CASE read.kind = "candidate"
    <2>1. /\ read.at \in {1, 2} /\ get_review_candidate[read.at] = s
      BY <1>2 DEF ReadInv, PageRead, At, Statements, get_review_candidate
    <2> QED BY <1>2, <2>1 DEF get_review_candidate
  <1>3. CASE read.kind = "none"
    BY <1>3 DEF At, Statements
  <1> QED BY <1>1, <1>2, <1>3 DEF ReadInv

(* A statement fills in its part of the answer and leaves the others. *)
Advances ==
    /\ ReadShape' /\ UNCHANGED vars
    /\ read'.kind = read.kind /\ read'.at = read.at + 1 /\ read'.status = read.status

(* What a statement of each kind writes. *)
LEMMA StatementFields ==
    ASSUME ReadShape, NEW f
    PROVE  /\ Reads([read EXCEPT !.page = f]) => Advances /\ read'.page = f
           /\ Reads([read EXCEPT !.shown = f]) =>
                    Advances /\ read'.page = read.page /\ read'.shown = f
           /\ Reads([read EXCEPT !.total = f]) =>
                    /\ Advances /\ read'.page = read.page /\ read'.shown = read.shown
                    /\ read'.total = f
           /\ Reads([read EXCEPT !.status_counts = f]) =>
                    /\ Advances /\ read'.page = read.page /\ read'.shown = read.shown
                    /\ read'.total = read.total /\ read'.status_counts = f
           /\ Reads([read EXCEPT !.decision_counts = f]) =>
                    /\ Advances /\ read'.page = read.page /\ read'.shown = read.shown
                    /\ read'.total = read.total /\ read'.status_counts = read.status_counts
                    /\ read'.decision_counts = f
           /\ Reads([read EXCEPT !.review_counts = f]) =>
                    /\ Advances /\ read'.page = read.page /\ read'.shown = read.shown
                    /\ read'.total = read.total /\ read'.status_counts = read.status_counts
                    /\ read'.decision_counts = read.decision_counts
                    /\ read'.review_counts = f
  <1>1. ASSUME Reads([read EXCEPT !.page = f])
        PROVE  Advances /\ read'.page = f
    <2>1. read' = [kind |-> read.kind, at |-> read.at + 1, status |-> read.status,
                   limit |-> read.limit, page |-> f, shown |-> read.shown,
                   total |-> read.total, status_counts |-> read.status_counts,
                   decision_counts |-> read.decision_counts,
                   review_counts |-> read.review_counts, commits |-> read.commits]
      BY <1>1 DEF ReadShape, Reads
    <2> QED BY <1>1, <2>1 DEF Advances, ReadShape, Reads
  <1>2. ASSUME Reads([read EXCEPT !.shown = f])
        PROVE  Advances /\ read'.page = read.page /\ read'.shown = f
    <2>1. read' = [kind |-> read.kind, at |-> read.at + 1, status |-> read.status,
                   limit |-> read.limit, page |-> read.page, shown |-> f,
                   total |-> read.total, status_counts |-> read.status_counts,
                   decision_counts |-> read.decision_counts,
                   review_counts |-> read.review_counts, commits |-> read.commits]
      BY <1>2 DEF ReadShape, Reads
    <2> QED BY <1>2, <2>1 DEF Advances, ReadShape, Reads
  <1>3. ASSUME Reads([read EXCEPT !.total = f])
        PROVE  /\ Advances /\ read'.page = read.page /\ read'.shown = read.shown
               /\ read'.total = f
    <2>1. read' = [kind |-> read.kind, at |-> read.at + 1, status |-> read.status,
                   limit |-> read.limit, page |-> read.page, shown |-> read.shown,
                   total |-> f, status_counts |-> read.status_counts,
                   decision_counts |-> read.decision_counts,
                   review_counts |-> read.review_counts, commits |-> read.commits]
      BY <1>3 DEF ReadShape, Reads
    <2> QED BY <1>3, <2>1 DEF Advances, ReadShape, Reads
  <1>4. ASSUME Reads([read EXCEPT !.status_counts = f])
        PROVE  /\ Advances /\ read'.page = read.page /\ read'.shown = read.shown
               /\ read'.total = read.total /\ read'.status_counts = f
    <2>1. read' = [kind |-> read.kind, at |-> read.at + 1, status |-> read.status,
                   limit |-> read.limit, page |-> read.page, shown |-> read.shown,
                   total |-> read.total, status_counts |-> f,
                   decision_counts |-> read.decision_counts,
                   review_counts |-> read.review_counts, commits |-> read.commits]
      BY <1>4 DEF ReadShape, Reads
    <2> QED BY <1>4, <2>1 DEF Advances, ReadShape, Reads
  <1>5. ASSUME Reads([read EXCEPT !.decision_counts = f])
        PROVE  /\ Advances /\ read'.page = read.page /\ read'.shown = read.shown
               /\ read'.total = read.total /\ read'.status_counts = read.status_counts
               /\ read'.decision_counts = f
    <2>1. read' = [kind |-> read.kind, at |-> read.at + 1, status |-> read.status,
                   limit |-> read.limit, page |-> read.page, shown |-> read.shown,
                   total |-> read.total, status_counts |-> read.status_counts,
                   decision_counts |-> f,
                   review_counts |-> read.review_counts, commits |-> read.commits]
      BY <1>5 DEF ReadShape, Reads
    <2> QED BY <1>5, <2>1 DEF Advances, ReadShape, Reads
  <1>6. ASSUME Reads([read EXCEPT !.review_counts = f])
        PROVE  /\ Advances /\ read'.page = read.page /\ read'.shown = read.shown
               /\ read'.total = read.total /\ read'.status_counts = read.status_counts
               /\ read'.decision_counts = read.decision_counts
               /\ read'.review_counts = f
    <2>1. read' = [kind |-> read.kind, at |-> read.at + 1, status |-> read.status,
                   limit |-> read.limit, page |-> read.page, shown |-> read.shown,
                   total |-> read.total, status_counts |-> read.status_counts,
                   decision_counts |-> read.decision_counts,
                   review_counts |-> f, commits |-> read.commits]
      BY <1>6 DEF ReadShape, Reads
    <2> QED BY <1>6, <2>1 DEF Advances, ReadShape, Reads
  <1> QED BY <1>1, <1>2, <1>3, <1>4, <1>5, <1>6

(* The parts of the invariant that every statement keeps. *)
LEMMA Advanced ==
    ASSUME ReadInv, Advances, read.kind \in {"page", "candidate"}
    PROVE  /\ \A id \in Ids : Explained(assessments'[id], states'[id])
           /\ ReadShape'
           /\ read'.kind \in {"none", "page", "candidate"} /\ read'.kind # "none"
           /\ read'.at \in Nat /\ read'.at = read.at + 1
           /\ read'.page = read.page => (PageStands => PageStands')
           /\ (read'.page = read.page /\ read'.shown = read.shown) => (ItemsFollow => ItemsFollow')
  BY DEF ReadInv, Advances, vars, PageStands, ItemsFollow

(* Rows that were just read are remembered. *)
LEMMA FreshPage ==
    ASSUME Inv, NEW S \in SUBSET Stored, NEW f, f = [id \in S |-> assessments[id].status]
    PROVE  /\ DOMAIN f \subseteq Ids
           /\ \A id \in DOMAIN f : Remembers(assessments[id], states[id], f[id])
  <1>1. ASSUME NEW id \in S
        PROVE  /\ id \in Ids /\ assessments[id].status # "absent"
               /\ assessments[id].status = "pending_review" => Exists(states[id])
    BY DEF Inv, RowInv, TablesRow, Stored
  <1> QED BY <1>1 DEF Remembers

(* What a row that was read before says of the checkpoint read now. *)
LEMMA CheckpointFollows ==
    ASSUME Inv, ReadInv, PageStands, NEW id \in DOMAIN read.page
    PROVE  /\ Follows(read.page[id], [decision |-> states[id].decision,
                                      review |-> states[id].review])
           /\ read.page[id] = "pending_review" => states[id].candidate \in Candidates
           /\ states[id].review = "approved" => states[id].candidate = assessments[id].result
  <1>1. /\ id \in Ids /\ Remembers(assessments[id], states[id], read.page[id])
        /\ RowInv(assessments[id], states[id], events[id])
        /\ Explained(assessments[id], states[id])
        /\ assessments[id].error \in ErrorCodes
    BY DEF Inv, TypeOK, ReadInv, PageStands, AssessmentRow
  <1>2. read.page[id] = "completed" =>
            states[id].decision \in AutoDecisions \cup {"none"} \/ states[id].review = "approved"
    BY <1>1 DEF RowInv, ResultRow, Remembers, Final, Exists
  <1>3. read.page[id] = "failed" =>
            \/ states[id].decision \in {"block_and_escalate", "none"}
            \/ states[id].review = "rejected"
    BY <1>1 DEF RowInv, TablesRow, Remembers, Explained, Final, Exists, ErrorCodes
  <1>4. read.page[id] = "pending_review" =>
            states[id].decision # "none" /\ states[id].candidate \in Candidates
    BY <1>1 DEF RowInv, CheckpointRow, Remembers, Exists
  <1> QED BY <1>1, <1>2, <1>3, <1>4 DEF Follows, Explained

(* The page lists rows that are there. *)
LEMMA ReadPage ==
    ASSUME Inv, ReadInv, list_page \/ get_by_id
    PROVE  ReadInv'
  <1>1. read.at = 1 /\ read.kind \in {"page", "candidate"}
    BY StatementOrder DEF list_page, get_by_id
  <1>2. PICK S \in SUBSET Stored :
            Reads([read EXCEPT !.page = [id \in S |-> assessments[id].status]])
    <2>1. CASE list_page
      <3>1. PICK S \in kSubset(Min({read.limit, Cardinality(Listed(read.status))}),
                               Listed(read.status)) :
                Reads([read EXCEPT !.page = [id \in S |-> assessments[id].status]])
        BY <2>1 DEF list_page
      <3>2. S \in SUBSET Stored
        BY DEF kSubset, Listed
      <3> QED BY <3>1, <3>2
    <2>2. CASE get_by_id
      <3>1. PICK x \in Stored : Reads([read EXCEPT !.page = [i \in {x} |-> assessments[i].status]])
        BY <2>2 DEF get_by_id
      <3> QED BY <3>1
    <2> QED BY <2>1, <2>2
  <1>3. PICK f : f = [id \in S |-> assessments[id].status]
    OBVIOUS
  <1>4. Advances /\ read'.page = f
    BY <1>2, <1>3, StatementFields DEF ReadInv
  <1>5. PageStands'
    <2>1. /\ DOMAIN f \subseteq Ids
          /\ \A id \in DOMAIN f : Remembers(assessments[id], states[id], f[id])
      BY <1>3, FreshPage
    <2> QED BY <1>4, <2>1 DEF PageStands, Advances, vars
  <1>6. read'.at = 2
    BY <1>1, <1>4 DEF Advances
  <1>7. PageRead'
    BY <1>5, <1>6 DEF PageRead
  <1> QED BY <1>1, <1>4, <1>7, Advanced DEF ReadInv

(* The checkpoints shown explain the rows of the page. *)
LEMMA ReadCheckpoints ==
    ASSUME Inv, ReadInv, get_states \/ get_state
    PROVE  ReadInv'
  <1>1. read.at = 2 /\ PageStands
    BY StatementOrder DEF get_states, get_state, ReadInv, PageRead
  <1>2. CASE get_states
    <2>1. read.kind = "page"
      BY <1>2, StatementOrder DEF get_states
    <2>2. PICK f : f = [id \in DOMAIN read.page |->
                [decision |-> states[id].decision, review |-> states[id].review]]
      OBVIOUS
    <2>3. Advances /\ read'.page = read.page /\ read'.shown = f
      BY <1>2, <2>2, StatementFields DEF get_states, ReadInv
    <2>4. ItemsFollow'
      <3>1. ASSUME NEW id \in DOMAIN read.page
            PROVE  Follows(read.page[id], f[id])
        BY <1>1, <2>2, CheckpointFollows
      <3> QED BY <2>3, <3>1, Zenon DEF ItemsFollow
    <2>5. read'.at = 3 /\ read'.kind = "page" /\ PageStands'
      BY <1>1, <2>1, <2>3, Advanced DEF Advances
    <2>6. PageRead'
      BY <2>4, <2>5 DEF PageRead
    <2> QED BY <2>1, <2>3, <2>6, Advanced DEF ReadInv
  <1>3. CASE get_state
    <2>1. read.kind = "candidate"
      BY <1>3, StatementOrder DEF get_state
    <2>2. PICK f : f = [id \in DOMAIN read.page |->
                [review |-> states[id].review, candidate |-> states[id].candidate]]
      OBVIOUS
    <2>3. Advances /\ read'.page = read.page /\ read'.shown = f
      BY <1>3, <2>2, StatementFields DEF get_state, ReadInv
    <2>4. CandidateShown'
      <3>1. ASSUME NEW id \in DOMAIN read.page
            PROVE  /\ f[id].review = states[id].review
                   /\ f[id].candidate = states[id].candidate
        BY <2>2
      <3>2. assessments' = assessments
        BY <2>3 DEF Advances, vars
      <3> QED BY <1>1, <2>3, <3>1, <3>2, CheckpointFollows DEF CandidateShown
    <2>5. read'.at = 3 /\ read'.kind = "candidate" /\ PageStands'
      BY <1>1, <2>1, <2>3, Advanced DEF Advances
    <2>6. PageRead'
      BY <2>4, <2>5 DEF PageRead
    <2> QED BY <2>1, <2>3, <2>6, Advanced DEF ReadInv
  <1> QED BY <1>2, <1>3

(* Every row of the page is still counted. *)
LEMMA ReadCount ==
    ASSUME Inv, ReadInv, count
    PROVE  ReadInv'
  <1>1. read.kind = "page" /\ read.at = 3 /\ PageStands /\ ItemsFollow
    BY StatementOrder DEF count, ReadInv, PageRead
  <1>2. PICK n : n = Cardinality(Listed(read.status))
    OBVIOUS
  <1>3. /\ Advances /\ read'.page = read.page /\ read'.shown = read.shown
        /\ read'.total = n
    BY <1>2, StatementFields DEF count, ReadInv
  <1>4. read.status = AnyStatus => Cardinality(DOMAIN read.page) <= n
    <2> SUFFICES ASSUME read.status = AnyStatus
                 PROVE  Cardinality(DOMAIN read.page) <= n
      OBVIOUS
    <2>1. DOMAIN read.page \subseteq Listed(read.status)
      BY <1>1 DEF PageStands, Remembers, Listed, Stored
    <2>2. IsFiniteSet(Listed(read.status))
      <3>1. Listed(read.status) \subseteq Ids
        BY DEF Listed, Stored
      <3> QED BY <3>1, IdsAssumption, FS_Subset
    <2> QED BY <1>2, <2>1, <2>2, FS_Subset
  <1>5. /\ read'.at = 4 /\ read'.kind = "page" /\ PageStands' /\ ItemsFollow'
        /\ read'.status = read.status
    BY <1>1, <1>3, Advanced DEF Advances
  <1>6. PageRead'
    BY <1>3, <1>4, <1>5 DEF PageRead
  <1> QED BY <1>1, <1>3, <1>6, Advanced DEF ReadInv

(* Final rows of the page are counted under their status. *)
LEMMA ReadStatusCounts ==
    ASSUME Inv, ReadInv, count_by_status
    PROVE  ReadInv'
  <1>1. /\ read.kind = "page" /\ read.at = 4 /\ PageStands /\ ItemsFollow
        /\ read.status = AnyStatus => Cardinality(DOMAIN read.page) <= read.total
    BY StatementOrder DEF count_by_status, ReadInv, PageRead
  <1>2. PICK column : column = [id \in Ids |-> assessments[id].status]
    OBVIOUS
  <1>3. PICK f : f = Counts(Stored, column)
    OBVIOUS
  <1>4. /\ Advances /\ read'.page = read.page /\ read'.shown = read.shown
        /\ read'.total = read.total /\ read'.status_counts = f
    BY <1>2, <1>3, StatementFields DEF count_by_status, ReadInv
  <1>5. ASSUME NEW s \in Final, Shows(s) # {}
        PROVE  s \in DOMAIN f /\ Cardinality(Shows(s)) <= f[s]
    <2>1. PICK T : T = {id \in Stored : column[id] = s}
      OBVIOUS
    <2>2. Shows(s) \subseteq T
      BY <1>1, <1>2, <1>5, <2>1 DEF Shows, PageStands, Remembers, Stored
    <2>3. s \in {column[id] : id \in Stored}
      BY <1>5, <2>1, <2>2
    <2>4. s \in DOMAIN f /\ f[s] = Cardinality(T)
      BY <1>3, <2>1, <2>3 DEF Counts
    <2>5. IsFiniteSet(T)
      <3>1. T \subseteq Ids
        BY <2>1 DEF Stored
      <3> QED BY <3>1, IdsAssumption, FS_Subset
    <2> QED BY <2>2, <2>4, <2>5, FS_Subset
  <1>6. /\ read'.at = 5 /\ read'.kind = "page" /\ PageStands' /\ ItemsFollow'
        /\ read'.status = read.status
    BY <1>1, <1>4, Advanced DEF Advances
  <1>7. FinalRowsCounted'
    BY <1>4, <1>5 DEF FinalRowsCounted, Shows
  <1>8. PageRead'
    BY <1>1, <1>4, <1>6, <1>7 DEF PageRead
  <1> QED BY <1>1, <1>4, <1>8, Advanced DEF ReadInv

(* The other facets disturb nothing that was read before. *)
LEMMA ReadFacets ==
    ASSUME Inv, ReadInv, count_by_gate_decision \/ count_by_review_status
    PROVE  ReadInv'
  <1>1. /\ read.kind = "page" /\ read.at \in 5..6 /\ PageStands /\ ItemsFollow
        /\ read.status = AnyStatus => Cardinality(DOMAIN read.page) <= read.total
        /\ FinalRowsCounted
    BY StatementOrder DEF count_by_gate_decision, count_by_review_status, ReadInv, PageRead
  <1>2. /\ Advances /\ read'.page = read.page /\ read'.shown = read.shown
        /\ read'.total = read.total /\ read'.status_counts = read.status_counts
    BY StatementFields DEF count_by_gate_decision, count_by_review_status, ReadInv
  <1>3. /\ read'.at \in 6..7 /\ read'.kind = "page" /\ PageStands' /\ ItemsFollow'
        /\ read'.status = read.status
    BY <1>1, <1>2, Advanced DEF Advances
  <1>4. FinalRowsCounted'
    BY <1>1, <1>2 DEF FinalRowsCounted, Shows
  <1>5. PageRead'
    BY <1>1, <1>2, <1>3, <1>4 DEF PageRead
  <1> QED BY <1>1, <1>2, <1>5, Advanced DEF ReadInv

(* A read begins and ends without an answer. *)
LEMMA ReadBegins ==
    ASSUME ReadInv, BeginPage \/ BeginCandidate \/ Answer
    PROVE  ReadInv'
  <1>1. \A id \in Ids : Explained(assessments'[id], states'[id])
    BY DEF ReadInv, BeginPage, BeginCandidate, Answer, vars
  <1>2. /\ ReadShape' /\ read'.kind \in {"none", "page", "candidate"} /\ read'.at = 1
        /\ read'.kind = "none" => read' = NoRead
    <2>1. ASSUME NEW kind \in {"none", "page", "candidate"}, NEW status, NEW limit,
                 read' = [kind |-> kind, at |-> 1, status |-> status, limit |-> limit,
                          page |-> <<>>, shown |-> <<>>, total |-> 0, status_counts |-> <<>>,
                          decision_counts |-> <<>>, review_counts |-> <<>>, commits |-> 0]
          PROVE  ReadShape' /\ read'.kind = kind /\ read'.at = 1
      BY <2>1 DEF ReadShape
    <2>2. CASE BeginPage
      <3>1. PICK status \in Filters, limit \in PageSizes :
                read' = [NoRead EXCEPT !.kind = "page", !.status = status, !.limit = limit]
        BY <2>2 DEF BeginPage
      <3>2. read' = [kind |-> "page", at |-> 1, status |-> status, limit |-> limit,
                     page |-> <<>>, shown |-> <<>>, total |-> 0, status_counts |-> <<>>,
                     decision_counts |-> <<>>, review_counts |-> <<>>, commits |-> 0]
        BY <3>1 DEF NoRead
      <3> QED BY <2>1, <3>2
    <2>3. CASE BeginCandidate
      <3>1. read' = [kind |-> "candidate", at |-> 1, status |-> AnyStatus, limit |-> 0,
                     page |-> <<>>, shown |-> <<>>, total |-> 0, status_counts |-> <<>>,
                     decision_counts |-> <<>>, review_counts |-> <<>>, commits |-> 0]
        BY <2>3 DEF BeginCandidate, NoRead
      <3> QED BY <2>1, <3>1
    <2>4. CASE Answer
      BY <2>1, <2>4 DEF Answer, NoRead
    <2> QED BY <2>2, <2>3, <2>4
  <1>3. PageRead'
    BY <1>2 DEF PageRead
  <1> QED BY <1>1, <1>2, <1>3 DEF ReadInv

(* A commit leaves the reader alone, but for the count of commits. *)
LEMMA CommitFields ==
    ASSUME ReadInv, OtherCommits
    PROVE  /\ ReadShape' /\ read'.kind = read.kind /\ read'.at = read.at
           /\ read'.status = read.status /\ read'.page = read.page
           /\ read'.shown = read.shown /\ read'.total = read.total
           /\ read'.status_counts = read.status_counts
           /\ read'.decision_counts = read.decision_counts
           /\ read'.review_counts = read.review_counts
           /\ read = NoRead => read' = NoRead
  <1>1. CASE read = NoRead
    BY <1>1 DEF OtherCommits, ReadInv, ReadShape
  <1>2. CASE read # NoRead
    <2>1. read' = [read EXCEPT !.commits = read.commits + 1]
      BY <1>2 DEF OtherCommits
    <2>2. read' = [kind |-> read.kind, at |-> read.at, status |-> read.status,
                   limit |-> read.limit, page |-> read.page, shown |-> read.shown,
                   total |-> read.total, status_counts |-> read.status_counts,
                   decision_counts |-> read.decision_counts,
                   review_counts |-> read.review_counts, commits |-> read.commits + 1]
      BY <2>1 DEF ReadInv, ReadShape
    <2> QED BY <1>2, <2>2 DEF ReadShape
  <1> QED BY <1>1, <1>2

(* A commit between two statements takes back nothing the answer says. *)
LEMMA ReadAcrossCommits ==
    ASSUME Inv, ReadInv, OtherCommits
    PROVE  ReadInv'
  <1>1. \A id \in Ids : Moves(assessments[id], states[id], assessments'[id], states'[id])
    BY RowMoves DEF OtherCommits
  <1>2. \A id \in Ids : Explained(assessments'[id], states'[id])
    BY <1>1 DEF Moves, ReadInv
  <1>3. /\ ReadShape' /\ read'.kind = read.kind /\ read'.at = read.at
        /\ read'.status = read.status /\ read'.page = read.page
        /\ read'.shown = read.shown /\ read'.total = read.total
        /\ read'.status_counts = read.status_counts
        /\ read = NoRead => read' = NoRead
    BY CommitFields
  <1>4. PageStands => PageStands'
    <2> SUFFICES ASSUME PageStands, NEW id \in DOMAIN read.page
                 PROVE  Remembers(assessments'[id], states'[id], read.page[id])
      BY <1>3 DEF PageStands
    <2> QED BY <1>1 DEF PageStands, Remembers, Moves
  <1>5. ItemsFollow => ItemsFollow'
    BY <1>3 DEF ItemsFollow
  <1>6. FinalRowsCounted => FinalRowsCounted'
    BY <1>3 DEF FinalRowsCounted, Shows
  <1>7. read.kind = "candidate" => ~(read.at > 2)
    BY DEF OtherCommits, Complete, Statements, get_review_candidate, ReadInv
  <1>8. PageRead'
    BY <1>3, <1>4, <1>5, <1>6, <1>7 DEF PageRead, ReadInv
  <1> QED BY <1>2, <1>3, <1>8 DEF ReadInv

(* ReadInv is inductive relative to Inv. *)
LEMMA ReadInvStep == Inv /\ ReadInv /\ [ReadNext]_readVars => ReadInv'
  <1> SUFFICES ASSUME Inv, ReadInv, [ReadNext]_readVars
               PROVE  ReadInv'
    OBVIOUS
  <1>1. CASE UNCHANGED readVars
    BY <1>1 DEF readVars, vars, ReadInv, ReadShape, PageRead, PageStands, ItemsFollow,
                FinalRowsCounted, Shows, CandidateShown
  <1> QED
    BY <1>1, ReadPage, ReadCheckpoints, ReadCount, ReadStatusCounts, ReadFacets,
       ReadBegins, ReadAcrossCommits DEF ReadNext

(* What a complete answer says. *)
LEMMA ReadAnswer == ReadInv => ItemsAreExplained /\ CandidateIsCurrent
  <1> SUFFICES ASSUME ReadInv PROVE ItemsAreExplained /\ CandidateIsCurrent
    OBVIOUS
  <1>1. ItemsAreExplained
    <2> SUFFICES ASSUME Complete, read.kind = "page" PROVE ItemsAreExplained
      BY DEF ItemsAreExplained
    <2>1. read.at = 7
      BY DEF Complete, Statements, list_assessments, ReadInv, PageRead
    <2>2. /\ ItemsFollow /\ FinalRowsCounted
          /\ read.status = AnyStatus => Cardinality(DOMAIN read.page) <= read.total
      BY <2>1 DEF ReadInv, PageRead
    <2> QED BY <2>2 DEF ItemsAreExplained, ItemsFollow, FinalRowsCounted, Shows
  <1>2. CandidateIsCurrent
    <2> SUFFICES ASSUME Complete, read.kind = "candidate" PROVE CandidateIsCurrent
      BY DEF CandidateIsCurrent
    <2>1. read.at = 3
      BY DEF Complete, Statements, get_review_candidate, ReadInv, PageRead
    <2>2. CandidateShown
      BY <2>1 DEF ReadInv, PageRead
    <2> QED BY <2>2, Zenon DEF CandidateIsCurrent, CandidateShown
  <1> QED BY <1>1, <1>2

(* The counts of a column sum up to the number of rows. *)
LEMMA CountsTotal ==
    ASSUME NEW S, IsFiniteSet(S), NEW column
    PROVE  Total(Counts(S, column)) = Cardinality(S)
  <1> DEFINE With(v) == {id \in S : column[id] = v}
             D == {column[id] : id \in S}
  <1>1. PICK c : c = Counts(S, column)
    OBVIOUS
  <1>2. /\ DOMAIN c = D
        /\ \A v \in D : c[v] = Cardinality(With(v))
    BY <1>1 DEF Counts
  <1>3. ASSUME NEW v \in D
        PROVE  \E f : f \in Bijection(With(v), 1..c[v])
    <2>1. PICK W : W = With(v)
      OBVIOUS
    <2>2. IsFiniteSet(W)
      BY <2>1, FS_Subset
    <2>3. Cardinality(W) = c[v] /\ c[v] \in Nat /\ ExistsBijection(1..Cardinality(W), W)
      BY <1>2, <1>3, <2>1, <2>2, FS_CardinalityType
    <2>4. ExistsBijection(W, 1..c[v])
      BY <2>3, Fun_ExistsBijSymmetric
    <2> QED BY <2>1, <2>4 DEF ExistsBijection
  <1>4. PICK F : F = [v \in D |-> CHOOSE f : f \in Bijection(With(v), 1..c[v])]
    OBVIOUS
  <1>5. ASSUME NEW v \in D
        PROVE  /\ F[v] \in [With(v) -> 1..c[v]]
               /\ \A a, b \in With(v) : F[v][a] = F[v][b] => a = b
               /\ \A k \in 1..c[v] : \E a \in With(v) : F[v][a] = k
    <2>1. F[v] \in Bijection(With(v), 1..c[v])
      BY <1>3, <1>4, Zenon
    <2>2. PICK W, g : W = With(v) /\ g = F[v]
      OBVIOUS
    <2>3. g \in Bijection(W, 1..c[v])
      BY <2>1, <2>2
    <2>4. /\ g \in [W -> 1..c[v]]
          /\ \A a, b \in W : g[a] = g[b] => a = b
          /\ \A k \in 1..c[v] : \E a \in W : g[a] = k
      BY <2>3 DEF Bijection, Injection, Surjection, IsInjective
    <2> QED BY <2>2, <2>4, Zenon
  <1>6. PICK H : H = [id \in S |-> <<column[id], F[column[id]][id]>>]
    OBVIOUS
  <1>7. ASSUME NEW id \in S
        PROVE  column[id] \in D /\ id \in With(column[id])
    OBVIOUS
  <1> HIDE DEF D
  <1>8. ASSUME NEW v \in D, NEW id \in With(v)
        PROVE  id \in S /\ column[id] = v
    BY <1>8
  <1> HIDE DEF With
  <1>9. \A p : p \in Counted(c) <=> \E v \in D : \E k \in 1..c[v] : p = <<v, k>>
    BY <1>2 DEF Counted
  <1>10. H \in [S -> Counted(c)]
    <2>1. ASSUME NEW id \in S
          PROVE  <<column[id], F[column[id]][id]>> \in Counted(c)
      BY <1>5, <1>7, <1>9
    <2> QED BY <1>6, <2>1
  <1>11. ASSUME NEW a \in S, NEW b \in S, H[a] = H[b]
         PROVE  a = b
    <2>1. column[a] = column[b] /\ F[column[a]][a] = F[column[b]][b]
      BY <1>6, <1>11
    <2> QED BY <1>5, <1>7, <2>1
  <1>12. ASSUME NEW p \in Counted(c)
         PROVE  \E id \in S : H[id] = p
    <2>0. PICK v \in D : \E k \in 1..c[v] : p = <<v, k>>
      BY <1>9
    <2>1. PICK k \in 1..c[v] : p = <<v, k>>
      BY <2>0
    <2>2. PICK id \in With(v) : F[v][id] = k
      BY <1>5
    <2>3. id \in S /\ column[id] = v
      BY <1>8
    <2> QED BY <1>6, <2>1, <2>2, <2>3
  <1>13. ExistsBijection(S, Counted(c))
    <2>1. H \in Bijection(S, Counted(c))
      BY <1>10, <1>11, <1>12, Fun_IsBij
    <2> QED BY <2>1 DEF ExistsBijection
  <1>14. Cardinality(Counted(c)) = Cardinality(S)
    BY <1>13, FS_Bijection
  <1> QED BY <1>1, <1>14 DEF Total

(* The items that show a decision. *)
Judged == {id \in DOMAIN read.page : read.shown[id].decision # "none"}

(* What a page says of the facets, statement by statement; the tables only  *)
(* grow, so that a count made later is not smaller.                         *)
FacetInv ==
    read.kind = "page" =>
        /\ read.at > 2 => \A id \in Judged : Exists(states[id])
        /\ read.at > 3 => read.total \in Nat /\ read.total <= Cardinality(Stored)
        /\ read.at > 4 => read.total <= Total(read.status_counts)
        /\ read.at > 5 =>
            /\ Total(read.decision_counts) \in Nat
            /\ Cardinality(Judged) <= Total(read.decision_counts)
            /\ Total(read.decision_counts) <= Cardinality(WithState)
        /\ read.at > 6 => Total(read.decision_counts) <= Total(read.review_counts)

(* The sets of rows that are counted are finite. *)
LEMMA CountedRows ==
    /\ IsFiniteSet(Stored) /\ Cardinality(Stored) \in Nat
    /\ IsFiniteSet(WithState) /\ Cardinality(WithState) \in Nat
    /\ \A status : /\ IsFiniteSet(Listed(status)) /\ Cardinality(Listed(status)) \in Nat
                   /\ Cardinality(Listed(status)) <= Cardinality(Stored)
  <1>1. Stored \subseteq Ids /\ WithState \subseteq Ids
    BY DEF Stored, WithState
  <1>2. IsFiniteSet(Stored) /\ IsFiniteSet(WithState)
    BY <1>1, IdsAssumption, FS_Subset
  <1>3. Cardinality(Stored) \in Nat /\ Cardinality(WithState) \in Nat
    BY <1>2, FS_CardinalityType
  <1>4. ASSUME NEW status
        PROVE  /\ IsFiniteSet(Listed(status)) /\ Cardinality(Listed(status)) \in Nat
               /\ Cardinality(Listed(status)) <= Cardinality(Stored)
    <2>1. Listed(status) \subseteq Stored
      BY DEF Listed
    <2>2. IsFiniteSet(Listed(status)) /\ Cardinality(Listed(status)) <= Cardinality(Stored)
      BY <1>2, <2>1, FS_Subset
    <2> QED BY <2>2, FS_CardinalityType
  <1> QED BY <1>2, <1>3, <1>4

(* No transaction takes away a row or a checkpoint. *)
LEMMA TablesGrow ==
    ASSUME Inv, Next
    PROVE  /\ Cardinality(Stored) <= Cardinality(Stored')
           /\ Cardinality(WithState) <= Cardinality(WithState')
           /\ Cardinality(Stored') \in Nat /\ Cardinality(WithState') \in Nat
  <1>1. Stored \subseteq Stored' /\ WithState \subseteq WithState'
    BY RowMoves DEF Moves, Stored, WithState, HasState
  <1>2. Stored' \subseteq Ids /\ WithState' \subseteq Ids
    BY DEF Stored, WithState
  <1>3. IsFiniteSet(Stored') /\ IsFiniteSet(WithState')
    BY <1>2, IdsAssumption, FS_Subset
  <1> QED BY <1>1, <1>3, FS_Subset, FS_CardinalityType

(* FacetInv is inductive relative to Inv and ReadInv. *)
LEMMA FacetInvStep == Inv /\ ReadInv /\ FacetInv /\ [ReadNext]_readVars => FacetInv'
  <1> SUFFICES ASSUME Inv, ReadInv, FacetInv, [ReadNext]_readVars
               PROVE  FacetInv'
    OBVIOUS
  <1>1. CASE UNCHANGED readVars
    BY <1>1 DEF readVars, vars, FacetInv, Judged, Stored, WithState, HasState
  <1>2. CASE OtherCommits
    <2>1. Next
      BY <1>2 DEF OtherCommits
    <2>2. /\ read'.kind = read.kind /\ read'.at = read.at
          /\ Judged' = Judged /\ read'.total = read.total
          /\ read'.status_counts = read.status_counts
          /\ read'.decision_counts = read.decision_counts
          /\ read'.review_counts = read.review_counts
      BY <1>2, CommitFields DEF Judged
    <2>3. ASSUME read.kind = "page", read.at > 2, NEW id \in Judged
          PROVE  Exists(states'[id])
      <3>1. id \in Ids /\ Exists(states[id])
        BY <2>3 DEF FacetInv, ReadInv, PageRead, PageStands, Judged
      <3> QED BY <2>1, <3>1, RowMoves DEF Moves
    <2>4. /\ Cardinality(Stored) <= Cardinality(Stored')
          /\ Cardinality(WithState) <= Cardinality(WithState')
          /\ Cardinality(Stored') \in Nat /\ Cardinality(WithState') \in Nat
      BY <2>1, TablesGrow
    <2> QED BY <2>2, <2>3, <2>4, CountedRows DEF FacetInv
  <1>3. CASE BeginPage \/ BeginCandidate \/ Answer
    <2>1. read'.at = NoRead.at
      <3>1. "at" \in DOMAIN NoRead
        BY DEF NoRead
      <3> QED BY <1>3, <3>1 DEF BeginPage, BeginCandidate, Answer
    <2> QED BY <2>1 DEF FacetInv, NoRead
  <1>4. CASE get_by_id \/ get_state
    <2>1. read'.kind = "candidate"
      <3>1. read.kind = "candidate"
        BY <1>4, StatementOrder DEF get_by_id, get_state
      <3>2. Advances
        BY <1>4, StatementFields DEF get_by_id, get_state, ReadInv
      <3> QED BY <3>1, <3>2 DEF Advances
    <2> QED BY <2>1 DEF FacetInv
  <1>5. CASE list_page
    <2>1. read'.at = 2
      <3>1. read.at = 1
        BY <1>5, StatementOrder DEF list_page
      <3>2. Advances
        BY <1>5, StatementFields DEF list_page, ReadInv
      <3> QED BY <3>1, <3>2 DEF Advances
    <2> QED BY <2>1 DEF FacetInv
  <1>6. CASE get_states
    <2>1. PICK f : f = [id \in DOMAIN read.page |->
                [decision |-> states[id].decision, review |-> states[id].review]]
      OBVIOUS
    <2>2. read.at = 2 /\ Advances /\ read'.page = read.page /\ read'.shown = f
      BY <1>6, <2>1, StatementOrder, StatementFields DEF get_states, ReadInv
    <2>3. read'.at = 3 /\ states' = states
      BY <2>2 DEF Advances, vars
    <2>4. ASSUME NEW id \in Judged'
          PROVE  Exists(states'[id])
      BY <2>1, <2>2, <2>3, <2>4 DEF Judged, Exists
    <2> QED BY <2>3, <2>4 DEF FacetInv
  <1>7. CASE count
    <2>1. PICK n : n = Cardinality(Listed(read.status))
      OBVIOUS
    <2>2. /\ read.kind = "page" /\ read.at = 3 /\ Advances /\ read'.page = read.page
          /\ read'.shown = read.shown /\ read'.total = n
      BY <1>7, <2>1, StatementOrder, StatementFields DEF count, ReadInv
    <2>3. read'.at = 4 /\ states' = states /\ Stored' = Stored /\ Judged' = Judged
      BY <2>2 DEF Advances, vars, Stored, Judged
    <2>4. n \in Nat /\ n <= Cardinality(Stored)
      BY <2>1, CountedRows
    <2> QED BY <2>2, <2>3, <2>4 DEF FacetInv
  <1>8. CASE count_by_status
    <2>1. PICK f : f = Counts(Stored, [id \in Ids |-> assessments[id].status])
      OBVIOUS
    <2>2. /\ read.kind = "page" /\ read.at = 4 /\ Advances /\ read'.page = read.page
          /\ read'.shown = read.shown /\ read'.total = read.total /\ read'.status_counts = f
      BY <1>8, <2>1, StatementOrder, StatementFields DEF count_by_status, ReadInv
    <2>3. read'.at = 5 /\ states' = states /\ Stored' = Stored /\ Judged' = Judged
      BY <2>2 DEF Advances, vars, Stored, Judged
    <2>4. Total(f) = Cardinality(Stored)
      BY <2>1, CountedRows, CountsTotal
    <2> QED BY <2>2, <2>3, <2>4 DEF FacetInv
  <1>9. CASE count_by_gate_decision
    <2>1. PICK f : f = Counts(WithState, [id \in Ids |-> states[id].decision])
      OBVIOUS
    <2>2. /\ read.kind = "page" /\ read.at = 5 /\ Advances /\ read'.page = read.page
          /\ read'.shown = read.shown /\ read'.total = read.total
          /\ read'.status_counts = read.status_counts /\ read'.decision_counts = f
      BY <1>9, <2>1, StatementOrder, StatementFields DEF count_by_gate_decision, ReadInv
    <2>3. /\ read'.at = 6 /\ states' = states /\ Stored' = Stored /\ Judged' = Judged
          /\ WithState' = WithState
      BY <2>2 DEF Advances, vars, Stored, WithState, HasState, Judged
    <2>4. Total(f) = Cardinality(WithState) /\ Cardinality(WithState) \in Nat
      BY <2>1, CountedRows, CountsTotal
    <2>5. Cardinality(Judged) <= Cardinality(WithState)
      <3>1. Judged \subseteq WithState
        BY <2>2 DEF FacetInv, ReadInv, PageRead, PageStands, Judged, WithState, HasState
      <3> QED BY <3>1, CountedRows, FS_Subset
    <2> QED BY <2>2, <2>3, <2>4, <2>5 DEF FacetInv
  <1>10. CASE count_by_review_status
    <2>1. PICK f : f = Counts(WithState, [id \in Ids |-> states[id].review])
      OBVIOUS
    <2>2. /\ read.kind = "page" /\ read.at = 6 /\ Advances /\ read'.page = read.page
          /\ read'.shown = read.shown /\ read'.total = read.total
          /\ read'.status_counts = read.status_counts
          /\ read'.decision_counts = read.decision_counts /\ read'.review_counts = f
      BY <1>10, <2>1, StatementOrder, StatementFields DEF count_by_review_status, ReadInv
    <2>3. /\ read'.at = 7 /\ states' = states /\ Stored' = Stored /\ Judged' = Judged
          /\ WithState' = WithState
      BY <2>2 DEF Advances, vars, Stored, WithState, HasState, Judged
    <2>4. Total(f) = Cardinality(WithState)
      BY <2>1, CountedRows, CountsTotal
    <2> QED BY <2>2, <2>3, <2>4 DEF FacetInv
  <1> QED BY <1>1, <1>2, <1>3, <1>4, <1>5, <1>6, <1>7, <1>8, <1>9, <1>10 DEF ReadNext

(* What a complete page says of the facets. *)
LEMMA FacetsAnswer == ReadInv /\ FacetInv => FacetsCover
  <1> SUFFICES ASSUME ReadInv, FacetInv, Complete, read.kind = "page"
               PROVE  FacetsCover
    BY DEF FacetsCover
  <1>1. read.at = 7
    BY DEF Complete, Statements, list_assessments, ReadInv, PageRead
  <1> QED BY <1>1 DEF FacetInv, FacetsCover, Judged

(* Whatever commits between the statements of list_assessments and          *)
(* get_review_candidate: the items of a page are explained by what it shows *)
(* of their checkpoints and counted in its total and its facets, and a      *)
(* reviewer is shown the candidate that an approval published.              *)
THEOREM ReadsSafe == ReadSpec => []ReadsAreExplicable
  <1>1. ReadInit => ReadInv /\ FacetInv
    <2> SUFFICES ASSUME ReadInit PROVE ReadInv /\ FacetInv
      OBVIOUS
    <2>1. \A id \in Ids : Explained(assessments[id], states[id])
      BY DEF ReadInit, Init, NoRow, NoState, Explained
    <2>2. read = NoRead /\ ReadShape /\ read.kind = "none" /\ read.at = 1
      BY DEF ReadInit, NoRead, ReadShape
    <2> QED BY <2>1, <2>2 DEF ReadInv, PageRead, FacetInv
  <1>2. ReadSpec => []Inv
    BY ReadsChangeNothing, Invariance, PTL
  <1>3. ReadSpec => []ReadInv
    BY <1>1, <1>2, ReadInvStep, PTL DEF ReadSpec
  <1>4. ReadSpec => []FacetInv
    BY <1>1, <1>2, <1>3, FacetInvStep, PTL DEF ReadSpec
  <1>5. ReadInv /\ FacetInv => ReadsAreExplicable
    BY ReadAnswer, FacetsAnswer DEF ReadsAreExplicable, PageIsExplicable
  <1> QED BY <1>3, <1>4, <1>5, PTL
=============================================================================
