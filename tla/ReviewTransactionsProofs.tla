----------------------- MODULE ReviewTransactionsProofs -----------------------
(***************************************************************************)
(* Proofs about ReviewTransactions: for any number of concurrent requests, *)
(* assessments, faults and deployments, the row lock protects what was     *)
(* checked, answers are durable, review telemetry is committed first, and  *)
(* the requests implement ReviewLifecycle.                                 *)
(***************************************************************************)
EXTENDS ReviewTransactions, TLAPS

-----------------------------------------------------------------------------
(* The inductive invariant.                                                *)

Config == [gate : BOOLEAN, max : 0..MaxHumanRevisions]

Places ==
    {"idle", "created", "generating", "persist_failure", "reading_state",
     "committing", "exporting"} \cup Answers

RequestRecord ==
    [kind : {"none", "generate"} \cup ReviewKinds, at : Places,
     id : Ids \cup {NoRequest}, config : Config,
     row : FullRow, state : StateRow, event : Seq(Event)]

TypeOK ==
    /\ assessments \in [Ids -> FullRow]
    /\ states \in [Ids -> StateRow]
    /\ events \in [Ids -> Seq(Event)]
    /\ lock \in [Ids -> Requests \cup {NoRequest}]
    /\ requests \in [Requests -> RequestRecord]
    /\ settings \in Config
    /\ exported \subseteq [id : Ids, review : HumanReviewStatus, revision : Nat]

Unsettled == {"absent", "pending", "processing"}

HumanDecisions == {"approved", "rejected", "revision_requested"}

(* One row and its checkpoint: no checkpoint before the generation settles, *)
(* and execution metadata of what the row shows.                            *)
RowInv(a, s) ==
    /\ a.status \in Unsettled => s = NoState
    /\ a.status = "completed" => a.execution = a.result
    /\ a.status = "pending_review" => a.execution = s.candidate
    /\ a.status = "failed" => a.execution = NoCandidate

(* The execution column of a gated candidate. *)
GatedExecution(c, d) == IF d = "block_and_escalate" THEN NoCandidate ELSE c

(* What a generation has flushed when it commits. *)
GenerateWrites(q) ==
    \/ \E c \in Candidates :
        /\ q.row = WithExecution(mark_completed(c), c)
        /\ q.state = NoState /\ q.event = <<>>
    \/ \E c \in Candidates, d \in RuntimeRiskDecision :
        /\ q.row = WithExecution(GatedRow(c, d), GatedExecution(c, d))
        /\ q.state = GatedState(c, d, 0, q.config.max)
        /\ q.event = RequestEvents(d)

(* What a review has flushed when it commits, computed from the row a and   *)
(* the checkpoint s that are still in the tables.                           *)
ReviewWrites(q, a, s) ==
    /\ MayReview(q.kind, s)
    /\ q.kind = "approve" =>
        /\ q.row = WithExecution(mark_completed(s.candidate), s.candidate)
        /\ q.state = Decided(s, "approved")
        /\ q.event = <<DecisionEvent(s, "approved")>>
    /\ q.kind = "reject" =>
        /\ q.row = WithExecution(mark_failed("human_review_rejected"), NoCandidate)
        /\ q.state = Decided(s, "rejected")
        /\ q.event = <<DecisionEvent(s, "rejected")>>
    /\ q.kind = "request_revision" =>
        /\ q.row = a
        /\ q.state = RevisionRequested(s)
        /\ q.event = <<RevisionRequestEvent(s)>>
    /\ q.kind = "resume_revision" =>
        \E c \in Candidates, d \in RuntimeRiskDecision :
            /\ q.row = WithExecution(GatedRow(c, d), GatedExecution(c, d))
            /\ q.state = Resumed(s, c, d, q.config.max)
            /\ RevisionBounds(q.state)
            /\ q.event = <<ResumeEvent(s, d)>>

(* What a request that has committed tells its client. *)
Told(q, a, s) ==
    /\ q.kind = "approve" => a.status = "completed" /\ s.review = "approved"
    /\ q.kind = "reject" => a.error = "human_review_rejected" /\ s.review = "rejected"
    /\ q.kind = "generate" => a.status \notin Unsettled

Recorded(e, review, revision) ==
    review \in HumanDecisions =>
        \E i \in 1..Len(e) : e[i].new = review /\ e[i].revision = revision

(* Request r with record q, whose assessment has row a, checkpoint s,       *)
(* history e and lock l.                                                    *)
RequestInv(r, q, a, s, e, l) ==
    /\ q.at = "created" => q.kind = "generate" /\ a.status = "pending"
    /\ q.at \in {"generating", "persist_failure"} =>
        q.kind = "generate" /\ a.status = "processing"
    /\ q.at \in {"created", "generating", "persist_failure"} =>
        q.state = NoState /\ q.event = <<>>
    /\ q.at = "persist_failure" =>
        q.row = WithExecution(mark_failed("generation_failed"), NoCandidate)
    /\ q.at = "reading_state" => q.kind \in ReviewKinds
    /\ q.at = "committing" =>
        \/ q.kind = "generate" /\ a.status = "processing" /\ GenerateWrites(q)
        \/ q.kind \in ReviewKinds /\ l = r /\ ReviewWrites(q, a, s)
    /\ q.at = "exporting" =>
        /\ q.kind \in ReviewKinds
        /\ Told(q, a, s)
        /\ Recorded(e, q.state.review, q.state.revision)
    /\ q.at = "ok" => Told(q, a, s)

Rows == \A id \in Ids : RowInv(assessments[id], states[id])

RequestAt(r) ==
    LET q == requests[r]
    IN  /\ q.at # "idle" => q.id \in Ids
        /\ RequestInv(r, q, assessments[q.id], states[q.id], events[q.id], lock[q.id])

(* Only a review that waits to commit holds a row lock. *)
Reviewing(q) == q.at = "committing" /\ q.kind \in ReviewKinds

Locks ==
    \A id \in Ids : lock[id] # NoRequest =>
        requests[lock[id]].id = id /\ Reviewing(requests[lock[id]])

(* A row that is being generated belongs to one request. *)
Generating(q) ==
    q.kind = "generate" /\ q.at \in {"created", "generating", "persist_failure", "committing"}

Owners ==
    \A r1, r2 \in Requests :
        /\ Generating(requests[r1]) /\ Generating(requests[r2])
        /\ requests[r1].id = requests[r2].id
        => r1 = r2

Inv ==
    /\ TypeOK
    /\ Rows
    /\ \A r \in Requests : RequestAt(r)
    /\ Locks
    /\ Owners
    /\ ReviewExportIsCommitted

-----------------------------------------------------------------------------
(* Types of what the requests write.                                       *)

(* A row with its execution column is a row of the table. *)
LEMMA RowTypes ==
    /\ NoFullRow \in FullRow
    /\ WithExecution(create, NoCandidate) \in FullRow
    /\ \A a \in FullRow :
        mark_processing(a) \in FullRow /\ mark_processing(a).status = "processing"
    /\ \A c \in Candidates : WithExecution(mark_completed(c), c) \in FullRow
    /\ \A code \in ErrorCodes : WithExecution(mark_failed(code), NoCandidate) \in FullRow
    /\ \A c \in Candidates, d \in RuntimeRiskDecision :
        WithExecution(GatedRow(c, d), GatedExecution(c, d)) \in FullRow
  <1> USE DEF FullRow, AssessmentStatus, ErrorCodes, Payload, WithExecution
  <1>1. NoFullRow \in FullRow /\ WithExecution(create, NoCandidate) \in FullRow
    BY DEF NoFullRow, NoRow, create
  <1>2. \A a \in FullRow :
            mark_processing(a) \in FullRow /\ mark_processing(a).status = "processing"
    BY DEF mark_processing
  <1>3. \A c \in Candidates : WithExecution(mark_completed(c), c) \in FullRow
    BY DEF mark_completed
  <1>4. \A code \in ErrorCodes : WithExecution(mark_failed(code), NoCandidate) \in FullRow
    BY DEF mark_failed
  <1>5. \A c \in Candidates, d \in RuntimeRiskDecision :
            WithExecution(GatedRow(c, d), GatedExecution(c, d)) \in FullRow
    BY DEF GatedRow, GatedExecution, mark_completed, mark_failed, mark_pending_review
  <1> QED BY <1>1, <1>2, <1>3, <1>4, <1>5

(* The same for checkpoints and events. *)
LEMMA StateTypes ==
    /\ NoState \in StateRow
    /\ \A c \in Candidates, d \in RuntimeRiskDecision, n, max \in Nat :
        GatedState(c, d, n, max) \in StateRow
    /\ \A d \in RuntimeRiskDecision : RequestEvents(d) \in Seq(Event)
    /\ \A s \in StateRow :
        /\ Decided(s, "approved") \in StateRow /\ Decided(s, "rejected") \in StateRow
        /\ RevisionRequested(s) \in StateRow
        /\ DecisionEvent(s, "approved") \in Event /\ DecisionEvent(s, "rejected") \in Event
        /\ RevisionRequestEvent(s) \in Event
        /\ \A d \in RuntimeRiskDecision : ResumeEvent(s, d) \in Event
        /\ \A c \in Candidates, d \in RuntimeRiskDecision, max \in Nat :
            Resumed(s, c, d, max) \in StateRow
  <1> USE DEF HumanReviewStatus, HumanReviewAction
  <1>1. NoState \in StateRow
    BY DEF NoState, StateRow, Payload
  <1>2. \A d \in RuntimeRiskDecision : GatedReview(d) \in {"pending", "not_required"}
    BY DEF GatedReview
  <1>3. \A c \in Candidates, d \in RuntimeRiskDecision, n, max \in Nat :
            GatedState(c, d, n, max) \in StateRow
    BY <1>2 DEF GatedState, StateRow, Payload
  <1>4. ReviewEvent("requested", "not_required", "pending", 0) \in Event
    BY DEF ReviewEvent, Event
  <1>5. \A d \in RuntimeRiskDecision : RequestEvents(d) \in Seq(Event)
    BY <1>4 DEF RequestEvents
  <1>6. ASSUME NEW s \in StateRow
        PROVE  /\ Decided(s, "approved") \in StateRow /\ Decided(s, "rejected") \in StateRow
               /\ RevisionRequested(s) \in StateRow
               /\ DecisionEvent(s, "approved") \in Event /\ DecisionEvent(s, "rejected") \in Event
               /\ RevisionRequestEvent(s) \in Event
               /\ \A d \in RuntimeRiskDecision : ResumeEvent(s, d) \in Event
               /\ \A c \in Candidates, d \in RuntimeRiskDecision, max \in Nat :
                    Resumed(s, c, d, max) \in StateRow
    <2>1. s.revision \in Nat /\ s.revision + 1 \in Nat
      BY DEF StateRow
    <2>2. Decided(s, "approved") \in StateRow /\ Decided(s, "rejected") \in StateRow
      BY DEF Decided, StateRow
    <2>3. RevisionRequested(s) \in StateRow
      BY <2>1 DEF RevisionRequested, StateRow
    <2>4. DecisionEvent(s, "approved") \in Event /\ DecisionEvent(s, "rejected") \in Event
      BY <2>1 DEF DecisionEvent, ReviewEvent, Event
    <2>5. RevisionRequestEvent(s) \in Event
      BY <2>1 DEF RevisionRequestEvent, ReviewEvent, Event
    <2>6. \A d \in RuntimeRiskDecision : ResumeEvent(s, d) \in Event
      BY <2>1, <1>2 DEF ResumeEvent, ReviewEvent, Event, StateRow
    <2>7. \A c \in Candidates, d \in RuntimeRiskDecision, max \in Nat :
            Resumed(s, c, d, max) \in StateRow
      BY <2>1, <1>3 DEF Resumed
    <2> QED BY <2>2, <2>3, <2>4, <2>5, <2>6, <2>7
  <1> QED BY <1>1, <1>3, <1>5, <1>6

(* Idle and the record of an answered request are request records. *)
LEMMA RecordTypes ==
    /\ Idle \in RequestRecord /\ Idle.at = "idle"
    /\ \A q \in RequestRecord, answer \in Answers :
        [Idle EXCEPT !.kind = q.kind, !.id = q.id, !.at = answer] \in RequestRecord
  <1>1. [gate |-> FALSE, max |-> 0] \in Config
    BY RevisionAssumption DEF Config
  <1>2. Idle \in RequestRecord /\ Idle.at = "idle"
    BY <1>1, RowTypes, StateTypes DEF Idle, RequestRecord, Places
  <1>3. ASSUME NEW q \in RequestRecord, NEW answer \in Answers
        PROVE  [Idle EXCEPT !.kind = q.kind, !.id = q.id, !.at = answer] \in RequestRecord
    <2>1. /\ q.kind \in {"none", "generate"} \cup ReviewKinds
          /\ q.id \in Ids \cup {NoRequest} /\ answer \in Places
      BY DEF RequestRecord, Places
    <2> QED BY <1>2, <2>1 DEF RequestRecord
  <1> QED BY <1>2, <1>3

(* The limit of every deployment is a natural number. *)
LEMMA ConfigTypes ==
    /\ \A q \in RequestRecord :
        q.config \in Config /\ q.config.max \in Nat /\ q.config.max \in 0..MaxHumanRevisions
    /\ Settings \subseteq Config
  BY SettingsAssumption, RevisionAssumption DEF Config, RequestRecord

-----------------------------------------------------------------------------
(* What a commit of one request leaves of the others.                      *)

(* A review acts on a checkpoint that waits for one. *)
LEMMA ReviewOpen ==
    ASSUME NEW s, NEW kind \in ReviewKinds, MayReview(kind, s)
    PROVE  Exists(s) /\ s.review \in {"pending", "revision_requested"} /\ s # NoState
  <1>1. CASE kind = "approve"
    BY <1>1 DEF MayReview, MayApprove, PendingState, Exists, NoState
  <1>2. CASE kind = "reject"
    BY <1>2 DEF MayReview, MayReject, PendingState, Exists, NoState
  <1>3. CASE kind = "request_revision"
    BY <1>3 DEF MayReview, MayRequestRevision, PendingState, Exists, NoState
  <1>4. CASE kind = "resume_revision"
    BY <1>4 DEF MayReview, MayResume, Exists, NoState
  <1> QED BY <1>1, <1>2, <1>3, <1>4 DEF ReviewKinds

(* A recorded decision stays recorded. *)
LEMMA RecordedGrows ==
    ASSUME NEW e \in Seq(Event), NEW x \in Seq(Event), NEW review, NEW revision,
           Recorded(e, review, revision)
    PROVE  Recorded(e \o x, review, revision)
  <1>1. /\ Len(e \o x) = Len(e) + Len(x) /\ Len(e) \in Nat /\ Len(x) \in Nat
        /\ \A i \in 1..Len(e) : (e \o x)[i] = e[i]
    OBVIOUS
  <1>2. \A i \in 1..Len(e) : i \in 1..Len(e \o x)
    BY <1>1
  <1> QED BY <1>1, <1>2 DEF Recorded

(* While a row is not settled, nobody but its generator depends on it. *)
LEMMA OthersWhileGenerating ==
    ASSUME NEW r, NEW q, NEW a, NEW s, NEW e \in Seq(Event), NEW l, NEW a2, NEW s2,
           NEW x \in Seq(Event), NEW l2,
           RowInv(a, s), a.status \in Unsettled, ~Generating(q),
           RequestInv(r, q, a, s, e, l)
    PROVE  RequestInv(r, q, a2, s2, e \o x, l2)
  <1>1. s = NoState /\ s.review = "not_required"
    BY DEF RowInv, NoState
  <1>2. q.at \notin {"created", "generating", "persist_failure"}
    BY DEF RequestInv, Generating
  <1>3. q.at # "committing"
    <2>1. ~\E kind \in ReviewKinds : MayReview(kind, s)
      BY <1>1, ReviewOpen
    <2> QED BY <2>1 DEF RequestInv, Generating, ReviewWrites
  <1>4. q.at \in {"exporting", "ok"} => q.kind \notin {"approve", "reject", "generate"}
    BY <1>1 DEF RequestInv, Told
  <1>5. q.at = "exporting" => Recorded(e \o x, q.state.review, q.state.revision)
    BY RecordedGrows DEF RequestInv
  <1> QED BY <1>2, <1>3, <1>4, <1>5 DEF RequestInv, Told

(* A review that commits does not invalidate what another request rests on. *)
LEMMA OthersWhileReviewing ==
    ASSUME NEW r, NEW q, NEW a, NEW s, NEW e \in Seq(Event), NEW l, NEW a2, NEW s2,
           NEW x \in Seq(Event), NEW l2, NEW kind \in ReviewKinds,
           RowInv(a, s), MayReview(kind, s), l # r, a2.status \notin Unsettled,
           RequestInv(r, q, a, s, e, l)
    PROVE  RequestInv(r, q, a2, s2, e \o x, l2)
  <1>1. s.review \in {"pending", "revision_requested"} /\ a.status \notin Unsettled
    BY ReviewOpen DEF RowInv
  <1>2. q.at \notin {"created", "generating", "persist_failure", "committing"}
    BY <1>1 DEF RequestInv, Unsettled
  <1>3. q.at \in {"exporting", "ok"} => q.kind \notin {"approve", "reject"}
    BY <1>1 DEF RequestInv, Told
  <1>4. q.at = "exporting" => Recorded(e \o x, q.state.review, q.state.revision)
    BY RecordedGrows DEF RequestInv
  <1> QED BY <1>2, <1>3, <1>4 DEF RequestInv, Told

-----------------------------------------------------------------------------
(* Three kinds of steps.                                                   *)

(* The locks after request r has closed its session. *)
Released(r) == [id \in Ids |-> IF lock[id] = r THEN NoRequest ELSE lock[id]]

(* A request that is not a review waiting to commit holds no lock. *)
LEMMA NothingHeld ==
    ASSUME Inv, NEW r \in Requests, ~Reviewing(requests[r])
    PROVE  lock = Released(r) /\ \A id \in Ids : lock[id] # r
  <1>1. \A id \in Ids : lock[id] # r
    BY RequestAssumption DEF Inv, Locks
  <1> QED BY <1>1 DEF Released, Inv, TypeOK

(* A step of r that writes no table and takes no lock: only its own record  *)
(* matters.                                                                 *)
LEMMA PrivateStep ==
    ASSUME Inv, NEW r \in Requests, NEW q \in RequestRecord,
           UNCHANGED tables, settings' = settings, lock' = Released(r),
           requests' = [requests EXCEPT ![r] = q],
           q.at # "idle" => q.id \in Ids, ~Reviewing(q),
           Generating(q) => Generating(requests[r]) /\ q.id = requests[r].id,
           RequestInv(r, q, assessments[q.id], states[q.id], events[q.id], lock'[q.id]),
           exported' \subseteq [id : Ids, review : HumanReviewStatus, revision : Nat],
           ReviewExportIsCommitted'
    PROVE  Inv'
  <1>1. /\ requests'[r] = q
        /\ \A t \in Requests : t # r => requests'[t] = requests[t]
    BY DEF Inv, TypeOK
  <1>2. \A id \in Ids : /\ lock'[id] = r => FALSE
                        /\ lock[id] # r => lock'[id] = lock[id]
                        /\ lock'[id] # NoRequest => lock'[id] = lock[id] /\ lock'[id] \in Requests
    BY RequestAssumption DEF Released, Inv, TypeOK
  <1>3. TypeOK'
    BY DEF Inv, TypeOK, tables, Released
  <1>4. Rows'
    BY DEF Inv, Rows, tables
  <1>5. ASSUME NEW t \in Requests
        PROVE  RequestAt(t)'
    <2>1. CASE t = r
      BY <2>1, <1>1 DEF RequestAt, tables
    <2>2. CASE t # r
      <3> DEFINE o == requests[t]
      <3>1. RequestAt(t) /\ requests'[t] = o
        BY <2>2, <1>1 DEF Inv
      <3>2. Reviewing(o) => o.id \in Ids /\ lock[o.id] = t /\ lock'[o.id] = t
        BY <3>1, <2>2, <1>2 DEF RequestAt, RequestInv, Reviewing, ReviewKinds
      <3>3. RequestInv(t, o, assessments[o.id], states[o.id], events[o.id], lock'[o.id])
        BY <3>1, <3>2 DEF RequestAt, RequestInv, Reviewing
      <3> QED BY <3>1, <3>3 DEF RequestAt, tables
    <2> QED BY <2>1, <2>2
  <1>6. Locks'
    BY <1>1, <1>2 DEF Inv, Locks, Reviewing
  <1>7. Owners'
    BY <1>1 DEF Inv, Owners
  <1> QED BY <1>3, <1>4, <1>5, <1>6, <1>7 DEF Inv

(* A review takes the free row lock and flushes its writes. *)
LEMMA FlushStep ==
    ASSUME Inv, NEW r \in Requests, NEW q \in RequestRecord, NEW id \in Ids,
           UNCHANGED tables, settings' = settings,
           lock[id] = NoRequest, lock' = [lock EXCEPT ![id] = r],
           ~Reviewing(requests[r]), requests' = [requests EXCEPT ![r] = q],
           q.id = id, Reviewing(q),
           RequestInv(r, q, assessments[id], states[id], events[id], r),
           exported' \subseteq [id : Ids, review : HumanReviewStatus, revision : Nat],
           ReviewExportIsCommitted'
    PROVE  Inv'
  <1>1. /\ requests'[r] = q
        /\ \A t \in Requests : t # r => requests'[t] = requests[t]
    BY DEF Inv, TypeOK
  <1>2. lock'[id] = r /\ \A i \in Ids : i # id => lock'[i] = lock[i]
    BY DEF Inv, TypeOK
  <1>3. TypeOK'
    BY DEF Inv, TypeOK, tables
  <1>4. Rows'
    BY DEF Inv, Rows, tables
  <1>5. ASSUME NEW t \in Requests
        PROVE  RequestAt(t)'
    <2>1. CASE t = r
      BY <2>1, <1>1, <1>2 DEF RequestAt, tables
    <2>2. CASE t # r
      <3> DEFINE o == requests[t]
      <3>1. RequestAt(t) /\ requests'[t] = o
        BY <2>2, <1>1 DEF Inv
      <3>2. Reviewing(o) => o.id \in Ids /\ lock[o.id] = t /\ lock'[o.id] = t
        BY <3>1, <1>2, RequestAssumption DEF RequestAt, RequestInv, Reviewing, ReviewKinds
      <3>3. RequestInv(t, o, assessments[o.id], states[o.id], events[o.id], lock'[o.id])
        BY <3>1, <3>2 DEF RequestAt, RequestInv, Reviewing
      <3> QED BY <3>1, <3>3 DEF RequestAt, tables
    <2> QED BY <2>1, <2>2
  <1>6. \A i \in Ids : lock[i] # r
    BY NothingHeld
  <1>7. Locks'
    <2> SUFFICES ASSUME NEW i \in Ids, lock'[i] # NoRequest
                 PROVE  requests'[lock'[i]].id = i /\ Reviewing(requests'[lock'[i]])
      BY DEF Locks, Reviewing
    <2>1. CASE i = id
      BY <2>1, <1>1, <1>2
    <2>2. CASE i # id
      <3>1. lock'[i] = lock[i] /\ lock[i] \in Requests /\ lock[i] # r
        BY <2>2, <1>2, <1>6 DEF Inv, TypeOK
      <3> QED BY <3>1, <1>1 DEF Inv, Locks
    <2> QED BY <2>1, <2>2
  <1>8. Owners'
    BY <1>1 DEF Inv, Owners, Generating, Reviewing, ReviewKinds
  <1> QED BY <1>3, <1>4, <1>5, <1>7, <1>8 DEF Inv

(* A commit of r replaces the row and the checkpoint of one assessment and  *)
(* adds to its history: while the row is not settled, r is its only         *)
(* generator; afterwards r holds the row lock.                              *)
LEMMA TableStep ==
    ASSUME Inv, NEW r \in Requests, NEW id \in Ids, NEW q \in RequestRecord,
           NEW a \in FullRow, NEW s \in StateRow, NEW x \in Seq(Event),
           assessments' = [assessments EXCEPT ![id] = a],
           states' = [states EXCEPT ![id] = s],
           events' = [events EXCEPT ![id] = events[id] \o x],
           requests' = [requests EXCEPT ![r] = q], lock' = Released(r),
           settings' = settings, exported' = exported,
           RowInv(a, s), q.id = id, ~Reviewing(q),
           RequestInv(r, q, a, s, events[id] \o x, NoRequest),
           \/ /\ assessments[id].status = "absent"
              /\ ~Reviewing(requests[r])
           \/ /\ assessments[id].status \in Unsettled
              /\ Generating(requests[r]) /\ requests[r].id = id
           \/ /\ \E kind \in ReviewKinds : MayReview(kind, states[id])
              /\ lock[id] = r /\ a.status \notin Unsettled /\ ~Generating(q)
    PROVE  Inv'
  <1> DEFINE a0 == assessments[id]
             s0 == states[id]
             e0 == events[id]
  <1>1. /\ requests'[r] = q
        /\ \A t \in Requests : t # r => requests'[t] = requests[t]
    BY DEF Inv, TypeOK
  <1>2. /\ \A i \in Ids : i # id => /\ assessments'[i] = assessments[i]
                                    /\ states'[i] = states[i] /\ events'[i] = events[i]
        /\ assessments'[id] = a /\ states'[id] = s /\ events'[id] = e0 \o x
    BY DEF Inv, TypeOK
  <1>3. \A i \in Ids : /\ lock'[i] # r
                       /\ lock[i] # r => lock'[i] = lock[i]
                       /\ lock'[i] # NoRequest => lock'[i] = lock[i] /\ lock'[i] \in Requests
    BY RequestAssumption DEF Released, Inv, TypeOK
  <1>4. e0 \in Seq(Event) /\ e0 \o x \in Seq(Event) /\ RowInv(a0, s0)
    BY DEF Inv, TypeOK, Rows
  <1>5. TypeOK'
    BY <1>4 DEF Inv, TypeOK, Released
  <1>6. Rows'
    BY <1>2 DEF Inv, Rows
  <1>7. ASSUME NEW t \in Requests, t # r, requests[t].at # "idle", requests[t].id = id
        PROVE  RequestInv(t, requests[t], a, s, e0 \o x, lock'[id])
    <2> DEFINE o == requests[t]
    <2>1. RequestInv(t, o, a0, s0, e0, lock[id])
      BY <1>7 DEF Inv, RequestAt
    <2>2. CASE a0.status = "absent"
      <3>1. ~Generating(o)
        BY <2>1, <2>2 DEF RequestInv, Generating, ReviewKinds
      <3> QED BY <2>1, <2>2, <3>1, <1>4, OthersWhileGenerating DEF Unsettled
    <2>3. CASE /\ a0.status \in Unsettled
               /\ Generating(requests[r]) /\ requests[r].id = id
      <3>1. ~Generating(o)
        BY <2>3, <1>7 DEF Inv, Owners
      <3> QED BY <2>1, <2>3, <3>1, <1>4, OthersWhileGenerating
    <2>4. CASE /\ \E kind \in ReviewKinds : MayReview(kind, s0)
               /\ lock[id] = r /\ a.status \notin Unsettled /\ ~Generating(q)
      <3>1. lock[id] # t
        BY <2>4, <1>7
      <3> QED BY <2>1, <2>4, <3>1, <1>4, OthersWhileReviewing
    <2> QED BY <2>2, <2>3, <2>4
  <1>8. ASSUME NEW t \in Requests
        PROVE  RequestAt(t)'
    <2> DEFINE o == requests[t]
    <2>1. CASE t = r
      <3>1. lock'[id] # r
        BY <1>3
      <3>2. RequestInv(r, q, a, s, e0 \o x, lock'[id])
        BY RequestAssumption DEF RequestInv, Reviewing
      <3>3. RequestInv(r, q, assessments'[q.id], states'[q.id], events'[q.id], lock'[q.id])
        BY <3>2, <1>2
      <3> QED BY <2>1, <3>3, <1>1 DEF RequestAt
    <2>2. CASE t # r /\ o.at = "idle"
      <3>1. RequestInv(t, o, assessments'[o.id], states'[o.id], events'[o.id], lock'[o.id])
        BY <2>2 DEF RequestInv
      <3> QED BY <2>2, <3>1, <1>1 DEF RequestAt
    <2>3. CASE t # r /\ o.at # "idle" /\ o.id = id
      <3>1. RequestInv(t, o, assessments'[o.id], states'[o.id], events'[o.id], lock'[o.id])
        BY <2>3, <1>2, <1>7
      <3> QED BY <2>3, <3>1, <1>1 DEF RequestAt
    <2>4. CASE t # r /\ o.at # "idle" /\ o.id # id
      <3>1. /\ o.id \in Ids /\ requests'[t] = o
            /\ RequestInv(t, o, assessments[o.id], states[o.id], events[o.id], lock[o.id])
        BY <2>4, <1>1 DEF Inv, RequestAt
      <3>2. Reviewing(o) => lock[o.id] = t /\ lock'[o.id] = t
        BY <3>1, <2>4, <1>3 DEF RequestInv, Reviewing, ReviewKinds
      <3>3. RequestInv(t, o, assessments[o.id], states[o.id], events[o.id], lock'[o.id])
        BY <3>1, <3>2 DEF RequestInv, Reviewing
      <3> QED BY <3>1, <3>3, <2>4, <1>2 DEF RequestAt
    <2> QED BY <2>1, <2>2, <2>3, <2>4
  <1>9. Locks'
    BY <1>1, <1>3 DEF Inv, Locks, Reviewing
  <1>10. Owners'
    <2> SUFFICES ASSUME NEW t \in Requests, t # r, Generating(requests[t]), Generating(q)
                 PROVE  requests[t].id # id
      BY <1>1 DEF Inv, Owners, Generating
    <2>1. CASE Generating(requests[r]) /\ requests[r].id = id
      BY <2>1 DEF Inv, Owners
    <2>2. CASE a0.status = "absent"
      BY <2>2 DEF Inv, RequestAt, RequestInv, Generating, ReviewKinds
    <2> QED BY <2>1, <2>2
  <1>11. ReviewExportIsCommitted'
    <2> SUFFICES ASSUME NEW y \in exported, y.review \in HumanDecisions
                 PROVE  Recorded(events'[y.id], y.review, y.revision)
      BY DEF ReviewExportIsCommitted, Recorded, HumanDecisions
    <2>1. Recorded(events[y.id], y.review, y.revision) /\ y.id \in Ids
      BY DEF Inv, TypeOK, ReviewExportIsCommitted, Recorded, HumanDecisions
    <2>2. CASE y.id = id
      BY <2>1, <2>2, <1>2, <1>4, RecordedGrows
    <2>3. CASE y.id # id
      BY <2>1, <2>3, <1>2
    <2> QED BY <2>2, <2>3
  <1> QED BY <1>5, <1>6, <1>8, <1>9, <1>10, <1>11 DEF Inv

-----------------------------------------------------------------------------
(* The actions.                                                            *)

(* What the commit of a generation writes, and what a review writes, makes  *)
(* the row and its checkpoint fit.                                          *)
LEMMA GenerateCommits ==
    ASSUME NEW q \in RequestRecord, GenerateWrites(q)
    PROVE  RowInv(q.row, q.state) /\ q.row.status \notin Unsettled
  <1> USE DEF RowInv, Unsettled, WithExecution, mark_completed, mark_failed, mark_pending_review
  <1>1. ASSUME NEW c \in Candidates, q.row = WithExecution(mark_completed(c), c)
        PROVE  RowInv(q.row, q.state) /\ q.row.status \notin Unsettled
    BY <1>1
  <1>2. ASSUME NEW c \in Candidates, NEW d \in RuntimeRiskDecision,
               q.row = WithExecution(GatedRow(c, d), GatedExecution(c, d)),
               q.state = GatedState(c, d, 0, q.config.max)
        PROVE  RowInv(q.row, q.state) /\ q.row.status \notin Unsettled
    <2>1. q.state.candidate = c
      BY <1>2 DEF GatedState
    <2> QED BY <1>2, <2>1 DEF GatedRow, GatedExecution
  <1> QED BY <1>1, <1>2 DEF GenerateWrites

(* The rows a review has written fit what it was told and the history it adds to. *)
LEMMA ReviewCommits ==
    ASSUME NEW q \in RequestRecord, q.kind \in ReviewKinds,
           NEW a \in FullRow, NEW s \in StateRow, NEW e \in Seq(Event),
           RowInv(a, s), ReviewWrites(q, a, s)
    PROVE  /\ RowInv(q.row, q.state) /\ q.row.status \notin Unsettled
           /\ Told(q, q.row, q.state)
           /\ Recorded(e \o q.event, q.state.review, q.state.revision)
  <1>1. Exists(s) /\ s # NoState /\ a.status \notin Unsettled
    BY ReviewOpen DEF RowInv, ReviewWrites
  <1>2. ASSUME NEW x \in Event, q.event = <<x>>, x.new = q.state.review,
               x.revision = q.state.revision
        PROVE  Recorded(e \o q.event, q.state.review, q.state.revision)
    <2>1. /\ Len(e \o q.event) = Len(e) + 1 /\ Len(e) \in Nat
          /\ (e \o q.event)[Len(e) + 1] = x
      BY <1>2
    <2> QED BY <2>1, <1>2 DEF Recorded
  <1>3. CASE q.kind = "approve"
    <2>1. /\ q.row = WithExecution(mark_completed(s.candidate), s.candidate)
          /\ q.state = Decided(s, "approved")
          /\ q.event = <<DecisionEvent(s, "approved")>>
      BY <1>3 DEF ReviewWrites
    <2>2. RowInv(q.row, q.state) /\ q.row.status = "completed" /\ q.state.review = "approved"
      BY <2>1 DEF RowInv, Unsettled, WithExecution, mark_completed, Decided, StateRow
    <2>3. /\ DecisionEvent(s, "approved") \in Event
          /\ DecisionEvent(s, "approved").new = q.state.review
          /\ DecisionEvent(s, "approved").revision = q.state.revision
      BY <2>1, StateTypes DEF DecisionEvent, ReviewEvent, Decided, StateRow
    <2> QED BY <1>2, <1>3, <2>1, <2>2, <2>3 DEF Told, Unsettled
  <1>4. CASE q.kind = "reject"
    <2>1. /\ q.row = WithExecution(mark_failed("human_review_rejected"), NoCandidate)
          /\ q.state = Decided(s, "rejected")
          /\ q.event = <<DecisionEvent(s, "rejected")>>
      BY <1>4 DEF ReviewWrites
    <2>2. /\ RowInv(q.row, q.state) /\ q.row.status = "failed"
          /\ q.row.error = "human_review_rejected" /\ q.state.review = "rejected"
      BY <2>1 DEF RowInv, Unsettled, WithExecution, mark_failed, Decided, StateRow
    <2>3. /\ DecisionEvent(s, "rejected") \in Event
          /\ DecisionEvent(s, "rejected").new = q.state.review
          /\ DecisionEvent(s, "rejected").revision = q.state.revision
      BY <2>1, StateTypes DEF DecisionEvent, ReviewEvent, Decided, StateRow
    <2> QED BY <1>2, <1>4, <2>1, <2>2, <2>3 DEF Told, Unsettled
  <1>5. CASE q.kind = "request_revision"
    <2>1. /\ q.row = a
          /\ q.state = RevisionRequested(s)
          /\ q.event = <<RevisionRequestEvent(s)>>
      BY <1>5 DEF ReviewWrites
    <2>2. q.state.candidate = s.candidate
      BY <2>1 DEF RevisionRequested, StateRow
    <2>3. RowInv(q.row, q.state)
      BY <2>1, <2>2, <1>1 DEF RowInv
    <2>4. /\ RevisionRequestEvent(s) \in Event
          /\ RevisionRequestEvent(s).new = q.state.review
          /\ RevisionRequestEvent(s).revision = q.state.revision
      BY <2>1, StateTypes DEF RevisionRequestEvent, ReviewEvent, RevisionRequested, StateRow
    <2> QED BY <1>1, <1>2, <1>5, <2>1, <2>3, <2>4 DEF Told
  <1>6. CASE q.kind = "resume_revision"
    <2>1. PICK c \in Candidates, d \in RuntimeRiskDecision :
            /\ q.row = WithExecution(GatedRow(c, d), GatedExecution(c, d))
            /\ q.state = Resumed(s, c, d, q.config.max)
      BY <1>6 DEF ReviewWrites
    <2>2. q.state.review = GatedReview(d) /\ q.state.candidate = c
      BY <2>1 DEF Resumed, GatedState
    <2>3. Recorded(e \o q.event, q.state.review, q.state.revision)
      BY <2>2 DEF Recorded, HumanDecisions, GatedReview
    <2>4. RowInv(q.row, q.state) /\ q.row.status \notin Unsettled
      BY <2>1, <2>2 DEF RowInv, Unsettled, WithExecution, GatedRow, GatedExecution,
                        mark_completed, mark_failed, mark_pending_review
    <2> QED BY <1>6, <2>3, <2>4 DEF Told
  <1> QED BY <1>3, <1>4, <1>5, <1>6 DEF ReviewKinds

(* Telemetry of a decision that is in the history may leave the process. *)
LEMMA ExportStep ==
    ASSUME Inv, events' = events, NEW id \in Ids, NEW s \in StateRow,
           Recorded(events[id], s.review, s.revision),
           exported' = exported \cup {Export(id, s)}
    PROVE  /\ exported' \subseteq [id : Ids, review : HumanReviewStatus, revision : Nat]
           /\ ReviewExportIsCommitted'
  <1>1. Export(id, s) \in [id : Ids, review : HumanReviewStatus, revision : Nat]
    BY DEF Export, StateRow
  <1>2. Export(id, s).id = id /\ Export(id, s).review = s.review /\ Export(id, s).revision = s.revision
    BY DEF Export
  <1>3. ASSUME NEW y \in exported', y.review \in HumanDecisions
        PROVE  \E i \in 1..Len(events[y.id]) :
                    events[y.id][i].new = y.review /\ events[y.id][i].revision = y.revision
    <2>1. CASE y = Export(id, s)
      BY <2>1, <1>2, <1>3 DEF Recorded
    <2>2. CASE y \in exported
      BY <2>2, <1>3 DEF Inv, ReviewExportIsCommitted, HumanDecisions
    <2> QED BY <2>1, <2>2
  <1> QED BY <1>1, <1>3 DEF Inv, TypeOK, ReviewExportIsCommitted, HumanDecisions

(* Without a new export there is nothing to show. *)
LEMMA NoExport ==
    ASSUME Inv, events' = events, exported' = exported
    PROVE  /\ exported' \subseteq [id : Ids, review : HumanReviewStatus, revision : Nat]
           /\ ReviewExportIsCommitted'
  BY DEF Inv, TypeOK, ReviewExportIsCommitted

(* The session is closed without a commit. *)
LEMMA AnswerStep ==
    ASSUME Inv, NEW r \in Requests, NEW answer \in Answers, Answer(r, answer),
           UNCHANGED tables, settings' = settings, requests[r].at # "idle",
           answer = "ok" => Told(requests[r], assessments[requests[r].id], states[requests[r].id]),
           exported' \subseteq [id : Ids, review : HumanReviewStatus, revision : Nat],
           ReviewExportIsCommitted'
    PROVE  Inv'
  <1> DEFINE q0 == requests[r]
             q == [Idle EXCEPT !.kind = q0.kind, !.id = q0.id, !.at = answer]
  <1>1. q0 \in RequestRecord /\ q0.id \in Ids
    BY DEF Inv, TypeOK, RequestAt
  <1>2. q \in RequestRecord /\ q.kind = q0.kind /\ q.id = q0.id /\ q.at = answer
    BY <1>1, RecordTypes DEF Idle
  <1>3. requests' = [requests EXCEPT ![r] = q] /\ lock' = Released(r)
    BY DEF Answer, Released
  <1>4. ~Reviewing(q) /\ ~Generating(q)
    BY <1>2 DEF Reviewing, Generating, Answers
  <1> HIDE DEF q
  <1>5. RequestInv(r, q, assessments[q.id], states[q.id], events[q.id], lock'[q.id])
    BY <1>2 DEF RequestInv, Answers, Told
  <1> QED BY <1>1, <1>2, <1>3, <1>4, <1>5, PrivateStep

(* The pending writes of a generation are committed and it is answered. *)
LEMMA GenerationCommitStep ==
    ASSUME Inv, NEW r \in Requests, NEW answer \in Answers, Apply(requests[r]), Answer(r, answer),
           settings' = settings, exported' = exported,
           \/ requests[r].at = "persist_failure" /\ answer # "ok"
           \/ requests[r].at = "committing" /\ requests[r].kind = "generate"
    PROVE  Inv'
  <1> DEFINE q0 == requests[r]
             id == q0.id
             q == [Idle EXCEPT !.kind = q0.kind, !.id = q0.id, !.at = answer]
  <1>1. /\ q0 \in RequestRecord /\ id \in Ids
        /\ q0.row \in FullRow /\ q0.state \in StateRow /\ q0.event \in Seq(Event)
        /\ RequestInv(r, q0, assessments[id], states[id], events[id], lock[id])
    BY DEF Inv, TypeOK, RequestAt, RequestRecord
  <1>2. q \in RequestRecord /\ q.kind = q0.kind /\ q.id = id /\ q.at = answer
    BY <1>1, RecordTypes DEF Idle
  <1>3. /\ requests' = [requests EXCEPT ![r] = q] /\ lock' = Released(r)
        /\ assessments' = [assessments EXCEPT ![id] = q0.row]
        /\ states' = [states EXCEPT ![id] = q0.state]
        /\ events' = [events EXCEPT ![id] = events[id] \o q0.event]
    BY DEF Answer, Released, Apply
  <1>4. q0.kind = "generate" /\ assessments[id].status = "processing"
    BY <1>1 DEF RequestInv, ReviewKinds
  <1>5. RowInv(q0.row, q0.state) /\ q0.row.status \notin Unsettled
    <2>1. CASE q0.at = "persist_failure"
      BY <2>1, <1>1 DEF RequestInv, RowInv, WithExecution, mark_failed, Unsettled
    <2>2. CASE q0.at = "committing"
      BY <2>2, <1>1, <1>4, GenerateCommits DEF RequestInv, ReviewKinds
    <2> QED BY <2>1, <2>2
  <1>6. ~Reviewing(q) /\ ~Generating(q)
    BY <1>2 DEF Reviewing, Generating, Answers
  <1> HIDE DEF q
  <1>7. RequestInv(r, q, q0.row, q0.state, events[id] \o q0.event, NoRequest)
    BY <1>2, <1>4, <1>5 DEF RequestInv, Answers, Told
  <1>8. Generating(q0)
    BY <1>4 DEF Generating
  <1> QED BY <1>1, <1>2, <1>3, <1>4, <1>5, <1>6, <1>7, <1>8, TableStep DEF Unsettled

(* The pending writes of a review are committed: the request goes on to     *)
(* export (q.at = "exporting") or its client sees an error.                 *)
LEMMA ReviewCommitStep ==
    ASSUME Inv, NEW r \in Requests, Reviewing(requests[r]), Apply(requests[r]),
           NEW q \in RequestRecord, requests' = [requests EXCEPT ![r] = q], lock' = Released(r),
           settings' = settings, exported' = exported,
           q.id = requests[r].id, q.kind = requests[r].kind,
           \/ q.at = "error"
           \/ q.at = "exporting" /\ q.state = requests[r].state
    PROVE  Inv'
  <1> DEFINE q0 == requests[r]
             id == q0.id
  <1>1. /\ q0 \in RequestRecord /\ id \in Ids /\ q0.kind \in ReviewKinds
        /\ q0.row \in FullRow /\ q0.state \in StateRow /\ q0.event \in Seq(Event)
        /\ RequestInv(r, q0, assessments[id], states[id], events[id], lock[id])
        /\ assessments[id] \in FullRow /\ states[id] \in StateRow /\ events[id] \in Seq(Event)
        /\ RowInv(assessments[id], states[id])
    BY DEF Inv, TypeOK, RequestAt, RequestRecord, Reviewing, Rows
  <1>2. /\ assessments' = [assessments EXCEPT ![id] = q0.row]
        /\ states' = [states EXCEPT ![id] = q0.state]
        /\ events' = [events EXCEPT ![id] = events[id] \o q0.event]
    BY DEF Apply
  <1>3. lock[id] = r /\ ReviewWrites(q0, assessments[id], states[id])
    BY <1>1 DEF RequestInv, Reviewing, ReviewKinds
  <1>4. MayReview(q0.kind, states[id])
    BY <1>3 DEF ReviewWrites
  <1>5. /\ RowInv(q0.row, q0.state) /\ q0.row.status \notin Unsettled
        /\ Told(q0, q0.row, q0.state)
        /\ Recorded(events[id] \o q0.event, q0.state.review, q0.state.revision)
    BY <1>1, <1>3, ReviewCommits
  <1>6. ~Reviewing(q) /\ ~Generating(q)
    BY DEF Reviewing, Generating
  <1>7. RequestInv(r, q, q0.row, q0.state, events[id] \o q0.event, NoRequest)
    BY <1>1, <1>5 DEF RequestInv, Told
  <1> QED BY <1>1, <1>2, <1>3, <1>4, <1>5, <1>6, <1>7, TableStep

(* generate_assessment *)
LEMMA CreateStep ==
    ASSUME Inv, NEW r \in Requests, NEW id \in Ids, CreateAssessment(r, id)
    PROVE  Inv'
  <1> DEFINE q == [Idle EXCEPT !.kind = "generate", !.at = "created", !.id = id,
                               !.config = settings]
             a == WithExecution(create, NoCandidate)
  <1>1. /\ assessments[id].status = "absent" /\ ~Reviewing(requests[r])
        /\ requests' = [requests EXCEPT ![r] = q]
        /\ UNCHANGED <<states, events, lock, settings, exported>>
        /\ assessments' = [assessments EXCEPT ![id] = a]
    BY DEF CreateAssessment, Reviewing
  <1>2. /\ q \in RequestRecord /\ q.kind = "generate" /\ q.at = "created" /\ q.id = id
        /\ q.state = NoState /\ q.event = <<>>
    BY RecordTypes DEF Idle, RequestRecord, Places, Inv, TypeOK
  <1>3. /\ RowInv(assessments[id], states[id]) /\ states[id] = NoState /\ states[id] \in StateRow
        /\ states = [states EXCEPT ![id] = states[id]]
        /\ events[id] \o <<>> = events[id] /\ events = [events EXCEPT ![id] = events[id]]
    BY <1>1 DEF Inv, TypeOK, Rows, RowInv, Unsettled
  <1>4. lock' = Released(r)
    BY <1>1, NothingHeld
  <1>5. a \in FullRow /\ a.status = "pending" /\ RowInv(a, NoState)
    BY RowTypes DEF WithExecution, create, RowInv, NoRow
  <1>6. ~Reviewing(q)
    BY <1>2 DEF Reviewing
  <1> HIDE DEF q, a
  <1>7. RequestInv(r, q, a, NoState, events[id] \o <<>>, NoRequest)
    BY <1>2, <1>5 DEF RequestInv
  <1>8. <<>> \in Seq(Event)
    OBVIOUS
  <1>9. /\ states' = [states EXCEPT ![id] = NoState] /\ NoState \in StateRow
        /\ events' = [events EXCEPT ![id] = events[id] \o <<>>]
        /\ settings' = settings /\ exported' = exported
    BY <1>1, <1>3
  <1>10. requests' = [requests EXCEPT ![r] = q] /\ assessments' = [assessments EXCEPT ![id] = a]
    BY <1>1
  <1>11. assessments[id].status = "absent" /\ ~Reviewing(requests[r]) /\ q \in RequestRecord
         /\ q.id = id /\ a \in FullRow /\ RowInv(a, NoState)
    BY <1>1, <1>2, <1>5
  <1> QED BY <1>4, <1>6, <1>7, <1>8, <1>9, <1>10, <1>11, TableStep

(* MarkProcessing preserves Inv. *)
LEMMA MarkProcessingStep ==
    ASSUME Inv, NEW r \in Requests, MarkProcessing(r)
    PROVE  Inv'
  <1> DEFINE q0 == requests[r]
             id == q0.id
             q == [q0 EXCEPT !.at = "generating"]
             a == mark_processing(assessments[id])
  <1>1. /\ q0.at = "created" /\ q0 \in RequestRecord /\ id \in Ids
        /\ RequestInv(r, q0, assessments[id], states[id], events[id], lock[id])
        /\ requests' = [requests EXCEPT ![r] = q]
        /\ UNCHANGED <<states, events, lock, settings, exported>>
        /\ assessments' = [assessments EXCEPT ![id] = a]
    BY DEF MarkProcessing, Inv, TypeOK, RequestAt
  <1>2. /\ q \in RequestRecord /\ q.kind = q0.kind /\ q.at = "generating" /\ q.id = id
        /\ q.state = q0.state /\ q.event = q0.event
    BY <1>1 DEF RequestRecord, Places
  <1>3. /\ q0.kind = "generate" /\ q0.state = NoState /\ q0.event = <<>>
        /\ assessments[id].status = "pending"
    BY <1>1 DEF RequestInv
  <1>4. /\ states[id] = NoState /\ states[id] \in StateRow
        /\ states = [states EXCEPT ![id] = states[id]]
        /\ events[id] \o <<>> = events[id] /\ events = [events EXCEPT ![id] = events[id]]
    BY <1>1, <1>3 DEF Inv, TypeOK, Rows, RowInv, Unsettled
  <1>5. ~Reviewing(q0) /\ ~Reviewing(q) /\ Generating(q0)
    BY <1>1, <1>2, <1>3 DEF Reviewing, Generating
  <1>6. lock' = Released(r)
    BY <1>1, <1>5, NothingHeld
  <1>7. a \in FullRow /\ a.status = "processing"
    BY <1>1, RowTypes DEF Inv, TypeOK
  <1>8. RowInv(a, NoState)
    BY <1>7 DEF RowInv
  <1> HIDE DEF q, a
  <1>9. RequestInv(r, q, a, NoState, events[id] \o <<>>, NoRequest)
    BY <1>2, <1>3, <1>7 DEF RequestInv
  <1>10. <<>> \in Seq(Event)
    OBVIOUS
  <1>11. /\ states' = [states EXCEPT ![id] = NoState] /\ NoState \in StateRow
         /\ events' = [events EXCEPT ![id] = events[id] \o <<>>]
         /\ settings' = settings /\ exported' = exported
    BY <1>1, <1>4
  <1>12. requests' = [requests EXCEPT ![r] = q] /\ assessments' = [assessments EXCEPT ![id] = a]
    BY <1>1
  <1>13. /\ assessments[id].status \in Unsettled /\ id \in Ids /\ requests[r].id = id
         /\ q \in RequestRecord /\ q.id = id /\ a \in FullRow /\ RowInv(a, NoState)
    BY <1>1, <1>2, <1>3, <1>7, <1>8 DEF Unsettled
  <1> QED BY <1>5, <1>6, <1>9, <1>10, <1>11, <1>12, <1>13, TableStep

(* A generation flushes its outcome: from "generating" to a commit. *)
LEMMA FlushGenerationStep ==
    ASSUME Inv, NEW r \in Requests, requests[r].at = "generating",
           NEW q \in RequestRecord, requests' = [requests EXCEPT ![r] = q],
           q.id = requests[r].id, q.kind = requests[r].kind,
           \/ q.at = "committing" /\ GenerateWrites(q)
           \/ /\ q.at = "persist_failure" /\ q.state = NoState /\ q.event = <<>>
              /\ q.row = WithExecution(mark_failed("generation_failed"), NoCandidate),
           UNCHANGED tables, settings' = settings, lock' = lock,
           exported' \subseteq [id : Ids, review : HumanReviewStatus, revision : Nat],
           ReviewExportIsCommitted'
    PROVE  Inv'
  <1> DEFINE q0 == requests[r]
  <1>1. /\ q0.id \in Ids /\ q0.kind = "generate"
        /\ assessments[q0.id].status = "processing"
    BY DEF Inv, RequestAt, RequestInv
  <1>2. ~Reviewing(q0) /\ ~Reviewing(q) /\ Generating(q0)
    BY <1>1 DEF Reviewing, Generating, ReviewKinds
  <1>3. lock' = Released(r)
    BY <1>2, NothingHeld
  <1>4. RequestInv(r, q, assessments[q.id], states[q.id], events[q.id], lock'[q.id])
    BY <1>1 DEF RequestInv
  <1> QED BY <1>1, <1>2, <1>3, <1>4, PrivateStep

(* Generate preserves Inv. *)
LEMMA GenerateStep ==
    ASSUME Inv, NEW r \in Requests, NEW c \in Candidates,
           GenerateUngated(r, c) \/ \E d \in RuntimeRiskDecision : GenerateGated(r, c, d)
    PROVE  Inv'
  <1> DEFINE q0 == requests[r]
  <1>1. q0 \in RequestRecord /\ q0.config.max \in Nat
    BY ConfigTypes DEF Inv, TypeOK
  <1>2. CASE GenerateUngated(r, c)
    <2> DEFINE q == [q0 EXCEPT !.at = "committing", !.row = WithExecution(mark_completed(c), c)]
    <2>1. /\ q0.at = "generating" /\ requests' = [requests EXCEPT ![r] = q]
          /\ UNCHANGED tables /\ settings' = settings /\ lock' = lock /\ exported' = exported
          /\ events' = events
      BY <1>2 DEF GenerateUngated, tables
    <2>2. q0.state = NoState /\ q0.event = <<>>
      BY <2>1 DEF Inv, RequestAt, RequestInv
    <2>3. /\ q \in RequestRecord /\ q.at = "committing" /\ q.id = q0.id /\ q.kind = q0.kind
          /\ q.row = WithExecution(mark_completed(c), c) /\ q.state = NoState /\ q.event = <<>>
      BY <1>1, <2>2, RowTypes DEF RequestRecord, Places
    <2>4. GenerateWrites(q)
      BY <2>3 DEF GenerateWrites
    <2> HIDE DEF q
    <2>5. /\ exported' \subseteq [id : Ids, review : HumanReviewStatus, revision : Nat]
          /\ ReviewExportIsCommitted'
      BY <2>1, NoExport
    <2> QED BY <2>1, <2>3, <2>4, <2>5, FlushGenerationStep
  <1>3. ASSUME NEW d \in RuntimeRiskDecision, GenerateGated(r, c, d)
        PROVE  Inv'
    <2> DEFINE s == GatedState(c, d, 0, q0.config.max)
               q == [q0 EXCEPT !.at = "committing",
                               !.row = WithExecution(GatedRow(c, d), GatedExecution(c, d)),
                               !.state = s, !.event = RequestEvents(d)]
    <2>1. /\ q0.at = "generating" /\ requests' = [requests EXCEPT ![r] = q]
          /\ UNCHANGED tables /\ settings' = settings /\ lock' = lock
          /\ exported' = exported \cup {Export(q0.id, s)} /\ events' = events
      BY <1>3 DEF GenerateGated, tables, GatedExecution
    <2>2. /\ s \in StateRow /\ RequestEvents(d) \in Seq(Event)
          /\ WithExecution(GatedRow(c, d), GatedExecution(c, d)) \in FullRow
      BY <1>1, StateTypes, RowTypes
    <2>3. s.review \notin HumanDecisions
      BY DEF GatedState, GatedReview, HumanDecisions
    <2> HIDE DEF s
    <2>4. /\ q \in RequestRecord /\ q.at = "committing" /\ q.id = q0.id /\ q.kind = q0.kind
          /\ q.row = WithExecution(GatedRow(c, d), GatedExecution(c, d))
          /\ q.state = s /\ q.event = RequestEvents(d) /\ q.config = q0.config
      BY <1>1, <2>2 DEF RequestRecord, Places
    <2> HIDE DEF q
    <2>5. GenerateWrites(q)
      BY <2>4 DEF GenerateWrites, s
    <2>6. q0.id \in Ids /\ Recorded(events[q0.id], s.review, s.revision)
      BY <2>1, <2>3 DEF Inv, RequestAt, Recorded
    <2>7. /\ exported' \subseteq [id : Ids, review : HumanReviewStatus, revision : Nat]
          /\ ReviewExportIsCommitted'
      BY <2>1, <2>2, <2>6, ExportStep
    <2> QED BY <2>1, <2>4, <2>5, <2>7, FlushGenerationStep
  <1> QED BY <1>2, <1>3

(* GenerationFails preserves Inv. *)
LEMMA GenerationFailsStep ==
    ASSUME Inv, NEW r \in Requests, GenerationFails(r)
    PROVE  Inv'
  <1> DEFINE q0 == requests[r]
             row == WithExecution(mark_failed("generation_failed"), NoCandidate)
             q == [q0 EXCEPT !.at = "persist_failure", !.row = row]
  <1>1. /\ q0.at = "generating" /\ requests' = [requests EXCEPT ![r] = q]
        /\ UNCHANGED tables /\ settings' = settings /\ lock' = lock /\ exported' = exported
        /\ events' = events
    BY DEF GenerationFails, tables
  <1>2. q0 \in RequestRecord /\ q0.state = NoState /\ q0.event = <<>>
    BY <1>1 DEF Inv, TypeOK, RequestAt, RequestInv
  <1>3. row \in FullRow
    BY RowTypes DEF ErrorCodes
  <1> HIDE DEF row
  <1>4. /\ q \in RequestRecord /\ q.at = "persist_failure" /\ q.id = q0.id /\ q.kind = q0.kind
        /\ q.row = row /\ q.state = NoState /\ q.event = <<>>
    BY <1>2, <1>3 DEF RequestRecord, Places
  <1> HIDE DEF q
  <1>5. /\ exported' \subseteq [id : Ids, review : HumanReviewStatus, revision : Nat]
        /\ ReviewExportIsCommitted'
    BY <1>1, NoExport
  <1> QED BY <1>1, <1>4, <1>5, FlushGenerationStep DEF row

(* CommitGeneration preserves Inv. *)
LEMMA CommitGenerationStep ==
    ASSUME Inv, NEW r \in Requests, PersistFailure(r) \/ CommitGeneration(r)
    PROVE  Inv'
  <1>1. CASE PersistFailure(r)
    <2>1. "error" \in Answers /\ "error" # "ok"
      BY DEF Answers
    <2> QED BY <1>1, <2>1, GenerationCommitStep DEF PersistFailure
  <1>2. CASE CommitGeneration(r)
    <2>1. "ok" \in Answers
      BY DEF Answers
    <2> QED BY <1>2, <2>1, GenerationCommitStep DEF CommitGeneration
  <1> QED BY <1>1, <1>2

(* A request that ends without a commit: refused, missing or failed. *)
LEMMA EndWithoutCommit ==
    ASSUME Inv, NEW r \in Requests, NEW answer \in {"not_found", "conflict", "error"},
           Answer(r, answer), UNCHANGED tables, settings' = settings, exported' = exported,
           requests[r].at # "idle"
    PROVE  Inv'
  <1>1. answer \in Answers /\ answer # "ok" /\ events' = events
    BY DEF Answers, tables
  <1>2. /\ exported' \subseteq [id : Ids, review : HumanReviewStatus, revision : Nat]
        /\ ReviewExportIsCommitted'
    BY <1>1, NoExport
  <1> QED BY <1>1, <1>2, AnswerStep

(* approve, reject, request_revision, resume_revision *)
LEMMA BeginReviewStep ==
    ASSUME Inv, NEW r \in Requests, NEW kind \in ReviewKinds, NEW id \in Ids,
           BeginReview(r, kind, id)
    PROVE  Inv'
  <1> DEFINE at == IF assessments[id].status = "absent" THEN "not_found" ELSE "reading_state"
             q == [Idle EXCEPT !.kind = kind, !.id = id, !.at = at, !.config = settings]
  <1>1. /\ ~Reviewing(requests[r]) /\ requests' = [requests EXCEPT ![r] = q]
        /\ UNCHANGED tables /\ settings' = settings /\ lock' = lock /\ exported' = exported
        /\ events' = events
    BY DEF BeginReview, Reviewing, tables
  <1>2. at \in {"not_found", "reading_state"}
    OBVIOUS
  <1> HIDE DEF at
  <1>3. q \in RequestRecord /\ q.kind = kind /\ q.id = id /\ q.at = at
    BY <1>2, RecordTypes DEF Idle, RequestRecord, Places, Answers, Inv, TypeOK
  <1> HIDE DEF q
  <1>4. ~Reviewing(q) /\ ~Generating(q) /\ q.id \in Ids
    BY <1>2, <1>3 DEF Reviewing, Generating
  <1>5. RequestInv(r, q, assessments[q.id], states[q.id], events[q.id], lock'[q.id])
    BY <1>2, <1>3 DEF RequestInv
  <1>6. lock' = Released(r)
    BY <1>1, NothingHeld
  <1>7. /\ exported' \subseteq [id : Ids, review : HumanReviewStatus, revision : Nat]
        /\ ReviewExportIsCommitted'
    BY <1>1, NoExport
  <1> QED BY <1>1, <1>3, <1>4, <1>5, <1>6, <1>7, PrivateStep

(* Refuse preserves Inv. *)
LEMMA RefuseStep ==
    ASSUME Inv, NEW r \in Requests, StateMissing(r) \/ RefuseReview(r)
    PROVE  Inv'
  <1>1. CASE StateMissing(r)
    BY <1>1, EndWithoutCommit DEF StateMissing
  <1>2. CASE RefuseReview(r)
    BY <1>2, EndWithoutCommit DEF RefuseReview, LocksState
  <1> QED BY <1>1, <1>2

(* What the flush of a review needs: the writes fit the locked checkpoint.  *)
LEMMA FlushReviewStep ==
    ASSUME Inv, NEW r \in Requests, NEW row \in FullRow, NEW s \in StateRow, NEW x \in Event,
           LocksState(r), FlushReview(r, row, s, x),
           \A q \in RequestRecord :
                /\ q.kind = requests[r].kind /\ q.config = requests[r].config
                /\ q.row = row /\ q.state = s /\ q.event = <<x>>
                => ReviewWrites(q, assessments[requests[r].id], states[requests[r].id]),
           UNCHANGED tables, settings' = settings,
           exported' \subseteq [id : Ids, review : HumanReviewStatus, revision : Nat],
           ReviewExportIsCommitted'
    PROVE  Inv'
  <1> DEFINE q0 == requests[r]
             q == [q0 EXCEPT !.at = "committing", !.row = row, !.state = s, !.event = <<x>>]
  <1>1. /\ q0 \in RequestRecord /\ q0.id \in Ids /\ q0.at = "reading_state"
        /\ q0.kind \in ReviewKinds /\ lock[q0.id] = NoRequest
    BY DEF Inv, TypeOK, RequestAt, RequestInv, LocksState
  <1>2. requests' = [requests EXCEPT ![r] = q] /\ lock' = [lock EXCEPT ![q0.id] = r]
    BY DEF FlushReview
  <1>3. <<x>> \in Seq(Event)
    OBVIOUS
  <1>4. /\ q \in RequestRecord /\ q.kind = q0.kind /\ q.config = q0.config /\ q.id = q0.id
        /\ q.at = "committing" /\ q.row = row /\ q.state = s /\ q.event = <<x>>
    BY <1>1, <1>3 DEF RequestRecord, Places
  <1> HIDE DEF q
  <1>5. Reviewing(q) /\ ~Reviewing(q0)
    BY <1>1, <1>4 DEF Reviewing
  <1>6. ReviewWrites(q, assessments[q0.id], states[q0.id])
    BY <1>4
  <1>7. RequestInv(r, q, assessments[q0.id], states[q0.id], events[q0.id], r)
    BY <1>1, <1>4, <1>6 DEF RequestInv
  <1> QED BY <1>1, <1>2, <1>4, <1>5, <1>7, FlushStep

(* WriteDecision preserves Inv. *)
LEMMA WriteDecisionStep ==
    ASSUME Inv, NEW r \in Requests,
           WriteApproval(r) \/ WriteRejection(r) \/ WriteRevisionRequest(r)
    PROVE  Inv'
  <1> DEFINE q0 == requests[r]
             a == assessments[q0.id]
             s == states[q0.id]
  <1>1. /\ LocksState(r) /\ UNCHANGED tables /\ settings' = settings
        /\ exported' = exported /\ events' = events
    BY DEF WriteApproval, WriteRejection, WriteRevisionRequest, tables
  <1>2. q0.id \in Ids /\ a \in FullRow /\ s \in StateRow
    BY <1>1 DEF Inv, TypeOK, RequestAt, LocksState
  <1>3. /\ exported' \subseteq [id : Ids, review : HumanReviewStatus, revision : Nat]
        /\ ReviewExportIsCommitted'
    BY <1>1, NoExport
  <1>4. CASE WriteApproval(r)
    <2>1. /\ q0.kind = "approve" /\ MayApprove(s)
          /\ FlushReview(r, WithExecution(mark_completed(s.candidate), s.candidate),
                         Decided(s, "approved"), DecisionEvent(s, "approved"))
      BY <1>4 DEF WriteApproval
    <2>2. s.candidate \in Candidates
      BY <1>2, <2>1 DEF MayApprove, StateRow, Payload
    <2>3. WithExecution(mark_completed(s.candidate), s.candidate) \in FullRow
      BY <2>2, RowTypes
    <2>4. Decided(s, "approved") \in StateRow /\ DecisionEvent(s, "approved") \in Event
      BY <1>2, StateTypes
    <2>5. \A q \in RequestRecord :
                /\ q.kind = q0.kind /\ q.config = q0.config
                /\ q.row = WithExecution(mark_completed(s.candidate), s.candidate)
                /\ q.state = Decided(s, "approved")
                /\ q.event = <<DecisionEvent(s, "approved")>>
                => ReviewWrites(q, a, s)
      BY <2>1 DEF ReviewWrites, MayReview
    <2> QED BY <1>1, <1>3, <2>1, <2>3, <2>4, <2>5, FlushReviewStep
  <1>5. CASE WriteRejection(r)
    <2>1. /\ q0.kind = "reject" /\ MayReject(s)
          /\ FlushReview(r, WithExecution(mark_failed("human_review_rejected"), NoCandidate),
                         Decided(s, "rejected"), DecisionEvent(s, "rejected"))
      BY <1>5 DEF WriteRejection
    <2>2. WithExecution(mark_failed("human_review_rejected"), NoCandidate) \in FullRow
      BY RowTypes DEF ErrorCodes
    <2>3. Decided(s, "rejected") \in StateRow /\ DecisionEvent(s, "rejected") \in Event
      BY <1>2, StateTypes
    <2>4. \A q \in RequestRecord :
                /\ q.kind = q0.kind /\ q.config = q0.config
                /\ q.row = WithExecution(mark_failed("human_review_rejected"), NoCandidate)
                /\ q.state = Decided(s, "rejected")
                /\ q.event = <<DecisionEvent(s, "rejected")>>
                => ReviewWrites(q, a, s)
      BY <2>1 DEF ReviewWrites, MayReview
    <2> QED BY <1>1, <1>3, <2>1, <2>2, <2>3, <2>4, FlushReviewStep
  <1>6. CASE WriteRevisionRequest(r)
    <2>1. /\ q0.kind = "request_revision" /\ MayRequestRevision(s)
          /\ FlushReview(r, a, RevisionRequested(s), RevisionRequestEvent(s))
      BY <1>6 DEF WriteRevisionRequest
    <2>2. RevisionRequested(s) \in StateRow /\ RevisionRequestEvent(s) \in Event
      BY <1>2, StateTypes
    <2>3. PICK row \in FullRow : row = a
      BY <1>2
    <2>4. FlushReview(r, row, RevisionRequested(s), RevisionRequestEvent(s))
      BY <2>1, <2>3
    <2>5. \A q \in RequestRecord :
                /\ q.kind = q0.kind /\ q.config = q0.config
                /\ q.row = row /\ q.state = RevisionRequested(s)
                /\ q.event = <<RevisionRequestEvent(s)>>
                => ReviewWrites(q, a, s)
      BY <2>1, <2>3 DEF ReviewWrites, MayReview
    <2> QED BY <1>1, <1>3, <2>2, <2>4, <2>5, FlushReviewStep
  <1> QED BY <1>4, <1>5, <1>6

(* WriteResume preserves Inv. *)
LEMMA WriteResumeStep ==
    ASSUME Inv, NEW r \in Requests, NEW c \in Candidates, NEW d \in RuntimeRiskDecision,
           WriteResume(r, c, d)
    PROVE  Inv'
  <1> DEFINE q0 == requests[r]
             a == assessments[q0.id]
             s == states[q0.id]
             new == Resumed(s, c, d, q0.config.max)
             row == WithExecution(GatedRow(c, d), GatedExecution(c, d))
  <1>1. /\ LocksState(r) /\ q0.kind = "resume_revision" /\ MayResume(s)
        /\ UNCHANGED tables /\ settings' = settings /\ events' = events
    BY DEF WriteResume, tables
  <1>2. q0.id \in Ids /\ a \in FullRow /\ s \in StateRow /\ q0.config.max \in Nat
    BY <1>1, ConfigTypes DEF Inv, TypeOK, RequestAt, LocksState
  <1>3. new \in StateRow /\ ResumeEvent(s, d) \in Event /\ row \in FullRow
    BY <1>2, StateTypes, RowTypes
  <1>4. CASE RevisionBounds(new)
    <2>1. /\ FlushReview(r, row, new, ResumeEvent(s, d))
          /\ exported' = exported \cup {Export(q0.id, new)}
      BY <1>4 DEF WriteResume, GatedExecution
    <2>2. Recorded(events[q0.id], new.review, new.revision)
      BY DEF Recorded, HumanDecisions, Resumed, GatedState, GatedReview
    <2>3. /\ exported' \subseteq [id : Ids, review : HumanReviewStatus, revision : Nat]
          /\ ReviewExportIsCommitted'
      BY <1>1, <1>2, <1>3, <2>1, <2>2, ExportStep
    <2>4. \A q \in RequestRecord :
                /\ q.kind = q0.kind /\ q.config = q0.config
                /\ q.row = row /\ q.state = new /\ q.event = <<ResumeEvent(s, d)>>
                => ReviewWrites(q, a, s)
      BY <1>1, <1>4 DEF ReviewWrites, MayReview
    <2> HIDE DEF new, row
    <2> QED BY <1>1, <1>3, <2>1, <2>3, <2>4, FlushReviewStep
  <1>5. CASE ~RevisionBounds(new)
    <2>1. Answer(r, "error") /\ exported' = exported
      BY <1>5 DEF WriteResume
    <2> QED BY <1>1, <2>1, EndWithoutCommit DEF LocksState
  <1> QED BY <1>4, <1>5

(* CommitReview preserves Inv. *)
LEMMA CommitReviewStep ==
    ASSUME Inv, NEW r \in Requests, CommitReview(r)
    PROVE  Inv'
  <1> DEFINE q0 == requests[r]
             q == [q0 EXCEPT !.at = "exporting"]
  <1>1. /\ Reviewing(q0) /\ Apply(q0) /\ requests' = [requests EXCEPT ![r] = q]
        /\ lock' = [lock EXCEPT ![q0.id] = NoRequest]
        /\ settings' = settings /\ exported' = exported
    BY DEF CommitReview, Reviewing
  <1>2. q0 \in RequestRecord /\ q0.id \in Ids /\ lock[q0.id] = r
    BY <1>1 DEF Inv, TypeOK, RequestAt, RequestInv, Reviewing, ReviewKinds
  <1>3. lock' = Released(r)
    <2>1. \A id \in Ids : lock[id] = r => id = q0.id
      BY RequestAssumption DEF Inv, Locks
    <2> QED BY <1>1, <1>2, <2>1 DEF Released, Inv, TypeOK
  <1>4. /\ q \in RequestRecord /\ q.id = q0.id /\ q.kind = q0.kind /\ q.at = "exporting"
        /\ q.state = q0.state
    BY <1>2 DEF RequestRecord, Places
  <1> HIDE DEF q
  <1> QED BY <1>1, <1>3, <1>4, ReviewCommitStep

(* ExportReview preserves Inv. *)
LEMMA ExportReviewStep ==
    ASSUME Inv, NEW r \in Requests, ExportReview(r)
    PROVE  Inv'
  <1> DEFINE q == requests[r]
  <1>1. /\ q.at = "exporting" /\ Answer(r, "ok") /\ UNCHANGED tables /\ settings' = settings
        /\ exported' = exported \cup {Export(q.id, q.state)} /\ events' = events
    BY DEF ExportReview, tables
  <1>2. /\ q.id \in Ids /\ q.state \in StateRow
        /\ Told(q, assessments[q.id], states[q.id])
        /\ Recorded(events[q.id], q.state.review, q.state.revision)
    BY <1>1 DEF Inv, TypeOK, RequestRecord, RequestAt, RequestInv
  <1>3. /\ exported' \subseteq [id : Ids, review : HumanReviewStatus, revision : Nat]
        /\ ReviewExportIsCommitted'
    BY <1>1, <1>2, ExportStep
  <1>4. "ok" \in Answers
    BY DEF Answers
  <1> QED BY <1>1, <1>2, <1>3, <1>4, AnswerStep

(* The slot is free again: after an answer, or after a crash. *)
LEMMA FreeStep ==
    ASSUME Inv, NEW r \in Requests, Done(r) \/ Crash(r)
    PROVE  Inv'
  <1>1. /\ requests' = [requests EXCEPT ![r] = Idle] /\ UNCHANGED tables
        /\ settings' = settings /\ exported' = exported /\ events' = events
    BY DEF Done, Crash, tables
  <1>2. lock' = Released(r)
    <2>1. CASE Done(r)
      <3>1. ~Reviewing(requests[r]) /\ lock' = lock
        BY <2>1 DEF Done, Reviewing, Answers
      <3> QED BY <3>1, NothingHeld
    <2>2. CASE Crash(r)
      BY <2>2 DEF Crash, Released
    <2> QED BY <2>1, <2>2
  <1>3. Idle \in RequestRecord /\ Idle.at = "idle"
    BY RecordTypes
  <1>4. ~Reviewing(Idle) /\ ~Generating(Idle)
    BY <1>3 DEF Reviewing, Generating
  <1>5. RequestInv(r, Idle, assessments[Idle.id], states[Idle.id], events[Idle.id], lock'[Idle.id])
    BY <1>3 DEF RequestInv
  <1>6. /\ exported' \subseteq [id : Ids, review : HumanReviewStatus, revision : Nat]
        /\ ReviewExportIsCommitted'
    BY <1>1, NoExport
  <1> QED BY <1>1, <1>2, <1>3, <1>4, <1>5, <1>6, PrivateStep

(* DatabaseFails preserves Inv. *)
LEMMA DatabaseFailsStep ==
    ASSUME Inv, NEW r \in Requests, DatabaseFails(r)
    PROVE  Inv'
  <1>1. requests[r].at # "idle" /\ Answer(r, "error") /\ UNCHANGED tables
        /\ settings' = settings /\ exported' = exported
    BY DEF DatabaseFails
  <1> QED BY <1>1, EndWithoutCommit

(* AcknowledgementLost preserves Inv. *)
LEMMA AcknowledgementLostStep ==
    ASSUME Inv, NEW r \in Requests, AcknowledgementLost(r)
    PROVE  Inv'
  <1> DEFINE q0 == requests[r]
             q == [Idle EXCEPT !.kind = q0.kind, !.id = q0.id, !.at = "error"]
  <1>1. /\ q0.at \in {"persist_failure", "committing"} /\ Apply(q0) /\ Answer(r, "error")
        /\ settings' = settings /\ exported' = exported
    BY DEF AcknowledgementLost
  <1>2. "error" \in Answers /\ "error" # "ok"
    BY DEF Answers
  <1>3. CASE q0.at = "persist_failure" \/ q0.kind = "generate"
    BY <1>1, <1>2, <1>3, GenerationCommitStep
  <1>4. CASE q0.at = "committing" /\ q0.kind # "generate"
    <2>1. q0 \in RequestRecord /\ Reviewing(q0)
      BY <1>4 DEF Inv, TypeOK, RequestAt, RequestInv, Reviewing
    <2>2. q \in RequestRecord /\ q.kind = q0.kind /\ q.id = q0.id /\ q.at = "error"
      BY <1>2, <2>1, RecordTypes DEF Idle
    <2>3. requests' = [requests EXCEPT ![r] = q] /\ lock' = Released(r)
      BY <1>1 DEF Answer, Released
    <2> HIDE DEF q
    <2> QED BY <1>1, <2>1, <2>2, <2>3, ReviewCommitStep
  <1> QED BY <1>1, <1>3, <1>4

(* A step that touches neither requests nor tables. *)
LEMMA QuietStep ==
    ASSUME Inv, settings' \in Config, UNCHANGED <<tables, lock, requests, exported>>
    PROVE  Inv'
  <1>1. TypeOK'
    BY DEF Inv, TypeOK, tables
  <1>2. Rows' /\ (\A r \in Requests : RequestAt(r)')
    BY DEF Inv, Rows, RequestAt, tables
  <1>3. Locks' /\ Owners' /\ ReviewExportIsCommitted'
    BY DEF Inv, Locks, Owners, ReviewExportIsCommitted, tables
  <1> QED BY <1>1, <1>2, <1>3 DEF Inv

(* Every step of every request keeps the invariant. *)
LEMMA InvStep == Inv /\ [Next]_vars => Inv'
  <1> SUFFICES ASSUME Inv, [Next]_vars PROVE Inv'
    OBVIOUS
  <1>1. CASE UNCHANGED vars
    <2>1. settings' \in Config /\ UNCHANGED <<tables, lock, requests, exported>>
      BY <1>1 DEF vars, tables, Inv, TypeOK
    <2> QED BY <2>1, QuietStep
  <1>2. CASE Redeploy
    <2>1. settings' \in Config /\ UNCHANGED <<tables, lock, requests, exported>>
      BY <1>2, ConfigTypes DEF Redeploy
    <2> QED BY <2>1, QuietStep
  <1>3. ASSUME NEW r \in Requests, Arrive(r) PROVE Inv'
    BY <1>3, CreateStep, BeginReviewStep DEF Arrive
  <1>4. ASSUME NEW r \in Requests, Step(r) PROVE Inv'
    <2>1. CASE MarkProcessing(r)
      BY <2>1, MarkProcessingStep
    <2>2. ASSUME NEW c \in Candidates, GenerateUngated(r, c) PROVE Inv'
      BY <2>2, GenerateStep
    <2>3. ASSUME NEW c \in Candidates, NEW d \in RuntimeRiskDecision, GenerateGated(r, c, d)
          PROVE  Inv'
      BY <2>3, GenerateStep
    <2>4. ASSUME NEW c \in Candidates, NEW d \in RuntimeRiskDecision, WriteResume(r, c, d)
          PROVE  Inv'
      BY <2>4, WriteResumeStep
    <2>5. CASE GenerationFails(r)
      BY <2>5, GenerationFailsStep
    <2>6. CASE PersistFailure(r) \/ CommitGeneration(r)
      BY <2>6, CommitGenerationStep
    <2>7. CASE StateMissing(r) \/ RefuseReview(r)
      BY <2>7, RefuseStep
    <2>8. CASE WriteApproval(r) \/ WriteRejection(r) \/ WriteRevisionRequest(r)
      BY <2>8, WriteDecisionStep
    <2>9. CASE CommitReview(r)
      BY <2>9, CommitReviewStep
    <2>10. CASE ExportReview(r)
      BY <2>10, ExportReviewStep
    <2>11. CASE Done(r)
      BY <2>11, FreeStep
    <2> QED BY <1>4, <2>1, <2>2, <2>3, <2>4, <2>5, <2>6, <2>7, <2>8, <2>9, <2>10, <2>11 DEF Step
  <1>5. ASSUME NEW r \in Requests, DatabaseFails(r) \/ AcknowledgementLost(r) \/ Crash(r)
        PROVE  Inv'
    BY <1>5, DatabaseFailsStep, AcknowledgementLostStep, FreeStep
  <1> QED BY <1>1, <1>2, <1>3, <1>4, <1>5 DEF Next

(* Inv holds in every reachable state of the interleaved requests. *)
THEOREM Invariance == Spec => []Inv
  <1>1. Init => Inv
    <2> SUFFICES ASSUME Init PROVE Inv
      OBVIOUS
    <2>1. TypeOK
      <3>1. <<>> \in Seq(Event)
        OBVIOUS
      <3>2. settings \in Config
        BY ConfigTypes DEF Init
      <3>3. NoFullRow \in FullRow /\ NoState \in StateRow /\ Idle \in RequestRecord
        BY RowTypes, StateTypes, RecordTypes
      <3> QED BY <3>1, <3>2, <3>3 DEF Init, TypeOK
    <2>2. RowInv(NoFullRow, NoState)
      BY DEF RowInv, NoFullRow, WithExecution, NoRow
    <2>3. Rows
      BY <2>2 DEF Init, Rows
    <2>4. \A r \in Requests : RequestAt(r)
      BY RecordTypes DEF Init, RequestAt, RequestInv
    <2>5. Locks /\ Owners
      BY RecordTypes DEF Init, Locks, Owners, Generating
    <2>6. ReviewExportIsCommitted
      BY DEF Init, ReviewExportIsCommitted
    <2> QED BY <2>1, <2>3, <2>4, <2>5, <2>6 DEF Inv
  <1> QED BY <1>1, InvStep, PTL DEF Spec

-----------------------------------------------------------------------------
(* What the row lock, the transaction and the order of commit and export    *)
(* give.                                                                    *)

(* SELECT ... FOR UPDATE: what _required_pending_state checked still holds  *)
(* when the review commits, for any number of concurrent requests.          *)
THEOREM CheckedStateSafe == Spec => []CheckedStateIsCurrent
  <1>1. Inv => CheckedStateIsCurrent
    <2> SUFFICES ASSUME Inv, NEW r \in Requests, requests[r].at = "committing",
                        requests[r].kind \in ReviewKinds
                 PROVE  /\ lock[requests[r].id] = r
                        /\ MayReview(requests[r].kind, states[requests[r].id])
      BY DEF CheckedStateIsCurrent
    <2> QED BY DEF Inv, RequestAt, RequestInv, ReviewKinds, ReviewWrites
  <1> QED BY <1>1, Invariance, PTL

(* A client that is told "approved", "rejected" or that its assessment was  *)
(* generated finds that in the tables, whatever the others commit.          *)
THEOREM AnswerSafe == Spec => []AnswerIsDurable
  <1>1. Inv => AnswerIsDurable
    BY DEF Inv, RequestAt, RequestInv, Told, Unsettled, AnswerIsDurable
  <1> QED BY <1>1, Invariance, PTL

(* _export_telemetry of a reviewer's action runs after its commit: whatever *)
(* crashes or fails, an exported decision is in human_review_events.        *)
THEOREM ReviewExportSafe == Spec => []ReviewExportIsCommitted
  <1>1. Inv => ReviewExportIsCommitted
    BY DEF Inv
  <1> QED BY <1>1, Invariance, PTL

(* The execution metadata of a row is that of the result, or of the         *)
(* candidate under review, that the row shows.                              *)
THEOREM ExecutionSafe == Spec => []ExecutionMatchesResult
  <1>1. Inv => ExecutionMatchesResult
    BY DEF Inv, Rows, RowInv, ExecutionMatchesResult
  <1> QED BY <1>1, Invariance, PTL

-----------------------------------------------------------------------------
(* The interleaved requests implement ReviewLifecycle.                     *)

(* The columns ReviewLifecycle speaks of. *)
Columns(row) == [status |-> row.status, result |-> row.result, error |-> row.error]

Shown == [id \in Ids |-> Columns(assessments[id])]

(* The tables' operators of the instance are those of this module. *)
LEMMA InstanceOperators ==
    /\ Lifecycle!NoRow = NoRow /\ Lifecycle!NoState = NoState /\ Lifecycle!create = create
    /\ \A a : Lifecycle!mark_processing(a) = mark_processing(a)
    /\ \A c : Lifecycle!mark_completed(c) = mark_completed(c)
    /\ \A code : Lifecycle!mark_failed(code) = mark_failed(code)
    /\ \A c, d : Lifecycle!GatedRow(c, d) = GatedRow(c, d)
    /\ \A c, d, n, max : Lifecycle!GatedState(c, d, n, max) = GatedState(c, d, n, max)
    /\ \A d : Lifecycle!RequestEvents(d) = RequestEvents(d)
    /\ Lifecycle!RuntimeRiskDecision = RuntimeRiskDecision
    /\ \A s : Lifecycle!MayApprove(s) <=> MayApprove(s)
    /\ \A s : Lifecycle!MayReject(s) <=> MayReject(s)
    /\ \A s : Lifecycle!MayRequestRevision(s) <=> MayRequestRevision(s)
    /\ \A s : Lifecycle!MayResume(s) <=> MayResume(s)
    /\ \A s : Lifecycle!RevisionBounds(s) <=> RevisionBounds(s)
    /\ \A s, review : Lifecycle!Decided(s, review) = Decided(s, review)
    /\ \A s, review : Lifecycle!DecisionEvent(s, review) = DecisionEvent(s, review)
    /\ \A s : Lifecycle!RevisionRequested(s) = RevisionRequested(s)
    /\ \A s : Lifecycle!RevisionRequestEvent(s) = RevisionRequestEvent(s)
    /\ \A s, c, d, max : Lifecycle!Resumed(s, c, d, max) = Resumed(s, c, d, max)
    /\ \A s, d : Lifecycle!ResumeEvent(s, d) = ResumeEvent(s, d)
  <1>1. /\ Lifecycle!NoRow = NoRow /\ Lifecycle!NoState = NoState /\ Lifecycle!create = create
        /\ \A a : Lifecycle!mark_processing(a) = mark_processing(a)
        /\ \A c : Lifecycle!mark_completed(c) = mark_completed(c)
        /\ \A code : Lifecycle!mark_failed(code) = mark_failed(code)
    BY DEF Lifecycle!NoRow, NoRow, Lifecycle!NoState, NoState, Lifecycle!create, create,
           Lifecycle!mark_processing, mark_processing, Lifecycle!mark_completed, mark_completed,
           Lifecycle!mark_failed, mark_failed
  <1>2. \A d : Lifecycle!GatedReview(d) = GatedReview(d)
    BY DEF Lifecycle!GatedReview, GatedReview
  <1>3. \A c, d : Lifecycle!GatedRow(c, d) = GatedRow(c, d)
    BY <1>1 DEF Lifecycle!GatedRow, GatedRow, Lifecycle!mark_pending_review, mark_pending_review
  <1>4. \A c, d, n, max : Lifecycle!GatedState(c, d, n, max) = GatedState(c, d, n, max)
    BY <1>2 DEF Lifecycle!GatedState, GatedState
  <1>5. \A x, y, z, n : Lifecycle!ReviewEvent(x, y, z, n) = ReviewEvent(x, y, z, n)
    BY DEF Lifecycle!ReviewEvent, ReviewEvent
  <1>6. \A d : Lifecycle!RequestEvents(d) = RequestEvents(d)
    BY <1>2, <1>5 DEF Lifecycle!RequestEvents, RequestEvents
  <1>7. Lifecycle!RuntimeRiskDecision = RuntimeRiskDecision
    BY DEF Lifecycle!RuntimeRiskDecision, RuntimeRiskDecision, Lifecycle!AutoDecisions, AutoDecisions
  <1>8. /\ \A s : Lifecycle!MayApprove(s) <=> MayApprove(s)
        /\ \A s : Lifecycle!MayReject(s) <=> MayReject(s)
        /\ \A s : Lifecycle!MayRequestRevision(s) <=> MayRequestRevision(s)
        /\ \A s : Lifecycle!MayResume(s) <=> MayResume(s)
        /\ \A s : Lifecycle!RevisionBounds(s) <=> RevisionBounds(s)
    BY DEF Lifecycle!MayApprove, MayApprove, Lifecycle!MayReject, MayReject,
           Lifecycle!MayRequestRevision, MayRequestRevision, Lifecycle!MayResume, MayResume,
           Lifecycle!RevisionBounds, RevisionBounds, Lifecycle!PendingState, PendingState,
           Lifecycle!Exists, Exists
  <1>9. /\ \A s, review : Lifecycle!Decided(s, review) = Decided(s, review)
        /\ \A s : Lifecycle!RevisionRequested(s) = RevisionRequested(s)
        /\ \A s, c, d, max : Lifecycle!Resumed(s, c, d, max) = Resumed(s, c, d, max)
    BY <1>4 DEF Lifecycle!Decided, Decided, Lifecycle!RevisionRequested, RevisionRequested,
           Lifecycle!Resumed, Resumed
  <1>10. /\ \A s, review : Lifecycle!DecisionEvent(s, review) = DecisionEvent(s, review)
         /\ \A s : Lifecycle!RevisionRequestEvent(s) = RevisionRequestEvent(s)
         /\ \A s, d : Lifecycle!ResumeEvent(s, d) = ResumeEvent(s, d)
    BY <1>2, <1>5 DEF Lifecycle!DecisionEvent, DecisionEvent, Lifecycle!RevisionRequestEvent,
           RevisionRequestEvent, Lifecycle!ResumeEvent, ResumeEvent
  <1> QED BY <1>1, <1>3, <1>4, <1>6, <1>7, <1>8, <1>9, <1>10

(* One row is replaced: the shown row is replaced too. *)
LEMMA ShownStep ==
    ASSUME TypeOK, NEW id \in Ids, NEW a, assessments' = [assessments EXCEPT ![id] = a]
    PROVE  /\ Shown' = [Shown EXCEPT ![id] = Columns(a)]
           /\ Shown[id] = Columns(assessments[id])
  BY DEF TypeOK, Shown, Columns

(* The execution column is not shown. *)
LEMMA ColumnsOf ==
    /\ Columns(NoFullRow) = NoRow
    /\ Columns(WithExecution(create, NoCandidate)) = create
    /\ \A a \in FullRow : Columns(mark_processing(a)) = mark_processing(Columns(a))
    /\ \A c, x : Columns(WithExecution(mark_completed(c), x)) = mark_completed(c)
    /\ \A code, x : Columns(WithExecution(mark_failed(code), x)) = mark_failed(code)
    /\ \A c, x : \A d \in RuntimeRiskDecision :
        Columns(WithExecution(GatedRow(c, d), x)) = GatedRow(c, d)
  <1> USE DEF Columns, WithExecution
  <1>1. /\ Columns(NoFullRow) = NoRow /\ Columns(WithExecution(create, NoCandidate)) = create
    BY DEF NoFullRow, NoRow, create
  <1>2. \A a \in FullRow : Columns(mark_processing(a)) = mark_processing(Columns(a))
    BY DEF mark_processing, FullRow
  <1>3. /\ \A c, x : Columns(WithExecution(mark_completed(c), x)) = mark_completed(c)
        /\ \A code, x : Columns(WithExecution(mark_failed(code), x)) = mark_failed(code)
        /\ \A x : Columns(WithExecution(mark_pending_review, x)) = mark_pending_review
    BY DEF mark_completed, mark_failed, mark_pending_review
  <1>4. \A c, x : \A d \in RuntimeRiskDecision :
            Columns(WithExecution(GatedRow(c, d), x)) = GatedRow(c, d)
    <2> HIDE DEF Columns, WithExecution
    <2> QED BY <1>3 DEF GatedRow
  <1> QED BY <1>1, <1>2, <1>3, <1>4

(* Each committed transaction is a step of the lifecycle. *)
LEMMA LifecycleNext ==
    ASSUME NEW id \in Ids
    PROVE  /\ Lifecycle!Create(id) => Lifecycle!Next
           /\ Lifecycle!MarkProcessing(id) => Lifecycle!Next
           /\ Lifecycle!PersistFailure(id) => Lifecycle!Next
           /\ \A c \in Candidates : Lifecycle!CompleteUngated(id, c) => Lifecycle!Next
           /\ \A c \in Candidates, d \in RuntimeRiskDecision, max \in 0..MaxHumanRevisions :
                /\ Lifecycle!ProcessCandidate(id, c, d, max) => Lifecycle!Next
                /\ Lifecycle!ResumeRevision(id, c, d, max) => Lifecycle!Next
           /\ Lifecycle!Approve(id) => Lifecycle!Next
           /\ Lifecycle!Reject(id) => Lifecycle!Next
           /\ Lifecycle!RequestRevision(id) => Lifecycle!Next
  <1>1. RuntimeRiskDecision = Lifecycle!RuntimeRiskDecision
    BY InstanceOperators
  <1> QED BY <1>1 DEF Lifecycle!Next, Lifecycle!Generation, Lifecycle!Review

(* The first two transactions of generate_assessment. *)
LEMMA CreateRefines ==
    ASSUME Inv, NEW r \in Requests, NEW id \in Ids, CreateAssessment(r, id)
    PROVE  Lifecycle!Next
  <1>1. /\ assessments[id].status = "absent"
        /\ assessments' = [assessments EXCEPT ![id] = WithExecution(create, NoCandidate)]
        /\ states' = states /\ events' = events
    BY DEF CreateAssessment
  <1>2. Shown' = [Shown EXCEPT ![id] = create]
    <2>1. TypeOK
      BY DEF Inv
    <2>2. Shown' = [Shown EXCEPT ![id] = Columns(WithExecution(create, NoCandidate))]
      BY <1>1, <2>1, ShownStep
    <2> QED BY <2>2, ColumnsOf
  <1>3. Lifecycle!Create(id)
    BY <1>1, <1>2, InstanceOperators DEF Lifecycle!Create, Shown, Columns
  <1> QED BY <1>3, LifecycleNext

(* The second commit of a generation is MarkProcessing. *)
LEMMA MarkProcessingRefines ==
    ASSUME Inv, NEW r \in Requests, MarkProcessing(r)
    PROVE  Lifecycle!Next
  <1>1. PICK id \in Ids : id = requests[r].id
    BY DEF MarkProcessing, Inv, RequestAt
  <1> DEFINE a == assessments[id]
  <1>2. /\ requests[r].at = "created" /\ states' = states /\ events' = events
        /\ assessments' = [assessments EXCEPT ![id] = mark_processing(a)]
    BY <1>1 DEF MarkProcessing
  <1>3. a \in FullRow /\ a.status = "pending"
    BY <1>1, <1>2 DEF Inv, TypeOK, RequestAt, RequestInv
  <1>4. Shown' = [Shown EXCEPT ![id] = mark_processing(Shown[id])]
    <2>1. TypeOK
      BY DEF Inv
    <2>2. Shown' = [Shown EXCEPT ![id] = Columns(mark_processing(a))] /\ Shown[id] = Columns(a)
      BY <1>2, <2>1, ShownStep
    <2>3. Columns(mark_processing(a)) = mark_processing(Columns(a))
      BY <1>3, ColumnsOf
    <2> QED BY <2>2, <2>3
  <1>5. Lifecycle!MarkProcessing(id)
    BY <1>2, <1>3, <1>4, InstanceOperators DEF Lifecycle!MarkProcessing, Shown, Columns
  <1> QED BY <1>5, LifecycleNext

(* The commit of a generation is PersistFailure, CompleteUngated or         *)
(* ProcessCandidate.                                                        *)
LEMMA GenerationRefines ==
    ASSUME Inv, NEW r \in Requests, Apply(requests[r]),
           \/ requests[r].at = "persist_failure"
           \/ requests[r].at = "committing" /\ requests[r].kind = "generate"
    PROVE  Lifecycle!Next
  <1> DEFINE q == requests[r]
  <1>0. PICK id \in Ids : id = q.id
    BY DEF Inv, RequestAt
  <1>1. /\ assessments' = [assessments EXCEPT ![id] = q.row]
        /\ states' = [states EXCEPT ![id] = q.state]
        /\ events' = [events EXCEPT ![id] = events[id] \o q.event]
    BY <1>0 DEF Apply
  <1>2. /\ TypeOK /\ q \in RequestRecord
        /\ RequestInv(r, q, assessments[id], states[id], events[id], lock[id])
    BY <1>0 DEF Inv, TypeOK, RequestAt
  <1>3. assessments[id].status = "processing" /\ states[id] = NoState
    BY <1>2 DEF RequestInv, ReviewKinds, Inv, Rows, RowInv, Unsettled
  <1>4. Shown' = [Shown EXCEPT ![id] = Columns(q.row)]
    BY <1>1, <1>2, ShownStep
  <1>5. q.state = NoState /\ q.event = <<>> => states' = states /\ events' = events
    BY <1>1, <1>2, <1>3 DEF TypeOK
  <1>6. CASE q.at = "persist_failure"
    <2>1. Columns(q.row) = mark_failed("generation_failed") /\ states' = states /\ events' = events
      BY <1>2, <1>5, <1>6, ColumnsOf DEF RequestInv
    <2>2. Lifecycle!PersistFailure(id)
      BY <1>3, <1>4, <2>1, InstanceOperators DEF Lifecycle!PersistFailure, Shown, Columns
    <2> QED BY <2>2, LifecycleNext
  <1>7. CASE q.at = "committing"
    <2>1. GenerateWrites(q)
      BY <1>2, <1>7 DEF RequestInv, ReviewKinds
    <2>2. ASSUME NEW c \in Candidates, q.row = WithExecution(mark_completed(c), c),
                 q.state = NoState, q.event = <<>>
          PROVE  Lifecycle!Next
      <3>1. Columns(q.row) = mark_completed(c) /\ states' = states /\ events' = events
        BY <1>5, <2>2, ColumnsOf
      <3>2. Lifecycle!CompleteUngated(id, c)
        BY <1>3, <1>4, <3>1, InstanceOperators DEF Lifecycle!CompleteUngated, Shown, Columns
      <3> QED BY <3>2, LifecycleNext
    <2>3. ASSUME NEW c \in Candidates, NEW d \in RuntimeRiskDecision,
                 q.row = WithExecution(GatedRow(c, d), GatedExecution(c, d)),
                 q.state = GatedState(c, d, 0, q.config.max), q.event = RequestEvents(d)
          PROVE  Lifecycle!Next
      <3>1. Columns(q.row) = GatedRow(c, d)
        BY <2>3, ColumnsOf
      <3>2. PICK max \in 0..MaxHumanRevisions : max = q.config.max
        BY <1>2, ConfigTypes
      <3>3. Lifecycle!ProcessCandidate(id, c, d, max)
        BY <1>1, <1>3, <1>4, <2>3, <3>1, <3>2, InstanceOperators
           DEF Lifecycle!ProcessCandidate, Shown, Columns
      <3> QED BY <3>3, LifecycleNext
    <2> QED BY <2>1, <2>2, <2>3 DEF GenerateWrites
  <1> QED BY <1>6, <1>7

(* The commit of a review is Approve, Reject, RequestRevision or            *)
(* ResumeRevision: the lock has kept the checkpoint it was computed from.   *)
LEMMA ReviewRefines ==
    ASSUME Inv, NEW r \in Requests, Apply(requests[r]), Reviewing(requests[r])
    PROVE  Lifecycle!Next
  <1> DEFINE q == requests[r]
  <1>0. PICK id \in Ids : id = q.id
    BY DEF Inv, RequestAt, Reviewing
  <1> DEFINE s == states[id]
  <1>1. /\ assessments' = [assessments EXCEPT ![id] = q.row]
        /\ states' = [states EXCEPT ![id] = q.state]
        /\ events' = [events EXCEPT ![id] = events[id] \o q.event]
    BY <1>0 DEF Apply
  <1>2. /\ TypeOK /\ q \in RequestRecord
        /\ s \in StateRow /\ events[id] \in Seq(Event) /\ q.kind \in ReviewKinds
    BY DEF Inv, TypeOK, RequestAt, Reviewing
  <1>3. ReviewWrites(q, assessments[id], s)
    BY <1>0 DEF Inv, RequestAt, RequestInv, Reviewing, ReviewKinds
  <1>4. Shown' = [Shown EXCEPT ![id] = Columns(q.row)]
    BY <1>1, <1>2, ShownStep
  <1>5. ASSUME NEW x \in Event, q.event = <<x>>
        PROVE  events' = [events EXCEPT ![id] = Append(events[id], x)]
    <2>1. events[id] \o <<x>> = Append(events[id], x)
      BY <1>2
    <2> QED BY <1>1, <1>5, <2>1
  <1>6. CASE q.kind = "approve"
    <2>1. /\ MayApprove(s) /\ q.row = WithExecution(mark_completed(s.candidate), s.candidate)
          /\ q.state = Decided(s, "approved") /\ q.event = <<DecisionEvent(s, "approved")>>
      BY <1>3, <1>6 DEF ReviewWrites, MayReview
    <2>2. Columns(q.row) = mark_completed(s.candidate) /\ DecisionEvent(s, "approved") \in Event
      BY <1>2, <2>1, ColumnsOf, StateTypes
    <2>3. events' = [events EXCEPT ![id] = Append(events[id], DecisionEvent(s, "approved"))]
      BY <1>5, <2>1, <2>2
    <2>4. Lifecycle!Approve(id)
      BY <1>1, <1>4, <2>1, <2>2, <2>3, InstanceOperators DEF Lifecycle!Approve, Shown, Columns
    <2> QED BY <2>4, LifecycleNext
  <1>7. CASE q.kind = "reject"
    <2>1. /\ MayReject(s)
          /\ q.row = WithExecution(mark_failed("human_review_rejected"), NoCandidate)
          /\ q.state = Decided(s, "rejected") /\ q.event = <<DecisionEvent(s, "rejected")>>
      BY <1>3, <1>7 DEF ReviewWrites, MayReview
    <2>2. /\ Columns(q.row) = mark_failed("human_review_rejected")
          /\ DecisionEvent(s, "rejected") \in Event
      BY <1>2, <2>1, ColumnsOf, StateTypes
    <2>3. events' = [events EXCEPT ![id] = Append(events[id], DecisionEvent(s, "rejected"))]
      BY <1>5, <2>1, <2>2
    <2>4. Lifecycle!Reject(id)
      BY <1>1, <1>4, <2>1, <2>2, <2>3, InstanceOperators DEF Lifecycle!Reject, Shown, Columns
    <2> QED BY <2>4, LifecycleNext
  <1>8. CASE q.kind = "request_revision"
    <2>1. /\ MayRequestRevision(s) /\ q.row = assessments[id]
          /\ q.state = RevisionRequested(s) /\ q.event = <<RevisionRequestEvent(s)>>
      BY <1>3, <1>8 DEF ReviewWrites, MayReview
    <2>2. Shown' = Shown
      BY <1>1, <1>2, <2>1 DEF TypeOK, Shown, Columns
    <2>3. RevisionRequestEvent(s) \in Event
      BY <1>2, StateTypes
    <2>4. events' = [events EXCEPT ![id] = Append(events[id], RevisionRequestEvent(s))]
      BY <1>5, <2>1, <2>3
    <2>5. Lifecycle!RequestRevision(id)
      BY <1>1, <2>1, <2>2, <2>4, InstanceOperators
         DEF Lifecycle!RequestRevision, Shown, Columns
    <2> QED BY <2>5, LifecycleNext
  <1>9. CASE q.kind = "resume_revision"
    <2>1. MayResume(s)
      BY <1>3, <1>9 DEF ReviewWrites, MayReview
    <2>2. PICK c \in Candidates, d \in RuntimeRiskDecision :
            /\ q.row = WithExecution(GatedRow(c, d), GatedExecution(c, d))
            /\ q.state = Resumed(s, c, d, q.config.max)
            /\ RevisionBounds(q.state)
            /\ q.event = <<ResumeEvent(s, d)>>
      BY <1>3, <1>9 DEF ReviewWrites
    <2>3. Columns(q.row) = GatedRow(c, d) /\ ResumeEvent(s, d) \in Event
      BY <1>2, <2>2, ColumnsOf, StateTypes
    <2>4. events' = [events EXCEPT ![id] = Append(events[id], ResumeEvent(s, d))]
      BY <1>5, <2>2, <2>3
    <2>5. PICK max \in 0..MaxHumanRevisions : max = q.config.max
      BY <1>2, ConfigTypes
    <2>6. Lifecycle!ResumeRevision(id, c, d, max)
      BY <1>1, <1>4, <2>1, <2>2, <2>3, <2>4, <2>5, InstanceOperators
         DEF Lifecycle!ResumeRevision, Shown, Columns
    <2> QED BY <2>6, LifecycleNext
  <1> QED BY <1>2, <1>6, <1>7, <1>8, <1>9 DEF ReviewKinds

(* Every step of a request is a transaction of the lifecycle, or invisible. *)
LEMMA StepRefines == Inv /\ [Next]_vars => [Lifecycle!Next]_(Lifecycle!vars)
  <1> SUFFICES ASSUME Inv, [Next]_vars, ~(UNCHANGED Lifecycle!vars) PROVE Lifecycle!Next
    OBVIOUS
  <1>1. ~(UNCHANGED tables)
    BY DEF tables, Lifecycle!vars
  <1>2. PICK r \in Requests :
            \/ \E id \in Ids : CreateAssessment(r, id)
            \/ MarkProcessing(r)
            \/ PersistFailure(r) \/ CommitGeneration(r) \/ CommitReview(r)
            \/ AcknowledgementLost(r)
    <2>1. ~(UNCHANGED vars) /\ ~Redeploy
      BY <1>1 DEF vars, tables, Redeploy
    <2>2. PICK r \in Requests :
            Arrive(r) \/ Step(r) \/ DatabaseFails(r) \/ AcknowledgementLost(r) \/ Crash(r)
      BY <2>1 DEF Next
    <2>3. ~DatabaseFails(r) /\ ~Crash(r)
      BY <1>1 DEF DatabaseFails, Crash
    <2>4. CASE Arrive(r)
      BY <1>1, <2>4 DEF Arrive, BeginReview
    <2>5. CASE Step(r)
      <3>1. /\ \A c \in Candidates : ~GenerateUngated(r, c)
            /\ \A c \in Candidates, d \in RuntimeRiskDecision : ~GenerateGated(r, c, d)
            /\ \A c \in Candidates, d \in RuntimeRiskDecision : ~WriteResume(r, c, d)
        BY <1>1 DEF GenerateUngated, GenerateGated, WriteResume
      <3>2. ~GenerationFails(r) /\ ~StateMissing(r) /\ ~RefuseReview(r)
        BY <1>1 DEF GenerationFails, StateMissing, RefuseReview
      <3>3. /\ ~WriteApproval(r) /\ ~WriteRejection(r) /\ ~WriteRevisionRequest(r)
            /\ ~ExportReview(r) /\ ~Done(r)
        BY <1>1 DEF WriteApproval, WriteRejection, WriteRevisionRequest, ExportReview, Done
      <3> QED BY <2>5, <3>1, <3>2, <3>3 DEF Step
    <2> QED BY <2>2, <2>3, <2>4, <2>5
  <1>3. CASE \E id \in Ids : CreateAssessment(r, id)
    BY <1>3, CreateRefines
  <1>4. CASE MarkProcessing(r)
    BY <1>4, MarkProcessingRefines
  <1>5. CASE PersistFailure(r) \/ CommitGeneration(r)
    BY <1>5, GenerationRefines DEF PersistFailure, CommitGeneration
  <1>6. CASE CommitReview(r)
    BY <1>6, ReviewRefines DEF CommitReview, Reviewing
  <1>7. CASE AcknowledgementLost(r)
    <2>1. requests[r].at \in {"persist_failure", "committing"} /\ Apply(requests[r])
      BY <1>7 DEF AcknowledgementLost
    <2>2. requests[r].at = "committing" =>
            requests[r].kind = "generate" \/ Reviewing(requests[r])
      BY DEF Inv, RequestAt, RequestInv, Reviewing
    <2> QED BY <2>1, <2>2, GenerationRefines, ReviewRefines
  <1> QED BY <1>2, <1>3, <1>4, <1>5, <1>6, <1>7

(* The requests, however they interleave, crash, lose acknowledgements or   *)
(* are redeployed, implement the lifecycle: every commit is one of its      *)
(* transactions.                                                            *)
THEOREM LifecycleRefined == Spec => RefinesLifecycle
  <1>1. Init => Lifecycle!Init
    <2> SUFFICES ASSUME Init PROVE Lifecycle!Init
      OBVIOUS
    <2>1. Shown = [id \in Ids |-> NoRow]
      BY ColumnsOf DEF Init, Shown
    <2>2. states = [id \in Ids |-> NoState] /\ events = [id \in Ids |-> <<>>]
      BY DEF Init
    <2> QED BY <2>1, <2>2, InstanceOperators DEF Lifecycle!Init, Shown, Columns
  <1> QED BY <1>1, StepRefines, Invariance, PTL DEF Spec, RefinesLifecycle, Lifecycle!Spec

=============================================================================
