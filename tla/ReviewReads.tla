----------------------------- MODULE ReviewReads ------------------------------
(***************************************************************************)
(* The read side of the review tables: ProductReadService.list_assessments *)
(* and get_review_candidate.  Both are several statements of one session   *)
(* at READ COMMITTED, so transactions of ReviewLifecycle commit between    *)
(* them.  A list item shows the status of a row, and the decision and the  *)
(* review status of its checkpoint; texts and time stamps are left out.    *)
(* Which rows come first is left open: a page is any part of the matching  *)
(* rows of the size asked for.                                             *)
(*                                                                         *)
(* A definition introduced by "Faulty variant" is the definition after it  *)
(* with a plausible mistake; the specification does not use it.            *)
(***************************************************************************)
EXTENDS ReviewLifecycle, FiniteSetsExt

CONSTANTS
    Filters,    \* values of the query parameter status
    AnyStatus,  \* the one that asks for every status
    PageSizes,  \* values of the query parameter limit
    MaxCommits  \* transactions that commit during one read

(* The tables are finite. *)
ASSUME IdsAssumption == IsFiniteSet(Ids)

VARIABLE read   \* the read under way

readVars == <<vars, read>>

NoRead ==
    [kind |-> "none", at |-> 1, status |-> AnyStatus, limit |-> 0, page |-> <<>>,
     shown |-> <<>>, total |-> 0, status_counts |-> <<>>, decision_counts |-> <<>>,
     review_counts |-> <<>>, commits |-> 0]

(* Faulty variant: the total is counted before the page is read. *)
list_assessments_counting_first ==
    <<"count", "list_page", "get_states", "count_by_status", "count_by_gate_decision",
      "count_by_review_status">>

(* The statements of a page, in the order in which its arguments are        *)
(* evaluated.                                                               *)
list_assessments ==
    <<"list_page", "get_states", "count", "count_by_status", "count_by_gate_decision",
      "count_by_review_status">>

get_review_candidate == <<"get_by_id", "get_state">>

Statements(kind) ==
    CASE kind = "page" -> list_assessments
      [] kind = "candidate" -> get_review_candidate
      [] OTHER -> <<>>

Complete == read.kind # "none" /\ read.at > Len(Statements(read.kind))

At(statement) ==
    /\ read.at \in DOMAIN Statements(read.kind)
    /\ Statements(read.kind)[read.at] = statement

Reads(r) == read' = [r EXCEPT !.at = @ + 1] /\ UNCHANGED vars

-----------------------------------------------------------------------------
BeginPage ==
    /\ read = NoRead
    /\ \E status \in Filters, limit \in PageSizes :
        read' = [NoRead EXCEPT !.kind = "page", !.status = status, !.limit = limit]
    /\ UNCHANGED vars

Stored == {id \in Ids : assessments[id].status # "absent"}

Listed(status) ==
    {id \in Stored : status = AnyStatus \/ assessments[id].status = status}

list_page ==
    /\ At("list_page")
    /\ LET ids == Listed(read.status)
       IN  \E S \in kSubset(Min({read.limit, Cardinality(ids)}), ids) :
            Reads([read EXCEPT !.page = [id \in S |-> assessments[id].status]])

(* The checkpoint columns of the items; nulls for a row without one. *)
get_states ==
    /\ At("get_states")
    /\ Reads([read EXCEPT !.shown = [id \in DOMAIN read.page |->
                [decision |-> states[id].decision, review |-> states[id].review]]])

count == At("count") /\ Reads([read EXCEPT !.total = Cardinality(Listed(read.status))])

(* GROUP BY: how many of the ids have each value of a column. *)
Counts(ids, column) ==
    [v \in {column[id] : id \in ids} |-> Cardinality({id \in ids : column[id] = v})]

count_by_status ==
    /\ At("count_by_status")
    /\ Reads([read EXCEPT !.status_counts =
                Counts(Stored, [id \in Ids |-> assessments[id].status])])

WithState == {id \in Ids : HasState(id)}

count_by_gate_decision ==
    /\ At("count_by_gate_decision")
    /\ Reads([read EXCEPT !.decision_counts =
                Counts(WithState, [id \in Ids |-> states[id].decision])])

count_by_review_status ==
    /\ At("count_by_review_status")
    /\ Reads([read EXCEPT !.review_counts =
                Counts(WithState, [id \in Ids |-> states[id].review])])

-----------------------------------------------------------------------------
(* get_review_candidate: AssessmentNotFoundError without the row,           *)
(* RuntimeStateNotFoundError without the checkpoint.                        *)
BeginCandidate ==
    /\ read = NoRead
    /\ read' = [NoRead EXCEPT !.kind = "candidate"]
    /\ UNCHANGED vars

get_by_id ==
    /\ At("get_by_id")
    /\ \E id \in Stored : Reads([read EXCEPT !.page = [i \in {id} |-> assessments[i].status]])

get_state ==
    /\ At("get_state")
    /\ Reads([read EXCEPT !.shown = [id \in DOMAIN read.page |->
                [review |-> states[id].review, candidate |-> states[id].candidate]]])

-----------------------------------------------------------------------------
(* The answer is sent. *)
Answer ==
    /\ Complete
    /\ read' = NoRead
    /\ UNCHANGED vars

(* A transaction of another request commits. *)
OtherCommits ==
    /\ Next
    /\ ~Complete /\ read.commits < MaxCommits
    /\ read' = IF read = NoRead THEN read ELSE [read EXCEPT !.commits = @ + 1]

ReadInit == Init /\ read = NoRead

ReadNext ==
    \/ OtherCommits
    \/ BeginPage \/ list_page \/ get_states \/ count
    \/ count_by_status \/ count_by_gate_decision \/ count_by_review_status
    \/ BeginCandidate \/ get_by_id \/ get_state
    \/ Answer

ReadSpec == ReadInit /\ [][ReadNext]_readVars

-----------------------------------------------------------------------------
(* Properties. *)

(* The rows that counts tell apart: the first, second, ... row of a value.  *)
Counted(counts) == UNION {{v} \X (1..counts[v]) : v \in DOMAIN counts}

(* The sum of the counts. *)
Total(counts) == Cardinality(Counted(counts))

(* What a row of this status may show of a checkpoint read after it. *)
Follows(status, item) ==
    /\ status = "completed" =>
            item.decision \in AutoDecisions \cup {"none"} \/ item.review = "approved"
    /\ status = "failed" =>
            item.decision \in {"block_and_escalate", "none"} \/ item.review = "rejected"
    /\ status = "pending_review" => item.decision # "none"

(***************************************************************************)
(* A page read without a snapshot still makes sense, because checkpoints   *)
(* are read after rows and totals after the page: a completed or failed    *)
(* item shows the decision that made it so, an item under review has a     *)
(* checkpoint; the page is not larger than the total it names, unless a    *)
(* filter is set and rows moved on; final rows are counted under their     *)
(* status.                                                                 *)
(***************************************************************************)
ItemsAreExplained ==
    (Complete /\ read.kind = "page") =>
        LET items == DOMAIN read.page
            final(s) == {id \in items : read.page[id] = s}
        IN  /\ \A id \in items : Follows(read.page[id], read.shown[id])
            /\ read.status = AnyStatus => Cardinality(items) <= read.total
            /\ \A s \in Final : final(s) # {} =>
                    /\ s \in DOMAIN read.status_counts
                    /\ Cardinality(final(s)) <= read.status_counts[s]

(***************************************************************************)
(* The facets read later count every row and every checkpoint that was     *)
(* there before.                                                           *)
(***************************************************************************)
FacetsCover ==
    (Complete /\ read.kind = "page") =>
        /\ read.total <= Total(read.status_counts)
        /\ Cardinality({id \in DOMAIN read.page : read.shown[id].decision # "none"})
                <= Total(read.decision_counts)
        /\ Total(read.decision_counts) <= Total(read.review_counts)

(* A page as a whole. *)
PageIsExplicable == ItemsAreExplained /\ FacetsCover

(***************************************************************************)
(* What a reviewer is shown: whenever the row had settled through the gate *)
(* when it was read, the checkpoint read after it holds a candidate, so    *)
(* that get_review_candidate does not fail; and the candidate of an        *)
(* approval that was shown is the public result, then and ever after.      *)
(***************************************************************************)
CandidateIsCurrent ==
    (Complete /\ read.kind = "candidate") =>
        \A id \in DOMAIN read.page :
            LET item == read.shown[id]
            IN  /\ read.page[id] = "pending_review" => item.candidate \in Candidates
                /\ item.review = "approved" => item.candidate = assessments[id].result

(***************************************************************************)
(* Reads of several statements make sense although other transactions      *)
(* commit between the statements: pages and review candidates.             *)
(***************************************************************************)
ReadsAreExplicable == PageIsExplicable /\ CandidateIsCurrent
=============================================================================
