-------------------------- MODULE KnowledgeBaseProofs --------------------------
(***************************************************************************)
(* Proofs about KnowledgeBase for all contents, uploads and pages, whatever*)
(* the model extracts, and any number of requests at once, wherever they   *)
(* fail.                                                                   *)
(***************************************************************************)
EXTENDS KnowledgeBase, FiniteSetTheorems, WellFoundedInduction, TLAPS

Ingesting == {"ingest", "embed", "commit"}

Enriching == {"extract", "select", "insert", "save"}

Texts == Contents \cup {Blank, Malformed} \cup {f.content : f \in Files}

IsSeq(q) == q \in Seq({q[i] : i \in DOMAIN q})

(* A session is a record of these fields. *)
IsSession(r) ==
    /\ r = [pc |-> r.pc, kind |-> r.kind, enrich |-> r.enrich, asked |-> r.asked,
            known |-> r.known, doc |-> r.doc, chunk |-> r.chunk, queue |-> r.queue,
            named |-> r.named, rows |-> r.rows, report |-> r.report, answer |-> r.answer]
    /\ r.report = [ids |-> r.report.ids, duplicates |-> r.report.duplicates,
                   enriched |-> r.report.enriched, failed |-> r.report.failed]
    /\ r.pc \in {"idle", "answered", "graph"} \cup Ingesting \cup Enriching
    /\ r.kind \in {"none", "create", "upload", "enrich", "sync"}
    /\ r.enrich \in BOOLEAN
    /\ r.asked \in Seq(Texts)
    /\ r.doc \in Nat /\ r.chunk \in Nat
    /\ r.report.ids \in Seq(Nat)
    /\ r.report.duplicates \in Nat /\ r.report.enriched \in Nat /\ r.report.failed \in Nat

Typed ==
    /\ graphEnabled \in BOOLEAN
    /\ nextId \in Nat
    /\ pending = [s \in Sessions |-> pending[s]]
    /\ ses = [s \in Sessions |-> ses[s]]

(* The committed rows: a document has an id of its own and all its chunks,  *)
(* a chunk has its document, an entity's id contains its name.              *)
Documents == Of(db, "document")

Stored ==
    /\ \A r \in Documents :
        /\ r = DocumentRow(r.id, r.content)
        /\ r.id \in Nat /\ r.id \in DocumentIds /\ r.id < nextId
        /\ r.content \in Contents
        /\ WholeDocument(r.id, r.content) \subseteq db
    /\ \A r1, r2 \in Documents : r1.id = r2.id => r1 = r2
    /\ \A c \in Of(db, "chunk") :
        \E r \in Documents : r.id = c.document /\ c.index \in 1..ChunkCount[r.content]

AllRows == db \cup UNION {pending[s] : s \in Sessions}

Entities == Of(AllRows, "entity")

NamesAreUnique ==
    /\ \A e \in Entities : e = EntityRow(e.id, e.name) /\ e.id[2] = e.name
    /\ \A e1, e2 \in Entities : e1.name = e2.name => e1 = e2

(* What the flushed rows p of a session s are at each point of its request. *)
(* Graph rows outlive an enrichment only in a sync, as leftovers.           *)
PendingAt(s, r, p) ==
    /\ r.pc \in {"idle", "answered", "graph"} => p = {}
    /\ r.pc = "ingest" => p = GraphRows(p)
    /\ r.pc = "embed" => p = {DocumentRow(r.doc, Current(r))} \cup GraphRows(p)
    /\ r.pc = "commit" => p = WholeDocument(r.doc, Current(r)) \cup GraphRows(p)
    /\ r.pc \in Ingesting =>
            /\ GraphRows(p) \subseteq leftovers
            /\ GraphRows(p) # {} => r.kind = "sync"
            /\ Len(r.report.ids) < Len(r.asked)
            /\ r.kind # "sync" => Len(r.asked) = 1
    /\ r.pc \in Enriching =>
            /\ p = GraphRows(p)
            /\ p \subseteq r.rows /\ r.rows \subseteq db \cup p
            /\ \A k \in Provenance(p) : k[1] = r.doc
            /\ \E x \in Documents : x.id = r.doc
    /\ InGraph(r) =>
            /\ r.kind = "sync" => \E b \in births : b.by = s
            /\ r.kind # "sync" => Len(r.report.ids) >= Len(r.asked)

(* The name whose entity is resolved and whose mention is the statement a   *)
(* session is at.                                                           *)
Mentioning(r) ==
    IF r.pc \in {"select", "insert"} /\ Head(r.queue).kind = "mention"
    THEN {Head(r.queue).name} ELSE {}

(* The graph rows among p rest on committed chunks and visible rows.        *)
Supported(r, p) ==
    /\ \A k \in Provenance(p) : ChunkRow(k[1], k[2]) \in db
    /\ \A m \in Of(p, "mention") : \E e \in Of(db \cup p, "entity") : e.id = m.entity
    /\ \A g \in Of(p, "relationship") :
        /\ g.source # g.target
        /\ {MentionRow(g.source, g.chunk), MentionRow(g.target, g.chunk)} \subseteq db \cup p
    /\ \A e \in Of(p, "entity") :
        \/ \E m \in Of(db \cup p, "mention") : m.entity = e.id
        \/ e.name \in Mentioning(r)

(* The statements left for the current chunk: entity and mention of each    *)
(* name in turn, then the relationships; or one relationship.               *)
Queued(r) ==
    LET q == r.queue
    IN  /\ IsSeq(q) /\ Len(q) >= 1
        /\ \/ /\ Len(q) = 1 /\ q[1].kind = "edge"
              /\ q[1].source \in DOMAIN r.named /\ q[1].target \in DOMAIN r.named
              /\ q[1].source # q[1].target
           \/ /\ q[Len(q)].kind = "edges"
              /\ \A i \in 1..Len(q) - 1 :
                    /\ q[i].kind \in {"entity", "mention"}
                    /\ q[i].kind = "mention" => q[i + 1].kind \in {"entity", "edges"}
                    /\ q[i].kind = "entity" =>
                            q[i + 1].kind = "mention" /\ q[i + 1].name = q[i].name
              /\ q[1].kind = "mention" => q[1].name \in DOMAIN r.named

(* Where an enrichment is in its chunk.                                     *)
Resolving(r, p) ==
    r.pc \in {"select", "insert"} =>
        /\ ChunkRow(r.doc, r.chunk) \in db
        /\ Queued(r)
        /\ \A n \in DOMAIN r.named : EntityRow(r.named[n], n) \in db \cup p
        /\ \A n \in (DOMAIN r.named) \ Mentioning(r) :
                MentionRow(r.named[n], <<r.doc, r.chunk>>) \in db \cup p
        /\ r.pc = "insert" =>
            /\ Head(r.queue).kind # "edges"
            /\ Head(r.queue).kind = "entity" =>
                    \A e \in Of(p, "entity") : e.name # Head(r.queue).name

Storing(r) == r.pc \in {"embed", "commit"}

(* The document a request is storing is not committed. *)
Fresh(r) ==
    Storing(r) =>
        /\ r.doc \in DocumentIds /\ r.doc < nextId
        /\ Current(r) \in Contents
        /\ \A x \in Documents : x.id # r.doc

(* What deduplication rests on. *)
Deduplicating(s, r) ==
    /\ r.known \subseteq StoredContents
    /\ (Storing(r) /\ r.kind # "create") =>
            /\ Current(r) \notin r.known
            /\ \A b \in births : b.by = s => b.content # Current(r)

At(s, r, p) ==
    /\ IsSession(r)
    /\ PendingAt(s, r, p)
    /\ Supported(r, p)
    /\ Resolving(r, p)
    /\ Fresh(r)
    /\ Deduplicating(s, r)

(* No two requests are storing one document. *)
DocumentsAreOwn ==
    \A s, t \in Sessions :
        (Storing(ses[s]) /\ Storing(ses[t]) /\ ses[s].doc = ses[t].doc) => s = t

Born ==
    \A b \in births :
        /\ b.by \in Sessions /\ ses[b.by].pc # "idle"
        /\ DocumentRow(b.id, b.content) \in db
        /\ b.deduplicated <=> ses[b.by].kind # "create"

Inv ==
    /\ Typed
    /\ Stored
    /\ Store!Grounded(db)
    /\ NamesAreUnique
    /\ leftovers = GraphRows(leftovers)
    /\ \A s \in Sessions : At(s, ses[s], pending[s])
    /\ DocumentsAreOwn
    /\ Born
    /\ GraphIsAtomic
    /\ FirstStoredIsReused
-----------------------------------------------------------------------------
(* Arithmetic: a set of numbers has a least one. *)
LEMMA Least ==
    ASSUME NEW T, T \subseteq Nat, T # {}
    PROVE  \E n \in T : \A m \in T : n <= m
<1> DEFINE R == {ss \in Nat \X Nat : ss[1] < ss[2]}
<1>1. IsWellFoundedOn(R, Nat)
    BY NatLessThanWellFounded DEF OpToRel
<1>2. PICK x \in T : \A y \in T : ~(<<y, x>> \in R)
    BY <1>1, WFMin
<1>3. \A y \in T : <<y, x>> \in Nat \X Nat /\ <<y, x>>[1] = y /\ <<y, x>>[2] = x
    OBVIOUS
<1>4. \A y \in T : ~(y < x)
    BY <1>2, <1>3
<1> QED
    BY <1>4

-----------------------------------------------------------------------------
(* The records the operators of the model make of a session. *)

(* A session with the request's part of r. *)
SameRequest(q, r) ==
    /\ q.kind = r.kind /\ q.enrich = r.enrich /\ q.asked = r.asked

(* A session with the locals of r. *)
SameLocals(q, r) ==
    /\ q.known = r.known /\ q.chunk = r.chunk /\ q.queue = r.queue
    /\ q.named = r.named /\ q.rows = r.rows

(* A session before its request. *)
LEMMA IdleSession == IsSession(Idle) /\ Idle.pc = "idle" /\ Idle.known = {}
<1>1. /\ Idle.pc = "idle" /\ Idle.kind = "none" /\ Idle.enrich = FALSE /\ Idle.known = {}
      /\ Idle.asked = <<>> /\ Idle.doc = 0 /\ Idle.chunk = 0 /\ Idle.report = Report
    BY DEF Idle
<1>2. Idle = [pc |-> Idle.pc, kind |-> Idle.kind, enrich |-> Idle.enrich, asked |-> Idle.asked,
              known |-> Idle.known, doc |-> Idle.doc, chunk |-> Idle.chunk,
              queue |-> Idle.queue, named |-> Idle.named, rows |-> Idle.rows,
              report |-> Idle.report, answer |-> Idle.answer]
    BY DEF Idle
<1>3. /\ Report.ids = <<>> /\ Report.duplicates = 0 /\ Report.enriched = 0
      /\ Report.failed = 0
      /\ Report = [ids |-> Report.ids, duplicates |-> Report.duplicates,
                   enriched |-> Report.enriched, failed |-> Report.failed]
    BY DEF Report
<1>4. <<>> \in Seq(Texts) /\ <<>> \in Seq(Nat)
    OBVIOUS
<1>5. /\ Idle.pc \in {"idle", "answered", "graph"} \cup Ingesting \cup Enriching
      /\ Idle.kind \in {"none", "create", "upload", "enrich", "sync"}
      /\ Idle.asked \in Seq(Texts)
      /\ Idle.doc \in Nat /\ Idle.chunk \in Nat
    BY <1>1, <1>4
<1>7. Idle.enrich \in BOOLEAN
    BY <1>1, Zenon
<1>6. /\ Idle.report = [ids |-> Idle.report.ids, duplicates |-> Idle.report.duplicates,
                        enriched |-> Idle.report.enriched, failed |-> Idle.report.failed]
      /\ Idle.report.ids \in Seq(Nat)
      /\ Idle.report.duplicates \in Nat /\ Idle.report.enriched \in Nat
      /\ Idle.report.failed \in Nat
    BY <1>1, <1>3, <1>4
<1> QED
    BY <1>1, <1>2, <1>5, <1>6, <1>7 DEF IsSession

(* A session that has answered keeps its request and its report. *)
LEMMA AnsweredSession ==
    ASSUME NEW r, IsSession(r), NEW code
    PROVE  LET q == Answered(r, code)
           IN  /\ IsSession(q) /\ q.pc = "answered" /\ q.answer = code
               /\ SameRequest(q, r) /\ q.doc = r.doc /\ q.report = r.report
               /\ q.known = {}
<1>1. PICK q : q = Answered(r, code)
    OBVIOUS
<1>2. q = [pc |-> "answered", kind |-> r.kind, enrich |-> r.enrich, asked |-> r.asked,
           known |-> {}, doc |-> r.doc, chunk |-> 0, queue |-> <<>>,
           named |-> <<>>, rows |-> {}, report |-> r.report, answer |-> code]
    BY <1>1 DEF Answered, Idle
<1>3. /\ q.pc = "answered" /\ q.kind = r.kind /\ q.enrich = r.enrich /\ q.asked = r.asked
      /\ q.known = {} /\ q.doc = r.doc /\ q.chunk = 0 /\ q.queue = <<>> /\ q.named = <<>>
      /\ q.rows = {} /\ q.report = r.report /\ q.answer = code
    BY <1>2
<1>4. IsSession(q)
    BY <1>2, <1>3 DEF IsSession
<1> QED
    BY <1>1, <1>3, <1>4 DEF SameRequest

(* The record of r at another point of the request. *)
LEMMA MovedSession ==
    ASSUME NEW r, IsSession(r),
           NEW pc \in {"ingest", "embed", "commit", "graph", "extract", "select", "insert", "save"}
    PROVE  LET q == [r EXCEPT !.pc = pc]
           IN  /\ IsSession(q) /\ q.pc = pc
               /\ SameRequest(q, r) /\ SameLocals(q, r) /\ q.doc = r.doc /\ q.report = r.report
               /\ q.answer = r.answer
<1> DEFINE q == [r EXCEPT !.pc = pc]
<1>1. q = [pc |-> pc, kind |-> r.kind, enrich |-> r.enrich, asked |-> r.asked,
           known |-> r.known, doc |-> r.doc, chunk |-> r.chunk, queue |-> r.queue,
           named |-> r.named, rows |-> r.rows, report |-> r.report, answer |-> r.answer]
    BY SMTT(30) DEF IsSession
<1> HIDE DEF q
<1> QED
    BY <1>1 DEF IsSession, SameRequest, SameLocals, Ingesting, Enriching, q

(* The next document, or the answer. *)
LEMMA ProceedSession ==
    ASSUME NEW r, IsSession(r)
    PROVE  LET q == Proceed(r)
           IN  /\ IsSession(q) /\ SameRequest(q, r) /\ q.doc = r.doc /\ q.report = r.report
               /\ IF Len(r.report.ids) < Len(r.asked)
                  THEN q.pc = "ingest" /\ SameLocals(q, r)
                  ELSE q.pc = "answered" /\ q.answer = "ok" /\ q.known = {}
<1>1. CASE Len(r.report.ids) < Len(r.asked)
    <2>1. Proceed(r) = [r EXCEPT !.pc = "ingest"]
        BY <1>1 DEF Proceed
    <2>2. PICK q : q = [r EXCEPT !.pc = "ingest"]
        OBVIOUS
    <2>3. /\ IsSession(q) /\ q.pc = "ingest"
          /\ SameRequest(q, r) /\ SameLocals(q, r) /\ q.doc = r.doc /\ q.report = r.report
        BY <2>2, MovedSession
    <2> QED
        BY <1>1, <2>1, <2>2, <2>3
<1>2. CASE ~(Len(r.report.ids) < Len(r.asked))
    <2>1. Proceed(r) = Answered(r, "ok")
        BY <1>2 DEF Proceed
    <2>2. PICK q : q = Answered(r, "ok")
        OBVIOUS
    <2>3. /\ IsSession(q) /\ q.pc = "answered" /\ q.answer = "ok"
          /\ SameRequest(q, r) /\ q.doc = r.doc /\ q.report = r.report /\ q.known = {}
        BY <2>2, AnsweredSession
    <2> QED
        BY <1>2, <2>1, <2>2, <2>3
<1> QED
    BY <1>1, <1>2

(* A document is reported, and enriched or not. *)
LEMMA IngestedSession ==
    ASSUME NEW r, IsSession(r), NEW d \in Nat, NEW duplicate \in BOOLEAN
    PROVE  LET q == Ingested(r, d, duplicate)
               n == Len(r.report.ids) + 1
           IN  /\ IsSession(q) /\ SameRequest(q, r) /\ q.doc = d
               /\ q.report.ids = Append(r.report.ids, d)
               /\ q.report.duplicates = IF duplicate THEN r.report.duplicates + 1
                                        ELSE r.report.duplicates
               /\ q.report.enriched = r.report.enriched /\ q.report.failed = r.report.failed
               /\ IF r.enrich /\ graphEnabled /\ (r.kind = "sync" => ~duplicate)
                  THEN q.pc = "graph" /\ SameLocals(q, r)
                  ELSE IF n < Len(r.asked) THEN q.pc = "ingest" /\ SameLocals(q, r)
                  ELSE q.pc = "answered" /\ q.answer = "ok" /\ q.known = {}
<1>0. PICK ids, duplicates : /\ ids = Append(r.report.ids, d)
                             /\ duplicates = IF duplicate THEN r.report.duplicates + 1
                                             ELSE r.report.duplicates
    OBVIOUS
<1> DEFINE told == [r EXCEPT !.doc = d, !.report.ids = ids,
                             !.report.duplicates = duplicates]
           report == [ids |-> ids, duplicates |-> duplicates,
                      enriched |-> r.report.enriched, failed |-> r.report.failed]
           n == Len(r.report.ids) + 1
<1>1. told = [pc |-> r.pc, kind |-> r.kind, enrich |-> r.enrich, asked |-> r.asked,
              known |-> r.known, doc |-> d, chunk |-> r.chunk, queue |-> r.queue,
              named |-> r.named, rows |-> r.rows, report |-> report, answer |-> r.answer]
    <2>1. PICK q : q = told
        OBVIOUS
    <2>2. q.report = [r.report EXCEPT !.ids = ids, !.duplicates = duplicates]
        BY <2>1 DEF IsSession
    <2>3. q.report = report
        BY <2>2 DEF IsSession
    <2>4. q = [pc |-> r.pc, kind |-> r.kind, enrich |-> r.enrich, asked |-> r.asked,
               known |-> r.known, doc |-> d, chunk |-> r.chunk, queue |-> r.queue,
               named |-> r.named, rows |-> r.rows, report |-> q.report, answer |-> r.answer]
        BY <2>1 DEF IsSession
    <2> QED
        BY <2>1, <2>3, <2>4
<1> HIDE DEF told
<1>2. /\ report.ids \in Seq(Nat) /\ Len(report.ids) = n
      /\ report.duplicates \in Nat /\ report.enriched \in Nat /\ report.failed \in Nat
    BY <1>0 DEF IsSession
<1>3. /\ IsSession(told) /\ SameRequest(told, r) /\ SameLocals(told, r) /\ told.doc = d
      /\ told.report = report
    BY <1>1, <1>2 DEF IsSession, SameRequest, SameLocals
<1>4. Len(told.report.ids) = n
    BY <1>2, <1>3
<1>5. /\ told.report.ids = Append(r.report.ids, d)
      /\ told.report.duplicates = IF duplicate THEN r.report.duplicates + 1
                                  ELSE r.report.duplicates
      /\ told.report.enriched = r.report.enriched /\ told.report.failed = r.report.failed
    BY <1>0, <1>3
<1> HIDE DEF report
<1>6. CASE r.enrich /\ graphEnabled /\ (r.kind = "sync" => ~duplicate)
    <2>1. Ingested(r, d, duplicate) = [told EXCEPT !.pc = "graph"]
        BY <1>0, <1>6 DEF Ingested, told
    <2>2. PICK q : q = [told EXCEPT !.pc = "graph"]
        OBVIOUS
    <2>3. /\ IsSession(q) /\ q.pc = "graph" /\ SameRequest(q, told) /\ SameLocals(q, told)
          /\ q.doc = told.doc /\ q.report = told.report
        BY <1>3, <2>2, MovedSession
    <2>4. SameRequest(q, r) /\ SameLocals(q, r) /\ q.doc = d
        BY <1>3, <2>3 DEF SameRequest, SameLocals
    <2> QED
        BY <1>5, <1>6, <2>1, <2>2, <2>3, <2>4
<1>7. CASE ~(r.enrich /\ graphEnabled /\ (r.kind = "sync" => ~duplicate))
    <2>1. Ingested(r, d, duplicate) = Proceed(told)
        BY <1>0, <1>7 DEF Ingested, told
    <2>2. PICK q : q = Proceed(told)
        OBVIOUS
    <2>3. /\ IsSession(q) /\ SameRequest(q, told) /\ q.doc = told.doc /\ q.report = told.report
          /\ IF n < Len(told.asked) THEN q.pc = "ingest" /\ SameLocals(q, told)
             ELSE q.pc = "answered" /\ q.answer = "ok" /\ q.known = {}
        BY <1>3, <1>4, <2>2, ProceedSession
    <2>4. /\ SameRequest(q, r) /\ q.doc = d
          /\ SameLocals(q, told) => SameLocals(q, r)
          /\ told.asked = r.asked
        BY <1>3, <2>3 DEF SameRequest, SameLocals
    <2> QED
        BY <1>5, <1>7, <2>1, <2>2, <2>3, <2>4
<1> QED
    BY <1>6, <1>7
(* An enrichment has ended. *)
LEMMA GraphDoneSession ==
    ASSUME NEW r, IsSession(r), NEW ok \in BOOLEAN
    PROVE  LET q == GraphDone(r, ok)
           IN  /\ IsSession(q) /\ SameRequest(q, r) /\ q.doc = r.doc
               /\ q.report.ids = r.report.ids /\ q.report.duplicates = r.report.duplicates
               /\ q.report.enriched = IF ok /\ r.kind # "enrich" THEN r.report.enriched + 1
                                      ELSE r.report.enriched
               /\ q.report.failed = IF ~ok /\ r.kind # "enrich" THEN r.report.failed + 1
                                    ELSE r.report.failed
               /\ IF r.kind # "enrich" /\ Len(r.report.ids) < Len(r.asked)
                  THEN q.pc = "ingest" /\ SameLocals(q, r)
                  ELSE q.pc = "answered" /\ q.known = {}
               /\ r.kind = "enrich" => (q.answer = "ok") = ok
<1>1. CASE r.kind = "enrich"
    <2>1. PICK code : code = IF ok THEN "ok" ELSE "knowledge_graph_error"
        OBVIOUS
    <2>2. GraphDone(r, ok) = Answered(r, code)
        BY <1>1, <2>1 DEF GraphDone
    <2>3. PICK q : q = Answered(r, code)
        OBVIOUS
    <2>4. /\ IsSession(q) /\ q.pc = "answered" /\ q.answer = code
          /\ SameRequest(q, r) /\ q.doc = r.doc /\ q.report = r.report /\ q.known = {}
        BY <2>3, AnsweredSession
    <2>5. (q.answer = "ok") = ok
        BY <2>1, <2>4
    <2> QED
        BY <1>1, <2>2, <2>3, <2>4, <2>5
<1>2. CASE r.kind # "enrich"
    <2>1. PICK enriched, failed :
              /\ enriched = IF ok THEN r.report.enriched + 1 ELSE r.report.enriched
              /\ failed = IF ok THEN r.report.failed ELSE r.report.failed + 1
        OBVIOUS
    <2> DEFINE told == [r EXCEPT !.report.enriched = enriched, !.report.failed = failed]
               report == [ids |-> r.report.ids, duplicates |-> r.report.duplicates,
                          enriched |-> enriched, failed |-> failed]
    <2>2. told = [pc |-> r.pc, kind |-> r.kind, enrich |-> r.enrich, asked |-> r.asked,
                  known |-> r.known, doc |-> r.doc, chunk |-> r.chunk, queue |-> r.queue,
                  named |-> r.named, rows |-> r.rows, report |-> report, answer |-> r.answer]
        <3>1. PICK q : q = told
            OBVIOUS
        <3>2. q.report = [r.report EXCEPT !.enriched = enriched, !.failed = failed]
            BY <3>1 DEF IsSession
        <3>3. q.report = report
            BY <3>2 DEF IsSession
        <3>4. q = [pc |-> r.pc, kind |-> r.kind, enrich |-> r.enrich, asked |-> r.asked,
                   known |-> r.known, doc |-> r.doc, chunk |-> r.chunk, queue |-> r.queue,
                   named |-> r.named, rows |-> r.rows, report |-> q.report,
                   answer |-> r.answer]
            BY <3>1 DEF IsSession
        <3> QED
            BY <3>1, <3>3, <3>4
    <2>3. GraphDone(r, ok) = Proceed(told)
        BY <1>2, <2>1 DEF GraphDone
    <2> HIDE DEF told
    <2>4. /\ report.ids = r.report.ids /\ report.duplicates = r.report.duplicates
          /\ report.enriched = enriched /\ report.failed = failed
          /\ report.enriched \in Nat /\ report.failed \in Nat
        BY <2>1 DEF IsSession
    <2>5. /\ IsSession(told) /\ SameRequest(told, r) /\ SameLocals(told, r)
          /\ told.doc = r.doc /\ told.report = report
        BY <2>2, <2>4 DEF IsSession, SameRequest, SameLocals
    <2> HIDE DEF report
    <2>6. PICK q : q = Proceed(told)
        OBVIOUS
    <2>7. /\ IsSession(q) /\ SameRequest(q, told) /\ q.doc = told.doc /\ q.report = told.report
          /\ IF Len(told.report.ids) < Len(told.asked)
             THEN q.pc = "ingest" /\ SameLocals(q, told)
             ELSE q.pc = "answered" /\ q.answer = "ok" /\ q.known = {}
        BY <2>5, <2>6, ProceedSession
    <2>8. /\ SameRequest(q, r) /\ q.doc = r.doc
          /\ SameLocals(q, told) => SameLocals(q, r)
          /\ told.asked = r.asked /\ told.report.ids = r.report.ids
        BY <2>4, <2>5, <2>7 DEF SameRequest, SameLocals
    <2>9. /\ q.report.ids = r.report.ids /\ q.report.duplicates = r.report.duplicates
          /\ q.report.enriched = enriched /\ q.report.failed = failed
        BY <2>4, <2>5, <2>7
    <2> QED
        BY <1>2, <2>1, <2>3, <2>6, <2>7, <2>8, <2>9
<1> QED
    BY <1>1, <1>2
-----------------------------------------------------------------------------
(* What a step of one session means for the others. *)

Grows(s) ==
    /\ db \subseteq db' /\ births \subseteq births' /\ leftovers \subseteq leftovers'
    /\ nextId' \in Nat /\ nextId <= nextId'
    /\ \A t \in Sessions \ {s} : ses'[t] = ses[t] /\ pending'[t] = pending[t]
    /\ \A b \in births' \ births : b.by = s
    /\ \A x \in Documents' \ Documents : Storing(ses[s]) /\ x.id = ses[s].doc

(* A step of one session leaves what is said of the others true. *)
LEMMA OthersKept ==
    ASSUME Inv, NEW s \in Sessions, Grows(s)
    PROVE  \A t \in Sessions \ {s} : At(t, ses[t], pending[t])'
<1> SUFFICES ASSUME NEW t \in Sessions \ {s} PROVE At(t, ses[t], pending[t])'
    OBVIOUS
<1>1. /\ At(t, ses[t], pending[t]) /\ DocumentsAreOwn /\ nextId \in Nat
      /\ ses'[t] = ses[t] /\ pending'[t] = pending[t]
    BY DEF Inv, Typed, Grows
<1>2. Documents \subseteq Documents' /\ StoredContents \subseteq StoredContents'
    BY DEF Grows, Documents, StoredContents, Of
<1>3. PICK r, p : r = ses[t] /\ p = pending[t]
    OBVIOUS
<1>4. IsSession(ses[t])'
    BY <1>1 DEF At, IsSession
<1>5. PendingAt(t, ses[t], pending[t])'
    <2>1. PendingAt(t, r, p)
        BY <1>1, <1>3 DEF At
    <2>2. ses'[t] = r /\ pending'[t] = p
        BY <1>1, <1>3
    <2> QED
        BY <1>2, <2>1, <2>2 DEF PendingAt, Grows
<1>6. Supported(ses[t], pending[t])'
    <2>1. Supported(r, p)
        BY <1>1, <1>3 DEF At
    <2>2. ses'[t] = r /\ pending'[t] = p
        BY <1>1, <1>3
    <2>3. \A k : Of(db \cup p, k) \subseteq Of(db' \cup p, k)
        BY DEF Of, Grows
    <2> QED
        BY <2>1, <2>2, <2>3 DEF Supported, Grows
<1>7. Resolving(ses[t], pending[t])'
    <2>1. Resolving(r, p)
        BY <1>1, <1>3 DEF At
    <2>2. ses'[t] = r /\ pending'[t] = p
        BY <1>1, <1>3
    <2> QED
        BY <2>1, <2>2 DEF Resolving, Grows
<1>8. Fresh(ses[t])'
    <2>1. Fresh(r) /\ Storing(r)' = Storing(r)
        BY <1>1, <1>3 DEF At, Storing
    <2>2. ses'[t] = r /\ ses[t] = r
        BY <1>1, <1>3
    <2>3. Storing(r) => \A x \in Documents' : x.id # r.doc
        BY <1>1, <2>1, <2>2 DEF Fresh, Grows, DocumentsAreOwn
    <2>4. Storing(r) => r.doc < nextId'
        <3>1. IsSession(r)
            BY <1>1, <1>3 DEF At
        <3> QED
            BY <1>1, <2>1, <3>1 DEF Fresh, Grows, IsSession
    <2> QED
        BY <2>1, <2>2, <2>3, <2>4 DEF Fresh
<1>9. Deduplicating(t, ses[t])'
    <2>1. Deduplicating(t, r)
        BY <1>1, <1>3 DEF At
    <2>2. ses'[t] = r /\ Storing(ses[t])' = Storing(r)
        BY <1>1, <1>3 DEF Storing
    <2> QED
        BY <1>2, <2>1, <2>2 DEF Deduplicating, Grows
<1> QED
    BY <1>4, <1>5, <1>6, <1>7, <1>8, <1>9 DEF At
(* A step that commits nothing, of a session that goes on with its request. *)
Commits == ~ UNCHANGED <<db, births, completed>>

GoesOn ==
    \A t \in Sessions :
        ses[t].pc # "idle" => ses'[t].pc # "idle" /\ ses'[t].kind = ses[t].kind

(* A step that commits nothing leaves what is said of the tables true. *)
LEMMA TablesKept ==
    ASSUME Inv, ~Commits, GoesOn, NEW s \in Sessions,
           nextId' \in Nat, nextId <= nextId',
           \/ leftovers' = leftovers
           \/ leftovers' = leftovers \cup pending[s] /\ pending[s] = GraphRows(pending[s])
    PROVE  /\ Stored' /\ Store!Grounded(db)' /\ (leftovers = GraphRows(leftovers))'
           /\ Born' /\ GraphIsAtomic' /\ FirstStoredIsReused'
<1>1. db' = db /\ births' = births /\ completed' = completed
    BY DEF Commits
<1>2. Stored'
    <2>1. Stored /\ nextId \in Nat
        BY DEF Inv, Typed
    <2> QED
        BY <1>1, <2>1 DEF Stored, Documents
<1>3. Store!Grounded(db)'
    BY <1>1 DEF Inv
<1>4. (leftovers = GraphRows(leftovers))'
    BY DEF Inv, GraphRows
<1>5. Born'
    BY <1>1 DEF Inv, Born, GoesOn
<1>6. GraphIsAtomic'
    <2> DEFINE whole == UNION {e.rows : e \in completed}
    <2>1. whole' = whole
        BY <1>1
    <2>2. /\ whole \subseteq db
          /\ GraphRows(db) \ whole \subseteq leftovers
          /\ \A r \in (db \cap leftovers) \ whole : \E b \in births : ses[b.by].kind = "sync"
        BY DEF Inv, GraphIsAtomic
    <2>3. leftovers \subseteq leftovers' /\ GraphRows(db') = GraphRows(db)
        BY <1>1
    <2>4. db \cap leftovers' \subseteq GraphRows(db)
        BY DEF Inv, GraphRows
    <2> HIDE DEF whole
    <2>5. ASSUME NEW r \in (db \cap leftovers') \ whole
          PROVE  \E b \in births : ses'[b.by].kind = "sync"
        <3>1. r \in (db \cap leftovers) \ whole
            BY <2>2, <2>4
        <3>2. PICK b \in births : ses[b.by].kind = "sync"
            BY <2>2, <3>1
        <3>3. b.by \in Sessions /\ ses[b.by].pc # "idle"
            BY DEF Inv, Born
        <3> QED
            BY <3>2, <3>3 DEF GoesOn
    <2> QED
        BY <1>1, <2>1, <2>2, <2>3, <2>5 DEF GraphIsAtomic, whole
<1>7. FirstStoredIsReused'
    BY <1>1 DEF Inv, FirstStoredIsReused
<1> QED
    BY <1>2, <1>3, <1>4, <1>5, <1>6, <1>7

(* A step that flushes no row. *)
LEMMA NamesKept ==
    ASSUME Inv, db' = db, \A t \in Sessions : pending'[t] \subseteq pending[t]
    PROVE  NamesAreUnique'
<1>1. Entities' \subseteq Entities
    BY DEF Entities, AllRows, Of
<1> QED
    BY <1>1 DEF Inv, NamesAreUnique

(* A step that begins to store no document. *)
LEMMA OwnKept ==
    ASSUME Inv,
           \A t \in Sessions : Storing(ses'[t]) => Storing(ses[t]) /\ ses'[t].doc = ses[t].doc
    PROVE  DocumentsAreOwn'
BY DEF Inv, DocumentsAreOwn, Storing
(* A step that commits nothing, up to what the session becomes. *)
LEMMA Uncommitted ==
    ASSUME Inv, NEW s \in Sessions, NEW q, NEW p,
           ses' = [ses EXCEPT ![s] = q], pending' = [pending EXCEPT ![s] = p],
           ~Commits, nextId' \in Nat, nextId <= nextId', graphEnabled' = graphEnabled,
           \/ leftovers' = leftovers
           \/ leftovers' = leftovers \cup pending[s] /\ pending[s] = GraphRows(pending[s]),
           q.pc # "idle", ses[s].pc # "idle" => q.kind = ses[s].kind,
           NamesAreUnique', DocumentsAreOwn', At(s, ses[s], pending[s])'
    PROVE  Inv'
<1>1. Typed
    BY DEF Inv
<1>2. /\ ses'[s] = q /\ pending'[s] = p
      /\ \A t \in Sessions \ {s} : ses'[t] = ses[t] /\ pending'[t] = pending[t]
      /\ nextId \in Nat /\ graphEnabled \in BOOLEAN
    BY <1>1 DEF Typed
<1>3. Typed'
    BY <1>1, <1>2 DEF Typed
<1>4. db' = db /\ births' = births /\ completed' = completed
    BY DEF Commits
<1>5. Grows(s)
    BY <1>2, <1>4 DEF Grows, Documents
<1>6. GoesOn
    BY <1>2 DEF GoesOn
<1>7. /\ Stored' /\ Store!Grounded(db)' /\ (leftovers = GraphRows(leftovers))'
      /\ Born' /\ GraphIsAtomic' /\ FirstStoredIsReused'
    BY <1>6, TablesKept
<1>8. \A t \in Sessions : At(t, ses[t], pending[t])'
    BY <1>5, OthersKept
<1> QED
    BY <1>3, <1>7, <1>8 DEF Inv

(* A step that neither commits nor flushes. *)
LEMMA Quietly ==
    ASSUME Inv, NEW s \in Sessions, NEW q, NEW p,
           ses' = [ses EXCEPT ![s] = q], pending' = [pending EXCEPT ![s] = p],
           ~Commits, nextId' = nextId, graphEnabled' = graphEnabled,
           \/ leftovers' = leftovers
           \/ leftovers' = leftovers \cup pending[s] /\ pending[s] = GraphRows(pending[s]),
           p \subseteq pending[s],
           q.pc # "idle", ses[s].pc # "idle" => q.kind = ses[s].kind,
           Storing(q) => Storing(ses[s]) /\ q.doc = ses[s].doc,
           At(s, ses[s], pending[s])'
    PROVE  Inv'
<1>1. Typed
    BY DEF Inv
<1>2. /\ ses'[s] = q /\ pending'[s] = p
      /\ \A t \in Sessions \ {s} : ses'[t] = ses[t] /\ pending'[t] = pending[t]
    BY <1>1 DEF Typed
<1>3. db' = db
    BY DEF Commits
<1>4. NamesAreUnique'
    <2>1. \A t \in Sessions : pending'[t] \subseteq pending[t]
        BY <1>2
    <2> QED
        BY <1>3, <2>1, NamesKept
<1>5. DocumentsAreOwn'
    <2>1. \A t \in Sessions : Storing(ses'[t]) => Storing(ses[t]) /\ ses'[t].doc = ses[t].doc
        BY <1>2
    <2> QED
        BY <2>1, OwnKept
<1>6. nextId' \in Nat /\ nextId <= nextId'
    BY <1>1 DEF Typed
<1> QED
    BY <1>4, <1>5, <1>6, Uncommitted

(* What a session has to satisfy once its request is answered, and when it  *)
(* turns to its next document.                                              *)
LEMMA AnsweredAt ==
    ASSUME NEW s \in Sessions, IsSession(ses'[s]), pending'[s] = {},
           ses'[s].pc = "answered", ses'[s].known = {}
    PROVE  At(s, ses[s], pending[s])'
BY DEF At, PendingAt, Supported, Resolving, Fresh, Deduplicating, Storing, Mentioning,
       Ingesting, Enriching, InGraph, Of, Provenance

(* What is to be shown of a session between two documents. *)
LEMMA IngestAt ==
    ASSUME NEW s \in Sessions, IsSession(ses'[s]), ses'[s].pc = "ingest",
           NEW p, pending'[s] = p, p = GraphRows(p), p \subseteq leftovers',
           p # {} => ses'[s].kind = "sync",
           Len(ses'[s].report.ids) < Len(ses'[s].asked),
           ses'[s].kind # "sync" => Len(ses'[s].asked) = 1,
           ses'[s].known \subseteq StoredContents',
           Supported(ses[s], pending[s])'
    PROVE  At(s, ses[s], pending[s])'
<1>1. PendingAt(s, ses[s], pending[s])'
    BY DEF PendingAt, Ingesting, Enriching, InGraph
<1>2. (Resolving(ses[s], pending[s]) /\ Fresh(ses[s]) /\ Deduplicating(s, ses[s]))'
    BY DEF Resolving, Fresh, Deduplicating, Storing
<1> QED
    BY <1>1, <1>2 DEF At
-----------------------------------------------------------------------------
(* The steps of ingestion that commit nothing. *)

(* Inv holds initially. *)
LEMMA InitInv == Init => Inv
<1> SUFFICES ASSUME Init PROVE Inv
    OBVIOUS
<1>1. \A s \in Sessions : ses[s] = Idle /\ pending[s] = {}
    BY DEF Init
<1>2. Typed
    BY <1>1 DEF Init, Typed
<1>3. Stored /\ Store!Grounded(db) /\ leftovers = GraphRows(leftovers)
    <2>1. db = {} /\ leftovers = {} /\ \A t : Of(db, t) = {}
        BY DEF Init, Of
    <2>2. Stored
        BY <2>1 DEF Stored, Documents
    <2>3. Provenance(db) = {}
        BY <2>1 DEF Provenance
    <2>4. Store!Grounded(db)
        BY <2>1, <2>3 DEF Store!Grounded, Of, Provenance, Store!Of, Store!Provenance
    <2> QED
        BY <2>1, <2>2, <2>4 DEF GraphRows
<1>4. NamesAreUnique
    BY <1>1 DEF Init, NamesAreUnique, Entities, AllRows, Of
<1>5. \A s \in Sessions : At(s, ses[s], pending[s])
    BY <1>1, IdleSession DEF At, PendingAt, Supported, Resolving, Fresh, Deduplicating,
       Storing, Mentioning, Ingesting, Enriching, InGraph, Of, Provenance, Init
<1>6. DocumentsAreOwn
    BY <1>1, IdleSession DEF DocumentsAreOwn, Storing
<1>7. Born /\ GraphIsAtomic /\ FirstStoredIsReused
    BY DEF Init, Born, GraphIsAtomic, FirstStoredIsReused, GraphRows
<1> QED
    BY <1>2, <1>3, <1>4, <1>5, <1>6, <1>7 DEF Inv

(* A request as it begins. *)
LEMMA RequestSession ==
    ASSUME NEW kind \in {"create", "upload", "enrich", "sync"}, NEW asked \in Seq(Texts),
           NEW enrich \in BOOLEAN
    PROVE  LET q == Request(kind, asked, enrich)
           IN  /\ IsSession(q) /\ q.pc = "ingest" /\ q.kind = kind /\ q.asked = asked
               /\ q.known = StoredContents /\ q.report.ids = <<>> /\ q.enrich = enrich
               /\ q.report = Report /\ q.doc = 0
<1>1. PICK q : q = Request(kind, asked, enrich)
    OBVIOUS
<1>2. q = [pc |-> "ingest", kind |-> kind, enrich |-> enrich, asked |-> asked,
           known |-> StoredContents, doc |-> 0, chunk |-> 0, queue |-> <<>>,
           named |-> <<>>, rows |-> {}, report |-> Report, answer |-> "none"]
    BY <1>1 DEF Request, Idle
<1>3. /\ q.pc = "ingest" /\ q.kind = kind /\ q.enrich = enrich /\ q.asked = asked
      /\ q.known = StoredContents /\ q.doc = 0 /\ q.chunk = 0 /\ q.queue = <<>>
      /\ q.named = <<>> /\ q.rows = {} /\ q.report = Report /\ q.answer = "none"
    BY <1>2
<1>4. /\ Report.ids = <<>> /\ Report.duplicates = 0 /\ Report.enriched = 0
      /\ Report.failed = 0
      /\ Report = [ids |-> Report.ids, duplicates |-> Report.duplicates,
                   enriched |-> Report.enriched, failed |-> Report.failed]
    BY DEF Report
<1>5. <<>> \in Seq(Nat)
    OBVIOUS
<1>6. q.report = Report /\ q.report.ids \in Seq(Nat) /\ q.report.duplicates \in Nat
      /\ q.report.enriched \in Nat /\ q.report.failed \in Nat
      /\ q.report = [ids |-> q.report.ids, duplicates |-> q.report.duplicates,
                     enriched |-> q.report.enriched, failed |-> q.report.failed]
    BY <1>3, <1>4, <1>5
<1>8. q = [pc |-> q.pc, kind |-> q.kind, enrich |-> q.enrich, asked |-> q.asked,
           known |-> q.known, doc |-> q.doc, chunk |-> q.chunk, queue |-> q.queue,
           named |-> q.named, rows |-> q.rows, report |-> q.report, answer |-> q.answer]
    BY <1>2
<1>9. q.enrich \in BOOLEAN /\ q.pc \in {"idle", "answered", "graph"} \cup Ingesting \cup Enriching
    BY <1>3 DEF Ingesting
<1>7. IsSession(q)
    BY <1>3, <1>6, <1>8, <1>9 DEF IsSession
<1> QED
    BY <1>1, <1>3, <1>4, <1>7

(* What is to be shown of a session whose document is to be enriched. *)
LEMMA GraphAt ==
    ASSUME NEW s \in Sessions, IsSession(ses'[s]), ses'[s].pc = "graph", pending'[s] = {},
           ses'[s].known \subseteq StoredContents',
           ses'[s].kind = "sync" => \E b \in births' : b.by = s,
           ses'[s].kind # "sync" => Len(ses'[s].report.ids) >= Len(ses'[s].asked)
    PROVE  At(s, ses[s], pending[s])'
<1>1. PendingAt(s, ses[s], pending[s])'
    BY DEF PendingAt, Ingesting, Enriching, InGraph, GraphRows
<1>2. Supported(ses[s], pending[s])'
    BY DEF Supported, Of, Provenance
<1>3. (Resolving(ses[s], pending[s]) /\ Fresh(ses[s]) /\ Deduplicating(s, ses[s]))'
    BY DEF Resolving, Fresh, Deduplicating, Storing
<1> QED
    BY <1>1, <1>2, <1>3 DEF At

(* Begin preserves Inv. *)
LEMMA BeginInv ==
    ASSUME Inv, NEW s \in Sessions, NEW r, IsSession(r), Begin(s, r),
           r.known \subseteq StoredContents,
           \/ /\ r.pc = "ingest" /\ Len(r.report.ids) < Len(r.asked)
              /\ r.kind # "sync" => Len(r.asked) = 1
           \/ r.pc = "graph" /\ r.kind # "sync" /\ Len(r.report.ids) >= Len(r.asked)
           \/ r.pc = "answered" /\ r.known = {}
    PROVE  Inv'
<1>1. /\ ses' = [ses EXCEPT ![s] = r] /\ pending' = [pending EXCEPT ![s] = {}]
      /\ db' = db /\ births' = births /\ completed' = completed /\ leftovers' = leftovers
      /\ nextId' = nextId /\ graphEnabled' = graphEnabled /\ ses[s].pc = "idle"
    BY DEF Begin, Becomes, HistoryUnchanged
<1>2. ses'[s] = r /\ pending'[s] = {} /\ StoredContents' = StoredContents
    BY <1>1 DEF Inv, Typed, StoredContents
<1>3. At(s, ses[s], pending[s])'
    <2>1. CASE /\ r.pc = "ingest" /\ Len(r.report.ids) < Len(r.asked)
               /\ r.kind # "sync" => Len(r.asked) = 1
        <3>1. Supported(ses[s], pending[s])'
            BY <1>2 DEF Supported, Of, Provenance
        <3>2. {} = GraphRows({}) /\ {} \subseteq leftovers'
            BY DEF GraphRows
        <3> QED
            BY <1>2, <2>1, <3>1, <3>2, IngestAt
    <2>2. CASE r.pc = "graph" /\ r.kind # "sync" /\ Len(r.report.ids) >= Len(r.asked)
        BY <1>2, <2>2, GraphAt
    <2>3. CASE r.pc = "answered" /\ r.known = {}
        BY <1>2, <2>3, AnsweredAt
    <2> QED
        BY <2>1, <2>2, <2>3
<1>4. ~Commits /\ ~Storing(r) /\ r.pc # "idle"
    BY <1>1 DEF Commits, Storing
<1>5. PICK p : p = {}
    OBVIOUS
<1>6. /\ pending' = [pending EXCEPT ![s] = p] /\ p \subseteq pending[s]
      /\ ses[s].pc # "idle" => r.kind = ses[s].kind
      /\ Storing(r) => Storing(ses[s]) /\ r.doc = ses[s].doc
    BY <1>1, <1>4, <1>5
<1> QED
    BY <1>1, <1>3, <1>4, <1>6, Quietly

(* Arrive preserves Inv. *)
LEMMA ArriveInv ==
    ASSUME Inv, NEW s \in Sessions, Arrive(s)
    PROVE  Inv'
<1>1. CASE ingest_document(s)
    <2>1. PICK c \in Contents \cup {Blank} : Begin(s, Request("create", <<c>>, FALSE))
        BY <1>1 DEF ingest_document
    <2>2. PICK r : r = Request("create", <<c>>, FALSE)
        OBVIOUS
    <2>3. <<c>> \in Seq(Texts) /\ Len(<<c>>) = 1 /\ FALSE \in BOOLEAN
        BY DEF Texts
    <2>4. /\ IsSession(r) /\ r.pc = "ingest" /\ r.known = StoredContents
          /\ r.report.ids = <<>> /\ r.asked = <<c>>
        BY ZenonT(60), <2>2, <2>3, RequestSession
    <2>5. Len(r.report.ids) < Len(r.asked) /\ Len(r.asked) = 1
        BY <2>3, <2>4
    <2> QED
        BY <2>1, <2>2, <2>4, <2>5, BeginInv
<1>2. CASE ingest_file(s)
    <2>1. PICK f \in Files, enrich \in BOOLEAN :
              LET r == Request("upload", <<f.content>>, enrich)
              IN  \/ Begin(s, r)
                  \/ \E code \in Refusal(f) : Begin(s, Answered(r, code))
        BY <1>2 DEF ingest_file
    <2>2. PICK r : r = Request("upload", <<f.content>>, enrich)
        OBVIOUS
    <2>3. <<f.content>> \in Seq(Texts) /\ Len(<<f.content>>) = 1
        BY DEF Texts
    <2>4. /\ IsSession(r) /\ r.pc = "ingest" /\ r.known = StoredContents
          /\ r.report.ids = <<>> /\ r.asked = <<f.content>>
        <3>1. PICK asked : asked = <<f.content>>
            OBVIOUS
        <3>2. r = Request("upload", asked, enrich) /\ asked \in Seq(Texts)
            BY <2>2, <2>3, <3>1
        <3>3. /\ IsSession(r) /\ r.pc = "ingest" /\ r.known = StoredContents
              /\ r.report.ids = <<>> /\ r.asked = asked
            BY <3>2, RequestSession
        <3> QED
            BY <3>1, <3>3
    <2>5. Len(r.report.ids) < Len(r.asked) /\ Len(r.asked) = 1
        BY <2>3, <2>4
    <2>6. CASE Begin(s, r)
        BY <2>4, <2>5, <2>6, BeginInv
    <2>7. CASE \E code \in Refusal(f) : Begin(s, Answered(r, code))
        <3>1. PICK code \in Refusal(f) : Begin(s, Answered(r, code))
            BY <2>7
        <3>2. PICK q : q = Answered(r, code)
            OBVIOUS
        <3>3. IsSession(q) /\ q.pc = "answered" /\ q.known = {}
            BY <2>4, <3>2, AnsweredSession
        <3>4. q.known \subseteq StoredContents
            BY <3>3
        <3> QED
            BY <3>1, <3>2, <3>3, <3>4, BeginInv
    <2> QED
        BY <2>1, <2>2, <2>6, <2>7
<1>3. CASE enrich_document_graph(s)
    <2>1. PICK d, r :
              /\ d \in 1..nextId
              /\ r = [Request("enrich", <<>>, TRUE) EXCEPT !.pc = "graph", !.doc = d]
              /\ Begin(s, IF graphEnabled THEN r ELSE Answered(r, "knowledge_graph_disabled"))
        BY <1>3 DEF enrich_document_graph
    <2>2. PICK a : a = Request("enrich", <<>>, TRUE)
        OBVIOUS
    <2>3. <<>> \in Seq(Texts) /\ Len(<<>>) = 0 /\ TRUE \in BOOLEAN
        OBVIOUS
    <2>4. /\ IsSession(a) /\ a.known = StoredContents /\ a.kind = "enrich"
          /\ a.report.ids = <<>> /\ a.asked = <<>>
        BY <2>2, <2>3, RequestSession
    <2>5. r = [pc |-> "graph", kind |-> a.kind, enrich |-> a.enrich, asked |-> a.asked,
               known |-> a.known, doc |-> d, chunk |-> a.chunk, queue |-> a.queue,
               named |-> a.named, rows |-> a.rows, report |-> a.report, answer |-> a.answer]
        BY <2>1, <2>2, <2>4 DEF IsSession
    <2>6. d \in Nat
        BY <2>1 DEF Inv, Typed
    <2>7. /\ IsSession(r) /\ r.pc = "graph" /\ r.known = StoredContents /\ r.kind = "enrich"
          /\ r.report.ids = <<>> /\ r.asked = <<>>
        BY <2>4, <2>5, <2>6 DEF IsSession
    <2>8. Len(r.report.ids) >= Len(r.asked)
        BY <2>7
    <2>9. CASE graphEnabled
        <3>1. Begin(s, r)
            BY <2>1, <2>9
        <3> QED
            BY <2>7, <2>8, <3>1, BeginInv
    <2>10. CASE ~graphEnabled
        <3>1. PICK q : q = Answered(r, "knowledge_graph_disabled")
            OBVIOUS
        <3>2. Begin(s, q)
            BY <2>1, <2>10, <3>1
        <3>3. IsSession(q) /\ q.pc = "answered" /\ q.known = {}
            BY <2>7, <3>1, AnsweredSession
        <3>4. q.known \subseteq StoredContents
            BY <3>3
        <3> QED
            BY <3>2, <3>3, <3>4, BeginInv
    <2> QED
        BY <2>9, <2>10
<1>4. CASE sync(s)
    <2>1. PICK page, enrich, r :
              /\ page \in Pages /\ enrich \in BOOLEAN
              /\ r = Request("sync", page, enrich)
              /\ Begin(s, CASE Len(page) > MaxDocuments ->
                                Answered(r, "invalid_connector_response")
                            [] page = <<>> -> Answered(r, "ok")
                            [] OTHER -> r)
        BY <1>4 DEF sync
    <2>2. page \in Seq(Texts)
        <3>1. page \in Seq(Contents \cup {Blank, Malformed})
            BY <2>1, PagesAssumption
        <3>2. Contents \cup {Blank, Malformed} \subseteq Texts
            BY DEF Texts
        <3> QED
            BY <3>1, <3>2
    <2>3. /\ IsSession(r) /\ r.pc = "ingest" /\ r.known = StoredContents
          /\ r.report.ids = <<>> /\ r.asked = page /\ r.kind = "sync"
        BY <2>1, <2>2, RequestSession
    <2>4. \A code : LET q == Answered(r, code)
                    IN  Begin(s, q) => Inv'
        <3>1. TAKE code
        <3>2. PICK q : q = Answered(r, code)
            OBVIOUS
        <3>3. IsSession(q) /\ q.pc = "answered" /\ q.known = {}
            BY <2>3, <3>2, AnsweredSession
        <3>4. q.known \subseteq StoredContents
            BY <3>3
        <3>5. Begin(s, q) => Inv'
            BY <3>3, <3>4, BeginInv
        <3> QED
            BY <3>2, <3>5
    <2>5. CASE Begin(s, r) /\ page # <<>>
        <3>1. Len(r.report.ids) < Len(r.asked)
            BY <2>2, <2>3, <2>5
        <3> QED
            BY <2>3, <2>5, <3>1, BeginInv
    <2>6. \/ Begin(s, Answered(r, "invalid_connector_response"))
          \/ Begin(s, Answered(r, "ok"))
          \/ Begin(s, r) /\ page # <<>>
        BY <2>1
    <2> QED
        BY <2>4, <2>5, <2>6
<1>5. CASE FetchFails(s)
    <2>1. PICK a : a = Request("sync", <<>>, FALSE)
        OBVIOUS
    <2>2. <<>> \in Seq(Texts) /\ FALSE \in BOOLEAN
        OBVIOUS
    <2>3. IsSession(a) /\ a.pc = "ingest"
        BY <2>1, <2>2, RequestSession
    <2>4. PICK q : q = Answered(a, "connector_unavailable")
        OBVIOUS
    <2>5. IsSession(q) /\ q.pc = "answered" /\ q.known = {}
        BY <2>3, <2>4, AnsweredSession
    <2>6. Begin(s, q) /\ q.known \subseteq StoredContents
        BY <1>5, <2>1, <2>4, <2>5 DEF FetchFails
    <2> QED
        BY <2>5, <2>6, BeginInv
<1> QED
    BY <1>1, <1>2, <1>3, <1>4, <1>5 DEF Arrive
(* A request is answered, and nothing of what it has flushed stays. *)
LEMMA Answering ==
    ASSUME Inv, NEW s \in Sessions, NEW code,
           Becomes(s, Answered(ses[s], code), {}) \/ Becomes(s, Answered(ses[s], code), pending[s]),
           ~Commits, nextId' = nextId, graphEnabled' = graphEnabled, leftovers' = leftovers
    PROVE  Inv'
<1>1. IsSession(ses[s])
    BY DEF Inv, At
<1>2. PICK q : q = Answered(ses[s], code)
    OBVIOUS
<1>3. /\ IsSession(q) /\ q.pc = "answered" /\ q.known = {}
      /\ SameRequest(q, ses[s])
    BY <1>1, <1>2, AnsweredSession
<1>4. PICK p : p = {}
    OBVIOUS
<1>5. ses' = [ses EXCEPT ![s] = q] /\ pending' = [pending EXCEPT ![s] = p]
    BY <1>2, <1>3, <1>4 DEF Becomes
<1>6. ses'[s] = q /\ pending'[s] = {}
    BY <1>4, <1>5 DEF Inv, Typed
<1>7. At(s, ses[s], pending[s])'
    BY <1>3, <1>6, AnsweredAt
<1>8. /\ p \subseteq pending[s] /\ q.pc # "idle" /\ q.kind = ses[s].kind
      /\ ~Storing(q)
    BY <1>3, <1>4 DEF SameRequest, Storing
<1> QED
    BY <1>5, <1>7, <1>8, Quietly

(* An enrichment ends without a commit, rolled back or not. *)
LEMMA Abandoning ==
    ASSUME Inv, NEW s \in Sessions, InGraph(ses[s]),
           ~Commits, nextId' = nextId, graphEnabled' = graphEnabled,
           \/ Becomes(s, GraphDone(ses[s], FALSE), {}) /\ leftovers' = leftovers
           \/ /\ Becomes(s, GraphDone(ses[s], FALSE), pending[s])
              /\ leftovers' = leftovers \cup pending[s]
              /\ pending[s] = GraphRows(pending[s])
              /\ Mentioning(ses[s]) = {}
    PROVE  Inv'
<1>1. At(s, ses[s], pending[s])
    BY DEF Inv
<1>2. IsSession(ses[s])
    BY <1>1 DEF At
<1>3. PICK q : q = GraphDone(ses[s], FALSE)
    OBVIOUS
<1>4. FALSE \in BOOLEAN
    OBVIOUS
<1>5. /\ IsSession(q) /\ SameRequest(q, ses[s])
      /\ q.report.ids = ses[s].report.ids
      /\ IF ses[s].kind # "enrich" /\ Len(ses[s].report.ids) < Len(ses[s].asked)
         THEN q.pc = "ingest" /\ SameLocals(q, ses[s])
         ELSE q.pc = "answered" /\ q.known = {}
    BY <1>2, <1>3, <1>4, GraphDoneSession
<1>6. PICK p : /\ pending' = [pending EXCEPT ![s] = p]
               /\ \/ p = {}
                  \/ /\ p = pending[s] /\ leftovers' = leftovers \cup pending[s]
                     /\ pending[s] = GraphRows(pending[s]) /\ Mentioning(ses[s]) = {}
               /\ q.pc = "answered" => p = {}
    <2>1. CASE Becomes(s, GraphDone(ses[s], FALSE), {})
        BY <1>3, <2>1 DEF Becomes
    <2>2. CASE /\ Becomes(s, GraphDone(ses[s], FALSE), pending[s])
               /\ leftovers' = leftovers \cup pending[s]
               /\ pending[s] = GraphRows(pending[s])
               /\ Mentioning(ses[s]) = {}
        <3>1. pending' = [pending EXCEPT ![s] = IF q.pc = "answered" THEN {} ELSE pending[s]]
            BY <1>3, <2>2 DEF Becomes
        <3>2. CASE q.pc = "answered"
            <4>1. pending' = [pending EXCEPT ![s] = {}]
                BY <3>1, <3>2
            <4> QED
                BY <4>1
        <3>3. CASE q.pc # "answered"
            <4>1. pending' = [pending EXCEPT ![s] = pending[s]]
                BY <3>1, <3>3
            <4> QED
                BY <2>2, <3>3, <4>1
        <3> QED
            BY <3>2, <3>3
    <2> QED
        BY <2>1, <2>2
<1>7. ses' = [ses EXCEPT ![s] = q]
    BY <1>3 DEF Becomes
<1>8. ses'[s] = q /\ pending'[s] = p
    BY <1>6, <1>7 DEF Inv, Typed
<1>9. At(s, ses[s], pending[s])'
    <2>1. CASE q.pc = "answered"
        BY <1>5, <1>6, <1>8, <2>1, AnsweredAt
    <2>2. CASE q.pc = "ingest"
        <3>1. /\ Len(q.report.ids) < Len(q.asked) /\ q.kind = ses[s].kind
              /\ SameLocals(q, ses[s])
            BY <1>5, <2>2 DEF SameRequest
        <3>2. q.kind = "sync"
            <4>1. Len(ses[s].report.ids) < Len(ses[s].asked)
                BY <1>5, <2>2
            <4>2. Len(ses[s].report.ids) \in Nat /\ Len(ses[s].asked) \in Nat
                BY <1>2 DEF IsSession
            <4>3. ses[s].kind # "sync" => Len(ses[s].report.ids) >= Len(ses[s].asked)
                BY <1>1 DEF At, PendingAt
            <4> QED
                BY <3>1, <4>1, <4>2, <4>3
        <3>3. p = GraphRows(p) /\ p \subseteq leftovers'
            BY <1>6 DEF GraphRows
        <3>4. q.known \subseteq StoredContents'
            BY <1>1, <3>1 DEF At, Deduplicating, SameLocals, Commits, StoredContents
        <3>5. Supported(ses[s], pending[s])'
            <4>1. CASE p = {}
                BY <1>8, <4>1 DEF Supported, Of, Provenance
            <4>2. CASE p = pending[s] /\ Mentioning(ses[s]) = {}
                <5>1. Supported(ses[s], p)
                    BY <1>1, <4>2 DEF At
                <5>2. db' = db
                    BY DEF Commits
                <5> QED
                    BY <1>8, <4>2, <5>1, <5>2 DEF Supported
            <4> QED
                BY <1>6, <4>1, <4>2
        <3> QED
            BY <1>5, <1>8, <2>2, <3>1, <3>2, <3>3, <3>4, <3>5, IngestAt
    <2> QED
        BY <1>5, <2>1, <2>2
<1>10. /\ p \subseteq pending[s] /\ q.pc # "idle" /\ q.kind = ses[s].kind /\ ~Storing(q)
    BY <1>5, <1>6 DEF SameRequest, Storing
<1>11. \/ leftovers' = leftovers
       \/ leftovers' = leftovers \cup pending[s] /\ pending[s] = GraphRows(pending[s])
    OBVIOUS
<1> QED
    BY <1>6, <1>7, <1>9, <1>10, <1>11, Quietly

(* A stored row stores its content. *)
LEMMA ContentStored ==
    ASSUME NEW d, NEW c, DocumentRow(d, c) \in db
    PROVE  c \in StoredContents
<1>1. PICK x : x = DocumentRow(d, c)
    OBVIOUS
<1>2. x.table = "document" /\ x.content = c
    BY <1>1 DEF DocumentRow
<1> QED
    BY <1>1, <1>2 DEF StoredContents, Of

(* Refuse preserves Inv. *)
LEMMA RefuseInv == ASSUME Inv, NEW s \in Sessions, Refuse(s) PROVE Inv'
<1>1. PICK code : Becomes(s, Answered(ses[s], code), {})
    BY DEF Refuse
<1>2. ~Commits /\ nextId' = nextId /\ graphEnabled' = graphEnabled /\ leftovers' = leftovers
    BY DEF Refuse, HistoryUnchanged, Commits
<1> QED
    BY <1>1, <1>2, Answering

(* What a session at its next document has flushed is graph rows, of a sync. *)
LEMMA IngestHolds ==
    ASSUME Inv, NEW s \in Sessions, ses[s].pc = "ingest"
    PROVE  /\ IsSession(ses[s])
           /\ pending[s] = GraphRows(pending[s]) /\ pending[s] \subseteq leftovers
           /\ pending[s] # {} => ses[s].kind = "sync"
           /\ Len(ses[s].report.ids) < Len(ses[s].asked)
           /\ ses[s].kind # "sync" => Len(ses[s].asked) = 1
           /\ Supported(ses[s], pending[s]) /\ Mentioning(ses[s]) = {}
           /\ ses[s].known \subseteq StoredContents
           /\ Of(Visible(s), "document") = Documents
<1>1. At(s, ses[s], pending[s])
    BY DEF Inv
<1>2. /\ pending[s] = GraphRows(pending[s]) /\ pending[s] \subseteq leftovers
      /\ pending[s] # {} => ses[s].kind = "sync"
      /\ Len(ses[s].report.ids) < Len(ses[s].asked)
      /\ ses[s].kind # "sync" => Len(ses[s].asked) = 1
    BY <1>1 DEF At, PendingAt, Ingesting
<1>3. Of(Visible(s), "document") = Documents
    BY <1>2 DEF Visible, Documents, Of, GraphRows
<1> QED
    BY <1>1, <1>2, <1>3 DEF At, Deduplicating, Mentioning

(* The document a lookup finds is a committed one with the content asked    *)
(* for, and the earliest of them.                                           *)
LEMMA LookupFinds ==
    ASSUME Inv, NEW s \in Sessions, ses[s].pc = "ingest", find_by_content_hash(s) # {}
    PROVE  LET d == Min(find_by_content_hash(s))
           IN  /\ d \in Nat /\ d \in find_by_content_hash(s)
               /\ DocumentRow(d, Current(ses[s])) \in db
               /\ WholeDocument(d, Current(ses[s])) \subseteq db
               /\ \A x \in Documents : x.content = Current(ses[s]) => d <= x.id
               /\ ses[s].kind # "create"
<1>1. PICK T : T = find_by_content_hash(s)
    OBVIOUS
<1>2. T = {x.id : x \in {y \in Documents : ses[s].kind # "create" /\
                                           y.content = Current(ses[s])}}
    BY <1>1, IngestHolds DEF find_by_content_hash
<1>3. \A x \in Documents : x.id \in Nat
    BY DEF Inv, Stored
<1>4. T \subseteq Nat /\ T # {}
    BY <1>1, <1>2, <1>3
<1>5. \E n \in T : \A m \in T : n <= m
    BY <1>4, Least
<1>6. PICK d : d = Min(T)
    OBVIOUS
<1>7. d \in T /\ \A m \in T : d <= m
    BY <1>5, <1>6 DEF Min
<1>8. PICK x \in Documents : x.id = d /\ ses[s].kind # "create" /\ x.content = Current(ses[s])
    BY <1>2, <1>7
<1>9. x = DocumentRow(x.id, x.content) /\ WholeDocument(x.id, x.content) \subseteq db /\ x \in db
    BY DEF Inv, Stored, Documents, Of
<1>10. \A y \in Documents : y.content = Current(ses[s]) => d <= y.id
    BY <1>2, <1>7, <1>8
<1> QED
    BY <1>1, <1>4, <1>6, <1>7, <1>8, <1>9, <1>10

(* Reuse preserves Inv. *)
LEMMA ReuseInv == ASSUME Inv, NEW s \in Sessions, Reuse(s) PROVE Inv'
<1>1. /\ ses[s].pc = "ingest" /\ find_by_content_hash(s) # {}
      /\ Becomes(s, Ingested(ses[s], Min(find_by_content_hash(s)), TRUE), pending[s])
      /\ db' = db /\ ~Commits /\ nextId' = nextId /\ graphEnabled' = graphEnabled
      /\ leftovers' = leftovers
    BY DEF Reuse, HistoryUnchanged, Commits
<1>2. PICK d, r : d = Min(find_by_content_hash(s)) /\ r = ses[s]
    OBVIOUS
<1>3. d \in Nat
    BY <1>1, <1>2, LookupFinds
<1>4. /\ IsSession(r)
      /\ pending[s] = GraphRows(pending[s]) /\ pending[s] \subseteq leftovers
      /\ pending[s] # {} => r.kind = "sync"
      /\ Len(r.report.ids) < Len(r.asked)
      /\ r.kind # "sync" => Len(r.asked) = 1
      /\ Supported(r, pending[s]) /\ Mentioning(r) = {}
      /\ r.known \subseteq StoredContents
    BY <1>1, <1>2, IngestHolds
<1>5. PICK q : q = Ingested(r, d, TRUE)
    OBVIOUS
<1>6. /\ IsSession(q) /\ SameRequest(q, r)
      /\ q.report.ids = Append(r.report.ids, d)
      /\ \/ q.pc = "graph" /\ SameLocals(q, r) /\ r.kind # "sync"
         \/ q.pc = "ingest" /\ SameLocals(q, r) /\ Len(r.report.ids) + 1 < Len(r.asked)
         \/ q.pc = "answered" /\ q.known = {}
    <2>1. TRUE \in BOOLEAN
        OBVIOUS
    <2> QED
        BY ZenonT(60), <1>3, <1>4, <1>5, <2>1, IngestedSession
<1>7. /\ Len(q.report.ids) = Len(r.report.ids) + 1 /\ Len(r.report.ids) \in Nat
      /\ q.kind = r.kind /\ q.asked = r.asked
    BY <1>3, <1>4, <1>6 DEF IsSession, SameRequest
<1>8. PICK p : p = IF q.pc = "answered" THEN {} ELSE pending[s]
    OBVIOUS
<1>9. ses' = [ses EXCEPT ![s] = q] /\ pending' = [pending EXCEPT ![s] = p]
    BY <1>1, <1>2, <1>5, <1>8 DEF Becomes
<1>10. ses'[s] = q /\ pending'[s] = p /\ StoredContents' = StoredContents
    BY <1>1, <1>9 DEF Inv, Typed, StoredContents
<1>11. At(s, ses[s], pending[s])'
    <2>1. CASE q.pc = "answered" /\ q.known = {}
        BY <1>6, <1>8, <1>10, <2>1, AnsweredAt
    <2>2. CASE q.pc = "graph" /\ SameLocals(q, r) /\ r.kind # "sync"
        <3>1. p = {}
            BY <1>4, <1>8, <2>2
        <3>2. q.known = r.known /\ Len(q.asked) = 1
            BY <1>4, <1>7, <2>2 DEF SameLocals
        <3>3. Len(q.report.ids) >= Len(q.asked)
            BY <1>7, <3>2
        <3> QED
            BY <1>4, <1>6, <1>7, <1>10, <2>2, <3>1, <3>2, <3>3, GraphAt
    <2>3. CASE q.pc = "ingest" /\ SameLocals(q, r) /\ Len(r.report.ids) + 1 < Len(r.asked)
        <3>1. p = pending[s] /\ q.known = r.known /\ Len(q.report.ids) < Len(q.asked)
            BY <1>7, <1>8, <2>3 DEF SameLocals
        <3>2. Supported(ses[s], pending[s])'
            <4>1. Supported(r, p) /\ Mentioning(r) = {}
                BY <1>4, <3>1
            <4> QED
                BY <1>1, <1>10, <4>1 DEF Supported
        <3>3. p = GraphRows(p) /\ p \subseteq leftovers' /\ (p # {} => q.kind = "sync")
              /\ (q.kind # "sync" => Len(q.asked) = 1) /\ q.known \subseteq StoredContents'
            BY <1>1, <1>4, <1>7, <1>10, <3>1
        <3> QED
            BY <1>6, <1>10, <2>3, <3>1, <3>2, <3>3, IngestAt
    <2> QED
        BY <1>6, <2>1, <2>2, <2>3
<1>12. /\ p \subseteq pending[s] /\ q.pc # "idle" /\ q.kind = ses[s].kind /\ ~Storing(q)
    BY <1>2, <1>6, <1>7, <1>8 DEF Storing
<1> QED
    BY <1>1, <1>9, <1>11, <1>12, Quietly

(* CreateDocument preserves Inv. *)
LEMMA CreateDocumentInv == ASSUME Inv, NEW s \in Sessions, CreateDocument(s) PROVE Inv'
<1>1. PICK r, c : r = ses[s] /\ c = Current(r)
    OBVIOUS
<1>2. /\ r.pc = "ingest" /\ c \in Contents /\ find_by_content_hash(s) = {}
      /\ nextId \in DocumentIds /\ nextId' = nextId + 1
      /\ Becomes(s, [r EXCEPT !.pc = "embed", !.doc = nextId],
                 pending[s] \cup {DocumentRow(nextId, c)})
      /\ db' = db /\ births' = births /\ ~Commits /\ graphEnabled' = graphEnabled
      /\ leftovers' = leftovers
    BY <1>1 DEF CreateDocument, HistoryUnchanged, Commits
<1>3. /\ IsSession(r)
      /\ pending[s] = GraphRows(pending[s]) /\ pending[s] \subseteq leftovers
      /\ pending[s] # {} => r.kind = "sync"
      /\ Len(r.report.ids) < Len(r.asked)
      /\ r.kind # "sync" => Len(r.asked) = 1
      /\ Supported(r, pending[s]) /\ Mentioning(r) = {}
      /\ r.known \subseteq StoredContents
      /\ Of(Visible(s), "document") = Documents
    BY <1>1, <1>2, IngestHolds
<1>4. nextId \in Nat /\ Typed /\ Stored /\ Born
    BY DEF Inv, Typed
<1>5. PICK q, p, x : /\ q = [r EXCEPT !.pc = "embed", !.doc = nextId]
                     /\ x = DocumentRow(nextId, c) /\ p = pending[s] \cup {x}
    OBVIOUS
<1>6. q = [pc |-> "embed", kind |-> r.kind, enrich |-> r.enrich, asked |-> r.asked,
           known |-> r.known, doc |-> nextId, chunk |-> r.chunk, queue |-> r.queue,
           named |-> r.named, rows |-> r.rows, report |-> r.report, answer |-> r.answer]
    BY <1>3, <1>5 DEF IsSession
<1>7. /\ IsSession(q) /\ SameRequest(q, r) /\ q.pc = "embed" /\ q.known = r.known
      /\ q.doc = nextId /\ q.report = r.report
    BY <1>3, <1>4, <1>6 DEF IsSession, SameRequest, Ingesting
<1>8. Current(q) = c /\ q.kind = r.kind /\ q.asked = r.asked
    BY <1>1, <1>7 DEF Current, SameRequest
<1>9. x.table = "document" /\ x.id = nextId /\ x.content = c
    BY <1>5 DEF DocumentRow
<1>10. ses' = [ses EXCEPT ![s] = q] /\ pending' = [pending EXCEPT ![s] = p]
    BY <1>2, <1>5, <1>7 DEF Becomes
<1>11. /\ ses'[s] = q /\ pending'[s] = p
       /\ \A t \in Sessions \ {s} : ses'[t] = ses[t] /\ pending'[t] = pending[t]
    BY <1>4, <1>10 DEF Typed
<1>12. /\ GraphRows(p) = pending[s]
       /\ \A k \in {"entity", "mention", "relationship"} : Of(p, k) = Of(pending[s], k)
    BY <1>3, <1>5, <1>9 DEF GraphRows, Of
<1>13. PendingAt(s, ses[s], pending[s])'
    <2>1. p = {DocumentRow(q.doc, Current(q))} \cup GraphRows(p)
        BY <1>5, <1>7, <1>8, <1>12
    <2>2. /\ GraphRows(p) \subseteq leftovers' /\ (GraphRows(p) # {} => q.kind = "sync")
          /\ Len(q.report.ids) < Len(q.asked) /\ (q.kind # "sync" => Len(q.asked) = 1)
        BY <1>2, <1>3, <1>7, <1>8, <1>12
    <2> QED
        BY <1>7, <1>11, <2>1, <2>2 DEF PendingAt, Ingesting, Enriching, InGraph
<1>14. Supported(ses[s], pending[s])'
    <2>1. Provenance(p) = Provenance(pending[s])
        BY <1>12 DEF Provenance
    <2>2. \A k \in {"entity", "mention", "relationship"} :
              Of(db \cup p, k) = Of(db \cup pending[s], k)
        BY <1>5, <1>9 DEF Of
    <2>3. pending[s] \subseteq p
        BY <1>5
    <2> QED
        BY <1>2, <1>3, <1>11, <1>12, <2>1, <2>2, <2>3 DEF Supported
<1>15. (Resolving(ses[s], pending[s]) /\ Fresh(ses[s]))'
    <2>1. \A y \in Documents : y.id # nextId
        BY <1>4 DEF Stored
    <2>2. nextId < nextId'
        BY <1>2, <1>4
    <2> QED
        BY <1>2, <1>7, <1>8, <1>11, <2>1, <2>2 DEF Resolving, Fresh, Storing, Documents
<1>16. Deduplicating(s, ses[s])'
    <2>1. StoredContents' = StoredContents
        BY <1>2 DEF StoredContents
    <2>2. ASSUME r.kind # "create" PROVE c \notin StoredContents
        BY <1>1, <1>2, <1>3, <2>2 DEF StoredContents, find_by_content_hash, Documents
    <2>3. \A b \in births : b.content \in StoredContents
        BY <1>4, ContentStored DEF Born
    <2> QED
        BY <1>2, <1>3, <1>7, <1>8, <1>11, <2>1, <2>2, <2>3 DEF Deduplicating, Storing
<1>17. At(s, ses[s], pending[s])'
    BY <1>7, <1>11, <1>13, <1>14, <1>15, <1>16 DEF At
<1>18. NamesAreUnique'
    <2>1. AllRows' \subseteq AllRows \cup {x}
        BY <1>2, <1>5, <1>11 DEF AllRows
    <2>2. Entities' \subseteq Entities
        BY <1>9, <2>1 DEF Entities, Of
    <2> QED
        BY <2>2 DEF Inv, NamesAreUnique
<1>19. DocumentsAreOwn'
    <2>1. \A t \in Sessions : Storing(ses[t]) => ses[t].doc # nextId
        <3> SUFFICES ASSUME NEW t \in Sessions, Storing(ses[t]) PROVE ses[t].doc # nextId
            OBVIOUS
        <3>1. At(t, ses[t], pending[t])
            BY DEF Inv
        <3> QED
            BY <1>4, <3>1 DEF At, Fresh
    <2>2. DocumentsAreOwn
        BY DEF Inv
    <2>3. \A t \in Sessions \ {s} : ses'[t] = ses[t]
        BY <1>11
    <2> QED
        BY <1>7, <1>11, <2>1, <2>2, <2>3 DEF DocumentsAreOwn, Storing
<1>20. nextId' \in Nat /\ nextId <= nextId' /\ q.pc # "idle" /\ q.kind = ses[s].kind
    BY <1>1, <1>2, <1>4, <1>7, <1>8
<1> QED
    BY <1>2, <1>10, <1>17, <1>18, <1>19, <1>20, Uncommitted

(* Embed preserves Inv. *)
LEMMA EmbedInv == ASSUME Inv, NEW s \in Sessions, Embed(s) PROVE Inv'
<1>1. PICK r, chunks : /\ r = ses[s]
                       /\ chunks = {ChunkRow(r.doc, i) : i \in 1..ChunkCount[Current(r)]}
    OBVIOUS
<1>2. PICK q, p : q = [r EXCEPT !.pc = "commit"] /\ p = pending[s] \cup chunks
    OBVIOUS
<1>3. /\ r.pc = "embed" /\ Becomes(s, q, p)
      /\ db' = db /\ births' = births /\ ~Commits /\ graphEnabled' = graphEnabled
      /\ leftovers' = leftovers /\ nextId' = nextId
    BY <1>1, <1>2 DEF Embed, HistoryUnchanged, Commits
<1>4. At(s, r, pending[s]) /\ Typed
    BY <1>1 DEF Inv
<1>5. IsSession(r)
    BY <1>4 DEF At
<1>6. /\ IsSession(q) /\ SameRequest(q, r) /\ q.pc = "commit" /\ SameLocals(q, r)
      /\ q.doc = r.doc /\ q.report = r.report
    BY <1>2, <1>5, MovedSession
<1>7. /\ Current(q) = Current(r) /\ q.kind = r.kind /\ q.asked = r.asked
      /\ q.known = r.known
    BY <1>6 DEF Current, SameRequest, SameLocals
<1>8. ses' = [ses EXCEPT ![s] = q] /\ pending' = [pending EXCEPT ![s] = p]
    BY <1>3, <1>6 DEF Becomes
<1>9. /\ ses'[s] = q /\ pending'[s] = p
      /\ \A t \in Sessions \ {s} : ses'[t] = ses[t] /\ pending'[t] = pending[t]
    BY <1>4, <1>8 DEF Typed
<1>10. \A x \in chunks : x.table = "chunk"
    BY <1>1 DEF ChunkRow
<1>11. /\ GraphRows(p) = GraphRows(pending[s])
       /\ \A k \in {"entity", "mention", "relationship"} : Of(p, k) = Of(pending[s], k)
    BY <1>2, <1>10 DEF GraphRows, Of
<1>12. PendingAt(s, r, pending[s]) /\ Supported(r, pending[s]) /\ Fresh(r) /\ Deduplicating(s, r)
    BY <1>4 DEF At
<1>13. PendingAt(s, ses[s], pending[s])'
    <2>1. p = WholeDocument(q.doc, Current(q)) \cup GraphRows(p)
        <3>1. pending[s] = {DocumentRow(r.doc, Current(r))} \cup GraphRows(pending[s])
            BY <1>3, <1>12 DEF PendingAt
        <3> QED
            BY <1>1, <1>2, <1>6, <1>7, <1>11, <3>1 DEF WholeDocument
    <2>2. /\ GraphRows(p) \subseteq leftovers' /\ (GraphRows(p) # {} => q.kind = "sync")
          /\ Len(q.report.ids) < Len(q.asked) /\ (q.kind # "sync" => Len(q.asked) = 1)
        BY <1>3, <1>6, <1>7, <1>11, <1>12 DEF PendingAt, Ingesting
    <2> QED
        BY <1>6, <1>9, <2>1, <2>2 DEF PendingAt, Ingesting, Enriching, InGraph
<1>14. Supported(ses[s], pending[s])'
    <2>1. Provenance(p) = Provenance(pending[s])
        BY <1>11 DEF Provenance
    <2>2. \A k \in {"entity", "mention", "relationship"} :
              Of(db \cup p, k) = Of(db \cup pending[s], k)
        BY <1>2, <1>10 DEF Of
    <2>3. pending[s] \subseteq p
        BY <1>2
    <2>4. Mentioning(r) = {}
        BY <1>3 DEF Mentioning
    <2> QED
        BY <1>3, <1>9, <1>11, <1>12, <2>1, <2>2, <2>3, <2>4 DEF Supported
<1>15. (Resolving(ses[s], pending[s]) /\ Fresh(ses[s]))'
    BY <1>3, <1>6, <1>7, <1>9, <1>12 DEF Resolving, Fresh, Storing, Documents
<1>16. Deduplicating(s, ses[s])'
    BY <1>3, <1>6, <1>7, <1>9, <1>12 DEF Deduplicating, Storing, StoredContents
<1>17. At(s, ses[s], pending[s])'
    BY <1>6, <1>9, <1>13, <1>14, <1>15, <1>16 DEF At
<1>18. NamesAreUnique'
    <2>1. AllRows' \subseteq AllRows \cup chunks
        BY <1>2, <1>3, <1>9 DEF AllRows
    <2>2. Entities' \subseteq Entities
        BY <1>10, <2>1 DEF Entities, Of
    <2> QED
        BY <2>2 DEF Inv, NamesAreUnique
<1>19. DocumentsAreOwn'
    <2>1. \A t \in Sessions : Storing(ses'[t]) => Storing(ses[t]) /\ ses'[t].doc = ses[t].doc
        BY <1>1, <1>3, <1>6, <1>9 DEF Storing
    <2> QED
        BY <2>1, OwnKept
<1>20. nextId' \in Nat /\ nextId <= nextId' /\ q.pc # "idle" /\ q.kind = ses[s].kind
    BY <1>1, <1>3, <1>4, <1>6, <1>7 DEF Typed
<1> QED
    BY <1>3, <1>8, <1>17, <1>18, <1>19, <1>20, Uncommitted
-----------------------------------------------------------------------------
(* The steps that commit. *)

(* The abstract store speaks of rows in the same terms. *)
LEMMA StoreOperators ==
    /\ \A rows, t : Store!Of(rows, t) = Of(rows, t)
    /\ \A rows : Store!Provenance(rows) = Provenance(rows)
    /\ \A rows : Store!GraphRows(rows) = GraphRows(rows)
    /\ \A d, c : Store!WholeDocument(d, c) = WholeDocument(d, c)
    /\ \A d, i : Store!ChunkRow(d, i) = ChunkRow(d, i)
    /\ \A e, k : Store!MentionRow(e, k) = MentionRow(e, k)
BY DEF Store!Of, Of, Store!Provenance, Provenance, Store!GraphRows, GraphRows,
       Store!WholeDocument, WholeDocument, Store!ChunkRow, ChunkRow, Store!MentionRow,
       MentionRow, Store!DocumentRow, DocumentRow

(* The provenance of rows is that of its parts. *)
LEMMA ProvenanceUnion ==
    ASSUME NEW a, NEW b
    PROVE  Provenance(a \cup b) = Provenance(a) \cup Provenance(b)
BY DEF Provenance, Of

(* What a transaction flushed may be committed without losing its ground. *)
LEMMA GroundedUnion ==
    ASSUME Inv, NEW s \in Sessions, Mentioning(ses[s]) = {}, db' = db \cup pending[s]
    PROVE  Store!Grounded(db)'
<1>1. PICK p : p = pending[s]
    OBVIOUS
<1>2. Supported(ses[s], p) /\ Store!Grounded(db) /\ NamesAreUnique
    BY <1>1 DEF Inv, At
<1>3. \A t : Of(db \cup p, t) = Of(db, t) \cup Of(p, t)
    BY DEF Of
<1>4. \A k \in Provenance(db \cup p) : ChunkRow(k[1], k[2]) \in db \cup p
    <2>1. \A k \in Provenance(db) : ChunkRow(k[1], k[2]) \in db
        BY <1>2, StoreOperators DEF Store!Grounded
    <2>2. \A k \in Provenance(p) : ChunkRow(k[1], k[2]) \in db
        BY <1>2 DEF Supported
    <2> QED
        BY <2>1, <2>2, ProvenanceUnion
<1>5. \A m \in Of(db \cup p, "mention") : \E e \in Of(db \cup p, "entity") : e.id = m.entity
    BY <1>2, <1>3, StoreOperators DEF Store!Grounded, Supported
<1>6. \A g \in Of(db \cup p, "relationship") :
          /\ g.source # g.target
          /\ {MentionRow(g.source, g.chunk), MentionRow(g.target, g.chunk)} \subseteq db \cup p
    <2>1. \A g \in Of(db, "relationship") :
              /\ g.source # g.target
              /\ {MentionRow(g.source, g.chunk), MentionRow(g.target, g.chunk)} \subseteq db
        BY <1>2, StoreOperators DEF Store!Grounded
    <2>2. \A g \in Of(p, "relationship") :
              /\ g.source # g.target
              /\ {MentionRow(g.source, g.chunk), MentionRow(g.target, g.chunk)}
                     \subseteq db \cup p
        BY <1>2 DEF Supported
    <2> QED
        BY <1>3, <2>1, <2>2
<1>7. \A e \in Of(db \cup p, "entity") : \E m \in Of(db \cup p, "mention") : m.entity = e.id
    BY <1>2, <1>3, StoreOperators DEF Store!Grounded, Supported
<1>8. \A r1, r2 \in Of(db \cup p, "entity") : r1.name = r2.name => r1 = r2
    <2>1. Of(db \cup p, "entity") \subseteq Entities
        BY <1>1 DEF Entities, AllRows, Of
    <2> QED
        BY <1>2, <2>1 DEF NamesAreUnique
<1>9. Store!Grounded(db \cup p)
    BY <1>4, <1>5, <1>6, <1>7, <1>8, StoreOperators DEF Store!Grounded
<1> QED
    BY <1>1, <1>9

(* A commit gives no entity a name that another one has. *)
LEMMA NamesCommitted ==
    ASSUME Inv, NEW s \in Sessions, db' = db \cup pending[s],
           \A t \in Sessions : pending'[t] \subseteq pending[t]
    PROVE  NamesAreUnique'
<1>1. Entities' \subseteq Entities
    BY DEF Entities, AllRows, Of
<1> QED
    BY <1>1 DEF Inv, NamesAreUnique
(* What the transaction that stores a document holds. *)
LEMMA CommitHolds ==
    ASSUME Inv, NEW s \in Sessions, ses[s].pc = "commit"
    PROVE  LET d == ses[s].doc
               c == Current(ses[s])
           IN  /\ d \in Nat /\ d \in DocumentIds /\ d < nextId /\ c \in Contents
               /\ \A x \in Documents : x.id # d
               /\ pending[s] = WholeDocument(d, c) \cup GraphRows(pending[s])
               /\ GraphRows(pending[s]) \subseteq leftovers
               /\ GraphRows(pending[s]) # {} => ses[s].kind = "sync"
               /\ Documents \cup {DocumentRow(d, c)} = Of(db \cup pending[s], "document")
               /\ Of(db \cup pending[s], "chunk") =
                      Of(db, "chunk") \cup {ChunkRow(d, i) : i \in 1..ChunkCount[c]}
               /\ Mentioning(ses[s]) = {}
<1>1. PICK d, c, p : d = ses[s].doc /\ c = Current(ses[s]) /\ p = pending[s]
    OBVIOUS
<1>2. At(s, ses[s], p)
    BY <1>1 DEF Inv
<1>3. /\ d \in Nat /\ d \in DocumentIds /\ d < nextId /\ c \in Contents
      /\ \A x \in Documents : x.id # d
    BY <1>1, <1>2 DEF At, Fresh, Storing, IsSession
<1>4. /\ p = WholeDocument(d, c) \cup GraphRows(p) /\ GraphRows(p) \subseteq leftovers
      /\ GraphRows(p) # {} => ses[s].kind = "sync"
    BY <1>1, <1>2 DEF At, PendingAt, Ingesting
<1>5. DocumentRow(d, c).table = "document" /\ \A i : ChunkRow(d, i).table = "chunk"
    BY DEF DocumentRow, ChunkRow
<1>6. \A x \in GraphRows(p) : x.table \notin {"document", "chunk"}
    BY DEF GraphRows
<1>7. Documents \cup {DocumentRow(d, c)} = Of(db \cup p, "document")
    BY <1>4, <1>5, <1>6 DEF Documents, Of, WholeDocument
<1>8. Of(db \cup p, "chunk") = Of(db, "chunk") \cup {ChunkRow(d, i) : i \in 1..ChunkCount[c]}
    BY <1>4, <1>5, <1>6 DEF Of, WholeDocument
<1> QED
    BY <1>1, <1>3, <1>4, <1>7, <1>8 DEF Mentioning

(* The commit of a document preserves Inv. *)
LEMMA KeepDocumentInv ==
    ASSUME Inv, NEW s \in Sessions, ses[s].pc = "commit", KeepDocument(s), NEW q,
           ses' = [ses EXCEPT ![s] = q], pending' = [pending EXCEPT ![s] = {}],
           UNCHANGED <<graphEnabled, nextId, completed, leftovers>>,
           q.pc # "idle", q.kind = ses[s].kind, ~Storing(q),
           At(s, ses[s], pending[s])'
    PROVE  Inv'
<1>1. PICK d, c, p, b :
          /\ d = ses[s].doc /\ c = Current(ses[s]) /\ p = pending[s]
          /\ b = [id |-> d, content |-> c, by |-> s, deduplicated |-> ses[s].kind # "create",
                  known |-> ses[s].known]
    OBVIOUS
<1>2. db' = db \cup p /\ births' = births \cup {b}
    BY <1>1 DEF KeepDocument
<1>3. /\ b.id = d /\ b.content = c /\ b.by = s /\ b.known = ses[s].known
      /\ b.deduplicated <=> ses[s].kind # "create"
    BY <1>1
<1>4. /\ d \in Nat /\ d \in DocumentIds /\ d < nextId /\ c \in Contents
      /\ \A x \in Documents : x.id # d
      /\ p = WholeDocument(d, c) \cup GraphRows(p)
      /\ GraphRows(p) \subseteq leftovers
      /\ GraphRows(p) # {} => ses[s].kind = "sync"
      /\ Documents \cup {DocumentRow(d, c)} = Of(db \cup p, "document")
      /\ Of(db \cup p, "chunk") =
             Of(db, "chunk") \cup {ChunkRow(d, i) : i \in 1..ChunkCount[c]}
      /\ Mentioning(ses[s]) = {}
    BY <1>1, CommitHolds
<1>5. Typed /\ Stored /\ Born /\ GraphIsAtomic /\ FirstStoredIsReused
      /\ leftovers = GraphRows(leftovers)
    BY DEF Inv
<1>6. /\ ses'[s] = q /\ pending'[s] = {} /\ nextId \in Nat
      /\ \A t \in Sessions \ {s} : ses'[t] = ses[t] /\ pending'[t] = pending[t]
    BY <1>5 DEF Typed
<1>7. Typed'
    BY <1>5, <1>6 DEF Typed
<1>8. /\ Documents' = Documents \cup {DocumentRow(d, c)}
      /\ DocumentRow(d, c).id = d /\ DocumentRow(d, c).content = c
      /\ DocumentRow(d, c) \in db'
    BY <1>2, <1>4 DEF Documents, DocumentRow, WholeDocument
<1>9. Grows(s)
    BY <1>1, <1>2, <1>3, <1>6, <1>8 DEF Grows, Storing
<1>10. GoesOn
    BY <1>6 DEF GoesOn
<1>11. Stored'
    <2>1. ASSUME NEW x \in Documents'
          PROVE  /\ x = DocumentRow(x.id, x.content)
                 /\ x.id \in Nat /\ x.id \in DocumentIds /\ x.id < nextId
                 /\ x.content \in Contents
                 /\ WholeDocument(x.id, x.content) \subseteq db'
        <3>1. CASE x \in Documents
            BY <1>2, <1>5, <3>1 DEF Stored
        <3>2. CASE x = DocumentRow(d, c)
            BY <1>2, <1>4, <1>8, <3>2
        <3> QED
            BY <1>8, <3>1, <3>2
    <2>2. \A x1, x2 \in Documents' : x1.id = x2.id => x1 = x2
        BY <1>4, <1>5, <1>8 DEF Stored
    <2>3. ASSUME NEW k \in Of(db', "chunk")
          PROVE  \E x \in Documents' : x.id = k.document /\ k.index \in 1..ChunkCount[x.content]
        <3>1. CASE k \in Of(db, "chunk")
            BY <1>5, <1>8, <3>1 DEF Stored
        <3>2. CASE k \in {ChunkRow(d, i) : i \in 1..ChunkCount[c]}
            <4>1. PICK i \in 1..ChunkCount[c] : k = ChunkRow(d, i)
                BY <3>2
            <4>2. k.document = d /\ k.index = i
                BY <4>1 DEF ChunkRow
            <4> QED
                BY <1>8, <4>1, <4>2
        <3> QED
            BY <1>2, <1>4, <3>1, <3>2
    <2> QED
        BY <2>1, <2>2, <2>3 DEF Stored
<1>12. Store!Grounded(db)'
    BY <1>1, <1>2, <1>4, GroundedUnion
<1>13. NamesAreUnique'
    <2>1. \A t \in Sessions : pending'[t] \subseteq pending[t]
        BY <1>6
    <2> QED
        BY <1>1, <1>2, <2>1, NamesCommitted
<1>14. DocumentsAreOwn'
    <2>1. \A t \in Sessions : Storing(ses'[t]) => Storing(ses[t]) /\ ses'[t].doc = ses[t].doc
        BY <1>6
    <2> QED
        BY <2>1, OwnKept
<1>15. Born'
    <2>1. ASSUME NEW a \in births'
          PROVE  /\ a.by \in Sessions /\ ses'[a.by].pc # "idle"
                 /\ DocumentRow(a.id, a.content) \in db'
                 /\ a.deduplicated <=> ses'[a.by].kind # "create"
        <3>1. CASE a \in births
            BY <1>2, <1>5, <1>10, <3>1 DEF Born, GoesOn
        <3>2. CASE a = b
            BY <1>3, <1>6, <1>8, <3>2
        <3> QED
            BY <1>2, <3>1, <3>2
    <2> QED
        BY <2>1 DEF Born
<1>16. GraphIsAtomic'
    <2> DEFINE whole == UNION {e.rows : e \in completed}
    <2>1. whole' = whole /\ leftovers' = leftovers
        OBVIOUS
    <2>2. /\ whole \subseteq db
          /\ GraphRows(db) \ whole \subseteq leftovers
          /\ \A r \in (db \cap leftovers) \ whole : \E a \in births : ses[a.by].kind = "sync"
        BY <1>5 DEF GraphIsAtomic
    <2> HIDE DEF whole
    <2>3. GraphRows(db') = GraphRows(db) \cup GraphRows(p)
        BY <1>2 DEF GraphRows
    <2>4. ASSUME NEW r \in (db' \cap leftovers) \ whole
          PROVE  \E a \in births' : ses'[a.by].kind = "sync"
        <3>1. CASE r \in db
            <4>1. PICK a \in births : ses[a.by].kind = "sync"
                BY <2>2, <3>1
            <4>2. a.by \in Sessions /\ ses[a.by].pc # "idle"
                BY <1>5 DEF Born
            <4> QED
                BY <1>2, <1>10, <4>1, <4>2 DEF GoesOn
        <3>2. CASE r \in p
            <4>1. r \in GraphRows(p)
                BY <1>5, <3>2 DEF GraphRows
            <4> QED
                BY <1>2, <1>3, <1>4, <1>6, <4>1
        <3> QED
            BY <1>2, <3>1, <3>2
    <2> QED
        BY <1>2, <1>4, <2>1, <2>2, <2>3, <2>4 DEF GraphIsAtomic, whole
<1>17. FirstStoredIsReused'
    <2>1. ses[s].kind # "create" =>
              c \notin ses[s].known /\ \A a \in births : a.by = s => a.content # c
        <3>1. Deduplicating(s, ses[s])
            BY DEF Inv, At
        <3> QED
            BY <1>1, <3>1 DEF Deduplicating, Storing
    <2>2. ASSUME NEW a \in births', a.deduplicated
          PROVE  /\ a.content \notin a.known
                 /\ \A other \in births' :
                        (other.by = a.by /\ other.content = a.content) => other = a
        <3>1. CASE a \in births
            <4>1. a.content \notin a.known
                BY <1>5, <2>2, <3>1 DEF FirstStoredIsReused
            <4>2. ASSUME NEW other \in births', other.by = a.by, other.content = a.content
                  PROVE  other = a
                <5>1. CASE other \in births
                    BY <1>5, <2>2, <3>1, <4>2, <5>1 DEF FirstStoredIsReused
                <5>2. CASE other = b
                    <6>1. a.by = s /\ ses[s].kind # "create"
                        BY <1>3, <1>5, <2>2, <3>1, <4>2, <5>2 DEF Born
                    <6> QED
                        BY <1>3, <2>1, <3>1, <4>2, <5>2, <6>1
                <5> QED
                    BY <1>2, <5>1, <5>2
            <4> QED
                BY <4>1, <4>2
        <3>2. CASE a = b
            BY <1>2, <1>3, <2>1, <2>2, <3>2
        <3> QED
            BY <1>2, <3>1, <3>2
    <2> QED
        BY <2>2 DEF FirstStoredIsReused
<1>18. \A t \in Sessions : At(t, ses[t], pending[t])'
    BY <1>9, OthersKept
<1>19. (leftovers = GraphRows(leftovers))'
    BY <1>5
<1> QED
    BY <1>7, <1>11, <1>12, <1>13, <1>14, <1>15, <1>16, <1>17, <1>18, <1>19 DEF Inv

(* CommitDocument preserves Inv. *)
LEMMA CommitDocumentInv == ASSUME Inv, NEW s \in Sessions, CommitDocument(s) PROVE Inv'
<1>1. PICK r, d : r = ses[s] /\ d = ses[s].doc
    OBVIOUS
<1>2. PICK q : q = Ingested(r, d, FALSE)
    OBVIOUS
<1>3. /\ ses[s].pc = "commit" /\ KeepDocument(s) /\ Becomes(s, q, {})
      /\ UNCHANGED <<graphEnabled, nextId, completed, leftovers>>
    BY <1>1, <1>2 DEF CommitDocument
<1>4. At(s, r, pending[s]) /\ Typed
    BY <1>1 DEF Inv
<1>5. IsSession(r) /\ d \in Nat
    BY <1>1, <1>4 DEF At, IsSession
<1>6. /\ IsSession(q) /\ SameRequest(q, r)
      /\ q.report.ids = Append(r.report.ids, d)
      /\ \/ q.pc = "graph" /\ SameLocals(q, r)
         \/ q.pc = "ingest" /\ SameLocals(q, r) /\ Len(r.report.ids) + 1 < Len(r.asked)
         \/ q.pc = "answered" /\ q.known = {}
    <2>1. PICK duplicate \in BOOLEAN : duplicate = FALSE
        OBVIOUS
    <2>2. q = Ingested(r, d, duplicate)
        BY <1>2, <2>1
    <2>3. IsSession(q) /\ SameRequest(q, r)
        BY <1>5, <2>2, IngestedSession
    <2>5. q.report.ids = Append(r.report.ids, d)
        BY <1>5, <2>2, IngestedSession
    <2>4. \/ q.pc = "graph" /\ SameLocals(q, r)
          \/ q.pc = "ingest" /\ SameLocals(q, r) /\ Len(r.report.ids) + 1 < Len(r.asked)
          \/ q.pc = "answered" /\ q.known = {}
        BY <1>5, <2>2, IngestedSession
    <2> QED
        BY <2>3, <2>4, <2>5
<1>7. /\ Len(q.report.ids) = Len(r.report.ids) + 1 /\ Len(r.report.ids) \in Nat
      /\ q.kind = r.kind /\ q.asked = r.asked
    BY <1>5, <1>6 DEF IsSession, SameRequest
<1>8. ses' = [ses EXCEPT ![s] = q] /\ pending' = [pending EXCEPT ![s] = {}]
    BY <1>3 DEF Becomes
<1>9. ses'[s] = q /\ pending'[s] = {}
    BY <1>4, <1>8 DEF Typed
<1>10. /\ \E b \in births' : b.by = s
       /\ r.known \subseteq StoredContents'
    <2>1. \E b \in births' : b.by = s
        <3>1. PICK b : b = [id |-> ses[s].doc, content |-> Current(ses[s]), by |-> s,
                            deduplicated |-> ses[s].kind # "create", known |-> ses[s].known]
            OBVIOUS
        <3>2. b \in births' /\ b.by = s
            BY <1>3, <3>1 DEF KeepDocument
        <3> QED
            BY <3>2
    <2>2. r.known \subseteq StoredContents
        BY <1>4 DEF At, Deduplicating
    <2>3. StoredContents \subseteq StoredContents'
        BY <1>3 DEF KeepDocument, StoredContents, Of
    <2> QED
        BY <2>1, <2>2, <2>3
<1>11. r.kind # "sync" => Len(r.asked) = 1
    BY <1>1, <1>3, <1>4 DEF At, PendingAt, Ingesting
<1>12. At(s, ses[s], pending[s])'
    <2>1. CASE q.pc = "answered" /\ q.known = {}
        BY <1>6, <1>9, <2>1, AnsweredAt
    <2>2. CASE q.pc = "graph" /\ SameLocals(q, r)
        <3>1. q.known \subseteq StoredContents'
            BY <1>10, <2>2 DEF SameLocals
        <3>2. ASSUME q.kind # "sync" PROVE Len(q.report.ids) >= Len(q.asked)
            <4>1. Len(q.asked) = 1
                BY <1>7, <1>11, <3>2
            <4> QED
                BY <1>7, <4>1
        <3> QED
            BY <1>6, <1>9, <1>10, <2>2, <3>1, <3>2, GraphAt
    <2>3. CASE q.pc = "ingest" /\ SameLocals(q, r) /\ Len(r.report.ids) + 1 < Len(r.asked)
        <3>1. PICK p : p = {}
            OBVIOUS
        <3>2. p = GraphRows(p) /\ p \subseteq leftovers' /\ (p # {} => q.kind = "sync")
              /\ pending'[s] = p
            BY <1>9, <3>1 DEF GraphRows
        <3>3. /\ Len(q.report.ids) < Len(q.asked) /\ q.known \subseteq StoredContents'
              /\ q.kind # "sync" => Len(q.asked) = 1
            BY <1>7, <1>10, <1>11, <2>3 DEF SameLocals
        <3>4. Supported(ses[s], pending[s])'
            BY <1>9 DEF Supported, Of, Provenance
        <3> QED
            BY <1>6, <1>9, <2>3, <3>2, <3>3, <3>4, IngestAt
    <2> QED
        BY <1>6, <2>1, <2>2, <2>3
<1>13. q.pc # "idle" /\ q.kind = ses[s].kind /\ ~Storing(q)
    BY <1>1, <1>6, <1>7 DEF Storing
<1> QED
    BY <1>3, <1>8, <1>12, <1>13, KeepDocumentInv

(* IngestFails preserves Inv. *)
LEMMA IngestFailsInv == ASSUME Inv, NEW s \in Sessions, IngestFails(s) PROVE Inv'
<1>1. PICK code : Becomes(s, Answered(ses[s], code), {})
    BY DEF IngestFails
<1>2. nextId' = nextId /\ graphEnabled' = graphEnabled /\ leftovers' = leftovers
      /\ completed' = completed
    BY DEF IngestFails
<1>3. CASE UNCHANGED <<db, births>>
    <2>1. ~Commits
        BY <1>2, <1>3 DEF Commits
    <2> QED
        BY <1>1, <1>2, <2>1, Answering
<1>4. CASE ses[s].pc = "commit" /\ KeepDocument(s)
    <2>1. IsSession(ses[s]) /\ Typed
        BY DEF Inv, At
    <2>2. PICK q : q = Answered(ses[s], code)
        OBVIOUS
    <2>3. /\ IsSession(q) /\ q.pc = "answered" /\ q.known = {}
          /\ SameRequest(q, ses[s])
        BY <2>1, <2>2, AnsweredSession
    <2>4. ses' = [ses EXCEPT ![s] = q] /\ pending' = [pending EXCEPT ![s] = {}]
        BY <1>1, <2>2, <2>3 DEF Becomes
    <2>5. ses'[s] = q /\ pending'[s] = {}
        BY <2>1, <2>4 DEF Typed
    <2>6. At(s, ses[s], pending[s])'
        BY <2>3, <2>5, AnsweredAt
    <2>7. q.pc # "idle" /\ q.kind = ses[s].kind /\ ~Storing(q)
        BY <2>3 DEF SameRequest, Storing
    <2> QED
        BY <1>2, <1>4, <2>4, <2>6, <2>7, KeepDocumentInv
<1> QED
    BY <1>3, <1>4 DEF IngestFails

(* The commit of a graph preserves Inv. *)
LEMMA KeepGraphInv ==
    ASSUME Inv, NEW s \in Sessions, ses[s].pc = "save", KeepGraph(s), NEW q,
           ses' = [ses EXCEPT ![s] = q], pending' = [pending EXCEPT ![s] = {}],
           UNCHANGED <<graphEnabled, nextId, births, leftovers>>,
           q.pc # "idle", q.kind = ses[s].kind, ~Storing(q),
           At(s, ses[s], pending[s])'
    PROVE  Inv'
<1>1. PICK p, e : p = pending[s] /\ e = [doc |-> ses[s].doc, rows |-> ses[s].rows, by |-> s]
    OBVIOUS
<1>2. db' = db \cup p /\ completed' = completed \cup {e} /\ e.rows = ses[s].rows
    BY <1>1 DEF KeepGraph
<1>3. Typed /\ Stored /\ Born /\ GraphIsAtomic /\ FirstStoredIsReused
      /\ leftovers = GraphRows(leftovers)
    BY DEF Inv
<1>4. /\ p = GraphRows(p) /\ p \subseteq ses[s].rows /\ ses[s].rows \subseteq db \cup p
      /\ Mentioning(ses[s]) = {}
    <2>1. PendingAt(s, ses[s], p)
        BY <1>1 DEF Inv, At
    <2> QED
        BY <2>1 DEF PendingAt, Enriching, Mentioning
<1>5. /\ ses'[s] = q /\ pending'[s] = {} /\ nextId \in Nat
      /\ \A t \in Sessions \ {s} : ses'[t] = ses[t] /\ pending'[t] = pending[t]
    BY <1>3 DEF Typed
<1>6. Typed'
    BY <1>3, <1>5 DEF Typed
<1>7. Documents' = Documents /\ Of(db, "chunk")' = Of(db, "chunk")
    BY <1>2, <1>4 DEF Documents, Of, GraphRows
<1>8. Grows(s)
    BY <1>2, <1>5, <1>7 DEF Grows
<1>9. GoesOn
    BY <1>5 DEF GoesOn
<1>10. Stored'
    BY <1>2, <1>3, <1>7 DEF Stored
<1>11. Store!Grounded(db)'
    BY <1>1, <1>2, <1>4, GroundedUnion
<1>12. NamesAreUnique'
    <2>1. \A t \in Sessions : pending'[t] \subseteq pending[t]
        BY <1>5
    <2> QED
        BY <1>1, <1>2, <2>1, NamesCommitted
<1>13. DocumentsAreOwn'
    <2>1. \A t \in Sessions : Storing(ses'[t]) => Storing(ses[t]) /\ ses'[t].doc = ses[t].doc
        BY <1>5
    <2> QED
        BY <2>1, OwnKept
<1>14. Born'
    BY <1>2, <1>3, <1>9 DEF Born, GoesOn
<1>15. GraphIsAtomic'
    <2> DEFINE whole == UNION {x.rows : x \in completed}
    <2>1. whole' = whole \cup ses[s].rows
        BY <1>2
    <2>2. /\ whole \subseteq db
          /\ GraphRows(db) \ whole \subseteq leftovers
          /\ \A r \in (db \cap leftovers) \ whole : \E a \in births : ses[a.by].kind = "sync"
        BY <1>3 DEF GraphIsAtomic
    <2>3. /\ UNION {x.rows : x \in completed'} = whole' /\ leftovers' = leftovers
          /\ births' = births
        OBVIOUS
    <2> HIDE DEF whole
    <2>4. GraphRows(db') = GraphRows(db) \cup p
        BY <1>2, <1>4 DEF GraphRows
    <2>5. ASSUME NEW r \in (db' \cap leftovers) \ whole'
          PROVE  \E a \in births : ses'[a.by].kind = "sync"
        <3>1. r \in (db \cap leftovers) \ whole
            BY <1>2, <1>4, <2>1
        <3>2. PICK a \in births : ses[a.by].kind = "sync"
            BY <2>2, <3>1
        <3>3. a.by \in Sessions /\ ses[a.by].pc # "idle"
            BY <1>3 DEF Born
        <3> QED
            BY <1>9, <3>2, <3>3 DEF GoesOn
    <2>6. whole' \subseteq db' /\ GraphRows(db') \ whole' \subseteq leftovers
        BY <1>2, <1>4, <2>1, <2>2, <2>4
    <2> QED
        BY <2>3, <2>5, <2>6 DEF GraphIsAtomic
<1>16. FirstStoredIsReused'
    BY <1>3 DEF FirstStoredIsReused
<1>17. \A t \in Sessions : At(t, ses[t], pending[t])'
    BY <1>8, OthersKept
<1>18. (leftovers = GraphRows(leftovers))'
    BY <1>3
<1> QED
    BY <1>6, <1>10, <1>11, <1>12, <1>13, <1>14, <1>15, <1>16, <1>17, <1>18 DEF Inv

(* An enrichment is committed, whatever the request is told. *)
LEMMA KeptGraph ==
    ASSUME Inv, NEW s \in Sessions, ses[s].pc = "save", KeepGraph(s), NEW ok \in BOOLEAN,
           Becomes(s, GraphDone(ses[s], ok), {}),
           UNCHANGED <<graphEnabled, nextId, births, leftovers>>
    PROVE  Inv'
<1>1. PICK r, q : r = ses[s] /\ q = GraphDone(ses[s], ok)
    OBVIOUS
<1>2. At(s, r, pending[s]) /\ Typed
    BY <1>1 DEF Inv
<1>3. IsSession(r)
    BY <1>2 DEF At
<1>4. /\ IsSession(q) /\ SameRequest(q, r) /\ q.report.ids = r.report.ids
      /\ IF r.kind # "enrich" /\ Len(r.report.ids) < Len(r.asked)
         THEN q.pc = "ingest" /\ SameLocals(q, r)
         ELSE q.pc = "answered" /\ q.known = {}
    BY <1>1, <1>3, GraphDoneSession
<1>5. ses' = [ses EXCEPT ![s] = q] /\ pending' = [pending EXCEPT ![s] = {}]
    BY <1>1 DEF Becomes
<1>6. ses'[s] = q /\ pending'[s] = {}
    BY <1>2, <1>5 DEF Typed
<1>7. q.kind = r.kind /\ q.asked = r.asked
    BY <1>4 DEF SameRequest
<1>8. At(s, ses[s], pending[s])'
    <2>1. CASE q.pc = "answered"
        BY <1>4, <1>6, <2>1, AnsweredAt
    <2>2. CASE q.pc = "ingest"
        <3>1. Len(r.report.ids) < Len(r.asked) /\ SameLocals(q, r)
            BY <1>4, <2>2
        <3>2. q.kind = "sync"
            <4>1. Len(r.report.ids) \in Nat /\ Len(r.asked) \in Nat
                BY <1>3 DEF IsSession
            <4>2. r.kind # "sync" => Len(r.report.ids) >= Len(r.asked)
                BY <1>1, <1>2 DEF At, PendingAt, InGraph
            <4> QED
                BY <1>7, <3>1, <4>1, <4>2
        <3>3. q.known \subseteq StoredContents'
            <4>1. r.known \subseteq StoredContents
                BY <1>2 DEF At, Deduplicating
            <4>2. StoredContents \subseteq StoredContents'
                BY DEF KeepGraph, StoredContents, Of
            <4> QED
                BY <3>1, <4>1, <4>2 DEF SameLocals
        <3>4. Supported(ses[s], pending[s])'
            BY <1>6 DEF Supported, Of, Provenance
        <3>5. PICK p : p = {}
            OBVIOUS
        <3>6. p = GraphRows(p) /\ p \subseteq leftovers' /\ pending'[s] = p
            BY <1>6, <3>5 DEF GraphRows
        <3>7. Len(q.report.ids) < Len(q.asked)
            BY <1>4, <1>7, <3>1
        <3> QED
            BY <1>4, <1>6, <2>2, <3>2, <3>3, <3>4, <3>6, <3>7, IngestAt
    <2> QED
        BY <1>4, <2>1, <2>2
<1>9. q.pc # "idle" /\ q.kind = ses[s].kind /\ ~Storing(q)
    BY <1>1, <1>4, <1>7 DEF Storing
<1> QED
    BY <1>5, <1>8, <1>9, KeepGraphInv

(* CommitGraph preserves Inv. *)
LEMMA CommitGraphInv == ASSUME Inv, NEW s \in Sessions, CommitGraph(s) PROVE Inv'
<1>1. /\ ses[s].pc = "save" /\ KeepGraph(s) /\ Becomes(s, GraphDone(ses[s], TRUE), {})
      /\ UNCHANGED <<graphEnabled, nextId, births, leftovers>>
    BY DEF CommitGraph
<1>2. TRUE \in BOOLEAN
    OBVIOUS
<1> QED
    BY <1>1, <1>2, KeptGraph

(* EnrichFails preserves Inv. *)
LEMMA EnrichFailsInv == ASSUME Inv, NEW s \in Sessions, EnrichFails(s) PROVE Inv'
<1>1. /\ InGraph(ses[s]) /\ Becomes(s, GraphDone(ses[s], FALSE), {})
      /\ UNCHANGED <<graphEnabled, nextId, births, leftovers>>
    BY DEF EnrichFails
<1>2. FALSE \in BOOLEAN
    OBVIOUS
<1>3. CASE UNCHANGED <<db, completed>>
    <2>1. ~Commits
        BY <1>1, <1>3 DEF Commits
    <2> QED
        BY <1>1, <2>1, Abandoning
<1>4. CASE ses[s].pc = "save" /\ KeepGraph(s)
    BY <1>1, <1>2, <1>4, KeptGraph
<1> QED
    BY <1>3, <1>4 DEF EnrichFails

(* EnrichBreaks preserves Inv. *)
LEMMA EnrichBreaksInv == ASSUME Inv, NEW s \in Sessions, EnrichBreaks(s) PROVE Inv'
<1>1. /\ ses[s].pc = "extract" \/ AtEdges(ses[s])
      /\ Becomes(s, GraphDone(ses[s], FALSE), pending[s])
      /\ leftovers' = leftovers \cup pending[s]
      /\ graphEnabled' = graphEnabled /\ nextId' = nextId /\ ~Commits
    BY DEF EnrichBreaks, Commits
<1>2. InGraph(ses[s]) /\ Mentioning(ses[s]) = {}
    BY <1>1 DEF InGraph, AtEdges, Mentioning
<1>3. pending[s] = GraphRows(pending[s])
    <2>1. PendingAt(s, ses[s], pending[s])
        BY DEF Inv, At
    <2> QED
        BY <1>1, <2>1 DEF PendingAt, Enriching, AtEdges
<1> QED
    BY <1>1, <1>2, <1>3, Abandoning

(* DeadlockVictim preserves Inv. *)
LEMMA DeadlockVictimInv == ASSUME Inv, NEW s \in Sessions, DeadlockVictim(s) PROVE Inv'
<1>1. /\ Becomes(s, GraphDone(ses[s], FALSE), {})
      /\ graphEnabled' = graphEnabled /\ nextId' = nextId /\ ~Commits /\ leftovers' = leftovers
    BY DEF DeadlockVictim, Commits, HistoryUnchanged
<1>2. InGraph(ses[s])
    BY DEF DeadlockVictim, Holders, InGraph
<1> QED
    BY <1>1, <1>2, Abandoning
-----------------------------------------------------------------------------
(* The statements of an enrichment. *)

(* What a session holds while it enriches a document. *)
Enrichment(s, r, p) ==
    /\ IsSession(r) /\ r.pc \in Enriching
    /\ p = GraphRows(p) /\ p \subseteq r.rows /\ r.rows \subseteq db \cup p
    /\ \A k \in Provenance(p) : k[1] = r.doc
    /\ \E x \in Documents : x.id = r.doc
    /\ r.kind = "sync" => \E b \in births : b.by = s
    /\ r.kind # "sync" => Len(r.report.ids) >= Len(r.asked)
    /\ r.known \subseteq StoredContents
    /\ Supported(r, p) /\ Resolving(r, p)

(* What Inv says of a session that enriches. *)
LEMMA EnrichHolds ==
    ASSUME Inv, NEW s \in Sessions, ses[s].pc \in Enriching
    PROVE  Enrichment(s, ses[s], pending[s])
<1>1. At(s, ses[s], pending[s])
    BY DEF Inv
<1>2. InGraph(ses[s])
    BY DEF InGraph, Enriching
<1> QED
    BY <1>1, <1>2 DEF At, PendingAt, Deduplicating, Enrichment

(* It is all that Inv says of such a session. *)
LEMMA EnrichmentAt ==
    ASSUME NEW s \in Sessions, Enrichment(s, ses[s], pending[s])'
    PROVE  At(s, ses[s], pending[s])'
<1>1. (ses[s].pc \in Enriching /\ ses[s].pc \notin Ingesting
       /\ ses[s].pc \notin {"idle", "answered", "graph"} /\ ~Storing(ses[s]))'
    BY DEF Enrichment, Enriching, Ingesting, Storing
<1>2. PendingAt(s, ses[s], pending[s])'
    BY <1>1 DEF Enrichment, PendingAt, Enriching, Ingesting, InGraph
<1>3. (Fresh(ses[s]) /\ Deduplicating(s, ses[s]))'
    BY <1>1 DEF Fresh, Deduplicating, Enrichment
<1> QED
    BY <1>2, <1>3 DEF At, Enrichment

(* A step of an enrichment that does not end it. *)
LEMMA Stating ==
    ASSUME Inv, NEW s \in Sessions, NEW q, NEW p,
           Becomes(s, q, p), q.pc \in Enriching, q.kind = ses[s].kind,
           UNCHANGED <<graphEnabled, db, nextId>>, HistoryUnchanged,
           Enrichment(s, q, p), NamesAreUnique'
    PROVE  Inv'
<1>1. q.pc # "answered" /\ q.pc # "idle" /\ ~Storing(q)
    BY DEF Enriching, Storing
<1>2. ses' = [ses EXCEPT ![s] = q] /\ pending' = [pending EXCEPT ![s] = p]
    BY <1>1 DEF Becomes
<1>3. /\ ses'[s] = q /\ pending'[s] = p /\ nextId \in Nat
      /\ \A t \in Sessions \ {s} : ses'[t] = ses[t]
    BY <1>2 DEF Inv, Typed
<1>4. db' = db /\ births' = births /\ ~Commits /\ nextId' = nextId /\ leftovers' = leftovers
      /\ graphEnabled' = graphEnabled
    BY DEF HistoryUnchanged, Commits
<1>5. Enrichment(s, ses[s], pending[s])'
    <2>1. Supported(ses[s], pending[s])'
        BY <1>3, <1>4 DEF Enrichment, Supported
    <2>2. Resolving(ses[s], pending[s])'
        BY <1>3, <1>4 DEF Enrichment, Resolving
    <2>3. Documents' = Documents /\ StoredContents' = StoredContents
        BY <1>4 DEF Documents, StoredContents
    <2> QED
        BY <1>3, <1>4, <2>1, <2>2, <2>3 DEF Enrichment
<1>6. At(s, ses[s], pending[s])'
    BY <1>5, EnrichmentAt
<1>7. DocumentsAreOwn'
    <2>1. \A t \in Sessions : Storing(ses'[t]) => Storing(ses[t]) /\ ses'[t].doc = ses[t].doc
        BY <1>1, <1>3
    <2> QED
        BY <2>1, OwnKept
<1>8. nextId' \in Nat /\ nextId <= nextId'
    BY <1>3, <1>4
<1> QED
    BY <1>1, <1>2, <1>4, <1>6, <1>7, <1>8, Uncommitted

(* One that flushes no row. *)
LEMMA Looking ==
    ASSUME Inv, NEW s \in Sessions, NEW q,
           Becomes(s, q, pending[s]), q.pc \in Enriching, q.kind = ses[s].kind,
           UNCHANGED <<graphEnabled, db, nextId>>, HistoryUnchanged,
           Enrichment(s, q, pending[s])
    PROVE  Inv'
<1>1. PICK p : p = pending[s]
    OBVIOUS
<1>2. \A t \in Sessions : pending'[t] \subseteq pending[t]
    BY DEF Inv, Typed, Becomes
<1>3. NamesAreUnique'
    BY <1>2, NamesKept
<1> QED
    BY <1>1, <1>3, Stating

(* ReadDocument preserves Inv. *)
LEMMA ReadDocumentInv == ASSUME Inv, NEW s \in Sessions, ReadDocument(s) PROVE Inv'
<1>1. PICK r, p : r = ses[s] /\ p = pending[s]
    OBVIOUS
<1>2. At(s, r, p) /\ r.pc = "graph"
    BY <1>1 DEF Inv, ReadDocument
<1>3. p = {} /\ IsSession(r)
    BY <1>2 DEF At, PendingAt
<1>4. /\ UNCHANGED <<graphEnabled, db, nextId>> /\ HistoryUnchanged /\ ~Commits
      /\ nextId' = nextId /\ graphEnabled' = graphEnabled /\ leftovers' = leftovers
    BY DEF ReadDocument, HistoryUnchanged, Commits
<1>5. CASE \E x \in Of(Visible(s), "document") : x.id = ses[s].doc
    <2>1. PICK q : q = [r EXCEPT !.pc = "extract", !.chunk = 1, !.rows = {}]
        OBVIOUS
    <2>2. q = [pc |-> "extract", kind |-> r.kind, enrich |-> r.enrich, asked |-> r.asked,
               known |-> r.known, doc |-> r.doc, chunk |-> 1, queue |-> r.queue,
               named |-> r.named, rows |-> {}, report |-> r.report, answer |-> r.answer]
        BY <1>3, <2>1 DEF IsSession
    <2>3. /\ IsSession(q) /\ q.pc = "extract" /\ q.kind = r.kind /\ q.doc = r.doc
          /\ q.rows = {} /\ q.report = r.report /\ q.asked = r.asked /\ q.known = r.known
        BY <1>3, <2>2 DEF IsSession, Enriching
    <2>4. Becomes(s, q, pending[s])
        BY <1>1, <1>5, <2>1 DEF ReadDocument
    <2>5. \E x \in Documents : x.id = q.doc
        BY <1>1, <1>3, <1>5, <2>3 DEF Visible, Documents
    <2>6. Supported(q, p) /\ Resolving(q, p)
        BY <1>3, <2>3 DEF Supported, Resolving, Of, Provenance
    <2>7. InGraph(r) /\ q.pc \in Enriching /\ q.kind = ses[s].kind
        BY <1>1, <1>2, <2>3 DEF InGraph, Enriching
    <2>8. /\ r.kind = "sync" => \E b \in births : b.by = s
          /\ r.kind # "sync" => Len(r.report.ids) >= Len(r.asked)
          /\ r.known \subseteq StoredContents
        BY <1>2, <2>7 DEF At, PendingAt, Deduplicating
    <2>9. p = GraphRows(p) /\ Provenance(p) = {}
        BY <1>3 DEF GraphRows, Provenance, Of
    <2>10. Enrichment(s, q, p)
        BY <1>3, <2>3, <2>5, <2>6, <2>7, <2>8, <2>9 DEF Enrichment
    <2> QED
        BY <1>1, <1>3, <1>4, <2>3, <2>4, <2>7, <2>10, Looking
<1>6. CASE ~ \E x \in Of(Visible(s), "document") : x.id = ses[s].doc
    <2>1. Becomes(s, Answered(ses[s], "knowledge_document_not_found"), pending[s])
        BY <1>6 DEF ReadDocument
    <2> QED
        BY <1>4, <2>1, Answering
<1> QED
    BY <1>5, <1>6
(* The statements EntityItems makes are well formed. *)
LEMMA EntityItemsQueued ==
    ASSUME NEW names, names \in Seq({names[j] : j \in DOMAIN names})
    PROVE  LET q == EntityItems(names)
           IN  /\ IsSeq(q) /\ Len(q) >= 1 /\ q[Len(q)].kind = "edges"
               /\ \A i \in 1..Len(q) - 1 :
                    /\ q[i].kind \in {"entity", "mention"}
                    /\ q[i].kind = "mention" => q[i + 1].kind \in {"entity", "edges"}
                    /\ q[i].kind = "entity" =>
                            q[i + 1].kind = "mention" /\ q[i + 1].name = q[i].name
               /\ q[1].kind # "mention"
<1> DEFINE L == Len(names)
           item(i) == IF i > 2 * L THEN [kind |-> "edges"]
                      ELSE [kind |-> IF i % 2 = 1 THEN "entity" ELSE "mention",
                            name |-> names[(i + 1) \div 2]]
<1>1. PICK q : q = EntityItems(names)
    OBVIOUS
<1>2. L \in Nat
    OBVIOUS
<1>3. q = [i \in 1..2 * L + 1 |-> item(i)]
    BY <1>1 DEF EntityItems
<1> HIDE DEF L
<1>4. /\ DOMAIN q = 1..2 * L + 1
      /\ \A i \in 1..2 * L + 1 : q[i] = item(i)
    BY <1>3
<1>5. /\ IsSeq(q) /\ Len(q) = 2 * L + 1
    <2>1. \A i \in 1..2 * L + 1 : item(i) \in {q[j] : j \in DOMAIN q}
        BY <1>4
    <2>2. 2 * L + 1 \in Nat
        BY <1>2
    <2> HIDE DEF item
    <2>3. q \in [1..2 * L + 1 -> {q[j] : j \in DOMAIN q}]
        BY <1>3, <2>1
    <2>4. q \in Seq({q[j] : j \in DOMAIN q})
        <3>1. PICK n, S : n = 2 * L + 1 /\ S = {q[j] : j \in DOMAIN q}
            OBVIOUS
        <3>2. n \in Nat /\ q \in [1..n -> S]
            BY <2>2, <2>3, <3>1
        <3>3. q \in Seq(S)
            BY <3>2
        <3> QED
            BY <3>1, <3>3
    <2>5. Len(q) = 2 * L + 1
        BY <1>4, <2>2, <2>4
    <2> QED
        BY <2>4, <2>5 DEF IsSeq
<1>6. q[2 * L + 1].kind = "edges"
    BY <1>2, <1>4
<1>7. \A i \in 1..2 * L :
          /\ q[i].kind = IF i % 2 = 1 THEN "entity" ELSE "mention"
          /\ q[i].name = names[(i + 1) \div 2]
    BY <1>2, <1>4
<1>8. ASSUME NEW i \in 1..2 * L
      PROVE  /\ q[i].kind \in {"entity", "mention"}
             /\ q[i].kind = "mention" => q[i + 1].kind \in {"entity", "edges"}
             /\ q[i].kind = "entity" => q[i + 1].kind = "mention" /\ q[i + 1].name = q[i].name
    <2>1. i \in Nat
        OBVIOUS
    <2>2. CASE i % 2 = 1
        <3>1. i + 1 \in 1..2 * L /\ (i + 1) % 2 = 0 /\ ((i + 1) + 1) \div 2 = (i + 1) \div 2
            BY <1>2, <2>1, <2>2
        <3>2. q[i].kind = "entity" /\ q[i].name = names[(i + 1) \div 2]
            BY <1>7, <2>2
        <3>3. q[i + 1].kind = "mention" /\ q[i + 1].name = names[((i + 1) + 1) \div 2]
            BY SMTT(30), <1>7, <3>1
        <3> QED
            BY <3>1, <3>2, <3>3
    <2>3. CASE i % 2 # 1
        <3>1. q[i].kind = "mention"
            BY <1>7, <2>3
        <3>2. CASE i = 2 * L
            BY <1>6, <3>1, <3>2
        <3>3. CASE i # 2 * L
            <4>1. i + 1 \in 1..2 * L /\ (i + 1) % 2 = 1
                BY <1>2, <2>1, <2>3, <3>3
            <4>2. q[i + 1].kind = "entity"
                BY <1>7, <4>1
            <4> QED
                BY <3>1, <4>2
        <3> QED
            BY <3>2, <3>3
    <2> QED
        BY <2>2, <2>3
<1>9. q[1].kind # "mention"
    <2>1. CASE L = 0
        BY <1>6, <2>1
    <2>2. CASE L # 0
        <3>1. 1 \in 1..2 * L /\ 1 % 2 = 1
            BY <1>2, <2>2
        <3> QED
            BY <1>7, <3>1
    <2> QED
        BY <2>1, <2>2
<1>10. Len(q) >= 1 /\ Len(q) - 1 = 2 * L
    BY <1>2, <1>5
<1> QED
    BY <1>1, <1>5, <1>6, <1>8, <1>9, <1>10

(* The statements left after the first. *)
LEMMA QueueTail ==
    ASSUME NEW q, IsSeq(q), Len(q) >= 2
    PROVE  /\ IsSeq(Tail(q)) /\ Len(Tail(q)) = Len(q) - 1 /\ Len(q) \in Nat
           /\ \A i \in 1..Len(q) - 1 : Tail(q)[i] = q[i + 1]
           /\ Head(q) = q[1] /\ Head(Tail(q)) = q[2]
<1>1. q \in Seq({q[i] : i \in DOMAIN q}) /\ Len(q) \in Nat /\ q # <<>>
    BY DEF IsSeq
<1>2. PICK t : t = Tail(q)
    OBVIOUS
<1>3. /\ t \in Seq({q[i] : i \in DOMAIN q}) /\ Len(t) = Len(q) - 1 /\ Head(q) = q[1]
      /\ \A i \in 1..Len(q) - 1 : t[i] = q[i + 1]
    BY <1>1, <1>2
<1>4. t # <<>> /\ Head(t) = t[1] /\ t[1] = q[2]
    BY <1>1, <1>3
<1>5. IsSeq(t)
    <2>1. DOMAIN t = 1..Len(t) /\ Len(t) \in Nat
        BY <1>1, <1>3
    <2>2. t \in [1..Len(t) -> {t[i] : i \in DOMAIN t}]
        BY <1>3, <2>1
    <2> QED
        BY <2>1, <2>2 DEF IsSeq
<1> QED
    BY <1>1, <1>2, <1>3, <1>4, <1>5

(* ExtractEntities preserves Inv. *)
LEMMA ExtractEntitiesInv == ASSUME Inv, NEW s \in Sessions, ExtractEntities(s) PROVE Inv'
<1>1. PICK r, p : r = ses[s] /\ p = pending[s]
    OBVIOUS
<1>2. r.pc = "extract" /\ r.pc \in Enriching
    BY <1>1 DEF ExtractEntities, Enriching
<1>3. Enrichment(s, r, p)
    BY <1>1, <1>2, EnrichHolds
<1>4. UNCHANGED <<graphEnabled, db, nextId>> /\ HistoryUnchanged
    BY DEF ExtractEntities
<1>5. IsSession(r) /\ Supported(r, p) /\ Mentioning(r) = {}
    BY <1>2, <1>3 DEF Enrichment, Mentioning
<1>6. CASE Becomes(s, [r EXCEPT !.pc = "save"], pending[s])
    <2>1. PICK q : q = [r EXCEPT !.pc = "save"]
        OBVIOUS
    <2>2. /\ IsSession(q) /\ q.pc = "save" /\ SameRequest(q, r) /\ SameLocals(q, r)
          /\ q.doc = r.doc /\ q.report = r.report
        BY <1>5, <2>1, MovedSession
    <2>3. q.kind = ses[s].kind /\ q.pc \in Enriching
        BY <1>1, <2>2 DEF SameRequest, Enriching
    <2>4. Supported(q, p) /\ Resolving(q, p)
        BY <1>5, <2>2 DEF Supported, Resolving
    <2>5. Enrichment(s, q, p)
        BY <1>3, <2>2, <2>3, <2>4 DEF Enrichment, SameRequest, SameLocals
    <2> QED
        BY <1>1, <1>4, <1>6, <2>1, <2>3, <2>5, Looking
<1>7. CASE /\ ChunkRow(r.doc, r.chunk) \in db
           /\ \E names \in Extractions[(CHOOSE x \in Of(db, "document") :
                                            x.id = r.doc).content][r.chunk] :
                Becomes(s, [r EXCEPT !.pc = "select", !.named = <<>>,
                                     !.queue = EntityItems(names)], pending[s])
    <2>1. PICK x : x = CHOOSE y \in Documents : y.id = r.doc
        OBVIOUS
    <2>2. PICK names \in Extractions[x.content][r.chunk] :
              Becomes(s, [r EXCEPT !.pc = "select", !.named = <<>>,
                                   !.queue = EntityItems(names)], pending[s])
        BY <1>7, <2>1 DEF Documents
    <2>3. x \in Documents /\ x.id = r.doc
        BY <1>3, <2>1 DEF Enrichment
    <2>4. x.content \in Contents /\ r.chunk \in 1..ChunkCount[x.content]
        <3>1. PICK c : c = ChunkRow(r.doc, r.chunk)
            OBVIOUS
        <3>2. c.document = r.doc /\ c.index = r.chunk /\ c.table = "chunk"
            BY <3>1 DEF ChunkRow
        <3>3. c \in Of(db, "chunk")
            BY <1>7, <3>1, <3>2 DEF Of
        <3>4. PICK y \in Documents : y.id = r.doc /\ r.chunk \in 1..ChunkCount[y.content]
            BY <3>2, <3>3 DEF Inv, Stored
        <3> QED
            BY <2>3, <3>4 DEF Inv, Stored
    <2>5. names \in Seq({names[j] : j \in DOMAIN names})
        BY <2>4, ExtractionsAssumption
    <2>6. PICK queue : queue = EntityItems(names)
        OBVIOUS
    <2>7. /\ IsSeq(queue) /\ Len(queue) >= 1 /\ queue[Len(queue)].kind = "edges"
          /\ \A i \in 1..Len(queue) - 1 :
                /\ queue[i].kind \in {"entity", "mention"}
                /\ queue[i].kind = "mention" => queue[i + 1].kind \in {"entity", "edges"}
                /\ queue[i].kind = "entity" =>
                        queue[i + 1].kind = "mention" /\ queue[i + 1].name = queue[i].name
          /\ queue[1].kind # "mention"
        BY <2>5, <2>6, EntityItemsQueued
    <2>8. PICK q : q = [r EXCEPT !.pc = "select", !.named = <<>>, !.queue = queue]
        OBVIOUS
    <2>9. q = [pc |-> "select", kind |-> r.kind, enrich |-> r.enrich, asked |-> r.asked,
               known |-> r.known, doc |-> r.doc, chunk |-> r.chunk, queue |-> queue,
               named |-> <<>>, rows |-> r.rows, report |-> r.report, answer |-> r.answer]
        BY <1>5, <2>8 DEF IsSession
    <2>10. /\ IsSession(q) /\ q.pc = "select" /\ q.kind = r.kind /\ q.doc = r.doc
           /\ q.chunk = r.chunk /\ q.rows = r.rows /\ q.report = r.report
           /\ q.asked = r.asked /\ q.known = r.known /\ q.named = <<>> /\ q.queue = queue
        BY <1>5, <2>9 DEF IsSession, Enriching
    <2>11. Head(q.queue) = queue[1]
        BY <2>7, <2>10 DEF IsSeq
    <2>12. Mentioning(q) = {} /\ DOMAIN q.named = {}
        BY <2>7, <2>10, <2>11 DEF Mentioning
    <2>13. Queued(q)
        BY <2>7, <2>10 DEF Queued
    <2>14. Supported(q, p) /\ Resolving(q, p)
        BY <1>5, <1>7, <2>10, <2>12, <2>13 DEF Supported, Resolving
    <2>15. q.kind = ses[s].kind /\ q.pc \in Enriching
        BY <1>1, <2>10 DEF Enriching
    <2>16. Enrichment(s, q, p)
        BY <1>3, <2>10, <2>14, <2>15 DEF Enrichment
    <2>17. Becomes(s, q, pending[s])
        BY <2>2, <2>6, <2>8
    <2> QED
        BY <1>1, <1>4, <2>15, <2>16, <2>17, Looking
<1> QED
    BY <1>1, <1>6, <1>7 DEF ExtractEntities

(* A session that goes on to the next chunk. *)
LEMMA NextChunkSession ==
    ASSUME NEW r, IsSession(r)
    PROVE  LET q == NextChunk(r)
           IN  /\ IsSession(q) /\ q.pc = "extract" /\ q.kind = r.kind /\ q.doc = r.doc
               /\ q.rows = r.rows /\ q.report = r.report /\ q.asked = r.asked
               /\ q.known = r.known /\ q.queue = <<>> /\ q.named = <<>>
               /\ q.enrich = r.enrich /\ q.chunk = r.chunk + 1 /\ q.answer = r.answer
<1>1. PICK q : q = NextChunk(r)
    OBVIOUS
<1>2. q = [pc |-> "extract", kind |-> r.kind, enrich |-> r.enrich, asked |-> r.asked,
           known |-> r.known, doc |-> r.doc, chunk |-> r.chunk + 1, queue |-> <<>>,
           named |-> <<>>, rows |-> r.rows, report |-> r.report, answer |-> r.answer]
    BY <1>1 DEF IsSession, NextChunk
<1>3. /\ q.pc = "extract" /\ q.kind = r.kind /\ q.doc = r.doc
      /\ q.rows = r.rows /\ q.report = r.report /\ q.asked = r.asked
      /\ q.known = r.known /\ q.queue = <<>> /\ q.named = <<>>
      /\ q.enrich = r.enrich /\ q.chunk = r.chunk + 1 /\ q.answer = r.answer
    BY <1>2
<1>4. q.chunk \in Nat
    BY <1>3 DEF IsSession
<1>5. IsSession(q)
    BY <1>2, <1>3, <1>4 DEF IsSession, Enriching
<1> QED
    BY <1>1, <1>3, <1>5

(* ExtractEdges preserves Inv. *)
LEMMA ExtractEdgesInv == ASSUME Inv, NEW s \in Sessions, ExtractEdges(s) PROVE Inv'
<1>1. PICK r, p : r = ses[s] /\ p = pending[s]
    OBVIOUS
<1>2. r.pc = "select" /\ Head(r.queue).kind = "edges" /\ r.pc \in Enriching
    BY <1>1 DEF ExtractEdges, AtEdges, Enriching
<1>3. Enrichment(s, r, p)
    BY <1>1, <1>2, EnrichHolds
<1>4. UNCHANGED <<graphEnabled, db, nextId>> /\ HistoryUnchanged
    BY DEF ExtractEdges
<1>5. IsSession(r) /\ Supported(r, p) /\ Mentioning(r) = {} /\ Resolving(r, p)
    BY <1>2, <1>3 DEF Enrichment, Mentioning
<1>6. CASE Becomes(s, NextChunk(r), pending[s])
    <2>1. PICK q : q = NextChunk(r)
        OBVIOUS
    <2>2. /\ IsSession(q) /\ q.pc = "extract" /\ q.kind = r.kind /\ q.doc = r.doc
          /\ q.rows = r.rows /\ q.report = r.report /\ q.asked = r.asked /\ q.known = r.known
        BY <1>5, <2>1, NextChunkSession
    <2>3. q.kind = ses[s].kind /\ q.pc \in Enriching
        BY <1>1, <2>2 DEF Enriching
    <2>4. Supported(q, p) /\ Resolving(q, p)
        BY <1>5, <2>2 DEF Supported, Resolving
    <2>5. Enrichment(s, q, p)
        BY <1>3, <2>2, <2>3, <2>4 DEF Enrichment
    <2> QED
        BY <1>1, <1>4, <1>6, <2>1, <2>3, <2>5, Looking
<1>7. ASSUME NEW e \in Relations, e[1] # e[2], {e[1], e[2]} \subseteq DOMAIN r.named,
             Becomes(s, [r EXCEPT !.queue = <<[kind |-> "edge", source |-> e[1],
                                               target |-> e[2]]>>], pending[s])
      PROVE  Inv'
    <2>1. PICK item : item = [kind |-> "edge", source |-> e[1], target |-> e[2]]
        OBVIOUS
    <2>2. item.kind = "edge" /\ item.source = e[1] /\ item.target = e[2]
        BY <2>1
    <2>3. PICK queue : queue = <<item>>
        OBVIOUS
    <2>4. /\ IsSeq(queue) /\ Len(queue) = 1 /\ queue[1] = item /\ Head(queue) = item
        BY <2>3 DEF IsSeq
    <2>5. PICK q : q = [r EXCEPT !.queue = queue]
        OBVIOUS
    <2>6. q = [pc |-> r.pc, kind |-> r.kind, enrich |-> r.enrich, asked |-> r.asked,
               known |-> r.known, doc |-> r.doc, chunk |-> r.chunk, queue |-> queue,
               named |-> r.named, rows |-> r.rows, report |-> r.report, answer |-> r.answer]
        BY <1>5, <2>5 DEF IsSession
    <2>7. /\ IsSession(q) /\ q.pc = "select" /\ q.kind = r.kind /\ q.doc = r.doc
          /\ q.chunk = r.chunk /\ q.rows = r.rows /\ q.report = r.report
          /\ q.asked = r.asked /\ q.known = r.known /\ q.named = r.named /\ q.queue = queue
        BY <1>2, <1>5, <2>6 DEF IsSession
    <2>8. Mentioning(q) = {} /\ Queued(q)
        BY <1>7, <2>2, <2>4, <2>7 DEF Mentioning, Queued
    <2>9. Supported(q, p)
        BY <1>5, <2>8 DEF Supported
    <2>10. Resolving(q, p)
        BY <1>2, <1>5, <2>7, <2>8 DEF Resolving
    <2>11. q.kind = ses[s].kind /\ q.pc \in Enriching
        BY <1>1, <2>7 DEF Enriching
    <2>12. Enrichment(s, q, p)
        BY <1>3, <2>7, <2>9, <2>10, <2>11 DEF Enrichment
    <2>13. Becomes(s, q, pending[s])
        BY <1>7, <2>1, <2>3, <2>5
    <2> QED
        BY <1>1, <1>4, <2>11, <2>12, <2>13, Looking
<1> QED
    BY <1>1, <1>6, <1>7 DEF ExtractEdges
(* What a session is once its current statement is done. *)
LEMMA ConsumeSession ==
    ASSUME NEW r, IsSession(r)
    PROVE  LET q == Consume(r)
           IN  /\ IsSession(q) /\ q.kind = r.kind /\ q.doc = r.doc /\ q.rows = r.rows
               /\ q.report = r.report /\ q.asked = r.asked /\ q.known = r.known
               /\ Len(r.queue) = 1 => q.pc = "extract" /\ q.named = <<>>
               /\ Len(r.queue) # 1 =>
                    /\ q.pc = "select" /\ q.queue = Tail(r.queue)
                    /\ q.named = r.named /\ q.chunk = r.chunk
<1>1. CASE Len(r.queue) = 1
    <2>1. PICK q : q = NextChunk(r)
        OBVIOUS
    <2>2. /\ IsSession(q) /\ q.pc = "extract" /\ q.kind = r.kind /\ q.doc = r.doc
          /\ q.rows = r.rows /\ q.report = r.report /\ q.asked = r.asked
          /\ q.known = r.known /\ q.named = <<>>
        BY <2>1, NextChunkSession
    <2>3. Consume(r) = q
        BY <1>1, <2>1 DEF Consume
    <2> QED
        BY <1>1, <2>2, <2>3
<1>2. CASE Len(r.queue) # 1
    <2>1. PICK queue : queue = Tail(r.queue)
        OBVIOUS
    <2>2. PICK q : q = [r EXCEPT !.pc = "select", !.queue = queue]
        OBVIOUS
    <2>3. q = [pc |-> "select", kind |-> r.kind, enrich |-> r.enrich, asked |-> r.asked,
               known |-> r.known, doc |-> r.doc, chunk |-> r.chunk, queue |-> queue,
               named |-> r.named, rows |-> r.rows, report |-> r.report, answer |-> r.answer]
        BY <2>2 DEF IsSession
    <2>4. /\ IsSession(q) /\ q.pc = "select" /\ q.kind = r.kind /\ q.doc = r.doc
          /\ q.chunk = r.chunk /\ q.rows = r.rows /\ q.report = r.report
          /\ q.asked = r.asked /\ q.known = r.known /\ q.named = r.named /\ q.queue = queue
        BY <2>3 DEF IsSession, Enriching
    <2>5. Consume(r) = q
        BY <1>2, <2>1, <2>2 DEF Consume
    <2> QED
        BY <1>2, <2>1, <2>4, <2>5
<1> QED
    BY <1>1, <1>2

(* A session that has one statement less to do. *)
LEMMA ResolvedSession ==
    ASSUME NEW r, IsSession(r), NEW x, NEW q, q = Resolved(r, x)
    PROVE  /\ IsSession(q) /\ q.kind = r.kind /\ q.doc = r.doc /\ q.rows = r.rows \cup {x}
           /\ q.report = r.report /\ q.asked = r.asked /\ q.known = r.known
           /\ Len(r.queue) = 1 => q.pc = "extract"
           /\ Len(r.queue) # 1 =>
                /\ q.pc = "select" /\ q.queue = Tail(r.queue) /\ q.chunk = r.chunk
                /\ q.named = IF x.table # "entity" THEN r.named
                             ELSE [n \in (DOMAIN r.named) \cup {x.name} |->
                                       IF n = x.name THEN x.id ELSE r.named[n]]
<1>1. PICK c : c = Consume(r)
    OBVIOUS
<1>2. /\ IsSession(c) /\ c.kind = r.kind /\ c.doc = r.doc /\ c.rows = r.rows
      /\ c.report = r.report /\ c.asked = r.asked /\ c.known = r.known
      /\ Len(r.queue) = 1 => c.pc = "extract" /\ c.named = <<>>
      /\ Len(r.queue) # 1 =>
            /\ c.pc = "select" /\ c.queue = Tail(r.queue)
            /\ c.named = r.named /\ c.chunk = r.chunk
    BY <1>1, ConsumeSession
<1>3. PICK named, rows :
          /\ named = IF x.table # "entity" THEN c.named
                     ELSE [n \in (DOMAIN c.named) \cup {x.name} |->
                               IF n = x.name THEN x.id ELSE c.named[n]]
          /\ rows = c.rows \cup {x}
    OBVIOUS
<1>4. q = [c EXCEPT !.rows = rows, !.named = named]
    BY <1>1, <1>3 DEF Resolved
<1>5. q = [pc |-> c.pc, kind |-> c.kind, enrich |-> c.enrich, asked |-> c.asked,
           known |-> c.known, doc |-> c.doc, chunk |-> c.chunk, queue |-> c.queue,
           named |-> named, rows |-> rows, report |-> c.report, answer |-> c.answer]
    BY <1>2, <1>4 DEF IsSession
<1>6. /\ IsSession(q) /\ q.pc = c.pc /\ q.kind = c.kind /\ q.doc = c.doc
      /\ q.chunk = c.chunk /\ q.rows = rows /\ q.report = c.report
      /\ q.asked = c.asked /\ q.known = c.known /\ q.named = named /\ q.queue = c.queue
    BY <1>2, <1>5 DEF IsSession
<1> QED
    BY <1>2, <1>3, <1>6

(* Where a session is after a statement. *)
LEMMA ResolvedPlace ==
    ASSUME NEW r, IsSession(r), NEW x, NEW q, q = Resolved(r, x)
    PROVE  q.kind = r.kind /\ q.pc \in {"extract", "select"}
<1>1. /\ IsSession(q) /\ q.kind = r.kind /\ q.doc = r.doc /\ q.rows = r.rows \cup {x}
      /\ q.report = r.report /\ q.asked = r.asked /\ q.known = r.known
      /\ Len(r.queue) = 1 => q.pc = "extract"
      /\ Len(r.queue) # 1 =>
            /\ q.pc = "select" /\ q.queue = Tail(r.queue) /\ q.chunk = r.chunk
            /\ q.named = IF x.table # "entity" THEN r.named
                         ELSE [n \in (DOMAIN r.named) \cup {x.name} |->
                                   IF n = x.name THEN x.id ELSE r.named[n]]
    BY ResolvedSession
<1> QED
    BY <1>1

(* x is the row the current statement of r selects or inserts. *)
Stated(r, x) ==
    LET item == Head(r.queue)
        k == <<r.doc, r.chunk>>
    IN  /\ item.kind = "entity" => x = EntityRow(x.id, item.name)
        /\ item.kind = "mention" => x = MentionRow(r.named[item.name], k)
        /\ item.kind = "edge" => x = EdgeRow(r.named[item.source], r.named[item.target], k)

Named(rows) ==
    /\ \A e \in Of(rows, "entity") : e = EntityRow(e.id, e.name) /\ e.id[2] = e.name
    /\ \A e1, e2 \in Of(rows, "entity") : e1.name = e2.name => e1 = e2

(* What a statement adds to the flushed rows. *)
LEMMA StatedRow ==
    ASSUME NEW r, NEW x, Stated(r, x), Queued(r), Head(r.queue).kind # "edges"
    PROVE  /\ Head(r.queue).kind \in {"entity", "mention", "edge"}
           /\ Head(r.queue).kind = "entity" => x.table = "entity" /\ x.name = Head(r.queue).name
           /\ Head(r.queue).kind = "mention" =>
                /\ x.table = "mention" /\ x.entity = r.named[Head(r.queue).name]
                /\ x.chunk = <<r.doc, r.chunk>>
           /\ Head(r.queue).kind = "edge" =>
                /\ x.table = "relationship" /\ x.source = r.named[Head(r.queue).source]
                /\ x.target = r.named[Head(r.queue).target]
                /\ x.chunk = <<r.doc, r.chunk>>
<1>1. PICK item : item = Head(r.queue)
    OBVIOUS
<1>2. item.kind \in {"entity", "mention", "edge"}
    <2>1. IsSeq(r.queue) /\ Len(r.queue) >= 1
        BY DEF Queued
    <2>2. Len(r.queue) \in Nat /\ Head(r.queue) = r.queue[1]
        BY <2>1 DEF IsSeq
    <2>3. CASE Len(r.queue) = 1
        BY <1>1, <2>2, <2>3 DEF Queued
    <2>4. CASE Len(r.queue) # 1
        <3>1. 1 \in 1..Len(r.queue) - 1
            <4>1. PICK n : n = Len(r.queue)
                OBVIOUS
            <4>2. n \in Nat /\ n >= 1 /\ n # 1
                BY <2>1, <2>2, <2>4, <4>1
            <4>3. 1 \in 1..n - 1
                BY <4>2
            <4> QED
                BY <4>1, <4>3
        <3> QED
            BY <1>1, <2>2, <2>4, <3>1 DEF Queued
    <2> QED
        BY <2>3, <2>4
<1>3. CASE item.kind = "entity"
    BY <1>1, <1>3 DEF Stated, EntityRow
<1>4. CASE item.kind = "mention"
    BY <1>1, <1>4 DEF Stated, MentionRow
<1>5. CASE item.kind = "edge"
    BY <1>1, <1>5 DEF Stated, EdgeRow
<1> QED
    BY <1>1, <1>2, <1>3, <1>4, <1>5

(* The queue after an entity or a mention. *)
LEMMA QueueGoesOn ==
    ASSUME NEW r, Queued(r), Head(r.queue).kind \in {"entity", "mention"},
           NEW q, q.queue = Tail(r.queue),
           Head(r.queue).kind = "entity" => Head(r.queue).name \in DOMAIN q.named
    PROVE  /\ Len(r.queue) # 1
           /\ Queued(q)
           /\ Head(r.queue).kind = "entity" =>
                Head(q.queue).kind = "mention" /\ Head(q.queue).name = Head(r.queue).name
           /\ Head(r.queue).kind = "mention" => Head(q.queue).kind \in {"entity", "edges"}
<1>1. PICK u, t : u = r.queue /\ t = Tail(r.queue)
    OBVIOUS
<1>2. IsSeq(u) /\ Len(u) \in Nat /\ Len(u) >= 1 /\ Head(u) = u[1]
    BY <1>1 DEF Queued, IsSeq
<1>3. /\ u[Len(u)].kind = "edges"
      /\ \A i \in 1..Len(u) - 1 :
            /\ u[i].kind \in {"entity", "mention"}
            /\ u[i].kind = "mention" => u[i + 1].kind \in {"entity", "edges"}
            /\ u[i].kind = "entity" => u[i + 1].kind = "mention" /\ u[i + 1].name = u[i].name
    BY <1>1, <1>2 DEF Queued
<1>4. Len(u) >= 2
    BY <1>1, <1>2, <1>3
<1>5. /\ IsSeq(t) /\ Len(t) = Len(u) - 1 /\ Head(t) = u[2]
      /\ \A i \in 1..Len(u) - 1 : t[i] = u[i + 1]
    BY <1>1, <1>2, <1>4, QueueTail
<1>6. Len(t) >= 1 /\ t[1] = u[2] /\ t[Len(t)].kind = "edges"
    <2>1. 1 \in 1..Len(u) - 1 /\ Len(u) - 1 \in 1..Len(u) - 1 /\ (Len(u) - 1) + 1 = Len(u)
          /\ 1 + 1 = 2
        BY <1>2, <1>4
    <2> QED
        BY <1>3, <1>5, <2>1
<1>7. ASSUME NEW i \in 1..Len(t) - 1
      PROVE  /\ t[i].kind \in {"entity", "mention"}
             /\ t[i].kind = "mention" => t[i + 1].kind \in {"entity", "edges"}
             /\ t[i].kind = "entity" => t[i + 1].kind = "mention" /\ t[i + 1].name = t[i].name
    <2>1. i \in 1..Len(u) - 1 /\ i + 1 \in 1..Len(u) - 1
        BY <1>2, <1>5
    <2>2. t[i] = u[i + 1] /\ t[i + 1] = u[(i + 1) + 1]
        BY <1>5, <2>1
    <2> QED
        BY <1>3, <2>1, <2>2
<1>8. /\ u[1].kind = "entity" => u[2].kind = "mention" /\ u[2].name = u[1].name
      /\ u[1].kind = "mention" => u[2].kind \in {"entity", "edges"}
    <2>1. 1 \in 1..Len(u) - 1 /\ 1 + 1 = 2
        BY <1>2, <1>4
    <2> QED
        BY <1>3, <2>1
<1>9. t[1].kind = "mention" => t[1].name \in DOMAIN q.named
    BY <1>1, <1>2, <1>6, <1>8
<1>10. Queued(q)
    BY <1>1, <1>5, <1>6, <1>7, <1>9 DEF Queued
<1> QED
    BY <1>1, <1>2, <1>4, <1>5, <1>8, <1>10
(* The statement is done: p2 is what is flushed then. *)
LEMMA ResolvedEnrichment ==
    ASSUME NEW s, NEW r, NEW p, NEW x, NEW p2, NEW q, q = Resolved(r, x),
           Enrichment(s, r, p), r.pc \in {"select", "insert"}, Head(r.queue).kind # "edges",
           Stated(r, x), p2 = p \/ p2 = p \cup {x}, x \in db \cup p2, Named(db \cup p2)
    PROVE  Enrichment(s, q, p2)
<1>1. PICK item, k : item = Head(r.queue) /\ k = <<r.doc, r.chunk>>
    OBVIOUS
<1>2. IsSession(r) /\ Supported(r, p) /\ Resolving(r, p)
    BY DEF Enrichment
<1>3. /\ ChunkRow(r.doc, r.chunk) \in db /\ Queued(r)
      /\ \A n \in DOMAIN r.named : EntityRow(r.named[n], n) \in db \cup p
      /\ \A n \in (DOMAIN r.named) \ Mentioning(r) : MentionRow(r.named[n], k) \in db \cup p
    BY <1>1, <1>2 DEF Resolving
<1>4. /\ IsSession(q) /\ q.kind = r.kind /\ q.doc = r.doc /\ q.rows = r.rows \cup {x}
      /\ q.report = r.report /\ q.asked = r.asked /\ q.known = r.known
      /\ Len(r.queue) = 1 => q.pc = "extract"
      /\ Len(r.queue) # 1 =>
            /\ q.pc = "select" /\ q.queue = Tail(r.queue) /\ q.chunk = r.chunk
            /\ q.named = IF x.table # "entity" THEN r.named
                         ELSE [n \in (DOMAIN r.named) \cup {x.name} |->
                                   IF n = x.name THEN x.id ELSE r.named[n]]
    BY <1>2, ResolvedSession
<1>5. /\ item.kind \in {"entity", "mention", "edge"}
      /\ item.kind = "entity" => x.table = "entity" /\ x.name = item.name
      /\ item.kind = "mention" =>
            x.table = "mention" /\ x.entity = r.named[item.name] /\ x.chunk = k
      /\ item.kind = "edge" =>
            /\ x.table = "relationship" /\ x.source = r.named[item.source]
            /\ x.target = r.named[item.target] /\ x.chunk = k
    BY <1>1, <1>3, StatedRow
<1>6. x.table \in {"entity", "mention", "relationship"}
    BY <1>5
<1>7. k[1] = r.doc /\ k[2] = r.chunk
    BY <1>1
<1>8. p \subseteq p2 /\ p2 \subseteq p \cup {x}
    OBVIOUS
<1>9. /\ p2 = GraphRows(p2) /\ p2 \subseteq q.rows /\ q.rows \subseteq db \cup p2
    BY <1>4, <1>6, <1>8 DEF Enrichment, GraphRows
<1>10. \A j \in Provenance(p2) : j[1] = q.doc /\ ChunkRow(j[1], j[2]) \in db
    <2> SUFFICES ASSUME NEW j \in Provenance(p2)
                 PROVE  j[1] = q.doc /\ ChunkRow(j[1], j[2]) \in db
        OBVIOUS
    <2>1. PICK g \in p2 : g.chunk = j /\ g.table \in {"mention", "relationship"}
        BY DEF Provenance, Of
    <2>2. CASE g \in p
        <3>1. j \in Provenance(p)
            BY <2>1, <2>2 DEF Provenance, Of
        <3> QED
            BY <1>2, <1>4, <3>1 DEF Enrichment, Supported
    <2>3. CASE g = x
        <3>1. j = k
            BY <1>5, <2>1, <2>3
        <3> QED
            BY <1>3, <1>4, <1>7, <3>1
    <2> QED
        BY <1>8, <2>2, <2>3
<1>11. q.pc \in Enriching
    BY <1>4 DEF Enriching
<1>12. \A t : Of(db \cup p, t) \subseteq Of(db \cup p2, t)
    BY <1>8 DEF Of
<1>13. ASSUME NEW e \in Of(p, "entity")
       PROVE  \/ \E m \in Of(db \cup p2, "mention") : m.entity = e.id
              \/ e.name \in Mentioning(r)
    BY <1>2, <1>12 DEF Supported
<1>14. \A n \in DOMAIN r.named :
           /\ r.named[n][2] = n /\ EntityRow(r.named[n], n) \in Of(db \cup p2, "entity")
    <2> SUFFICES ASSUME NEW n \in DOMAIN r.named
                 PROVE  /\ r.named[n][2] = n
                        /\ EntityRow(r.named[n], n) \in Of(db \cup p2, "entity")
        OBVIOUS
    <2>1. PICK e : e = EntityRow(r.named[n], n)
        OBVIOUS
    <2>2. e.table = "entity" /\ e.id = r.named[n] /\ e.name = n
        BY <2>1 DEF EntityRow
    <2>3. e \in Of(db \cup p2, "entity")
        BY <1>3, <1>8, <2>1, <2>2 DEF Of
    <2> QED
        BY <2>1, <2>2, <2>3 DEF Named
<1>15. /\ IsSeq(r.queue) /\ Len(r.queue) >= 1 /\ item = r.queue[1]
    BY <1>1, <1>3 DEF Queued, IsSeq
<1>16. /\ \A m \in Of(p, "mention") : \E e \in Of(db \cup p2, "entity") : e.id = m.entity
       /\ \A g \in Of(p, "relationship") :
            /\ g.source # g.target
            /\ {MentionRow(g.source, g.chunk), MentionRow(g.target, g.chunk)}
                    \subseteq db \cup p2
    <2>1. db \cup p \subseteq db \cup p2
        BY <1>8
    <2> QED
        BY <1>2, <1>12, <2>1 DEF Supported
<1>17. ASSUME item.kind = "entity" PROVE Supported(q, p2) /\ Resolving(q, p2)
    <2>1. /\ Len(r.queue) # 1 /\ Queued(q) /\ q.pc = "select" /\ q.queue = Tail(r.queue)
          /\ q.chunk = r.chunk
          /\ q.named = [n \in (DOMAIN r.named) \cup {x.name} |->
                            IF n = x.name THEN x.id ELSE r.named[n]]
          /\ Head(q.queue).kind = "mention" /\ Head(q.queue).name = item.name
        <3>1. Len(r.queue) # 1
            BY <1>1, <1>3, <1>15, <1>17 DEF Queued
        <3>2. /\ q.queue = Tail(r.queue) /\ q.pc = "select" /\ q.chunk = r.chunk
              /\ q.named = [n \in (DOMAIN r.named) \cup {x.name} |->
                                IF n = x.name THEN x.id ELSE r.named[n]]
            BY <1>4, <1>5, <1>17, <3>1
        <3>3. item.name \in DOMAIN q.named
            BY <1>5, <1>17, <3>2
        <3> QED
            BY ZenonT(60), <1>1, <1>3, <1>17, <3>1, <3>2, <3>3, QueueGoesOn
    <2>2. Mentioning(q) = {item.name} /\ Mentioning(r) = {}
        BY <1>1, <1>17, <2>1 DEF Mentioning
    <2>3. /\ Of(p2, "mention") = Of(p, "mention")
          /\ Of(p2, "relationship") = Of(p, "relationship")
          /\ Of(p2, "entity") \subseteq Of(p, "entity") \cup {x}
        BY <1>5, <1>8, <1>17 DEF Of
    <2>4. Supported(q, p2)
        BY <1>5, <1>10, <1>13, <1>16, <1>17, <2>2, <2>3 DEF Supported
    <2>5. x = EntityRow(x.id, x.name)
        BY <1>1, <1>5, <1>17 DEF Stated
    <2>6. ASSUME NEW n \in DOMAIN q.named
          PROVE  /\ EntityRow(q.named[n], n) \in db \cup p2
                 /\ n # item.name => MentionRow(q.named[n], k) \in db \cup p2
        <3>1. CASE n = x.name
            BY <1>5, <1>17, <2>1, <2>5, <3>1
        <3>2. CASE n # x.name
            <4>1. n \in DOMAIN r.named /\ q.named[n] = r.named[n]
                BY <2>1, <3>2
            <4> QED
                BY <1>3, <1>8, <2>2, <4>1
        <3> QED
            BY <3>1, <3>2
    <2>7. Resolving(q, p2)
        BY <1>1, <1>3, <1>4, <2>1, <2>2, <2>6 DEF Resolving
    <2> QED
        BY <2>4, <2>7
<1>18. ASSUME item.kind = "mention" PROVE Supported(q, p2) /\ Resolving(q, p2)
    <2>1. /\ Len(r.queue) # 1 /\ Queued(q) /\ q.pc = "select" /\ q.queue = Tail(r.queue)
          /\ q.chunk = r.chunk /\ q.named = r.named
          /\ Head(q.queue).kind \in {"entity", "edges"}
        <3>1. Len(r.queue) # 1
            BY <1>1, <1>3, <1>15, <1>18 DEF Queued
        <3>2. /\ q.queue = Tail(r.queue) /\ q.pc = "select" /\ q.chunk = r.chunk
              /\ q.named = r.named
            BY <1>4, <1>5, <1>18, <3>1
        <3> QED
            BY <1>1, <1>3, <1>18, <3>1, <3>2, QueueGoesOn
    <2>2. Mentioning(q) = {} /\ Mentioning(r) = {item.name}
        BY <1>1, <1>18, <2>1 DEF Mentioning
    <2>3. item.name \in DOMAIN r.named
        BY <1>3, <1>15, <1>18 DEF Queued
    <2>4. /\ Of(p2, "mention") \subseteq Of(p, "mention") \cup {x}
          /\ Of(p2, "relationship") = Of(p, "relationship")
          /\ Of(p2, "entity") = Of(p, "entity")
          /\ x \in Of(db \cup p2, "mention")
        BY <1>5, <1>8, <1>18 DEF Of
    <2>5. \E e \in Of(db \cup p2, "entity") : e.id = x.entity
        <3>1. PICK e : e = EntityRow(r.named[item.name], item.name)
            OBVIOUS
        <3>2. e.id = r.named[item.name]
            BY <3>1 DEF EntityRow
        <3> QED
            BY <1>5, <1>14, <1>18, <2>3, <3>1, <3>2
    <2>6. ASSUME NEW e \in Of(p, "entity")
          PROVE  \E m \in Of(db \cup p2, "mention") : m.entity = e.id
        <3>1. CASE e.name = item.name
            <4>1. PICK y : y = EntityRow(r.named[item.name], item.name)
                OBVIOUS
            <4>2. y.id = r.named[item.name] /\ y.name = item.name
                BY <4>1 DEF EntityRow
            <4>3. y \in Of(db \cup p2, "entity") /\ e \in Of(db \cup p2, "entity")
                BY <1>8, <1>14, <2>3, <4>1 DEF Of
            <4>4. e = y
                BY <3>1, <4>2, <4>3 DEF Named
            <4> QED
                BY <1>5, <1>18, <2>4, <4>2, <4>4
        <3>2. CASE e.name # item.name
            BY <1>13, <2>2, <3>2
        <3> QED
            BY <3>1, <3>2
    <2>7. Supported(q, p2)
        BY <1>10, <1>16, <2>4, <2>5, <2>6 DEF Supported
    <2>8. x = MentionRow(r.named[item.name], k)
        BY <1>1, <1>18 DEF Stated
    <2>9. ASSUME NEW n \in DOMAIN q.named
          PROVE  /\ EntityRow(q.named[n], n) \in db \cup p2
                 /\ MentionRow(q.named[n], k) \in db \cup p2
        BY <1>3, <1>8, <2>1, <2>2, <2>8
    <2>10. Resolving(q, p2)
        BY <1>1, <1>3, <1>4, <2>1, <2>9 DEF Resolving
    <2> QED
        BY <2>7, <2>10
<1>19. ASSUME item.kind = "edge" PROVE Supported(q, p2) /\ Resolving(q, p2)
    <2>1. /\ Len(r.queue) = 1
          /\ item.source \in DOMAIN r.named /\ item.target \in DOMAIN r.named
          /\ item.source # item.target
        <3>1. Len(r.queue) \in Nat
            BY <1>15 DEF IsSeq
        <3>2. CASE Len(r.queue) = 1
            BY <1>3, <1>15, <1>19, <3>2 DEF Queued
        <3>3. CASE Len(r.queue) # 1
            <4>1. PICK n : n = Len(r.queue)
                OBVIOUS
            <4>2. n \in Nat /\ n >= 1 /\ n # 1
                BY <1>15, <3>1, <3>3, <4>1
            <4>3. 1 \in 1..n - 1
                BY <4>2
            <4> QED
                BY <1>3, <1>15, <1>19, <3>3, <4>1, <4>3 DEF Queued
        <3> QED
            BY <3>2, <3>3
    <2>2. q.pc = "extract"
        BY <1>4, <2>1
    <2>3. Mentioning(q) = {} /\ Mentioning(r) = {}
        BY <1>1, <1>19, <2>2 DEF Mentioning
    <2>4. /\ Of(p2, "mention") = Of(p, "mention")
          /\ Of(p2, "relationship") \subseteq Of(p, "relationship") \cup {x}
          /\ Of(p2, "entity") = Of(p, "entity")
        BY <1>5, <1>8, <1>19 DEF Of
    <2>5. /\ x.source # x.target
          /\ {MentionRow(x.source, x.chunk), MentionRow(x.target, x.chunk)}
                  \subseteq db \cup p2
        BY <1>3, <1>5, <1>8, <1>14, <1>19, <2>1, <2>3
    <2>6. Supported(q, p2)
        <3>1. \A g \in Of(p2, "relationship") :
                  /\ g.source # g.target
                  /\ {MentionRow(g.source, g.chunk), MentionRow(g.target, g.chunk)}
                          \subseteq db \cup p2
            BY <1>16, <2>4, <2>5
        <3> QED
            BY <1>10, <1>13, <1>16, <2>3, <2>4, <3>1 DEF Supported
    <2>7. Resolving(q, p2)
        BY <2>2 DEF Resolving
    <2> QED
        BY <2>6, <2>7
<1>20. Supported(q, p2) /\ Resolving(q, p2)
    BY <1>5, <1>17, <1>18, <1>19
<1> QED
    BY <1>4, <1>9, <1>10, <1>11, <1>20 DEF Enrichment

(* The unique key of an entity is its name. *)
LEMMA EntityKey ==
    ASSUME NEW x
    PROVE  x.table = "entity" => Key(x) = <<"entity", x.name>>
BY DEF Key

(* A row with the key of the current statement is its row. *)
LEMMA RowKey ==
    ASSUME NEW s, NEW x, Key(x) = Key(Row(s)), Queued(ses[s]),
           Head(ses[s].queue).kind \in {"entity", "mention", "edge"},
           x.table = "entity" => x = EntityRow(x.id, x.name)
    PROVE  Stated(ses[s], x)
<1>1. PICK r, item, k, row :
          r = ses[s] /\ item = Head(r.queue) /\ k = <<r.doc, r.chunk>> /\ row = Row(s)
    OBVIOUS
<1>2. CASE item.kind = "entity"
    <2>1. row = EntityRow(<<s, item.name>>, item.name)
        BY <1>1, <1>2 DEF Row
    <2>2. row.table = "entity" /\ row.name = item.name
        BY <2>1 DEF EntityRow
    <2>3. Key(x) = <<"entity", item.name>>
        BY <1>1, <2>2, EntityKey
    <2>4. x.table = "entity"
        BY <2>3 DEF Key
    <2>5. x.name = item.name
        BY <2>3, <2>4, EntityKey
    <2> QED
        BY <1>1, <1>2, <2>4, <2>5 DEF Stated
<1>3. ASSUME row.table \in {"mention", "relationship"} PROVE x = row
    <2>1. Key(row) = <<row.table, row>>
        BY <1>3 DEF Key
    <2>2. Key(x) = <<row.table, row>>
        BY <1>1, <2>1
    <2>3. x.table # "document" /\ x.table # "entity"
        BY <1>3, <2>2 DEF Key
    <2>4. Key(x) = <<x.table, x>>
        BY <2>3 DEF Key
    <2> QED
        BY <2>2, <2>4
<1>4. CASE item.kind = "mention"
    <2>1. row = MentionRow(r.named[item.name], k)
        BY <1>1, <1>4 DEF Row
    <2>2. row.table = "mention"
        BY <2>1 DEF MentionRow
    <2> QED
        BY <1>1, <1>3, <1>4, <2>1, <2>2 DEF Stated
<1>5. CASE item.kind = "edge"
    <2>1. row = EdgeRow(r.named[item.source], r.named[item.target], k)
        BY <1>1, <1>5 DEF Row
    <2>2. row.table = "relationship"
        BY <2>1 DEF EdgeRow
    <2> QED
        BY <1>1, <1>3, <1>5, <2>1, <2>2 DEF Stated
<1> QED
    BY <1>1, <1>2, <1>4, <1>5

(* The statement a session is at. *)
LEMMA StatementHolds ==
    ASSUME Inv, NEW s \in Sessions, ses[s].pc \in {"select", "insert"}, ~AtEdges(ses[s])
    PROVE  /\ Enrichment(s, ses[s], pending[s]) /\ Queued(ses[s])
           /\ Head(ses[s].queue).kind \in {"entity", "mention", "edge"}
           /\ Named(Visible(s))
<1>1. ses[s].pc \in Enriching
    BY DEF Enriching
<1>2. Enrichment(s, ses[s], pending[s])
    BY <1>1, EnrichHolds
<1>3. Queued(ses[s]) /\ Head(ses[s].queue).kind # "edges"
    BY <1>2 DEF Enrichment, Resolving, AtEdges
<1>4. Head(ses[s].queue).kind \in {"entity", "mention", "edge"}
    <2>1. PICK r, n : r = ses[s] /\ n = Len(r.queue)
        OBVIOUS
    <2>2. IsSeq(r.queue) /\ n >= 1
        BY <1>3, <2>1 DEF Queued
    <2>3. n \in Nat /\ Head(r.queue) = r.queue[1]
        BY <2>1, <2>2 DEF IsSeq
    <2>4. CASE n = 1
        BY <1>3, <2>1, <2>3, <2>4 DEF Queued
    <2>5. CASE n # 1
        <3>1. 1 \in 1..n - 1
            BY <2>2, <2>3, <2>5
        <3> QED
            BY <1>3, <2>1, <2>3, <2>5, <3>1 DEF Queued
    <2> QED
        BY <2>1, <2>4, <2>5
<1>5. Named(Visible(s))
    <2>1. Of(Visible(s), "entity") \subseteq Entities
        BY DEF Visible, Entities, AllRows, Of
    <2> QED
        BY <2>1 DEF Inv, NamesAreUnique, Named
<1> QED
    BY <1>2, <1>3, <1>4, <1>5

(* SelectRow preserves Inv. *)
LEMMA SelectRowInv == ASSUME Inv, NEW s \in Sessions, SelectRow(s) PROVE Inv'
<1>1. PICK r, p, item : r = ses[s] /\ p = pending[s] /\ item = Head(r.queue)
    OBVIOUS
<1>2. r.pc = "select" /\ ~AtEdges(r)
    BY <1>1 DEF SelectRow
<1>3. /\ Enrichment(s, r, p) /\ Queued(r) /\ item.kind \in {"entity", "mention", "edge"}
      /\ Named(db \cup p)
    BY <1>1, <1>2, StatementHolds DEF Visible
<1>4. UNCHANGED <<graphEnabled, db, nextId>> /\ HistoryUnchanged
    BY DEF SelectRow
<1>5. IsSession(r) /\ Supported(r, p) /\ Resolving(r, p)
    BY <1>3 DEF Enrichment
<1>6. CASE /\ {x \in Visible(s) : Key(x) = Key(Row(s))} = {}
           /\ Becomes(s, [r EXCEPT !.pc = "insert"], pending[s])
    <2>1. PICK q : q = [r EXCEPT !.pc = "insert"]
        OBVIOUS
    <2>2. /\ IsSession(q) /\ q.pc = "insert" /\ SameRequest(q, r) /\ SameLocals(q, r)
          /\ q.doc = r.doc /\ q.report = r.report
        BY <1>5, <2>1, MovedSession
    <2>3. q.kind = ses[s].kind /\ q.pc \in Enriching
        BY <1>1, <2>2 DEF SameRequest, Enriching
    <2>4. Mentioning(q) = Mentioning(r)
        BY <1>2, <2>2 DEF Mentioning, SameLocals
    <2>5. Supported(q, p)
        BY <1>5, <2>4 DEF Supported
    <2>6. ASSUME item.kind = "entity", NEW e \in Of(p, "entity") PROVE e.name # item.name
        <3>1. PICK row : row = Row(s)
            OBVIOUS
        <3>2. row = EntityRow(<<s, item.name>>, item.name)
            BY <1>1, <2>6, <3>1 DEF Row
        <3>3. row.table = "entity" /\ row.name = item.name
            BY <3>2 DEF EntityRow
        <3>4. Key(row) = <<"entity", item.name>> /\ Key(e) = <<"entity", e.name>>
            BY <2>6, <3>3, EntityKey DEF Of
        <3>5. e \in Visible(s)
            BY <1>1 DEF Visible, Of
        <3> QED
            BY <1>6, <3>1, <3>4, <3>5
    <2>7. Queued(q) /\ q.queue = r.queue /\ q.named = r.named /\ q.chunk = r.chunk
        BY <1>3, <2>2 DEF Queued, SameLocals
    <2>8. Resolving(q, p)
        BY <1>1, <1>2, <1>3, <1>5, <2>2, <2>4, <2>6, <2>7 DEF Resolving
    <2>9. Enrichment(s, q, p)
        BY <1>3, <2>2, <2>3, <2>5, <2>8 DEF Enrichment, SameRequest, SameLocals
    <2> QED
        BY <1>1, <1>4, <1>6, <2>1, <2>3, <2>9, Looking
<1>7. ASSUME NEW x \in Visible(s), Key(x) = Key(Row(s)), Becomes(s, Resolved(r, x), pending[s])
      PROVE  Inv'
    <2>1. PICK q : q = Resolved(r, x)
        OBVIOUS
    <2>2. x.table = "entity" => x = EntityRow(x.id, x.name)
        BY <1>1, <1>3 DEF Named, Of, Visible
    <2>3. Stated(r, x)
        BY <1>1, <1>3, <1>7, <2>2, RowKey
    <2>4. r.pc \in {"select", "insert"} /\ Head(r.queue).kind # "edges" /\ x \in db \cup p
        BY <1>1, <1>2, <1>3 DEF Visible
    <2>5. Enrichment(s, q, p)
        BY <1>3, <2>1, <2>3, <2>4, ResolvedEnrichment
    <2>6. q.pc \in Enriching /\ q.kind = ses[s].kind
        <3>1. q.kind = r.kind
            BY <1>5, <2>1, ResolvedPlace
        <3> QED
            BY <1>1, <2>5, <3>1 DEF Enrichment
    <2> QED
        BY <1>1, <1>4, <1>7, <2>1, <2>5, <2>6, Looking
<1> QED
    BY <1>1, <1>6, <1>7 DEF SelectRow

(* InsertRow preserves Inv. *)
LEMMA InsertRowInv == ASSUME Inv, NEW s \in Sessions, InsertRow(s) PROVE Inv'
<1>1. PICK r, p, item, row :
          r = ses[s] /\ p = pending[s] /\ item = Head(r.queue) /\ row = Row(s)
    OBVIOUS
<1>2. r.pc = "insert" /\ ~AtEdges(r) /\ Holders(s) = {}
    BY <1>1 DEF InsertRow, AtEdges
<1>3. /\ UNCHANGED <<graphEnabled, db, nextId>> /\ HistoryUnchanged /\ ~Commits
      /\ nextId' = nextId /\ graphEnabled' = graphEnabled /\ leftovers' = leftovers
      /\ db' = db
    BY DEF InsertRow, HistoryUnchanged, Commits
<1>4. CASE Key(row) \in Keys(db)
    <2>1. Becomes(s, GraphDone(ses[s], FALSE), {})
        BY <1>1, <1>4 DEF InsertRow
    <2>2. InGraph(ses[s])
        BY <1>1, <1>2 DEF InGraph
    <2> QED
        BY <1>3, <2>1, <2>2, Abandoning
<1>5. CASE Key(row) \notin Keys(db)
    <2>1. PICK q, p2 : q = Resolved(r, row) /\ p2 = p \cup {row}
        OBVIOUS
    <2>2. Becomes(s, q, p2)
        BY <1>1, <1>5, <2>1 DEF InsertRow
    <2>3. /\ Enrichment(s, r, p) /\ Queued(r) /\ item.kind \in {"entity", "mention", "edge"}
        BY <1>1, <1>2, StatementHolds
    <2>4. IsSession(r) /\ Resolving(r, p)
        BY <2>3 DEF Enrichment
    <2>5. item.kind = "entity" =>
              /\ row = EntityRow(<<s, item.name>>, item.name)
              /\ row.table = "entity" /\ row.name = item.name /\ row.id = <<s, item.name>>
        BY <1>1 DEF Row, EntityRow
    <2>6. item.kind # "entity" => row.table # "entity"
        BY <1>1, <2>3 DEF Row, MentionRow, EdgeRow
    <2>7. Stated(r, row)
        <3>1. row.table = "entity" => row = EntityRow(row.id, row.name)
            BY <2>5, <2>6
        <3> QED
            BY <1>1, <2>3, <3>1, RowKey
    <2>8. q.kind = r.kind /\ q.pc # "answered"
        <3>1. q.kind = r.kind /\ q.pc \in {"extract", "select"}
            BY <2>1, <2>4, ResolvedPlace
        <3> QED
            BY <3>1
    <2>9. /\ pending'[s] = p2 /\ \A t \in Sessions \ {s} : pending'[t] = pending[t]
        BY <2>2, <2>8 DEF Becomes, Inv, Typed
    <2>10. NamesAreUnique'
        <3>1. NamesAreUnique
            BY DEF Inv
        <3>2. AllRows' \subseteq AllRows \cup {row}
            BY <1>1, <1>3, <2>1, <2>9 DEF AllRows
        <3>3. CASE item.kind # "entity"
            <4>1. Entities' \subseteq Entities
                BY <2>6, <3>2, <3>3 DEF Entities, Of
            <4> QED
                BY <3>1, <4>1 DEF NamesAreUnique
        <3>4. CASE item.kind = "entity"
            <4>1. Entities' \subseteq Entities \cup {row}
                BY <3>2 DEF Entities, Of
            <4>2. Key(row) = <<"entity", item.name>>
                BY <2>5, <3>4, EntityKey
            <4>3. ASSUME NEW e \in Entities PROVE e.name # item.name
                <5>1. e.table = "entity" /\ e \in AllRows
                    BY DEF Entities, Of
                <5>2. e.name = item.name => Key(e) = Key(row)
                    BY <4>2, <5>1, EntityKey
                <5>3. CASE e \in db
                    BY <1>5, <5>2, <5>3 DEF Keys
                <5>4. CASE e \in p
                    <6>1. e \in Of(p, "entity")
                        BY <5>1, <5>4 DEF Of
                    <6> QED
                        BY <1>1, <1>2, <2>4, <3>4, <6>1 DEF Resolving
                <5>5. ASSUME NEW t \in Sessions \ {s}, e \in pending[t]
                      PROVE  e.name # item.name
                    BY <1>1, <1>2, <5>2, <5>5 DEF Holders, Keys
                <5> QED
                    BY <1>1, <5>1, <5>3, <5>4, <5>5 DEF AllRows
            <4>4. row.id[2] = row.name /\ row = EntityRow(row.id, row.name)
                BY <2>5, <3>4
            <4>5. row.name = item.name
                BY <2>5, <3>4
            <4> QED
                BY <3>1, <4>1, <4>3, <4>4, <4>5 DEF NamesAreUnique
        <3> QED
            BY <3>3, <3>4
    <2>11. Named(db \cup p2)
        <3>1. Of(db \cup p2, "entity") \subseteq Entities'
            BY <1>3, <2>9 DEF Entities, AllRows, Of
        <3> QED
            BY <2>10, <3>1 DEF NamesAreUnique, Named
    <2>12. /\ r.pc \in {"select", "insert"} /\ Head(r.queue).kind # "edges"
           /\ row \in db \cup p2
        BY <1>1, <1>2, <2>1, <2>3
    <2>13. Enrichment(s, q, p2)
        BY <2>1, <2>3, <2>7, <2>11, <2>12, ResolvedEnrichment
    <2>14. q.pc \in Enriching /\ q.kind = ses[s].kind
        BY <1>1, <2>8, <2>13 DEF Enrichment
    <2> QED
        BY <1>3, <2>2, <2>10, <2>13, <2>14, Stating
<1> QED
    BY <1>4, <1>5
-----------------------------------------------------------------------------
(* The process stops. *)
LEMMA CrashInv == ASSUME Inv, Crash PROVE Inv'
<1>1. /\ \A t \in Sessions :
            ses'[t] = IF ses[t].pc \in {"idle", "answered"} THEN ses[t]
                      ELSE Answered(ses[t], "lost")
      /\ \A t \in Sessions : pending'[t] = {}
      /\ db' = db /\ births' = births /\ ~Commits /\ leftovers' = leftovers
      /\ nextId' = nextId /\ graphEnabled' = graphEnabled
    BY DEF Crash, Commits
<1>2. Typed /\ Typed'
    BY DEF Inv, Typed, Crash
<1>3. ASSUME NEW t \in Sessions
      PROVE  /\ IsSession(ses'[t]) /\ ses'[t].pc \in {"idle", "answered"}
             /\ ses[t].pc # "idle" => ses'[t].pc # "idle" /\ ses'[t].kind = ses[t].kind
             /\ ses'[t].known \subseteq StoredContents
    <2>1. IsSession(ses[t]) /\ ses[t].known \subseteq StoredContents
        BY DEF Inv, At, Deduplicating
    <2>2. CASE ses[t].pc \in {"idle", "answered"}
        BY <1>1, <2>1, <2>2
    <2>3. CASE ses[t].pc \notin {"idle", "answered"}
        <3>1. PICK q : q = Answered(ses[t], "lost")
            OBVIOUS
        <3>2. IsSession(q) /\ q.pc = "answered" /\ q.known = {} /\ SameRequest(q, ses[t])
            BY <2>1, <3>1, AnsweredSession
        <3>3. ses'[t] = q
            BY <1>1, <2>3, <3>1
        <3> QED
            BY <3>2, <3>3 DEF SameRequest
    <2> QED
        BY <2>2, <2>3
<1>4. \A t \in Sessions : At(t, ses[t], pending[t])'
    <2> SUFFICES ASSUME NEW t \in Sessions PROVE At(t, ses[t], pending[t])'
        OBVIOUS
    <2>1. ses'[t].known \subseteq StoredContents'
        BY <1>1, <1>3 DEF StoredContents
    <2> QED
        BY <1>1, <1>3, <2>1 DEF At, PendingAt, Supported, Resolving, Fresh, Deduplicating,
           Storing, Mentioning, Ingesting, Enriching, InGraph, Of, Provenance
<1>5. GoesOn
    BY <1>3 DEF GoesOn
<1>6. PICK s \in Sessions : TRUE
    BY DEF Crash
<1>7. nextId' \in Nat /\ nextId <= nextId'
    BY <1>1, <1>2 DEF Typed
<1>8. /\ Stored' /\ Store!Grounded(db)' /\ (leftovers = GraphRows(leftovers))'
      /\ Born' /\ GraphIsAtomic' /\ FirstStoredIsReused'
    BY <1>1, <1>5, <1>6, <1>7, TablesKept
<1>9. NamesAreUnique'
    <2>1. \A t \in Sessions : pending'[t] \subseteq pending[t]
        BY <1>1
    <2> QED
        BY <1>1, <2>1, NamesKept
<1>10. DocumentsAreOwn'
    <2>1. \A t \in Sessions : ~Storing(ses'[t])
        BY <1>3 DEF Storing
    <2> QED
        BY <2>1, OwnKept
<1> QED
    BY <1>2, <1>4, <1>8, <1>9, <1>10 DEF Inv

(* Inv speaks of the variables only. *)
LEMMA StutterInv == ASSUME Inv, UNCHANGED vars PROVE Inv'
<1>1. /\ graphEnabled' = graphEnabled /\ db' = db /\ pending' = pending /\ ses' = ses
      /\ nextId' = nextId /\ births' = births /\ completed' = completed
      /\ leftovers' = leftovers
    BY DEF vars
<1>2. Documents' = Documents /\ StoredContents' = StoredContents
    BY <1>1 DEF Documents, StoredContents
<1>3. Typed' /\ Store!Grounded(db)' /\ (leftovers = GraphRows(leftovers))'
    BY <1>1 DEF Inv, Typed
<1>4. Stored'
    BY <1>1, <1>2 DEF Inv, Stored
<1>5. NamesAreUnique' /\ DocumentsAreOwn'
    BY <1>1, NamesKept, OwnKept
<1>6. ASSUME NEW t \in Sessions PROVE At(t, ses[t], pending[t])'
    <2>1. PICK r, p : r = ses[t] /\ p = pending[t]
        OBVIOUS
    <2>2. /\ IsSession(r) /\ PendingAt(t, r, p) /\ Supported(r, p) /\ Resolving(r, p)
          /\ Fresh(r) /\ Deduplicating(t, r)
        BY <2>1 DEF Inv, At
    <2>3. ses'[t] = r /\ pending'[t] = p
        BY <1>1, <2>1
    <2>4. PendingAt(t, ses[t], pending[t])'
        BY <1>1, <1>2, <2>2, <2>3 DEF PendingAt
    <2>5. Supported(ses[t], pending[t])'
        BY <1>1, <2>2, <2>3 DEF Supported
    <2>6. Resolving(ses[t], pending[t])'
        BY <1>1, <2>2, <2>3 DEF Resolving
    <2>7. Fresh(ses[t])' /\ Deduplicating(t, ses[t])'
        BY <1>1, <1>2, <2>2, <2>3 DEF Fresh, Deduplicating
    <2>8. IsSession(ses[t])'
        BY <2>2, <2>3
    <2> QED
        BY <2>4, <2>5, <2>6, <2>7, <2>8 DEF At
<1>7. Born'
    BY <1>1 DEF Inv, Born
<1>8. GraphIsAtomic'
    BY <1>1 DEF Inv, GraphIsAtomic
<1>9. FirstStoredIsReused'
    BY <1>1 DEF Inv, FirstStoredIsReused
<1> QED
    BY <1>3, <1>4, <1>5, <1>6, <1>7, <1>8, <1>9 DEF Inv

(* Inv is inductive. *)
LEMMA NextInv == Inv /\ [Next]_vars => Inv'
<1> SUFFICES ASSUME Inv, [Next]_vars PROVE Inv'
    OBVIOUS
<1>1. ASSUME NEW s \in Sessions, Arrive(s) PROVE Inv'
    BY <1>1, ArriveInv
<1>2. ASSUME NEW s \in Sessions, Ingest(s) PROVE Inv'
    BY <1>2, RefuseInv, ReuseInv, CreateDocumentInv, EmbedInv, CommitDocumentInv DEF Ingest
<1>3. ASSUME NEW s \in Sessions, Enrich(s) PROVE Inv'
    BY <1>3, ReadDocumentInv, ExtractEntitiesInv, ExtractEdgesInv, SelectRowInv, InsertRowInv,
       CommitGraphInv DEF Enrich
<1>4. ASSUME NEW s \in Sessions, DeadlockVictim(s) PROVE Inv'
    BY <1>4, DeadlockVictimInv
<1>5. ASSUME NEW s \in Sessions, Fail(s) PROVE Inv'
    BY <1>5, IngestFailsInv, EnrichFailsInv, EnrichBreaksInv DEF Fail
<1>6. CASE Crash
    BY <1>6, CrashInv
<1>7. CASE UNCHANGED vars
    BY <1>7, StutterInv
<1> QED
    BY <1>1, <1>2, <1>3, <1>4, <1>5, <1>6, <1>7 DEF Next
-----------------------------------------------------------------------------
(* The inductive invariant holds in every state: what each request has      *)
(* flushed and not committed, and what the committed rows rest on.          *)
THEOREM Invariance == Spec => []Inv
BY InitInv, NextInv, PTL DEF Spec

(* enrich is all or nothing, for any number of requests, whatever the model *)
(* extracts and wherever a step fails: graph rows outside a committed       *)
(* enrichment are leftovers of an exception enrich does not handle, and     *)
(* only a sync commits those.                                               *)
THEOREM GraphAtomic == Spec => []GraphIsAtomic
<1>1. Inv => GraphIsAtomic
    BY DEF Inv
<1> QED
    BY <1>1, Invariance, PTL

(* find_by_content_hash: a request that deduplicates stores no content that *)
(* was stored when it began, and none twice.                                *)
THEOREM DeduplicationSafe == Spec => []FirstStoredIsReused
<1>1. Inv => FirstStoredIsReused
    BY DEF Inv
<1> QED
    BY <1>1, Invariance, PTL

-----------------------------------------------------------------------------
(* The commits, as KnowledgeStore sees them. *)

(* The transaction that stores a document adds it whole; the graph rows it  *)
(* may add too were extracted from documents stored before.                 *)
LEMMA DocumentStored ==
    ASSUME Inv, Inv', NEW s \in Sessions, ses[s].pc = "commit", KeepDocument(s)
    PROVE  Store!Next
<1>1. PICK d, c, p : d = ses[s].doc /\ c = Current(ses[s]) /\ p = pending[s]
    OBVIOUS
<1>2. db' = db \cup p
    BY <1>1 DEF KeepDocument
<1>3. /\ d \in DocumentIds /\ c \in Contents
      /\ \A x \in Documents : x.id # d
      /\ p = WholeDocument(d, c) \cup GraphRows(p)
    BY <1>1, CommitHolds
<1>4. Stored /\ Supported(ses[s], p)
    BY <1>1 DEF Inv, At
<1>5. \A x \in WholeDocument(d, c) : x \notin db
    <2>1. DocumentRow(d, c).table = "document" /\ DocumentRow(d, c).id = d
        BY DEF DocumentRow
    <2>2. \A i : ChunkRow(d, i).table = "chunk" /\ ChunkRow(d, i).document = d
        BY DEF ChunkRow
    <2>3. DocumentRow(d, c) \notin db
        BY <1>3, <2>1 DEF Documents, Of
    <2>4. \A i : ChunkRow(d, i) \notin db
        BY <1>3, <1>4, <2>2 DEF Stored, Of
    <2> QED
        BY <2>3, <2>4 DEF WholeDocument
<1>6. \A x \in WholeDocument(d, c) : x.table \in {"document", "chunk"}
    BY DEF WholeDocument, DocumentRow, ChunkRow
<1>7. Store!Added = p \ db
    BY <1>2 DEF Store!Added
<1>8. (p \ db) \ GraphRows(p \ db) = WholeDocument(d, c)
    BY <1>3, <1>5, <1>6 DEF GraphRows
<1>9. \A k \in Provenance(p \ db) : k[1] # d
    <2>1. \A k \in Provenance(p) : ChunkRow(k[1], k[2]) \in db
        BY <1>4 DEF Supported
    <2>2. Provenance(p \ db) \subseteq Provenance(p)
        BY DEF Provenance, Of
    <2>3. \A k : ChunkRow(k[1], k[2]).table = "chunk" /\ ChunkRow(k[1], k[2]).document = k[1]
        BY DEF ChunkRow
    <2> QED
        BY <1>3, <1>4, <2>1, <2>2, <2>3 DEF Stored, Of
<1>10. Store!AddLeftovers
    <2>1. \A r \in Of(db, "document") : r.id # d
        BY <1>3 DEF Documents
    <2> QED
        BY <1>3, <1>7, <1>8, <1>9, <2>1, StoreOperators DEF Store!AddLeftovers
<1>11. Store!Grounded(db')
    BY DEF Inv
<1> QED
    BY <1>2, <1>10, <1>11 DEF Store!Next

(* The transaction of an enrichment adds graph rows of its document.        *)
LEMMA GraphStored ==
    ASSUME Inv, Inv', NEW s \in Sessions, ses[s].pc = "save", KeepGraph(s)
    PROVE  Store!Next
<1>1. PICK d, p : d = ses[s].doc /\ p = pending[s]
    OBVIOUS
<1>2. db' = db \cup p
    BY <1>1 DEF KeepGraph
<1>3. Stored /\ PendingAt(s, ses[s], p)
    BY <1>1 DEF Inv, At
<1>4. /\ p = GraphRows(p) /\ \A k \in Provenance(p) : k[1] = d
      /\ \E x \in Documents : x.id = d
    BY <1>1, <1>3 DEF PendingAt, Enriching
<1>5. d \in DocumentIds
    BY <1>3, <1>4 DEF Stored
<1>6. Store!Added = p \ db
    BY <1>2 DEF Store!Added
<1>7. p \ db = GraphRows(p \ db)
    BY <1>4 DEF GraphRows
<1>8. \A k \in Provenance(p \ db) : k[1] = d
    BY <1>4 DEF Provenance, Of
<1>9. Store!AddGraph
    BY <1>5, <1>6, <1>7, <1>8, StoreOperators DEF Store!AddGraph
<1>10. Store!Grounded(db')
    BY DEF Inv
<1> QED
    BY <1>2, <1>9, <1>10 DEF Store!Next

(* Every step commits what KnowledgeStore allows, or nothing. *)
LEMMA StoreStep == Inv /\ Inv' /\ [Next]_vars => [Store!Next]_db
<1> SUFFICES ASSUME Inv, Inv', [Next]_vars, db' # db PROVE Store!Next
    OBVIOUS
<1>1. ASSUME NEW s \in Sessions, Arrive(s) PROVE FALSE
    BY <1>1 DEF Arrive, ingest_document, ingest_file, enrich_document_graph, sync, FetchFails,
       Begin
<1>2. ASSUME NEW s \in Sessions, Ingest(s) PROVE Store!Next
    BY <1>2, DocumentStored DEF Ingest, Refuse, Reuse, CreateDocument, Embed, CommitDocument
<1>3. ASSUME NEW s \in Sessions, Enrich(s) PROVE Store!Next
    BY <1>3, GraphStored DEF Enrich, ReadDocument, ExtractEntities, ExtractEdges, SelectRow,
       InsertRow, CommitGraph
<1>4. ASSUME NEW s \in Sessions, DeadlockVictim(s) PROVE FALSE
    BY <1>4 DEF DeadlockVictim
<1>5. ASSUME NEW s \in Sessions, Fail(s) PROVE Store!Next
    BY <1>5, DocumentStored, GraphStored DEF Fail, IngestFails, EnrichFails, EnrichBreaks
<1>6. CASE Crash
    BY <1>6 DEF Crash
<1>7. CASE UNCHANGED vars
    BY <1>7 DEF vars
<1> QED
    BY <1>1, <1>2, <1>3, <1>4, <1>5, <1>6, <1>7 DEF Next

(* Whatever requests run at once, the committed tables are those of         *)
(* KnowledgeStore: every commit of ingest and enrich adds a whole document  *)
(* or grounded graph rows, and nothing is taken away.                       *)
THEOREM StoreRefined == Spec => RefinesStore
<1>1. Init => Store!Init
    BY DEF Init, Store!Init
<1> QED
    BY <1>1, Invariance, StoreStep, PTL DEF Spec, RefinesStore, Store!Spec

-----------------------------------------------------------------------------
(* What a request reports. *)

(* The documents a request has stored, and the enrichments it committed. *)
OwnBirths(s) == {b \in births : b.by = s}

OwnGraphs(s) == {e \in completed : e.by = s}

(* What the report of a request says so far is so, with `open' documents    *)
(* whose enrichment is under way.                                           *)
Reported(s, r, open) ==
    LET n == Len(r.report.ids)
    IN  /\ n <= Len(r.asked)
        /\ \A i \in 1..n : WholeDocument(r.report.ids[i], r.asked[i]) \subseteq db
        /\ Cardinality(OwnBirths(s)) = n - r.report.duplicates
        /\ r.kind = "sync" =>
            r.report.enriched + r.report.failed =
                IF r.enrich /\ graphEnabled THEN n - r.report.duplicates - open ELSE 0
        /\ Cardinality(OwnGraphs(s)) >= r.report.enriched

(* At each point of the request: an enrichment under way has no row of      *)
(* completed yet, so that its commit is counted as one more.                *)
Told(s, r) ==
    /\ r.pc = "idle" => OwnBirths(s) = {} /\ OwnGraphs(s) = {}
    /\ r.pc \in Ingesting =>
        /\ r.kind # "enrich" /\ Reported(s, r, 0)
        /\ r.kind # "sync" => OwnGraphs(s) = {}
    /\ InGraph(r) =>
        /\ Reported(s, r, 1)
        /\ r.kind = "sync" => r.enrich /\ graphEnabled
        /\ \A e \in OwnGraphs(s) : e.doc # r.doc
    /\ (r.pc = "answered" /\ r.answer = "ok") =>
        /\ Reported(s, r, 0) /\ Len(r.report.ids) = Len(r.asked)
        /\ r.kind = "enrich" => \E e \in OwnGraphs(s) : e.doc = r.doc

(* What every request may be told so far. *)
TellInv ==
    /\ IsFiniteSet(births) /\ IsFiniteSet(completed)
    /\ \A e \in completed : \E x \in Documents : x.id = e.doc
    /\ \A s \in Sessions : Told(s, ses[s])

(* A report stays true while its session does nothing. *)
LEMMA ReportedKept ==
    ASSUME NEW s, NEW r, NEW open, Reported(s, r, open), db \subseteq db',
           graphEnabled' = graphEnabled, NEW q, q = r,
           OwnBirths(s)' = OwnBirths(s), OwnGraphs(s)' = OwnGraphs(s)
    PROVE  /\ Len(q.report.ids) <= Len(q.asked)
           /\ \A i \in 1..Len(q.report.ids) :
                WholeDocument(q.report.ids[i], q.asked[i]) \subseteq db'
           /\ Cardinality(OwnBirths(s)') = Len(q.report.ids) - q.report.duplicates
           /\ q.kind = "sync" =>
                q.report.enriched + q.report.failed =
                    IF q.enrich /\ graphEnabled'
                    THEN Len(q.report.ids) - q.report.duplicates - open ELSE 0
           /\ Cardinality(OwnGraphs(s)') >= q.report.enriched
    BY ZenonT(30) DEF Reported

(* What is said of a request that does nothing stays true. *)
LEMMA ToldKept ==
    ASSUME NEW s, Told(s, ses[s]), ses'[s] = ses[s], db \subseteq db',
           graphEnabled' = graphEnabled,
           OwnBirths(s)' = OwnBirths(s), OwnGraphs(s)' = OwnGraphs(s)
    PROVE  Told(s, ses[s])'
<1>1. ASSUME NEW open, Reported(s, ses[s], open)
      PROVE  Reported(s, ses[s], open)'
    BY <1>1, ReportedKept, ZenonT(30) DEF Reported
<1> QED
    BY <1>1, ZenonT(30) DEF Told, InGraph

(* A step of s keeps what is said of the other requests. *)
LEMMA Telling ==
    ASSUME Inv, TellInv, NEW s \in Sessions, NEW q, ses' = [ses EXCEPT ![s] = q],
           graphEnabled' = graphEnabled, db \subseteq db',
           births' = births \/ (\E b : b.by = s /\ births' = births \cup {b}),
           \/ completed' = completed
           \/ \E e : /\ e.by = s /\ \E x \in Documents : x.id = e.doc
                     /\ completed' = completed \cup {e},
           Told(s, ses[s])'
    PROVE  TellInv'
<1>1. IsFiniteSet(births)'
    <2>1. CASE births' = births
        BY <2>1 DEF TellInv
    <2>2. CASE \E b : b.by = s /\ births' = births \cup {b}
        BY <2>2, FS_AddElement DEF TellInv
    <2> QED
        BY <2>1, <2>2
<1>2. IsFiniteSet(completed)'
    <2>1. CASE completed' = completed
        BY <2>1 DEF TellInv
    <2>2. CASE \E e : e.by = s /\ completed' = completed \cup {e}
        BY <2>2, FS_AddElement DEF TellInv
    <2> QED
        BY <2>1, <2>2
<1>3. Documents \subseteq Documents'
    BY DEF Documents, Of
<1>4. \A e \in completed' : \E x \in Documents' : x.id = e.doc
    BY <1>3 DEF TellInv
<1>5. ASSUME NEW t \in Sessions, t # s
      PROVE  Told(t, ses[t])'
    <2>1. OwnBirths(t)' = OwnBirths(t)
        BY <1>5 DEF OwnBirths
    <2>2. OwnGraphs(t)' = OwnGraphs(t)
        BY <1>5 DEF OwnGraphs
    <2>3. ses'[t] = ses[t]
        BY <1>5 DEF Inv, Typed
    <2> QED
        BY <2>1, <2>2, <2>3, ToldKept DEF TellInv
<1> QED
    BY <1>1, <1>2, <1>4, <1>5 DEF TellInv

(* A failure is told as such. *)
LEMMA TellingFailure ==
    ASSUME NEW s, ses'[s].pc = "answered", ses'[s].answer # "ok"
    PROVE  Told(s, ses[s])'
    BY DEF Told, Ingesting, InGraph

(* The request goes on where it is, and reports nothing new. *)
LEMMA TellingMove ==
    ASSUME Inv, TellInv, NEW s \in Sessions, NEW q, ses' = [ses EXCEPT ![s] = q],
           UNCHANGED <<graphEnabled, db, births, completed>>,
           SameRequest(q, ses[s]), q.report = ses[s].report,
           \/ ses[s].pc \in Ingesting /\ q.pc \in Ingesting
           \/ InGraph(ses[s]) /\ InGraph(q) /\ q.doc = ses[s].doc
    PROVE  TellInv'
<1>1. ses'[s] = q
    BY DEF Inv, Typed
<1>2. OwnBirths(s)' = OwnBirths(s) /\ OwnGraphs(s)' = OwnGraphs(s)
    BY DEF OwnBirths, OwnGraphs
<1>3. ASSUME NEW open, Reported(s, ses[s], open)
      PROVE  Reported(s, ses[s], open)'
    BY <1>1, <1>2, <1>3, ZenonT(30) DEF Reported, SameRequest
<1>4. Told(s, ses[s])
    BY DEF TellInv
<1>5. Told(s, ses[s])'
    <2>1. CASE ses[s].pc \in Ingesting /\ q.pc \in Ingesting
        BY <1>1, <1>2, <1>3, <1>4, <2>1 DEF Told, SameRequest, Ingesting, InGraph
    <2>2. CASE InGraph(ses[s]) /\ InGraph(q) /\ q.doc = ses[s].doc
        BY <1>1, <1>2, <1>3, <1>4, <2>2 DEF Told, SameRequest, Ingesting, InGraph
    <2> QED
        BY <2>1, <2>2
<1> QED
    BY <1>5, Telling

(* The counts of a finite set and one more element. *)
LEMMA OneMore ==
    ASSUME NEW S, IsFiniteSet(S), NEW x
    PROVE  /\ Cardinality(S) \in Nat
           /\ IsFiniteSet(S \cup {x})
           /\ x \notin S => Cardinality(S \cup {x}) = Cardinality(S) + 1
           /\ Cardinality(S \cup {x}) \in Nat /\ Cardinality(S \cup {x}) >= Cardinality(S)
<1>1. Cardinality(S) \in Nat /\ IsFiniteSet(S \cup {x})
    BY FS_CardinalityType, FS_AddElement
<1>2. Cardinality(S \cup {x}) = IF x \in S THEN Cardinality(S) ELSE Cardinality(S) + 1
    BY FS_AddElement
<1> QED
    BY <1>1, <1>2

(* A request stores and enriches finitely many documents. *)
LEMMA OwnFinite ==
    ASSUME TellInv, NEW s
    PROVE  IsFiniteSet(OwnBirths(s)) /\ IsFiniteSet(OwnGraphs(s))
    BY FS_Subset DEF TellInv, OwnBirths, OwnGraphs

(* What Ingested makes of the report. *)
LEMMA IngestedReport ==
    ASSUME NEW r, IsSession(r), NEW d \in Nat, NEW duplicate \in BOOLEAN,
           NEW q, q = Ingested(r, d, duplicate)
    PROVE  /\ SameRequest(q, r) /\ q.doc = d
           /\ q.report.ids = Append(r.report.ids, d)
           /\ q.report.enriched = r.report.enriched /\ q.report.failed = r.report.failed
           /\ q.report.duplicates = IF duplicate THEN r.report.duplicates + 1
                                    ELSE r.report.duplicates
           /\ IF r.enrich /\ graphEnabled /\ (r.kind = "sync" => ~duplicate)
              THEN q.pc = "graph"
              ELSE IF Len(r.report.ids) + 1 < Len(r.asked) THEN q.pc = "ingest"
              ELSE q.pc = "answered"
<1>0. q = Ingested(r, d, duplicate) /\ IsSession(r) /\ d \in Nat /\ duplicate \in BOOLEAN
    OBVIOUS
<1>1. SameRequest(q, r)
    BY <1>0, IngestedSession, SMTT(30)
<1>2. q.doc = d
    BY <1>0, IngestedSession, SMTT(30)
<1>3. q.report.ids = Append(r.report.ids, d)
    BY <1>0, IngestedSession, SMTT(30)
<1>4. q.report.enriched = r.report.enriched /\ q.report.failed = r.report.failed
    BY <1>0, IngestedSession, SMTT(30)
<1>5. q.report.duplicates = IF duplicate THEN r.report.duplicates + 1 ELSE r.report.duplicates
    BY <1>0, IngestedSession, SMTT(30)
<1>6. IF r.enrich /\ graphEnabled /\ (r.kind = "sync" => ~duplicate)
      THEN q.pc = "graph"
      ELSE IF Len(r.report.ids) + 1 < Len(r.asked) THEN q.pc = "ingest"
      ELSE q.pc = "answered"
    BY <1>0, IngestedSession, SMTT(30)
<1> QED
    BY <1>1, <1>2, <1>3, <1>4, <1>5, <1>6, Zenon

(* ingest returned document d: the report names it. *)
LEMMA TellingIngested ==
    ASSUME Inv, TellInv, NEW s \in Sessions, ses[s].pc \in Ingesting,
           NEW d \in Nat, NEW duplicate \in BOOLEAN, NEW q, q = Ingested(ses[s], d, duplicate),
           ses' = [ses EXCEPT ![s] = q], UNCHANGED <<graphEnabled, completed>>, db \subseteq db',
           WholeDocument(d, Current(ses[s])) \subseteq db',
           duplicate => births' = births,
           ~duplicate =>
               /\ \E b : b.by = s /\ b \notin births /\ births' = births \cup {b}
               /\ \A x \in Documents : x.id # d
    PROVE  TellInv'
<1>1. PICK r : r = ses[s]
    OBVIOUS
<1>2. /\ IsSession(r) /\ Told(s, r) /\ Len(r.report.ids) < Len(r.asked)
      /\ r.pc \in Ingesting
    BY <1>1 DEF Inv, At, PendingAt, TellInv
<1>3. Reported(s, r, 0) /\ r.kind # "enrich" /\ (r.kind # "sync" => OwnGraphs(s) = {})
    BY <1>2 DEF Told
<1>4. PICK n, duplicates, enriched, failed :
          /\ n = Len(r.report.ids) /\ duplicates = r.report.duplicates
          /\ enriched = r.report.enriched /\ failed = r.report.failed
    BY Zenon
<1>20. n \in Nat /\ duplicates \in Nat /\ enriched \in Nat /\ failed \in Nat
    BY <1>2, <1>4 DEF IsSession
<1>5. ses'[s] = q
    BY DEF Inv, Typed
<1>21. PICK new \in {0, 1} : (duplicate => new = 0) /\ (~duplicate => new = 1)
    <2>1. CASE duplicate
        BY <2>1, Zenon
    <2>2. CASE ~duplicate
        BY <2>2, Zenon
    <2> QED
        BY <2>1, <2>2, Zenon
<1>6. /\ SameRequest(q, r) /\ q.doc = d
      /\ q.report.ids = Append(r.report.ids, d)
      /\ q.report.duplicates = duplicates + 1 - new
      /\ q.report.enriched = enriched /\ q.report.failed = failed
      /\ IF r.enrich /\ graphEnabled /\ (r.kind = "sync" => new = 1)
         THEN q.pc = "graph"
         ELSE IF n + 1 < Len(r.asked) THEN q.pc = "ingest"
         ELSE q.pc = "answered"
    <2>1. q = Ingested(r, d, duplicate)
        BY <1>1
    <2>0. IsSession(r)
        BY <1>2
    <2>2. /\ SameRequest(q, r) /\ q.doc = d
          /\ q.report.ids = Append(r.report.ids, d)
          /\ q.report.enriched = r.report.enriched /\ q.report.failed = r.report.failed
          /\ q.report.duplicates = IF duplicate THEN r.report.duplicates + 1
                                   ELSE r.report.duplicates
          /\ IF r.enrich /\ graphEnabled /\ (r.kind = "sync" => ~duplicate)
             THEN q.pc = "graph"
             ELSE IF Len(r.report.ids) + 1 < Len(r.asked) THEN q.pc = "ingest"
             ELSE q.pc = "answered"
        BY <2>0, <2>1, IngestedReport, SMTT(30)
    <2>3. 0 # 1
        OBVIOUS
    <2>4. /\ duplicate => q.report.duplicates = duplicates + 1
          /\ ~duplicate => q.report.duplicates = duplicates
        BY <2>2, <1>4, Zenon
    <2>5. IF r.enrich /\ graphEnabled /\ (r.kind = "sync" => new = 1)
          THEN q.pc = "graph"
          ELSE IF n + 1 < Len(r.asked) THEN q.pc = "ingest"
          ELSE q.pc = "answered"
        BY <2>2, <2>3, <1>21, <1>4, ZenonT(60)
    <2>6. (new = 0 => duplicate) /\ (new = 1 => ~duplicate)
        BY <1>21, <2>3, Zenon
    <2>7. /\ new = 0 => q.report.duplicates = duplicates + 1
          /\ new = 1 => q.report.duplicates = duplicates
        BY <2>4, <2>6, Zenon
    <2>8. q.report.duplicates = duplicates + 1 - new
        BY <2>7, <1>20, <1>21
    <2> QED
        BY <2>2, <2>5, <2>8, <1>4, Zenon
<1>22. /\ new = 0 => births' = births
       /\ new = 1 => /\ \E b : b.by = s /\ b \notin births /\ births' = births \cup {b}
                     /\ \A x \in Documents : x.id # d
    <2>1. 0 # 1
        OBVIOUS
    <2> QED
        BY <1>21, <2>1, Zenon
<1>7. /\ Len(q.report.ids) = n + 1 /\ q.report.ids[n + 1] = d
      /\ \A i \in 1..n : q.report.ids[i] = r.report.ids[i]
      /\ Len(r.asked) \in Nat /\ n < Len(r.asked)
    BY <1>2, <1>4, <1>6, <1>20 DEF IsSession
<1>8. OwnGraphs(s)' = OwnGraphs(s)
    BY DEF OwnGraphs
<1>9. /\ Cardinality(OwnBirths(s)') = (n + 1) - q.report.duplicates
    <2>1. Cardinality(OwnBirths(s)) = n - duplicates
        BY <1>3, <1>4 DEF Reported
    <2>2. CASE new = 0
        <3>1. OwnBirths(s)' = OwnBirths(s)
            BY <2>2, <1>22 DEF OwnBirths
        <3> QED
            BY <3>1, <2>1, <2>2, <1>6, <1>20
    <2>3. CASE new = 1
        <3>1. PICK b : b.by = s /\ b \notin births /\ births' = births \cup {b}
            BY <2>3, <1>22
        <3>2. OwnBirths(s)' = OwnBirths(s) \cup {b} /\ b \notin OwnBirths(s)
            BY <3>1 DEF OwnBirths
        <3>3. Cardinality(OwnBirths(s)') = Cardinality(OwnBirths(s)) + 1
            BY <3>2, OwnFinite, OneMore
        <3> QED
            BY <3>3, <2>1, <2>3, <1>6, <1>20
    <2> QED
        BY <2>2, <2>3, <1>21
<1>10. \A i \in 1..n + 1 : WholeDocument(q.report.ids[i], r.asked[i]) \subseteq db'
    <2>1. WholeDocument(q.report.ids[n + 1], r.asked[n + 1]) \subseteq db'
        BY <1>1, <1>4, <1>7 DEF Current
    <2>2. \A i \in 1..n : WholeDocument(r.report.ids[i], r.asked[i]) \subseteq db
        BY <1>3, <1>4 DEF Reported
    <2>3. \A i \in 1..n : WholeDocument(q.report.ids[i], r.asked[i]) \subseteq db'
        BY <2>2, <1>7
    <2>4. \A i \in 1..n + 1 : i \in 1..n \/ i = n + 1
        BY <1>20
    <2> QED
        BY <2>1, <2>3, <2>4
<1>11. PICK open \in {0, 1} : open = IF q.pc = "graph" THEN 1 ELSE 0
    OBVIOUS
<1>12. r.kind = "sync" =>
        enriched + failed =
            IF r.enrich /\ graphEnabled THEN (n + 1) - q.report.duplicates - open ELSE 0
    <2>1. r.kind = "sync" =>
            enriched + failed = IF r.enrich /\ graphEnabled THEN n - duplicates - 0 ELSE 0
        BY <1>3, <1>4 DEF Reported
    <2>2. CASE new = 0
        BY <2>1, <2>2, <1>20, <1>6, <1>11
    <2>3. CASE new = 1
        BY <2>1, <2>3, <1>20, <1>6, <1>11
    <2> QED
        BY <2>2, <2>3, <1>21
<1>13. Cardinality(OwnGraphs(s)) >= enriched
    BY <1>3, <1>4 DEF Reported
<1>14. Reported(s, ses[s], open)'
    <2>1. q.kind = r.kind /\ q.enrich = r.enrich /\ q.asked = r.asked
        BY <1>6 DEF SameRequest
    <2>2. /\ Len(q.report.ids) <= Len(q.asked)
          /\ Cardinality(OwnBirths(s)') = Len(q.report.ids) - q.report.duplicates
          /\ \A i \in 1..Len(q.report.ids) :
                WholeDocument(q.report.ids[i], q.asked[i]) \subseteq db'
        BY <2>1, <1>7, <1>9, <1>10, <1>20
    <2>3. q.kind = "sync" =>
            q.report.enriched + q.report.failed =
                IF q.enrich /\ graphEnabled'
                THEN Len(q.report.ids) - q.report.duplicates - open ELSE 0
        BY <2>1, <1>6, <1>7, <1>12
    <2>4. Cardinality(OwnGraphs(s)') >= q.report.enriched
        BY <1>6, <1>8, <1>13
    <2> QED
        BY <2>2, <2>3, <2>4, <1>5, ZenonT(60) DEF Reported
<1>15. Told(s, ses[s])'
    <2>1. q.kind = r.kind /\ q.enrich = r.enrich /\ q.asked = r.asked
        BY <1>6 DEF SameRequest
    <2>2. CASE q.pc = "graph"
        <3>1. Reported(s, ses[s], 1)'
            BY <2>2, <1>11, <1>14
        <3>2. \A e \in OwnGraphs(s) : e.doc # d
            BY <2>2, <1>3, <1>6, <1>21, <1>22 DEF OwnGraphs, TellInv
        <3>3. q.kind = "sync" => q.enrich /\ graphEnabled
            BY <2>1, <2>2, <1>6
        <3> QED
            BY <2>2, <3>1, <3>2, <3>3, <1>5, <1>6, <1>8 DEF Told, Ingesting, InGraph
    <2>3. CASE q.pc = "ingest"
        BY <2>1, <2>3, <1>3, <1>5, <1>8, <1>11, <1>14 DEF Told, Ingesting, InGraph
    <2>4. CASE q.pc = "answered"
        <3>1. Len(q.report.ids) = Len(q.asked)
            BY <2>1, <2>4, <1>20, <1>6, <1>7
        <3> QED
            BY <3>1, <2>1, <2>4, <1>3, <1>5, <1>11, <1>14 DEF Told, Ingesting, InGraph
    <2> QED
        BY <2>2, <2>3, <2>4, <1>6
<1>16. births' = births \/ (\E b : b.by = s /\ births' = births \cup {b})
    BY <1>21, <1>22
<1> QED
    BY <1>15, <1>16, Telling

(* An enrichment ended: it is counted, and only one that was committed as   *)
(* completed.                                                               *)
LEMMA TellingGraphDone ==
    ASSUME Inv, TellInv, NEW s \in Sessions, InGraph(ses[s]),
           NEW ok \in BOOLEAN, NEW q, q = GraphDone(ses[s], ok),
           ses' = [ses EXCEPT ![s] = q], UNCHANGED <<graphEnabled, births>>, db \subseteq db',
           \/ ~ok /\ completed' = completed
           \/ \E e : /\ e.by = s /\ e.doc = ses[s].doc /\ \E x \in Documents : x.id = e.doc
                     /\ completed' = completed \cup {e}
    PROVE  TellInv'
<1>1. PICK r : r = ses[s]
    OBVIOUS
<1>2. /\ IsSession(r) /\ Told(s, r) /\ InGraph(r)
      /\ r.kind # "sync" => Len(r.report.ids) >= Len(r.asked)
    BY <1>1 DEF Inv, At, PendingAt, TellInv
<1>3. /\ Reported(s, r, 1)
      /\ r.kind = "sync" => r.enrich /\ graphEnabled
      /\ \A e \in OwnGraphs(s) : e.doc # r.doc
    BY <1>2 DEF Told
<1>4. PICK n, duplicates, enriched, failed :
          /\ n = Len(r.report.ids) /\ duplicates = r.report.duplicates
          /\ enriched = r.report.enriched /\ failed = r.report.failed
    BY Zenon
<1>5. n \in Nat /\ duplicates \in Nat /\ enriched \in Nat /\ failed \in Nat
    BY <1>2, <1>4 DEF IsSession
<1>6. ses'[s] = q
    BY DEF Inv, Typed
<1>7. PICK gain \in {0, 1} : (ok => gain = 1) /\ (~ok => gain = 0)
    <2>1. CASE ok
        BY <2>1, Zenon
    <2>2. CASE ~ok
        BY <2>2, Zenon
    <2> QED
        BY <2>1, <2>2, Zenon
<1>8. (gain = 1 => ok) /\ (gain = 0 => ~ok)
    <2>1. 0 # 1
        OBVIOUS
    <2> QED
        BY <1>7, <2>1, Zenon
<1>9. /\ SameRequest(q, r) /\ q.doc = r.doc
      /\ q.report.ids = r.report.ids /\ q.report.duplicates = duplicates
      /\ r.kind # "enrich" => /\ q.report.enriched = enriched + gain
                              /\ q.report.failed = failed + 1 - gain
      /\ r.kind = "enrich" => q.report.enriched = enriched
      /\ \/ q.pc = "ingest" /\ r.kind # "enrich" /\ n < Len(r.asked)
         \/ q.pc = "answered" /\ (r.kind = "enrich" \/ ~(n < Len(r.asked)))
      /\ r.kind = "enrich" /\ q.answer = "ok" => gain = 1
    <2>1. q = GraphDone(r, ok) /\ ok \in BOOLEAN
        BY <1>1
    <2>2. SameRequest(q, r) /\ q.doc = r.doc
        BY <1>2, <2>1, GraphDoneSession
    <2>3. q.report.ids = r.report.ids /\ q.report.duplicates = duplicates
        BY <1>2, <1>4, <2>1, GraphDoneSession
    <2>4. q.report.enriched = IF ok /\ r.kind # "enrich" THEN r.report.enriched + 1
                              ELSE r.report.enriched
        BY <1>2, <2>1, GraphDoneSession
    <2>5. q.report.failed = IF ~ok /\ r.kind # "enrich" THEN r.report.failed + 1
                            ELSE r.report.failed
        BY <1>2, <2>1, GraphDoneSession
    <2>6. IF r.kind # "enrich" /\ Len(r.report.ids) < Len(r.asked)
          THEN q.pc = "ingest" ELSE q.pc = "answered"
        BY <1>2, <2>1, GraphDoneSession
    <2>7. r.kind = "enrich" => (q.answer = "ok") = ok
        BY <1>2, <2>1, GraphDoneSession
    <2>8. r.kind = "enrich" /\ q.answer = "ok" => gain = 1
        BY <2>7, <1>7, Zenon
    <2>9. r.kind # "enrich" => /\ gain = 1 => q.report.enriched = enriched + 1
                               /\ gain = 0 => q.report.enriched = enriched
                               /\ gain = 1 => q.report.failed = failed
                               /\ gain = 0 => q.report.failed = failed + 1
        BY <2>4, <2>5, <1>4, <1>8, Zenon
    <2>10. r.kind = "enrich" => q.report.enriched = enriched
        BY <2>4, <1>4, Zenon
    <2>11. r.kind # "enrich" => /\ q.report.enriched = enriched + gain
                                /\ q.report.failed = failed + 1 - gain
        BY <2>9, <1>5, <1>7
    <2> QED
        BY <2>2, <2>3, <2>6, <2>8, <2>10, <2>11, <1>4, Zenon
<1>10. \/ gain = 0 /\ completed' = completed
       \/ \E e : /\ e.by = s /\ e.doc = r.doc /\ \E x \in Documents : x.id = e.doc
                 /\ completed' = completed \cup {e}
    BY <1>1, <1>7, Zenon
<1>11. /\ Cardinality(OwnGraphs(s)) \in Nat /\ Cardinality(OwnGraphs(s)') \in Nat
       /\ Cardinality(OwnGraphs(s)') >= Cardinality(OwnGraphs(s)) + gain
       /\ gain = 1 => \E e \in OwnGraphs(s)' : e.doc = r.doc
    <2>1. IsFiniteSet(OwnGraphs(s)) /\ Cardinality(OwnGraphs(s)) \in Nat
        BY OwnFinite, FS_CardinalityType
    <2>2. CASE gain = 0 /\ completed' = completed
        <3>1. OwnGraphs(s)' = OwnGraphs(s)
            BY <2>2 DEF OwnGraphs
        <3> QED
            BY <2>1, <2>2, <3>1
    <2>3. CASE \E e : e.by = s /\ e.doc = r.doc /\ completed' = completed \cup {e}
        <3>0. PICK e : e.by = s /\ e.doc = r.doc /\ completed' = completed \cup {e}
            BY <2>3
        <3>1. OwnGraphs(s)' = OwnGraphs(s) \cup {e} /\ e \notin OwnGraphs(s)
            BY <3>0, <1>3 DEF OwnGraphs
        <3>2. /\ Cardinality(OwnGraphs(s) \cup {e}) = Cardinality(OwnGraphs(s)) + 1
              /\ Cardinality(OwnGraphs(s) \cup {e}) \in Nat
            BY <2>1, <3>1, OneMore
        <3>3. /\ Cardinality(OwnGraphs(s)') = Cardinality(OwnGraphs(s)) + 1
              /\ Cardinality(OwnGraphs(s)') \in Nat /\ e \in OwnGraphs(s)'
            BY <3>1, <3>2
        <3> QED
            BY <2>1, <3>0, <3>3, <1>7
    <2> QED
        BY <2>2, <2>3, <1>10
<1>12. OwnBirths(s)' = OwnBirths(s)
    BY DEF OwnBirths
<1>13. Reported(s, ses[s], 0)'
    <2>1. q.kind = r.kind /\ q.enrich = r.enrich /\ q.asked = r.asked
        BY <1>9 DEF SameRequest
    <2>2. /\ n <= Len(r.asked)
          /\ \A i \in 1..n : WholeDocument(r.report.ids[i], r.asked[i]) \subseteq db
          /\ Cardinality(OwnBirths(s)) = n - duplicates
          /\ r.kind = "sync" => enriched + failed = n - duplicates - 1
          /\ Cardinality(OwnGraphs(s)) >= enriched
        BY <1>3, <1>4 DEF Reported
    <2>3. /\ Len(q.report.ids) <= Len(q.asked)
          /\ \A i \in 1..Len(q.report.ids) :
                WholeDocument(q.report.ids[i], q.asked[i]) \subseteq db'
          /\ Cardinality(OwnBirths(s)') = Len(q.report.ids) - q.report.duplicates
        BY <2>1, <2>2, <1>4, <1>9, <1>12
    <2>4. q.kind = "sync" =>
            q.report.enriched + q.report.failed =
                IF q.enrich /\ graphEnabled'
                THEN Len(q.report.ids) - q.report.duplicates - 0 ELSE 0
        <3>1. q.kind = "sync" =>
                q.report.enriched + q.report.failed =
                    Len(q.report.ids) - q.report.duplicates - 0
            <4>1. /\ Len(q.report.ids) = n /\ q.report.duplicates = duplicates
                  /\ q.kind = "sync" => /\ q.report.enriched = enriched + gain
                                        /\ q.report.failed = failed + 1 - gain
                                        /\ enriched + failed = n - duplicates - 1
                BY <2>1, <2>2, <1>4, <1>9
            <4>2. gain = 0 \/ gain = 1
                BY <1>7
            <4> QED
                BY <4>1, <4>2, <1>5
        <3>2. q.kind = "sync" => q.enrich /\ graphEnabled'
            BY <2>1, <1>3, Zenon
        <3> QED
            BY <3>1, <3>2, Zenon
    <2>5. Cardinality(OwnGraphs(s)') >= q.report.enriched
        BY <2>2, <1>5, <1>7, <1>9, <1>11
    <2> QED
        BY <2>3, <2>4, <2>5, <1>6, ZenonT(60) DEF Reported
<1>14. Told(s, ses[s])'
    <2>1. q.kind = r.kind /\ q.asked = r.asked
        BY <1>9 DEF SameRequest
    <2>2. n <= Len(r.asked) /\ Len(r.asked) \in Nat
        BY <1>2, <1>3, <1>4 DEF Reported, IsSession
    <2>3. CASE q.pc = "ingest"
        <3>1. q.kind = "sync"
            BY <2>1, <2>2, <2>3, <1>2, <1>4, <1>5, <1>9
        <3> QED
            BY <2>3, <3>1, <1>6, <1>13 DEF Told, Ingesting, InGraph
    <2>4. CASE q.pc = "answered"
        <3>1. Len(q.report.ids) = Len(q.asked)
            <4>1. CASE r.kind = "enrich"
                BY <4>1, <2>1, <2>2, <1>2, <1>4, <1>5, <1>9
            <4>2. CASE ~(n < Len(r.asked))
                BY <4>2, <2>1, <2>2, <1>4, <1>5, <1>9
            <4> QED
                BY <4>1, <4>2, <2>4, <1>9
        <3>2. q.kind = "enrich" /\ q.answer = "ok" => \E e \in OwnGraphs(s)' : e.doc = q.doc
            BY <2>1, <1>9, <1>11
        <3> QED
            BY <2>4, <3>1, <3>2, <1>6, <1>13 DEF Told, Ingesting, InGraph
    <2> QED
        BY <2>3, <2>4, <1>9
<1>15. \/ completed' = completed
       \/ \E e : /\ e.by = s /\ \E x \in Documents : x.id = e.doc
                 /\ completed' = completed \cup {e}
    BY <1>10
<1> QED
    BY <1>14, <1>15, Telling

(* A request begins with an empty report. *)
LEMMA TellingBegin ==
    ASSUME Inv, TellInv, NEW s \in Sessions, NEW r, IsSession(r), Begin(s, r),
           r.report = Report,
           \/ r.pc = "ingest" /\ r.kind # "enrich"
           \/ r.pc = "graph" /\ r.kind = "enrich"
           \/ r.pc = "answered" /\ (r.answer # "ok" \/ (r.asked = <<>> /\ r.kind # "enrich"))
    PROVE  TellInv'
<1>1. ses[s].pc = "idle" /\ Told(s, ses[s])
    BY DEF Begin, TellInv
<1>2. ses' = [ses EXCEPT ![s] = r] /\ UNCHANGED <<graphEnabled, db, births, completed>>
    BY DEF Begin, Becomes, HistoryUnchanged
<1>3. ses'[s] = r
    BY <1>2 DEF Inv, Typed
<1>4. OwnBirths(s)' = {} /\ OwnGraphs(s)' = {}
    BY <1>1, <1>2 DEF Told, OwnBirths, OwnGraphs
<1>5. /\ r.report.ids = <<>> /\ r.report.duplicates = 0 /\ r.report.enriched = 0
      /\ r.report.failed = 0 /\ Len(r.asked) \in Nat
    BY DEF Report, IsSession
<1>6. Cardinality({}) = 0
    BY FS_EmptySet
<1>7. ASSUME NEW open \in {0, 1}, open = 1 => r.kind # "sync"
      PROVE  Reported(s, ses[s], open)'
    <2>1. /\ Len(r.report.ids) = 0 /\ Len(r.report.ids) <= Len(r.asked)
          /\ \A i \in 1..Len(r.report.ids) :
                WholeDocument(r.report.ids[i], r.asked[i]) \subseteq db'
          /\ Cardinality(OwnBirths(s)') = Len(r.report.ids) - r.report.duplicates
          /\ Cardinality(OwnGraphs(s)') >= r.report.enriched
        BY <1>4, <1>5, <1>6
    <2>2. /\ r.report.enriched + r.report.failed = 0
          /\ r.kind = "sync" => Len(r.report.ids) - r.report.duplicates - open = 0
        BY <2>1, <1>5, <1>7
    <2>3. r.kind = "sync" =>
            r.report.enriched + r.report.failed =
                IF r.enrich /\ graphEnabled'
                THEN Len(r.report.ids) - r.report.duplicates - open ELSE 0
        BY <2>2, Zenon
    <2> QED
        BY <2>1, <2>3, <1>3, ZenonT(60) DEF Reported
<1>8. Told(s, ses[s])'
    <2>1. CASE r.pc = "ingest" /\ r.kind # "enrich"
        <3>1. Reported(s, ses[s], 0)'
            BY <1>7
        <3> QED
            BY <2>1, <3>1, <1>3, <1>4 DEF Told, Ingesting, InGraph
    <2>2. CASE r.pc = "graph" /\ r.kind = "enrich"
        <3>1. Reported(s, ses[s], 1)'
            BY <2>2, <1>7
        <3> QED
            BY <2>2, <3>1, <1>3, <1>4 DEF Told, Ingesting, InGraph
    <2>3. CASE /\ r.pc = "answered"
               /\ r.answer # "ok" \/ (r.asked = <<>> /\ r.kind # "enrich")
        <3>1. Reported(s, ses[s], 0)'
            BY <1>7
        <3> QED
            BY <2>3, <3>1, <1>3, <1>5 DEF Told, Ingesting, InGraph
    <2> QED
        BY <2>1, <2>2, <2>3
<1> QED
    BY <1>2, <1>8, Telling

(* A refused upload is not told "ok". *)
LEMMA RefusalIsNotOk ==
    ASSUME NEW f
    PROVE  "ok" \notin Refusal(f)
<1> DEFINE stages == <<sanitize_filename(f), read_bounded(f), select(f), parse(f),
                       parse_upload_metadata(f), build_request(f)>>
           refusing == {i \in DOMAIN stages : stages[i] # {}}
<1>1. /\ "ok" \notin sanitize_filename(f) /\ "ok" \notin read_bounded(f)
      /\ "ok" \notin select(f) /\ "ok" \notin parse_upload_metadata(f)
      /\ "ok" \notin build_request(f)
    BY DEF sanitize_filename, read_bounded, select, parse_upload_metadata, build_request
<1>2. "ok" \notin parse(f)
    BY DEF parse, PdfParse, DocxParse, TextParse
<1>3. DOMAIN stages = 1..6 /\ \A i \in 1..6 : "ok" \notin stages[i]
    BY <1>1, <1>2
<1> HIDE DEF stages
<1>4. CASE refusing # {}
    <2>1. refusing \subseteq Nat
        BY <1>3
    <2>2. PICK n \in refusing : \A m \in refusing : n <= m
        BY <1>4, <2>1, Least
    <2>3. Min(refusing) \in refusing
        BY <2>2 DEF Min
    <2> QED
        BY <1>3, <1>4, <2>3 DEF Refusal, stages
<1>5. CASE refusing = {}
    BY <1>5 DEF Refusal, stages
<1> QED
    BY <1>4, <1>5

(* Arrive preserves TellInv. *)
LEMMA ArriveTell == ASSUME Inv, TellInv, NEW s \in Sessions, Arrive(s) PROVE TellInv'
<1>0. ASSUME NEW r, IsSession(r), r.report = Report, NEW code, code # "ok",
             Begin(s, Answered(r, code))
      PROVE  TellInv'
    <2>1. PICK q : q = Answered(r, code)
        OBVIOUS
    <2>2. IsSession(q) /\ q.pc = "answered" /\ q.answer = code /\ q.report = r.report
        BY <1>0, <2>1, AnsweredSession
    <2>3. q.report = Report /\ q.answer # "ok" /\ Begin(s, q)
        BY <1>0, <2>1, <2>2
    <2> QED
        BY <2>2, <2>3, TellingBegin
<1>1. CASE ingest_document(s)
    <2>1. PICK c \in Contents \cup {Blank} : Begin(s, Request("create", <<c>>, FALSE))
        BY <1>1 DEF ingest_document
    <2>2. PICK r : r = Request("create", <<c>>, FALSE)
        OBVIOUS
    <2>3. <<c>> \in Seq(Texts) /\ FALSE \in BOOLEAN
        BY DEF Texts
    <2>4. IsSession(r) /\ r.pc = "ingest" /\ r.kind = "create" /\ r.report = Report
        BY ZenonT(60), <2>2, <2>3, RequestSession
    <2> QED
        BY <2>1, <2>2, <2>4, TellingBegin
<1>2. CASE ingest_file(s)
    <2>1. PICK f \in Files, enrich \in BOOLEAN :
              LET r == Request("upload", <<f.content>>, enrich)
              IN  \/ Begin(s, r)
                  \/ \E code \in Refusal(f) : Begin(s, Answered(r, code))
        BY <1>2 DEF ingest_file
    <2>2. PICK r, asked : asked = <<f.content>> /\ r = Request("upload", asked, enrich)
        OBVIOUS
    <2>3. asked \in Seq(Texts)
        BY <2>2 DEF Texts
    <2>4. IsSession(r) /\ r.pc = "ingest" /\ r.kind = "upload" /\ r.report = Report
        <3>1. r = Request("upload", asked, enrich) /\ enrich \in BOOLEAN
            BY <2>2
        <3> QED
            BY <2>3, <3>1, RequestSession, ZenonT(60)
    <2>5. CASE Begin(s, r)
        BY <2>4, <2>5, TellingBegin
    <2>6. CASE \E code \in Refusal(f) : Begin(s, Answered(r, code))
        <3>1. PICK code \in Refusal(f) : Begin(s, Answered(r, code))
            BY <2>6
        <3>2. code # "ok"
            BY RefusalIsNotOk
        <3> QED
            BY <2>4, <3>1, <3>2, <1>0
    <2> QED
        BY <2>1, <2>2, <2>5, <2>6
<1>3. CASE enrich_document_graph(s)
    <2>1. PICK d, r :
              /\ d \in 1..nextId
              /\ r = [Request("enrich", <<>>, TRUE) EXCEPT !.pc = "graph", !.doc = d]
              /\ Begin(s, IF graphEnabled THEN r ELSE Answered(r, "knowledge_graph_disabled"))
        BY <1>3 DEF enrich_document_graph
    <2>2. PICK a : a = Request("enrich", <<>>, TRUE)
        OBVIOUS
    <2>3. <<>> \in Seq(Texts) /\ TRUE \in BOOLEAN
        OBVIOUS
    <2>4. IsSession(a) /\ a.kind = "enrich" /\ a.report = Report
        BY <2>2, <2>3, RequestSession
    <2>5. r = [pc |-> "graph", kind |-> a.kind, enrich |-> a.enrich, asked |-> a.asked,
               known |-> a.known, doc |-> d, chunk |-> a.chunk, queue |-> a.queue,
               named |-> a.named, rows |-> a.rows, report |-> a.report, answer |-> a.answer]
        BY <2>1, <2>2, <2>4 DEF IsSession
    <2>6. d \in Nat
        BY <2>1 DEF Inv, Typed
    <2>7. IsSession(r) /\ r.pc = "graph" /\ r.kind = "enrich" /\ r.report = Report
        BY <2>4, <2>5, <2>6 DEF IsSession
    <2>8. CASE graphEnabled
        <3>1. Begin(s, r)
            BY <2>1, <2>8
        <3> QED
            BY <2>7, <3>1, TellingBegin
    <2>9. CASE ~graphEnabled
        <3>1. Begin(s, Answered(r, "knowledge_graph_disabled"))
            BY <2>1, <2>9
        <3>2. PICK code : code = "knowledge_graph_disabled"
            OBVIOUS
        <3>3. Begin(s, Answered(r, code)) /\ code # "ok"
            BY <3>1, <3>2
        <3> QED
            BY <2>7, <3>3, <1>0
    <2> QED
        BY <2>8, <2>9
<1>4. CASE sync(s)
    <2>1. PICK page, enrich, r :
              /\ page \in Pages /\ enrich \in BOOLEAN
              /\ r = Request("sync", page, enrich)
              /\ Begin(s, CASE Len(page) > MaxDocuments ->
                                Answered(r, "invalid_connector_response")
                            [] page = <<>> -> Answered(r, "ok")
                            [] OTHER -> r)
        BY <1>4 DEF sync
    <2>2. page \in Seq(Texts)
        <3>1. page \in Seq(Contents \cup {Blank, Malformed})
            BY <2>1, PagesAssumption
        <3>2. Contents \cup {Blank, Malformed} \subseteq Texts
            BY DEF Texts
        <3> QED
            BY <3>1, <3>2
    <2>3. /\ IsSession(r) /\ r.pc = "ingest" /\ r.asked = page /\ r.kind = "sync"
          /\ r.report = Report
        BY <2>1, <2>2, RequestSession
    <2>4. \/ Begin(s, Answered(r, "invalid_connector_response"))
          \/ Begin(s, Answered(r, "ok")) /\ page = <<>>
          \/ Begin(s, r)
        BY <2>1
    <2>5. CASE Begin(s, Answered(r, "invalid_connector_response"))
        <3>1. PICK code : code = "invalid_connector_response"
            OBVIOUS
        <3>2. Begin(s, Answered(r, code)) /\ code # "ok"
            BY <2>5, <3>1
        <3> QED
            BY <2>3, <3>2, <1>0
    <2>6. CASE Begin(s, Answered(r, "ok")) /\ page = <<>>
        <3>1. PICK q : q = Answered(r, "ok")
            OBVIOUS
        <3>2. /\ IsSession(q) /\ q.pc = "answered" /\ q.answer = "ok"
              /\ SameRequest(q, r) /\ q.doc = r.doc /\ q.report = r.report
              /\ q.known = {}
            BY <2>3, <3>1, AnsweredSession
        <3>3. q.asked = <<>> /\ q.kind # "enrich" /\ q.report = Report /\ Begin(s, q)
            BY <2>3, <2>6, <3>1, <3>2 DEF SameRequest
        <3> QED
            BY <3>2, <3>3, TellingBegin
    <2>7. CASE Begin(s, r)
        BY <2>3, <2>7, TellingBegin
    <2> QED
        BY <2>4, <2>5, <2>6, <2>7
<1>5. CASE FetchFails(s)
    <2>1. PICK a : a = Request("sync", <<>>, FALSE)
        OBVIOUS
    <2>2. <<>> \in Seq(Texts) /\ FALSE \in BOOLEAN
        OBVIOUS
    <2>3. IsSession(a) /\ a.report = Report
        BY <2>1, <2>2, RequestSession
    <2>4. PICK code : code = "connector_unavailable"
        OBVIOUS
    <2>5. Begin(s, Answered(a, code)) /\ code # "ok"
        BY <1>5, <2>1, <2>4 DEF FetchFails
    <2> QED
        BY <2>3, <2>5, <1>0
<1> QED
    BY <1>1, <1>2, <1>3, <1>4, <1>5 DEF Arrive

(* A request that fails, whatever it left in the tables. *)
LEMMA FailingTell ==
    ASSUME Inv, TellInv, NEW s \in Sessions, NEW code, code # "ok",
           ses' = [ses EXCEPT ![s] = Answered(ses[s], code)],
           UNCHANGED <<graphEnabled, completed>>, db \subseteq db',
           births' = births \/ (\E b : b.by = s /\ births' = births \cup {b})
    PROVE  TellInv'
<1>1. PICK q : q = Answered(ses[s], code)
    OBVIOUS
<1>2. IsSession(ses[s])
    BY DEF Inv, At
<1>3. q.pc = "answered" /\ q.answer = code
    BY <1>1, <1>2, AnsweredSession
<1>4. ses' = [ses EXCEPT ![s] = q] /\ ses'[s] = q
    BY <1>1 DEF Inv, Typed
<1>5. Told(s, ses[s])'
    BY <1>3, <1>4, TellingFailure
<1> QED
    BY <1>4, <1>5, Telling

(* Ingest preserves TellInv. *)
LEMMA IngestTell == ASSUME Inv, TellInv, NEW s \in Sessions, Ingest(s) PROVE TellInv'
<1>0. IsSession(ses[s])
    BY DEF Inv, At
<1>1. CASE Refuse(s)
    <2>1. PICK code \in {"invalid_connector_response", "empty_knowledge_document"} :
              Becomes(s, Answered(ses[s], code), {})
        BY <1>1 DEF Refuse
    <2>2. ses' = [ses EXCEPT ![s] = Answered(ses[s], code)] /\ code # "ok"
        BY <2>1 DEF Becomes
    <2>3. UNCHANGED <<graphEnabled, db, births, completed>>
        BY <1>1 DEF Refuse, HistoryUnchanged
    <2> QED
        BY <2>2, <2>3, FailingTell
<1>2. CASE Reuse(s)
    <2>1. PICK d, q : /\ d = Min(find_by_content_hash(s))
                      /\ q = Ingested(ses[s], d, TRUE)
        OBVIOUS
    <2>2. /\ ses[s].pc = "ingest" /\ find_by_content_hash(s) # {}
          /\ ses' = [ses EXCEPT ![s] = q] /\ UNCHANGED <<graphEnabled, db, births, completed>>
        BY <1>2, <2>1 DEF Reuse, Becomes, HistoryUnchanged
    <2>3. d \in Nat /\ WholeDocument(d, Current(ses[s])) \subseteq db
        BY <2>1, <2>2, LookupFinds
    <2>4. PICK duplicate \in BOOLEAN : duplicate = TRUE
        OBVIOUS
    <2>5. /\ ses[s].pc \in Ingesting /\ q = Ingested(ses[s], d, duplicate) /\ db \subseteq db'
          /\ WholeDocument(d, Current(ses[s])) \subseteq db'
          /\ duplicate
        BY <2>1, <2>2, <2>3, <2>4 DEF Ingesting
    <2> QED
        BY <2>2, <2>3, <2>5, TellingIngested
<1>3. CASE CreateDocument(s)
    <2>1. PICK q : q = [ses[s] EXCEPT !.pc = "embed", !.doc = nextId]
        OBVIOUS
    <2>2. /\ ses[s].pc = "ingest" /\ ses' = [ses EXCEPT ![s] = q]
          /\ UNCHANGED <<graphEnabled, db, births, completed>>
        BY <1>3, <2>1 DEF CreateDocument, Becomes, HistoryUnchanged
    <2>3. /\ q.pc = "embed" /\ q.kind = ses[s].kind /\ q.enrich = ses[s].enrich
          /\ q.asked = ses[s].asked /\ q.report = ses[s].report
        BY <1>0, <2>1 DEF IsSession
    <2>4. SameRequest(q, ses[s]) /\ ses[s].pc \in Ingesting /\ q.pc \in Ingesting
        BY <2>2, <2>3 DEF SameRequest, Ingesting
    <2> QED
        BY <2>2, <2>3, <2>4, TellingMove
<1>4. CASE Embed(s)
    <2>1. PICK q : q = [ses[s] EXCEPT !.pc = "commit"]
        OBVIOUS
    <2>2. /\ ses[s].pc = "embed" /\ ses' = [ses EXCEPT ![s] = q]
          /\ UNCHANGED <<graphEnabled, db, births, completed>>
        BY <1>4, <2>1 DEF Embed, Becomes, HistoryUnchanged
    <2>3. q.pc = "commit" /\ SameRequest(q, ses[s]) /\ q.report = ses[s].report
        BY <1>0, <2>1, MovedSession
    <2>4. ses[s].pc \in Ingesting /\ q.pc \in Ingesting
        BY <2>2, <2>3 DEF Ingesting
    <2> QED
        BY <2>2, <2>3, <2>4, TellingMove
<1>5. CASE CommitDocument(s)
    <2>1. PICK d, c, q, b : /\ d = ses[s].doc /\ c = Current(ses[s])
                            /\ q = Ingested(ses[s], d, FALSE)
                            /\ b = [id |-> d, content |-> c, by |-> s,
                                    deduplicated |-> ses[s].kind # "create",
                                    known |-> ses[s].known]
        OBVIOUS
    <2>2. /\ ses[s].pc = "commit" /\ ses' = [ses EXCEPT ![s] = q]
          /\ db' = db \cup pending[s] /\ births' = births \cup {b}
          /\ UNCHANGED <<graphEnabled, completed>>
        BY <1>5, <2>1 DEF CommitDocument, KeepDocument, Becomes
    <2>3. d \in Nat /\ (\A x \in Documents : x.id # d) /\ WholeDocument(d, c) \subseteq pending[s]
        BY <2>1, <2>2, CommitHolds
    <2>4. b.by = s /\ b.id = d /\ b.content = c
        BY <2>1
    <2>5. b \notin births
        <3>1. SUFFICES ASSUME b \in births PROVE FALSE
            OBVIOUS
        <3>2. DocumentRow(d, c) \in db
            BY <2>4, <3>1 DEF Inv, Born
        <3>3. DocumentRow(d, c) \in Documents /\ DocumentRow(d, c).id = d
            BY <3>2 DEF Documents, Of, DocumentRow
        <3> QED
            BY <2>3, <3>3
    <2>6. PICK duplicate \in BOOLEAN : duplicate = FALSE
        OBVIOUS
    <2>7. /\ ses[s].pc \in Ingesting /\ q = Ingested(ses[s], d, duplicate) /\ db \subseteq db'
          /\ WholeDocument(d, Current(ses[s])) \subseteq db'
          /\ ~duplicate
        BY <2>1, <2>2, <2>3, <2>6 DEF Ingesting
    <2>8. \E z : z.by = s /\ z \notin births /\ births' = births \cup {z}
        BY <2>2, <2>4, <2>5
    <2> QED
        BY <2>2, <2>3, <2>7, <2>8, TellingIngested
<1> QED
    BY <1>1, <1>2, <1>3, <1>4, <1>5 DEF Ingest

(* A resolved name changes nothing of the request. *)
LEMMA ResolvedRequest ==
    ASSUME NEW r, IsSession(r), NEW x, NEW q, q = Resolved(r, x)
    PROVE  SameRequest(q, r) /\ q.report = r.report /\ q.doc = r.doc /\ InGraph(q)
<1>1. PICK a : a = Consume(r)
    OBVIOUS
<1>2. IsSession(a)
    BY <1>1, ConsumeSession
<1>3. a.enrich = r.enrich
    <2>1. CASE Len(r.queue) = 1
        BY <1>1, <2>1, NextChunkSession DEF Consume
    <2>2. CASE Len(r.queue) # 1
        BY <1>1, <2>2 DEF Consume, IsSession
    <2> QED
        BY <2>1, <2>2
<1>4. q.enrich = a.enrich
    BY <1>1, <1>2 DEF Resolved, IsSession
<1>5. /\ IsSession(q) /\ q.kind = r.kind /\ q.doc = r.doc /\ q.rows = r.rows \cup {x}
      /\ q.report = r.report /\ q.asked = r.asked /\ q.known = r.known
      /\ Len(r.queue) = 1 => q.pc = "extract"
      /\ Len(r.queue) # 1 =>
            /\ q.pc = "select" /\ q.queue = Tail(r.queue) /\ q.chunk = r.chunk
            /\ q.named = IF x.table # "entity" THEN r.named
                         ELSE [n \in (DOMAIN r.named) \cup {x.name} |->
                                   IF n = x.name THEN x.id ELSE r.named[n]]
    BY ResolvedSession
<1>6. q.pc \in {"extract", "select"}
    BY ResolvedPlace
<1> QED
    BY <1>3, <1>4, <1>5, <1>6 DEF SameRequest, InGraph

(* An enrichment that ended without a commit. *)
LEMMA AbandoningTell ==
    ASSUME Inv, TellInv, NEW s \in Sessions, InGraph(ses[s]),
           ses' = [ses EXCEPT ![s] = GraphDone(ses[s], FALSE)],
           UNCHANGED <<graphEnabled, db, births, completed>>
    PROVE  TellInv'
<1>1. PICK ok \in BOOLEAN : ok = FALSE
    OBVIOUS
<1>2. PICK q : q = GraphDone(ses[s], ok)
    OBVIOUS
<1>3. ses' = [ses EXCEPT ![s] = q] /\ db \subseteq db' /\ ~ok /\ completed' = completed
    BY <1>1, <1>2
<1> QED
    BY <1>2, <1>3, TellingGraphDone

(* One that was committed, even if it is reported as failed. *)
LEMMA KeepingTell ==
    ASSUME Inv, TellInv, NEW s \in Sessions, ses[s].pc = "save", KeepGraph(s),
           NEW ok \in BOOLEAN, ses' = [ses EXCEPT ![s] = GraphDone(ses[s], ok)],
           UNCHANGED <<graphEnabled, births>>
    PROVE  TellInv'
<1>1. PICK e : e = [doc |-> ses[s].doc, rows |-> ses[s].rows, by |-> s]
    OBVIOUS
<1>2. e.by = s /\ e.doc = ses[s].doc /\ completed' = completed \cup {e} /\ db \subseteq db'
    BY <1>1 DEF KeepGraph
<1>3. \E x \in Documents : x.id = e.doc
    BY <1>2 DEF Inv, At, PendingAt, Enriching
<1>4. PICK q : q = GraphDone(ses[s], ok)
    OBVIOUS
<1>5. ses' = [ses EXCEPT ![s] = q] /\ InGraph(ses[s])
    BY <1>4 DEF InGraph
<1>6. \E z : /\ z.by = s /\ z.doc = ses[s].doc /\ \E x \in Documents : x.id = z.doc
             /\ completed' = completed \cup {z}
    BY <1>2, <1>3
<1> QED
    BY <1>2, <1>4, <1>5, <1>6, TellingGraphDone

(* Enrich preserves TellInv. *)
LEMMA EnrichTell == ASSUME Inv, TellInv, NEW s \in Sessions, Enrich(s) PROVE TellInv'
<1>0. PICK r : r = ses[s]
    OBVIOUS
<1>1. IsSession(r)
    BY <1>0 DEF Inv, At
<1>2. ASSUME NEW q, ses' = [ses EXCEPT ![s] = q],
             UNCHANGED <<graphEnabled, db, births, completed>>,
             SameRequest(q, r), q.report = r.report, q.doc = r.doc, InGraph(r), InGraph(q)
      PROVE  TellInv'
    BY <1>0, <1>2, TellingMove
<1>3. CASE ReadDocument(s)
    <2>1. /\ r.pc = "graph" /\ UNCHANGED <<graphEnabled, db, births, completed>>
          /\ \/ ses' = [ses EXCEPT ![s] = [r EXCEPT !.pc = "extract", !.chunk = 1, !.rows = {}]]
             \/ ses' = [ses EXCEPT ![s] = Answered(r, "knowledge_document_not_found")]
        BY <1>0, <1>3 DEF ReadDocument, Becomes, HistoryUnchanged
    <2>2. CASE ses' = [ses EXCEPT ![s] = [r EXCEPT !.pc = "extract", !.chunk = 1, !.rows = {}]]
        <3>1. PICK q : q = [r EXCEPT !.pc = "extract", !.chunk = 1, !.rows = {}]
            OBVIOUS
        <3>2. /\ q.pc = "extract" /\ q.kind = r.kind /\ q.enrich = r.enrich
              /\ q.asked = r.asked /\ q.report = r.report /\ q.doc = r.doc
            BY <1>1, <3>1 DEF IsSession
        <3> QED
            BY <1>2, <2>1, <2>2, <3>1, <3>2 DEF SameRequest, InGraph
    <2>3. CASE ses' = [ses EXCEPT ![s] = Answered(r, "knowledge_document_not_found")]
        <3>1. PICK code : code = "knowledge_document_not_found"
            OBVIOUS
        <3>2. code # "ok" /\ ses' = [ses EXCEPT ![s] = Answered(ses[s], code)]
            BY <1>0, <2>3, <3>1
        <3> QED
            BY <2>1, <3>2, FailingTell
    <2> QED
        BY <2>1, <2>2, <2>3
<1>4. CASE ExtractEntities(s)
    <2>1. PICK q : ses' = [ses EXCEPT ![s] = q] /\
              (\/ q = [r EXCEPT !.pc = "save"]
               \/ \E names : q = [r EXCEPT !.pc = "select", !.named = <<>>,
                                           !.queue = EntityItems(names)])
        BY <1>0, <1>4 DEF ExtractEntities, Becomes
    <2>2. r.pc = "extract" /\ UNCHANGED <<graphEnabled, db, births, completed>>
        BY <1>0, <1>4 DEF ExtractEntities, HistoryUnchanged
    <2>3. /\ q.pc \in {"save", "select"} /\ q.kind = r.kind /\ q.enrich = r.enrich
          /\ q.asked = r.asked /\ q.report = r.report /\ q.doc = r.doc
        BY <1>1, <2>1 DEF IsSession
    <2> QED
        BY <1>2, <2>1, <2>2, <2>3 DEF SameRequest, InGraph
<1>5. CASE ExtractEdges(s)
    <2>1. PICK q : ses' = [ses EXCEPT ![s] = q] /\
              (q = NextChunk(r) \/ \E items : q = [r EXCEPT !.queue = items])
        BY <1>0, <1>5 DEF ExtractEdges, Becomes
    <2>2. r.pc = "select" /\ UNCHANGED <<graphEnabled, db, births, completed>>
        BY <1>0, <1>5 DEF ExtractEdges, AtEdges, HistoryUnchanged
    <2>3. /\ q.pc \in {"extract", "select"} /\ q.kind = r.kind /\ q.enrich = r.enrich
          /\ q.asked = r.asked /\ q.report = r.report /\ q.doc = r.doc
        <3>1. CASE q = NextChunk(r)
            BY <1>1, <3>1, NextChunkSession
        <3>2. CASE \E items : q = [r EXCEPT !.queue = items]
            BY <1>1, <2>2, <3>2 DEF IsSession
        <3> QED
            BY <2>1, <3>1, <3>2
    <2> QED
        BY <1>2, <2>1, <2>2, <2>3 DEF SameRequest, InGraph
<1>6. CASE SelectRow(s)
    <2>1. PICK q : ses' = [ses EXCEPT ![s] = q] /\
              (q = [r EXCEPT !.pc = "insert"] \/ \E x : q = Resolved(r, x))
        BY <1>0, <1>6 DEF SelectRow, Becomes
    <2>2. r.pc = "select" /\ UNCHANGED <<graphEnabled, db, births, completed>>
        BY <1>0, <1>6 DEF SelectRow, HistoryUnchanged
    <2>3. SameRequest(q, r) /\ q.report = r.report /\ q.doc = r.doc /\ InGraph(q)
        <3>1. CASE q = [r EXCEPT !.pc = "insert"]
            BY <1>1, <3>1, MovedSession DEF InGraph
        <3>2. CASE \E x : q = Resolved(r, x)
            BY <1>1, <3>2, ResolvedRequest
        <3> QED
            BY <2>1, <3>1, <3>2
    <2> QED
        BY <1>2, <2>1, <2>2, <2>3 DEF InGraph
<1>7. CASE InsertRow(s)
    <2>1. /\ r.pc = "insert" /\ UNCHANGED <<graphEnabled, db, births, completed>>
          /\ \/ ses' = [ses EXCEPT ![s] = GraphDone(r, FALSE)]
             \/ \E x : ses' = [ses EXCEPT ![s] = Resolved(r, x)]
        BY <1>0, <1>7 DEF InsertRow, Becomes, HistoryUnchanged
    <2>2. CASE ses' = [ses EXCEPT ![s] = GraphDone(r, FALSE)]
        BY <1>0, <2>1, <2>2, AbandoningTell DEF InGraph
    <2>3. CASE \E x : ses' = [ses EXCEPT ![s] = Resolved(r, x)]
        <3>1. PICK x : ses' = [ses EXCEPT ![s] = Resolved(r, x)]
            BY <2>3
        <3>2. PICK q : q = Resolved(r, x)
            OBVIOUS
        <3>3. SameRequest(q, r) /\ q.report = r.report /\ q.doc = r.doc /\ InGraph(q)
            BY <1>1, <3>2, ResolvedRequest
        <3> QED
            BY <1>2, <2>1, <3>1, <3>2, <3>3 DEF InGraph
    <2> QED
        BY <2>1, <2>2, <2>3
<1>8. CASE CommitGraph(s)
    <2>1. PICK ok \in BOOLEAN : ok = TRUE
        OBVIOUS
    <2>2. /\ ses[s].pc = "save" /\ KeepGraph(s) /\ UNCHANGED <<graphEnabled, births>>
          /\ ses' = [ses EXCEPT ![s] = GraphDone(ses[s], ok)]
        BY <1>8, <2>1 DEF CommitGraph, Becomes
    <2> QED
        BY <2>2, KeepingTell
<1> QED
    BY <1>3, <1>4, <1>5, <1>6, <1>7, <1>8 DEF Enrich

(* DeadlockVictim preserves TellInv. *)
LEMMA DeadlockVictimTell ==
    ASSUME Inv, TellInv, NEW s \in Sessions, DeadlockVictim(s)
    PROVE  TellInv'
<1>1. Holders(s) # {}
    BY DEF DeadlockVictim
<1>2. InGraph(ses[s])
    BY <1>1 DEF Holders, InGraph
<1>3. /\ ses' = [ses EXCEPT ![s] = GraphDone(ses[s], FALSE)]
      /\ UNCHANGED <<graphEnabled, db, births, completed>>
    BY DEF DeadlockVictim, Becomes, HistoryUnchanged
<1> QED
    BY <1>2, <1>3, AbandoningTell

(* Fail preserves TellInv. *)
LEMMA FailTell == ASSUME Inv, TellInv, NEW s \in Sessions, Fail(s) PROVE TellInv'
<1>1. CASE IngestFails(s)
    <2>1. PICK code \in {"embedding_provider_error", "knowledge_store_unavailable"} :
              ses' = [ses EXCEPT ![s] = Answered(ses[s], code)]
        BY <1>1 DEF IngestFails, Becomes
    <2>2. /\ UNCHANGED <<graphEnabled, completed>>
          /\ UNCHANGED <<db, births>> \/ KeepDocument(s)
        BY <1>1 DEF IngestFails
    <2>3. db \subseteq db'
        BY <2>2 DEF KeepDocument
    <2>4. births' = births \/ (\E b : b.by = s /\ births' = births \cup {b})
        BY <2>2 DEF KeepDocument
    <2> QED
        BY <2>1, <2>2, <2>3, <2>4, FailingTell
<1>2. CASE EnrichFails(s)
    <2>1. /\ InGraph(ses[s]) /\ ses' = [ses EXCEPT ![s] = GraphDone(ses[s], FALSE)]
          /\ UNCHANGED <<graphEnabled, births>>
          /\ UNCHANGED <<db, completed>> \/ (ses[s].pc = "save" /\ KeepGraph(s))
        BY <1>2 DEF EnrichFails, Becomes
    <2>2. CASE UNCHANGED <<db, completed>>
        BY <2>1, <2>2, AbandoningTell
    <2>3. CASE ses[s].pc = "save" /\ KeepGraph(s)
        <3>1. PICK ok \in BOOLEAN : ok = FALSE
            OBVIOUS
        <3>2. ses' = [ses EXCEPT ![s] = GraphDone(ses[s], ok)]
            BY <2>1, <3>1
        <3> QED
            BY <2>1, <2>3, <3>2, KeepingTell
    <2> QED
        BY <2>1, <2>2, <2>3
<1>3. CASE EnrichBreaks(s)
    <2>1. InGraph(ses[s])
        BY <1>3 DEF EnrichBreaks, AtEdges, InGraph
    <2>2. /\ ses' = [ses EXCEPT ![s] = GraphDone(ses[s], FALSE)]
          /\ UNCHANGED <<graphEnabled, db, births, completed>>
        BY <1>3 DEF EnrichBreaks, Becomes
    <2> QED
        BY <2>1, <2>2, AbandoningTell
<1> QED
    BY <1>1, <1>2, <1>3 DEF Fail

(* Crash preserves TellInv. *)
LEMMA CrashTell == ASSUME Inv, TellInv, Crash PROVE TellInv'
<1>1. UNCHANGED <<graphEnabled, db, births, completed>>
    BY DEF Crash
<1>2. ASSUME NEW s \in Sessions
      PROVE  Told(s, ses[s])'
    <2>1. OwnBirths(s)' = OwnBirths(s) /\ OwnGraphs(s)' = OwnGraphs(s)
        BY <1>1 DEF OwnBirths, OwnGraphs
    <2>2. CASE ses[s].pc \in {"idle", "answered"}
        <3>1. ses'[s] = ses[s]
            BY <2>2 DEF Crash
        <3>2. Told(s, ses[s]) /\ db \subseteq db'
            BY <1>1 DEF TellInv
        <3> QED
            BY <1>1, <2>1, <3>1, <3>2, ToldKept
    <2>3. CASE ses[s].pc \notin {"idle", "answered"}
        <3>1. PICK q, code : code = "lost" /\ q = Answered(ses[s], code)
            OBVIOUS
        <3>2. ses'[s] = q
            BY <2>3, <3>1 DEF Crash
        <3>3. IsSession(ses[s])
            BY DEF Inv, At
        <3>4. q.pc = "answered" /\ q.answer = code
            BY <3>1, <3>3, AnsweredSession
        <3> QED
            BY <3>1, <3>2, <3>4, TellingFailure
    <2> QED
        BY <2>2, <2>3
<1>3. /\ IsFiniteSet(births)' /\ IsFiniteSet(completed)'
      /\ \A e \in completed' : \E x \in Documents' : x.id = e.doc
    BY <1>1 DEF TellInv, Documents
<1> QED
    BY <1>2, <1>3 DEF TellInv

(* TellInv speaks of the variables only. *)
LEMMA StutterTell == ASSUME TellInv, UNCHANGED vars PROVE TellInv'
<1>1. UNCHANGED <<graphEnabled, db, births, completed, ses>>
    BY DEF vars
<1>2. ASSUME NEW s \in Sessions
      PROVE  Told(s, ses[s])'
    <2>1. OwnBirths(s)' = OwnBirths(s) /\ OwnGraphs(s)' = OwnGraphs(s)
        BY <1>1 DEF OwnBirths, OwnGraphs
    <2>2. Told(s, ses[s]) /\ db \subseteq db' /\ ses'[s] = ses[s]
        BY <1>1 DEF TellInv
    <2> QED
        BY <1>1, <2>1, <2>2, ToldKept
<1>3. /\ IsFiniteSet(births)' /\ IsFiniteSet(completed)'
      /\ \A e \in completed' : \E x \in Documents' : x.id = e.doc
    BY <1>1 DEF TellInv, Documents
<1> QED
    BY <1>2, <1>3 DEF TellInv

(* TellInv holds initially. *)
LEMMA InitTell == Init => TellInv
<1>1. SUFFICES ASSUME Init PROVE TellInv
    OBVIOUS
<1>2. births = {} /\ completed = {} /\ IsFiniteSet({})
    BY <1>1, FS_EmptySet DEF Init
<1>3. ASSUME NEW s \in Sessions
      PROVE  Told(s, ses[s])
    <2>1. ses[s].pc = "idle"
        BY <1>1, IdleSession DEF Init
    <2>2. OwnBirths(s) = {} /\ OwnGraphs(s) = {}
        BY <1>2 DEF OwnBirths, OwnGraphs
    <2> QED
        BY <2>1, <2>2 DEF Told, Ingesting, InGraph
<1> QED
    BY <1>2, <1>3 DEF TellInv

(* AnswersAreTrue is what is said of a request that was told "ok". *)
LEMMA TruthOfTelling == Inv /\ TellInv => AnswersAreTrue
<1>1. SUFFICES ASSUME Inv, TellInv, NEW s \in Sessions, ses[s].pc = "answered", ses[s].answer = "ok"
               PROVE  LET r == ses[s]
                          n == Len(r.report.ids)
                          own == {b \in births : b.by = s}
                      IN  /\ n = Len(r.asked)
                          /\ \A i \in 1..n :
                                WholeDocument(r.report.ids[i], r.asked[i]) \subseteq db
                          /\ Cardinality(own) = n - r.report.duplicates
                          /\ r.kind = "sync" =>
                              r.report.enriched + r.report.failed =
                                  IF r.enrich /\ graphEnabled
                                  THEN n - r.report.duplicates ELSE 0
                          /\ Cardinality({e \in completed : e.by = s}) >= r.report.enriched
                          /\ r.kind = "enrich" =>
                                \E e \in completed : e.by = s /\ e.doc = r.doc
    BY DEF AnswersAreTrue
<1>2. /\ Reported(s, ses[s], 0) /\ Len(ses[s].report.ids) = Len(ses[s].asked)
      /\ ses[s].kind = "enrich" => \E e \in OwnGraphs(s) : e.doc = ses[s].doc
    BY <1>1 DEF TellInv, Told
<1>3. /\ OwnBirths(s) = {b \in births : b.by = s}
      /\ OwnGraphs(s) = {e \in completed : e.by = s}
    BY DEF OwnBirths, OwnGraphs
<1>4. ses[s].kind = "enrich" => \E e \in completed : e.by = s /\ e.doc = ses[s].doc
    BY <1>2, <1>3
<1>5. ses[s].kind = "sync" =>
        ses[s].report.enriched + ses[s].report.failed =
            IF ses[s].enrich /\ graphEnabled
            THEN Len(ses[s].report.ids) - ses[s].report.duplicates ELSE 0
    <2>1. IsSession(ses[s])
        BY <1>1 DEF Inv, At
    <2>2. Len(ses[s].report.ids) - ses[s].report.duplicates - 0 =
            Len(ses[s].report.ids) - ses[s].report.duplicates
        BY <2>1 DEF IsSession
    <2> QED
        BY <1>2, <2>2, Zenon DEF Reported
<1> QED
    BY <1>2, <1>3, <1>4, <1>5, ZenonT(60) DEF Reported

(* What a request is told is so, for any number of requests and wherever    *)
(* they fail: every document it names is stored whole with the content it   *)
(* asked for, the counts of a sync add up, and an enrichment reported as    *)
(* completed was committed (KnowledgeIngestionService, the connector's      *)
(* sync and the graph routes).                                              *)
THEOREM AnswersSafe == Spec => []AnswersAreTrue
<1>1. Init => TellInv
    BY InitTell
<1>2. Inv /\ TellInv /\ [Next]_vars => TellInv'
    <2>1. SUFFICES ASSUME Inv, TellInv, [Next]_vars PROVE TellInv'
        OBVIOUS
    <2>2. ASSUME NEW s \in Sessions,
                 Arrive(s) \/ Ingest(s) \/ Enrich(s) \/ DeadlockVictim(s) \/ Fail(s)
          PROVE  TellInv'
        BY <2>1, <2>2, ArriveTell, IngestTell, EnrichTell, DeadlockVictimTell, FailTell
    <2> QED
        BY <2>1, <2>2, CrashTell, StutterTell DEF Next
<1>3. Inv /\ TellInv => AnswersAreTrue
    BY TruthOfTelling
<1> QED
    BY <1>1, <1>2, <1>3, Invariance, PTL DEF Spec
=============================================================================
