----------------------------- MODULE KnowledgeBase -----------------------------
(***************************************************************************)
(* The writers of the knowledge tables: POST /documents, POST /files,      *)
(* POST /documents/{id}/graph and the sync of the policy repository, any   *)
(* number of them at once, each with a database session of its own.        *)
(*                                                                         *)
(* External (PostgreSQL at READ COMMITTED): a statement sees what is       *)
(* committed and what its own transaction has flushed; inserting a unique  *)
(* key that another open transaction has inserted waits for that           *)
(* transaction; inserting one that is committed fails; a cycle of waits is *)
(* broken by failing one of its members; closing a session rolls it back.  *)
(*                                                                         *)
(* External (the model): extraction returns some names of a chunk in some  *)
(* order, and some relationships between them.                             *)
(*                                                                         *)
(* Rows are never deleted, so the chunk count of a duplicate is read with  *)
(* it; the update of an empty entity description is left out.              *)
(*                                                                         *)
(* A definition introduced by "Faulty variant" is the definition after it  *)
(* with a plausible mistake; the specification does not use it.            *)
(***************************************************************************)
EXTENDS KnowledgeTables, FileIntake, Sequences

CONSTANTS
    MaxSessions,   \* requests
    DocumentIds,   \* 1..the number of documents ever created
    Blank,         \* a content of which normalize_text leaves nothing
    Malformed,     \* a fetched document KnowledgeDocumentCreate refuses
    Files,         \* uploads, as FileIntake describes them
    Pages,         \* sequences of contents the policy repository returns
    MaxDocuments,  \* POLICY_REPOSITORY_MAX_DOCUMENTS
    Extractions,   \* content -> chunk index -> sequences of names the model finds
    Relations,     \* pairs of names the model relates
    MaxFaults      \* failures of the database, of a provider or of the process

ASSUME PagesAssumption == Pages \subseteq Seq(Contents \cup {Blank, Malformed})
ASSUME ExtractionsAssumption ==
    \A c \in Contents : \A i \in 1..ChunkCount[c] : \A names \in Extractions[c][i] :
        names \in Seq({names[j] : j \in DOMAIN names})

(* Requests are numbered as they arrive. *)
Sessions == 1..MaxSessions

VARIABLES
    graphEnabled,  \* whether get_graph_enrichment_service builds a service
    db,            \* the committed rows
    pending,       \* session -> rows it has flushed and not committed
    ses,           \* session -> what its request is doing
    nextId,        \* creation order of documents
    faults,        \* failures so far
    births,        \* history: how each stored document came to be created
    completed,     \* history: enrichments that were committed
    leftovers      \* history: rows an unhandled exception left in a session

vars == <<graphEnabled, db, pending, ses, nextId, faults, births, completed, leftovers>>

Report == [ids |-> <<>>, duplicates |-> 0, enriched |-> 0, failed |-> 0]

Idle ==
    [pc |-> "idle", kind |-> "none", enrich |-> FALSE, asked |-> <<>>,
     known |-> {}, doc |-> 0, chunk |-> 0, queue |-> <<>>,
     named |-> <<>>, rows |-> {}, report |-> Report, answer |-> "none"]

Init ==
    /\ graphEnabled \in BOOLEAN
    /\ db = {}
    /\ pending = [s \in Sessions |-> {}]
    /\ ses = [s \in Sessions |-> Idle]
    /\ nextId = 1 /\ faults = 0
    /\ births = {} /\ completed = {} /\ leftovers = {}

Visible(s) == db \cup pending[s]

StoredContents == {r.content : r \in Of(db, "document")}

(* The request answers, and its session is closed. *)
Answered(r, code) ==
    [Idle EXCEPT !.pc = "answered", !.answer = code, !.kind = r.kind, !.enrich = r.enrich,
                 !.asked = r.asked, !.doc = r.doc, !.report = r.report]

(* What a step leaves of session s: r, with flushed rows p. *)
Becomes(s, r, p) ==
    /\ ses' = [ses EXCEPT ![s] = r]
    /\ pending' = [pending EXCEPT ![s] = IF r.pc = "answered" THEN {} ELSE p]

HistoryUnchanged == UNCHANGED <<births, completed, leftovers>>

-----------------------------------------------------------------------------
(* Requests. *)

Request(kind, asked, enrich) ==
    [Idle EXCEPT !.pc = "ingest", !.kind = kind, !.asked = asked,
                 !.enrich = enrich, !.known = StoredContents]

Begin(s, r) ==
    /\ ses[s].pc = "idle" /\ \A t \in 1..s - 1 : ses[t].pc # "idle"
    /\ Becomes(s, r, {})
    /\ UNCHANGED <<graphEnabled, db, nextId, faults>> /\ HistoryUnchanged

ingest_document(s) ==
    \E c \in Contents \cup {Blank} : Begin(s, Request("create", <<c>>, FALSE))

ingest_file(s) ==
    \E f \in Files, enrich \in BOOLEAN :
        LET r == Request("upload", <<f.content>>, enrich)
        IN  \/ Refusal(f) = {} /\ Begin(s, r)
            \/ \E code \in Refusal(f) : Begin(s, Answered(r, code))

enrich_document_graph(s) ==
    \E d \in 1..nextId :
        LET r == [Request("enrich", <<>>, TRUE) EXCEPT !.pc = "graph", !.doc = d]
        IN  Begin(s, IF graphEnabled THEN r
                     ELSE Answered(r, "knowledge_graph_disabled"))

(* sync: the page is fetched and validated as a whole first. *)
sync(s) ==
    \E page \in Pages, enrich \in BOOLEAN :
        LET r == Request("sync", page, enrich)
        IN  Begin(s, CASE Len(page) > MaxDocuments ->
                                Answered(r, "invalid_connector_response")
                       [] page = <<>> -> Answered(r, "ok")
                       [] OTHER -> r)

FetchFails(s) ==
    Begin(s, Answered(Request("sync", <<>>, FALSE), "connector_unavailable"))

-----------------------------------------------------------------------------
(* KnowledgeIngestionService.ingest. *)

(* The content of the document the request is at. *)
Current(r) == r.asked[Len(r.report.ids) + 1]

(* The next document of a sync, or the answer. *)
Proceed(r) ==
    IF Len(r.report.ids) < Len(r.asked) THEN [r EXCEPT !.pc = "ingest"]
    ELSE Answered(r, "ok")

(* Faulty variant: a sync enriches the documents it already had. *)
IngestedAlways(r, d, duplicate) ==
    LET told == [r EXCEPT !.doc = d, !.report.ids = Append(@, d),
                          !.report.duplicates = IF duplicate THEN @ + 1 ELSE @]
    IN  IF r.enrich /\ graphEnabled THEN [told EXCEPT !.pc = "graph"] ELSE Proceed(told)

(* ingest returned: an upload enriches a duplicate too, a sync does not. *)
Ingested(r, d, duplicate) ==
    LET told == [r EXCEPT !.doc = d, !.report.ids = Append(@, d),
                          !.report.duplicates = IF duplicate THEN @ + 1 ELSE @]
    IN  IF r.enrich /\ graphEnabled /\ (r.kind = "sync" => ~duplicate)
        THEN [told EXCEPT !.pc = "graph"]
        ELSE Proceed(told)

(* Faulty variant: only uploads look for a duplicate. *)
find_by_content_hash_of_uploads(s) ==
    {x.id : x \in {y \in Of(Visible(s), "document") :
                        ses[s].kind = "upload" /\ y.content = Current(ses[s])}}

(* The earliest of these is the answer; POST /documents does not ask. *)
find_by_content_hash(s) ==
    {x.id : x \in {y \in Of(Visible(s), "document") :
                        ses[s].kind # "create" /\ y.content = Current(ses[s])}}

(* A document of a sync that does not validate; a content that is empty.    *)
Refuse(s) ==
    /\ ses[s].pc = "ingest"
    /\ \/ /\ Current(ses[s]) = Malformed
          /\ Becomes(s, Answered(ses[s], "invalid_connector_response"), {})
       \/ /\ Current(ses[s]) = Blank
          /\ Becomes(s, Answered(ses[s], "empty_knowledge_document"), {})
    /\ UNCHANGED <<graphEnabled, db, nextId, faults>> /\ HistoryUnchanged

Reuse(s) ==
    /\ ses[s].pc = "ingest"
    /\ find_by_content_hash(s) # {}
    /\ Becomes(s, Ingested(ses[s], Min(find_by_content_hash(s)), TRUE), pending[s])
    /\ UNCHANGED <<graphEnabled, db, nextId, faults>> /\ HistoryUnchanged

(* The lookup finds nothing and the document row is flushed: other sessions *)
(* see neither, so the two statements are one step.                         *)
CreateDocument(s) ==
    /\ ses[s].pc = "ingest" /\ Current(ses[s]) \in Contents
    /\ find_by_content_hash(s) = {}
    /\ nextId \in DocumentIds
    /\ Becomes(s, [ses[s] EXCEPT !.pc = "embed", !.doc = nextId],
               pending[s] \cup {DocumentRow(nextId, Current(ses[s]))})
    /\ nextId' = nextId + 1
    /\ UNCHANGED <<graphEnabled, db, faults>> /\ HistoryUnchanged

(* Faulty variant: the document is committed before its chunks are embedded. *)
EmbedCommitting(s) ==
    LET r == ses[s]
    IN  /\ r.pc = "embed"
        /\ Becomes(s, [r EXCEPT !.pc = "commit"],
                   {ChunkRow(r.doc, i) : i \in 1..ChunkCount[Current(r)]})
        /\ db' = db \cup pending[s]
        /\ UNCHANGED <<graphEnabled, nextId, faults>> /\ HistoryUnchanged

(* chunk_text and embed_texts, with the document row flushed; then          *)
(* bulk_create.                                                             *)
Embed(s) ==
    LET r == ses[s]
    IN  /\ r.pc = "embed"
        /\ Becomes(s, [r EXCEPT !.pc = "commit"],
                   pending[s] \cup {ChunkRow(r.doc, i) : i \in 1..ChunkCount[Current(r)]})
        /\ UNCHANGED <<graphEnabled, db, nextId, faults>> /\ HistoryUnchanged

(* What the database keeps of the transaction that stores a document. *)
KeepDocument(s) ==
    /\ db' = db \cup pending[s]
    /\ births' = births \cup {[id |-> ses[s].doc, content |-> Current(ses[s]), by |-> s,
                               deduplicated |-> ses[s].kind # "create",
                               known |-> ses[s].known]}

CommitDocument(s) ==
    /\ ses[s].pc = "commit"
    /\ KeepDocument(s)
    /\ Becomes(s, Ingested(ses[s], ses[s].doc, FALSE), {})
    /\ UNCHANGED <<graphEnabled, nextId, faults, completed, leftovers>>

(* An ApplicationError or SQLAlchemyError: rollback, and the request fails, *)
(* a sync with it.  A commit may have happened although it reports failure. *)
IngestFails(s) ==
    /\ ses[s].pc \in {"ingest", "embed", "commit"}
    /\ faults < MaxFaults /\ faults' = faults + 1
    /\ Becomes(s, Answered(ses[s], IF ses[s].pc = "embed" THEN "embedding_provider_error"
                                   ELSE "knowledge_store_unavailable"), {})
    /\ \/ UNCHANGED <<db, births>>
       \/ ses[s].pc = "commit" /\ KeepDocument(s)
    /\ UNCHANGED <<graphEnabled, nextId, completed, leftovers>>

-----------------------------------------------------------------------------
(* KnowledgeGraphEnrichmentService.enrich. *)

(* How enrichment ends for the request: only POST .../graph fails with it. *)
GraphDone(r, ok) ==
    IF r.kind = "enrich" THEN Answered(r, IF ok THEN "ok" ELSE "knowledge_graph_error")
    ELSE Proceed([r EXCEPT !.report.enriched = IF ok THEN @ + 1 ELSE @,
                           !.report.failed = IF ok THEN @ ELSE @ + 1])

ReadDocument(s) ==
    LET found == \E r \in Of(Visible(s), "document") : r.id = ses[s].doc
    IN  /\ ses[s].pc = "graph"
        /\ Becomes(s, IF found THEN [ses[s] EXCEPT !.pc = "extract", !.chunk = 1, !.rows = {}]
                      ELSE Answered(ses[s], "knowledge_document_not_found"),
                   pending[s])
        /\ UNCHANGED <<graphEnabled, db, nextId, faults>> /\ HistoryUnchanged

(* The statements that store the names of one chunk, then the second call. *)
EntityItems(names) ==
    [i \in 1..2 * Len(names) + 1 |->
        IF i > 2 * Len(names) THEN [kind |-> "edges"]
        ELSE [kind |-> IF i % 2 = 1 THEN "entity" ELSE "mention",
              name |-> names[(i + 1) \div 2]]]

(* The accepted entities of a chunk have distinct identities, at most       *)
(* graph_max_entities_per_chunk of them.                                    *)
ExtractEntities(s) ==
    LET r == ses[s]
        last == ChunkRow(r.doc, r.chunk) \notin db
        text == (CHOOSE x \in Of(db, "document") : x.id = r.doc).content
    IN  /\ r.pc = "extract"
        /\ \/ last /\ Becomes(s, [r EXCEPT !.pc = "save"], pending[s])
           \/ ~last /\ \E names \in Extractions[text][r.chunk] :
                Becomes(s, [r EXCEPT !.pc = "select", !.named = <<>>,
                                     !.queue = EntityItems(names)], pending[s])
        /\ UNCHANGED <<graphEnabled, db, nextId, faults>> /\ HistoryUnchanged

NextChunk(r) ==
    [r EXCEPT !.pc = "extract", !.chunk = @ + 1, !.queue = <<>>, !.named = <<>>]

(* The current statement is done. *)
Consume(r) ==
    IF Len(r.queue) = 1 THEN NextChunk(r)
    ELSE [r EXCEPT !.pc = "select", !.queue = Tail(@)]

AtEdges(r) == r.pc = "select" /\ Head(r.queue).kind = "edges"

(* Relationships between accepted keys only; none without entities. *)
ExtractEdges(s) ==
    LET r == ses[s]
        pairs == {p \in Relations : p[1] # p[2] /\ {p[1], p[2]} \subseteq DOMAIN r.named}
    IN  /\ AtEdges(r)
        /\ \/ Becomes(s, NextChunk(r), pending[s])
           \/ \E p \in pairs :
                Becomes(s, [r EXCEPT !.queue = <<[kind |-> "edge", source |-> p[1],
                                                  target |-> p[2]]>>], pending[s])
        /\ UNCHANGED <<graphEnabled, db, nextId, faults>> /\ HistoryUnchanged

(* The row of the current statement: upsert_entity, add_mention,            *)
(* add_relationship.  A new entity gets an identifier of its own.           *)
Row(s) ==
    LET r == ses[s]
        item == Head(r.queue)
        k == <<r.doc, r.chunk>>
    IN  CASE item.kind = "entity"  -> EntityRow(<<s, item.name>>, item.name)
          [] item.kind = "mention" -> MentionRow(r.named[item.name], k)
          [] item.kind = "edge"    -> EdgeRow(r.named[item.source], r.named[item.target], k)

(* resolved_by_key: the record a name stands for. *)
Resolved(r, row) ==
    [Consume(r) EXCEPT
        !.rows = @ \cup {row},
        !.named = IF row.table # "entity" THEN @
                  ELSE [n \in (DOMAIN @) \cup {row.name} |->
                            IF n = row.name THEN row.id ELSE @[n]]]

SelectRow(s) ==
    LET r == ses[s]
        found == {x \in Visible(s) : Key(x) = Key(Row(s))}
    IN  /\ r.pc = "select" /\ ~AtEdges(r)
        /\ \/ found = {} /\ Becomes(s, [r EXCEPT !.pc = "insert"], pending[s])
           \/ \E x \in found : Becomes(s, Resolved(r, x), pending[s])
        /\ UNCHANGED <<graphEnabled, db, nextId, faults>> /\ HistoryUnchanged

(* The sessions that hold the key s is inserting. *)
Holders(s) ==
    {t \in Sessions \ {s} : ses[s].pc = "insert" /\ Key(Row(s)) \in Keys(pending[t])}

(* Faulty variant: the insert that lost a race is tried again. *)
InsertRowAgain(s) ==
    /\ ses[s].pc = "insert" /\ Holders(s) = {}
    /\ IF Key(Row(s)) \in Keys(db) THEN Becomes(s, ses[s], pending[s])
       ELSE Becomes(s, Resolved(ses[s], Row(s)), pending[s] \cup {Row(s)})
    /\ UNCHANGED <<graphEnabled, db, nextId, faults>> /\ HistoryUnchanged

(* IntegrityError: the whole enrichment is rolled back. *)
InsertRow(s) ==
    /\ ses[s].pc = "insert" /\ Holders(s) = {}
    /\ IF Key(Row(s)) \in Keys(db) THEN Becomes(s, GraphDone(ses[s], FALSE), {})
       ELSE Becomes(s, Resolved(ses[s], Row(s)), pending[s] \cup {Row(s)})
    /\ UNCHANGED <<graphEnabled, db, nextId, faults>> /\ HistoryUnchanged

(* s is one of a set of sessions that wait for each other. *)
DeadlockVictim(s) ==
    /\ \E C \in SUBSET Sessions :
        s \in C /\ \A t \in C : Holders(t) \cap C # {}
    /\ Becomes(s, GraphDone(ses[s], FALSE), {})
    /\ UNCHANGED <<graphEnabled, db, nextId, faults>> /\ HistoryUnchanged

KeepGraph(s) ==
    /\ db' = db \cup pending[s]
    /\ completed' = completed \cup {[doc |-> ses[s].doc, rows |-> ses[s].rows, by |-> s]}

CommitGraph(s) ==
    /\ ses[s].pc = "save"
    /\ KeepGraph(s)
    /\ Becomes(s, GraphDone(ses[s], TRUE), {})
    /\ UNCHANGED <<graphEnabled, nextId, faults, births, leftovers>>

InGraph(r) == r.pc \in {"graph", "extract", "select", "insert", "save"}

(* Faulty variant: the handlers do not roll back. *)
EnrichFailsKeeping(s) ==
    /\ InGraph(ses[s])
    /\ faults < MaxFaults /\ faults' = faults + 1
    /\ Becomes(s, GraphDone(ses[s], FALSE), pending[s])
    /\ UNCHANGED <<graphEnabled, db, nextId, births, completed, leftovers>>

(* ApplicationError, ValueError or SQLAlchemyError: rollback. *)
EnrichFails(s) ==
    /\ InGraph(ses[s])
    /\ faults < MaxFaults /\ faults' = faults + 1
    /\ Becomes(s, GraphDone(ses[s], FALSE), {})
    /\ \/ UNCHANGED <<db, completed>>
       \/ ses[s].pc = "save" /\ KeepGraph(s)
    /\ UNCHANGED <<graphEnabled, nextId, births, leftovers>>

(* Any other exception of a model call: enrich handles none, its callers    *)
(* handle it without a rollback.                                            *)
EnrichBreaks(s) ==
    /\ ses[s].pc = "extract" \/ AtEdges(ses[s])
    /\ faults < MaxFaults /\ faults' = faults + 1
    /\ Becomes(s, GraphDone(ses[s], FALSE), pending[s])
    /\ leftovers' = leftovers \cup pending[s]
    /\ UNCHANGED <<graphEnabled, db, nextId, births, completed>>

-----------------------------------------------------------------------------
(* The process stops; the database rolls back what was not committed. *)
Crash ==
    /\ faults < MaxFaults /\ faults' = faults + 1
    /\ \E s \in Sessions : ses[s].pc \notin {"idle", "answered"}
    /\ ses' = [s \in Sessions |->
                IF ses[s].pc \in {"idle", "answered"} THEN ses[s]
                ELSE Answered(ses[s], "lost")]
    /\ pending' = [s \in Sessions |-> {}]
    /\ UNCHANGED <<graphEnabled, db, nextId, births, completed, leftovers>>

Arrive(s) ==
    \/ ingest_document(s) \/ ingest_file(s) \/ enrich_document_graph(s)
    \/ sync(s) \/ FetchFails(s)

Ingest(s) ==
    Refuse(s) \/ Reuse(s) \/ CreateDocument(s) \/ Embed(s) \/ CommitDocument(s)

Enrich(s) ==
    \/ ReadDocument(s) \/ ExtractEntities(s) \/ ExtractEdges(s)
    \/ SelectRow(s) \/ InsertRow(s) \/ CommitGraph(s)

Fail(s) == IngestFails(s) \/ EnrichFails(s) \/ EnrichBreaks(s)

Next ==
    \/ \E s \in Sessions : Arrive(s) \/ Ingest(s) \/ Enrich(s) \/ DeadlockVictim(s) \/ Fail(s)
    \/ Crash

(* A request goes on as long as it can; the database ends every deadlock. *)
Fairness ==
    \A s \in Sessions : WF_vars(Ingest(s) \/ Enrich(s)) /\ WF_vars(DeadlockVictim(s))

Spec == Init /\ [][Next]_vars /\ Fairness

-----------------------------------------------------------------------------
(* Properties. *)

Store == INSTANCE KnowledgeStore

(***************************************************************************)
(* Whatever requests run at once and wherever they fail or the process     *)
(* dies, the committed tables change only as KnowledgeStore says: a        *)
(* document appears together with all its chunks, graph rows appear with   *)
(* the chunks and mentions they rest on, one name is one entity, and       *)
(* nothing disappears.                                                     *)
(***************************************************************************)
RefinesStore == Store!Spec

(***************************************************************************)
(* enrich is all or nothing: an enrichment that was committed has all its  *)
(* rows in the tables, and every graph row in the tables is of one that    *)
(* was.  The one exception is an exception enrich does not handle, in a    *)
(* sync that goes on to commit another document.                           *)
(***************************************************************************)
GraphIsAtomic ==
    LET whole == UNION {e.rows : e \in completed}
    IN  /\ whole \subseteq db
        /\ GraphRows(db) \ whole \subseteq leftovers
        /\ \A r \in (db \cap leftovers) \ whole : \E b \in births : ses[b.by].kind = "sync"

(***************************************************************************)
(* What a request is told is so: each document it names is stored whole,   *)
(* with the content it asked for; the documents it does not call           *)
(* duplicates are those it stored; an enrichment reported as completed was *)
(* committed, by POST .../graph for that very document; the counts of a    *)
(* sync add up, and with enrichment on every document the sync stored is   *)
(* enriched or counted as failed.                                          *)
(***************************************************************************)
AnswersAreTrue ==
    \A s \in Sessions :
        LET r == ses[s]
            n == Len(r.report.ids)
            own == {b \in births : b.by = s}
        IN  (r.pc = "answered" /\ r.answer = "ok") =>
            /\ n = Len(r.asked)
            /\ \A i \in 1..n : WholeDocument(r.report.ids[i], r.asked[i]) \subseteq db
            /\ Cardinality(own) = n - r.report.duplicates
            /\ r.kind = "sync" =>
                r.report.enriched + r.report.failed =
                    IF r.enrich /\ graphEnabled THEN n - r.report.duplicates ELSE 0
            /\ Cardinality({e \in completed : e.by = s}) >= r.report.enriched
            /\ r.kind = "enrich" => \E e \in completed : e.by = s /\ e.doc = r.doc

(***************************************************************************)
(* Deduplication by content_hash, which no constraint backs: a request     *)
(* that deduplicates never stores a content that was already stored when   *)
(* it began, nor one content twice.  Only requests that overlap can store  *)
(* the same content.                                                       *)
(***************************************************************************)
FirstStoredIsReused ==
    \A b \in births :
        b.deduplicated =>
            /\ b.content \notin b.known
            /\ \A other \in births :
                (other.by = b.by /\ other.content = b.content) => other = b

(***************************************************************************)
(* No request waits forever: enrichments that wait for each other's        *)
(* entities, mentions or relationships are separated by the database, and  *)
(* a lost race ends in an answer.                                          *)
(***************************************************************************)
RequestsAreAnswered ==
    \A s \in Sessions : ses[s].pc # "idle" ~> ses[s].pc = "answered"
=============================================================================
