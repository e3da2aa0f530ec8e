------------------------------- MODULE Retrieval -------------------------------
(***************************************************************************)
(* One search of the knowledge base: RetrievalService.search alone, or     *)
(* HybridRetrievalService.search, which adds GraphRetrievalService.search  *)
(* and goes on without a path that fails with an ApplicationError.  Each   *)
(* statement reads what is committed when it runs, so ingestions and       *)
(* enrichments commit in between (KnowledgeStore: rows are only added, and *)
(* a graph row comes with its chunk, its entities and their mentions).     *)
(*                                                                         *)
(* Entities, relationships and chunks are numbers; their order is the      *)
(* order of the statements' ORDER BY.  How well a chunk or a name fits the *)
(* query is a constant.                                                    *)
(*                                                                         *)
(* A definition introduced by "Faulty variant" is the definition after it  *)
(* with a plausible mistake; the specification does not use it.            *)
(***************************************************************************)
EXTENDS Integers, Sequences, SequencesExt, FiniteSetsExt, Ordering

CONSTANTS
    Similarity,      \* chunk -> similarity to the query
    Threshold,       \* RETRIEVAL_SIMILARITY_THRESHOLD
    TopK,            \* RETRIEVAL_TOP_K
    Matching,        \* entities whose name occurs in the query, longest first
    Edges,           \* relationships [source, target, chunk, confident] that may be stored
    MaxDepth,        \* KNOWLEDGE_GRAPH_MAX_DEPTH
    MaxEntities,     \* KNOWLEDGE_GRAPH_MAX_ENTITIES
    EdgesPerEntity,  \* 8 in the code
    CandidateLimit,  \* names find_matching_query looks at: at least 100 in the code
    MaxCommits       \* commits of other requests during the search

ASSUME BoundAssumption ==
    /\ TopK \in Nat \ {0} /\ MaxDepth \in Nat \ {0} /\ MaxEntities \in Nat \ {0}
    /\ EdgesPerEntity \in Nat \ {0} /\ CandidateLimit >= MaxEntities

(* Rows are numbers, and there are finitely many of them. *)
ASSUME RowAssumption ==
    /\ DOMAIN Similarity \subseteq Int /\ IsFiniteSet(DOMAIN Similarity)
    /\ \A c \in DOMAIN Similarity : Similarity[c] \in Int
    /\ DOMAIN Edges \subseteq Int /\ IsFiniteSet(DOMAIN Edges)
    /\ \A e \in DOMAIN Edges : Edges[e].source \in Int /\ Edges[e].target \in Int
    /\ IsFiniteSet(DOMAIN Matching) /\ DOMAIN Matching \subseteq Int

VARIABLES
    stored,     \* chunks committed
    related,    \* relationships committed, as indices of Edges
    mentions,   \* pairs <<entity, chunk>> committed
    commits,    \* of other requests, so far
    search,     \* the search under way
    before      \* history: the relationships when the traversal began

searchVars == <<stored, related, mentions, commits, search, before>>

Endpoints(e) == {Edges[e].source, Edges[e].target}

(* The mentions that come with a relationship. *)
Grounds(e) == Endpoints(e) \X {Edges[e].chunk}

NoSearch ==
    [pc |-> "idle", mode |-> "none", limit |-> 0, depth |-> 0, vector |-> <<>>,
     vectorError |-> FALSE, seeds |-> {}, visited |-> {}, frontier |-> {}, level |-> 0,
     queue |-> {}, edges |-> {}, bounded |-> FALSE, entities |-> {}, cited |-> {}, evidence |-> {},
     graphError |-> FALSE, answer |-> <<>>, status |-> "none"]

SearchIdle ==
    /\ stored = {} /\ related = {} /\ mentions = {} /\ commits = 0
    /\ search = NoSearch /\ before = {}

(* The tables hold any of the relationships and of the other chunks.  A     *)
(* request may narrow the depth and choose the number of results.           *)
SearchBegin ==
    /\ related \in SUBSET DOMAIN Edges
    /\ mentions = UNION {Grounds(e) : e \in related}
    /\ stored \in {S \in SUBSET DOMAIN Similarity : {Edges[e].chunk : e \in related} \subseteq S}
    /\ commits = 0 /\ before = {}
    /\ \E mode \in {"vector", "hybrid"}, k \in 1..TopK, d \in 1..MaxDepth + 1 :
        search = [NoSearch EXCEPT !.pc = "similar", !.mode = mode, !.limit = k,
                                  !.depth = Min({d, MaxDepth})]

-----------------------------------------------------------------------------
(* Commits of other requests. *)

IngestCommits ==
    \E c \in DOMAIN Similarity \ stored :
        stored' = stored \cup {c} /\ UNCHANGED <<related, mentions>>

EnrichmentCommits ==
    \E e \in DOMAIN Edges \ related :
        /\ Edges[e].chunk \in stored
        /\ related' = related \cup {e}
        /\ mentions' = mentions \cup Grounds(e)
        /\ UNCHANGED stored

OtherCommits ==
    /\ search.pc \notin {"idle", "done"}
    /\ commits < MaxCommits /\ commits' = commits + 1
    /\ IngestCommits \/ EnrichmentCommits
    /\ UNCHANGED <<search, before>>

-----------------------------------------------------------------------------
(* RetrievalService.search. *)

Goes(s) ==
    /\ search' = s
    /\ UNCHANGED <<stored, related, mentions, commits>>

(* The chunks within the threshold, best first. *)
search_similar ==
    LET fit == {c \in stored : Similarity[c] >= Threshold}
        better == {p \in fit \X fit :
                    \/ Similarity[p[1]] > Similarity[p[2]]
                    \/ Similarity[p[1]] = Similarity[p[2]] /\ p[1] < p[2]}
    IN  First(InOrder(fit, better), search.limit)

Evidence(c, source, score) == [chunk |-> c, source |-> source, score |-> score]

(* A search without the graph answers with the chunks, or with the error. *)
VectorOnly(s, status) ==
    [s EXCEPT !.pc = "done", !.status = status,
              !.answer = [i \in DOMAIN s.vector |-> Evidence(s.vector[i], "vector", TRUE)]]

VectorSearch ==
    /\ search.pc = "similar"
    /\ LET s == [search EXCEPT !.vector = search_similar]
       IN  Goes(IF search.mode = "hybrid" THEN [s EXCEPT !.pc = "match"] ELSE VectorOnly(s, "ok"))
    /\ UNCHANGED before

(* embed_texts or the statement fails with an ApplicationError. *)
VectorFails ==
    /\ search.pc = "similar"
    /\ Goes(IF search.mode = "hybrid"
            THEN [search EXCEPT !.pc = "match", !.vectorError = TRUE]
            ELSE VectorOnly(search, "failed"))
    /\ UNCHANGED before

-----------------------------------------------------------------------------
(* GraphRetrievalService.search. *)

Known == {m[1] : m \in mentions}

Candidates == Lowest(Known, CandidateLimit)

find_matching_query ==
    LET matches == {i \in DOMAIN Matching : Matching[i] \in Candidates}
    IN  {Matching[i] : i \in Lowest(matches, MaxEntities)}

(* The relationships one level of the traversal reads. *)
Incident(frontier) ==
    {e \in related : Edges[e].confident /\ Endpoints(e) \cap frontier # {}}

LevelEdges(frontier) == Lowest(Incident(frontier), MaxEntities * EdgesPerEntity)

(* Faulty variant: an edge is kept although an endpoint is left out. *)
FollowKeeping(s, e) ==
    LET new == Endpoints(e) \ s.visited
        full == new # {} /\ Cardinality(s.visited) + Cardinality(new) > MaxEntities
    IN  IF full THEN [s EXCEPT !.bounded = TRUE, !.edges = @ \cup {e}]
        ELSE [s EXCEPT !.edges = @ \cup {e}, !.visited = @ \cup new, !.frontier = @ \cup new]

(* One edge of a level: it is skipped when its endpoints no longer fit. *)
Follow(s, e) ==
    LET new == Endpoints(e) \ s.visited
        full == new # {} /\ Cardinality(s.visited) + Cardinality(new) > MaxEntities
    IN  IF full THEN [s EXCEPT !.bounded = TRUE]
        ELSE [s EXCEPT !.edges = @ \cup {e}, !.visited = @ \cup new, !.frontier = @ \cup new]

(* Faulty variant: the evidence of the other path replaces an item. *)
MergedReplacing(s) ==
    LET only == SelectSeq(s.vector, LAMBDA c : c \notin s.evidence)
    IN  [i \in DOMAIN only |-> Evidence(only[i], "vector", TRUE)]
        \o [i \in 1..Cardinality(s.evidence) |->
                LET c == InOrder(s.evidence, Ascending(s.evidence))[i]
                IN  Evidence(c, IF c \in Range(s.vector) THEN "both" ELSE "graph", FALSE)]

(* The two paths by chunk: vector evidence first, with its scores. *)
Merged(s) ==
    LET new == s.evidence \ Range(s.vector)
        extra == InOrder(new, Ascending(new))
    IN  [i \in DOMAIN s.vector |->
            Evidence(s.vector[i], IF s.vector[i] \in s.evidence THEN "both" ELSE "vector", TRUE)]
        \o [i \in DOMAIN extra |-> Evidence(extra[i], "graph", FALSE)]

(* GraphRelationshipResult: an edge without its endpoints or provenance is  *)
(* left out.                                                                *)
Shown(s) ==
    {e \in s.edges : Endpoints(e) \subseteq s.entities /\ Edges[e].chunk \in s.evidence}

(* The hybrid answer, and build_hybrid_rag_context's first decision. *)
Finished(s) ==
    [s EXCEPT !.pc = "done", !.answer = Merged(s),
              !.status = IF Merged(s) = <<>> /\ Shown(s) = {} THEN "no_evidence" ELSE "ok"]

Match ==
    /\ search.pc = "match"
    /\ LET seeds == find_matching_query
           s == [search EXCEPT !.seeds = seeds, !.visited = seeds, !.frontier = seeds]
       IN  Goes(IF seeds = {} THEN Finished(s) ELSE [s EXCEPT !.pc = "expand"])
    /\ before' = related

(* The statement of one level: its rows are what the loop goes through. *)
Expand ==
    LET edges == LevelEdges(search.frontier)
    IN  /\ search.pc = "expand"
        /\ Goes(IF edges = {} THEN [search EXCEPT !.pc = "entities"]
                ELSE [search EXCEPT !.pc = "follow", !.queue = edges, !.frontier = {},
                                    !.level = @ + 1,
                                    !.bounded = @ \/ edges # Incident(search.frontier)])
        /\ UNCHANGED before

(* The loop takes the next row; after the last one comes the next level. *)
FollowEdge ==
    /\ search.pc = "follow"
    /\ \E e \in search.queue :
        /\ \A f \in search.queue : e <= f
        /\ LET s == Follow([search EXCEPT !.queue = @ \ {e}], e)
           IN  Goes(IF s.queue # {} THEN s
                    ELSE [s EXCEPT !.pc = IF s.level = s.depth \/ s.frontier = {}
                                          THEN "entities" ELSE "expand"])
    /\ UNCHANGED before

LoadEntities ==
    /\ search.pc = "entities"
    /\ Goes([search EXCEPT !.pc = "mentions", !.entities = search.visited \cap Known])
    /\ UNCHANGED before

LoadMentions ==
    /\ search.pc = "mentions"
    /\ Goes([search EXCEPT !.pc = "evidence",
                !.cited = {m[2] : m \in {n \in mentions : n[1] \in search.visited}}
                          \cup {Edges[e].chunk : e \in search.edges}])
    /\ UNCHANGED before

_load_graph_evidence ==
    /\ search.pc = "evidence"
    /\ Goes(Finished([search EXCEPT !.evidence = search.cited \cap stored]))
    /\ UNCHANGED before

(* A statement fails with a SQLAlchemyError, which becomes an               *)
(* ApplicationError: rollback, and the graph adds nothing.                  *)
GraphFails ==
    /\ search.pc \in {"match", "expand", "entities", "mentions", "evidence"}
    /\ Goes(Finished([NoSearch EXCEPT !.mode = search.mode, !.limit = search.limit,
                                      !.depth = search.depth, !.vector = search.vector,
                                      !.vectorError = search.vectorError, !.graphError = TRUE]))
    /\ UNCHANGED before

(* Any other exception, of the embedding (openai.py hands on what it does   *)
(* not know) or of a statement, is nobody's: the search ends with it.       *)
SearchRaises ==
    /\ search.pc \in {"similar", "match", "expand", "entities", "mentions", "evidence"}
    /\ Goes([NoSearch EXCEPT !.pc = "done", !.mode = search.mode, !.limit = search.limit,
                             !.depth = search.depth, !.status = "raised"])
    /\ UNCHANGED before

SearchNext ==
    \/ OtherCommits \/ VectorSearch \/ VectorFails \/ Match
    \/ Expand \/ FollowEdge \/ LoadEntities \/ LoadMentions \/ _load_graph_evidence
    \/ GraphFails \/ SearchRaises

-----------------------------------------------------------------------------
(* Properties. *)

Entities == Range(Matching) \cup UNION {Endpoints(e) : e \in DOMAIN Edges}

(* The walks of n steps from A; a step stays or follows an edge of E. *)
Walks(A, E, n) ==
    {w \in [0..n -> Entities] :
        /\ w[0] \in A
        /\ \A k \in 1..n : w[k] = w[k - 1] \/ \E e \in E : {w[k - 1], w[k]} \subseteq Endpoints(e)}

(* The entities within n of the edges in E from A. *)
Within(A, E, n) == {w[n] : w \in Walks(A, E, n)}

(***************************************************************************)
(* The neighborhood is what its bounds say, although its statements see    *)
(* different states of the tables: no more than MAX_ENTITIES entities,     *)
(* each within the depth of a match along returned relationships; every    *)
(* returned relationship has both endpoints and its source chunk, so the   *)
(* service drops none; every entity has evidence.  Unless a limit was met, *)
(* nothing is missing of the graph as it was when the traversal began.     *)
(***************************************************************************)
NeighborhoodIsExact ==
    LET s == search
        solid == {e \in before : Edges[e].confident}
    IN  (s.pc = "done" /\ s.mode = "hybrid" /\ ~s.graphError /\ s.status # "raised") =>
        /\ Cardinality(s.entities) <= MaxEntities
        /\ s.entities \subseteq Within(s.seeds, s.edges, s.depth)
        /\ Shown(s) = s.edges
        /\ \A x \in s.entities : \E c \in s.evidence : <<x, c>> \in mentions
        /\ ~s.bounded =>
            /\ Within(s.seeds, solid, s.depth) \subseteq s.entities
            /\ \A e \in solid :
                Endpoints(e) \cap Within(s.seeds, solid, s.depth - 1) # {} => e \in s.edges

(***************************************************************************)
(* No ApplicationError of a path fails a hybrid search (any other          *)
(* exception does, and then there is no answer), and its paths are never   *)
(* mixed up: a chunk appears once, labelled by the paths that found it,    *)
(* with a score exactly when the vector path did (the context formats the  *)
(* score of those); a path that fails takes nothing from the other; and    *)
(* the context says that there is no evidence only when neither path has   *)
(* any.  Without the graph an ApplicationError is the caller's.            *)
(***************************************************************************)
HybridDegrades ==
    LET s == search
        vector == Range(s.vector)
    IN  s.pc = "done" =>
        /\ s.status = "failed" => s.mode = "vector"
        /\ s.status = "raised" => s.answer = <<>>
        /\ (s.mode = "hybrid" /\ s.status # "raised") =>
            /\ \A i, j \in DOMAIN s.answer : s.answer[i].chunk = s.answer[j].chunk => i = j
            /\ {x.chunk : x \in Range(s.answer)} = vector \cup s.evidence
            /\ \A x \in Range(s.answer) :
                /\ x.source \in {"vector", "both"} <=> x.chunk \in vector
                /\ x.source \in {"graph", "both"} <=> x.chunk \in s.evidence
                /\ x.score <=> x.chunk \in vector
            /\ s.vectorError => vector = {}
            /\ s.graphError => s.evidence = {} /\ Shown(s) = {}
            /\ s.status = "no_evidence" <=> (vector = {} /\ s.evidence = {})
=============================================================================
