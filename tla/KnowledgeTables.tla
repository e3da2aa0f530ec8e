---------------------------- MODULE KnowledgeTables ----------------------------
(***************************************************************************)
(* The five knowledge tables, as one set of rows.  Titles, texts, vectors, *)
(* descriptions, confidences and time stamps are left out: a document is   *)
(* its content_hash, a chunk its (document_id, chunk_index), an entity its *)
(* identity (entity_type, normalized_name), here one name.                 *)
(***************************************************************************)
EXTENDS Naturals, FiniteSets

CONSTANTS
    Contents,     \* normalized contents, told apart by their SHA-256
    ChunkCount    \* content -> how many chunks chunk_text makes of it

ASSUME ContentAssumption == ChunkCount \in [Contents -> Nat \ {0}]

DocumentRow(d, c) == [table |-> "document", id |-> d, content |-> c]

ChunkRow(d, i) == [table |-> "chunk", document |-> d, index |-> i]

EntityRow(e, n) == [table |-> "entity", id |-> e, name |-> n]

(* A chunk k is <<document, index>>. *)
MentionRow(e, k) == [table |-> "mention", entity |-> e, chunk |-> k]

EdgeRow(a, b, k) ==
    [table |-> "relationship", source |-> a, target |-> b, chunk |-> k]

Of(rows, t) == {r \in rows : r.table = t}

(* The unique constraint of each table: a document's content_hash has an    *)
(* index and no constraint, so its key is its id.                           *)
Key(r) ==
    CASE r.table = "document" -> <<"document", r.id>>
      [] r.table = "entity"   -> <<"entity", r.name>>
      [] OTHER                -> <<r.table, r>>

Keys(rows) == {Key(r) : r \in rows}

(* What one ingestion stores. *)
WholeDocument(d, c) ==
    {DocumentRow(d, c)} \cup {ChunkRow(d, i) : i \in 1..ChunkCount[c]}

GraphRows(rows) == {r \in rows : r.table \in {"entity", "mention", "relationship"}}

(* The chunks graph rows were extracted from. *)
Provenance(rows) ==
    {r.chunk : r \in Of(rows, "mention") \cup Of(rows, "relationship")}
=============================================================================
