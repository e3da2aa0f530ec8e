---------------------------- MODULE KnowledgeStore -----------------------------
(***************************************************************************)
(* What the knowledge tables promise whoever reads them: a commit adds one *)
(* whole document, or graph rows extracted from one stored document, and   *)
(* leaves the graph grounded.  Nothing is ever taken away.                 *)
(***************************************************************************)
EXTENDS KnowledgeTables

CONSTANT DocumentIds

VARIABLE db

(* README.md, "V6 capability": every entity is linked to the chunk where it *)
(* appeared, every relationship has source-chunk provenance, and one name   *)
(* is one entity.                                                           *)
Grounded(rows) ==
    /\ \A k \in Provenance(rows) : ChunkRow(k[1], k[2]) \in rows
    /\ \A m \in Of(rows, "mention") : \E e \in Of(rows, "entity") : e.id = m.entity
    /\ \A g \in Of(rows, "relationship") :
        /\ g.source # g.target
        /\ {MentionRow(g.source, g.chunk), MentionRow(g.target, g.chunk)} \subseteq rows
    /\ \A e \in Of(rows, "entity") : \E m \in Of(rows, "mention") : m.entity = e.id
    /\ \A r1, r2 \in Of(rows, "entity") : r1.name = r2.name => r1 = r2

Added == db' \ db

AddDocument ==
    \E d \in DocumentIds, c \in Contents :
        /\ \A r \in Of(db, "document") : r.id # d
        /\ Added = WholeDocument(d, c)

AddGraph ==
    /\ Added = GraphRows(Added)
    /\ \E d \in DocumentIds : \A k \in Provenance(Added) : k[1] = d

(* A sync whose enrichment ended in an exception that enrich does not       *)
(* handle still has the rows of that enrichment in its transaction, and the *)
(* commit of its next document stores them.                                 *)
AddLeftovers ==
    \E d \in DocumentIds, c \in Contents :
        /\ \A r \in Of(db, "document") : r.id # d
        /\ Added \ GraphRows(Added) = WholeDocument(d, c)
        /\ \A k \in Provenance(Added) : k[1] # d

Init == db = {}

Next ==
    /\ db \subseteq db'
    /\ Grounded(db')
    /\ AddDocument \/ AddGraph \/ AddLeftovers

Spec == Init /\ [][Next]_db
=============================================================================
