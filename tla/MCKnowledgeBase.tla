---------------------------- MODULE MCKnowledgeBase ----------------------------
(* A model-checking instance of KnowledgeBase: two requests, one content of *)
(* one chunk and one of two, two names, a sync of a fresh and a repeated    *)
(* document, and one upload for every way FileIntake refuses a file.        *)
EXTENDS KnowledgeBase

SomeChunkCount == [c \in Contents |-> IF c = "c1" THEN 1 ELSE 2]

TextFile ==
    [name |-> TRUE, bytes |-> 2, extension |-> "txt", mime |-> "txt",
     signature |-> "text", body |-> "text", letters |-> 2, metadata |-> TRUE,
     title |-> TRUE, fits |-> TRUE, content |-> "c1"]

PdfFile ==
    [TextFile EXCEPT !.extension = "pdf", !.mime = "pdf", !.signature = "pdf"]

SomeFiles ==
    {TextFile,
     [TextFile EXCEPT !.extension = "md"],
     [TextFile EXCEPT !.mime = "markdown"],
     [TextFile EXCEPT !.bytes = 3],
     [TextFile EXCEPT !.bytes = 0],
     [TextFile EXCEPT !.body = "undecodable"],
     [TextFile EXCEPT !.title = FALSE],
     [PdfFile EXCEPT !.body = "encrypted"],
     [PdfFile EXCEPT !.letters = 1],
     [PdfFile EXCEPT !.extension = "docx", !.mime = "docx", !.signature = "docx",
                     !.letters = 0]}

SomePages == {<<"c1", "c2">>, <<"c1", "malformed">>, <<"c1", "c1", "c1">>}

SomeExtractions ==
    [c \in Contents |-> IF c = "c1" THEN <<{<<"a", "b">>, <<"b", "a">>}>>
                        ELSE <<{<<>>}, {<<"a">>}>>]

SomeRelations == {<<"a", "b">>}
=============================================================================
