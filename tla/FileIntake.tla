------------------------------ MODULE FileIntake -------------------------------
(***************************************************************************)
(* What an uploaded file goes through before the knowledge tables are      *)
(* touched: name, size, type, parser, metadata, request.  A file is a      *)
(* record of what the checks look at:                                      *)
(*   name       FALSE if nothing is left of the filename after sanitizing  *)
(*   bytes      its length                                                 *)
(*   extension  of the sanitized name, folded                              *)
(*   mime       the format the reported MIME type stands for               *)
(*   signature  the format its bytes show: "pdf", "docx", "text" (no NUL)  *)
(*   body       what the parser meets: "text", "damaged", "encrypted",     *)
(*              "undecodable"                                              *)
(*   letters    characters of its text that are not white space            *)
(*   metadata, title, fits  whether the form fields and the limits of      *)
(*              KnowledgeDocumentCreate are met                            *)
(*   content    the normalized text                                        *)
(***************************************************************************)
EXTENDS Naturals, FiniteSetsExt

CONSTANTS
    MaxUploadBytes,    \* MAX_UPLOAD_SIZE_MB, in bytes
    MinPdfCharacters   \* below this a PDF is taken for a scan

FORMAT_BY_EXTENSION ==
    [e \in {"pdf", "docx", "txt", "md"} |->
        IF e = "md" THEN "markdown" ELSE e]

(* Markdown may be reported as plain text, not the other way round. *)
MIME_TYPES ==
    [e \in DOMAIN FORMAT_BY_EXTENSION |->
        IF e = "md" THEN {"markdown", "txt"} ELSE {FORMAT_BY_EXTENSION[e]}]

Signature(format) == IF format \in {"txt", "markdown"} THEN "text" ELSE format

sanitize_filename(f) == IF f.name THEN {} ELSE {"unsupported_file_type"}

(* It asks for one byte more than the limit, and no more. *)
read_bounded(f) == IF f.bytes > MaxUploadBytes THEN {"file_too_large"} ELSE {}

select(f) ==
    IF f.bytes = 0 THEN {"empty_file"}
    ELSE IF \/ f.extension \notin DOMAIN FORMAT_BY_EXTENSION
            \/ f.mime \notin MIME_TYPES[f.extension]
            \/ f.signature # Signature(FORMAT_BY_EXTENSION[f.extension])
    THEN {"unsupported_file_type"} ELSE {}

PdfParse(f) ==
    CASE f.body = "encrypted" -> {"encrypted_pdf"}
      [] f.body = "text"      ->
            IF f.letters < MinPdfCharacters THEN {"ocr_required"} ELSE {}
      [] OTHER                -> {"document_parse_failed"}

DocxParse(f) ==
    IF f.body # "text" \/ f.letters = 0 THEN {"document_parse_failed"} ELSE {}

(* Markdown is decoded by the text parser. *)
TextParse(f) ==
    IF f.body = "undecodable" THEN {"text_decode_failed"}
    ELSE IF f.letters = 0 THEN {"document_parse_failed"} ELSE {}

parse(f) ==
    CASE f.extension = "pdf"  -> PdfParse(f)
      [] f.extension = "docx" -> DocxParse(f)
      [] OTHER                -> TextParse(f)

parse_upload_metadata(f) == IF f.metadata THEN {} ELSE {"invalid_upload_metadata"}

build_request(f) ==
    IF ~f.title THEN {"invalid_upload_metadata"}
    ELSE IF ~f.fits THEN {"document_parse_failed"} ELSE {}

(* The stages in order: the first one that refuses decides. *)
Refusal(f) ==
    LET stages == <<sanitize_filename(f), read_bounded(f), select(f), parse(f),
                    parse_upload_metadata(f), build_request(f)>>
        refusing == {i \in DOMAIN stages : stages[i] # {}}
    IN  IF refusing = {} THEN {} ELSE stages[Min(refusing)]
=============================================================================
