------------------------------- MODULE Chunking --------------------------------
(***************************************************************************)
(* normalize_text, the loop of chunk_text and the provenance of chunks.    *)
(* A text is a sequence of characters, of which the algorithm tells apart  *)
(* three: a letter, a space and a line break.  Offsets are the code's:     *)
(* character o is text[o + 1], and [a, b) is a slice.                      *)
(*                                                                         *)
(* The input is what a parser returns: segments that are not blank, whose  *)
(* texts joined by an empty line are the document's text.                  *)
(*                                                                         *)
(* A definition introduced by "Faulty variant" is the definition after it  *)
(* with a plausible mistake; the specification does not use it.            *)
(***************************************************************************)
EXTENDS Integers, Sequences, SequencesExt

CONSTANTS
    Space, LineBreak,  \* the characters strip() removes
    SegmentLists,      \* sequences of segments to index
    ChunkSettings      \* pairs <<chunk_size, overlap>>

ASSUME SettingsAssumption ==
    \A c \in ChunkSettings : c[1] \in Nat \ {0} /\ c[2] \in 0..c[1] - 1

VARIABLES
    segments,   \* of the document
    settings,   \* CHUNK_SIZE and CHUNK_OVERLAP
    text,       \* the normalized content
    start,      \* of the next chunk
    chunks,     \* [start, end] of the chunks so far
    chunking    \* "idle", "loop", "done"

chunkVars == <<segments, settings, text, start, chunks, chunking>>

-----------------------------------------------------------------------------
White == {Space, LineBreak}

(* The positions of t that hold no white space. *)
Solid(t) == {i \in DOMAIN t : t[i] \notin White}

RStrip(t) == IF Solid(t) = {} THEN <<>> ELSE SubSeq(t, 1, Max(Solid(t)))

Strip(t) == IF Solid(t) = {} THEN <<>> ELSE SubSeq(t, Min(Solid(t)), Max(Solid(t)))

Lines(t) ==
    FoldLeft(LAMBDA ls, c : IF c = LineBreak THEN Append(ls, <<>>)
                            ELSE [ls EXCEPT ![Len(ls)] = Append(@, c)],
             <<<<>>>>, t)

Join(ts, separator) ==
    FoldLeft(LAMBDA t, u : t \o separator \o u, Head(ts), Tail(ts))

(* Lines lose trailing space, runs of blank lines shrink to one. *)
normalize_text(t) ==
    LET kept ==
            FoldLeft(LAMBDA acc, line :
                        LET clean == RStrip(line)
                        IN  [lines |-> IF \/ clean # <<>>
                                          \/ acc.lines # <<>> /\ ~acc.blank
                                       THEN Append(acc.lines, clean) ELSE acc.lines,
                             blank |-> clean = <<>>],
                     [lines |-> <<>>, blank |-> FALSE], Lines(t)).lines
    IN  IF kept = <<>> THEN <<>> ELSE Strip(Join(kept, <<LineBreak>>))

(* str.rfind and str.find: the offsets at which u occurs within [a, b). *)
Occurrences(t, u, a, b) ==
    {o \in a..b - Len(u) : SubSeq(t, o + 1, o + Len(u)) = u}

(* The latest paragraph, line or word boundary of [a, b), or b. *)
Boundary(t, a, b) ==
    LET paragraph == Occurrences(t, <<LineBreak, LineBreak>>, a, b)
        line      == Occurrences(t, <<LineBreak>>, a, b)
        word      == Occurrences(t, <<Space>>, a, b)
    IN  CASE paragraph # {} -> Max(paragraph)
          [] paragraph = {} /\ line # {} -> Max(line)
          [] paragraph = {} /\ line = {} /\ word # {} -> Max(word)
          [] OTHER -> b

ChunkEnd ==
    LET size == settings[1]
        end  == Min({start + size, Len(text)})
    IN  IF end < Len(text) THEN Boundary(text, Min({start + size \div 2, end}), end) ELSE end

(* The slice without the white space at its ends, if anything is left. *)
Trimmed(a, b) ==
    LET solid == {i \in Solid(text) : i > a /\ i <= b}
    IN  IF solid = {} THEN <<>>
        ELSE <<[start |-> Min(solid) - 1, end |-> Max(solid)]>>

Source(segs) == Join(segs, <<LineBreak, LineBreak>>)

(* normalize_text returns a string. *)
ASSUME TextAssumption ==
    \A s \in SegmentLists :
        LET t == normalize_text(Source(s))
        IN  t \in Seq(Range(t))

-----------------------------------------------------------------------------
ChunkIdle ==
    /\ segments = <<>> /\ settings = <<1, 0>> /\ text = <<>> /\ start = 0 /\ chunks = <<>>
    /\ chunking = "idle"

ChunkBegin ==
    /\ segments \in SegmentLists /\ settings \in ChunkSettings
    /\ text = normalize_text(Source(segments))
    /\ start = 0 /\ chunks = <<>>
    /\ chunking = "loop"

(* Faulty variant: the overlap may take the loop back. *)
NextChunkLooping ==
    /\ chunking = "loop"
    /\ chunks' = chunks \o Trimmed(start, ChunkEnd)
    /\ start' = ChunkEnd - settings[2]
    /\ chunking' = IF ChunkEnd >= Len(text) THEN "done" ELSE "loop"
    /\ UNCHANGED <<segments, settings, text>>

(* One iteration of chunk_text. *)
ChunkNext ==
    /\ chunking = "loop"
    /\ chunks' = chunks \o Trimmed(start, ChunkEnd)
    /\ start' = Max({ChunkEnd - settings[2], start + 1})
    /\ chunking' = IF ChunkEnd >= Len(text) THEN "done" ELSE "loop"
    /\ UNCHANGED <<segments, settings, text>>

-----------------------------------------------------------------------------
(* Faulty variant: each is looked for from the top. *)
build_provenance_spans_from_top ==
    FoldLeft(LAMBDA acc, i :
                LET piece == normalize_text(segments[i])
                    places == Occurrences(text, piece, 0, Len(text))
                IN  IF piece = <<>> \/ places = {} THEN acc
                    ELSE Append(acc, [start |-> Min(places), segment |-> i,
                                      end |-> Min(places) + Len(piece)]),
             <<>>, [i \in DOMAIN segments |-> i])

(* Where the segments lie in the text: each is looked for after the one     *)
(* before it, and left out when it is not found.                            *)
build_provenance_spans ==
    FoldLeft(LAMBDA acc, i :
                LET piece == normalize_text(segments[i])
                    places == Occurrences(text, piece, acc.cursor, Len(text))
                IN  IF piece = <<>> \/ places = {} THEN acc
                    ELSE [spans |-> Append(acc.spans, [start |-> Min(places), segment |-> i,
                                                       end |-> Min(places) + Len(piece)]),
                          cursor |-> Min(places) + Len(piece)],
             [spans |-> <<>>, cursor |-> 0], [i \in DOMAIN segments |-> i]).spans

(* The segments, that is pages and sections, a chunk is attributed to. *)
chunk_provenance(c) ==
    LET spans == build_provenance_spans
    IN  {spans[i].segment : i \in {j \in DOMAIN spans :
            c.start < spans[j].end /\ c.end > spans[j].start}}

-----------------------------------------------------------------------------
(***************************************************************************)
(* What chunk_text cuts a text into is the text: its loop always advances; *)
(* the chunks are slices within chunk_size that begin and end with a       *)
(* character that is no white space, in order; and, although a boundary    *)
(* may lie where the slice begins and the overlap may exceed what a slice  *)
(* adds, they miss no character.  In particular a text that is not empty   *)
(* has a chunk.                                                            *)
(***************************************************************************)
ChunksCoverText ==
    /\ Len(chunks) <= Len(text)
    /\ \A i \in DOMAIN chunks :
        /\ {chunks[i].start + 1, chunks[i].end} \subseteq Solid(text)
        /\ chunks[i].end - chunks[i].start \in 1..settings[1]
        /\ i > 1 => /\ chunks[i - 1].start <= chunks[i].start
                    /\ chunks[i - 1].end <= chunks[i].end
    /\ chunking = "done" =>
        \A p \in Solid(text) :
            \E i \in DOMAIN chunks : chunks[i].start < p /\ p <= chunks[i].end

(* Normalisation only touches white space, so the k-th solid character of   *)
(* the text is the k-th of the segments: the segment that has it.           *)
Origin(position) ==
    LET k == Cardinality({i \in Solid(text) : i <= position})
        upTo(i) == MapThenSumSet(LAMBDA j : Cardinality(Solid(segments[j])), 1..i)
    IN  Min({i \in DOMAIN segments : k <= upTo(i)})

(***************************************************************************)
(* What is indexed of a document is the document: normalizing the text     *)
(* once more, as chunk_text does, moves no offset; and a chunk is          *)
(* attributed to exactly the pages or sections its characters come from.   *)
(***************************************************************************)
IndexIsFaithful ==
    chunking = "done" =>
        /\ normalize_text(text) = text
        /\ \A i \in DOMAIN chunks :
            chunk_provenance(chunks[i]) =
                {Origin(p) : p \in {q \in Solid(text) : chunks[i].start < q /\ q <= chunks[i].end}}
=============================================================================
