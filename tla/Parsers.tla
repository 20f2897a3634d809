--------------------------------- MODULE Parsers ---------------------------------
(***************************************************************************)
(* What the parsers (hks.ingest.parsers) find in a file: its segments, in  *)
(* order, or a body.  A file is given by what it shows:                    *)
(*   docx   blocks: a paragraph [style, level, media] whose style is       *)
(*          "heading", "list_item", "paragraph" or "none" for one without  *)
(*          text, with the pictures in it, or a table                      *)
(*   pptx   slides [title, shapes, notes], a shape being "text", "media",  *)
(*          "none" or a table                                              *)
(*   xlsx   sheets, each a table                                           *)
(*   pdf    pages, each its spans [font, noise], and the table of contents *)
(*          [level, titled, page]                                          *)
(*   md     blocks [block, level, keys, workspace], the block being        *)
(*          "heading", "line" or "entry" with the keys it has; and what its *)
(*          front matter says, [type, date, workspace], and the date in its *)
(*          text or its name                                               *)
(* A table is the sequence of its rows, each TRUE if a cell is not empty;  *)
(* macros, charts, ... are the parts of the package.  Every piece of text  *)
(* is of one size.                                                         *)
(***************************************************************************)
EXTENDS PageTrees

CONSTANTS
    NoNote,         \* for what nothing is said of
    PieceSize

LOCAL INSTANCE SequencesExt

Segment(kind, level)    == [kind |-> kind, level |-> level, size |-> PieceSize]
Copies(n, kind)         == [i \in 1 .. n |-> Segment(kind, 0)]
Joined(s, Segments(_))  == FlattenSeq([i \in DOMAIN s |-> Segments(s[i])])
If(condition, segments) == IF condition THEN segments ELSE <<>>

NoNotes == [type |-> NoNote, date |-> NoNote, workspace |-> NoNote, lines |-> {},
            entries |-> <<>>, ends |-> <<>>]

\* segments_to_body: the segments follow on each other in the text.
Laid(segments) ==
    LET end[i \in 0 .. Len(segments)] == IF i = 0 THEN 0 ELSE end[i - 1] + segments[i].size
    IN  [i \in DOMAIN segments |->
            [kind |-> segments[i].kind, level |-> segments[i].level,
             at |-> end[i - 1], size |-> segments[i].size]]

Parsed(format, rich, segments, notes) ==
    [format |-> format, rich |-> rich, exact |-> TRUE, segments |-> Laid(segments),
     length |-> LET laid == Laid(segments) IN IF laid = <<>> THEN 0 ELSE EndOf(Last(laid)),
     notes |-> notes]

\* A text of so many pieces, in which no structure is found.
Body(format, pieces, notes) ==
    [Parsed(format, FALSE, <<>>, notes) EXCEPT !.length = pieces * PieceSize]

-----------------------------------------------------------------------------
(* Office files.  A package that holds macros, or in a workbook other parts, *)
(* says so at the end.                                                       *)

\* _parse_table, _append_table: a segment for every row below the header that is
\* not empty, or one for the header alone.
TableRows(rows) ==
    LET filled == IF rows = <<>> THEN <<>> ELSE SelectSeq(Tail(rows), LAMBDA row : row)
    IN  Copies(IF rows # <<>> /\ filled = <<>> THEN 1 ELSE Len(filled), "table_row")

\* _parse_paragraph
ParagraphSegments(b) ==
    If(b.style # "none", <<Segment(b.style, b.level)>>) \o Copies(b.media, "placeholder")

PackageNotes(parts) == Copies(Cardinality(parts), "placeholder")

ParseDocx(file) ==
    LET ofBlock(b) == IF b.block = "table" THEN TableRows(b.rows) ELSE ParagraphSegments(b)
        segments   == Joined(file.blocks, ofBlock) \o PackageNotes(file.parts \cap {"macros"})
    IN  Parsed("docx", TRUE, segments, NoNotes)

\* On a slide the text comes before the tables, these before what is only named,
\* and the notes last, if they are asked for.
ParsePptx(file, notes) ==
    LET shapes(s, kind, Segments(_)) ==
            Joined(SelectSeq(s.shapes, LAMBDA shape : shape.shape = kind), Segments)
        ofSlide(s) ==
            <<Segment("slide_header", 0)>>
            \o If(s.title, <<Segment("heading", 3)>>)
            \o shapes(s, "text",  LAMBDA shape : Copies(1, "paragraph"))
            \o shapes(s, "table", LAMBDA shape : TableRows(shape.rows))
            \o shapes(s, "media", LAMBDA shape : Copies(1, "placeholder"))
            \o If(notes /\ s.notes, Copies(1, "notes"))
        segments == Joined(file.slides, ofSlide) \o PackageNotes(file.parts \cap {"macros"})
    IN  Parsed("pptx", TRUE, segments, NoNotes)

\* The first row of a sheet is the header of the others, and no segment.
ParseXlsx(file) ==
    LET ofSheet(rows) ==
            <<Segment("sheet_header", 0)>>
            \o If(rows # <<>>, Copies(Len(SelectSeq(Tail(rows), LAMBDA row : row)), "table_row"))
    IN  Parsed("xlsx", TRUE, Joined(file.sheets, ofSheet) \o PackageNotes(file.parts), NoNotes)

-----------------------------------------------------------------------------
(* pdf *)

\* _page_range_text: the spans on the pages of an entry; two entries of one page
\* both have all of it.
PageRange(pages, page, next) ==
    Joined(SubSeq(pages, page, Least({Greatest({next - 1, page}), Len(pages)})), LAMBDA p : p)

\* _segments_from_toc; what stands before the page of the first entry is dropped.
SegmentsFromToc(file) ==
    LET ofEntry(i) ==
            LET e    == file.toc[i]
                next == IF i < Len(file.toc) THEN file.toc[i + 1].page ELSE Len(file.pages) + 1
                text == PageRange(file.pages, e.page, next)
            IN  If(e.titled,
                   <<Segment("heading", e.level)>>
                   \o If(text # <<>>, <<[Segment("paragraph", 0) EXCEPT !.size = @ * Len(text)]>>))
    IN  Joined(Indices(file.toc), ofEntry)

\* _baseline_font_size: the smallest of the most frequent ones.
BaselineFont(spans) ==
    LET count(size) == Cardinality({i \in DOMAIN spans : spans[i].font = size})
        fonts       == {spans[i].font : i \in DOMAIN spans}
    IN  Least({x \in fonts : \A y \in fonts : count(y) <= count(x)})

\* _heading_level; 0 for a text.
HeadingLevel(font, base) ==
    CASE 10 * font >= 15 * base -> 1
      [] 10 * font < 15 * base /\ 10 * font >= 13 * base -> 2
      [] OTHER -> 0

\* _segments_from_font_heuristic: large spans are headings, what stands between
\* them is one paragraph; page numbers and single letters are dropped.
SegmentsFromFonts(file) ==
    LET all   == FlattenSeq(file.pages)
        spans == SelectSeq(all, LAMBDA s : ~s.noise)
        level == [i \in DOMAIN spans |-> HeadingLevel(spans[i].font, BaselineFont(all))]
        next(i) == Least({Len(spans) + 1} \cup {j \in i + 1 .. Len(spans) : level[j] > 0})
        opens(i) == level[i] = 0 /\ (i > 1 => level[i - 1] > 0)
        ofSpan(i) ==
            If(level[i] > 0, <<Segment("heading", level[i])>>)
            \o If(opens(i), <<[Segment("paragraph", 0) EXCEPT !.size = @ * (next(i) - i)]>>)
    IN  IF \A i, j \in DOMAIN all : all[i].font = all[j].font THEN <<>>
        ELSE IF \A i \in DOMAIN spans : level[i] = 0 THEN <<>>
        ELSE Joined(Indices(spans), ofSpan)

ParsePdf(file) ==
    LET segments == IF file.toc # <<>> THEN SegmentsFromToc(file) ELSE SegmentsFromFonts(file)
    IN  IF segments = <<>> THEN Body("pdf", Len(FlattenSeq(file.pages)), NoNotes)
        ELSE Parsed("pdf", TRUE, segments, NoNotes)

-----------------------------------------------------------------------------
(* md *)

\* _is_session_entry_pairs
RequiredKeys == {"workspace_id", "evidence_id", "tool", "session_id"}
IsSessionEntry(b) == b.block = "entry" /\ RequiredKeys \subseteq b.keys

\* _SESSION_ENTRY_RE, in the chunks of a text, each decoded into a single line: one
\* that begins with an entry and ends with another, or the same, is taken for an
\* entry of the workspace of the last.  Words joined again leave no entry at all.
LineEnds(blocks, windows) ==
    LET entries  == {i \in DOMAIN blocks : blocks[i].block = "entry"}
        opens(w) == \E i \in entries : w.at = (i - 1) * PieceSize
        last(w)  == {blocks[i].workspace : i \in
                        {j \in entries : w.at + w.size = j * PieceSize
                                         /\ "workspace_id" \in blocks[j].keys}}
    IN  [k \in DOMAIN windows |->
            IF opens(windows[k]) /\ last(windows[k]) # {}
            THEN CHOOSE w \in last(windows[k]) : TRUE ELSE NoNote]

\* _session_segments: of a text with entries only these are kept, below its first
\* heading; any other stays as it is, its headings found in the text later.
\* With tokens, the model for texts gives them back as they were, blanks included.
ParseMd(file, tokens) ==
    LET entries == SelectSeq(file.blocks, IsSessionEntry)
        first   == SelectInSeq(file.blocks, LAMBDA b : b.block = "heading")
        kept    == If(first # 0, <<file.blocks[first]>>) \o entries
        kind(b) == CASE b.block = "heading" -> "heading"
                     [] b.block = "entry"   -> IF entries # <<>> THEN "session_entry" ELSE "paragraph"
                     [] b.block = "line"    -> "paragraph"
        segments(blocks) == [i \in DOMAIN blocks |-> Segment(kind(blocks[i]), blocks[i].level)]
        plain   == Parsed("md", FALSE, segments(file.blocks), NoNotes)
        named   == {b \in {file.blocks[i] : i \in DOMAIN file.blocks} :
                       b.block = "entry" /\ "workspace_id" \in b.keys}
    IN  IF entries = <<>>
        THEN [plain EXCEPT !.notes =
                    [type |-> file.front.type, date |-> file.front.date,
                     workspace |-> file.front.workspace,
                     lines |-> {b.workspace : b \in named}, entries |-> <<>>,
                     ends |-> IF tokens THEN LineEnds(file.blocks, Windows(plain)) ELSE <<>>]]
        ELSE Parsed("md", TRUE, segments(kept),
                    [type |-> IF file.front.type # NoNote THEN file.front.type ELSE "session_daily",
                     date |-> IF file.front.date # NoNote THEN file.front.date ELSE file.dated,
                     workspace |-> file.front.workspace, lines |-> {}, ends |-> <<>>,
                     entries |-> [i \in DOMAIN kept |-> IF kept[i].block = "entry"
                                                        THEN kept[i].workspace ELSE NoNote]])

=============================================================================
