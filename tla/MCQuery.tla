-------------------------------- MODULE MCQuery --------------------------------
(* An instance of Query for TLC: one source, a report or the notes of a session. *)
EXTENDS Query, Parsers

CONSTANTS f1, v1, v2, t1, wA, wB

OneFile == <<f1>>
OwnSlug == [f \in {f1} |-> t1]

-----------------------------------------------------------------------------
(* Documents *)

CONSTANTS MaxBlocks

UpTo(n, S) == UNION {[1 .. k -> S] : k \in 1 .. n}

Paragraph(style, level, media) ==
    [block |-> "paragraph", style |-> style, level |-> level, media |-> media]

DocxFiles ==
    LET blocks == {Paragraph("heading", n, 0) : n \in 1 .. 3}
                  \cup {Paragraph("paragraph", 0, 1), Paragraph("list_item", 0, 0)}
                  \cup {[block |-> "table", rows |-> rows] : rows \in {<<TRUE>>, <<TRUE, FALSE, TRUE, TRUE>>}}
    IN  [blocks : UpTo(MaxBlocks - 1, blocks), parts : {{}}]
        \cup [blocks : UpTo(1, blocks), parts : {{"macros"}}]

PptxFiles ==
    LET text   == [shape |-> "text"]
        shapes == {<<>>, <<text>>, <<[shape |-> "media"], text>>,
                   <<[shape |-> "table", rows |-> <<TRUE, TRUE>>], text>>}
        slides == [title : BOOLEAN, shapes : shapes, notes : BOOLEAN]
    IN  [slides : UpTo(2, slides), parts : {{}}] \cup [slides : UpTo(1, slides), parts : {{"macros"}}]

XlsxFiles == [sheets : UpTo(2, {<<>>} \cup UpTo(3, BOOLEAN)), parts : {{}, {"chart", "macros"}}]

Span(font, noise) == [font |-> font, noise |-> noise]

\* Two pages and entries of them, one without a title, or a page of large and small
\* print.
PdfFiles ==
    LET entries == [level : 1 .. 2, titled : {TRUE}, page : 1 .. 2]
                   \cup {[level |-> 1, titled |-> FALSE, page |-> 2]}
        pages   == {<<>>, <<Span(10, FALSE), Span(10, FALSE)>>}
        spans   == {Span(10, FALSE), Span(10, TRUE), Span(13, FALSE), Span(15, FALSE)}
    IN  [toc : UpTo(MaxBlocks - 1, entries), pages : {<<p, q>> : p, q \in pages}]
        \cup [toc : {<<>>}, pages : {<<p>> : p \in UpTo(MaxBlocks, spans)}]

NoFront == [type |-> None, date |-> None, workspace |-> None]

Block(kind, level, keys, workspace) ==
    [block |-> kind, level |-> level, keys |-> keys, workspace |-> workspace]

Line           == Block("line", 0, {}, None)
Noted(w, keys) == Block("entry", 0, keys, w)

MdFiles ==
    LET blocks == {Block("heading", n, {}, None) : n \in 1 .. 3} \cup {Line}
    IN  [front : {NoFront}, dated : {None}, blocks : UpTo(MaxBlocks, blocks)]

Documents ==
    {ParseMd(file, TRUE) : file \in MdFiles} \cup {ParseDocx(file) : file \in DocxFiles}
    \cup {ParsePptx(file, TRUE) : file \in PptxFiles} \cup {ParseXlsx(file) : file \in XlsxFiles}
    \cup {ParsePdf(file) : file \in PdfFiles}

\* What is ingested: a pdf of two headings, the second with a paragraph below it,
\* or a plain one; the notes of a day, cut into an entry on each of two workspaces,
\* or notes whose entries lack something and stay lines of the text.
Report ==
    ParsePdf([pages |-> <<<<>>, <<Span(10, FALSE)>>>>,
              toc   |-> [i \in 1 .. 2 |-> [level |-> 1, titled |-> TRUE, page |-> i]]])

Leaflet ==
    ParsePdf([pages |-> <<<<Span(10, FALSE), Span(10, FALSE), Span(10, FALSE)>>>>, toc |-> <<>>])

Diary ==
    ParseMd([front |-> NoFront, dated |-> 1,
             blocks |-> <<Line, Block("heading", 1, {}, None), Noted(wA, RequiredKeys),
                          Line, Noted(wB, RequiredKeys)>>],
            TRUE)

Journal ==
    ParseMd([front |-> [NoFront EXCEPT !.type = "session_daily", !.date = 2], dated |-> None,
             blocks |-> <<Noted(wA, {"workspace_id"}), Noted(wB, {"workspace_id", "tool"}), Line>>],
            TRUE)

Libraries ==
    {[c \in Contents |-> IF c = v1 THEN doc ELSE Leaflet] : doc \in Documents \cup {Report}}
    \cup {[c \in Contents |-> IF c = v1 THEN Diary ELSE Journal]}

NotFound == -1

Spans == << <<0, 2>>, <<1, 9>> >>

-----------------------------------------------------------------------------
(* What is asked *)

OfContent(x, y) == [c \in Contents |-> CASE c = v1 -> x [] c = v2 -> y [] OTHER -> 0]

Question(words, terms, near, workspace, status, ranges) ==
    [words |-> words, close |-> [r \in {"summary", "relation"} |-> 0], names |-> {},
     terms |-> terms, relations |-> words \cap {"impact"}, near |-> near,
     workspace |-> workspace, word |-> None, status |-> status,
     ranges |-> ranges, date |-> None, day |-> "none"]

NoRanges == <<None, None, None>>

\* A relation; how far workspace A has come; what it did from the second back to
\* the first day.
SomeQuestions ==
    { Question({"impact"}, OfContent(3, 1), OfContent(70, 30), None, FALSE, NoRanges),
      Question({}, OfContent(0, 1), OfContent(20, 60), wA, TRUE, NoRanges),
      Question({"summary"}, OfContent(1, 0), OfContent(40, 0), wA, FALSE, <<None, <<2, 1>>, None>>) }

SomeRules ==
    [default_route |-> "vector",
     rules |-> << [id |-> "summary", priority |-> 10, target_route |-> "wiki", secondary |-> None,
                   keywords |-> {"summary"}],
                  [id |-> "relation", priority |-> 20, target_route |-> "graph",
                   secondary |-> "wiki", keywords |-> {"impact"}] >>]

SomeRelations ==
    [c \in Contents |-> CASE c = v1 -> {"impact", "mention"} [] c = v2 -> {"mention"} [] OTHER -> {}]

SomeRankings == {<<>>, <<2, 2, 9>>}

-----------------------------------------------------------------------------

MCInit == library \in Libraries /\ QueryInit

\* Only the two are ingested: what else the documents may be is looked at first.
\* A query that has its answer ends before anything else happens.
MCNext ==
    \/ library[v1] \in {Report, Diary} /\ query.pc # "done" /\ QueryNext
    \/ Finish /\ UNCHANGED <<indexVars, raced, back>>
    \/ library[v1] \notin {Report, Diary} /\ UNCHANGED queryVars

MCSpec == MCInit /\ [][MCNext]_queryVars

\* The report is asked about relations, the diary about sessions.  At most two of
\* the three processes are at work at a time; once a run and an enrichment have
\* overlapped, a query runs alone.  Nothing is asked of a runtime that has lost
\* its manifest.
Bounds ==
    /\ query.pc # "idle" => (Asked.relations # {} <=> library[v1] = Report)
    /\ query.pc # "idle" => IF raced THEN enrich.pc = "idle" /\ job.stage = "idle"
                            ELSE enrich.pc = "idle" \/ job.stage = "idle"
    /\ count.losses > 0 => query.pc = "idle" /\ ~raced

SectionsAgree == count.edits = 0 => \A c \in Contents : SectionsHold(library[c])
=================================================================================
