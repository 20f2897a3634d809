------------------------------- MODULE PageTrees -------------------------------
(***************************************************************************)
(* What a source is cut into: its page tree (hks.page_tree), one node per  *)
(* section of the text, and the chunks of it that the vector store holds   *)
(* (hks.ingest.normalizer), each with the node it is said to lie in.       *)
(*                                                                         *)
(* A document is given by what the parsers find in it and where that lies  *)
(* in the normalized text:                                                 *)
(*   format    decides how the tree is built                               *)
(*   rich      the parser gives segments, not just a body                  *)
(*   exact     the text of a chunk of a body occurs in the body as it is   *)
(*   segments  [kind, level, at, size], in order; at = Nowhere for one     *)
(*             that normalization has changed                              *)
(*   length    of the normalized text                                      *)
(*   notes     what it says of a session: see Query                        *)
(***************************************************************************)
EXTENDS Ordering

LOCAL INSTANCE SequencesExt

CONSTANTS
    ChunkSize, ChunkOverlap,    \* of the chunks of a body
    Nowhere                     \* the offset of a text that is not found

ASSUME PageTreesAssumption ==
    /\ ChunkSize \in Nat \ {0} /\ ChunkOverlap \in Nat
    /\ Nowhere \in Int /\ Nowhere < 0

\* _clamp_offset
Clamped(offset, length) == Least({Greatest({offset, 0}), length})

Indices(s) == [i \in DOMAIN s |-> i]

\* What the parsers and the normalizer give.
IsDocument(doc) ==
    /\ doc.segments \in Seq([kind : STRING, level : Nat, at : Int, size : Nat])
    /\ doc.length \in Nat

-----------------------------------------------------------------------------
(* Trees: their nodes in the order of flat_nodes, each with the place of the *)
(* node it is a child of, or 0.                                              *)

\* The titles of a heading, of the document and of a section given by a model.
Heading(i) == <<"heading", i>>
Whole      == <<"document", 0>>
Section(k) == <<"section", k>>

Node(id, parent, title, level, start, end) ==
    [id |-> id, parent |-> parent, title |-> title, level |-> level,
     start |-> start, end |-> end]

\* _build_single_root
SingleRoot(doc) == << Node(<<1>>, 0, Whole, 1, 0, doc.length) >>

\* _heading_end: the next heading that is not below this one.
HeadingEnd(headings, i, length) ==
    LET next == {j \in i + 1 .. Len(headings) : headings[j].level <= headings[i].level}
    IN  IF next = {} THEN length ELSE headings[Least(next)].start

\* The stack after headings that are not above this level have been popped.
Open(stack, headings, level) ==
    SubSeq(stack, 1, SelectLastInSeq(stack, LAMBDA j : headings[j].level < level))

\* The counters of the levels below this depth are dropped, its own goes up.
Counted(counters, depth) ==
    LET kept   == SubSeq(counters, 1, Least({depth + 1, Len(counters)}))
        padded == IF Len(kept) <= depth THEN Append(kept, 0) ELSE kept
    IN  [padded EXCEPT ![depth + 1] = @ + 1]

\* _headings_to_tree: one pass over the headings, with the stack of those that
\* are open after each, itself the last.
HeadingsToTree(headings, length) ==
    LET open[i \in 0 .. Len(headings)] ==
            IF i = 0 THEN [stack |-> <<>>, counters |-> <<>>]
            ELSE LET before == open[i - 1]
                     stack  == Open(before.stack, headings, headings[i].level)
                 IN  [stack    |-> Append(stack, i),
                      counters |-> Counted(before.counters, Len(stack))]
        node(i) ==
            LET h      == headings[i]
                now    == open[i]
                depth  == Len(now.stack)
                parent == IF depth = 1 THEN 0 ELSE now.stack[depth - 1]
            IN  Node(SubSeq(now.counters, 1, depth), parent, h.title, h.level,
                     Clamped(h.start, length), Clamped(HeadingEnd(headings, i, length), length))
    IN  [i \in DOMAIN headings |-> node(i)]

\* _segment_spans, for one segment.
Found(segment) == segment.at # Nowhere
EndOf(segment) == segment.at + segment.size

\* _build_md reads the headings off the text, _build_docx (and _build_pdf) looks
\* for the segments in it; one that is not found starts at 0.
HeadingsOf(doc) ==
    LET places == Ascending({i \in DOMAIN doc.segments : doc.segments[i].kind = "heading"}) IN
    [k \in DOMAIN places |->
        LET s == doc.segments[places[k]] IN
        [title |-> Heading(places[k]), level |-> s.level,
         start |-> IF Found(s) THEN s.at ELSE 0]]

\* _range_start, _range_end
SpanOf(doc, from, to) ==
    LET found == {i \in from .. to : Found(doc.segments[i])} IN
    IF found = {} THEN <<0, 0>>
    ELSE <<doc.segments[Least(found)].at,
           Greatest({EndOf(doc.segments[i]) : i \in found})>>

\* _build_pptx and _build_xlsx: a node for every slide or sheet, and for the
\* headings of a slide a node below it.
SectionsToTree(doc, header, nested) ==
    LET isHeader(i)   == doc.segments[i].kind = header
        headerOf(i)   == Greatest({0} \cup {j \in 1 .. i : isHeader(j)})
        isChild(i)    == nested /\ doc.segments[i].kind = "heading" /\ headerOf(i) # 0
        places        == Ascending({i \in DOMAIN doc.segments : isHeader(i) \/ isChild(i)})
        last(i)       == LET later == {j \in i + 1 .. Len(doc.segments) : isHeader(j)}
                         IN  IF later = {} THEN Len(doc.segments) ELSE Least(later) - 1
        number(i)     == Cardinality({j \in 1 .. i : isHeader(j)})
        child(i)      == Cardinality({j \in headerOf(i) + 1 .. i : isChild(j)})
        span(i)       == IF isHeader(i) THEN SpanOf(doc, i, last(i)) ELSE SpanOf(doc, i, i)
        id(i)         == IF isHeader(i) THEN <<number(i)>> ELSE <<number(i), child(i)>>
        parent(i)     == IF isHeader(i) THEN 0
                         ELSE SelectInSeq(places, LAMBDA j : j = headerOf(i))
    IN  [k \in DOMAIN places |->
            LET i == places[k] IN
            Node(id(i), parent(i), Heading(i), Len(id(i)), span(i)[1], span(i)[2])]

\* build_page_tree
BuildPageTree(doc) ==
    LET tree == CASE doc.format \in {"md", "docx", "pdf"} ->
                         HeadingsToTree(HeadingsOf(doc), doc.length)
                  [] doc.format = "pptx" -> SectionsToTree(doc, "slide_header", TRUE)
                  [] doc.format = "xlsx" -> SectionsToTree(doc, "sheet_header", FALSE)
                  [] OTHER -> <<>>
    IN  IF tree = <<>> THEN SingleRoot(doc) ELSE tree

\* find_node_for_offset: the first child that covers the offset, and in it again;
\* 0 for none.
FindNodeForOffset(tree, offset) ==
    LET covers(i) == tree[i].start <= offset /\ offset < tree[i].end
        search[p \in 0 .. Len(tree)] ==
            LET hits == {i \in DOMAIN tree : tree[i].parent = p /\ covers(i)}
            IN  IF hits = {} THEN p ELSE search[Least(hits)]
    IN  search[0]

\* section_path, of the node at a place.
SectionPath(tree, place) ==
    LET path[i \in 0 .. Len(tree)] ==
            IF i = 0 THEN <<>> ELSE Append(path[tree[i].parent], tree[i].title)
    IN  path[place]

-----------------------------------------------------------------------------
(* Chunks: where each lies in the text, at = Nowhere if its text does not occur *)
(* in it as it is.                                                           *)

\* chunk: windows over the text of a body, a token being a place of it; none
\* over no text.
Windows(doc) ==
    LET step  == Greatest({1, ChunkSize - ChunkOverlap})
        start(k) == (k - 1) * step
        last  == IF doc.length = 0 THEN 0
                 ELSE Least({k \in 1 .. doc.length : start(k) + ChunkSize >= doc.length})
    IN  [k \in 1 .. last |->
            [at   |-> IF doc.exact THEN start(k) ELSE Nowhere,
             size |-> Least({ChunkSize, doc.length - start(k)})]]

Isolated == {"table_row", "notes", "placeholder", "ocr_text", "session_entry"}

\* segment_aware_chunks: the segments that each chunk joins.  What is carried
\* along is repeated at the head of every chunk of a section.
Groups(doc) ==
    LET flushed(acc) ==
            IF acc.buffer = <<>> THEN acc
            ELSE [acc EXCEPT !.groups = Append(@, acc.carry \o acc.buffer),
                             !.buffer = <<>>, !.tokens = 0]
        alone(acc, i) == [acc EXCEPT !.groups = Append(@, acc.carry \o <<i>>)]
        take(acc, i) ==
            LET s == doc.segments[i] IN
            CASE s.kind \in {"sheet_header", "slide_header"} ->
                    [flushed(acc) EXCEPT !.carry = <<i>>]
              [] s.kind = "heading" ->
                    [alone(flushed(acc), i) EXCEPT
                        !.carry = SubSeq(@, 1, Least({1, Len(@)})) \o <<i>>]
              [] s.kind \in Isolated -> alone(flushed(acc), i)
              [] OTHER ->
                    LET room == IF acc.tokens + s.size > ChunkSize THEN flushed(acc) ELSE acc
                    IN  [room EXCEPT !.buffer = Append(@, i), !.tokens = @ + s.size]
    IN  flushed(FoldLeftDomain(take, [carry |-> <<>>, buffer |-> <<>>, tokens |-> 0,
                                      groups |-> <<>>], doc.segments)).groups

\* The text of a group is in the text as it is if its segments follow on each
\* other there, without a gap.
Located(doc, group) ==
    LET together == \A k \in DOMAIN group :
                       /\ Found(doc.segments[group[k]])
                       /\ k > 1 => doc.segments[group[k]].at = EndOf(doc.segments[group[k - 1]])
        first    == doc.segments[Head(group)]
    IN  IF together
        THEN [at |-> first.at, size |-> EndOf(doc.segments[Last(group)]) - first.at]
        ELSE [at |-> Nowhere, size |-> 0]

Chunks(doc) ==
    IF doc.rich THEN LET groups == Groups(doc)
                     IN  [k \in DOMAIN groups |-> Located(doc, groups[k])]
    ELSE Windows(doc)

\* Variant: every chunk is looked for from the start of the text, which an
\* earlier chunk that is not found does not hold back.
EstimateOffsets_FromStart(chunks) ==
    [k \in DOMAIN chunks |-> IF Found(chunks[k]) THEN chunks[k].at ELSE 0]

\* _estimate_chunk_offset, for all chunks: each is looked for after the end of
\* the last one that was found, and is taken to begin there if it is not found.
EstimateOffsets(chunks) ==
    LET place(acc, k) ==
            LET c == chunks[k]
                found == Found(c) /\ c.at >= acc.cursor
            IN  [cursor  |-> IF found THEN EndOf(c) ELSE acc.cursor,
                 offsets |-> Append(acc.offsets, IF found THEN c.at ELSE acc.cursor)]
    IN  FoldLeftDomain(place, [cursor |-> 0, offsets |-> <<>>], chunks).offsets

\* _tree_node_metadata: for every chunk the place of the node it is said to lie in.
ChunkNodes(doc) ==
    LET tree    == BuildPageTree(doc)
        offsets == EstimateOffsets(Chunks(doc))
    IN  [k \in DOMAIN offsets |-> FindNodeForOffset(tree, offsets[k])]

-----------------------------------------------------------------------------
(* Enrichment (hks.page_tree.enrich) of a tree that is a single node *)

\* _fake_restructure, over a text of this length.
Thirds(length) ==
    LET third == Greatest({1, length \div 3}) IN
    [k \in 1 .. 3 |->
        Node(<<k>>, 0, Section(k), 1, Least({(k - 1) * third, length}),
             IF k = 3 THEN length ELSE Least({k * third, length}))]

\* _llm_restructure: the offsets are those the model answers with.
Sections(spans) ==
    [k \in DOMAIN spans |-> Node(<<"llm", k>>, 0, Section(k), 1, spans[k][1], spans[k][2])]

-----------------------------------------------------------------------------
(* What lint says of a tree and its chunks (hks.lint) *)

\* The length of the text lint compares them with, _source_text_by_relpath: the
\* body of the page, which has a title before it (here of length 1) unless the
\* text begins with one.
PageLength(doc) ==
    IF doc.format = "md" /\ \E i \in DOMAIN doc.segments :
           /\ i = 1 /\ doc.segments[1].kind = "heading"
           /\ doc.segments[1].level = 1 /\ doc.segments[1].at = 0
    THEN doc.length ELSE doc.length + 1

\* _tree_offset_findings
TreeOffsetFindings(doc, tree) == {i \in DOMAIN tree : tree[i].end > PageLength(doc)}

\* _tree_covers_text
TreeCoversText(tree, length) ==
    /\ length > 0
    /\ \A offset \in 0 .. length - 1 :
          \E i \in DOMAIN tree : tree[i].start <= offset /\ offset < tree[i].end

\* _tree_chunk_gap_findings, for chunks with these ids of nodes, <<>> for none:
\* the metadata of a chunk holds no offset of its own.
TreeChunkGapFindings(doc, tree, ids) ==
    {k \in DOMAIN ids :
        IF ids[k] = <<>> THEN TreeCoversText(tree, PageLength(doc))
        ELSE \A i \in DOMAIN tree : tree[i].id # ids[k]}

-----------------------------------------------------------------------------
(* Properties *)

\* A text whose headings or sections were all found, in order.
AllFound(doc) == \A i \in DOMAIN doc.segments : Found(doc.segments[i])

\* The heading a text stands under at this offset: the last one that begins
\* there or before, or 0.
Under(headings, offset) ==
    Greatest({0} \cup {i \in DOMAIN headings : headings[i].start <= offset})

\* The heading above the heading at a place: the last one before it of a lower
\* level.
Above(headings, i) ==
    Greatest({0} \cup {j \in 1 .. i - 1 : headings[j].level < headings[i].level})

\* The tree of a text of headings is what a reader makes of them, although it is
\* built in one pass with a stack and counters: every heading is below the last
\* one before it of a lower level, no two have one id, and the section an offset
\* is found in is that of the last heading before it, with the titles on the way
\* to it for a path.
HeadingsNest(doc) ==
    LET headings == HeadingsOf(doc)
        tree     == BuildPageTree(doc)
        path[i \in 0 .. Len(headings)] ==
            IF i = 0 THEN <<>> ELSE Append(path[Above(headings, i)], headings[i].title)
    IN  /\ Len(tree) = Len(headings)
        /\ \A i \in DOMAIN tree :
              /\ tree[i].parent = Above(headings, i)
              /\ \A j \in DOMAIN tree : tree[i].id = tree[j].id => i = j
              /\ SectionPath(tree, i) = path[i]
        /\ \A offset \in 0 .. doc.length - 1 :
              FindNodeForOffset(tree, offset) = Under(headings, offset)

\* The slide or sheet that the last piece of a group stands on.
SectionOf(doc, header, group) ==
    Cardinality({j \in 1 .. Last(group) : doc.segments[j].kind = header})

\* A chunk of a presentation or a workbook is said to lie on the slide or sheet
\* its own text stands on, although chunks that repeat a header occur nowhere in
\* the text (013 spec.md:203).
ChunksStay(doc, header) ==
    LET tree   == BuildPageTree(doc)
        groups == Groups(doc)
        nodes  == ChunkNodes(doc)
    IN  \A k \in DOMAIN groups :
           SectionOf(doc, header, groups[k]) > 0 =>
              /\ nodes[k] # 0
              /\ Head(tree[nodes[k]].id) = SectionOf(doc, header, groups[k])

\* Lint has nothing to say of a source that was just ingested, whatever of it was
\* not found in its text.  (The bound variables have TLC build tree and places once.)
LintQuiet(doc) ==
    \A tree \in {BuildPageTree(doc)}, nodes \in {ChunkNodes(doc)} :
        LET ids == [k \in DOMAIN nodes |-> IF nodes[k] = 0 THEN <<>> ELSE tree[nodes[k]].id]
        IN  TreeOffsetFindings(doc, tree) = {} /\ TreeChunkGapFindings(doc, tree, ids) = {}

SectionsHold(doc) ==
    /\ LintQuiet(doc)
    /\ AllFound(doc) =>
        CASE doc.format \in {"md", "docx", "pdf"} ->
                HeadingsOf(doc) # <<>> => HeadingsNest(doc)
          [] doc.format = "pptx" -> ChunksStay(doc, "slide_header")
          [] doc.format = "xlsx" -> ChunksStay(doc, "sheet_header")
          [] OTHER -> TRUE

=============================================================================
