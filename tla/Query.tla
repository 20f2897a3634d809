---------------------------------- MODULE Query ----------------------------------
(***************************************************************************)
(* `ks query` (hks.commands.query) beside `ks ingest` and `ks pageindex`:  *)
(* without a lock, one layer after the other is read as it is at that      *)
(* moment, sections of the manifest as it was at the start.  Each read is a *)
(* step of its own; the candidates it gives are ranked, and the best is the *)
(* answer, unless a question about past sessions has one of its own.       *)
(***************************************************************************)
EXTENDS PageIndex, Retrieval, SessionMemory

CONSTANTS
    Questions,      \* what may be asked: see SessionMemory, and
                    \*   words, close   keywords, nearness to each rule (Route)
                    \*   names          the sources whose title it names
                    \*   terms          how many of its terms a content has
                    \*   relations      the kinds of relation it asks for
                    \*   near           how near a content is to it
    Rules,          \* the routing rules
    Relations,      \* the kinds of relation that are found in each content
    DailyFiles,     \* the sources under daily/
    Rankings,       \* what a reranking model may answer
    TopHits, TopEdges       \* how many hits and edges are candidates

ASSUME QueryAssumption ==
    /\ Unset = None /\ NoValue = None
    /\ TopHits \in Nat /\ TopEdges \in Nat \ {0}
    /\ \A q \in Questions : {q.terms, q.near} \subseteq [Contents -> Nat]
    /\ Rankings \subseteq Seq(Int)

VARIABLES
    query,          \* where the query stands
    raced,          \* whether an ingest and an enrichment have overlapped
    back            \* the contents that came back while something of them was about (below)

queryVars == <<indexVars, query, raced, back>>

NoAnswer == [kind |-> "none", evidence |-> {}, pieces |-> {}, outcome |-> None]

NoQuery == [pc |-> "idle", question |-> None, snapshot |-> Nothing, quiet |-> TRUE,
            pages |-> {}, top |-> {}, hits |-> <<>>, todo |-> <<>>, nodes |-> <<>>,
            cands |-> <<>>, answer |-> NoAnswer]

Asked == query.question
Seeks == Intent(Asked)

\* What a page, and the k-th chunk, of a source with this content say of themselves:
\* that is given with the document, as its notes.
PageMemory(f, c) ==
    LET m == library[c].notes IN
    [type |-> m.type, daily |-> f \in DailyFiles, date |-> m.date, workspace |-> m.workspace]

ChunkMemory(f, c, k) ==
    LET entries == library[c].notes.entries IN
    IF k \in DOMAIN entries /\ entries[k] # None
    THEN [PageMemory(f, c) EXCEPT !.workspace = entries[k]] ELSE PageMemory(f, c)

\* A candidate made of no vector, and an item of evidence without a section.
Candidate(route, score, memory, evidence) ==
    [route |-> route, score |-> score, similarity |-> 0, overlap |-> 0, edges |-> {},
     quoted |-> {}, memory |-> memory, evidence |-> evidence]

Item(f, text, route) ==
    [of |-> f, text |-> text, route |-> route, section |-> None, ranged |-> FALSE]

\* What a candidate that names its source, but says no more, says of itself.
Named(f) == [NoMemory EXCEPT !.daily = f \in DailyFiles]

GoOn(pc) == query' = [query EXCEPT !.pc = pc]

-----------------------------------------------------------------------------
(* The layers, one by one *)

\* A runtime without a manifest, or without sources, has no answers.
Ask(question) ==
    /\ query.pc = "idle"
    /\ manifest # Lost /\ DOMAIN manifest # {}
    /\ RulesValid(Rules)
    /\ query' = [NoQuery EXCEPT !.pc = "pages", !.question = question,
                                !.snapshot = manifest, !.quiet = job.stage = "idle"]

\* collect_session_memory_candidates: the pages are read only if it is asked for
\* a memory.  One that cannot be parsed ends the query.
ReadPages ==
    /\ query.pc = "pages"
    /\ IF Seeks = None THEN GoOn("wiki")
       ELSE IF ~Indexable THEN query' = NoQuery
       ELSE LET fits(page) == MatchesIntent(PageMemory(page.of, page.text), Seeks)
                slugs      == {s \in DOMAIN disk.pages : fits(disk.pages[s])}
            IN  \E found \in Firsts([s \in slugs |-> Place(disk.pages[s].of)], Cardinality(slugs)) :
                   query' = [query EXCEPT !.pc = "wiki",
                      !.pages = {disk.pages[s] : s \in slugs},
                      !.cands = [k \in DOMAIN found |->
                         LET page == disk.pages[found[k]] IN
                         Candidate("wiki", 100, PageMemory(page.of, page.text),
                                   {Item(page.of, page.text, "wiki")})]]

Pages == {disk.pages[s] : s \in DOMAIN disk.pages}

\* WikiStore.search: the pages with most terms of the question, or, for a question
\* that asks for a summary, any page.
BestPages ==
    LET terms(p) == Asked.terms[p.text]
        best     == {p \in Pages : terms(p) > 0 /\ \A r \in Pages : terms(r) <= terms(p)}
    IN  IF best # {} THEN best ELSE IF "summary" \in Asked.words THEN Pages ELSE {}

\* collect_wiki_candidates.  On another route than wiki only a page that is named,
\* or whatever is found for a question that asks for a summary, and then, if no
\* page is found, an overview of all.
SearchWiki ==
    /\ query.pc = "wiki"
    /\ LET found     == BestPages
           primary   == Route(Asked, Rules) = "wiki"
           secondary == Asked.words \cap {"summary", "emphasis"} # {}
           add(c)    == query' = [query EXCEPT !.pc = "graph", !.cands = Append(@, c)]
       IN IF ~Indexable THEN query' = NoQuery
          ELSE \/ \E p \in found :
                     IF primary \/ secondary \/ p.of \in Asked.names
                     THEN add(Candidate("wiki", IF primary THEN 100 ELSE 65, Named(p.of),
                                        {Item(p.of, p.text, "wiki")}))
                     ELSE GoOn("graph")
               \/ /\ found = {}
                  /\ IF secondary /\ Pages # {}
                     THEN add(Candidate("wiki", 70, NoMemory, {})) ELSE GoOn("graph")

\* The edges of the graph, told apart by their source and kind.
Edges == UNION {{[of |-> f, text |-> disk.graph[f], kind |-> kind] :
                    kind \in Relations[disk.graph[f]]} : f \in DOMAIN disk.graph}

EdgeScore(e) == Asked.terms[e.text] + IF e.kind \in Asked.relations THEN 4 ELSE 0

\* answer_query: the best edges of the kinds asked for, or of any.
ReadGraph ==
    /\ query.pc = "graph"
    /\ LET scored  == {e \in Edges : EdgeScore(e) > 0}
           desired == {e \in scored : e.kind \in Asked.relations}
           ranked  == IF desired # {} THEN desired ELSE scored
       IN IF Asked.relations = {} \/ ranked = {} THEN GoOn("vectors")
          ELSE \E best \in Firsts([e \in ranked |-> -EdgeScore(e)], TopEdges) :
                  query' = [query EXCEPT !.pc = "evidence",
                                         !.top = {best[k] : k \in DOMAIN best}]

\* The graph is read again for the evidence of these edges; a source of which no
\* edge is left is quoted with the answer itself.
ReadEvidence ==
    /\ query.pc = "evidence"
    /\ LET top     == query.top
           still   == {e \in Edges : \E t \in top : e.of = t.of /\ e.kind = t.kind}
           best    == Greatest({EdgeScore(e) : e \in top})
           text(f) == IF \E e \in still : e.of = f THEN disk.graph[f] ELSE None
       IN query' = [query EXCEPT !.pc = "vectors", !.top = {}, !.cands = Append(@,
             [Candidate("graph",
                        Lesser(99, 55 + 6 * Lesser(best, 6) + 5 * (Cardinality(top) - 1)),
                        NoMemory, {Item(t.of, text(t.of), "graph") : t \in top})
              EXCEPT !.edges = top, !.quoted = {e.of : e \in still}])]

\* The chunks of the vector store.
Hits == UNION {{[of |-> disk.vectors[sha].of, sha |-> sha, text |-> disk.vectors[sha].text,
                 k |-> k] : k \in 1 .. Len(Chunks(library[disk.vectors[sha].text]))} :
                    sha \in DOMAIN disk.vectors}

\* The later a chunk, the less near it is here.
Similarity(hit) == Greatest({0, Asked.near[hit.text] - hit.k})

\* vector_hit_final_score: terms of the question add to the nearness.
FinalScore(hit) == Lesser(100, Similarity(hit) + Lesser(8 * Asked.terms[hit.text], 24))

\* search: the nearest chunks.
SearchVectors ==
    /\ query.pc = "vectors"
    /\ \E nearest \in Firsts([hit \in Hits |-> -Similarity(hit)], TopHits) :
          query' = [query EXCEPT !.pc = "sections", !.hits = nearest]

\* Variant: the tree need not be of the content that the manifest names.
IsTreeOf_AnySha(tree, f, sha) == tree.of = f

IsTreeOf(tree, f, sha) == tree.of = f /\ tree.sha = sha

\* The nodes of a tree that a passage may be said to lie in: one whose title
\* occurs in it, or else the one with the id that its chunk was given; 0 for none.
NodesFor(tree, hit) ==
    LET nodes  == Nodes(tree)
        home   == ChunkNodes(library[hit.text])[hit.k]
        marked == {i \in DOMAIN nodes : nodes[i].id = BuildPageTree(library[hit.text])[home].id}
    IN  IF home = 0 THEN {0} ELSE DOMAIN nodes \cup {Greatest({0} \cup marked)}

\* vector_section_context: the source of a hit must be in the manifest that was
\* read, and the tree on disk now be of the content it names.
HasSection(hit) ==
    /\ hit.of \in DOMAIN query.snapshot
    /\ Derived(query.snapshot[hit.of])
    /\ StemOf[hit.of] \in DOMAIN disk.trees
    /\ IsTreeOf(disk.trees[StemOf[hit.of]], hit.of, query.snapshot[hit.of].sha)

\* collect_vector_candidates, for the next hit.
Locate ==
    /\ query.pc = "sections" /\ query.hits # <<>>
    /\ LET hit     == Head(query.hits)
           tree    == disk.trees[StemOf[hit.of]]
           passage == Item(hit.of, hit.text, "vector")
           item(i) == IF i = 0 THEN passage
                      ELSE [passage EXCEPT !.section = [of |-> tree.text, hit |-> hit.sha,
                                                        path |-> SectionPath(Nodes(tree), i)]]
       IN \E found \in IF HasSection(hit) THEN {item(i) : i \in NodesFor(tree, hit)} ELSE {passage} :
             query' = [query EXCEPT !.hits = Tail(@), !.cands = Append(@,
                [Candidate("vector", FinalScore(hit), ChunkMemory(hit.of, hit.text, hit.k), {found})
                 EXCEPT !.similarity = Similarity(hit), !.overlap = Asked.terms[hit.text]])]

AllLocated ==
    /\ query.pc = "sections" /\ query.hits = <<>>
    /\ query' = [query EXCEPT !.pc = "trees",
                              !.todo = Sorted({f \in DOMAIN query.snapshot :
                                                  Derived(query.snapshot[f])})]

\* page_tree_node_score: a title counts twice, and only a summary that was filled
\* in stands under the title the text has.
NodeScore(tree) ==
    LET said == IF tree.from \in Contents THEN Asked.terms[tree.from] ELSE 0
    IN  10 * (said + IF tree.by = "filled" THEN 2 * Asked.terms[tree.text] ELSE 0)

\* collect_page_tree_candidates, for the next entry of the manifest that was
\* read: the nodes with a summary, of the tree as it is now, of whatever content.
ReadTree ==
    /\ query.pc = "trees" /\ query.todo # <<>>
    /\ LET stem == StemOf[Head(query.todo)] IN
       IF stem \notin DOMAIN disk.trees \/ disk.trees[stem].by = "rule"
       THEN query' = [query EXCEPT !.todo = Tail(@)]
       ELSE LET tree  == disk.trees[stem]
                score == NodeScore(tree)
                item(i) == [Item(tree.of, tree.from, "page_tree") EXCEPT
                               !.section = [of |-> tree.text, hit |-> tree.sha,
                                            path |-> SectionPath(Nodes(tree), i)]]
                found == IF score = 0 THEN <<>>
                         ELSE [i \in DOMAIN Nodes(tree) |->
                                 Candidate("page_tree", Lesser(score, 85), Named(tree.of),
                                           {item(i)})]
            IN query' = [query EXCEPT !.todo = Tail(@), !.nodes = @ \o found]

-----------------------------------------------------------------------------
(* The answer *)

\* What may become of an answer, whatever the user asked for, with or without a
\* terminal, and answered there.
Outcomes(route, eligible) ==
    {Decided(route, eligible, flag, tty, confirmed) :
        flag \in {"yes", "no", "auto", "ask"}, tty \in BOOLEAN, confirmed \in BOOLEAN}

\* What becomes of an answer is decided at once; writing it back is not a matter
\* of this module.  What was found is not needed any more.
Answer(route, eligible, answer) ==
    \E outcome \in Outcomes(route, eligible) :
        query' = [NoQuery EXCEPT !.pc = "done", !.question = Asked, !.quiet = query.quiet,
                                 !.answer = [answer EXCEPT !.outcome = outcome]]

\* prefer_session_memory_candidates
Preferred(cands) ==
    LET fitting == {i \in DOMAIN cands : MatchesIntent(cands[i].memory, Seeks)}
    IN  IF Seeks = None \/ fitting = {} THEN cands ELSE At(cands, fitting)

\* The best nodes join the candidates; without any there is no answer.
Collected ==
    /\ query.pc = "trees" /\ query.todo = <<>>
    /\ LET best(i) == Cardinality({j \in DOMAIN query.nodes :
                                      query.nodes[j].score > query.nodes[i].score
                                      \/ (query.nodes[j].score = query.nodes[i].score /\ j < i)})
           order == Listed([i \in DOMAIN query.nodes |-> best(i)])
           nodes == [k \in 1 .. Lesser(TopHits, Len(order)) |-> query.nodes[order[k]]]
           cands == query.cands \o nodes
       IN IF cands = <<>> THEN Answer(None, FALSE, NoAnswer)
          ELSE query' = [query EXCEPT !.cands = Preferred(cands), !.nodes = <<>>,
                            !.pc = IF AsksForStatus(Seeks) THEN "status"
                                   ELSE IF AsksForRange(Seeks) THEN "range" ELSE "rank"]

Piece(f, c, route, memory, lines) ==
    [of |-> f, text |-> c, route |-> route, memory |-> memory, lines |-> lines]

\* The workspace of the entry line that the k-th chunk of a content is, if it is one.
EntryLine(c, k) ==
    LET ends == library[c].notes.ends IN
    IF k \in DOMAIN ends /\ ends[k] # None THEN {ends[k]} ELSE {}

\* The entries of past sessions, read from the vector store as it is now.
Remembered ==
    MatchingEntries({Piece(h.of, h.text, "vector", ChunkMemory(h.of, h.text, h.k),
                           EntryLine(h.text, h.k)) : h \in Hits},
                    Seeks)

Told(kind, pieces) ==
    Answer(kind, FALSE, [NoAnswer EXCEPT !.kind = kind, !.pieces = pieces,
                            !.evidence = {Item(p.of, p.text, p.route) : p \in pieces}])

TellStatus ==
    /\ query.pc = "status"
    /\ LET pieces == WorkspaceStatus(Remembered, Seeks) IN
       IF pieces # {} THEN Told("status", pieces)
       ELSE GoOn(IF AsksForRange(Seeks) THEN "range" ELSE "rank")

TellRange ==
    /\ query.pc = "range"
    /\ LET pages  == {Piece(p.of, p.text, "wiki", PageMemory(p.of, p.text), {}) :
                         p \in query.pages}
           pieces == RangeSummary(pages, Remembered, Seeks)
       IN IF pieces # {} THEN Told("range", pieces) ELSE GoOn("rank")

\* The candidates are ranked, by a model or without; the first must pass the gate.
Rank ==
    /\ query.pc = "rank"
    /\ \E ranking \in Rankings \cup {None} :
          LET winner == Rerank(query.cands, ranking)[1] IN
          IF ~PassesGate(winner, Route(Asked, Rules)) THEN Answer(None, FALSE, NoAnswer)
          ELSE Answer(winner.route, Eligible(winner),
                      [NoAnswer EXCEPT !.kind = "best", !.evidence = winner.evidence])

Finish == query.pc = "done" /\ query' = NoQuery

-----------------------------------------------------------------------------

QueryInit ==
    /\ Init
    /\ \A c \in Contents : IsDocument(library[c])
    /\ enrich = NoEnricher
    /\ query = NoQuery
    /\ raced = FALSE
    /\ back = {}

\* A query is quiet while no ingest is under way and nothing it reads is lost.
Disturbed ==
    query' = [query EXCEPT !.quiet = @ /\ job'.stage = "idle" /\ manifest' # Lost]

\* The trees that are there, may be put back, or are in the hands of an enrichment.
TreesAbout ==
    (UNION {{d.trees[s] : s \in DOMAIN d.trees} : d \in {disk, job.before}})
    \cup (IF enrich.pc \in {"read", "save"} THEN {enrich.tree} ELSE {})

\* The contents of a source that have a tree, or are known to the query, without
\* being those of its entry.
Known(f) ==
    ({tree.sha : tree \in {t \in TreesAbout : t.of = f}}
     \cup {query.snapshot[g].sha : g \in DOMAIN query.snapshot \cap {f}})
    \ (IF manifest = Lost THEN {} ELSE {manifest[g].sha : g \in DOMAIN manifest \cap {f}})

\* The contents that come back to such a source.
ComingBack ==
    {source'[f] : f \in {g \in Files : source'[g] # source[g] /\ source'[g] \in Known(g)}}

QueryStep ==
    \/ \E question \in Questions : Ask(question)
    \/ ReadPages \/ SearchWiki \/ ReadGraph \/ ReadEvidence
    \/ SearchVectors \/ Locate \/ AllLocated \/ ReadTree \/ Collected
    \/ TellStatus \/ TellRange \/ Rank \/ Finish

QueryNext ==
    \/ /\ QueryStep
       /\ UNCHANGED <<indexVars, raced, back>>
    \/ /\ Next /\ Disturbed
       /\ UNCHANGED <<library, enrich>>
       /\ raced' = (raced \/ (enrich.pc # "idle" /\ job'.stage # "idle"))
       /\ back' = back \cup ComingBack
    \/ /\ EnrichNext
       /\ UNCHANGED <<query, back>>
       /\ raced' = (raced \/ (enrich'.pc # "idle" /\ job.stage # "idle"))

QuerySpec == QueryInit /\ [][QueryNext]_queryVars

-----------------------------------------------------------------------------
(* Properties *)

\* A passage is given a section only of a tree of its own text, if it is of the
\* content that the manifest names: whatever runs have written, or were cut short
\* before they could write, since the manifest was read (013 spec.md:328).  Not so
\* if the content came again, or back to the source while a tree of it was left or
\* the query still knew it; if a lost manifest has made a run ingest it again; or
\* if an enrichment has loaded the tree of a run that raised or was cut short, and
\* saved it over that of the run that tried again.
SectionFits ==
    count.losses = 0 /\ (raced => count.cuts = 0 /\ count.faults = 0) =>
        \A i \in DOMAIN query.cands : \A e \in query.cands[i].evidence :
            e.route = "vector" /\ e.section # None /\ e.section.hit = query.snapshot[e.of].sha
                => e.section.of = e.text \/ e.section.hit \in again \cup back

\* An answer given while no run was under way quotes only sources of the
\* manifest, and the text that all layers have of them -- the summaries of a tree
\* the raw copy -- if no run was cut short and no enrichment met a run before.  If
\* the content of a source came again, only the layer that is quoted has the text.
FreshWhenQuiet ==
    query.pc = "done" /\ query.quiet /\ Undisturbed /\ ~raced =>
        \A e \in query.answer.evidence :
            /\ e.of \in DOMAIN manifest
            /\ IF e.route = "page_tree" THEN e.text = disk.raw[e.of]
               ELSE manifest[e.of].sha \notin again => Backed(e.of, manifest[e.of], e.text)

\* What is written back without being asked for quotes a source, not itself, and
\* is neither a page that is there already nor put together (docs/main.md:213).
AutoIsBacked ==
    query.answer.outcome = "auto-committed" =>
        /\ query.answer.kind = "best"
        /\ \E e \in query.answer.evidence : e.route # "wiki" /\ e.text # None

\* What is told of past sessions is of the days asked for, and named for the workspace.
MemoryFits ==
    query.answer.kind \in {"status", "range"} =>
        /\ query.answer.pieces # {}
        /\ \A p \in query.answer.pieces : FitsIntent(p, Seeks)

\* Whose work the text of a content tells of.
WorkspacesOf(c) ==
    LET notes == library[c].notes
    IN  (notes.lines \cup {notes.workspace} \cup {notes.entries[k] : k \in DOMAIN notes.entries})
        \ {None}

\* The answer to a question about the days of one workspace tells nothing of another
\* (tests/unit/retrievers/test_session_memory.py:318).  Not so: where no entry line
\* is found the question goes on to the ranking, and a page that names no workspace
\* itself is the answer as a whole.
NothingOfOthers ==
    query.pc = "done" /\ query.quiet /\ AsksForRange(Seeks) /\ Seeks.workspace # None =>
        \A e \in query.answer.evidence : e.route = "wiki" /\ e.text \in Contents =>
            \A w \in WorkspacesOf(e.text) : WorkspaceMatches(w, Seeks.workspace)

\* The candidate an answer is made of is the best, and what is said or written
\* back of it is what the two above say.
AnswersFit ==
    /\ query.pc = "rank" => \A ranking \in Rankings \cup {None} : WinnerIsBest(query.cands, ranking)
    /\ query.pc = "done" => AutoIsBacked /\ MemoryFits

==================================================================================
