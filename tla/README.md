# Hybrid Knowledge System: a TLA+ model

This directory holds TLA+ modules that model the core of the Hybrid Knowledge System (`src/hks`), TLC
configurations that check them on small instances, and proofs that TLAPS checks for every value of the
constants. Every definition is translated from the Python source; `PROJECT.json` names, for each one, the file
and lines it stands for. Operators commented *Variant* are faulty versions of the definition that follows them.
No specification uses them: each is put in the place of the original to make sure that a property notices.

## 1. The system

A knowledge base is a directory (`KS_ROOT`) of plain files. There is no server: every `ks` command, and every
call through the MCP or HTTP adapter, is a process or a thread that reads these files, works, and writes them
back. All coordination is by `flock` and by the order of the writes.

| Component | State it keeps | Operations | Guarded by |
|---|---|---|---|
| Coordination ledger (`coordination/`) | `coordination/state.json`: sessions, leases, handoffs; `events.jsonl` | start, heartbeat, close; claim, renew, release; handoff; status, lint | blocking flock on `coordination/.lock`; status and lint read without it |
| Ingest pipeline (`ingest/pipeline.py`, `core/manifest.py`) | `manifest.json`; writes all layers below | ingest, with prune; rebuild of a lost manifest | non-blocking flock on `.lock` (`LOCKED`) |
| Wiki (`storage/wiki.py`) | `wiki/pages/*.md`, `index.md`, `log.md` | write_page, delete_pages, rebuild_index | the lock of whoever calls it |
| Page trees (`page_tree/`, `commands/pageindex.py`) | `page_trees/*.json` | save, delete, show, enrich | ingest's lock; none for show and enrich |
| Vectors (`storage/vector.py`) | Chroma collection | add_chunks, delete, search | ingest's lock |
| Graph (`graph/`) | `graph/graph.json` | replace_document, delete_document, prune_nodes, prune_edges, answer_query | ingest's lock; queries take none |
| Watch (`watch/`) | `watch/plans`, `runs`, `latest.json`, `config.json`, `events.jsonl` | scan, run, status | non-blocking flock on `watch/.lock` for run; scan takes none |
| Lint (`lint/`) | none | some 20 checks; `--fix` rebuilds the index, prunes vectors, nodes, edges | `.lock` |
| Write-back (`writeback/`) | wiki pages | gate, commit | `.lock` |
| Wiki synthesis (`wiki_synthesis/`) | candidates; wiki pages | preview, store, apply | `llm/.wiki-synthesis.lock` |
| LLM extraction (`llm/`) | `llm/extractions/*.json` | preview, store with an idempotency key | `llm/.lock` |
| Graphify (`graphify/`) | `graphify/runs`, `latest.json` | build, publish | `graphify/.lock` |
| Workspace registry (`workspace/`) | one JSON file for the user | register, remove, use | none |
| Query (`commands/query.py`, `routing/`, `rerank/`, `retrievers/`, `retrieval/`) | none | route, retrieve, fuse, trust, answer; session memory | none |
| Parsers and cutting (`ingest/parsers/`, `ingest/normalizer.py`, `page_tree/build.py`) | none | file to segments, to a tree, to chunks with a section each | |
| Catalog (`catalog/`) | none | list, show | none |
| Adapters, CLI, configuration, evaluation | none | | |

They interact through files. Ingest calls the wiki, graph, vector and tree stores in the order of one
transaction per source, and the manifest entry, saved last, refers to what they hold. Watch plans from the
manifest and calls ingest; lint compares all layers with the manifest; query reads any layer at any time and may
call write-back; write-back, synthesis and ingest write the same pages and index.

**Hard to get right, and to test:** two processes between load and save; a process that dies between two
writes; a step that raises after others have written; sources that change while a run reads them three times;
leases that lapse while their owner works; nodes of the graph shared by sources that come and go; readers that
take no lock; slugs, stems and vector ids that two sources share. `PROJECT.json` lists each at its line under
`hazards`, with the properties that cover it.

**What makes each component correct:** the ledger never lets two agents own a resource, every lease follows its
life cycle, the log and the ledger tell the same story, and every caller is answered. Ingest leaves the layers and
the manifest in exact agreement or, after a death, in a state the next run repairs; it never skips a source whose
artifacts are not there. The graph is closed under its edges and holds, source by source, what the manifest says.
Watch reports what really happened and touches only what is under its roots. Synthesis and write-back never lose a
page of the other. Artifact stores are idempotent. A published graphify run is complete and never changes. A query
answers from what the manifest names, and gives each passage a section of its own text. The registry of workspaces
changes only as it was asked to.

## 2. The plan

Most important first. A module of the plan is written so that it can be proved about: parameters are CONSTANTS with
named assumptions, one action per operation or step, invariants are conjunctions of named parts, and no module with
theorems reaches a RECURSIVE operator.

| Step | Modules | What they are to show | State |
|---|---|---|---|
| 1 | `CoordinationLedger`, `LeaseRegistry` | the lease protocol, as a refinement of an abstract register | modelled, checked; ten theorems, the refinement among them |
| 2 | `IngestPipeline` | one run against five layers, their index and the manifest: transaction, rollback, prune, recovery | modelled, checked; five theorems |
| 3 | `GraphStore` | the graph the sources share, and the fixes of lint | modelled, checked; five theorems |
| 4 | `Watch` | plan, run and report beside other scans, ingests and edits | modelled, checked; five theorems |
| 5 | `LlmArtifacts`, `WikiWriters` | the write-once stores of artifacts; ingest, write-back, synthesis and lint write the same pages under two different locks | modelled, checked; five theorems |
| 6 | `Lint`, `Catalog` | lint, its fixes and the catalog over the layers of ingest | modelled, checked; seven theorems |
| 7 | `Graphify` | a build beside writers of its layers, and its publication beside other builds | modelled, checked; three theorems |
| 8 | `Parsers`, `PageTrees`, `PageIndex` | what a file is cut into; enrichment beside ingest | modelled, checked; enrichment is part of the theorems of `Query` |
| 9 | `Retrieval`, `SessionMemory`, `Query` | a query, read by read, beside ingest and enrichment | modelled, checked; three theorems |
| 10 | `Workspaces` | load, change and save without a lock | modelled, checked; one theorem |

**Composition.**

    IngestPipeline --+-- Lint
                     +-- Catalog ---- MCLint (with Lint)
                     +-- PageIndex --- Query (with Retrieval, SessionMemory) -- MCQuery (with Parsers)
    PageTrees -------+
    Ordering: sorted sets and slices, for IngestPipeline, PageTrees and Retrieval
    GraphStore ------ Graphify
    LlmArtifacts ---- WikiWriters
    CoordinationLedger (INSTANCE LeaseRegistry),  Watch,  Workspaces

`Watch` uses an ingest file by file and leaves what happens within the transaction of a file to `IngestPipeline`;
`IngestPipeline` treats the graph as a map from sources to texts and leaves the sharing of nodes to `GraphStore`. Both
cuts are where the code cuts: `watch/executor.py` calls `commands/ingest.run` and looks at nothing but what it returns
or raises, and the pipeline calls `GraphStore.replace_document` and `delete_document` and looks at nothing but the ids
they return. `WikiWriters` has one source and needs of an ingest only the steps that touch its raw copy, its page,
the index and the entry.

**Abstract specifications.** `LeaseRegistry`: a map from resources to their owners and times, implemented by
`CoordinationLedger`. `GraphStore` is one for `Graphify`, which is shown to implement it (section 6). The write-once
map of the artifact stores is stated as a property of their steps, `ArtifactsNeverChange`.

## 3. Which definition stands for which code

### CoordinationLedger (`coordination/service.py`, `store.py`, `lint.py`, `models.py`)

`ledger` is `state.json`, `events` the facts in `events.jsonl`, `lock` the flock of `coordination/.lock`. Each agent
runs one operation at a time: `Call` is the request arriving, `Enter` the flock (blocking, so the agent stays
`waiting`), and the body of the `with` block follows in the order of the code: load into `draft`, edit, `Save`,
`Append` -- or, for `start_session`, append first and save after. `believes` is what the caller was told: until when
it owns a resource. It is set by the answer of claim and renew (`Return`) and so lags behind the ledger. `Crash` may
come between any two steps and drops lock, draft and outbox. `RecordForcedWriteback` is the one writer of the log
that takes no lock. Ids are uuid4 in the code: an operation takes any id nobody has used.

Claim and renew read the clock twice, first to expire the leases that have lapsed (`Enter`), then for their own lease:
time may pass between the two. Release does not look at the clock at all, so that a lapsed lease nobody has swept can
still be released, as in the code. What a caller may rely on is stated in `Call` and `Return`: one that asks for a
release stops relying on the lease, one that asks for a claim or a renewal relies on no more than the lesser of what
it has and what it asks for until the answer is there. Callers that assume more than that are not covered by
`LeaseExclusion`.

### LeaseRegistry

The abstract register; `HeldLease` maps the ledger to it.

### IngestPipeline (`ingest/pipeline.py`, `core/manifest.py`, `storage/*.py`, `page_tree/store.py`)

`disk` is what the next process finds: trees, raw copies, pages and index, graph, vectors. `manifest` is the file,
`mem` the object of the run. `job.stage` is the place in `ingest()`: `pick`, `parse`, then the writes of a
transaction (`tree`, `copy`, `page`, `index`, `graph`, `vector`, `commit`, `sweep`), those of `delete_artifacts`
(`unlink` ... `unraw`), `prune`. A source is read three times, as in the code: `Examine` hashes it, `Parse` reads
its text, `CopyRaw` copies it. `job.todo` is the set of sources the loop over the sorted files has still to take, and
`First` the one it takes next. `Fail` is an exception in a step of the transaction, with the except clause (`Restored`) as the code has
it, including what that clause does *not* know: the slug of a page whose index could not be rebuilt. `CutShort` is the end of a
run that nobody undoes, between any two writes: a kill, or an exception outside of the try block, in the sweep (pipeline.py:601-607),
in `delete_artifacts` (145-163) or at a save of the manifest (420, 656). Both leave disk and manifest as they are at that moment, so
one action is enough; a `Fail` at "index" counts as one too (`count.cuts`), for it leaves the page. A content is
its hash; `Blank`, `Unreadable` and `Textual` are the outcomes of parsing.

`Restored` is one step: a kill or a further exception in the midst of the except clause is not modelled. What the clause has not yet
restored then is as after `CutShort` at the step that raised.

`again` is not in the code. It collects the contents that came to a source while another source had them in its file,
entry or raw copy or a run had them in hand for it (`Owns`), or while the source itself had them there but not in layers that back
its entry (`ComesAgain`). That includes a content that goes and comes back while a run is at work on it. For these the code does what `ingest_rename` and `ingest_return` show, so the properties say of them
only what is so: for `LayersAgree` and `LintClean` that no layer but the vectors can be wrong, for the others nothing. A content
that simply returns once it has been ingested or removed in peace is like any other.

### GraphStore (`graph/store.py`, `graph/extract.py`, `lint/fixer.py`, `lint/checks.py`)

A node is the set of sources behind it, an edge belongs to one source. `Removed` is
`_remove_document_from_payload`, with the node that goes when its last edge has gone, unless it is of type
Document; `Stored` is `replace_document`; `WithoutNodes` and `PruneEdges` are the two fixes. What an extraction can
find is any set of nodes and edges that is `WellFormed`, which is what `extract_document_graph` guarantees.

### Watch (`watch/*.py`, `commands/watch.py`, `commands/ingest.py`)

Processes call scan, run or ingest. A scan is `Load` (manifest), `Classify` (files), `SaveRoots`, `SavePlan`, then the
pointer in four steps: `ReadLatest`, `OpenTmp` (which creates the temporary file, or empties the one that is there), `WriteTmp`,
`ReplaceLatest`. All writers use one temporary name, so `tmp` is the file of that name and `open` says of each writer whether it has
*that* file open, the one that was published as latest.json meanwhile, or none: a write goes where the file went, and
what is published may be empty or of two writers. Whoever reads an empty latest.json raises. Plans, runs and config.json are written
by the same function and are saved in one step each: a plan and a run have a name of their own. A run holds
`watch/.lock` around such a scan, a second scan (`Rescan`, which determines the roots to ingest), the ingests of
these roots (`ListRoot` before the lock, `TakeLock`, `IngestFile` for each file, `EndIngest`), `Mark`, `Graphify` and
`SaveRun` with its pointer. `job.exec` and `job.todo` are the roots and files still to come, and `First` takes the next
in sorted order. `raw_sources` is a root as well (`Raw`): the scan falls back on it. `outworn` is the set of entries whose vectors are gone or of
another embedding model: the plan does not look at them, the ingest does (`_vector_artifacts_current`). Entries may be outworn from the
start, and become so when a process dies between deleting vectors and saving the entry (`Halfway`). `touched` is not in the code: it records which files others changed since the plan, for the properties that speak of undisturbed files.

### Lint (`lint/*.py`) and Catalog (`catalog/*.py`, `commands/source.py`)

Both extend `IngestPipeline`. `LintFix` is a whole `ks lint --fix=apply` up to its plan, since it holds the lock that
excludes a run; the actions of the plan (`job.plan`, taken in the order of `Precedes`) follow one by one (`Apply`), each of which may raise, and the process may die
between them (`CutShort`, as a run of ingest does). `run_checks` gives a pair of category and target for each finding. Findings about the graph
within a source are left to `GraphStore`. `Catalog` has no action: what `ks source list` and `show` return is an
operator of the present state, and its property compares the answers with the manifest at every state of a run; that a
listing is whole is checked between runs, and proved for every state.
What lint says of runs of graphify is in `Graphify` (`check_graphify`), of the offsets of a tree and the sections of its
chunks in `PageTrees` (`TreeOffsetFindings`, `TreeChunkGapFindings`).

### Graphify (`graphify/builder.py`, `store.py`, `clustering.py`, `audit.py`)

A builder reads manifest, graph and pages in three steps (`ReadManifest`, `ReadGraph`, `ReadPages`), fingerprints the
files as they are in a fourth and fifth, and publishes under `graphify/.lock`: `Lock` (which looks whether the run is
there), `MakeTemp`, `WritePiece`, `Publish`, `PointLatest`, `Unlock`. The layers change by the steps of `GraphStore`
and by `ChangePages`. Communities are connected components, as in `clustering.py` when no model is asked.

### LlmArtifacts and WikiWriters (`llm/*.py`, `wiki_synthesis/*.py`, `writeback/writer.py`, `storage/wiki.py`)

One source with versions, two stores of artifacts, and pages by slug. `ks llm classify` reads the source, asks a model
and stores the extraction under its lock, where it looks again whether one is there; `ks wiki synthesize` takes the
newest valid extraction and does the same for a candidate. A command that writes a page fills it (`OpenPage`, then
the text), lists and loads the pages, writes the index and appends to the log, each a step; `Fault` makes a step
raise, with the undoing that each command has (`RestorePage`, `UndoPage`), `Kill` ends a process. `upsets`
records what has been upset: a kill, a raised step, or two commands that write pages at once, which only an apply beside
another command does, for it holds a lock of its own.

### Parsers and PageTrees (`ingest/parsers/*.py`, `ingest/normalizer.py`, `page_tree/build.py`)

A file is given by what the parser looks at (paragraph styles, slides, cells, fonts, entries of a table of contents,
headings), a text by its length and a segment by its place, so that a document is a short record. `ParseDocx`,
`ParsePptx`, `ParseXlsx`, `ParsePdf` and `ParseMd` give the segments; `BuildPageTree` the tree, in the one pass with a
stack that the code has; `Chunks` the chunks with the offset the code estimates for them. Lint compares the tree with
the body of the page, which is longer than the text by a title unless the text begins with one (`PageLength`): only then
does a tree that covers the text oblige each chunk to have a section (`TreeCoversText`), and `LintQuiet` shows that each
then has one.

### PageIndex, Retrieval, SessionMemory and Query (`commands/pageindex.py`, `commands/query.py`, `retrievers/*.py`, ...)

An enricher loads a tree, reads the raw copy and saves a tree made of them (`LoadTarget`, `ReadRaw`, `SaveEnriched`). A
query is `Ask` (which takes the snapshot of the manifest that all later steps use), `ReadPages`, `SearchWiki`,
`ReadGraph`, `ReadEvidence`, `SearchVectors`, `Locate` for each hit, `ReadTree`, the collected answers about sessions
and `Rank`: every file it reads is read in a step of its own. `Retrieval` has the routing, the fusion of ranks, the
confidence and the gate, in hundredths; `Ordering` what it is to sort a set by a key, to cut it at a limit where
ties may fall either way, and to keep the order of what is filtered; `SessionMemory` what a question means by its dates and workspaces. A page that may be told has no entry lines to narrow, since
`_answer_text` has cleaned them when it became a candidate; a chunk is a single line and has at most one. Where nothing
is left of the pieces, `TellRange` goes on to the ranking as the code does. How near a
text is to a question and which expressions the question contains are tables of the instance.

### Workspaces (`workspace/registry.py`, `service.py`, `core/manifest.py:atomic_write`)

An update is `Load`, `OpenTemp`, `WriteTemp` and `Replace`. The temporary file has one name for all processes, so the
directory (`dir`) maps names to inodes and `heap` inodes to texts: a process writes into the inode it opened,
whatever its name has become. `overlapped` records that two updates were under way at once. `Lookup` is the reading of
the registry by `use` and `query`; `Judge` and `Use` look at the root afterwards, and `Query` runs in it later still.


## 4. What the runs check

All runs finish within five minutes with two workers. Every property of a passing run has a faulty variant of the code, listed in
`PROJECT.json` under `mutants`, that violates it in the same run.

| Run | Bounds | Properties | What it shows |
|---|---|---|---|
| `coord_leases` | 2 agents, 1 resource, 2 leases, 1 handoff, ttl 1, clock 0..2, 1 death | `TypeOK`, `OneActiveLease`, `LeaseExclusion`, `EventsHappened`, `AuditComplete`, `HoldersAreShown`, `RegistrySpec`, `LeaseLifecycle` | A resource never has two owners, in the file or in the mind of its callers; the log is never ahead of the ledger, and complete while nobody dies; status and lint, which read without the lock, never show what a caller relies on as free or stale; the ledger implements the register. |
| `coord_sessions` | 2 agents, 2 sessions, clock 0..1 set back, 1 death | `SessionsAnnounced`, `SessionLifecycle`, `CallsAnswered` | No session is in the ledger that the log does not announce; only its owner changes it; every blocked caller is answered or dies. |
| `ingest_agree` | 2 sources with one title, 3 texts, a blank and an unreadable content, which sources may share and return to, 5 edits also during runs, 2 faults | `LayersAgree`, `AllOrNothing` | As long as every step that raised was undone, layers, index and manifest match exactly after every file, whatever was edited meanwhile, and a failed source leaves nothing behind; of a content that came again only the vectors may be wrong. |
| `ingest_recovery` | 2 sources, 3 texts, a blank and an unreadable content, which sources may share and return to, 4 edits between runs, 1 fault (the rebuild of the index included), 1 run or fix cut short, 1 lost manifest, lint in between | `SkipIsSafe`, `LintClean`, `CatalogCalm`, `RunHeals`, `LintTrusts`, `FixKeeps` | What is skipped as unchanged is there, and the next run that completes repairs what a kill or an exception left, but for contents that came again; lint raises no false alarm and no fix takes from a source what it has; the catalog raises none either, and its listing is whole. |
| `graph` | 2 sources, 2 nodes (one a title), 1 kill; any changes, or 2 changes and 2 builds of 2 builders of which 1 dies | `EdgesJoinNodes`, `GraphMatchesManifest`, `LintSparesSources`, `LintConverges`, `RunsStand`, `BuildIsCurrent` | No edge ever lacks an end; each source has in the graph what its entry says; a fix takes orphans only, and all of them; `latest.json` and published runs stand whoever dies or races, and lint reports at most what is under a temporary name; a build over quiet layers is current. |
| `watch` | 2 processes, 2 roots, 2 calls out of 5, 1 edit or death, every kind of content, any vectors outworn | `OneRun`, `LatestSaved`, `OnlyPlanned`, `Reported`, `GraphifyFollows` | Runs exclude each other; pointers never dangle and can be read unless two wrote at once; a run changes what its plan says, but for remaking outworn vectors, and reports what it did; graphify is built from what the run left. |
| `wiki` | 2 processes, 2 versions of a source, 1 model, 2 slugs, 3 calls, 1 fault or kill | `Evidence`, `IndexComplete`, `ArtifactsNeverChange`, `NoStalePage`, `KeepsOthers` | Artifacts are written once; pages lead back to what they were made from, are indexed and logged; no command takes away the page of another, as long as no apply overlaps a run over the source. |
| `query` | all documents of up to 4 blocks; 1 source with 2 contents, 2 edits, 1 lost manifest, 3 questions, a query beside a run or an enrichment | `SectionFits`, `FreshWhenQuiet`, `AnswersFit`, `SectionsAgree` | Headings nest in the tree as a reader sees them, and the chunks of slides and sheets get the section of their own; lint finds nothing wrong with the tree and chunks of any document; a passage never gets a section of another text; a quiet answer quotes the manifest's sources; what is written back or put together of sessions fits. |
| `workspaces` | 2 processes, 2 ids, 2 roots, 1 note, 4 inodes, 3 updates, 1 kill, 1 upset | `RegistryKept` | An update that runs alone changes what it was asked to and nothing else, also after a killed one that overlapped none. |

**Why these bounds are enough.** *Coordination:* an operation names one resource and touches no other, except that
claim and renew sweep all; conflicts are between two callers, and two leases on one resource are the fewest that can be
active together. Three instants reach a lease that lapses before, at and after another claim. *Ingest:* sources interact
through a shared slug, stem or index, for which two suffice; five edits are a new source, its change, a second, a change
in mid-run and a deletion. A content returns to a source, or comes from the other, within three edits. *Graph:* a title and a node that either, both or none of two sources name; the proofs of
section 6 do without bounds. *Watch:* what a call can meet is another call at any of its steps, or an edit or a death,
and each pair of calls is in the run; a third call, and an edit *and* a death, are not. *Wiki:* two calls may overlap
while a third has come before or comes after; a second slug is what a page moves to when its own is taken. *Query:* one
source, for its layers are read one by one and each candidate is of one source; the stack of the tree of headings is
reached with three levels, and four blocks let a level be skipped, fall back and repeat. *Workspaces:* two ids are the
record that is changed and another, four inodes one for the registry and one for each update that may still be open,
and one left behind.

**What the run `query` does not reach.** At most two of query, ingest and enrichment are at work at once; when a run
and an enrichment have overlapped, the queries that follow are alone; after a lost manifest nothing is asked; nothing
raises and nothing is killed. With two edits a content comes back once at most, so that the exemption of `SectionFits` for contents
that come back is used only where it is least needed. The theorems of section 6 have none of these bounds. All documents have their trees and chunks compared, but
only a report and the notes of a day are ingested and asked about.

**Deadlock.** It is checked wherever a caller can always call again. `graph`, `wiki` and those of `Watch` switch the
check off, since the bounds on calls and changes make them stop when these are used up.

### Where the code does not do what its documents say

Three runs must find a violation:

- `ingest_rename` (`MCLint`, `LintAlwaysClean`): the ids of vectors are made from the hash of the content alone. A source that is
  renamed and ingested with prune is stored under the ids of the old name, and the prune then deletes them: after a complete run
  that nothing disturbed lint reports `manifest_vector_mismatch` (`005 spec.md:176`).
- `ingest_stems` (`MCIngest`, `LayersAgree`): `guide.md` and `guide.txt` share one tree file (`docs/main.md:394`).
- `watch_roots` (`MCWatch`, `RunsAsPlanned`): a run with two roots and prune ingests each root with prune, and each ingest removes the
  entries of the other (`011 spec.md:120`).

Further configurations find one too, each within seconds. They are not among the runs of `PROJECT.json`; `tlc -config X.cfg M.tla`
with the module named shows the trace.

| Configuration | Module, property | What happens |
|---|---|---|
| `ingest_return` | `MCIngest`, `SkipIsAlwaysSafe` | A run over a change is killed before it saves the manifest, and the change is taken back. The entry fits the hash and the vectors are there: this and every later run skips the source, whose page, tree and graph are of the other content (`001 plan.md:76`). |
| `ingest_torn` | `MCIngest`, `NeverPoisoned` | A kill within the write of a page leaves a page without frontmatter, at which every later `rebuild_index` raises; no recovery removes it (`001 plan.md:76`). |
| `watch_vectors` | `MCWatch`, `UpdatesExactly` | A run that one file called for ingests another of the same root, which the plan calls unchanged, since its vectors are outworn (`011 spec.md:120`). |
| `watch_latest` | `MCWatch`, `LatestWhole` | Two scans share `latest.json.tmp`: the second empties it while the first renames it, and an empty latest.json is published (`011 data-model.md:168`). |
| `coord_revive` | `MCCoordination`, `OneActiveSession` | A late heartbeat by id revives a closed session beside the active one (`docs/main.md:311`). |
| `wiki_overlap` | `MCWikiWriters`, `AnswersKept` | An apply and a write-back choose the same free slug, and the apply overwrites the answer (`009 spec.md:108`). |
| `query_memory` | `MCQuery`, `NothingOfOthers` | A question about the days of one workspace is answered with a whole page that tells of another (`tests/unit/retrievers/test_session_memory.py:318`). The pages have lost their entry lines when they are narrowed, nothing is left to put together, and the ranking that the question falls through to knows of no workspace. |
| `workspaces_overlap` | `MCWorkspaces`, `WritesAreAtomic` | Two updates share `workspaces.json.tmp`, and an empty registry is published (`012 data-model.md:80`). |

The passing runs are narrower where these are concerned. `ingest_agree`, `ingest_recovery` and `query` have distinct
stems and pages that are written whole, `ingest_recovery` distinct titles as well. Contents that came again are in the
passing runs, but the properties say of them only what holds. `KeepsOthers`, `NoStalePage`, `Evidence`, `IndexComplete` speak of histories in which no apply
overlapped another command, `RegistryKept` of updates that did not overlap, `LatestSaved` demands a readable latest.json as long as no
two wrote it at once, `OnlyPlanned` exempts outworn entries, and `AnswersFit` speaks of what is put together.

### Known to differ, without a configuration of its own

Met while reading the code. Most are in the models as they are in the code: no property forbids them, or one that would
is conditioned so that it holds, and the list says what such a condition excludes. The rest (fingerprints of files, lint
beside a builder, slugs and aliases of nodes, previews) lies in what the models abstract from.

*Coordination.* `LeaseExclusion` and `HoldersAreShown` are for a clock that only goes forward.

*Ingest.* A prune that raises or dies before it saves the manifest leaves entries that name deleted pages; a new source
is given the free slug, and the next prune deletes its page. A page left by a kill without an entry and listed in the
index is never reported by lint. The rollback writes `graph.json` in place. After two kills, a rebuild of the
index that raised and a lost manifest, a dead link may outlive complete runs (section 6, *Lint and recovery*). The catalog
says "ok" of a source without vectors or tree (`012
spec.md:51`).

*Graph.* Relpaths with one slug become one node of graphify; a shared node keeps the slugs and aliases of a source
that was removed. Graphify takes a fingerprint of files later than it reads them, and of two builds the one that read
older layers may be the latest. Lint beside a builder calls its temporary directory a partial run.

*Watch.* A scan beside a run may write a pointer without the run's id, and whoever replaces the shared temporary file
second raises; so does whoever reads an empty latest.json, until somebody removes it. `watch run` without roots uses the saved ones, which another scan may change between plan and execution.
An empty file is planned as an update, skipped by the ingest and reported completed while the old entry stays. An
unreadable file in the first root keeps the later roots from being ingested. A run without roots that prunes, when the
saved roots have become empty, ingests `raw_sources` instead, where the copies still are: it prunes nothing, marks the
planned prune skipped and is reported completed (`011 spec.md:94`). `Reported` excludes this by `LostRoot`, and by its
proof nothing else is left out of the plan of a well posed run. Graphify is not reported stale after a
plain ingest (011 FR-005). An edit between scan and ingest is not reported (`011 spec.md:82`). `WellPosed` states what a
request must satisfy for `OnlyPlanned` and `Reported`: roots without a relpath in common, and a single root if it prunes.

*Wiki.* An apply takes another lock than the other writers: beside one of them it may overwrite the page that took its
slug (`wiki_overlap`) or write a page for a version that has gone; `NoStalePage`, `Evidence`, `IndexComplete` and
`KeepsOthers` exclude this overlap. A repeated apply whose stored summary has spaces is an update each time
(`009 data-model.md:111`). `classify` reads fingerprint and text at different moments (`008 spec.md:30`). `list_pages`
raises if a page vanishes under it. `preview` and `show` save a rebuilt manifest (`docs/main.md:151`).

*Sections and queries.* In a docx, and a pdf with a table of contents, chunks repeat the first heading, so that later
chunks are given the first section (`013 spec.md:200`-206): `SectionsAgree` leaves such chunks out. Windowed bodies give an
overlapping chunk to where the last one ended; text that normalization changed is sought from offset 0. Entries of a
table of contents on one page both hold the whole page, and pages before the first entry are dropped. Headings by font
compare with the smallest of the most frequent sizes (`013 spec.md:166`). A markdown file with session entries keeps
its first heading and the entries only. A section is preferred whose title occurs in the passage over the one the chunk
names (`013 spec.md:328`). An enrichment undoes the tree of an ingest that came between, and the answers then quote an
old summary; after an ingest of the same content, enrichment is lost. `Commit` saves the new entry before the old vectors
go. A source is read for its hash and for its text at different moments, so that one hash may be ingested twice with
different texts: after a lost manifest, or after a run that raised or was killed. In the second case the tree of the
first attempt is put away or overwritten before the manifest names the hash, unless an enrichment has loaded it and saves
it later: then a passage of the second text is given a section of the first. The same happens with no fault at all if an enrichment
loads a tree, a run replaces it, the enrichment saves the old one over the new, and the old content then comes back to the source
with another reading. `SectionFits` excludes losses, faults and runs cut short together with an enrichment that met a run, contents that
came again, and (`back`) those that come back to a source while a tree of them is on disk, in the hands of a rollback or an
enrichment, or while the query still knows them (`Known`); with these conditions it is proved.
Queries read vectors and graph that no entry names yet.

*Workspaces.* Two updates that overlap may also lose a registration, or one raises and its text lands all the same. A registry spoilt between load and replace is
overwritten (`012 spec.md:106`). `RegistryKept` is for updates that do not overlap.

## 5. Fairness

Only `coord_sessions` uses it; all other properties are safety properties. `WF_vars(Proceed(a))`: a process that has
the lock goes on running until it is done (or dies, by `Crash`, which is never forced). `SF_vars(Enter(a))`: a blocked
`flock` is not passed over forever. Weak fairness would not do, since `Enter` is disabled again each time another
agent takes the lock; strong fairness is what the wait queue of the kernel gives. The code adds nothing to it: there is
no timeout and no retry (`coordination/store.py`). No fairness is assumed of callers, the clock or deaths.

## 6. What is proved

`CoordinationLedger_proofs`, `IngestPipeline_proofs`, `Lint_proofs`, `Query_proofs`, `Graphify_proofs` (which has the
proofs about `GraphStore` too), `Watch_proofs`, `Workspaces_proofs` and `WikiWriters_proofs` are checked by TLAPS to the last leaf, for every value of
the constants under the named assumptions of the modules they extend. The
bounds `MaxClock`, `MaxCrashes`, `MaxKills`, `MaxCalls`, `MaxEvents` and `MaxUpdates` are any naturals, so that they
exclude no finite history.

**Ledger.** `TypesHold`, `OneLeasePerResource`, `LeasesFollowLifecycle`, and `AgentsExcludeEachOther` for a clock that
is not set back. The inductive invariant is

    IInv == TypeOK /\ LockInv /\ OneActiveLease /\ GrantInv /\ WrittenInv /\ DraftInv

`OneActiveLease` alone is not inductive: a `Save` publishes a draft, so the drafts must have the property too, and a
draft is only worth saving if it was made from the ledger as it still is. `LockInv` (who is within the lock holds it)
makes its owner the only one with an unsaved draft; `DraftInv` says that such a draft follows from the ledger by one
legal change of leases, which also gives the life cycle; `WrittenInv`, that a draft past its save is the ledger;
`GrantInv`, what an answer that is on its way refers to. `StepCases` reduces the seven operations to a few kinds of
edit, so that each part of `IInv` is proved once for each kind.

`LeaseExclusion` is about what agents believe, and needs `BeliefInv`: whoever takes itself to own a resource has an active
lease that lasts at least as long, in the ledger and in every draft that may yet replace it. Renewals with a shorter
ttl are the hard case: the draft of the renewal backs less than the ledger does, and only because its caller relies on
no more (last conjunct of `BeliefInv`) is the exclusion kept when the process dies before the answer.

The theorems about the log (`LogIsTrue`, `SessionsAreAnnounced`, `LogIsComplete`) add `LogInv`. What `events.jsonl` says
is only safe if what it is *about to* say is: an operation carries its events in an outbox beside its draft, and a
death may leave one of the two written and the other not. So `TruthInv` requires of the log that the ledger bears it
out, and of each outbox that the draft beside it does; `AnnounceInv` the reverse for sessions, which are logged before
they are saved; and `AuditInv`, while nobody has died, that log and outbox together tell all of the draft, and the log
all of the ledger but between the two writes of an operation. `SessionsStayWithTheirAgent` follows
from `IInv` and from which sessions a draft may differ in (`SessionInv`).

`HoldersAreAlwaysShown` is about readers without the lock. What such a reader sees is the ledger between any two steps of others, and what
matters is not what the file says but whether that is against somebody who relies on it: `BeliefInv` gives for each such
caller a lease that is active and lasts at least as long, in the ledger as it is at that moment.

`LedgerImplementsRegistry` maps each step to one of `LeaseRegistry` or to a stutter. Only `Save` changes what is held, and
there `ChangeInv` says by which single change, and which expiries beside it, the draft differs from the ledger: the save
of a claim or a renewal is a `Grant`, that of a release a `GiveUp`. It needs a clock that is not set back, for an
operation finds a lease lapsed when it loads the ledger and saves that later, and `NoneIsNoLease`, that the mark for "no
owner" is not itself an owner with a time.

**Ingest.** `TypesAreKept`, `SkippedIsSafe`, `SkippedIsSafeUndisturbed`, `LayersAlwaysAgree` and `RunsWriteAllOrNothing`. What
the pipeline carries from one step to the next is in

    RunInv == TypeInv /\ LocalsInv /\ ClaimsInv /\ MemInv /\ DoneInv /\ BeforeInv /\ TextInv /\ NotYetInv

`BeforeInv` is its centre: at each stage of a transaction every layer is the layer *before* it, with exactly the writes
that have been made so far. A rollback that restores the touched keys then gives back the layers as they were, which is
`AllOrNothing`, and a commit gives them with one source replaced. `ClaimsInv` says that whatever names a content (source, raw
copy, entry, the copy before, what the run has in hand) names it for one file unless it came again, since vector ids are made of it.

`SkipIsSafe` is not inductive: it speaks of the time between runs, and of entries whose vectors are there. `SafeInv` says
the same within a run, and `NotYetInv` that the source in work cannot look unchanged before its vectors are written,
for a rerun looks up the vectors alone; this is why they come last. With runs cut short it needs that no run writes a page that
another entry names. A killed prune leaves entries whose pages are gone, and a slug that is free again goes to the next
source with that title: `TitlesApart` excludes it, and until a run is cut short `SkippedIsSafeUndisturbed` needs no such hypothesis
(see *Ingest* in section 4).

`LayersAgree` is not inductive either: it holds between files only. `AgreeInv` extends it over the transaction
(`Previous`: the layers *before* agree with the manifest), the sweep of replaced artifacts (they agree but for those) and
the removal of a source layer by layer (`RemovalInv`). It was checked with TLC as an invariant of `ingest_agree` before it
was proved.

The hypotheses are `StemsApart`, for all but `TypesAreKept`, since `ingest_stems` shows what happens without, and `TitlesApart` for
`SkippedIsSafe`. Nothing is assumed of contents, which sources may share, take over and return to: what the code gets wrong
about those that came again is left out of the properties, content by content, and the invariants are stated up to a
set of contents (`Agreed(R, m, d)`: the layers d agree with the manifest m but for vectors of contents in R). The hard
case is a rollback whose source came by a content that another source has: it deletes that source's vectors, so that the
layers are back but for these (`RestoredIsBefore`). Nor is anything assumed of faults: a raising rebuild of the index, of which
the rollback does not know the slug and leaves the page, counts as a run cut short. `SkippedIsSafe` allows that, torn pages, and
any number of runs cut short, losses and edits during
a run. `MarksAssumption` says that the marks for what is missing or torn are no entry, page or manifest, which untyped
TLA+ does not give.

**Lint and recovery.** `RunsHeal`, `RunsHealSources`, `RunsSettleLint`, `FixesTakeNothing`, `LintIsClean`,
`CatalogStaysCalm` and `SkippedIsSafeBesideLint` are theorems of `LintSpec`, that is of ingest with lint and its fixes in between, any of which may be cut short or raise. As in the run
`ingest_recovery`, sources change between runs only (`LintAssumption`). `FixesTakeNothing` and `CatalogStaysCalm` have no other
hypothesis; `LintIsClean` has `StemsApart`; the rest also `TitlesApart`, and `RunsHeal` further that pages are written whole
(`~TornWrites`) and that the rebuild of the index does not raise. Of contents that came again the properties say what they say in the runs.

What a run has made good when it ends is not known from its last step. `HealInv` says it of the sources the run is done
with: a readable one has an entry that a rerun would skip, and by `SafeInv` such an entry has its artifacts; one
that was read as empty has none. `StillInv` says that what was read of a source is what it still is. This gives
`RunsHealSources`, which allows torn pages, any faults, runs cut short and losses. `RunsSettleLint` needs `TextualInv` besides, for
lint also looks at entries whose source is not in this run, and `TitlesApart`, as for `SkippedIsSafe`.

That no link of the index is dead at the end is the harder half of `RunsHeal`, for dead links do arise: a removal that
is killed after it deleted the page leaves one, and the next run repairs it only if some transaction or
removal of that run rebuilds the index. `DeadInv` names for each dead link a source whose turn will do that (`Mends`): one
that the run has not yet had its turn with, that has a raw copy, so that it is found again after a lost manifest, and
whose entry, if it is not a rebuilt one, names the missing page. `RawInv` keeps that source from being forgotten: an
entry whose page is there has a raw copy. `WholeInv` says that no page is torn, and so that every rebuild succeeds.

`RunsHeal` excludes that the rebuild of the index raises, and the bounds of `ingest_recovery` (one kill, one fault) are too
small to show why; with two kills TLC finds the dead link that no run mends. A removal is killed after the raw copy, the
last artifact, is gone, and the entry stays; the file is ingested anew and the rebuild raises: the page stays without a
raw copy, and lint lists it; the file goes away, and the prune is killed once it has deleted the page; the manifest is
lost, and rebuilt from raw copies it has no entry for that file. The next change of any source, or `lint --fix`,
rebuilds the index.

`FixInv` says of a plan of fixes that it names nothing the manifest refers to. It holds when lint plans, and nothing else
runs until the last action is taken, since lint keeps the lock. `FixesTakeNothing` follows with no hypothesis on sources and
faults. `LintIsClean` follows from `AgreeInv`, and needs `WordInv` (the vectors under a hash are of the text with
that hash) and `StillInv`; titles may be shared, since no run is cut short.

`CatalogStaysCalm` needs neither these hypotheses nor `AgreeInv`: it holds also
when contents return or stems are shared, since the catalog looks at raw copies and pages only. Its invariant `ShownInv` is
what a reader without the lock relies on: what the manifest names is there but for the source that is being removed
(`Leaving`), also in the layers that a failing transaction puts back; no page is named by two entries, so that a removal
takes none from another; and no page is torn, so that no removal ends half done. The listing is sorted by rank, and
`SortedIs` (each source has one place in it, by counting) and `PagesGoOn` (a page continues where the one before was cut)
hold for any number of sources.

**Graph.** `TypesHold`, `EdgesHold`, `GraphHolds`, `LintSpares`, `LintSettles`, from

    Inv == TypeOK /\ Supported(graph) /\ GraphMatchesManifest /\ JobInv

`EdgesJoinNodes` is not inductive: removing a source could take a node whose edge belongs to another. `Supported` says
that each end of an edge has *the source of that edge* behind it, which removal, replacement, rollback and both
prunings preserve. It also keeps each part of the graph well formed, from which follows the crucial fact that a node
that is dangling after the removal of one source belongs to no other: this is `RemovedOK`. `JobInv` says what the graph
to roll back to was, and that what a fix still has to prune is orphaned.

**Artifacts and pages.** `ArtifactsAreKept`, `PagesAreFresh`, `PagesHaveEvidence`, `IndexIsComplete` and `OthersAreKept`,
for any number of processes, versions, models and slugs. None of the five properties is inductive, for each speaks of
files alone and depends on what the commands under way know of them. The invariants add that, in layers:

    TextInv == ShapeInv /\ ControlInv /\ StoreInv /\ SlugInv /\ PageInv /\ ApartInv /\ StaleInv

- *Stores.* That an artifact is never overwritten rests on `Asked`: what is about to be stored is not there, since it
  was looked up under the lock that its writer still has (`ControlInv`), after the model had answered. A forced run gets a
  number of its own, since no number exceeds the count of files (`Numbered`).
- *One writer at a time.* Apply takes another lock than ingest, write-back and lint. `ApartInv` says what is left of
  exclusion when none of them overlapped an apply; every fact about the work of one command on a page uses it.
- *Freshness.* An apply looks at the manifest once, at its start. `StaleInv` carries the version it found there through
  the apply, and through the page that an ingest may have to put back: a page that was fresh when an ingest began is
  restored only if the entry it belongs to was not replaced.
- *Log.* `LogInv` says of each synthesized page that it is in the log or in the hand of an apply, and of each page that
  may yet be put back in its place that it is in the log already.
- *Index and owners.* `WorkInv` says, while nothing went wrong, how far a command is with its page and the index: the
  index is that of all pages but for the one in hand (`Near`), and the entry names a page of the source (`Owned`), which is why
  ingest and removal take no page but their own.

`LogInv` and `WorkInv` were checked with TLC on the bounds of `wiki` before they were proved. `WritersAssumption` makes the
slugs of the title a finite run of numbers that starts with 1, as `next_slug` counts them; `PagesAssumption` says that
the marks for a missing and for a torn page are no page.

**Watch.** `RunsExcludeEachOther` and `PointersHold` come from an invariant that says of each process what it must have
done to stand where it stands (`Earned`): whoever works on a run has the lock, whoever is past `SavePlan` has a plan that
was saved, whoever carries a pointer carries one to things that were saved. `LatestSaved` alone is not inductive,
since what a process will write into `latest.json` is in its memory first and then in a file that another process may
publish; so `Loadable` is required of all three places. That plans and runs are never taken back (`Grows`) is why a
pointer stays good while its writer waits. That the file can be read is a second invariant, `PtrInv`, about the writers that have
the temporary file open: as long as no two wrote at once, at most one is between opening and renaming it, it has that very file, which
is bare when it writes, and whole when it renames it.

`RunsAreBounded`, `ReportsAreTrue` and `GraphifyIsLast` are about one run beside any number of other scans, runs, ingests,
edits and deaths. They hold for files that nobody else has touched; an ingest of an entry whose vectors are outworn leaves its content, so that it is
no change to anybody else. The invariant

    WatchInv == Inv /\ Typed /\ \A p \in Procs : RunOK(p)

says of a run what it knows of *such* a file, from scan to report. `Steady`: the sources still look as they did when the
plan was made, and until the run executes the entry is the one it loaded; a changed source or entry would have
touched the file, and so would a change of the saved roots. `Right`, for a well posed request: an entry that is not in the plan is as it was;
a planned ingest is `Settled`, or some root yet to come has the file, or the ingest of this root has failed
(`Ingesting`); a planned prune is done, or the root it is to be done in is yet to come (`Pruning`). That a root which has the file
*is* to come rests on the second scan finding what the first found (`ExecPlanned`), which is where `LostRoot` is needed;
that one root settles a file for good, on roots without a relpath in common (`SeenAt`). Steps of others are dealt with
once (`Leaves`): whatever they do, they touch what they change, and leave the rest of a run alone. `Fresh` says the
same of graphify for a run of which nothing was touched; only the holder of `watch/.lock` builds it in a run, so that two runs
cannot exchange their outputs (`OneRun`).

`Typed` and `RunOK` were checked with TLC as invariants of `watch` before they were proved. `WatchAssumption` says that
the two orders name all files and roots, that a content is not both blank and corrupt, and that the marks for "nobody"
and "nothing" are no process, call or entry.

**Graphify.** `RunsHold` proves `RunsStand` for any number of builders, and layers that change in any way. A run that is
published is complete, and so not reported by lint (`CompleteIsSpared`), because the temporary directory it was renamed from was, and that is known only because one
builder at a time has the lock: the invariant `RunsInv` says who is past `Lock` holds it, and what a builder has written
when it stands before `Publish`. That no published run changes needs that a builder stands there only for a key
without a run. `LayersHold`, that the system with builders implements `GraphStore`, carries everything proved of the
graph over to it.

`BuildsAreCurrent` proves `BuildIsCurrent`. `ViewInv` says what a builder goes by: while it is calm, what it has read is
what is still there; its key carries the graph it built; and at its unlocking latest.json names that key, since all others
wait for the lock. That the graph it read has no edge without an end is taken from `EdgesHold` through `LayersHold`. The other
half is about `cluster`, for every finite graph: `CommunityLeast` says that the search from a node returns the least set
that has the node and that no edge leaves. A round that adds a node makes the set larger, so that after as many rounds as
there are nodes nothing is left to add; `CommunityShared` follows, since what a community has beyond that of one of
its nodes is closed too. The search is a recursive function; that it is defined at all (`SearchExists`), and what holds of
all its rounds, is shown by way of the first round where it would fail (`LeastOf`, `AllRounds`). `GraphifyAssumption` makes
the sets of sources and nodes finite, as the files are.

**Workspaces.** `RegistryIsKept` proves `RegistryKept` for any number of processes. The property says nothing of updates
under way, so the invariant does:

    IInv == Shapes /\ FilesApart /\ (~overlapped => Alone /\ \A p \in Updating : Sound(p))

`FilesApart` is the reason why a killed update does no harm: what its temporary file holds has another inode than the
registry, and the next update truncates it. `Sound` says that what a lone update is to save follows, by what it was
asked, from the registry *as it still is*, which a rival's save would break. `TextsAssumption` says that a missing or
spoilt text is no registry, which untyped TLA+ does not give.

**Queries.** `AnswersAreFit`, `AnswersAreFresh` and `SectionsFit` are theorems of `QuerySpec`, that is of a query and an
enrichment beside runs of ingest. The query has no lock, so that each theorem has two halves: what each of its reads
finds, and what the layers are at the moment of that read. For the first half, `Goes` says once, of every step of a query, what
it may add to what it holds (a page there is, an edge, a hit, a candidate whose evidence is `QuotedNow`), whichever layer
it reads; for the second, what the runs keep is taken from `IngestPipeline_proofs`, to which an enrichment is a stranger
that writes trees. The common part is

    SoundInv == TypeInv /\ LocalsInv /\ EnrichInv /\ FoundInv

- *The answer is fit.* `AnswersAreFit` has no hypothesis, beyond `QueryAssumption`, and holds beside any runs cut short,
  losses and faults: `FoundInv` says of each candidate in hand that it quotes a source if it is eligible, and of each
  page that it is of the session asked for. That a ranking loses and doubles nothing is a lemma on permutations
  (`Reorders`): a list and the same list in another order have each item as often. `RrfRerank` counts for each candidate
  those that precede it; that these counts are the numbers from 0 on is shown by `Precedes` being a strict total order.
- *The answer is fresh.* `AnswersAreFresh` adds `RacedInv` (while they have not met, a run or the enricher is idle),
  `KnownInv` (what is known of manifest and `before` while none is lost), `CalmInv` and

      FreshInv == query.quiet /\ query.pc # "idle" => ... every candidate and every item of the answer is Fresh

  `CalmInv` carries `AgreeInv` of the pipeline over to enrichments, for which it needs `EnrichHas` (what
  the enricher holds is what is on disk) and `FromInv` (a summary is of the raw copy, also in the layers that a rollback
  may put back). The hypothesis is that of `LayersAlwaysAgree`, `StemsApart`, for the same reason.
- *The section is of the passage.* This is the hard one, since it is about queries *beside* runs. Agreement of layers does
  not help: in the midst of a transaction they do not agree. What does is that for each content the manifest names
  there is one text (`OneText`) among all that has ever got into a tree or vector that is still about: the trees on
  disk, those of the layers that a rollback may restore, the tree in the hands of an enricher, the vectors, and the
  hits in the hands of the query. A run can break this only when it commits, so that at that moment no tree but that of the work in hand
  may be of the hash it commits. `KeptInv` gives that without faults (every tree is of an entry, of the work in hand, or of a
  content that is over and does not come back), and `BeforeInv` with `StemmedInv` where no enricher can have kept one:
  a tree is found under the stem of its source, which the transaction has overwritten. `WorkInv` says that the work in
  hand is of a content no entry has yet. `AskedInv` carries all this over to the snapshot of the manifest that the query took at
  its start: what that names is still named or does not come back (`Snapped`).

`SectionsFit` has no hypothesis: stems, titles and contents may be shared and any step may raise. All of the above is said of contents
that are not `Barred`, that is did not come again and did not come back while a tree, a rollback, an enrichment or the query still
knew them (`ComesBack`); the set only grows, so that a content is followed for as long as it is not barred. Its property was first
stated without the condition on runs cut short and faults; the attempt to prove it failed at the commit, and TLC then found
the enrichment that saves a tree of a rolled back attempt (section 4, *Sections and queries*). A second attempt, with contents that may
come back, failed at the edit, and gave the enrichment that saves a tree over a newer one.

`QueryAssumption` identifies the marks for "none" of the modules that are put together, and types the tables of
questions; `PageIndexAssumption` types the sections a model answers with. Both hold in `query.cfg`.

## 7. What is only model-checked

- `CallsAnswered`: liveness under fairness is out of the prover's reach, as is ENABLED.
- `SectionsAgree`: parsers, trees and chunks, for all documents up to the bound. They go over a text by recursive functions
  and the folds of the library, and the prover cannot instantiate its induction theorems; the detour by a first
  failing round (see *Graphify*) is taken for the communities alone.

Conversely the types of the graph layer (`TypesHold` of `Graphify_proofs`) are proved and in no run; that skipping is safe for
sources that share titles or change during a run (`SkippedIsSafeUndisturbed`) is proved, while the run of `SkipIsSafe` has neither; and
contents that come back to a source while a query is under way are reached by the proof of `SectionsFit` more than by its run.

## 8. What is not modelled

- *Embeddings, language models, OCR and images.* Services: what they answer enters as a choice or a table.
- *Adapters, HTTP, command line.* They translate arguments and errors and call the functions modelled here; callers stand
  for them, any number and in any order.
- *`graphify/export.py`.* It renders HTML and Markdown from a finished graph and keeps no state.
- *Configuration, schemas, paths.* Settings that matter are CONSTANTS; validation of shapes is not translated.
- *Retrieval evaluation.* Metrics over a gold set, offline.
- *Within modelled components:* the log of ingest and the events of watch, as no property is about them; the guards on
  time and size of files and the parser of plain text; lint's checks of LLM artifacts and watch, and of the schemas of files, which
  read one file each and report what is wrong with it; a root of watch that does not exist (it counts as one without files; the code has
  the ingest of it fail); the text of a report of lint; labels and aliases of nodes; the wording of answers and traces.

`PROJECT.json` gives each part of the system its status and reason.
