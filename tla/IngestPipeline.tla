---------------------------- MODULE IngestPipeline ----------------------------
(***************************************************************************)
(* `ks ingest` (hks.ingest.pipeline): one run at a time, guarded by the    *)
(* flock of the runtime, brings the layers of a knowledge base -- the page *)
(* trees, raw copies, wiki pages and their index, graph, vectors -- and    *)
(* the manifest that refers to them into step with a directory of sources. *)
(* Each write is a step of its own: a run may be killed between any two,   *)
(* a step may raise, and the sources may change while the run reads them.  *)
(***************************************************************************)
EXTENDS Ordering

CONSTANTS
    FileOrder,            \* the relpaths of the directory, in sorted order
    Contents,             \* what a file can contain; a content is its sha256
    Blank,                \* the contents that yield no text
    Unreadable,           \* the contents every run rejects (corrupt, oversized, 0 bytes ...)
    Gone,                 \* no such file
    None,                 \* no value
    Lost,                 \* the manifest file is missing
    Torn,                 \* a page file cut off in the middle of its frontmatter
    StemOf,               \* TreeStore._slug_for: the slug of a relpath without suffix
    TitleOf,              \* the slug of the title of a source
    EditDuringRun,        \* whether sources change while a run is under way
    FaultPoints,          \* the steps that may raise
    TornWrites,           \* whether a kill can leave a page half written
    MaxEdits, MaxFaults, MaxCuts, MaxLosses    \* bounds on the environment

Files  == {FileOrder[i] : i \in 1 .. Len(FileOrder)}
Stems  == {StemOf[f] : f \in Files}
Textual == Contents \ (Blank \cup Unreadable)
Slugs  == {TitleOf[f] : f \in Files} \X (Nat \ {0})

\* The files of a set, in their order.
ASSUME FilesAssumption == FileOrder \in Seq(Files)

Place(f)  == CHOOSE i \in 1 .. Len(FileOrder) : FileOrder[i] = f
Sorted(S) == InOrder([f \in S |-> Place(f)])

\* The steps of the transaction of one source, and of the removal of one.
Transaction == {"tree", "copy", "page", "index", "graph", "vector", "commit"}
Removal     == {"unlink", "reindex", "detach", "unembed", "untree", "unraw"}

ASSUME IngestAssumption ==
    /\ FaultPoints \subseteq Transaction
    /\ {MaxEdits, MaxFaults, MaxCuts, MaxLosses} \subseteq Nat
    /\ Blank \subseteq Contents /\ Unreadable \subseteq Contents
    /\ {Gone, None, Lost, Torn} \cap Contents = {}

\* What a manifest entry and what a page file can hold.
Entries   == [sha : Contents, page : Slugs \cup {None}]
Artifacts == [of : Files, text : Contents]

\* The marks for what is missing or broken are no data.
ASSUME MarksAssumption ==
    /\ None \notin Slugs \cup Entries
    /\ Torn \notin Artifacts
    /\ \A K \in SUBSET Files : Lost \notin [K -> Entries]

VARIABLES
    source,    \* the directory: the content of every file
    again,     \* the contents that came to a source while they were still around (below)
    disk,      \* the layers, as found by the next process
    manifest,  \* manifest.json
    mem,       \* the manifest object of the run
    job,       \* where the run stands
    count      \* edits, faults, runs cut short and losses so far

vars == <<source, again, disk, manifest, mem, job, count>>

-----------------------------------------------------------------------------
(* Data: directories and dicts are functions on what they hold *)

Put(d, k, x) == [i \in DOMAIN d \cup {k} |-> IF i = k THEN x ELSE d[i]]
Drop(d, K)   == [i \in DOMAIN d \ K |-> d[i]]

Nothing == [i \in {} |-> None]

EmptyDisk == [trees |-> Nothing, raw |-> Nothing, pages |-> Nothing,
              index |-> {}, graph |-> Nothing, vectors |-> Nothing]

\* A manifest entry; page = None stands for empty derived artifacts.  The tree
\* and the vector ids of an entry follow from its relpath and its sha.
Entry(sha, page) == [sha |-> sha, page |-> page]
Derived(e) == e.page # None

Artifact(f, text) == [of |-> f, text |-> text]

\* A page tree of the text of f; by tells how its nodes were made, and from what
\* the summaries were, if it has any.  Ingest builds trees by rule, with none.
Tree(f, sha, text) == [of |-> f, sha |-> sha, text |-> text, by |-> "rule", from |-> None]

\* The locals of the process that holds the lock, if none does.  A run of ingest
\* uses all but the plan, which is of `ks lint --fix`.
Idle == [stage |-> "idle", todo |-> {}, listed |-> {}, prune |-> FALSE,
         file |-> None, sha |-> None, text |-> None, slug |-> None,
         existing |-> None, before |-> EmptyDisk, plan |-> {}]

\* What the run found in the manifest for a source has artifacts to reuse.
HasEntry(e) == e # None /\ Derived(e)

-----------------------------------------------------------------------------
(* A run *)

Init ==
    /\ source = [f \in Files |-> Gone]
    /\ again = {}
    /\ disk = EmptyDisk
    /\ manifest = Nothing
    /\ mem = Nothing
    /\ job = Idle
    /\ count = [edits |-> 0, faults |-> 0, cuts |-> 0, losses |-> 0]

GoTo(stage) == job' = [job EXCEPT !.stage = stage]

\* The files are gone through in their order.
First(f) == \E i \in 1 .. Len(FileOrder) :
               FileOrder[i] = f /\ \A j \in 1 .. i - 1 : FileOrder[j] \notin job.todo

\* The file after f, with the locals of f dropped.
NextFile(f) == job' = [Idle EXCEPT !.stage = "pick", !.todo = job.todo \ {f},
                                   !.listed = job.listed, !.prune = job.prune]

\* The process ends: what it held in memory is gone.
EndRun == job' = Idle /\ mem' = Nothing

\* resume_or_rebuild: a lost manifest is rebuilt from the raw copies.
Resumed ==
    IF manifest = Lost THEN [f \in DOMAIN disk.raw |-> Entry(disk.raw[f], None)]
    ELSE manifest

Start(prune) ==
    /\ job.stage = "idle"
    /\ LET present == {f \in Files : source[f] # Gone} IN
       job' = [Idle EXCEPT !.stage = "pick", !.todo = present, !.listed = present,
                           !.prune = prune]
    /\ mem' = Resumed
    /\ manifest' = Resumed
    /\ UNCHANGED <<source, again, disk, count>>

\* Variant: an entry without artifacts will do, if its vectors are there.
CanSkip_Bare(e, sha) == e.sha = sha /\ e.sha \in DOMAIN disk.vectors

\* _can_skip_existing_entry
CanSkip(e, sha) == e.sha = sha /\ Derived(e) /\ e.sha \in DOMAIN disk.vectors

\* The file is hashed; an entry with this hash and its vectors is left alone.
Examine ==
    /\ job.stage = "pick"
    /\ \E f \in job.todo :
          /\ First(f)
          /\ \/ /\ source[f] = Gone
                /\ EndRun
             \/ /\ source[f] # Gone
                /\ f \in DOMAIN mem /\ CanSkip(mem[f], source[f])
                /\ NextFile(f)
                /\ UNCHANGED mem
             \/ /\ source[f] # Gone
                /\ ~(f \in DOMAIN mem /\ CanSkip(mem[f], source[f]))
                /\ job' = [job EXCEPT !.stage = "parse", !.file = f, !.sha = source[f],
                                      !.existing = IF f \in DOMAIN mem THEN mem[f]
                                                   ELSE None]
                /\ UNCHANGED mem
    /\ UNCHANGED <<source, again, disk, manifest, count>>

\* The file is read a second time, for its text.  The backups of the
\* transaction are taken from the layers as they are now.
Parse ==
    /\ job.stage = "parse"
    /\ LET c == source[job.file] IN
       \/ c = Gone /\ EndRun
       \/ c \in Unreadable /\ NextFile(job.file) /\ UNCHANGED mem
       \/ c \in Blank /\ job.existing = None /\ NextFile(job.file) /\ UNCHANGED mem
       \/ c \in Blank /\ job.existing # None /\ GoTo("unlink") /\ UNCHANGED mem
       \/ /\ c \in Textual
          /\ job' = [job EXCEPT !.stage = "tree", !.text = c, !.before = disk]
          /\ UNCHANGED mem
    /\ UNCHANGED <<source, again, disk, manifest, count>>

-----------------------------------------------------------------------------
(* The transaction of one source *)

\* A write of one layer, after which the run goes on to the next stage.
Write(from, layers, to) ==
    /\ job.stage = from
    /\ disk' = layers
    /\ GoTo(to)
    /\ UNCHANGED <<source, again, manifest, mem, count>>

\* Variant: the raw copy is left in place.
Restored_KeepsRaw == [disk EXCEPT !.graph = job.before.graph]

\* Variant: the raw copy is removed, whether there was one before or not.
Restored_DropsRaw == [disk EXCEPT !.graph = job.before.graph, !.raw = Drop(@, {job.file})]

\* The layers after the except clause.  The slug of the page is known to it
\* only once write_page has returned, that is, has rebuilt the index.
Restored ==
    LET before    == job.before
        stem      == StemOf[job.file]
        pageKnown == job.stage \in {"graph", "vector", "commit"}
        pages     == IF ~pageKnown THEN disk.pages
                     ELSE IF HasEntry(job.existing) /\ job.slug \in DOMAIN before.pages
                          THEN Put(disk.pages, job.slug, before.pages[job.slug])
                          ELSE Drop(disk.pages, {job.slug})
    IN  [trees   |-> IF job.stage = "tree" THEN disk.trees
                     ELSE IF HasEntry(job.existing) /\ stem \in DOMAIN before.trees
                          THEN Put(disk.trees, stem, before.trees[stem])
                          ELSE Drop(disk.trees, {stem}),
         raw     |-> IF job.file \in DOMAIN before.raw
                     THEN Put(disk.raw, job.file, before.raw[job.file])
                     ELSE Drop(disk.raw, {job.file}),
         pages   |-> pages,
         index   |-> IF pageKnown THEN DOMAIN pages ELSE disk.index,
         graph   |-> before.graph,
         vectors |-> IF job.stage = "commit" THEN Drop(disk.vectors, {job.sha})
                     ELSE disk.vectors]

\* The exception goes on to end the run.
Rollback == disk' = Restored /\ EndRun /\ UNCHANGED <<source, again, manifest>>

SaveTree ==
    Write("tree", [disk EXCEPT !.trees = Put(@, StemOf[job.file],
                                             Tree(job.file, job.sha, job.text))], "copy")

\* shutil.copy2 reads the file a third time.
CopyRaw ==
    /\ job.stage = "copy"
    /\ \/ source[job.file] = Gone /\ Rollback /\ UNCHANGED count
       \/ /\ source[job.file] # Gone
          /\ Write("copy", [disk EXCEPT !.raw = Put(@, job.file, source[job.file])],
                   "page")

\* next_slug: the page of the entry, or the first free one of the title.
NextSlug(title) ==
    LET taken == {n \in 1 .. Cardinality(DOMAIN disk.pages) :
                     <<title, n>> \in DOMAIN disk.pages}
        free  == (1 .. Cardinality(DOMAIN disk.pages) + 1) \ taken
    IN  <<title, CHOOSE n \in free : \A m \in free : n <= m>>

PageSlug ==
    IF HasEntry(job.existing) THEN job.existing.page ELSE NextSlug(TitleOf[job.file])

WritePage ==
    /\ job.stage = "page"
    /\ disk' = [disk EXCEPT !.pages = Put(@, PageSlug, Artifact(job.file, job.text))]
    /\ job' = [job EXCEPT !.stage = "index", !.slug = PageSlug]
    /\ UNCHANGED <<source, again, manifest, mem, count>>

\* rebuild_index parses every page, and raises at one it cannot parse.
Indexable == \A s \in DOMAIN disk.pages : disk.pages[s] # Torn

RebuildIndex ==
    /\ job.stage = "index"
    /\ \/ ~Indexable /\ Rollback /\ UNCHANGED count
       \/ Indexable /\ Write("index", [disk EXCEPT !.index = DOMAIN disk.pages], "graph")

ReplaceGraph ==
    Write("graph", [disk EXCEPT !.graph = Put(@, job.file, job.text)], "vector")

\* The ids of the vectors are made from the hash, their text from the parse.
UpsertVectors ==
    Write("vector", [disk EXCEPT !.vectors = Put(@, job.sha,
                                                 Artifact(job.file, job.text))], "commit")

Commit ==
    /\ job.stage = "commit"
    /\ mem' = Put(mem, job.file, Entry(job.sha, job.slug))
    /\ manifest' = mem'
    /\ GoTo("sweep")
    /\ UNCHANGED <<source, again, disk, count>>

\* Variant: the vectors of the replaced entry stay.
StaleVectors_None == {}

\* The vectors of the replaced entry that the new one does not use.
StaleVectors ==
    IF HasEntry(job.existing) THEN {job.existing.sha} \ {job.sha} ELSE {}

\* Variant: the page still in use counts as replaced.
StalePages_All ==
    IF HasEntry(job.existing) THEN {job.existing.page} ELSE {}

StalePages ==
    IF HasEntry(job.existing) THEN {job.existing.page} \ {job.slug} ELSE {}

Sweep ==
    /\ job.stage = "sweep"
    /\ disk' = [disk EXCEPT !.vectors = Drop(@, StaleVectors),
                            !.pages = Drop(@, StalePages),
                            !.index = DOMAIN Drop(disk.pages, StalePages)]
    /\ NextFile(job.file)
    /\ UNCHANGED <<source, again, manifest, mem, count>>

\* A step of the transaction raises; it has written nothing itself.  A page whose
\* index cannot be rebuilt is not taken back.
Fail ==
    /\ job.stage \in FaultPoints
    /\ count.faults < MaxFaults
    /\ Rollback
    /\ count' = [count EXCEPT !.faults = @ + 1,
                              !.cuts = IF job.stage = "index" THEN @ + 1 ELSE @]

-----------------------------------------------------------------------------
(* delete_artifacts, for a source that lost its text or is to be pruned *)

Unlink ==
    Write("unlink", [disk EXCEPT !.pages = Drop(@, {job.existing.page})], "reindex")

Reindex ==
    /\ job.stage = "reindex"
    /\ \/ ~Indexable /\ EndRun /\ UNCHANGED <<source, again, disk, manifest, count>>
       \/ Indexable /\ Write("reindex", [disk EXCEPT !.index = DOMAIN disk.pages], "detach")

Detach == Write("detach", [disk EXCEPT !.graph = Drop(@, {job.file})], "unembed")

Unembed ==
    Write("unembed", IF Derived(job.existing)
                     THEN [disk EXCEPT !.vectors = Drop(@, {job.existing.sha})]
                     ELSE disk, "untree")

\* Variant: the tree of a removed source stays.
Untree_Kept == Write("untree", disk, "unraw")

Untree ==
    Write("untree", IF Derived(job.existing)
                    THEN [disk EXCEPT !.trees = Drop(@, {StemOf[job.file]})]
                    ELSE disk, "unraw")

\* What is pruned has left the manifest in memory before; the prune loop
\* follows the last file, the removal of a blank file precedes its NextFile.
Unraw ==
    Write("unraw", [disk EXCEPT !.raw = Drop(@, {job.file})],
          IF job.todo = {} THEN "prune" ELSE "forget")

Forget ==
    /\ job.stage = "forget"
    /\ mem' = Drop(mem, {job.file})
    /\ manifest' = mem'
    /\ NextFile(job.file)
    /\ UNCHANGED <<source, again, disk, count>>

-----------------------------------------------------------------------------
(* The end of a run *)

AllFilesDone ==
    /\ job.stage = "pick"
    /\ job.todo = {}
    /\ IF job.prune THEN GoTo("prune") /\ UNCHANGED mem ELSE EndRun
    /\ UNCHANGED <<source, again, disk, manifest, count>>

\* Variant: pruning spares entries without artifacts.
Stale_Derived == {f \in DOMAIN mem \ job.listed : ~Derived(mem[f])}

\* The entries whose file the run did not come across.
Stale == DOMAIN mem \ job.listed

Prune ==
    /\ job.stage = "prune"
    /\ \E f \in Stale :
          /\ mem' = Drop(mem, {f})
          /\ job' = [job EXCEPT !.stage = "unlink", !.file = f, !.existing = mem[f]]
    /\ UNCHANGED <<source, again, disk, manifest, count>>

\* The manifest is saved once, after the last removal.
Pruned ==
    /\ job.stage = "prune"
    /\ Stale = {}
    /\ manifest' = mem
    /\ EndRun
    /\ UNCHANGED <<source, again, disk, count>>

-----------------------------------------------------------------------------
(* The environment *)

\* Whether f is, or was last known to be, of content c: to the directory, to the
\* manifest, to the raw copies or to the run under way.
Owns(f, c) ==
    \/ source[f] = c
    \/ f \in DOMAIN mem /\ mem[f].sha = c
    \/ manifest # Lost /\ f \in DOMAIN manifest /\ manifest[f].sha = c
    \/ f \in DOMAIN disk.raw /\ disk.raw[f] = c
    \/ f \in DOMAIN job.before.raw /\ job.before.raw[f] = c
    \/ job.file = f /\ job.sha = c
    \/ job.file = f /\ job.existing # None /\ job.existing.sha = c

\* All layers but the vectors hold the same text of f, under the names that its
\* entry e gives them.
BackedButVectors(f, e, text) ==
    /\ Derived(e)
    /\ e.page \in DOMAIN disk.pages /\ disk.pages[e.page] = Artifact(f, text)
    /\ StemOf[f] \in DOMAIN disk.trees
    /\ LET tree == disk.trees[StemOf[f]] IN
       tree.of = f /\ tree.sha = e.sha /\ tree.text = text
    /\ f \in DOMAIN disk.graph /\ disk.graph[f] = text
    /\ f \in DOMAIN disk.raw

\* All layers do.
Backed(f, e, text) ==
    /\ BackedButVectors(f, e, text)
    /\ e.sha \in DOMAIN disk.vectors /\ disk.vectors[e.sha] = Artifact(f, text)

\* The layers hold the present text of a source.
Held(f, e) == Backed(f, e, source[f]) /\ disk.raw[f] = source[f]

\* A content comes to f while another source is known to have it, or f itself in
\* layers that do not hold it: entries share vectors then, whose ids are made from
\* the hash alone, or one is skipped for its hash.
ComesAgain(f, c) ==
    /\ c # Gone
    /\ \/ \E g \in Files \ {f} : Owns(g, c)
       \/ /\ Owns(f, c)
          /\ ~ (/\ job.stage = "idle" /\ manifest # Lost /\ f \in DOMAIN manifest
                /\ Backed(f, manifest[f], c) /\ disk.raw[f] = c)

Edit(f, c) ==
    /\ EditDuringRun \/ job.stage = "idle"
    /\ count.edits < MaxEdits
    /\ c # source[f]
    /\ source' = [source EXCEPT ![f] = c]
    /\ again' = again \cup {x \in {c} : ComesAgain(f, x)}
    /\ count' = [count EXCEPT !.edits = @ + 1]
    /\ UNCHANGED <<disk, manifest, mem, job>>

\* The process is killed, when a page it was writing may be cut off; or it ends by an
\* exception that nobody undoes: in the sweep, in delete_artifacts, at a save of the
\* manifest outside of the transaction.
CutShort ==
    /\ job.stage # "idle"
    /\ count.cuts < MaxCuts
    /\ disk' \in {disk} \cup
                 IF TornWrites /\ job.stage = "page"
                 THEN {[disk EXCEPT !.pages = Put(@, PageSlug, Torn)]} ELSE {}
    /\ EndRun
    /\ count' = [count EXCEPT !.cuts = @ + 1]
    /\ UNCHANGED <<source, again, manifest>>

LoseManifest ==
    /\ job.stage = "idle"
    /\ manifest # Lost
    /\ count.losses < MaxLosses
    /\ manifest' = Lost
    /\ count' = [count EXCEPT !.losses = @ + 1]
    /\ UNCHANGED <<source, again, disk, mem, job>>

Ingest == \/ Examine \/ Parse
          \/ SaveTree \/ CopyRaw \/ WritePage \/ RebuildIndex
          \/ ReplaceGraph \/ UpsertVectors \/ Commit \/ Sweep

DeleteArtifacts == \/ Unlink \/ Reindex \/ Detach \/ Unembed \/ Untree \/ Unraw \/ Forget

Next ==
    \/ \E prune \in BOOLEAN : Start(prune)
    \/ Ingest
    \/ DeleteArtifacts
    \/ AllFilesDone \/ Prune \/ Pruned
    \/ Fail
    \/ \E f \in Files, c \in Contents \cup {Gone} : Edit(f, c)
    \/ CutShort
    \/ LoseManifest

Spec == Init /\ [][Next]_vars

-----------------------------------------------------------------------------
(* Properties *)

\* Every artifact belongs to an entry -- vectors to one of their hash -- and the
\* index lists the pages.
NoOrphans(m) ==
    /\ DOMAIN disk.pages = {m[f].page : f \in DOMAIN m}
    /\ DOMAIN disk.trees = {StemOf[f] : f \in DOMAIN m}
    /\ \A sha \in DOMAIN disk.vectors :
          LET f == disk.vectors[sha].of IN f \in DOMAIN m /\ m[f].sha = sha
    /\ DOMAIN disk.graph = DOMAIN m
    /\ DOMAIN disk.raw = DOMAIN m
    /\ disk.index = DOMAIN disk.pages

Undisturbed == count.cuts = 0 /\ count.losses = 0

\* No run is brought down by what an earlier one left behind: the index of the
\* pages can always be rebuilt (001 plan.md:76, recovery of interrupted runs).
NeverPoisoned ==
    [][(RebuildIndex \/ Reindex) => job'.stage # "idle"]_vars

\* Between two files and between two runs the layers and the manifest match
\* exactly, and all layers of a source come from one reading of it, whatever the
\* sources did meanwhile and whichever steps raised and were undone: no run was
\* killed, raised outside of a transaction or in the rebuild of the index.  Only
\* the vectors of a content that came again may be gone, or be of another source
\* (001 SC-006, 003 spec.md:74, 013 spec.md:233).
LayersAgree ==
    LET m == IF job.stage = "pick" THEN mem ELSE manifest IN
    Undisturbed /\ job.stage \in {"idle", "pick"} =>
        /\ \A f \in DOMAIN m : \E text \in Textual :
              IF m[f].sha \in again THEN BackedButVectors(f, m[f], text)
              ELSE Backed(f, m[f], text)
        /\ NoOrphans(m)

\* A run that is not cut short and ends early has, of the source it was working
\* on, written everything or nothing (002 FR-061); a content that came again
\* excepted, whose vectors it takes from whoever else has it.
AllOrNothing ==
    [][(Fail \/ (CopyRaw /\ job'.stage = "idle")) /\ Undisturbed' /\ job.sha \notin again
          => disk' = job.before]_vars

\* What the next run would skip as unchanged is what the layers hold, even after
\* runs that were cut short: unless the content has come back to the source before
\* the layers held it, or was that of another as well.
SkipIsSafe ==
    job.stage = "idle" /\ manifest # Lost =>
        \A f \in DOMAIN manifest :
            source[f] \in Textual \ again /\ CanSkip(manifest[f], source[f])
                => Backed(f, manifest[f], source[f])

\* For any content: what 001 plan.md:76 says of recovery comes to this.
SkipIsAlwaysSafe ==
    job.stage = "idle" /\ manifest # Lost =>
        \A f \in DOMAIN manifest :
            source[f] \in Textual /\ CanSkip(manifest[f], source[f])
                => Backed(f, manifest[f], source[f])

\* What a run leaves of a source when it ends.
SourceHealed(f) ==
    /\ source[f] \in Textual \ again =>
          /\ f \in DOMAIN manifest' /\ manifest'[f].sha = source[f]
          /\ Backed(f, manifest'[f], source[f])
          /\ disk.raw[f] = source[f]
    /\ job.prune /\ source[f] = Gone => f \notin DOMAIN manifest'

\* A run that reaches its end leaves every source that can be read with an
\* entry of its present content and the layers to match, and with prune no
\* entry without a file and, if no file is unreadable, no dead link in the
\* index: what earlier runs left half done when they were cut short or raised is
\* made good (001 FR-014, plan.md:76), but for sources of a content that came again.
RunHeals ==
    [][(AllFilesDone \/ Pruned) /\ job'.stage = "idle" =>
          /\ \A f \in Files : SourceHealed(f)
          /\ job.prune /\ (\A f \in Files : source[f] \notin Unreadable \cup again)
                => disk.index \subseteq DOMAIN disk.pages]_vars

=============================================================================
