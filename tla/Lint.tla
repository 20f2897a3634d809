--------------------------------- MODULE Lint ---------------------------------
(***************************************************************************)
(* `ks lint` (hks.lint) beside `ks ingest`: under the lock of the runtime  *)
(* it takes a snapshot of the layers and the manifest, compares them, and  *)
(* with --fix=apply repairs what it is allowed to, one action at a time:   *)
(* an action may raise, and the process may die between two of them.       *)
(***************************************************************************)
EXTENDS IngestPipeline

\* The ids a manifest entry holds of graph and page are those of its hash, for
\* no file changes between its two readings.
ASSUME LintAssumption == ~EditDuringRun

-----------------------------------------------------------------------------
(* Findings: pairs of a category and a target *)

Finding(category, targets) == {category} \X targets

\* Without a manifest, or at a page that cannot be parsed, lint ends with an
\* error.
RuntimeReady  == manifest # Lost
PagesReadable == \A s \in DOMAIN disk.pages : disk.pages[s] # Torn

\* _build_snapshot
Readable == RuntimeReady /\ PagesReadable

\* The derived artifacts that the manifest refers to.
Referring == {f \in DOMAIN manifest : Derived(manifest[f])}

check_wiki ==
    Finding("orphan_page", DOMAIN disk.pages \ disk.index) \cup
    Finding("dead_link", disk.index \ DOMAIN disk.pages)

check_manifest_wiki_raw ==
    Finding("dangling_manifest_entry", DOMAIN manifest \ DOMAIN disk.raw) \cup
    Finding("manifest_wiki_mismatch",
            {manifest[f].page : f \in Referring} \ DOMAIN disk.pages) \cup
    Finding("orphan_raw_source", DOMAIN disk.raw \ DOMAIN manifest) \cup
    Finding("wiki_source_mismatch",
            {s \in DOMAIN disk.pages : disk.pages[s].of \notin DOMAIN manifest})

check_vector ==
    LET ids == {manifest[f].sha : f \in Referring} IN
    Finding("manifest_vector_mismatch", ids \ DOMAIN disk.vectors) \cup
    Finding("orphan_vector_chunk", DOMAIN disk.vectors \ ids)

\* By whole sources; GraphStore has the nodes and edges.
check_graph ==
    Finding("graph_missing",
            {f \in Referring : ~(f \in DOMAIN disk.graph
                                 /\ disk.graph[f] = manifest[f].sha)}) \cup
    Finding("graph_orphan", DOMAIN disk.graph \ DOMAIN manifest)

check_page_trees ==
    LET slugs == {StemOf[f] : f \in Referring} IN
    Finding("tree_missing", slugs \ DOMAIN disk.trees) \cup
    Finding("tree_orphan", DOMAIN disk.trees \ slugs)

run_checks == check_wiki \cup check_manifest_wiki_raw \cup check_vector
              \cup check_graph \cup check_page_trees

\* What lint says of artifacts that an entry of the manifest refers to.
ManifestFindings ==
    {x \in run_checks : x[1] \in {"dangling_manifest_entry", "manifest_wiki_mismatch",
                                  "manifest_vector_mismatch", "graph_missing",
                                  "tree_missing"}}

-----------------------------------------------------------------------------
(* Fixes *)

Targets(category) == {x[2] : x \in {y \in run_checks : y[1] = category}}

Action(name, ids) == [name |-> name, ids |-> ids]

\* plan_fixes: the actions that have something to do, and the order of the plan.
plan_fixes ==
    {a \in {Action("rebuild_index", Targets("orphan_page") \cup Targets("dead_link")),
            Action("prune_orphan_vector_chunks", Targets("orphan_vector_chunk")),
            Action("prune_orphan_graph", Targets("graph_orphan"))} : a.ids # {}}

Precedes(a, b) ==
    \/ a.name = "rebuild_index"
    \/ a.name = "prune_orphan_vector_chunks" /\ b.name = "prune_orphan_graph"

\* Variant: the vectors are deleted without regard to the ids of the finding.
Fixed_AllVectors(a) ==
    CASE a.name = "rebuild_index" -> [disk EXCEPT !.index = DOMAIN disk.pages]
      [] a.name = "prune_orphan_vector_chunks" -> [disk EXCEPT !.vectors = Nothing]
      [] a.name = "prune_orphan_graph" -> [disk EXCEPT !.graph = Drop(@, a.ids)]

Fixed(a) ==
    CASE a.name = "rebuild_index" -> [disk EXCEPT !.index = DOMAIN disk.pages]
      [] a.name = "prune_orphan_vector_chunks" -> [disk EXCEPT !.vectors = Drop(@, a.ids)]
      [] a.name = "prune_orphan_graph" -> [disk EXCEPT !.graph = Drop(@, a.ids)]

\* run_lint takes the lock, which excludes every run of ingest.  With nothing to
\* fix it only looks.
LintFix ==
    /\ job.stage = "idle" /\ Readable
    /\ plan_fixes # {}
    /\ job' = [Idle EXCEPT !.stage = "fix", !.plan = plan_fixes]
    /\ mem' = manifest
    /\ UNCHANGED <<source, again, disk, manifest, count>>

\* An action is taken, or raises: then it is reported as failed and the next
\* one has its turn.
Apply ==
    /\ job.stage = "fix"
    /\ \E a \in job.plan :
          /\ \A b \in job.plan \ {a} : Precedes(a, b)
          /\ \/ disk' = Fixed(a) /\ UNCHANGED count
             \/ /\ count.faults < MaxFaults
                /\ count' = [count EXCEPT !.faults = @ + 1]
                /\ UNCHANGED disk
          /\ IF job.plan = {a} THEN EndRun
             ELSE job' = [job EXCEPT !.plan = @ \ {a}] /\ UNCHANGED mem
    /\ UNCHANGED <<source, again, manifest>>

LintNext == Next \/ LintFix \/ Apply

LintSpec == Init /\ [][LintNext]_vars

-----------------------------------------------------------------------------
(* Properties *)

\* As long as nothing was cut short, lost or raised, whatever sources were added,
\* changed, emptied, broken and removed, lint finds nothing: no false alarm (005
\* spec.md:176: a knowledge base that is only ingested is consistent).  What it may
\* find are missing vectors of a content that came again, which were those of
\* another source as well.
LintClean ==
    Undisturbed /\ count.faults = 0 /\ job.stage = "idle"
        => run_checks \subseteq Finding("manifest_vector_mismatch", again)

\* SC-001 of 005, for any content.
LintAlwaysClean ==
    Undisturbed /\ count.faults = 0 /\ job.stage = "idle" => run_checks = {}

\* What lint says of artifacts that the entry of f refers to.
FindingsOf(f) ==
    LET e == manifest[f] IN
    ManifestFindings \cap
        {<<"dangling_manifest_entry", f>>, <<"manifest_wiki_mismatch", e.page>>,
         <<"manifest_vector_mismatch", e.sha>>, <<"graph_missing", f>>,
         <<"tree_missing", StemOf[f]>>}

\* A run with prune that reaches its end over readable sources leaves nothing
\* to report about what the manifest refers to, although runs and fixes before
\* it died or raised at any step: what then remains are leftovers without an
\* entry, which lint names and fixes or hands to a person.  Entries of a content
\* that came again are excepted.
LintTrusts ==
    [][(AllFilesDone \/ Pruned) /\ job.prune /\ job'.stage = "idle"
          /\ (\A f \in Files : source[f] \notin Unreadable)
       => (Readable =>
              \A f \in DOMAIN manifest : manifest[f].sha \notin again => FindingsOf(f) = {})']_vars

\* A fix takes nothing away from an entry whose layers agree, in whatever state
\* dead runs left the rest (005: fixes touch only orphans).
FixKeeps ==
    [][Apply => \A f \in Referring :
                   LET e == manifest[f] IN
                   Backed(f, e, e.sha) => Backed(f, e, e.sha)']_vars

===============================================================================
