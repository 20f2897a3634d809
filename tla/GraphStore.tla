------------------------------ MODULE GraphStore ------------------------------
(***************************************************************************)
(* The graph layer (hks.graph.store): graph.json merges what was extracted *)
(* from every source into one graph, whose nodes the sources share.  Under *)
(* the lock of the runtime an ingest replaces the part of one source and   *)
(* then commits it to the manifest, or restores the graph; a removal takes *)
(* the part out; `ks lint --fix` prunes what no source of the manifest     *)
(* accounts for.  A process may die between any two of these writes.       *)
(***************************************************************************)
EXTENDS Naturals

CONSTANTS
    Docs,        \* the relpaths of the sources
    Nodes,       \* node ids; an id determines the type of its node
    DocNodes,    \* those of type Document: titles and sections
    Extracts,    \* Extracts[d]: what can be extracted from versions of d
    MaxKills     \* bound on the processes that die

Edges == [of : Docs, from : Nodes, to : Nodes]

Ends(e) == {e.from, e.to}

Touches(edges, n) == \E e \in edges : n \in Ends(e)

NoArtifacts == [nodes |-> {}, edges |-> {}]

\* extract_document_graph: edges join registered nodes, and every node but
\* titles and sections is registered together with an edge.
WellFormed(d, x) ==
    /\ x.nodes # {}
    /\ \A e \in x.edges : e.of = d /\ Ends(e) \subseteq x.nodes
    /\ \A n \in x.nodes \ DocNodes : Touches(x.edges, n)

Artifacts(d) ==
    {x \in [nodes : SUBSET Nodes, edges : SUBSET Edges] : WellFormed(d, x)}

ASSUME GraphAssumption ==
    /\ DocNodes \subseteq Nodes
    /\ MaxKills \in Nat
    /\ \A d \in Docs : \A x \in Extracts[d] :
          /\ x \in [nodes : SUBSET Nodes, edges : SUBSET Edges]
          /\ WellFormed(d, x)

VARIABLES
    graph,     \* graph.json: the sources of every node ({}: no such node), the edges
    entries,   \* the graph artifacts of the manifest entries (NoArtifacts: no entry)
    job,       \* what the holder of the lock is doing
    dirty,     \* the sources whose last ingest or removal died halfway
    kills      \* processes that died so far

vars == <<graph, entries, job, dirty, kills>>

Graphs == [sources : [Nodes -> SUBSET Docs], edges : SUBSET Edges]

EmptyGraph == [sources |-> [n \in Nodes |-> {}], edges |-> {}]

\* The sources an ingest or a removal works on, what they will have in the
\* manifest, the graph to go back to, and the edges a fix has still to prune.
NoJob == [kind |-> "none", docs |-> {}, art |-> NoArtifacts,
          before |-> EmptyGraph, prune |-> {}]

\* The part of source d in a graph.
Part(g, d) == [nodes |-> {n \in Nodes : d \in g.sources[n]},
               edges |-> {e \in g.edges : e.of = d}]

-----------------------------------------------------------------------------
(* Edits of a graph *)

\* Variant: a node goes when it has no edge, whatever its type.
Dangling_AnyType(sources, edges) ==
    {n \in Nodes : sources[n] # {} /\ ~Touches(edges, n)}

\* Nodes of other sources that lost their last edge.
Dangling(sources, edges) ==
    {n \in Nodes \ DocNodes : sources[n] # {} /\ ~Touches(edges, n)}

\* _remove_document_from_payload
Removed(g, d) ==
    LET edges == {e \in g.edges : e.of # d}
        sources == [n \in Nodes |-> g.sources[n] \ {d}]
    IN  [sources |-> [n \in Nodes |-> IF n \in Dangling(sources, edges) THEN {}
                                      ELSE sources[n]],
         edges |-> edges]

\* replace_document, with _merge_node.
Stored(g, d, x) ==
    LET rest == Removed(g, d)
    IN  [sources |-> [n \in Nodes |-> IF n \in x.nodes THEN rest.sources[n] \cup {d}
                                      ELSE rest.sources[n]],
         edges |-> rest.edges \cup x.edges]

\* Variant: the edges of a pruned node stay.
WithoutNodes_Only(g, ids) ==
    [g EXCEPT !.sources = [n \in Nodes |-> IF n \in ids THEN {} ELSE g.sources[n]]]

\* prune_nodes
WithoutNodes(g, ids) ==
    LET sources == [n \in Nodes |-> IF n \in ids THEN {} ELSE g.sources[n]]
    IN  [sources |-> sources,
         edges |-> IF \A n \in ids : g.sources[n] = {} THEN g.edges
                   ELSE {e \in g.edges : \A n \in Ends(e) : sources[n] # {}}]

-----------------------------------------------------------------------------
(* What lint finds *)

Known == {d \in Docs : entries[d] # NoArtifacts}

\* Variant: whether a known source stands behind the node is not asked.
OrphanNodes_Unclaimed(g) ==
    {n \in Nodes : g.sources[n] # {} /\ \A d \in Docs : n \notin entries[d].nodes}

OrphanNodes(g) ==
    {n \in Nodes : /\ g.sources[n] # {}
                   /\ \A d \in Docs : n \notin entries[d].nodes
                   /\ g.sources[n] \cap Known = {}}

\* Edges of unknown sources, and edges that point to a missing node.
OrphanEdges(g) ==
    {e \in g.edges : \/ e.of \notin Known
                     \/ \E n \in Ends(e) : g.sources[n] = {}}

-----------------------------------------------------------------------------
Init ==
    /\ graph = EmptyGraph
    /\ entries = [d \in Docs |-> NoArtifacts]
    /\ job = NoJob
    /\ dirty = {}
    /\ kills = 0

\* An ingest stores the graph of a new or changed source ...
Replace(d, x) ==
    /\ job.kind = "none"
    /\ graph' = Stored(graph, d, x)
    /\ job' = [NoJob EXCEPT !.kind = "add", !.docs = {d}, !.art = x, !.before = graph]
    /\ UNCHANGED <<entries, dirty, kills>>

\* ... and takes it back when a later step raises ...
Rollback ==
    /\ job.kind = "add"
    /\ graph' = job.before
    /\ job' = NoJob
    /\ UNCHANGED <<entries, dirty, kills>>

\* A source without text, or every source without a file, is removed from the
\* graph ...
Detach(d) ==
    /\ job.kind \in {"none", "remove"}
    /\ d \in Known \ job.docs
    /\ graph' = Removed(graph, d)
    /\ job' = [NoJob EXCEPT !.kind = "remove", !.docs = job.docs \cup {d}]
    /\ UNCHANGED <<entries, dirty, kills>>

\* ... and the manifest is saved with the entry, or once without them.
Commit ==
    /\ job.kind \in {"add", "remove"}
    /\ entries' = [d \in Docs |-> IF d \in job.docs THEN job.art ELSE entries[d]]
    /\ dirty' = dirty \ job.docs
    /\ job' = NoJob
    /\ UNCHANGED <<graph, kills>>

\* Variant: the fix of edges is planned for those that lack an end only.
PruneNodes_Dangling ==
    /\ job.kind = "none"
    /\ graph' = WithoutNodes(graph, OrphanNodes(graph))
    /\ job' = [NoJob EXCEPT !.kind = "lint",
                            !.prune = {e \in graph.edges :
                                          \E n \in Ends(e) : graph.sources[n] = {}}]
    /\ UNCHANGED <<entries, dirty, kills>>

\* `ks lint --fix` plans both prunings from one snapshot and applies them.
PruneNodes ==
    /\ job.kind = "none"
    /\ graph' = WithoutNodes(graph, OrphanNodes(graph))
    /\ job' = [NoJob EXCEPT !.kind = "lint", !.prune = OrphanEdges(graph)]
    /\ UNCHANGED <<entries, dirty, kills>>

PruneEdges ==
    /\ job.kind = "lint"
    /\ graph' = [graph EXCEPT !.edges = @ \ job.prune]
    /\ job' = NoJob
    /\ UNCHANGED <<entries, dirty, kills>>

\* The process dies, or a removal raises, which ends it as well.
Kill ==
    /\ job.kind # "none"
    /\ kills < MaxKills
    /\ kills' = kills + 1
    /\ dirty' = dirty \cup job.docs
    /\ job' = NoJob
    /\ UNCHANGED <<graph, entries>>

Next ==
    \/ \E d \in Docs : Detach(d) \/ \E x \in Extracts[d] : Replace(d, x)
    \/ Rollback \/ Commit
    \/ PruneNodes \/ PruneEdges
    \/ Kill

Spec == Init /\ [][Next]_vars

-----------------------------------------------------------------------------
(* Properties *)

\* Every variable keeps its type, and a job has the arguments it needs.
TypeOK ==
    /\ graph \in Graphs
    /\ entries \in [Docs -> [nodes : SUBSET Nodes, edges : SUBSET Edges]]
    /\ \A d \in Docs : entries[d] = NoArtifacts \/ WellFormed(d, entries[d])
    /\ job \in [kind : {"none", "add", "remove", "lint"}, docs : SUBSET Docs,
                art : [nodes : SUBSET Nodes, edges : SUBSET Edges],
                before : Graphs, prune : SUBSET Edges]
    /\ job.kind = "add" => \A d \in job.docs : WellFormed(d, job.art)
    /\ job.kind = "remove" => job.art = NoArtifacts
    /\ dirty \subseteq Docs
    /\ kills \in Nat

\* A query never meets an edge with a missing end, which would make
\* _render_answer raise, at any moment of an ingest, a lint or after a death.
EdgesJoinNodes ==
    \A e \in graph.edges : \A n \in Ends(e) : graph.sources[n] # {}

\* 003 spec.md:33 and :74, FR-308: re-ingest, prune and rollback leave neither
\* stale edges nor orphan nodes, and take nothing from the other sources.  Each
\* source has in the graph exactly what the manifest says, except the one being
\* worked on and those whose last run died.
GraphMatchesManifest ==
    \A d \in Docs \ (dirty \cup job.docs) : Part(graph, d) = entries[d]

\* A fix never takes from a source of the manifest, even one whose graph is
\* ahead of its entry because a run died (005: only orphans are pruned).
LintSparesSources ==
    [][PruneNodes \/ PruneEdges =>
          \A d \in Known : Part(graph', d) = Part(graph, d)]_vars

\* After a fix a second lint finds nothing left to prune.
LintConverges ==
    [][PruneEdges => OrphanNodes(graph') = {} /\ OrphanEdges(graph') = {}]_vars

==============================================================================
