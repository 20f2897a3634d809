---------------------------- MODULE Graphify_proofs ----------------------------
(***************************************************************************)
(* First the graph layer itself: proofs about GraphStore, for any sources, *)
(* any nodes and anything that can be extracted from a source.  Then, over *)
(* them, graphify: its runs stand, for any number of builders, sources,    *)
(* nodes and changes of the layers; builders leave the layers to           *)
(* GraphStore; and a build that nothing disturbs is of the layers as they  *)
(* are, in clusters that are the connected components of its graph.        *)
(***************************************************************************)
EXTENDS Graphify, TLAPS, FiniteSetTheorems, WellFoundedInduction

-----------------------------------------------------------------------------
(* The graph layer: a part of the graph for each source *)

Parts == [nodes : SUBSET Nodes, edges : SUBSET Edges]

\* The ends of an edge have its source behind them: what keeps them in the
\* graph for as long as the edge.
Supported(g) ==
    \A e \in g.edges : e.of \in g.sources[e.from] /\ e.of \in g.sources[e.to]

\* The part of d in g is one that can be extracted, or none.
Sound(g, d) == Part(g, d) = NoArtifacts \/ WellFormed(d, Part(g, d))

-----------------------------------------------------------------------------
(* The edits *)

\* A supported graph has no edge without an end.
LEMMA SupportedJoined ==
  ASSUME NEW g \in Graphs, Supported(g)
  PROVE  \A e \in g.edges : \A n \in Ends(e) : g.sources[n] # {}
  BY DEF Graphs, Supported, Ends, Edges

\* The empty graph is supported and holds no part of any source.
LEMMA EmptyGraphOK ==
  /\ EmptyGraph \in Graphs
  /\ Supported(EmptyGraph)
  /\ \A d \in Docs : Part(EmptyGraph, d) = NoArtifacts
  BY DEF EmptyGraph, Graphs, Supported, Part, NoArtifacts

\* Taking out a source keeps the graph supported, leaves nothing of it, and
\* leaves the sound parts of the others as they were: their nodes that lose an
\* edge keep one of their own.
LEMMA RemovedOK ==
  ASSUME NEW g \in Graphs, Supported(g), NEW d \in Docs
  PROVE  /\ Removed(g, d) \in Graphs
         /\ Supported(Removed(g, d))
         /\ Part(Removed(g, d), d) = NoArtifacts
         /\ \A c \in Docs \ {d} : Sound(g, c) => Part(Removed(g, d), c) = Part(g, c)
  <1> DEFINE E == {e \in g.edges : e.of # d}
             S == [n \in Nodes |-> g.sources[n] \ {d}]
             T == [n \in Nodes |-> IF n \in Dangling(S, E) THEN {} ELSE S[n]]
  <1>1. Removed(g, d) = [sources |-> T, edges |-> E]
    BY DEF Removed
  <1>a. Removed(g, d).sources = T /\ Removed(g, d).edges = E
    BY <1>1
  <1>2. /\ S \in [Nodes -> SUBSET Docs] /\ T \in [Nodes -> SUBSET Docs]
        /\ E \subseteq Edges /\ E \subseteq g.edges
    BY DEF Graphs
  <1>3. Removed(g, d) \in Graphs
    BY <1>1, <1>2 DEF Graphs
  <1>4. ASSUME NEW e \in E PROVE e.of \in T[e.from] /\ e.of \in T[e.to]
    <2>1. e \in Edges /\ e.from \in Nodes /\ e.to \in Nodes /\ e.of # d
      BY <1>2 DEF Edges
    <2>2. e.of \in S[e.from] /\ e.of \in S[e.to]
      BY <2>1, <1>2 DEF Supported
    <2>3. Touches(E, e.from) /\ Touches(E, e.to)
      BY DEF Touches, Ends
    <2> QED
      BY <2>1, <2>2, <2>3 DEF Dangling
  <1>5. Supported(Removed(g, d))
    <2> HIDE DEF E, T
    <2> QED
      BY <1>a, <1>4 DEF Supported
  <1>6. Part(Removed(g, d), d) = NoArtifacts
    <2>1. {n \in Nodes : d \in T[n]} = {}
      OBVIOUS
    <2>2. {e \in E : e.of = d} = {}
      OBVIOUS
    <2> HIDE DEF E, T
    <2> QED
      BY <1>a, <2>1, <2>2 DEF Part, NoArtifacts
  <1>7. ASSUME NEW c \in Docs \ {d}, Sound(g, c)
        PROVE  Part(Removed(g, d), c) = Part(g, c)
    <2>1. {e \in E : e.of = c} = {e \in g.edges : e.of = c}
      OBVIOUS
    <2>2. ASSUME NEW n \in Nodes, c \in g.sources[n] PROVE n \notin Dangling(S, E)
      <3>1. CASE n \in DocNodes
        BY <3>1 DEF Dangling
      <3>2. CASE n \notin DocNodes
        <4>1. n \in Part(g, c).nodes
          BY <2>2 DEF Part
        <4>2. WellFormed(c, Part(g, c))
          BY <1>7, <4>1 DEF Sound, NoArtifacts
        <4>3. Touches(Part(g, c).edges, n)
          BY <4>1, <4>2, <3>2 DEF WellFormed
        <4>4. Part(g, c).edges \subseteq E
          BY DEF Part
        <4>5. Touches(E, n)
          BY <4>3, <4>4 DEF Touches
        <4> QED
          BY <4>5 DEF Dangling
      <3> QED
        BY <3>1, <3>2
    <2>3. {n \in Nodes : c \in T[n]} = {n \in Nodes : c \in g.sources[n]}
      BY <2>2
    <2> HIDE DEF E, T
    <2> QED
      BY <1>a, <2>1, <2>3 DEF Part
  <1> QED
    BY <1>3, <1>5, <1>6, <1>7

\* Replacing a source puts exactly its new part into the graph.
LEMMA StoredOK ==
  ASSUME NEW g \in Graphs, Supported(g), NEW d \in Docs,
         NEW x \in Parts, WellFormed(d, x)
  PROVE  /\ Stored(g, d, x) \in Graphs
         /\ Supported(Stored(g, d, x))
         /\ Part(Stored(g, d, x), d) = x
         /\ \A c \in Docs \ {d} : Sound(g, c) => Part(Stored(g, d, x), c) = Part(g, c)
  <1> DEFINE rest == Removed(g, d)
             T == [n \in Nodes |-> IF n \in x.nodes THEN rest.sources[n] \cup {d}
                                   ELSE rest.sources[n]]
             E == rest.edges \cup x.edges
  <1>1. Stored(g, d, x) = [sources |-> T, edges |-> E]
    BY DEF Stored
  <1>a. Stored(g, d, x).sources = T /\ Stored(g, d, x).edges = E
    BY <1>1
  <1>2. rest \in Graphs /\ Supported(rest) /\ Part(rest, d) = NoArtifacts
    BY RemovedOK
  <1>3. \A c \in Docs \ {d} : Sound(g, c) => Part(rest, c) = Part(g, c)
    BY RemovedOK
  <1> HIDE DEF rest
  <1>4. x.nodes \subseteq Nodes /\ x.edges \subseteq Edges
    BY DEF Parts
  <1>5. T \in [Nodes -> SUBSET Docs] /\ E \subseteq Edges
    BY <1>2, <1>4 DEF Graphs
  <1>6. Stored(g, d, x) \in Graphs
    BY <1>1, <1>5 DEF Graphs
  <1>7. ASSUME NEW e \in E PROVE e.of \in T[e.from] /\ e.of \in T[e.to]
    <2>1. e \in Edges /\ e.from \in Nodes /\ e.to \in Nodes
      BY <1>5 DEF Edges
    <2>2. CASE e \in rest.edges
      BY <2>1, <2>2, <1>2 DEF Supported
    <2>3. CASE e \in x.edges
      <3>1. e.of = d /\ e.from \in x.nodes /\ e.to \in x.nodes
        BY <2>3 DEF WellFormed, Ends
      <3> QED
        BY <2>1, <3>1
    <2> QED
      BY <2>2, <2>3
  <1>8. Supported(Stored(g, d, x))
    <2> HIDE DEF E, T
    <2> QED
      BY <1>a, <1>7 DEF Supported
  <1>9. /\ \A n \in Nodes : d \notin rest.sources[n]
        /\ \A e \in rest.edges : e.of # d
    BY <1>2 DEF Part, NoArtifacts
  <1>10. Part(Stored(g, d, x), d) = x
    <2>1. {n \in Nodes : d \in T[n]} = x.nodes
      BY <1>4, <1>9
    <2>2. {e \in E : e.of = d} = x.edges
      BY <1>9 DEF WellFormed
    <2>3. x = [nodes |-> x.nodes, edges |-> x.edges]
      BY DEF Parts
    <2> HIDE DEF E, T
    <2> QED
      BY <1>a, <2>1, <2>2, <2>3 DEF Part
  <1>11. ASSUME NEW c \in Docs \ {d}, Sound(g, c)
         PROVE  Part(Stored(g, d, x), c) = Part(g, c)
    <2>1. {n \in Nodes : c \in T[n]} = {n \in Nodes : c \in rest.sources[n]}
      OBVIOUS
    <2>2. {e \in E : e.of = c} = {e \in rest.edges : e.of = c}
      BY DEF WellFormed
    <2>3. Part(Stored(g, d, x), c) = Part(rest, c)
      <3> HIDE DEF E, T
      <3> QED
        BY <1>a, <2>1, <2>2 DEF Part
    <2> QED
      BY <2>3, <1>3, <1>11
  <1> QED
    BY <1>6, <1>8, <1>10, <1>11

\* Pruning nodes keeps the graph supported, leaves the parts of the sources that
\* do not stand behind any of them as they are, and leaves none of the nodes.
LEMMA WithoutNodesOK ==
  ASSUME NEW g \in Graphs, Supported(g), NEW ids \in SUBSET Nodes
  PROVE  /\ WithoutNodes(g, ids) \in Graphs
         /\ Supported(WithoutNodes(g, ids))
         /\ WithoutNodes(g, ids).edges \subseteq g.edges
         /\ \A n \in Nodes : WithoutNodes(g, ids).sources[n] =
                                IF n \in ids THEN {} ELSE g.sources[n]
         /\ \A d \in Docs : (\A n \in ids : d \notin g.sources[n]) =>
                              Part(WithoutNodes(g, ids), d) = Part(g, d)
  <1> DEFINE h == WithoutNodes(g, ids)
             S == [n \in Nodes |-> IF n \in ids THEN {} ELSE g.sources[n]]
             E == IF \A n \in ids : g.sources[n] = {} THEN g.edges
                  ELSE {e \in g.edges : \A n \in Ends(e) : S[n] # {}}
  <1>1. h.sources = S /\ h.edges = E /\ h = [sources |-> S, edges |-> E]
    BY DEF WithoutNodes
  <1>2. S \in [Nodes -> SUBSET Docs] /\ E \subseteq g.edges /\ E \subseteq Edges
    BY DEF Graphs
  <1>3. h \in Graphs
    <2> HIDE DEF S, E, h
    <2> QED
      BY <1>1, <1>2 DEF Graphs
  <1>4. ASSUME NEW e \in E PROVE e.of \in S[e.from] /\ e.of \in S[e.to]
    <2>1. /\ e \in g.edges /\ e.from \in Nodes /\ e.to \in Nodes
          /\ e.of \in g.sources[e.from] /\ e.of \in g.sources[e.to]
      BY <1>2 DEF Edges, Supported
    <2>2. CASE \A n \in ids : g.sources[n] = {}
      BY <2>1, <2>2
    <2>3. CASE ~ \A n \in ids : g.sources[n] = {}
      <3>1. S[e.from] # {} /\ S[e.to] # {}
        BY <2>3 DEF Ends
      <3> QED
        BY <2>1, <3>1
    <2> QED
      BY <2>2, <2>3
  <1>5. Supported(h)
    <2> HIDE DEF S, E, h
    <2> QED
      BY <1>1, <1>4 DEF Supported
  <1>6. ASSUME NEW d \in Docs, \A n \in ids : d \notin g.sources[n]
        PROVE  Part(h, d) = Part(g, d)
    <2>1. {n \in Nodes : d \in S[n]} = {n \in Nodes : d \in g.sources[n]}
      BY <1>6
    <2>2. ASSUME NEW e \in g.edges, e.of = d PROVE e \in E
      <3>1. /\ e.from \in Nodes /\ e.to \in Nodes
            /\ d \in g.sources[e.from] /\ d \in g.sources[e.to]
        BY <2>2 DEF Graphs, Edges, Supported
      <3>2. e.from \notin ids /\ e.to \notin ids
        BY <3>1, <1>6
      <3>3. S[e.from] # {} /\ S[e.to] # {}
        BY <3>1, <3>2
      <3> QED
        BY <3>3 DEF Ends
    <2>3. {e \in E : e.of = d} = {e \in g.edges : e.of = d}
      <3> HIDE DEF E
      <3> QED
        BY <1>2, <2>2
    <2> HIDE DEF S, E, h
    <2> QED
      BY <1>1, <2>1, <2>3 DEF Part
  <1>7. h.edges \subseteq g.edges
    BY <1>1, <1>2
  <1>8. \A n \in Nodes : h.sources[n] = IF n \in ids THEN {} ELSE g.sources[n]
    BY <1>1
  <1> QED
    BY <1>3, <1>5, <1>6, <1>7, <1>8

WithoutEdges(g, drop) == [sources |-> g.sources, edges |-> g.edges \ drop]

\* Dropping edges keeps the graph supported, and the parts none of whose edges
\* are dropped.
LEMMA WithoutEdgesOK ==
  ASSUME NEW g \in Graphs, Supported(g), NEW drop \in SUBSET Edges
  PROVE  /\ WithoutEdges(g, drop) \in Graphs
         /\ Supported(WithoutEdges(g, drop))
         /\ \A d \in Docs : (\A e \in drop : e.of # d) =>
                              Part(WithoutEdges(g, drop), d) = Part(g, d)
  <1> DEFINE h == WithoutEdges(g, drop)
  <1>1. h \in Graphs /\ h.sources = g.sources /\ h.edges = g.edges \ drop
    BY DEF Graphs, WithoutEdges
  <1> HIDE DEF h
  <1>2. Supported(h)
    BY <1>1 DEF Supported
  <1>3. ASSUME NEW d \in Docs, \A e \in drop : e.of # d
        PROVE  Part(h, d) = Part(g, d)
    <2>1. {e \in h.edges : e.of = d} = {e \in g.edges : e.of = d}
      BY <1>1, <1>3
    <2> QED
      BY <1>1, <2>1 DEF Part
  <1> QED
    BY <1>1, <1>2, <1>3 DEF h

-----------------------------------------------------------------------------
(* The inductive invariant *)

\* What the holder of the lock has done so far, and what it may still undo.
JobInv ==
    /\ job.kind \in {"none", "lint"} => job.docs = {}
    /\ job.kind \in {"add", "remove"} => \A d \in job.docs : Part(graph, d) = job.art
    /\ job.kind = "add" => /\ Supported(job.before)
                           /\ \A d \in Docs \ dirty : Part(job.before, d) = entries[d]
    /\ job.kind = "lint" =>
          /\ OrphanNodes(graph) = {}
          /\ \A e \in job.prune : e.of \notin Known
          /\ \A e \in graph.edges : e.of \notin Known => e \in job.prune

Inv == TypeOK /\ Supported(graph) /\ GraphMatchesManifest /\ JobInv

USE GraphAssumption DEF Parts

\* Nothing is stored at first.
LEMMA InitInv == Init => Inv
  <1> SUFFICES ASSUME Init PROVE Inv
    OBVIOUS
  <1>1. TypeOK
    BY EmptyGraphOK DEF Init, TypeOK, NoJob, NoArtifacts
  <1> QED
    BY <1>1, EmptyGraphOK DEF Init, Inv, GraphMatchesManifest, JobInv, NoJob

\* Storing a source: its part is the new one, the others are as they were, and
\* the graph of before still agrees with the manifest.
LEMMA ReplaceInv ==
  ASSUME Inv, NEW d \in Docs, NEW x \in Extracts[d], Replace(d, x)
  PROVE  Inv'
  <1>1. x \in Parts /\ WellFormed(d, x)
    OBVIOUS
  <1>2. graph \in Graphs /\ Supported(graph)
    BY DEF Inv, TypeOK
  <1>3. /\ graph' \in Graphs /\ Supported(graph') /\ Part(graph', d) = x
        /\ \A c \in Docs \ {d} : Sound(graph, c) => Part(graph', c) = Part(graph, c)
    BY <1>1, <1>2, StoredOK DEF Replace
  <1>4. /\ job.kind = "none" /\ job.docs = {}
        /\ job'.kind = "add" /\ job'.docs = {d} /\ job'.art = x
        /\ job'.before = graph /\ job'.prune = {}
        /\ job' = [kind |-> "add", docs |-> {d}, art |-> x, before |-> graph, prune |-> {}]
        /\ UNCHANGED <<entries, dirty, kills>>
    BY DEF Inv, JobInv, Replace, NoJob
  <1>5. \A c \in Docs \ dirty : Part(graph, c) = entries[c] /\ Sound(graph, c)
    BY <1>4 DEF Inv, TypeOK, GraphMatchesManifest, Sound
  <1>6. TypeOK'
    BY <1>1, <1>2, <1>3, <1>4 DEF Inv, TypeOK, WellFormed
  <1>7. GraphMatchesManifest'
    BY <1>3, <1>4, <1>5 DEF GraphMatchesManifest
  <1>8. JobInv'
    BY <1>2, <1>3, <1>4, <1>5 DEF JobInv
  <1> QED
    BY <1>3, <1>6, <1>7, <1>8 DEF Inv

\* Taking a source back restores the graph of before.
LEMMA RollbackInv == ASSUME Inv, Rollback PROVE Inv'
  <1>1. /\ graph' = job.before /\ graph' \in Graphs /\ Supported(graph')
        /\ \A d \in Docs \ dirty : Part(graph', d) = entries[d]
        /\ job' = NoJob /\ UNCHANGED <<entries, dirty, kills>>
    BY DEF Inv, TypeOK, JobInv, Rollback
  <1>2. TypeOK'
    BY <1>1, EmptyGraphOK DEF Inv, TypeOK, NoJob, NoArtifacts
  <1> QED
    BY <1>1, <1>2 DEF Inv, GraphMatchesManifest, JobInv, NoJob

\* Taking a source out leaves nothing of it and the others as they were.
LEMMA DetachInv == ASSUME Inv, NEW d \in Docs, Detach(d) PROVE Inv'
  <1>1. graph \in Graphs /\ Supported(graph)
    BY DEF Inv, TypeOK
  <1>2. /\ graph' \in Graphs /\ Supported(graph') /\ Part(graph', d) = NoArtifacts
        /\ \A c \in Docs \ {d} : Sound(graph, c) => Part(graph', c) = Part(graph, c)
    BY <1>1, RemovedOK DEF Detach
  <1>3. /\ job'.kind = "remove" /\ job'.docs = job.docs \cup {d}
        /\ job'.art = NoArtifacts
        /\ job' = [kind |-> "remove", docs |-> job.docs \cup {d},
                   art |-> NoArtifacts, before |-> EmptyGraph, prune |-> {}]
        /\ UNCHANGED <<entries, dirty, kills>>
    BY DEF Detach, NoJob
  <1>4. \A c \in Docs \ (dirty \cup job.docs) :
            Part(graph, c) = entries[c] /\ Sound(graph, c)
    BY DEF Inv, TypeOK, GraphMatchesManifest, Sound
  <1>a. \A c \in job.docs : Part(graph, c) = NoArtifacts /\ Sound(graph, c)
    BY DEF Inv, TypeOK, JobInv, Detach, Sound
  <1>b. job.docs \subseteq Docs
    BY DEF Inv, TypeOK
  <1>c. \A c \in job.docs \cup {d} : Part(graph', c) = NoArtifacts
    BY <1>2, <1>a, <1>b
  <1>5. TypeOK'
    BY <1>2, <1>3, <1>b, EmptyGraphOK DEF Inv, TypeOK, NoArtifacts
  <1>6. GraphMatchesManifest'
    BY <1>2, <1>3, <1>4 DEF GraphMatchesManifest
  <1>7. JobInv'
    BY <1>3, <1>c DEF JobInv
  <1> QED
    BY <1>2, <1>5, <1>6, <1>7 DEF Inv

\* The manifest takes over what the graph has of the source.
LEMMA CommitInv == ASSUME Inv, Commit PROVE Inv'
  <1>1. /\ job.docs \subseteq Docs /\ job.art \in Parts
        /\ \A d \in job.docs : /\ Part(graph, d) = job.art
                               /\ job.art = NoArtifacts \/ WellFormed(d, job.art)
    BY DEF Inv, TypeOK, JobInv, Commit
  <1>2. /\ entries \in [Docs -> Parts]
        /\ entries' = [d \in Docs |-> IF d \in job.docs THEN job.art ELSE entries[d]]
        /\ dirty' = dirty \ job.docs /\ job' = NoJob /\ graph' = graph /\ kills' = kills
    BY DEF Inv, TypeOK, Commit
  <1>3. /\ entries' \in [Docs -> Parts]
        /\ \A d \in job.docs : entries'[d] = job.art
        /\ \A d \in Docs \ job.docs : entries'[d] = entries[d]
    BY <1>1, <1>2
  <1>4. \A d \in Docs : entries'[d] = NoArtifacts \/ WellFormed(d, entries'[d])
    BY <1>1, <1>3 DEF Inv, TypeOK
  <1>5. TypeOK'
    BY <1>2, <1>3, <1>4, EmptyGraphOK DEF Inv, TypeOK, NoJob, NoArtifacts
  <1>6. \A d \in Docs \ dirty' : Part(graph', d) = entries'[d]
    BY <1>1, <1>2, <1>3 DEF Inv, GraphMatchesManifest
  <1> QED
    BY <1>2, <1>5, <1>6 DEF Inv, GraphMatchesManifest, JobInv, NoJob

\* The first pruning of a fix spares the parts of the sources of the manifest
\* and leaves no orphan.
LEMMA PruneNodesSpares ==
  ASSUME Inv, PruneNodes
  PROVE  /\ graph' \in Graphs /\ Supported(graph')
         /\ graph'.edges \subseteq graph.edges
         /\ \A n \in Nodes : graph'.sources[n] \subseteq graph.sources[n]
         /\ \A d \in Known : Part(graph', d) = Part(graph, d)
         /\ OrphanNodes(graph') = {}
  <1> DEFINE ids == OrphanNodes(graph)
  <1>1. graph \in Graphs /\ Supported(graph) /\ Known \in SUBSET Docs
    BY DEF Inv, TypeOK, Known
  <1>2. ids \in SUBSET Nodes /\ \A n \in ids, d \in Known : d \notin graph.sources[n]
    BY DEF OrphanNodes
  <1>3. graph' = WithoutNodes(graph, ids)
    BY DEF PruneNodes
  <1> HIDE DEF ids
  <1>4. /\ graph' \in Graphs /\ Supported(graph') /\ graph'.edges \subseteq graph.edges
        /\ \A n \in Nodes :
              graph'.sources[n] = IF n \in ids THEN {} ELSE graph.sources[n]
        /\ \A d \in Known : Part(graph', d) = Part(graph, d)
    BY <1>1, <1>2, <1>3, WithoutNodesOK
  <1>5. OrphanNodes(graph') = {}
    BY <1>4 DEF OrphanNodes, ids
  <1> QED
    BY <1>4, <1>5

\* Pruning nodes: sources without an entry had no part and get none.
LEMMA PruneNodesInv == ASSUME Inv, PruneNodes PROVE Inv'
  <1>1. /\ graph' \in Graphs /\ Supported(graph')
        /\ graph'.edges \subseteq graph.edges
        /\ \A n \in Nodes : graph'.sources[n] \subseteq graph.sources[n]
        /\ \A d \in Known : Part(graph', d) = Part(graph, d)
        /\ OrphanNodes(graph') = {}
    BY PruneNodesSpares
  <1>2. /\ job.kind = "none" /\ job.docs = {}
        /\ job'.kind = "lint" /\ job'.docs = {} /\ job'.prune = OrphanEdges(graph)
        /\ job' = [kind |-> "lint", docs |-> {}, art |-> NoArtifacts,
                   before |-> EmptyGraph, prune |-> OrphanEdges(graph)]
        /\ UNCHANGED <<entries, dirty, kills>>
    BY DEF Inv, JobInv, PruneNodes, NoJob
  <1>3. OrphanEdges(graph) \subseteq Edges /\ OrphanEdges(graph) \subseteq graph.edges
    BY DEF OrphanEdges, Inv, TypeOK, Graphs
  <1>4. TypeOK'
    BY <1>1, <1>2, <1>3, EmptyGraphOK DEF Inv, TypeOK, NoArtifacts
  <1>5. ASSUME NEW d \in Docs \ dirty PROVE Part(graph', d) = entries[d]
    <2>1. Part(graph, d) = entries[d]
      BY <1>2 DEF Inv, GraphMatchesManifest
    <2>2. CASE d \in Known
      BY <1>1, <2>1, <2>2
    <2>3. CASE d \notin Known
      <3>1. Part(graph, d) = NoArtifacts /\ entries[d] = NoArtifacts
        BY <2>1, <2>3 DEF Known
      <3>2. {n \in Nodes : d \in graph.sources[n]} = {} /\ {e \in graph.edges : e.of = d} = {}
        BY <3>1 DEF Part, NoArtifacts
      <3>3. {n \in Nodes : d \in graph'.sources[n]} = {} /\ {e \in graph'.edges : e.of = d} = {}
        BY <3>2, <1>1
      <3> QED
        BY <3>1, <3>3 DEF Part, NoArtifacts
    <2> QED
      BY <2>2, <2>3
  <1>6. GraphMatchesManifest'
    BY <1>2, <1>5 DEF GraphMatchesManifest
  <1>7. \A n \in Nodes, e \in graph.edges : n \in Ends(e) => graph.sources[n] # {}
    BY SupportedJoined DEF Inv, TypeOK
  <1>8. \A e \in OrphanEdges(graph) : e.of \notin Known
    BY <1>7 DEF OrphanEdges, Inv, TypeOK, Graphs, Edges, Ends
  <1>9. \A e \in graph'.edges : e.of \notin Known => e \in OrphanEdges(graph)
    BY <1>1 DEF OrphanEdges
  <1>10. Known' = Known /\ OrphanNodes(graph)' = {}
    BY <1>1, <1>2 DEF Known, OrphanNodes
  <1>11. JobInv'
    BY <1>2, <1>8, <1>9, <1>10 DEF JobInv
  <1> QED
    BY <1>1, <1>4, <1>6, <1>11 DEF Inv

\* The second pruning of a fix takes edges of unknown sources only, and leaves
\* nothing to fix.
LEMMA PruneEdgesSpares ==
  ASSUME Inv, PruneEdges
  PROVE  /\ graph' \in Graphs /\ Supported(graph')
         /\ graph'.sources = graph.sources
         /\ graph'.edges = graph.edges \ job.prune
         /\ \A d \in Docs : (\A e \in job.prune : e.of # d) => Part(graph', d) = Part(graph, d)
         /\ \A d \in Known : Part(graph', d) = Part(graph, d)
         /\ OrphanNodes(graph') = {} /\ OrphanEdges(graph') = {}
  <1>1. graph \in Graphs /\ Supported(graph) /\ job.prune \in SUBSET Edges
    BY DEF Inv, TypeOK
  <1>2. /\ graph' = WithoutEdges(graph, job.prune)
        /\ graph'.sources = graph.sources /\ graph'.edges = graph.edges \ job.prune
    BY <1>1 DEF PruneEdges, WithoutEdges, Graphs
  <1>3. /\ graph' \in Graphs /\ Supported(graph')
        /\ graph'.sources = graph.sources /\ graph'.edges = graph.edges \ job.prune
        /\ \A d \in Docs : (\A e \in job.prune : e.of # d) => Part(graph', d) = Part(graph, d)
    BY <1>1, <1>2, WithoutEdgesOK
  <1>4. /\ OrphanNodes(graph) = {}
        /\ \A e \in job.prune : e.of \notin Known
        /\ \A e \in graph.edges : e.of \notin Known => e \in job.prune
    BY DEF Inv, JobInv, PruneEdges
  <1>5. \A d \in Known : Part(graph', d) = Part(graph, d)
    BY <1>3, <1>4 DEF Known
  <1>6. OrphanNodes(graph') = {}
    BY <1>3, <1>4 DEF OrphanNodes
  <1>7. OrphanEdges(graph') = {}
    <2>1. \A e \in graph'.edges : \A n \in Ends(e) : graph'.sources[n] # {}
      BY <1>3, SupportedJoined
    <2> QED
      BY <2>1, <1>3, <1>4 DEF OrphanEdges
  <1> QED
    BY <1>3, <1>5, <1>6, <1>7

\* Pruning edges: sources without an entry had no part and get none.
LEMMA PruneEdgesInv == ASSUME Inv, PruneEdges PROVE Inv'
  <1>1. /\ graph' \in Graphs /\ Supported(graph')
        /\ graph'.sources = graph.sources /\ graph'.edges = graph.edges \ job.prune
        /\ \A d \in Docs : (\A e \in job.prune : e.of # d) => Part(graph', d) = Part(graph, d)
        /\ \A d \in Known : Part(graph', d) = Part(graph, d)
    BY PruneEdgesSpares
  <1>2. /\ job.docs = {} /\ job' = NoJob /\ UNCHANGED <<entries, dirty, kills>>
    BY DEF Inv, JobInv, PruneEdges
  <1>3. TypeOK'
    BY <1>1, <1>2, EmptyGraphOK DEF Inv, TypeOK, NoJob, NoArtifacts
  <1>4. ASSUME NEW d \in Docs \ dirty PROVE Part(graph', d) = entries[d]
    <2>1. Part(graph, d) = entries[d]
      BY <1>2 DEF Inv, GraphMatchesManifest
    <2>2. CASE d \in Known
      BY <1>1, <2>1, <2>2
    <2>3. CASE d \notin Known
      <3>1. Part(graph, d) = NoArtifacts /\ entries[d] = NoArtifacts
        BY <2>1, <2>3 DEF Known
      <3>2. {e \in graph.edges : e.of = d} = {}
        BY <3>1 DEF Part, NoArtifacts
      <3>3. {e \in graph'.edges : e.of = d} = {}
        BY <3>2, <1>1
      <3> QED
        BY <3>1, <3>2, <3>3, <1>1 DEF Part, NoArtifacts
    <2> QED
      BY <2>2, <2>3
  <1> QED
    BY <1>1, <1>2, <1>3, <1>4 DEF Inv, GraphMatchesManifest, JobInv, NoJob

\* A death leaves the graph as it is; its source is marked.
LEMMA KillInv == ASSUME Inv, Kill PROVE Inv'
  <1>1. /\ graph' = graph /\ entries' = entries /\ job' = NoJob
        /\ kills' = kills + 1
        /\ dirty' \subseteq Docs
        /\ Docs \ dirty' = Docs \ (dirty \cup job.docs)
    BY DEF Inv, TypeOK, JobInv, Kill
  <1>2. TypeOK'
    BY <1>1, EmptyGraphOK DEF Inv, TypeOK, NoJob, NoArtifacts
  <1> QED
    BY <1>1, <1>2 DEF Inv, GraphMatchesManifest, JobInv, NoJob

\* Every step keeps the invariant.
LEMMA NextInv == Inv /\ [Next]_vars => Inv'
  <1> SUFFICES ASSUME Inv, [Next]_vars PROVE Inv'
    OBVIOUS
  <1>1. ASSUME NEW d \in Docs, Detach(d) PROVE Inv'
    BY <1>1, DetachInv
  <1>2. ASSUME NEW d \in Docs, NEW x \in Extracts[d], Replace(d, x) PROVE Inv'
    BY <1>2, ReplaceInv
  <1>3. CASE Rollback
    BY <1>3, RollbackInv
  <1>4. CASE Commit
    BY <1>4, CommitInv
  <1>5. CASE PruneNodes
    BY <1>5, PruneNodesInv
  <1>6. CASE PruneEdges
    BY <1>6, PruneEdgesInv
  <1>7. CASE Kill
    BY <1>7, KillInv
  <1>8. CASE UNCHANGED vars
    BY <1>8 DEF vars, Inv, TypeOK, Supported, GraphMatchesManifest, JobInv,
                Known, OrphanNodes, Part, WellFormed, Graphs
  <1> QED
    BY <1>1, <1>2, <1>3, <1>4, <1>5, <1>6, <1>7, <1>8 DEF Next

\* The invariant holds in every reachable state.
LEMMA Invariance == Spec => []Inv
  BY InitInv, NextInv, PTL DEF Spec

-----------------------------------------------------------------------------
(* The properties *)

\* Every variable of the graph layer keeps its type.
THEOREM TypesHold == Spec => []TypeOK
  <1>1. Inv => TypeOK
    BY DEF Inv
  <1> QED
    BY <1>1, Invariance, PTL

\* No query ever meets an edge with a missing end.
THEOREM EdgesHold == Spec => []EdgesJoinNodes
  <1>1. Inv => EdgesJoinNodes
    BY SupportedJoined DEF Inv, TypeOK, EdgesJoinNodes
  <1> QED
    BY <1>1, Invariance, PTL

\* Every source that no run left halfway has in the graph exactly the
\* artifacts of its manifest entry, whatever nodes it shares with the others.
THEOREM GraphHolds == Spec => []GraphMatchesManifest
  <1>1. Inv => GraphMatchesManifest
    BY DEF Inv
  <1> QED
    BY <1>1, Invariance, PTL

\* A fix takes nothing from a source of the manifest.
THEOREM LintSpares == Spec => LintSparesSources
  <1>1. Inv /\ [Next]_vars =>
          [PruneNodes \/ PruneEdges =>
              \A d \in Known : Part(graph', d) = Part(graph, d)]_vars
    BY PruneNodesSpares, PruneEdgesSpares
  <1> QED
    BY <1>1, Invariance, PTL DEF Spec, LintSparesSources

\* A completed fix leaves nothing to fix.
THEOREM LintSettles == Spec => LintConverges
  <1>1. Inv /\ [Next]_vars =>
          [PruneEdges => OrphanNodes(graph') = {} /\ OrphanEdges(graph') = {}]_vars
    BY PruneEdgesSpares
  <1> QED
    BY <1>1, Invariance, PTL DEF Spec, LintConverges

-----------------------------------------------------------------------------
(* Graphify: the inductive invariant *)

\* A builder in one of these stages holds the lock ...
Publishing == {"write", "graphify", "manifest", "publish", "latest", "unlock"}

\* ... in these its run is not there yet, under the key it has ...
Writing == {"write", "graphify", "manifest", "publish"}
Keyed   == {"lock"} \cup Writing

\* ... and in these no run has the stamp of its creation.
Early == {"readManifest", "readGraph", "readPages", "list", "fingerprint"} \cup Keyed

\* What a builder may rely on.
Stamped(b) ==
    build[b].pc \in Early =>
        /\ build[b].made \in Nat /\ build[b].made > budget.builds
        /\ \A k \in DOMAIN runs : k.made # build[b].made
        /\ \A c \in Builders \ {b} :
              build[c].pc \in Early => build[c].made # build[b].made

HasKey(b) == build[b].pc \in Keyed => build[b].key.made \in {0, build[b].made}

Locked(b) == build[b].pc \in Publishing => holder = b

NotThere(b) == build[b].pc \in Writing => build[b].key \notin DOMAIN runs

Pieces(b) ==
    /\ build[b].pc \in {"graphify", "manifest", "publish"} => build[b].key \in DOMAIN temps
    /\ build[b].pc = "graphify" => temps[build[b].key].pieces = {}
    /\ build[b].pc = "manifest" => temps[build[b].key].pieces = {"graphify"}
    /\ build[b].pc = "publish" => temps[build[b].key].pieces = Required

Published(b) == build[b].pc = "latest" => build[b].key \in DOMAIN runs

BuilderOK(b) ==
    Stamped(b) /\ HasKey(b) /\ Locked(b) /\ NotThere(b) /\ Pieces(b) /\ Published(b)

\* The records keep their fields; the stamps of the runs are past.
Shape ==
    /\ DOMAIN build = Builders
    /\ \A b \in Builders : DOMAIN build[b] = DOMAIN Away
    /\ \A k \in DOMAIN temps : DOMAIN temps[k] = {"pieces", "made"}
    /\ budget \in [changes : Nat \cup {Unbounded}, builds : Nat, deaths : Nat]
    /\ \A k \in DOMAIN runs : k.made \in Nat /\ (k.made = 0 \/ k.made > budget.builds)

RunsInv == Shape /\ RunsComplete /\ \A b \in Builders : BuilderOK(b)

-----------------------------------------------------------------------------
(* Steps of one builder *)

\* What BuilderOK depends on is as it was.
Same(c) ==
    /\ build'[c].pc = build[c].pc /\ build'[c].made = build[c].made
    /\ build'[c].key = build[c].key

\* A step of b leaves the other builders alone ...
Alone(b) ==
    /\ DOMAIN build' = Builders
    /\ \A c \in Builders : DOMAIN build'[c] = DOMAIN Away
    /\ \A c \in Builders \ {b} : Same(c)
    /\ \A c \in Builders \ {b} : holder = c => holder' = c

\* ... runs are only added, by the holder of the lock and under its key ...
RunsGrow(b) ==
    /\ DOMAIN runs \subseteq DOMAIN runs'
    /\ \A k \in DOMAIN runs' \ DOMAIN runs :
          build[b].pc \in Writing /\ k = build[b].key
    /\ temps' = temps \/ build[b].pc \in Writing

\* ... and stamps are given out once.
StampsOnce(b) ==
    /\ budget' \in [changes : Nat \cup {Unbounded}, builds : Nat, deaths : Nat]
    /\ budget'.builds <= budget.builds
    /\ build'[b].pc \in Early =>
          \/ build[b].pc \in Early /\ build'[b].made = build[b].made
          \/ budget'.builds < budget.builds /\ build'[b].made = budget.builds

\* What the others rely on they can rely on after a step of b.
LEMMA OthersOK ==
  ASSUME RunsInv, NEW b \in Builders, Alone(b), RunsGrow(b), StampsOnce(b),
         NEW c \in Builders \ {b}
  PROVE  BuilderOK(c)'
  <1>1. Same(c) /\ BuilderOK(c) /\ BuilderOK(b)
    BY DEF RunsInv, Alone
  <1>2. build[c].pc \in Publishing => build[b].pc \notin Writing
    BY <1>1 DEF BuilderOK, Locked, Publishing, Writing
  <1>3. Writing \subseteq Early /\ Writing \subseteq Keyed /\ Writing \subseteq Publishing
    BY DEF Writing, Early, Keyed, Publishing
  <1>4. Locked(c)' /\ HasKey(c)' /\ Published(c)'
    BY <1>1 DEF Alone, RunsGrow, BuilderOK, Locked, HasKey, Published, Same
  <1>5. Pieces(c)'
    BY <1>1, <1>2 DEF RunsGrow, BuilderOK, Pieces, Same, Publishing
  <1>6. NotThere(c)'
    BY <1>1, <1>2, <1>3 DEF RunsGrow, BuilderOK, NotThere, Same
  <1>7. Stamped(c)'
    <2> SUFFICES ASSUME build[c].pc \in Early PROVE Stamped(c)'
      BY <1>1 DEF Same, Stamped
    <2>1. /\ build[c].made \in Nat /\ build[c].made > budget.builds
          /\ budget.builds \in Nat /\ budget'.builds \in Nat
      BY <1>1 DEF BuilderOK, Stamped, RunsInv, Shape, StampsOnce
    <2>2. build'[c].made \in Nat /\ build'[c].made > budget'.builds
      BY <1>1, <2>1 DEF Same, StampsOnce
    <2>3. ASSUME NEW k \in DOMAIN runs' PROVE k.made # build[c].made
      <3>1. CASE k \in DOMAIN runs
        BY <1>1, <3>1 DEF BuilderOK, Stamped
      <3>2. CASE k \notin DOMAIN runs
        BY <1>1, <1>3, <2>1, <3>2 DEF RunsGrow, BuilderOK, HasKey, Stamped, RunsInv, Shape
      <3> QED BY <3>1, <3>2
    <2>4. ASSUME NEW d \in Builders \ {c}, build'[d].pc \in Early
          PROVE build'[d].made # build[c].made
      <3>1. CASE d = b
        BY <1>1, <2>1, <2>4, <3>1 DEF StampsOnce, BuilderOK, Stamped
      <3>2. CASE d # b
        BY <1>1, <2>4, <3>2 DEF Alone, Same, BuilderOK, Stamped
      <3> QED BY <3>1, <3>2
    <2> QED
      BY <1>1, <2>2, <2>3, <2>4 DEF Same, Stamped
  <1> QED
    BY <1>4, <1>5, <1>6, <1>7 DEF BuilderOK

\* A builder that goes on with its stamp keeps it to itself.
LEMMA StampKept ==
  ASSUME RunsInv, NEW b \in Builders, Alone(b), RunsGrow(b),
         DOMAIN runs' = DOMAIN runs, budget'.builds <= budget.builds,
         budget'.builds \in Nat,
         build[b].pc \in Early, build'[b].made = build[b].made
  PROVE  Stamped(b)'
  <1>1. Stamped(b) /\ budget.builds \in Nat
    BY DEF RunsInv, BuilderOK, Shape
  <1>2. build'[b].made \in Nat /\ build'[b].made > budget'.builds
    BY <1>1 DEF Stamped
  <1> QED
    BY <1>1, <1>2 DEF Stamped, Alone, Same

\* A step of b keeps the invariant if it keeps what concerns b.
LEMMA StepOK ==
  ASSUME RunsInv, NEW b \in Builders, Alone(b), RunsGrow(b), StampsOnce(b),
         BuilderOK(b)', RunsComplete',
         \A k \in DOMAIN temps' : DOMAIN temps'[k] = {"pieces", "made"}
  PROVE  RunsInv'
  <1>1. \A c \in Builders : BuilderOK(c)'
    BY OthersOK
  <1>2. BuilderOK(b) /\ Writing \subseteq Early /\ Writing \subseteq Keyed
    BY DEF RunsInv, Writing, Early, Keyed
  <1>3. /\ budget.builds \in Nat /\ budget'.builds \in Nat
        /\ budget'.builds <= budget.builds
    BY DEF RunsInv, Shape, StampsOnce
  <1>4. ASSUME NEW k \in DOMAIN runs'
        PROVE k.made \in Nat /\ (k.made = 0 \/ k.made > budget'.builds)
    <2>1. CASE k \in DOMAIN runs
      BY <1>3, <2>1 DEF RunsInv, Shape
    <2>2. CASE k \notin DOMAIN runs
      <3>1. k.made \in {0, build[b].made} /\ build[b].made \in Nat
            /\ build[b].made > budget.builds
        BY <1>2, <2>2 DEF RunsGrow, BuilderOK, HasKey, Stamped
      <3> QED BY <1>3, <3>1
    <2> QED BY <2>1, <2>2
  <1>5. Shape'
    BY <1>4 DEF Shape, Alone, StampsOnce
  <1> QED
    BY <1>1, <1>5 DEF RunsInv

\* Steps that only move a builder on do not touch runs and stamps.
Quiet(b) ==
    /\ UNCHANGED <<runs, temps, latest, budget>>
    /\ build'[b].pc \in Early => build[b].pc \in Early /\ build'[b].made = build[b].made

LEMMA QuietOK ==
  ASSUME RunsInv, NEW b \in Builders, Alone(b), Quiet(b),
         HasKey(b)', Locked(b)', NotThere(b)', Pieces(b)', Published(b)'
  PROVE  RunsInv'
  <1>1. RunsGrow(b) /\ StampsOnce(b) /\ budget'.builds <= budget.builds /\ budget'.builds \in Nat
    BY DEF Quiet, RunsGrow, StampsOnce, RunsInv, Shape
  <1>2. Stamped(b)'
    BY <1>1, StampKept DEF Quiet, Stamped
  <1>3. RunsComplete'
    BY DEF Quiet, RunsComplete, RunsInv
  <1> QED
    BY <1>1, <1>2, <1>3, StepOK DEF BuilderOK, Quiet, RunsInv, Shape

-----------------------------------------------------------------------------
(* The steps of a builder *)

\* A builder without a call has all the fields.
LEMMA AwayFields ==
  /\ DOMAIN Away = {"pc", "made", "entries", "graph", "listed", "built", "key", "calm"}
  /\ Away.pc = "away"
  BY DEF Away

\* A step of b alone that leaves the lock to whoever has it.
LEMMA AloneOK ==
  ASSUME RunsInv, NEW b \in Builders, NEW r, build' = [build EXCEPT ![b] = r],
         DOMAIN r = DOMAIN Away,
         \A c \in Builders \ {b} : holder = c => holder' = c
  PROVE  Alone(b) /\ build'[b] = r
  BY DEF RunsInv, Shape, Alone, Same

\* What DEF does with the stages of a builder.
LEMMA Stages ==
  /\ Writing = {"write", "graphify", "manifest", "publish"}
  /\ Publishing = {"write", "graphify", "manifest", "publish", "latest", "unlock"}
  /\ Keyed = {"lock", "write", "graphify", "manifest", "publish"}
  /\ Early = {"readManifest", "readGraph", "readPages", "list", "fingerprint",
              "lock", "write", "graphify", "manifest", "publish"}
  BY DEF Writing, Publishing, Keyed, Early

\* A builder that is away relies on nothing.
LEMMA AwayOK ==
  ASSUME NEW b \in Builders, build'[b].pc = "away"
  PROVE  BuilderOK(b)'
  BY Stages DEF BuilderOK, Stamped, HasKey, Locked, NotThere, Pieces, Published

\* A builder that reads has no key yet.
LEMMA ReadingOK ==
  ASSUME NEW b \in Builders,
         build'[b].pc \in {"readManifest", "readGraph", "readPages", "list", "fingerprint"}
  PROVE  HasKey(b)' /\ Locked(b)' /\ NotThere(b)' /\ Pieces(b)' /\ Published(b)'
  BY Stages DEF HasKey, Locked, NotThere, Pieces, Published

LEMMA CallInv == ASSUME RunsInv, NEW b \in Builders, Call(b) PROVE RunsInv'
  <1> DEFINE r == [Away EXCEPT !.pc = "readManifest", !.made = budget.builds]
  <1>1. DOMAIN r = DOMAIN Away /\ r.pc = "readManifest" /\ r.made = budget.builds
    BY AwayFields
  <1>2. build' = [build EXCEPT ![b] = r] /\ UNCHANGED <<holder, runs, temps, latest>>
    BY DEF Call
  <1> HIDE DEF r
  <1>3. Alone(b) /\ build'[b] = r
    BY <1>1, <1>2, AloneOK
  <1>4. /\ budget'.builds = budget.builds - 1 /\ budget.builds \in Nat /\ budget.builds > 0
        /\ budget' \in [changes : Nat \cup {Unbounded}, builds : Nat, deaths : Nat]
    BY DEF Call, RunsInv, Shape
  <1>5. RunsGrow(b) /\ StampsOnce(b)
    BY <1>1, <1>2, <1>3, <1>4 DEF RunsGrow, StampsOnce
  <1>6. Stamped(b)'
    <2>1. \A k \in DOMAIN runs : k.made # budget.builds
      BY <1>4 DEF RunsInv, Shape
    <2>2. \A c \in Builders \ {b} : build[c].pc \in Early => build[c].made # budget.builds
      BY <1>4 DEF RunsInv, BuilderOK, Stamped
    <2> QED
      BY <1>1, <1>2, <1>3, <1>4, <2>1, <2>2 DEF Stamped, Alone, Same
  <1>7. BuilderOK(b)'
    BY <1>1, <1>3, <1>6, ReadingOK DEF BuilderOK
  <1> QED
    BY <1>2, <1>3, <1>5, <1>7, StepOK DEF RunsInv, RunsComplete, Shape

LEMMA ReadManifestInv ==
  ASSUME RunsInv, NEW b \in Builders, ReadManifest(b) PROVE RunsInv'
  <1> DEFINE r == [build[b] EXCEPT !.pc = "readGraph", !.entries = Known]
  <1>1. DOMAIN r = DOMAIN Away /\ r.pc = "readGraph" /\ r.made = build[b].made
    BY AwayFields DEF RunsInv, Shape
  <1>2. /\ build' = [build EXCEPT ![b] = r] /\ UNCHANGED <<holder, runs, temps, latest, budget>>
        /\ build[b].pc = "readManifest"
    BY DEF ReadManifest, LayersStay
  <1> HIDE DEF r
  <1>3. Alone(b) /\ build'[b] = r
    BY <1>1, <1>2, AloneOK
  <1> QED
    BY <1>1, <1>2, <1>3, ReadingOK, QuietOK, Stages DEF Quiet

LEMMA ReadGraphInv ==
  ASSUME RunsInv, NEW b \in Builders, ReadGraph(b) PROVE RunsInv'
  <1> DEFINE r == [build[b] EXCEPT !.pc = "readPages", !.graph = graph]
  <1>1. DOMAIN r = DOMAIN Away /\ r.pc = "readPages" /\ r.made = build[b].made
    BY AwayFields DEF RunsInv, Shape
  <1>2. /\ build' = [build EXCEPT ![b] = r] /\ UNCHANGED <<holder, runs, temps, latest, budget>>
        /\ build[b].pc = "readGraph"
    BY DEF ReadGraph, LayersStay
  <1> HIDE DEF r
  <1>3. Alone(b) /\ build'[b] = r
    BY <1>1, <1>2, AloneOK
  <1> QED
    BY <1>1, <1>2, <1>3, ReadingOK, QuietOK, Stages DEF Quiet

\* A builder that gives up.
LEMMA GiveUpInv ==
  ASSUME RunsInv, NEW b \in Builders, build' = [build EXCEPT ![b] = Away],
         \A c \in Builders \ {b} : holder = c => holder' = c,
         budget' \in [changes : Nat \cup {Unbounded}, builds : Nat, deaths : Nat],
         budget'.builds = budget.builds, UNCHANGED <<runs, temps, latest>>
  PROVE  RunsInv'
  <1>1. Alone(b) /\ build'[b] = Away
    BY AloneOK
  <1>2. build'[b].pc = "away" /\ budget.builds \in Nat
    BY <1>1, AwayFields DEF RunsInv, Shape
  <1>3. BuilderOK(b)'
    BY <1>2, AwayOK
  <1>4. RunsGrow(b) /\ StampsOnce(b)
    BY <1>2, Stages DEF RunsGrow, StampsOnce
  <1> QED
    BY <1>1, <1>3, <1>4, StepOK DEF RunsInv, RunsComplete, Shape

LEMMA ReadPagesInv ==
  ASSUME RunsInv, NEW b \in Builders, ReadPages(b) PROVE RunsInv'
  <1> DEFINE x == build_graph(build[b].entries, pages, build[b].graph)
  <1> DEFINE r == [build[b] EXCEPT !.pc = "list", !.entries = {}, !.graph = EmptyGraph,
                                   !.built = x]
  <1>1. DOMAIN r = DOMAIN Away /\ r.pc = "list" /\ r.made = build[b].made
    BY AwayFields DEF RunsInv, Shape
  <1>2. /\ UNCHANGED <<holder, runs, temps, latest, budget>>
        /\ build[b].pc = "readPages"
    BY DEF ReadPages, LayersStay
  <1>3. CASE build' = [build EXCEPT ![b] = Away]
    BY <1>2, <1>3, GiveUpInv DEF RunsInv, Shape
  <1>4. CASE build' = [build EXCEPT ![b] = r]
    <2> HIDE DEF r
    <2>1. Alone(b) /\ build'[b] = r
      BY <1>1, <1>2, <1>4, AloneOK
    <2> QED
      BY <1>1, <1>2, <2>1, ReadingOK, QuietOK, Stages DEF Quiet
  <1> QED
    BY <1>3, <1>4 DEF ReadPages

LEMMA ListFilesInv ==
  ASSUME RunsInv, NEW b \in Builders, ListFiles(b) PROVE RunsInv'
  <1> DEFINE r == [build[b] EXCEPT !.pc = "fingerprint", !.listed = pages]
  <1>1. DOMAIN r = DOMAIN Away /\ r.pc = "fingerprint" /\ r.made = build[b].made
    BY AwayFields DEF RunsInv, Shape
  <1>2. /\ build' = [build EXCEPT ![b] = r] /\ UNCHANGED <<holder, runs, temps, latest, budget>>
        /\ build[b].pc = "list"
    BY DEF ListFiles, LayersStay
  <1> HIDE DEF r
  <1>3. Alone(b) /\ build'[b] = r
    BY <1>1, <1>2, AloneOK
  <1> QED
    BY <1>1, <1>2, <1>3, ReadingOK, QuietOK, Stages DEF Quiet

LEMMA FingerprintInv ==
  ASSUME RunsInv, NEW b \in Builders, NEW store \in BOOLEAN, NEW force \in BOOLEAN,
         Fingerprint(b, store, force)
  PROVE  RunsInv'
  <1> DEFINE k == idempotency_key(build[b], force)
  <1> DEFINE r == [build[b] EXCEPT !.pc = "lock", !.listed = {}, !.key = k]
  <1>1. DOMAIN r = DOMAIN Away /\ r.pc = "lock" /\ r.made = build[b].made /\ r.key = k
    BY AwayFields DEF RunsInv, Shape
  <1>2. /\ UNCHANGED <<holder, runs, temps, latest, budget>>
        /\ build[b].pc = "fingerprint"
    BY DEF Fingerprint, LayersStay
  <1>3. k.made \in {0, build[b].made}
    BY DEF idempotency_key
  <1>4. CASE build' = [build EXCEPT ![b] = Away]
    BY <1>2, <1>4, GiveUpInv DEF RunsInv, Shape
  <1>5. CASE build' = [build EXCEPT ![b] = r]
    <2> HIDE DEF r, k
    <2>1. Alone(b) /\ build'[b] = r
      BY <1>1, <1>2, <1>5, AloneOK
    <2>2. HasKey(b)' /\ Locked(b)' /\ NotThere(b)' /\ Pieces(b)' /\ Published(b)'
      BY <1>1, <1>3, <2>1, Stages DEF HasKey, Locked, NotThere, Pieces, Published
    <2> QED
      BY <1>1, <1>2, <2>1, <2>2, QuietOK, Stages DEF Quiet
  <1> QED
    BY <1>4, <1>5 DEF Fingerprint

\* A step of the holder of the lock to the next stage.
LEMMA StepAlone ==
  ASSUME RunsInv, NEW b \in Builders, NEW from, NEW to, Step(b, from, to),
         \A c \in Builders \ {b} : holder = c => holder' = c
  PROVE  /\ Alone(b) /\ build[b].pc = from /\ build'[b].pc = to
         /\ build'[b].made = build[b].made /\ build'[b].key = build[b].key
  <1> DEFINE r == [build[b] EXCEPT !.pc = to]
  <1>1. /\ DOMAIN r = DOMAIN Away /\ r.pc = to /\ r.made = build[b].made
        /\ r.key = build[b].key
    BY AwayFields DEF RunsInv, Shape
  <1>2. build' = [build EXCEPT ![b] = r] /\ build[b].pc = from
    BY DEF Step
  <1> HIDE DEF r
  <1> QED
    BY <1>1, <1>2, AloneOK

LEMMA LockInv == ASSUME RunsInv, NEW b \in Builders, Lock(b) PROVE RunsInv'
  <1> DEFINE reuse == build[b].key.made = 0 /\ build[b].key \in DOMAIN runs
             next  == IF reuse THEN "latest" ELSE "write"
  <1>1. /\ holder = None /\ holder' = b /\ Step(b, "lock", next)
        /\ UNCHANGED <<runs, temps, latest, budget>>
    BY DEF Lock, LayersStay
  <1>2. \A c \in Builders \ {b} : holder = c => holder' = c
    BY <1>1, GraphifyAssumption
  <1>3. /\ Alone(b) /\ build[b].pc = "lock" /\ build'[b].pc = next
        /\ build'[b].made = build[b].made /\ build'[b].key = build[b].key
    <2> HIDE DEF next
    <2> QED BY <1>1, <1>2, StepAlone
  <1>4. BuilderOK(b) /\ next \in {"latest", "write"}
    BY DEF RunsInv
  <1>5. Quiet(b) /\ HasKey(b)' /\ Locked(b)' /\ Pieces(b)' /\ Published(b)'
    BY <1>1, <1>3, <1>4, Stages
       DEF Quiet, BuilderOK, HasKey, Locked, Pieces, Published
  <1>6. NotThere(b)'
    <2> SUFFICES ASSUME ~reuse PROVE build[b].key \notin DOMAIN runs
      BY <1>1, <1>3, Stages DEF NotThere
    <2>1. build[b].key.made \in {0, build[b].made}
      BY <1>3, <1>4, Stages DEF BuilderOK, HasKey
    <2>2. \A k \in DOMAIN runs : k.made # build[b].made
      BY <1>3, <1>4, Stages DEF BuilderOK, Stamped
    <2> QED
      BY <2>1, <2>2
  <1> QED
    BY <1>3, <1>5, <1>6, QuietOK

LEMMA MakeTempInv == ASSUME RunsInv, NEW b \in Builders, MakeTemp(b) PROVE RunsInv'
  <1>1. /\ Step(b, "write", "graphify") /\ UNCHANGED <<holder, runs, latest, budget>>
        /\ temps' = Put(temps, build[b].key, [pieces |-> {}, made |-> build[b].made])
    BY DEF MakeTemp, LayersStay
  <1>2. /\ Alone(b) /\ build[b].pc = "write" /\ build'[b].pc = "graphify"
        /\ build'[b].made = build[b].made /\ build'[b].key = build[b].key
    BY <1>1, StepAlone
  <1>3. BuilderOK(b) /\ budget.builds \in Nat
    BY DEF RunsInv, Shape
  <1>4. RunsGrow(b) /\ StampsOnce(b)
    BY <1>1, <1>2, <1>3, Stages DEF RunsGrow, StampsOnce, RunsInv, Shape
  <1>5. Stamped(b)'
    BY <1>1, <1>2, <1>3, <1>4, Stages, StampKept
  <1>6. HasKey(b)' /\ Locked(b)' /\ NotThere(b)' /\ Published(b)'
    BY <1>1, <1>2, <1>3, Stages DEF BuilderOK, HasKey, Locked, NotThere, Published
  <1>7. Pieces(b)'
    BY <1>1, <1>2 DEF Pieces, Put
  <1>8. \A k \in DOMAIN temps' : DOMAIN temps'[k] = {"pieces", "made"}
    BY <1>1 DEF RunsInv, Shape, Put
  <1> QED
    BY <1>1, <1>2, <1>4, <1>5, <1>6, <1>7, <1>8, StepOK DEF BuilderOK, RunsInv, RunsComplete

LEMMA WritePieceInv == ASSUME RunsInv, NEW b \in Builders, WritePiece(b) PROVE RunsInv'
  <1> DEFINE from == build[b].pc
             to   == IF from = "graphify" THEN "manifest" ELSE "publish"
             key  == build[b].key
  <1>1. /\ from \in {"graphify", "manifest"} /\ Step(b, from, to)
        /\ UNCHANGED <<holder, runs, latest, budget>>
        /\ temps' = [temps EXCEPT ![key].pieces = @ \cup {from}]
    BY DEF WritePiece, LayersStay, Required
  <1>2. /\ Alone(b) /\ build'[b].pc = to
        /\ build'[b].made = build[b].made /\ build'[b].key = key
    BY <1>1, StepAlone
  <1>3. /\ BuilderOK(b) /\ budget.builds \in Nat
        /\ from \in Writing /\ from \in Early /\ to \in {"manifest", "publish"}
    BY <1>1, Stages DEF RunsInv, Shape
  <1>4. RunsGrow(b) /\ StampsOnce(b)
    BY <1>1, <1>2, <1>3 DEF RunsGrow, StampsOnce, RunsInv, Shape
  <1>5. Stamped(b)'
    BY <1>1, <1>2, <1>3, <1>4, StampKept
  <1>6. HasKey(b)' /\ Locked(b)' /\ NotThere(b)' /\ Published(b)'
    BY <1>1, <1>2, <1>3, Stages DEF BuilderOK, HasKey, Locked, NotThere, Published
  <1>7. key \in DOMAIN temps /\ DOMAIN temps[key] = {"pieces", "made"}
    BY <1>1, <1>3 DEF BuilderOK, Pieces, RunsInv, Shape
  <1>8. Pieces(b)'
    BY <1>1, <1>2, <1>3, <1>7 DEF BuilderOK, Pieces, Required
  <1>9. \A k \in DOMAIN temps' : DOMAIN temps'[k] = {"pieces", "made"}
    BY <1>1, <1>7 DEF RunsInv, Shape
  <1> QED
    BY <1>1, <1>2, <1>4, <1>5, <1>6, <1>8, <1>9, StepOK DEF BuilderOK, RunsInv, RunsComplete

LEMMA PublishInv == ASSUME RunsInv, NEW b \in Builders, Publish(b) PROVE RunsInv'
  <1> DEFINE key == build[b].key
  <1>1. /\ Step(b, "publish", "latest") /\ UNCHANGED <<holder, latest, budget>>
        /\ runs' = Put(runs, key, temps[key]) /\ temps' = Drop(temps, key)
    BY DEF Publish, LayersStay
  <1>2. /\ Alone(b) /\ build[b].pc = "publish" /\ build'[b].pc = "latest"
        /\ build'[b].made = build[b].made /\ build'[b].key = key
    BY <1>1, StepAlone
  <1>3. BuilderOK(b) /\ budget.builds \in Nat
    BY DEF RunsInv, Shape
  <1>4. RunsGrow(b) /\ StampsOnce(b)
    BY <1>1, <1>2, <1>3, Stages DEF RunsGrow, StampsOnce, RunsInv, Shape, Put
  <1>5. BuilderOK(b)'
    BY <1>1, <1>2, <1>3, Stages
       DEF BuilderOK, Stamped, HasKey, Locked, NotThere, Pieces, Published, Put
  <1>6. RunsComplete'
    BY <1>1, <1>2, <1>3 DEF BuilderOK, Pieces, RunsComplete, RunsInv, Put
  <1>7. \A k \in DOMAIN temps' : DOMAIN temps'[k] = {"pieces", "made"}
    BY <1>1 DEF RunsInv, Shape, Drop
  <1> QED
    BY <1>2, <1>4, <1>5, <1>6, <1>7, StepOK

LEMMA PointLatestInv ==
  ASSUME RunsInv, NEW b \in Builders, PointLatest(b) PROVE RunsInv'
  <1>1. /\ Step(b, "latest", "unlock") /\ UNCHANGED <<holder, runs, temps, budget>>
        /\ latest' = build[b].key
    BY DEF PointLatest, LayersStay
  <1>2. Alone(b) /\ build[b].pc = "latest" /\ build'[b].pc = "unlock"
    BY <1>1, StepAlone
  <1>3. BuilderOK(b) /\ budget.builds \in Nat
    BY DEF RunsInv, Shape
  <1>4. RunsGrow(b) /\ StampsOnce(b)
    BY <1>1, <1>2, <1>3, Stages DEF RunsGrow, StampsOnce, RunsInv, Shape
  <1>5. BuilderOK(b)'
    BY <1>1, <1>2, <1>3, Stages
       DEF BuilderOK, Stamped, HasKey, Locked, NotThere, Pieces, Published
  <1>6. RunsComplete'
    BY <1>1, <1>2, <1>3 DEF BuilderOK, Published, RunsComplete, RunsInv
  <1> QED
    BY <1>1, <1>2, <1>4, <1>5, <1>6, StepOK DEF RunsInv, Shape

LEMMA UnlockInv == ASSUME RunsInv, NEW b \in Builders, Unlock(b) PROVE RunsInv'
  <1>1. BuilderOK(b) /\ build[b].pc = "unlock"
    BY DEF Unlock, RunsInv
  <1>2. holder = b
    BY <1>1, Stages DEF BuilderOK, Locked
  <1> QED
    BY <1>2, GiveUpInv DEF Unlock, LayersStay, RunsInv, Shape

LEMMA KillBuildInv == ASSUME RunsInv, NEW b \in Builders, KillBuild(b) PROVE RunsInv'
  <1>1. /\ budget' \in [changes : Nat \cup {Unbounded}, builds : Nat, deaths : Nat]
        /\ budget'.builds = budget.builds
    BY DEF KillBuild, RunsInv, Shape
  <1> QED
    BY <1>1, GiveUpInv DEF KillBuild

LEMMA BuilderInv == ASSUME RunsInv, NEW b \in Builders, Builder(b) PROVE RunsInv'
  BY CallInv, ReadManifestInv, ReadGraphInv, ReadPagesInv, ListFilesInv, FingerprintInv,
     LockInv, MakeTempInv, WritePieceInv, PublishInv, PointLatestInv, UnlockInv,
     KillBuildInv DEF Builder

-----------------------------------------------------------------------------
(* The writers of the layers *)

\* What they do to builders, runs and the budget.
Aside ==
    /\ build' = [b \in Builders |-> [build[b] EXCEPT !.calm = build[b].pc = "away"]]
    /\ budget' \in [changes : Nat \cup {Unbounded}, builds : Nat, deaths : Nat]
    /\ budget'.builds = budget.builds
    /\ UNCHANGED <<holder, runs, temps, latest>>

LEMMA AsideInv == ASSUME RunsInv, Aside PROVE RunsInv'
  <1>1. \A b \in Builders : DOMAIN build[b] = DOMAIN Away
    BY DEF RunsInv, Shape
  <1>2. /\ DOMAIN build' = Builders
        /\ \A b \in Builders : DOMAIN build'[b] = DOMAIN Away /\ Same(b)
    BY <1>1, AwayFields DEF Aside, Same
  <1>3. ASSUME NEW b \in Builders PROVE BuilderOK(b)'
    <2>1. BuilderOK(b)
      BY DEF RunsInv
    <2>2. Stamped(b)'
      BY <1>2, <2>1 DEF BuilderOK, Stamped, Same, Aside
    <2> QED
      BY <1>2, <2>1, <2>2
         DEF BuilderOK, HasKey, Locked, NotThere, Pieces, Published, Same, Aside
  <1>4. Shape' /\ RunsComplete'
    BY <1>2 DEF Shape, RunsComplete, RunsInv, Aside
  <1> QED
    BY <1>3, <1>4 DEF RunsInv

LEMMA ChangedAside == ASSUME RunsInv, Changed PROVE Aside
  <1>1. budget \in [changes : Nat \cup {Unbounded}, builds : Nat, deaths : Nat]
    BY DEF RunsInv, Shape
  <1>2. CASE budget.changes = Unbounded
    BY <1>1, <1>2 DEF Changed, Aside
  <1>3. CASE budget.changes # Unbounded
    <2>1. budget.changes \in Nat /\ budget.changes - 1 \in Nat
      <3>1. budget.changes \in Nat
        BY <1>1, <1>3
      <3>2. budget.changes # 0
        BY DEF Changed
      <3> QED
        BY <3>1, <3>2
    <2> QED
      BY <1>1, <1>3, <2>1 DEF Changed, Aside
  <1> QED
    BY <1>2, <1>3

LEMMA ChangeInv ==
  ASSUME RunsInv, ChangeGraph \/ \E d \in Docs : ChangePages(d)
  PROVE  RunsInv'
  <1>1. Changed \/ Aside
    BY DEF ChangeGraph, ChangePages, Aside, RunsInv, Shape
  <1> QED
    BY <1>1, ChangedAside, AsideInv

-----------------------------------------------------------------------------
(* Theorems *)

LEMMA RunsInit == GraphifyInit => RunsInv
  <1> SUFFICES ASSUME GraphifyInit PROVE RunsInv
    OBVIOUS
  <1>1. Shape /\ RunsComplete
    BY GraphifyAssumption, AwayFields DEF GraphifyInit, Shape, RunsComplete
  <1>2. ASSUME NEW b \in Builders PROVE BuilderOK(b)
    BY AwayFields, Stages
       DEF GraphifyInit, BuilderOK, Stamped, HasKey, Locked, NotThere, Pieces, Published
  <1> QED
    BY <1>1, <1>2 DEF RunsInv

LEMMA RunsNext == RunsInv /\ [GraphifyNext]_everything => RunsInv'
  <1> SUFFICES ASSUME RunsInv, [GraphifyNext]_everything PROVE RunsInv'
    OBVIOUS
  <1>1. CASE GraphifyNext
    BY <1>1, BuilderInv, ChangeInv DEF GraphifyNext
  <1>2. CASE UNCHANGED everything
    BY <1>2 DEF everything, graphifyVars, RunsInv, Shape, RunsComplete, BuilderOK,
               Stamped, HasKey, Locked, NotThere, Pieces, Published
  <1> QED
    BY <1>1, <1>2

\* The invariant holds throughout.
LEMMA RunsInvariant == GraphifySpec => []RunsInv
  BY RunsInit, RunsNext, PTL DEF GraphifySpec

\* No step changes a run.
LEMMA RunsStay ==
  ASSUME RunsInv, [GraphifyNext]_everything, NEW k \in DOMAIN runs
  PROVE  k \in DOMAIN runs' /\ runs'[k] = runs[k]
  <1>1. CASE \E b \in Builders : Publish(b)
    <2> PICK b \in Builders : Publish(b)
      BY <1>1
    <2>1. build[b].pc = "publish" /\ runs' = Put(runs, build[b].key, temps[build[b].key])
      BY DEF Publish, Step
    <2>2. build[b].key \notin DOMAIN runs
      BY <2>1, Stages DEF RunsInv, BuilderOK, NotThere
    <2> QED
      BY <2>1, <2>2 DEF Put
  <1>2. CASE ~\E b \in Builders : Publish(b)
    <2>1. UNCHANGED runs
      BY <1>2 DEF GraphifyNext, everything, graphifyVars, Builder, Call, ReadManifest,
                  ReadGraph, ReadPages, ListFiles, Fingerprint, Lock, MakeTemp, WritePiece,
                  PointLatest, Unlock, KillBuild, ChangeGraph, ChangePages, Changed
    <2> QED
      BY <2>1
  <1> QED
    BY <1>1, <1>2

\* Of complete runs lint reports nothing.
LEMMA CompleteIsSpared == RunsComplete => LintSparesRuns
  <1> SUFFICES ASSUME RunsComplete PROVE LintSparesRuns
    OBVIOUS
  <1>1. ~LatestError
    BY DEF LatestError, RunsComplete, Required
  <1>2. \A k \in DOMAIN runs : ~IsPartial(runs[k])
    BY DEF IsPartial, RunsComplete
  <1>3. \A x \in PartialRuns : x[1] = "temp"
    BY <1>2 DEF PartialRuns
  <1> QED
    BY <1>1, <1>3 DEF check_graphify, LintSparesRuns

\* store_or_reuse: for any builders racing and dying, latest.json names a
\* complete run, every visible run is complete, lint reports none of them, and
\* none ever changes.
THEOREM RunsHold == GraphifySpec => RunsStand
  <1> DEFINE Kept == /\ RunsComplete'
                     /\ LintSparesRuns'
                     /\ \A k \in DOMAIN runs : k \in DOMAIN runs' /\ runs'[k] = runs[k]
  <1>1. RunsInv => LintSparesRuns
    BY CompleteIsSpared DEF RunsInv
  <1>2. RunsInv /\ RunsInv' /\ LintSparesRuns' /\ [GraphifyNext]_everything => [Kept]_everything
    BY RunsStay DEF RunsInv
  <1> QED
    BY <1>1, <1>2, RunsInvariant, PTL DEF GraphifySpec, RunsStand

\* Whatever builders do, the layers behave as GraphStore says: a build changes
\* none of them (010 FR-003, FR-006), so what is proved of GraphStore holds here.
THEOREM LayersHold == GraphifySpec => Spec
  <1>1. GraphifyInit => Init
    BY DEF GraphifyInit
  <1>2. [GraphifyNext]_everything => [Next]_vars
    BY DEF GraphifyNext, everything, Builder, Call, ReadManifest,
           ReadGraph, ReadPages, ListFiles, Fingerprint, Lock, MakeTemp, WritePiece,
           Publish, PointLatest, Unlock, KillBuild, ChangeGraph, ChangePages, LayersStay
  <1> QED
    BY <1>1, <1>2, PTL DEF GraphifySpec, Spec

-----------------------------------------------------------------------------
(* Clusters: what the search for a community returns.  A set of numbers has a  *)
(* least one, so a set of rounds that has the first and, with each, the next    *)
(* is all rounds.                                                               *)

LEMMA LeastOf ==
  ASSUME NEW S \in SUBSET Nat, S # {}
  PROVE  \E n \in S : \A m \in S : ~(m < n)
  <1> DEFINE before == {i \in Nat \X Nat : i[1] < i[2]}
  <1>1. IsWellFoundedOn(before, Nat)
    BY NatLessThanWellFounded DEF OpToRel
  <1>2. \A m, n \in S : m < n => <<m, n>> \in before
    OBVIOUS
  <1> HIDE DEF before
  <1>3. PICK n \in S : \A m \in S : <<m, n>> \notin before
    BY <1>1, WFMin
  <1> QED
    BY <1>2, <1>3

LEMMA AllRounds ==
  ASSUME NEW n \in Nat, NEW T \in SUBSET (0 .. n), 0 \in T,
         \A k \in T : k < n => k + 1 \in T
  PROVE  \A k \in 0 .. n : k \in T
  <1> DEFINE out == {k \in 0 .. n : k \notin T}
  <1> SUFFICES ASSUME out # {} PROVE FALSE
    OBVIOUS
  <1>1. PICK k \in out : \A j \in out : ~(j < k)
    <2>1. out \in SUBSET Nat /\ out # {}
      OBVIOUS
    <2> HIDE DEF out
    <2> QED
      BY <2>1, LeastOf
  <1>2. k \in 0 .. n /\ k # 0 /\ k - 1 \in 0 .. n /\ k - 1 < k /\ k - 1 < n
    BY <1>1
  <1>3. k - 1 \in T
    BY <1>1, <1>2
  <1> QED
    BY <1>1, <1>2, <1>3

\* One round of the search.
Grown(nodes, edges, S) == S \cup {y \in nodes : \E z \in S : Adjacent(edges, z, y)}

Closed(nodes, edges, S) == \A z \in S, y \in nodes : Adjacent(edges, z, y) => y \in S

\* The rounds from x on, up to the n-th.
IsSearch(f, nodes, edges, x, n) ==
    f = [k \in 0 .. n |-> IF k = 0 THEN {x} ELSE Grown(nodes, edges, f[k - 1])]

\* The recursive definition has a solution.
LEMMA SearchExists ==
  ASSUME NEW nodes, NEW edges, NEW x, NEW n \in Nat
  PROVE  \E f : IsSearch(f, nodes, edges, x, n)
  <1> DEFINE T == {i \in 0 .. n : \E f : IsSearch(f, nodes, edges, x, i)}
  <1>1. 0 \in T
    <2> DEFINE f == [k \in 0 .. 0 |-> {x}]
    <2>1. IsSearch(f, nodes, edges, x, 0)
      BY DEF IsSearch
    <2> QED BY <2>1
  <1>2. ASSUME NEW i \in T, i < n PROVE i + 1 \in T
    <2>1. PICK g : IsSearch(g, nodes, edges, x, i)
      OBVIOUS
    <2> DEFINE f == [k \in 0 .. (i + 1) |-> IF k = i + 1 THEN Grown(nodes, edges, g[i]) ELSE g[k]]
    <2>2. ASSUME NEW k \in 0 .. (i + 1)
          PROVE  f[k] = IF k = 0 THEN {x} ELSE Grown(nodes, edges, f[k - 1])
      <3>1. CASE k = i + 1
        BY <1>2, <3>1
      <3>2. CASE k # i + 1
        <4>1. k \in 0 .. i /\ (k # 0 => k - 1 \in 0 .. i /\ k - 1 # i + 1 /\ k - 1 \in 0 .. (i + 1))
          BY <1>2, <3>2
        <4>2. f[k] = g[k] /\ (k # 0 => f[k - 1] = g[k - 1])
          BY <3>2, <4>1
        <4>3. g[k] = IF k = 0 THEN {x} ELSE Grown(nodes, edges, g[k - 1])
          BY <2>1, <4>1 DEF IsSearch
        <4> QED BY <4>2, <4>3
      <3> QED BY <3>1, <3>2
    <2>3. f = [k \in 0 .. (i + 1) |-> f[k]]
      OBVIOUS
    <2>4. IsSearch(f, nodes, edges, x, i + 1)
      BY <2>2, <2>3 DEF IsSearch
    <2>5. i + 1 \in 0 .. n
      BY <1>2
    <2> HIDE DEF f
    <2> QED BY <2>4, <2>5
  <1>3. n \in 0 .. n /\ T \in SUBSET (0 .. n)
    OBVIOUS
  <1> HIDE DEF T
  <1>4. n \in T
    BY <1>1, <1>2, <1>3, AllRounds
  <1> QED
    BY <1>4 DEF T

\* The community of a node is the least set with it that is closed under edges: a
\* round that adds nothing is the last one, and there are as many rounds as nodes.
LEMMA CommunityLeast ==
  ASSUME NEW nodes, IsFiniteSet(nodes), NEW edges, NEW x \in nodes
  PROVE  LET c == Community(nodes, edges, x)
         IN  /\ x \in c /\ c \subseteq nodes /\ Closed(nodes, edges, c)
             /\ \A S : x \in S /\ Closed(nodes, edges, S) => c \subseteq S
  <1> DEFINE n == Cardinality(nodes)
  <1> DEFINE C == Community(nodes, edges, x)
  <1> DEFINE f == CHOOSE f : IsSearch(f, nodes, edges, x, n)
  <1>1. n \in Nat
    BY FS_CardinalityType
  <1>2. IsSearch(f, nodes, edges, x, n) /\ C = f[n]
    <2>1. IsSearch(f, nodes, edges, x, n)
      BY <1>1, SearchExists
    <2>2. C = f[n]
      BY DEF Community, IsSearch, Grown
    <2> QED BY <2>1, <2>2
  <1> HIDE DEF n, C, f
  <1>3. /\ n \in Nat /\ 0 \in 0 .. n /\ n \in 0 .. n
        /\ f[0] = {x} /\ C = f[n]
        /\ \A k \in 0 .. n : k < n => f[k + 1] = Grown(nodes, edges, f[k])
    <2>1. ASSUME NEW k \in 0 .. n, k < n PROVE f[k + 1] = Grown(nodes, edges, f[k])
      <3>1. k + 1 \in 0 .. n /\ k + 1 # 0 /\ (k + 1) - 1 = k
        BY <1>1, <2>1
      <3> QED BY <1>2, <3>1 DEF IsSearch
    <2>2. f[0] = {x}
      BY <1>1, <1>2 DEF IsSearch
    <2> QED BY <1>1, <1>2, <2>1, <2>2
  <1>4. \A k \in 0 .. n : x \in f[k] /\ f[k] \subseteq nodes
    <2> DEFINE T == {k \in 0 .. n : x \in f[k] /\ f[k] \subseteq nodes}
    <2>1. 0 \in T /\ T \in SUBSET (0 .. n)
      BY <1>3
    <2>2. ASSUME NEW k \in T, k < n PROVE k + 1 \in T
      <3>1. k + 1 \in 0 .. n /\ f[k + 1] = Grown(nodes, edges, f[k])
        BY <1>3, <2>2
      <3> QED BY <3>1 DEF Grown
    <2> HIDE DEF T
    <2>3. \A k \in 0 .. n : k \in T
      BY <1>3, <2>1, <2>2, AllRounds
    <2> QED BY <2>3 DEF T
  <1>5. ASSUME NEW S, x \in S, Closed(nodes, edges, S) PROVE C \subseteq S
    <2> DEFINE T == {k \in 0 .. n : f[k] \subseteq S}
    <2>1. 0 \in T /\ T \in SUBSET (0 .. n)
      BY <1>3, <1>5
    <2>2. ASSUME NEW k \in T, k < n PROVE k + 1 \in T
      <3>1. k + 1 \in 0 .. n /\ f[k + 1] = Grown(nodes, edges, f[k])
        BY <1>3, <2>2
      <3> QED BY <1>5, <3>1 DEF Grown, Closed
    <2> HIDE DEF T
    <2>3. \A k \in 0 .. n : k \in T
      BY <1>3, <2>1, <2>2, AllRounds
    <2> QED BY <1>3, <2>3 DEF T
  <1>6. Closed(nodes, edges, C)
    <2> DEFINE T == {k \in 0 .. n : Closed(nodes, edges, f[k]) \/ Cardinality(f[k]) > k}
    <2>1. 0 \in T /\ T \in SUBSET (0 .. n)
      <3>1. Cardinality(f[0]) = 1
        BY <1>3, FS_Singleton
      <3> QED BY <1>3, <3>1
    <2>2. ASSUME NEW k \in T, k < n PROVE k + 1 \in T
      <3>1. k + 1 \in 0 .. n /\ k \in 0 .. n /\ f[k + 1] = Grown(nodes, edges, f[k])
        BY <1>3, <2>2
      <3>2. CASE Closed(nodes, edges, f[k])
        <4>1. f[k + 1] = f[k]
          BY <3>1, <3>2 DEF Grown, Closed
        <4> QED BY <3>1, <3>2, <4>1
      <3>3. CASE ~Closed(nodes, edges, f[k])
        <4>1. f[k] \subseteq f[k + 1] /\ f[k] # f[k + 1]
          BY <1>4, <3>1, <3>3 DEF Grown, Closed
        <4>2. IsFiniteSet(f[k + 1])
          BY <1>4, <3>1, FS_Subset
        <4>3. IsFiniteSet(f[k])
          BY <4>1, <4>2, FS_Subset
        <4>4. Cardinality(f[k]) < Cardinality(f[k + 1])
          <5>1. Cardinality(f[k]) <= Cardinality(f[k + 1]) /\ Cardinality(f[k]) # Cardinality(f[k + 1])
            BY <4>1, <4>2, FS_Subset
          <5>2. Cardinality(f[k]) \in Nat /\ Cardinality(f[k + 1]) \in Nat
            BY <4>2, <4>3, FS_CardinalityType
          <5> QED BY <5>1, <5>2
        <4>5. Cardinality(f[k]) \in Nat /\ Cardinality(f[k + 1]) \in Nat
          BY <4>2, <4>3, FS_CardinalityType
        <4>6. Cardinality(f[k]) > k
          BY <3>3
        <4>7. Cardinality(f[k + 1]) > k + 1
          BY <3>1, <4>4, <4>5, <4>6
        <4> QED BY <3>1, <4>7
      <3> QED BY <3>2, <3>3
    <2> HIDE DEF T
    <2>3. n \in T
      BY <1>3, <2>1, <2>2, AllRounds
    <2>4. Cardinality(f[n]) <= n /\ Cardinality(f[n]) \in Nat
      <3>1. f[n] \in SUBSET nodes
        BY <1>3, <1>4
      <3> QED BY <3>1, FS_Subset, FS_CardinalityType DEF n
    <2> QED BY <1>3, <2>3, <2>4 DEF T
  <1>7. x \in C /\ C \subseteq nodes
    BY <1>3, <1>4
  <1> QED BY <1>5, <1>6, <1>7 DEF C

\* Whoever is in a community has the same one: what it has not is closed as well.
LEMMA CommunityShared ==
  ASSUME NEW nodes, IsFiniteSet(nodes), NEW edges, NEW x \in nodes,
         NEW y \in Community(nodes, edges, x)
  PROVE  Community(nodes, edges, y) = Community(nodes, edges, x)
  <1> DEFINE C(z) == Community(nodes, edges, z)
  <1>1. \A z \in nodes :
          /\ z \in C(z) /\ C(z) \subseteq nodes /\ Closed(nodes, edges, C(z))
          /\ \A S : z \in S /\ Closed(nodes, edges, S) => C(z) \subseteq S
    BY CommunityLeast
  <1>2. y \in C(x) /\ y \in nodes
    BY <1>1
  <1> HIDE DEF C
  <1>3. C(y) \subseteq C(x)
    BY <1>1, <1>2
  <1>4. x \in C(y)
    <2> SUFFICES ASSUME x \notin C(y) PROVE FALSE
      OBVIOUS
    <2> DEFINE rest == C(x) \ C(y)
    <2>1. Closed(nodes, edges, rest)
      BY <1>1, <1>2 DEF Closed, Adjacent
    <2>2. x \in rest /\ y \notin rest
      BY <1>1, <1>2
    <2> HIDE DEF rest
    <2> QED BY <1>1, <1>2, <2>1, <2>2
  <1>5. C(x) \subseteq C(y)
    BY <1>1, <1>2, <1>4
  <1> QED BY <1>3, <1>5 DEF C

\* cluster: communities are apart, cover the nodes, and no edge leaves one.
LEMMA ClusterOK ==
  ASSUME NEW nodes, IsFiniteSet(nodes), NEW edges,
         \A e \in edges : e = <<e[1], e[2]>> /\ e[1] \in nodes /\ e[2] \in nodes,
         NEW findings
  PROVE  Clustered([nodes |-> nodes, edges |-> edges,
                    communities |-> cluster(nodes, edges), findings |-> findings])
  <1> DEFINE C(z) == Community(nodes, edges, z)
  <1>1. \A z \in nodes : z \in C(z) /\ C(z) \subseteq nodes /\ Closed(nodes, edges, C(z))
    BY CommunityLeast
  <1>2. \A z \in nodes : \A y \in C(z) : C(y) = C(z)
    BY CommunityShared
  <1>3. cluster(nodes, edges) = {C(z) : z \in nodes}
    BY DEF cluster
  <1> HIDE DEF C
  <1>4. UNION {C(z) : z \in nodes} = nodes
    BY <1>1
  <1>5. ASSUME NEW z \in nodes, NEW e \in edges PROVE e[1] \in C(z) <=> e[2] \in C(z)
    <2>1. e = <<e[1], e[2]>> /\ e[1] \in nodes /\ e[2] \in nodes
      OBVIOUS
    <2>2. Adjacent(edges, e[1], e[2]) /\ Adjacent(edges, e[2], e[1])
      BY <2>1 DEF Adjacent
    <2> QED BY <1>1, <2>1, <2>2 DEF Closed
  <1>6. ASSUME NEW y \in nodes, NEW z \in nodes PROVE C(y) = C(z) \/ C(y) \cap C(z) = {}
    BY <1>2
  <1> QED BY <1>3, <1>4, <1>5, <1>6 DEF Clustered

-----------------------------------------------------------------------------
(* What a build makes of what it has read *)

\* Edges of the graph layer have both ends.
Joined(g) == \A e \in g.edges : HasEnds(g, e)

LEMMA BuiltOK ==
  ASSUME NEW m \in SUBSET Docs, NEW p \in SUBSET Docs, NEW g \in Graphs, Joined(g)
  PROVE  LET x == build_graph(m, p, g) IN Clustered(x) /\ x.findings = {}
  <1> DEFINE nodes == BuiltNodes(m, p, g)
  <1> DEFINE edges == BuiltEdges(m, p, g)
  <1>1. IsFiniteSet(nodes)
    <2> DEFINE ents == {n \in Nodes : g.sources[n] # {}}
    <2>1. IsFiniteSet(m) /\ IsFiniteSet(p) /\ IsFiniteSet(ents)
      BY GraphifyAssumption, FS_Subset
    <2>2. IsFiniteSet({"source"}) /\ IsFiniteSet({"wiki"}) /\ IsFiniteSet({"graph"})
      BY FS_Singleton
    <2>3. /\ IsFiniteSet({"source"} \X m) /\ IsFiniteSet({"wiki"} \X p)
          /\ IsFiniteSet({"graph"} \X ents)
      BY <2>1, <2>2, FS_Product
    <2>4. IsFiniteSet(({"source"} \X m) \cup ({"wiki"} \X p))
      BY <2>3, FS_Union
    <2> QED
      BY <2>3, <2>4, FS_Union DEF BuiltNodes
  <1>2. ASSUME NEW e \in edges PROVE e = <<e[1], e[2]>> /\ e[1] \in nodes /\ e[2] \in nodes
    <2>1. CASE e \in {<< <<"wiki", d>>, <<"source", d>> >> : d \in p \cap m}
      BY <2>1 DEF BuiltNodes
    <2>2. CASE e \in {<< <<"graph", f.from>>, <<"graph", f.to>> >> : f \in {x \in g.edges : HasEnds(g, x)}}
      <3>1. PICK f \in g.edges : HasEnds(g, f) /\ e = << <<"graph", f.from>>, <<"graph", f.to>> >>
        BY <2>2
      <3>2. f.from \in Nodes /\ f.to \in Nodes
        BY DEF Graphs, Edges
      <3>3. g.sources[f.from] # {} /\ g.sources[f.to] # {}
        BY <3>1 DEF HasEnds, Ends
      <3> QED
        BY <3>1, <3>2, <3>3 DEF BuiltNodes
    <2> QED
      BY <2>1, <2>2 DEF BuiltEdges
  <1>3. {e \in g.edges : ~HasEnds(g, e)} = {}
    BY DEF Joined
  <1> HIDE DEF nodes, edges
  <1>4. Clustered([nodes |-> nodes, edges |-> edges, communities |-> cluster(nodes, edges),
                   findings |-> {e \in g.edges : ~HasEnds(g, e)}])
    BY <1>1, <1>2, ClusterOK
  <1> QED
    BY <1>3, <1>4 DEF build_graph, nodes, edges

-----------------------------------------------------------------------------
(* What a build goes by.  While it is calm it has read what is still there; the *)
(* key of its run has the graph it built; and under the lock nobody else moves  *)
(* latest.json.                                                                 *)

Built == {"list", "fingerprint"} \cup Keyed \cup Publishing

Calm(b) ==
    build[b].calm =>
        /\ build[b].pc \in {"readGraph", "readPages"} => build[b].entries = Known
        /\ build[b].pc = "readPages" => build[b].graph = graph
        /\ build[b].pc \in Built => build[b].built = build_graph(Known, pages, graph)

Sees(b) ==
    /\ build[b].pc \in {"readGraph", "readPages"} => build[b].entries \in SUBSET Docs
    /\ build[b].pc = "readPages" => build[b].graph \in Graphs /\ Joined(build[b].graph)
    /\ build[b].built # None => Clustered(build[b].built) /\ build[b].built.findings = {}
    /\ build[b].pc \in Keyed \cup Publishing => build[b].key.graph = build[b].built
    /\ build[b].pc = "unlock" => latest = build[b].key

ViewInv ==
    /\ pages \subseteq Docs
    /\ \A b \in Builders : Calm(b) /\ Sees(b)

\* What holds besides: the layers are those of GraphStore.
SoundInv == RunsInv /\ TypeOK /\ EdgesJoinNodes

LEMMA ReadsJoined ==
  ASSUME SoundInv
  PROVE  graph \in Graphs /\ Joined(graph) /\ Known \subseteq Docs
  BY DEF SoundInv, TypeOK, EdgesJoinNodes, Joined, HasEnds, Known

\* A step of one builder that moves latest.json only under the lock.
LEMMA OneBuilder ==
  ASSUME SoundInv, ViewInv, NEW b \in Builders, NEW r, build' = [build EXCEPT ![b] = r],
         UNCHANGED <<graph, entries, pages>>,
         latest' = latest \/ build[b].pc = "latest",
         Calm(b)', Sees(b)'
  PROVE  ViewInv'
  <1>1. DOMAIN build = Builders
    BY DEF SoundInv, RunsInv, Shape
  <1>2. ASSUME NEW c \in Builders \ {b} PROVE Calm(c)' /\ Sees(c)'
    <2>1. build'[c] = build[c]
      BY <1>1
    <2>2. build[c].pc = "unlock" => latest' = latest
      BY Stages DEF SoundInv, RunsInv, BuilderOK, Locked
    <2>3. Known' = Known
      BY DEF Known
    <2> QED
      BY <2>1, <2>2, <2>3 DEF ViewInv, Calm, Sees
  <1> QED
    BY <1>2 DEF ViewInv

LEMMA ViewStages ==
  Built = {"list", "fingerprint", "lock", "write", "graphify", "manifest", "publish",
           "latest", "unlock"}
  BY Stages DEF Built

\* Steps that read.
LEMMA ReadView ==
  ASSUME SoundInv, ViewInv, NEW b \in Builders,
         \/ Call(b) \/ ReadManifest(b) \/ ReadGraph(b) \/ ReadPages(b) \/ ListFiles(b)
         \/ \E store, force \in BOOLEAN : Fingerprint(b, store, force)
  PROVE  ViewInv'
  <1> DEFINE r == build'[b]
  <1>1. DOMAIN build = Builders /\ DOMAIN build[b] = DOMAIN Away /\ Calm(b) /\ Sees(b)
    BY DEF SoundInv, RunsInv, Shape, ViewInv
  <1>2. UNCHANGED <<graph, entries, pages, latest>> /\ Known' = Known
    BY DEF Call, ReadManifest, ReadGraph, ReadPages, ListFiles, Fingerprint, LayersStay, vars, Known
  <1>3. graph \in Graphs /\ Joined(graph) /\ Known \subseteq Docs /\ pages \subseteq Docs
    BY ReadsJoined DEF ViewInv
  <1>4. ASSUME build' = [build EXCEPT ![b] = Away] PROVE ViewInv'
    <2>1. build'[b] = Away
      BY <1>1, <1>4
    <2>2. Calm(b)' /\ Sees(b)'
      BY <2>1, Stages, ViewStages DEF Calm, Sees, Away
    <2> QED BY <1>2, <1>4, <2>2, OneBuilder
  <1>5. CASE Call(b)
    <2> DEFINE s == [Away EXCEPT !.pc = "readManifest", !.made = budget.builds]
    <2>1. build' = [build EXCEPT ![b] = s]
      BY <1>5 DEF Call
    <2>2. build'[b].pc = "readManifest" /\ build'[b].built = None
      BY <1>1, <2>1 DEF Away
    <2>3. Calm(b)' /\ Sees(b)'
      BY <2>2, Stages, ViewStages DEF Calm, Sees
    <2> QED BY <1>2, <2>1, <2>3, OneBuilder
  <1>6. CASE ReadManifest(b)
    <2> DEFINE s == [build[b] EXCEPT !.pc = "readGraph", !.entries = Known]
    <2>1. build' = [build EXCEPT ![b] = s] /\ build[b].pc = "readManifest"
      BY <1>6 DEF ReadManifest
    <2>2. /\ build'[b].pc = "readGraph" /\ build'[b].built = build[b].built
          /\ build'[b].entries = Known
      BY <1>1, <2>1 DEF Away
    <2>3. Calm(b)' /\ Sees(b)'
      BY <1>1, <1>2, <1>3, <2>2, Stages, ViewStages DEF Calm, Sees
    <2> QED BY <1>2, <2>1, <2>3, OneBuilder
  <1>7. CASE ReadGraph(b)
    <2> DEFINE s == [build[b] EXCEPT !.pc = "readPages", !.graph = graph]
    <2>1. build' = [build EXCEPT ![b] = s] /\ build[b].pc = "readGraph"
      BY <1>7 DEF ReadGraph
    <2>2. /\ build'[b].pc = "readPages" /\ build'[b].built = build[b].built
          /\ build'[b].entries = build[b].entries /\ build'[b].graph = graph
          /\ build'[b].calm = build[b].calm
      BY <1>1, <2>1 DEF Away
    <2>3. Calm(b)' /\ Sees(b)'
      BY <1>1, <1>2, <1>3, <2>1, <2>2, Stages, ViewStages DEF Calm, Sees
    <2> QED BY <1>2, <2>1, <2>3, OneBuilder
  <1>8. CASE ReadPages(b)
    <2> DEFINE x == build_graph(build[b].entries, pages, build[b].graph)
    <2> DEFINE s == [build[b] EXCEPT !.pc = "list", !.entries = {}, !.graph = EmptyGraph,
                                     !.built = x]
    <2>1. build[b].pc = "readPages"
      BY <1>8 DEF ReadPages
    <2>2. CASE build' = [build EXCEPT ![b] = s]
      <3>1. build'[b].pc = "list" /\ build'[b].built = x /\ build'[b].calm = build[b].calm
        BY <1>1, <2>2 DEF Away
      <3>2. Clustered(x) /\ x.findings = {}
        BY <1>1, <1>3, <2>1, BuiltOK DEF Sees
      <3>3. build[b].calm => x = build_graph(Known, pages, graph)
        BY <1>1, <2>1 DEF Calm
      <3> HIDE DEF x
      <3>4. Sees(b)'
        BY <3>1, <3>2, Stages DEF Sees
      <3>5. Calm(b)'
        BY <1>2, <3>1, <3>3 DEF Calm
      <3> QED BY <1>2, <2>2, <3>4, <3>5, OneBuilder
    <2> QED BY <1>4, <1>8, <2>2 DEF ReadPages
  <1>9. CASE ListFiles(b)
    <2> DEFINE s == [build[b] EXCEPT !.pc = "fingerprint", !.listed = pages]
    <2>1. build' = [build EXCEPT ![b] = s] /\ build[b].pc = "list"
      BY <1>9 DEF ListFiles
    <2>2. /\ build'[b].pc = "fingerprint" /\ build'[b].built = build[b].built
          /\ build'[b].calm = build[b].calm
      BY <1>1, <2>1 DEF Away
    <2>3. Calm(b)' /\ Sees(b)'
      BY <1>1, <1>2, <2>1, <2>2, Stages, ViewStages DEF Calm, Sees
    <2> QED BY <1>2, <2>1, <2>3, OneBuilder
  <1>10. ASSUME NEW store \in BOOLEAN, NEW force \in BOOLEAN, Fingerprint(b, store, force)
         PROVE  ViewInv'
    <2> DEFINE k == idempotency_key(build[b], force)
    <2> DEFINE s == [build[b] EXCEPT !.pc = "lock", !.listed = {}, !.key = k]
    <2>1. build[b].pc = "fingerprint"
      BY <1>10 DEF Fingerprint
    <2>2. CASE build' = [build EXCEPT ![b] = s]
      <3>1. /\ build'[b].pc = "lock" /\ build'[b].built = build[b].built
            /\ build'[b].calm = build[b].calm /\ build'[b].key = k
        BY <1>1, <2>2 DEF Away
      <3>2. k.graph = build[b].built
        BY DEF idempotency_key
      <3> HIDE DEF k
      <3>3. Calm(b)' /\ Sees(b)'
        BY <1>1, <1>2, <2>1, <3>1, <3>2, Stages, ViewStages DEF Calm, Sees
      <3> QED BY <1>2, <2>2, <3>3, OneBuilder
    <2> QED BY <1>4, <1>10, <2>2 DEF Fingerprint
  <1> QED
    BY <1>5, <1>6, <1>7, <1>8, <1>9, <1>10

\* Steps under the lock, which move a builder on and keep what it built.
LEMMA StoreView ==
  ASSUME SoundInv, ViewInv, NEW b \in Builders,
         Lock(b) \/ MakeTemp(b) \/ WritePiece(b) \/ Publish(b) \/ PointLatest(b)
  PROVE  ViewInv'
  <1>1. DOMAIN build = Builders /\ DOMAIN build[b] = DOMAIN Away /\ Calm(b) /\ Sees(b)
    BY DEF SoundInv, RunsInv, Shape, ViewInv
  <1>2. UNCHANGED <<graph, entries, pages>> /\ Known' = Known
    BY DEF Lock, MakeTemp, WritePiece, Publish, PointLatest, LayersStay, vars, Known
  <1>3. /\ \E to \in Publishing : build' = [build EXCEPT ![b].pc = to]
        /\ build[b].pc \in Keyed \cup {"latest"}
        /\ latest' = latest \/ build[b].pc = "latest"
        /\ build'[b].pc = "unlock" => latest' = build[b].key
    BY <1>1, Stages DEF Lock, MakeTemp, WritePiece, Publish, PointLatest, Step, Required, Away
  <1>4. PICK to \in Publishing : build' = [build EXCEPT ![b].pc = to]
    BY <1>3
  <1> DEFINE s == [build[b] EXCEPT !.pc = to]
  <1>5. build' = [build EXCEPT ![b] = s]
    BY <1>1, <1>4
  <1>6. /\ build'[b].pc \in Publishing /\ build'[b].built = build[b].built
        /\ build'[b].calm = build[b].calm /\ build'[b].key = build[b].key
    BY <1>1, <1>5 DEF Away
  <1>7. Calm(b)' /\ Sees(b)'
    BY <1>1, <1>2, <1>3, <1>6, Stages, ViewStages DEF Calm, Sees
  <1> QED
    BY <1>2, <1>3, <1>5, <1>7, OneBuilder

\* A builder that is done, or dies.
LEMMA AwayView ==
  ASSUME SoundInv, ViewInv, NEW b \in Builders, Unlock(b) \/ KillBuild(b)
  PROVE  ViewInv'
  <1>1. DOMAIN build = Builders
    BY DEF SoundInv, RunsInv, Shape
  <1>2. build' = [build EXCEPT ![b] = Away] /\ UNCHANGED <<graph, entries, pages, latest>>
    BY DEF Unlock, KillBuild, LayersStay, vars
  <1>3. build'[b] = Away
    BY <1>1, <1>2
  <1>4. Calm(b)' /\ Sees(b)'
    BY <1>3, Stages, ViewStages DEF Calm, Sees, Away
  <1> QED
    BY <1>2, <1>4, OneBuilder

\* When a layer changes, no build under way is calm any more.
LEMMA ChangeView ==
  ASSUME SoundInv, ViewInv, ChangeGraph \/ \E d \in Docs : ChangePages(d)
  PROVE  ViewInv'
  <1>1. /\ build' = [b \in Builders |-> [build[b] EXCEPT !.calm = build[b].pc = "away"]]
        /\ UNCHANGED latest /\ pages' \subseteq Docs
    BY DEF ChangeGraph, ChangePages, Changed, ViewInv
  <1>2. ASSUME NEW b \in Builders PROVE Calm(b)' /\ Sees(b)'
    <2>1. DOMAIN build[b] = DOMAIN Away /\ Sees(b)
      BY DEF SoundInv, RunsInv, Shape, ViewInv
    <2>2. build'[b] = [build[b] EXCEPT !.calm = build[b].pc = "away"]
      BY <1>1
    <2>3. /\ build'[b].pc = build[b].pc /\ build'[b].entries = build[b].entries
          /\ build'[b].graph = build[b].graph /\ build'[b].built = build[b].built
          /\ build'[b].key = build[b].key
      BY <2>1, <2>2 DEF Away
    <2>4. build'[b].calm = (build[b].pc = "away")
      BY <2>1, <2>2 DEF Away
    <2>5. Sees(b)'
      BY <1>1, <2>1, <2>3 DEF Sees
    <2>6. Calm(b)'
      BY <2>3, <2>4, Stages, ViewStages DEF Calm
    <2> QED BY <2>5, <2>6
  <1> QED
    BY <1>1, <1>2 DEF ViewInv

LEMMA ViewNext == SoundInv /\ ViewInv /\ [GraphifyNext]_everything => ViewInv'
  <1> SUFFICES ASSUME SoundInv, ViewInv, [GraphifyNext]_everything PROVE ViewInv'
    OBVIOUS
  <1>1. ASSUME NEW b \in Builders, Builder(b) PROVE ViewInv'
    BY <1>1, ReadView, StoreView, AwayView DEF Builder
  <1>2. CASE UNCHANGED everything
    BY <1>2 DEF everything, graphifyVars, vars, ViewInv, Calm, Sees, Known
  <1> QED
    BY <1>1, <1>2, ChangeView DEF GraphifyNext

LEMMA ViewInit == GraphifyInit => ViewInv
  BY AwayFields, Stages, ViewStages DEF GraphifyInit, ViewInv, Calm, Sees, Away

\* What a builder builds has both ends of each edge and the connected components
\* for communities, and a build during which no layer changed leaves latest.json
\* at the graph of the layers as they are.
THEOREM BuildsAreCurrent == GraphifySpec => BuildIsCurrent
  <1>1. GraphifySpec => []SoundInv
    BY RunsInvariant, LayersHold, TypesHold, EdgesHold, PTL DEF SoundInv
  <1>2. GraphifySpec => []ViewInv
    BY <1>1, ViewInit, ViewNext, PTL DEF GraphifySpec
  <1> DEFINE Current ==
        \A b \in Builders :
          /\ build'[b].built # None =>
                Clustered(build'[b].built) /\ build'[b].built.findings = {}
          /\ build[b].pc = "unlock" /\ build'[b].pc = "away" /\ build[b].calm
               /\ budget' = budget
             => latest.graph = build_graph(Known, pages, graph)
  <1>3. ViewInv /\ ViewInv' => Current
    BY Stages, ViewStages DEF ViewInv, Calm, Sees
  <1> QED
    BY <1>2, <1>3, PTL DEF GraphifySpec, BuildIsCurrent

================================================================================
