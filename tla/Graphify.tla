------------------------------- MODULE Graphify -------------------------------
(***************************************************************************)
(* `ks graphify build` (hks.graphify) beside the writers of the layers: a  *)
(* builder takes no lock of the runtime.  It reads the manifest, graph.json *)
(* and the wiki pages one after the other, joins them into one graph,      *)
(* clusters it, and with --mode store publishes it under graphify/runs, in *)
(* the order of a lock of its own, and points latest.json to it.           *)
(***************************************************************************)
EXTENDS GraphStore, FiniteSets

CONSTANTS
    Builders,    \* processes that build
    Budgets,     \* how much may happen: changes, builds and their deaths
    Unbounded,   \* a number of changes that is not limited
    None

VARIABLES
    pages,       \* the sources that have a page in the wiki
    build,       \* where every builder stands
    holder,      \* who holds graphify/.lock
    runs,        \* graphify/runs/<id>, by idempotency key
    temps,       \* graphify/runs/.<id>.tmp, by idempotency key
    latest,      \* the key of the run graphify/latest.json names
    budget       \* what may still happen

graphifyVars == <<pages, build, holder, runs, temps, latest, budget>>
everything   == <<vars, graphifyVars>>

ASSUME GraphifyAssumption ==
    /\ None \notin Builders
    /\ IsFiniteSet(Docs) /\ IsFiniteSet(Nodes)
    /\ Budgets \subseteq [changes : Nat \cup {Unbounded}, builds : Nat, deaths : Nat]

Away == [pc |-> "away", made |-> 0, entries |-> {}, graph |-> EmptyGraph,
         listed |-> {}, built |-> None, key |-> None, calm |-> TRUE]

\* What makes up a run, in the order in which it is written: the graph with its
\* communities, findings and renderings, and the manifest of the run.
Required == {"graphify", "manifest"}

-----------------------------------------------------------------------------
(* The graph of a build *)

\* The nodes of the sources, the pages and the entities of the graph layer.
BuiltNodes(m, p, g) ==
    ({"source"} \X m) \cup ({"wiki"} \X p)
    \cup ({"graph"} \X {n \in Nodes : g.sources[n] # {}})

\* A page refers to its source if the manifest has it; an edge of the graph
\* layer with a missing end becomes a finding.
HasEnds(g, e) == \A n \in Ends(e) : g.sources[n] # {}

BuiltEdges(m, p, g) ==
    {<< <<"wiki", d>>, <<"source", d>> >> : d \in p \cap m}
    \cup {<< <<"graph", e.from>>, <<"graph", e.to>> >> : e \in {x \in g.edges : HasEnds(g, x)}}

Adjacent(edges, x, y) == <<x, y>> \in edges \/ <<y, x>> \in edges

\* cluster: the search that starts at a node, after k rounds.
Community(nodes, edges, x) ==
    LET reached[k \in 0 .. Cardinality(nodes)] ==
            IF k = 0 THEN {x}
            ELSE reached[k - 1]
                 \cup {y \in nodes : \E z \in reached[k - 1] : Adjacent(edges, z, y)}
    IN  reached[Cardinality(nodes)]

cluster(nodes, edges) == {Community(nodes, edges, x) : x \in nodes}

build_graph(m, p, g) ==
    [nodes       |-> BuiltNodes(m, p, g),
     edges       |-> BuiltEdges(m, p, g),
     communities |-> cluster(BuiltNodes(m, p, g), BuiltEdges(m, p, g)),
     findings    |-> {e \in g.edges : ~HasEnds(g, e)}]

\* Without a page and without a graph there is nothing to build from.
NoInput(p, g) == p = {} /\ g = EmptyGraph

\* What the files of the layers contain now.
Layers == [entries |-> entries, graph |-> graph, pages |-> pages]

\* Variant: the key is that of the files, read after the graph was built.
idempotency_key_Files(r, force) ==
    [layers |-> Layers, graph |-> None, made |-> IF force THEN r.made ELSE 0]

\* GraphifyRequest.idempotency_key over _input_fingerprint, which covers the
\* files, as they are now, and the graph that was built before; the key of a
\* forced run has its time of creation.
idempotency_key(r, force) ==
    [layers |-> Layers, graph |-> r.built, made |-> IF force THEN r.made ELSE 0]

-----------------------------------------------------------------------------
(* A builder *)

Put(d, k, x) == [i \in DOMAIN d \cup {k} |-> IF i = k THEN x ELSE d[i]]
Drop(d, k)   == [i \in DOMAIN d \ {k} |-> d[i]]

GraphifyInit ==
    /\ Init
    /\ pages = {}
    /\ build = [b \in Builders |-> Away]
    /\ holder = None
    /\ runs = [k \in {} |-> None]
    /\ temps = [k \in {} |-> None]
    /\ latest = None
    /\ budget \in Budgets

Step(b, from, to) == build[b].pc = from /\ build' = [build EXCEPT ![b].pc = to]

LayersStay == UNCHANGED <<vars, pages, budget>>

\* A request to build; what its options are shows where they are looked at.
Call(b) ==
    /\ build[b].pc = "away"
    /\ budget.builds > 0
    /\ budget' = [budget EXCEPT !.builds = @ - 1]
    /\ build' = [build EXCEPT ![b] = [Away EXCEPT !.pc = "readManifest", !.made = budget.builds]]
    /\ UNCHANGED <<vars, pages, holder, runs, temps, latest>>

ReadManifest(b) ==
    /\ build[b].pc = "readManifest"
    /\ build' = [build EXCEPT ![b].pc = "readGraph", ![b].entries = Known]
    /\ LayersStay
    /\ UNCHANGED <<holder, runs, temps, latest>>

ReadGraph(b) ==
    /\ build[b].pc = "readGraph"
    /\ build' = [build EXCEPT ![b].pc = "readPages", ![b].graph = graph]
    /\ LayersStay
    /\ UNCHANGED <<holder, runs, temps, latest>>

\* A page that goes away between the listing and its reading is skipped.
ReadPages(b) ==
    /\ build[b].pc = "readPages"
    /\ IF NoInput(pages, build[b].graph)
       THEN build' = [build EXCEPT ![b] = Away]
       ELSE build' = [build EXCEPT
                ![b].pc = "list", ![b].entries = {}, ![b].graph = EmptyGraph,
                ![b].built = build_graph(build[b].entries, pages, build[b].graph)]
    /\ LayersStay
    /\ UNCHANGED <<holder, runs, temps, latest>>

\* _fingerprint_paths lists the files ...
ListFiles(b) ==
    /\ build[b].pc = "list"
    /\ build' = [build EXCEPT ![b].pc = "fingerprint", ![b].listed = pages]
    /\ LayersStay
    /\ UNCHANGED <<holder, runs, temps, latest>>

\* ... _input_fingerprint reads them, and raises if one is gone.  A preview
\* ends here.
Fingerprint(b, store, force) ==
    /\ build[b].pc = "fingerprint"
    /\ store \/ ~force
    /\ IF build[b].listed \subseteq pages /\ store
       THEN build' = [build EXCEPT ![b].pc = "lock", ![b].listed = {},
                                   ![b].key = idempotency_key(build[b], force)]
       ELSE build' = [build EXCEPT ![b] = Away]
    /\ LayersStay
    /\ UNCHANGED <<holder, runs, temps, latest>>

\* Variant: a run that exists is written again.
Lock_NoReuse(b) ==
    /\ holder = None
    /\ holder' = b
    /\ Step(b, "lock", "write")
    /\ LayersStay
    /\ UNCHANGED <<runs, temps, latest>>

\* Under the lock: an existing run is reused, unless a new one is demanded.
Lock(b) ==
    /\ holder = None
    /\ holder' = b
    /\ Step(b, "lock", IF build[b].key.made = 0 /\ build[b].key \in DOMAIN runs
                       THEN "latest" ELSE "write")
    /\ LayersStay
    /\ UNCHANGED <<runs, temps, latest>>

\* Leftovers of a dead builder are removed.
MakeTemp(b) ==
    /\ Step(b, "write", "graphify")
    /\ temps' = Put(temps, build[b].key, [pieces |-> {}, made |-> build[b].made])
    /\ LayersStay
    /\ UNCHANGED <<holder, runs, latest>>

WritePiece(b) ==
    /\ build[b].pc \in Required
    /\ Step(b, build[b].pc, IF build[b].pc = "graphify" THEN "manifest" ELSE "publish")
    /\ temps' = [temps EXCEPT ![build[b].key].pieces = @ \cup {build[b].pc}]
    /\ LayersStay
    /\ UNCHANGED <<holder, runs, latest>>

\* temp.replace(destination), after a destination that exists was removed.
Publish(b) ==
    /\ Step(b, "publish", "latest")
    /\ runs' = Put(runs, build[b].key, temps[build[b].key])
    /\ temps' = Drop(temps, build[b].key)
    /\ LayersStay
    /\ UNCHANGED <<holder, latest>>

\* _write_latest
PointLatest(b) ==
    /\ Step(b, "latest", "unlock")
    /\ latest' = build[b].key
    /\ LayersStay
    /\ UNCHANGED <<holder, runs, temps>>

Unlock(b) ==
    /\ build[b].pc = "unlock"
    /\ holder' = None
    /\ build' = [build EXCEPT ![b] = Away]
    /\ LayersStay
    /\ UNCHANGED <<runs, temps, latest>>

\* The process dies, or a write raises: the lock is free, the temporary
\* directory stays.
KillBuild(b) ==
    /\ build[b].pc # "away"
    /\ budget.deaths > 0
    /\ budget' = [budget EXCEPT !.deaths = @ - 1]
    /\ build' = [build EXCEPT ![b] = Away]
    /\ holder' = IF holder = b THEN None ELSE holder
    /\ UNCHANGED <<vars, pages, runs, temps, latest>>

Builder(b) ==
    \/ Call(b)
    \/ ReadManifest(b) \/ ReadGraph(b) \/ ReadPages(b)
    \/ ListFiles(b) \/ (\E store, force \in BOOLEAN : Fingerprint(b, store, force))
    \/ Lock(b) \/ MakeTemp(b) \/ WritePiece(b) \/ Publish(b) \/ PointLatest(b) \/ Unlock(b)
    \/ KillBuild(b)

-----------------------------------------------------------------------------
(* The writers of the layers *)

\* A change costs one of the budget, and no build under way is calm any more.
Changed ==
    /\ budget.changes # 0
    /\ budget' = IF budget.changes = Unbounded THEN budget
                 ELSE [budget EXCEPT !.changes = @ - 1]
    /\ build' = [b \in Builders |-> [build[b] EXCEPT !.calm = build[b].pc = "away"]]
    /\ UNCHANGED <<holder, runs, temps, latest>>

\* A run of ingest or lint begins, and goes on.
ChangeGraph ==
    /\ Next
    /\ IF job.kind = "none" THEN Changed
       ELSE /\ build' = [b \in Builders |-> [build[b] EXCEPT !.calm = build[b].pc = "away"]]
            /\ UNCHANGED <<budget, holder, runs, temps, latest>>
    /\ UNCHANGED pages

\* A writer of the wiki adds or removes a page.
ChangePages(d) ==
    /\ budget.builds > 0 \/ \E b \in Builders : build[b].pc # "away"
    /\ Changed
    /\ pages' = IF d \in pages THEN pages \ {d} ELSE pages \cup {d}
    /\ UNCHANGED vars

GraphifyNext ==
    \/ ChangeGraph
    \/ \E d \in Docs : ChangePages(d)
    \/ \E b \in Builders : Builder(b)

GraphifySpec == GraphifyInit /\ [][GraphifyNext]_everything

-----------------------------------------------------------------------------
(* What lint says of the runs (hks.lint); it looks into runs/ without the lock of *)
(* graphify, and takes what is under a temporary name for a run.                  *)

IsPartial(run) == ~ Required \subseteq run.pieces

\* _load_graphify_partial_runs
PartialRuns == {<<"run", k>> : k \in {x \in DOMAIN runs : IsPartial(runs[x])}}
               \cup {<<"temp", k>> : k \in {x \in DOMAIN temps : IsPartial(temps[x])}}

\* _load_graphify_latest_error: no manifest where latest.json looks for one.
LatestError == /\ latest # None
               /\ latest \in DOMAIN runs => "manifest" \notin runs[latest].pieces

check_graphify ==
    {<<"graphify_partial_run", x>> : x \in PartialRuns}
    \cup (IF LatestError THEN {<<"graphify_latest_mismatch", latest>>} ELSE {})

-----------------------------------------------------------------------------
(* Properties *)

\* The edges have both ends, and the communities are the connected components.
Clustered(x) ==
    /\ \A e \in x.edges : e[1] \in x.nodes /\ e[2] \in x.nodes
    /\ UNION x.communities = x.nodes
    /\ \A c \in x.communities :
          /\ \A e \in x.edges : e[1] \in c <=> e[2] \in c
          /\ \A k \in x.communities : k = c \/ k \cap c = {}

\* The run that latest.json names is there, and runs under a visible name have
\* all their artifacts.
RunsComplete ==
    /\ latest # None => latest \in DOMAIN runs
    /\ \A k \in DOMAIN runs : runs[k].pieces = Required

\* Lint reports nothing but what a build has not published.
LintSparesRuns ==
    \A x \in check_graphify : x[1] = "graphify_partial_run" /\ x[2][1] = "temp"

\* Whatever dies or races at any step of publishing, latest.json and every run
\* stand (010 spec.md:89, FR-004, data-model.md:154), lint reports at most what a
\* build has not published, and a published run never changes: of two builders
\* with one key the later reuses the run of the first (FR-013, SC-003).
RunsStand ==
    [][/\ RunsComplete'
       /\ LintSparesRuns'
       /\ \A k \in DOMAIN runs : k \in DOMAIN runs' /\ runs'[k] = runs[k]]_everything

\* A builder, which reads graph.json without a lock, never finds an edge without an
\* end, and its communities partition the nodes (010 spec.md, FR-005).  A build
\* during which no layer changed leaves latest.json at the graph of the layers as
\* they are, also when it reuses a run and when the builds before it met layers that
\* changed as they read them (010 FR-013).
BuildIsCurrent ==
    [][\A b \in Builders :
          /\ build'[b].built # None =>
                Clustered(build'[b].built) /\ build'[b].built.findings = {}
          /\ build[b].pc = "unlock" /\ build'[b].pc = "away" /\ build[b].calm
               /\ budget' = budget
             => latest.graph = build_graph(Known, pages, graph)]_everything

===============================================================================
