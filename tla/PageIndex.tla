-------------------------------- MODULE PageIndex --------------------------------
(***************************************************************************)
(* `ks pageindex show` and `ks pageindex enrich` (hks.commands.pageindex)  *)
(* beside `ks ingest`: a tree is loaded, the raw copy of its source read, a *)
(* model asked for summaries of it, and the tree saved again, without the  *)
(* lock that ingest holds.                                                 *)
(***************************************************************************)
EXTENDS IngestPipeline, PageTrees

CONSTANTS
    ModelSpans      \* the sections a model answers with for a text without any

ASSUME PageIndexAssumption == ModelSpans \in Seq(Int \X Int) /\ None # Gone

VARIABLES
    library,        \* the documents: what the parsers find in each content
    enrich          \* where the enricher stands

indexVars == <<vars, library, enrich>>

NoEnricher == [pc |-> "idle", todo |-> <<>>, mem |-> Nothing, tree |-> None, text |-> None]

\* The nodes of a tree; a restructured one covers a text as long as its source's.
Nodes(tree) ==
    CASE tree.by \in {"rule", "filled"} -> BuildPageTree(library[tree.text])
      [] tree.by = "thirds"   -> Thirds(library[tree.text].length)
      [] tree.by = "sections" -> Sections(ModelSpans)

\* enrich_tree: the trees a provider may make of one.  A single node is cut up:
\* by the stub, or a model without an answer, into thirds; any other is kept.
Enriched(tree, text) ==
    LET ways == IF Len(Nodes(tree)) = 1 THEN {"thirds", "sections"}
                ELSE IF tree.by = "rule" THEN {"filled"} ELSE {tree.by}
    IN  {[tree EXCEPT !.by = by, !.from = text] : by \in ways}

\* The targets that are not skipped: of one source, or all, those that have a
\* tree in the manifest, in order.
Targets(m, only) ==
    Sorted({f \in DOMAIN m : Derived(m[f]) /\ only \in {f, None}})

\* The manifest is loaded; a lost one is made anew from the raw copies, which
\* takes a read and a write, and no lock.
StartEnrich(only) ==
    /\ enrich.pc = "idle"
    /\ enrich' = [NoEnricher EXCEPT
                    !.pc = IF manifest = Lost THEN "rebuild" ELSE "load",
                    !.mem = IF manifest = Lost THEN Resumed ELSE Nothing,
                    !.todo = Targets(Resumed, only)]
    /\ UNCHANGED <<vars, library>>

SaveRebuilt ==
    /\ enrich.pc = "rebuild"
    /\ manifest' = enrich.mem
    /\ enrich' = [enrich EXCEPT !.pc = "load", !.mem = Nothing]
    /\ UNCHANGED <<source, again, disk, mem, job, count, library>>

NextTarget == enrich' = [enrich EXCEPT !.pc = "load", !.todo = Tail(@),
                                       !.tree = None, !.text = None]

\* A tree that is missing ends the command.
LoadTarget ==
    /\ enrich.pc = "load" /\ enrich.todo # <<>>
    /\ LET stem == StemOf[Head(enrich.todo)] IN
       enrich' = IF stem \in DOMAIN disk.trees
                 THEN [enrich EXCEPT !.pc = "read", !.tree = disk.trees[stem]]
                 ELSE NoEnricher
    /\ UNCHANGED <<vars, library>>

\* The raw copy is read as it is now; a missing one counts as empty.  A tree that
\* is enriched already is left alone, unless --force is given.
ReadRaw ==
    /\ enrich.pc = "read"
    /\ \/ enrich.tree.by # "rule" /\ NextTarget
       \/ LET f == Head(enrich.todo) IN
          enrich' = [enrich EXCEPT !.pc = "save",
                                   !.text = IF f \in DOMAIN disk.raw THEN disk.raw[f] ELSE Gone]
    /\ UNCHANGED <<vars, library>>

\* The model has answered; a preview, which is the default, saves nothing.
SaveEnriched ==
    /\ enrich.pc = "save"
    /\ \/ UNCHANGED disk
       \/ \E tree \in Enriched(enrich.tree, enrich.text) :
             disk' = [disk EXCEPT !.trees = Put(@, StemOf[Head(enrich.todo)], tree)]
    /\ NextTarget
    /\ UNCHANGED <<source, again, manifest, mem, job, count, library>>

\* The end of the command; before it, the process dies or its model fails.  The
\* command that only shows a tree ends when it has loaded it.
EndEnrich ==
    /\ enrich.pc # "idle"
    /\ enrich' = NoEnricher
    /\ UNCHANGED <<vars, library>>

EnrichNext ==
    \/ \E only \in Files \cup {None} : StartEnrich(only)
    \/ SaveRebuilt
    \/ LoadTarget \/ ReadRaw \/ SaveEnriched
    \/ EndEnrich

==================================================================================
