-------------------------------- MODULE Watch --------------------------------
(***************************************************************************)
(* `ks watch` (hks.watch): a scan compares source directories, the roots,  *)
(* with the manifest and saves a plan; a run scans, ingests the roots that *)
(* the plan calls for and saves what became of each action.  Runs exclude  *)
(* each other by watch/.lock.  A scan takes no lock, and neither lock      *)
(* keeps users from editing the sources or from calling `ks ingest`, which *)
(* is guarded by the lock of the runtime alone.                            *)
(*                                                                         *)
(* An ingest is modelled file by file; what can happen to the layers       *)
(* within the transaction of one file is the subject of IngestPipeline.    *)
(***************************************************************************)
EXTENDS Integers, Sequences, FiniteSets

CONSTANTS
    Procs,         \* the processes that call ks
    FileOrder,     \* relpaths, in sorted order
    RootOrder,     \* source roots, in sorted order; Raw is one of them
    Raw,           \* raw_sources, the runtime's own copies of what it ingested
    Under,         \* Under[r][f]: what root r can contain at relpath f; {}: no such file
    Contents,      \* what a file can contain
    Blank,         \* contents without text: ingested by removing the entry
    Empty,         \* zero bytes: planned like any text, and skipped by ingest
    Unreadable,    \* contents the scan accepts and ingest fails on
    Corrupt,       \* contents both reject
    Gone,          \* no such file, no such entry
    None,          \* nobody, nothing
    Calls,         \* the calls that are made
    MaxCalls,      \* bound on the calls
    MaxEvents      \* bound on the edits and deaths under them

Files == {FileOrder[i] : i \in 1 .. Len(FileOrder)}
Roots == {RootOrder[i] : i \in 1 .. Len(RootOrder)} \ {Raw}
Textual == Contents \ (Blank \cup Empty \cup Unreadable \cup Corrupt)

Entries == [Files -> Textual \cup {Gone}]
Views   == [Files -> Contents \cup {Gone}]

\* WatchRequest, or the arguments of `ks ingest`; roots = <<>>: those saved last.
CallType == [op : {"scan", "run", "ingest"}, roots : Seq(Roots),
             execute : BOOLEAN, prune : BOOLEAN, graphify : BOOLEAN]

ASSUME WatchAssumption ==
    /\ {MaxCalls, MaxEvents} \subseteq Nat
    /\ FileOrder \in Seq(Files) /\ RootOrder \in Seq(Roots \cup {Raw})
    /\ \E i \in 1 .. Len(RootOrder) : RootOrder[i] = Raw
    /\ Blank \cup Empty \cup Unreadable \cup Corrupt \subseteq Contents
    /\ Blank \cap Corrupt = {}
    /\ Gone \notin Contents
    /\ None \notin Procs \cup Entries \cup Calls
    /\ Calls \subseteq CallType
    /\ \A c \in Calls : c.op = "ingest" => Len(c.roots) = 1

VARIABLES
    source,    \* source[r][f]: the files of the roots
    manifest,  \* the content each entry of manifest.json stands for
    outworn,   \* the files whose entry names vectors that are not there, or of another model
    graphify,  \* the entries the stored graphify output was built from
    config,    \* watch/config.json: the roots saved last
    plans,     \* watch/plans: the plans that were saved
    runs,      \* watch/runs, in the order of their ids
    latest,    \* watch/latest.json: the plan and the run it points at
    tmp,       \* latest.json.tmp, the one name every writer uses
    open,      \* where the file is now that a process has opened as latest.json.tmp
    lock,      \* who holds watch/.lock and the lock of the runtime
    job,       \* where each process stands
    count      \* calls and events so far; whether two have written latest.json at once

vars == <<source, manifest, outworn, graphify, config, plans, runs, latest, tmp, open,
          lock, job, count>>

\* A file of the pointer: absent, empty, whole, or of two writings, one over the other.
File(read, plan, run) == [read |-> read, plan |-> plan, run |-> run]
NoFile == File("absent", None, 0)
Bare   == File("empty", None, 0)
Mixed  == File("mixed", None, 0)

-----------------------------------------------------------------------------
(* Scanning *)

\* What is at relpath f of root r; raw_sources mirrors the entries.
At(r, f) == IF r = Raw THEN manifest[f] ELSE source[r][f]

\* Without any root the scan falls back on raw_sources.
ScanRoots(roots) == IF roots = <<>> THEN <<Raw>> ELSE roots

\* The root a relpath is attributed to: the last one scanned that has it.
Holding(roots, f) ==
    LET having == {i \in 1 .. Len(roots) : At(roots[i], f) # Gone}
    IN  {i \in having : \A j \in having : j <= i}

View(roots) ==
    [f \in Files |-> IF Holding(roots, f) = {} THEN Gone
                     ELSE At(roots[CHOOSE i \in Holding(roots, f) : TRUE], f)]

\* The states of _classify_file and of the loop over the manifest.
Missing(found, entries) == {f \in Files : found[f] = Gone /\ entries[f] # Gone}
Issues(found) == {f \in Files : found[f] \in Corrupt}

\* New or stale.
Outdated(found, entries) ==
    {f \in Files : found[f] \notin Corrupt \cup {Gone, entries[f]}}

\* inspect_lineage looks at graphify only when some source is stale or missing.
GraphifyStale(found, entries) ==
    /\ graphify # None
    /\ \E f \in Files : entries[f] # Gone /\ f \in Outdated(found, entries)
                                                   \cup Missing(found, entries)

\* build_plan: the actions, and the observations its fingerprint is taken from.
BuildPlan(call, found, entries) ==
    LET prunes == IF call.prune THEN Missing(found, entries) ELSE {}
        any    == Outdated(found, entries) \cup prunes \cup Issues(found) # {}
    IN  [found |-> found, entries |-> entries,
         ingest |-> Outdated(found, entries), prune |-> prunes,
         graphify |-> call.graphify /\ (any \/ GraphifyStale(found, entries))]

Plans == [found : Views, entries : Entries, ingest : SUBSET Files,
          prune : SUBSET Files, graphify : BOOLEAN]

\* What became of the actions; those in none of the sets were skipped.
NoOutcome == [ingested |-> {}, pruned |-> {}, graphified |-> FALSE, failed |-> FALSE]

Idle == [pc |-> "idle", call |-> None, roots |-> <<>>, entries |-> None, plan |-> None,
         exec |-> {}, listed |-> {}, todo |-> {}, failures |-> FALSE, gone |-> {},
         outcome |-> NoOutcome, payload |-> None, touched |-> {}]

-----------------------------------------------------------------------------
(* Processes.  touched is not part of the program: the files that somebody *)
(* else edited, or whose entry somebody else changed, since the manifest   *)
(* was loaded for the scan; all files, if the saved roots were changed     *)
(* that the call relies on.                                                *)

\* A knowledge base that was ingested into before: `ks watch` asks for a
\* manifest.json.  Since then any of the sources may have changed.
Init ==
    /\ source \in {s \in [Roots -> Views] :
                      \A r \in Roots, f \in Files : s[r][f] \in Under[r][f] \cup {Gone}}
    /\ manifest \in Entries
    /\ outworn \in SUBSET {f \in Files : manifest[f] # Gone}
    /\ graphify = None
    /\ config = <<>>
    /\ plans = {}
    /\ runs = <<>>
    /\ latest = File("whole", None, 0)
    /\ tmp = NoFile
    /\ open = [p \in Procs |-> "none"]
    /\ lock = [watch |-> None, ingest |-> None]
    /\ job = [p \in Procs |-> Idle]
    /\ count = [calls |-> 0, events |-> 0, mixed |-> FALSE]

Moves(p, change) == job' = [job EXCEPT ![p] = change]

Touched(F, others) ==
    [q \in Procs |-> IF q \in others /\ job[q].entries # None /\ job[q].call.op = "run"
                     THEN [job[q] EXCEPT !.touched = @ \cup F] ELSE job[q]]

Without(p) == [k \in DOMAIN lock |-> IF lock[k] = p THEN None ELSE lock[k]]

\* The process ends, for good or by an exception nobody catches.
Ends(p) == Moves(p, Idle) /\ lock' = Without(p)

Call(p, call) ==
    /\ job[p].pc = "idle"
    /\ count.calls < MaxCalls
    /\ count' = [count EXCEPT !.calls = @ + 1]
    /\ Moves(p, [Idle EXCEPT
           !.pc   = CASE call.op = "scan"   -> "load"
                      [] call.op = "run"    -> "enter"
                      [] call.op = "ingest" -> "list",
           !.call = call,
           !.exec = IF call.op = "ingest" THEN {Head(call.roots)} ELSE {}])
    /\ UNCHANGED <<source, manifest, outworn, graphify, config, plans, runs,
                   latest, tmp, open, lock>>

\* Variant: the lock is not asked for.
EnterRun_NoLock(p) ==
    /\ job[p].pc = "enter"
    /\ Moves(p, [job[p] EXCEPT !.pc = "load"])
    /\ UNCHANGED <<source, manifest, outworn, graphify, config, plans, runs,
                   latest, tmp, open, lock, count>>

\* watch_lock does not wait: the loser gets WATCH_LOCKED.
EnterRun(p) ==
    /\ job[p].pc = "enter"
    /\ IF lock.watch = None
       THEN /\ lock' = [lock EXCEPT !.watch = p]
            /\ Moves(p, [job[p] EXCEPT !.pc = "load"])
       ELSE Ends(p)
    /\ UNCHANGED <<source, manifest, outworn, graphify, config, plans, runs,
                   latest, tmp, open, count>>

RequestRoots(p) == IF job[p].call.roots # <<>> THEN job[p].call.roots ELSE config

\* The first half of a scan: load_manifest, and the roots of the request.
Load(p) ==
    /\ job[p].pc = "load"
    /\ Moves(p, [job[p] EXCEPT !.pc = "classify", !.entries = manifest,
                               !.roots = RequestRoots(p), !.touched = {}])
    /\ UNCHANGED <<source, manifest, outworn, graphify, config, plans, runs,
                   latest, tmp, open, lock, count>>

\* The second half: the files are listed and hashed, and the plan is built.
Classify(p) ==
    /\ job[p].pc = "classify"
    /\ Moves(p, [job[p] EXCEPT !.pc = "saveroots",
           !.plan = BuildPlan(job[p].call, View(ScanRoots(job[p].roots)), job[p].entries)])
    /\ UNCHANGED <<source, manifest, outworn, graphify, config, plans, runs,
                   latest, tmp, open, lock, count>>

\* Whoever else relies on the saved roots is touched by a change of them.
SaveRoots(p) ==
    /\ job[p].pc = "saveroots"
    /\ config' = IF job[p].roots # <<>> THEN job[p].roots ELSE config
    /\ job' = [Touched(IF config' = config THEN {} ELSE Files,
                       {q \in Procs : job[q].call # None /\ job[q].call.roots = <<>>})
                  EXCEPT ![p] = [job[p] EXCEPT !.pc = "saveplan"]]
    /\ UNCHANGED <<source, manifest, outworn, graphify, plans, runs,
                   latest, tmp, open, lock, count>>

\* Variant: the pointer is written first.
SavePlan_Later(p) ==
    /\ job[p].pc = "saveplan"
    /\ Moves(p, [job[p] EXCEPT !.pc = "planpointer"])
    /\ UNCHANGED <<source, manifest, outworn, graphify, config, plans, runs,
                   latest, tmp, open, lock, count>>

SavePlan(p) ==
    /\ job[p].pc = "saveplan"
    /\ plans' = plans \cup {job[p].plan}
    /\ Moves(p, [job[p] EXCEPT !.pc = "planpointer"])
    /\ UNCHANGED <<source, manifest, outworn, graphify, config, runs,
                   latest, tmp, open, lock, count>>

\* _write_latest: a plan keeps the run the pointer had.  load_latest raises on what
\* is no pointer.
ReadLatest(p) ==
    /\ job[p].pc \in {"planpointer", "runpointer"}
    /\ IF latest.read # "whole" THEN Ends(p)
       ELSE /\ Moves(p, [job[p] EXCEPT
                   !.pc = IF job[p].pc = "planpointer" THEN "plantmp" ELSE "runtmp",
                   !.payload = File("whole", job[p].plan,
                                    IF job[p].pc = "runpointer" THEN job[p].payload.run
                                    ELSE latest.run)])
            /\ UNCHANGED lock
    /\ UNCHANGED <<source, manifest, outworn, graphify, config, plans, runs,
                   latest, tmp, open, count>>

\* Between opening latest.json.tmp and renaming it.
Writing(p) == job[p].pc \in {"planwrite", "planreplace", "runwrite", "runreplace"}

\* atomic_write: write_text makes the file, or empties the one that another has open,
OpenTmp(p) ==
    /\ job[p].pc \in {"plantmp", "runtmp"}
    /\ tmp' = Bare
    /\ open' = [open EXCEPT ![p] = "tmp"]
    /\ count' = [count EXCEPT !.mixed = @ \/ \E q \in Procs : Writing(q)]
    /\ Moves(p, [job[p] EXCEPT
           !.pc = IF job[p].pc = "plantmp" THEN "planwrite" ELSE "runwrite"])
    /\ UNCHANGED <<source, manifest, outworn, graphify, config, plans, runs, latest, lock>>

\* A file after this has been written at its beginning: the end of what was longer stays.
Over(file, payload) == IF file = Bare THEN {payload} ELSE {payload, Mixed}

\* and writes to it, whatever name it has by now.
WriteTmp(p) ==
    /\ job[p].pc \in {"planwrite", "runwrite"}
    /\ IF open[p] = "tmp" THEN tmp' \in Over(tmp, job[p].payload) ELSE tmp' = tmp
    /\ IF open[p] = "latest" THEN latest' \in Over(latest, job[p].payload)
       ELSE latest' = latest
    /\ open' = [open EXCEPT ![p] = "none"]
    /\ Moves(p, [job[p] EXCEPT
           !.pc = IF job[p].pc = "planwrite" THEN "planreplace" ELSE "runreplace"])
    /\ UNCHANGED <<source, manifest, outworn, graphify, config, plans, runs, lock, count>>

\* What becomes of the name of a file that is open when latest.json.tmp is renamed.
Renamed(name) ==
    CASE name = "tmp" -> "latest" [] name = "latest" -> "unnamed" [] OTHER -> name

\* replace raises when another writer has taken the file away.
ReplaceLatest(p) ==
    /\ job[p].pc \in {"planreplace", "runreplace"}
    /\ \/ /\ tmp = NoFile
          /\ Ends(p)
          /\ UNCHANGED <<latest, tmp, open>>
       \/ /\ tmp # NoFile
          /\ latest' = tmp
          /\ tmp' = NoFile
          /\ open' = [q \in Procs |-> Renamed(open[q])]
          /\ IF job[p].pc = "planreplace" /\ job[p].call.op = "run"
             THEN Moves(p, [job[p] EXCEPT !.pc = "rescan"]) /\ UNCHANGED lock
             ELSE Ends(p)
    /\ UNCHANGED <<source, manifest, outworn, graphify, config, plans, runs, count>>

-----------------------------------------------------------------------------
(* Executing a plan *)

\* _execution_source_roots, from a second scan of the sources.
ExecRoots(p, roots) ==
    LET found  == View(ScanRoots(roots))
        rootOf == [f \in {g \in Files : found[g] # Gone} |->
                       ScanRoots(roots)[CHOOSE i \in Holding(ScanRoots(roots), f) : TRUE]]
        work   == {rootOf[f] : f \in Outdated(found, manifest)}
        all    == {rootOf[f] : f \in DOMAIN rootOf}
                      \cup {job[p].call.roots[i] : i \in 1 .. Len(job[p].call.roots)}
    IN  work \cup (IF job[p].plan.prune = {} THEN {} ELSE IF all = {} THEN {Raw} ELSE all)

\* What comes first of a set, in the order in which it is gone through.
First(order, S) ==
    order[CHOOSE i \in 1 .. Len(order) :
              order[i] \in S /\ \A j \in 1 .. i - 1 : order[j] \notin S]

\* The root to ingest next.
Root(p) == First(RootOrder, job[p].exec)

\* The manifest and the sources are read again, for the roots to ingest.
Rescan(p) ==
    /\ job[p].pc = "rescan"
    /\ IF job[p].call.execute
       THEN Moves(p, [job[p] EXCEPT !.pc = "list",
                !.exec = IF job[p].plan.ingest \cup job[p].plan.prune = {} THEN {}
                         ELSE ExecRoots(p, RequestRoots(p))])
       ELSE Moves(p, [job[p] EXCEPT !.pc = "saverun"])
    /\ UNCHANGED <<source, manifest, outworn, graphify, config, plans, runs,
                   latest, tmp, open, lock, count>>

\* An exception in an ingest or in graphify: a run records it, `ks ingest` ends.
Raised(p) ==
    IF job[p].call.op = "run"
    THEN [job[p] EXCEPT !.pc = "saverun", !.outcome.failed = TRUE]
    ELSE Idle

\* discover_files of the next root, before the lock is taken.
ListRoot(p) ==
    /\ job[p].pc = "list"
    /\ job[p].exec # {}
    /\ LET present == {f \in Files : At(Root(p), f) # Gone} IN
       Moves(p, [job[p] EXCEPT !.pc = "lock", !.todo = present, !.failures = FALSE,
                               !.listed = present])
    /\ UNCHANGED <<source, manifest, outworn, graphify, config, plans, runs,
                   latest, tmp, open, lock, count>>

\* file_lock does not wait: the loser gets LOCKED.
TakeLock(p) ==
    /\ job[p].pc = "lock"
    /\ IF lock.ingest = None
       THEN /\ lock' = [lock EXCEPT !.ingest = p]
            /\ Moves(p, [job[p] EXCEPT !.pc = "ingest"])
       ELSE /\ Moves(p, Raised(p))
            /\ UNCHANGED lock
    /\ UNCHANGED <<source, manifest, outworn, graphify, config, plans, runs,
                   latest, tmp, open, count>>

EntryFor(c) == IF c \in Blank THEN Gone ELSE c

\* The entry of f becomes e, which touches whoever else is under way.  One of the same
\* content is written anew if its vectors are outworn (_vector_artifacts_current).
SetEntry(p, f, e, change) ==
    /\ manifest' = [manifest EXCEPT ![f] = e]
    /\ outworn' = outworn \ {f}
    /\ job' = [Touched(IF manifest[f] = e THEN {} ELSE {f}, Procs \ {p})
                  EXCEPT ![p] = change]

IngestFile(p) ==
    /\ job[p].pc = "ingest"
    /\ job[p].todo # {}
    /\ LET f    == First(FileOrder, job[p].todo)
           c    == At(Root(p), f)
           next == [job[p] EXCEPT !.todo = @ \ {f}]
       IN  \/ /\ c = Gone
              /\ Moves(p, Raised(p))
              /\ lock' = [lock EXCEPT !.ingest = None]
              /\ UNCHANGED <<manifest, outworn>>
           \/ /\ c \in Empty
              /\ Moves(p, next)
              /\ UNCHANGED <<manifest, outworn, lock>>
           \/ /\ c \in Unreadable \cup Corrupt
              /\ Moves(p, [next EXCEPT !.failures = TRUE])
              /\ UNCHANGED <<manifest, outworn, lock>>
           \/ /\ c \in Textual \cup Blank
              /\ SetEntry(p, f, EntryFor(c), next)
              /\ UNCHANGED lock
    /\ UNCHANGED <<source, graphify, config, plans, runs, latest, tmp, open, count>>

\* Variant: the ingest prunes whether or not it was asked to.
Unlisted_Always(p) == {f \in Files \ job[p].listed : manifest[f] # Gone}

\* The entries a pruning ingest removes: those of no file it has listed.
Unlisted(p) ==
    {f \in Files \ job[p].listed : manifest[f] # Gone /\ job[p].call.prune}

\* Variant: failures are only logged.
EndIngest_LogOnly(p) ==
    /\ job[p].pc = "ingest"
    /\ job[p].todo = {}
    /\ manifest' = [f \in Files |-> IF f \in Unlisted(p) THEN Gone ELSE manifest[f]]
    /\ outworn' = outworn \ Unlisted(p)
    /\ job' = [Touched(Unlisted(p), Procs \ {p}) EXCEPT
                  ![p] = [job[p] EXCEPT !.pc = "list", !.exec = @ \ {Root(p)},
                                        !.gone = @ \cup Unlisted(p)]]
    /\ lock' = [lock EXCEPT !.ingest = None]
    /\ UNCHANGED <<source, graphify, config, plans, runs, latest, tmp, open, count>>

\* Entries are pruned, the lock is released, and failures become DATAERR.
EndIngest(p) ==
    /\ job[p].pc = "ingest"
    /\ job[p].todo = {}
    /\ manifest' = [f \in Files |-> IF f \in Unlisted(p) THEN Gone ELSE manifest[f]]
    /\ outworn' = outworn \ Unlisted(p)
    /\ job' = [Touched(Unlisted(p), Procs \ {p}) EXCEPT
                  ![p] = IF job[p].failures THEN Raised(p)
                         ELSE [job[p] EXCEPT !.pc = "list", !.exec = @ \ {Root(p)},
                                             !.gone = @ \cup Unlisted(p)]]
    /\ lock' = [lock EXCEPT !.ingest = None]
    /\ UNCHANGED <<source, graphify, config, plans, runs, latest, tmp, open, count>>

\* All roots are done: the actions are marked, graphify comes last.
Mark(p) ==
    /\ job[p].pc = "list"
    /\ job[p].exec = {}
    /\ IF job[p].call.op = "ingest" THEN Moves(p, Idle)
       ELSE Moves(p, [job[p] EXCEPT
                !.pc = IF job[p].plan.graphify THEN "graphify" ELSE "saverun",
                !.outcome.ingested = job[p].plan.ingest,
                !.outcome.pruned = job[p].plan.prune \cap job[p].gone])
    /\ UNCHANGED <<source, manifest, outworn, graphify, config, plans, runs,
                   latest, tmp, open, lock, count>>

\* Variant: the output is built from what the scan had loaded.
Graphify_Early(p) ==
    /\ job[p].pc = "graphify"
    /\ graphify' = job[p].plan.entries
    /\ Moves(p, [job[p] EXCEPT !.pc = "saverun", !.outcome.graphified = TRUE])
    /\ UNCHANGED <<source, manifest, outworn, config, plans, runs,
                   latest, tmp, open, lock, count>>

\* graphify builds from the layers as they are now, or raises.
Graphify(p) ==
    /\ job[p].pc = "graphify"
    /\ \/ /\ Moves(p, Raised(p))
          /\ UNCHANGED graphify
       \/ /\ graphify' = manifest
          /\ Moves(p, [job[p] EXCEPT !.pc = "saverun", !.outcome.graphified = TRUE])
    /\ UNCHANGED <<source, manifest, outworn, config, plans, runs,
                   latest, tmp, open, lock, count>>

SaveRun(p) ==
    /\ job[p].pc = "saverun"
    /\ runs' = Append(runs, [plan |-> job[p].plan, outcome |-> job[p].outcome])
    /\ Moves(p, [Idle EXCEPT !.pc = "runpointer", !.call = job[p].call, !.plan = job[p].plan,
                             !.payload = [plan |-> job[p].plan, run |-> Len(runs) + 1]])
    /\ UNCHANGED <<source, manifest, outworn, graphify, config, plans,
                   latest, tmp, open, lock, count>>

-----------------------------------------------------------------------------
(* The environment *)

\* The files whose vectors an ingest of p may just have deleted, and not yet their entry.
Halfway(p) ==
    IF job[p].pc # "ingest" THEN {}
    ELSE IF job[p].todo = {} THEN Unlisted(p)
    ELSE {f \in {First(FileOrder, job[p].todo)} :
             manifest[f] # Gone /\ At(Root(p), f) \in (Textual \cup Blank) \ {manifest[f]}}

Kill(p) ==
    /\ job[p].pc # "idle"
    /\ count.events < MaxEvents
    /\ count' = [count EXCEPT !.events = @ + 1]
    /\ Ends(p)
    /\ open' = [open EXCEPT ![p] = "none"]
    /\ \E F \in SUBSET Halfway(p) : outworn' = outworn \cup F
    /\ UNCHANGED <<source, manifest, graphify, config, plans, runs, latest, tmp>>

\* The places where a process has not begun to read the sources, or is done.
Unread == {"idle", "enter", "load", "saverun", "runpointer", "runtmp", "runwrite",
           "runreplace"}

\* A user creates, changes or deletes a file of a root while somebody reads the
\* sources; what was edited before, Init covers.
Edit(r, f, c) ==
    /\ c \in Under[r][f] \cup {Gone}
    /\ source[r][f] # c
    /\ \E p \in Procs : job[p].pc \notin Unread
    /\ count.events < MaxEvents
    /\ count' = [count EXCEPT !.events = @ + 1]
    /\ source' = [source EXCEPT ![r][f] = c]
    /\ job' = Touched({f}, Procs)
    /\ UNCHANGED <<manifest, outworn, graphify, config, plans, runs, latest, tmp, open, lock>>

Step(p) ==
    \/ EnterRun(p) \/ Load(p) \/ Classify(p) \/ SaveRoots(p) \/ SavePlan(p)
    \/ ReadLatest(p) \/ OpenTmp(p) \/ WriteTmp(p) \/ ReplaceLatest(p)
    \/ Rescan(p) \/ ListRoot(p) \/ TakeLock(p) \/ IngestFile(p) \/ EndIngest(p)
    \/ Mark(p) \/ Graphify(p) \/ SaveRun(p)

Next ==
    \/ \E p \in Procs : Step(p) \/ Kill(p) \/ \E call \in Calls : Call(p, call)
    \/ \E r \in Roots, f \in Files, c \in Contents \cup {Gone} : Edit(r, f, c)

Spec == Init /\ [][Next]_vars

-----------------------------------------------------------------------------
(* Properties *)

Working(p) == job[p].pc \notin {"idle", "enter"} /\ job[p].call.op = "run"

\* 011 FR-012: one bounded run at a time, from its scan to its saved result.
OneRun == \A p, q \in Procs : Working(p) /\ Working(q) => p = q

\* Whatever dies or races, latest.json, if it can be read, points only at a plan and a
\* run that can be loaded; and it can be read as long as no two have written it at once.
LatestSaved ==
    /\ latest.plan # None => latest.plan \in plans
    /\ latest.run <= Len(runs)
    /\ count.mixed \/ latest.read = "whole"

\* data-model.md "Atomicity", without that condition.
LatestWhole == latest.read = "whole"

\* What p must have been asked for if its plan and its ingests are to speak of the
\* same sources: roots without a relpath in common, and a single one to prune.
WellPosed(p) ==
    LET roots == job[p].roots IN
    /\ job[p].call.prune => Len(roots) = 1
    /\ \A i, j \in 1 .. Len(roots) :
          i # j => \A f \in Files : {} \in {Under[roots[i]][f], Under[roots[j]][f]}

\* A run of p writes the entry of f without p's plan saying so, although nobody
\* else has changed the source or the entry since it was planned.
Unplanned(p, f) ==
    /\ Working(p) /\ lock.ingest = p
    /\ manifest'[f] # manifest[f] \/ f \in outworn \ outworn'
    /\ f \notin job[p].touched
    /\ f \notin job[p].plan.ingest \cup job[p].plan.prune

\* 011 SC-003: a run updates exactly the sources of its plan, whichever ingests,
\* scans and edits come in between, if its request is well posed; but for entries
\* whose vectors are outworn, which are made again with the same content.
OnlyPlanned ==
    [][\A p \in Procs, f \in Files :
           Unplanned(p, f) => ~WellPosed(p) \/ (f \in outworn /\ manifest'[f] = manifest[f])]_vars

\* The claim of spec.md, for requests that are well posed, ...
UpdatesExactly == [][\A p \in Procs, f \in Files : Unplanned(p, f) => ~WellPosed(p)]_vars

\* ... and for entries whose vectors are not outworn.
RunsAsPlanned ==
    [][\A p \in Procs, f \in Files :
           Unplanned(p, f) => f \in outworn /\ manifest'[f] = manifest[f]]_vars

\* What p has neither done of its plan nor left to somebody else who has touched it.
LeftOut(p) ==
    (job[p].plan.ingest \cup job[p].plan.prune)
        \ (job[p].outcome.ingested \cup job[p].outcome.pruned \cup job[p].touched)

\* The roots of p are saved ones, and nothing is left in them of what p has found: the
\* run then falls back on raw_sources, where nothing is missing that could be pruned.
LostRoot(p) ==
    /\ job[p].call.roots = <<>>
    /\ \A f \in Files : job[p].plan.found[f] # Gone => f \in job[p].touched

\* The entry of f is what an ingest of what p has found makes of it: it has the
\* fingerprint of the plan, or is gone if the source has no text.  No ingest looks
\* into an empty file.
Settled(p, f) ==
    LET c == job[p].plan.found[f]
    IN  \/ c \in Empty
        \/ c \in Blank /\ manifest[f] = Gone
        \/ c = manifest[f]

\* A well posed run has been executed and is about to save what it reports.
Reporting(p) == job[p].pc = "saverun" /\ job[p].call.execute /\ WellPosed(p)

\* What a run reports has happened: the sources it calls ingested are, and what it
\* calls pruned is gone; and if it reports no failure nothing of its plan was left
\* out, unless its roots are saved ones that have become empty.
Reported ==
    \A p \in Procs : Reporting(p) =>
        /\ \A f \in job[p].outcome.ingested \ job[p].touched : Settled(p, f)
        /\ \A f \in job[p].outcome.pruned \ job[p].touched : manifest[f] = Gone
        /\ job[p].outcome.failed \/ LostRoot(p) \/ LeftOut(p) = {}

\* 011 US2, scenario 2: graphify is built after the ingests of its run.
GraphifyFollows ==
    \A p \in Procs :
        job[p].pc = "saverun" /\ job[p].outcome.graphified /\ job[p].touched = {}
            => graphify = manifest

=============================================================================
