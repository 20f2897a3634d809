--------------------------- MODULE WikiWriters_proofs ---------------------------
(***************************************************************************)
(* What the stores of artifacts and the pages of the wiki keep, for any    *)
(* number of processes, versions, models and slugs: that an artifact never *)
(* changes; that pages are of the version in the manifest, are spoken of   *)
(* in the log and listed in the index; and what the commands that write    *)
(* pages may do to each other's.                                           *)
(***************************************************************************)
EXTENDS WikiWriters, FiniteSetTheorems, WellFoundedInduction, TLAPS

-----------------------------------------------------------------------------
(* The invariant *)

Rows == DOMAIN job = Procs /\ \A p \in Procs : DOMAIN job[p] = DOMAIN Idle

ShapeInv ==
    /\ Rows
    /\ DOMAIN lock = {"extraction", "candidate", "run"}
    /\ pages = [s \in Slugs |-> pages[s]]

\* Commands under the runtime's lock, and the steps by which an index is rebuilt.
RunOps  == {"writeback", "lint", "ingest", "prune"}
Rebuild == {"list", "load", "index"}

\* Where a rebuild goes on, and what an exception meanwhile leads to.
Turn(j, next, catch) == j.pc \in Rebuild /\ j.next = next /\ j.catch = catch

\* What a command of each kind can be at.
Stands(j) ==
    \/ j.op = "none" /\ j.pc = "idle"
    \/ j.op = "classify" /\ j.pc \in {"resolve", "read", "ask", "wait", "check", "write"}
    \/ j.op = "synthesize" /\ j.pc \in {"find", "fresh", "wait", "check", "write"}
    \/ /\ j.op = "writeback"
       /\ \/ j.pc \in {"slug", "open", "fill", "log"} /\ j.catch = "none"
          \/ Turn(j, "log", "none")
    \/ /\ j.op = "lint"
       /\ \/ j.pc = "log" /\ j.catch = "none"
          \/ Turn(j, "log", "none")
    \/ /\ j.op = "ingest"
       /\ \/ j.pc \in {"copy", "log"} /\ j.catch = "none"
          \/ j.pc \in {"slug", "open", "fill"} /\ j.catch = "unraw"
          \/ Turn(j, "commit", "unraw")
          \/ j.pc = "commit" /\ j.catch = "unpage"
          \/ Turn(j, "log", "none")
          \/ j.pc \in {"unpage", "refill"}
          \/ Turn(j, "unraw", "none")
          \/ j.pc = "unraw"
    \/ /\ j.op = "prune" /\ j.catch = "none"
       /\ j.pc \in {"unlink", "drop", "save"} \/ Turn(j, "drop", "none")
    \/ /\ j.op = "apply"
       /\ \/ j.pc \in {"enter", "stale", "existing", "previous", "log"} /\ j.catch = "none"
          \/ j.pc \in {"put", "log", "restore"} /\ j.catch = "restore"
          \/ Turn(j, "log", "restore")
          \/ Turn(j, "none", "none")

\* A command has a lock as long as it is within it.
Locks(p) ==
    /\ (lock.run = p) <=> job[p].op \in RunOps
    /\ (lock.extraction = p) <=> (job[p].op = "classify" /\ job[p].pc \in {"check", "write"})
    /\ (lock.candidate = p) <=>
          \/ job[p].op = "synthesize" /\ job[p].pc \in {"check", "write"}
          \/ job[p].op = "apply" /\ job[p].pc # "enter"

ControlInv == \A p \in Procs : Stands(job[p]) /\ Locks(p)

\* A run says how many files there were at most when it was forced.
Numbered(files) ==
    /\ IsFiniteSet(DOMAIN files)
    /\ \A i \in DOMAIN files : i.run \in Nat /\ i.run <= Cardinality(DOMAIN files)

\* A candidate was made from a stored extraction.
Stored ==
    /\ Numbered(extractions) /\ Numbered(candidates)
    /\ \A i \in DOMAIN extractions :
          extractions[i].created \in Nat /\ extractions[i].created <= Cardinality(DOMAIN extractions)
    /\ \A c \in DOMAIN candidates :
          /\ candidates[c].from \in DOMAIN extractions
          /\ candidates[c].fp = extractions[candidates[c].from].fp
          /\ candidates[c].text = extractions[candidates[c].from].text

\* What a command has in hand for a store, or from it: what is to be stored without
\* force is not yet there.
Asked(p) ==
    /\ job[p].op = "classify" /\ job[p].pc = "write" /\ ~job[p].force =>
          Base(ExtractionKey(job[p].model, job[p].fp)) \notin DOMAIN extractions
    /\ job[p].op = "synthesize" =>
          /\ job[p].pc = "fresh" => job[p].todo # {} /\ job[p].todo \subseteq DOMAIN extractions
          /\ job[p].pc \in {"wait", "check", "write"} => job[p].from \in DOMAIN extractions
          /\ job[p].pc = "write" /\ ~job[p].force => Base(WantedCandidate(p)) \notin DOMAIN candidates
    /\ job[p].op = "apply" => job[p].from \in DOMAIN candidates

StoreInv == Stored /\ \A p \in Procs : Asked(p)

\* A command that has its slug has one of the title's.
Slugged(p) ==
    /\ job[p].op \in {"synthesize", "apply", "prune"} => job[p].slug \in Slugs
    /\ job[p].op \in {"writeback", "ingest"} /\ job[p].pc \notin {"slug", "copy", "unraw"} =>
          job[p].slug \in Slugs

SlugInv ==
    /\ \A c \in DOMAIN candidates : candidates[c].slug \in Slugs
    /\ manifest # None => manifest.slug \in Slugs
    /\ \A p \in Procs : Slugged(p)

\* Pages, and what a command may put back, say what their origin does.
Held(p) == PageOK(job[p].prev) /\ (job[p].op = "ingest" => job[p].fp \in Versions)

PageInv == (\A s \in Slugs : PageOK(pages[s])) /\ \A p \in Procs : Held(p)

\* Without overlap there is one writer at a time.
ApartInv ==
    "overlap" \notin upsets =>
        lock.run = None \/ \A p \in Procs : Applying(p) => lock.candidate # p

Llm(page) == IsPage(page) /\ page.origin = "llm_wiki"

\* The page is one of the source.
Sourced(s) == pages[s] \in {SourcePage(v) : v \in Versions}

Lineage(page) == <<page.from, page.fp>>

\* What an apply puts on its page, or back there.
Related(p, page) == IsPage(page) => page.origin = "llm_wiki" /\ Lineage(page) = Lineage(candidates[job[p].from])

\* Within the transaction of an ingest, which ends with its entry.
InTransaction(j) ==
    /\ j.op = "ingest"
    /\ \/ j.pc \in {"slug", "open", "fill", "commit", "unpage", "refill"}
       \/ j.pc \in Rebuild /\ j.next = "commit"

\* A synthesized page in the place of the entry is of the version in the manifest,
FreshEntry == manifest # None /\ Llm(pages[manifest.slug]) => pages[manifest.slug].fp = manifest.fp

\* and so is the candidate that is being applied, with what it is put in place of,
AppliesFresh(p) ==
    Applying(p) =>
        /\ job[p].pc \notin {"enter", "stale"} =>
              manifest # None /\ manifest.fp = candidates[job[p].from].fp
        /\ job[p].pc = "previous" => Related(p, pages[job[p].slug])
        /\ job[p].catch = "restore" => Related(p, job[p].prev)

\* and the page that an ingest may have to put back.
IngestsFresh(p) ==
    InTransaction(job[p]) =>
        /\ Llm(job[p].prev) => manifest # None /\ job[p].prev.fp = manifest.fp
        /\ job[p].pc \in {"list", "load", "index", "commit"} => Sourced(job[p].slug)

StaleInv ==
    "overlap" \notin upsets => FreshEntry /\ \A p \in Procs : AppliesFresh(p) /\ IngestsFresh(p)

Logged(s, page) == [event |-> "apply", slug |-> s, cand |-> page.cand] \in log

\* An apply is at work on the page it has written.
InHand(p, s) ==
    /\ Applying(p) /\ Writing(p) /\ job[p].slug = s
    /\ job[p].catch = "restore" /\ job[p].from = pages[s].cand

\* Each synthesized page is in the log, but for one that is in hand,
Spoken(s) == Llm(pages[s]) => Logged(s, pages[s]) \/ \E p \in Procs : InHand(p, s)

\* and so is each one that may have to be put back in its place.
PrevSpoken(p) ==
    /\ Applying(p) /\ job[p].catch = "restore" /\ Llm(job[p].prev) => Logged(job[p].slug, job[p].prev)
    /\ InTransaction(job[p]) /\ Llm(job[p].prev) =>
          /\ manifest # None /\ Logged(manifest.slug, job[p].prev)
          /\ job[p].pc # "slug" => job[p].slug = manifest.slug

LogInv ==
    upsets \cap {"overlap", "kill"} = {} =>
        (\A s \in Slugs : Spoken(s)) /\ \A p \in Procs : PrevSpoken(p)

\* The index is that of all pages but perhaps one.
Near(slug) == \A s \in Slugs \ {slug} : index[s] = pages[s]

\* As long as all goes well: what a writer has done to its page and the index,
\* and whose page it is.
Works(p) ==
    LET j == job[p] IN
    /\ j.op # "lint" /\ j.pc \notin {"unpage", "refill", "unraw"}
    /\ j.pc \in Rebuild => j.next # "unraw"
    /\ IF j.pc \in {"fill", "restore"} \cup Rebuild THEN Near(j.slug) ELSE index = pages
    /\ j.pc = "load" => j.names = Written(Slugs)
    /\ j.pc = "index" => j.names = pages
    /\ j.pc = "fill" => pages[j.slug] = Torn
    /\ j.pc = "open" => pages[j.slug] = None \/ (j.op = "ingest" /\ manifest # None)
    /\ j.op = "ingest" /\ j.pc \in {"open", "fill"} /\ manifest # None => j.slug = manifest.slug
    /\ j.op = "prune" /\ j.pc = "unlink" => manifest # None /\ j.slug = manifest.slug
    /\ j.op = "apply" /\ j.catch = "restore" => Related(p, pages[j.slug]) /\ j.prev # Torn
    /\ j.op = "apply" /\ j.pc = "previous" => pages[j.slug] # Torn

\* The entry names a page of the source, unless the page is at work.
AtSource(p) ==
    \/ job[p].op = "ingest" /\ job[p].pc = "fill" /\ job[p].slug = manifest.slug
    \/ job[p].op = "prune" /\ job[p].pc # "unlink"

Owned == manifest # None => Sourced(manifest.slug) \/ \E p \in Procs : AtSource(p)

WorkInv ==
    upsets = {} =>
        /\ (\A p \in Procs : ~Writing(p)) => index = pages
        /\ \A p \in Procs : Writing(p) => Works(p)
        /\ Owned


-----------------------------------------------------------------------------
(* What every step leaves alone *)

Step(p) ==
    \/ Call(p)
    \/ ArtifactStep(p) /\ UNCHANGED wikiVars
    \/ WriterStep(p)
    \/ Fault(p)
    \/ Kill(p)

Files == {"extraction", "candidate", "run"}

\* A process is neither nobody nor one of the marks.
LEMMA SomeoneIsSomeone == ASSUME NEW p \in Procs PROVE p # None
  BY WritersAssumption

\* The row of a process after a step of its own.
Moved(p) == \E j : DOMAIN j = DOMAIN Idle /\ job' = [job EXCEPT ![p] = j]

\* Locks are taken when they are free, by the process itself, and given up by it.
LocksOf(p) ==
    /\ DOMAIN lock' = Files
    /\ \A f \in Files : lock'[f] = lock[f] \/ {lock[f], lock'[f]} = {None, p}

\* A command starts for a process that is idle.
LEMMA CallFrame ==
    ASSUME ShapeInv, NEW p \in Procs, Call(p)
    PROVE  /\ job[p] = Idle
           /\ Moved(p) /\ LocksOf(p)
           /\ UNCHANGED <<pages, index, log, raw, manifest, extractions, candidates>>
           /\ lock' \in {lock, [lock EXCEPT !.run = p]}
           /\ lock' # lock => lock.run = None
  BY DEF Call, CallClassify, CallSynthesize, CallCommit, CallFix, CallIngest, CallPrune, CallApply,
         Starts, Idle, Moved, LocksOf, ShapeInv, Files

\* A step on artifacts leaves pages and entry alone.
LEMMA ArtifactFrame ==
    ASSUME ShapeInv, ControlInv, NEW p \in Procs, ArtifactStep(p)
    PROVE  /\ Moved(p) /\ LocksOf(p)
           /\ UNCHANGED <<raw, manifest>>
  <1>1. Moved(p) /\ UNCHANGED <<raw, manifest>>
    BY DEF ArtifactStep, Resolve, ReadSource, Ask, EnterExtraction, ReuseExtraction, NewExtraction,
           WriteExtraction, ListExtractions, CheckFresh, EnterCandidate, ReuseCandidate,
           NewCandidate, WriteCandidate, Goes, Ends, Takes, Frees, Idle, Rows, ShapeInv, Moved
  <1>2. LocksOf(p)
    BY SomeoneIsSomeone
       DEF ArtifactStep, Resolve, ReadSource, Ask, EnterExtraction, ReuseExtraction, NewExtraction,
           WriteExtraction, ListExtractions, CheckFresh, EnterCandidate, ReuseCandidate,
           NewCandidate, WriteCandidate, Goes, Ends, Takes, Frees, Idle, Rows, ShapeInv, LocksOf, Files,
           At, ControlInv, Locks
  <1> QED
    BY <1>1, <1>2

\* A step that raises goes to an except clause, or ends the command.
LEMMA RaiseFrame ==
    ASSUME ShapeInv, NEW p \in Procs, Raises(p)
    PROVE  Moved(p) /\ LocksOf(p)
  BY DEF Raises, LeavesAll, Ends, Goes, Moved, LocksOf, Idle, Rows, ShapeInv, Files

\* A step on pages leaves artifacts alone.
LEMMA WriterFrame ==
    ASSUME ShapeInv, NEW p \in Procs, WriterStep(p)
    PROVE  /\ Moved(p) /\ LocksOf(p)
           /\ UNCHANGED <<extractions, candidates>>
           /\ pages' = [s \in Slugs |-> pages'[s]]
  <1> USE DEF Rows, ShapeInv, Moved, Goes, Rebuilds
  <1>1. ASSUME Raises(p) PROVE Moved(p) /\ LocksOf(p)
    BY <1>1, RaiseFrame
  <1>2. ASSUME LeavesAll(p) PROVE Moved(p) /\ LocksOf(p)
    BY <1>2 DEF LeavesAll, Ends, LocksOf, Idle, Files
  <1>3. CASE ListPages(p) \/ LoadPages(p) \/ WriteIndex(p) \/ OpenPage(p) \/ AppendLog(p)
    BY <1>1, <1>2, <1>3
       DEF ListPages, LoadPages, WriteIndex, OpenPage, AppendLog, LocksOf, Files, wikiVars
  <1>4. CASE ChooseSlug(p) \/ FillAnswer(p)
    BY <1>1, <1>2, <1>4 DEF ChooseSlug, FillAnswer, LocksOf, Files, wikiVars
  <1>5. CASE CopyRaw(p) \/ ChoosePage(p) \/ FillSource(p) \/ SaveEntry(p)
    BY <1>5 DEF CopyRaw, ChoosePage, FillSource, SaveEntry, LocksOf, Files, wikiVars
  <1>6. CASE UndoPage(p) \/ RefillPage(p) \/ UndoRaw(p)
    BY <1>2, <1>6 DEF UndoPage, RefillPage, UndoRaw, LocksOf, Files, wikiVars
  <1>7. CASE DeletePages(p) \/ DeleteRaw(p) \/ DropEntry(p)
    BY <1>2, <1>7 DEF DeletePages, DeleteRaw, DropEntry, LocksOf, Files, wikiVars
  <1>8. CASE EnterApply(p) \/ CheckStale(p) \/ LookAtExisting(p) \/ ReadPrevious(p)
             \/ PutPage(p) \/ RestorePage(p)
    BY <1>1, <1>2, <1>8
       DEF EnterApply, CheckStale, LookAtExisting, ReadPrevious, PutPage, RestorePage, Takes,
           LocksOf, Files, wikiVars
  <1> QED
    BY <1>3, <1>4, <1>5, <1>6, <1>7, <1>8 DEF WriterStep

\* A step moves one process, and the locks and the row of the others stay theirs.
LEMMA StepFrame ==
    ASSUME ShapeInv, ControlInv, NEW p \in Procs, Step(p)
    PROVE  /\ Moved(p) /\ LocksOf(p)
           /\ pages' = [s \in Slugs |-> pages'[s]]
  <1>1. CASE Call(p)
    BY <1>1, CallFrame DEF ShapeInv
  <1>2. CASE ArtifactStep(p) /\ UNCHANGED wikiVars
    BY <1>2, ArtifactFrame DEF wikiVars, ShapeInv
  <1>3. CASE WriterStep(p)
    BY <1>3, WriterFrame
  <1>4. CASE Fault(p)
    BY <1>4, RaiseFrame DEF Fault, ShapeInv
  <1>5. CASE Kill(p)
    BY <1>5 DEF Kill, LeavesAll, Ends, Idle, Rows, ShapeInv, Moved, LocksOf, Files
  <1> QED
    BY <1>1, <1>2, <1>3, <1>4, <1>5 DEF Step

LEMMA OthersStay ==
    ASSUME ShapeInv, ControlInv, NEW p \in Procs, Step(p), NEW q \in Procs \ {p}
    PROVE  /\ job'[q] = job[q]
           /\ \A f \in Files : (lock'[f] = q) <=> (lock[f] = q)
  <1>1. Moved(p) /\ LocksOf(p)
    BY StepFrame
  <1>2. job'[q] = job[q]
    BY <1>1 DEF Moved
  <1>3. q # None /\ q # p
    BY SomeoneIsSomeone
  <1> QED
    BY <1>1, <1>2, <1>3 DEF LocksOf

\* Where a step may raise, and what is waiting for it there.
MayRaise(j) ==
    \/ j.pc \in {"load", "copy", "open", "put", "index", "commit", "log"}
    \/ j.op = "writeback" /\ j.pc = "slug"
    \/ j.op = "apply" /\ j.pc = "existing"

LEMMA Caught ==
    ASSUME NEW j, Stands(j), MayRaise(j)
    PROVE  /\ j.op \in RunOps \cup {"apply"}
           /\ j.catch \in {"none", "unraw", "unpage", "restore"}
           /\ j.catch \in {"unraw", "unpage"} => j.op = "ingest"
           /\ j.catch = "restore" => j.op = "apply"
           /\ j.op = "apply" => j.catch \in {"none", "restore"}
           /\ j.pc # "commit" => j.catch # "unpage"
  BY DEF Stands, MayRaise, Turn, Rebuild, RunOps

\* The variables keep their shapes.
LEMMA ShapeInit == Init => ShapeInv
  BY DEF Init, ArtifactsInit, ShapeInv, Rows, Idle

LEMMA ShapeStep ==
    ASSUME ShapeInv, ControlInv, NEW p \in Procs, Step(p)
    PROVE  ShapeInv'
  <1>1. Moved(p) /\ LocksOf(p) /\ pages' = [s \in Slugs |-> pages'[s]]
    BY StepFrame
  <1>2. DOMAIN job' = Procs /\ \A q \in Procs : DOMAIN job'[q] = DOMAIN Idle
    BY <1>1 DEF Moved, Rows, ShapeInv
  <1> QED
    BY <1>1, <1>2 DEF ShapeInv, Rows, LocksOf, Files

-----------------------------------------------------------------------------
(* Where commands stand, and the locks they have *)

\* Initially all are idle, and the locks are free.
LEMMA ControlInit == Init => ControlInv
  <1> SUFFICES ASSUME Init, NEW p \in Procs PROVE Stands(job[p]) /\ Locks(p)
    BY DEF ControlInv
  <1> QED
    BY SomeoneIsSomeone DEF Init, ArtifactsInit, Stands, Locks, Idle, RunOps

\* A process that ends its command is idle, and has no lock.
LEMMA LeavesControl ==
    ASSUME ShapeInv, NEW p \in Procs, LeavesAll(p)
    PROVE  Stands(job'[p]) /\ Locks(p)'
  BY SomeoneIsSomeone DEF LeavesAll, Ends, Idle, ShapeInv, Rows, Stands, Locks, RunOps

\* One that raises stands in its except clause or is idle.
LEMMA RaisesControl ==
    ASSUME ShapeInv, ControlInv, NEW p \in Procs, MayRaise(job[p]), Raises(p)
    PROVE  Stands(job'[p]) /\ Locks(p)'
  <1>1. CASE job[p].catch = "none"
    BY <1>1, LeavesControl DEF Raises
  <1>2. CASE job[p].catch # "none"
    <2>1. /\ Rows /\ Stands(job[p]) /\ Locks(p) /\ lock' = lock
          /\ job' = [job EXCEPT ![p].pc = job[p].catch]
      BY <1>2 DEF ShapeInv, ControlInv, Raises, Goes
    <2>2. /\ job'[p].pc = job[p].catch
          /\ job'[p].op = job[p].op /\ job'[p].catch = job[p].catch
      BY <2>1 DEF Rows, Idle
    <2>3. \/ job[p].op = "ingest" /\ job[p].catch \in {"unraw", "unpage"}
          \/ job[p].op = "apply" /\ job[p].catch = "restore" /\ job[p].pc # "enter"
      BY <1>2, <2>1, Caught DEF Stands, MayRaise, Turn, Rebuild
    <2> QED
      BY <2>1, <2>2, <2>3 DEF Stands, Locks, RunOps
  <1> QED
    BY <1>1, <1>2

\* Each command goes from one of its places to the next.
LEMMA CallControl ==
    ASSUME ShapeInv, ControlInv, NEW p \in Procs, Call(p)
    PROVE  Stands(job'[p]) /\ Locks(p)'
  <1>1. /\ Rows /\ DOMAIN lock = Files /\ Locks(p) /\ job[p].op = "none"
    BY CallFrame DEF ShapeInv, ControlInv, Files, Idle
  <1>2. CASE CallCommit(p)
    BY <1>1, <1>2, SomeoneIsSomeone
       DEF CallCommit, Starts, Idle, Rows, Files, Stands, Locks, RunOps
  <1>5. CASE CallPrune(p)
    BY <1>1, <1>5, SomeoneIsSomeone
       DEF CallPrune, Starts, Idle, Rows, Files, Stands, Locks, RunOps
  <1>6. ASSUME NEW v \in Versions, CallIngest(p, v) PROVE Stands(job'[p]) /\ Locks(p)'
    BY <1>1, <1>6, SomeoneIsSomeone
       DEF CallIngest, Starts, Idle, Rows, Files, Stands, Locks, RunOps
  <1>3. CASE CallFix(p)
    BY <1>1, <1>3, SomeoneIsSomeone
       DEF CallFix, Starts, Idle, Rows, Files, Stands, Locks, RunOps, Turn, Rebuild
  <1>4. ASSUME NEW mode, NEW m, NEW force, CallClassify(p, mode, m, force)
        PROVE  Stands(job'[p]) /\ Locks(p)'
    BY <1>1, <1>4 DEF CallClassify, Idle, Rows, Stands, Locks, RunOps
  <1>7. ASSUME NEW mode, NEW from, NEW s, NEW m, NEW force,
               CallSynthesize(p, mode, from, s, m, force)
        PROVE  Stands(job'[p]) /\ Locks(p)'
    BY <1>1, <1>7 DEF CallSynthesize, Idle, Rows, Stands, Locks, RunOps
  <1>8. ASSUME NEW c, CallApply(p, c) PROVE Stands(job'[p]) /\ Locks(p)'
    BY <1>1, <1>8 DEF CallApply, Idle, Rows, Stands, Locks, RunOps
  <1> QED
    BY <1>2, <1>3, <1>4, <1>5, <1>6, <1>7, <1>8 DEF Call

LEMMA ArtifactControl ==
    ASSUME ShapeInv, ControlInv, NEW p \in Procs, ArtifactStep(p)
    PROVE  Stands(job'[p]) /\ Locks(p)'
  <1>1. Rows /\ DOMAIN lock = Files /\ Locks(p) /\ Stands(job[p]) /\ p # None
    BY SomeoneIsSomeone DEF ShapeInv, ControlInv, Files
  <1>2. CASE Resolve(p) \/ ReadSource(p) \/ Ask(p)
    BY <1>1, <1>2 DEF Resolve, ReadSource, Ask, Goes, Ends, Idle, At, Rows, Stands, Locks, RunOps
  <1>3. CASE EnterExtraction(p) \/ ReuseExtraction(p)
    BY <1>1, <1>3
       DEF EnterExtraction, ReuseExtraction, Takes, Frees, Goes, Ends, Idle, At, Rows, Files,
           Stands, Locks, RunOps
  <1>4. CASE NewExtraction(p) \/ WriteExtraction(p)
    BY <1>1, <1>4
       DEF NewExtraction, WriteExtraction, Frees, Goes, Ends, Idle, At, Rows, Files, Stands, Locks,
           RunOps
  <1>5. CASE ListExtractions(p) \/ CheckFresh(p)
    BY <1>1, <1>5 DEF ListExtractions, CheckFresh, Goes, Ends, Idle, At, Rows, Stands, Locks, RunOps
  <1>6. CASE EnterCandidate(p) \/ ReuseCandidate(p)
    BY <1>1, <1>6
       DEF EnterCandidate, ReuseCandidate, Takes, Frees, Goes, Ends, Idle, At, Rows, Files,
           Stands, Locks, RunOps
  <1>7. CASE NewCandidate(p) \/ WriteCandidate(p)
    BY <1>1, <1>7
       DEF NewCandidate, WriteCandidate, Frees, Goes, Ends, Idle, At, Rows, Files, Stands, Locks,
           RunOps
  <1> QED
    BY <1>2, <1>3, <1>4, <1>5, <1>6, <1>7 DEF ArtifactStep

LEMMA WriterControl ==
    ASSUME ShapeInv, ControlInv, NEW p \in Procs, WriterStep(p)
    PROVE  Stands(job'[p]) /\ Locks(p)'
  <1> USE DEF Rows, At, Goes, Rebuilds, Turn, Rebuild, RunOps
  <1>1. Rows /\ DOMAIN lock = Files /\ Locks(p) /\ Stands(job[p]) /\ p # None
    BY SomeoneIsSomeone DEF ShapeInv, ControlInv, Files
  <1>2. ASSUME LeavesAll(p) PROVE Stands(job'[p]) /\ Locks(p)'
    BY <1>2, LeavesControl
  <1>3. ASSUME MayRaise(job[p]), Raises(p) PROVE Stands(job'[p]) /\ Locks(p)'
    BY <1>3, RaisesControl
  <1>4. CASE ListPages(p)
    BY <1>1, <1>4 DEF ListPages, Idle, Stands, Locks
  <1>5. CASE LoadPages(p)
    BY <1>1, <1>3, <1>5 DEF LoadPages, MayRaise, Idle, Stands, Locks
  <1>6. CASE WriteIndex(p)
    BY <1>1, <1>2, <1>6 DEF WriteIndex, Idle, Stands, Locks
  <1>7. CASE OpenPage(p) \/ AppendLog(p)
    BY <1>1, <1>2, <1>7 DEF OpenPage, AppendLog, Idle, Stands, Locks
  <1>8. CASE ChooseSlug(p) \/ FillAnswer(p)
    BY <1>1, <1>3, <1>8 DEF ChooseSlug, FillAnswer, MayRaise, Idle, Stands, Locks
  <1>9. CASE CopyRaw(p) \/ ChoosePage(p) \/ FillSource(p) \/ SaveEntry(p)
    BY <1>1, <1>9
       DEF CopyRaw, ChoosePage, FillSource, SaveEntry, wikiVars, Idle, Stands, Locks
  <1>10. CASE UndoPage(p) \/ RefillPage(p) \/ UndoRaw(p)
    BY <1>1, <1>2, <1>10 DEF UndoPage, RefillPage, UndoRaw, Idle, Stands, Locks
  <1>11. CASE DeletePages(p) \/ DeleteRaw(p) \/ DropEntry(p)
    BY <1>1, <1>2, <1>11 DEF DeletePages, DeleteRaw, DropEntry, Idle, Stands, Locks
  <1>12. CASE EnterApply(p) \/ CheckStale(p)
    BY <1>1, <1>2, <1>12 DEF EnterApply, CheckStale, Takes, Files, Idle, Stands, Locks
  <1>13. CASE LookAtExisting(p)
    BY <1>1, <1>2, <1>3, <1>13 DEF LookAtExisting, MayRaise, Idle, Stands, Locks
  <1>14. CASE ReadPrevious(p) \/ PutPage(p) \/ RestorePage(p)
    BY <1>1, <1>14 DEF ReadPrevious, PutPage, RestorePage, Idle, Stands, Locks
  <1> QED
    BY <1>4, <1>5, <1>6, <1>7, <1>8, <1>9, <1>10, <1>11, <1>12, <1>13, <1>14 DEF WriterStep

LEMMA ControlStep ==
    ASSUME ShapeInv, ControlInv, NEW p \in Procs, Step(p)
    PROVE  ControlInv'
  <1>1. Stands(job'[p]) /\ Locks(p)'
    <2>1. CASE Fault(p)
      BY <2>1, RaisesControl DEF Fault, MayRaise
    <2>2. CASE Kill(p)
      BY <2>2, LeavesControl DEF Kill
    <2> QED
      BY <2>1, <2>2, CallControl, ArtifactControl, WriterControl DEF Step
  <1>2. ASSUME NEW q \in Procs \ {p} PROVE Stands(job'[q]) /\ Locks(q)'
    BY <1>2, OthersStay DEF ControlInv, Locks, Files
  <1> QED
    BY <1>1, <1>2 DEF ControlInv

-----------------------------------------------------------------------------
(* The stores of artifacts *)

\* Every set of numbers that is not empty has a least one.
LEMMA LeastOf ==
    ASSUME NEW S \in SUBSET Nat, S # {}
    PROVE  \E n \in S : \A m \in S : n <= m
  <1> DEFINE before == {x \in Nat \X Nat : x[1] < x[2]}
  <1>1. IsWellFoundedOn(before, Nat)
    BY NatLessThanWellFounded DEF OpToRel
  <1>2. \A m, n \in S : m < n => <<m, n>> \in before
    OBVIOUS
  <1> HIDE DEF before
  <1>3. PICK n \in S : \A m \in S : <<m, n>> \notin before
    BY <1>1, WFMin
  <1>4. \A m \in S : ~(m < n)
    BY <1>2, <1>3
  <1> QED
    BY <1>4

\* Of some extractions there is a newest.
LEMMA NewestIsOne ==
    ASSUME StoreInv, NEW ids, ids \subseteq DOMAIN extractions, ids # {}
    PROVE  Newest(ids) \in ids
  <1> DEFINE n        == Cardinality(DOMAIN extractions)
             bounds   == {b \in Nat : \A i \in ids : extractions[i].created <= b}
  <1>1. n \in Nat /\ \A i \in ids : extractions[i].created \in Nat /\ extractions[i].created <= n
    BY FS_CardinalityType DEF StoreInv, Stored, Numbered
  <1>2. bounds \in SUBSET Nat /\ n \in bounds
    BY <1>1
  <1>3. PICK b \in bounds : \A c \in bounds : b <= c
    BY <1>2, LeastOf
  <1>4. \E i \in ids : extractions[i].created = b
    <2> SUFFICES ASSUME \A i \in ids : extractions[i].created # b PROVE FALSE
      OBVIOUS
    <2>1. PICK i \in ids : TRUE
      OBVIOUS
    <2>2. \A k \in ids : extractions[k].created < b
      BY <1>1, <1>3
    <2>3. b \in Nat /\ b # 0
      BY <1>1, <2>1, <2>2
    <2>4. b - 1 \in bounds
      BY <1>1, <2>2, <2>3
    <2> QED
      BY <1>3, <2>3, <2>4
  <1>5. \E i \in ids : \A j \in ids : extractions[j].created <= extractions[i].created
    BY <1>3, <1>4
  <1> QED
    BY <1>5 DEF Newest

\* A file under a new id comes to the others, and takes nothing from them.
LEMMA PutNew ==
    ASSUME NEW files, NEW id, NEW content, id \notin DOMAIN files, Numbered(files),
           id.run \in Nat, id.run <= Cardinality(DOMAIN files) + 1
    PROVE  /\ DOMAIN Put(files, id, content) = DOMAIN files \cup {id}
           /\ Put(files, id, content)[id] = content
           /\ Unchanging(files, Put(files, id, content))
           /\ Numbered(Put(files, id, content))
           /\ Cardinality(DOMAIN Put(files, id, content)) = Cardinality(DOMAIN files) + 1
           /\ Cardinality(DOMAIN files) \in Nat
  <1> DEFINE new == Put(files, id, content)
  <1>1. DOMAIN new = DOMAIN files \cup {id}
    BY DEF Put
  <1>2. new[id] = content /\ Unchanging(files, new)
    BY DEF Put, Unchanging
  <1>3. /\ IsFiniteSet(DOMAIN new) /\ Cardinality(DOMAIN files) \in Nat
        /\ Cardinality(DOMAIN new) = Cardinality(DOMAIN files) + 1
    BY <1>1, FS_AddElement, FS_CardinalityType DEF Numbered
  <1> HIDE DEF new
  <1>4. Numbered(new)
    BY <1>1, <1>3 DEF Numbered
  <1> QED
    BY <1>1, <1>2, <1>3, <1>4 DEF new

\* A forced run has a number that no file has.
LEMMA ForcedIsNew ==
    ASSUME NEW files, Numbered(files), NEW key
    PROVE  /\ Forced(key, files) \notin DOMAIN files
           /\ Forced(key, files).run = Cardinality(DOMAIN files) + 1
           /\ Cardinality(DOMAIN files) \in Nat
  BY FS_CardinalityType DEF Numbered, Forced

\* What is stored is stored under an id of its own.
LEMMA ExtractionIsNew ==
    ASSUME StoreInv, NEW p \in Procs, WriteExtraction(p)
    PROVE  \E id : /\ id \notin DOMAIN extractions
                   /\ id.run \in Nat /\ id.run <= Cardinality(DOMAIN extractions) + 1
                   /\ extractions' = Put(extractions, id,
                                         Extraction(job[p].fp, job[p].text, extractions))
  <1> DEFINE key == ExtractionKey(job[p].model, job[p].fp)
  <1>1. Numbered(extractions) /\ Cardinality(DOMAIN extractions) \in Nat
    BY FS_CardinalityType DEF StoreInv, Stored, Numbered
  <1>2. CASE job[p].force
    BY <1>1, <1>2, ForcedIsNew DEF WriteExtraction
  <1>3. CASE ~job[p].force
    <2>1. Base(key) \notin DOMAIN extractions
      BY <1>3 DEF WriteExtraction, At, StoreInv, Asked
    <2>2. Base(key).run = 0
      BY DEF Base
    <2> QED
      BY <1>1, <1>3, <2>1, <2>2 DEF WriteExtraction
  <1> QED
    BY <1>2, <1>3

LEMMA ExtractionAdds ==
    ASSUME StoreInv, NEW p \in Procs, WriteExtraction(p)
    PROVE  \E id : /\ id \notin DOMAIN extractions
                   /\ DOMAIN extractions' = DOMAIN extractions \cup {id}
                   /\ extractions'[id] = Extraction(job[p].fp, job[p].text, extractions)
                   /\ Unchanging(extractions, extractions')
                   /\ Numbered(extractions')
                   /\ Cardinality(DOMAIN extractions') = Cardinality(DOMAIN extractions) + 1
                   /\ Cardinality(DOMAIN extractions) \in Nat
  <1> DEFINE content == Extraction(job[p].fp, job[p].text, extractions)
  <1>1. PICK id : /\ id \notin DOMAIN extractions
                  /\ id.run \in Nat /\ id.run <= Cardinality(DOMAIN extractions) + 1
                  /\ extractions' = Put(extractions, id, content)
    BY ExtractionIsNew
  <1>2. Numbered(extractions)
    BY DEF StoreInv, Stored
  <1> HIDE DEF content
  <1>3. /\ DOMAIN Put(extractions, id, content) = DOMAIN extractions \cup {id}
        /\ Put(extractions, id, content)[id] = content
        /\ Unchanging(extractions, Put(extractions, id, content))
        /\ Numbered(Put(extractions, id, content))
        /\ Cardinality(DOMAIN Put(extractions, id, content)) = Cardinality(DOMAIN extractions) + 1
        /\ Cardinality(DOMAIN extractions) \in Nat
    BY <1>1, <1>2, PutNew
  <1> QED
    BY <1>1, <1>3 DEF content

LEMMA CandidateIsNew ==
    ASSUME StoreInv, NEW p \in Procs, WriteCandidate(p)
    PROVE  \E id : /\ id \notin DOMAIN candidates
                   /\ id.run \in Nat /\ id.run <= Cardinality(DOMAIN candidates) + 1
                   /\ candidates' = Put(candidates, id, Synthesized(job[p].from, job[p].slug))
  <1>1. Numbered(candidates) /\ Cardinality(DOMAIN candidates) \in Nat
    BY FS_CardinalityType DEF StoreInv, Stored, Numbered
  <1>2. CASE job[p].force
    BY <1>1, <1>2, ForcedIsNew DEF WriteCandidate
  <1>3. CASE ~job[p].force
    <2>1. Base(WantedCandidate(p)) \notin DOMAIN candidates
      BY <1>3 DEF WriteCandidate, At, StoreInv, Asked
    <2>2. Base(WantedCandidate(p)).run = 0
      BY DEF Base
    <2> QED
      BY <1>1, <1>3, <2>1, <2>2 DEF WriteCandidate
  <1> QED
    BY <1>2, <1>3

LEMMA CandidateAdds ==
    ASSUME StoreInv, NEW p \in Procs, WriteCandidate(p)
    PROVE  \E id : /\ id \notin DOMAIN candidates
                   /\ DOMAIN candidates' = DOMAIN candidates \cup {id}
                   /\ candidates'[id] = Synthesized(job[p].from, job[p].slug)
                   /\ Unchanging(candidates, candidates')
                   /\ Numbered(candidates')
  <1> DEFINE content == Synthesized(job[p].from, job[p].slug)
  <1>1. PICK id : /\ id \notin DOMAIN candidates
                  /\ id.run \in Nat /\ id.run <= Cardinality(DOMAIN candidates) + 1
                  /\ candidates' = Put(candidates, id, content)
    BY CandidateIsNew
  <1>2. Numbered(candidates)
    BY DEF StoreInv, Stored
  <1> HIDE DEF content
  <1>3. /\ DOMAIN Put(candidates, id, content) = DOMAIN candidates \cup {id}
        /\ Put(candidates, id, content)[id] = content
        /\ Unchanging(candidates, Put(candidates, id, content))
        /\ Numbered(Put(candidates, id, content))
        /\ Cardinality(DOMAIN Put(candidates, id, content)) = Cardinality(DOMAIN candidates) + 1
        /\ Cardinality(DOMAIN candidates) \in Nat
    BY <1>1, <1>2, PutNew
  <1> QED
    BY <1>1, <1>3 DEF content

\* No other step writes to a store.
LEMMA StoresStay ==
    ASSUME NEW p \in Procs, Step(p)
    PROVE  /\ WriteExtraction(p) \/ UNCHANGED extractions
           /\ WriteCandidate(p) \/ UNCHANGED candidates
  <1>1. CASE Call(p)
    BY <1>1 DEF Call, CallClassify, CallSynthesize, CallCommit, CallFix, CallIngest, CallPrune,
                CallApply
  <1>2. CASE ArtifactStep(p)
    BY <1>2
       DEF ArtifactStep, Resolve, ReadSource, Ask, EnterExtraction, ReuseExtraction, NewExtraction,
           WriteExtraction, ListExtractions, CheckFresh, EnterCandidate, ReuseCandidate,
           NewCandidate, WriteCandidate
  <1>3. CASE WriterStep(p)
    BY <1>3
       DEF WriterStep, ListPages, LoadPages, WriteIndex, OpenPage, AppendLog, ChooseSlug,
           FillAnswer, CopyRaw, ChoosePage, FillSource, SaveEntry, UndoPage, RefillPage, UndoRaw,
           DeletePages, DeleteRaw, DropEntry, EnterApply, CheckStale, LookAtExisting, ReadPrevious,
           PutPage, RestorePage
  <1>4. CASE Fault(p) \/ Kill(p)
    BY <1>4 DEF Fault, Kill
  <1> QED
    BY <1>1, <1>2, <1>3, <1>4 DEF Step

\* Artifacts are only added.
LEMMA ArtifactsKept ==
    ASSUME StoreInv, NEW p \in Procs, Step(p)
    PROVE  Unchanging(extractions, extractions') /\ Unchanging(candidates, candidates')
  <1>2. Unchanging(extractions, extractions')
    <2>1. CASE WriteExtraction(p)
      BY <2>1, ExtractionAdds
    <2>2. CASE UNCHANGED extractions
      BY <2>2 DEF Unchanging
    <2> QED
      BY <2>1, <2>2, StoresStay
  <1>3. Unchanging(candidates, candidates')
    <2>1. CASE WriteCandidate(p)
      BY <2>1, CandidateAdds
    <2>2. CASE UNCHANGED candidates
      BY <2>2 DEF Unchanging
    <2> QED
      BY <2>1, <2>2, StoresStay
  <1> QED
    BY <1>2, <1>3

\* What the stores hold stays so.
LEMMA StoredStep ==
    ASSUME ControlInv, StoreInv, NEW p \in Procs, Step(p)
    PROVE  Stored'
  <1>1. Stored
    BY DEF StoreInv
  <1>2. Unchanging(extractions, extractions') /\ Unchanging(candidates, candidates')
    BY ArtifactsKept
  <1>3. CASE WriteExtraction(p)
    <2>1. UNCHANGED candidates
      BY <1>3 DEF WriteExtraction
    <2>2. PICK id : /\ DOMAIN extractions' = DOMAIN extractions \cup {id}
                    /\ extractions'[id] = Extraction(job[p].fp, job[p].text, extractions)
                    /\ Numbered(extractions') /\ Cardinality(DOMAIN extractions) \in Nat
                    /\ Cardinality(DOMAIN extractions') = Cardinality(DOMAIN extractions) + 1
      BY <1>3, ExtractionAdds
    <2>4. extractions'[id].created = Cardinality(DOMAIN extractions)
      BY <2>2 DEF Extraction
    <2>5. ASSUME NEW i \in DOMAIN extractions'
          PROVE  /\ extractions'[i].created \in Nat
                 /\ extractions'[i].created <= Cardinality(DOMAIN extractions')
      <3>1. CASE i = id
        BY <2>2, <2>4, <3>1
      <3>2. CASE i \in DOMAIN extractions
        BY <1>1, <1>2, <2>2, <3>2 DEF Stored, Unchanging
      <3> QED
        BY <2>2, <2>5, <3>1, <3>2
    <2> QED
      BY <1>1, <1>2, <2>1, <2>2, <2>5 DEF Stored, Unchanging
  <1>4. CASE WriteCandidate(p)
    <2>1. UNCHANGED extractions
      BY <1>4 DEF WriteCandidate
    <2>2. job[p].from \in DOMAIN extractions
      BY <1>4 DEF WriteCandidate, At, StoreInv, Asked
    <2>4. PICK id : /\ DOMAIN candidates' = DOMAIN candidates \cup {id}
                    /\ candidates'[id] = Synthesized(job[p].from, job[p].slug)
                    /\ Numbered(candidates')
      BY <1>4, CandidateAdds
    <2>5. /\ candidates'[id].from = job[p].from
          /\ candidates'[id].fp = extractions[job[p].from].fp
          /\ candidates'[id].text = extractions[job[p].from].text
      BY <2>4 DEF Synthesized
    <2> QED
      BY <1>1, <1>2, <2>1, <2>2, <2>4, <2>5 DEF Stored, Unchanging
  <1>5. CASE UNCHANGED <<extractions, candidates>>
    BY <1>1, <1>5 DEF Stored
  <1> QED
    BY <1>3, <1>4, <1>5, StoresStay

\* How each command starts.
LEMMA CallRow ==
    ASSUME ShapeInv, NEW p \in Procs, Call(p)
    PROVE  /\ job'[p].prev = None
           /\ \/ job'[p].op = "classify" /\ job'[p].pc = "resolve"
              \/ job'[p].op = "synthesize" /\ job'[p].pc = "find"
              \/ CallCommit(p) /\ job'[p].op = "writeback" /\ job'[p].pc = "slug"
              \/ CallFix(p) /\ job'[p].op = "lint" /\ job'[p].pc = "list"
              \/ /\ job'[p].op = "ingest" /\ job'[p].pc = "copy" /\ job'[p].fp \in Versions
                 /\ \E v \in Versions : CallIngest(p, v)
              \/ /\ job'[p].op = "prune" /\ job'[p].pc = "unlink" /\ job'[p].slug = manifest.slug
                 /\ CallPrune(p)
              \/ /\ job'[p].op = "apply" /\ job'[p].pc = "enter" /\ job'[p].catch = "none"
                 /\ job'[p].from \in DOMAIN candidates
                 /\ \E c \in DOMAIN candidates : CallApply(p, c)
  <1>1. Rows
    BY DEF ShapeInv
  <1>2. CASE CallCommit(p)
    BY <1>1, <1>2 DEF CallCommit, Starts, Idle, Rows
  <1>3. CASE CallFix(p)
    BY <1>1, <1>3 DEF CallFix, Starts, Idle, Rows
  <1>4. CASE CallPrune(p)
    BY <1>1, <1>4 DEF CallPrune, Starts, Idle, Rows
  <1>5. ASSUME NEW v \in Versions, CallIngest(p, v)
        PROVE  /\ job'[p].op = "ingest" /\ job'[p].pc = "copy" /\ job'[p].fp \in Versions
               /\ job'[p].prev = None
    BY <1>1, <1>5 DEF CallIngest, Starts, Idle, Rows
  <1>6. ASSUME NEW mode, NEW m, NEW force, CallClassify(p, mode, m, force)
        PROVE  job'[p].op = "classify" /\ job'[p].pc = "resolve" /\ job'[p].prev = None
    BY <1>1, <1>6 DEF CallClassify, Idle, Rows
  <1>7. ASSUME NEW mode, NEW from, NEW s, NEW m, NEW force,
               CallSynthesize(p, mode, from, s, m, force)
        PROVE  job'[p].op = "synthesize" /\ job'[p].pc = "find" /\ job'[p].prev = None
    BY <1>1, <1>7 DEF CallSynthesize, Idle, Rows
  <1>8. ASSUME NEW c \in DOMAIN candidates, CallApply(p, c)
        PROVE  /\ job'[p].op = "apply" /\ job'[p].pc = "enter" /\ job'[p].catch = "none"
               /\ job'[p].from \in DOMAIN candidates /\ job'[p].prev = None
    BY <1>1, <1>8 DEF CallApply, Idle, Rows
  <1> QED
    BY <1>2, <1>3, <1>4, <1>5, <1>6, <1>7, <1>8 DEF Call

\* A command that writes pages stays what it is, until it ends.
LEMMA WriterKeeps ==
    ASSUME ShapeInv, ControlInv, NEW p \in Procs, WriterStep(p) \/ Fault(p) \/ Kill(p)
    PROVE  \/ job'[p] = Idle
           \/ /\ job[p].op \in RunOps \cup {"apply"} /\ job'[p].op = job[p].op
              /\ job'[p].from = job[p].from /\ job'[p].fp = job[p].fp
  <1>1. Rows /\ Stands(job[p])
    BY DEF ShapeInv, ControlInv
  <1>2. ASSUME LeavesAll(p) PROVE job'[p] = Idle
    BY <1>1, <1>2 DEF LeavesAll, Ends, Rows
  <1> DEFINE Same == /\ job'[p].op = job[p].op
                     /\ job'[p].from = job[p].from /\ job'[p].fp = job[p].fp
  <1>3. ASSUME Raises(p) PROVE job'[p] = Idle \/ Same
    BY <1>1, <1>2, <1>3 DEF Raises, Goes, Rows, Idle
  <1>4. CASE WriterStep(p)
    <2>1. job[p].op \in RunOps \cup {"apply"}
      BY <1>1, <1>4
         DEF WriterStep, ListPages, LoadPages, WriteIndex, OpenPage, AppendLog, ChooseSlug,
             FillAnswer, CopyRaw, ChoosePage, FillSource, SaveEntry, UndoPage, RefillPage, UndoRaw,
             DeletePages, DeleteRaw, DropEntry, EnterApply, CheckStale, LookAtExisting,
             ReadPrevious, PutPage, RestorePage, At, Stands, Turn, Rebuild, RunOps
    <2>2. CASE ListPages(p) \/ LoadPages(p) \/ WriteIndex(p) \/ OpenPage(p) \/ AppendLog(p)
      BY <1>1, <1>2, <1>3, <2>1, <2>2
         DEF ListPages, LoadPages, WriteIndex, OpenPage, AppendLog, Goes, Rows, Idle
    <2>3. CASE ChooseSlug(p) \/ FillAnswer(p)
      BY <1>1, <1>2, <1>3, <2>1, <2>3 DEF ChooseSlug, FillAnswer, Rebuilds, Rows, Idle
    <2>4. CASE CopyRaw(p) \/ ChoosePage(p) \/ FillSource(p) \/ SaveEntry(p)
      BY <1>1, <2>1, <2>4
         DEF CopyRaw, ChoosePage, FillSource, SaveEntry, Rebuilds, Rows, Idle
    <2>5. CASE UndoPage(p) \/ RefillPage(p) \/ UndoRaw(p)
      BY <1>1, <1>2, <2>1, <2>5 DEF UndoPage, RefillPage, UndoRaw, Goes, Rebuilds, Rows, Idle
    <2>6. CASE DeletePages(p) \/ DeleteRaw(p) \/ DropEntry(p)
      BY <1>1, <1>2, <2>1, <2>6 DEF DeletePages, DeleteRaw, DropEntry, Goes, Rebuilds, Rows, Idle
    <2>7. CASE EnterApply(p) \/ CheckStale(p) \/ LookAtExisting(p)
      BY <1>1, <1>2, <1>3, <2>1, <2>7
         DEF EnterApply, CheckStale, LookAtExisting, Goes, Takes, Rows, Idle
    <2>8. CASE ReadPrevious(p) \/ PutPage(p) \/ RestorePage(p)
      BY <1>1, <2>1, <2>8 DEF ReadPrevious, PutPage, RestorePage, Rebuilds, Rows, Idle
    <2> QED
      BY <1>4, <2>2, <2>3, <2>4, <2>5, <2>6, <2>7, <2>8 DEF WriterStep
  <1>5. CASE Fault(p)
    <2>1. job[p].op \in RunOps \cup {"apply"}
      BY <1>1, <1>5, Caught DEF Fault, MayRaise
    <2> QED
      BY <1>3, <1>5, <2>1 DEF Fault
  <1>6. CASE Kill(p)
    BY <1>2, <1>6 DEF Kill
  <1> QED
    BY <1>4, <1>5, <1>6

\* A step keeps what its own process has in hand,
LEMMA AskedOwn ==
    ASSUME ShapeInv, ControlInv, StoreInv, NEW p \in Procs, Step(p)
    PROVE  Asked(p)'
  <1>1. Rows /\ Stands(job[p]) /\ Asked(p)
    BY DEF ShapeInv, ControlInv, StoreInv
  <1>2. Unchanging(extractions, extractions') /\ Unchanging(candidates, candidates')
    BY ArtifactsKept
  <1>3. CASE Call(p)
    <2>1. /\ job'[p].op = "classify" => job'[p].pc = "resolve"
          /\ job'[p].op = "synthesize" => job'[p].pc = "find"
          /\ job'[p].op = "apply" => job'[p].from \in DOMAIN candidates
      BY <1>3, CallRow
    <2> QED
      BY <1>2, <2>1 DEF Asked, Unchanging
  <1>4. CASE ArtifactStep(p)
    <2>1. CASE job[p].op = "classify"
      <3>1. \/ job'[p].op = "none"
            \/ job'[p].op = "classify" /\ job'[p].pc # "write"
            \/ NewExtraction(p)
        BY <1>1, <1>4, <2>1
           DEF ArtifactStep, Resolve, ReadSource, Ask, EnterExtraction, ReuseExtraction,
               WriteExtraction, ListExtractions, CheckFresh, EnterCandidate, ReuseCandidate,
               NewCandidate, WriteCandidate, At, Goes, Ends, Takes, Idle, Rows
      <3>2. CASE NewExtraction(p)
        BY <1>1, <3>2 DEF NewExtraction, At, Goes, Asked, Rows, Idle
      <3> QED
        BY <3>1, <3>2 DEF Asked
    <2>2. CASE job[p].op = "synthesize"
      <3>1. CASE ListExtractions(p)
        BY <1>1, <3>1 DEF ListExtractions, At, Ends, Asked, Rows, Idle
      <3>2. CASE CheckFresh(p)
        <4>1. Newest(job[p].todo) \in job[p].todo /\ job[p].todo \subseteq DOMAIN extractions
          BY <1>1, <3>2, NewestIsOne DEF CheckFresh, At, Asked
        <4> QED
          BY <1>1, <3>2, <4>1 DEF CheckFresh, At, Ends, Asked, Rows, Idle
      <3>3. CASE EnterCandidate(p)
        BY <1>1, <3>3 DEF EnterCandidate, At, Takes, Goes, Asked, Rows, Idle
      <3>4. CASE NewCandidate(p)
        BY <1>1, <3>4 DEF NewCandidate, At, Goes, Asked, Rows, Idle, WantedCandidate
      <3>5. CASE ReuseCandidate(p) \/ WriteCandidate(p)
        BY <1>1, <3>5 DEF ReuseCandidate, WriteCandidate, Ends, Asked, Rows, Idle
      <3> QED
        BY <1>4, <2>2, <3>1, <3>2, <3>3, <3>4, <3>5
           DEF ArtifactStep, Resolve, ReadSource, Ask, EnterExtraction, ReuseExtraction,
               NewExtraction, WriteExtraction, At
    <2> QED
      BY <1>4, <2>1, <2>2
         DEF ArtifactStep, Resolve, ReadSource, Ask, EnterExtraction, ReuseExtraction,
             NewExtraction, WriteExtraction, ListExtractions, CheckFresh, EnterCandidate,
             ReuseCandidate, NewCandidate, WriteCandidate, At
  <1>5. CASE WriterStep(p) \/ Fault(p) \/ Kill(p)
    <2>1. \/ job'[p].op = "none"
          \/ /\ job[p].op \in RunOps \cup {"apply"} /\ job'[p].op = job[p].op
             /\ job'[p].from = job[p].from
      BY <1>5, WriterKeeps DEF Idle
    <2> QED
      BY <1>1, <1>2, <2>1 DEF Asked, RunOps, Unchanging
  <1> QED
    BY <1>3, <1>4, <1>5 DEF Step

\* and leaves to the others what they have.
LEMMA AskedOthers ==
    ASSUME ShapeInv, ControlInv, StoreInv, NEW p \in Procs, Step(p), NEW q \in Procs \ {p}
    PROVE  Asked(q)'
  <1>1. Asked(q) /\ Locks(p) /\ Locks(q) /\ job'[q] = job[q]
    BY OthersStay DEF ControlInv, StoreInv
  <1>2. Unchanging(extractions, extractions') /\ Unchanging(candidates, candidates')
    BY ArtifactsKept
  <1>3. job[q].op = "classify" /\ job[q].pc = "write" => UNCHANGED extractions
    BY <1>1, StoresStay DEF WriteExtraction, At, Locks
  <1>4. job[q].op = "synthesize" /\ job[q].pc = "write" => UNCHANGED candidates
    BY <1>1, StoresStay DEF WriteCandidate, At, Locks
  <1>5. job[q].op = "synthesize" /\ job[q].pc = "write" => WantedCandidate(q)' = WantedCandidate(q)
    BY <1>1, <1>2 DEF Asked, WantedCandidate, Unchanging
  <1> QED
    BY <1>1, <1>2, <1>3, <1>4, <1>5 DEF Asked, Unchanging

LEMMA StoreStep ==
    ASSUME ShapeInv, ControlInv, StoreInv, NEW p \in Procs, Step(p)
    PROVE  StoreInv'
  <1>1. Stored'
    BY StoredStep
  <1>2. \A q \in Procs : Asked(q)'
    BY AskedOwn, AskedOthers
  <1> QED
    BY <1>1, <1>2 DEF StoreInv

\* Initially there is at most one extraction, and one candidate made from it.
LEMMA NothingNumbered ==
    /\ Numbered(<<>>) /\ DOMAIN <<>> = {} /\ Cardinality({}) = 0
  BY FS_EmptySet DEF Numbered

LEMMA OneNumbered ==
    ASSUME NEW key, NEW content
    PROVE  /\ Numbered(Put(<<>>, Base(key), content))
           /\ DOMAIN Put(<<>>, Base(key), content) = {Base(key)}
           /\ Put(<<>>, Base(key), content)[Base(key)] = content
           /\ Cardinality({Base(key)}) = 1
  <1> DEFINE new == Put(<<>>, Base(key), content)
  <1>1. DOMAIN new = {Base(key)} /\ new[Base(key)] = content
    BY NothingNumbered DEF Put
  <1>2. IsFiniteSet({Base(key)}) /\ Cardinality({Base(key)}) = 1
    BY FS_Singleton
  <1>3. Base(key).run = 0
    BY DEF Base
  <1> HIDE DEF new
  <1>4. Numbered(new)
    BY <1>1, <1>2, <1>3 DEF Numbered
  <1> QED
    BY <1>1, <1>2, <1>4 DEF new

LEMMA StoreInit ==
    ASSUME Init
    PROVE  /\ StoreInv
           /\ \A c \in DOMAIN candidates : candidates[c].slug \in Slugs
           /\ \A c, d \in DOMAIN candidates : c = d
  <1>1. \A p \in Procs : Asked(p)
    BY DEF Init, ArtifactsInit, Asked, Idle
  <1>2. /\ Numbered(extractions)
        /\ \A i \in DOMAIN extractions : /\ extractions[i].created = 0
                                         /\ Cardinality(DOMAIN extractions) \in Nat
    <2>1. PICK model \in Models, spaced \in BOOLEAN :
              extractions \in
                  {<<>>, Put(<<>>, Base(ExtractionKey(model, raw)),
                             Extraction(raw, [of |-> raw, spaced |-> spaced], <<>>))}
      BY DEF Init, ArtifactsInit
    <2>2. CASE extractions = <<>>
      BY <2>2, NothingNumbered
    <2>3. CASE extractions # <<>>
      <3> DEFINE text == Extraction(raw, [of |-> raw, spaced |-> spaced], <<>>)
                 key  == ExtractionKey(model, raw)
      <3>1. text.created = 0
        BY NothingNumbered DEF Extraction
      <3>2. extractions = Put(<<>>, Base(key), text)
        BY <2>1, <2>3
      <3> HIDE DEF text, key
      <3>3. /\ Numbered(extractions) /\ DOMAIN extractions = {Base(key)}
            /\ extractions[Base(key)] = text /\ Cardinality({Base(key)}) = 1
        BY <3>2, OneNumbered
      <3> QED
        BY <3>1, <3>3
    <2> QED
      BY <2>2, <2>3
  <1>3. /\ Numbered(candidates)
        /\ \A c \in DOMAIN candidates :
              /\ candidates[c].from \in DOMAIN extractions
              /\ candidates[c].fp = extractions[candidates[c].from].fp
              /\ candidates[c].text = extractions[candidates[c].from].text
              /\ candidates[c].slug \in Slugs
        /\ \A c, d \in DOMAIN candidates : c = d
    <2>1. CASE candidates = <<>>
      BY <2>1, NothingNumbered
    <2>2. ASSUME NEW from \in DOMAIN extractions, NEW slug \in Slugs,
                 candidates = Put(<<>>, Base(CandidateKey(from, raw, from.key.model, slug)),
                                  Synthesized(from, slug))
          PROVE  <1>3!1 /\ <1>3!2 /\ <1>3!3
      <3> DEFINE key     == CandidateKey(from, raw, from.key.model, slug)
                 content == Synthesized(from, slug)
      <3>1. /\ content.from = from /\ content.fp = extractions[from].fp
            /\ content.text = extractions[from].text /\ content.slug = slug
        BY DEF Synthesized
      <3>2. candidates = Put(<<>>, Base(key), content)
        BY <2>2
      <3> HIDE DEF key, content
      <3>3. /\ Numbered(candidates) /\ DOMAIN candidates = {Base(key)}
            /\ candidates[Base(key)] = content
        BY <3>2, OneNumbered
      <3>4. \A c \in DOMAIN candidates : c = Base(key) /\ candidates[c] = content
        BY <3>3
      <3> HIDE DEF key
      <3> QED
        BY <3>1, <3>3, <3>4
    <2> QED
      BY <2>1, <2>2 DEF Init, ArtifactsInit
  <1> QED
    BY <1>1, <1>2, <1>3 DEF StoreInv, Stored

\* The part of the invariant that the stores need.
BaseInv == ShapeInv /\ ControlInv /\ StoreInv

LEMMA BaseInit == Init => BaseInv
  BY ShapeInit, ControlInit, StoreInit DEF BaseInv

LEMMA BaseStep == BaseInv /\ [Next]_vars => BaseInv'
  <1> SUFFICES ASSUME BaseInv, [Next]_vars PROVE BaseInv'
    OBVIOUS
  <1>1. ASSUME NEW p \in Procs, Step(p) PROVE BaseInv'
    BY <1>1, ShapeStep, ControlStep, StoreStep DEF BaseInv
  <1>2. CASE UNCHANGED vars
    BY <1>2 DEF vars, BaseInv, ShapeInv, Rows, ControlInv, Locks, StoreInv, Stored, Asked,
                WantedCandidate
  <1> QED
    BY <1>1, <1>2 DEF Next, Step

\* An artifact that was stored never changes, however many processes ask for it.
THEOREM ArtifactsAreKept == Spec => ArtifactsNeverChange
  <1>1. BaseInv /\ [Next]_vars => [Unchanging(extractions, extractions')
                                      /\ Unchanging(candidates, candidates')]_vars
    BY ArtifactsKept DEF BaseInv, Next, Step
  <1> QED
    BY <1>1, BaseInit, BaseStep, PTL DEF Spec, ArtifactsNeverChange

-----------------------------------------------------------------------------
(* What pages hold *)

\* The first free slug is free.
LEMMA FreeSlugIsFree ==
    ASSUME Free # {}
    PROVE  FreeSlug \in Slugs /\ FreeSlug \in Free /\ pages[FreeSlug] = None
  <1>1. Free \in SUBSET Nat
    BY WritersAssumption, FS_CardinalityType DEF Free
  <1>2. \E s \in Free : \A t \in Free : s <= t
    BY <1>1, LeastOf
  <1>3. FreeSlug \in Free
    BY <1>2 DEF FreeSlug
  <1> QED
    BY <1>3 DEF Free, Written

\* A page that is in order stays so while artifacts are added.
LEMMA PageStaysOK ==
    ASSUME Unchanging(extractions, extractions'), Unchanging(candidates, candidates'),
           NEW page, PageOK(page)
    PROVE  PageOK(page)'
  <1>1. CASE Synthetic(page)
    <2>1. Synthetic(page)'
      BY <1>1 DEF Synthetic, Unchanging
    <2> QED
      BY <2>1 DEF PageOK
  <1>2. CASE ~Synthetic(page)
    BY <1>2 DEF PageOK, SourcePage, AnswerPage
  <1> QED
    BY <1>1, <1>2

\* A candidate's page leads back to it.
LEMMA CandidatePageOK ==
    ASSUME StoreInv, NEW c \in DOMAIN candidates
    PROVE  PageOK(CandidatePage(c)) /\ CandidatePage(c).origin = "llm_wiki"
  BY DEF StoreInv, Stored, PageOK, Synthetic, CandidatePage, Scalar

\* What a step may write to a page.
LEMMA PageWrites ==
    ASSUME ShapeInv, NEW p \in Procs, Step(p), NEW s \in Slugs
    PROVE  \/ pages'[s] = pages[s]
           \/ /\ s = job[p].slug
              /\ \/ OpenPage(p) /\ pages'[s] = Torn
                 \/ FillAnswer(p) /\ pages'[s] = AnswerPage(p)
                 \/ FillSource(p) /\ pages'[s] = SourcePage(job[p].fp)
                 \/ UndoPage(p) /\ pages'[s] \in {None, Torn}
                 \/ RefillPage(p) /\ pages'[s] = job[p].prev
                 \/ DeletePages(p) /\ pages'[s] = None
                 \/ PutPage(p) /\ pages'[s] = CandidatePage(job[p].from)
                 \/ RestorePage(p) /\ pages'[s] = job[p].prev
  <1>1. DOMAIN pages = Slugs
    BY DEF ShapeInv
  <1>2. CASE Call(p)
    BY <1>2, CallFrame
  <1>3. CASE OpenPage(p) \/ FillAnswer(p) \/ FillSource(p) \/ UndoPage(p)
    BY <1>1, <1>3 DEF OpenPage, FillAnswer, FillSource, UndoPage
  <1>4. CASE RefillPage(p) \/ DeletePages(p) \/ PutPage(p) \/ RestorePage(p)
    BY <1>1, <1>4 DEF RefillPage, DeletePages, PutPage, RestorePage
  <1>5. CASE UNCHANGED pages
    BY <1>5
  <1> QED
    BY <1>2, <1>3, <1>4, <1>5
       DEF Step, wikiVars, WriterStep, ListPages, LoadPages, WriteIndex, AppendLog, ChooseSlug,
           CopyRaw, ChoosePage, SaveEntry, UndoRaw, DeleteRaw, DropEntry, EnterApply, CheckStale,
           LookAtExisting, ReadPrevious, Fault, Kill

\* Initially the pages are that of the source and of the candidate.
LEMMA SlugInit == Init => SlugInv
  <1> SUFFICES ASSUME Init PROVE SlugInv
    OBVIOUS
  <1>1. manifest = [fp |-> raw, slug |-> 1] /\ job = [p \in Procs |-> Idle]
    BY DEF Init, ArtifactsInit
  <1>2. manifest.slug \in Slugs
    BY <1>1, WritersAssumption
  <1>3. \A p \in Procs : Slugged(p)
    BY <1>1 DEF Slugged, Idle
  <1> QED
    BY <1>2, <1>3, StoreInit DEF SlugInv

LEMMA PageInit == Init => PageInv
  <1> SUFFICES ASSUME Init PROVE PageInv
    OBVIOUS
  <1>1. StoreInv
    BY StoreInit
  <1>2. raw \in Versions /\ job = [p \in Procs |-> Idle]
    BY DEF Init, ArtifactsInit
  <1>3. ASSUME NEW s \in Slugs PROVE PageOK(pages[s])
    BY <1>1, <1>2, CandidatePageOK DEF Init, PageOK
  <1>4. \A p \in Procs : Held(p)
    BY <1>2 DEF Held, PageOK, Idle
  <1> QED
    BY <1>3, <1>4 DEF PageInv

\* The entry is written by the last step of an ingest or of a removal.
LEMMA EntryStays ==
    ASSUME NEW p \in Procs, Step(p)
    PROVE  SaveEntry(p) \/ DropEntry(p) \/ UNCHANGED manifest
  <1>1. CASE Call(p)
    BY <1>1 DEF Call, CallClassify, CallSynthesize, CallCommit, CallFix, CallIngest, CallPrune,
                CallApply
  <1>2. CASE ArtifactStep(p)
    BY <1>2
       DEF ArtifactStep, Resolve, ReadSource, Ask, EnterExtraction, ReuseExtraction, NewExtraction,
           WriteExtraction, ListExtractions, CheckFresh, EnterCandidate, ReuseCandidate,
           NewCandidate, WriteCandidate
  <1>3. CASE WriterStep(p)
    BY <1>3
       DEF WriterStep, ListPages, LoadPages, WriteIndex, OpenPage, AppendLog, ChooseSlug,
           FillAnswer, CopyRaw, ChoosePage, FillSource, SaveEntry, UndoPage, RefillPage, UndoRaw,
           DeletePages, DeleteRaw, DropEntry, EnterApply, CheckStale, LookAtExisting, ReadPrevious,
           PutPage, RestorePage
  <1>4. CASE Fault(p) \/ Kill(p)
    BY <1>4 DEF Fault, Kill
  <1> QED
    BY <1>1, <1>2, <1>3, <1>4 DEF Step

\* The slug of an ingest is that of the entry, or the first free one.
LEMMA NextSlugIsOne ==
    ASSUME manifest # None => manifest.slug \in Slugs, manifest # None \/ Free # {}
    PROVE  NextSlug \in Slugs /\ (manifest = None => pages[NextSlug] = None)
  <1>1. CASE manifest # None
    BY <1>1 DEF NextSlug
  <1>2. CASE manifest = None
    <2>1. NextSlug = FreeSlug
      BY <1>2 DEF NextSlug, FreeSlug
    <2> QED
      BY <1>2, <2>1, FreeSlugIsFree
  <1> QED
    BY <1>1, <1>2

\* Where a command that writes pages gets its slug.
LEMMA WriterSlugs ==
    ASSUME ShapeInv, ControlInv, NEW p \in Procs, WriterStep(p) \/ Fault(p) \/ Kill(p),
           job'[p] # Idle
    PROVE  \/ /\ job'[p].slug = job[p].slug
              /\ job[p].pc \in {"slug", "copy", "unraw"} => job'[p].pc \in {"slug", "copy", "unraw"}
           \/ ChooseSlug(p) /\ Free # {} /\ job'[p].slug = FreeSlug
           \/ ChoosePage(p) /\ job'[p].slug = NextSlug
  <1>1. Rows /\ Stands(job[p])
    BY DEF ShapeInv, ControlInv
  <1>2. ~LeavesAll(p)
    BY <1>1 DEF LeavesAll, Ends, Rows
  <1> DEFINE Same == /\ job'[p].slug = job[p].slug
                     /\ job[p].pc \in {"slug", "copy", "unraw"}
                          => job'[p].pc \in {"slug", "copy", "unraw"}
  <1>3. ASSUME MayRaise(job[p]), Raises(p) PROVE Same
    <2>1. /\ job[p].catch # "none" /\ job' = [job EXCEPT ![p].pc = job[p].catch]
      BY <1>2, <1>3 DEF Raises, Goes
    <2>2. job'[p].slug = job[p].slug /\ job'[p].pc = job[p].catch
      BY <1>1, <2>1 DEF Rows, Idle
    <2>3. job[p].pc \notin {"slug", "copy", "unraw"}
      BY <1>1, <1>3, <2>1 DEF Stands, Turn, Rebuild, MayRaise
    <2> QED
      BY <2>2, <2>3
  <1> USE DEF Rows, Idle, At, Goes, Rebuilds
  <1>4. CASE WriterStep(p)
    <2>1. CASE ListPages(p) \/ LoadPages(p) \/ WriteIndex(p) \/ OpenPage(p) \/ AppendLog(p)
      BY <1>1, <1>2, <1>3, <2>1
         DEF ListPages, LoadPages, WriteIndex, OpenPage, AppendLog, MayRaise
    <2>2. CASE ChooseSlug(p)
      BY <1>1, <1>3, <2>2 DEF ChooseSlug, MayRaise
    <2>3. CASE FillAnswer(p)
      BY <1>1, <1>2, <1>3, <2>3 DEF FillAnswer
    <2>4. CASE CopyRaw(p) \/ ChoosePage(p) \/ FillSource(p) \/ SaveEntry(p)
      BY <1>1, <2>4 DEF CopyRaw, ChoosePage, FillSource, SaveEntry
    <2>5. CASE UndoPage(p) \/ RefillPage(p) \/ UndoRaw(p)
      BY <1>1, <1>2, <2>5 DEF UndoPage, RefillPage, UndoRaw
    <2>6. CASE DeletePages(p) \/ DeleteRaw(p) \/ DropEntry(p)
      BY <1>1, <1>2, <2>6 DEF DeletePages, DeleteRaw, DropEntry
    <2>7. CASE EnterApply(p) \/ CheckStale(p) \/ LookAtExisting(p)
      BY <1>1, <1>2, <1>3, <2>7 DEF EnterApply, CheckStale, LookAtExisting, Takes, MayRaise
    <2>8. CASE ReadPrevious(p) \/ PutPage(p) \/ RestorePage(p)
      BY <1>1, <2>8 DEF ReadPrevious, PutPage, RestorePage
    <2> QED
      BY <1>4, <2>1, <2>2, <2>3, <2>4, <2>5, <2>6, <2>7, <2>8 DEF WriterStep
  <1>5. CASE Fault(p)
    BY <1>3, <1>5 DEF Fault, MayRaise
  <1>6. CASE Kill(p)
    BY <1>2, <1>6 DEF Kill
  <1> QED
    BY <1>4, <1>5, <1>6

\* A command on artifacts stays what it is, until it ends.
LEMMA ArtifactRow ==
    ASSUME ShapeInv, NEW p \in Procs, ArtifactStep(p)
    PROVE  /\ job[p].op \in {"classify", "synthesize"}
           /\ job'[p].op = "none" \/ (job'[p].op = job[p].op /\ job'[p].slug = job[p].slug)
  <1>1. Rows
    BY DEF ShapeInv
  <1> QED
    BY <1>1
       DEF ArtifactStep, Resolve, ReadSource, Ask, EnterExtraction, ReuseExtraction, NewExtraction,
           WriteExtraction, ListExtractions, CheckFresh, EnterCandidate, ReuseCandidate,
           NewCandidate, WriteCandidate, At, Goes, Ends, Takes, Idle, Rows

\* Slugs are always those of the title.
LEMMA SlugOwn ==
    ASSUME ShapeInv, ControlInv, StoreInv, SlugInv, NEW p \in Procs, Step(p)
    PROVE  Slugged(p)'
  <1>1. Rows /\ Stands(job[p]) /\ Slugged(p)
    BY DEF ShapeInv, ControlInv, SlugInv
  <1>2. CASE Call(p)
    <2>1. ASSUME NEW mode, NEW from, NEW s \in Slugs, NEW m, NEW force,
                 CallSynthesize(p, mode, from, s, m, force)
          PROVE  job'[p].slug \in Slugs /\ job'[p].op = "synthesize"
      BY <1>1, <2>1 DEF CallSynthesize, Idle, Rows
    <2>2. ASSUME NEW c \in DOMAIN candidates, CallApply(p, c)
          PROVE  job'[p].slug \in Slugs /\ job'[p].op = "apply"
      BY <1>1, <2>2 DEF CallApply, Idle, Rows, SlugInv
    <2>3. ASSUME NEW mode, NEW m, NEW force, CallClassify(p, mode, m, force)
          PROVE  job'[p].op = "classify"
      BY <1>1, <2>3 DEF CallClassify, Idle, Rows
    <2>4. CASE CallPrune(p)
      <3>1. manifest.slug \in Slugs
        BY <2>4 DEF CallPrune, SlugInv
      <3>2. job'[p].op = "prune" /\ job'[p].slug = manifest.slug
        BY <1>1, <2>4 DEF CallPrune, Starts, Idle, Rows
      <3> QED
        BY <3>1, <3>2 DEF Slugged
    <2>5. CASE CallCommit(p)
      BY <1>1, <2>5 DEF CallCommit, Starts, Idle, Rows, Slugged
    <2>6. CASE CallFix(p)
      BY <1>1, <2>6 DEF CallFix, Starts, Idle, Rows, Slugged
    <2>7. ASSUME NEW v, CallIngest(p, v) PROVE Slugged(p)'
      BY <1>1, <2>7 DEF CallIngest, Starts, Idle, Rows, Slugged
    <2> QED
      BY <1>2, <2>1, <2>2, <2>3, <2>4, <2>5, <2>6, <2>7 DEF Call, Slugged
  <1>3. CASE ArtifactStep(p)
    BY <1>1, <1>3, ArtifactRow DEF Slugged
  <1>4. CASE WriterStep(p) \/ Fault(p) \/ Kill(p)
    <2>1. CASE job'[p] = Idle
      BY <2>1 DEF Slugged, Idle
    <2>2. CASE job'[p] # Idle
      <3>1. job'[p].op = job[p].op
        BY <1>4, <2>2, WriterKeeps
      <3>2. CASE ChooseSlug(p) /\ Free # {} /\ job'[p].slug = FreeSlug
        BY <3>2, FreeSlugIsFree DEF Slugged
      <3>3. CASE ChoosePage(p) /\ job'[p].slug = NextSlug
        BY <3>3, NextSlugIsOne DEF Slugged, ChoosePage, SlugInv
      <3>4. CASE /\ job'[p].slug = job[p].slug
                 /\ job[p].pc \in {"slug", "copy", "unraw"} => job'[p].pc \in {"slug", "copy", "unraw"}
        BY <1>1, <3>1, <3>4 DEF Slugged
      <3> QED
        BY <1>4, <2>2, <3>2, <3>3, <3>4, WriterSlugs
    <2> QED
      BY <2>1, <2>2
  <1> QED
    BY <1>2, <1>3, <1>4 DEF Step

LEMMA SlugStep ==
    ASSUME ShapeInv, ControlInv, StoreInv, SlugInv, NEW p \in Procs, Step(p)
    PROVE  SlugInv'
  <1>1. \A q \in Procs : Slugged(q)'
    BY SlugOwn, OthersStay DEF Slugged, SlugInv
  <1>2. \A c \in DOMAIN candidates' : candidates'[c].slug \in Slugs
    <2>1. CASE WriteCandidate(p)
      <3>1. job[p].slug \in Slugs
        BY <2>1 DEF WriteCandidate, At, SlugInv, Slugged
      <3>2. PICK id : /\ DOMAIN candidates' = DOMAIN candidates \cup {id}
                      /\ candidates'[id] = Synthesized(job[p].from, job[p].slug)
                      /\ Unchanging(candidates, candidates')
        BY <2>1, CandidateAdds
      <3>3. candidates'[id].slug = job[p].slug
        BY <3>2 DEF Synthesized
      <3> QED
        BY <3>1, <3>2, <3>3 DEF SlugInv, Unchanging
    <2> QED
      BY <2>1, StoresStay DEF SlugInv
  <1>3. manifest' # None => manifest'.slug \in Slugs
    <2>1. CASE SaveEntry(p)
      BY <2>1 DEF SaveEntry, At, SlugInv, Slugged
    <2> QED
      BY <2>1, EntryStays DEF DropEntry, SlugInv
  <1> QED
    BY <1>1, <1>2, <1>3 DEF SlugInv

\* What a command may put back was a page, or was in hand already.
LEMMA PrevStays ==
    ASSUME ShapeInv, ControlInv, NEW p \in Procs, Step(p)
    PROVE  \/ job'[p].prev \in {None, job[p].prev}
           \/ CopyRaw(p) /\ job'[p].prev = IF manifest # None THEN pages[manifest.slug] ELSE None
           \/ ReadPrevious(p) /\ job'[p].prev = pages[job[p].slug]
  <1>1. Rows
    BY DEF ShapeInv
  <1> DEFINE Same == job'[p].prev \in {None, job[p].prev}
  <1>2. ASSUME LeavesAll(p) PROVE Same
    BY <1>1, <1>2 DEF LeavesAll, Ends, Rows, Idle
  <1>3. ASSUME Raises(p) PROVE Same
    BY <1>1, <1>2, <1>3 DEF Raises, Goes, Rows, Idle
  <1>4. CASE Call(p)
    BY <1>4, CallRow
  <1> USE DEF Rows, Idle, Goes, Ends, Rebuilds
  <1>5. CASE ArtifactStep(p)
    BY <1>1, <1>5
       DEF ArtifactStep, Resolve, ReadSource, Ask, EnterExtraction, ReuseExtraction, NewExtraction,
           WriteExtraction, ListExtractions, CheckFresh, EnterCandidate, ReuseCandidate,
           NewCandidate, WriteCandidate, Takes
  <1>6. CASE WriterStep(p)
    <2>1. CASE ListPages(p) \/ LoadPages(p) \/ WriteIndex(p) \/ OpenPage(p) \/ AppendLog(p)
      BY <1>1, <1>2, <1>3, <2>1 DEF ListPages, LoadPages, WriteIndex, OpenPage, AppendLog
    <2>2. CASE ChooseSlug(p) \/ FillAnswer(p)
      BY <1>1, <1>3, <2>2 DEF ChooseSlug, FillAnswer
    <2>4. CASE CopyRaw(p) \/ ChoosePage(p) \/ FillSource(p) \/ SaveEntry(p)
      BY <1>1, <2>4 DEF CopyRaw, ChoosePage, FillSource, SaveEntry
    <2>5. CASE UndoPage(p) \/ RefillPage(p) \/ UndoRaw(p)
      BY <1>1, <1>2, <2>5 DEF UndoPage, RefillPage, UndoRaw
    <2>6. CASE DeletePages(p) \/ DeleteRaw(p) \/ DropEntry(p)
      BY <1>1, <1>2, <2>6 DEF DeletePages, DeleteRaw, DropEntry
    <2>7. CASE EnterApply(p) \/ CheckStale(p) \/ LookAtExisting(p)
      BY <1>1, <1>2, <1>3, <2>7 DEF EnterApply, CheckStale, LookAtExisting, Takes
    <2>8. CASE ReadPrevious(p) \/ PutPage(p) \/ RestorePage(p)
      BY <1>1, <2>8 DEF ReadPrevious, PutPage, RestorePage
    <2> QED
      BY <1>6, <2>1, <2>2, <2>4, <2>5, <2>6, <2>7, <2>8 DEF WriterStep
  <1>7. CASE Fault(p) \/ Kill(p)
    BY <1>2, <1>3, <1>7 DEF Fault, Kill
  <1> QED
    BY <1>4, <1>5, <1>6, <1>7 DEF Step

\* Pages stay in order.
LEMMA PageStep ==
    ASSUME ShapeInv, ControlInv, StoreInv, SlugInv, PageInv, NEW p \in Procs, Step(p)
    PROVE  PageInv'
  <1>1. Held(p) /\ Asked(p) /\ Slugged(p)
    BY DEF PageInv, StoreInv, SlugInv
  <1>2. ASSUME NEW page, PageOK(page) PROVE PageOK(page)'
    BY <1>2, ArtifactsKept, PageStaysOK
  <1>3. ASSUME NEW s \in Slugs PROVE PageOK(pages[s])'
    <2>1. PageOK(pages'[s])
      <3>1. CASE pages'[s] \in {None, Torn, AnswerPage(p)}
        BY <3>1 DEF PageOK
      <3>2. CASE FillSource(p) /\ pages'[s] = SourcePage(job[p].fp)
        BY <1>1, <3>2 DEF PageOK, FillSource, At, Held
      <3>3. CASE PutPage(p) /\ pages'[s] = CandidatePage(job[p].from)
        BY <1>1, <3>3, CandidatePageOK DEF PutPage, At, Asked
      <3>4. CASE pages'[s] \in {pages[s], job[p].prev}
        BY <1>1, <3>4 DEF PageInv, Held
      <3> QED
        BY <3>1, <3>2, <3>3, <3>4, PageWrites
    <2>2. PICK page : page = pages'[s]
      OBVIOUS
    <2>3. PageOK(page)'
      BY <1>2, <2>1, <2>2
    <2> QED
      BY <2>2, <2>3
  <1>4. ASSUME NEW q \in Procs PROVE Held(q)'
    <2>1. PageOK(job'[q].prev)
      <3>1. CASE q = p
        <4>1. CASE job'[p].prev \in {None, job[p].prev}
          BY <1>1, <3>1, <4>1 DEF Held, PageOK
        <4>2. CASE CopyRaw(p) /\ job'[p].prev = IF manifest # None THEN pages[manifest.slug] ELSE None
          BY <3>1, <4>2 DEF PageInv, SlugInv, PageOK
        <4>3. CASE ReadPrevious(p) /\ job'[p].prev = pages[job[p].slug]
          BY <1>1, <3>1, <4>3 DEF PageInv, Slugged, ReadPrevious, At
        <4> QED
          BY <4>1, <4>2, <4>3, PrevStays
      <3>2. CASE q # p
        BY <3>2, OthersStay DEF PageInv, Held
      <3> QED
        BY <3>1, <3>2
    <2>2. PICK page : page = job'[q].prev
      OBVIOUS
    <2>3. PageOK(page)'
      BY <1>2, <2>1, <2>2
    <2>4. PageOK(job[q].prev)'
      BY <2>2, <2>3
    <2>5. job'[q].op = "ingest" => job'[q].fp \in Versions
      <3>1. CASE q = p
        BY <1>1, <3>1, CallRow, WriterKeeps, ArtifactRow DEF Step, Held, Idle
      <3>2. CASE q # p
        BY <3>2, OthersStay DEF PageInv, Held
      <3> QED
        BY <3>1, <3>2
    <2> QED
      BY <2>4, <2>5 DEF Held
  <1> QED
    BY <1>3, <1>4 DEF PageInv

-----------------------------------------------------------------------------
(* One writer at a time *)

\* What went wrong is not forgotten.
LEMMA UpsetsGrow ==
    ASSUME NEW p \in Procs, Step(p)
    PROVE  upsets \subseteq upsets'
  <1>1. CASE Call(p)
    BY <1>1 DEF Call, CallCommit, CallFix, CallIngest, CallPrune, CallApply, Starts
  <1>2. CASE UNCHANGED wikiVars
    BY <1>2 DEF wikiVars
  <1>3. ASSUME Raises(p) PROVE upsets \subseteq upsets'
    BY <1>3 DEF Raises
  <1>4. CASE WriterStep(p)
    BY <1>3, <1>4
       DEF WriterStep, ListPages, LoadPages, WriteIndex, OpenPage, AppendLog, ChooseSlug,
           FillAnswer, CopyRaw, ChoosePage, FillSource, SaveEntry, UndoPage, RefillPage, UndoRaw,
           DeletePages, DeleteRaw, DropEntry, EnterApply, CheckStale, LookAtExisting, ReadPrevious,
           PutPage, RestorePage, wikiVars
  <1>5. CASE Fault(p) \/ Kill(p)
    BY <1>3, <1>5 DEF Fault, Kill
  <1> QED
    BY <1>1, <1>2, <1>4, <1>5 DEF Step

\* Of two commands at work on pages, one takes its lock while the other is.
LEMMA Alone ==
    ASSUME ControlInv, ApartInv, "overlap" \notin upsets,
           NEW p \in Procs, NEW q \in Procs, Writing(p), Writing(q)
    PROVE  p = q
  BY SomeoneIsSomeone DEF ApartInv, Writing

\* Who writes is at work on pages.
LEMMA WorkIsWriting ==
    ASSUME ControlInv, NEW p \in Procs, WriterStep(p)
    PROVE  EnterApply(p) \/ Writing(p)
  <1>1. Stands(job[p]) /\ Locks(p)
    BY DEF ControlInv
  <1>2. EnterApply(p) \/ job[p].op \in RunOps \/ (job[p].op = "apply" /\ job[p].pc # "enter")
    <2> USE DEF At, RunOps
    <2>1. CASE ListPages(p) \/ LoadPages(p) \/ WriteIndex(p) \/ OpenPage(p) \/ AppendLog(p)
      BY <1>1, <2>1
         DEF ListPages, LoadPages, WriteIndex, OpenPage, AppendLog, Stands, Turn, Rebuild
    <2>2. CASE ChooseSlug(p) \/ FillAnswer(p) \/ CopyRaw(p) \/ ChoosePage(p) \/ FillSource(p)
               \/ SaveEntry(p) \/ UndoPage(p) \/ RefillPage(p) \/ UndoRaw(p) \/ DeletePages(p)
               \/ DeleteRaw(p) \/ DropEntry(p)
      BY <2>2
         DEF ChooseSlug, FillAnswer, CopyRaw, ChoosePage, FillSource, SaveEntry, UndoPage,
             RefillPage, UndoRaw, DeletePages, DeleteRaw, DropEntry
    <2>3. CASE CheckStale(p) \/ LookAtExisting(p) \/ ReadPrevious(p) \/ PutPage(p) \/ RestorePage(p)
      BY <2>3 DEF CheckStale, LookAtExisting, ReadPrevious, PutPage, RestorePage
    <2> QED
      BY <2>1, <2>2, <2>3 DEF WriterStep
  <1> QED
    BY <1>1, <1>2 DEF Locks, Writing, Applying

\* Nobody else changes what the one that is at work sees.
LEMMA Undisturbed ==
    ASSUME ShapeInv, ControlInv, ApartInv, NEW p \in Procs, Step(p), "overlap" \notin upsets',
           NEW q \in Procs \ {p}, Writing(q)
    PROVE  UNCHANGED <<pages, index, log, raw, manifest>>
  <1>1. "overlap" \notin upsets
    BY UpsetsGrow
  <1>2. CASE Call(p)
    BY <1>2, CallFrame
  <1>3. CASE ArtifactStep(p) /\ UNCHANGED wikiVars
    BY <1>3, ArtifactFrame DEF wikiVars
  <1>4. CASE WriterStep(p)
    BY <1>1, <1>4, Alone, WorkIsWriting DEF EnterApply
  <1>5. CASE Fault(p) \/ Kill(p)
    BY <1>5 DEF Fault, Kill
  <1> QED
    BY <1>2, <1>3, <1>4, <1>5 DEF Step

LEMMA ApartInit == Init => ApartInv
  BY DEF Init, ArtifactsInit, ApartInv

LEMMA ApartStep ==
    ASSUME ShapeInv, ControlInv, ApartInv, NEW p \in Procs, Step(p)
    PROVE  ApartInv'
  <1> SUFFICES ASSUME "overlap" \notin upsets', lock'.run # None,
                      NEW q \in Procs, job'[q].op = "apply", lock'.candidate = q
               PROVE  FALSE
    BY DEF ApartInv, Applying
  <1>1. "overlap" \notin upsets
    BY UpsetsGrow
  <1>2. /\ LocksOf(p) /\ Rows /\ Locks(p) /\ Locks(p)' /\ Locks(q) /\ Locks(q)' /\ q # None
        /\ DOMAIN lock = Files
    BY StepFrame, ControlStep, SomeoneIsSomeone DEF ShapeInv, ControlInv, Files
  <1>3. CASE Call(p)
    <2>1. job[p] = Idle /\ UNCHANGED lock.candidate
      BY <1>2, <1>3, CallFrame DEF Files
    <2>2. q # p
      BY <1>2, <2>1 DEF Locks, Idle
    <2>3. Applying(q) /\ lock.candidate = q
      BY <2>1, <2>2, OthersStay, <1>3 DEF Applying, Step
    <2>4. lock.run = None
      BY <1>1, <2>3 DEF ApartInv
    <2>5. CallCommit(p) \/ CallFix(p) \/ CallPrune(p) \/ \E v \in Versions : CallIngest(p, v)
      BY <1>3, <2>4 DEF Call, CallClassify, CallSynthesize, CallApply
    <2>6. \E x \in Procs : Writing(x)
      BY <2>3 DEF Writing
    <2>7. "overlap" \in upsets'
      BY <2>5, <2>6 DEF CallCommit, CallFix, CallPrune, CallIngest, Starts
    <2> QED
      BY <2>7
  <1>4. CASE EnterApply(p)
    <2>1. lock'.run = lock.run
      BY <1>2, <1>4 DEF EnterApply, Takes, Files
    <2> QED
      BY <1>4, <2>1 DEF EnterApply
  <1>5. CASE ~Call(p) /\ ~EnterApply(p)
    <2>1. \/ WriterStep(p) \/ Fault(p) \/ Kill(p)
          \/ job'[p].op \in {"none", "classify", "synthesize"}
      BY <1>5, ArtifactRow DEF Step
    <2>2. job'[p].op \in RunOps \cup {"apply"} =>
              job'[p].op = job[p].op /\ (WriterStep(p) \/ Fault(p) \/ Kill(p))
      BY <2>1, WriterKeeps DEF RunOps, Idle
    <2>3. lock.run # None
      <3>1. lock'["run"] = lock["run"] \/ {lock["run"], lock'["run"]} = {None, p}
        BY <1>2 DEF LocksOf, Files
      <3>2. lock.run = None => lock'.run = p /\ lock.run # p
        BY <3>1, SomeoneIsSomeone
      <3>3. lock.run = None => job'[p].op \in RunOps /\ job[p].op \notin RunOps
        BY <1>2, <3>2 DEF Locks
      <3> QED
        BY <2>2, <3>3
    <2>4. lock.candidate = q /\ Applying(q)
      <3>1. CASE q # p
        BY <3>1, OthersStay DEF Files, Applying
      <3>2. CASE q = p
        <4>1. Applying(p) /\ (WriterStep(p) \/ Fault(p) \/ Kill(p))
          BY <2>2, <3>2 DEF Applying
        <4>2. CASE WriterStep(p)
          BY <1>2, <1>5, <3>2, <4>1, <4>2, WorkIsWriting DEF Writing, Locks, Applying, RunOps
        <4>3. CASE Fault(p)
          BY <1>2, <3>2, <4>1, <4>3 DEF Fault, Locks, Applying
        <4>4. CASE Kill(p)
          BY <1>2, <3>2, <4>4 DEF Kill, LeavesAll, Ends, Idle, Rows
        <4> QED
          BY <4>1, <4>2, <4>3, <4>4
      <3> QED
        BY <3>1, <3>2
    <2> QED
      BY <1>1, <2>3, <2>4 DEF ApartInv
  <1> QED
    BY <1>3, <1>4, <1>5

-----------------------------------------------------------------------------
(* Pages of the version in the manifest *)

\* How an apply goes on.
ApplyMoves(p) ==
    /\ UNCHANGED <<manifest, candidates>>
    /\ job'[p].from = job[p].from /\ job'[p].slug = job[p].slug
    /\ \/ EnterApply(p) /\ job'[p].pc = "stale" /\ job'[p].catch = "none"
       \/ /\ CheckStale(p) /\ job'[p].pc = "existing" /\ job'[p].catch = "none"
          /\ manifest # None /\ manifest.fp = candidates[job[p].from].fp
       \/ /\ LookAtExisting(p) /\ job'[p].pc \in {"previous", "log"} /\ job'[p].catch = "none"
          /\ job[p].pc = "existing"
          /\ \/ pages[job[p].slug] = None
             \/ IsPage(pages[job[p].slug]) /\ ~Conflict(pages[job[p].slug], job[p].from)
       \/ /\ ReadPrevious(p) /\ job[p].pc = "previous" /\ job'[p].pc = "put"
          /\ job'[p].prev = pages[job[p].slug]
       \/ /\ job[p].pc \notin {"enter", "stale", "existing", "previous"}
          /\ job'[p].pc \notin {"enter", "stale", "existing", "previous"}
          /\ job'[p].prev = job[p].prev
          /\ job'[p].catch = "restore" => job[p].catch = "restore"

LEMMA ApplyGoesOn ==
    ASSUME ShapeInv, ControlInv, NEW p \in Procs, WriterStep(p) \/ Fault(p) \/ Kill(p),
           job'[p].op = "apply"
    PROVE  ApplyMoves(p)
  <1>1. Rows /\ Stands(job[p]) /\ job[p].op = "apply" /\ job'[p] # Idle /\ ~LeavesAll(p)
    <2>1. job'[p] # Idle
      BY DEF Idle
    <2>2. job[p].op = "apply"
      BY <2>1, WriterKeeps
    <2> QED
      BY <2>1, <2>2 DEF ShapeInv, ControlInv, LeavesAll, Ends, Rows
  <1> DEFINE Later == /\ UNCHANGED <<manifest, candidates>>
                      /\ job'[p].from = job[p].from /\ job'[p].slug = job[p].slug
                      /\ job[p].pc \notin {"enter", "stale", "existing", "previous"}
                      /\ job'[p].pc \notin {"enter", "stale", "existing", "previous"}
                      /\ job'[p].prev = job[p].prev
                      /\ job'[p].catch = "restore" => job[p].catch = "restore"
  <1>2. Later => ApplyMoves(p)
    BY DEF ApplyMoves
  <1>3. ASSUME Raises(p), MayRaise(job[p]), UNCHANGED <<manifest, candidates>> PROVE Later
    <2>1. job[p].catch # "none" /\ job' = [job EXCEPT ![p].pc = job[p].catch]
      BY <1>1, <1>3 DEF Raises, Goes
    <2>2. job[p].catch = "restore"
      BY <1>1, <1>3, <2>1, Caught DEF RunOps
    <2>3. job[p].pc \notin {"enter", "stale", "existing", "previous"}
      BY <1>1, <2>2 DEF Stands, Turn, Rebuild
    <2> QED
      BY <1>1, <1>3, <2>1, <2>2, <2>3 DEF Rows, Idle
  <1> USE DEF At, Goes, Rebuilds, Rows, Idle
  <1>4. CASE ListPages(p) \/ WriteIndex(p) \/ AppendLog(p)
    BY <1>1, <1>2, <1>4
       DEF ListPages, WriteIndex, AppendLog, Stands, Turn, Rebuild
  <1>5. CASE LoadPages(p)
    BY <1>1, <1>2, <1>3, <1>5 DEF LoadPages, MayRaise
  <1>6. CASE EnterApply(p)
    BY <1>1, <1>6 DEF EnterApply, Takes, Stands, Turn, Rebuild, ApplyMoves
  <1>7. CASE CheckStale(p)
    BY <1>1, <1>7 DEF CheckStale, Stands, Turn, Rebuild, ApplyMoves
  <1>8. CASE LookAtExisting(p)
    <2>1. job[p].catch = "none"
      BY <1>1, <1>8 DEF LookAtExisting, Stands, Turn, Rebuild
    <2>2. ~Raises(p)
      BY <1>1, <2>1 DEF Raises
    <2> QED
      BY <1>1, <1>8, <2>1, <2>2 DEF LookAtExisting, ApplyMoves
  <1>9. CASE ReadPrevious(p)
    BY <1>1, <1>9 DEF ReadPrevious, ApplyMoves
  <1>10. CASE PutPage(p) \/ RestorePage(p)
    BY <1>1, <1>2, <1>10 DEF PutPage, RestorePage, Stands, Turn, Rebuild
  <1>11. CASE Fault(p)
    BY <1>2, <1>3, <1>11 DEF Fault, MayRaise
  <1>12. ~Kill(p)
    BY <1>1 DEF Kill
  <1>13. ~OpenPage(p)
    BY <1>1 DEF OpenPage, Stands, Turn, Rebuild
  <1> QED
    BY <1>1, <1>4, <1>5, <1>6, <1>7, <1>8, <1>9, <1>10, <1>11, <1>12, <1>13
       DEF WriterStep, ChooseSlug, FillAnswer, CopyRaw, ChoosePage, FillSource, SaveEntry, UndoPage,
           RefillPage, UndoRaw, DeletePages, DeleteRaw, DropEntry

\* How an ingest goes on within its transaction.
IngestMoves(p) ==
    /\ UNCHANGED <<manifest, log>> /\ job'[p].fp = job[p].fp
    /\ \/ /\ CopyRaw(p) /\ job'[p].pc = "slug"
          /\ job'[p].prev = IF manifest # None THEN pages[manifest.slug] ELSE None
       \/ /\ InTransaction(job[p]) /\ job'[p].prev = job[p].prev
          /\ \/ ChoosePage(p) /\ job'[p].pc = "open" /\ job'[p].slug = NextSlug
             \/ /\ job'[p].slug = job[p].slug
                /\ \/ OpenPage(p) /\ job'[p].pc = "fill"
                   \/ FillSource(p) /\ job'[p].pc = "list"
                   \/ /\ UNCHANGED pages /\ job[p].pc \in Rebuild
                      /\ job'[p].pc \in {"load", "index", "commit"}
                   \/ Fault(p) /\ job'[p].pc = "unpage"
                   \/ UndoPage(p) /\ job'[p].pc = "refill"

LEMMA IngestGoesOn ==
    ASSUME ShapeInv, ControlInv, NEW p \in Procs, WriterStep(p) \/ Fault(p) \/ Kill(p),
           InTransaction(job'[p])
    PROVE  IngestMoves(p)
  <1>1. Rows /\ Stands(job[p]) /\ job[p].op = "ingest" /\ job'[p].op = "ingest" /\ ~LeavesAll(p)
    <2>1. job'[p].op = "ingest" /\ job'[p] # Idle
      BY DEF InTransaction, Idle
    <2>2. job[p].op = "ingest"
      BY <2>1, WriterKeeps
    <2> QED
      BY <2>1, <2>2 DEF ShapeInv, ControlInv, LeavesAll, Ends, Rows
  <1>2. ASSUME Raises(p), MayRaise(job[p])
        PROVE  /\ job[p].pc = "commit" /\ job'[p].pc = "unpage"
               /\ job'[p].fp = job[p].fp /\ job'[p].prev = job[p].prev /\ job'[p].slug = job[p].slug
    <2>1. job[p].catch # "none" /\ job' = [job EXCEPT ![p].pc = job[p].catch]
      BY <1>1, <1>2 DEF Raises, Goes
    <2>2. /\ job'[p].pc = job[p].catch /\ job'[p].next = job[p].next
          /\ job'[p].fp = job[p].fp /\ job'[p].prev = job[p].prev /\ job'[p].slug = job[p].slug
      BY <1>1, <2>1 DEF Rows, Idle
    <2>3. job[p].catch \in {"unraw", "unpage"}
      BY <1>1, <1>2, <2>1, Caught DEF RunOps
    <2>4. job[p].catch # "unraw"
      BY <2>2 DEF InTransaction, Rebuild
    <2>5. job[p].pc = "commit"
      BY <1>1, <1>2, <2>3, <2>4, Caught
    <2> QED
      BY <2>2, <2>3, <2>4, <2>5
  <1> USE DEF At, Goes, Rebuilds, Rows, Idle
  <1>3. CASE ListPages(p)
    BY <1>1, <1>3 DEF ListPages, wikiVars, InTransaction, Rebuild, IngestMoves
  <1>4. CASE LoadPages(p)
    BY <1>1, <1>2, <1>4 DEF LoadPages, MayRaise, InTransaction, Rebuild, IngestMoves
  <1>5. CASE WriteIndex(p)
    BY <1>1, <1>5 DEF WriteIndex, InTransaction, Rebuild, Stands, Turn, IngestMoves
  <1>6. CASE OpenPage(p)
    BY <1>1, <1>6 DEF OpenPage, InTransaction, IngestMoves
  <1>7. CASE CopyRaw(p)
    BY <1>1, <1>7 DEF CopyRaw, wikiVars, IngestMoves
  <1>8. CASE ChoosePage(p)
    BY <1>1, <1>8 DEF ChoosePage, wikiVars, InTransaction, IngestMoves
  <1>9. CASE FillSource(p)
    BY <1>1, <1>9 DEF FillSource, InTransaction, IngestMoves
  <1>10. ~SaveEntry(p)
    BY <1>1 DEF SaveEntry, InTransaction, Rebuild
  <1>11. CASE UndoPage(p)
    BY <1>1, <1>11 DEF UndoPage, InTransaction, Rebuild, IngestMoves
  <1>12. ~RefillPage(p) /\ ~UndoRaw(p) /\ ~AppendLog(p) /\ ~Kill(p)
    BY <1>1 DEF RefillPage, UndoRaw, AppendLog, Kill, InTransaction, Rebuild
  <1>13. CASE Fault(p)
    <2>1. job[p].pc = "commit" /\ job'[p].pc = "unpage"
          /\ job'[p].fp = job[p].fp /\ job'[p].prev = job[p].prev /\ job'[p].slug = job[p].slug
      BY <1>2, <1>13 DEF Fault, MayRaise
    <2>2. InTransaction(job[p])
      BY <1>1, <2>1 DEF InTransaction
    <2> QED
      BY <1>13, <2>1, <2>2 DEF Fault, IngestMoves
  <1> QED
    BY <1>1, <1>3, <1>4, <1>5, <1>6, <1>7, <1>8, <1>9, <1>10, <1>11, <1>12, <1>13
       DEF WriterStep, ChooseSlug, FillAnswer, DeletePages, DeleteRaw, DropEntry, EnterApply,
           CheckStale, LookAtExisting, ReadPrevious, PutPage, RestorePage

\* A synthesized page that is put in its place is of the version in the manifest.
LEMMA PutIsFresh ==
    ASSUME BaseInv, PageInv, NEW p \in Procs, AppliesFresh(p), IngestsFresh(p), Step(p),
           NEW s \in Slugs, pages'[s] # pages[s], Llm(pages'[s])
    PROVE  PageOK(pages'[s]) /\ manifest # None /\ pages'[s].fp = manifest.fp
  <1>1. Stands(job[p]) /\ Asked(p) /\ Held(p)
    BY DEF BaseInv, ControlInv, StoreInv, PageInv
  <1>2. CASE PutPage(p) /\ pages'[s] = CandidatePage(job[p].from)
    <2>1. At(p, "apply", "put")
      BY <1>2 DEF PutPage
    <2>2. manifest # None /\ manifest.fp = candidates[job[p].from].fp
      BY <2>1 DEF At, AppliesFresh, Applying
    <2>3. PageOK(CandidatePage(job[p].from))
      BY <1>1, <2>1, CandidatePageOK DEF At, Asked, BaseInv
    <2>4. CandidatePage(job[p].from).fp = candidates[job[p].from].fp
      BY DEF CandidatePage
    <2> QED
      BY <1>2, <2>2, <2>3, <2>4
  <1>3. CASE RestorePage(p) /\ pages'[s] = job[p].prev
    <2>1. At(p, "apply", "restore") /\ job[p].catch = "restore"
      BY <1>1, <1>3 DEF RestorePage, At, Stands, Turn, Rebuild
    <2>2. manifest # None /\ manifest.fp = candidates[job[p].from].fp /\ Related(p, job[p].prev)
      BY <2>1 DEF At, AppliesFresh, Applying
    <2>3. job[p].prev.fp = candidates[job[p].from].fp
      BY <1>3, <2>2 DEF Related, Llm, Lineage
    <2> QED
      BY <1>1, <1>3, <2>2, <2>3 DEF Held
  <1>4. CASE RefillPage(p) /\ pages'[s] = job[p].prev
    <2>1. InTransaction(job[p])
      BY <1>4 DEF RefillPage, At, InTransaction
    <2> QED
      BY <1>1, <1>4, <2>1 DEF IngestsFresh, Held
  <1>5. ASSUME pages'[s] \in {None, Torn, AnswerPage(p), SourcePage(job[p].fp)} PROVE FALSE
    BY <1>5 DEF Llm, IsPage, AnswerPage, SourcePage
  <1> QED
    BY <1>2, <1>3, <1>4, <1>5, PageWrites DEF BaseInv

\* The page of an entry stays of its version.
LEMMA EntryStaysFresh ==
    ASSUME BaseInv, SlugInv, PageInv, NEW p \in Procs, FreshEntry, AppliesFresh(p), IngestsFresh(p),
           Step(p)
    PROVE  FreshEntry'
  <1>1. CASE SaveEntry(p)
    <2>1. InTransaction(job[p]) /\ job[p].pc = "commit" /\ UNCHANGED pages
      BY <1>1 DEF SaveEntry, At, InTransaction, wikiVars
    <2>2. Sourced(job[p].slug) /\ manifest'.slug = job[p].slug
      BY <1>1, <2>1 DEF IngestsFresh, SaveEntry
    <2>3. PICK v \in Versions : pages[job[p].slug] = SourcePage(v)
      BY <2>2 DEF Sourced
    <2>4. pages'[manifest'.slug].origin = "ingest"
      BY <2>1, <2>2, <2>3 DEF SourcePage
    <2> QED
      BY <2>4 DEF FreshEntry, Llm
  <1>2. CASE DropEntry(p)
    BY <1>2 DEF DropEntry, FreshEntry
  <1>3. CASE UNCHANGED manifest
    <2> SUFFICES ASSUME manifest # None, Llm(pages'[manifest.slug])
                 PROVE  pages'[manifest.slug].fp = manifest.fp
      BY <1>3 DEF FreshEntry, Llm, IsPage
    <2>1. manifest.slug \in Slugs
      BY DEF SlugInv
    <2>2. CASE pages'[manifest.slug] = pages[manifest.slug]
      BY <2>2 DEF FreshEntry
    <2>3. CASE pages'[manifest.slug] # pages[manifest.slug]
      BY <2>1, <2>3, PutIsFresh
    <2> QED
      BY <2>2, <2>3
  <1> QED
    BY <1>1, <1>2, <1>3, EntryStays

\* An apply stays one for the version in the manifest.
LEMMA AppliesOwn ==
    ASSUME BaseInv, SlugInv, NEW p \in Procs, AppliesFresh(p), Step(p)
    PROVE  AppliesFresh(p)'
  <1> SUFFICES ASSUME job'[p].op = "apply" PROVE AppliesFresh(p)'
    BY DEF AppliesFresh, Applying
  <1>1. Rows /\ Stands(job[p])
    BY DEF BaseInv, ShapeInv, ControlInv
  <1>2. CASE Call(p)
    <2>1. job'[p].pc = "enter" /\ job'[p].catch = "none"
      BY <1>2, CallRow DEF BaseInv
    <2> QED
      BY <2>1 DEF AppliesFresh
  <1>3. CASE WriterStep(p) \/ Fault(p) \/ Kill(p)
    <2>1. ApplyMoves(p)
      BY <1>3, ApplyGoesOn DEF BaseInv
    <2>2. job[p].op = "apply"
      <3>1. job'[p] # Idle
        BY DEF Idle
      <3> QED
        BY <1>3, <3>1, WriterKeeps DEF BaseInv
    <2>3. /\ job'[p].from = job[p].from /\ job'[p].slug = job[p].slug
          /\ UNCHANGED <<manifest, candidates>>
      BY <2>1 DEF ApplyMoves
    <2>4. CASE EnterApply(p) /\ job'[p].pc = "stale" /\ job'[p].catch = "none"
      BY <2>4 DEF AppliesFresh
    <2>5. CASE /\ job'[p].pc = "existing" /\ job'[p].catch = "none"
               /\ manifest # None /\ manifest.fp = candidates[job[p].from].fp
      BY <2>3, <2>5 DEF AppliesFresh
    <2>6. CASE /\ LookAtExisting(p) /\ job'[p].pc \in {"previous", "log"} /\ job'[p].catch = "none"
               /\ job[p].pc = "existing"
               /\ \/ pages[job[p].slug] = None
                  \/ IsPage(pages[job[p].slug]) /\ ~Conflict(pages[job[p].slug], job[p].from)
      <3>1. manifest # None /\ manifest.fp = candidates[job[p].from].fp
        BY <2>2, <2>6 DEF AppliesFresh, Applying
      <3>2. Related(p, pages[job[p].slug])
        BY <2>6 DEF Related, IsPage, Conflict, Lineage
      <3>3. UNCHANGED pages
        BY <2>6 DEF LookAtExisting
      <3>4. Related(p, pages[job[p].slug])'
        BY <2>3, <3>2, <3>3 DEF Related, IsPage, Lineage
      <3> QED
        BY <2>3, <2>6, <3>1, <3>4 DEF AppliesFresh
    <2>7. CASE /\ ReadPrevious(p) /\ job[p].pc = "previous" /\ job'[p].pc = "put"
               /\ job'[p].prev = pages[job[p].slug]
      <3>1. /\ manifest # None /\ manifest.fp = candidates[job[p].from].fp
            /\ Related(p, pages[job[p].slug])
        BY <2>2, <2>7 DEF AppliesFresh, Applying
      <3>2. Related(p, job[p].prev)'
        BY <2>3, <2>7, <3>1 DEF Related, IsPage, Lineage
      <3> QED
        BY <2>3, <2>7, <3>1, <3>2 DEF AppliesFresh
    <2>8. CASE /\ job[p].pc \notin {"enter", "stale", "existing", "previous"}
               /\ job'[p].pc \notin {"enter", "stale", "existing", "previous"}
               /\ job'[p].prev = job[p].prev
               /\ job'[p].catch = "restore" => job[p].catch = "restore"
      <3>1. manifest # None /\ manifest.fp = candidates[job[p].from].fp
        BY <2>2, <2>8 DEF AppliesFresh, Applying
      <3>2. job'[p].catch = "restore" => Related(p, job[p].prev)
        BY <2>2, <2>8 DEF AppliesFresh, Applying
      <3>3. job'[p].catch = "restore" => Related(p, job[p].prev)'
        BY <2>3, <2>8, <3>2 DEF Related, IsPage, Lineage
      <3> QED
        BY <2>3, <2>8, <3>1, <3>3 DEF AppliesFresh
    <2> QED
      BY <2>1, <2>4, <2>5, <2>6, <2>7, <2>8 DEF ApplyMoves
  <1>4. CASE ArtifactStep(p)
    BY <1>4, ArtifactRow DEF BaseInv
  <1> QED
    BY <1>2, <1>3, <1>4 DEF Step

\* An ingest has in hand a page of the version in the manifest, and writes its own.
LEMMA IngestsOwn ==
    ASSUME BaseInv, SlugInv, PageInv, NEW p \in Procs, FreshEntry, IngestsFresh(p), Step(p)
    PROVE  IngestsFresh(p)'
  <1> SUFFICES ASSUME InTransaction(job'[p]) PROVE IngestsFresh(p)'
    BY DEF IngestsFresh
  <1>1. Rows /\ Held(p) /\ Slugged(p) /\ pages = [s \in Slugs |-> pages[s]]
    BY DEF BaseInv, ShapeInv, PageInv, SlugInv
  <1>2. ~Call(p)
    BY CallRow DEF BaseInv, InTransaction, Rebuild
  <1>3. ~ArtifactStep(p)
    BY ArtifactRow DEF BaseInv, InTransaction
  <1>4. IngestMoves(p)
    BY <1>2, <1>3, IngestGoesOn DEF Step, BaseInv
  <1>5. UNCHANGED manifest
    BY <1>4 DEF IngestMoves
  <1>6. Llm(job'[p].prev) => manifest # None /\ job'[p].prev.fp = manifest.fp
    <2>1. CASE CopyRaw(p) /\ job'[p].prev = IF manifest # None THEN pages[manifest.slug] ELSE None
      BY <2>1 DEF FreshEntry, Llm, IsPage
    <2>2. CASE InTransaction(job[p]) /\ job'[p].prev = job[p].prev
      BY <2>2 DEF IngestsFresh
    <2> QED
      BY <1>4, <2>1, <2>2 DEF IngestMoves
  <1>7. job'[p].pc \in {"list", "load", "index", "commit"} => Sourced(job[p].slug)'
    <2> SUFFICES ASSUME job'[p].pc \in {"list", "load", "index", "commit"} PROVE Sourced(job[p].slug)'
      OBVIOUS
    <2>1. CASE FillSource(p) /\ job'[p].slug = job[p].slug
      <3>1. job[p].slug \in Slugs /\ job[p].fp \in Versions
        BY <1>1, <2>1 DEF FillSource, At, Slugged, Held
      <3>2. pages'[job[p].slug] = SourcePage(job[p].fp)
        BY <1>1, <2>1, <3>1 DEF FillSource
      <3> QED
        BY <2>1, <3>1, <3>2 DEF Sourced
    <2>2. CASE /\ InTransaction(job[p]) /\ UNCHANGED pages /\ job[p].pc \in Rebuild
               /\ job'[p].slug = job[p].slug
      <3>1. Sourced(job[p].slug)
        BY <2>2 DEF IngestsFresh, Rebuild
      <3> QED
        BY <2>2, <3>1 DEF Sourced
    <2> QED
      BY <1>4, <2>1, <2>2 DEF IngestMoves
  <1> QED
    BY <1>5, <1>6, <1>7 DEF IngestsFresh, Llm, IsPage

\* While one is at work, the others leave what it relies on as it is.
LEMMA OthersStayFresh ==
    ASSUME BaseInv, ApartInv, NEW p \in Procs, Step(p), "overlap" \notin upsets',
           NEW q \in Procs \ {p}, AppliesFresh(q), IngestsFresh(q)
    PROVE  AppliesFresh(q)' /\ IngestsFresh(q)'
  <1>1. job'[q] = job[q] /\ Stands(job[q]) /\ Locks(q) /\ Asked(q)
    BY OthersStay DEF BaseInv, ControlInv, StoreInv
  <1>2. CASE Writing(q)
    <2>1. UNCHANGED <<pages, manifest>>
      BY <1>2, Undisturbed DEF BaseInv
    <2>2. job[q].op = "apply" => candidates'[job[q].from] = candidates[job[q].from]
      BY <1>1, ArtifactsKept DEF BaseInv, Unchanging, Asked
    <2>3. IngestsFresh(q)'
      BY <1>1, <2>1 DEF IngestsFresh, InTransaction, Llm, IsPage, Sourced
    <2>4. AppliesFresh(q)'
      <3> SUFFICES ASSUME job[q].op = "apply" PROVE AppliesFresh(q)'
        BY <1>1 DEF AppliesFresh, Applying
      <3>1. \A page : Related(q, page) => Related(q, page)'
        BY <1>1, <2>2 DEF Related, IsPage, Lineage
      <3> QED
        BY <1>1, <2>1, <2>2, <3>1 DEF AppliesFresh, Applying, Related
    <2> QED
      BY <2>3, <2>4
  <1>3. CASE ~Writing(q)
    <2>1. ~InTransaction(job[q])
      BY <1>1, <1>3 DEF Writing, Locks, InTransaction, RunOps
    <2>2. Applying(q) => job[q].pc = "enter" /\ job[q].catch = "none"
      BY <1>1, <1>3 DEF Writing, Locks, Applying, Stands, Turn, Rebuild
    <2> QED
      BY <1>1, <2>1, <2>2 DEF AppliesFresh, IngestsFresh, Applying
  <1> QED
    BY <1>2, <1>3

LEMMA StaleInit == Init => StaleInv
  <1> SUFFICES ASSUME Init PROVE StaleInv
    OBVIOUS
  <1>1. /\ manifest.slug = 1 /\ 1 \in Slugs /\ job = [p \in Procs |-> Idle]
        /\ pages[1] = SourcePage(raw)
    BY WritersAssumption DEF Init, ArtifactsInit
  <1>2. FreshEntry
    BY <1>1 DEF FreshEntry, Llm, SourcePage
  <1>3. \A p \in Procs : AppliesFresh(p) /\ IngestsFresh(p)
    BY <1>1 DEF AppliesFresh, IngestsFresh, Applying, InTransaction, Idle
  <1> QED
    BY <1>2, <1>3 DEF StaleInv

LEMMA StaleStep ==
    ASSUME BaseInv, SlugInv, PageInv, ApartInv, StaleInv, NEW p \in Procs, Step(p)
    PROVE  StaleInv'
  <1> SUFFICES ASSUME "overlap" \notin upsets'
               PROVE  FreshEntry' /\ \A q \in Procs : AppliesFresh(q)' /\ IngestsFresh(q)'
    BY DEF StaleInv
  <1>1. FreshEntry /\ \A q \in Procs : AppliesFresh(q) /\ IngestsFresh(q)
    BY UpsetsGrow DEF StaleInv
  <1>2. FreshEntry'
    BY <1>1, EntryStaysFresh
  <1>3. ASSUME NEW q \in Procs PROVE AppliesFresh(q)' /\ IngestsFresh(q)'
    BY <1>1, AppliesOwn, IngestsOwn, OthersStayFresh
  <1> QED
    BY <1>2, <1>3

-----------------------------------------------------------------------------
(* Theorems on the pages of any version *)

\* The part of the invariant that speaks of pages, whoever writes them.
TextInv == BaseInv /\ SlugInv /\ PageInv /\ ApartInv /\ StaleInv

LEMMA TextInit == Init => TextInv
  BY BaseInit, SlugInit, PageInit, ApartInit, StaleInit DEF TextInv

LEMMA TextStep ==
    ASSUME TextInv, NEW p \in Procs, Step(p)
    PROVE  TextInv'
  <1>1. BaseInv' /\ SlugInv' /\ PageInv' /\ ApartInv'
    BY ShapeStep, ControlStep, StoreStep, SlugStep, PageStep, ApartStep DEF TextInv, BaseInv
  <1> QED
    BY <1>1, StaleStep DEF TextInv

LEMMA TextStays ==
    ASSUME TextInv, UNCHANGED vars
    PROVE  TextInv'
  <1> USE DEF TextInv, vars
  <1>1. BaseInv'
    BY BaseStep
  <1>2. SlugInv' /\ ApartInv'
    BY DEF SlugInv, Slugged, ApartInv, Applying
  <1>3. PageInv'
    BY DEF PageInv, Held, PageOK, Synthetic
  <1>4. StaleInv'
    BY DEF StaleInv, FreshEntry, AppliesFresh, IngestsFresh, Applying, InTransaction, Related, Llm,
           IsPage, Lineage, Sourced
  <1> QED
    BY <1>1, <1>2, <1>3, <1>4

\* Unless a command is at work beside it, an apply writes pages for the version in
\* the manifest, and so does the undoing of an ingest.
THEOREM PagesAreFresh == Spec => NoStalePage
  <1> DEFINE Fresh(s) ==
                 pages'[s] # pages[s] /\ IsPage(pages'[s]) /\ pages'[s].origin = "llm_wiki"
                 /\ "overlap" \notin upsets'
                 => /\ manifest # None /\ pages'[s].fp = manifest.fp
                    /\ extractions[pages'[s].from].fp = manifest.fp
  <1>1. ASSUME TextInv, NEW p \in Procs, Step(p), NEW s \in Slugs
        PROVE  Fresh(s)
    <2> SUFFICES ASSUME pages'[s] # pages[s], Llm(pages'[s]), "overlap" \notin upsets'
                 PROVE  /\ manifest # None /\ pages'[s].fp = manifest.fp
                        /\ extractions[pages'[s].from].fp = manifest.fp
      BY DEF Llm
    <2>1. AppliesFresh(p) /\ IngestsFresh(p)
      BY <1>1, UpsetsGrow DEF TextInv, StaleInv
    <2>2. PageOK(pages'[s]) /\ manifest # None /\ pages'[s].fp = manifest.fp
      BY <1>1, <2>1, PutIsFresh DEF TextInv
    <2>3. Synthetic(pages'[s])
      BY <2>2 DEF PageOK, Llm, IsPage, SourcePage, AnswerPage
    <2> QED
      BY <2>2, <2>3 DEF Synthetic
  <1>2. TextInv /\ [Next]_vars => TextInv' /\ [\A s \in Slugs : Fresh(s)]_vars
    BY <1>1, TextStep, TextStays DEF Next, Step
  <1> QED
    BY <1>2, TextInit, PTL DEF Spec, NoStalePage

-----------------------------------------------------------------------------
(* What the log speaks of *)

\* The log only grows.
LEMMA LogGrows ==
    ASSUME NEW p \in Procs, Step(p)
    PROVE  AppendLog(p) \/ UNCHANGED log
  <1>1. CASE Call(p)
    BY <1>1 DEF Call, CallCommit, CallFix, CallIngest, CallPrune, CallApply
  <1>2. CASE UNCHANGED wikiVars
    BY <1>2 DEF wikiVars
  <1>3. CASE WriterStep(p)
    BY <1>3
       DEF WriterStep, ListPages, LoadPages, WriteIndex, OpenPage, ChooseSlug,
           FillAnswer, CopyRaw, ChoosePage, FillSource, SaveEntry, UndoPage, RefillPage, UndoRaw,
           DeletePages, DeleteRaw, DropEntry, EnterApply, CheckStale, LookAtExisting, ReadPrevious,
           PutPage, RestorePage, wikiVars
  <1>4. CASE Fault(p) \/ Kill(p)
    BY <1>4 DEF Fault, Kill
  <1> QED
    BY <1>1, <1>2, <1>3, <1>4 DEF Step

LEMMA LoggedStays ==
    ASSUME NEW p \in Procs, Step(p), NEW s, NEW page, Logged(s, page)
    PROVE  Logged(s, page)'
  BY LogGrows DEF AppendLog, Logged

\* An apply has its page in hand until it says so, is undone or killed.
LEMMA StaysInHand ==
    ASSUME BaseInv, NEW p \in Procs, Step(p), Applying(p), job[p].catch = "restore", Writing(p)
    PROVE  \/ Kill(p) \/ RestorePage(p) \/ AppendLog(p)
           \/ /\ Applying(p)' /\ Writing(p)' /\ job'[p].catch = "restore"
              /\ job'[p].slug = job[p].slug /\ job'[p].from = job[p].from
  <1>1. /\ Rows /\ Stands(job[p]) /\ job[p].op = "apply"
        /\ job[p].pc \in {"put", "log", "restore", "list", "load", "index"}
        /\ job[p].pc \in Rebuild => job[p].next = "log"
    BY DEF BaseInv, ShapeInv, ControlInv, Stands, Turn, Rebuild, Applying
  <1> DEFINE Stays == /\ job'[p].op = "apply" /\ job'[p].catch = "restore"
                      /\ job'[p].slug = job[p].slug /\ job'[p].from = job[p].from
  <1>2. Stays => Applying(p)' /\ Writing(p)'
    BY ControlStep DEF BaseInv, ControlInv, Stands, Turn, Rebuild, Locks, Applying, Writing
  <1>3. ASSUME Raises(p) PROVE Stays
    BY <1>1, <1>3 DEF Raises, Goes, Rows, Idle
  <1> USE DEF At, Goes, Rebuilds, Rows, Idle
  <1>4. CASE ListPages(p) \/ LoadPages(p)
    BY <1>1, <1>2, <1>3, <1>4 DEF ListPages, LoadPages
  <1>5. CASE WriteIndex(p) \/ PutPage(p)
    BY <1>1, <1>2, <1>5 DEF WriteIndex, PutPage, Rebuild
  <1>6. CASE Fault(p)
    BY <1>2, <1>3, <1>6 DEF Fault
  <1>7. ~Call(p)
    BY <1>1, CallFrame DEF BaseInv
  <1>8. ~ArtifactStep(p)
    BY <1>1
       DEF ArtifactStep, Resolve, ReadSource, Ask, EnterExtraction, ReuseExtraction, NewExtraction,
           WriteExtraction, ListExtractions, CheckFresh, EnterCandidate, ReuseCandidate,
           NewCandidate, WriteCandidate
  <1>9. CASE WriterStep(p)
    BY <1>1, <1>4, <1>5, <1>9, <1>2
       DEF WriterStep, OpenPage, ChooseSlug, FillAnswer, CopyRaw, ChoosePage, FillSource, SaveEntry,
           UndoPage, RefillPage, UndoRaw, DeletePages, DeleteRaw, DropEntry, EnterApply, CheckStale,
           LookAtExisting, ReadPrevious
  <1> QED
    BY <1>2, <1>6, <1>7, <1>8, <1>9 DEF Step

\* A page that is written is in hand then, or was in the log.
LEMMA PutIsSpoken ==
    ASSUME TextInv, NEW p \in Procs, PrevSpoken(p), Step(p), NEW s \in Slugs,
           pages'[s] # pages[s], Llm(pages'[s])
    PROVE  Logged(s, pages'[s]) \/ InHand(p, s)'
  <1>1. Stands(job[p]) /\ Rows /\ Locks(p)'
    BY ControlStep DEF TextInv, BaseInv, ControlInv, ShapeInv
  <1>2. CASE PutPage(p) /\ pages'[s] = CandidatePage(job[p].from) /\ s = job[p].slug
    <2>1. /\ job'[p].op = "apply" /\ job'[p].slug = s /\ job'[p].catch = "restore"
          /\ job'[p].from = job[p].from /\ job'[p].pc = "list"
      BY <1>1, <1>2 DEF PutPage, At, Rebuilds, Rows, Idle
    <2>2. pages'[s].cand = job[p].from
      BY <1>2 DEF CandidatePage
    <2> QED
      BY <1>1, <2>1, <2>2 DEF InHand, Applying, Writing, Locks
  <1>3. CASE RestorePage(p) /\ pages'[s] = job[p].prev /\ s = job[p].slug
    <2>1. At(p, "apply", "restore") /\ job[p].catch = "restore"
      BY <1>1, <1>3 DEF RestorePage, At, Stands, Turn, Rebuild
    <2> QED
      BY <1>3, <2>1 DEF At, PrevSpoken, Applying
  <1>4. CASE RefillPage(p) /\ pages'[s] = job[p].prev /\ s = job[p].slug
    <2>1. InTransaction(job[p]) /\ job[p].pc # "slug"
      BY <1>4 DEF RefillPage, At, InTransaction
    <2> QED
      BY <1>4, <2>1 DEF PrevSpoken
  <1>5. ASSUME pages'[s] \in {None, Torn, AnswerPage(p), SourcePage(job[p].fp)} PROVE FALSE
    BY <1>5 DEF Llm, IsPage, AnswerPage, SourcePage
  <1> QED
    BY <1>2, <1>3, <1>4, <1>5, PageWrites DEF TextInv, BaseInv

\* Pages stay spoken of.
LEMMA SpokenStep ==
    ASSUME TextInv, LogInv, NEW p \in Procs, Step(p), upsets' \cap {"overlap", "kill"} = {},
           NEW s \in Slugs
    PROVE  Spoken(s)'
  <1> SUFFICES ASSUME Llm(pages'[s])
               PROVE  Logged(s, pages[s])' \/ \E q \in Procs : InHand(q, s)'
    BY DEF Spoken, Llm, IsPage
  <1>1. upsets \cap {"overlap", "kill"} = {} /\ "overlap" \notin upsets /\ "overlap" \notin upsets'
    BY UpsetsGrow
  <1>2. Spoken(s) /\ PrevSpoken(p) /\ ShapeInv /\ ControlInv /\ ApartInv
    BY <1>1 DEF LogInv, TextInv, BaseInv
  <1>3. CASE pages'[s] # pages[s]
    BY <1>2, <1>3, PutIsSpoken, LoggedStays DEF Logged
  <1>4. CASE pages'[s] = pages[s] /\ Logged(s, pages[s])
    BY <1>4, LoggedStays DEF Logged
  <1>5. ASSUME pages'[s] = pages[s], NEW q \in Procs \ {p}, InHand(q, s) PROVE InHand(q, s)'
    BY <1>2, <1>5, OthersStay DEF InHand, Applying, Writing, Files
  <1>6. CASE pages'[s] = pages[s] /\ InHand(p, s)
    <2>1. Applying(p) /\ job[p].catch = "restore" /\ Writing(p)
      BY <1>6 DEF InHand
    <2>2. ~Kill(p)
      BY <1>1 DEF Kill
    <2>3. CASE RestorePage(p)
      <3>1. job[p].slug = s /\ pages = [t \in Slugs |-> pages[t]]
        BY <1>2, <1>6 DEF InHand, ShapeInv
      <3>2. pages'[s] = job[p].prev
        BY <2>3, <3>1 DEF RestorePage
      <3>3. Logged(s, pages'[s])
        BY <1>2, <2>1, <3>1, <3>2 DEF PrevSpoken
      <3> QED
        BY <1>6, <3>3, LoggedStays DEF Logged
    <2>4. CASE AppendLog(p)
      <3>1. job[p].op = "apply" /\ job[p].slug = s /\ job[p].from = pages[s].cand
        BY <1>6 DEF InHand, Applying
      <3>2. [event |-> "apply", slug |-> s, cand |-> pages[s].cand] \in log'
        BY <2>4, <3>1 DEF AppendLog
      <3> QED
        BY <1>6, <3>2 DEF Logged
    <2>5. CASE /\ Applying(p)' /\ Writing(p)' /\ job'[p].catch = "restore"
               /\ job'[p].slug = job[p].slug /\ job'[p].from = job[p].from
      BY <1>6, <2>5 DEF InHand
    <2> QED
      BY <2>1, <2>2, <2>3, <2>4, <2>5, StaysInHand DEF TextInv
  <1> QED
    BY <1>2, <1>3, <1>4, <1>5, <1>6 DEF Spoken

\* What may have to be put back stays spoken of.
LEMMA PrevSpokenOwn ==
    ASSUME TextInv, LogInv, NEW p \in Procs, Step(p), upsets' \cap {"overlap", "kill"} = {}
    PROVE  PrevSpoken(p)'
  <1>1. upsets \cap {"overlap", "kill"} = {} /\ "overlap" \notin upsets
    BY UpsetsGrow
  <1>2. /\ PrevSpoken(p) /\ ShapeInv /\ ControlInv /\ ApartInv /\ SlugInv /\ Stands(job[p])
        /\ \A s \in Slugs : Spoken(s)
    BY <1>1 DEF LogInv, TextInv, BaseInv, ControlInv
  <1>3. ASSUME job'[p].op = "apply", job'[p].catch = "restore", Llm(job'[p].prev)
        PROVE  Logged(job'[p].slug, job'[p].prev)
    <2>1. ~Call(p)
      BY <1>2, <1>3, CallRow
    <2>2. ~ArtifactStep(p)
      BY <1>2, <1>3, ArtifactRow
    <2>3. ApplyMoves(p) /\ job[p].op = "apply"
      <3>1. WriterStep(p) \/ Fault(p) \/ Kill(p)
        BY <2>1, <2>2 DEF Step
      <3>2. job'[p] # Idle
        BY <1>3 DEF Idle
      <3> QED
        BY <1>2, <1>3, <3>1, <3>2, ApplyGoesOn, WriterKeeps
    <2>4. CASE ReadPrevious(p) /\ job[p].pc = "previous" /\ job'[p].prev = pages[job[p].slug]
      <3>1. Applying(p) /\ Writing(p) /\ job[p].catch # "restore" /\ job[p].slug \in Slugs
        BY <1>2, <2>3, <2>4 DEF Applying, Writing, ControlInv, Locks, Stands, Turn, Rebuild, SlugInv, Slugged
      <3>2. ASSUME NEW q \in Procs, InHand(q, job[p].slug) PROVE FALSE
        BY <1>1, <1>2, <3>1, <3>2, Alone DEF InHand
      <3>3. Logged(job[p].slug, pages[job[p].slug])
        BY <1>2, <1>3, <2>4, <3>1, <3>2 DEF Spoken
      <3> QED
        BY <2>3, <2>4, <3>3 DEF ApplyMoves
    <2>5. CASE job'[p].prev = job[p].prev /\ job[p].catch = "restore"
      BY <1>2, <1>3, <2>3, <2>5 DEF PrevSpoken, Applying, ApplyMoves
    <2> QED
      BY <1>3, <2>3, <2>4, <2>5 DEF ApplyMoves
  <1>4. ASSUME InTransaction(job'[p]), Llm(job'[p].prev)
        PROVE  /\ manifest' # None /\ Logged(manifest'.slug, job'[p].prev)
               /\ job'[p].pc # "slug" => job'[p].slug = manifest'.slug
    <2>1. ~Call(p)
      BY <1>2, <1>4, CallRow DEF InTransaction, Rebuild
    <2>2. ~ArtifactStep(p)
      BY <1>2, <1>4, ArtifactRow DEF InTransaction
    <2>3. IngestMoves(p)
      BY <1>2, <1>4, <2>1, <2>2, IngestGoesOn DEF Step
    <2>4. UNCHANGED manifest
      BY <2>3 DEF IngestMoves
    <2>5. CASE /\ CopyRaw(p) /\ job'[p].pc = "slug"
               /\ job'[p].prev = IF manifest # None THEN pages[manifest.slug] ELSE None
      <3>1. manifest # None /\ job'[p].prev = pages[manifest.slug] /\ manifest.slug \in Slugs
        BY <1>2, <1>4, <2>5 DEF Llm, IsPage, SlugInv
      <3>2. Writing(p) /\ ~Applying(p)
        BY <1>2, <2>5 DEF CopyRaw, At, Writing, Applying, ControlInv, Locks, RunOps
      <3>3. ASSUME NEW q \in Procs, InHand(q, manifest.slug) PROVE FALSE
        BY <1>1, <1>2, <3>2, <3>3, Alone DEF InHand
      <3>4. Logged(manifest.slug, pages[manifest.slug])
        BY <1>2, <1>4, <3>1, <3>3 DEF Spoken
      <3> QED
        BY <2>4, <2>5, <3>1, <3>4
    <2>6. CASE /\ InTransaction(job[p]) /\ job'[p].prev = job[p].prev
               /\ \/ ChoosePage(p) /\ job'[p].slug = NextSlug
                  \/ /\ job'[p].slug = job[p].slug
                     /\ OpenPage(p) \/ FillSource(p) \/ job[p].pc \in Rebuild \/ Fault(p) \/ UndoPage(p)
      <3>1. /\ manifest # None /\ Logged(manifest.slug, job[p].prev)
            /\ job[p].pc # "slug" => job[p].slug = manifest.slug
        BY <1>2, <1>4, <2>6 DEF PrevSpoken
      <3>2. job'[p].slug = manifest.slug
        <4>1. CASE ChoosePage(p) /\ job'[p].slug = NextSlug
          BY <3>1, <4>1 DEF NextSlug
        <4>2. CASE job'[p].slug = job[p].slug /\ job[p].pc # "slug"
          BY <3>1, <4>2
        <4> QED
          BY <2>6, <4>1, <4>2 DEF OpenPage, FillSource, Rebuild, Fault, UndoPage, At
      <3> QED
        BY <2>4, <2>6, <3>1, <3>2
    <2> QED
      BY <2>3, <2>5, <2>6 DEF IngestMoves
  <1>5. job'[p].op = "apply" /\ job'[p].catch = "restore" /\ Llm(job'[p].prev) =>
            Logged(job[p].slug, job[p].prev)'
    BY <1>3, LoggedStays DEF Logged
  <1>6. InTransaction(job'[p]) /\ Llm(job'[p].prev) => Logged(manifest.slug, job[p].prev)'
    BY <1>4, LoggedStays DEF Logged
  <1> QED
    BY <1>4, <1>5, <1>6 DEF PrevSpoken, Applying, InTransaction, Llm, IsPage

LEMMA PrevSpokenOthers ==
    ASSUME TextInv, LogInv, NEW p \in Procs, Step(p), upsets' \cap {"overlap", "kill"} = {},
           NEW q \in Procs \ {p}
    PROVE  PrevSpoken(q)'
  <1>1. "overlap" \notin upsets' /\ upsets \cap {"overlap", "kill"} = {}
    BY UpsetsGrow
  <1>2. /\ PrevSpoken(q) /\ ShapeInv /\ ControlInv /\ ApartInv /\ Locks(q)
        /\ job'[q] = job[q]
    BY <1>1, OthersStay DEF LogInv, TextInv, BaseInv, ControlInv
  <1>3. Applying(q) /\ job[q].catch = "restore" /\ Llm(job[q].prev) =>
            Logged(job[q].slug, job[q].prev)'
    BY <1>2, LoggedStays DEF PrevSpoken, Logged
  <1>4. InTransaction(job[q]) => UNCHANGED manifest
    <2>1. InTransaction(job[q]) => Writing(q)
      BY <1>2 DEF InTransaction, Writing, Locks, RunOps
    <2> QED
      BY <1>1, <1>2, <2>1, Undisturbed
  <1>5. InTransaction(job[q]) /\ Llm(job[q].prev) => Logged(manifest.slug, job[q].prev)'
    BY <1>2, <1>4, LoggedStays DEF PrevSpoken, Logged
  <1> QED
    BY <1>2, <1>3, <1>4, <1>5 DEF PrevSpoken, Applying, InTransaction, Llm, IsPage, Logged

LEMMA LogInit == Init => LogInv
  <1> SUFFICES ASSUME Init PROVE LogInv
    OBVIOUS
  <1>1. /\ \A c \in DOMAIN candidates : candidates[c].slug \in Slugs
        /\ \A c, d \in DOMAIN candidates : c = d
    BY StoreInit
  <1>2. job = [p \in Procs |-> Idle]
    BY DEF Init, ArtifactsInit
  <1>3. ASSUME NEW s \in Slugs, Llm(pages[s]) PROVE Logged(s, pages[s])
    <2>1. PICK applied \in SUBSET DOMAIN candidates :
              /\ pages[s] = IF s = 1 THEN SourcePage(raw)
                            ELSE IF \E c \in applied : candidates[c].slug = s
                                 THEN CandidatePage(CHOOSE c \in applied : TRUE) ELSE None
              /\ log = {[event |-> "apply", slug |-> candidates[c].slug, cand |-> c] : c \in applied}
      BY DEF Init
    <2>2. PICK c \in applied : candidates[c].slug = s
      BY <1>3, <2>1 DEF Llm, IsPage, SourcePage
    <2>3. (CHOOSE d \in applied : TRUE) \in applied
      BY <2>2
    <2>4. (CHOOSE d \in applied : TRUE) = c
      BY <1>1, <2>1, <2>2, <2>3
    <2>5. pages[s] = CandidatePage(c)
      <3>1. s # 1
        BY <1>3, <2>1 DEF Llm, SourcePage
      <3>2. pages[s] = CandidatePage(CHOOSE d \in applied : TRUE)
        BY <2>1, <2>2, <3>1
      <3> QED
        BY <2>4, <3>2
    <2>6. pages[s].cand = c
      BY <2>5 DEF CandidatePage
    <2> QED
      BY <2>1, <2>2, <2>6 DEF Logged
  <1>4. \A p \in Procs : PrevSpoken(p)
    BY <1>2 DEF PrevSpoken, Applying, InTransaction, Idle
  <1> QED
    BY <1>3, <1>4 DEF LogInv, Spoken

LEMMA LogStep ==
    ASSUME TextInv, LogInv, NEW p \in Procs, Step(p)
    PROVE  LogInv'
  <1> SUFFICES ASSUME upsets' \cap {"overlap", "kill"} = {}
               PROVE  (\A s \in Slugs : Spoken(s)') /\ \A q \in Procs : PrevSpoken(q)'
    BY DEF LogInv
  <1>1. ASSUME NEW s \in Slugs PROVE Spoken(s)'
    BY SpokenStep
  <1>2. ASSUME NEW q \in Procs PROVE PrevSpoken(q)'
    BY PrevSpokenOwn, PrevSpokenOthers
  <1> QED
    BY <1>1, <1>2

LEMMA LogStays ==
    ASSUME LogInv, UNCHANGED vars
    PROVE  LogInv'
  BY DEF vars, LogInv, Spoken, PrevSpoken, InHand, Logged, Llm, IsPage, Applying, Writing, InTransaction

\* Each page says what its origin does, and one that was applied is in the log, once
\* its command is through, unless that was killed or worked beside another.
THEOREM PagesHaveEvidence == Spec => []Evidence
  <1>1. TextInv /\ LogInv => Evidence
    <2> SUFFICES ASSUME TextInv, LogInv, NEW s \in Slugs
                 PROVE  /\ PageOK(pages[s])
                        /\ upsets \cap {"overlap", "kill"} = {} /\ Llm(pages[s]) =>
                             \/ Logged(s, pages[s])
                             \/ \E p \in Procs : Applying(p) /\ Writing(p) /\ job[p].slug = s
      BY DEF Evidence, Llm, Logged
    <2> QED
      BY DEF TextInv, PageInv, LogInv, Spoken, InHand
  <1>2. TextInv /\ LogInv /\ [Next]_vars => TextInv' /\ LogInv'
    BY TextStep, TextStays, LogStep, LogStays DEF Next, Step
  <1> QED
    BY <1>1, <1>2, TextInit, LogInit, PTL DEF Spec

-----------------------------------------------------------------------------
(* As long as all goes well *)

\* Nothing goes wrong before, and a step that raises is one of an apply that undoes it.
LEMMA GoesWell ==
    ASSUME NEW p \in Procs, Step(p), upsets' = {}
    PROVE  /\ upsets = {} /\ ~Kill(p)
           /\ Raises(p) => job[p].op = "apply" /\ job[p].catch # "none"
                           /\ job' = [job EXCEPT ![p].pc = job[p].catch]
  BY UpsetsGrow DEF Kill, Raises, Applying, Goes

\* What a writer has done so far, it has done after its next step as well.
LEMMA WorksOn ==
    ASSUME TextInv, NEW p \in Procs, WriterStep(p), Writing(p), Works(p), upsets' = {},
           ~Raises(p), job'[p] # Idle
    PROVE  Works(p)'
  <1>1. /\ Rows /\ Stands(job[p]) /\ Locks(p) /\ Slugged(p) /\ AppliesFresh(p)
        /\ job[p].pc # "enter" /\ pages = [s \in Slugs |-> pages[s]]
        /\ manifest # None => manifest.slug \in Slugs
    BY GoesWell DEF TextInv, BaseInv, ShapeInv, ControlInv, SlugInv, StaleInv, Writing, Applying,
                    Locks, Step, Stands, Turn, Rebuild, RunOps
  <1>2. ~LeavesAll(p)
    BY <1>1 DEF LeavesAll, Ends, Rows
  <1> USE DEF At, Goes, Rebuilds, Rows, Idle
  <1>3. CASE ListPages(p)
    BY <1>1, <1>3 DEF ListPages, wikiVars, Works, Near, Rebuild, Related, IsPage, Lineage, Written
  <1>4. CASE LoadPages(p)
    <2>1. /\ job'[p].pc = "index" /\ job'[p].op = job[p].op /\ job'[p].slug = job[p].slug
          /\ job'[p].next = job[p].next
          /\ job'[p].catch = job[p].catch /\ job'[p].prev = job[p].prev /\ job'[p].from = job[p].from
          /\ job'[p].names = [s \in Slugs |-> IF s \in job[p].names THEN pages[s] ELSE None]
          /\ UNCHANGED <<pages, index, manifest, candidates>> /\ job[p].pc = "load"
      <3>1. /\ job' = [job EXCEPT ![p].pc = "index", ![p].names =
                           [s \in Slugs |-> IF s \in job[p].names THEN pages[s] ELSE None]]
            /\ UNCHANGED <<pages, index, manifest, candidates>> /\ job[p].pc = "load"
        BY <1>4 DEF LoadPages
      <3>2. DOMAIN job = Procs /\ DOMAIN job[p] = DOMAIN Idle
        BY <1>1
      <3> QED
        BY <3>1, <3>2
    <2>2. job[p].names = Written(Slugs) /\ Near(job[p].slug) /\ job[p].op # "lint"
          /\ job[p].next # "unraw"
          /\ (job[p].op = "apply" /\ job[p].catch = "restore" =>
                 Related(p, pages[job[p].slug]) /\ job[p].prev # Torn)
      BY <2>1 DEF Works, Rebuild
    <2>3. \A s \in Slugs : (IF s \in job[p].names THEN pages[s] ELSE None) = pages[s]
      BY <2>2 DEF Written
    <2>4. job'[p].names = pages
      BY <1>1, <2>1, <2>3
    <2> QED
      BY <2>1, <2>2, <2>4 DEF Works, Rebuild, Near, Related, IsPage, Lineage
  <1>5. CASE WriteIndex(p)
    <2>1. /\ job'[p].pc = job[p].next /\ job'[p].op = job[p].op /\ job'[p].slug = job[p].slug
          /\ job'[p].prev = job[p].prev /\ job'[p].from = job[p].from
          /\ job'[p].op = "apply" => job'[p].catch = job[p].catch
          /\ index' = job[p].names /\ UNCHANGED <<pages, candidates>>
      BY <1>1, <1>2, <1>5 DEF WriteIndex, Stands, Turn, Rebuild
    <2>2. /\ job[p].next \in {"log", "commit", "drop"}
          /\ job[p].next # "log" => job[p].op # "apply"
      BY <1>1, <1>2, <1>5 DEF WriteIndex, Stands, Turn, Rebuild, Works
    <2>3. job[p].names = pages /\ job[p].op # "lint"
          /\ (job[p].op = "apply" /\ job[p].catch = "restore" =>
                 Related(p, pages[job[p].slug]) /\ job[p].prev # Torn)
      BY <1>5 DEF WriteIndex, Works
    <2>4. job'[p].op = "apply" /\ job'[p].catch = "restore" => Related(p, pages[job[p].slug])'
      BY <2>1, <2>3 DEF Related, IsPage, Lineage
    <2> QED
      BY <2>1, <2>2, <2>3, <2>4 DEF Works, Rebuild
  <1>6. CASE OpenPage(p)
    <2>1. job[p].op \in {"writeback", "ingest"} /\ job[p].slug \in Slugs
      BY <1>1, <1>6 DEF OpenPage, Stands, Turn, Rebuild, Slugged
    <2> QED
      BY <1>1, <1>6, <2>1 DEF OpenPage, Works, Near, Rebuild
  <1>7. CASE ChooseSlug(p)
    BY <1>1, <1>7, FreeSlugIsFree DEF ChooseSlug, Works, Rebuild
  <1>8. CASE FillAnswer(p)
    BY <1>1, <1>8 DEF FillAnswer, Works, Rebuild, Near
  <1>9. CASE CopyRaw(p)
    BY <1>1, <1>9 DEF CopyRaw, wikiVars, Works, Rebuild
  <1>10. CASE ChoosePage(p)
    BY <1>1, <1>10, NextSlugIsOne DEF ChoosePage, NextSlug, wikiVars, Works, Rebuild
  <1>11. CASE FillSource(p)
    BY <1>1, <1>11 DEF FillSource, Works, Rebuild, Near
  <1>12. CASE SaveEntry(p)
    BY <1>1, <1>12 DEF SaveEntry, wikiVars, Works, Rebuild, Near
  <1>13. ~UndoPage(p) /\ ~RefillPage(p) /\ ~UndoRaw(p)
    BY DEF Works, UndoPage, RefillPage, UndoRaw
  <1>14. CASE DeletePages(p) \/ DeleteRaw(p)
    BY <1>1, <1>14 DEF DeletePages, DeleteRaw, wikiVars, Works, Rebuild, Near
  <1>15. CASE CheckStale(p)
    BY <1>1, <1>2, <1>15 DEF CheckStale, wikiVars, Works, Rebuild, Stands, Turn
  <1>16. CASE LookAtExisting(p)
    <2>1. job[p].op = "apply" /\ job[p].pc = "existing" /\ job[p].catch = "none"
      BY <1>1, <1>16 DEF LookAtExisting, Stands, Turn, Rebuild
    <2>2. /\ job'[p].pc \in {"previous", "log"} /\ job'[p].op = "apply"
          /\ job'[p].slug = job[p].slug /\ job'[p].catch = "none"
          /\ UNCHANGED <<pages, index>>
          /\ pages[job[p].slug] = None \/ IsPage(pages[job[p].slug])
      BY <1>1, <1>2, <1>16, <2>1 DEF LookAtExisting
    <2>3. index = pages /\ pages[job[p].slug] # Torn
      BY <2>1, <2>2, WritersAssumption DEF Works, Rebuild, IsPage
    <2> QED
      BY <2>2, <2>3 DEF Works, Rebuild
  <1>17. CASE ReadPrevious(p)
    <2>1. Related(p, pages[job[p].slug]) /\ pages[job[p].slug] # Torn
      BY <1>1, <1>17 DEF ReadPrevious, AppliesFresh, Works, Applying
    <2> QED
      BY <1>1, <1>17, <2>1 DEF ReadPrevious, wikiVars, Works, Rebuild, Related, IsPage, Lineage
  <1>18. CASE PutPage(p)
    <2>1. job[p].slug \in Slugs /\ job[p].prev # Torn
      BY <1>1, <1>18 DEF PutPage, Slugged, Works, Stands, Turn, Rebuild
    <2>2. /\ pages'[job[p].slug] = CandidatePage(job[p].from)
          /\ \A s \in Slugs \ {job[p].slug} : pages'[s] = pages[s]
          /\ job'[p].pc = "list" /\ job'[p].op = "apply" /\ job'[p].slug = job[p].slug
          /\ job'[p].next = "log"
          /\ job'[p].prev = job[p].prev /\ job'[p].from = job[p].from
          /\ UNCHANGED <<index, candidates>> /\ index = pages
      BY <1>1, <1>18, <2>1 DEF PutPage, Works, Rebuild
    <2>3. Related(p, CandidatePage(job[p].from))
      BY DEF Related, CandidatePage, Lineage
    <2>4. Related(p, pages[job[p].slug])'
      BY <2>2, <2>3 DEF Related, Lineage, IsPage
    <2> QED
      BY <2>1, <2>2, <2>4 DEF Works, Rebuild, Near
  <1>19. CASE RestorePage(p)
    <2>1. /\ job'[p].pc = "list" /\ job'[p].op = "apply" /\ job'[p].slug = job[p].slug
          /\ job'[p].catch = "none" /\ job'[p].next = "none" /\ UNCHANGED index /\ Near(job[p].slug)
          /\ \A s \in Slugs \ {job[p].slug} : pages'[s] = pages[s]
      BY <1>1, <1>19 DEF RestorePage, Works
    <2> QED
      BY <2>1 DEF Works, Rebuild, Near
  <1>20. ~EnterApply(p) /\ ~DropEntry(p) /\ ~AppendLog(p)
    BY <1>1, <1>2 DEF EnterApply, DropEntry, AppendLog
  <1> QED
    BY <1>3, <1>4, <1>5, <1>6, <1>7, <1>8, <1>9, <1>10, <1>11, <1>12, <1>13, <1>14, <1>15, <1>16,
       <1>17, <1>18, <1>19, <1>20 DEF WriterStep

\* A step that raises leaves the page to be restored.
LEMMA WorksRaised ==
    ASSUME TextInv, NEW p \in Procs, Works(p), job[p].op = "apply", job[p].catch # "none",
           MayRaise(job[p]), job' = [job EXCEPT ![p].pc = job[p].catch],
           UNCHANGED <<pages, index, candidates, manifest>>
    PROVE  Works(p)' /\ job'[p] # Idle
  <1>1. Rows /\ Stands(job[p])
    BY DEF TextInv, BaseInv, ShapeInv, ControlInv
  <1>2. job[p].catch = "restore"
    BY <1>1, Caught DEF RunOps
  <1>3. /\ job'[p].pc = "restore" /\ job'[p].op = "apply" /\ job'[p].slug = job[p].slug
        /\ job'[p].prev = job[p].prev /\ job'[p].from = job[p].from
    BY <1>1, <1>2 DEF Rows, Idle
  <1>4. Near(job[p].slug) /\ Related(p, pages[job[p].slug]) /\ job[p].prev # Torn
    BY <1>2 DEF Works, Near
  <1>5. Related(p, pages[job[p].slug])'
    BY <1>3, <1>4 DEF Related, IsPage, Lineage
  <1> QED
    BY <1>3, <1>4, <1>5 DEF Works, Near, Rebuild, Idle

\* When a writer ends, the index is complete.
LEMMA EndsComplete ==
    ASSUME TextInv, NEW p \in Procs, WriterStep(p), Writing(p), Works(p), ~Raises(p), job'[p] = Idle
    PROVE  index' = pages'
  <1>1. Rows /\ Stands(job[p])
    BY DEF TextInv, BaseInv, ShapeInv, ControlInv
  <1> USE DEF At, Goes, Rebuilds, Rows, Idle
  <1>2. CASE WriteIndex(p)
    BY <1>2 DEF WriteIndex, Works
  <1>3. CASE AppendLog(p)
    BY <1>3 DEF AppendLog, Works, Rebuild
  <1>4. CASE DropEntry(p) \/ CheckStale(p) \/ LookAtExisting(p)
    BY <1>4 DEF DropEntry, CheckStale, LookAtExisting, wikiVars, Works, Rebuild
  <1>5. CASE UndoRaw(p)
    BY <1>5 DEF UndoRaw, Works
  <1>6. CASE ListPages(p) \/ LoadPages(p) \/ OpenPage(p) \/ ChooseSlug(p) \/ FillAnswer(p)
             \/ CopyRaw(p) \/ ChoosePage(p) \/ FillSource(p) \/ SaveEntry(p) \/ UndoPage(p)
             \/ RefillPage(p) \/ DeletePages(p) \/ DeleteRaw(p)
    <2>1. job'[p].pc # "idle"
      BY <1>1, <1>6
         DEF ListPages, LoadPages, OpenPage, ChooseSlug, FillAnswer, CopyRaw, ChoosePage,
             FillSource, SaveEntry, UndoPage, RefillPage, DeletePages, DeleteRaw
    <2> QED
      BY <2>1
  <1>7. CASE EnterApply(p) \/ ReadPrevious(p) \/ PutPage(p) \/ RestorePage(p)
    <2>1. job'[p].pc # "idle"
      BY <1>1, <1>7 DEF EnterApply, Takes, ReadPrevious, PutPage, RestorePage
    <2> QED
      BY <2>1
  <1> QED
    BY <1>2, <1>3, <1>4, <1>5, <1>6, <1>7 DEF WriterStep

\* A writer starts alone, and finds the index complete.
LEMMA WorkStarts ==
    ASSUME TextInv, WorkInv, NEW p \in Procs, Step(p), upsets' = {}, ~Writing(p), Writing(p)'
    PROVE  /\ \A q \in Procs : ~Writing(q)
           /\ index = pages /\ UNCHANGED <<pages, index, manifest>>
           /\ Works(p)'
  <1>1. /\ Rows /\ Stands(job[p]) /\ Locks(p) /\ Locks(p)' /\ ShapeInv /\ ControlInv
        /\ upsets = {} /\ ~Kill(p)
    BY ControlStep, GoesWell DEF TextInv, BaseInv, ShapeInv, ControlInv
  <1>2. job'[p].op \in RunOps \/ (job'[p].op = "apply" /\ job'[p].pc # "enter")
    BY <1>1 DEF Writing, Locks, Applying
  <1>3. CASE Call(p)
    <2>1. CallCommit(p) \/ CallFix(p) \/ CallPrune(p) \/ \E v \in Versions : CallIngest(p, v)
      BY <1>1, <1>2, <1>3, CallRow DEF RunOps
    <2>2. \A q \in Procs : ~Writing(q)
      BY <2>1 DEF CallCommit, CallFix, CallPrune, CallIngest, Starts
    <2>3. index = pages
      BY <1>1, <2>2 DEF WorkInv
    <2>4. ~CallFix(p)
      BY <2>3 DEF CallFix, Written
    <2>5. UNCHANGED <<pages, index, manifest>>
      BY <1>1, <1>3, CallFrame
    <2>6. \/ job'[p].op \in {"writeback", "ingest"} /\ job'[p].pc \in {"slug", "copy"}
          \/ /\ job'[p].op = "prune" /\ job'[p].pc = "unlink" /\ manifest # None
             /\ job'[p].slug = manifest.slug
      BY <1>1, <1>2, <1>3, <2>4, CallRow DEF CallPrune, RunOps
    <2>7. Works(p)'
      BY <2>3, <2>5, <2>6 DEF Works, Rebuild
    <2> QED
      BY <2>2, <2>3, <2>5, <2>7
  <1>4. CASE WriterStep(p)
    <2>1. EnterApply(p)
      BY <1>1, <1>4, WorkIsWriting
    <2>2. /\ lock.candidate = None /\ lock.run = None
          /\ UNCHANGED <<pages, index, manifest>>
          /\ job' = [job EXCEPT ![p].pc = "stale"] /\ job[p].op = "apply"
      BY <2>1 DEF EnterApply, Takes, Goes, At
    <2>3. \A q \in Procs : ~Writing(q)
      BY <2>2, SomeoneIsSomeone DEF Writing
    <2>4. index = pages
      BY <1>1, <2>3 DEF WorkInv
    <2>5. job'[p].op = "apply" /\ job'[p].pc = "stale" /\ Stands(job'[p])
      BY <1>1, <2>2, ControlStep DEF Rows, Idle, ControlInv
    <2>6. job'[p].catch = "none"
      BY <2>5 DEF Stands, Turn, Rebuild
    <2>7. Works(p)'
      BY <2>2, <2>4, <2>5, <2>6 DEF Works, Rebuild
    <2> QED
      BY <2>2, <2>3, <2>4, <2>7
  <1>5. ~ArtifactStep(p)
    BY <1>1, <1>2, ArtifactRow DEF RunOps
  <1>6. ~Fault(p)
    <2>1. Fault(p) => job[p].op \in RunOps \cup {"apply"} /\ job[p].pc # "enter"
      BY <1>1, Caught DEF Fault, MayRaise
    <2> QED
      BY <1>1, <2>1 DEF Writing, Locks, Applying
  <1> QED
    BY <1>1, <1>3, <1>4, <1>5, <1>6 DEF Step

\* A writer goes on, or ends with the index complete.
LEMMA WorkGoesOn ==
    ASSUME TextInv, NEW p \in Procs, Step(p), upsets' = {}, Writing(p), Works(p)
    PROVE  \/ Works(p)' /\ job'[p] # Idle
           \/ job'[p] = Idle /\ index' = pages'
  <1>1. /\ Rows /\ Stands(job[p]) /\ Locks(p) /\ ShapeInv /\ ControlInv /\ ~Kill(p)
    BY GoesWell DEF TextInv, BaseInv, ShapeInv, ControlInv
  <1>2. ~Call(p)
    BY <1>1, CallFrame DEF Locks, Writing, Applying, Idle, RunOps
  <1>3. ~ArtifactStep(p)
    BY <1>1, ArtifactRow DEF Locks, Writing, Applying, RunOps
  <1>4. CASE Fault(p)
    BY <1>4, GoesWell, WorksRaised DEF Fault, MayRaise
  <1>5. CASE WriterStep(p) /\ Raises(p)
    <2>1. /\ job[p].op = "apply" /\ job[p].catch # "none" /\ job' = [job EXCEPT ![p].pc = job[p].catch]
      BY <1>5, GoesWell
    <2>2. job[p].catch = "restore"
      BY <1>1, <2>1 DEF Stands, Turn, Locks, Writing, Applying, RunOps
    <2>3. job'[p].pc = "restore"
      BY <1>1, <2>1, <2>2 DEF Rows, Idle
    <2>4. LoadPages(p)
      <3> USE DEF At, Goes, Rebuilds, Rows, Idle
      <3>1. ~ListPages(p) /\ ~PutPage(p) /\ ~RestorePage(p)
        BY <1>1, <2>3 DEF ListPages, PutPage, RestorePage
      <3>2. ~WriteIndex(p)
        BY <1>1, <2>1, <2>2, <2>3 DEF WriteIndex, LeavesAll, Ends, Stands, Turn, Rebuild
      <3>3. ~AppendLog(p)
        BY <1>1, <2>3 DEF AppendLog, LeavesAll, Ends
      <3>4. ~OpenPage(p) /\ ~EnterApply(p) /\ ~CheckStale(p) /\ ~LookAtExisting(p) /\ ~ReadPrevious(p)
        BY <1>1, <2>1, <2>2
           DEF OpenPage, EnterApply, CheckStale, LookAtExisting, ReadPrevious, Stands, Turn, Rebuild
      <3> QED
        BY <1>5, <2>1, <3>1, <3>2, <3>3, <3>4
           DEF WriterStep, ChooseSlug, FillAnswer, CopyRaw, ChoosePage, FillSource, SaveEntry,
               UndoPage, RefillPage, UndoRaw, DeletePages, DeleteRaw, DropEntry
    <2>5. MayRaise(job[p]) /\ UNCHANGED <<pages, index, candidates, manifest>>
      BY <2>4 DEF LoadPages, MayRaise
    <2> QED
      BY <2>1, <2>5, WorksRaised
  <1>6. CASE WriterStep(p) /\ ~Raises(p)
    BY <1>6, WorksOn, EndsComplete
  <1> QED
    BY <1>1, <1>2, <1>3, <1>4, <1>5, <1>6 DEF Step

\* A writer keeps what it has while others do anything but write pages.
LEMMA WorkWaits ==
    ASSUME TextInv, NEW p \in Procs, Step(p), upsets' = {}, NEW q \in Procs \ {p},
           Writing(q), Works(q)
    PROVE  Works(q)' /\ UNCHANGED <<pages, index>>
  <1>1. UNCHANGED <<pages, index, log, raw, manifest>> /\ job'[q] = job[q] /\ Asked(q)
    BY Undisturbed, OthersStay DEF TextInv, BaseInv, StoreInv
  <1>2. job[q].op = "apply" => candidates'[job[q].from] = candidates[job[q].from]
    BY <1>1, ArtifactsKept DEF TextInv, BaseInv, Unchanging, Asked
  <1>3. job[q].op = "apply" =>
            (Related(q, pages[job[q].slug]) => Related(q, pages[job[q].slug])')
    BY <1>1, <1>2 DEF Related, IsPage, Lineage
  <1> QED
    BY <1>1, <1>3 DEF Works, Near, Written

\* Once its page is opened, a command of the source has it until it is written or gone.
LEMMA StaysAtSource ==
    ASSUME TextInv, NEW p \in Procs, Step(p), upsets' = {}, Writing(p), Works(p), AtSource(p),
           UNCHANGED manifest, manifest # None
    PROVE  FillSource(p) \/ AtSource(p)'
  <1>1. /\ Rows /\ Stands(job[p]) /\ ShapeInv /\ ControlInv /\ ~Kill(p)
        /\ job[p].op \in {"ingest", "prune"}
    BY GoesWell DEF TextInv, BaseInv, ShapeInv, ControlInv, AtSource
  <1>2. ~Raises(p)
    BY <1>1, GoesWell
  <1>3. WriterStep(p)
    BY <1>1, <1>2, CallFrame, ArtifactRow DEF Step, Fault, Idle
  <1>4. CASE job[p].op = "ingest"
    <2>1. job[p].pc = "fill"
      BY <1>4 DEF AtSource
    <2> QED
      BY <1>3, <1>4, <2>1
         DEF WriterStep, ListPages, LoadPages, WriteIndex, OpenPage, AppendLog, ChooseSlug,
             FillAnswer, CopyRaw, ChoosePage, SaveEntry, UndoPage, RefillPage, UndoRaw,
             DeletePages, DeleteRaw, DropEntry, EnterApply, CheckStale, LookAtExisting,
             ReadPrevious, PutPage, RestorePage, At
  <1>5. CASE job[p].op = "prune"
    <2>1. /\ job[p].pc \in {"drop", "save"} \cup Rebuild
          /\ job[p].pc \in Rebuild => job[p].next = "drop"
      BY <1>1, <1>5 DEF AtSource, Stands, Turn, Rebuild
    <2>2. ~DropEntry(p)
      BY DEF DropEntry
    <2>3. CASE ListPages(p) \/ LoadPages(p)
      BY <1>1, <1>2, <1>5, <2>3 DEF ListPages, LoadPages, Rows, Idle, AtSource
    <2>4. CASE WriteIndex(p)
      BY <1>1, <1>5, <2>1, <2>4 DEF WriteIndex, Rebuild, Rows, Idle, AtSource
    <2>5. CASE DeleteRaw(p)
      BY <1>1, <1>5, <2>5 DEF DeleteRaw, Goes, Rows, Idle, AtSource
    <2> QED
      BY <1>3, <1>5, <2>1, <2>2, <2>3, <2>4, <2>5
         DEF WriterStep, OpenPage, AppendLog, ChooseSlug, FillAnswer, CopyRaw, ChoosePage,
             FillSource, SaveEntry, UndoPage, RefillPage, UndoRaw, DeletePages, EnterApply,
             CheckStale, LookAtExisting, ReadPrevious, PutPage, RestorePage, At, Rebuild
  <1> QED
    BY <1>1, <1>4, <1>5

\* Who writes a page of the source is an ingest or a removal of it.
LEMMA SourceWrites ==
    ASSUME TextInv, NEW p \in Procs, Step(p), upsets' = {}, Works(p), NEW s \in Slugs,
           Sourced(s), pages'[s] # pages[s]
    PROVE  /\ s = job[p].slug
           /\ \/ OpenPage(p) /\ job[p].op = "ingest" /\ manifest # None
              \/ DeletePages(p)
  <1>1. Stands(job[p]) /\ ShapeInv
    BY DEF TextInv, BaseInv, ControlInv
  <1>2. PICK v \in Versions : pages[s] = SourcePage(v)
    BY DEF Sourced
  <1>3. IsPage(pages[s]) /\ pages[s].origin = "ingest"
    BY <1>2, PagesAssumption DEF IsPage, SourcePage
  <1>4. OpenPage(p) /\ s = job[p].slug => job[p].op = "ingest" /\ manifest # None
    BY <1>3 DEF OpenPage, Works, IsPage
  <1>5. ~(FillAnswer(p) /\ s = job[p].slug) /\ ~(FillSource(p) /\ s = job[p].slug)
    BY <1>3 DEF FillAnswer, FillSource, At, Works, IsPage
  <1>6. ~UndoPage(p) /\ ~RefillPage(p)
    BY DEF UndoPage, RefillPage, At, Works
  <1>7. ~(PutPage(p) /\ s = job[p].slug) /\ ~(RestorePage(p) /\ s = job[p].slug)
    <2>1. PutPage(p) \/ RestorePage(p) => job[p].op = "apply" /\ job[p].catch = "restore"
      BY <1>1 DEF PutPage, RestorePage, At, Stands, Turn, Rebuild
    <2>2. PutPage(p) \/ RestorePage(p) => Related(p, pages[job[p].slug])
      BY <2>1 DEF Works
    <2> QED
      BY <1>3, <2>2 DEF Related
  <1> QED
    BY <1>1, <1>4, <1>5, <1>6, <1>7, PageWrites

\* The entry's page stays in its place.
LEMMA OwnedStep ==
    ASSUME TextInv, WorkInv, NEW p \in Procs, Step(p), upsets' = {}
    PROVE  Owned'
  <1>1. /\ upsets = {} /\ Owned /\ ShapeInv /\ ControlInv /\ Rows /\ IngestsFresh(p) /\ Locks(p)
        /\ (Writing(p) => Works(p)) /\ Held(p) /\ pages = [s \in Slugs |-> pages[s]]
    BY GoesWell DEF WorkInv, TextInv, BaseInv, ShapeInv, ControlInv, StaleInv, PageInv
  <1>2. CASE SaveEntry(p)
    <2>1. InTransaction(job[p]) /\ job[p].pc = "commit" /\ UNCHANGED pages
      BY <1>2 DEF SaveEntry, At, InTransaction, wikiVars
    <2>2. Sourced(job[p].slug) /\ manifest'.slug = job[p].slug
      BY <1>1, <1>2, <2>1 DEF IngestsFresh, SaveEntry
    <2> QED
      BY <2>1, <2>2 DEF Owned, Sourced
  <1>3. CASE DropEntry(p)
    BY <1>3 DEF DropEntry, Owned
  <1>4. ASSUME UNCHANGED manifest, manifest # None
        PROVE  Sourced(manifest.slug)' \/ \E q \in Procs : AtSource(q)'
    <2>1. manifest.slug \in Slugs
      BY <1>4 DEF TextInv, SlugInv
    <2>2. ASSUME FillSource(p), job[p].slug = manifest.slug PROVE Sourced(manifest.slug)'
      <3>1. job[p].fp \in Versions
        BY <1>1, <2>2 DEF FillSource, At, Held
      <3>2. pages'[manifest.slug] = SourcePage(job[p].fp)
        BY <1>1, <2>1, <2>2 DEF FillSource
      <3> QED
        BY <1>4, <3>1, <3>2 DEF Sourced
    <2>3. CASE Sourced(manifest.slug) /\ pages'[manifest.slug] = pages[manifest.slug]
      BY <1>4, <2>3 DEF Sourced
    <2>4. CASE Sourced(manifest.slug) /\ pages'[manifest.slug] # pages[manifest.slug]
      <3>1. Writing(p)
        BY <1>1, <2>1, <2>4, PageWrites, WorkIsWriting DEF WriterStep, EnterApply
      <3>2. /\ manifest.slug = job[p].slug
            /\ \/ OpenPage(p) /\ job[p].op = "ingest"
               \/ DeletePages(p)
        BY <1>1, <2>1, <2>4, <3>1, SourceWrites
      <3>3. CASE OpenPage(p) /\ job[p].op = "ingest"
        BY <1>1, <1>4, <3>2, <3>3 DEF OpenPage, Goes, Rows, Idle, AtSource
      <3>4. CASE DeletePages(p)
        BY <1>1, <3>4 DEF DeletePages, Rebuilds, At, Rows, Idle, AtSource
      <3> QED
        BY <3>2, <3>3, <3>4
    <2>5. ASSUME NEW q \in Procs \ {p}, AtSource(q) PROVE AtSource(q)'
      BY <1>1, <1>4, <2>5, OthersStay DEF AtSource
    <2>6. CASE AtSource(p)
      <3>1. Writing(p)
        BY <1>1, <2>6 DEF AtSource, Writing, Locks, RunOps
      <3>2. FillSource(p) \/ AtSource(p)'
        BY <1>1, <1>4, <2>6, <3>1, StaysAtSource
      <3>3. FillSource(p) => job[p].slug = manifest.slug
        BY <2>6 DEF FillSource, At, AtSource
      <3> QED
        BY <2>2, <3>2, <3>3
    <2> QED
      BY <1>1, <1>4, <2>3, <2>4, <2>5, <2>6 DEF Owned
  <1> QED
    BY <1>2, <1>3, <1>4, EntryStays DEF Owned

\* A writer is one until it ends.
LEMMA WriterStays ==
    ASSUME ShapeInv, ControlInv, NEW p \in Procs, Step(p), Writing(p), job'[p] # Idle
    PROVE  Writing(p)'
  <1>1. Stands(job[p]) /\ Locks(p) /\ Stands(job'[p]) /\ Locks(p)'
    BY ControlStep DEF ControlInv
  <1>2. ~Call(p)
    BY <1>1, CallFrame DEF Locks, Writing, Applying, Idle, RunOps
  <1>3. ~ArtifactStep(p)
    BY <1>1, ArtifactRow DEF Locks, Writing, Applying, RunOps
  <1>4. job'[p].op = job[p].op
    BY <1>2, <1>3, WriterKeeps DEF Step
  <1>5. CASE job[p].op = "apply"
    <2>1. job[p].pc # "enter"
      BY <1>1, <1>5 DEF Writing, Locks, RunOps
    <2>2. ApplyMoves(p)
      BY <1>2, <1>3, <1>4, <1>5, ApplyGoesOn DEF Step
    <2>3. job'[p].pc # "enter"
      BY <2>2 DEF ApplyMoves
    <2> QED
      BY <1>1, <1>4, <1>5, <2>3 DEF Locks, Writing, Applying
  <1>6. CASE job[p].op # "apply"
    BY <1>1, <1>4, <1>6 DEF Locks, Writing, Applying
  <1> QED
    BY <1>5, <1>6

LEMMA WorkInit == Init => WorkInv
  <1> SUFFICES ASSUME Init PROVE WorkInv
    OBVIOUS
  <1>1. /\ manifest.slug = 1 /\ 1 \in Slugs /\ raw \in Versions /\ pages[1] = SourcePage(raw)
        /\ index = pages /\ job = [p \in Procs |-> Idle] /\ lock.run = None /\ lock.candidate = None
    BY WritersAssumption DEF Init, ArtifactsInit
  <1>2. \A p \in Procs : ~Writing(p)
    BY <1>1, SomeoneIsSomeone DEF Writing
  <1>3. Owned
    BY <1>1 DEF Owned, Sourced
  <1> QED
    BY <1>1, <1>2, <1>3 DEF WorkInv

LEMMA WorkStep ==
    ASSUME TextInv, WorkInv, NEW p \in Procs, Step(p)
    PROVE  WorkInv'
  <1> SUFFICES ASSUME upsets' = {}
               PROVE  /\ (\A q \in Procs : ~Writing(q)') => index' = pages'
                      /\ \A q \in Procs : Writing(q)' => Works(q)'
                      /\ Owned'
    BY DEF WorkInv
  <1>1. /\ upsets = {} /\ ShapeInv /\ ControlInv /\ ApartInv /\ Locks(p)'
        /\ (\A q \in Procs : ~Writing(q)) => index = pages
        /\ \A q \in Procs : Writing(q) => Works(q)
    BY ControlStep, GoesWell DEF WorkInv, TextInv, BaseInv, ControlInv
  <1>2. \A q \in Procs \ {p} : Writing(q)' <=> Writing(q)
    BY <1>1, OthersStay DEF Writing, Applying, Files
  <1>3. Owned'
    BY OwnedStep
  <1>4. CASE Writing(p)
    <2>1. \A q \in Procs \ {p} : ~Writing(q)
      BY <1>1, <1>4, Alone
    <2>2. \/ Works(p)' /\ job'[p] # Idle
          \/ job'[p] = Idle /\ index' = pages'
      BY <1>1, <1>4, WorkGoesOn
    <2>3. job'[p] = Idle => ~Writing(p)'
      BY <1>1 DEF Writing, Locks, Applying, Idle, RunOps
    <2>4. Writing(p)' => Works(p)'
      BY <2>2, <2>3
    <2>5. ~Writing(p)' => index' = pages'
      <3>1. CASE job'[p] = Idle
        BY <2>2, <3>1
      <3>2. CASE Works(p)' /\ job'[p] # Idle
        BY <1>1, <1>4, <3>2, WriterStays
      <3> QED
        BY <2>2, <3>1, <3>2
    <2> QED
      BY <1>2, <1>3, <2>1, <2>4, <2>5
  <1>5. CASE ~Writing(p) /\ Writing(p)'
    BY <1>2, <1>3, <1>5, WorkStarts
  <1>6. CASE ~Writing(p) /\ ~Writing(p)'
    <2>1. ASSUME NEW q \in Procs, Writing(q) PROVE Works(q)'
      BY <1>1, <1>6, <2>1, WorkWaits
    <2>2. UNCHANGED <<pages, index>>
      BY <1>1, <1>6, CallFrame, WorkIsWriting DEF Step, wikiVars, Fault, Kill, EnterApply
    <2> QED
      BY <1>1, <1>2, <1>3, <1>6, <2>1, <2>2
  <1> QED
    BY <1>4, <1>5, <1>6

LEMMA WorkStays ==
    ASSUME TextInv, WorkInv, UNCHANGED vars
    PROVE  WorkInv'
  BY DEF vars, WorkInv, Works, Near, Owned, AtSource, Sourced, Writing, Applying, Related, IsPage,
         Lineage, Written

\* The part of the invariant that speaks of what goes well.
WellInv == TextInv /\ WorkInv

LEMMA WellInit == Init => WellInv
  BY TextInit, WorkInit DEF WellInv

LEMMA WellStep == WellInv /\ [Next]_vars => WellInv'
  BY TextStep, TextStays, WorkStep, WorkStays DEF Next, Step, WellInv

\* When nobody is at work on pages, and nothing went wrong that was not undone, the
\* index is that of the pages there are.
THEOREM IndexIsComplete == Spec => []IndexComplete
  <1>1. WellInv => IndexComplete
    BY DEF WellInv, WorkInv, IndexComplete
  <1> QED
    BY <1>1, WellInit, WellStep, PTL DEF Spec

\* What a step of a writer may do to a page that is there.
LEMMA OthersKept ==
    ASSUME WellInv, NEW p \in Procs, Step(p), upsets' = {}, NEW s \in Slugs,
           IsPage(pages[s]), pages'[s] # pages[s]
    PROVE  \/ /\ pages[s].origin = "llm_wiki"
              /\ Applying(p) /\ Writing(p) /\ job[p].slug = s
              /\ pages'[s] = None \/ Lineage(pages'[s]) = Lineage(pages[s])
           \/ /\ pages[s].origin = "ingest"
              /\ job[p].op \in {"ingest", "prune"} /\ Writing(p)
  <1>1. /\ upsets = {} /\ TextInv /\ ShapeInv /\ ControlInv /\ ApartInv /\ Stands(job[p])
        /\ AppliesFresh(p) /\ Owned /\ \A q \in Procs : Locks(q)
    BY GoesWell DEF WellInv, WorkInv, TextInv, BaseInv, ControlInv, StaleInv
  <1>2. WriterStep(p) /\ Writing(p)
    BY <1>1, PageWrites, WorkIsWriting DEF WriterStep, EnterApply
  <1>3. Works(p) /\ \A q \in Procs \ {p} : ~Writing(q)
    BY <1>1, <1>2, Alone DEF WellInv, WorkInv
  <1>4. \A q \in Procs \ {p} : ~AtSource(q)
    BY <1>1, <1>3 DEF AtSource, Writing, Locks, RunOps
  <1>5. ASSUME Sourced(s) PROVE pages[s].origin = "ingest"
    <2>1. PICK v \in Versions : pages[s] = SourcePage(v)
      BY <1>5 DEF Sourced
    <2> QED
      BY <2>1 DEF SourcePage
  <1>6. CASE OpenPage(p) /\ s = job[p].slug
    <2>1. job[p].op = "ingest" /\ manifest # None /\ job[p].pc = "open"
      BY <1>3, <1>6 DEF OpenPage, Works, IsPage
    <2>2. s = manifest.slug /\ ~AtSource(p)
      BY <1>3, <1>6, <2>1 DEF Works, AtSource
    <2> QED
      BY <1>1, <1>2, <1>4, <1>5, <2>1, <2>2 DEF Owned
  <1>7. CASE DeletePages(p) /\ s = job[p].slug
    <2>1. job[p].op = "prune" /\ job[p].pc = "unlink"
      BY <1>7 DEF DeletePages, At
    <2>2. manifest # None /\ s = manifest.slug /\ ~AtSource(p)
      BY <1>3, <1>7, <2>1 DEF Works, AtSource
    <2> QED
      BY <1>1, <1>2, <1>4, <1>5, <2>1, <2>2 DEF Owned
  <1>8. ~((FillAnswer(p) \/ FillSource(p)) /\ s = job[p].slug)
    BY <1>3 DEF FillAnswer, FillSource, At, Works, IsPage
  <1>9. ~UndoPage(p) /\ ~RefillPage(p)
    BY <1>3 DEF UndoPage, RefillPage, At, Works
  <1>10. ASSUME PutPage(p) \/ RestorePage(p), s = job[p].slug
         PROVE  /\ pages[s].origin = "llm_wiki" /\ Lineage(pages[s]) = Lineage(candidates[job[p].from])
                /\ Applying(p) /\ job[p].prev # Torn /\ Related(p, job[p].prev)
    <2>1. job[p].op = "apply" /\ job[p].catch = "restore"
      BY <1>1, <1>10 DEF PutPage, RestorePage, At, Stands, Turn, Rebuild
    <2>2. Related(p, pages[s]) /\ job[p].prev # Torn
      BY <1>3, <1>10, <2>1 DEF Works
    <2> QED
      BY <1>1, <2>1, <2>2 DEF Related, Applying, AppliesFresh
  <1>11. CASE PutPage(p) /\ s = job[p].slug /\ pages'[s] = CandidatePage(job[p].from)
    BY <1>2, <1>10, <1>11 DEF CandidatePage, Lineage
  <1>12. CASE RestorePage(p) /\ s = job[p].slug /\ pages'[s] = job[p].prev
    BY <1>2, <1>10, <1>12 DEF Related, IsPage
  <1> QED
    BY <1>1, <1>6, <1>7, <1>8, <1>9, <1>11, <1>12, PageWrites

\* As long as no apply overlaps a run over the source, no write raises and no process
\* is killed, the page of an answer is not overwritten, a synthesized page only by an
\* apply of its own lineage, and the page of the source only by ingest and removal.
\* (Where the two do overlap wiki_overlap.cfg lets TLC show a page overwritten.)
THEOREM OthersAreKept == Spec => KeepsOthers
  <1>1. WellInv /\ [Next]_vars =>
            [upsets' = {} => \A s \in Slugs :
                LET old == pages[s]  new == pages'[s]
                IN  IsPage(old) /\ new # old =>
                       \/ /\ old.origin = "llm_wiki"
                          /\ \E p \in Procs : Applying(p) /\ Writing(p) /\ job[p].slug = s
                          /\ new = None \/ <<new.from, new.fp>> = <<old.from, old.fp>>
                       \/ /\ old.origin = "ingest"
                          /\ \E p \in Procs : job[p].op \in {"ingest", "prune"} /\ Writing(p)]_vars
    BY OthersKept DEF Next, Step, Lineage
  <1> QED
    BY <1>1, WellInit, WellStep, PTL DEF Spec, KeepsOthers

===============================================================================
