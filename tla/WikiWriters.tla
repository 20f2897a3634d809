------------------------------ MODULE WikiWriters ------------------------------
(***************************************************************************)
(* The commands that write wiki pages (hks.storage.wiki) beside each       *)
(* other: ingest and prune of a source, write-back of answers and the fix  *)
(* of lint, which exclude each other by the runtime's .lock, and the       *)
(* application of a synthesized page, which holds .wiki-synthesis.lock     *)
(* instead.  A page is written, then wiki/index.md is rebuilt from all     *)
(* pages, then wiki/log.md is appended to.                                 *)
(*                                                                         *)
(* Composed with LlmArtifacts: candidates come from its stores, and the    *)
(* ingests of this module change the source that it reads.                 *)
(***************************************************************************)
EXTENDS LlmArtifacts

CONSTANTS
    Torn,       \* a page that is opened for writing and has no text yet
    MaxCalls,   \* bound on the calls,
    MaxUpsets   \* and on the steps that raise and processes that are killed

ASSUME WritersAssumption ==
    /\ {MaxCalls, MaxUpsets} \subseteq Nat
    /\ IsFiniteSet(Slugs) /\ 1 \in Slugs /\ Slugs = 1 .. Cardinality(Slugs)
    /\ None \notin Procs \cup Versions \cup Models \cup {Torn}

VARIABLES
    pages,      \* wiki/pages
    index,      \* wiki/index.md: the page each line was made from
    log,        \* wiki/log.md: which pages are spoken of
    upsets,     \* not in the program: what has gone wrong so far (see below)
    count       \* calls, and raises and kills, so far

wikiVars == <<pages, index, log, upsets, count>>
vars == <<raw, manifest, extractions, candidates, lock, job, pages, index, log, upsets, count>>

\* upsets collects "kill"; "raise", a step that raised and is not undone;
\* "overlap", an apply at work beside a holder of the runtime's lock.
Upsets == {"kill", "raise", "overlap"}

\* Frontmatter keeps a scalar with its runs of blanks made one.
Scalar(text) == [text EXCEPT !.spaced = FALSE]

SourcePage(fp) == [origin |-> "ingest", from |-> None, fp |-> fp, text |-> None, cand |-> None]
AnswerPage(p)  == [origin |-> "writeback", from |-> None, fp |-> None, text |-> p, cand |-> None]

CandidatePage(cand) ==
    LET c == candidates[cand]
    IN  [origin |-> "llm_wiki", from |-> c.from, fp |-> c.fp, text |-> Scalar(c.text), cand |-> cand]

ASSUME PagesAssumption == \A fp \in Versions : SourcePage(fp) \notin {None, Torn}

IsPage(page) == page \notin {None, Torn}
Written(S) == {s \in S : pages[s] # None}

\* next_slug: the entry's own slug, or the first of the title that is free.
Free == Slugs \ Written(Slugs)
NextSlug == IF manifest # None THEN manifest.slug ELSE CHOOSE s \in Free : \A t \in Free : s <= t
FreeSlug == CHOOSE s \in Free : \A t \in Free : s <= t

Applying(p) == job[p].op = "apply"
\* Who is at work on pages: under the runtime's lock, or within an apply.
Writing(p) == lock.run = p \/ (Applying(p) /\ lock.candidate = p)

Counts(what) == count' = [count EXCEPT ![what] = @ + 1]

\* A call that takes the runtime's lock is refused (LOCKED) while it is held.
Starts(p, op, pc, change) ==
    /\ job[p] = Idle
    /\ lock.run = None
    /\ lock' = [lock EXCEPT !.run = p]
    /\ job' = [job EXCEPT ![p] = [change EXCEPT !.op = op, !.pc = pc, !.catch = "none"]]
    /\ upsets' = upsets \cup IF \E q \in Procs : Writing(q) THEN {"overlap"} ELSE {}
    /\ Counts("calls")

\* A step raises: to the except clause that is waiting for it, or out of the command.
LeavesAll(p) ==
    /\ Ends(p)
    /\ lock' = [f \in DOMAIN lock |-> IF lock[f] = p THEN None ELSE lock[f]]

Raises(p) ==
    IF job[p].catch = "none"
    THEN LeavesAll(p) /\ upsets' = upsets \cup {"raise"}
    ELSE /\ Goes(p, job[p].catch)
         /\ upsets' = IF Applying(p) THEN upsets ELSE upsets \cup {"raise"}
         /\ UNCHANGED lock

-----------------------------------------------------------------------------
(* The steps of WikiStore that all of them share *)

\* rebuild_index: the names of the pages, then their texts, then the index.
\* A page that is gone by then, or torn, raises.
ListPages(p) ==
    /\ job[p].pc = "list"
    /\ job' = [job EXCEPT ![p].pc = "load", ![p].names = Written(Slugs)]
    /\ UNCHANGED <<raw, manifest, extractions, candidates, lock, wikiVars>>

LoadPages(p) ==
    /\ job[p].pc = "load"
    /\ IF \E s \in job[p].names : ~IsPage(pages[s])
       THEN Raises(p)
       ELSE /\ job' = [job EXCEPT ![p].pc = "index", ![p].names =
                         [s \in Slugs |-> IF s \in job[p].names THEN pages[s] ELSE None]]
            /\ UNCHANGED <<lock, upsets>>
    /\ UNCHANGED <<raw, manifest, extractions, candidates, pages, index, log, count>>

WriteIndex(p) ==
    /\ job[p].pc = "index"
    /\ index' = job[p].names
    /\ \/ /\ job[p].next # "none"
          /\ job' = [job EXCEPT ![p].pc = job[p].next, ![p].names = {},
                                ![p].catch = IF job[p].next = "commit" THEN "unpage" ELSE @]
          /\ UNCHANGED lock
       \/ job[p].next = "none" /\ LeavesAll(p)
    /\ UNCHANGED <<raw, manifest, extractions, candidates, pages, log, upsets, count>>

\* To where the index is to be rebuilt, and what comes after it.
Rebuilds(p, next, catch) ==
    job' = [job EXCEPT ![p].pc = "list", ![p].next = next, ![p].catch = catch]

\* write_text: the file is truncated, then written.
OpenPage(p) ==
    /\ job[p].pc = "open"
    /\ pages' = [pages EXCEPT ![job[p].slug] = Torn]
    /\ Goes(p, "fill")
    /\ UNCHANGED <<raw, manifest, extractions, candidates, lock, index, log, upsets, count>>

\* append_log, the last step.
AppendLog(p) ==
    /\ job[p].pc = "log"
    /\ log' = log \cup {[event |-> job[p].op, slug |-> job[p].slug, cand |-> job[p].from]}
    /\ LeavesAll(p)
    /\ UNCHANGED <<raw, manifest, extractions, candidates, pages, index, upsets, count>>

-----------------------------------------------------------------------------
(* Write-back of an answer, and the fix of the index by lint *)

\* A torn page among the related ones raises.
CallCommit(p) ==
    /\ Free # {}
    /\ Starts(p, "writeback", "slug", Idle)
    /\ UNCHANGED <<raw, manifest, extractions, candidates, pages, index, log>>

ChooseSlug(p) ==
    /\ At(p, "writeback", "slug")
    /\ \/ /\ Free # {}
          /\ job' = [job EXCEPT ![p].pc = "open", ![p].slug = FreeSlug]
          /\ UNCHANGED <<lock, upsets>>
       \/ (\E s \in Slugs : pages[s] = Torn) /\ Raises(p)
    /\ UNCHANGED <<raw, manifest, extractions, candidates, pages, index, log, count>>

FillAnswer(p) ==
    /\ At(p, "writeback", "fill")
    /\ pages' = [pages EXCEPT ![job[p].slug] = AnswerPage(p)]
    /\ Rebuilds(p, "log", "none")
    /\ UNCHANGED <<raw, manifest, extractions, candidates, lock, index, log, upsets, count>>

\* lint --fix rebuilds an index with orphans or dead links, and logs it.
CallFix(p) ==
    /\ Written(Slugs) # {s \in Slugs : index[s] # None}
    /\ Starts(p, "lint", "list", [Idle EXCEPT !.next = "log"])
    /\ UNCHANGED <<raw, manifest, extractions, candidates, pages, index, log>>

-----------------------------------------------------------------------------
(* Ingest of the source, and its removal by a pruning ingest *)

\* An unchanged source whose page is there is skipped.
CallIngest(p, version) ==
    /\ manifest # None => manifest.fp # version \/ pages[manifest.slug] = None
    /\ manifest # None \/ Free # {}
    /\ Starts(p, "ingest", "copy", [Idle EXCEPT !.fp = version])
    /\ UNCHANGED <<raw, manifest, extractions, candidates, pages, index, log>>

\* What the except clause will need is read first.
CopyRaw(p) ==
    /\ At(p, "ingest", "copy")
    /\ raw' = job[p].fp
    /\ job' = [job EXCEPT ![p].pc = "slug", ![p].catch = "unraw", ![p].old = raw,
                          ![p].prev = IF manifest # None THEN pages[manifest.slug] ELSE None]
    /\ UNCHANGED <<manifest, extractions, candidates, lock, wikiVars>>

ChoosePage(p) ==
    /\ At(p, "ingest", "slug")
    /\ manifest # None \/ Free # {}
    /\ job' = [job EXCEPT ![p].pc = "open", ![p].slug = NextSlug]
    /\ UNCHANGED <<raw, manifest, extractions, candidates, lock, wikiVars>>

\* The slug is not known to the except clause before write_page returns.
FillSource(p) ==
    /\ At(p, "ingest", "fill")
    /\ pages' = [pages EXCEPT ![job[p].slug] = SourcePage(job[p].fp)]
    /\ Rebuilds(p, "commit", "unraw")
    /\ UNCHANGED <<raw, manifest, extractions, candidates, lock, index, log, upsets, count>>

\* The entry is saved last.  An update sweeps the pages that are stale, of
\* which there are none here, and rebuilds the index once more.
SaveEntry(p) ==
    /\ At(p, "ingest", "commit")
    /\ manifest' = [fp |-> job[p].fp, slug |-> job[p].slug]
    /\ job' = [job EXCEPT ![p].pc = IF manifest = None THEN "log" ELSE "list",
                          ![p].next = "log", ![p].catch = "none"]
    /\ UNCHANGED <<raw, extractions, candidates, lock, wikiVars>>

\* The except clause, when the page was written: it gets its text back, in
\* place, or is removed.
UndoPage(p) ==
    /\ At(p, "ingest", "unpage")
    /\ IF job[p].prev # None
       THEN pages' = [pages EXCEPT ![job[p].slug] = Torn] /\ Goes(p, "refill")
       ELSE pages' = [pages EXCEPT ![job[p].slug] = None] /\ Rebuilds(p, "unraw", "none")
    /\ UNCHANGED <<raw, manifest, extractions, candidates, lock, index, log, upsets, count>>

RefillPage(p) ==
    /\ At(p, "ingest", "refill")
    /\ pages' = [pages EXCEPT ![job[p].slug] = job[p].prev]
    /\ Rebuilds(p, "unraw", "none")
    /\ UNCHANGED <<raw, manifest, extractions, candidates, lock, index, log, upsets, count>>

UndoRaw(p) ==
    /\ At(p, "ingest", "unraw")
    /\ raw' = job[p].old
    /\ LeavesAll(p)
    /\ UNCHANGED <<manifest, extractions, candidates, wikiVars>>

CallPrune(p) ==
    /\ manifest # None
    /\ Starts(p, "prune", "unlink", [Idle EXCEPT !.slug = manifest.slug])
    /\ UNCHANGED <<raw, manifest, extractions, candidates, pages, index, log>>

DeletePages(p) ==
    /\ At(p, "prune", "unlink")
    /\ pages' = [pages EXCEPT ![job[p].slug] = None]
    /\ Rebuilds(p, "drop", "none")
    /\ UNCHANGED <<raw, manifest, extractions, candidates, lock, index, log, upsets, count>>

DeleteRaw(p) ==
    /\ At(p, "prune", "drop")
    /\ raw' = None
    /\ Goes(p, "save")
    /\ UNCHANGED <<manifest, extractions, candidates, lock, wikiVars>>

DropEntry(p) ==
    /\ At(p, "prune", "save")
    /\ manifest' = None
    /\ LeavesAll(p)
    /\ UNCHANGED <<raw, extractions, candidates, wikiVars>>
-----------------------------------------------------------------------------
(* ks wiki synthesize --mode apply *)

CallApply(p, cand) ==
    /\ job[p] = Idle
    /\ job' = [job EXCEPT ![p] = [Idle EXCEPT !.op = "apply", !.pc = "enter", !.from = cand,
                                              !.slug = candidates[cand].slug, !.catch = "none"]]
    /\ Counts("calls")
    /\ UNCHANGED <<raw, manifest, extractions, candidates, lock, pages, index, log, upsets>>

EnterApply(p) ==
    /\ At(p, "apply", "enter")
    /\ Takes(p, "candidate", "stale")
    /\ upsets' = upsets \cup IF lock.run # None THEN {"overlap"} ELSE {}
    /\ UNCHANGED <<raw, manifest, extractions, candidates, pages, index, log, count>>

\* Variant: only the entry is asked for, not its fingerprint.
CheckStale_EntryOnly(p) ==
    /\ At(p, "apply", "stale")
    /\ IF manifest # None
       THEN Goes(p, "existing") /\ UNCHANGED lock
       ELSE LeavesAll(p)
    /\ UNCHANGED <<raw, manifest, extractions, candidates, wikiVars>>

\* NOINPUT without entry, CANDIDATE_STALE if it is of another version.
CheckStale(p) ==
    /\ At(p, "apply", "stale")
    /\ IF manifest # None /\ manifest.fp = candidates[job[p].from].fp
       THEN Goes(p, "existing") /\ UNCHANGED lock
       ELSE LeavesAll(p)
    /\ UNCHANGED <<raw, manifest, extractions, candidates, wikiVars>>

\* Variant: a page without lineage does not conflict.
Conflict_LineageOnly(page, cand) ==
    /\ page.from # None
    /\ <<page.from, page.fp>> # <<candidates[cand].from, candidates[cand].fp>>

Conflict(page, cand) ==
    \/ page.origin # "llm_wiki"
    \/ <<page.from, page.fp>> # <<candidates[cand].from, candidates[cand].fp>>

\* The title, summary and body that were read back are those of the candidate.
SameContent(page, cand) == page.text = candidates[cand].text

\* A conflict ends the command, the same content is only logged.
LookAtExisting(p) ==
    /\ At(p, "apply", "existing")
    /\ LET page == pages[job[p].slug]
       IN  \/ page = None /\ Goes(p, "previous") /\ UNCHANGED <<lock, upsets>>
           \/ page = Torn /\ Raises(p)
           \/ IsPage(page) /\ Conflict(page, job[p].from) /\ LeavesAll(p) /\ UNCHANGED upsets
           \/ /\ IsPage(page) /\ ~Conflict(page, job[p].from)
              /\ Goes(p, IF SameContent(page, job[p].from) THEN "log" ELSE "previous")
              /\ UNCHANGED <<lock, upsets>>
    /\ UNCHANGED <<raw, manifest, extractions, candidates, pages, index, log, count>>

\* The page is read again, for the except clause.
ReadPrevious(p) ==
    /\ At(p, "apply", "previous")
    /\ job' = [job EXCEPT ![p].pc = "put", ![p].prev = pages[job[p].slug], ![p].catch = "restore"]
    /\ UNCHANGED <<raw, manifest, extractions, candidates, lock, wikiVars>>

PutPage(p) ==
    /\ At(p, "apply", "put")
    /\ pages' = [pages EXCEPT ![job[p].slug] = CandidatePage(job[p].from)]
    /\ Rebuilds(p, "log", "restore")
    /\ UNCHANGED <<raw, manifest, extractions, candidates, lock, index, log, upsets, count>>

\* Variant: the page that was written stays.
RestorePage_Keeps(p) ==
    /\ At(p, "apply", "restore")
    /\ Rebuilds(p, "none", "none")
    /\ UNCHANGED <<raw, manifest, extractions, candidates, lock, wikiVars>>

\* Variant: the index is left as it is.
RestorePage_NoIndex(p) ==
    /\ At(p, "apply", "restore")
    /\ pages' = [pages EXCEPT ![job[p].slug] = job[p].prev]
    /\ LeavesAll(p)
    /\ UNCHANGED <<raw, manifest, extractions, candidates, index, log, upsets, count>>

\* The except clause; the exception is raised again after it.
RestorePage(p) ==
    /\ At(p, "apply", "restore")
    /\ pages' = [pages EXCEPT ![job[p].slug] = job[p].prev]
    /\ Rebuilds(p, "none", "none")
    /\ UNCHANGED <<raw, manifest, extractions, candidates, lock, index, log, upsets, count>>

-----------------------------------------------------------------------------
(* The specification *)

Fault(p) ==
    /\ job[p].pc \in {"copy", "open", "put", "index", "commit", "log"}
    /\ count.upsets < MaxUpsets
    /\ Raises(p)
    /\ Counts("upsets")
    /\ UNCHANGED <<raw, manifest, extractions, candidates, pages, index, log>>

Kill(p) ==
    /\ job[p] # Idle
    /\ count.upsets < MaxUpsets
    /\ LeavesAll(p)
    /\ upsets' = upsets \cup {"kill"}
    /\ Counts("upsets")
    /\ UNCHANGED <<raw, manifest, extractions, candidates, pages, index, log>>

Call(p) ==
    /\ count.calls < MaxCalls
    /\ \/ /\ \/ \E mode \in {"preview", "store"}, m \in Models, force \in BOOLEAN :
                   CallClassify(p, mode, m, force)
             \/ \E mode \in {"preview", "store"}, from \in DOMAIN extractions \cup {None},
                   s \in Slugs, m \in Models, force \in BOOLEAN :
                   CallSynthesize(p, mode, from, s, m, force)
          /\ Counts("calls")
          /\ UNCHANGED <<pages, index, log, upsets>>
       \/ CallCommit(p)
       \/ CallFix(p)
       \/ \E v \in Versions : CallIngest(p, v)
       \/ CallPrune(p)
       \/ \E c \in DOMAIN candidates : CallApply(p, c)

WriterStep(p) ==
    \/ ListPages(p) \/ LoadPages(p) \/ WriteIndex(p) \/ OpenPage(p) \/ AppendLog(p)
    \/ ChooseSlug(p) \/ FillAnswer(p)
    \/ CopyRaw(p) \/ ChoosePage(p) \/ FillSource(p) \/ SaveEntry(p)
    \/ UndoPage(p) \/ RefillPage(p) \/ UndoRaw(p)
    \/ DeletePages(p) \/ DeleteRaw(p) \/ DropEntry(p)
    \/ EnterApply(p) \/ CheckStale(p) \/ LookAtExisting(p) \/ ReadPrevious(p)
    \/ PutPage(p) \/ RestorePage(p)

Next == \E p \in Procs :
    \/ Call(p)
    \/ ArtifactStep(p) /\ UNCHANGED wikiVars
    \/ WriterStep(p)
    \/ Fault(p)
    \/ Kill(p)

\* The page of the source is there and indexed, and so may be that of the candidate.
Init ==
    /\ ArtifactsInit
    /\ \E applied \in SUBSET DOMAIN candidates :
          /\ \A c \in applied : candidates[c].slug # 1
          /\ pages = [s \in Slugs |->
                IF s = 1 THEN SourcePage(raw)
                ELSE IF \E c \in applied : candidates[c].slug = s
                     THEN CandidatePage(CHOOSE c \in applied : TRUE) ELSE None]
          /\ log = {[event |-> "apply", slug |-> candidates[c].slug, cand |-> c] : c \in applied}
    /\ index = pages
    /\ upsets = {}
    /\ count = [calls |-> 0, upsets |-> 0]

Spec == Init /\ [][Next]_vars

-----------------------------------------------------------------------------
(* Properties *)

Synthetic(page) ==
    /\ page.origin = "llm_wiki"
    /\ page.cand \in DOMAIN candidates /\ page.from = candidates[page.cand].from
    /\ page.from \in DOMAIN extractions /\ page.fp = extractions[page.from].fp
    /\ page.text = [extractions[page.from].text EXCEPT !.spaced = FALSE]

PageOK(page) ==
    \/ page \in {None, Torn}
    \/ page \in {SourcePage(v) : v \in Versions} \cup {AnswerPage(p) : p \in Procs}
    \/ Synthetic(page)

Unchanging(stored, later) ==
    \A i \in DOMAIN stored : i \in DOMAIN later /\ later[i] = stored[i]

\* An artifact that was stored is never written again: of two processes that
\* ask for the same, the later one finds what the first one stored, whatever
\* its own model answered (008 data-model.md:127, late writers reuse).
ArtifactsNeverChange ==
    [][Unchanging(extractions, extractions') /\ Unchanging(candidates, candidates')]_vars

\* While nobody ingests beside it, an apply writes a page only for the version
\* of the source that is in the manifest, and the page leads back to a stored
\* extraction of it (009 spec.md:64).
NoStalePage ==
    [][\A s \in Slugs : pages'[s] # pages[s] /\ IsPage(pages'[s]) /\ pages'[s].origin = "llm_wiki"
          /\ "overlap" \notin upsets'
          => /\ manifest # None /\ pages'[s].fp = manifest.fp
             /\ extractions[pages'[s].from].fp = manifest.fp]_vars

\* A page is an ingested source, an answer, or leads to a stored candidate and its
\* extraction and says what they do, with the frontmatter normalised.  One that was
\* applied is also spoken of in the log, unless its command is still at work on it,
\* was killed, or worked beside another (009 FR-018, "Apply Atomicity" in its
\* data-model.md).
Evidence ==
    \A s \in Slugs :
        /\ PageOK(pages[s])
        /\ upsets \cap {"overlap", "kill"} = {} /\ IsPage(pages[s])
             /\ pages[s].origin = "llm_wiki" =>
               \/ [event |-> "apply", slug |-> s, cand |-> pages[s].cand] \in log
               \/ \E p \in Procs : Applying(p) /\ Writing(p) /\ job[p].slug = s
               \/ \E p \in Procs : Writing(p) /\ job[p].prev = pages[s]

\* Whenever no command is at work on pages, the index lists exactly the pages
\* there are, with their present titles, also after steps that raised and were
\* undone.
IndexComplete ==
    upsets = {} /\ (\A p \in Procs : ~Writing(p)) => index = pages

\* As long as no apply is at work beside a holder of the runtime's lock, nothing
\* raised out of an ingest and nobody was killed: an answer is not overwritten or
\* deleted, a synthesized page only gives way to one of the same lineage or its own
\* undoing, and the page of the source only to ingest and prune (009 FR-011).
KeepsOthers ==
    [][upsets' = {} => \A s \in Slugs :
          LET old == pages[s]  new == pages'[s]
          IN  IsPage(old) /\ new # old =>
                 \/ /\ old.origin = "llm_wiki"
                    /\ \E p \in Procs : Applying(p) /\ Writing(p) /\ job[p].slug = s
                    /\ new = None \/ <<new.from, new.fp>> = <<old.from, old.fp>>
                 \/ /\ old.origin = "ingest"
                    /\ \E p \in Procs : job[p].op \in {"ingest", "prune"} /\ Writing(p)]_vars

\* An answer is never overwritten or deleted, whoever works beside whom: "any existing
\* target page whose origin is not llm_wiki MUST be treated as conflict and fail
\* closed" (009 FR-011).  An apply that looked before the answer was written overwrites
\* it.
AnswersKept ==
    [][\A s \in Slugs :
          IsPage(pages[s]) /\ pages[s].origin = "writeback" => pages'[s] = pages[s]]_vars

=============================================================================
