----------------------------- MODULE LlmArtifacts -----------------------------
(***************************************************************************)
(* The artifacts that language models leave (hks.llm, hks.wiki_synthesis): *)
(* `ks llm classify` reads a source and stores what the model extracts     *)
(* from it; `ks wiki synthesize` makes a candidate for a page out of such  *)
(* an extraction.  Both kinds are files named after a key, so that a       *)
(* repeated request finds what the first one stored, each kind behind a    *)
(* blocking flock of its own.                                              *)
(*                                                                         *)
(* The module holds the state of the artifacts and the steps of the        *)
(* commands.  WikiWriters composes it with the commands that write pages;  *)
(* its ingests change the source these commands read without a lock.       *)
(***************************************************************************)
EXTENDS Naturals, FiniteSets

CONSTANTS
    Procs,       \* the processes that call ks
    Versions,    \* contents of the one source: sha256 and parser fingerprint
    Models,      \* choices of prompt version, provider and model
    Slugs,       \* 1..n: the slugs that next_slug derives from one title
    None         \* nobody, nothing

VARIABLES
    raw,         \* the source's copy in raw_sources
    manifest,    \* its entry: fingerprint and page
    extractions, \* llm/extractions: a file for each id
    candidates,  \* llm/wiki-candidates: a file for each id
    lock,        \* who holds llm/.lock, .wiki-synthesis.lock, the runtime's .lock
    job          \* where each process stands

artifactVars == <<raw, manifest, extractions, candidates, lock, job>>

\* An id is the key, or the key and the time at which a new run was forced.
Base(key)   == [key |-> key, run |-> 0]
Forced(key, stored) == [key |-> key, run |-> Cardinality(DOMAIN stored) + 1]

\* What makes two requests the same.
ExtractionKey(model, fp)             == [model |-> model, fp |-> fp]
CandidateKey(from, fp, model, slug)  == [from |-> from, fp |-> fp, model |-> model, slug |-> slug]

\* What a model makes of a source: it depends on the version it read, and may
\* come out with runs of blanks in the summary (spaced) or without.
Texts == [of : Versions, spaced : BOOLEAN]

\* created_at is taken under the lock, so the files are ordered by it.
Extraction(fp, text, stored) == [fp |-> fp, text |-> text, created |-> Cardinality(DOMAIN stored)]

\* FakeWikiSynthesizer.synthesize: title, summary and body are a function of
\* the extraction; the slug is asked for, or that of the title.
Synthesized(from, slug) ==
    [from |-> from, fp |-> extractions[from].fp, slug |-> slug, text |-> extractions[from].text]

\* atomic_write of one file.
Put(files, id, content) ==
    [i \in DOMAIN files \cup {id} |-> IF i = id THEN content ELSE files[i]]

Idle == [op |-> "none", pc |-> "idle", mode |-> None, force |-> FALSE, model |-> None,
         fp |-> None, text |-> None, todo |-> {}, slug |-> None, from |-> None,
         prev |-> None, old |-> None, names |-> {}, next |-> None, catch |-> None]

At(p, op, pc) == job[p].op = op /\ job[p].pc = pc
Goes(p, pc)   == job' = [job EXCEPT ![p].pc = pc]
Ends(p)       == job' = [job EXCEPT ![p] = Idle]

\* blocking_file_lock: a process waits until the file is free.
Takes(p, file, pc) ==
    /\ lock[file] = None
    /\ lock' = [lock EXCEPT ![file] = p]
    /\ Goes(p, pc)

Frees(p, file) == lock' = [lock EXCEPT ![file] = None]

\* The source was ingested; nothing, an extraction, or a candidate as well was
\* stored since.
ArtifactsInit ==
    /\ raw \in Versions
    /\ manifest = [fp |-> raw, slug |-> 1]
    /\ \E model \in Models, spaced \in BOOLEAN :
          extractions \in
              {<<>>, Put(<<>>, Base(ExtractionKey(model, raw)),
                         Extraction(raw, [of |-> raw, spaced |-> spaced], <<>>))}
    /\ \/ candidates = <<>>
       \/ \E from \in DOMAIN extractions, slug \in Slugs :
             candidates = Put(<<>>, Base(CandidateKey(from, raw, from.key.model, slug)),
                              Synthesized(from, slug))
    /\ lock = [extraction |-> None, candidate |-> None, run |-> None]
    /\ job = [p \in Procs |-> Idle]

-----------------------------------------------------------------------------
(* ks llm classify *)

CallClassify(p, mode, model, force) ==
    /\ job[p] = Idle
    /\ job' = [job EXCEPT ![p] = [Idle EXCEPT !.op = "classify", !.pc = "resolve", !.mode = mode,
                                              !.model = model, !.force = force]]
    /\ UNCHANGED <<raw, manifest, extractions, candidates, lock>>

\* The entry gives the fingerprint.  NOINPUT without entry or raw copy.
Resolve(p) ==
    /\ At(p, "classify", "resolve")
    /\ IF manifest = None \/ raw = None THEN Ends(p)
       ELSE job' = [job EXCEPT ![p].pc = "read", ![p].fp = manifest.fp]
    /\ UNCHANGED <<raw, manifest, extractions, candidates, lock>>

\* The text comes from the raw copy, which an ingest may have replaced.
ReadSource(p) ==
    /\ At(p, "classify", "read")
    /\ IF raw = None THEN Ends(p)
       ELSE \E spaced \in BOOLEAN :
               job' = [job EXCEPT ![p].pc = "ask", ![p].text = [of |-> raw, spaced |-> spaced]]
    /\ UNCHANGED <<raw, manifest, extractions, candidates, lock>>

\* The provider's answer fails validation, or is kept if it is to be stored.
Ask(p) ==
    /\ At(p, "classify", "ask")
    /\ \/ Ends(p)
       \/ job[p].mode = "store" /\ Goes(p, "wait")
    /\ UNCHANGED <<raw, manifest, extractions, candidates, lock>>

\* Variant: the file is looked for and written without the lock.
EnterExtraction_Unlocked(p) ==
    /\ At(p, "classify", "wait")
    /\ Goes(p, "check")
    /\ UNCHANGED <<raw, manifest, extractions, candidates, lock>>

EnterExtraction(p) ==
    /\ At(p, "classify", "wait")
    /\ Takes(p, "extraction", "check")
    /\ UNCHANGED <<raw, manifest, extractions, candidates>>

ReuseExtraction(p) ==
    /\ At(p, "classify", "check")
    /\ ~job[p].force
    /\ Base(ExtractionKey(job[p].model, job[p].fp)) \in DOMAIN extractions
    /\ Frees(p, "extraction")
    /\ Ends(p)
    /\ UNCHANGED <<raw, manifest, extractions, candidates>>

NewExtraction(p) ==
    /\ At(p, "classify", "check")
    /\ job[p].force \/ Base(ExtractionKey(job[p].model, job[p].fp)) \notin DOMAIN extractions
    /\ Goes(p, "write")
    /\ UNCHANGED <<raw, manifest, extractions, candidates, lock>>

WriteExtraction(p) ==
    /\ At(p, "classify", "write")
    /\ LET key == ExtractionKey(job[p].model, job[p].fp)
           id  == IF job[p].force THEN Forced(key, extractions) ELSE Base(key)
       IN  extractions' = Put(extractions, id, Extraction(job[p].fp, job[p].text, extractions))
    /\ Frees(p, "extraction")
    /\ Ends(p)
    /\ UNCHANGED <<raw, manifest, candidates>>

-----------------------------------------------------------------------------
(* ks wiki synthesize, to preview or store a candidate *)

Newest(ids) == CHOOSE i \in ids : \A j \in ids : extractions[j].created <= extractions[i].created

\* from is the id of an extraction, or None to look for those of the source.
CallSynthesize(p, mode, from, slug, model, force) ==
    /\ job[p] = Idle
    /\ job' = [job EXCEPT ![p] = [Idle EXCEPT !.op = "synthesize", !.pc = "find", !.mode = mode,
                                              !.from = from, !.slug = slug, !.model = model,
                                              !.force = force]]
    /\ UNCHANGED <<raw, manifest, extractions, candidates, lock>>

\* NOINPUT if there is none.
ListExtractions(p) ==
    /\ At(p, "synthesize", "find")
    /\ LET found == {i \in DOMAIN extractions : job[p].from \in {None, i}}
       IN  IF found = {} THEN Ends(p)
           ELSE job' = [job EXCEPT ![p].pc = "fresh", ![p].todo = found]
    /\ UNCHANGED <<raw, manifest, extractions, candidates, lock>>

\* The newest that is not stale is taken; each is compared with the manifest
\* as it is when its turn comes.  NOINPUT if the source has no entry,
\* ARTIFACT_STALE if all are.  A preview, and a candidate that is not valid, end
\* the command.
CheckFresh(p) ==
    /\ At(p, "synthesize", "fresh")
    /\ LET id   == Newest(job[p].todo)
           rest == job[p].todo \ {id}
           fresh == manifest # None /\ extractions[id].fp = manifest.fp
       IN  \/ fresh /\ job[p].mode = "store"
              /\ job' = [job EXCEPT ![p].pc = "wait", ![p].from = id, ![p].todo = {}]
           \/ fresh /\ Ends(p)
           \/ ~fresh /\ (manifest = None \/ rest = {}) /\ Ends(p)
           \/ ~fresh /\ manifest # None /\ rest # {}
              /\ job' = [job EXCEPT ![p].todo = rest]
    /\ UNCHANGED <<raw, manifest, extractions, candidates, lock>>

WantedCandidate(p) ==
    CandidateKey(job[p].from, extractions[job[p].from].fp, job[p].model, job[p].slug)

EnterCandidate(p) ==
    /\ At(p, "synthesize", "wait")
    /\ Takes(p, "candidate", "check")
    /\ UNCHANGED <<raw, manifest, extractions, candidates>>

ReuseCandidate(p) ==
    /\ At(p, "synthesize", "check")
    /\ ~job[p].force
    /\ Base(WantedCandidate(p)) \in DOMAIN candidates
    /\ Frees(p, "candidate")
    /\ Ends(p)
    /\ UNCHANGED <<raw, manifest, extractions, candidates>>

NewCandidate(p) ==
    /\ At(p, "synthesize", "check")
    /\ job[p].force \/ Base(WantedCandidate(p)) \notin DOMAIN candidates
    /\ Goes(p, "write")
    /\ UNCHANGED <<raw, manifest, extractions, candidates, lock>>

WriteCandidate(p) ==
    /\ At(p, "synthesize", "write")
    /\ LET key == WantedCandidate(p)
           id  == IF job[p].force THEN Forced(key, candidates) ELSE Base(key)
       IN  candidates' = Put(candidates, id, Synthesized(job[p].from, job[p].slug))
    /\ Frees(p, "candidate")
    /\ Ends(p)
    /\ UNCHANGED <<raw, manifest, extractions>>

ArtifactStep(p) ==
    \/ Resolve(p) \/ ReadSource(p) \/ Ask(p)
    \/ EnterExtraction(p) \/ ReuseExtraction(p) \/ NewExtraction(p) \/ WriteExtraction(p)
    \/ ListExtractions(p) \/ CheckFresh(p)
    \/ EnterCandidate(p) \/ ReuseCandidate(p) \/ NewCandidate(p) \/ WriteCandidate(p)
=============================================================================
