------------------------------ MODULE Lint_proofs -----------------------------
(***************************************************************************)
(* What runs of ingest repair, what `ks lint` says and fixes, and what     *)
(* `ks source` shows, for any number of files, contents, faults, losses and *)
(* runs cut short: sources do not change while a run reads them            *)
(* (LintAssumption).                                                       *)
(***************************************************************************)
EXTENDS Lint, Catalog, IngestPipeline_proofs, SequenceTheorems

-----------------------------------------------------------------------------
(* What a run knows of sources that stay as they are *)

InRun == job.stage \notin {"idle", "fix"}

\* What the run works on is what the sources are.
StillInv ==
    /\ InRun => job.listed = {f \in Files : source[f] # Gone}
    /\ job.stage \in {"parse", "sweep"} \cup Transaction => job.sha = source[job.file]
    /\ job.stage \in {"sweep"} \cup Transaction => job.text = job.sha
    /\ job.stage \in {"forget"} \cup Removal /\ job.todo # {} => source[job.file] \in Blank

\* An entry with artifacts is of a text.
TextualInv ==
    /\ manifest # Lost =>
          \A f \in DOMAIN manifest : Derived(manifest[f]) => manifest[f].sha \in Textual
    /\ \A f \in DOMAIN mem : Derived(mem[f]) => mem[f].sha \in Textual

\* The sources a run is done with.
HealInv ==
    InRun => \A f \in Files \ job.todo :
        /\ source[f] \in Textual =>
              /\ f \in DOMAIN mem /\ mem[f].sha = source[f] /\ Derived(mem[f])
              /\ source[f] \notin again => source[f] \in DOMAIN disk.vectors
        /\ source[f] \in Blank \ Unreadable => f \notin DOMAIN mem

\* No page is torn.
WholeInv ==
    /\ \A s \in DOMAIN disk.pages : disk.pages[s] # Torn
    /\ job.stage \in Transaction =>
          \A s \in DOMAIN job.before.pages : job.before.pages[s] # Torn

\* The raw copies and pages that the manifest refers to, now and before.
Copied(pages, raw) ==
    \A f \in DOMAIN manifest :
        Derived(manifest[f]) /\ manifest[f].page \in DOMAIN pages => f \in DOMAIN raw

RawInv ==
    /\ manifest # Lost => Copied(disk.pages, disk.raw)
    /\ job.stage \in Transaction => Copied(job.before.pages, job.before.raw)
    /\ job.stage \in Removal =>
          job.file \in DOMAIN manifest /\ manifest[job.file] = job.existing
    /\ job.stage \in {"forget"} \cup Removal /\ job.stage # "unlink" =>
          job.existing.page \notin DOMAIN disk.pages

\* A source whose turn will rebuild the index, for a slug without a page.
Mends(f, s) ==
    /\ f \in DOMAIN disk.raw
    /\ job.stage \in Transaction => f \in DOMAIN job.before.raw
    /\ manifest # Lost =>
          f \in DOMAIN manifest /\ (Derived(manifest[f]) => manifest[f].page = s)
    /\ InRun =>
          /\ f \in DOMAIN mem \/ (job.stage \in {"unlink", "reindex"} /\ job.file = f)
          /\ f \in job.todo \/ f \notin job.listed \/ source[f] \in Unreadable \cup again

DeadInv ==
    /\ \A s \in disk.index \ DOMAIN disk.pages : \E f \in Files : Mends(f, s)
    /\ job.stage \in {"forget"} \cup (Removal \ {"unlink", "reindex"}) =>
          disk.index \subseteq DOMAIN disk.pages

-----------------------------------------------------------------------------
(* Sources that stay as they are *)

\* Initially no run is under way.
LEMMA StillInit == Init => StillInv
  <1> SUFFICES ASSUME Init PROVE StillInv
    OBVIOUS
  <1>1. job.stage = "idle"
    BY IdleIs DEF Init
  <1> QED
    BY <1>1 DEF StillInv, InRun, Transaction, Removal

\* The source in work stays what it was hashed as.
LEMMA StillStep ==
    ASSUME TypeInv, LocalsInv, StillInv, [Next]_vars
    PROVE  StillInv'
  <1> USE DEF Transaction, Removal, InRun
  <1>0. ASSUME EndRun PROVE StillInv'
    BY <1>0, Ending, IdleIs DEF StillInv
  \* Steps that keep the locals.
  <1>1. ASSUME LocalsKept, UNCHANGED source,
               \/ <<job.stage, job'.stage>> \in
                     {<<"tree", "copy">>, <<"copy", "page">>, <<"index", "graph">>,
                      <<"graph", "vector">>, <<"vector", "commit">>, <<"commit", "sweep">>,
                      <<"unlink", "reindex">>, <<"reindex", "detach">>,
                      <<"detach", "unembed">>, <<"unembed", "untree">>,
                      <<"untree", "unraw">>, <<"pick", "prune">>}
               \/ job.stage = "unraw" /\ job'.stage = "prune" /\ job.todo = {}
               \/ job.stage = "unraw" /\ job'.stage = "forget" /\ job.todo # {}
        PROVE  StillInv'
    BY <1>1 DEF LocalsKept, StillInv
  <1>2. ASSUME Moved, UNCHANGED source, InRun PROVE StillInv'
    BY <1>2 DEF Moved, StillInv
  <1>3. CASE UNCHANGED vars
    BY <1>3 DEF vars, StillInv
  <1>4. ASSUME NEW prune \in BOOLEAN, Start(prune) PROVE StillInv'
    BY <1>4, StartDoes DEF StillInv
  <1>5. CASE Examine
    <2>1. PICK f \in job.todo :
             \/ EndRun
             \/ job'.stage = "pick" /\ job'.listed = job.listed
             \/ /\ job'.stage = "parse" /\ job'.listed = job.listed
                /\ job'.file = f /\ job'.sha = source[f]
      BY <1>5, ExamineDoes
    <2>2. job.stage = "pick" /\ UNCHANGED source
      BY <1>5, ExamineDoes
    <2> QED
      BY <1>0, <2>1, <2>2 DEF StillInv
  <1>6. CASE Parse
    <2>1. job.stage = "parse" /\ UNCHANGED source /\ job.file \in job.todo
      BY <1>6, ParseDoes DEF LocalsInv
    <2>2. \/ EndRun
          \/ Moved
          \/ source[job.file] \in Blank /\ job'.stage = "unlink" /\ LocalsKept
          \/ /\ job'.stage = "tree" /\ job'.file = job.file /\ job'.sha = job.sha
             /\ job'.listed = job.listed /\ job'.text = source[job.file]
      BY <1>6, ParseDoes
    <2> QED
      BY <1>0, <1>2, <2>1, <2>2 DEF StillInv, LocalsKept
  <1>7. CASE SaveTree
    BY <1>1, <1>7, SaveTreeDoes
  <1>8. ASSUME Rollback PROVE StillInv'
    BY <1>0, <1>8 DEF Rollback
  <1>9. CASE CopyRaw
    BY <1>1, <1>8, <1>9, CopyRawDoes
  <1>10. CASE WritePage
    BY <1>10, WritePageDoes DEF StillInv
  <1>11. CASE RebuildIndex
    BY <1>1, <1>8, <1>11, RebuildIndexDoes
  <1>12. CASE ReplaceGraph
    BY <1>1, <1>12, ReplaceGraphDoes
  <1>13. CASE UpsertVectors
    BY <1>1, <1>13, UpsertVectorsDoes
  <1>14. CASE Commit
    BY <1>1, <1>14, CommitDoes
  <1>15. CASE Sweep
    BY <1>2, <1>15, SweepDoes
  <1>16. CASE Unlink
    BY <1>1, <1>16, UnlinkDoes
  <1>17. CASE Reindex
    BY <1>0, <1>1, <1>17, ReindexDoes
  <1>18. CASE Detach
    BY <1>1, <1>18, DetachDoes
  <1>19. CASE Unembed
    BY <1>1, <1>19, UnembedDoes
  <1>20. CASE Untree
    BY <1>1, <1>20, UntreeDoes
  <1>21. CASE Unraw
    BY <1>1, <1>21, UnrawDoes
  <1>22. CASE Forget
    BY <1>2, <1>22, ForgetDoes
  <1>23. CASE AllFilesDone
    BY <1>0, <1>1, <1>23, AllFilesDoneDoes
  <1>24. CASE Prune
    BY <1>24, PruneDoes DEF StillInv, LocalsInv
  <1>25. CASE Pruned
    BY <1>0, <1>25, PrunedDoes
  <1>26. CASE Fail
    BY <1>8, <1>26, FailDoes
  <1>27. ASSUME NEW f \in Files, NEW c \in Contents \cup {Gone}, Edit(f, c)
         PROVE  StillInv'
    BY <1>27, EditDoes, LintAssumption DEF StillInv
  <1>28. CASE CutShort
    BY <1>0, <1>28, CutShortDoes
  <1>29. CASE LoseManifest
    BY <1>29, LoseManifestDoes DEF StillInv
  <1> QED
    BY <1>3, <1>4, <1>5, <1>6, <1>7, <1>9, <1>10, <1>11, <1>12, <1>13, <1>14, <1>15,
       <1>16, <1>17, <1>18, <1>19, <1>20, <1>21, <1>22, <1>23, <1>24, <1>25, <1>26,
       <1>27, <1>28, <1>29 DEF Next, Ingest, DeleteArtifacts

-----------------------------------------------------------------------------
(* Sources that runs are done with *)

\* Most steps leave the manifest alone.
LEMMA ManifestKept ==
    ASSUME TypeInv, LocalsInv, [Next]_vars
    PROVE  \/ UNCHANGED manifest /\ (UNCHANGED mem \/ EndRun)
           \/ \E prune \in BOOLEAN : Start(prune)
           \/ Commit \/ Forget \/ Prune \/ Pruned \/ LoseManifest
  <1>1. Rollback => EndRun /\ UNCHANGED manifest
    BY DEF Rollback
  <1>2. Ingest /\ ~Commit => UNCHANGED manifest /\ (UNCHANGED mem \/ EndRun)
    BY <1>1 DEF Ingest, Examine, Parse, SaveTree, CopyRaw, WritePage, RebuildIndex,
                ReplaceGraph, UpsertVectors, Sweep, Write
  <1>3. DeleteArtifacts /\ ~Forget => UNCHANGED manifest /\ (UNCHANGED mem \/ EndRun)
    BY DEF DeleteArtifacts, Unlink, Reindex, Detach, Unembed, Untree, Unraw, Write
  <1>4. AllFilesDone => UNCHANGED manifest /\ (UNCHANGED mem \/ EndRun)
    BY DEF AllFilesDone
  <1>5. Fail \/ CutShort => UNCHANGED manifest /\ EndRun
    BY <1>1 DEF Fail, CutShort
  <1>6. (\E f \in Files, c \in Contents \cup {Gone} : Edit(f, c)) => UNCHANGED <<manifest, mem>>
    BY DEF Edit
  <1> QED
    BY <1>2, <1>3, <1>4, <1>5, <1>6 DEF Next, vars

\* Initially the manifest is empty.
LEMMA TextualInit == Init => TextualInv
  <1> SUFFICES ASSUME Init PROVE TextualInv
    OBVIOUS
  <1>1. manifest = Nothing /\ mem = Nothing /\ DOMAIN Nothing = {}
    BY NothingPartial DEF Init
  <1> HIDE DEF Nothing
  <1> QED
    BY <1>1 DEF TextualInv

\* Only what yields a text gets artifacts.
LEMMA TextualStep ==
    ASSUME TypeInv, LocalsInv, StillInv, TextualInv, [Next]_vars
    PROVE  TextualInv'
  <1>1. CASE UNCHANGED manifest /\ (UNCHANGED mem \/ EndRun)
    BY <1>1, Ending DEF TextualInv
  <1>2. ASSUME NEW prune \in BOOLEAN, Start(prune) PROVE TextualInv'
    <2>1. mem' = Resumed /\ manifest' = Resumed
      BY <1>2, StartDoes
    <2>2. ASSUME manifest = Lost, NEW f \in DOMAIN Resumed PROVE ~Derived(Resumed[f])
      BY <2>2 DEF Resumed, Entry, Derived
    <2>3. manifest # Lost => Resumed = manifest
      BY DEF Resumed
    <2> HIDE DEF Resumed
    <2> QED
      BY <2>1, <2>2, <2>3 DEF TextualInv
  <1>3. CASE Commit
    <2>1. job.stage = "commit" /\ mem' = Put(mem, job.file, Entry(job.sha, job.slug))
          /\ manifest' = mem'
      BY <1>3, CommitDoes
    <2>2. job.sha \in Textual
      BY <2>1 DEF StillInv, LocalsInv, Transaction
    <2>3. \A f \in DOMAIN mem' :
             \/ f \in DOMAIN mem /\ mem'[f] = mem[f]
             \/ mem'[f] = Entry(job.sha, job.slug)
      BY <2>1 DEF Put
    <2>4. Entry(job.sha, job.slug).sha = job.sha
      BY DEF Entry
    <2> QED
      BY <2>1, <2>2, <2>3, <2>4 DEF TextualInv
  <1>4. CASE Forget
    BY <1>4, ForgetDoes DEF TextualInv, Drop
  <1>5. CASE Prune
    <2>1. UNCHANGED manifest /\ \E f : mem' = Drop(mem, {f})
      BY <1>5, PruneDoes
    <2> QED
      BY <2>1 DEF TextualInv, Drop
  <1>6. CASE Pruned
    BY <1>6, PrunedDoes, Ending DEF TextualInv
  <1>7. CASE LoseManifest
    BY <1>7, LoseManifestDoes DEF TextualInv
  <1> QED
    BY <1>1, <1>2, <1>3, <1>4, <1>5, <1>6, <1>7, ManifestKept

\* Initially no run is under way.
LEMMA HealInit == Init => HealInv
  <1> SUFFICES ASSUME Init PROVE HealInv
    OBVIOUS
  <1>1. job.stage = "idle"
    BY IdleIs DEF Init
  <1> QED
    BY <1>1 DEF HealInv, InRun

\* No step takes the vectors of an unchanged source that is not in work.
LEMMA OwnVectors ==
    ASSUME TypeInv, ClaimsInv, NEW f \in DOMAIN mem, f # job.file, job.file \in Files,
           mem[f].sha \notin again
    PROVE  /\ mem[f].sha \in Contents
           /\ job.sha # None => mem[f].sha # job.sha
           /\ job.existing # None => mem[f].sha # job.existing.sha
  <1>1. f \in Files /\ mem[f].sha \in Contents
    BY EntryOf, EntryHas DEF TypeInv
  <1>2. Owns(f, mem[f].sha)
    BY DEF Owns
  <1>3. ~Owns(job.file, mem[f].sha)
    <2> HIDE DEF Owns
    <2> QED
      BY <1>1, <1>2 DEF ClaimsInv
  <1> QED
    BY <1>1, <1>3 DEF Owns

\* What a run is done with stays so: a text is in the manifest with vectors of its
\* hash, a blank source is not.
LEMMA HealStep ==
    ASSUME TypeInv, LocalsInv, ClaimsInv, MemInv, DoneInv, StillInv, TextualInv, HealInv,
           [Next]_vars
    PROVE  HealInv'
  <1> USE DEF Transaction, Removal, InRun
  <1> DEFINE Healed(f) ==
                /\ source[f] \in Textual =>
                      /\ f \in DOMAIN mem /\ mem[f].sha = source[f] /\ Derived(mem[f])
                      /\ source[f] \notin again => source[f] \in DOMAIN disk.vectors
                /\ source[f] \in Blank \ Unreadable => f \notin DOMAIN mem
  <1>0. ASSUME EndRun PROVE HealInv'
    BY <1>0, Ending, IdleIs DEF HealInv
  \* Steps that go on with the file and keep the vectors.
  <1>1. ASSUME UNCHANGED <<source, again, mem>>, job'.todo = job.todo, disk'.vectors = disk.vectors,
               InRun
        PROVE  HealInv'
    BY <1>1 DEF HealInv, Derived
  <1>2. ASSUME NEW f, UNCHANGED <<source, again, mem>>, job'.todo = job.todo \ {f},
               disk'.vectors = disk.vectors, InRun, Healed(f)
        PROVE  HealInv'
    BY <1>2 DEF HealInv, Derived
  <1>3. CASE UNCHANGED vars
    BY <1>3 DEF vars, HealInv, Derived
  <1>4. ASSUME NEW prune \in BOOLEAN, Start(prune) PROVE HealInv'
    <2>1. job'.todo = {f \in Files : source[f] # Gone} /\ UNCHANGED source
      BY <1>4, StartDoes
    <2>2. \A f \in Files \ job'.todo : source'[f] = Gone /\ Gone \notin Contents
      BY <2>1, IngestAssumption
    <2>3. Textual \subseteq Contents /\ Blank \subseteq Contents
      BY IngestAssumption DEF Textual
    <2> QED
      BY <2>2, <2>3 DEF HealInv
  <1>5. CASE Examine
    <2>1. job.stage = "pick" /\ UNCHANGED <<source, again, disk>>
      BY <1>5, ExamineDoes
    <2>2. PICK f \in job.todo :
             \/ EndRun
             \/ /\ f \in DOMAIN mem /\ CanSkip(mem[f], source[f])
                /\ job'.todo = job.todo \ {f} /\ UNCHANGED mem
             \/ job'.todo = job.todo /\ UNCHANGED mem
      BY <1>5, ExamineDoes
    <2>3. ASSUME f \in DOMAIN mem, CanSkip(mem[f], source[f]) PROVE Healed(f)
      <3>1. source[f] \in Textual
        BY <2>3 DEF CanSkip, TextualInv
      <3> QED
        BY <2>3, <3>1 DEF Textual, CanSkip
    <2> QED
      BY <1>0, <1>1, <1>2, <2>1, <2>2, <2>3
  <1>6. CASE Parse
    <2>1. job.stage = "parse" /\ UNCHANGED <<source, again, disk>> /\ job.file \in Files
      BY <1>6, ParseDoes DEF LocalsInv
    <2>2. \/ EndRun
          \/ /\ source[job.file] \in Unreadable \cup Blank
             /\ Moved /\ UNCHANGED mem
             /\ source[job.file] \in Blank \ Unreadable => job.existing = None
          \/ job'.todo = job.todo /\ UNCHANGED mem
      BY <1>6, ParseDoes DEF LocalsKept
    <2>3. ASSUME source[job.file] \in Unreadable \cup Blank,
                 source[job.file] \in Blank \ Unreadable => job.existing = None
          PROVE  Healed(job.file)
      <3>1. source[job.file] \notin Textual
        BY <2>3 DEF Textual
      <3>2. job.existing = IF job.file \in DOMAIN mem THEN mem[job.file] ELSE None
        BY <2>1 DEF MemInv
      <3>3. job.existing = None => job.file \notin DOMAIN mem
        BY <3>2, EntryOf, EntryHas DEF TypeInv
      <3> QED
        BY <2>3, <3>1, <3>3
    <2> QED
      BY <1>0, <1>1, <1>2, <2>1, <2>2, <2>3 DEF Moved
  <1>7. CASE SaveTree
    BY <1>1, <1>7, SaveTreeDoes DEF LocalsKept
  <1>8. ASSUME Rollback PROVE HealInv'
    BY <1>0, <1>8 DEF Rollback
  <1>9. CASE CopyRaw
    BY <1>1, <1>8, <1>9, CopyRawDoes DEF LocalsKept
  <1>10. CASE WritePage
    BY <1>1, <1>10, WritePageDoes
  <1>11. CASE RebuildIndex
    BY <1>1, <1>8, <1>11, RebuildIndexDoes DEF LocalsKept
  <1>12. CASE ReplaceGraph
    BY <1>1, <1>12, ReplaceGraphDoes DEF LocalsKept
  <1>13. CASE UpsertVectors
    <2>1. /\ job.stage = "vector" /\ UNCHANGED <<source, again, mem>> /\ job'.todo = job.todo
          /\ disk'.vectors = Put(disk.vectors, job.sha, Artifact(job.file, job.text))
      BY <1>13, UpsertVectorsDoes DEF LocalsKept
    <2>2. DOMAIN disk.vectors \subseteq DOMAIN disk'.vectors
      BY <2>1 DEF Put
    <2> QED
      BY <2>1, <2>2 DEF HealInv, Derived
  <1>14. CASE Commit
    <2>1. /\ job.stage = "commit" /\ job'.todo = job.todo /\ UNCHANGED <<source, again, disk>>
          /\ mem' = Put(mem, job.file, Entry(job.sha, job.slug))
      BY <1>14, CommitDoes DEF LocalsKept
    <2>2. job.file \in job.todo
      BY <2>1 DEF LocalsInv
    <2>3. \A f \in Files \ job.todo : /\ f \in DOMAIN mem' <=> f \in DOMAIN mem
                                      /\ f \in DOMAIN mem => mem'[f] = mem[f]
      BY <2>1, <2>2 DEF Put
    <2> QED
      BY <2>1, <2>3 DEF HealInv, Derived
  <1>15. CASE Sweep
    <2>1. /\ job.stage = "sweep" /\ Moved /\ UNCHANGED <<source, again, mem>>
          /\ disk'.vectors = Drop(disk.vectors, StaleVectors)
      BY <1>15, SweepDoes
    <2>2. job.file \in Files /\ job.sha \in Contents
      BY <2>1 DEF LocalsInv
    <2>3. ASSUME NEW f \in Files \ job.todo', source[f] \in Textual
          PROVE  /\ f \in DOMAIN mem /\ mem[f].sha = source[f] /\ Derived(mem[f])
                 /\ source[f] \notin again => source[f] \in DOMAIN disk.vectors
      <3>1. CASE f = job.file
        <4>1. f \in DOMAIN mem /\ mem[f] = Entry(job.sha, job.slug)
              /\ job.slug \in Slugs /\ job.sha \in DOMAIN disk.vectors
              /\ job.sha = source[f]
          BY <2>1, <3>1 DEF MemInv, LocalsInv, DoneInv, StillInv, PastPage, PastVector,
                            PastIndex, PastGraph
        <4>2. Entry(job.sha, job.slug).sha = job.sha /\ Entry(job.sha, job.slug).page = job.slug
          BY DEF Entry
        <4>3. None \notin Slugs
          BY MarksAssumption
        <4> QED
          BY <4>1, <4>2, <4>3 DEF Derived
      <3>2. CASE f # job.file
        BY <2>1, <2>3, <3>2 DEF HealInv, Moved
      <3> QED
        BY <3>1, <3>2
    <2>4. ASSUME NEW f \in DOMAIN mem, mem[f].sha \notin again
          PROVE  mem[f].sha \notin StaleVectors
      <3>1. CASE f = job.file
        <4>1. mem[f] = Entry(job.sha, job.slug)
          BY <2>1, <3>1 DEF MemInv
        <4> QED
          BY <4>1 DEF StaleVectors, Entry
      <3>2. CASE f # job.file
        BY <2>2, <2>4, <3>2, OwnVectors DEF StaleVectors, HasEntry
      <3> QED
        BY <3>1, <3>2
    <2>5. ASSUME NEW f \in Files \ job.todo', source[f] \in Blank \ Unreadable
          PROVE  f \notin DOMAIN mem
      <3>1. CASE f = job.file
        BY <2>1, <2>5, <3>1 DEF StillInv, LocalsInv, Textual
      <3>2. CASE f # job.file
        BY <2>1, <2>5, <3>2 DEF HealInv, Moved
      <3> QED
        BY <3>1, <3>2
    <2> QED
      BY <2>1, <2>3, <2>4, <2>5 DEF HealInv, Derived, Drop
  <1>16. CASE Unlink
    BY <1>1, <1>16, UnlinkDoes DEF LocalsKept
  <1>17. CASE Reindex
    BY <1>0, <1>1, <1>17, ReindexDoes DEF LocalsKept
  <1>18. CASE Detach
    BY <1>1, <1>18, DetachDoes DEF LocalsKept
  <1>19. CASE Unembed
    <2>1. /\ job.stage = "unembed" /\ UNCHANGED <<source, again, mem>> /\ job'.todo = job.todo
          /\ disk'.vectors = IF Derived(job.existing)
                             THEN Drop(disk.vectors, {job.existing.sha}) ELSE disk.vectors
      BY <1>19, UnembedDoes DEF LocalsKept
    <2>2. job.file \in Files /\ job.existing \in Entries
      BY <2>1 DEF LocalsInv
    <2>3. ASSUME NEW f \in Files \ job.todo, source[f] \in Textual
          PROVE  f # job.file
      BY <2>1, <2>3 DEF HealInv, MemInv, LocalsInv
    <2>4. ASSUME NEW f \in DOMAIN mem, f # job.file, mem[f].sha \notin again
          PROVE  mem[f].sha # job.existing.sha
      BY <2>2, <2>4, OwnVectors, EntryHas
    <2> QED
      BY <2>1, <2>3, <2>4 DEF HealInv, Derived, Drop
  <1>20. CASE Untree
    BY <1>1, <1>20, UntreeDoes DEF LocalsKept
  <1>21. CASE Unraw
    BY <1>1, <1>21, UnrawDoes DEF LocalsKept
  <1>22. CASE Forget
    <2>1. /\ job.stage = "forget" /\ Moved /\ UNCHANGED <<source, again, disk>>
          /\ mem' = Drop(mem, {job.file})
      BY <1>22, ForgetDoes
    <2>2. source[job.file] \notin Textual
      BY <2>1 DEF StillInv, LocalsInv, Textual
    <2> QED
      BY <2>1, <2>2 DEF HealInv, Derived, Drop, Moved
  <1>23. CASE AllFilesDone
    BY <1>0, <1>1, <1>23, AllFilesDoneDoes DEF LocalsKept
  <1>24. CASE Prune
    <2>1. job.stage = "prune" /\ UNCHANGED <<source, again, disk>> /\ job'.todo = job.todo
      BY <1>24, PruneDoes
    <2>2. PICK f \in DOMAIN mem \ job.listed : mem' = Drop(mem, {f})
      BY <1>24, PruneDoes
    <2>3. f \in Files /\ source[f] \notin Textual
      <3>1. f \in Files
        BY <2>2, EntryOf DEF TypeInv
      <3>2. source[f] = Gone
        BY <2>1, <2>2, <3>1 DEF StillInv
      <3> QED
        BY <3>1, <3>2, IngestAssumption DEF Textual
    <2> QED
      BY <2>1, <2>2, <2>3 DEF HealInv, Derived, Drop
  <1>25. CASE Pruned
    BY <1>0, <1>25, PrunedDoes
  <1>26. CASE Fail
    BY <1>8, <1>26, FailDoes
  <1>27. ASSUME NEW f \in Files, NEW c \in Contents \cup {Gone}, Edit(f, c)
         PROVE  HealInv'
    BY <1>27, EditDoes, LintAssumption DEF HealInv
  <1>28. CASE CutShort
    BY <1>0, <1>28, CutShortDoes
  <1>29. CASE LoseManifest
    BY <1>29, LoseManifestDoes DEF HealInv
  <1> QED
    BY <1>3, <1>4, <1>5, <1>6, <1>7, <1>9, <1>10, <1>11, <1>12, <1>13, <1>14, <1>15,
       <1>16, <1>17, <1>18, <1>19, <1>20, <1>21, <1>22, <1>23, <1>24, <1>25, <1>26,
       <1>27, <1>28, <1>29 DEF Next, Ingest, DeleteArtifacts

-----------------------------------------------------------------------------
(* Pages and raw copies *)

\* A run that is cut short without leaving a page half written changes no layer.
LEMMA CutShortKeeps ==
    ASSUME ~TornWrites, CutShort
    PROVE  UNCHANGED disk
    BY DEF CutShort

\* Initially there are no pages.
LEMMA WholeInit == Init => WholeInv
  <1> SUFFICES ASSUME Init PROVE WholeInv
    OBVIOUS
  <1>1. job.stage = "idle" /\ DOMAIN disk.pages = {}
    BY IdleIs, EmptyDiskType DEF Init
  <1> QED
    BY <1>1 DEF WholeInv, Transaction

\* Pages are written whole.
LEMMA WholeStep ==
    ASSUME TypeInv, LocalsInv, BeforeInv, WholeInv, ~TornWrites, "index" \notin FaultPoints,
           [Next]_vars
    PROVE  WholeInv'
  <1> USE DEF Transaction
  \* Steps that take no page away and write none.
  <1>1. ASSUME disk'.pages = disk.pages,
               \/ job'.stage \notin Transaction
               \/ job.stage \in Transaction /\ job'.before = job.before
               \/ job'.before = disk
        PROVE  WholeInv'
    BY <1>1 DEF WholeInv
  <1>2. ASSUME job'.stage \notin Transaction, NEW K, disk'.pages = Drop(disk.pages, K)
        PROVE  WholeInv'
    BY <1>2 DEF WholeInv, Drop
  <1>3. CASE UNCHANGED vars
    BY <1>3 DEF vars, WholeInv
  <1>4. ASSUME NEW prune \in BOOLEAN, Start(prune) PROVE WholeInv'
    BY <1>1, <1>4, StartDoes
  <1>5. ASSUME EndRun PROVE job'.stage \notin Transaction
    BY <1>5, Ending, IdleIs
  <1>6. CASE Examine
    BY <1>1, <1>5, <1>6, ExamineDoes
  <1>7. CASE Parse
    <2>1. \/ EndRun \/ Moved
          \/ job'.stage = "unlink" \/ job'.before = disk
      BY <1>7, ParseDoes
    <2>2. disk'.pages = disk.pages
      BY <1>7, ParseDoes
    <2> QED
      BY <1>1, <1>5, <2>1, <2>2 DEF Moved
  <1>8. CASE SaveTree
    BY <1>1, <1>8, SaveTreeDoes DEF LocalsKept
  <1>9. ASSUME Rollback, job.stage \in Transaction, job.stage # "index" PROVE WholeInv'
    <2>1. disk'.pages = job.before.pages
      BY <1>9, RollbackDoes, RestoredRawAndPages
    <2>2. job'.stage \notin Transaction
      BY <1>5, <1>9, RollbackDoes
    <2> QED
      BY <1>9, <2>1, <2>2 DEF WholeInv
  <1>10. CASE CopyRaw
    BY <1>1, <1>9, <1>10, CopyRawDoes DEF LocalsKept
  <1>11. CASE WritePage
    <2>1. /\ job.stage = "page" /\ job'.before = job.before
          /\ disk'.pages = Put(disk.pages, PageSlug, Artifact(job.file, job.text))
      BY <1>11, WritePageDoes
    <2>2. Artifact(job.file, job.text) # Torn
      <3>1. job.file \in Files /\ job.text \in Contents
        BY <2>1, TextualIsContent DEF LocalsInv
      <3> QED
        BY <3>1, ArtifactType, MarksAssumption
    <2> QED
      BY <2>1, <2>2 DEF WholeInv, Put
  <1>12. CASE RebuildIndex
    <2>1. Indexable
      BY DEF WholeInv, Indexable
    <2> QED
      BY <1>1, <1>12, <2>1, RebuildIndexDoes DEF LocalsKept
  <1>13. CASE ReplaceGraph
    BY <1>1, <1>13, ReplaceGraphDoes DEF LocalsKept
  <1>14. CASE UpsertVectors
    BY <1>1, <1>14, UpsertVectorsDoes DEF LocalsKept
  <1>15. CASE Commit
    BY <1>1, <1>15, CommitDoes
  <1>16. CASE Sweep
    BY <1>2, <1>16, SweepDoes DEF Moved
  <1>17. CASE Unlink
    BY <1>2, <1>17, UnlinkDoes
  <1>18. CASE Reindex
    BY <1>1, <1>5, <1>18, ReindexDoes
  <1>19. CASE Detach
    BY <1>1, <1>19, DetachDoes
  <1>20. CASE Unembed
    BY <1>1, <1>20, UnembedDoes
  <1>21. CASE Untree
    BY <1>1, <1>21, UntreeDoes
  <1>22. CASE Unraw
    BY <1>1, <1>22, UnrawDoes
  <1>23. CASE Forget
    BY <1>1, <1>23, ForgetDoes DEF Moved
  <1>24. CASE AllFilesDone
    BY <1>1, <1>5, <1>24, AllFilesDoneDoes
  <1>25. CASE Prune
    BY <1>1, <1>25, PruneDoes
  <1>26. CASE Pruned
    BY <1>1, <1>5, <1>26, PrunedDoes
  <1>27. CASE Fail
    BY <1>9, <1>27, FailDoes
  <1>28. ASSUME NEW f \in Files, NEW c \in Contents \cup {Gone}, Edit(f, c)
         PROVE  WholeInv'
    BY <1>28, EditDoes DEF WholeInv
  <1>29. CASE CutShort
    BY <1>1, <1>5, <1>29, CutShortDoes, CutShortKeeps
  <1>30. CASE LoseManifest
    BY <1>30, LoseManifestDoes DEF WholeInv
  <1> QED
    BY <1>3, <1>4, <1>6, <1>7, <1>8, <1>10, <1>11, <1>12, <1>13, <1>14, <1>15,
       <1>16, <1>17, <1>18, <1>19, <1>20, <1>21, <1>22, <1>23, <1>24, <1>25, <1>26,
       <1>27, <1>28, <1>29, <1>30 DEF Next, Ingest, DeleteArtifacts

\* Initially no source is in the manifest.
LEMMA RawInit == Init => RawInv
  <1> SUFFICES ASSUME Init PROVE RawInv
    OBVIOUS
  <1>1. manifest = Nothing /\ DOMAIN Nothing = {} /\ job.stage = "idle"
    BY NothingPartial, IdleIs DEF Init
  <1> HIDE DEF Nothing
  <1> QED
    BY <1>1 DEF RawInv, Copied, Transaction, Removal

\* The page a run writes is that of no other entry.
LEMMA PageIsOwn ==
    ASSUME TypeInv, LocalsInv, TitleInv, TitlesApart, manifest # Lost, job.stage = "page",
           NEW g \in DOMAIN manifest, Derived(manifest[g]), manifest[g].page = PageSlug
    PROVE  g = job.file
  <1>1. g \in Files /\ manifest[g].page[1] = TitleOf[g]
    BY EntryOf DEF TypeInv, TitleInv
  <1>2. job.file \in Files
    BY DEF LocalsInv, Transaction
  <1>3. PageSlug[1] = TitleOf[job.file]
    BY <1>2, PageSlugIs DEF TitleInv
  <1> QED
    BY <1>1, <1>2, <1>3 DEF TitlesApart

\* A source whose page is there has its raw copy: a copy is made before the page
\* and removed after it.
LEMMA RawStep ==
    ASSUME TypeInv, LocalsInv, MemInv, DoneInv, BeforeInv, TitleInv, WholeInv, RawInv,
           TitlesApart, ~TornWrites, "index" \notin FaultPoints, [Next]_vars
    PROVE  RawInv'
  <1> USE DEF Transaction, Removal
  \* The run ends, or goes to the next file.
  <1>0. ASSUME job'.stage \in {"idle", "pick", "prune", "parse"}, UNCHANGED manifest,
               disk'.pages = disk.pages, disk'.raw = disk.raw
        PROVE  RawInv'
    BY <1>0 DEF RawInv, Copied
  \* Steps on other layers.
  <1>1. ASSUME LocalsKept, UNCHANGED manifest, disk'.pages = disk.pages, disk'.raw = disk.raw,
               \/ <<job.stage, job'.stage>> \in
                     {<<"tree", "copy">>, <<"index", "graph">>, <<"graph", "vector">>,
                      <<"vector", "commit">>, <<"reindex", "detach">>,
                      <<"detach", "unembed">>, <<"unembed", "untree">>,
                      <<"untree", "unraw">>}
        PROVE  RawInv'
    BY <1>1 DEF LocalsKept, RawInv, Copied
  <1>2. ASSUME EndRun PROVE job'.stage = "idle"
    BY <1>2, Ending, IdleIs
  <1>3. CASE UNCHANGED vars
    BY <1>3 DEF vars, RawInv, Copied
  <1>4. ASSUME NEW prune \in BOOLEAN, Start(prune) PROVE RawInv'
    <2>1. job'.stage = "pick" /\ UNCHANGED disk /\ manifest' = Resumed
      BY <1>4, StartDoes
    <2>2. ASSUME manifest = Lost, NEW f \in DOMAIN Resumed PROVE ~Derived(Resumed[f])
      BY <2>2 DEF Resumed, Entry, Derived
    <2>3. manifest # Lost => Resumed = manifest
      BY DEF Resumed
    <2> HIDE DEF Resumed
    <2> QED
      BY <2>1, <2>2, <2>3 DEF RawInv, Copied
  <1>5. CASE Examine
    BY <1>0, <1>2, <1>5, ExamineDoes
  <1>6. CASE Parse
    <2>1. job.stage = "parse" /\ UNCHANGED <<disk, manifest>>
      BY <1>6, ParseDoes
    <2>2. \/ EndRun \/ Moved
          \/ job.existing # None /\ job'.stage = "unlink" /\ LocalsKept
          \/ job'.stage = "tree" /\ job'.before = disk
      BY <1>6, ParseDoes
    <2>3. manifest # Lost /\ mem = manifest
          /\ job.existing = IF job.file \in DOMAIN mem THEN mem[job.file] ELSE None
      BY <2>1 DEF MemInv
    <2>4. CASE EndRun \/ Moved
      BY <1>0, <1>2, <2>1, <2>4 DEF Moved
    <2>5. CASE job.existing # None /\ job'.stage = "unlink" /\ LocalsKept
      BY <2>1, <2>3, <2>5 DEF LocalsKept, RawInv, Copied
    <2>6. CASE job'.stage = "tree" /\ job'.before = disk
      BY <2>1, <2>3, <2>6 DEF RawInv, Copied
    <2> QED
      BY <2>2, <2>4, <2>5, <2>6
  <1>7. CASE SaveTree
    BY <1>1, <1>7, SaveTreeDoes
  <1>8. ASSUME Rollback, job.stage \in Transaction, job.stage # "index" PROVE RawInv'
    <2>1. disk'.pages = job.before.pages /\ disk'.raw = job.before.raw
      BY <1>8, RollbackDoes, RestoredRawAndPages
    <2>2. job'.stage = "idle" /\ UNCHANGED manifest
      BY <1>2, <1>8, RollbackDoes
    <2> QED
      BY <1>8, <2>1, <2>2 DEF RawInv, Copied
  <1>9. CASE CopyRaw
    <2>1. CASE Rollback
      BY <1>8, <1>9, <2>1, CopyRawDoes
    <2>2. CASE ~Rollback
      <3>1. /\ job.stage = "copy" /\ job'.stage = "page" /\ LocalsKept
            /\ UNCHANGED manifest /\ disk'.pages = disk.pages
            /\ disk'.raw = Put(disk.raw, job.file, source[job.file])
        BY <1>9, <2>2, CopyRawDoes
      <3>2. DOMAIN disk.raw \subseteq DOMAIN disk'.raw
        BY <3>1 DEF Put
      <3> QED
        BY <3>1, <3>2 DEF RawInv, Copied, LocalsKept
    <2> QED
      BY <2>1, <2>2
  <1>10. CASE WritePage
    <2>1. /\ job.stage = "page" /\ job'.stage = "index" /\ job'.before = job.before
          /\ disk'.pages = Put(disk.pages, PageSlug, Artifact(job.file, job.text))
          /\ disk'.raw = disk.raw /\ UNCHANGED manifest
      BY <1>10, WritePageDoes
    <2>2. job.file \in DOMAIN disk.raw
      BY <2>1 DEF DoneInv, PastCopy
    <2>3. ASSUME manifest # Lost, NEW g \in DOMAIN manifest, Derived(manifest[g]),
                 manifest[g].page \in DOMAIN disk'.pages
          PROVE  g \in DOMAIN disk.raw
      <3>1. CASE manifest[g].page = PageSlug
        BY <2>1, <2>2, <2>3, <3>1, PageIsOwn
      <3>2. CASE manifest[g].page # PageSlug
        <4>1. manifest[g].page \in DOMAIN disk.pages
          BY <2>1, <2>3, <3>2 DEF Put
        <4> QED
          BY <2>3, <4>1 DEF RawInv, Copied
      <3> QED
        BY <3>1, <3>2
    <2> QED
      BY <2>1, <2>3 DEF RawInv, Copied
  <1>11. CASE RebuildIndex
    <2>1. Indexable
      BY DEF WholeInv, Indexable
    <2> QED
      BY <1>1, <1>11, <2>1, RebuildIndexDoes
  <1>12. CASE ReplaceGraph
    BY <1>1, <1>12, ReplaceGraphDoes
  <1>13. CASE UpsertVectors
    BY <1>1, <1>13, UpsertVectorsDoes
  <1>14. CASE Commit
    <2>1. /\ job.stage = "commit" /\ job'.stage = "sweep" /\ UNCHANGED disk
          /\ manifest' = Put(mem, job.file, Entry(job.sha, job.slug))
      BY <1>14, CommitDoes
    <2>2. manifest # Lost /\ mem = manifest /\ job.file \in DOMAIN disk.raw
      BY <2>1 DEF MemInv, DoneInv, PastCopy, PastPage, PastIndex, PastGraph, PastVector
    <2>3. \A g \in DOMAIN manifest' \ {job.file} :
             g \in DOMAIN manifest /\ manifest'[g] = manifest[g]
      BY <2>1, <2>2 DEF Put
    <2> QED
      BY <2>1, <2>2, <2>3 DEF RawInv, Copied
  <1>15. CASE Sweep
    <2>1. /\ job'.stage = "pick" /\ disk'.raw = disk.raw /\ UNCHANGED manifest
          /\ disk'.pages = Drop(disk.pages, StalePages)
      BY <1>15, SweepDoes DEF Moved
    <2>2. DOMAIN disk'.pages \subseteq DOMAIN disk.pages
      BY <2>1 DEF Drop
    <2> QED
      BY <2>1, <2>2 DEF RawInv, Copied
  <1>16. CASE Unlink
    <2>1. /\ job.stage = "unlink" /\ job'.stage = "reindex" /\ LocalsKept
          /\ disk'.pages = Drop(disk.pages, {job.existing.page})
          /\ disk'.raw = disk.raw /\ UNCHANGED manifest
      BY <1>16, UnlinkDoes
    <2>2. DOMAIN disk'.pages = DOMAIN disk.pages \ {job.existing.page}
      BY <2>1 DEF Drop
    <2> QED
      BY <2>1, <2>2 DEF RawInv, Copied, LocalsKept
  <1>17. CASE Reindex
    BY <1>0, <1>1, <1>2, <1>17, ReindexDoes
  <1>18. CASE Detach
    BY <1>1, <1>18, DetachDoes
  <1>19. CASE Unembed
    BY <1>1, <1>19, UnembedDoes
  <1>20. CASE Untree
    BY <1>1, <1>20, UntreeDoes
  <1>21. CASE Unraw
    <2>1. /\ job.stage = "unraw" /\ job'.stage \in {"prune", "forget"} /\ LocalsKept
          /\ disk'.raw = Drop(disk.raw, {job.file})
          /\ disk'.pages = disk.pages /\ UNCHANGED manifest
      BY <1>21, UnrawDoes
    <2>2. DOMAIN disk'.raw = DOMAIN disk.raw \ {job.file}
      BY <2>1 DEF Drop
    <2> QED
      BY <2>1, <2>2 DEF RawInv, Copied, LocalsKept
  <1>22. CASE Forget
    <2>1. job.stage = "forget" /\ job'.stage = "pick" /\ UNCHANGED disk
          /\ manifest' = Drop(mem, {job.file})
      BY <1>22, ForgetDoes DEF Moved
    <2>2. mem = manifest /\ manifest # Lost
      BY <2>1 DEF MemInv
    <2> QED
      BY <2>1, <2>2 DEF RawInv, Copied, Drop
  <1>23. CASE AllFilesDone
    BY <1>0, <1>2, <1>23, AllFilesDoneDoes
  <1>24. CASE Prune
    <2>1. job.stage = "prune" /\ UNCHANGED <<disk, manifest>>
      BY <1>24, PruneDoes
    <2>2. PICK f \in DOMAIN mem :
             job'.stage = "unlink" /\ job'.file = f /\ job'.existing = mem[f]
      BY <1>24, PruneDoes
    <2>3. f \in DOMAIN manifest /\ manifest[f] = mem[f] /\ manifest # Lost
      BY <2>1 DEF MemInv
    <2> QED
      BY <2>1, <2>2, <2>3 DEF RawInv, Copied
  <1>25. CASE Pruned
    <2>1. job.stage = "prune" /\ manifest' = mem /\ UNCHANGED disk /\ job'.stage = "idle"
      BY <1>2, <1>25, PrunedDoes
    <2>2. \A f \in DOMAIN mem : f \in DOMAIN manifest /\ manifest[f] = mem[f]
      BY <2>1 DEF MemInv
    <2>3. manifest # Lost
      BY <2>1 DEF MemInv
    <2> QED
      BY <2>1, <2>2, <2>3 DEF RawInv, Copied
  <1>26. CASE Fail
    BY <1>8, <1>26, FailDoes
  <1>27. ASSUME NEW f \in Files, NEW c \in Contents \cup {Gone}, Edit(f, c)
         PROVE  RawInv'
    BY <1>27, EditDoes DEF RawInv, Copied
  <1>28. CASE CutShort
    BY <1>0, <1>2, <1>28, CutShortDoes, CutShortKeeps
  <1>29. CASE LoseManifest
    BY <1>29, LoseManifestDoes DEF RawInv
  <1> QED
    BY <1>3, <1>4, <1>5, <1>6, <1>7, <1>9, <1>10, <1>11, <1>12, <1>13, <1>14, <1>15,
       <1>16, <1>17, <1>18, <1>19, <1>20, <1>21, <1>22, <1>23, <1>24, <1>25, <1>26,
       <1>27, <1>28, <1>29 DEF Next, Ingest, DeleteArtifacts

-----------------------------------------------------------------------------
(* Dead links of the index *)

\* Initially the index is empty.
LEMMA DeadInit == Init => DeadInv
  <1> SUFFICES ASSUME Init PROVE DeadInv
    OBVIOUS
  <1>1. job.stage = "idle" /\ disk.index = {}
    BY IdleIs DEF Init, EmptyDisk
  <1> QED
    BY <1>1 DEF DeadInv, Removal

\* For every dead link there is a source whose turn is to come: if it has a text the
\* index is rebuilt after its page, if it is blank or gone after the removal.
LEMMA DeadStep ==
    ASSUME TypeInv, LocalsInv, MemInv, BeforeInv, SafeInv, TextualInv, WholeInv, RawInv,
           DeadInv, ~TornWrites, "index" \notin FaultPoints, [Next]_vars
    PROVE  DeadInv'
  <1> USE DEF Transaction, Removal, InRun
  <1> DEFINE Dead == disk.index \ DOMAIN disk.pages
  \* Steps after which the index is right.
  <1>1. ASSUME disk'.index \subseteq DOMAIN disk'.pages PROVE DeadInv'
    BY <1>1 DEF DeadInv
  \* Steps that leave the dead links with those that mend them.
  <1>2. ASSUME Dead' \subseteq Dead,
               job'.stage \notin {"forget", "detach", "unembed", "untree", "unraw"},
               \A s \in Dead', f \in Files : Mends(f, s) => Mends(f, s)'
        PROVE  DeadInv'
    BY <1>2 DEF DeadInv
  \* Steps within the turn of a source.
  <1>3. ASSUME UNCHANGED <<source, again, manifest, mem>>,
               job'.todo = job.todo, job'.listed = job.listed,
               disk'.index = disk.index, DOMAIN disk.pages \subseteq DOMAIN disk'.pages,
               DOMAIN disk.raw \subseteq DOMAIN disk'.raw,
               job.stage \notin {"idle", "fix", "unlink", "reindex"},
               job'.stage \notin {"idle", "fix", "forget", "detach", "unembed", "untree",
                                  "unraw"},
               \/ job'.stage \notin Transaction
               \/ job.stage \in Transaction /\ job'.before = job.before
               \/ job'.before = disk
        PROVE  DeadInv'
    <2>1. Dead' \subseteq Dead
      BY <1>3
    <2>2. ASSUME NEW s, NEW f \in Files, Mends(f, s) PROVE Mends(f, s)'
      BY <1>3, <2>2 DEF Mends
    <2> QED
      BY <1>2, <1>3, <2>1, <2>2
  \* The run ends.
  <1>4. ASSUME EndRun, UNCHANGED manifest, Dead' \subseteq Dead,
               \/ disk'.raw = disk.raw
               \/ job.stage \in Transaction /\ disk'.raw = job.before.raw
        PROVE  DeadInv'
    <2>1. job'.stage = "idle"
      BY <1>4, Ending, IdleIs
    <2>2. ASSUME NEW s, NEW f \in Files, Mends(f, s) PROVE Mends(f, s)'
      BY <1>4, <2>1, <2>2 DEF Mends
    <2> QED
      BY <1>2, <1>4, <2>1, <2>2
  <1>5. ASSUME Rollback, job.stage \in Transaction, job.stage # "index" PROVE DeadInv'
    <2>1. disk' = Restored /\ EndRun /\ UNCHANGED manifest
      BY <1>5, RollbackDoes
    <2>2. Restored.raw = job.before.raw /\ Restored.pages = job.before.pages
      BY <1>5, RestoredRawAndPages
    <2>3. CASE job.stage \in {"graph", "vector", "commit"}
      <3>1. Restored.index = DOMAIN Restored.pages
        BY <2>3 DEF Restored
      <3> QED
        BY <1>1, <2>1, <3>1
    <2>4. CASE job.stage \in {"tree", "copy", "page"}
      <3>1. Restored.index = disk.index
        BY <2>4 DEF Restored
      <3>2. disk.pages = job.before.pages
        BY <2>4 DEF BeforeInv, PastPage, PastIndex, PastGraph, PastVector
      <3> QED
        BY <1>4, <1>5, <2>1, <2>2, <3>1, <3>2
    <2> QED
      BY <1>5, <2>3, <2>4
  \* From the index on nothing is dead.
  <1>6. job.stage \in PastIndex => disk.index = DOMAIN disk.pages
    BY DEF BeforeInv, PastIndex, PastGraph, PastVector
  <1>7. Indexable
    BY DEF WholeInv, Indexable
  <1>8. CASE UNCHANGED vars
    BY <1>8 DEF vars, DeadInv, Mends
  <1>9. ASSUME NEW prune \in BOOLEAN, Start(prune) PROVE DeadInv'
    <2>1. /\ job.stage = "idle" /\ job'.stage = "pick" /\ UNCHANGED disk
          /\ job'.todo = job'.listed /\ mem' = Resumed /\ manifest' = Resumed
      BY <1>9, StartDoes
    <2>2. ASSUME NEW s, NEW f \in Files, Mends(f, s) PROVE Mends(f, s)'
      <3>1. f \in DOMAIN Resumed /\ (Derived(Resumed[f]) => Resumed[f].page = s)
        <4>1. CASE manifest = Lost
          BY <2>2, <4>1 DEF Mends, Resumed, Entry, Derived
        <4>2. CASE manifest # Lost
          BY <2>2, <4>2 DEF Mends, Resumed
        <4> QED
          BY <4>1, <4>2
      <3> HIDE DEF Resumed
      <3> QED
        BY <2>1, <2>2, <3>1 DEF Mends
    <2> QED
      BY <1>2, <2>1, <2>2
  <1>10. CASE Examine
    <2>1. job.stage = "pick" /\ UNCHANGED <<source, again, disk, manifest>>
      BY <1>10, ExamineDoes
    <2>2. PICK f \in job.todo :
             \/ EndRun
             \/ /\ f \in DOMAIN mem /\ CanSkip(mem[f], source[f]) /\ job'.stage = "pick"
                /\ job'.todo = job.todo \ {f} /\ job'.listed = job.listed /\ UNCHANGED mem
             \/ /\ job'.stage = "parse" /\ job'.todo = job.todo
                /\ job'.listed = job.listed /\ UNCHANGED mem
      BY <1>10, ExamineDoes
    <2>3. CASE EndRun
      BY <1>4, <2>1, <2>3
    <2>4. CASE /\ f \in DOMAIN mem /\ CanSkip(mem[f], source[f]) /\ job'.stage = "pick"
               /\ job'.todo = job.todo \ {f} /\ job'.listed = job.listed /\ UNCHANGED mem
      <3>1. mem = manifest /\ manifest # Lost
        BY <2>1 DEF MemInv
      <3>2. source[f] \in Textual /\ Derived(manifest[f])
        BY <2>4, <3>1 DEF CanSkip, TextualInv
      <3>3. source[f] \notin again => manifest[f].page \in DOMAIN disk.pages
        BY <2>4, <3>1, <3>2 DEF SafeInv, Held, Backed, BackedButVectors
      <3>4. ASSUME NEW s \in Dead', NEW g \in Files, Mends(g, s) PROVE Mends(g, s)'
        <4>1. g # f \/ source[g] \in again
          BY <2>1, <3>1, <3>2, <3>3, <3>4 DEF Mends
        <4> QED
          BY <2>1, <2>4, <3>4, <4>1 DEF Mends
      <3> QED
        BY <1>2, <2>1, <2>4, <3>4
    <2>5. CASE /\ job'.stage = "parse" /\ job'.todo = job.todo
               /\ job'.listed = job.listed /\ UNCHANGED mem
      BY <1>3, <2>1, <2>5
    <2> QED
      BY <2>2, <2>3, <2>4, <2>5
  <1>11. CASE Parse
    <2>1. job.stage = "parse" /\ UNCHANGED <<source, again, disk, manifest>>
      BY <1>11, ParseDoes
    <2>2. \/ EndRun
          \/ /\ source[job.file] \in Unreadable \cup Blank /\ Moved /\ UNCHANGED mem
             /\ source[job.file] \in Blank \ Unreadable => job.existing = None
          \/ job'.stage = "unlink" /\ LocalsKept /\ UNCHANGED mem
          \/ /\ job'.stage = "tree" /\ job'.todo = job.todo /\ job'.listed = job.listed
             /\ job'.before = disk /\ UNCHANGED mem
      BY <1>11, ParseDoes
    <2>3. CASE EndRun
      BY <1>4, <2>1, <2>3
    <2>4. CASE /\ source[job.file] \in Unreadable \cup Blank /\ Moved /\ UNCHANGED mem
               /\ source[job.file] \in Blank \ Unreadable => job.existing = None
      <3>1. job.existing = None => job.file \notin DOMAIN mem
        <4>1. job.existing = IF job.file \in DOMAIN mem THEN mem[job.file] ELSE None
          BY <2>1 DEF MemInv
        <4> QED
          BY <4>1, EntryOf, EntryHas DEF TypeInv
      <3>2. ASSUME NEW s, NEW g \in Files, Mends(g, s) PROVE Mends(g, s)'
        <4>1. g \in DOMAIN mem
          BY <2>1, <3>2 DEF Mends
        <4>2. g # job.file \/ source[g] \in Unreadable
          BY <2>4, <3>1, <4>1
        <4> QED
          BY <2>1, <2>4, <3>2, <4>1, <4>2 DEF Mends, Moved
      <3> QED
        BY <1>2, <2>1, <2>4, <3>2 DEF Moved
    <2>5. CASE job'.stage = "unlink" /\ LocalsKept /\ UNCHANGED mem
      BY <1>3, <2>1, <2>5 DEF LocalsKept
    <2>6. CASE /\ job'.stage = "tree" /\ job'.todo = job.todo /\ job'.listed = job.listed
               /\ job'.before = disk /\ UNCHANGED mem
      BY <1>3, <2>1, <2>6
    <2> QED
      BY <2>2, <2>3, <2>4, <2>5, <2>6
  <1>12. CASE SaveTree
    BY <1>3, <1>12, SaveTreeDoes DEF LocalsKept
  <1>13. CASE CopyRaw
    <2>1. CASE Rollback
      BY <1>5, <1>13, <2>1, CopyRawDoes
    <2>2. CASE ~Rollback
      <3>1. /\ job.stage = "copy" /\ job'.stage = "page" /\ LocalsKept
            /\ UNCHANGED <<source, again, manifest, mem>>
            /\ disk'.pages = disk.pages /\ disk'.index = disk.index
            /\ disk'.raw = Put(disk.raw, job.file, source[job.file])
        BY <1>13, <2>2, CopyRawDoes
      <3>2. DOMAIN disk.raw \subseteq DOMAIN disk'.raw
        BY <3>1 DEF Put
      <3> QED
        BY <1>3, <3>1, <3>2 DEF LocalsKept
    <2> QED
      BY <2>1, <2>2
  <1>14. CASE WritePage
    <2>1. /\ job.stage = "page" /\ job'.stage = "index" /\ job'.before = job.before
          /\ job'.todo = job.todo /\ job'.listed = job.listed
          /\ disk'.pages = Put(disk.pages, PageSlug, Artifact(job.file, job.text))
          /\ disk'.raw = disk.raw /\ disk'.index = disk.index
          /\ UNCHANGED <<source, again, manifest, mem>>
      BY <1>14, WritePageDoes
    <2>2. DOMAIN disk.pages \subseteq DOMAIN disk'.pages
      BY <2>1 DEF Put
    <2> QED
      BY <1>3, <2>1, <2>2
  <1>15. CASE RebuildIndex
    BY <1>1, <1>7, <1>15, RebuildIndexDoes
  <1>16. CASE ReplaceGraph \/ UpsertVectors \/ Commit
    <2>1. job.stage \in PastIndex /\ disk'.index = disk.index /\ disk'.pages = disk.pages
      BY <1>16, ReplaceGraphDoes, UpsertVectorsDoes, CommitDoes
         DEF PastIndex, PastGraph, PastVector
    <2> QED
      BY <1>1, <1>6, <2>1
  <1>17. CASE Sweep
    BY <1>1, <1>17, SweepDoes
  <1>18. CASE Unlink
    <2>1. /\ job.stage = "unlink" /\ job'.stage = "reindex" /\ LocalsKept
          /\ disk'.pages = Drop(disk.pages, {job.existing.page})
          /\ disk'.raw = disk.raw /\ disk'.index = disk.index
          /\ UNCHANGED <<source, again, manifest, mem>>
      BY <1>18, UnlinkDoes
    <2>2. DOMAIN disk'.pages = DOMAIN disk.pages \ {job.existing.page}
      BY <2>1 DEF Drop
    <2>3. ASSUME NEW s, NEW f \in Files, Mends(f, s) PROVE Mends(f, s)'
      BY <2>1, <2>3 DEF Mends, LocalsKept
    <2>4. ASSUME job.existing.page \in DOMAIN disk.pages
          PROVE  Mends(job.file, job.existing.page)'
      <3>1. /\ job.file \in Files /\ job.existing \in Entries
            /\ job.file \in job.todo \/ job.todo = {}
        BY <2>1 DEF LocalsInv
      <3>2. job.file \in DOMAIN manifest /\ manifest[job.file] = job.existing
        BY <2>1 DEF RawInv
      <3>3. manifest # Lost /\ (job.todo = {} => job.file \notin job.listed)
        BY <2>1 DEF MemInv
      <3>4. Derived(job.existing)
        <4>1. disk.pages \in Partial(Slugs, Artifacts \cup {Torn})
          BY LayersHave DEF TypeInv
        <4>2. DOMAIN disk.pages \subseteq Slugs
          BY <4>1, PartialFacts
        <4> QED
          BY <2>4, <4>2, MarksAssumption DEF Derived
      <3>5. job.file \in DOMAIN disk.raw
        BY <2>4, <3>2, <3>3, <3>4 DEF RawInv, Copied
      <3> QED
        BY <2>1, <3>1, <3>2, <3>3, <3>5 DEF Mends, LocalsKept
    <2>5. job.file \in Files
      BY <2>1 DEF LocalsInv
    <2> QED
      BY <2>1, <2>2, <2>3, <2>4, <2>5 DEF DeadInv, LocalsKept
  <1>19. CASE Reindex
    BY <1>1, <1>7, <1>19, ReindexDoes
  <1>20. CASE Detach \/ Unembed \/ Untree \/ Unraw \/ Forget
    <2>1. /\ job.stage \in {"forget", "detach", "unembed", "untree", "unraw"}
          /\ disk'.index = disk.index /\ disk'.pages = disk.pages
      BY <1>20, DetachDoes, UnembedDoes, UntreeDoes, UnrawDoes, ForgetDoes
    <2> QED
      BY <1>1, <2>1 DEF DeadInv
  <1>21. CASE AllFilesDone
    BY <1>3, <1>4, <1>21, AllFilesDoneDoes DEF LocalsKept
  <1>22. CASE Prune
    <2>1. job.stage = "prune" /\ UNCHANGED <<source, again, disk, manifest>>
      BY <1>22, PruneDoes
    <2>2. PICK f \in DOMAIN mem \ job.listed :
             /\ mem' = Drop(mem, {f}) /\ job'.stage = "unlink" /\ job'.file = f
             /\ job'.todo = job.todo /\ job'.listed = job.listed
      BY <1>22, PruneDoes
    <2>3. DOMAIN mem' = DOMAIN mem \ {f}
      BY <2>2 DEF Drop
    <2>4. ASSUME NEW s, NEW g \in Files, Mends(g, s) PROVE Mends(g, s)'
      BY <2>1, <2>2, <2>3, <2>4 DEF Mends
    <2> QED
      BY <1>2, <2>1, <2>2, <2>4
  <1>23. CASE Pruned
    <2>1. job.stage = "prune" /\ manifest' = mem /\ EndRun /\ UNCHANGED <<source, again, disk>>
      BY <1>23, PrunedDoes
    <2>2. job'.stage = "idle"
      BY <2>1, Ending, IdleIs
    <2>3. manifest # Lost /\ \A g \in DOMAIN mem : manifest[g] = mem[g]
      BY <2>1 DEF MemInv
    <2>4. ASSUME NEW s, NEW g \in Files, Mends(g, s) PROVE Mends(g, s)'
      BY <2>1, <2>2, <2>3, <2>4 DEF Mends
    <2> QED
      BY <1>2, <2>1, <2>2, <2>4
  <1>24. CASE Fail
    BY <1>5, <1>24, FailDoes
  <1>25. ASSUME NEW f \in Files, NEW c \in Contents \cup {Gone}, Edit(f, c)
         PROVE  DeadInv'
    <2>1. job.stage = "idle" /\ UNCHANGED <<disk, manifest, mem, job>>
      BY <1>25, EditDoes, LintAssumption
    <2> QED
      BY <2>1 DEF DeadInv, Mends
  <1>26. CASE CutShort
    BY <1>4, <1>26, CutShortDoes, CutShortKeeps
  <1>27. CASE LoseManifest
    <2>1. job.stage = "idle" /\ manifest' = Lost /\ UNCHANGED <<source, again, disk, mem, job>>
      BY <1>27, LoseManifestDoes
    <2> QED
      BY <2>1 DEF DeadInv, Mends
  <1> QED
    BY <1>8, <1>9, <1>10, <1>11, <1>12, <1>13, <1>14, <1>15, <1>16, <1>17, <1>18, <1>19,
       <1>20, <1>21, <1>22, <1>23, <1>24, <1>25, <1>26, <1>27 DEF Next, Ingest, DeleteArtifacts

-----------------------------------------------------------------------------
(* What lint finds *)

\* The targets of the categories that can be fixed.
LEMMA FixableTargets ==
    /\ Targets("orphan_page") = DOMAIN disk.pages \ disk.index
    /\ Targets("dead_link") = disk.index \ DOMAIN disk.pages
    /\ Targets("orphan_vector_chunk") =
          DOMAIN disk.vectors \ {manifest[f].sha : f \in Referring}
    /\ Targets("graph_orphan") = DOMAIN disk.graph \ DOMAIN manifest
  <1> DEFINE shas  == {manifest[f].sha : f \in Referring}
             pages == {manifest[f].page : f \in Referring}
             slugs == {StemOf[f] : f \in Referring}
             bad   == {f \in Referring : ~(f \in DOMAIN disk.graph
                                           /\ disk.graph[f] = manifest[f].sha)}
             astray == {s \in DOMAIN disk.pages : disk.pages[s].of \notin DOMAIN manifest}
  <1>1. \A x : x \in run_checks <=>
           \/ x \in {"orphan_page"} \X (DOMAIN disk.pages \ disk.index)
           \/ x \in {"dead_link"} \X (disk.index \ DOMAIN disk.pages)
           \/ x \in {"dangling_manifest_entry"} \X (DOMAIN manifest \ DOMAIN disk.raw)
           \/ x \in {"manifest_wiki_mismatch"} \X (pages \ DOMAIN disk.pages)
           \/ x \in {"orphan_raw_source"} \X (DOMAIN disk.raw \ DOMAIN manifest)
           \/ x \in {"wiki_source_mismatch"} \X astray
           \/ x \in {"manifest_vector_mismatch"} \X (shas \ DOMAIN disk.vectors)
           \/ x \in {"orphan_vector_chunk"} \X (DOMAIN disk.vectors \ shas)
           \/ x \in {"graph_missing"} \X bad
           \/ x \in {"graph_orphan"} \X (DOMAIN disk.graph \ DOMAIN manifest)
           \/ x \in {"tree_missing"} \X (slugs \ DOMAIN disk.trees)
           \/ x \in {"tree_orphan"} \X (DOMAIN disk.trees \ slugs)
    BY DEF run_checks, check_wiki, check_manifest_wiki_raw, check_vector, check_graph,
           check_page_trees, Finding
  <1> HIDE DEF shas, pages, slugs, bad, astray
  <1>2. \A c : Targets(c) = {x[2] : x \in {y \in run_checks : y[1] = c}}
    BY DEF Targets
  <1> HIDE DEF run_checks
  <1>3. \A t : /\ <<"orphan_page", t>> \in run_checks <=>
                     t \in DOMAIN disk.pages \ disk.index
               /\ <<"dead_link", t>> \in run_checks <=> t \in disk.index \ DOMAIN disk.pages
               /\ <<"orphan_vector_chunk", t>> \in run_checks <=>
                     t \in DOMAIN disk.vectors \ shas
               /\ <<"graph_orphan", t>> \in run_checks <=>
                     t \in DOMAIN disk.graph \ DOMAIN manifest
    BY <1>1
  <1>4. \A x \in run_checks : x = <<x[1], x[2]>>
    BY <1>1
  <1>5. \A c, t : t \in Targets(c) <=> <<c, t>> \in run_checks
    BY <1>2, <1>4
  <1> QED
    BY <1>3, <1>5 DEF shas

-----------------------------------------------------------------------------
(* What lint fixes *)

\* Lint holds the manifest it has planned with, and no planned fix names an
\* artifact that this refers to.
FixInv ==
    job.stage = "fix" =>
        /\ mem = manifest /\ manifest # Lost
        /\ job.todo = {} /\ job.listed = {} /\ job.file = None /\ job.sha = None
        /\ job.existing = None /\ job.before = EmptyDisk
        /\ \A a \in job.plan :
              /\ a.name = "prune_orphan_vector_chunks" =>
                    \A f \in Referring : manifest[f].sha \notin a.ids
              /\ a.name = "prune_orphan_graph" => a.ids \cap DOMAIN manifest = {}

\* Initially nothing is planned.
LEMMA FixInit == Init => FixInv
  <1> SUFFICES ASSUME Init PROVE FixInv
    OBVIOUS
  <1>1. job.stage = "idle"
    BY IdleIs DEF Init
  <1> QED
    BY <1>1 DEF FixInv

\* While lint holds the lock nothing else moves, unless it is cut short.
LEMMA FixAlone ==
    ASSUME TypeInv, LocalsInv, job.stage = "fix", [Next]_vars
    PROVE  CutShort \/ UNCHANGED vars
  <1>1. ASSUME NEW prune \in BOOLEAN, Start(prune) PROVE FALSE
    BY <1>1 DEF Start
  <1>2. ~Ingest
    BY DEF Ingest, Examine, Parse, SaveTree, CopyRaw, WritePage, RebuildIndex,
           ReplaceGraph, UpsertVectors, Commit, Sweep, Write
  <1>3. ~DeleteArtifacts
    BY DEF DeleteArtifacts, Unlink, Reindex, Detach, Unembed, Untree, Unraw, Forget, Write
  <1>4. ~AllFilesDone /\ ~Prune /\ ~Pruned /\ ~LoseManifest
    BY DEF AllFilesDone, Prune, Pruned, LoseManifest
  <1>5. ~Fail
    BY FailDoes DEF Transaction
  <1>6. ASSUME NEW f \in Files, NEW c \in Contents \cup {Gone}, Edit(f, c) PROVE FALSE
    BY <1>6, LintAssumption DEF Edit
  <1> QED
    BY <1>1, <1>2, <1>3, <1>4, <1>5, <1>6 DEF Next

\* No step of ingest leads there.
LEMMA FixOnly ==
    ASSUME TypeInv, LocalsInv, job.stage # "fix", [Next]_vars
    PROVE  job'.stage # "fix"
  <1>0. EndRun => job'.stage = "idle"
    BY Ending, IdleIs
  <1>1. ASSUME NEW prune \in BOOLEAN, Start(prune) PROVE job'.stage # "fix"
    BY <1>1, StartDoes
  <1>2. Rollback => job'.stage = "idle"
    BY <1>0 DEF Rollback
  <1>3. CASE Ingest
    BY <1>0, <1>2, <1>3, ExamineDoes, ParseDoes, SaveTreeDoes, CopyRawDoes, WritePageDoes,
       RebuildIndexDoes, ReplaceGraphDoes, UpsertVectorsDoes, CommitDoes, SweepDoes
       DEF Ingest, Moved
  <1>4. CASE DeleteArtifacts
    BY <1>0, <1>4, UnlinkDoes, ReindexDoes, DetachDoes, UnembedDoes, UntreeDoes,
       UnrawDoes, ForgetDoes DEF DeleteArtifacts, Moved
  <1>5. CASE AllFilesDone \/ Prune \/ Pruned
    BY <1>0, <1>5, AllFilesDoneDoes, PruneDoes, PrunedDoes
  <1>6. CASE Fail
    BY <1>2, <1>6, FailDoes
  <1>7. ASSUME NEW f \in Files, NEW c \in Contents \cup {Gone}, Edit(f, c)
        PROVE  job'.stage # "fix"
    BY <1>7, EditDoes
  <1>8. CASE CutShort \/ LoseManifest
    BY <1>0, <1>8, CutShortDoes, LoseManifestDoes
  <1> QED
    BY <1>1, <1>3, <1>4, <1>5, <1>6, <1>7, <1>8 DEF Next, vars

\* A plan stays what it was.
LEMMA FixStep ==
    ASSUME TypeInv, LocalsInv, FixInv, [Next]_vars
    PROVE  FixInv'
  <1>1. CASE job.stage # "fix"
    BY <1>1, FixOnly DEF FixInv
  <1>2. CASE job.stage = "fix" /\ UNCHANGED vars
    BY <1>2 DEF vars, FixInv, Referring, Derived
  <1>3. CASE CutShort
    BY <1>3, CutShortDoes, Ending, IdleIs DEF FixInv
  <1> QED
    BY <1>1, <1>2, <1>3, FixAlone

\* Every planned fix is of one of three kinds.
LEMMA PlanIs ==
    ASSUME NEW a \in plan_fixes
    PROVE  \/ a = Action("rebuild_index", Targets("orphan_page") \cup Targets("dead_link"))
           \/ a = Action("prune_orphan_vector_chunks", Targets("orphan_vector_chunk"))
           \/ a = Action("prune_orphan_graph", Targets("graph_orphan"))
    BY DEF plan_fixes

\* A fix has a name and ids.
LEMMA ActionHas ==
    ASSUME NEW name \in FixNames, NEW ids \in SUBSET (Slugs \cup Contents \cup Files)
    PROVE  /\ Action(name, ids) \in Fixes
           /\ Action(name, ids).name = name /\ Action(name, ids).ids = ids
    BY DEF Action, Fixes

\* What is planned: nothing that the manifest refers to is to be deleted.
LEMMA PlanFacts ==
    ASSUME TypeInv, NEW a \in plan_fixes
    PROVE  /\ a \in Fixes
           /\ a.name = "prune_orphan_vector_chunks" =>
                 \A f \in Referring : manifest[f].sha \notin a.ids
           /\ a.name = "prune_orphan_graph" => a.ids \cap DOMAIN manifest = {}
  <1> DEFINE ids    == SUBSET (Slugs \cup Contents \cup Files)
             links  == Targets("orphan_page") \cup Targets("dead_link")
             chunks == Targets("orphan_vector_chunk")
             nodes  == Targets("graph_orphan")
  <1>1. disk \in Layers
    BY DEF TypeInv
  <1>2. /\ DOMAIN disk.pages \subseteq Slugs /\ disk.index \subseteq Slugs
        /\ DOMAIN disk.vectors \subseteq Contents /\ DOMAIN disk.graph \subseteq Files
    BY <1>1, LayersHave, PartialFacts
  <1>3. links \in ids /\ chunks \in ids /\ nodes \in ids
    BY <1>2, FixableTargets
  <1>4. /\ \A f \in Referring : manifest[f].sha \notin chunks
        /\ nodes \cap DOMAIN manifest = {}
    BY FixableTargets
  <1> HIDE DEF links, chunks, nodes, ids
  <1>5. \/ a = Action("rebuild_index", links)
        \/ a = Action("prune_orphan_vector_chunks", chunks)
        \/ a = Action("prune_orphan_graph", nodes)
    BY PlanIs DEF links, chunks, nodes
  <1>7. CASE a = Action("rebuild_index", links)
    <2>1. a \in Fixes /\ a.name = "rebuild_index"
      BY <1>3, <1>7, ActionHas, Zenon DEF ids, FixNames
    <2> QED
      BY <2>1
  <1>8. CASE a = Action("prune_orphan_vector_chunks", chunks)
    <2>1. a \in Fixes /\ a.name = "prune_orphan_vector_chunks" /\ a.ids = chunks
      BY <1>3, <1>8, ActionHas, Zenon DEF ids, FixNames
    <2> QED
      BY <1>4, <2>1
  <1>9. CASE a = Action("prune_orphan_graph", nodes)
    <2>1. a \in Fixes /\ a.name = "prune_orphan_graph" /\ a.ids = nodes
      BY <1>3, <1>9, ActionHas, Zenon DEF ids, FixNames
    <2> QED
      BY <1>4, <2>1
  <1> QED
    BY <1>5, <1>7, <1>8, <1>9

\* The layers d after a fix: what the manifest refers to is left alone.
Left(d) ==
    /\ d \in Layers
    /\ d.trees = disk.trees /\ d.raw = disk.raw /\ d.pages = disk.pages
    /\ d.index \in {disk.index, DOMAIN disk.pages}
    /\ \A c \in DOMAIN d.vectors : c \in DOMAIN disk.vectors /\ d.vectors[c] = disk.vectors[c]
    /\ \A f \in Referring :
          manifest[f].sha \in DOMAIN disk.vectors => manifest[f].sha \in DOMAIN d.vectors
    /\ \A f \in DOMAIN manifest :
          f \in DOMAIN disk.graph => f \in DOMAIN d.graph /\ d.graph[f] = disk.graph[f]

\* Each planned fix leaves it alone.
LEMMA FixedLeaves ==
    ASSUME TypeInv, FixInv, job.stage = "fix", NEW a \in job.plan
    PROVE  Left(Fixed(a))
  <1>1. a.name \in FixNames
    BY DEF TypeInv, Jobs, Fixes
  <1>2. /\ a.name = "prune_orphan_vector_chunks" =>
              \A f \in Referring : manifest[f].sha \notin a.ids
        /\ a.name = "prune_orphan_graph" => a.ids \cap DOMAIN manifest = {}
    BY DEF FixInv
  <1>3. /\ disk \in Layers /\ disk.pages \in Partial(Slugs, Artifacts \cup {Torn})
        /\ disk.graph \in Partial(Files, Contents)
        /\ disk.vectors \in Partial(Contents, Artifacts)
    BY LayersHave DEF TypeInv
  <1>4. CASE a.name = "rebuild_index"
    <2>1. Fixed(a) = [disk EXCEPT !.index = DOMAIN disk.pages]
      BY <1>4 DEF Fixed
    <2>2. DOMAIN disk.pages \in SUBSET Slugs
      BY <1>3, PartialFacts
    <2> QED
      BY <1>3, <2>1, <2>2, OnlyIndex DEF Left
  <1>5. CASE a.name = "prune_orphan_vector_chunks"
    <2> DEFINE v == Drop(disk.vectors, a.ids)
    <2>1. Fixed(a) = [disk EXCEPT !.vectors = v]
      BY <1>5 DEF Fixed
    <2>2. v \in Partial(Contents, Artifacts)
      BY <1>3, DropPartial
    <2>3. /\ \A c \in DOMAIN v : c \in DOMAIN disk.vectors /\ v[c] = disk.vectors[c]
          /\ \A c \in DOMAIN disk.vectors : c \notin a.ids => c \in DOMAIN v
      BY DEF Drop
    <2> HIDE DEF v
    <2> QED
      BY <1>2, <1>3, <1>5, <2>1, <2>2, <2>3, OnlyVectors DEF Left
  <1>6. CASE a.name = "prune_orphan_graph"
    <2> DEFINE g == Drop(disk.graph, a.ids)
    <2>1. Fixed(a) = [disk EXCEPT !.graph = g]
      BY <1>6 DEF Fixed
    <2>2. g \in Partial(Files, Contents)
      BY <1>3, DropPartial
    <2>3. \A f \in DOMAIN disk.graph : f \notin a.ids => f \in DOMAIN g /\ g[f] = disk.graph[f]
      BY DEF Drop
    <2> HIDE DEF g
    <2> QED
      BY <1>2, <1>3, <1>6, <2>1, <2>2, <2>3, OnlyGraph DEF Left
  <1> QED
    BY <1>1, <1>4, <1>5, <1>6 DEF FixNames

\* What lint does: it plans, or fixes and ends with the last fix.
LEMMA FixDoes ==
    ASSUME TypeInv, LocalsInv, FixInv, LintFix \/ Apply
    PROVE  /\ job.stage \in {"idle", "fix"} /\ job'.stage \in {"idle", "fix"}
           /\ job' \in Jobs /\ mem' \in Manifests /\ manifest # Lost
           /\ job'.todo = {} /\ job'.listed = {} /\ job'.file = None /\ job'.sha = None
           /\ job'.existing = None /\ job'.before = EmptyDisk
           /\ job'.stage = "idle" => job' = Idle /\ mem' = Nothing /\ DOMAIN mem' = {}
           /\ job'.stage = "fix" => mem' = manifest
           /\ job'.stage = "fix" =>
                 job'.plan \subseteq (IF job.stage = "fix" THEN job.plan ELSE plan_fixes)
           /\ Left(disk')
           /\ count' \in Counts /\ count'.cuts = count.cuts
           /\ count'.losses = count.losses /\ count'.faults >= count.faults
           /\ UNCHANGED <<source, again, manifest>>
  <1>1. /\ disk \in Layers /\ manifest \in Manifests \cup {Lost} /\ mem \in Manifests
        /\ job \in Jobs /\ count \in Counts
    BY DEF TypeInv
  <1>2. CASE LintFix
    <2>1. /\ job.stage = "idle" /\ manifest # Lost
          /\ job' = [Idle EXCEPT !.stage = "fix", !.plan = plan_fixes]
          /\ mem' = manifest /\ UNCHANGED <<source, again, disk, manifest, count>>
      BY <1>2 DEF LintFix, Readable, RuntimeReady
    <2>2. plan_fixes \in SUBSET Fixes
      BY PlanFacts
    <2> HIDE DEF Idle, plan_fixes
    <2>3. /\ job' \in Jobs /\ job'.stage = "fix" /\ job'.plan = plan_fixes
          /\ job'.todo = {} /\ job'.listed = {} /\ job'.file = None /\ job'.sha = None
          /\ job'.existing = None /\ job'.before = EmptyDisk
      BY <2>1, <2>2, IdleIs DEF Jobs, Stages
    <2>4. Left(disk')
      BY <1>1, <2>1 DEF Left
    <2>5. count.faults \in Nat
      BY <1>1 DEF Counts
    <2> QED
      BY <1>1, <2>1, <2>3, <2>4, <2>5
  <1>3. CASE Apply
    <2>1. job.stage = "fix" /\ UNCHANGED <<source, again, manifest>>
      BY <1>3 DEF Apply
    <2>2. PICK a \in job.plan :
             /\ \/ disk' = Fixed(a) /\ UNCHANGED count
                \/ count' = [count EXCEPT !.faults = @ + 1] /\ UNCHANGED disk
             /\ IF job.plan = {a} THEN EndRun
                ELSE job' = [job EXCEPT !.plan = @ \ {a}] /\ UNCHANGED mem
      BY <1>3 DEF Apply
    <2>3. /\ manifest # Lost /\ mem = manifest
          /\ job.todo = {} /\ job.listed = {} /\ job.file = None /\ job.sha = None
          /\ job.existing = None /\ job.before = EmptyDisk
      BY <2>1 DEF FixInv
    <2>4. Left(disk')
      <3>1. Left(disk)
        BY <1>1 DEF Left
      <3>2. Left(Fixed(a))
        BY <2>1, FixedLeaves
      <3> QED
        BY <2>2, <3>1, <3>2
    <2>5. /\ count' \in Counts /\ count'.cuts = count.cuts
          /\ count'.losses = count.losses /\ count'.faults >= count.faults
      BY <1>1, <2>2 DEF Counts
    <2>6. CASE EndRun
      <3>1. job' = Idle /\ mem' = Nothing /\ mem' \in Manifests /\ DOMAIN mem' = {}
        BY <2>6, Ending
      <3> QED
        BY <2>1, <2>3, <2>4, <2>5, <3>1, IdleIs
    <2>7. CASE job' = [job EXCEPT !.plan = @ \ {a}] /\ UNCHANGED mem
      <3>1. job.plan \ {a} \in SUBSET Fixes
        BY <1>1 DEF Jobs
      <3>2. /\ job' \in Jobs /\ job'.stage = job.stage /\ job'.plan = job.plan \ {a}
            /\ job'.todo = job.todo /\ job'.listed = job.listed /\ job'.file = job.file
            /\ job'.sha = job.sha /\ job'.existing = job.existing
            /\ job'.before = job.before
        BY <1>1, <2>7, <3>1 DEF Jobs
      <3> QED
        BY <1>1, <2>1, <2>3, <2>4, <2>5, <2>7, <3>2
    <2> QED
      BY <2>2, <2>6, <2>7
  <1> QED
    BY <1>2, <1>3

\* What is left of an entry's layers still holds its text.
LEMMA LeftHolds ==
    ASSUME Left(disk'), UNCHANGED manifest, NEW f \in Referring, NEW text,
           Backed(f, manifest[f], text)
    PROVE  Backed(f, manifest[f], text)'
  <1>1. f \in DOMAIN manifest
    BY DEF Referring
  <1>2. Derived(manifest[f])
    BY DEF Backed, BackedButVectors
  <1> DEFINE e == manifest[f]
  <1>3. /\ e.page \in DOMAIN disk'.pages /\ disk'.pages[e.page] = Artifact(f, text)
        /\ StemOf[f] \in DOMAIN disk'.trees
        /\ disk'.trees[StemOf[f]].of = f /\ disk'.trees[StemOf[f]].sha = e.sha
        /\ disk'.trees[StemOf[f]].text = text
    BY DEF Left, Backed, BackedButVectors
  <1>4. e.sha \in DOMAIN disk'.vectors /\ disk'.vectors[e.sha] = Artifact(f, text)
    BY DEF Left, Backed, BackedButVectors
  <1>5. f \in DOMAIN disk'.graph /\ disk'.graph[f] = text /\ f \in DOMAIN disk'.raw
    BY <1>1 DEF Left, Backed, BackedButVectors
  <1> QED
    BY <1>2, <1>3, <1>4, <1>5 DEF Backed, BackedButVectors, Derived, Artifact

-----------------------------------------------------------------------------
(* The steps of lint keep what runs rely on *)

\* The types and the locals.
LEMMA TypesFixed ==
    ASSUME TypeInv, LocalsInv, FixInv, LintFix \/ Apply
    PROVE  TypeInv' /\ LocalsInv'
  <1> USE DEF Transaction, Removal
  <1>1. /\ job' \in Jobs /\ mem' \in Manifests /\ count' \in Counts
        /\ disk' \in Layers /\ disk'.pages = disk.pages
        /\ job'.stage \in {"idle", "fix"} /\ job'.todo = {} /\ job'.listed = {}
        /\ job'.stage = "idle" => job' = Idle /\ mem' = Nothing
        /\ UNCHANGED <<source, again, manifest>>
    BY FixDoes DEF Left
  <1>2. TypeInv'
    BY <1>1 DEF TypeInv
  <1>3. LocalsInv'
    BY <1>1 DEF LocalsInv, PastPage, PastIndex, PastGraph, PastVector
  <1> QED
    BY <1>2, <1>3

\* The plan.
LEMMA PlansFixed ==
    ASSUME TypeInv, LocalsInv, FixInv, LintFix \/ Apply
    PROVE  FixInv'
  <1> SUFFICES ASSUME job'.stage = "fix" PROVE FixInv'
    BY DEF FixInv
  <1>1. /\ job'.todo = {} /\ job'.listed = {} /\ job'.file = None /\ job'.sha = None
        /\ job'.existing = None /\ job'.before = EmptyDisk
        /\ mem' = manifest /\ manifest # Lost /\ UNCHANGED manifest
    BY FixDoes
  <1>2. ASSUME NEW a \in job'.plan
        PROVE  /\ a.name = "prune_orphan_vector_chunks" =>
                     \A f \in Referring : manifest[f].sha \notin a.ids
               /\ a.name = "prune_orphan_graph" => a.ids \cap DOMAIN manifest = {}
    <2>1. CASE job.stage = "fix"
      <3>1. a \in job.plan
        BY <2>1, FixDoes
      <3> QED
        BY <2>1, <3>1 DEF FixInv
    <2>2. CASE job.stage # "fix"
      <3>1. a \in plan_fixes
        BY <2>2, FixDoes
      <3> QED
        BY <3>1, PlanFacts
    <2> QED
      BY <2>1, <2>2
  <1>3. Referring' = Referring
    BY <1>1 DEF Referring, Derived
  <1> QED
    BY <1>1, <1>2, <1>3 DEF FixInv

\* What a run of ingest knows and has done.
LEMMA RunFixed ==
    ASSUME RunInv, FixInv, LintFix \/ Apply
    PROVE  RunInv'
  <1> USE DEF Transaction, Removal
  <1>0. /\ TypeInv /\ LocalsInv /\ ClaimsInv
        /\ job'.stage \in {"idle", "fix"} /\ manifest # Lost
        /\ job'.todo = {} /\ job'.listed = {} /\ job'.file = None /\ job'.sha = None
        /\ job'.existing = None /\ job'.before = EmptyDisk
        /\ job'.stage = "idle" => DOMAIN mem' = {}
        /\ job'.stage = "fix" => mem' = manifest
        /\ disk'.raw = disk.raw /\ UNCHANGED <<source, again, manifest>>
    BY FixDoes DEF RunInv, Left
  <1>1. TypeInv' /\ LocalsInv'
    BY <1>0, TypesFixed
  <1>2. ClaimsInv'
    <2>1. DOMAIN EmptyDisk.raw = {}
      BY EmptyDiskType
    <2>2. None \notin Contents
      BY IngestAssumption
    <2> HIDE DEF EmptyDisk
    <2>3. ASSUME NEW f \in Files, NEW c \in Contents, Owns(f, c)' PROVE Owns(f, c)
      BY <1>0, <2>1, <2>2, <2>3 DEF Owns
    <2> HIDE DEF Owns
    <2> QED
      BY <1>0, <2>3 DEF ClaimsInv
  <1>3. MemInv'
    BY <1>0 DEF MemInv, PastPage, PastIndex, PastGraph, PastVector
  <1>4. DoneInv'
    BY <1>0 DEF DoneInv, PastTree, PastCopy, PastPage, PastIndex, PastGraph, PastVector
  <1>5. BeforeInv' /\ TextInv' /\ NotYetInv'
    BY <1>0 DEF BeforeInv, TextInv, NotYetInv
  <1> QED
    BY <1>1, <1>2, <1>3, <1>4, <1>5 DEF RunInv

\* What the layers hold of the sources.
LEMMA SourcesFixed ==
    ASSUME RunInv, FixInv, TitleInv, SafeInv, TextualInv, LintFix \/ Apply
    PROVE  TitleInv' /\ SafeInv' /\ StillInv' /\ TextualInv' /\ HealInv'
  <1> USE DEF Transaction, Removal
  <1>0. /\ job.stage \in {"idle", "fix"} /\ job'.stage \in {"idle", "fix"}
        /\ manifest # Lost /\ manifest \in Manifests /\ job'.existing = None
        /\ job'.stage = "idle" => DOMAIN mem' = {}
        /\ job'.stage = "fix" => mem' = manifest
        /\ Left(disk') /\ UNCHANGED <<source, again, manifest>>
    BY FixDoes DEF RunInv, TypeInv
  <1>1. TitleInv'
    BY <1>0 DEF TitleInv, HasEntry, Derived, PastPage, PastIndex, PastGraph, PastVector
  <1>2. SafeInv'
    <2> SUFFICES ASSUME NEW f \in DOMAIN manifest, source[f] \in Textual \ again,
                        CanSkip(manifest[f], source[f])'
                 PROVE  Held(f, manifest[f])'
      BY <1>0 DEF SafeInv
    <2>1. Derived(manifest[f]) /\ manifest[f].sha = source[f]
          /\ manifest[f].sha \in DOMAIN disk'.vectors
      BY <1>0 DEF CanSkip, Derived
    <2>2. CanSkip(manifest[f], source[f])
      BY <1>0, <2>1 DEF CanSkip, Left
    <2>3. Held(f, manifest[f])
      BY <1>0, <2>2 DEF SafeInv
    <2>4. f \in Referring
      BY <2>1 DEF Referring
    <2>5. Backed(f, manifest[f], source[f])'
      <3>1. Backed(f, manifest[f], source[f])
        BY <2>3 DEF Held
      <3> DEFINE text == source[f]
      <3>2. text' = text
        BY <1>0
      <3> HIDE DEF text
      <3>3. Backed(f, manifest[f], text)'
        BY <1>0, <2>4, <3>1, <3>2, LeftHolds DEF text
      <3> QED
        BY <3>3 DEF text
    <2>6. disk'.raw[f] = source'[f]
      BY <1>0, <2>3 DEF Held, Left
    <2> QED
      BY <2>5, <2>6 DEF Held
  <1>3. StillInv' /\ HealInv'
    BY <1>0 DEF StillInv, HealInv, InRun
  <1>4. TextualInv'
    BY <1>0 DEF TextualInv, Derived
  <1> QED
    BY <1>1, <1>2, <1>3, <1>4

\* Where the links of the index lead.
LEMMA LinksFixed ==
    ASSUME RunInv, FixInv, WholeInv, RawInv, DeadInv, LintFix \/ Apply
    PROVE  WholeInv' /\ RawInv' /\ DeadInv'
  <1> USE DEF Transaction, Removal
  <1>0. /\ job.stage \in {"idle", "fix"} /\ job'.stage \in {"idle", "fix"}
        /\ manifest # Lost /\ Left(disk') /\ UNCHANGED <<source, again, manifest>>
    BY FixDoes DEF RunInv
  <1>1. WholeInv' /\ RawInv'
    BY <1>0 DEF WholeInv, RawInv, Copied, Derived, Left
  <1>2. DeadInv'
    <2>1. disk'.index \ DOMAIN disk'.pages \subseteq disk.index \ DOMAIN disk.pages
      BY <1>0 DEF Left
    <2>2. ASSUME NEW s, NEW f \in Files, Mends(f, s) PROVE Mends(f, s)'
      BY <1>0, <2>2 DEF Mends, Left, InRun, Derived
    <2> QED
      BY <1>0, <2>1, <2>2 DEF DeadInv
  <1> QED
    BY <1>1, <1>2

-----------------------------------------------------------------------------
(* The theorems *)

\* What runs and fixes know and do of the sources.
SourcesInv ==
    RunInv /\ TitleInv /\ SafeInv /\ StillInv /\ TextualInv /\ HealInv /\ FixInv

\* It holds initially,
LEMMA SourcesInit == Init => SourcesInv
  BY RunInit, TitleInit, SafeInit, StillInit, TextualInit, HealInit, FixInit DEF SourcesInv

\* and every step of ingest and of lint keeps it.
LEMMA SourcesStep ==
    ASSUME StemsApart, TitlesApart, SourcesInv, [LintNext]_vars
    PROVE  SourcesInv'
  <1>1. CASE [Next]_vars
    <2>1. RunInv' /\ TitleInv' /\ StillInv' /\ TextualInv' /\ HealInv' /\ FixInv'
      BY <1>1, RunStep, TitleStep, StillStep, TextualStep, HealStep, FixStep
         DEF SourcesInv, RunInv
    <2>2. SafeInv'
      BY <1>1, TitledApart, SafeStep DEF SourcesInv, RunInv
    <2> QED
      BY <2>1, <2>2 DEF SourcesInv
  <1>2. CASE LintFix \/ Apply
    BY <1>2, RunFixed, PlansFixed, SourcesFixed DEF SourcesInv, RunInv
  <1> QED
    BY <1>1, <1>2 DEF LintNext

\* What a run is done with is in the layers.
LEMMA DoneIsHeld ==
    ASSUME SourcesInv, job.stage \in {"pick", "prune"}, job.todo = {}
    PROVE  /\ mem \in Manifests /\ manifest # Lost
           /\ \A f \in DOMAIN mem : f \in DOMAIN manifest /\ manifest[f] = mem[f]
           /\ \A f \in Files : source[f] \in Textual =>
                 /\ f \in DOMAIN mem /\ mem[f].sha = source[f]
                 /\ source[f] \notin again => Held(f, mem[f])
           /\ \A f \in Files : source[f] \in Blank \ Unreadable => f \notin DOMAIN mem
           /\ job.listed = {f \in Files : source[f] # Gone}
  <1>1. InRun
    BY DEF InRun
  <1>2. mem \in Manifests /\ manifest # Lost
        /\ \A f \in DOMAIN mem : f \in DOMAIN manifest /\ manifest[f] = mem[f]
    BY DEF SourcesInv, RunInv, TypeInv, MemInv
  <1>3. ASSUME NEW f \in Files, source[f] \in Textual
        PROVE  /\ f \in DOMAIN mem /\ mem[f].sha = source[f]
               /\ source[f] \notin again => Held(f, mem[f])
    <2>1. /\ f \in DOMAIN mem /\ mem[f].sha = source[f] /\ Derived(mem[f])
          /\ source[f] \notin again => source[f] \in DOMAIN disk.vectors
      BY <1>1, <1>3 DEF SourcesInv, HealInv
    <2>2. ASSUME source[f] \notin again PROVE Held(f, mem[f])
      <3>1. CanSkip(mem[f], source[f])
        BY <2>1, <2>2 DEF CanSkip
      <3>2. f \in DOMAIN manifest /\ mem[f] = manifest[f] /\ source[f] \in Textual \ again
        BY <1>2, <1>3, <2>1, <2>2
      <3> QED
        BY <1>2, <3>1, <3>2 DEF SourcesInv, SafeInv
    <2> QED
      BY <2>1, <2>2
  <1>4. \A f \in Files : source[f] \in Blank \ Unreadable => f \notin DOMAIN mem
    BY <1>1 DEF SourcesInv, HealInv
  <1>5. job.listed = {f \in Files : source[f] # Gone}
    BY <1>1 DEF SourcesInv, StillInv
  <1> QED
    BY <1>2, <1>3, <1>4, <1>5

\* The end of a run: the manifest on disk is that of the run.
LEMMA RunEnds ==
    ASSUME SourcesInv, AllFilesDone \/ Pruned, job'.stage = "idle"
    PROVE  /\ job.stage \in {"pick", "prune"} /\ job.todo = {}
           /\ manifest' = mem /\ UNCHANGED <<source, again, disk>>
           /\ job.prune => job.stage = "prune" /\ DOMAIN mem \subseteq job.listed
  <1>1. TypeInv /\ LocalsInv /\ MemInv
    BY DEF SourcesInv, RunInv
  <1>2. CASE AllFilesDone
    BY <1>1, <1>2, AllFilesDoneDoes DEF MemInv
  <1>3. CASE Pruned
    BY <1>1, <1>3, PrunedDoes DEF LocalsInv
  <1> QED
    BY <1>2, <1>3

\* A run that reaches its end has made good of each source what earlier runs left.
LEMMA EndHeals ==
    ASSUME SourcesInv, AllFilesDone \/ Pruned, job'.stage = "idle", NEW f \in Files
    PROVE  SourceHealed(f)
  <1>1. /\ job.stage \in {"pick", "prune"} /\ job.todo = {} /\ manifest' = mem
        /\ job.prune => DOMAIN mem \subseteq job.listed
    BY RunEnds
  <1>2. source[f] \in Textual \ again =>
           f \in DOMAIN mem /\ mem[f].sha = source[f] /\ Held(f, mem[f])
    BY <1>1, DoneIsHeld
  <1>3. job.listed = {g \in Files : source[g] # Gone}
    BY <1>1, DoneIsHeld
  <1> QED
    BY <1>1, <1>2, <1>3 DEF SourceHealed, Held

\* Beside lint too, what the next run would skip as unchanged is what the layers
\* hold, of every content until it comes again.
THEOREM SkippedIsSafeBesideLint ==
    ASSUME StemsApart, TitlesApart
    PROVE  LintSpec => []SkipIsSafe
  <1>1. SourcesInv /\ [LintNext]_vars => SourcesInv'
    BY SourcesStep
  <1>2. SourcesInv => SkipIsSafe
    BY DEF SourcesInv, SkipIsSafe, SafeInv, Held
  <1> QED
    BY SourcesInit, <1>1, <1>2, PTL DEF LintSpec

\* A run that reaches its end leaves every readable source with an entry of its
\* content and the layers to match, and with prune no entry of a source that is
\* gone: whatever runs and fixes were cut short before, whatever raised (also the
\* rebuild of the index), whatever pages were torn and manifests lost.  Of sources
\* whose content came again -- to another source, or back before the layers held
\* it -- it says nothing: those may be skipped against other layers, and their
\* vectors go with those of the other.
THEOREM RunsHealSources ==
    ASSUME StemsApart, TitlesApart
    PROVE  LintSpec => [][(AllFilesDone \/ Pruned) /\ job'.stage = "idle"
                             => \A f \in Files : SourceHealed(f)]_vars
  <1>1. SourcesInv /\ [LintNext]_vars => SourcesInv'
    BY SourcesStep
  <1>2. SourcesInv => [(AllFilesDone \/ Pruned) /\ job'.stage = "idle"
                          => \A f \in Files : SourceHealed(f)]_vars
    BY EndHeals
  <1> QED
    BY SourcesInit, <1>1, <1>2, PTL DEF LintSpec

\* Links of the index that lead nowhere, and what will mend them.
LinksInv == WholeInv /\ RawInv /\ DeadInv

\* Initially there are none.
LEMMA LinksInit == Init => LinksInv
  BY WholeInit, RawInit, DeadInit DEF LinksInv

\* Every step of ingest and of lint keeps the sources that will mend them.
LEMMA LinksStep ==
    ASSUME StemsApart, TitlesApart, ~TornWrites, "index" \notin FaultPoints,
           SourcesInv, LinksInv, [LintNext]_vars
    PROVE  LinksInv'
  <1>1. CASE [Next]_vars
    BY <1>1, WholeStep, RawStep, DeadStep DEF SourcesInv, RunInv, LinksInv
  <1>2. CASE LintFix \/ Apply
    BY <1>2, LinksFixed DEF SourcesInv, LinksInv
  <1> QED
    BY <1>1, <1>2 DEF LintNext

\* After a pruning run over readable sources no source is left to mend a link.
LEMMA NoLinkIsDead ==
    ASSUME SourcesInv, LinksInv, job.stage = "prune", job.todo = {},
           DOMAIN mem \subseteq job.listed, \A f \in Files : source[f] \notin Unreadable \cup again
    PROVE  disk.index \subseteq DOMAIN disk.pages
  <1> SUFFICES ASSUME NEW s \in disk.index \ DOMAIN disk.pages PROVE FALSE
    OBVIOUS
  <1>1. PICK f \in Files : Mends(f, s)
    BY DEF LinksInv, DeadInv
  <1> QED
    BY <1>1 DEF Mends, InRun

\* A run that reaches its end heals, the index included: for any number of files,
\* runs cut short, faults and losses, if pages are written whole and no rebuild of
\* the index raises; the index for sources of which no content has come again.
THEOREM RunsHeal ==
    ASSUME StemsApart, TitlesApart, ~TornWrites, "index" \notin FaultPoints
    PROVE  LintSpec => RunHeals
  <1> DEFINE Inv == SourcesInv /\ LinksInv
  <1>1. Init => Inv
    BY SourcesInit, LinksInit
  <1>2. Inv /\ [LintNext]_vars => Inv'
    BY SourcesStep, LinksStep
  <1>3. Inv => [(AllFilesDone \/ Pruned) /\ job'.stage = "idle" =>
                   /\ \A f \in Files : SourceHealed(f)
                   /\ job.prune /\ (\A f \in Files : source[f] \notin Unreadable \cup again)
                         => disk.index \subseteq DOMAIN disk.pages]_vars
    BY EndHeals, RunEnds, NoLinkIsDead
  <1> QED
    BY <1>1, <1>2, <1>3, PTL DEF LintSpec, RunHeals

\* Where an entry has its layers, lint finds nothing amiss with them.
LEMMA NothingMissing ==
    ASSUME NEW f \in DOMAIN manifest, Held(f, manifest[f]), manifest[f].sha = source[f]
    PROVE  FindingsOf(f) = {}
  <1> DEFINE pages == {manifest[g].page : g \in Referring}
             shas  == {manifest[g].sha : g \in Referring}
             slugs == {StemOf[g] : g \in Referring}
             bad   == {g \in Referring : ~(g \in DOMAIN disk.graph
                                           /\ disk.graph[g] = manifest[g].sha)}
             e     == manifest[f]
  <1>1. /\ f \in DOMAIN disk.raw /\ e.page \in DOMAIN disk.pages
        /\ e.sha \in DOMAIN disk.vectors
        /\ f \in DOMAIN disk.graph /\ disk.graph[f] = e.sha
        /\ StemOf[f] \in DOMAIN disk.trees
    BY DEF Held, Backed, BackedButVectors
  <1>2. /\ f \notin DOMAIN manifest \ DOMAIN disk.raw
        /\ e.page \notin pages \ DOMAIN disk.pages
        /\ e.sha \notin shas \ DOMAIN disk.vectors
        /\ f \notin bad
        /\ StemOf[f] \notin slugs \ DOMAIN disk.trees
    BY <1>1
  <1>3. \A x \in run_checks :
           /\ x[1] = "dangling_manifest_entry" => x[2] \in DOMAIN manifest \ DOMAIN disk.raw
           /\ x[1] = "manifest_wiki_mismatch" => x[2] \in pages \ DOMAIN disk.pages
           /\ x[1] = "manifest_vector_mismatch" => x[2] \in shas \ DOMAIN disk.vectors
           /\ x[1] = "graph_missing" => x[2] \in bad
           /\ x[1] = "tree_missing" => x[2] \in slugs \ DOMAIN disk.trees
    BY DEF run_checks, check_wiki, check_manifest_wiki_raw, check_vector,
           check_graph, check_page_trees, Finding
  <1> HIDE DEF pages, shas, slugs, bad, run_checks
  <1> QED
    BY <1>2, <1>3 DEF FindingsOf, ManifestFindings

\* After a pruning run over readable sources lint finds nothing amiss with what an
\* entry refers to, whatever was cut short, raised, torn or lost before: unless the
\* content of the entry has come again.
THEOREM RunsSettleLint ==
    ASSUME StemsApart, TitlesApart
    PROVE  LintSpec => LintTrusts
  <1> DEFINE Healthy == \A f \in DOMAIN manifest : manifest[f].sha \notin again =>
                           Held(f, manifest[f]) /\ manifest[f].sha = source[f]
             Settled == \A f \in DOMAIN manifest : manifest[f].sha \notin again =>
                           FindingsOf(f) = {}
             Ended   == (AllFilesDone \/ Pruned) /\ job.prune /\ job'.stage = "idle"
                        /\ (\A f \in Files : source[f] \notin Unreadable)
  <1>1. SourcesInv /\ [LintNext]_vars => SourcesInv'
    BY SourcesStep
  <1>2. Healthy => Settled
    BY NothingMissing
  <1>3. (Healthy => Settled)'
    BY <1>2, PTL
  <1>4. SourcesInv /\ Ended => Healthy'
    <2> SUFFICES ASSUME SourcesInv, Ended PROVE Healthy'
      OBVIOUS
    <2>1. /\ job.stage = "prune" /\ job.todo = {} /\ DOMAIN mem \subseteq job.listed
          /\ manifest' = mem /\ UNCHANGED <<source, again, disk>>
      BY RunEnds
    <2>2. ASSUME NEW f \in DOMAIN mem, mem[f].sha \notin again
          PROVE  Held(f, mem[f]) /\ mem[f].sha = source[f]
      <3>1. f \in Files
        BY <2>1, <2>2, DoneIsHeld, EntryOf
      <3>2. source[f] # Gone /\ source[f] \notin Blank \ Unreadable
        BY <2>1, <2>2, <3>1, DoneIsHeld
      <3>3. source[f] \in Contents
        BY <3>1, <3>2 DEF SourcesInv, RunInv, TypeInv
      <3>4. source[f] \in Textual
        BY <3>1, <3>2, <3>3 DEF Textual
      <3> QED
        BY <2>1, <2>2, <3>1, <3>4, DoneIsHeld
    <2> QED
      BY <2>1, <2>2 DEF Held, Backed, BackedButVectors, Derived, Artifact
  <1> HIDE DEF Healthy, FindingsOf
  <1>5. SourcesInv => [Ended => (Readable => Settled)']_vars
    BY <1>3, <1>4
  <1> QED
    BY SourcesInit, <1>1, <1>5, PTL DEF LintSpec, LintTrusts

\* A fix takes nothing from an entry whose layers agree: in whatever state dead
\* runs left the rest, and whatever the sources are called.
THEOREM FixesTakeNothing ==
    LintSpec => FixKeeps
  <1> DEFINE Inv == TypeInv /\ LocalsInv /\ FixInv
  <1>1. Init => Inv
    BY TypeInit, FixInit
  <1>2. Inv /\ [LintNext]_vars => Inv'
    <2>1. ASSUME Inv, [Next]_vars PROVE Inv'
      BY <2>1, TypeStep, LocalsStep, FixStep
    <2>2. ASSUME Inv, LintFix \/ Apply PROVE Inv'
      BY <2>2, TypesFixed, PlansFixed
    <2> QED
      BY <2>1, <2>2 DEF LintNext
  <1>3. Inv => [Apply => \A f \in Referring :
                   LET e == manifest[f] IN
                   Backed(f, e, e.sha) => Backed(f, e, e.sha)']_vars
    <2> SUFFICES ASSUME Inv, Apply, NEW f \in Referring,
                        Backed(f, manifest[f], manifest[f].sha)
                 PROVE  Backed(f, manifest[f], manifest[f].sha)'
      OBVIOUS
    <2>1. Left(disk') /\ UNCHANGED manifest
      BY FixDoes
    <2> DEFINE text == manifest[f].sha
    <2>2. text' = text /\ Backed(f, manifest[f], text)
      BY <2>1
    <2> HIDE DEF text
    <2>3. Backed(f, manifest[f], text)'
      BY <2>1, <2>2, LeftHolds
    <2> QED
      BY <2>3 DEF text
  <1> QED
    BY <1>1, <1>2, <1>3, PTL DEF LintSpec, FixKeeps

-----------------------------------------------------------------------------
(* Knowledge bases that nothing disturbs *)

\* The trees are of the text with their hash.
Worded(trees) == \A s \in DOMAIN trees : trees[s].text = trees[s].sha

WordInv ==
    /\ Worded(disk.trees)
    /\ job.stage \in Transaction => Worded(job.before.trees)

\* Initially there are none.
LEMMA WordInit == Init => WordInv
  <1> SUFFICES ASSUME Init PROVE WordInv
    OBVIOUS
  <1>1. DOMAIN disk.trees = {} /\ job.stage = "idle"
    BY NothingPartial, IdleIs DEF Init, EmptyDisk
  <1> QED
    BY <1>1 DEF WordInv, Worded, Transaction

\* The text of a source is the one it was hashed with.
LEMMA WordStep ==
    ASSUME TypeInv, LocalsInv, StillInv, WordInv, [Next]_vars
    PROVE  WordInv'
  <1> USE DEF Transaction
  \* Steps that keep the trees, or take some away.
  <1>1. ASSUME disk'.trees = disk.trees,
               \/ job'.stage \notin Transaction
               \/ job.stage \in Transaction /\ job'.before = job.before
               \/ job'.before = disk
        PROVE  WordInv'
    BY <1>1 DEF WordInv
  <1>2. ASSUME NEW K, disk'.trees = Drop(disk.trees, K), job'.stage \notin Transaction
        PROVE  WordInv'
    BY <1>2 DEF WordInv, Worded, Drop
  <1>3. EndRun => job'.stage \notin Transaction
    BY Ending, IdleIs
  <1>4. ASSUME NEW prune \in BOOLEAN, Start(prune) PROVE WordInv'
    BY <1>1, <1>4, StartDoes
  <1>5. ASSUME Rollback, job.stage \in Transaction PROVE WordInv'
    <2>1. disk' = Restored /\ job'.stage \notin Transaction
      BY <1>3, <1>5, RollbackDoes
    <2>2. \/ Restored.trees = disk.trees
          \/ /\ StemOf[job.file] \in DOMAIN job.before.trees
             /\ Restored.trees = Put(disk.trees, StemOf[job.file],
                                     job.before.trees[StemOf[job.file]])
          \/ Restored.trees = Drop(disk.trees, {StemOf[job.file]})
      BY DEF Restored
    <2>3. Worded(disk.trees) /\ Worded(job.before.trees)
      BY <1>5 DEF WordInv
    <2>4. Worded(Restored.trees)
      <3> HIDE DEF Restored
      <3> QED
        BY <2>2, <2>3 DEF Worded, Put, Drop
    <2> QED
      BY <2>1, <2>4 DEF WordInv
  <1>6. CASE Examine
    BY <1>1, <1>3, <1>6, ExamineDoes
  <1>7. CASE Parse
    <2>1. \/ EndRun \/ Moved
          \/ job'.stage = "unlink" \/ job'.before = disk
      BY <1>7, ParseDoes
    <2>2. disk'.trees = disk.trees
      BY <1>7, ParseDoes
    <2> QED
      BY <1>1, <1>3, <2>1, <2>2 DEF Moved
  <1>8. CASE SaveTree
    <2>1. /\ job.stage = "tree" /\ job'.stage = "copy" /\ job'.before = job.before
          /\ disk'.trees = Put(disk.trees, StemOf[job.file], Tree(job.file, job.sha, job.text))
      BY <1>8, SaveTreeDoes DEF LocalsKept
    <2>2. job.text = job.sha
      BY <2>1 DEF StillInv
    <2>3. Tree(job.file, job.sha, job.text).text = Tree(job.file, job.sha, job.text).sha
      BY <2>2 DEF Tree
    <2> QED
      BY <2>1, <2>3 DEF WordInv, Worded, Put
  <1>9. CASE CopyRaw \/ RebuildIndex
    BY <1>1, <1>5, <1>9, CopyRawDoes, RebuildIndexDoes DEF LocalsKept
  <1>10. CASE WritePage \/ ReplaceGraph \/ UpsertVectors \/ Commit
    BY <1>1, <1>10, WritePageDoes, ReplaceGraphDoes, UpsertVectorsDoes, CommitDoes
       DEF LocalsKept
  <1>11. CASE Sweep
    BY <1>1, <1>11, SweepDoes DEF Moved
  <1>12. CASE Unlink \/ Detach \/ Unembed \/ Unraw \/ Forget
    BY <1>1, <1>12, UnlinkDoes, DetachDoes, UnembedDoes, UnrawDoes, ForgetDoes DEF Moved
  <1>13. CASE Reindex
    BY <1>1, <1>3, <1>13, ReindexDoes
  <1>14. CASE Untree
    BY <1>1, <1>2, <1>14, UntreeDoes
  <1>15. CASE AllFilesDone \/ Prune \/ Pruned
    BY <1>1, <1>3, <1>15, AllFilesDoneDoes, PruneDoes, PrunedDoes
  <1>16. CASE Fail
    BY <1>5, <1>16, FailDoes
  <1>17. ASSUME NEW f \in Files, NEW c \in Contents \cup {Gone}, Edit(f, c)
         PROVE  WordInv'
    BY <1>1, <1>17, EditDoes
  <1>18. CASE CutShort \/ LoseManifest
    BY <1>1, <1>3, <1>18, CutShortDoes, LoseManifestDoes
  <1>19. CASE UNCHANGED vars
    BY <1>1, <1>19 DEF vars
  <1> QED
    BY <1>4, <1>6, <1>7, <1>8, <1>9, <1>10, <1>11, <1>12, <1>13, <1>14, <1>15, <1>16,
       <1>17, <1>18, <1>19 DEF Next, Ingest, DeleteArtifacts

\* Where the layers agree with the manifest lint finds nothing, unless vectors of a
\* content that came again are gone.
LEMMA NothingFound ==
    ASSUME TypeInv, manifest # Lost, Agreed(again, manifest, disk), WordInv
    PROVE  run_checks \subseteq Finding("manifest_vector_mismatch", again)
  <1>1. ASSUME NEW f \in DOMAIN manifest
        PROVE  /\ Derived(manifest[f])
               /\ disk.pages[manifest[f].page].of = f
               /\ manifest[f].sha \notin again => manifest[f].sha \in DOMAIN disk.vectors
               /\ f \in DOMAIN disk.graph /\ disk.graph[f] = manifest[f].sha
    <2>1. PICK text \in Textual : BackedIn(again, disk, f, manifest[f], text)
      BY DEF Agreed, AllBacked
    <2>2. Artifact(f, text).of = f
      BY DEF Artifact
    <2>3. text = manifest[f].sha
      BY <2>1 DEF BackedIn, WordInv, Worded
    <2> QED
      BY <2>1, <2>2, <2>3 DEF BackedIn
  <1>2. Referring = DOMAIN manifest
    BY <1>1 DEF Referring
  <1>3. /\ DOMAIN disk.pages = PagesOf(manifest) /\ disk.index = PagesOf(manifest)
        /\ DOMAIN disk.raw = DOMAIN manifest /\ DOMAIN disk.graph = DOMAIN manifest
        /\ DOMAIN disk.trees = StemsOf(manifest)
        /\ \A sha \in DOMAIN disk.vectors : OwnedBy(manifest, disk, sha)
    BY DEF Agreed
  <1>4. check_wiki = {}
    BY <1>3 DEF check_wiki, Finding
  <1>5. check_manifest_wiki_raw = {}
    <2>1. {manifest[f].page : f \in Referring} = DOMAIN disk.pages
      BY <1>2, <1>3 DEF PagesOf
    <2>2. {s \in DOMAIN disk.pages : disk.pages[s].of \notin DOMAIN manifest} = {}
      BY <1>1, <1>3 DEF PagesOf
    <2> QED
      BY <1>3, <2>1, <2>2 DEF check_manifest_wiki_raw, Finding
  <1>6. check_vector \subseteq Finding("manifest_vector_mismatch", again)
    <2> DEFINE ids == {manifest[f].sha : f \in Referring}
    <2>1. ids \ DOMAIN disk.vectors \subseteq again
      BY <1>1, <1>2
    <2>2. DOMAIN disk.vectors \ ids = {}
      BY <1>2, <1>3 DEF OwnedBy
    <2> HIDE DEF ids
    <2>3. check_vector = Finding("manifest_vector_mismatch", ids \ DOMAIN disk.vectors)
                         \cup Finding("orphan_vector_chunk", DOMAIN disk.vectors \ ids)
      BY DEF check_vector, ids
    <2> QED
      BY <2>1, <2>2, <2>3 DEF Finding
  <1>7. check_graph = {}
    <2>1. {f \in Referring : ~(f \in DOMAIN disk.graph /\ disk.graph[f] = manifest[f].sha)} = {}
      BY <1>1, <1>2
    <2> QED
      BY <1>3, <2>1 DEF check_graph, Finding
  <1>8. check_page_trees = {}
    <2>1. {StemOf[f] : f \in Referring} = DOMAIN disk.trees
      BY <1>2, <1>3 DEF StemsOf
    <2> QED
      BY <2>1 DEF check_page_trees, Finding
  <1> HIDE DEF Finding
  <1> QED
    BY <1>4, <1>5, <1>6, <1>7, <1>8 DEF run_checks

\* Missing vectors are no finding to plan a fix for.
LEMMA NothingPlanned ==
    ASSUME NEW R, run_checks \subseteq Finding("manifest_vector_mismatch", R)
    PROVE  plan_fixes = {}
  <1>1. /\ Targets("orphan_page") = {} /\ Targets("dead_link") = {}
        /\ Targets("orphan_vector_chunk") = {} /\ Targets("graph_orphan") = {}
    <2>1. \A x \in run_checks : x[1] = "manifest_vector_mismatch"
      BY DEF Finding
    <2> HIDE DEF run_checks
    <2> QED
      BY <2>1 DEF Targets
  <1>2. \A a \in plan_fixes : a.ids # {}
    BY DEF plan_fixes
  <1>3. \A name : Action(name, {}).ids = {} /\ Action(name, {} \cup {}).ids = {}
    BY DEF Action
  <1> SUFFICES ASSUME NEW a \in plan_fixes PROVE FALSE
    OBVIOUS
  <1>4. a \in {Action("rebuild_index", {} \cup {}),
               Action("prune_orphan_vector_chunks", {}), Action("prune_orphan_graph", {})}
    BY <1>1, PlanIs
  <1> QED
    BY <1>2, <1>3, <1>4

\* A step that raises is counted.
LEMMA FaultsCounted ==
    ASSUME TypeInv, LocalsInv, [Next]_vars, count'.faults = 0
    PROVE  count.faults = 0 /\ ~Fail
  <1>1. count \in Counts
    BY DEF TypeInv
  <1>2. ~Fail
    <2> SUFFICES ASSUME Fail PROVE FALSE
      OBVIOUS
    <2>1. PICK cuts : count' = [count EXCEPT !.faults = @ + 1, !.cuts = cuts]
      BY DEF Fail
    <2>2. count'.faults = count.faults + 1 /\ count.faults \in Nat
      BY <1>1, <2>1 DEF Counts
    <2> QED
      BY <2>2
  <1>3. ASSUME NEW prune \in BOOLEAN, Start(prune) PROVE UNCHANGED count
    BY <1>3 DEF Start
  <1>4. Ingest => UNCHANGED count
    BY ExamineDoes, ParseDoes, SaveTreeDoes, CopyRawDoes, WritePageDoes,
       RebuildIndexDoes, ReplaceGraphDoes, UpsertVectorsDoes, CommitDoes, SweepDoes
       DEF Ingest
  <1>5. DeleteArtifacts => UNCHANGED count
    BY UnlinkDoes, ReindexDoes, DetachDoes, UnembedDoes, UntreeDoes, UnrawDoes, ForgetDoes
       DEF DeleteArtifacts
  <1>6. AllFilesDone \/ Prune \/ Pruned => UNCHANGED count
    BY DEF AllFilesDone, Prune, Pruned
  <1>7. ASSUME NEW f \in Files, NEW c \in Contents \cup {Gone}, Edit(f, c)
        PROVE  count'.faults = count.faults
    BY <1>1, <1>7 DEF Edit, Counts
  <1>8. CutShort \/ LoseManifest => count'.faults = count.faults
    BY <1>1 DEF CutShort, LoseManifest, Counts
  <1> QED
    BY <1>2, <1>3, <1>4, <1>5, <1>6, <1>7, <1>8 DEF Next, vars

\* As long as no step raises, layers that nothing disturbs agree, and lint has
\* nothing to do.
CalmInv ==
    count.faults = 0 =>
        /\ AgreeInv
        /\ Undisturbed => job.stage # "fix"

\* What holds of a knowledge base that is only ingested.
CleanInv == RunInv /\ StillInv /\ FixInv /\ WordInv /\ CalmInv

\* Every step of ingest keeps it,
LEMMA CleanStep ==
    ASSUME StemsApart, CleanInv, [Next]_vars
    PROVE  CleanInv'
  <1>1. /\ TypeInv /\ LocalsInv /\ ClaimsInv /\ MemInv /\ BeforeInv /\ StillInv /\ FixInv
        /\ WordInv
    BY DEF CleanInv, RunInv
  <1>2. RunInv' /\ StillInv' /\ FixInv' /\ WordInv'
    BY <1>1, RunStep, StillStep, FixStep, WordStep DEF CleanInv
  <1>3. ASSUME count'.faults = 0 PROVE AgreeInv' /\ (Undisturbed' => job'.stage # "fix")
    <2>1. count.faults = 0 /\ ~Fail
      BY <1>1, <1>3, FaultsCounted
    <2>2. AgreeInv /\ (Undisturbed => job.stage # "fix")
      BY <2>1 DEF CleanInv, CalmInv
    <2>3. AgreeInv'
      BY <1>1, <2>1, <2>2, AgreeStep
    <2>4. Undisturbed' => job'.stage # "fix"
      BY <1>1, <2>2, NotDisturbed, FixOnly
    <2> QED
      BY <2>3, <2>4
  <1> QED
    BY <1>2, <1>3 DEF CleanInv, CalmInv

\* and so does every step of lint: undisturbed there is none.
LEMMA CleanFixed ==
    ASSUME CleanInv, LintFix \/ Apply
    PROVE  CleanInv'
  <1>1. /\ TypeInv /\ LocalsInv /\ FixInv /\ RunInv
    BY DEF CleanInv, RunInv
  <1>2. /\ job.stage \in {"idle", "fix"} /\ job'.stage \in {"idle", "fix"}
        /\ Left(disk') /\ manifest # Lost /\ UNCHANGED <<source, again, manifest>>
        /\ count'.cuts = count.cuts /\ count'.losses = count.losses
        /\ count'.faults >= count.faults /\ count' \in Counts
    BY <1>1, FixDoes
  <1>3. RunInv' /\ FixInv'
    BY <1>1, RunFixed, PlansFixed
  <1>4. StillInv'
    BY <1>2 DEF StillInv, InRun, Transaction, Removal
  <1>5. WordInv'
    BY <1>2 DEF CleanInv, WordInv, Left, Transaction
  <1>6. ~(Undisturbed' /\ count'.faults = 0)
    <2> SUFFICES ASSUME Undisturbed', count'.faults = 0 PROVE FALSE
      OBVIOUS
    <2>1. Undisturbed /\ count.faults = 0
      <3>1. count \in Counts
        BY <1>1 DEF TypeInv
      <3> QED
        BY <1>2, <3>1 DEF Undisturbed, Counts
    <2>2. job.stage # "fix" /\ AgreeInv
      BY <2>1 DEF CleanInv, CalmInv
    <2>3. job.stage = "idle" /\ Agreed(again, manifest, disk)
      BY <1>2, <2>1, <2>2 DEF AgreeInv
    <2>4. LintFix
      BY <2>2 DEF Apply
    <2>5. plan_fixes = {}
      BY <1>1, <1>2, <2>3, NothingFound, NothingPlanned DEF CleanInv
    <2> QED
      BY <2>4, <2>5 DEF LintFix
  <1>7. CalmInv'
    BY <1>6 DEF CalmInv, AgreeInv
  <1> QED
    BY <1>3, <1>4, <1>5, <1>7 DEF CleanInv

\* As long as nothing is cut short, lost or raised, lint finds nothing: whatever is
\* added, changed, emptied, broken and removed, and whatever titles are shared; but
\* for missing vectors of a content that came again.
THEOREM LintIsClean ==
    ASSUME StemsApart
    PROVE  LintSpec => []LintClean
  <1>1. Init => CleanInv
    <2>1. Init => RunInv /\ StillInv /\ FixInv /\ WordInv /\ AgreeInv
      BY RunInit, StillInit, FixInit, WordInit, AgreeInit
    <2>2. Init => job.stage # "fix"
      BY IdleIs DEF Init
    <2> QED
      BY <2>1, <2>2 DEF CleanInv, CalmInv
  <1>2. CleanInv /\ [LintNext]_vars => CleanInv'
    BY CleanStep, CleanFixed DEF LintNext
  <1>3. CleanInv => LintClean
    <2> SUFFICES ASSUME CleanInv, Undisturbed, count.faults = 0, job.stage = "idle"
                 PROVE  run_checks \subseteq Finding("manifest_vector_mismatch", again)
      BY DEF LintClean
    <2>1. manifest # Lost /\ Agreed(again, manifest, disk)
      BY DEF CleanInv, CalmInv, AgreeInv
    <2> QED
      BY <2>1, NothingFound DEF CleanInv, RunInv
  <1> QED
    BY <1>1, <1>2, <1>3, PTL DEF LintSpec

-----------------------------------------------------------------------------
(* The catalog *)

\* What is left of a sequence between two places.
LEMMA Slice ==
    ASSUME NEW S, NEW s \in Seq(S), NEW m \in Nat, NEW k \in Nat, k <= Len(s)
    PROVE  /\ SubSeq(s, m + 1, k) \in Seq(S)
           /\ Len(SubSeq(s, m + 1, k)) = IF m < k THEN k - m ELSE 0
           /\ \A i \in 1 .. Len(SubSeq(s, m + 1, k)) : SubSeq(s, m + 1, k)[i] = s[m + i]
  <1> DEFINE from == m + 1
             t == SubSeq(s, from, k)
  <1>1. from \in Int /\ k \in Int /\ \A i \in from .. k : s[i] \in S
    OBVIOUS
  <1>2. from = m + 1
    OBVIOUS
  <1> HIDE DEF from
  <1>3. /\ t \in Seq(S) /\ Len(t) = IF from <= k THEN k - from + 1 ELSE 0
        /\ \A i \in 1 .. k - from + 1 : t[i] = s[from + i - 1]
    BY <1>1, SubSeqProperties
  <1> HIDE DEF t
  <1>4. Len(t) = IF m < k THEN k - m ELSE 0
    BY <1>2, <1>3
  <1>5. ASSUME NEW i \in 1 .. Len(t) PROVE t[i] = s[m + i]
    <2>1. i \in 1 .. k - from + 1 /\ from + i - 1 = m + i
      BY <1>2, <1>3
    <2> QED
      BY <1>3, <2>1
  <1> QED
    BY <1>2, <1>3, <1>4, <1>5 DEF t

\* The pages of a sequence, cut anywhere, go on where they were cut.
LEMMA PagesGoOn ==
    ASSUME NEW S, NEW s \in Seq(S), NEW limit \in Nat, limit # None, NEW offset \in Nat
    PROVE  Page(s, offset, limit) \o Page(s, offset + limit, None) = Page(s, offset, None)
  <1> DEFINE n   == Len(s)
             cut == IF offset + limit > n THEN n ELSE offset + limit
             a   == SubSeq(s, offset + 1, cut)
             b   == SubSeq(s, offset + limit + 1, n)
             c   == SubSeq(s, offset + 1, n)
  <1>1. n \in Nat /\ cut \in Nat
    OBVIOUS
  <1>2. /\ Page(s, offset, limit) = a /\ Page(s, offset + limit, None) = b
        /\ Page(s, offset, None) = c
    BY DEF Page
  <1>3. /\ a \in Seq(S) /\ Len(a) = (IF offset < cut THEN cut - offset ELSE 0)
        /\ \A i \in 1 .. Len(a) : a[i] = s[offset + i]
    <2> HIDE DEF cut
    <2>1. cut <= n
      BY DEF cut
    <2> QED
      BY <1>1, <2>1, Slice
  <1>4. /\ b \in Seq(S)
        /\ Len(b) = (IF offset + limit < n THEN n - (offset + limit) ELSE 0)
        /\ \A i \in 1 .. Len(b) : b[i] = s[offset + limit + i]
    <2>1. PICK m \in Nat : m = offset + limit
      OBVIOUS
    <2>2. /\ SubSeq(s, m + 1, n) \in Seq(S)
          /\ Len(SubSeq(s, m + 1, n)) = (IF m < n THEN n - m ELSE 0)
          /\ \A i \in 1 .. Len(SubSeq(s, m + 1, n)) : SubSeq(s, m + 1, n)[i] = s[m + i]
      BY <1>1, Slice
    <2> QED
      BY <2>1, <2>2
  <1>5. /\ c \in Seq(S) /\ Len(c) = (IF offset < n THEN n - offset ELSE 0)
        /\ \A i \in 1 .. Len(c) : c[i] = s[offset + i]
    BY <1>1, Slice
  <1>6. cut = IF offset + limit > n THEN n ELSE offset + limit
    OBVIOUS
  <1> HIDE DEF n, cut, a, b, c
  <1>7. /\ a \o b \in Seq(S) /\ Len(a \o b) = Len(a) + Len(b)
        /\ \A i \in 1 .. Len(a) + Len(b) :
              (a \o b)[i] = IF i <= Len(a) THEN a[i] ELSE b[i - Len(a)]
    BY <1>3, <1>4, ConcatProperties
  <1>8. Len(a) \in Nat /\ Len(b) \in Nat /\ Len(a) + Len(b) = Len(c)
    BY <1>1, <1>3, <1>4, <1>5, <1>6
  <1>9. ASSUME NEW i \in 1 .. Len(c) PROVE (a \o b)[i] = c[i]
    <2>1. i \in Nat /\ (a \o b)[i] = IF i <= Len(a) THEN a[i] ELSE b[i - Len(a)]
      BY <1>7, <1>8
    <2>2. CASE i <= Len(a)
      BY <1>3, <1>5, <1>8, <2>1, <2>2
    <2>3. CASE i > Len(a)
      <3>1. i - Len(a) \in 1 .. Len(b)
        BY <1>8, <2>3
      <3>2. Len(a) = limit
        <4>1. Len(b) > 0
          BY <1>8, <3>1
        <4>2. offset + limit < n /\ cut = offset + limit
          BY <1>1, <1>4, <1>6, <4>1
        <4> QED
          BY <1>1, <1>3, <4>2
      <3>3. b[i - Len(a)] = s[offset + limit + (i - Len(a))]
        BY <1>4, <3>1
      <3>4. offset + limit + (i - Len(a)) = offset + i
        BY <1>8, <3>2
      <3> QED
        <4>1. (a \o b)[i] = b[i - Len(a)]
          BY <1>8, <2>1, <2>3
        <4>2. c[i] = s[offset + i]
          BY <1>5
        <4> QED
          BY <3>3, <3>4, <4>1, <4>2, Zenon
    <2> QED
      BY <1>8, <2>1, <2>2, <2>3
  <1>10. a \o b = c
    BY <1>5, <1>7, <1>8, <1>9, SeqEqual
  <1> QED
    BY <1>2, <1>10

\* Of each source of F the raw copy and the page that the manifest names.
Shown(F, pages, raw) ==
    \A f \in F : /\ f \in DOMAIN raw
                 /\ Derived(manifest[f]) => manifest[f].page \in DOMAIN pages

NoneTorn(pages) == \A s \in DOMAIN pages : pages[s] # Torn

\* What nothing has disturbed: what a reader is shown, and what a run that fails
\* puts back.  No page belongs to two entries, whatever titles are shared.
ShownInv ==
    Undisturbed =>
        /\ manifest # Lost
        /\ NoneTorn(disk.pages)
        /\ Shown(DOMAIN manifest \ Leaving, disk.pages, disk.raw)
        /\ \A f, g \in DOMAIN manifest :
              Derived(manifest[f]) /\ manifest[f].page = manifest[g].page => f = g
        /\ job.stage \in Transaction =>
              /\ NoneTorn(job.before.pages)
              /\ Shown(DOMAIN manifest, job.before.pages, job.before.raw)
        /\ job.stage \in {"forget"} \cup Removal =>
              job.file \in DOMAIN manifest /\ manifest[job.file] = job.existing

\* Initially there is nothing to show.
LEMMA ShownInit == Init => ShownInv
  <1> SUFFICES ASSUME Init PROVE ShownInv
    OBVIOUS
  <1>1. manifest = Nothing /\ DOMAIN Nothing = {} /\ job.stage = "idle"
        /\ DOMAIN disk.pages = {} /\ Nothing \in Manifests
    BY NothingPartial, IdleIs, EmptyDiskType DEF Init, Manifests
  <1> HIDE DEF Nothing
  <1>2. manifest # Lost
    BY <1>1, ManifestIsNotLost
  <1> QED
    BY <1>1, <1>2 DEF ShownInv, Shown, NoneTorn, Transaction, Removal

\* Outside removals and pruning no source leaves.
LEMMA NoneLeaves ==
    ASSUME MemInv, job.stage \in {"idle", "pick", "parse", "sweep"} \cup Transaction
    PROVE  Leaving = {}
    BY DEF Leaving, MemInv, Transaction, Removal

\* Every step of ingest keeps what is shown.
LEMMA ShownStep ==
    ASSUME TypeInv, LocalsInv, MemInv, BeforeInv, ShownInv, [Next]_vars
    PROVE  ShownInv'
  <1> SUFFICES ASSUME Undisturbed' PROVE ShownInv'
    BY DEF ShownInv
  <1> USE DEF Transaction, Removal
  <1>1. Undisturbed /\ ~CutShort /\ ~LoseManifest
    BY NotDisturbed
  <1>2. /\ manifest # Lost /\ NoneTorn(disk.pages)
        /\ Shown(DOMAIN manifest \ Leaving, disk.pages, disk.raw)
        /\ \A f, g \in DOMAIN manifest :
              Derived(manifest[f]) /\ manifest[f].page = manifest[g].page => f = g
        /\ job.stage \in Transaction =>
              /\ NoneTorn(job.before.pages)
              /\ Shown(DOMAIN manifest, job.before.pages, job.before.raw)
        /\ job.stage \in {"forget"} \cup Removal =>
              job.file \in DOMAIN manifest /\ manifest[job.file] = job.existing
    BY <1>1 DEF ShownInv
  <1>3. job.stage \in {"idle", "pick", "parse", "sweep"} \cup Transaction => Leaving = {}
    BY NoneLeaves
  \* Steps that take nothing away.
  <1>4. ASSUME UNCHANGED manifest, NoneTorn(disk'.pages), Leaving \subseteq Leaving',
               DOMAIN disk.pages \subseteq DOMAIN disk'.pages,
               DOMAIN disk.raw \subseteq DOMAIN disk'.raw,
               job'.stage \in Transaction =>
                  job.stage \in Transaction /\ job'.before = job.before,
               job'.stage \in {"forget"} \cup Removal =>
                  /\ job.stage \in {"forget"} \cup Removal
                  /\ job'.file = job.file /\ job'.existing = job.existing
        PROVE  ShownInv'
    BY <1>2, <1>4 DEF ShownInv, Shown, NoneTorn, Derived
  <1>5. ASSUME EndRun PROVE job'.stage = "idle"
    BY <1>5, Ending, IdleIs
  \* The run goes on with the next file, ends, or goes on in a transaction.
  <1>6. ASSUME Leaving = {}, UNCHANGED <<manifest, disk>>,
               job'.stage \in {"idle", "pick", "parse", "prune"}
        PROVE  ShownInv'
    BY <1>2, <1>4, <1>6
  <1>7. ASSUME job.stage \in Transaction, job'.stage \in Transaction, UNCHANGED manifest,
               job'.before = job.before, disk'.pages = disk.pages,
               DOMAIN disk.raw \subseteq DOMAIN disk'.raw
        PROVE  ShownInv'
    BY <1>2, <1>3, <1>4, <1>7
  \* A failed transaction leaves what was there before it.
  <1>8. ASSUME Rollback, job.stage \in Transaction PROVE ShownInv'
    <2>1. disk' = Restored /\ job'.stage = "idle" /\ UNCHANGED manifest /\ Leaving' = {}
      BY <1>5, <1>8, RollbackDoes DEF Leaving
    <2>2. NoneTorn(Restored.pages) /\ Shown(DOMAIN manifest, Restored.pages, Restored.raw)
      <3>1. CASE job.stage # "index"
        BY <1>2, <1>8, <3>1, RestoredRawAndPages
      <3>2. CASE job.stage = "index"
        <4>1. /\ Restored.pages = disk.pages
              /\ Restored.raw = IF job.file \in DOMAIN job.before.raw
                                THEN Put(disk.raw, job.file, job.before.raw[job.file])
                                ELSE Drop(disk.raw, {job.file})
          BY <1>8, <3>2, RestoredIs
        <4>2. job.file \in DOMAIN manifest => job.file \in DOMAIN job.before.raw
          BY <1>2, <1>8 DEF Shown
        <4>3. \A f \in DOMAIN manifest : f \in DOMAIN disk.raw => f \in DOMAIN Restored.raw
          BY <4>1, <4>2 DEF Put, Drop
        <4> QED
          BY <1>2, <1>3, <1>8, <4>1, <4>3 DEF Shown
      <3> QED
        BY <3>1, <3>2
    <2> QED
      BY <1>2, <2>1, <2>2 DEF ShownInv, Shown, NoneTorn, Derived
  <1>9. ASSUME NEW prune \in BOOLEAN, Start(prune) PROVE ShownInv'
    <2>1. job.stage = "idle" /\ job'.stage = "pick" /\ UNCHANGED disk /\ manifest' = Resumed
      BY <1>9, StartDoes
    <2>2. Resumed = manifest
      BY <1>2 DEF Resumed
    <2> QED
      BY <1>3, <1>6, <2>1, <2>2
  <1>10. CASE Examine
    BY <1>3, <1>5, <1>6, <1>10, ExamineDoes
  <1>11. CASE Parse
    <2>1. /\ job.stage = "parse" /\ UNCHANGED <<disk, manifest>> /\ Leaving = {}
          /\ mem = manifest
          /\ job.existing = IF job.file \in DOMAIN mem THEN mem[job.file] ELSE None
      BY <1>3, <1>11, ParseDoes DEF MemInv
    <2>2. \/ EndRun \/ Moved
          \/ job.existing # None /\ job'.stage = "unlink" /\ LocalsKept
          \/ job'.stage = "tree" /\ job'.before = disk
      BY <1>11, ParseDoes
    <2>3. CASE EndRun \/ Moved
      BY <1>5, <1>6, <2>1, <2>3 DEF Moved
    <2>4. CASE job.existing # None /\ job'.stage = "unlink" /\ LocalsKept
      BY <1>2, <2>1, <2>4 DEF LocalsKept, ShownInv, Shown, NoneTorn, Derived
    <2>5. CASE job'.stage = "tree" /\ job'.before = disk
      BY <1>2, <2>1, <2>5 DEF ShownInv, Shown, NoneTorn, Derived
    <2> QED
      BY <2>2, <2>3, <2>4, <2>5
  <1>12. CASE SaveTree
    BY <1>7, <1>12, SaveTreeDoes DEF LocalsKept
  <1>13. CASE CopyRaw
    <2>1. CASE Rollback
      BY <1>8, <1>13, <2>1, CopyRawDoes
    <2>2. CASE ~Rollback
      <3>1. /\ job.stage = "copy" /\ job'.stage = "page" /\ LocalsKept
            /\ UNCHANGED manifest /\ disk'.pages = disk.pages
            /\ disk'.raw = Put(disk.raw, job.file, source[job.file])
        BY <1>13, <2>2, CopyRawDoes
      <3>2. DOMAIN disk.raw \subseteq DOMAIN disk'.raw
        BY <3>1 DEF Put
      <3> QED
        BY <1>7, <3>1, <3>2 DEF LocalsKept
    <2> QED
      BY <2>1, <2>2
  <1>14. CASE WritePage
    <2>1. /\ job.stage = "page" /\ job'.stage = "index" /\ job'.before = job.before
          /\ disk'.pages = Put(disk.pages, PageSlug, Artifact(job.file, job.text))
          /\ disk'.raw = disk.raw /\ UNCHANGED manifest
      BY <1>14, WritePageDoes
    <2>2. Artifact(job.file, job.text) # Torn
      <3>1. job.file \in Files /\ job.text \in Contents
        BY <2>1, TextualIsContent DEF LocalsInv
      <3> QED
        BY <3>1, ArtifactType, MarksAssumption
    <2>3. NoneTorn(disk'.pages) /\ DOMAIN disk.pages \subseteq DOMAIN disk'.pages
      BY <1>2, <2>1, <2>2 DEF NoneTorn, Put
    <2> QED
      BY <1>3, <1>4, <2>1, <2>3
  <1>15. CASE RebuildIndex
    BY <1>7, <1>8, <1>15, RebuildIndexDoes DEF LocalsKept
  <1>16. CASE ReplaceGraph
    BY <1>7, <1>16, ReplaceGraphDoes DEF LocalsKept
  <1>17. CASE UpsertVectors
    BY <1>7, <1>17, UpsertVectorsDoes DEF LocalsKept
  \* A source gets an entry when all of it is written.
  <1>18. CASE Commit
    <2>1. /\ job.stage = "commit" /\ job'.stage = "sweep" /\ UNCHANGED disk
          /\ mem' = Put(mem, job.file, Entry(job.sha, job.slug)) /\ manifest' = mem'
          /\ mem' \in Manifests
      BY <1>18, CommitDoes
    <2>2. /\ mem = manifest /\ Leaving = {} /\ job.file \in Files /\ job.slug \in Slugs
          /\ job.existing = IF job.file \in DOMAIN mem THEN mem[job.file] ELSE None
          /\ HasEntry(job.existing) => job.slug = job.existing.page
      BY <1>3, <2>1 DEF MemInv, LocalsInv, PastPage, PastIndex, PastGraph, PastVector
    <2>3. /\ job.file \in DOMAIN disk.raw /\ job.slug \in DOMAIN disk.pages
          /\ ~HasEntry(job.existing) => job.slug \notin DOMAIN job.before.pages
      BY <2>1 DEF BeforeInv, Put, PastCopy, PastPage, PastIndex, PastGraph, PastVector
    <2>4. ASSUME NEW g \in DOMAIN manifest, g # job.file PROVE manifest[g].page # job.slug
      <3>1. CASE HasEntry(job.existing)
        BY <1>2, <2>2, <2>4, <3>1 DEF HasEntry
      <3>2. CASE ~HasEntry(job.existing) /\ Derived(manifest[g])
        BY <1>2, <2>1, <2>3, <3>2 DEF Shown
      <3>3. CASE ~Derived(manifest[g])
        BY <2>2, <3>3, MarksAssumption DEF Derived
      <3> QED
        BY <3>1, <3>2, <3>3
    <2>5. Entry(job.sha, job.slug).page = job.slug
      BY DEF Entry
    <2>6. /\ job.file \in DOMAIN manifest' /\ manifest'[job.file].page = job.slug
          /\ \A g \in DOMAIN manifest' \ {job.file} :
                g \in DOMAIN manifest /\ manifest'[g] = manifest[g]
      BY <2>1, <2>2, <2>5 DEF Put
    <2>7. Shown(DOMAIN manifest \ Leaving, disk.pages, disk.raw)'
      BY <1>2, <2>1, <2>2, <2>3, <2>6 DEF Shown, Derived
    <2>8. \A f, g \in DOMAIN manifest' :
             Derived(manifest'[f]) /\ manifest'[f].page = manifest'[g].page => f = g
      BY <1>2, <2>4, <2>6
    <2>9. manifest' # Lost /\ NoneTorn(disk'.pages)
      BY <1>2, <2>1, ManifestIsNotLost
    <2> QED
      BY <2>1, <2>7, <2>8, <2>9 DEF ShownInv, NoneTorn, Derived
  <1>19. CASE Sweep
    <2>1. /\ job.stage = "sweep" /\ job'.stage = "pick" /\ disk'.raw = disk.raw
          /\ disk'.pages = Drop(disk.pages, StalePages) /\ UNCHANGED manifest
      BY <1>19, SweepDoes DEF Moved
    <2>2. StalePages = {}
      BY <2>1 DEF StalePages, MemInv, PastPage, PastIndex, PastGraph, PastVector
    <2>3. DOMAIN disk'.pages = DOMAIN disk.pages /\ NoneTorn(disk'.pages)
      BY <1>2, <2>1, <2>2 DEF Drop, NoneTorn
    <2> QED
      BY <1>3, <1>4, <2>1, <2>3
  \* A source that is being removed is not shown, and shares nothing.
  <1>20. ASSUME job.stage \in Removal, job'.stage \in {"forget"} \cup Removal, LocalsKept,
                UNCHANGED <<mem, manifest>>
         PROVE  Leaving' = Leaving /\ job.file \in Leaving
    BY <1>20 DEF LocalsKept, Leaving
  <1>21. CASE Unlink
    <2>1. /\ job.stage = "unlink" /\ job'.stage = "reindex" /\ LocalsKept
          /\ disk'.pages = Drop(disk.pages, {job.existing.page})
          /\ disk'.raw = disk.raw /\ UNCHANGED <<mem, manifest>>
      BY <1>21, UnlinkDoes
    <2>2. Leaving' = Leaving /\ job.file \in Leaving
      BY <1>20, <2>1
    <2>3. ASSUME NEW f \in DOMAIN manifest \ Leaving, Derived(manifest[f])
          PROVE  manifest[f].page # job.existing.page
      BY <1>2, <2>1, <2>2, <2>3
    <2>4. Shown(DOMAIN manifest \ Leaving, disk'.pages, disk'.raw) /\ NoneTorn(disk'.pages)
      BY <1>2, <2>1, <2>3 DEF Shown, NoneTorn, Drop
    <2> QED
      BY <1>2, <2>1, <2>2, <2>4 DEF ShownInv, Shown, NoneTorn, Derived, LocalsKept
  <1>22. ASSUME job.stage \in Removal, job'.stage \in {"forget"} \cup Removal, LocalsKept,
                UNCHANGED <<mem, manifest>>, disk'.pages = disk.pages, disk'.raw = disk.raw
         PROVE  ShownInv'
    BY <1>2, <1>4, <1>20, <1>22 DEF LocalsKept
  <1>23. CASE Reindex
    <2>1. Indexable
      BY <1>2 DEF Indexable, NoneTorn
    <2> QED
      BY <1>22, <1>23, <2>1, ReindexDoes
  <1>24. CASE Detach \/ Unembed \/ Untree
    BY <1>22, <1>24, DetachDoes, UnembedDoes, UntreeDoes
  <1>25. CASE Unraw
    <2>1. /\ job.stage = "unraw" /\ LocalsKept
          /\ job'.stage = IF job.todo = {} THEN "prune" ELSE "forget"
          /\ disk'.raw = Drop(disk.raw, {job.file})
          /\ disk'.pages = disk.pages /\ UNCHANGED <<mem, manifest>>
      BY <1>25, UnrawDoes
    <2>2. Leaving' = Leaving /\ job.file \in Leaving
      <3>1. job.todo = {} => job.file \in DOMAIN manifest \ DOMAIN mem
        BY <1>2, <2>1 DEF MemInv
      <3> QED
        BY <2>1, <3>1 DEF Leaving, LocalsKept
    <2>3. Shown(DOMAIN manifest \ Leaving, disk'.pages, disk'.raw)
      BY <1>2, <2>1, <2>2 DEF Shown, Drop
    <2> QED
      BY <1>2, <2>1, <2>2, <2>3 DEF ShownInv, Shown, NoneTorn, Derived, LocalsKept
  \* What is forgotten had left.
  <1>26. ASSUME NEW m \in Manifests, manifest' = m, UNCHANGED disk,
                job'.stage \in {"idle", "pick"},
                \A f \in DOMAIN m : f \in DOMAIN manifest \ Leaving /\ m[f] = manifest[f]
         PROVE  ShownInv'
    <2>1. manifest' # Lost
      BY <1>26, ManifestIsNotLost
    <2> QED
      BY <1>2, <1>26, <2>1 DEF ShownInv, Shown, NoneTorn, Derived
  <1>27. CASE Forget
    <2>1. /\ job.stage = "forget" /\ job'.stage = "pick" /\ UNCHANGED disk
          /\ mem' = Drop(mem, {job.file}) /\ manifest' = mem' /\ mem' \in Manifests
      BY <1>27, ForgetDoes DEF Moved
    <2>2. mem = manifest
      BY <2>1 DEF MemInv
    <2>3. \A f \in DOMAIN mem' : f \in DOMAIN manifest \ Leaving /\ mem'[f] = manifest[f]
      BY <2>1, <2>2 DEF Drop, Leaving
    <2> QED
      BY <1>26, <2>1, <2>3
  <1>28. CASE AllFilesDone
    BY <1>3, <1>5, <1>6, <1>28, AllFilesDoneDoes
  <1>29. CASE Prune
    <2>1. job.stage = "prune" /\ UNCHANGED <<disk, manifest>>
      BY <1>29, PruneDoes
    <2>2. PICK f \in DOMAIN mem : /\ mem' = Drop(mem, {f}) /\ job'.stage = "unlink"
                                  /\ job'.file = f /\ job'.existing = mem[f]
      BY <1>29, PruneDoes
    <2>3. f \in DOMAIN manifest /\ manifest[f] = mem[f]
      BY <2>1 DEF MemInv
    <2>4. Leaving \subseteq Leaving'
      BY <2>1, <2>2 DEF Leaving, Drop
    <2> QED
      BY <1>2, <2>1, <2>2, <2>3, <2>4 DEF ShownInv, Shown, NoneTorn, Derived
  <1>30. CASE Pruned
    <2>1. job.stage = "prune" /\ manifest' = mem /\ UNCHANGED disk /\ job'.stage = "idle"
          /\ mem \in Manifests
      BY <1>5, <1>30, PrunedDoes DEF TypeInv
    <2>2. \A f \in DOMAIN mem : f \in DOMAIN manifest \ Leaving /\ mem[f] = manifest[f]
      BY <2>1 DEF MemInv, Leaving
    <2> QED
      BY <1>26, <2>1, <2>2
  <1>31. CASE Fail
    BY <1>8, <1>31, FailDoes
  <1>32. ASSUME UNCHANGED <<disk, manifest, mem, job>> PROVE ShownInv'
    <2>1. Leaving' = Leaving
      BY <1>32 DEF Leaving
    <2> QED
      BY <1>2, <1>4, <1>32, <2>1
  <1>33. ASSUME NEW f \in Files, NEW c \in Contents \cup {Gone}, Edit(f, c)
         PROVE  ShownInv'
    BY <1>32, <1>33, EditDoes
  <1>34. UNCHANGED vars => ShownInv'
    BY <1>32 DEF vars
  <1> QED
    BY <1>1, <1>9, <1>10, <1>11, <1>12, <1>13, <1>14, <1>15, <1>16, <1>17, <1>18, <1>19,
       <1>21, <1>23, <1>24, <1>25, <1>27, <1>28, <1>29, <1>30, <1>31, <1>33, <1>34
       DEF Next, Ingest, DeleteArtifacts

\* What a run and a fix know, and what of it is shown.
CatalogInv == TypeInv /\ LocalsInv /\ MemInv /\ BeforeInv /\ FixInv /\ ShownInv

\* A fix takes away no raw copy and no page.
LEMMA ShownFixed ==
    ASSUME CatalogInv, LintFix \/ Apply
    PROVE  CatalogInv'
  <1> USE DEF Transaction, Removal
  <1>1. /\ TypeInv /\ LocalsInv /\ MemInv /\ FixInv /\ ShownInv
        /\ job.stage \in {"idle", "fix"} /\ job'.stage \in {"idle", "fix"}
        /\ job.stage = "fix" => mem = manifest
        /\ manifest # Lost
        /\ job'.stage = "fix" => mem' = manifest
        /\ job'.stage = "idle" => DOMAIN mem' = {}
        /\ disk'.raw = disk.raw /\ disk'.pages = disk.pages
        /\ count'.cuts = count.cuts /\ count'.losses = count.losses
        /\ UNCHANGED manifest
    BY FixDoes DEF CatalogInv, FixInv, Left
  <1>2. TypeInv' /\ LocalsInv' /\ FixInv'
    BY <1>1, TypesFixed, PlansFixed
  <1>3. MemInv' /\ BeforeInv'
    BY <1>1 DEF MemInv, BeforeInv, PastPage, PastIndex, PastGraph, PastVector
  <1>4. Leaving = {} /\ Leaving' = {}
    BY <1>1 DEF Leaving
  <1>5. ShownInv'
    BY <1>1, <1>4 DEF ShownInv, Shown, NoneTorn, Derived, Undisturbed
  <1> QED
    BY <1>2, <1>3, <1>5 DEF CatalogInv

\* No page and no copy of what stays is missing.
LEMMA ShownIsOk ==
    ASSUME ShownInv, Undisturbed, NEW f \in DOMAIN manifest \ Leaving
    PROVE  show_source(f).status = "ok"
  <1>1. manifest # Lost /\ f \in DOMAIN manifest
    BY DEF ShownInv
  <1>2. EntryIssues(f, manifest[f]) = {}
    BY DEF ShownInv, Shown, EntryIssues
  <1>3. Status(EntryIssues(f, manifest[f])) = "ok"
    BY <1>2 DEF Status
  <1> HIDE DEF EntryIssues, Status
  <1> QED
    BY <1>1, <1>3 DEF show_source, SourceEntry

\* A listing shows each source once, and goes on where it was cut.
LEMMA ListingIsWhole ==
    ASSUME TypeInv, manifest # Lost
    PROVE  LET all == list_sources(Files, 0, None) IN
           /\ \A f \in DOMAIN manifest :
                 \E i \in DOMAIN all : \A j \in DOMAIN all : all[j].relpath = f <=> j = i
           /\ \A limit \in Limits \ {None} : \A offset \in Offsets :
                 list_sources(Files, offset, limit) \o list_sources(Files, offset + limit, None)
                    = list_sources(Files, offset, None)
  <1> DEFINE S       == {f \in DOMAIN manifest : f \in Files}
             listed  == Sorted(S)
             entries == [i \in DOMAIN listed |-> SourceEntry(listed[i])]
             R       == {SourceEntry(f) : f \in S}
  <1>1. \A offset, limit : list_sources(Files, offset, limit) = Page(entries, offset, limit)
    BY DEF list_sources
  <1>2. /\ Cardinality(S) \in Nat /\ DOMAIN listed = 1 .. Cardinality(S)
        /\ \A i \in DOMAIN listed : listed[i] \in S
        /\ \A f \in S : \E i \in DOMAIN listed : \A j \in DOMAIN listed :
              listed[j] = f <=> j = i
    <2>1. S \in SUBSET Files
      OBVIOUS
    <2> HIDE DEF S
    <2> QED
      BY <2>1, SortedIs
  <1>3. DOMAIN manifest \subseteq S
    BY EntryOf DEF TypeInv
  <1> HIDE DEF S, listed
  <1>4. entries \in Seq(R) /\ Len(entries) = Cardinality(S)
        /\ \A j \in DOMAIN listed : entries[j].relpath = listed[j]
    <2>1. \A f : SourceEntry(f).relpath = f
      BY DEF SourceEntry
    <2>2. entries \in [1 .. Cardinality(S) -> R]
      BY <1>2
    <2> HIDE DEF R
    <2>3. entries \in Seq(R) /\ Len(entries) = Cardinality(S)
      <3> HIDE DEF entries
      <3> QED
        BY <1>2, <2>2
    <2> QED
      BY <2>1, <2>3
  <1>5. DOMAIN entries = 1 .. Cardinality(S)
    BY <1>2
  <1> HIDE DEF entries, R
  <1>6. Page(entries, 0, None) = entries
    <2>1. Page(entries, 0, None) = SubSeq(entries, 1, Len(entries))
      BY DEF Page
    <2> QED
      BY <1>4, <2>1, SubSeqFull
  <1>7. Len(FileOrder) \in Nat
    BY FilesAssumption
  <1>8. ASSUME NEW limit \in Limits \ {None}, NEW offset \in Offsets
        PROVE  Page(entries, offset, limit) \o Page(entries, offset + limit, None)
                  = Page(entries, offset, None)
    <2>1. limit \in Nat /\ limit # None /\ offset \in Nat
      BY <1>7 DEF Limits, Offsets
    <2> QED
      BY <1>4, <2>1, PagesGoOn
  <1>9. ASSUME NEW f \in DOMAIN manifest
        PROVE  \E i \in DOMAIN entries : \A j \in DOMAIN entries :
                  entries[j].relpath = f <=> j = i
    BY <1>2, <1>3, <1>4, <1>5
  <1> QED
    BY <1>1, <1>6, <1>8, <1>9

\* The catalog raises no alarm while runs work undisturbed, and shows each source
\* once: whatever is edited, whatever step of a transaction raises and is undone,
\* and whatever titles and contents are shared and come again.  A removal or a sweep
\* that raises, nobody undoes: it counts as a run cut short.
THEOREM CatalogStaysCalm == LintSpec => []CatalogCalm
  <1>1. Init => CatalogInv
    BY TypeInit, MemInit, BeforeInit, FixInit, ShownInit DEF CatalogInv
  <1>2. CatalogInv /\ [LintNext]_vars => CatalogInv'
    <2>1. CatalogInv /\ [Next]_vars => CatalogInv'
      BY TypeStep, LocalsStep, MemStep, BeforeStep, FixStep, ShownStep DEF CatalogInv
    <2> QED
      BY <2>1, ShownFixed DEF LintNext
  <1>3. CatalogInv => CatalogCalm
    BY ShownIsOk, ListingIsWhole DEF CatalogInv, CatalogCalm
  <1> QED
    BY <1>1, <1>2, <1>3, PTL DEF LintSpec

===============================================================================
