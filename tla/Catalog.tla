------------------------------- MODULE Catalog -------------------------------
(***************************************************************************)
(* `ks source list` and `ks source show` (hks.catalog): readers that take  *)
(* no lock.  They load the manifest and look whether the raw copy and the  *)
(* page of every entry exist, whatever a run of ingest is doing meanwhile. *)
(***************************************************************************)
EXTENDS IngestPipeline

\* _entry_issues: trees, graph and vectors are not looked at.
EntryIssues(f, e) ==
    (IF f \in DOMAIN disk.raw THEN {} ELSE {"raw_source_missing"}) \cup
    (IF Derived(e) /\ e.page \notin DOMAIN disk.pages THEN {"wiki_page_missing"} ELSE {})

\* Both issues are warnings; there are no errors.
Status(issues) == IF issues # {} THEN "warning" ELSE "ok"

SourceEntry(f) == [relpath |-> f, status |-> Status(EntryIssues(f, manifest[f]))]

\* validate_pagination
Limits  == {None} \cup 1 .. Len(FileOrder)
Offsets == 0 .. Len(FileOrder)

\* filtered[offset:][:limit]
Page(s, offset, limit) ==
    SubSeq(s, offset + 1,
           IF limit = None \/ offset + limit > Len(s) THEN Len(s) ELSE offset + limit)

\* The entries in the order of their relpaths; wanted stands for the filters of
\* format and relpath.  A lost manifest is an error, never an empty catalog.
list_sources(wanted, offset, limit) ==
    LET listed  == Sorted({f \in DOMAIN manifest : f \in wanted})
        entries == [i \in DOMAIN listed |-> SourceEntry(listed[i])]
    IN  IF manifest = Lost THEN "NOINPUT" ELSE Page(entries, offset, limit)

show_source(f) ==
    IF manifest = Lost THEN "NOINPUT"
    ELSE IF f \notin DOMAIN manifest THEN "SOURCE_NOT_FOUND"
    ELSE SourceEntry(f)

-----------------------------------------------------------------------------
(* Properties *)

\* The sources the run under way has taken out, or is taking out.
Leaving ==
    IF job.stage = "idle" THEN {}
    ELSE (DOMAIN manifest \ DOMAIN mem)
         \cup (IF job.stage \in Removal \cup {"forget"} THEN {job.file} ELSE {})

\* A reader that takes no lock is told of no issue with a source, in the middle
\* of any run, unless that run is removing the source (012 spec.md:51: a warning
\* says that something is missing); between runs a listing shows each source of the
\* manifest once, and cut at any limit it goes on where it was cut.
CatalogCalm ==
    /\ Undisturbed =>
          \A f \in DOMAIN manifest \ Leaving : show_source(f).status = "ok"
    /\ job.stage = "idle" /\ manifest # Lost =>
          LET all == list_sources(Files, 0, None) IN
          /\ \A f \in DOMAIN manifest :
                \E i \in DOMAIN all : \A j \in DOMAIN all : all[j].relpath = f <=> j = i
          /\ \A limit \in Limits \ {None} : \A offset \in Offsets :
                list_sources(Files, offset, limit) \o list_sources(Files, offset + limit, None)
                   = list_sources(Files, offset, None)

==============================================================================
