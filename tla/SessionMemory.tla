------------------------------ MODULE SessionMemory ------------------------------
(***************************************************************************)
(* Questions about past sessions (hks.routing.session_memory): what a      *)
(* question asks for, which pages and chunks answer it, and the answers    *)
(* that are put together from all of them (hks.retrievers.session_memory). *)
(*                                                                         *)
(* What the expressions of a question say is given with it:                *)
(*   workspace, word   a workspace it names, or a word that may name one   *)
(*   status            it asks how far something has come                  *)
(*   ranges            for each pattern of a range of dates, in their      *)
(*                     order, the two dates found, or None                 *)
(*   date, day         a full date, "yesterday" or "today"                 *)
(* A memory is what a page or a chunk says of itself: [type, daily, date,  *)
(* workspace]; a date is a number of days, and None for none.              *)
(***************************************************************************)
EXTENDS Integers, Sequences, FiniteSets

CONSTANTS
    NoValue,        \* None of the code
    Today,          \* the date of the question
    Hashed          \* the pairs of ids of which one is the other and a hash

ASSUME SessionMemoryAssumption == Today \in Nat

NoMemory == [type |-> NoValue, daily |-> FALSE, date |-> NoValue, workspace |-> NoValue]

-----------------------------------------------------------------------------
(* analyze_session_memory_intent *)

\* _extract_workspace; a single word counts only in a question about a status.
AskedWorkspace(q) ==
    IF q.workspace # NoValue THEN q.workspace
    ELSE IF q.status THEN q.word ELSE NoValue

\* _normalize_range
Normalized(range) == IF range[1] <= range[2] THEN range ELSE <<range[2], range[1]>>

\* parse_session_memory_date_range: the first pattern that gives two dates.
AskedRange(q) ==
    LET valid == SelectSeq(q.ranges, LAMBDA range : range # NoValue)
    IN  IF valid = <<>> THEN NoValue ELSE Normalized(Head(valid))

AskedDate(q) ==
    IF q.date # NoValue THEN q.date
    ELSE CASE q.day = "yesterday" -> Today - 1
           [] q.day = "today"     -> Today
           [] OTHER               -> NoValue

\* A range goes before a date; a question with neither, and without a workspace,
\* is not about sessions.
Intent(q) ==
    LET range == AskedRange(q)
        date  == IF range = NoValue THEN AskedDate(q) ELSE NoValue
    IN  IF range = NoValue /\ date = NoValue /\ AskedWorkspace(q) = NoValue THEN NoValue
        ELSE [workspace |-> AskedWorkspace(q), status |-> q.status,
              range |-> range, date |-> date]

-----------------------------------------------------------------------------
(* metadata_matches_session_intent *)

\* workspace_id_matches
WorkspaceMatches(id, asked) == id = asked \/ <<id, asked>> \in Hashed

IsSessionMemory(m) == m.type # NoValue \/ m.daily

\* _metadata_matches_date
DateMatches(m, intent) ==
    /\ intent.date # NoValue => m.date = intent.date
    /\ intent.range # NoValue =>
          /\ m.date # NoValue
          /\ intent.range[1] <= m.date /\ m.date <= intent.range[2]

\* Of a range, also what names no workspace itself: its lines may.
MatchesIntent(m, intent) ==
    /\ DateMatches(m, intent)
    /\ IF intent.workspace # NoValue /\ m.workspace # NoValue
       THEN WorkspaceMatches(m.workspace, intent.workspace)
       ELSE /\ IsSessionMemory(m)
            /\ intent.workspace # NoValue => intent.range # NoValue

-----------------------------------------------------------------------------
(* Answers put together.  A piece is a page or a chunk that may be quoted: [of, *)
(* text, route, memory, lines], lines being the workspaces of the entry lines *)
(* that are found in its text: none in a page, whose lines have lost what they *)
(* named when the page became a candidate (_answer_text); at most one in a    *)
(* chunk (see Parsers), for a chunk is a single line.                        *)

\* is_date_range_intent: a range of a single day is none.
AsksForRange(intent) ==
    intent # NoValue /\ intent.range # NoValue /\ intent.range[1] # intent.range[2]

AsksForStatus(intent) ==
    intent # NoValue /\ intent.status /\ intent.workspace # NoValue

\* collect_workspace_vector_entries
MatchingEntries(chunks, intent) ==
    IF intent.workspace = NoValue THEN {}
    ELSE {c \in chunks : c.memory.type = "session_daily" /\ MatchesIntent(c.memory, intent)}

\* _narrow_candidate_for_workspace: nothing, or what is left of a piece.  A page that
\* names no workspace itself is always dropped.
Narrowed(p, workspace) ==
    LET lines == {w \in p.lines : WorkspaceMatches(w, workspace)} IN
    IF p.memory.workspace = NoValue
    THEN IF lines = {} THEN {} ELSE {[p EXCEPT !.lines = lines]}
    ELSE IF WorkspaceMatches(p.memory.workspace, workspace) THEN {p} ELSE {}

\* synthesize_date_range_summary: what it quotes, if anything; the entries of the
\* vector store go before the pages.
RangeSummary(pages, entries, intent) ==
    LET pieces == IF intent.workspace # NoValue /\ entries # {} THEN entries ELSE pages
    IN  IF intent.workspace = NoValue THEN pieces
        ELSE UNION {Narrowed(p, intent.workspace) : p \in pieces}

\* synthesize_workspace_status
WorkspaceStatus(entries, intent) ==
    {c \in entries : c.memory.workspace # NoValue
                     /\ WorkspaceMatches(c.memory.workspace, intent.workspace)}

-----------------------------------------------------------------------------
(* Properties *)

\* A piece is of a day that was asked for, and of the workspace, which it names itself
\* or by the entry line it is: not what stands before the last entry of that line.
FitsIntent(p, intent) ==
    /\ intent.workspace # NoValue =>
          IF p.memory.workspace # NoValue
          THEN WorkspaceMatches(p.memory.workspace, intent.workspace)
          ELSE p.lines # {} /\ \A w \in p.lines : WorkspaceMatches(w, intent.workspace)
    /\ DateMatches(p.memory, intent)

==================================================================================
